SPECIFICATION Spec
CONSTANTS
  Ranked <- MCRanked
  Families <- MCFamilies
  AllowedAzp = {"shop"}
INVARIANTS
  Admission
  RuleAsStated
  ProblemsTrue
