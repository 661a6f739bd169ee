SPECIFICATION Spec
CONSTANTS
  Ranked <- MCRanked
  Families <- MCFamilies
  AllowedAzp = {"shop"}
INVARIANT AuditSeesEveryRoute
