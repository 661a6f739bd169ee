---------------------------- MODULE MCCorrelation -----------------------------
(* The instance of Correlation for TLC. *)
EXTENDS Correlation, TLC

CONSTANTS t1, t2, t3

Symmetry == Permutations(Tasks)
=============================================================================
