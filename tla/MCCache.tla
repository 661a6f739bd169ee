------------------------------- MODULE MCCache -------------------------------
(* Instances of Cache for TLC. *)
EXTENDS Cache

CONSTANTS t1, t2

\* One failure of each kind but a late extension: there is no extension.
OneOfEach == [k \in FaultKinds |-> IF k = "late" THEN 0 ELSE 1]
=============================================================================
