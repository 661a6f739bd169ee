----------------------------- MODULE MCRateLimit -----------------------------
(* Instances of RateLimit for TLC. *)
EXTENDS RateLimit

CONSTANTS k1, k2

\* Windows of one second, of one and a half, and of two; and rates that
\* parse_rate refuses.
SomeRates == {
  [form |-> "text", times |-> 2, multiple |-> 1, unit |-> "s"],
  [form |-> "text", times |-> 1, multiple |-> 2, unit |-> "second"],
  [form |-> "tuple", times |-> 2, ticks |-> 3],
  [form |-> "text", times |-> 0, multiple |-> 1, unit |-> "s"],
  [form |-> "text", times |-> 1, multiple |-> 1, unit |-> "week"],
  [form |-> "tuple", times |-> 1, ticks |-> 0]}
=============================================================================
