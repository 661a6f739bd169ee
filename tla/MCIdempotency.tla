--------------------------- MODULE MCIdempotency ---------------------------
(* Instances of Idempotency for TLC. *)
EXTENDS Idempotency, TLC

CONSTANTS r1, r2, r3, a, b

\* Two requests send the same two-message body, the third differs at its end.
TwoBodies == [r \in Requests |-> IF r = r3 THEN <<a, a>> ELSE <<a, b>>]

Faults(lapse, lost, outage, cancel, disconnect) ==
  ("lapse" :> lapse) @@ ("lost" :> lost) @@ ("outage" :> outage)
    @@ ("cancel" :> cancel) @@ ("disconnect" :> disconnect)

NoFaults       == Faults(0, 0, 0, 0, 0)
SomeFaults     == Faults(1, 1, 1, 1, 1)

PairSymmetry == Permutations({r1, r2})
=============================================================================
