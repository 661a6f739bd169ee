--------------------------- MODULE MCRequestStack ---------------------------
(* Instances of RequestStack for TLC. *)
EXTENDS RequestStack, TLC

CONSTANTS r1, r2, r3, a, b

Faults(lapse, lost, outage, cancel, disconnect) ==
  ("lapse" :> lapse) @@ ("lost" :> lost) @@ ("outage" :> outage)
    @@ ("cancel" :> cancel) @@ ("disconnect" :> disconnect)

\* Each of the requests that get inside may be cancelled, the rest happens once.
AnyCancelled == Faults(0, 0, 1, 3, 1)
OnlyCancelled == Faults(0, 0, 0, 3, 0)

\* r1 sends a body of the largest size that is allowed, the others send one
\* message too many; a length that is declared is the true one.
Bodies == [r \in Requests |-> IF r = r1 THEN <<a, b>> ELSE <<a, b, b>>]
Declared == [r \in Requests |-> {0, Len(Body[r])}]
=============================================================================
