----------------------------- MODULE RateWindow ------------------------------
(***************************************************************************)
(* What a rate limiter of cache/rate_limit.py promises: of one key's       *)
(* requests, those it has let through in any stretch of one window are at  *)
(* most "bound".  A limiter that is "forgetful" may lose the account of a  *)
(* key.  granted[k] holds the ages of the grants younger than a window.    *)
(***************************************************************************)
EXTENDS Naturals, Sequences

CONSTANT Keys

VARIABLES granted, bound, window, forgetful

windowVars == <<granted, bound, window, forgetful>>

WindowInit ==
  /\ granted = [k \in Keys |-> <<>>]
  /\ bound \in Nat /\ window \in Nat
  /\ forgetful \in BOOLEAN

\* A grant to k; the accounts of the keys in Lost are given up.
Grant(k) ==
  /\ Len(granted[k]) < bound
  /\ \E Lost \in SUBSET (Keys \ {k}) :
       /\ Lost # {} => forgetful
       /\ granted' = [j \in Keys |->
                        IF j \in Lost THEN <<>>
                        ELSE IF j = k THEN Append(granted[j], 0)
                        ELSE granted[j]]
  /\ UNCHANGED <<bound, window, forgetful>>

Forget ==
  /\ forgetful
  /\ \E Lost \in SUBSET Keys :
       granted' = [j \in Keys |-> IF j \in Lost THEN <<>> ELSE granted[j]]
  /\ UNCHANGED <<bound, window, forgetful>>

\* Ages, oldest first, from the first that is younger than a window.
Young(s) ==
  LET first == CHOOSE i \in 1..(Len(s) + 1) :
                 /\ \A j \in 1..(i - 1) : s[j] >= window
                 /\ i <= Len(s) => s[i] < window
  IN  SubSeq(s, first, Len(s))

\* The grants of s one tick later.
Older(s) == Young([i \in DOMAIN s |-> s[i] + 1])

Pass ==
  /\ granted' = [k \in Keys |-> Older(granted[k])]
  /\ UNCHANGED <<bound, window, forgetful>>

WindowNext == (\E k \in Keys : Grant(k)) \/ Forget \/ Pass

WindowSpec == WindowInit /\ [][WindowNext]_windowVars
=============================================================================
