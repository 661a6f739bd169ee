------------------------ MODULE CircuitBreakerProofs ------------------------
(***************************************************************************)
(* Proofs about CircuitBreaker.  BInv is the inductive invariant: it adds  *)
(* to the types what is known of the half-open slots and of the time since *)
(* the last probe.  Nothing is assumed of how long a call takes.           *)
(***************************************************************************)
EXTENDS CircuitBreaker, FiniteSetTheorems, TLAPS

\* Every cancellation is booked: no cancellable call uses call().
Booked == \A c \in Cancellable : Mode[c] = "block"

\* Slots and probes belong to a half-open circuit; each probe under way has a
\* slot, and with Booked each slot a probe.
SlotsTaken ==
  /\ state # "half_open" => slots = 0 /\ fresh = {}
  /\ Cardinality(fresh) <= slots
  /\ Booked => Cardinality(fresh) = slots

\* The last probe is at least as long ago as the circuit is open, and the
\* probes that did not follow a pause have slots of the present round.
Rested ==
  /\ burst <= HalfOpenMaxCalls
  /\ state = "open" => quiet >= age
  /\ state = "half_open" => quiet >= RecoveryTimeout \/ burst <= slots

BInv ==
  /\ TypeOK
  /\ ClosedBelowThreshold
  /\ SlotsTaken
  /\ Rested

-----------------------------------------------------------------------------
LEMMA FreshIsFinite ==
  ASSUME TypeOK PROVE IsFiniteSet(fresh)
BY FS_Subset, BreakerAssumption DEF TypeOK

LEMMA InitBInv == Init => BInv
BY BreakerAssumption, FS_EmptySet
   DEF Init, BInv, TypeOK, ClosedBelowThreshold, SlotsTaken, Rested

\* What booking the outcome of a call does to the breaker.
LEMMA Booking ==
  ASSUME BInv, OnSuccess \/ OnFailure \/ UNCHANGED breaker
  PROVE  /\ state' \in {"closed", "open", "half_open"}
         /\ failures' \in 0..FailureThreshold
         /\ age' \in 0..RecoveryTimeout
         /\ state' = "closed" => failures' < FailureThreshold
         /\ state' = "half_open" => state = "half_open" /\ UNCHANGED breaker
         /\ state' # "half_open" => slots' = 0
         /\ state' = "open" => age' = 0 \/ (state = "open" /\ age' = age)
<1> USE BreakerAssumption
<1>1. CASE OnSuccess
  BY <1>1 DEF OnSuccess, Become, BInv, TypeOK, SlotsTaken
<1>2. CASE OnFailure
  BY <1>2 DEF OnFailure, Become, Least, BInv, TypeOK, SlotsTaken,
              ClosedBelowThreshold
<1>3. CASE UNCHANGED breaker
  BY <1>3 DEF breaker, BInv, TypeOK, SlotsTaken, ClosedBelowThreshold
<1> QED BY <1>1, <1>2, <1>3

\* A call that lands, its outcome booked or, for a cancelled call(), not.
LEMMA Landing ==
  ASSUME BInv, NEW c \in flying, Land(c),
         OnSuccess \/ OnFailure \/ UNCHANGED breaker,
         Booked => OnSuccess \/ OnFailure
  PROVE  BInv'
<1> USE BreakerAssumption
<1>1. TypeOK /\ SlotsTaken
  BY DEF BInv
<1>2. TypeOK'
  <2>1. slots' \in 0..HalfOpenMaxCalls
    BY <1>1, Booking DEF TypeOK, breaker
  <2>2. flying' \subseteq Callers /\ fresh' \subseteq flying'
    BY <1>1 DEF TypeOK, Land
  <2>3. quiet' \in 0..RecoveryTimeout /\ burst' \in Nat
    BY <1>1 DEF TypeOK, Land, Settle, upstream
  <2> QED BY <2>1, <2>2, <2>3, Booking DEF TypeOK
<1>3. ClosedBelowThreshold'
  BY Booking DEF ClosedBelowThreshold
<1>4. SlotsTaken'
  <2>1. CASE state' # "half_open"
    BY <2>1, Booking, FS_EmptySet DEF Land, SlotsTaken
  <2>2. CASE state' = "half_open"
    <3>1. state = "half_open" /\ slots' = slots /\ fresh' = fresh \ {c}
      BY <2>2, Booking DEF Land, breaker
    <3>2. ~Booked
      <4>1. ASSUME OnSuccess \/ OnFailure PROVE FALSE
        BY <4>1, <2>2, <3>1 DEF OnSuccess, OnFailure, Become
      <4> QED BY <4>1
    <3>3. IsFiniteSet(fresh)
      BY <1>1, FreshIsFinite
    <3>4. Cardinality(fresh') \in Nat /\ Cardinality(fresh') <= Cardinality(fresh)
      BY <3>1, <3>3, FS_Subset, FS_CardinalityType
    <3>5. Cardinality(fresh) \in Nat /\ slots \in Nat
      BY <3>3, FS_CardinalityType, <1>1 DEF TypeOK
    <3> QED BY <1>1, <2>2, <3>1, <3>2, <3>4, <3>5 DEF SlotsTaken, Booked
  <2> QED BY <2>1, <2>2
<1>5. Rested'
  <2>1. CASE state' = "closed"
    BY <2>1 DEF Land, Settle, Rested
  <2>2. CASE state' # "closed"
    <3>1. Rested /\ UNCHANGED <<quiet, burst>>
      BY <2>2 DEF Land, Settle, upstream, BInv
    <3>2. age \in Nat /\ quiet \in Nat
      BY <1>1 DEF TypeOK
    <3>3. state' = "open" => quiet' >= age'
      BY <3>1, <3>2, Booking DEF Rested
    <3>4. state' = "half_open" => quiet' >= RecoveryTimeout \/ burst' <= slots'
      BY <3>1, Booking DEF Rested, breaker
    <3> QED BY <3>1, <3>3, <3>4 DEF Rested
  <2> QED BY <2>1, <2>2
<1> QED BY <1>2, <1>3, <1>4, <1>5 DEF BInv

\* A circuit that is seen half-open has rested since its last probe.
LEMMA SeenRested ==
  ASSUME BInv, state = "open", Seen = "half_open"
  PROVE  quiet >= RecoveryTimeout
BY BreakerAssumption DEF Seen, BInv, TypeOK, Rested

LEMMA Admitting ==
  ASSUME BInv, NEW c \in Callers, Admit(c)
  PROVE  BInv'
<1> USE BreakerAssumption
<1> DEFINE taken == IF state = "open" THEN 0 ELSE slots
<1>1. TypeOK /\ SlotsTaken /\ ClosedBelowThreshold
  BY DEF BInv
<1>2. /\ state' = Seen
      /\ Seen \in {"closed", "half_open"}
      /\ Seen = "closed" => state = "closed"
  BY <1>1 DEF Admit, Seen, TypeOK
<1>3. taken \in 0..HalfOpenMaxCalls
  BY <1>1 DEF TypeOK
<1>4. TypeOK'
  <2>1. slots' \in 0..HalfOpenMaxCalls
    BY <1>1, <1>2, <1>3 DEF Admit, TypeOK
  <2>2. flying' \subseteq Callers /\ fresh' \subseteq flying'
    BY <1>1, <1>2 DEF Admit, TypeOK
  <2>3. quiet' \in 0..RecoveryTimeout /\ burst' \in Nat
    BY <1>1 DEF Admit, Probe, TypeOK
  <2> QED BY <1>1, <1>2, <2>1, <2>2, <2>3 DEF Admit, TypeOK
<1>5. ClosedBelowThreshold'
  BY <1>1, <1>2 DEF Admit, ClosedBelowThreshold
<1>6. SlotsTaken'
  <2>1. CASE Seen = "closed"
    BY <1>1, <1>2, <2>1 DEF Admit, SlotsTaken, Booked
  <2>2. CASE Seen = "half_open"
    <3>1. IsFiniteSet(fresh) /\ c \notin fresh
      BY <1>1, FreshIsFinite DEF Admit, TypeOK
    <3>2. fresh' = fresh \cup {c} /\ slots' = taken + 1
      BY <2>2 DEF Admit
    <3>3. Cardinality(fresh') = Cardinality(fresh) + 1
      BY <3>1, <3>2, FS_AddElement
    <3>4. Cardinality(fresh) \in Nat
      BY <3>1, FS_CardinalityType
    <3>5. Cardinality(fresh) <= taken /\ (Booked => Cardinality(fresh) = taken)
      BY <1>1, FS_EmptySet DEF SlotsTaken
    <3> QED BY <1>2, <1>3, <2>2, <3>2, <3>3, <3>4, <3>5 DEF SlotsTaken, Booked
  <2> QED BY <1>2, <2>1, <2>2
<1>7. Rested'
  <2>1. Rested /\ quiet \in Nat /\ burst \in Nat
    BY <1>1 DEF BInv, TypeOK
  <2>2. CASE Seen = "closed"
    BY <1>2, <2>1, <2>2 DEF Admit, Probe, Rested
  <2>3. CASE Seen = "half_open"
    <3>1. quiet >= RecoveryTimeout \/ burst <= taken
      BY <2>1, <2>3, SeenRested DEF Rested, Seen
    <3>2. burst' = (IF quiet >= RecoveryTimeout THEN 1 ELSE burst + 1)
      BY <2>3 DEF Admit, Probe
    <3>3. slots' = taken + 1 /\ taken < HalfOpenMaxCalls
      BY <2>3 DEF Admit
    <3>4. burst' <= slots' /\ burst' <= HalfOpenMaxCalls
      BY <1>3, <2>1, <3>1, <3>2, <3>3
    <3> QED BY <1>2, <2>3, <3>4 DEF Rested
  <2> QED BY <1>2, <2>2, <2>3
<1> QED BY <1>4, <1>5, <1>6, <1>7 DEF BInv

LEMMA StepBInv == BInv /\ [Next]_vars => BInv'
<1> SUFFICES ASSUME BInv, [Next]_vars PROVE BInv'
  OBVIOUS
<1> USE BreakerAssumption
<1>0. Booked' = Booked
  BY DEF Booked
<1>1. ASSUME NEW c \in Callers, Admit(c) PROVE BInv'
  BY <1>1, Admitting
<1>2. ASSUME NEW c \in Callers, Succeed(c) PROVE BInv'
  BY <1>2, Landing DEF Succeed
<1>3. ASSUME NEW c \in Callers, Fail(c) PROVE BInv'
  BY <1>3, Landing DEF Fail
<1>4. ASSUME NEW c \in Callers, Cancel(c) PROVE BInv'
  <2>1. c \in flying /\ Land(c)
    BY <1>4 DEF Cancel
  <2>2. OnSuccess \/ OnFailure \/ UNCHANGED breaker
    BY <1>4 DEF Cancel
  <2>3. Booked => OnSuccess \/ OnFailure
    BY <1>4 DEF Cancel, Booked
  <2> QED BY <2>1, <2>2, <2>3, Landing
<1>5. CASE Look
  <2>1. TypeOK' /\ ClosedBelowThreshold'
    BY <1>5 DEF Look, Become, BInv, TypeOK, ClosedBelowThreshold
  <2>2. SlotsTaken'
    BY <1>5 DEF Look, Become, BInv, SlotsTaken, Booked
  <2>3. Rested'
    BY <1>5, SeenRested DEF Look, Become, BInv, Rested
  <2> QED BY <2>1, <2>2, <2>3 DEF BInv
<1>6. CASE Reset
  <2>1. TypeOK' /\ ClosedBelowThreshold'
    BY <1>6 DEF Reset, Become, Settle, BInv, TypeOK, ClosedBelowThreshold
  <2>2. SlotsTaken'
    BY <1>6, FS_EmptySet DEF Reset, Become, BInv, SlotsTaken
  <2>3. Rested'
    BY <1>6 DEF Reset, Become, Settle, Rested
  <2> QED BY <2>1, <2>2, <2>3 DEF BInv
<1>7. CASE Tick
  <2>1. TypeOK'
    BY <1>7 DEF Tick, Least, BInv, TypeOK
  <2>2. ClosedBelowThreshold' /\ SlotsTaken'
    BY <1>0, <1>7 DEF Tick, BInv, ClosedBelowThreshold, SlotsTaken
  <2>3. Rested'
    <3>1. age \in 0..RecoveryTimeout /\ quiet \in 0..RecoveryTimeout
      BY DEF BInv, TypeOK
    <3>2. /\ age' = (IF age + 1 <= RecoveryTimeout THEN age + 1 ELSE RecoveryTimeout)
          /\ quiet' = (IF quiet + 1 <= RecoveryTimeout THEN quiet + 1
                                                       ELSE RecoveryTimeout)
          /\ UNCHANGED <<state, slots, burst>>
      BY <1>7 DEF Tick, Least
    <3> QED BY <3>1, <3>2 DEF BInv, Rested
  <2> QED BY <2>1, <2>2, <2>3 DEF BInv
<1>8. CASE UNCHANGED vars
  BY <1>8 DEF vars, BInv, TypeOK, ClosedBelowThreshold, SlotsTaken, Booked,
              Rested
<1> QED BY <1>1, <1>2, <1>3, <1>4, <1>5, <1>6, <1>7, <1>8 DEF Next

LEMMA BInvariant == Spec => []BInv
BY InitBInv, StepBInv, PTL DEF Spec

-----------------------------------------------------------------------------
\* The breaker's counters stay within their limits whatever is called, late,
\* failed or cancelled.
THEOREM TypeCorrect == Spec => []TypeOK
<1>1. BInv => TypeOK
  BY DEF BInv
<1> QED BY <1>1, BInvariant, PTL

\* A closed circuit has counted fewer failures than failure_threshold, late
\* results included (on_failure, _transition).
THEOREM ClosedCircuitBelowThreshold == Spec => []ClosedBelowThreshold
<1>1. BInv => ClosedBelowThreshold
  BY DEF BInv
<1> QED BY <1>1, BInvariant, PTL

\* If no cancellable call goes through call() or the transport, a taken slot
\* is a probe under way (before_call, __aexit__).
THEOREM SlotsAreProbes ==
  ASSUME Booked
  PROVE  Spec => []ProbeInFlight
<1>1. BInv => ProbeInFlight
  BY DEF BInv, SlotsTaken, ProbeInFlight
<1> QED BY <1>1, BInvariant, PTL

\* Unless it closes, a circuit that has opened lets at most half_open_max_calls
\* calls through before it rests for recovery_timeout, however long calls take
\* and whichever of them report late or are cancelled (before_call, on_failure).
THEOREM ProbesAreSpaced == Spec => []Spared
<1>1. BInv => Spared
  BY DEF BInv, Rested, Spared
<1> QED BY <1>1, BInvariant, PTL
=============================================================================
