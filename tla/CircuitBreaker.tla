--------------------------- MODULE CircuitBreaker ---------------------------
(***************************************************************************)
(* AsyncCircuitBreaker of utils/circuit_breaker.py and its three ways of   *)
(* use: call(), CircuitBreakerTransport (http/client.py), which books its  *)
(* outcomes in the same way, and the context manager.  The tasks of one    *)
(* event loop share a breaker; its own methods do not wait, so a call is   *)
(* two steps, and others happen between them.                              *)
(*                                                                         *)
(* Time is discrete.  The clock is read only to compare the time since the *)
(* circuit opened with recovery_timeout, so "age" is that time and stops   *)
(* there; in the same way "failures" stops at the threshold.  The breaker  *)
(* has no timeout of its own: a call may be under way for any time, and    *)
(* report in another state than the one it was admitted in.                *)
(***************************************************************************)
EXTENDS Naturals, FiniteSets

CONSTANTS
  Callers,            \* tasks that call the upstream, one call at a time each
  Mode,               \* Mode[c]: "call" (or the transport), or "block"
  Cancellable,        \* the callers whose calls may be cancelled
  FailureThreshold,   \* failure_threshold
  RecoveryTimeout,    \* recovery_timeout, in ticks
  HalfOpenMaxCalls    \* half_open_max_calls

ASSUME BreakerAssumption ==
  /\ IsFiniteSet(Callers)
  /\ Mode \in [Callers -> {"call", "block"}]
  /\ Cancellable \subseteq Callers
  /\ FailureThreshold \in Nat \ {0}
  /\ RecoveryTimeout \in Nat
  /\ HalfOpenMaxCalls \in Nat \ {0}

VARIABLES
  state,      \* _state
  failures,   \* _failure_count, up to the threshold
  age,        \* now - _opened_at, up to recovery_timeout
  slots,      \* _half_open_calls
  flying,     \* the callers whose call was admitted and is under way
  fresh,      \* history: those admitted since the circuit last became half-open
  quiet,      \* history: the time since a call was last admitted half-open, up
              \* to recovery_timeout, which it also is once the circuit closes
  burst       \* history: the calls admitted half-open since then, or since a
              \* pause of recovery_timeout between two of them

breaker == <<state, failures, age, slots>>
upstream == <<quiet, burst>>
vars == <<state, failures, age, slots, flying, fresh, quiet, burst>>

Least(m, n) == IF m <= n THEN m ELSE n

Init ==
  /\ state = "closed"
  /\ failures = 0
  /\ age = RecoveryTimeout
  /\ slots = 0
  /\ flying = {}
  /\ fresh = {}
  /\ quiet = RecoveryTimeout
  /\ burst = 0

-----------------------------------------------------------------------------
(* The methods of the breaker. *)

\* Slip: the time of opening is kept when the circuit opens again.
BecomeKeepsAge(s) ==
  /\ state' = s
  /\ age' = age
  /\ slots' = IF s = state THEN slots ELSE 0

\* Slip: the slots are given back only when the circuit closes.
BecomeKeepsSlots(s) ==
  /\ state' = s
  /\ age' = IF s = "open" /\ s # state THEN 0 ELSE age
  /\ slots' = IF s = "closed" /\ s # state THEN 0 ELSE slots

\* _transition, but for the failure count.
Become(s) ==
  /\ state' = s
  /\ age' = IF s = "open" /\ s # state THEN 0 ELSE age
  /\ slots' = IF s = state THEN slots ELSE 0

\* The property "state": an open circuit is seen half-open after its time.
Seen == IF state = "open" /\ age >= RecoveryTimeout THEN "half_open" ELSE state

\* on_success, with the part of _transition that clears the count.
OnSuccess ==
  /\ Become(IF state = "half_open" THEN "closed" ELSE state)
  /\ failures' = 0

\* on_failure
OnFailure ==
  IF state = "half_open"
  THEN Become("open") /\ failures' = failures
  ELSE /\ Become(IF failures + 1 >= FailureThreshold THEN "open" ELSE state)
       /\ failures' = Least(failures + 1, FailureThreshold)

-----------------------------------------------------------------------------
\* History: a call is admitted, as a probe or not.
Probe(isProbe) ==
  /\ quiet' = IF isProbe THEN 0 ELSE quiet
  /\ burst' = IF ~isProbe THEN burst
              ELSE IF quiet >= RecoveryTimeout THEN 1 ELSE burst + 1

\* History: a circuit that closes starts afresh.
Settle ==
  IF state' = "closed"
  THEN quiet' = RecoveryTimeout /\ burst' = 0
  ELSE UNCHANGED upstream

\* Slip: ">" for ">=" in before_call.
AdmitOneMore(c) ==
  LET taken == IF state = "open" THEN 0 ELSE slots IN
    /\ c \notin flying
    /\ Seen # "open"
    /\ Seen = "half_open" => taken <= HalfOpenMaxCalls
    /\ state' = Seen
    /\ slots' = IF Seen = "half_open" THEN taken + 1 ELSE slots
    /\ flying' = flying \cup {c}
    /\ fresh' = IF Seen = "half_open" THEN fresh \cup {c} ELSE fresh
    /\ Probe(Seen = "half_open")
    /\ UNCHANGED <<failures, age>>

\* before_call admits a call.  One that it refuses changes nothing, except
\* that an open circuit may be seen half-open; then it has a slot, though.
Admit(c) ==
  LET taken == IF state = "open" THEN 0 ELSE slots IN
    /\ c \notin flying
    /\ Seen # "open"
    /\ Seen = "half_open" => taken < HalfOpenMaxCalls
    /\ state' = Seen
    /\ slots' = IF Seen = "half_open" THEN taken + 1 ELSE slots
    /\ flying' = flying \cup {c}
    /\ fresh' = IF Seen = "half_open" THEN fresh \cup {c} ELSE fresh
    /\ Probe(Seen = "half_open")
    /\ UNCHANGED <<failures, age>>

\* The call of c is over; a half-open round ends with the state.
Land(c) ==
  /\ flying' = flying \ {c}
  /\ fresh' = IF state' = "half_open" THEN fresh \ {c} ELSE {}
  /\ Settle

\* The upstream answers; for the transport, with less than 500.
Succeed(c) == c \in flying /\ OnSuccess /\ Land(c)

\* An Exception; for the transport, or a 5xx.
Fail(c) == c \in flying /\ OnFailure /\ Land(c)

\* Slip: __aexit__ books Exceptions only, as call() does.
CancelUnbooked(c) ==
  /\ c \in flying \cap Cancellable
  /\ UNCHANGED breaker
  /\ Land(c)

\* CancelledError.  __aexit__ books a failure; "except Exception" does not see
\* it, so call() and the transport book nothing.
Cancel(c) ==
  /\ c \in flying \cap Cancellable
  /\ IF Mode[c] = "block" THEN OnFailure ELSE UNCHANGED breaker
  /\ Land(c)

\* Anything that reads the property "state" may be what makes it half-open.
Look ==
  /\ state = "open"
  /\ Seen = "half_open"
  /\ Become("half_open")
  /\ UNCHANGED <<failures, flying, fresh, quiet, burst>>

\* reset(): does not clear the count of a circuit that is closed already.
Reset ==
  /\ state # "closed"
  /\ Become("closed")
  /\ failures' = 0
  /\ fresh' = {}
  /\ Settle
  /\ UNCHANGED flying

\* Time passes, until nothing is left to wait for.
Tick ==
  /\ age < RecoveryTimeout \/ quiet < RecoveryTimeout
  /\ age' = Least(age + 1, RecoveryTimeout)
  /\ quiet' = Least(quiet + 1, RecoveryTimeout)
  /\ UNCHANGED <<state, failures, slots, flying, fresh, burst>>

Next ==
  \/ \E c \in Callers : Admit(c) \/ Succeed(c) \/ Fail(c) \/ Cancel(c)
  \/ Look
  \/ Reset
  \/ Tick

Spec == Init /\ [][Next]_vars

\* The tasks keep calling, calls end, and time passes.
Fairness ==
  /\ \A c \in Callers : WF_vars(Admit(c)) /\ WF_vars(Succeed(c) \/ Fail(c))
  /\ WF_vars(Tick)

FairSpec == Spec /\ Fairness

-----------------------------------------------------------------------------
(* Properties. *)

TypeOK ==
  /\ state \in {"closed", "open", "half_open"}
  /\ failures \in 0..FailureThreshold
  /\ age \in 0..RecoveryTimeout
  /\ slots \in 0..HalfOpenMaxCalls
  /\ flying \subseteq Callers
  /\ fresh \subseteq flying
  /\ quiet \in 0..RecoveryTimeout
  /\ burst \in Nat

\* A closed circuit tolerates at least one more failure than it has counted,
\* whatever late results were booked while it was not closed (on_failure).
ClosedBelowThreshold == state = "closed" => failures < FailureThreshold

\* "To prevent retry storms": unless it closes, a circuit that has opened lets
\* at most half_open_max_calls calls through before it rests for
\* recovery_timeout, whichever earlier calls report, or are cancelled, between
\* (before_call, on_failure, _transition).
Spared == burst <= HalfOpenMaxCalls

\* "Success closes, failure re-opens": what ends a half-open round is the
\* result of a probe of that round, or a reset, and not that of a call that
\* was admitted before it (on_success, on_failure).
ProbeDecides ==
  [][state = "half_open" /\ state' # "half_open" =>
       \/ \E c \in fresh : c \notin flying'
       \/ flying' = flying]_vars

\* "Half-open (probe in flight)": a slot that is taken is a probe under way,
\* so a refusal ends with it ("pair every successful admission").
ProbeInFlight == state = "half_open" => slots = Cardinality(fresh)

\* Once no call fails or is cancelled any more, the circuit closes: no slot,
\* count or time of the past keeps a recovered upstream shut out.
Recovers ==
  <>[][\A c \in Callers : ~Fail(c) /\ ~Cancel(c)]_vars
    => []<>(state = "closed")
=============================================================================
