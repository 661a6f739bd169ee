---------------------------- MODULE RequestStack ----------------------------
(***************************************************************************)
(* The layers apply_standard_middleware wraps around IdempotencyMiddleware *)
(* that have state of their own: the body limit, the timeout, the request  *)
(* context and the metrics, outermost last.  Their steps are the steps of  *)
(* Idempotency seen through their send and receive wrappers; what they do  *)
(* once the inner layers are left touches one request only and is one      *)
(* step, Unwind.  CORS, security headers and gzip only rewrite messages.   *)
(*                                                                         *)
(* A body message counts as one byte for the limit.                        *)
(***************************************************************************)
EXTENDS Idempotency, FiniteSets

CONSTANTS
  MaxBodyBytes,    \* HTTP__MAX_BODY_BYTES
  ContentLength    \* ContentLength[r]: what it may declare, 0 for no header

ASSUME StackAssumption ==
  /\ MaxBodyBytes \in Nat \ {0}
  /\ ContentLength \in [Requests -> SUBSET Nat]

VARIABLES
  deadline,   \* the cancel scope of TimeoutMiddleware
  tooBig,     \* BodyTooLarge was raised
  wire,       \* statuses of the http.response.start messages of a request
  measured,   \* http.response.status_code of the duration metric, 0 before
  logged,     \* status_code of the access-log line, 0 when there is none
  active,     \* http.server.active_requests
  closed      \* requests the whole stack is done with

stackVars == <<deadline, tooBig, wire, measured, logged, active, closed>>
allVars == <<vars, stackVars>>

StackInit ==
  /\ Init
  /\ deadline = [r \in Requests |-> "unset"]
  /\ tooBig = [r \in Requests |-> FALSE]
  /\ wire = [r \in Requests |-> <<>>]
  /\ measured = [r \in Requests |-> 0]
  /\ logged = [r \in Requests |-> 0]
  /\ active = 0
  /\ closed = {}

Started(r) == wire[r] # <<>>

\* A request passes the outer layers; the timeout's scope is entered.
Enter(r) ==
  /\ Arrive(r)
  /\ r \notin closed
  /\ \E n \in ContentLength[r] : n <= MaxBodyBytes
  /\ deadline' = [deadline EXCEPT ![r] = "armed"]
  /\ active' = active + 1
  /\ UNCHANGED <<tooBig, wire, measured, logged, closed>>

\* BodySizeLimitMiddleware: the declared length alone is too much, so a 413
\* goes out through the context and the metrics before anything is read.
Reject(r) ==
  /\ pc[r] = "arrive"
  /\ r \notin closed
  /\ \E n \in ContentLength[r] : n > MaxBodyBytes
  /\ wire' = [wire EXCEPT ![r] = <<413>>]
  /\ measured' = [measured EXCEPT ![r] = 413]
  /\ logged' = [logged EXCEPT ![r] = 413]
  /\ closed' = closed \cup {r}
  /\ UNCHANGED <<vars, deadline, tooBig, active>>

\* Slip: the limit is tested before the message is counted.
FitsBefore(r) == Len(buf[r]) <= MaxBodyBytes

\* counting_receive: the message that passes the limit is never handed on.
Fits(r) == Len(buf[r]) + 1 <= MaxBodyBytes

Receive(r) ==
  /\ ReadBody(r)
  /\ deadline[r] # "fired"
  /\ Fits(r)
  /\ UNCHANGED stackVars

ReceiveTooMuch(r) ==
  /\ ReceiveRaises(r)
  /\ deadline[r] # "fired"
  /\ ~Fits(r)
  /\ tooBig' = [tooBig EXCEPT ![r] = TRUE]
  /\ UNCHANGED <<deadline, wire, measured, logged, active, closed>>

\* The same for an application that reads the body of a request that went
\* straight to it.
ReadTooMuch(r) ==
  /\ pc[r] = "open"
  /\ r \notin Keyed
  /\ Len(Body[r]) > MaxBodyBytes
  /\ HandlerRaise(r)
  /\ tooBig' = [tooBig EXCEPT ![r] = TRUE]
  /\ UNCHANGED <<deadline, wire, measured, logged, active, closed>>

\* The send wrappers: a start message reaches the wire and lifts the deadline.
\* A scope that has been cancelled stays cancelled.
Sending(r) ==
  /\ IF answer'[r] = answer[r] THEN UNCHANGED <<wire, deadline>>
     ELSE /\ wire' = [wire EXCEPT ![r] = Append(@, answer'[r].status)]
          /\ deadline' = [deadline EXCEPT ![r] =
                            IF @ = "armed" THEN "lifted" ELSE @]
  /\ UNCHANGED <<tooBig, measured, logged, active, closed>>

\* The steps that wait for Redis, and those of the application: code that does
\* not wait for anything still runs when the scope has been cancelled.
Redis(r) ==
  /\ ClaimSet(r) \/ ClaimGet(r) \/ Record(r) \/ Release(r) \/ LoseReply(r)
  /\ deadline[r] # "fired"
  /\ Sending(r)

RedisFails(r) == RedisDown(r) /\ deadline[r] # "fired" /\ Sending(r)

Handle(r) == Application(r) /\ Sending(r)

ClientLeaves(r) ==
  /\ Disconnect(r)
  /\ deadline[r] # "fired"
  /\ UNCHANGED stackVars

\* Slip: the clock starts only when the application is called.
FireLate(r) ==
  /\ deadline[r] = "armed"
  /\ pc[r] \in {"run", "open"}
  /\ deadline' = [deadline EXCEPT ![r] = "fired"]
  /\ UNCHANGED <<vars, tooBig, wire, measured, logged, active, closed>>

\* The deadline passes: the scope is cancelled ...
Fire(r) ==
  /\ deadline[r] = "armed"
  /\ ~Over(r)
  /\ deadline' = [deadline EXCEPT ![r] = "fired"]
  /\ UNCHANGED <<vars, tooBig, wire, measured, logged, active, closed>>

\* ... and the request gets CancelledError at its next await.
Deliver(r) ==
  /\ deadline[r] = "fired"
  /\ Stop(r)
  /\ UNCHANGED stackVars

\* The server is stopped: the same exception, from outside every layer.
Shutdown(r) ==
  /\ deadline[r] \in {"armed", "lifted"}
  /\ Stop(r)
  /\ deadline' = [deadline EXCEPT ![r] = "closed"]
  /\ UNCHANGED <<tooBig, wire, measured, logged, active, closed>>

-----------------------------------------------------------------------------
TimedOut(r) == pc[r] = "cancelled" /\ deadline[r] = "fired"

\* Slip: the 504 does not ask whether the response has started.
LateAnswerTwice(r) ==
  IF TimedOut(r) THEN <<504>>
  ELSE IF Started(r) THEN <<>>
  ELSE IF tooBig[r] THEN <<413>>
  ELSE IF pc[r] = "raised" THEN <<500>>
  ELSE <<>>

\* What the outer layers still send: the body limit its 413, the timeout its
\* 504, the request context its 500, each only when nothing has started.
LateAnswer(r) ==
  IF Started(r) THEN <<>>
  ELSE IF tooBig[r] THEN <<413>>
  ELSE IF TimedOut(r) THEN <<504>>
  ELSE IF pc[r] = "raised" THEN <<500>>
  ELSE <<>>

\* Whether the request context is left by a return, not by an exception.
Returns(r) ==
  \/ pc[r] = "returned"
  \/ pc[r] = "raised" /\ (tooBig[r] \/ ~Started(r))
  \/ TimedOut(r)

\* Slip: every request that did not end well is counted as a 500.
StatusOfFailure(sends) ==
  IF sends = <<>> \/ sends[Len(sends)] >= 500 THEN 500 ELSE sends[Len(sends)]

StatusOf(sends) == IF sends = <<>> THEN 500 ELSE sends[Len(sends)]

Unwind(r) ==
  /\ Over(r)
  /\ r \notin closed
  /\ wire' = [wire EXCEPT ![r] = @ \o LateAnswer(r)]
  /\ measured' = [measured EXCEPT ![r] = StatusOf(wire'[r])]
  /\ logged' = [logged EXCEPT ![r] = IF Returns(r) THEN StatusOf(wire'[r]) ELSE 0]
  /\ active' = active - 1
  /\ closed' = closed \cup {r}
  /\ UNCHANGED <<vars, deadline, tooBig>>

KeyExpires == Expire /\ UNCHANGED stackVars

AllClosed == closed = Requests /\ UNCHANGED allVars

Layer(r) ==
  \/ Enter(r) \/ Reject(r)
  \/ Receive(r) \/ ReceiveTooMuch(r) \/ ReadTooMuch(r)
  \/ Redis(r) \/ RedisFails(r)
  \/ Handle(r)
  \/ ClientLeaves(r)
  \/ Fire(r) \/ Deliver(r)
  \/ Shutdown(r)
  \/ Unwind(r)

StackNext ==
  \/ \E r \in Requests : Layer(r)
  \/ KeyExpires
  \/ AllClosed

StackSpec == StackInit /\ [][StackNext]_allVars

\* Only the layers' own clock and unwinding are fair: neither the client, nor
\* the application, nor Redis is relied upon.
StackFairness ==
  \A r \in Requests :
    /\ WF_allVars(Fire(r))
    /\ WF_allVars(Deliver(r))
    /\ WF_allVars(Unwind(r))

FairStackSpec == StackSpec /\ StackFairness

-----------------------------------------------------------------------------
(* Properties. *)

StackTypeOK ==
  /\ TypeOK
  /\ deadline \in [Requests -> {"unset", "armed", "lifted", "fired", "closed"}]
  /\ tooBig \in [Requests -> BOOLEAN]
  /\ wire \in [Requests -> Seq(Nat)]
  /\ measured \in [Requests -> Nat]
  /\ logged \in [Requests -> Nat]
  /\ active \in Nat
  /\ closed \subseteq Requests

\* A request is answered with one status line, whichever of the application,
\* the replay, the 409, 413, 500, 503 and 504 come to be sent.
OneStatusLine == \A r \in Requests : Len(wire[r]) <= 1

\* The metric and the access log name the status the client was sent, and the
\* gauge counts the requests inside.
ObservedStatus ==
  /\ \A r \in closed :
       /\ Started(r) => measured[r] = wire[r][1]
       /\ ~Started(r) => measured[r] = 500
       /\ logged[r] \in {0, measured[r]}
  /\ active = Cardinality({r \in Requests \ closed : pc[r] # "arrive"})

\* "Otherwise a body that is too large is reported as a server error": a keyed
\* request whose body is too large is told 413, whichever layer notices, unless
\* its deadline, its client or a shutdown cuts it short.
OversizedIsTold ==
  \A r \in Keyed \cap closed :
    /\ Len(Body[r]) > MaxBodyBytes
    /\ Calm /\ faults["disconnect"] = 0
    => wire[r] = <<413>>

\* An oversized body is never claimed, fingerprinted or run.
OversizedNeverClaims ==
  \A r \in Requests : claim[r] # "none" => Len(buf[r]) <= MaxBodyBytes

\* The timeout covers the time to the first byte: every request that enters is
\* answered or dropped, though its client, its handler and Redis may hang.
FirstByteInTime ==
  \A r \in Requests :
    pc[r] # "arrive" ~> (Started(r) \/ r \in closed)

\* "The timeout covers time-to-first-byte, not the whole response": the clock
\* of a response that has started never runs out on it.
StreamsFreely ==
  [][\A r \in Requests :
       deadline[r] # "fired" /\ Started(r) => deadline'[r] # "fired"]_allVars

\* One well-formed response each.
AnsweredOnce == StackTypeOK /\ OneStatusLine

\* A body over the limit is refused, and refused as one.
OversizedRefused == OversizedIsTold /\ OversizedNeverClaims

\* The deadline ends what has not started in time, and nothing else.
DeadlineHolds == FirstByteInTime /\ StreamsFreely

\* "The reservation must go, or a retry of a request that crashed would replay
\* nothing and be refused as in-flight until the TTL": a request that ran and was
\* ended by the timeout does not hold the key any longer (_run_and_record,
\* TimeoutMiddleware).
TimeoutReleases ==
  \A r \in closed : TimedOut(r) /\ claim[r] = "won" => ~HoldsKey(r)
=============================================================================
