---------------------------- MODULE Idempotency ----------------------------
(***************************************************************************)
(* IdempotencyMiddleware of http/middleware/idempotency.py.  Every request *)
(* of the model carries the same caller, method, path and Idempotency-Key, *)
(* so there is ONE Redis key: requests on different keys do not interact.  *)
(* Requests of several server processes interleave at every await, and the *)
(* Redis key is all they share.                                            *)
(*                                                                         *)
(* Abstractions.  A body is the sequence of its ASGI messages, and its     *)
(* fingerprint is that sequence (sha256 is taken as injective).  A stored  *)
(* response body is the request that produced it and a number of bytes.    *)
(* The field "by" of a stored value is history: it is not in Redis.        *)
(***************************************************************************)
EXTENDS Naturals, Sequences

CONSTANTS
  Requests,         \* the requests ever sent
  Keyed,            \* those with a key and a method that is covered
  Chunks,           \* the payloads an http.request message can carry
  Body,             \* Body[r]: the messages of the body the client sends
  Statuses,         \* the statuses the wrapped application may answer with
  Sizes,            \* the sizes of the chunks it may send
  MaxResponse,      \* bound: bytes of one response
  MaxStoredBytes,   \* max_stored_bytes
  FailOpen,         \* fail_open
  RetryOnTimeout,   \* RedisSettings.retry_on_timeout
  MaxFaults         \* bound: how often each kind of fault happens

FaultKinds == {"lapse", "lost", "outage", "cancel", "disconnect"}

ASSUME ConstantsAssumption ==
  /\ Keyed \subseteq Requests
  /\ Body \in [Requests -> Seq(Chunks)]
  /\ \A r \in Requests : Len(Body[r]) > 0
  /\ Statuses \subseteq 100..599
  /\ Sizes \subseteq Nat
  /\ MaxResponse \in Nat
  /\ MaxStoredBytes \in Nat
  /\ FailOpen \in BOOLEAN
  /\ RetryOnTimeout \in BOOLEAN
  /\ MaxFaults \in [FaultKinds -> Nat]

VARIABLES
  store,      \* the Redis key: absent, an in-flight marker, or a record
  pc,         \* where each request is in the middleware
  buf,        \* _buffer_body: the messages read so far
  claim,      \* how the request got past _claim ("none" before that)
  status,     \* _run_and_record: status of the response, 0 before its start
  kept,       \* bytes in chunks
  tooLarge,   \* too_large
  answer,     \* what the client has been told
  sent,       \* bytes of the application's response put on the wire
  gaveUp,     \* requests whose last command was applied, its reply lost,
              \* and that will not send it again
  faults      \* how often each kind of fault has happened

vars == <<store, pc, buf, claim, status, kept, tooLarge, answer, sent,
          gaveUp, faults>>

-----------------------------------------------------------------------------
Absent == [state |-> "absent"]

\* The marker of _claim.
InFlight(r) == [state |-> "in-flight", fingerprint |-> buf[r], by |-> r]

\* Slip: the record is stored without the fingerprint.
DoneUnprinted(r) ==
  [state |-> "done", fingerprint |-> <<>>, status |-> status[r],
   bytes |-> kept[r], by |-> r]

\* The record of _run_and_record.
Done(r) == [state |-> "done", fingerprint |-> buf[r], status |-> status[r],
            bytes |-> kept[r], by |-> r]

None == [kind |-> "none"]
Refused(code, why) == [kind |-> "refused", status |-> code, why |-> why]
Own(code) == [kind |-> "own", status |-> code]
\* _replay sends the stored status and body again.
Replay(rec) == [kind |-> "replay", status |-> rec.status,
                bytes |-> rec.bytes, of |-> rec.by]

\* A request whose _claim returned None, until Redis has settled its key.
Executing(r) == /\ pc[r] \in {"run", "release", "raising", "record"}
                /\ r \notin gaveUp
Running(r)   == pc[r] = "run"
Over(r)      == pc[r] \in {"returned", "raised", "cancelled"}

\* The requests that wait for the answer to a Redis command.
Commands == {"set", "get", "release", "raising", "record"}

Goto(r, l) == pc' = [pc EXCEPT ![r] = l]

Spend(k) == /\ faults[k] < MaxFaults[k]
            /\ faults' = [faults EXCEPT ![k] = @ + 1]

-----------------------------------------------------------------------------
Init ==
  /\ store = Absent
  /\ pc = [r \in Requests |-> "arrive"]
  /\ buf = [r \in Requests |-> <<>>]
  /\ claim = [r \in Requests |-> "none"]
  /\ status = [r \in Requests |-> 0]
  /\ kept = [r \in Requests |-> 0]
  /\ tooLarge = [r \in Requests |-> FALSE]
  /\ answer = [r \in Requests |-> None]
  /\ sent = [r \in Requests |-> 0]
  /\ gaveUp = {}
  /\ faults = [k \in FaultKinds |-> 0]

\* A request reaches __call__: without a key, or with a method that is not
\* covered, it goes straight to the application.
Arrive(r) ==
  /\ pc[r] = "arrive"
  /\ Goto(r, IF r \in Keyed THEN "buffer" ELSE "open")
  /\ UNCHANGED <<store, buf, claim, status, kept, tooLarge, answer, sent,
                 gaveUp, faults>>

\* _buffer_body: one http.request message; the last one has no more_body.
ReadBody(r) ==
  /\ pc[r] = "buffer"
  /\ buf' = [buf EXCEPT ![r] = SubSeq(Body[r], 1, Len(@) + 1)]
  /\ IF Len(buf[r]) + 1 = Len(Body[r]) THEN Goto(r, "set") ELSE pc' = pc
  /\ UNCHANGED <<store, claim, status, kept, tooLarge, answer, sent, gaveUp,
                 faults>>

\* _buffer_body: http.disconnect ends the loop, and what was read so far is
\* fingerprinted and handed to the application as the whole body.
Disconnect(r) ==
  /\ pc[r] = "buffer"
  /\ Spend("disconnect")
  /\ Goto(r, "set")
  /\ UNCHANGED <<store, buf, claim, status, kept, tooLarge, answer, sent,
                 gaveUp>>

\* receive() raises out of _buffer_body, before anything is claimed: that is
\* how BodySizeLimitMiddleware, which wraps it, stops a body in its tracks.
ReceiveRaises(r) ==
  /\ pc[r] = "buffer"
  /\ Goto(r, "raised")
  /\ UNCHANGED <<store, buf, claim, status, kept, tooLarge, answer, sent,
                 gaveUp, faults>>

-----------------------------------------------------------------------------
(* What each command does to the key when Redis executes it. *)

\* Slip: SET without NX.
AfterPlainSet(r) == InFlight(r)

AfterSet(r)    == IF store = Absent THEN InFlight(r) ELSE store
AfterRecord(r) == Done(r)
AfterDelete(r) == Absent

After(r) ==
  CASE r \in gaveUp                       -> store
    [] r \notin gaveUp /\ pc[r] = "set"    -> AfterSet(r)
    [] r \notin gaveUp /\ pc[r] = "record" -> AfterRecord(r)
    [] r \notin gaveUp /\ pc[r] \in {"release", "raising"} -> AfterDelete(r)
    [] OTHER                              -> store

\* _claim: SET NX EX, answered.
ClaimSet(r) ==
  /\ pc[r] = "set"
  /\ r \notin gaveUp
  /\ store' = AfterSet(r)
  /\ Goto(r, IF store = Absent THEN "run" ELSE "get")
  /\ claim' = [claim EXCEPT ![r] = IF store = Absent THEN "won" ELSE @]
  /\ UNCHANGED <<buf, status, kept, tooLarge, answer, sent, gaveUp, faults>>

\* _handle_existing: what a request with body b is told about a stored value.
Existing(b, rec) ==
  IF rec.fingerprint # b THEN Refused(409, "different body")
  ELSE IF rec.state = "in-flight" THEN Refused(409, "in progress")
  ELSE Replay(rec)

\* Slip: a marker with the same fingerprint is taken for the request's own.
ClaimGetOwn(r) ==
  /\ pc[r] = "get"
  /\ r \notin gaveUp
  /\ IF store = Absent \/ Existing(buf[r], store) = Refused(409, "in progress")
     THEN /\ Goto(r, "run")
          /\ claim' = [claim EXCEPT ![r] = "won"]
          /\ answer' = answer
     ELSE /\ Goto(r, "returned")
          /\ answer' = [answer EXCEPT ![r] = Existing(buf[r], store)]
          /\ claim' = claim
  /\ UNCHANGED <<store, buf, status, kept, tooLarge, sent, gaveUp, faults>>

\* _claim: GET after a lost SET NX.  Nothing there: the request runs as a
\* fresh one, without writing a marker.
ClaimGet(r) ==
  /\ pc[r] = "get"
  /\ r \notin gaveUp
  /\ IF store = Absent
     THEN /\ Goto(r, "run")
          /\ claim' = [claim EXCEPT ![r] = "fresh"]
          /\ answer' = answer
     ELSE /\ Goto(r, "returned")
          /\ answer' = [answer EXCEPT ![r] = Existing(buf[r], store)]
          /\ claim' = claim
  /\ UNCHANGED <<store, buf, status, kept, tooLarge, sent, gaveUp, faults>>

-----------------------------------------------------------------------------
(* The wrapped application, seen through send_wrapper. *)

HandlerStart(r, s) ==
  /\ pc[r] \in {"run", "open"}
  /\ status[r] = 0
  /\ status' = [status EXCEPT ![r] = s]
  /\ answer' = [answer EXCEPT ![r] = Own(s)]
  /\ UNCHANGED <<store, pc, buf, claim, kept, tooLarge, sent, gaveUp, faults>>

\* Slip: a later chunk that fits clears the mark.
HandlerBodyForgets(r, n) ==
  /\ pc[r] \in {"run", "open"}
  /\ status[r] # 0
  /\ sent[r] + n <= MaxResponse
  /\ sent' = [sent EXCEPT ![r] = @ + n]
  /\ LET fits == kept[r] + n <= MaxStoredBytes IN
       /\ kept' = [kept EXCEPT ![r] = IF fits THEN @ + n ELSE @]
       /\ tooLarge' = [tooLarge EXCEPT ![r] = ~fits]
  /\ UNCHANGED <<store, pc, buf, claim, status, answer, gaveUp, faults>>

\* send_wrapper, http.response.body: a chunk that does not fit is dropped and
\* marks the response as too large to store; a later one may fit again.
HandlerBody(r, n) ==
  /\ pc[r] \in {"run", "open"}
  /\ status[r] # 0
  /\ sent[r] + n <= MaxResponse
  /\ sent' = [sent EXCEPT ![r] = @ + n]
  /\ LET fits == kept[r] + n <= MaxStoredBytes IN
       /\ kept' = [kept EXCEPT ![r] = IF fits THEN @ + n ELSE @]
       /\ tooLarge' = [tooLarge EXCEPT ![r] = @ \/ ~fits]
  /\ UNCHANGED <<store, pc, buf, claim, status, answer, gaveUp, faults>>

\* Whether _run_and_record keeps the response.
Storable(r) == status[r] < 500 /\ ~tooLarge[r]

\* The application returns, its response sent.  (ASGI lets it not return without
\* one; a server turns that into a 500 behind the middleware's back.)
HandlerReturn(r) ==
  /\ pc[r] \in {"run", "open"}
  /\ status[r] # 0
  /\ Goto(r, IF pc[r] = "open" THEN "returned"
             ELSE IF Storable(r) THEN "record" ELSE "release")
  /\ UNCHANGED <<store, buf, claim, status, kept, tooLarge, answer, sent,
                 gaveUp, faults>>

\* Slip: no release when the application raises.
HandlerRaiseKeeps(r) ==
  /\ pc[r] \in {"run", "open"}
  /\ Goto(r, "raised")
  /\ UNCHANGED <<store, buf, claim, status, kept, tooLarge, answer, sent,
                 gaveUp, faults>>

\* The application raises an Exception, before or after its response started.
HandlerRaise(r) ==
  /\ pc[r] \in {"run", "open"}
  /\ Goto(r, IF pc[r] = "open" THEN "raised" ELSE "raising")
  /\ UNCHANGED <<store, buf, claim, status, kept, tooLarge, answer, sent,
                 gaveUp, faults>>

-----------------------------------------------------------------------------
\* SET of the record, unconditional, answered.
Record(r) ==
  /\ pc[r] = "record"
  /\ r \notin gaveUp
  /\ store' = AfterRecord(r)
  /\ Goto(r, "returned")
  /\ UNCHANGED <<buf, claim, status, kept, tooLarge, answer, sent, gaveUp,
                 faults>>

\* _release: DELETE, whoever holds the key; then return, or raise again.
Release(r) ==
  /\ pc[r] \in {"release", "raising"}
  /\ r \notin gaveUp
  /\ store' = AfterDelete(r)
  /\ Goto(r, IF pc[r] = "raising" THEN "raised" ELSE "returned")
  /\ UNCHANGED <<buf, claim, status, kept, tooLarge, answer, sent, gaveUp,
                 faults>>

-----------------------------------------------------------------------------
(* What Redis, the network and the server process may do. *)

\* Redis executes the command but the reply times out.  With retry_on_timeout
\* the client sends the command again; without it the caller gets an error.
LoseReply(r) ==
  /\ pc[r] \in Commands
  /\ r \notin gaveUp
  /\ Spend("lost")
  /\ store' = After(r)
  /\ gaveUp' = IF RetryOnTimeout THEN gaveUp ELSE gaveUp \cup {r}
  /\ UNCHANGED <<pc, buf, claim, status, kept, tooLarge, answer, sent>>

\* RedisError, for a command that Redis did not execute or, when the request
\* gave up, executed already.  In _claim it is a 503, or with fail_open a run
\* without any record; when recording or releasing it is swallowed.
RedisDown(r) ==
  /\ pc[r] \in Commands
  /\ IF r \in gaveUp THEN faults' = faults ELSE Spend("outage")
  /\ gaveUp' = gaveUp \ {r}
  /\ \/ /\ pc[r] \in {"set", "get"}
        /\ FailOpen
        /\ Goto(r, "open")
        /\ claim' = [claim EXCEPT ![r] = "failed"]
        /\ answer' = answer
     \/ /\ pc[r] \in {"set", "get"}
        /\ ~FailOpen
        /\ Goto(r, "returned")
        /\ answer' = [answer EXCEPT ![r] = Refused(503, "unavailable")]
        /\ claim' = claim
     \/ /\ pc[r] \in {"record", "release", "raising"}
        /\ Goto(r, IF pc[r] = "raising" THEN "raised" ELSE "returned")
        /\ UNCHANGED <<claim, answer>>
  /\ UNCHANGED <<store, buf, status, kept, tooLarge, sent>>

\* Slip: a "finally" that releases the key, whoever holds it.
CancelledReleases(r) ==
  /\ pc[r] \notin {"arrive", "returned", "raised", "cancelled"}
  /\ store' \in {store, Absent}
  /\ Goto(r, "cancelled")
  /\ gaveUp' = gaveUp \ {r}
  /\ UNCHANGED <<buf, claim, status, kept, tooLarge, answer, sent>>

\* CancelledError at any await: it is not an Exception, so nothing of the
\* middleware handles it.  A command that was under way may be executed.
Cancelled(r) ==
  /\ pc[r] \notin {"arrive", "returned", "raised", "cancelled"}
  /\ store' \in {store, After(r)}
  /\ Goto(r, "cancelled")
  /\ gaveUp' = gaveUp \ {r}
  /\ UNCHANGED <<buf, claim, status, kept, tooLarge, answer, sent>>

\* The server process stops (shutdown, or a crash) while it serves r.
Stop(r) == Cancelled(r) /\ Spend("cancel")

\* Redis drops the key at the end of ex=ttl_seconds.  For a record that is the
\* end of the promise; a marker that lapses while its request still runs is a
\* fault, because the TTL is meant to be far longer than any request.
Expire ==
  /\ store # Absent
  /\ store' = Absent
  /\ IF store.state = "in-flight" THEN Spend("lapse") ELSE faults' = faults
  /\ UNCHANGED <<pc, buf, claim, status, kept, tooLarge, answer, sent, gaveUp>>

-----------------------------------------------------------------------------
Serve(r) ==
  \/ Arrive(r)
  \/ ReadBody(r)
  \/ ClaimSet(r)
  \/ ClaimGet(r)
  \/ Record(r)
  \/ Release(r)

Application(r) ==
  \/ \E s \in Statuses : HandlerStart(r, s)
  \/ \E n \in Sizes : HandlerBody(r, n)
  \/ HandlerReturn(r)
  \/ HandlerRaise(r)

Fault(r) ==
  \/ Disconnect(r)
  \/ ReceiveRaises(r)
  \/ LoseReply(r)
  \/ RedisDown(r)
  \/ Stop(r)

\* Every request has been dealt with: the model stops here.
Finished ==
  /\ \A r \in Requests : Over(r)
  /\ UNCHANGED vars

Next ==
  \/ \E r \in Requests : Serve(r) \/ Application(r) \/ Fault(r)
  \/ Expire
  \/ Finished

Spec == Init /\ [][Next]_vars

\* The server takes its steps, Redis answers, and the application ends.
Fairness ==
  \A r \in Requests :
    /\ WF_vars(Serve(r))
    /\ WF_vars(HandlerReturn(r) \/ HandlerRaise(r))

FairSpec == Spec /\ Fairness

-----------------------------------------------------------------------------
(* Properties. *)

\* The values of the key, of the answers and of the middleware's own state.
Stored ==
  {Absent}
    \cup [state : {"in-flight"}, fingerprint : Seq(Chunks), by : Requests]
    \cup [state : {"done"}, fingerprint : Seq(Chunks), status : Statuses,
          bytes : 0..MaxResponse, by : Requests]

Answers ==
  {None}
    \cup [kind : {"own"}, status : Statuses]
    \cup [kind : {"refused"}, status : {409, 503},
          why : {"different body", "in progress", "unavailable"}]
    \cup [kind : {"replay"}, status : Statuses, bytes : 0..MaxResponse,
          of : Requests]

Labels == {"arrive", "buffer", "set", "get", "run", "open", "record", "release",
           "raising", "returned", "raised", "cancelled"}

TypeOK ==
  /\ store \in Stored
  /\ pc \in [Requests -> Labels]
  /\ buf \in [Requests -> Seq(Chunks)]
  /\ claim \in [Requests -> {"none", "won", "fresh", "failed"}]
  /\ status \in [Requests -> Statuses \cup {0}]
  /\ kept \in [Requests -> 0..MaxResponse]
  /\ sent \in [Requests -> 0..MaxResponse]
  /\ tooLarge \in [Requests -> BOOLEAN]
  /\ answer \in [Requests -> Answers]
  /\ gaveUp \subseteq Requests
  /\ faults \in [FaultKinds -> Nat]

\* A replay is the response of an earlier request with the same body: whole,
\* no server error, and with the status that request was answered with.  The
\* body is the one the client sent unless a disconnect cut it short
\* (_handle_existing, the tests on status and too_large in _run_and_record).
ReplayFaithful ==
  \A r \in Requests : answer[r].kind = "replay" =>
    LET o == answer[r].of IN
      /\ answer[r].status = status[o]
      /\ answer[r].status < 500
      /\ answer[r].bytes = sent[o]
      /\ pc[o] \in {"record", "returned", "cancelled"}
      /\ faults["disconnect"] = 0 => Body[o] = Body[r]

\* Nothing has broken the reservation: no marker lapsed under its request, no
\* command was executed twice, and no request found the key gone between its
\* SET NX and its GET.
Undisturbed ==
  /\ faults["lapse"] = 0
  /\ RetryOnTimeout => faults["lost"] = 0
  /\ \A r \in Requests : claim[r] # "fresh"

\* The request that won holds the key until it settles it.
HoldsKey(r) == store.state = "in-flight" /\ store.by = r

\* "Exactly one wins the reservation and runs": while the reservation is
\* undisturbed no two requests run or settle the key at once, whatever is
\* cancelled, crashes or is refused by Redis (_claim, _release).
OneRun ==
  Undisturbed =>
    \A r, s \in Requests : Executing(r) /\ Executing(s) => r = s

\* A recorded response stays what is replayed until its TTL: no later request
\* overwrites or deletes it (_release and the final SET have no condition).
RecordIsFinal ==
  [][store.state = "done" /\ Undisturbed => store' = store \/ Expire]_vars

\* A marker in Redis belongs to a request that is still being served, so a
\* 409 "still in progress" tells the truth: the reservation goes when the
\* application fails (the comment in _run_and_record).  Without faults.
Calm == \A k \in {"lost", "outage", "cancel"} : faults[k] = 0
MarkerHasRequest ==
  Calm /\ store.state = "in-flight" => Executing(store.by)

\* A 409 "different body" tells the truth: the key was reserved by a request
\* whose whole body differs.  That request has run, unless the reply to its own
\* SET NX was lost or it was cancelled while it waited for it.
ConflictMeansDifferentBody ==
  \A r \in Requests :
    answer[r] = Refused(409, "different body") /\ faults["disconnect"] = 0 =>
      \E o \in Requests :
        /\ Body[o] # Body[r]
        /\ pc[o] \notin {"arrive", "buffer"}
        /\ faults["lost"] = 0 /\ faults["cancel"] = 0
             => claim[o] \in {"won", "fresh"}

\* The key is not left reserved: every marker goes (under FairSpec, where no
\* fault happens).
MarkerResolved ==
  (store.state = "in-flight") ~> (store.state # "in-flight")
=============================================================================
