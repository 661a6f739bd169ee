------------------------ MODULE RequestStackProofs -------------------------
(***************************************************************************)
(* Proofs about Idempotency and the stack of layers around it, for any set *)
(* of requests, any bodies and any bounds on the faults.  First what the   *)
(* middleware promises by itself; then that the stack implements it, so    *)
(* that all of this holds cancelled by the timeout and cut short by the    *)
(* body limit too; then what the layers themselves promise of every        *)
(* request: one status line, reported as it was sent, a deadline that      *)
(* spares what has started, and a 413 for a body over the limit.           *)
(***************************************************************************)
EXTENDS RequestStack, SequenceTheorems, FiniteSetTheorems, TLAPS


-----------------------------------------------------------------------------
(* What can be stored and answered. *)

\* The marker, the record and no value at all are values of the key.
LEMMA StoredValues ==
  ASSUME TypeOK, NEW r \in Requests
  PROVE  /\ Absent \in Stored
         /\ InFlight(r) \in Stored
         /\ status[r] # 0 => Done(r) \in Stored
BY DEF TypeOK, Stored, InFlight, Done

\* What is neither absent nor in flight is a record, and a record can be
\* replayed.
LEMMA ExistingValues ==
  ASSUME TypeOK, NEW b, store # Absent
  PROVE  Existing(b, store) \in Answers
<1>1. CASE store.state = "in-flight"
  BY <1>1 DEF Existing, Refused, Answers
<1>2. CASE store.state # "in-flight"
  <2>1. store \in [state : {"done"}, fingerprint : Seq(Chunks),
                   status : Statuses, bytes : 0..MaxResponse, by : Requests]
    BY <1>2 DEF TypeOK, Stored
  <2>2. Replay(store) \in Answers
    BY <2>1 DEF Replay, Answers
  <2>3. Refused(409, "different body") \in Answers
    BY DEF Refused, Answers
  <2> QED
    BY <1>2, <2>2, <2>3 DEF Existing
<1> QED
  BY <1>1, <1>2

\* What the other answers are.
LEMMA AnswerValues ==
  /\ None \in Answers
  /\ Refused(503, "unavailable") \in Answers
  /\ \A s \in Statuses : Own(s) \in Answers
BY ZenonT(60) DEF Answers, None, Refused, Own

\* A replay names the request it repeats.
LEMMA ReplayOf ==
  ASSUME NEW x \in Answers, x.kind = "replay"
  PROVE  x.of \in Requests
<1>1. x \notin [kind : {"own"}, status : Statuses] /\ x # None
  BY DEF None
<1>2. x \notin [kind : {"refused"}, status : {409, 503},
               why : {"different body", "in progress", "unavailable"}]
  OBVIOUS
<1> QED
  BY <1>1, <1>2 DEF Answers

-----------------------------------------------------------------------------
(* Type correctness.  A request is only recorded after its response started, *)
(* and never keeps more bytes than it sent.                                  *)

Bookkeeping ==
  /\ \A r \in Requests : pc[r] = "record" => status[r] # 0
  /\ \A r \in Requests : kept[r] <= sent[r]
  /\ \A r \in Requests : pc[r] = "buffer" => Len(buf[r]) < Len(Body[r])
  /\ \A r \in Requests : pc[r] = "arrive" => buf[r] = <<>>

TInv == TypeOK /\ Bookkeeping

\* The initial state has the types.
LEMMA InitTInv == Init => TInv
<1> SUFFICES ASSUME Init PROVE TInv
  OBVIOUS
<1>1. TypeOK
  <2>1. store \in Stored /\ answer \in [Requests -> Answers]
    BY AnswerValues DEF Init, Stored
  <2> QED
    BY <2>1, ConstantsAssumption DEF Init, TypeOK, Labels, FaultKinds
<1>2. Bookkeeping
  BY ConstantsAssumption DEF Init, Bookkeeping
<1> QED
  BY <1>1, <1>2 DEF TInv

\* Reading one more message keeps a body a sequence of messages.
LEMMA Prefixes ==
  ASSUME NEW r \in Requests, NEW n \in Nat, n < Len(Body[r])
  PROVE  /\ SubSeq(Body[r], 1, n + 1) \in Seq(Chunks)
         /\ Len(SubSeq(Body[r], 1, n + 1)) = n + 1
BY ConstantsAssumption, SubSeqProperties

\* The last message makes it the whole body.
LEMMA BodyRead ==
  ASSUME NEW r \in Requests
  PROVE  SubSeq(Body[r], 1, Len(Body[r])) = Body[r]
BY ConstantsAssumption, SubSeqFull

\* Every step keeps the types.
LEMMA StepTInv == TInv /\ [Next]_vars => TInv'
<1> SUFFICES ASSUME TInv, [Next]_vars PROVE TInv'
  OBVIOUS
<1> USE DEF TInv
<1>1. ASSUME NEW r \in Requests, Arrive(r) PROVE TInv'
  <2>1. pc' \in [Requests -> Labels]
    BY <1>1
    DEF Arrive, TypeOK, Goto, Labels
  <2>2. Bookkeeping'
    BY <1>1, ConstantsAssumption
    DEF Arrive, TypeOK, Bookkeeping, Goto
  <2> QED
    BY <1>1, <2>1, <2>2
    DEF Arrive, TypeOK
<1>2. ASSUME NEW r \in Requests, ReadBody(r) PROVE TInv'
  <2>1. pc' \in [Requests -> Labels]
    BY <1>2, ZenonT(60)
    DEF ReadBody, TypeOK, Goto, Labels
  <2>2. buf' \in [Requests -> Seq(Chunks)]
    BY <1>2, Prefixes
    DEF ReadBody, TypeOK, Bookkeeping
  <2>3. Bookkeeping'
    BY <1>2, Prefixes, ConstantsAssumption
    DEF ReadBody, TypeOK, Bookkeeping, Goto
  <2> QED
    BY <1>2, <2>1, <2>2, <2>3
    DEF ReadBody, TypeOK
<1>3. ASSUME NEW r \in Requests, ClaimSet(r) PROVE TInv'
  <2>1. store' \in Stored
    BY <1>3, StoredValues
    DEF ClaimSet, TypeOK, AfterSet
  <2>2. pc' \in [Requests -> Labels]
    BY <1>3
    DEF ClaimSet, TypeOK, Goto, Labels
  <2>3. claim' \in [Requests -> {"none", "won", "fresh", "failed"}]
    BY <1>3
    DEF ClaimSet, TypeOK
  <2>4. Bookkeeping'
    BY <1>3
    DEF ClaimSet, TypeOK, Bookkeeping, Goto
  <2> QED
    BY <1>3, <2>1, <2>2, <2>3, <2>4
    DEF ClaimSet, TypeOK
<1>4. ASSUME NEW r \in Requests, ClaimGet(r) PROVE TInv'
  <2>1. pc' \in [Requests -> Labels]
    BY <1>4
    DEF ClaimGet, TypeOK, Goto, Labels
  <2>2. claim' \in [Requests -> {"none", "won", "fresh", "failed"}]
    BY <1>4
    DEF ClaimGet, TypeOK
  <2>3. answer' \in [Requests -> Answers]
    <3>1. CASE store = Absent
      BY <1>4, <3>1 DEF ClaimGet, TypeOK
    <3>2. CASE store # Absent
      <4>1. Existing(buf[r], store) \in Answers
        BY <3>2, ExistingValues
      <4> QED
        BY <1>4, <3>2, <4>1 DEF ClaimGet, TypeOK
    <3> QED
      BY <3>1, <3>2
  <2>4. Bookkeeping'
    BY <1>4
    DEF ClaimGet, TypeOK, Bookkeeping, Goto
  <2> QED
    BY <1>4, <2>1, <2>2, <2>3, <2>4
    DEF ClaimGet, TypeOK
<1>5. ASSUME NEW r \in Requests, Record(r) PROVE TInv'
  <2>1. store' \in Stored
    BY <1>5, StoredValues
    DEF Record, TypeOK, AfterRecord, Bookkeeping
  <2>2. pc' \in [Requests -> Labels]
    BY <1>5
    DEF Record, TypeOK, Goto, Labels
  <2>3. Bookkeeping'
    BY <1>5
    DEF Record, TypeOK, Bookkeeping, Goto
  <2> QED
    BY <1>5, <2>1, <2>2, <2>3
    DEF Record, TypeOK
<1>6. ASSUME NEW r \in Requests, Release(r) PROVE TInv'
  <2>1. store' \in Stored
    BY <1>6, StoredValues
    DEF Release, TypeOK, AfterDelete
  <2>2. pc' \in [Requests -> Labels]
    BY <1>6
    DEF Release, TypeOK, Goto, Labels
  <2>3. Bookkeeping'
    BY <1>6
    DEF Release, TypeOK, Bookkeeping, Goto
  <2> QED
    BY <1>6, <2>1, <2>2, <2>3
    DEF Release, TypeOK
<1>7. ASSUME NEW r \in Requests, NEW s \in Statuses, HandlerStart(r, s) PROVE TInv'
  <2>1. status' \in [Requests -> Statuses \cup {0}]
    BY <1>7
    DEF HandlerStart, TypeOK
  <2>2. answer' \in [Requests -> Answers]
    BY <1>7, AnswerValues
    DEF HandlerStart, TypeOK
  <2>3. Bookkeeping'
    BY <1>7
    DEF HandlerStart, TypeOK, Bookkeeping, Goto
  <2> QED
    BY <1>7, <2>1, <2>2, <2>3
    DEF HandlerStart, TypeOK
<1>8. ASSUME NEW r \in Requests, NEW n \in Sizes, HandlerBody(r, n) PROVE TInv'
  <2>1. kept' \in [Requests -> 0..MaxResponse]
    <3>1. kept[r] + n \in 0..MaxResponse
      BY <1>8, ConstantsAssumption DEF HandlerBody, TypeOK, Bookkeeping
    <3> QED
      BY <1>8, <3>1 DEF HandlerBody, TypeOK
  <2>2. sent' \in [Requests -> 0..MaxResponse]
    BY <1>8, ConstantsAssumption
    DEF HandlerBody, TypeOK
  <2>3. tooLarge' \in [Requests -> BOOLEAN]
    BY <1>8
    DEF HandlerBody, TypeOK
  <2>4. Bookkeeping'
    BY <1>8, ConstantsAssumption
    DEF HandlerBody, TypeOK, Bookkeeping, Goto
  <2> QED
    BY <1>8, <2>1, <2>2, <2>3, <2>4
    DEF HandlerBody, TypeOK
<1>9. ASSUME NEW r \in Requests, HandlerReturn(r) \/ HandlerRaise(r) PROVE TInv'
  <2>1. pc' \in [Requests -> Labels]
    BY <1>9
    DEF HandlerReturn, HandlerRaise, TypeOK, Goto, Labels
  <2>2. Bookkeeping'
    BY <1>9
    DEF HandlerReturn, HandlerRaise, TypeOK, Bookkeeping, Goto
  <2> QED
    BY <1>9, <2>1, <2>2
    DEF HandlerReturn, HandlerRaise, TypeOK
<1>10. ASSUME NEW r \in Requests, Disconnect(r) \/ ReceiveRaises(r) PROVE TInv'
  <2>1. pc' \in [Requests -> Labels]
    BY <1>10
    DEF Disconnect, ReceiveRaises, TypeOK, Goto, Labels
  <2>2. faults' \in [FaultKinds -> Nat]
    BY <1>10
    DEF Disconnect, ReceiveRaises, TypeOK, Spend, FaultKinds
  <2>3. Bookkeeping'
    BY <1>10
    DEF Disconnect, ReceiveRaises, TypeOK, Bookkeeping, Goto
  <2> QED
    BY <1>10, <2>1, <2>2, <2>3
    DEF Disconnect, ReceiveRaises, TypeOK
<1>11. ASSUME NEW r \in Requests, LoseReply(r) PROVE TInv'
  <2>1. store' \in Stored
    BY <1>11, StoredValues
    DEF LoseReply, TypeOK, After, AfterSet, AfterRecord, AfterDelete,
        Bookkeeping
  <2>2. gaveUp' \subseteq Requests
    BY <1>11
    DEF LoseReply, TypeOK
  <2>3. faults' \in [FaultKinds -> Nat]
    BY <1>11
    DEF LoseReply, TypeOK, Spend, FaultKinds
  <2>4. Bookkeeping'
    BY <1>11
    DEF LoseReply, TypeOK, Bookkeeping, Goto
  <2> QED
    BY <1>11, <2>1, <2>2, <2>3, <2>4
    DEF LoseReply, TypeOK
<1>12. ASSUME NEW r \in Requests, RedisDown(r) PROVE TInv'
  <2>1. pc' \in [Requests -> Labels]
    BY <1>12, ZenonT(60)
    DEF RedisDown, TypeOK, Goto, Labels
  <2>2. claim' \in [Requests -> {"none", "won", "fresh", "failed"}]
    BY <1>12
    DEF RedisDown, TypeOK
  <2>3. answer' \in [Requests -> Answers]
    BY <1>12, AnswerValues
    DEF RedisDown, TypeOK
  <2>4. gaveUp' \subseteq Requests
    BY <1>12
    DEF RedisDown, TypeOK
  <2>5. faults' \in [FaultKinds -> Nat]
    BY <1>12
    DEF RedisDown, TypeOK, Spend, FaultKinds
  <2>6. Bookkeeping'
    BY <1>12
    DEF RedisDown, TypeOK, Bookkeeping, Goto
  <2> QED
    BY <1>12, <2>1, <2>2, <2>3, <2>4, <2>5, <2>6
    DEF RedisDown, TypeOK
<1>13. ASSUME NEW r \in Requests, Stop(r) PROVE TInv'
  <2>1. store' \in Stored
    BY <1>13, StoredValues
    DEF Stop, Cancelled, TypeOK, After, AfterSet, AfterRecord, AfterDelete,
        Bookkeeping
  <2>2. pc' \in [Requests -> Labels]
    BY <1>13
    DEF Stop, Cancelled, TypeOK, Goto, Labels
  <2>3. gaveUp' \subseteq Requests
    BY <1>13
    DEF Stop, Cancelled, TypeOK
  <2>4. faults' \in [FaultKinds -> Nat]
    BY <1>13
    DEF Stop, Cancelled, TypeOK, Spend, FaultKinds
  <2>5. Bookkeeping'
    BY <1>13
    DEF Stop, Cancelled, TypeOK, Bookkeeping, Goto
  <2> QED
    BY <1>13, <2>1, <2>2, <2>3, <2>4, <2>5
    DEF Stop, Cancelled, TypeOK
<1>14. ASSUME Expire PROVE TInv'
  <2>1. faults' \in [FaultKinds -> Nat]
    BY <1>14 DEF Expire, TypeOK, Spend, FaultKinds
  <2>2. store' \in Stored
    BY <1>14 DEF Expire, Stored
  <2>3. Bookkeeping'
    BY <1>14 DEF Expire, Bookkeeping
  <2> QED
    BY <1>14, <2>1, <2>2, <2>3 DEF Expire, TypeOK
<1>15. CASE UNCHANGED vars
  BY <1>15 DEF vars, TypeOK, Bookkeeping
<1> QED
  BY <1>1, <1>2, <1>3, <1>4, <1>5, <1>6, <1>7, <1>8, <1>9, <1>10, <1>11, <1>12,
     <1>13, <1>14, <1>15 DEF Next, Serve, Application, Fault, Finished

\* Every variable keeps its type, for every set of requests and of faults.
THEOREM TypeCorrect == Spec => []TypeOK
<1>1. TInv => TypeOK
  BY DEF TInv
<1> QED
  BY <1>1, InitTInv, StepTInv, PTL DEF Spec

-----------------------------------------------------------------------------
(* The inductive strengthening of the invariants above. *)

\* Nothing is claimed before the SET NX is answered, and no request has given
\* up while no reply was lost.
NotYetClaimed ==
  /\ \A r \in Requests :
       pc[r] \in {"arrive", "buffer", "set", "get"} => claim[r] = "none"
  /\ faults["lost"] = 0 => gaveUp = {}

\* Undisturbed, every request that executes holds the key.
KeyHeld ==
  Undisturbed => \A r \in Requests : Executing(r) => HoldsKey(r)

\* The request o was answered with status s and n bytes, and may be replayed.
TrueRecord(o, s, n) ==
  /\ pc[o] \in {"record", "returned", "cancelled"}
  /\ s = status[o] /\ s < 500
  /\ n = sent[o]
  /\ faults["disconnect"] = 0 => buf[o] = Body[o]

\* What has been kept for the record, and what was read for its fingerprint.
KeptTrueOf(r) ==
  /\ pc[r] = "record" => Storable(r)
  /\ ~tooLarge[r] => kept[r] = sent[r]
  /\ /\ pc[r] \in {"set", "get", "run", "record", "release", "raising"}
     /\ faults["disconnect"] = 0
     => buf[r] = Body[r]

KeptTrue == \A r \in Requests : KeptTrueOf(r)

\* The record in Redis is true.
StoredTrue ==
  store.state = "done" =>
    /\ store.fingerprint = buf[store.by]
    /\ TrueRecord(store.by, store.status, store.bytes)

\* So is what a client was sent again.
ReplayedTrue ==
  \A r \in Requests : answer[r].kind = "replay" =>
    /\ pc[r] = "returned"
    /\ buf[answer[r].of] = buf[r]
    /\ TrueRecord(answer[r].of, answer[r].status, answer[r].bytes)
    /\ faults["disconnect"] = 0 => buf[r] = Body[r]

\* Claims come after the SET NX, and giving up after a lost reply.
LEMMA StepNotYetClaimed == TypeOK /\ NotYetClaimed /\ [Next]_vars => NotYetClaimed'
<1> SUFFICES ASSUME TypeOK, NotYetClaimed, [Next]_vars PROVE NotYetClaimed'
  OBVIOUS
<1>1. ASSUME NEW r \in Requests, Arrive(r) PROVE NotYetClaimed'
  BY <1>1 DEF Arrive, Goto, TypeOK, NotYetClaimed
<1>2. ASSUME NEW r \in Requests, ReadBody(r) PROVE NotYetClaimed'
  BY <1>2 DEF ReadBody, Goto, TypeOK, NotYetClaimed
<1>3. ASSUME NEW r \in Requests, ClaimSet(r) PROVE NotYetClaimed'
  BY <1>3 DEF ClaimSet, Goto, TypeOK, AfterSet, InFlight, NotYetClaimed
<1>4. ASSUME NEW r \in Requests, ClaimGet(r) PROVE NotYetClaimed'
  BY <1>4 DEF ClaimGet, Goto, TypeOK, NotYetClaimed
<1>5. ASSUME NEW r \in Requests, Record(r) PROVE NotYetClaimed'
  BY <1>5 DEF Record, Goto, TypeOK, AfterRecord, Done, NotYetClaimed
<1>6. ASSUME NEW r \in Requests, Release(r) PROVE NotYetClaimed'
  BY <1>6 DEF Release, Goto, TypeOK, AfterDelete, NotYetClaimed
<1>7. ASSUME NEW r \in Requests, NEW s \in Statuses, HandlerStart(r, s) PROVE NotYetClaimed'
  BY <1>7 DEF HandlerStart, Goto, TypeOK, NotYetClaimed
<1>8. ASSUME NEW r \in Requests, NEW n \in Sizes, HandlerBody(r, n) PROVE NotYetClaimed'
  BY <1>8 DEF HandlerBody, Goto, TypeOK, NotYetClaimed
<1>9. ASSUME NEW r \in Requests, HandlerReturn(r) \/ HandlerRaise(r) PROVE NotYetClaimed'
  BY <1>9 DEF HandlerReturn, HandlerRaise, Goto, TypeOK, NotYetClaimed
<1>10. ASSUME NEW r \in Requests, Disconnect(r) \/ ReceiveRaises(r) PROVE NotYetClaimed'
  BY <1>10 DEF Disconnect, ReceiveRaises, Goto, TypeOK, Spend, FaultKinds,
     NotYetClaimed
<1>11. ASSUME NEW r \in Requests, LoseReply(r) PROVE NotYetClaimed'
  BY <1>11 DEF LoseReply, Goto, TypeOK, After, AfterSet, AfterRecord,
     AfterDelete,
     InFlight, Done, Spend, FaultKinds, NotYetClaimed
<1>12. ASSUME NEW r \in Requests, RedisDown(r) PROVE NotYetClaimed'
  BY <1>12 DEF RedisDown, Goto, TypeOK, Spend, FaultKinds, NotYetClaimed
<1>13. ASSUME NEW r \in Requests, Stop(r) PROVE NotYetClaimed'
  BY <1>13 DEF Stop, Cancelled, Goto, TypeOK, After, AfterSet, AfterRecord,
     AfterDelete, InFlight, Done, Spend, FaultKinds, NotYetClaimed
<1>14. ASSUME Expire PROVE NotYetClaimed'
  BY <1>14 DEF Expire, Spend, FaultKinds, TypeOK, Stored, NotYetClaimed
<1>15. CASE UNCHANGED vars
  BY <1>15 DEF vars, NotYetClaimed
<1> QED
  BY <1>1, <1>2, <1>3, <1>4, <1>5, <1>6, <1>7, <1>8, <1>9, <1>10, <1>11, <1>12,
     <1>13, <1>14, <1>15 DEF Next, Serve, Application, Fault, Finished

\* Undisturbed, the key stays with the request that executes, and there is only
\* one: whoever finds the key absent finds nobody executing.
LEMMA StepKeyHeld ==
  TypeOK /\ NotYetClaimed /\ KeyHeld /\ [Next]_vars => KeyHeld'
<1> SUFFICES ASSUME TypeOK, NotYetClaimed, KeyHeld, [Next]_vars, Undisturbed'
             PROVE (\A r \in Requests : Executing(r) => HoldsKey(r))'
  BY DEF KeyHeld
<1> DEFINE Held == \A r \in Requests : Executing(r) => HoldsKey(r)
<1>1. ASSUME NEW r \in Requests, Arrive(r) PROVE Held'
  BY <1>1 DEF Arrive, Goto, TypeOK, Undisturbed, KeyHeld, NotYetClaimed,
     Executing,
     HoldsKey, Commands, Absent
<1>2. ASSUME NEW r \in Requests, ReadBody(r) PROVE Held'
  BY <1>2 DEF ReadBody, Goto, TypeOK, Undisturbed, KeyHeld, NotYetClaimed,
     Executing,
     HoldsKey, Commands, Absent
<1>3. ASSUME NEW r \in Requests, ClaimSet(r) PROVE Held'
  BY <1>3 DEF ClaimSet, Goto, TypeOK, AfterSet, InFlight, Undisturbed, KeyHeld,
     NotYetClaimed, Executing, HoldsKey, Commands, Absent
<1>4. ASSUME NEW r \in Requests, ClaimGet(r) PROVE Held'
  BY <1>4 DEF ClaimGet, Goto, TypeOK, Undisturbed, KeyHeld, NotYetClaimed,
     Executing,
     HoldsKey, Commands, Absent
<1>5. ASSUME NEW r \in Requests, Record(r) PROVE Held'
  BY <1>5, ZenonT(60) DEF Record, Goto, TypeOK, AfterRecord, Done, Undisturbed, KeyHeld,
     NotYetClaimed, Executing, HoldsKey, Commands, Absent
<1>6. ASSUME NEW r \in Requests, Release(r) PROVE Held'
  BY <1>6 DEF Release, Goto, TypeOK, AfterDelete, Undisturbed, KeyHeld,
     NotYetClaimed, Executing, HoldsKey, Commands, Absent
<1>7. ASSUME NEW r \in Requests, NEW s \in Statuses, HandlerStart(r, s) PROVE Held'
  BY <1>7 DEF HandlerStart, Goto, TypeOK, Undisturbed, KeyHeld, NotYetClaimed,
     Executing, HoldsKey, Commands, Absent
<1>8. ASSUME NEW r \in Requests, NEW n \in Sizes, HandlerBody(r, n) PROVE Held'
  BY <1>8 DEF HandlerBody, Goto, TypeOK, Undisturbed, KeyHeld, NotYetClaimed,
     Executing, HoldsKey, Commands, Absent
<1>9. ASSUME NEW r \in Requests, HandlerReturn(r) \/ HandlerRaise(r) PROVE Held'
  BY <1>9 DEF HandlerReturn, HandlerRaise, Goto, TypeOK, Undisturbed, KeyHeld,
     NotYetClaimed, Executing, HoldsKey, Commands, Absent
<1>10. ASSUME NEW r \in Requests, Disconnect(r) \/ ReceiveRaises(r) PROVE Held'
  BY <1>10 DEF Disconnect, ReceiveRaises, Goto, TypeOK, Spend, FaultKinds,
     Undisturbed, KeyHeld, NotYetClaimed, Executing, HoldsKey, Commands,
     Absent
<1>11. ASSUME NEW r \in Requests, LoseReply(r) PROVE Held'
  BY <1>11 DEF LoseReply, Goto, TypeOK, After, AfterSet, AfterRecord,
     AfterDelete,
     InFlight, Done, Spend, FaultKinds, Undisturbed, KeyHeld, NotYetClaimed,
     Executing, HoldsKey, Commands, Absent
<1>12. ASSUME NEW r \in Requests, RedisDown(r) PROVE Held'
  BY <1>12 DEF RedisDown, Goto, TypeOK, Spend, FaultKinds, Undisturbed, KeyHeld,
     NotYetClaimed, Executing, HoldsKey, Commands, Absent
<1>13. ASSUME NEW r \in Requests, Stop(r) PROVE Held'
  BY <1>13 DEF Stop, Cancelled, Goto, TypeOK, After, AfterSet, AfterRecord,
     AfterDelete, InFlight, Done, Spend, FaultKinds, Undisturbed, KeyHeld,
     NotYetClaimed, Executing, HoldsKey, Commands, Absent
<1>14. ASSUME Expire PROVE Held'
  BY <1>14 DEF Expire, Spend, FaultKinds, TypeOK, Stored, Undisturbed,
     KeyHeld, NotYetClaimed, Executing, HoldsKey, Commands, Absent
<1>15. CASE UNCHANGED vars
  BY <1>15 DEF vars, Undisturbed, KeyHeld, NotYetClaimed, Executing,
     HoldsKey, Commands, Absent
<1> QED
  BY <1>1, <1>2, <1>3, <1>4, <1>5, <1>6, <1>7, <1>8, <1>9, <1>10, <1>11, <1>12,
     <1>13, <1>14, <1>15 DEF Next, Serve, Application, Fault, Finished

\* The types, and what follows from them about claims and the key.
OInv == TInv /\ NotYetClaimed /\ KeyHeld

\* OInv is an invariant of the middleware.
LEMMA OInvariant == Spec => []OInv
<1>1. Init => OInv
  <2>1. Init => NotYetClaimed /\ KeyHeld
    BY DEF Init, NotYetClaimed, KeyHeld, Executing, FaultKinds
  <2> QED
    BY <2>1, InitTInv DEF OInv
<1>2. OInv /\ [Next]_vars => OInv'
  BY StepTInv, StepNotYetClaimed, StepKeyHeld DEF OInv, TInv
<1> QED
  BY <1>1, <1>2, PTL DEF Spec

\* "Exactly one wins the reservation and runs", for any number of requests,
\* whatever is cancelled, crashes or fails, as long as no marker lapses under
\* its request, no command is sent twice and no request runs as a fresh one.
THEOREM OneRunAtATime == Spec => []OneRun
<1>1. OInv => OneRun
  BY DEF OInv, KeyHeld, OneRun, HoldsKey
<1> QED
  BY <1>1, OInvariant, PTL

\* A recorded response is neither overwritten nor deleted before its TTL, under
\* the same provisos: the unconditional SET and DELETE never meet one.
THEOREM RecordStays == Spec => RecordIsFinal
<1>1. ASSUME OInv, [Next]_vars, store.state = "done", Undisturbed
      PROVE  store' = store \/ Expire
  <2>1. \A r \in Requests : ~Executing(r)
    BY <1>1 DEF OInv, KeyHeld, HoldsKey
  <2>2. store # Absent
    BY <1>1 DEF Absent
  <2>3. ASSUME NEW r \in Requests, Arrive(r) PROVE store' = store
    BY <2>3 DEF Arrive
  <2>4. ASSUME NEW r \in Requests, ReadBody(r) PROVE store' = store
    BY <2>4 DEF ReadBody
  <2>5. ASSUME NEW r \in Requests, ClaimSet(r) PROVE store' = store
    BY <2>5, <2>1, <2>2 DEF ClaimSet, AfterSet
  <2>6. ASSUME NEW r \in Requests, ClaimGet(r) PROVE store' = store
    BY <2>6 DEF ClaimGet
  <2>7. ASSUME NEW r \in Requests, Record(r) PROVE store' = store
    BY <2>7, <2>1, <2>2 DEF Record, Executing
  <2>8. ASSUME NEW r \in Requests, Release(r) PROVE store' = store
    BY <2>8, <2>1, <2>2 DEF Release, Executing
  <2>9. ASSUME NEW r \in Requests, NEW s \in Statuses, HandlerStart(r, s) PROVE store' = store
    BY <2>9 DEF HandlerStart
  <2>10. ASSUME NEW r \in Requests, NEW n \in Sizes, HandlerBody(r, n) PROVE store' = store
    BY <2>10 DEF HandlerBody
  <2>11. ASSUME NEW r \in Requests, HandlerReturn(r) \/ HandlerRaise(r) PROVE store' = store
    BY <2>11 DEF HandlerReturn, HandlerRaise
  <2>12. ASSUME NEW r \in Requests, Disconnect(r) \/ ReceiveRaises(r) PROVE store' = store
    BY <2>12 DEF Disconnect, ReceiveRaises
  <2>13. ASSUME NEW r \in Requests, LoseReply(r) PROVE store' = store
    BY <2>13, <2>1, <2>2 DEF LoseReply, After, AfterSet, Executing
  <2>14. ASSUME NEW r \in Requests, RedisDown(r) PROVE store' = store
    BY <2>14 DEF RedisDown
  <2>15. ASSUME NEW r \in Requests, Stop(r) PROVE store' = store
    BY <2>15, <2>1, <2>2 DEF Stop, Cancelled, After, AfterSet, Executing
  <2>16. CASE UNCHANGED vars
    BY <2>16 DEF vars
  <2> QED
    BY <1>1, <2>3, <2>4, <2>5, <2>6, <2>7, <2>8, <2>9, <2>10, <2>11, <2>12,
       <2>13, <2>14, <2>15, <2>16 DEF Next, Serve, Application, Fault, Finished
<1>2. OInv /\ [Next]_vars =>
        [store.state = "done" /\ Undisturbed => store' = store \/ Expire]_vars
  BY <1>1
<1> QED
  BY <1>2, OInvariant, PTL DEF Spec, RecordIsFinal

-----------------------------------------------------------------------------
(* The marker. *)

\* Without faults a marker never outlives its request.
LEMMA StepMarker ==
  TypeOK /\ NotYetClaimed /\ MarkerHasRequest /\ [Next]_vars => MarkerHasRequest'
<1> SUFFICES ASSUME TypeOK, NotYetClaimed, MarkerHasRequest, [Next]_vars
             PROVE MarkerHasRequest'
  OBVIOUS
<1>1. ASSUME NEW r \in Requests, Arrive(r) PROVE MarkerHasRequest'
  BY <1>1 DEF Arrive, Goto, TypeOK, Stored, MarkerHasRequest, Calm,
     NotYetClaimed,
     Executing, Absent, FaultKinds
<1>2. ASSUME NEW r \in Requests, ReadBody(r) PROVE MarkerHasRequest'
  BY <1>2 DEF ReadBody, Goto, TypeOK, Stored, MarkerHasRequest, Calm,
     NotYetClaimed,
     Executing, Absent, FaultKinds
<1>3. ASSUME NEW r \in Requests, ClaimSet(r) PROVE MarkerHasRequest'
  BY <1>3 DEF ClaimSet, Goto, TypeOK, Stored, AfterSet, InFlight,
     MarkerHasRequest,
     Calm, NotYetClaimed, Executing, Absent, FaultKinds
<1>4. ASSUME NEW r \in Requests, ClaimGet(r) PROVE MarkerHasRequest'
  BY <1>4 DEF ClaimGet, Goto, TypeOK, Stored, MarkerHasRequest, Calm,
     NotYetClaimed,
     Executing, Absent, FaultKinds
<1>5. ASSUME NEW r \in Requests, Record(r) PROVE MarkerHasRequest'
  BY <1>5 DEF Record, Goto, TypeOK, Stored, AfterRecord, Done, MarkerHasRequest,
     Calm, NotYetClaimed, Executing, Absent, FaultKinds
<1>6. ASSUME NEW r \in Requests, Release(r) PROVE MarkerHasRequest'
  BY <1>6 DEF Release, Goto, TypeOK, Stored, AfterDelete, MarkerHasRequest,
     Calm,
     NotYetClaimed, Executing, Absent, FaultKinds
<1>7. ASSUME NEW r \in Requests, NEW s \in Statuses, HandlerStart(r, s) PROVE MarkerHasRequest'
  BY <1>7 DEF HandlerStart, Goto, TypeOK, Stored, MarkerHasRequest, Calm,
     NotYetClaimed, Executing, Absent, FaultKinds
<1>8. ASSUME NEW r \in Requests, NEW n \in Sizes, HandlerBody(r, n) PROVE MarkerHasRequest'
  BY <1>8 DEF HandlerBody, Goto, TypeOK, Stored, MarkerHasRequest, Calm,
     NotYetClaimed, Executing, Absent, FaultKinds
<1>9. ASSUME NEW r \in Requests, HandlerReturn(r) \/ HandlerRaise(r) PROVE MarkerHasRequest'
  BY <1>9 DEF HandlerReturn, HandlerRaise, Goto, TypeOK, Stored,
     MarkerHasRequest,
     Calm, NotYetClaimed, Executing, Absent, FaultKinds
<1>10. ASSUME NEW r \in Requests, Disconnect(r) \/ ReceiveRaises(r) PROVE MarkerHasRequest'
  <2>1. CASE Disconnect(r)
    BY <2>1, SMTT(40) DEF Disconnect, Goto, TypeOK, Stored, Spend, FaultKinds,
       MarkerHasRequest, Calm, NotYetClaimed, Executing, Absent
  <2>2. CASE ReceiveRaises(r)
    BY <2>2, SMTT(40) DEF ReceiveRaises, Goto, TypeOK, Stored, Spend,
       FaultKinds, MarkerHasRequest, Calm, NotYetClaimed, Executing, Absent
  <2> QED BY <1>10, <2>1, <2>2
<1>11. ASSUME NEW r \in Requests, LoseReply(r) PROVE MarkerHasRequest'
  BY <1>11 DEF LoseReply, Goto, TypeOK, Stored, After, AfterSet, AfterRecord,
     AfterDelete, InFlight, Done, Spend, FaultKinds, MarkerHasRequest, Calm,
     NotYetClaimed, Executing, Absent
<1>12. ASSUME NEW r \in Requests, RedisDown(r) PROVE MarkerHasRequest'
  BY <1>12 DEF RedisDown, Goto, TypeOK, Stored, Spend, FaultKinds,
     MarkerHasRequest,
     Calm, NotYetClaimed, Executing, Absent
<1>13. ASSUME NEW r \in Requests, Stop(r) PROVE MarkerHasRequest'
  BY <1>13 DEF Stop, Cancelled, Goto, TypeOK, Stored, After, AfterSet,
     AfterRecord,
     AfterDelete, InFlight, Done, Spend, FaultKinds, MarkerHasRequest, Calm,
     NotYetClaimed, Executing, Absent
<1>14. ASSUME Expire PROVE MarkerHasRequest'
  BY <1>14 DEF Expire, Spend, FaultKinds, TypeOK, Stored, MarkerHasRequest,
     Calm, NotYetClaimed, Executing, Absent
<1>15. CASE UNCHANGED vars
  BY <1>15 DEF vars, MarkerHasRequest, Calm, NotYetClaimed, Executing, Absent
<1> QED
  BY <1>1, <1>2, <1>3, <1>4, <1>5, <1>6, <1>7, <1>8, <1>9, <1>10, <1>11, <1>12,
     <1>13, <1>14, <1>15 DEF Next, Serve, Application, Fault, Finished

\* Without an outage, a lost reply or a cancellation, a 409 "in progress" is
\* only ever caused by a request that is being served: the reservation goes.
THEOREM MarkersAreServed == Spec => []MarkerHasRequest
<1>1. Init => MarkerHasRequest
  BY DEF Init, MarkerHasRequest, Absent
<1>2. OInv /\ MarkerHasRequest /\ [Next]_vars => MarkerHasRequest'
  BY StepMarker DEF OInv, TInv
<1> QED
  BY <1>1, <1>2, OInvariant, PTL DEF Spec

-----------------------------------------------------------------------------
(* Replays. *)

\* What is kept and what is read stay true.
LEMMA StepKept == TInv /\ KeptTrue /\ [Next]_vars => KeptTrue'
<1> SUFFICES ASSUME TypeOK, Bookkeeping, KeptTrue, [Next]_vars,
                    NEW q \in Requests
             PROVE  KeptTrueOf(q)'
  BY DEF TInv, KeptTrue
<1>0. KeptTrueOf(q)
  BY DEF KeptTrue
<1>1. ASSUME NEW r \in Requests, Arrive(r)
      PROVE  KeptTrueOf(q)'
  BY <1>0, <1>1 DEF Arrive, Goto, TypeOK, KeptTrueOf, Storable, FaultKinds
<1>2. ASSUME NEW r \in Requests, ReadBody(r)
      PROVE  KeptTrueOf(q)'
  BY <1>0, <1>2, BodyRead DEF ReadBody, Goto, TypeOK, KeptTrueOf, Storable, FaultKinds
<1>3. ASSUME NEW r \in Requests, ClaimSet(r)
      PROVE  KeptTrueOf(q)'
  BY <1>0, <1>3 DEF ClaimSet, Goto, TypeOK, AfterSet, InFlight, KeptTrueOf, Storable,
     FaultKinds
<1>4. ASSUME NEW r \in Requests, ClaimGet(r)
      PROVE  KeptTrueOf(q)'
  BY <1>0, <1>4 DEF ClaimGet, Goto, TypeOK, KeptTrueOf, Storable, FaultKinds
<1>5. ASSUME NEW r \in Requests, Record(r)
      PROVE  KeptTrueOf(q)'
  BY <1>0, <1>5 DEF Record, Goto, TypeOK, AfterRecord, Done, KeptTrueOf, Storable,
     FaultKinds
<1>6. ASSUME NEW r \in Requests, Release(r)
      PROVE  KeptTrueOf(q)'
  BY <1>0, <1>6 DEF Release, Goto, TypeOK, AfterDelete, KeptTrueOf, Storable, FaultKinds
<1>7. ASSUME NEW r \in Requests, NEW s \in Statuses, HandlerStart(r, s)
      PROVE  KeptTrueOf(q)'
  BY <1>0, <1>7 DEF HandlerStart, Goto, TypeOK, KeptTrueOf, Storable, FaultKinds
<1>8. ASSUME NEW r \in Requests, NEW n \in Sizes, HandlerBody(r, n)
      PROVE  KeptTrueOf(q)'
  BY <1>0, <1>8, ConstantsAssumption DEF HandlerBody, Goto, TypeOK, KeptTrueOf,
     Storable, FaultKinds
<1>9. ASSUME NEW r \in Requests, HandlerReturn(r) \/ HandlerRaise(r)
      PROVE  KeptTrueOf(q)'
  BY <1>0, <1>9 DEF HandlerReturn, HandlerRaise, Goto, TypeOK, KeptTrueOf, Storable,
     FaultKinds
<1>10. ASSUME NEW r \in Requests, Disconnect(r) \/ ReceiveRaises(r)
      PROVE  KeptTrueOf(q)'
  BY <1>0, <1>10 DEF Disconnect, ReceiveRaises, Goto, TypeOK, Spend, FaultKinds,
     KeptTrueOf,
     Storable
<1>11. ASSUME NEW r \in Requests, LoseReply(r)
      PROVE  KeptTrueOf(q)'
  BY <1>0, <1>11 DEF LoseReply, Goto, TypeOK, After, AfterSet, AfterRecord,
     AfterDelete,
     InFlight, Done, Spend, FaultKinds, KeptTrueOf, Storable
<1>12. ASSUME NEW r \in Requests, RedisDown(r)
      PROVE  KeptTrueOf(q)'
  BY <1>0, <1>12 DEF RedisDown, Goto, TypeOK, Spend, FaultKinds, KeptTrueOf, Storable
<1>13. ASSUME NEW r \in Requests, Stop(r)
      PROVE  KeptTrueOf(q)'
  BY <1>0, <1>13 DEF Stop, Cancelled, Goto, TypeOK, After, AfterSet, AfterRecord,
     AfterDelete, InFlight, Done, Spend, FaultKinds, KeptTrueOf, Storable
<1>14. ASSUME Expire
      PROVE  KeptTrueOf(q)'
  BY <1>0, <1>14 DEF Expire, Spend, FaultKinds, TypeOK, Stored, KeptTrueOf,
     Storable, FaultKinds
<1>15. CASE UNCHANGED vars
  BY <1>0, <1>15 DEF vars, KeptTrueOf, Storable, FaultKinds
<1> QED
  BY <1>1, <1>2, <1>3, <1>4, <1>5, <1>6, <1>7, <1>8, <1>9, <1>10, <1>11, <1>12,
     <1>13, <1>14, <1>15 DEF Next, Serve, Application, Fault, Finished

\* A request that is past the application keeps what a record is made of.
LEMMA StepSettled ==
  ASSUME TypeOK, [Next]_vars, NEW o \in Requests,
         pc[o] \in {"record", "returned", "cancelled"}
  PROVE  /\ pc'[o] \in {"record", "returned", "cancelled"}
         /\ pc[o] # "record" => pc'[o] = pc[o]
         /\ status'[o] = status[o] /\ sent'[o] = sent[o] /\ buf'[o] = buf[o]
         /\ faults'["disconnect"] = 0 => faults["disconnect"] = 0
<1> DEFINE G ==
      /\ pc'[o] \in {"record", "returned", "cancelled"}
      /\ pc[o] # "record" => pc'[o] = pc[o]
      /\ status'[o] = status[o] /\ sent'[o] = sent[o] /\ buf'[o] = buf[o]
      /\ faults'["disconnect"] = 0 => faults["disconnect"] = 0
<1>1. ASSUME NEW r \in Requests, Arrive(r) PROVE G
  BY <1>1 DEF Arrive, Goto, TypeOK, FaultKinds
<1>2. ASSUME NEW r \in Requests, ReadBody(r) PROVE G
  BY <1>2 DEF ReadBody, Goto, TypeOK, FaultKinds
<1>3. ASSUME NEW r \in Requests, ClaimSet(r) PROVE G
  BY <1>3 DEF ClaimSet, Goto, TypeOK, AfterSet, InFlight, FaultKinds
<1>4. ASSUME NEW r \in Requests, ClaimGet(r) PROVE G
  BY <1>4 DEF ClaimGet, Goto, TypeOK, FaultKinds
<1>5. ASSUME NEW r \in Requests, Record(r) PROVE G
  BY <1>5 DEF Record, Goto, TypeOK, AfterRecord, Done, FaultKinds
<1>6. ASSUME NEW r \in Requests, Release(r) PROVE G
  BY <1>6 DEF Release, Goto, TypeOK, AfterDelete, FaultKinds
<1>7. ASSUME NEW r \in Requests, NEW s \in Statuses, HandlerStart(r, s) PROVE G
  BY <1>7 DEF HandlerStart, Goto, TypeOK, FaultKinds
<1>8. ASSUME NEW r \in Requests, NEW n \in Sizes, HandlerBody(r, n) PROVE G
  BY <1>8 DEF HandlerBody, Goto, TypeOK, FaultKinds
<1>9. ASSUME NEW r \in Requests, HandlerReturn(r) \/ HandlerRaise(r) PROVE G
  BY <1>9 DEF HandlerReturn, HandlerRaise, Goto, TypeOK, FaultKinds
<1>10. ASSUME NEW r \in Requests, Disconnect(r) \/ ReceiveRaises(r) PROVE G
  BY <1>10 DEF Disconnect, ReceiveRaises, Goto, TypeOK, Spend, FaultKinds
<1>11. ASSUME NEW r \in Requests, LoseReply(r) PROVE G
  BY <1>11 DEF LoseReply, Goto, TypeOK, After, AfterSet, AfterRecord,
     AfterDelete,
     InFlight, Done, Spend, FaultKinds
<1>12. ASSUME NEW r \in Requests, RedisDown(r) PROVE G
  BY <1>12 DEF RedisDown, Goto, TypeOK, Spend, FaultKinds
<1>13. ASSUME NEW r \in Requests, Stop(r) PROVE G
  BY <1>13 DEF Stop, Cancelled, Goto, TypeOK, After, AfterSet, AfterRecord,
     AfterDelete, InFlight, Done, Spend, FaultKinds
<1>14. ASSUME Expire PROVE G
  BY <1>14 DEF Expire, Spend, FaultKinds, TypeOK, Stored, FaultKinds
<1>15. CASE UNCHANGED vars
  BY <1>15 DEF vars, FaultKinds
<1> QED
  BY <1>1, <1>2, <1>3, <1>4, <1>5, <1>6, <1>7, <1>8, <1>9, <1>10, <1>11, <1>12,
     <1>13, <1>14, <1>15 DEF Next, Serve, Application, Fault, Finished

\* Only a record that is about to be written is ever written.
LEMMA StoreChanges ==
  ASSUME TypeOK, [Next]_vars
  PROVE  \/ store' = store
         \/ store'.state \in {"absent", "in-flight"}
         \/ \E o \in Requests : /\ pc[o] = "record" /\ store' = Done(o)
                               /\ pc'[o] \in {"record", "returned", "cancelled"}
                               /\ UNCHANGED <<buf, status, sent>>
                               /\ faults'["disconnect"] = faults["disconnect"]
<1> DEFINE G == \/ store' = store
                \/ store'.state \in {"absent", "in-flight"}
                \/ \E o \in Requests :
                     /\ pc[o] = "record" /\ store' = Done(o)
                     /\ pc'[o] \in {"record", "returned", "cancelled"}
                     /\ UNCHANGED <<buf, status, sent>>
                     /\ faults'["disconnect"] = faults["disconnect"]
<1>1. ASSUME NEW r \in Requests, Arrive(r) PROVE G
  BY <1>1 DEF Arrive, Goto, TypeOK, Absent, Commands, FaultKinds
<1>2. ASSUME NEW r \in Requests, ReadBody(r) PROVE G
  BY <1>2 DEF ReadBody, Goto, TypeOK, Absent, Commands, FaultKinds
<1>3. ASSUME NEW r \in Requests, ClaimSet(r) PROVE G
  BY <1>3 DEF ClaimSet, Goto, TypeOK, AfterSet, InFlight, Absent, Commands,
     FaultKinds
<1>4. ASSUME NEW r \in Requests, ClaimGet(r) PROVE G
  BY <1>4 DEF ClaimGet, Goto, TypeOK, Absent, Commands, FaultKinds
<1>5. ASSUME NEW r \in Requests, Record(r) PROVE G
  BY <1>5 DEF Record, Goto, TypeOK, AfterRecord, Absent, Commands, FaultKinds
<1>6. ASSUME NEW r \in Requests, Release(r) PROVE G
  BY <1>6 DEF Release, Goto, TypeOK, AfterDelete, Absent, Commands, FaultKinds
<1>7. ASSUME NEW r \in Requests, NEW s \in Statuses, HandlerStart(r, s) PROVE G
  BY <1>7 DEF HandlerStart, Goto, TypeOK, Absent, Commands, FaultKinds
<1>8. ASSUME NEW r \in Requests, NEW n \in Sizes, HandlerBody(r, n) PROVE G
  BY <1>8 DEF HandlerBody, Goto, TypeOK, Absent, Commands, FaultKinds
<1>9. ASSUME NEW r \in Requests, HandlerReturn(r) \/ HandlerRaise(r) PROVE G
  BY <1>9 DEF HandlerReturn, HandlerRaise, Goto, TypeOK, Absent, Commands,
     FaultKinds
<1>10. ASSUME NEW r \in Requests, Disconnect(r) \/ ReceiveRaises(r) PROVE G
  BY <1>10 DEF Disconnect, ReceiveRaises, Goto, TypeOK, Spend, FaultKinds,
     Absent,
     Commands
<1>11. ASSUME NEW r \in Requests, LoseReply(r) PROVE G
  BY <1>11 DEF LoseReply, Goto, TypeOK, After, AfterSet, AfterRecord,
     AfterDelete,
     InFlight, Spend, FaultKinds, Absent, Commands
<1>12. ASSUME NEW r \in Requests, RedisDown(r) PROVE G
  BY <1>12 DEF RedisDown, Goto, TypeOK, Spend, FaultKinds, Absent, Commands
<1>13. ASSUME NEW r \in Requests, Stop(r) PROVE G
  BY <1>13 DEF Stop, Cancelled, Goto, TypeOK, After, AfterSet, AfterRecord,
     AfterDelete, InFlight, Spend, FaultKinds, Absent, Commands
<1>14. ASSUME Expire PROVE G
  BY <1>14 DEF Expire, Spend, FaultKinds, TypeOK, Stored, Absent, Commands,
     FaultKinds
<1>15. CASE UNCHANGED vars
  BY <1>15 DEF vars, Absent, Commands, FaultKinds
<1> QED
  BY <1>1, <1>2, <1>3, <1>4, <1>5, <1>6, <1>7, <1>8, <1>9, <1>10, <1>11, <1>12,
     <1>13, <1>14, <1>15 DEF Next, Serve, Application, Fault, Finished

\* Only the record in Redis is ever replayed, to a request with its fingerprint.
LEMMA AnswerChanges ==
  ASSUME TypeOK, [Next]_vars, NEW q \in Requests, answer'[q].kind = "replay"
  PROVE  \/ answer'[q] = answer[q] /\ pc'[q] = pc[q]
         \/ answer[q].kind = "replay" /\ pc[q] # "returned"
         \/ /\ pc[q] = "get" /\ pc'[q] = "returned"
            /\ store.state = "done" /\ store.fingerprint = buf[q]
            /\ answer'[q] = Replay(store)
            /\ UNCHANGED <<buf, faults>>
<1> DEFINE G == \/ answer'[q] = answer[q] /\ pc'[q] = pc[q]
                \/ answer[q].kind = "replay" /\ pc[q] # "returned"
                \/ /\ pc[q] = "get" /\ pc'[q] = "returned"
                   /\ store.state = "done" /\ store.fingerprint = buf[q]
                   /\ answer'[q] = Replay(store)
                   /\ UNCHANGED <<buf, faults>>
<1>1. ASSUME NEW r \in Requests, Arrive(r) PROVE G
  BY <1>1 DEF Arrive, Goto, TypeOK, Existing, Refused, Replay, Own, Stored,
     Absent
<1>2. ASSUME NEW r \in Requests, ReadBody(r) PROVE G
  BY <1>2 DEF ReadBody, Goto, TypeOK, Existing, Refused, Replay, Own,
     Stored, Absent
<1>3. ASSUME NEW r \in Requests, ClaimSet(r) PROVE G
  BY <1>3 DEF ClaimSet, Goto, TypeOK, AfterSet, InFlight, Existing, Refused,
     Replay,
     Own, Stored, Absent
<1>4. ASSUME NEW r \in Requests, ClaimGet(r) PROVE G
  <2>1. CASE store = Absent
    BY <1>4, <2>1 DEF ClaimGet, Goto, TypeOK
  <2>2. CASE store # Absent
    <3>1. \/ Existing(buf[r], store).kind = "refused"
          \/ /\ store.fingerprint = buf[r] /\ store.state # "in-flight"
             /\ Existing(buf[r], store) = Replay(store)
      BY DEF Existing, Refused
    <3>2. store.state \in {"in-flight", "done"}
      BY <2>2 DEF TypeOK, Stored
    <3>3. /\ pc' = [pc EXCEPT ![r] = "returned"]
          /\ answer' = [answer EXCEPT ![r] = Existing(buf[r], store)]
          /\ pc[r] = "get" /\ UNCHANGED <<buf, faults>>
      BY <1>4, <2>2 DEF ClaimGet, Goto
    <3> QED
      BY <3>1, <3>2, <3>3 DEF TypeOK
  <2> QED
    BY <2>1, <2>2
<1>5. ASSUME NEW r \in Requests, Record(r) PROVE G
  BY <1>5 DEF Record, Goto, TypeOK, AfterRecord, Done, Existing, Refused,
     Replay,
     Own, Stored, Absent
<1>6. ASSUME NEW r \in Requests, Release(r) PROVE G
  BY <1>6 DEF Release, Goto, TypeOK, AfterDelete, Existing, Refused, Replay,
     Own,
     Stored, Absent
<1>7. ASSUME NEW r \in Requests, NEW s \in Statuses, HandlerStart(r, s) PROVE G
  BY <1>7 DEF HandlerStart, Goto, TypeOK, Existing, Refused, Replay, Own,
     Stored,
     Absent
<1>8. ASSUME NEW r \in Requests, NEW n \in Sizes, HandlerBody(r, n) PROVE G
  BY <1>8 DEF HandlerBody, Goto, TypeOK, Existing, Refused, Replay, Own, Stored,
     Absent
<1>9. ASSUME NEW r \in Requests, HandlerReturn(r) \/ HandlerRaise(r) PROVE G
  BY <1>9 DEF HandlerReturn, HandlerRaise, Goto, TypeOK, Existing, Refused,
     Replay,
     Own, Stored, Absent
<1>10. ASSUME NEW r \in Requests, Disconnect(r) \/ ReceiveRaises(r) PROVE G
  BY <1>10 DEF Disconnect, ReceiveRaises, Goto, TypeOK, Spend, FaultKinds,
     Existing,
     Refused, Replay, Own, Stored, Absent
<1>11. ASSUME NEW r \in Requests, LoseReply(r) PROVE G
  BY <1>11 DEF LoseReply, Goto, TypeOK, After, AfterSet, AfterRecord,
     AfterDelete,
     InFlight, Done, Spend, FaultKinds, Existing, Refused, Replay, Own,
     Stored, Absent
<1>12. ASSUME NEW r \in Requests, RedisDown(r) PROVE G
  BY <1>12 DEF RedisDown, Goto, TypeOK, Spend, FaultKinds, Existing,
     Refused, Replay,
     Own, Stored, Absent
<1>13. ASSUME NEW r \in Requests, Stop(r) PROVE G
  BY <1>13 DEF Stop, Cancelled, Goto, TypeOK, After, AfterSet, AfterRecord,
     AfterDelete, InFlight, Done, Spend, FaultKinds, Existing, Refused,
     Replay, Own, Stored, Absent
<1>14. ASSUME Expire PROVE G
  BY <1>14 DEF Expire, Spend, FaultKinds, TypeOK, Stored, Existing, Refused,
     Replay, Own, Stored, Absent
<1>15. CASE UNCHANGED vars
  BY <1>15 DEF vars, Existing, Refused, Replay, Own, Stored, Absent
<1> QED
  BY <1>1, <1>2, <1>3, <1>4, <1>5, <1>6, <1>7, <1>8, <1>9, <1>10, <1>11, <1>12,
     <1>13, <1>14, <1>15 DEF Next, Serve, Application, Fault, Finished

\* The replay invariants together with the types.
RInv == TInv /\ KeptTrue /\ StoredTrue /\ ReplayedTrue

\* RInv is an invariant of the middleware.
LEMMA RInvariant == Spec => []RInv
<1>1. Init => RInv
  BY InitTInv DEF Init, RInv, KeptTrue, KeptTrueOf, StoredTrue, ReplayedTrue, Absent, None
<1>2. ASSUME RInv, [Next]_vars PROVE RInv'
  <2>1. TypeOK /\ TInv' /\ KeptTrue'
    BY <1>2, StepTInv, StepKept DEF RInv, TInv
  <2> DEFINE Settled(o) ==
        /\ pc'[o] \in {"record", "returned", "cancelled"}
        /\ pc[o] # "record" => pc'[o] = pc[o]
        /\ status'[o] = status[o] /\ sent'[o] = sent[o] /\ buf'[o] = buf[o]
        /\ faults'["disconnect"] = 0 => faults["disconnect"] = 0
  <2>4. \A o \in Requests :
          pc[o] \in {"record", "returned", "cancelled"} => Settled(o)
    <3> SUFFICES ASSUME NEW o \in Requests,
                        pc[o] \in {"record", "returned", "cancelled"}
                 PROVE  Settled(o)
      OBVIOUS
    <3>1. TypeOK /\ [Next]_vars
      BY <1>2 DEF RInv, TInv
    <3> QED
      BY <3>1, StepSettled DEF Settled
  <2> HIDE DEF Settled
  <2>2. StoredTrue'
    <3>1. CASE store' = store /\ store.state = "done"
      <4>1. store.by \in Requests
        BY <2>1, <3>1 DEF TypeOK, Stored, Absent
      <4> DEFINE o == store.by
      <4>2. /\ store.fingerprint = buf[o]
            /\ TrueRecord(o, store.status, store.bytes)
        BY <1>2, <3>1 DEF RInv, StoredTrue
      <4>3. Settled(o)
        BY <2>4, <4>1, <4>2 DEF TrueRecord
      <4> QED
        BY <3>1, <4>2, <4>3 DEF StoredTrue, TrueRecord, Settled
    <3>2. CASE store'.state \in {"absent", "in-flight"}
      BY <3>2 DEF StoredTrue
    <3>3. ASSUME NEW o \in Requests, pc[o] = "record", store' = Done(o),
                 pc'[o] \in {"record", "returned", "cancelled"},
                 UNCHANGED <<buf, status, sent>>,
                 faults'["disconnect"] = faults["disconnect"]
          PROVE  StoredTrue'
      BY <1>2, <2>1, <3>3
      DEF RInv, KeptTrue, KeptTrueOf, StoredTrue, TrueRecord, Storable, Done
    <3> QED
      BY <1>2, <2>1, <3>1, <3>2, <3>3, StoreChanges DEF StoredTrue
  <2>3. ReplayedTrue'
    <3> SUFFICES ASSUME NEW r \in Requests, answer'[r].kind = "replay"
                 PROVE  /\ pc'[r] = "returned"
                        /\ buf'[answer'[r].of] = buf'[r]
                        /\ TrueRecord(answer[r].of, answer[r].status,
                                      answer[r].bytes)'
                        /\ faults'["disconnect"] = 0 => buf'[r] = Body[r]
      BY DEF ReplayedTrue
    <3>1. answer'[r].of \in Requests
      <4>1. answer'[r] \in Answers
        BY <2>1 DEF TInv, TypeOK
      <4> QED
        BY <4>1, ReplayOf
    <3>2. CASE answer'[r] = answer[r] /\ pc'[r] = pc[r]
      <4> DEFINE o == answer[r].of
      <4>1. /\ pc[r] = "returned"
            /\ buf[o] = buf[r]
            /\ TrueRecord(o, answer[r].status, answer[r].bytes)
            /\ faults["disconnect"] = 0 => buf[r] = Body[r]
        BY <1>2, <3>2 DEF RInv, ReplayedTrue
      <4>2. o \in Requests
        BY <3>1, <3>2
      <4>3. Settled(o) /\ Settled(r)
        BY <2>4, <4>1, <4>2 DEF TrueRecord
      <4> QED
        BY <3>2, <4>1, <4>3 DEF TrueRecord, Settled
    <3>3. CASE /\ pc[r] = "get" /\ pc'[r] = "returned"
               /\ store.state = "done" /\ store.fingerprint = buf[r]
               /\ answer'[r] = Replay(store)
               /\ UNCHANGED <<buf, faults>>
      <4>1. store.by \in Requests
        BY <2>1, <3>3 DEF TypeOK, Stored, Absent
      <4> DEFINE o == store.by
      <4>2. /\ store.fingerprint = buf[o]
            /\ TrueRecord(o, store.status, store.bytes)
            /\ faults["disconnect"] = 0 => buf[r] = Body[r]
        BY <1>2, <3>3 DEF RInv, StoredTrue, KeptTrue, KeptTrueOf
      <4>3. Settled(o)
        BY <2>4, <4>1, <4>2 DEF TrueRecord
      <4>4. /\ answer'[r].of = o /\ answer'[r].status = store.status
            /\ answer'[r].bytes = store.bytes
        BY <3>3 DEF Replay
      <4> QED
        BY <3>3, <4>2, <4>3, <4>4 DEF TrueRecord, Settled
    <3> QED
      BY <1>2, <2>1, <3>2, <3>3, AnswerChanges DEF RInv, ReplayedTrue
  <2> QED
    BY <2>1, <2>2, <2>3 DEF RInv
<1> QED
  BY <1>1, <1>2, PTL DEF Spec

\* A replay is the whole response of a request with the same body, no server
\* error, for any number of requests, any bodies and any faults.
THEOREM ReplaysAreFaithful == Spec => []ReplayFaithful
<1>1. RInv => ReplayFaithful
  BY DEF RInv, ReplayedTrue, ReplayFaithful, TrueRecord
<1> QED
  BY <1>1, RInvariant, PTL

-----------------------------------------------------------------------------
(* Conflicts. *)

\* The request o has sent its SET NX, with the body it has read.
Reserved(o) ==
  /\ pc[o] \notin {"arrive", "buffer"}
  /\ faults["disconnect"] = 0 => buf[o] = Body[o]
  /\ faults["lost"] = 0 /\ faults["cancel"] = 0 => claim[o] \in {"won", "fresh"}

\* What the middleware records or releases was claimed.
ClaimedFirst ==
  \A r \in Requests :
    pc[r] \in {"run", "record", "release", "raising"} => claim[r] \in {"won", "fresh"}

\* The key names a request that reserved it, and its body.
StoreReserved ==
  store # Absent => store.fingerprint = buf[store.by] /\ Reserved(store.by)

\* Whoever is told "different body" met the reservation of one.
ConflictTrue ==
  \A r \in Requests :
    answer[r] = Refused(409, "different body") =>
      /\ pc[r] = "returned"
      /\ faults["disconnect"] = 0 => buf[r] = Body[r]
      /\ \E o \in Requests : Reserved(o) /\ buf[o] # buf[r]

\* What runs was claimed.
LEMMA StepClaimedFirst ==
  ASSUME TypeOK, ClaimedFirst, [Next]_vars
  PROVE  ClaimedFirst'
<1>1. ASSUME NEW r \in Requests, Arrive(r) PROVE ClaimedFirst'
  BY <1>1 DEF Arrive, Goto, TypeOK, ClaimedFirst
<1>2. ASSUME NEW r \in Requests, ReadBody(r) PROVE ClaimedFirst'
  BY <1>2 DEF ReadBody, Goto, TypeOK, ClaimedFirst
<1>3. ASSUME NEW r \in Requests, ClaimSet(r) PROVE ClaimedFirst'
  BY <1>3 DEF ClaimSet, Goto, AfterSet, InFlight, TypeOK, ClaimedFirst
<1>4. ASSUME NEW r \in Requests, ClaimGet(r) PROVE ClaimedFirst'
  BY <1>4 DEF ClaimGet, Goto, TypeOK, ClaimedFirst
<1>5. ASSUME NEW r \in Requests, Record(r) PROVE ClaimedFirst'
  BY <1>5 DEF Record, Goto, AfterRecord, Done, TypeOK, ClaimedFirst
<1>6. ASSUME NEW r \in Requests, Release(r) PROVE ClaimedFirst'
  BY <1>6 DEF Release, Goto, AfterDelete, TypeOK, ClaimedFirst
<1>7. ASSUME NEW r \in Requests, NEW s \in Statuses, HandlerStart(r, s) PROVE ClaimedFirst'
  BY <1>7 DEF HandlerStart, TypeOK, ClaimedFirst
<1>8. ASSUME NEW r \in Requests, NEW n \in Sizes, HandlerBody(r, n) PROVE ClaimedFirst'
  BY <1>8 DEF HandlerBody, TypeOK, ClaimedFirst
<1>9. ASSUME NEW r \in Requests, HandlerReturn(r) \/ HandlerRaise(r) PROVE ClaimedFirst'
  BY <1>9 DEF HandlerReturn, HandlerRaise, Goto, TypeOK, ClaimedFirst
<1>10. ASSUME NEW r \in Requests, Disconnect(r) \/ ReceiveRaises(r) PROVE ClaimedFirst'
  BY <1>10 DEF Disconnect, ReceiveRaises, Goto, Spend, FaultKinds, TypeOK,
     ClaimedFirst
<1>11. ASSUME NEW r \in Requests, LoseReply(r) PROVE ClaimedFirst'
  BY <1>11 DEF LoseReply, Goto, After, AfterSet, AfterRecord, AfterDelete,
     InFlight, Done, Commands, Spend, FaultKinds, TypeOK, ClaimedFirst
<1>12. ASSUME NEW r \in Requests, RedisDown(r) PROVE ClaimedFirst'
  BY <1>12 DEF RedisDown, Goto, Commands, Spend, FaultKinds, TypeOK,
     ClaimedFirst
<1>13. ASSUME NEW r \in Requests, Stop(r) PROVE ClaimedFirst'
  BY <1>13 DEF Stop, Cancelled, Goto, After, AfterSet, AfterRecord,
     AfterDelete, InFlight, Done, Spend, FaultKinds, TypeOK, ClaimedFirst
<1>14. ASSUME Expire PROVE ClaimedFirst'
  BY <1>14 DEF Expire, Spend, FaultKinds, TypeOK, ClaimedFirst
<1>15. CASE UNCHANGED vars
  BY <1>15 DEF vars, TypeOK, ClaimedFirst
<1> QED
  BY <1>1, <1>2, <1>3, <1>4, <1>5, <1>6, <1>7, <1>8, <1>9, <1>10, <1>11,
     <1>12, <1>13, <1>14, <1>15 DEF Next, Serve, Application, Fault, Finished

\* A reservation that was made stays made, with the body that was read.
LEMMA StepReserved ==
  ASSUME TypeOK, NotYetClaimed, [Next]_vars, NEW o \in Requests, Reserved(o)
  PROVE  Reserved(o)' /\ buf'[o] = buf[o]
<1>1. ASSUME NEW r \in Requests, Arrive(r) PROVE Reserved(o)' /\ buf'[o] = buf[o]
  BY <1>1 DEF Arrive, Goto, TypeOK, NotYetClaimed, Reserved
<1>2. ASSUME NEW r \in Requests, ReadBody(r) PROVE Reserved(o)' /\ buf'[o] = buf[o]
  BY <1>2 DEF ReadBody, Goto, TypeOK, NotYetClaimed, Reserved
<1>3. ASSUME NEW r \in Requests, ClaimSet(r) PROVE Reserved(o)' /\ buf'[o] = buf[o]
  BY <1>3 DEF ClaimSet, Goto, AfterSet, InFlight, TypeOK, NotYetClaimed,
     Reserved
<1>4. ASSUME NEW r \in Requests, ClaimGet(r) PROVE Reserved(o)' /\ buf'[o] = buf[o]
  BY <1>4 DEF ClaimGet, Goto, TypeOK, NotYetClaimed, Reserved
<1>5. ASSUME NEW r \in Requests, Record(r) PROVE Reserved(o)' /\ buf'[o] = buf[o]
  BY <1>5 DEF Record, Goto, AfterRecord, Done, TypeOK, NotYetClaimed, Reserved
<1>6. ASSUME NEW r \in Requests, Release(r) PROVE Reserved(o)' /\ buf'[o] = buf[o]
  BY <1>6 DEF Release, Goto, AfterDelete, TypeOK, NotYetClaimed, Reserved
<1>7. ASSUME NEW r \in Requests, NEW s \in Statuses, HandlerStart(r, s) PROVE Reserved(o)' /\ buf'[o] = buf[o]
  BY <1>7 DEF HandlerStart, TypeOK, NotYetClaimed, Reserved
<1>8. ASSUME NEW r \in Requests, NEW n \in Sizes, HandlerBody(r, n) PROVE Reserved(o)' /\ buf'[o] = buf[o]
  BY <1>8 DEF HandlerBody, TypeOK, NotYetClaimed, Reserved
<1>9. ASSUME NEW r \in Requests, HandlerReturn(r) \/ HandlerRaise(r) PROVE Reserved(o)' /\ buf'[o] = buf[o]
  BY <1>9 DEF HandlerReturn, HandlerRaise, Goto, TypeOK, NotYetClaimed,
     Reserved
<1>10. ASSUME NEW r \in Requests, Disconnect(r) \/ ReceiveRaises(r) PROVE Reserved(o)' /\ buf'[o] = buf[o]
  BY <1>10 DEF Disconnect, ReceiveRaises, Goto, Spend, FaultKinds, TypeOK,
     NotYetClaimed, Reserved
<1>11. ASSUME NEW r \in Requests, LoseReply(r) PROVE Reserved(o)' /\ buf'[o] = buf[o]
  BY <1>11 DEF LoseReply, Goto, After, AfterSet, AfterRecord, AfterDelete,
     InFlight, Done, Commands, Spend, FaultKinds, TypeOK, NotYetClaimed,
     Reserved
<1>12. ASSUME NEW r \in Requests, RedisDown(r) PROVE Reserved(o)' /\ buf'[o] = buf[o]
  BY <1>12 DEF RedisDown, Goto, Commands, Spend, FaultKinds, TypeOK,
     NotYetClaimed, Reserved
<1>13. ASSUME NEW r \in Requests, Stop(r) PROVE Reserved(o)' /\ buf'[o] = buf[o]
  BY <1>13 DEF Stop, Cancelled, Goto, After, AfterSet, AfterRecord,
     AfterDelete, InFlight, Done, Spend, FaultKinds, TypeOK, NotYetClaimed,
     Reserved
<1>14. ASSUME Expire PROVE Reserved(o)' /\ buf'[o] = buf[o]
  BY <1>14 DEF Expire, Spend, FaultKinds, TypeOK, NotYetClaimed, Reserved
<1>15. CASE UNCHANGED vars
  BY <1>15 DEF vars, TypeOK, NotYetClaimed, Reserved
<1> QED
  BY <1>1, <1>2, <1>3, <1>4, <1>5, <1>6, <1>7, <1>8, <1>9, <1>10, <1>11,
     <1>12, <1>13, <1>14, <1>15 DEF Next, Serve, Application, Fault, Finished

\* A value that comes into the key names the request that wrote it.
LEMMA StepStored ==
  ASSUME TypeOK, KeptTrue, ClaimedFirst, [Next]_vars
  PROVE  \/ store' = store \/ store' = Absent
         \/ \E o \in Requests : /\ store'.by = o
                               /\ store'.fingerprint = buf'[o]
                               /\ Reserved(o)'
<1> DEFINE G == \/ store' = store \/ store' = Absent
                \/ \E o \in Requests : /\ store'.by = o
                                      /\ store'.fingerprint = buf'[o]
                                      /\ Reserved(o)'
<1>1. ASSUME NEW r \in Requests, Arrive(r) PROVE G
  BY <1>1 DEF Arrive, Goto, TypeOK, KeptTrue, KeptTrueOf, ClaimedFirst,
     Reserved
<1>2. ASSUME NEW r \in Requests, ReadBody(r) PROVE G
  BY <1>2 DEF ReadBody, Goto, TypeOK, KeptTrue, KeptTrueOf, ClaimedFirst,
     Reserved
<1>3. ASSUME NEW r \in Requests, ClaimSet(r) PROVE G
  BY <1>3 DEF ClaimSet, Goto, AfterSet, InFlight, TypeOK, KeptTrue,
     KeptTrueOf, ClaimedFirst, Reserved
<1>4. ASSUME NEW r \in Requests, ClaimGet(r) PROVE G
  BY <1>4 DEF ClaimGet, Goto, TypeOK, KeptTrue, KeptTrueOf, ClaimedFirst,
     Reserved
<1>5. ASSUME NEW r \in Requests, Record(r) PROVE G
  BY <1>5 DEF Record, Goto, AfterRecord, Done, TypeOK, KeptTrue, KeptTrueOf,
     ClaimedFirst, Reserved
<1>6. ASSUME NEW r \in Requests, Release(r) PROVE G
  BY <1>6 DEF Release, Goto, AfterDelete, TypeOK, KeptTrue, KeptTrueOf,
     ClaimedFirst, Reserved
<1>7. ASSUME NEW r \in Requests, NEW s \in Statuses, HandlerStart(r, s) PROVE G
  BY <1>7 DEF HandlerStart, TypeOK, KeptTrue, KeptTrueOf, ClaimedFirst,
     Reserved
<1>8. ASSUME NEW r \in Requests, NEW n \in Sizes, HandlerBody(r, n) PROVE G
  BY <1>8 DEF HandlerBody, TypeOK, KeptTrue, KeptTrueOf, ClaimedFirst,
     Reserved
<1>9. ASSUME NEW r \in Requests, HandlerReturn(r) \/ HandlerRaise(r) PROVE G
  BY <1>9 DEF HandlerReturn, HandlerRaise, Goto, TypeOK, KeptTrue, KeptTrueOf,
     ClaimedFirst, Reserved
<1>10. ASSUME NEW r \in Requests, Disconnect(r) \/ ReceiveRaises(r) PROVE G
  BY <1>10 DEF Disconnect, ReceiveRaises, Goto, Spend, FaultKinds, TypeOK,
     KeptTrue, KeptTrueOf, ClaimedFirst, Reserved
<1>11. ASSUME NEW r \in Requests, LoseReply(r) PROVE G
  BY <1>11 DEF LoseReply, Goto, After, AfterSet, AfterRecord, AfterDelete,
     InFlight, Done, Commands, Spend, FaultKinds, TypeOK, KeptTrue,
     KeptTrueOf, ClaimedFirst, Reserved
<1>12. ASSUME NEW r \in Requests, RedisDown(r) PROVE G
  BY <1>12 DEF RedisDown, Goto, Commands, Spend, FaultKinds, TypeOK, KeptTrue,
     KeptTrueOf, ClaimedFirst, Reserved
<1>13. ASSUME NEW r \in Requests, Stop(r) PROVE G
  BY <1>13 DEF Stop, Cancelled, Goto, After, AfterSet, AfterRecord,
     AfterDelete, InFlight, Done, Spend, FaultKinds, TypeOK, KeptTrue,
     KeptTrueOf, ClaimedFirst, Reserved
<1>14. ASSUME Expire PROVE G
  BY <1>14 DEF Expire, Spend, FaultKinds, TypeOK, KeptTrue, KeptTrueOf,
     ClaimedFirst, Reserved
<1>15. CASE UNCHANGED vars
  BY <1>15 DEF vars, TypeOK, KeptTrue, KeptTrueOf, ClaimedFirst, Reserved
<1> QED
  BY <1>1, <1>2, <1>3, <1>4, <1>5, <1>6, <1>7, <1>8, <1>9, <1>10, <1>11,
     <1>12, <1>13, <1>14, <1>15 DEF Next, Serve, Application, Fault, Finished

\* Nothing but a stored value with another fingerprint is told so.
LEMMA DifferentBody ==
  /\ None # Refused(409, "different body")
  /\ Refused(503, "unavailable") # Refused(409, "different body")
  /\ \A s : Own(s) # Refused(409, "different body")
  /\ \A b, rec : Existing(b, rec) = Refused(409, "different body")
                   => rec.fingerprint # b
<1>1. ASSUME NEW b, NEW rec, rec.fingerprint = b
      PROVE  Existing(b, rec) # Refused(409, "different body")
  <2>1. Refused(409, "in progress") # Refused(409, "different body")
    BY DEF Refused
  <2>2. Replay(rec).kind = "replay"
        /\ Refused(409, "different body").kind = "refused"
    BY DEF Replay, Refused
  <2>3. Existing(b, rec) \in {Refused(409, "in progress"), Replay(rec)}
    BY <1>1 DEF Existing
  <2> QED
    BY <2>1, <2>2, <2>3
<1>2. \A b, rec : Existing(b, rec) = Refused(409, "different body")
                   => rec.fingerprint # b
  BY <1>1, Zenon
<1>3. None # Refused(409, "different body")
  <2>1. None.kind = "none" /\ Refused(409, "different body").kind = "refused"
    BY DEF None, Refused
  <2> QED
    BY <2>1
<1>4. Refused(503, "unavailable") # Refused(409, "different body")
  <2>1. /\ Refused(503, "unavailable").why = "unavailable"
        /\ Refused(409, "different body").why = "different body"
    BY DEF Refused
  <2> QED
    BY <2>1
<1>5. ASSUME NEW s PROVE Own(s) # Refused(409, "different body")
  <2>1. Own(s).kind = "own" /\ Refused(409, "different body").kind = "refused"
    BY DEF Own, Refused
  <2> QED
    BY <2>1
<1> QED
  BY <1>2, <1>3, <1>4, <1>5, Zenon

\* Only a key with another fingerprint makes a request a "different body".
LEMMA StepConflict ==
  ASSUME TypeOK, [Next]_vars, NEW q \in Requests
  PROVE  \/ answer'[q] # Refused(409, "different body")
         \/ answer'[q] = answer[q] /\ (pc[q] = "returned" => pc'[q] = pc[q])
         \/ /\ pc[q] = "get" /\ pc'[q] = "returned"
            /\ store # Absent /\ store.fingerprint # buf[q]
<1> DEFINE Same == answer'[q] = answer[q] /\ (pc[q] = "returned" => pc'[q] = pc[q])
           G == \/ answer'[q] # Refused(409, "different body")
                \/ Same
                \/ /\ pc[q] = "get" /\ pc'[q] = "returned"
                   /\ store # Absent /\ store.fingerprint # buf[q]
<1> SUFFICES G
  OBVIOUS
<1>1. ASSUME NEW r \in Requests, Arrive(r) PROVE G
  <2>1. Same
    BY <1>1 DEF Arrive, Goto, TypeOK
  <2> QED
    BY <2>1
<1>2. ASSUME NEW r \in Requests, ReadBody(r) PROVE G
  <2>1. Same
    BY <1>2 DEF ReadBody, Goto, TypeOK
  <2> QED
    BY <2>1
<1>3. ASSUME NEW r \in Requests, ClaimSet(r) PROVE G
  <2>1. Same
    BY <1>3 DEF ClaimSet, Goto, AfterSet, InFlight, TypeOK
  <2> QED
    BY <2>1
<1>4. ASSUME NEW r \in Requests, ClaimGet(r) PROVE G
  <2>1. CASE store = Absent
    <3>1. Same
      BY <1>4, <2>1 DEF ClaimGet, Goto, TypeOK
    <3> QED
      BY <3>1
  <2>2. CASE store # Absent
    <3>1. /\ pc' = [pc EXCEPT ![r] = "returned"] /\ pc[r] = "get"
          /\ answer' = [answer EXCEPT ![r] = Existing(buf[r], store)]
      BY <1>4, <2>2 DEF ClaimGet, Goto
    <3>2. CASE q = r
      <4>1. answer'[r] = Existing(buf[r], store) /\ pc'[r] = "returned"
        BY <3>1 DEF TypeOK
      <4>2. \/ Existing(buf[r], store) # Refused(409, "different body")
            \/ store.fingerprint # buf[r]
        BY DifferentBody, Zenon
      <4> QED
        BY <2>2, <3>1, <3>2, <4>1, <4>2, Zenon
    <3>3. CASE q # r
      <4>1. Same
        BY <3>1, <3>3 DEF TypeOK
      <4> QED
        BY <4>1
    <3> QED
      BY <3>2, <3>3
  <2> QED
    BY <2>1, <2>2
<1>5. ASSUME NEW r \in Requests, Record(r) PROVE G
  <2>1. Same
    BY <1>5 DEF Record, Goto, AfterRecord, Done, TypeOK
  <2> QED
    BY <2>1
<1>6. ASSUME NEW r \in Requests, Release(r) PROVE G
  <2>1. Same
    BY <1>6 DEF Release, Goto, AfterDelete, TypeOK
  <2> QED
    BY <2>1
<1>7. ASSUME NEW r \in Requests, NEW s \in Statuses, HandlerStart(r, s) PROVE G
  <2>1. Own(s) # Refused(409, "different body")
    BY DifferentBody, Zenon
  <2>2. pc' = pc /\ answer' = [answer EXCEPT ![r] = Own(s)]
    BY <1>7 DEF HandlerStart
  <2>3. answer'[q] = answer[q] \/ answer'[q] = Own(s)
    BY <2>2 DEF TypeOK
  <2> QED
    BY <2>1, <2>2, <2>3, Zenon
<1>8. ASSUME NEW r \in Requests, NEW n \in Sizes, HandlerBody(r, n) PROVE G
  <2>1. Same
    BY <1>8 DEF HandlerBody, TypeOK
  <2> QED
    BY <2>1
<1>9. ASSUME NEW r \in Requests, HandlerReturn(r) \/ HandlerRaise(r) PROVE G
  <2>1. Same
    BY <1>9 DEF HandlerReturn, HandlerRaise, Goto, TypeOK
  <2> QED
    BY <2>1
<1>10. ASSUME NEW r \in Requests, Disconnect(r) \/ ReceiveRaises(r) PROVE G
  <2>1. Same
    BY <1>10 DEF Disconnect, ReceiveRaises, Goto, Spend, FaultKinds, TypeOK
  <2> QED
    BY <2>1
<1>11. ASSUME NEW r \in Requests, LoseReply(r) PROVE G
  <2>1. Same
    BY <1>11 DEF LoseReply
  <2> QED
    BY <2>1
<1>12. ASSUME NEW r \in Requests, RedisDown(r) PROVE G
  <2>1. \/ answer' = answer
        \/ answer' = [answer EXCEPT ![r] = Refused(503, "unavailable")]
    BY <1>12, Zenon DEF RedisDown
  <2>2. \E l : pc' = [pc EXCEPT ![r] = l]
    BY <1>12, Zenon DEF RedisDown, Goto
  <2>3. Refused(503, "unavailable") # Refused(409, "different body")
    BY DifferentBody, Zenon
  <2>4. answer'[q] = answer[q] \/ answer'[q] = Refused(503, "unavailable")
    <3>1. answer \in [Requests -> Answers]
      BY DEF TypeOK
    <3> QED
      BY <2>1, <3>1
  <2>5. pc[q] = "returned" => pc'[q] = pc[q]
    <3>1. pc[r] # "returned"
      BY <1>12 DEF RedisDown, Commands
    <3> QED
      BY <2>2, <3>1 DEF TypeOK
  <2> QED
    BY <2>3, <2>4, <2>5, Zenon
<1>13. ASSUME NEW r \in Requests, Stop(r) PROVE G
  <2>1. answer' = answer /\ pc[r] # "returned" /\ \E l : pc' = [pc EXCEPT ![r] = l]
    BY <1>13 DEF Stop, Cancelled, Goto
  <2> QED
    BY <2>1 DEF TypeOK
<1>14. ASSUME Expire PROVE G
  <2>1. Same
    BY <1>14 DEF Expire
  <2> QED
    BY <2>1
<1>15. CASE UNCHANGED vars
  BY <1>15 DEF vars, TypeOK
<1> HIDE DEF G
<1> QED
  BY <1>1, <1>2, <1>3, <1>4, <1>5, <1>6, <1>7, <1>8, <1>9, <1>10, <1>11,
     <1>12, <1>13, <1>14, <1>15 DEF Next, Serve, Application, Fault, Finished

\* A request that has read its body does not read on.
LEMMA StepReads ==
  ASSUME TypeOK, [Next]_vars, NEW q \in Requests, pc[q] \in {"get", "returned"}
  PROVE  /\ buf'[q] = buf[q]
         /\ faults'["disconnect"] = 0 => faults["disconnect"] = 0
<1> DEFINE G == /\ buf'[q] = buf[q]
                /\ faults'["disconnect"] = 0 => faults["disconnect"] = 0
<1>1. ASSUME NEW r \in Requests, Arrive(r) PROVE G
  BY <1>1 DEF Arrive, Goto, TypeOK
<1>2. ASSUME NEW r \in Requests, ReadBody(r) PROVE G
  BY <1>2 DEF ReadBody, Goto, TypeOK
<1>3. ASSUME NEW r \in Requests, ClaimSet(r) PROVE G
  BY <1>3 DEF ClaimSet, Goto, AfterSet, InFlight, TypeOK
<1>4. ASSUME NEW r \in Requests, ClaimGet(r) PROVE G
  BY <1>4 DEF ClaimGet, Goto, TypeOK
<1>5. ASSUME NEW r \in Requests, Record(r) PROVE G
  BY <1>5 DEF Record, Goto, AfterRecord, Done, TypeOK
<1>6. ASSUME NEW r \in Requests, Release(r) PROVE G
  BY <1>6 DEF Release, Goto, AfterDelete, TypeOK
<1>7. ASSUME NEW r \in Requests, NEW s \in Statuses, HandlerStart(r, s) PROVE G
  BY <1>7 DEF HandlerStart, TypeOK
<1>8. ASSUME NEW r \in Requests, NEW n \in Sizes, HandlerBody(r, n) PROVE G
  BY <1>8 DEF HandlerBody, TypeOK
<1>9. ASSUME NEW r \in Requests, HandlerReturn(r) \/ HandlerRaise(r) PROVE G
  BY <1>9 DEF HandlerReturn, HandlerRaise, Goto, TypeOK
<1>10. ASSUME NEW r \in Requests, Disconnect(r) \/ ReceiveRaises(r) PROVE G
  BY <1>10 DEF Disconnect, ReceiveRaises, Goto, Spend, FaultKinds, TypeOK
<1>11. ASSUME NEW r \in Requests, LoseReply(r) PROVE G
  BY <1>11 DEF LoseReply, Goto, After, AfterSet, AfterRecord, AfterDelete,
     InFlight, Done, Commands, Spend, FaultKinds, TypeOK
<1>12. ASSUME NEW r \in Requests, RedisDown(r) PROVE G
  BY <1>12 DEF RedisDown, Goto, Commands, Spend, FaultKinds, TypeOK
<1>13. ASSUME NEW r \in Requests, Stop(r) PROVE G
  BY <1>13 DEF Stop, Cancelled, Goto, After, AfterSet, AfterRecord,
     AfterDelete, InFlight, Done, Spend, FaultKinds, TypeOK
<1>14. ASSUME Expire PROVE G
  BY <1>14 DEF Expire, Spend, FaultKinds, TypeOK
<1>15. CASE UNCHANGED vars
  BY <1>15 DEF vars, TypeOK
<1> QED
  BY <1>1, <1>2, <1>3, <1>4, <1>5, <1>6, <1>7, <1>8, <1>9, <1>10, <1>11,
     <1>12, <1>13, <1>14, <1>15 DEF Next, Serve, Application, Fault, Finished

\* The conflict invariants together with those they rest on.
CInv == OInv /\ RInv /\ ClaimedFirst /\ StoreReserved /\ ConflictTrue

\* CInv is an invariant of the middleware.
LEMMA CInvariant == Spec => []CInv
<1>1. Init => ClaimedFirst /\ StoreReserved /\ ConflictTrue
  <2>1. Init => ClaimedFirst /\ StoreReserved
    BY DEF Init, ClaimedFirst, StoreReserved
  <2>2. Init => ConflictTrue
    <3>1. None # Refused(409, "different body")
      BY DifferentBody, Zenon
    <3> QED
      BY <3>1 DEF Init, ConflictTrue
  <2> QED
    BY <2>1, <2>2
<1>2. ASSUME OInv, RInv, ClaimedFirst, StoreReserved, ConflictTrue,
             RInv', [Next]_vars
      PROVE  ClaimedFirst' /\ StoreReserved' /\ ConflictTrue'
  <2>1. TypeOK /\ KeptTrue /\ NotYetClaimed /\ TypeOK' /\ KeptTrue'
    BY <1>2 DEF OInv, RInv, TInv
  <2>2. ClaimedFirst'
    BY <1>2, <2>1, StepClaimedFirst
  <2>3. \A o \in Requests : Reserved(o) => Reserved(o)' /\ buf'[o] = buf[o]
    BY <1>2, <2>1, StepReserved
  <2>4. StoreReserved'
    <3>1. CASE store' = store /\ store # Absent
      <4>1. PICK o \in Requests : o = store.by
        BY <2>1, <3>1 DEF TypeOK, Stored
      <4>2. store.fingerprint = buf[o] /\ Reserved(o)
        BY <1>2, <3>1, <4>1 DEF StoreReserved
      <4>3. Reserved(o)' /\ buf'[o] = buf[o]
        BY <2>3, <4>2
      <4>4. store'.by = o /\ store'.fingerprint = buf'[o]
        BY <3>1, <4>1, <4>2, <4>3
      <4> QED
        BY <4>1, <4>3, <4>4, <3>1 DEF StoreReserved, Reserved
    <3>2. CASE store' = Absent
      BY <3>2 DEF StoreReserved, Absent
    <3>3. ASSUME NEW o \in Requests, store'.by = o,
                 store'.fingerprint = buf'[o], Reserved(o)'
          PROVE  StoreReserved'
      BY <3>3 DEF StoreReserved
    <3> QED
      BY <1>2, <2>1, <3>1, <3>2, <3>3, StepStored
  <2>5. ConflictTrue'
    <3> SUFFICES ASSUME NEW r \in Requests,
                        answer'[r] = Refused(409, "different body")
                 PROVE  /\ pc'[r] = "returned"
                        /\ faults'["disconnect"] = 0 => buf'[r] = Body[r]
                        /\ \E o \in Requests : Reserved(o)' /\ buf'[o] # buf'[r]
      BY DEF ConflictTrue, Refused
    <3> DEFINE Same == /\ buf'[r] = buf[r]
                       /\ faults'["disconnect"] = 0 => faults["disconnect"] = 0
    <3>1. pc[r] \in {"get", "returned"} => Same
      BY <1>2, <2>1, StepReads
    <3>2. CASE /\ answer'[r] = answer[r]
               /\ pc[r] = "returned" => pc'[r] = pc[r]
      <4>1. /\ pc[r] = "returned"
            /\ faults["disconnect"] = 0 => buf[r] = Body[r]
        BY <1>2, <3>2 DEF ConflictTrue
      <4>2. PICK o \in Requests : Reserved(o) /\ buf[o] # buf[r]
        BY <1>2, <3>2 DEF ConflictTrue
      <4>3. Reserved(o)' /\ buf'[o] # buf'[r]
        BY <2>3, <3>1, <4>1, <4>2
      <4> QED
        BY <3>1, <3>2, <4>1, <4>3
    <3>3. CASE /\ pc[r] = "get" /\ pc'[r] = "returned"
               /\ store # Absent /\ store.fingerprint # buf[r]
      <4>1. PICK o \in Requests : o = store.by
        BY <2>1, <3>3 DEF TypeOK, Stored
      <4>2. Reserved(o)' /\ buf'[o] # buf'[r]
        <5>1. Reserved(o) /\ store.fingerprint = buf[o]
          BY <1>2, <3>3, <4>1 DEF StoreReserved
        <5>2. Reserved(o)' /\ buf'[o] = buf[o]
          BY <2>3, <5>1
        <5> QED
          BY <3>1, <3>3, <5>1, <5>2
      <4>3. faults["disconnect"] = 0 => buf[r] = Body[r]
        BY <2>1, <3>3 DEF KeptTrue, KeptTrueOf
      <4>4. faults'["disconnect"] = 0 => buf'[r] = Body[r]
        BY <3>1, <3>3, <4>3
      <4> QED
        BY <3>3, <4>1, <4>2, <4>4
    <3>4. \/ answer'[r] # Refused(409, "different body")
          \/ answer'[r] = answer[r] /\ (pc[r] = "returned" => pc'[r] = pc[r])
          \/ /\ pc[r] = "get" /\ pc'[r] = "returned"
             /\ store # Absent /\ store.fingerprint # buf[r]
      BY <1>2, <2>1, StepConflict
    <3> HIDE DEF Same
    <3> QED
      BY <3>2, <3>3, <3>4, Zenon
  <2> QED
    BY <2>2, <2>4, <2>5
<1>3. Spec => [](OInv /\ RInv)
  BY OInvariant, RInvariant, PTL
<1> QED
  BY <1>1, <1>2, <1>3, PTL DEF Spec, CInv

\* A 409 "different body" tells the truth, for any number of requests, any
\* bodies and any faults: the key was another body's.
THEOREM ConflictsAreReal == Spec => []ConflictMeansDifferentBody
<1>1. CInv => ConflictMeansDifferentBody
  <2> SUFFICES ASSUME CInv, NEW r \in Requests,
                      answer[r] = Refused(409, "different body"),
                      faults["disconnect"] = 0
               PROVE  \E o \in Requests :
                        /\ Body[o] # Body[r]
                        /\ pc[o] \notin {"arrive", "buffer"}
                        /\ faults["lost"] = 0 /\ faults["cancel"] = 0
                             => claim[o] \in {"won", "fresh"}
    BY DEF ConflictMeansDifferentBody
  <2>1. buf[r] = Body[r]
    BY DEF CInv, ConflictTrue
  <2>2. PICK o \in Requests : Reserved(o) /\ buf[o] # buf[r]
    BY DEF CInv, ConflictTrue
  <2>3. Body[o] # Body[r]
    BY <2>1, <2>2 DEF Reserved
  <2> QED
    BY <2>2, <2>3 DEF Reserved
<1> QED
  BY <1>1, CInvariant, PTL

-----------------------------------------------------------------------------
(* The stack. *)

\* Each step of a layer is a step of the middleware, or none of its business.
LEMMA LayerStep ==
  ASSUME NEW r \in Requests, Layer(r)
  PROVE  Next \/ UNCHANGED vars
<1>1. CASE Enter(r) \/ Receive(r) \/ Redis(r)
  <2>1. Serve(r) \/ Fault(r)
    BY <1>1 DEF Enter, Receive, Redis, Serve, Fault
  <2> QED
    BY <2>1 DEF Next
<1>2. CASE ReadTooMuch(r) \/ Handle(r)
  <2>1. Application(r)
    BY <1>2 DEF ReadTooMuch, Handle, Application
  <2> QED
    BY <2>1 DEF Next
<1>3. CASE \/ ReceiveTooMuch(r) \/ RedisFails(r) \/ ClientLeaves(r)
           \/ Deliver(r) \/ Shutdown(r)
  <2>1. Fault(r)
    BY <1>3 DEF ReceiveTooMuch, RedisFails, ClientLeaves, Deliver, Shutdown, Fault
  <2> QED
    BY <2>1 DEF Next
<1>4. CASE Reject(r) \/ Fire(r) \/ Unwind(r)
  BY <1>4 DEF Reject, Fire, Unwind
<1> QED
  BY <1>1, <1>2, <1>3, <1>4 DEF Layer

\* The middleware inside the stack is the one the theorems above are about.
LEMMA StackRunsMiddleware == StackSpec => Spec
<1>1. StackInit => Init
  BY DEF StackInit
<1>2. [StackNext]_allVars => [Next]_vars
  <2> SUFFICES ASSUME [StackNext]_allVars PROVE Next \/ UNCHANGED vars
    OBVIOUS
  <2>1. CASE \E r \in Requests : Layer(r)
    BY <2>1, LayerStep
  <2>2. CASE KeyExpires
    BY <2>2 DEF KeyExpires, Next
  <2>3. CASE AllClosed \/ UNCHANGED allVars
    BY <2>3 DEF AllClosed, allVars
  <2> QED
    BY <2>1, <2>2, <2>3 DEF StackNext
<1> QED
  BY <1>1, <1>2, PTL DEF StackSpec, Spec

\* Under the timeout and the body limit, too, a replay is the whole response of
\* a request with the same body.
THEOREM StackReplaysAreFaithful == StackSpec => []ReplayFaithful
BY StackRunsMiddleware, ReplaysAreFaithful

-----------------------------------------------------------------------------
(* What the stack knows of one request.  Layer(r) concerns r alone, so that  *)
(* each of these is kept if r's own steps keep it.                           *)

\* The steps of the middleware and its application for one request.
Inner(r) == Serve(r) \/ Application(r) \/ Fault(r)

\* Nothing has been answered before the response starts.
Silent(q) ==
  /\ pc[q] \in {"arrive", "buffer", "set", "get"}
       => status[q] = 0 /\ answer[q] = None
  /\ pc[q] \in {"run", "open"} /\ status[q] = 0 => answer[q] = None

\* What is done with takes no step: it is over, or was refused at the door.
Settled(q) == q \in closed => Over(q) \/ pc[q] = "arrive"

\* Until then the wire carries what the middleware has answered.
OnWire(q) ==
  q \notin closed =>
    wire[q] = IF answer[q] = None THEN <<>> ELSE <<answer[q].status>>

\* The clock starts with the request and stops with its response.
Clock(q) ==
  /\ pc[q] = "arrive" => deadline[q] = "unset"
  /\ q \notin closed /\ Started(q) => deadline[q] # "armed"

\* What the metric and the access log say of a request.
Observed(q) ==
  q \in closed =>
    /\ Started(q) => measured[q] = wire[q][1]
    /\ ~Started(q) => measured[q] = 500
    /\ logged[q] \in {0, measured[q]}

\* No more of a body is read than the limit allows.
Within(q) == Len(buf[q]) <= MaxBodyBytes

\* A keyed request whose body is too large stops while its body is read.
Told(q) ==
  /\ q \in Keyed /\ Len(Body[q]) > MaxBodyBytes
  /\ Calm /\ faults["disconnect"] = 0
  => /\ pc[q] \in {"arrive", "buffer", "raised"}
     /\ pc[q] = "raised" => tooBig[q] /\ answer[q] = None
     /\ q \in closed => wire[q] = <<413>>

\* The types of the layers' variables, without the gauge.
LayerTypes ==
  /\ deadline \in [Requests -> {"unset", "armed", "lifted", "fired", "closed"}]
  /\ tooBig \in [Requests -> BOOLEAN]
  /\ wire \in [Requests -> Seq(Nat)]
  /\ measured \in [Requests -> Nat]
  /\ logged \in [Requests -> Nat]
  /\ closed \subseteq Requests

RequestInv(q) ==
  /\ Silent(q) /\ Settled(q) /\ OnWire(q) /\ Len(wire[q]) <= 1
  /\ Clock(q) /\ Observed(q) /\ Within(q) /\ Told(q)

\* The gauge counts the requests inside.
Inside == {r \in Requests \ closed : pc[r] # "arrive"}
Gauge == IsFiniteSet(Inside) /\ active = Cardinality(Inside)

SInv == TInv /\ LayerTypes /\ (\A q \in Requests : RequestInv(q)) /\ Gauge

-----------------------------------------------------------------------------
(* The middleware, seen from the layers. *)

\* What is answered is answered with a status.
LEMMA AnswerStatus ==
  ASSUME NEW x \in Answers, x # None
  PROVE  x.status \in Nat
<1>1. \A s \in Statuses : s \in Nat
  BY ConstantsAssumption
<1>2. CASE x \in [kind : {"own"}, status : Statuses]
  <2>1. x.status \in Statuses
    BY <1>2
  <2> QED
    BY <1>1, <2>1
<1>3. CASE x \in [kind : {"refused"}, status : {409, 503},
                  why : {"different body", "in progress", "unavailable"}]
  <2>1. x.status \in {409, 503}
    BY <1>3
  <2> QED
    BY <2>1
<1>4. CASE x \in [kind : {"replay"}, status : Statuses, bytes : 0..MaxResponse,
                  of : Requests]
  <2>1. x.status \in Statuses
    BY <1>4
  <2> QED
    BY <1>1, <2>1
<1> QED
  BY <1>2, <1>3, <1>4, Zenon DEF Answers

\* What is told to a request is not nothing.
LEMMA AnswersAreSome ==
  /\ Refused(503, "unavailable") # None
  /\ \A s : Own(s) # None
  /\ \A b, rec : Existing(b, rec) # None
<1>1. None.kind = "none"
  BY DEF None
<1>2. ASSUME NEW code, NEW why PROVE Refused(code, why) # None
  <2>1. Refused(code, why).kind = "refused"
    BY DEF Refused
  <2> QED
    BY <1>1, <2>1
<1>3. ASSUME NEW s PROVE Own(s) # None
  <2>1. Own(s).kind = "own"
    BY DEF Own
  <2> QED
    BY <1>1, <2>1
<1>4. ASSUME NEW b, NEW rec PROVE Existing(b, rec) # None
  <2>1. Replay(rec) # None
    <3>1. Replay(rec).kind = "replay"
      BY DEF Replay
    <3> QED
      BY <1>1, <3>1
  <2>2. /\ Refused(409, "different body") # None
        /\ Refused(409, "in progress") # None
    BY <1>2, Zenon
  <2>3. \/ Existing(b, rec) = Refused(409, "different body")
        \/ Existing(b, rec) = Refused(409, "in progress")
        \/ Existing(b, rec) = Replay(rec)
    BY DEF Existing
  <2> QED
    BY <2>1, <2>2, <2>3, Zenon
<1> QED
  BY <1>2, <1>3, <1>4, Zenon

\* The steps for one request leave the others alone.
LEMMA InnerTouchesOne ==
  ASSUME TypeOK, NEW r \in Requests, NEW q \in Requests, q # r, Inner(r)
  PROVE  /\ pc'[q] = pc[q] /\ buf'[q] = buf[q] /\ claim'[q] = claim[q]
         /\ status'[q] = status[q] /\ answer'[q] = answer[q]
<1> DEFINE G == /\ pc'[q] = pc[q] /\ buf'[q] = buf[q] /\ claim'[q] = claim[q]
                /\ status'[q] = status[q] /\ answer'[q] = answer[q]
<1>1. CASE Arrive(r)
  BY <1>1 DEF Arrive, Goto, TypeOK
<1>2. CASE ReadBody(r)
  BY <1>2 DEF ReadBody, Goto, TypeOK
<1>3. CASE ClaimSet(r)
  BY <1>3 DEF ClaimSet, Goto, TypeOK
<1>4. CASE ClaimGet(r)
  BY <1>4 DEF ClaimGet, Goto, TypeOK
<1>5. CASE Record(r) \/ Release(r)
  BY <1>5 DEF Record, Release, Goto, TypeOK
<1>6. CASE \E s \in Statuses : HandlerStart(r, s)
  BY <1>6 DEF HandlerStart, TypeOK
<1>7. CASE \E n \in Sizes : HandlerBody(r, n)
  BY <1>7 DEF HandlerBody, TypeOK
<1>8. CASE HandlerReturn(r) \/ HandlerRaise(r)
  BY <1>8 DEF HandlerReturn, HandlerRaise, Goto, TypeOK
<1>9. CASE Disconnect(r) \/ ReceiveRaises(r)
  BY <1>9 DEF Disconnect, ReceiveRaises, Goto, TypeOK
<1>10. CASE LoseReply(r)
  BY <1>10 DEF LoseReply
<1>11. CASE RedisDown(r)
  BY <1>11 DEF RedisDown, Goto, TypeOK
<1>12. CASE Stop(r)
  BY <1>12 DEF Stop, Cancelled, Goto, TypeOK
<1> QED
  BY <1>1, <1>2, <1>3, <1>4, <1>5, <1>6, <1>7, <1>8, <1>9, <1>10, <1>11, <1>12
  DEF Inner, Serve, Application, Fault

\* A request that has answered does not answer again.
AnswersOnce(r) ==
  \/ answer'[r] = answer[r]
  \/ answer[r] = None /\ answer'[r] # None

\* A step of a request: it is neither at the door nor over, it has not
\* answered before its response starts, and it answers once.
LEMMA InnerAnswersOnce ==
  ASSUME TypeOK, NEW r \in Requests, Silent(r), Inner(r)
  PROVE  /\ ~Over(r) /\ pc'[r] # "arrive"
         /\ Silent(r)'
         /\ AnswersOnce(r)
         /\ claim'[r] # claim[r] => pc[r] \in {"set", "get"}
<1> USE DEF Over
<1> DEFINE G == /\ ~Over(r) /\ pc'[r] # "arrive"
                /\ Silent(r)'
                /\ AnswersOnce(r)
                /\ claim'[r] # claim[r] => pc[r] \in {"set", "get"}
<1>1. CASE Arrive(r)
  BY <1>1 DEF Arrive, Goto, TypeOK, Silent, AnswersOnce
<1>2. CASE ReadBody(r)
  BY <1>2 DEF ReadBody, Goto, TypeOK, Silent, AnswersOnce
<1>3. CASE ClaimSet(r)
  BY <1>3 DEF ClaimSet, Goto, TypeOK, Silent, AnswersOnce
<1>4. CASE ClaimGet(r)
  <2>1. CASE store = Absent
    BY <1>4, <2>1 DEF ClaimGet, Goto, TypeOK, Silent, AnswersOnce
  <2>2. CASE store # Absent
    <3>1. Existing(buf[r], store) # None
      BY AnswersAreSome, Zenon
    <3> QED
      BY <1>4, <2>2, <3>1 DEF ClaimGet, Goto, TypeOK, Silent, AnswersOnce
  <2> QED
    BY <2>1, <2>2
<1>5. CASE Record(r) \/ Release(r)
  BY <1>5 DEF Record, Release, Goto, TypeOK, Silent, AnswersOnce
<1>6. ASSUME NEW s \in Statuses, HandlerStart(r, s) PROVE G
  <2>1. Own(s) # None
    BY AnswersAreSome, Zenon
  <2> QED
    BY <1>6, <2>1, ConstantsAssumption
    DEF HandlerStart, TypeOK, Silent, AnswersOnce
<1>7. ASSUME NEW n \in Sizes, HandlerBody(r, n) PROVE G
  BY <1>7 DEF HandlerBody, TypeOK, Silent, AnswersOnce
<1>8. CASE HandlerReturn(r) \/ HandlerRaise(r)
  BY <1>8 DEF HandlerReturn, HandlerRaise, Goto, TypeOK, Silent, AnswersOnce
<1>9. CASE Disconnect(r) \/ ReceiveRaises(r)
  BY <1>9 DEF Disconnect, ReceiveRaises, Goto, TypeOK, Silent, AnswersOnce
<1>10. CASE LoseReply(r)
  BY <1>10 DEF LoseReply, Commands, TypeOK, Silent, AnswersOnce
<1>11. CASE RedisDown(r)
  BY <1>11, AnswersAreSome
  DEF RedisDown, Commands, Goto, TypeOK, Silent, AnswersOnce
<1>12. CASE Stop(r)
  BY <1>12 DEF Stop, Cancelled, Goto, TypeOK, Silent, AnswersOnce
<1> QED
  BY <1>1, <1>2, <1>3, <1>4, <1>5, <1>6, <1>7, <1>8, <1>9, <1>10, <1>11, <1>12
  DEF Inner, Serve, Application, Fault

-----------------------------------------------------------------------------
(* The layers. *)

\* What the outer layers still send is one status, and nothing once the
\* response has started.
LEMMA LateAnswers ==
  ASSUME NEW r \in Requests, wire[r] \in Seq(Nat), Len(wire[r]) <= 1
  PROVE  /\ wire[r] \o LateAnswer(r) \in Seq(Nat)
         /\ Len(wire[r] \o LateAnswer(r)) <= 1
         /\ ~Started(r) => wire[r] \o LateAnswer(r) = LateAnswer(r)
<1>1. CASE Started(r)
  <2>1. LateAnswer(r) = <<>>
    BY <1>1 DEF LateAnswer
  <2>2. wire[r] \o LateAnswer(r) = wire[r]
    BY <2>1, ConcatEmptySeq
  <2> QED
    BY <1>1, <2>2
<1>2. CASE ~Started(r)
  <2>1. \/ LateAnswer(r) = <<>> \/ LateAnswer(r) = <<413>>
        \/ LateAnswer(r) = <<500>> \/ LateAnswer(r) = <<504>>
    BY DEF LateAnswer
  <2>2. LateAnswer(r) \in Seq(Nat) /\ Len(LateAnswer(r)) <= 1
    <3>1. CASE LateAnswer(r) = <<>>
      BY <3>1
    <3>2. ASSUME NEW n \in Nat, LateAnswer(r) = <<n>>
          PROVE  LateAnswer(r) \in Seq(Nat) /\ Len(LateAnswer(r)) <= 1
      BY <3>2
    <3> QED
      BY <2>1, <3>1, <3>2
  <2>3. wire[r] \o LateAnswer(r) = LateAnswer(r)
    BY <1>2, <2>2, ConcatEmptySeq DEF Started
  <2> QED
    BY <2>2, <2>3
<1> QED
  BY <1>1, <1>2

\* No fault is undone.
LEMMA FaultsStay ==
  ASSUME TypeOK, NEW r \in Requests, Inner(r), NEW k \in FaultKinds,
         faults'[k] = 0
  PROVE  faults[k] = 0
<1>1. CASE Arrive(r) \/ ReadBody(r) \/ ClaimSet(r) \/ ClaimGet(r) \/ Record(r)
           \/ Release(r) \/ ReceiveRaises(r)
  BY <1>1
  DEF Arrive, ReadBody, ClaimSet, ClaimGet, Record, Release, ReceiveRaises
<1>2. CASE Application(r)
  BY <1>2 DEF Application, HandlerStart, HandlerBody, HandlerReturn, HandlerRaise
<1>3. CASE Disconnect(r) \/ LoseReply(r) \/ RedisDown(r) \/ Stop(r)
  <2>1. faults' = faults \/ \E j \in FaultKinds : Spend(j)
    BY <1>3 DEF Disconnect, LoseReply, RedisDown, Stop, FaultKinds
  <2> QED
    BY <2>1 DEF Spend, TypeOK
<1> QED
  BY <1>1, <1>2, <1>3 DEF Inner, Serve, Fault

\* Only ReadBody reads.
LEMMA OnlyReadBodyReads ==
  ASSUME NEW r \in Requests, Inner(r)
  PROVE  buf' = buf \/ ReadBody(r)
BY DEF Inner, Serve, Application, Fault, Arrive, ClaimSet, ClaimGet, Record,
   Release, HandlerStart, HandlerBody, HandlerReturn, HandlerRaise, Disconnect,
   ReceiveRaises, LoseReply, RedisDown, Stop, Cancelled

\* The layers' steps that are steps of the middleware of a request inside.
Passing(r) ==
  \/ Receive(r) \/ ReceiveTooMuch(r) \/ ReadTooMuch(r)
  \/ Redis(r) \/ RedisFails(r) \/ Handle(r)
  \/ ClientLeaves(r) \/ Deliver(r) \/ Shutdown(r)

LEMMA PassingIsInner ==
  ASSUME NEW r \in Requests, Passing(r)
  PROVE  Inner(r) /\ pc[r] # "arrive"
<1>1. CASE Receive(r) \/ ReceiveTooMuch(r) \/ ClientLeaves(r)
  BY <1>1 DEF Receive, ReceiveTooMuch, ClientLeaves, Inner, Serve, Fault,
     ReadBody, ReceiveRaises, Disconnect
<1>2. CASE Redis(r) \/ RedisFails(r)
  BY <1>2 DEF Redis, RedisFails, Inner, Serve, Fault, ClaimSet, ClaimGet,
     Record, Release, LoseReply, RedisDown, Commands
<1>3. CASE ReadTooMuch(r) \/ Handle(r)
  BY <1>3 DEF ReadTooMuch, Handle, Inner, Application, HandlerStart,
     HandlerBody, HandlerReturn, HandlerRaise
<1>4. CASE Deliver(r) \/ Shutdown(r)
  BY <1>4 DEF Deliver, Shutdown, Inner, Fault, Stop, Cancelled
<1> QED
  BY <1>1, <1>2, <1>3, <1>4 DEF Passing

\* What a wrapper does for the step it hands on: nothing ...
HandsNothing(r) ==
  /\ answer'[r] = answer[r] /\ wire' = wire
  /\ \/ deadline' = deadline
     \/ deadline' = [deadline EXCEPT ![r] = "closed"]

\* ... or the start message goes out and lifts the deadline.
HandsStart(r) ==
  /\ answer[r] = None /\ answer'[r] # None
  /\ answer'[r].status \in Nat
  /\ wire' = [wire EXCEPT ![r] = Append(@, answer'[r].status)]
  /\ deadline' = [deadline EXCEPT ![r] = IF @ = "armed" THEN "lifted" ELSE @]

\* There is nothing else.
LEMMA Handed ==
  ASSUME TypeOK, TypeOK', LayerTypes, NEW r \in Requests, Silent(r), Passing(r)
  PROVE  /\ UNCHANGED <<measured, logged, active, closed>>
         /\ tooBig' \in [Requests -> BOOLEAN]
         /\ \A q \in Requests : q # r => tooBig'[q] = tooBig[q]
         /\ HandsNothing(r) \/ HandsStart(r)
<1>1. CASE Receive(r) \/ ClientLeaves(r) \/ Deliver(r)
  BY <1>1 DEF Receive, ClientLeaves, Deliver, ReadBody, Disconnect, Stop,
     Cancelled, stackVars, LayerTypes, HandsNothing
<1>2. CASE ReceiveTooMuch(r) \/ ReadTooMuch(r)
  BY <1>2 DEF ReceiveTooMuch, ReadTooMuch, ReceiveRaises, HandlerRaise,
     LayerTypes, HandsNothing
<1>3. CASE Shutdown(r)
  BY <1>3 DEF Shutdown, Stop, Cancelled, LayerTypes, HandsNothing
<1>4. CASE Redis(r) \/ RedisFails(r) \/ Handle(r)
  <2>1. Sending(r)
    BY <1>4 DEF Redis, RedisFails, Handle
  <2>2. AnswersOnce(r)
    BY PassingIsInner, InnerAnswersOnce
  <2>3. CASE answer'[r] = answer[r]
    BY <2>1, <2>3 DEF Sending, LayerTypes, HandsNothing
  <2>4. CASE answer'[r] # answer[r]
    <3>1. answer[r] = None /\ answer'[r] # None
      BY <2>2, <2>4 DEF AnswersOnce
    <3>2. answer'[r] \in Answers
      BY DEF TypeOK
    <3>3. answer'[r].status \in Nat
      BY <3>1, <3>2, AnswerStatus
    <3> QED
      BY <2>1, <2>4, <3>1, <3>3 DEF Sending, LayerTypes, HandsStart
  <2> QED
    BY <2>3, <2>4
<1> QED
  BY <1>1, <1>2, <1>3, <1>4 DEF Passing

\* A layer's step for one request leaves what is known of the others alone.
LEMMA LayerTouchesOne ==
  ASSUME TInv, TInv', LayerTypes, NEW r \in Requests, RequestInv(r), Layer(r),
         NEW q \in Requests, q # r, RequestInv(q)
  PROVE  RequestInv(q)'
<1> DEFINE Kept == /\ pc'[q] = pc[q] /\ buf'[q] = buf[q]
                   /\ claim'[q] = claim[q] /\ status'[q] = status[q]
                   /\ answer'[q] = answer[q]
                   /\ \A k \in FaultKinds : faults'[k] = 0 => faults[k] = 0
           Seen == /\ deadline'[q] = deadline[q] /\ tooBig'[q] = tooBig[q]
                   /\ wire'[q] = wire[q] /\ measured'[q] = measured[q]
                   /\ logged'[q] = logged[q]
                   /\ (q \in closed') <=> (q \in closed)
<1>1. Kept
  <2>1. CASE Inner(r)
    BY <2>1, InnerTouchesOne, FaultsStay DEF TInv
  <2>2. CASE vars' = vars
    BY <2>2 DEF vars
  <2>3. Inner(r) \/ vars' = vars
    BY PassingIsInner
    DEF Layer, Passing, Enter, Inner, Serve, Reject, Fire, Unwind
  <2> QED
    BY <2>1, <2>2, <2>3
<1>2. Seen
  <2>1. CASE Passing(r)
    BY <2>1, Handed DEF TInv, RequestInv, LayerTypes, HandsNothing, HandsStart
  <2>2. CASE Enter(r) \/ Reject(r)
    BY <2>2 DEF Enter, Reject, LayerTypes
  <2>3. CASE Fire(r) \/ Unwind(r)
    BY <2>3 DEF Fire, Unwind, LayerTypes
  <2> QED
    BY <2>1, <2>2, <2>3 DEF Layer, Passing
<1>3. Silent(q)' /\ Settled(q)' /\ Within(q)'
  BY <1>1, <1>2 DEF RequestInv, Silent, Settled, Within, Over
<1>4. OnWire(q)' /\ (Len(wire[q]) <= 1)' /\ Clock(q)' /\ Observed(q)'
  BY <1>1, <1>2 DEF RequestInv, OnWire, Clock, Observed, Started
<1>5. Told(q)'
  <2>1. Calm' /\ faults'["disconnect"] = 0 => Calm /\ faults["disconnect"] = 0
    BY <1>1 DEF Calm, FaultKinds
  <2> QED
    BY <1>1, <1>2, <2>1 DEF RequestInv, Told
<1> QED
  BY <1>3, <1>4, <1>5 DEF RequestInv

\* A step that is handed on keeps what is known of its request.
LEMMA PassingKeeps ==
  ASSUME TInv, TInv', LayerTypes, NEW r \in Requests, RequestInv(r), Passing(r)
  PROVE  RequestInv(r)'
<1>1. /\ Inner(r) /\ pc[r] # "arrive" /\ ~Over(r) /\ pc'[r] # "arrive"
      /\ r \notin closed /\ r \notin closed'
  <2>1. Inner(r) /\ pc[r] # "arrive"
    BY PassingIsInner
  <2>2. ~Over(r) /\ pc'[r] # "arrive"
    BY <2>1, InnerAnswersOnce DEF TInv, RequestInv
  <2>3. closed' = closed
    BY Handed DEF TInv, RequestInv
  <2> QED
    BY <2>1, <2>2, <2>3 DEF RequestInv, Settled
<1>2. Silent(r)'
  BY <1>1, InnerAnswersOnce DEF TInv, RequestInv
<1>3. Settled(r)' /\ Observed(r)'
  BY <1>1 DEF Settled, Observed
<1>4. OnWire(r)' /\ (Len(wire[r]) <= 1)' /\ Clock(r)'
  <2>1. /\ wire[r] = IF answer[r] = None THEN <<>> ELSE <<answer[r].status>>
        /\ Len(wire[r]) <= 1 /\ (Started(r) => deadline[r] # "armed")
    BY <1>1 DEF RequestInv, OnWire, Clock
  <2>2. CASE HandsNothing(r)
    BY <1>1, <2>1, <2>2 DEF HandsNothing, OnWire, Clock, Started, LayerTypes
  <2>3. CASE HandsStart(r)
    <3>1. wire'[r] = <<answer'[r].status>>
      BY <2>1, <2>3 DEF HandsStart, LayerTypes
    <3>2. deadline'[r] # "armed" /\ answer'[r] # None
      BY <2>3 DEF HandsStart, LayerTypes
    <3> QED
      BY <1>1, <3>1, <3>2 DEF OnWire, Clock
  <2>4. TypeOK /\ TypeOK' /\ Silent(r)
    BY DEF TInv, RequestInv
  <2> QED
    BY <2>2, <2>3, <2>4, Handed
<1>5. Within(r)'
  <2>1. CASE buf' = buf
    BY <2>1 DEF RequestInv, Within
  <2>2. CASE Receive(r)
    <3>1. Len(buf[r]) \in Nat /\ Len(buf[r]) < Len(Body[r])
          /\ Len(buf[r]) + 1 <= MaxBodyBytes
      BY <2>2 DEF Receive, ReadBody, Fits, TInv, TypeOK, Bookkeeping
    <3>2. Len(buf'[r]) = Len(buf[r]) + 1
      BY <2>2, <3>1, Prefixes DEF Receive, ReadBody, TInv, TypeOK
    <3> QED
      BY <3>1, <3>2 DEF Within
  <2>3. ReadBody(r) => Receive(r)
    <3> SUFFICES ASSUME ReadBody(r), ~Receive(r) PROVE FALSE
      OBVIOUS
    <3>1. pc[r] = "buffer" /\ buf'[r] # buf[r]
      BY Prefixes DEF ReadBody, TInv, TypeOK, Bookkeeping
    <3> QED
      BY <3>1 DEF Passing, ReceiveTooMuch, ReceiveRaises, ReadTooMuch, Redis,
         ClaimSet, ClaimGet, Record, Release, LoseReply, Commands, RedisFails,
         RedisDown, Handle, Application, HandlerStart, HandlerBody,
         HandlerReturn, HandlerRaise, ClientLeaves, Disconnect, Deliver,
         Shutdown, Stop, Cancelled
  <2> QED
    BY <1>1, <2>1, <2>2, <2>3, OnlyReadBodyReads
<1>6. Told(r)'
  <2> SUFFICES ASSUME r \in Keyed, Len(Body[r]) > MaxBodyBytes, Calm',
                      faults'["disconnect"] = 0
               PROVE  /\ pc'[r] \in {"buffer", "raised"}
                      /\ pc'[r] = "raised" => tooBig'[r] /\ answer'[r] = None
    BY <1>1 DEF Told
  <2>1. Calm /\ faults["disconnect"] = 0
    BY <1>1, FaultsStay DEF Calm, FaultKinds, TInv
  <2>2. pc[r] = "buffer" /\ answer[r] = None
    BY <1>1, <2>1 DEF RequestInv, Told, Over, Silent
  <2>3. CASE Receive(r)
    <3>1. Len(buf[r]) + 1 <= MaxBodyBytes /\ Len(buf[r]) \in Nat
      BY <2>3 DEF Receive, Fits, TInv, TypeOK
    <3>2. Len(buf[r]) + 1 # Len(Body[r])
      BY <3>1, StackAssumption, ConstantsAssumption
    <3> QED
      BY <2>2, <2>3, <3>2 DEF Receive, ReadBody
  <2>4. CASE ReceiveTooMuch(r)
    BY <2>2, <2>4 DEF ReceiveTooMuch, ReceiveRaises, Goto, LayerTypes, TInv,
       TypeOK
  <2>5. CASE ReadTooMuch(r) \/ Redis(r) \/ RedisFails(r) \/ Handle(r)
    <3>1. CASE LoseReply(r) \/ RedisDown(r)
      BY <2>2, <3>1 DEF LoseReply, RedisDown, Commands
    <3> QED
      BY <2>2, <2>5, <3>1 DEF ReadTooMuch, Redis, RedisFails, Handle, Application,
         ClaimSet, ClaimGet, Record, Release, HandlerStart,
         HandlerBody, HandlerReturn, HandlerRaise
  <2>6. CASE ClientLeaves(r)
    BY <2>6 DEF ClientLeaves, Disconnect, Spend, FaultKinds, TInv, TypeOK
  <2>7. CASE Deliver(r) \/ Shutdown(r)
    BY <2>7 DEF Deliver, Shutdown, Stop, Spend, Calm, FaultKinds, TInv, TypeOK
  <2> QED
    BY <2>3, <2>4, <2>5, <2>6, <2>7 DEF Passing
<1> QED
  BY <1>2, <1>3, <1>4, <1>5, <1>6 DEF RequestInv

\* So do the layers' own steps.
LEMMA LayerKeeps ==
  ASSUME TInv, TInv', LayerTypes, NEW r \in Requests, RequestInv(r), Layer(r)
  PROVE  RequestInv(r)'
<1>1. CASE Passing(r)
  BY <1>1, PassingKeeps
<1>2. CASE Enter(r)
  <2>1. /\ pc[r] = "arrive" /\ pc'[r] = (IF r \in Keyed THEN "buffer" ELSE "open")
        /\ r \notin closed /\ deadline'[r] = "armed"
    BY <1>2 DEF Enter, Arrive, Goto, TInv, TypeOK, LayerTypes
  <2>2. UNCHANGED <<buf, status, answer, faults, tooBig, wire, measured, logged,
                    closed>>
    BY <1>2 DEF Enter, Arrive
  <2>3. wire[r] = <<>> /\ answer[r] = None /\ status[r] = 0
    BY <2>1 DEF RequestInv, Silent, OnWire
  <2>4. Silent(r)' /\ Settled(r)' /\ Observed(r)' /\ Within(r)'
    BY <2>1, <2>2, <2>3 DEF RequestInv, Silent, Settled, Observed, Within
  <2>5. OnWire(r)' /\ (Len(wire[r]) <= 1)' /\ Clock(r)'
    BY <2>1, <2>2, <2>3 DEF RequestInv, OnWire, Clock, Started
  <2>6. Told(r)'
    BY <2>1, <2>2 DEF RequestInv, Told
  <2> QED
    BY <2>4, <2>5, <2>6 DEF RequestInv
<1>3. CASE Reject(r)
  <2>1. /\ pc[r] = "arrive" /\ vars' = vars /\ deadline' = deadline
        /\ wire'[r] = <<413>> /\ measured'[r] = 413 /\ logged'[r] = 413
        /\ r \in closed'
    BY <1>3 DEF Reject, LayerTypes
  <2>2. UNCHANGED <<pc, buf, status, answer, faults>>
    BY <2>1 DEF vars
  <2>3. Silent(r)' /\ Settled(r)' /\ Within(r)'
    BY <2>1, <2>2 DEF RequestInv, Silent, Settled, Within, Over
  <2>4. OnWire(r)' /\ (Len(wire[r]) <= 1)' /\ Clock(r)' /\ Observed(r)'
    BY <2>1, <2>2 DEF RequestInv, OnWire, Clock, Observed, Started
  <2>5. Told(r)'
    BY <2>1, <2>2 DEF Told
  <2> QED
    BY <2>3, <2>4, <2>5 DEF RequestInv
<1>4. CASE Fire(r)
  <2>1. /\ deadline[r] = "armed" /\ deadline'[r] = "fired"
        /\ vars' = vars /\ UNCHANGED <<tooBig, wire, measured, logged, closed>>
    BY <1>4 DEF Fire, LayerTypes
  <2>2. UNCHANGED <<pc, buf, status, answer, faults>>
    BY <2>1 DEF vars
  <2>3. Silent(r)' /\ Settled(r)' /\ Within(r)' /\ Told(r)'
    BY <2>1, <2>2 DEF RequestInv, Silent, Settled, Within, Over, Told, Calm
  <2>4. OnWire(r)' /\ (Len(wire[r]) <= 1)' /\ Clock(r)' /\ Observed(r)'
    BY <2>1, <2>2 DEF RequestInv, OnWire, Clock, Observed, Started
  <2> QED
    BY <2>3, <2>4 DEF RequestInv
<1>5. CASE Unwind(r)
  <2>1. /\ Over(r) /\ vars' = vars /\ deadline' = deadline /\ tooBig' = tooBig
        /\ wire'[r] = wire[r] \o LateAnswer(r)
        /\ measured'[r] = StatusOf(wire'[r])
        /\ logged'[r] \in {0, measured'[r]}
        /\ r \notin closed /\ r \in closed'
    BY <1>5 DEF Unwind, LayerTypes
  <2>2. UNCHANGED <<pc, buf, status, answer, faults>>
    BY <2>1 DEF vars
  <2>3. wire[r] \in Seq(Nat) /\ Len(wire[r]) <= 1
    BY DEF LayerTypes, RequestInv
  <2>4. Len(wire'[r]) <= 1 /\ wire'[r] \in Seq(Nat)
    BY <2>1, <2>3, LateAnswers
  <2>5. Silent(r)' /\ Settled(r)' /\ Within(r)'
    BY <2>1, <2>2 DEF RequestInv, Silent, Settled, Within, Over
  <2>6. OnWire(r)' /\ Clock(r)'
    BY <2>1, <2>2 DEF RequestInv, OnWire, Clock, Over
  <2>7. Observed(r)'
    <3>2. wire'[r] # <<>> => Len(wire'[r]) = 1
      <4> SUFFICES ASSUME wire'[r] # <<>> PROVE Len(wire'[r]) = 1
        OBVIOUS
      <4>1. Len(wire'[r]) \in Nat \ {0}
        BY <2>4, EmptySeq
      <4>2. Len(wire'[r]) <= 1
        BY <2>4
      <4>3. \A n \in Nat \ {0} : n <= 1 => n = 1
        OBVIOUS
      <4> QED
        BY <4>1, <4>2, <4>3, Zenon
    <3>3. measured'[r] = IF wire'[r] = <<>> THEN 500 ELSE wire'[r][1]
      BY <2>1, <3>2 DEF StatusOf
    <3> QED
      BY <2>1, <3>3 DEF Observed, Started
  <2>8. Told(r)'
    <3> SUFFICES ASSUME r \in Keyed, Len(Body[r]) > MaxBodyBytes, Calm',
                        faults'["disconnect"] = 0
                 PROVE  /\ pc'[r] \in {"arrive", "buffer", "raised"}
                        /\ pc'[r] = "raised" => tooBig'[r] /\ answer'[r] = None
                        /\ wire'[r] = <<413>>
      BY DEF Told
    <3>1. pc[r] = "raised" /\ tooBig[r] /\ answer[r] = None
      BY <2>1, <2>2 DEF RequestInv, Told, Over, Calm
    <3>2. ~Started(r)
      BY <2>1, <3>1 DEF RequestInv, OnWire, Started
    <3>3. wire'[r] = <<413>>
      <4>1. LateAnswer(r) = <<413>>
        BY <3>1, <3>2 DEF LateAnswer
      <4> QED
        BY <2>1, <2>3, <3>2, <4>1, LateAnswers
    <3> QED
      BY <2>1, <2>2, <3>1, <3>3
  <2> QED
    BY <2>4, <2>5, <2>6, <2>7, <2>8 DEF RequestInv
<1> QED
  BY <1>1, <1>2, <1>3, <1>4, <1>5 DEF Layer, Passing

\* The types of the layers' variables.
LEMMA LayerKeepsTypes ==
  ASSUME TInv, TInv', LayerTypes, NEW r \in Requests, RequestInv(r), Layer(r)
  PROVE  LayerTypes'
<1>1. CASE Passing(r)
  <2>1. /\ UNCHANGED <<measured, logged, active, closed>>
        /\ tooBig' \in [Requests -> BOOLEAN]
    BY <1>1, Handed DEF TInv, RequestInv
  <2>2. HandsNothing(r) \/ HandsStart(r)
    BY <1>1, Handed DEF TInv, RequestInv
  <2>3. /\ deadline' \in [Requests -> {"unset", "armed", "lifted", "fired", "closed"}]
        /\ wire' \in [Requests -> Seq(Nat)]
    <3>1. CASE HandsNothing(r)
      BY <3>1 DEF LayerTypes, HandsNothing
    <3>2. CASE HandsStart(r)
      BY <3>2 DEF LayerTypes, HandsStart
    <3> QED
      BY <2>2, <3>1, <3>2
  <2> QED
    BY <2>1, <2>2, <2>3 DEF LayerTypes
<1>2. CASE Enter(r) \/ Fire(r)
  BY <1>2 DEF Enter, Fire, LayerTypes
<1>3. CASE Reject(r)
  BY <1>3 DEF Reject, LayerTypes
<1>4. CASE Unwind(r)
  <2>1. wire[r] \in Seq(Nat) /\ Len(wire[r]) <= 1
    BY DEF LayerTypes, RequestInv
  <2>2. wire[r] \o LateAnswer(r) \in Seq(Nat)
    BY <2>1, LateAnswers
  <2>3. wire' \in [Requests -> Seq(Nat)]
    BY <1>4, <2>2 DEF Unwind, LayerTypes
  <2>4. StatusOf(wire'[r]) \in Nat
    BY <2>3 DEF StatusOf
  <2> QED
    BY <1>4, <2>3, <2>4 DEF Unwind, LayerTypes
<1> QED
  BY <1>1, <1>2, <1>3, <1>4 DEF Layer, Passing

\* The gauge goes up with Enter and down with Unwind.
LEMMA LayerKeepsGauge ==
  ASSUME TInv, TInv', LayerTypes, Gauge, NEW r \in Requests, RequestInv(r),
         Layer(r)
  PROVE  Gauge'
<1>1. ASSUME Inside' = Inside, active' = active
      PROVE  Gauge'
  BY <1>1 DEF Gauge
<1>2. CASE Passing(r)
  <2>1. active' = active /\ closed' = closed
    BY <1>2, Handed DEF TInv, RequestInv
  <2>2. pc[r] # "arrive" /\ pc'[r] # "arrive"
    BY <1>2, PassingIsInner, InnerAnswersOnce DEF TInv, RequestInv
  <2>3. \A q \in Requests : q # r => pc'[q] = pc[q]
    BY <1>2, PassingIsInner, InnerTouchesOne DEF TInv
  <2>4. Inside' = Inside
    BY <2>1, <2>2, <2>3 DEF Inside
  <2> QED
    BY <1>1, <2>1, <2>4
<1>3. CASE Enter(r)
  <2>1. Inside' = Inside \cup {r} /\ r \notin Inside
    BY <1>3 DEF Enter, Arrive, Goto, Inside, TInv, TypeOK
  <2>2. active' = active + 1
    BY <1>3 DEF Enter
  <2> QED
    BY <2>1, <2>2, FS_AddElement DEF Gauge
<1>4. CASE Reject(r)
  <2>1. Inside' = Inside /\ active' = active
    BY <1>4 DEF Reject, Inside, vars
  <2> QED
    BY <1>1, <2>1
<1>5. CASE Fire(r)
  <2>1. Inside' = Inside /\ active' = active
    BY <1>5 DEF Fire, Inside, vars
  <2> QED
    BY <1>1, <2>1
<1>6. CASE Unwind(r)
  <2>1. Inside' = Inside \ {r} /\ r \in Inside
    BY <1>6 DEF Unwind, Inside, vars, Over
  <2>2. active' = active - 1
    BY <1>6 DEF Unwind
  <2> QED
    BY <2>1, <2>2, FS_RemoveElement DEF Gauge
<1> QED
  BY <1>2, <1>3, <1>4, <1>5, <1>6 DEF Layer, Passing

-----------------------------------------------------------------------------
\* SInv holds initially.
LEMMA InitSInv == StackInit => SInv
<1> SUFFICES ASSUME StackInit PROVE SInv
  OBVIOUS
<1>1. TInv
  BY InitTInv DEF StackInit
<1>2. LayerTypes
  BY DEF StackInit, LayerTypes
<1>3. ASSUME NEW q \in Requests PROVE RequestInv(q)
  <2>1. /\ pc[q] = "arrive" /\ buf[q] = <<>> /\ status[q] = 0 /\ answer[q] = None
        /\ deadline[q] = "unset" /\ wire[q] = <<>> /\ q \notin closed
    BY DEF StackInit, Init
  <2>2. Silent(q) /\ Settled(q) /\ OnWire(q) /\ Len(wire[q]) <= 1
    BY <2>1 DEF Silent, Settled, OnWire
  <2>3. Clock(q) /\ Observed(q) /\ Within(q) /\ Told(q)
    BY <2>1, StackAssumption DEF Clock, Observed, Within, Told, Started
  <2> QED
    BY <2>2, <2>3 DEF RequestInv
<1>4. Gauge
  <2>1. Inside = {} /\ active = 0
    BY DEF StackInit, Init, Inside
  <2> QED
    BY <2>1, FS_EmptySet DEF Gauge
<1> QED
  BY <1>1, <1>2, <1>3, <1>4 DEF SInv

\* And every step of the stack keeps it.
LEMMA StepSInv == SInv /\ [StackNext]_allVars => SInv'
<1> SUFFICES ASSUME SInv, [StackNext]_allVars PROVE SInv'
  OBVIOUS
<1>1. CASE \E r \in Requests : Layer(r)
  <2>1. PICK r \in Requests : Layer(r)
    BY <1>1
  <2>2. TInv'
    BY <2>1, LayerStep, StepTInv DEF SInv
  <2>3. TInv /\ LayerTypes /\ Gauge /\ \A q \in Requests : RequestInv(q)
    BY DEF SInv
  <2>4. ASSUME NEW q \in Requests PROVE RequestInv(q)'
    BY <2>1, <2>2, <2>3, LayerKeeps, LayerTouchesOne
  <2>5. LayerTypes' /\ Gauge'
    BY <2>1, <2>2, <2>3, LayerKeepsTypes, LayerKeepsGauge
  <2> QED
    BY <2>2, <2>4, <2>5 DEF SInv
<1>2. CASE KeyExpires \/ AllClosed \/ UNCHANGED allVars
  <2>1. /\ UNCHANGED <<pc, buf, status, answer>> /\ UNCHANGED stackVars
        /\ \A k \in FaultKinds : faults'[k] = 0 => faults[k] = 0
    BY <1>2 DEF KeyExpires, Expire, AllClosed, allVars, vars, Spend, FaultKinds,
       SInv, TInv, TypeOK
  <2>2. TInv'
    <3>1. Next \/ UNCHANGED vars
      BY <1>2 DEF KeyExpires, AllClosed, allVars, Next
    <3> QED
      BY <3>1, StepTInv DEF SInv
  <2>3. LayerTypes' /\ Gauge'
    BY <2>1 DEF SInv, LayerTypes, Gauge, Inside, stackVars
  <2>4. ASSUME NEW q \in Requests PROVE RequestInv(q)'
    <3>1. RequestInv(q) /\ UNCHANGED stackVars
      BY <2>1 DEF SInv
    <3>2. Silent(q)' /\ Settled(q)' /\ Within(q)'
      BY <2>1, <3>1 DEF RequestInv, Silent, Settled, Within, Over, stackVars
    <3>3. OnWire(q)' /\ (Len(wire[q]) <= 1)' /\ Clock(q)' /\ Observed(q)'
      BY <2>1, <3>1 DEF RequestInv, OnWire, Clock, Observed, Started, stackVars
    <3>4. Calm' /\ faults'["disconnect"] = 0 => Calm /\ faults["disconnect"] = 0
      BY <2>1 DEF Calm, FaultKinds
    <3>5. Told(q)'
      BY <2>1, <3>1, <3>4 DEF RequestInv, Told, stackVars
    <3> QED
      BY <3>2, <3>3, <3>5 DEF RequestInv
  <2> QED
    BY <2>2, <2>3, <2>4 DEF SInv
<1> QED
  BY <1>1, <1>2 DEF StackNext

\* SInv is an invariant of the stack.
LEMMA SInvariant == StackSpec => []SInv
BY InitSInv, StepSInv, PTL DEF StackSpec

\* Every request is answered with at most one status line, for any number of
\* requests, whichever layers come to answer it, and every variable keeps its
\* type.
THEOREM OneAnswerEach == StackSpec => []AnsweredOnce
<1>1. SInv => AnsweredOnce
  <2> SUFFICES ASSUME SInv PROVE AnsweredOnce
    OBVIOUS
  <2>1. active \in Nat
    BY FS_CardinalityType DEF SInv, Gauge
  <2> QED
    BY <2>1 DEF SInv, TInv, LayerTypes, RequestInv, AnsweredOnce, StackTypeOK,
       OneStatusLine
<1> QED
  BY <1>1, SInvariant, PTL

\* The metric and the access log name the status the client was sent, and the
\* gauge of active requests counts those inside: it never drifts.
THEOREM StatusIsObserved == StackSpec => []ObservedStatus
<1>1. SInv => ObservedStatus
  BY DEF SInv, LayerTypes, RequestInv, Observed, Gauge, Inside, ObservedStatus
<1> QED
  BY <1>1, SInvariant, PTL

\* A body over the limit is never claimed or run, and its request is told 413
\* unless its deadline, its client or a shutdown cuts it short.
THEOREM OversizedIsRefused == StackSpec => []OversizedRefused
<1>1. SInv => OversizedRefused
  <2> SUFFICES ASSUME SInv PROVE OversizedIsTold /\ OversizedNeverClaims
    BY DEF OversizedRefused
  <2>1. OversizedNeverClaims
    BY DEF SInv, RequestInv, Within, OversizedNeverClaims
  <2>2. OversizedIsTold
    BY ConstantsAssumption DEF SInv, RequestInv, Told, OversizedIsTold
  <2> QED
    BY <2>1, <2>2
<1> QED
  BY <1>1, SInvariant, PTL

\* The deadline never runs out on a response that has started: the half of
\* DeadlineHolds that is about single steps.
THEOREM StreamsAreSpared == StackSpec => StreamsFreely
<1>1. ASSUME SInv, [StackNext]_allVars, NEW q \in Requests,
             deadline[q] # "fired", Started(q)
      PROVE  deadline'[q] # "fired"
  <2> SUFFICES ASSUME deadline'[q] = "fired" PROVE FALSE
    OBVIOUS
  <2>1. TInv /\ LayerTypes /\ RequestInv(q)
    BY <1>1 DEF SInv
  <2>2. PICK r \in Requests : Layer(r)
    BY <1>1 DEF StackNext, KeyExpires, AllClosed, allVars, stackVars
  <2>3. TInv' /\ RequestInv(r)
    BY <1>1, <2>2, LayerStep, StepTInv DEF SInv
  <2>4. CASE Fire(r)
    <3>1. q = r /\ deadline[q] = "armed" /\ ~Over(q)
      BY <1>1, <2>1, <2>4 DEF Fire, LayerTypes
    <3>2. q \notin closed
      BY <2>1, <3>1 DEF RequestInv, Clock, Settled
    <3> QED
      BY <1>1, <2>1, <3>1, <3>2 DEF RequestInv, Clock
  <2>5. CASE Passing(r)
    BY <1>1, <2>1, <2>3, <2>5, Handed
    DEF TInv, RequestInv, LayerTypes, HandsNothing, HandsStart
  <2>6. CASE Enter(r) \/ Reject(r) \/ Unwind(r)
    BY <1>1, <2>1, <2>6 DEF Enter, Reject, Unwind, LayerTypes
  <2> QED
    BY <2>2, <2>4, <2>5, <2>6 DEF Layer, Passing
<1>2. SInv /\ [StackNext]_allVars =>
        [\A r \in Requests :
           deadline[r] # "fired" /\ Started(r) => deadline'[r] # "fired"]_allVars
  BY <1>1
<1> QED
  BY <1>2, SInvariant, PTL DEF StackSpec, StreamsFreely
=============================================================================
