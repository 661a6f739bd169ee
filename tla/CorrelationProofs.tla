-------------------------- MODULE CorrelationProofs --------------------------
(***************************************************************************)
(* Proofs about Correlation.  CInv is the inductive invariant: to the      *)
(* properties it adds that an RPC carries the id of its request until its  *)
(* handler starts, and that the context it saves is the one it found.      *)
(***************************************************************************)
EXTENDS Correlation, TLAPS

Values == Ids \cup {NoId}

Labels == Running \cup {"free", "called", "writing", "abandoned", "gone"}

Typed ==
  /\ at \in [Tasks -> Labels]
  /\ bound \in [Tasks -> Values] /\ saved \in [Tasks -> Values]
  /\ state \in [Tasks -> Values]
  /\ handler \in [Tasks -> Handlers]
  /\ last \in [Tasks -> {"none", "called", "started"}]
  /\ recorded \in [Tasks -> 0..1]
  /\ ids \in 0..MaxIds
  /\ origin \in [Tasks -> Values] /\ found \in [Tasks -> Values]

SavedIsFound ==
  \A t \in Tasks : at[t] \in {"unary", "stream", "writing"} => saved[t] = found[t]

\* What the interceptors looked up waits, and what runs has started.
CarriesId ==
  \A t \in Tasks :
    /\ at[t] = "called" =>
         /\ handler[t] # NoHandler /\ handler[t].id = origin[t]
         /\ bound[t] = found[t] /\ last[t] = "called"
    /\ at[t] \in {"unary", "stream", "writing", "abandoned", "gone"} =>
         last[t] = "started"

CInv == Typed /\ Correlated /\ SavedIsFound /\ CarriesId /\ RecordedOnce

\* A handler that was looked up has a shape, and an id that was made.
LEMMA HandlersTyped ==
  /\ NoHandler \in Handlers
  /\ \A shape \in Shapes, id \in Ids, wrapped \in BOOLEAN :
       LET h == [shape |-> shape, id |-> id, wrapped |-> wrapped]
       IN  h \in Handlers /\ h # NoHandler /\ h.id = id
  /\ \A h \in Handlers \ {NoHandler} : h.shape \in Shapes /\ h.id \in Ids
  BY DEF Handlers, NoHandler, Shapes

LEMMA TypedIsTypeOK == Typed => TypeOK
BY DEF Typed, TypeOK, Values, Labels

LEMMA InitCInv == Init => CInv
BY CorrelationAssumption, HandlersTyped
   DEF Init, CInv, CarriesId, Typed, Values, Labels, Ids, NoId, Running, Serving,
       Correlated, SavedIsFound, RecordedOnce

-----------------------------------------------------------------------------
(* Serving a request is the one step that relates two tasks: the request    *)
(* comes with the id of the task it works for, or without any.              *)

LEMMA ServeCInv ==
  ASSUME CInv, NEW u \in Tasks, NEW kind \in Kinds,
         NEW header \in Nat, NEW from \in Values,
         from # NoId => header = from,
         Serve(u, kind, header, from)
  PROVE  CInv'
<1> DEFINE id == RequestId(header)
<1>1. id \in Ids /\ (from # NoId => id = from)
  BY CorrelationAssumption
     DEF Serve, ServeHttp, ServeRpc, RequestId, Fresh, Spend, CInv, Typed,
         Values, Ids, NoId
<1>2. ids' \in 0..MaxIds
  BY <1>1, CorrelationAssumption
     DEF Serve, ServeHttp, ServeRpc, Spend, CInv, Typed, Ids
<1>3. CASE kind = "http"
  <2>1. ServeHttp(u, header, from)
    BY <1>3 DEF Serve
  <2>2. Typed'
    BY <2>1, <1>1, <1>2
       DEF ServeHttp, BindRequest, WorksFor, CInv, Typed, Values, Labels,
           Running
  <2> QED
    BY <2>1, <2>2, <1>1
       DEF ServeHttp, BindRequest, WorksFor, CInv, Typed, Values, Ids, NoId,
           Labels, Running, Serving, Correlated, SavedIsFound,
           CarriesId, RecordedOnce
<1>4. CASE kind \in {"unary", "stream"}
  <2>1. ServeRpc(u, kind, header, from)
    BY <1>4 DEF Serve
  <2>2. PICK wrapped \in BOOLEAN :
           handler' = [handler EXCEPT ![u] = [shape |-> kind, id |-> id,
                                              wrapped |-> wrapped]]
    BY <2>1 DEF ServeRpc
  <2> DEFINE h == [shape |-> kind, id |-> id, wrapped |-> wrapped]
  <2>3. h \in Handlers /\ h # NoHandler /\ h.id = id
    BY <1>1, <1>4, HandlersTyped DEF Shapes
  <2>4. handler' = [handler EXCEPT ![u] = h]
    BY <2>2
  <2> HIDE DEF h
  <2>5. Typed'
    BY <2>1, <2>3, <2>4, <1>1, <1>2, <1>4
       DEF ServeRpc, WorksFor, context, CInv, Typed, Values, Labels, Running
  <2>6. at[u] = "free" /\ at' = [at EXCEPT ![u] = "called"]
    BY <2>1 DEF ServeRpc
  <2>7. CarriesId'
    BY <2>1, <2>3, <2>4, <1>1
       DEF ServeRpc, WorksFor, context, CInv, Typed, Values, Ids, NoId, CarriesId
  <2>8. Correlated' /\ SavedIsFound' /\ RecordedOnce'
    BY <2>1, <2>6
       DEF ServeRpc, WorksFor, context, CInv, Typed, Labels, Running,
           Serving, Correlated, SavedIsFound, CarriesId, RecordedOnce
  <2> QED BY <2>5, <2>7, <2>8 DEF CInv
<1> QED
  BY <1>3, <1>4 DEF Kinds

LEMMA NextCInv == CInv /\ [Next]_vars => CInv'
<1> SUFFICES ASSUME CInv, [Next]_vars PROVE CInv'
  OBVIOUS
<1> USE DEF CInv, Typed, Values, Ids, NoId, Labels, Running, Serving,
            Correlated, SavedIsFound, CarriesId, RecordedOnce
<1>1. ASSUME NEW t \in Tasks, Arrive(t) PROVE CInv'
  <2>1. PICK kind \in Kinds, header \in {NoId, Fresh} : Serve(t, kind, header, NoId)
    BY <1>1 DEF Arrive
  <2>2. header \in Nat
    BY <2>1, CorrelationAssumption DEF Fresh
  <2> QED
    BY ONLY <2>1, <2>2, CInv, ServeCInv DEF Values
<1>2. ASSUME NEW t \in Tasks, NEW u \in Tasks \ {t}, Call(t, u) PROVE CInv'
  <2>1. PICK kind \in Kinds, own \in {NoId, Fresh} :
           Serve(u, kind, Propagated(t, kind, own),
                 IF own = NoId THEN origin[t] ELSE NoId)
    BY <1>2 DEF Call
  <2> DEFINE header == Propagated(t, kind, own)
             from == IF own = NoId THEN origin[t] ELSE NoId
  <2>2. header \in Nat /\ from \in Values /\ (from # NoId => header = from)
    BY <1>2, <2>1, CorrelationAssumption
       DEF Call, Propagated, CurrentRequestId, Intercepted, Kinds, Fresh
  <2> HIDE DEF header, from, CInv
  <2>3. Serve(u, kind, header, from)
    BY <2>1 DEF header, from
  <2> QED
    BY <2>1, <2>2, <2>3, ServeCInv
<1>3. ASSUME NEW t \in Tasks, NEW u \in Tasks \ {t}, Spawn(t, u) PROVE CInv'
  BY <1>3 DEF Spawn
<1>4. ASSUME NEW t \in Tasks, EndHttp(t) PROVE CInv'
  BY <1>4 DEF EndHttp, Free
<1>5. ASSUME NEW t \in Tasks, Write(t) \/ Written(t) \/ Abandon(t) PROVE CInv'
  BY <1>5 DEF Write, Yield, Written, Abandon, context, history
<1>6. ASSUME NEW t \in Tasks, Collect(t) PROVE CInv'
  BY <1>6 DEF Collect, Record, Records, context, history
<1>7. ASSUME NEW t \in Tasks, EndJob(t) \/ Bind(t) PROVE CInv'
  BY <1>7, CorrelationAssumption DEF EndJob, Free, Bind, Spend, Fresh, history
<1>8. ASSUME NEW t \in Tasks, NEW how \in {"returns", "raises", "cancelled"},
             EndRpc(t, how)
      PROVE  CInv'
  BY <1>8 DEF EndRpc, Restore, Record, Records, Free
<1>9. ASSUME NEW t \in Tasks, StartRpc(t) PROVE CInv'
  <2>1. at[t] = "called" /\ handler[t] \in Handlers \ {NoHandler}
    BY <1>9 DEF StartRpc
  <2>2. handler[t].shape \in Shapes /\ handler[t].id \in Ids /\ NoHandler \in Handlers
    BY <2>1, HandlersTyped
  <2>3. handler[t].id = origin[t] /\ handler[t].shape \in {"unary", "stream"}
    BY <2>1, <2>2 DEF Shapes
  <2>4. Typed'
    BY <1>9, <2>2, <2>3 DEF StartRpc
  <2> QED BY <1>9, <2>1, <2>3, <2>4 DEF StartRpc
<1>10. ASSUME NEW t \in Tasks, Drop(t) PROVE CInv'
  BY <1>10, HandlersTyped DEF Drop, Free, context
<1>11. CASE UNCHANGED vars
  BY <1>11 DEF vars, context, history
<1> QED
  BY <1>1, <1>2, <1>3, <1>4, <1>5, <1>6, <1>7, <1>8, <1>9, <1>10, <1>11
     DEF Next, Step

LEMMA AlwaysCInv == Spec => []CInv
BY InitCInv, NextCInv, PTL DEF Spec

-----------------------------------------------------------------------------
\* Contexts, scopes and histories keep their types, and no RPC is recorded more
\* than once, however many tasks there are.
THEOREM TypeCorrect == Spec => []TypeOK
<1>1. CInv => TypeOK
  BY TypedIsTypeOK DEF CInv
<1> QED
  BY <1>1, AlwaysCInv, PTL

\* "All logs / outbound calls share the same ID", along chains of any length, and
\* the parts of a response agree.
THEOREM OneIdPerChain == Spec => []Correlated
<1>1. CInv => Correlated
  BY DEF CInv
<1> QED
  BY <1>1, AlwaysCInv, PTL

\* An RPC whose wrapped handler started is recorded exactly once, at its end,
\* whichever end that is; one that is over before has left no record.
THEOREM StartedAreRecorded == Spec => []RecordedOnce
<1>1. CInv => RecordedOnce
  BY DEF CInv
<1> QED
  BY <1>1, AlwaysCInv, PTL

\* An RPC gives its context back as it found it.
LEMMA EndRestores ==
  ASSUME CInv, [Next]_vars, NEW t \in Tasks,
         at[t] \in {"called", "unary", "stream"}, at'[t] = "free"
  PROVE  bound'[t] = found[t]
<1> USE DEF CInv, Typed, Values, Ids, NoId, Labels, Running, SavedIsFound, CarriesId
<1> DEFINE Ends(s) == \E how \in {"returns", "raises", "cancelled"} : EndRpc(s, how)
<1>1. Ends(t) \/ Drop(t)
  <2>1. ASSUME NEW s \in Tasks, Step(s), ~Ends(s), ~Drop(s)
        PROVE  at'[t] # "free"
    <3>1. CASE Arrive(s)
      BY <3>1 DEF Arrive, Kinds, Serve, ServeHttp, ServeRpc
    <3>2. CASE \E u \in Tasks \ {s} : Call(s, u)
      BY <3>2 DEF Call, Kinds, Serve, ServeHttp, ServeRpc
    <3>3. CASE \E u \in Tasks \ {s} : Spawn(s, u)
      BY <3>3 DEF Spawn
    <3>4. CASE EndHttp(s) \/ Write(s) \/ Written(s) \/ Abandon(s)
                 \/ Collect(s) \/ EndJob(s) \/ Bind(s)
      BY <3>4 DEF EndHttp, Write, Written, Abandon, Collect, EndJob, Bind, Free
    <3>5. CASE StartRpc(s)
      BY <3>5, HandlersTyped DEF StartRpc, Shapes
    <3> QED
      BY <2>1, <3>1, <3>2, <3>3, <3>4, <3>5 DEF Step
  <2>2. ASSUME NEW s \in Tasks, s # t, Ends(s) \/ Drop(s)
        PROVE  at'[t] # "free"
    BY <2>2 DEF EndRpc, Drop, Free
  <2>3. CASE UNCHANGED vars
    BY <2>3 DEF vars
  <2> HIDE DEF Ends
  <2> QED
    BY <2>1, <2>2, <2>3 DEF Next
<1>2. CASE Ends(t)
  BY <1>2 DEF EndRpc, Restore
<1>3. CASE Drop(t)
  BY <1>3 DEF Drop, context
<1> QED BY <1>1, <1>2, <1>3

\* "Restores the previous context": later work in it cannot report a stale id.
THEOREM NoStaleId == Spec => LeavesNoTrace
<1>1. CInv /\ [Next]_vars =>
        [\A t \in Tasks :
           at[t] \in {"called", "unary", "stream"} /\ at'[t] = "free" =>
             bound'[t] = found[t]]_vars
  BY EndRestores
<1> QED
  BY <1>1, AlwaysCInv, PTL DEF Spec, LeavesNoTrace
=============================================================================
