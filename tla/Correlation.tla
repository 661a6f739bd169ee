----------------------------- MODULE Correlation ------------------------------
(***************************************************************************)
(* Request ids across services: each task has a context of its own that a  *)
(* server binds (http/middleware/request_context.py and                    *)
(* runtime/grpc_interceptors.py), that a spawned task copies, and that an  *)
(* outbound call reads (http/client.py, the gRPC client interceptors).     *)
(* Contexts outlive requests: servers run several requests in one, and a   *)
(* worker may have bound an id of its own.  Both interceptors of an RPC    *)
(* wrap its handler when it is looked up; only a handler that was wrapped, *)
(* and started, binds the id and is recorded (runtime/grpc_metrics.py).    *)
(***************************************************************************)
EXTENDS Naturals, FiniteSets

CONSTANTS
  Tasks,
  MaxIds   \* bound: ids made, by clients, workers and servers

ASSUME CorrelationAssumption == MaxIds \in Nat

\* Of requests, and of calls: behavior_field finds the behavior of either RPC.
Kinds == {"http", "unary", "stream"}

Ids == 1..MaxIds
NoId == 0

VARIABLES
  at,        \* what each task does
  bound,     \* request_id in its contextvars
  saved,     \* bound_contextvars: what to restore
  state,     \* request_id in its HTTP scope and in its response's header
  handler,   \* what the interceptors return for an RPC that has not started
  recorded,  \* times that the duration of its last RPC was recorded
  ids,       \* ids made so far
  origin,    \* history: the request that each task works for
  found,     \* history: what was bound when its RPC came
  last       \* history: how far its last RPC came

context == <<bound, saved, state>>
history == <<origin, found, last>>
vars == <<at, context, handler, recorded, ids, history>>

\* A handler and the id that its wrapper will bind, if it is wrapped.
Shapes == {"unary", "stream"}
NoHandler == [shape |-> "none", id |-> NoId, wrapped |-> FALSE]
Handlers == [shape : Shapes, id : Ids, wrapped : BOOLEAN] \cup {NoHandler}

Running == {"http", "unary", "stream", "job"}

\* A stream whose message is being written is still served.
Serving(t) == at[t] \in Running \cup {"writing"}

Init ==
  /\ at = [t \in Tasks |-> "free"]
  /\ bound = [t \in Tasks |-> NoId] /\ saved = [t \in Tasks |-> NoId]
  /\ state = [t \in Tasks |-> NoId] /\ handler = [t \in Tasks |-> NoHandler]
  /\ recorded = [t \in Tasks |-> 0]
  /\ ids = 0
  /\ origin = [t \in Tasks |-> NoId] /\ found = [t \in Tasks |-> NoId]
  /\ last = [t \in Tasks |-> "none"]

-----------------------------------------------------------------------------
(* Servers.  "header" is the id that came with the call, if any; "from" the *)
(* request that caused it, if any.                                          *)

Fresh == ids + 1

\* headers.get(header_name) or uuid4(); _metadata_value(...) or uuid4().
RequestId(header) == IF header = NoId THEN Fresh ELSE header

Spend(id) == id <= MaxIds /\ ids' = IF id > ids THEN id ELSE ids

WorksFor(u, from, id) ==
  origin' = [origin EXCEPT ![u] = IF from = NoId THEN id ELSE from]

\* It works for nobody any more.
Free(t) ==
  /\ at' = [at EXCEPT ![t] = "free"]
  /\ origin' = [origin EXCEPT ![t] = NoId] /\ found' = [found EXCEPT ![t] = NoId]
  /\ UNCHANGED last

\* clear_contextvars, bind_contextvars
BindRequest(u, id) == bound' = [bound EXCEPT ![u] = id]

\* The head of RequestContextMiddleware.
ServeHttp(u, header, from) ==
  LET id == RequestId(header) IN
  /\ at[u] = "free" /\ Spend(id)
  /\ BindRequest(u, id)
  /\ state' = [state EXCEPT ![u] = id]
  /\ at' = [at EXCEPT ![u] = "http"]
  /\ WorksFor(u, from, id)
  /\ UNCHANGED <<saved, handler, recorded, found, last>>

\* intercept_service of both interceptors: nothing is bound yet.  They wrap the
\* handler, unless there is none for this method or it has no behavior.
ServeRpc(u, shape, header, from) ==
  LET id == RequestId(header) IN
  /\ at[u] = "free" /\ Spend(id)
  /\ \E wrapped \in BOOLEAN :
       handler' = [handler EXCEPT ![u] = [shape |-> shape, id |-> id,
                                          wrapped |-> wrapped]]
  /\ at' = [at EXCEPT ![u] = "called"]
  /\ recorded' = [recorded EXCEPT ![u] = 0]
  /\ found' = [found EXCEPT ![u] = bound[u]]
  /\ last' = [last EXCEPT ![u] = "called"]
  /\ WorksFor(u, from, id)
  /\ UNCHANGED context

\* The wrapped handler starts: the head of its unary_behavior or stream_behavior.
StartRpc(t) ==
  /\ at[t] = "called" /\ handler[t].wrapped
  /\ saved' = [saved EXCEPT ![t] = bound[t]]
  /\ bound' = [bound EXCEPT ![t] = handler[t].id]
  /\ at' = [at EXCEPT ![t] = handler[t].shape]
  /\ handler' = [handler EXCEPT ![t] = NoHandler]
  /\ last' = [last EXCEPT ![t] = "started"]
  /\ UNCHANGED <<state, recorded, ids, origin, found>>

\* gRPC answers an RPC without a handler itself, and ends one whose caller leaves
\* before its message was read.
Drop(t) ==
  /\ at[t] = "called" /\ Free(t)
  /\ handler' = [handler EXCEPT ![t] = NoHandler]
  /\ UNCHANGED <<context, recorded, ids>>

Serve(u, kind, header, from) ==
  IF kind = "http" THEN ServeHttp(u, header, from)
  ELSE ServeRpc(u, kind, header, from)

\* The response, or the 500 of an exception, and the access log line.  Nothing is
\* unbound.
EndHttp(t) ==
  /\ at[t] = "http"
  /\ state' = [state EXCEPT ![t] = NoId]
  /\ Free(t)
  /\ UNCHANGED <<bound, saved, handler, recorded, ids>>

\* Slip: what was bound before is cleared.
RestoreNothing(t) == bound' = [bound EXCEPT ![t] = NoId]

\* The end of "with bound_contextvars".
Restore(t) == bound' = [bound EXCEPT ![t] = saved[t]]

\* Slip: a cancellation is not an Exception.
RecordsErrors(how) == how \in {"returns", "raises"}

\* "finally: record", after "except BaseException".
Records(how) == how \in {"returns", "raises", "cancelled", "closed"}

Record(t, how) ==
  recorded' = [recorded EXCEPT ![t] = IF Records(how) THEN @ + 1 ELSE @]

\* The handler returns, raises, or is cancelled at an await of its own.
EndRpc(t, how) ==
  /\ at[t] \in {"unary", "stream"}
  /\ Restore(t) /\ Record(t, how)
  /\ saved' = [saved EXCEPT ![t] = NoId]
  /\ Free(t)
  /\ UNCHANGED <<state, handler, ids>>

Yield(t) == UNCHANGED bound

\* The stream yields a message, and goes on when it was written.
Write(t) ==
  /\ at[t] = "stream" /\ at' = [at EXCEPT ![t] = "writing"]
  /\ Yield(t)
  /\ UNCHANGED <<saved, state, handler, recorded, ids, history>>

Written(t) ==
  /\ at[t] = "writing" /\ at' = [at EXCEPT ![t] = "stream"]
  /\ UNCHANGED <<context, handler, recorded, ids, history>>

\* The task is cancelled while it writes: the handler stays suspended, and ends
\* when the garbage collector closes it, in a context that is nobody's.
Abandon(t) ==
  /\ at[t] = "writing" /\ at' = [at EXCEPT ![t] = "abandoned"]
  /\ UNCHANGED <<context, handler, recorded, ids, history>>

Collect(t) ==
  /\ at[t] = "abandoned" /\ at' = [at EXCEPT ![t] = "gone"]
  /\ Record(t, "closed")
  /\ UNCHANGED <<context, handler, ids, history>>

-----------------------------------------------------------------------------
(* Callers. *)

\* Slip: the interceptor of unary calls only.
InterceptedUnary == {"http", "unary"}

\* The httpx hook, and a gRPC interceptor for each shape of a call.
Intercepted == {"http", "unary", "stream"}

\* logging/__init__.py: what the context has bound.
CurrentRequestId(t) == bound[t]

\* _propagate_request_id and _with_request_id: the caller's own header first,
\* then current_request_id.
Propagated(t, kind, own) ==
  IF own # NoId THEN own
  ELSE IF kind \in Intercepted THEN CurrentRequestId(t) ELSE NoId

\* A request from outside, with an id of the client's or without.
Arrive(u) ==
  \E kind \in Kinds, header \in {NoId, Fresh} :
    Serve(u, kind, header, NoId)

Call(t, u) ==
  /\ at[t] \in Running
  /\ \E kind \in Kinds, own \in {NoId, Fresh} :
       Serve(u, kind, Propagated(t, kind, own),
             IF own = NoId THEN origin[t] ELSE NoId)

\* A handler spawns a task, which copies its context.
Spawn(t, u) ==
  /\ at[t] \in Running /\ at[u] = "free"
  /\ bound' = [bound EXCEPT ![u] = bound[t]]
  /\ origin' = [origin EXCEPT ![u] = origin[t]]
  /\ at' = [at EXCEPT ![u] = "job"]
  /\ UNCHANGED <<saved, state, handler, recorded, ids, found, last>>

EndJob(t) ==
  /\ at[t] = "job" /\ Free(t)
  /\ bound' = [bound EXCEPT ![t] = NoId]
  /\ UNCHANGED <<saved, state, handler, recorded, ids>>

\* Code around the server binds an id of its own.
Bind(t) ==
  /\ at[t] = "free" /\ Spend(Fresh)
  /\ bound' = [bound EXCEPT ![t] = Fresh]
  /\ UNCHANGED <<at, saved, state, handler, recorded, history>>

Step(t) ==
  \/ Arrive(t) \/ StartRpc(t) \/ Drop(t) \/ EndHttp(t) \/ Write(t) \/ Written(t)
  \/ Abandon(t) \/ Collect(t) \/ EndJob(t) \/ Bind(t)
  \/ \E how \in {"returns", "raises", "cancelled"} : EndRpc(t, how)
  \/ \E u \in Tasks \ {t} : Call(t, u) \/ Spawn(t, u)

Next == \E t \in Tasks : Step(t)

Spec == Init /\ [][Next]_vars

-----------------------------------------------------------------------------
(* Properties. *)

TypeOK ==
  /\ at \in [Tasks -> Running \cup {"free", "called", "writing", "abandoned", "gone"}]
  /\ {bound, saved, state, origin, found}
       \subseteq [Tasks -> Ids \cup {NoId}]
  /\ handler \in [Tasks -> Handlers]
  /\ recorded \in [Tasks -> 0..1]
  /\ last \in [Tasks -> {"none", "called", "started"}]
  /\ ids \in 0..MaxIds

\* "All logs / outbound calls share the same ID": whatever chain of calls and
\* spawned tasks led to a task, and however often its stream was suspended, it
\* has the id of the request at the head of the chain and of no other; and its
\* response's header, the problem body that reads the scope, and the log lines
\* agree ("correlation is worth nothing if two parts of a response disagree").
Correlated ==
  \A t \in Tasks :
    /\ Serving(t) => bound[t] = origin[t]
    /\ at[t] = "http" => state[t] = bound[t]

\* "Restores the previous context": an RPC leaves behind what it found, so that
\* later work in its context cannot report its id; so does one that ends before
\* its handler starts.
LeavesNoTrace ==
  [][\A t \in Tasks :
       at[t] \in {"called", "unary", "stream"} /\ at'[t] = "free" =>
         bound'[t] = found[t]]_vars

\* An RPC whose wrapped handler started is recorded once, however it ends, even
\* when its stream is abandoned and its handler closed at last; any other never.
RecordedOnce ==
  \A t \in Tasks :
    recorded[t] =
      IF last[t] = "started"
           /\ at[t] \notin {"unary", "stream", "writing", "abandoned"}
      THEN 1 ELSE 0

\* "For every inbound call": an RPC that is over has been recorded.  It does not
\* hold of the code, which records what wraps a handler that started.
EveryCallRecorded ==
  \A t \in Tasks : at[t] = "free" /\ last[t] # "none" => recorded[t] = 1
=============================================================================
