------------------------------ MODULE Shutdown -------------------------------
(***************************************************************************)
(* The life of one service process: the lifespan of runtime/lifespan.py    *)
(* with its resources and its gRPC server, the DrainingServer of           *)
(* runtime/uvicorn.py, the readiness endpoint of http/health.py, and a     *)
(* load balancer that probes it once a tick and routes by the answer.      *)
(***************************************************************************)
EXTENDS Naturals, Sequences, FiniteSets

CONSTANTS
  N,            \* the resources, in the order they are started
  Hooked,       \* those with a shutdown hook
  HasGrpc,      \* there is a gRPC server, and it is enabled
  Delay,        \* drain_delay_seconds, in ticks; 0: uvicorn without draining
  MaxSignals,   \* bound: signals sent
  MaxRequests   \* bound: HTTP requests, and gRPC calls, at a time

Resources == 1..N

ASSUME ShutdownAssumption ==
  /\ N \in Nat /\ Hooked \subseteq Resources
  /\ HasGrpc \in BOOLEAN
  /\ Delay \in Nat /\ MaxSignals \in Nat /\ MaxRequests \in Nat

VARIABLES
  phase,      \* what uvicorn is at
  res,        \* each resource
  grpc,       \* the gRPC server
  served,     \* history: uvicorn has listened
  exit,       \* uvicorn's should_exit
  force,      \* uvicorn's force_exit
  captured,   \* the signals uvicorn has handled, to raise them again
  draining,   \* lifecycle's flag, and _draining
  timer,      \* what is left of the drain delay
  first,      \* the signal _drain_then_exit passes on
  signals,    \* how many were sent
  requests,   \* HTTP requests in flight
  calls,      \* gRPC calls in flight
  probe,      \* the readiness probe: "due", "checking" or "done" for this tick
  ready,      \* its last answer was 200
  routed,     \* the load balancer sends requests here
  refused     \* history: a request met a closed socket

serverVars == <<exit, force, captured, draining, timer, first, signals>>
lifespanVars == <<phase, res, grpc, served>>
workVars == <<requests, calls, refused>>
balancerVars == <<probe, ready, routed>>
vars == <<serverVars, lifespanVars, workVars, balancerVars>>

Off == Delay + 1    \* no drain delay is running

Init ==
  /\ phase = "starting"
  /\ res = [i \in Resources |-> "off"]
  /\ grpc = "off" /\ served = FALSE
  /\ exit = FALSE /\ force = FALSE /\ captured = <<>> /\ draining = FALSE
  /\ timer = Off /\ first = "TERM" /\ signals = 0
  /\ requests = 0 /\ calls = 0 /\ refused = FALSE
  /\ probe = "due" /\ ready = FALSE /\ routed = FALSE

-----------------------------------------------------------------------------
(* The lifespan. *)

\* The next resource starts, or fails half way: it does not join "started".
StartResource(i) ==
  /\ phase = "starting"
  /\ res[i] = "off" /\ \A j \in 1..(i - 1) : res[j] = "up"
  /\ \/ res' = [res EXCEPT ![i] = "up"] /\ phase' = phase
     \/ res' = [res EXCEPT ![i] = "broken"] /\ phase' = "unwinding"
  /\ UNCHANGED <<grpc, served, serverVars, workVars, balancerVars>>

AllUp == \A i \in Resources : res[i] = "up"

\* GrpcServer.start, after the resources.
StartGrpc ==
  /\ phase = "starting" /\ AllUp
  /\ HasGrpc /\ grpc = "off"
  /\ \/ grpc' = "up" /\ phase' = phase
     \/ grpc' = "off" /\ phase' = "unwinding"
  /\ UNCHANGED <<res, served, serverVars, workVars, balancerVars>>

\* Raised last first, a SIGTERM comes before the second SIGINT, which would end
\* the raising with a KeyboardInterrupt.
Kills ==
  \E i \in DOMAIN captured :
    /\ captured[i] = "TERM"
    /\ Cardinality({j \in DOMAIN captured : j > i /\ captured[j] = "INT"}) < 2

\* uvicorn's serve returns, and leaves the lifespan as it is: it restores the
\* handlers it found and raises again what it captured.  SIGTERM ends the process
\* at once; after SIGINT the end of asyncio.run cancels all tasks, the lifespan too.
Abandon ==
  IF Kills
  THEN phase' = "killed" /\ grpc' = "off" /\ requests' = 0 /\ calls' = 0
  ELSE phase' = "unwinding" /\ UNCHANGED <<grpc, requests, calls>>

\* The lifespan yields, and uvicorn listens, unless it is to exit already.
Listen ==
  /\ phase = "starting" /\ AllUp
  /\ HasGrpc => grpc = "up"
  /\ IF exit THEN Abandon
     ELSE phase' = "serving" /\ UNCHANGED <<grpc, requests, calls>>
  /\ served' = ~exit
  /\ UNCHANGED <<res, serverVars, refused, balancerVars>>

\* GrpcServer.stop: no new calls from here on.
StopGrpc ==
  /\ phase = "unwinding" /\ grpc = "up"
  /\ grpc' = "stopping"
  /\ UNCHANGED <<phase, res, served, serverVars, workVars, balancerVars>>

\* The calls are over, or cancelled after the grace.
GrpcStopped ==
  /\ grpc = "stopping"
  /\ grpc' = "stopped" /\ calls' = 0
  /\ UNCHANGED <<phase, res, served, serverVars, requests, refused, balancerVars>>

\* stop raises: logged, and the unwinding goes on.
GrpcStopFails ==
  /\ grpc = "stopping"
  /\ grpc' = "stuck"
  /\ UNCHANGED <<phase, res, served, serverVars, workVars, balancerVars>>

\* Slip: resources stop in the order they were started.
TurnFirst(i) == \A j \in 1..(i - 1) : res[j] = "up" => j \notin Hooked

\* reversed(started)
Turn(i) == \A j \in (i + 1)..N : res[j] = "up" => j \notin Hooked

\* Slip: the gRPC server is stopped last.
GrpcLast == TRUE

GrpcFirst == grpc \notin {"up", "stopping"}

\* The resource's hook is called.  If it raises, that is logged.
StopResource(i) ==
  /\ phase = "unwinding" /\ GrpcFirst
  /\ res[i] = "up" /\ i \in Hooked /\ Turn(i)
  /\ res' = [res EXCEPT ![i] = "stopped"]
  /\ UNCHANGED <<phase, grpc, served, serverVars, workVars, balancerVars>>

\* Slip: a resource without a hook is waited for.
UnwoundAll == \A i \in Resources : res[i] # "up"

Unwound == \A i \in Hooked : res[i] # "up"

Exit ==
  /\ phase = "unwinding" /\ grpc \notin {"up", "stopping"}
  /\ Unwound
  /\ phase' = "down"
  /\ requests' = 0 /\ calls' = 0
  /\ UNCHANGED <<res, grpc, served, serverVars, refused, balancerVars>>

-----------------------------------------------------------------------------
(* Signals. *)

\* uvicorn's own handle_exit
UvicornExit(sig) ==
  /\ force' = (force \/ (exit /\ sig = "INT"))
  /\ exit' = TRUE
  /\ captured' = Append(captured, sig)

\* Mark the process as draining and let the loop exit after the delay.
BeginDrain(sig) ==
  /\ draining' = TRUE /\ timer' = Delay /\ first' = sig
  /\ UNCHANGED <<exit, force, captured>>

\* DrainingServer.handle_exit
Signal(sig) ==
  /\ phase \in {"starting", "serving", "closing"}
  /\ signals < MaxSignals
  /\ signals' = signals + 1
  /\ IF draining \/ Delay = 0
     THEN UvicornExit(sig) /\ UNCHANGED <<draining, timer, first>>
     ELSE BeginDrain(sig)
  /\ UNCHANGED <<lifespanVars, workVars, balancerVars>>

\* _drain_then_exit: the sleep is over.
DrainOver ==
  /\ timer = 0
  /\ timer' = Off
  /\ UvicornExit(first)
  /\ UNCHANGED <<draining, first, signals, lifespanVars, workVars,
                 balancerVars>>

\* uvicorn's main loop ends: it stops listening and waits for its requests.
Close ==
  /\ phase = "serving" /\ exit
  /\ phase' = "closing"
  /\ UNCHANGED <<res, grpc, served, serverVars, workVars, balancerVars>>

Quiet == requests = 0 \/ force

\* uvicorn shuts the lifespan down; not when it is forced.
Quiesce ==
  /\ phase = "closing" /\ Quiet
  /\ IF force THEN Abandon
     ELSE phase' = "unwinding" /\ UNCHANGED <<grpc, requests, calls>>
  /\ UNCHANGED <<res, served, serverVars, refused, balancerVars>>

-----------------------------------------------------------------------------
(* Requests, calls and the load balancer. *)

Arrive ==
  /\ routed
  /\ IF phase = "serving"
     THEN /\ requests < MaxRequests
          /\ requests' = requests + 1 /\ refused' = refused
     ELSE refused' = TRUE /\ requests' = requests
  /\ UNCHANGED <<calls, lifespanVars, serverVars, balancerVars>>

CallArrives ==
  /\ grpc = "up" /\ calls < MaxRequests
  /\ calls' = calls + 1
  /\ UNCHANGED <<requests, refused, lifespanVars, serverVars, balancerVars>>

Done ==
  /\ requests > 0 /\ requests' = requests - 1
  /\ UNCHANGED <<calls, refused, lifespanVars, serverVars, balancerVars>>

CallDone ==
  /\ calls > 0 /\ calls' = calls - 1
  /\ UNCHANGED <<requests, refused, lifespanVars, serverVars, balancerVars>>

\* Slip: /ready does not ask is_draining.
UnreadyNever == FALSE

Unready == draining

\* GET /ready: 503 at once while draining; a closed socket answers no better.
Probe ==
  /\ probe = "due"
  /\ IF phase = "serving" /\ ~Unready
     THEN probe' = "checking" /\ ready' = ready
     ELSE probe' = "done" /\ ready' = FALSE
  /\ UNCHANGED <<routed, lifespanVars, serverVars, workVars>>

\* The checks end, with whatever they found; the drain may have begun since.
ProbeEnds ==
  /\ probe = "checking"
  /\ probe' = "done"
  /\ ready' \in BOOLEAN
  /\ UNCHANGED <<routed, lifespanVars, serverVars, workVars>>

Route ==
  /\ probe = "done" /\ routed # ready
  /\ routed' = ready
  /\ UNCHANGED <<probe, ready, lifespanVars, serverVars, workVars>>

\* The process has ended.
Over == phase \in {"down", "killed"}

\* One tick: long enough for a probe and for the balancer to follow it.
Tick ==
  /\ ~Over
  /\ probe = "done" /\ routed = ready
  /\ timer # 0
  /\ probe' = "due"
  /\ timer' = IF timer = Off THEN Off ELSE timer - 1
  /\ UNCHANGED <<exit, force, captured, draining, first, signals, ready, routed,
                 lifespanVars, workVars>>

-----------------------------------------------------------------------------
Startup == (\E i \in Resources : StartResource(i)) \/ StartGrpc \/ Listen

Unwind == StopGrpc \/ GrpcStopped \/ (\E i \in Resources : StopResource(i))
          \/ Exit

Serve == DrainOver \/ Close \/ Quiesce

Balance == Probe \/ ProbeEnds \/ Route \/ Tick

Down == Over /\ UNCHANGED vars

Next ==
  \/ Startup \/ Unwind \/ Serve \/ Balance
  \/ GrpcStopFails
  \/ \E sig \in {"TERM", "INT"} : Signal(sig)
  \/ Arrive \/ CallArrives \/ Done \/ CallDone
  \/ Down

Spec == Init /\ [][Next]_vars

\* Hooks return, the loop runs, and what is in flight ends.
FairSpec ==
  /\ Spec
  /\ WF_vars(Startup) /\ WF_vars(Unwind) /\ WF_vars(Serve) /\ WF_vars(Balance)
  /\ WF_vars(Done)

-----------------------------------------------------------------------------
(* Properties. *)

TypeOK ==
  /\ phase \in {"starting", "serving", "closing", "unwinding", "down", "killed"}
  /\ res \in [Resources -> {"off", "up", "broken", "stopped"}]
  /\ grpc \in {"off", "up", "stopping", "stopped", "stuck"}
  /\ exit \in BOOLEAN /\ force \in BOOLEAN /\ draining \in BOOLEAN
  /\ served \in BOOLEAN
  /\ captured \in Seq({"TERM", "INT"})
  /\ timer \in 0..Off
  /\ timer # Off => draining
  /\ first \in {"TERM", "INT"}
  /\ signals \in 0..MaxSignals
  /\ requests \in 0..MaxRequests /\ calls \in 0..MaxRequests
  /\ probe \in {"due", "checking", "done"}
  /\ ready \in BOOLEAN /\ routed \in BOOLEAN /\ refused \in BOOLEAN

\* "Those requests fail: the blip on every deploy": with one signal, and a delay
\* that covers a probe begun before it and the next one, none does.
NoneRefused == signals <= 1 => ~refused

\* The resources are closed under no request and no gRPC call in flight, unless
\* the exit is forced or the gRPC server failed to stop.
NotUnderfoot ==
  (\E i \in Resources : res[i] = "stopped") =>
    /\ requests = 0 \/ force
    /\ calls = 0 \/ grpc = "stuck"

\* A resource is closed only after those started later, which may use it, also
\* when one of them failed to start or to stop.
ClosedInReverse ==
  \A i, j \in Hooked : i < j /\ res[i] = "stopped" => res[j] # "up"

\* Whatever fails on the way, a process that ends by itself has called the
\* shutdown hook of everything that started.
NothingLeftUp == phase = "down" => \A i \in Hooked : res[i] # "up"

\* A process that has begun to serve is killed, with its hooks left out, only by
\* the operator's second signal.
KilledOnDemand == phase = "killed" /\ served => signals >= 2

\* "Unwinds on failure/shutdown" (runtime/lifespan.py:41): so does a process that
\* is signalled while it starts, or forced to exit.
UnwindsOnShutdown == Over => \A i \in Hooked : res[i] # "up"

\* One signal never forces the exit; it takes the operator's second one.
ForcedOnDemand == force => signals >= 2

\* One signal is graceful.
GracefulOnce == NoneRefused /\ ForcedOnDemand

\* Shutdown undoes what startup did, in reverse, whatever fails, unless a signal
\* kills the process: while it starts, or on demand.
CleanUnwind == TypeOK /\ ClosedInReverse /\ NothingLeftUp /\ KilledOnDemand

\* A process that is signalled ends, and so does one that failed to start.
Ends == (signals > 0 \/ phase = "unwinding") ~> Over
=============================================================================
