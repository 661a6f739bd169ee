--------------------------- MODULE ShutdownProofs ---------------------------
(***************************************************************************)
(* Proofs about Shutdown.  UInv is the inductive invariant of the way down:*)
(* what may be open, up or in flight in each phase.  DInv adds the drain:  *)
(* the balancer has turned away before the timer can close the listener.   *)
(***************************************************************************)
EXTENDS Shutdown, TLAPS

\* Nothing is stopped before the unwinding, and no door opens after the start.
NothingStopsEarly ==
  phase \in {"starting", "serving", "closing"} =>
    /\ \A i \in Resources : res[i] # "stopped"
    /\ grpc \in {"off", "up"}

\* What is in flight was let in: by a listener, or by a gRPC server.
LetIn ==
  /\ phase = "starting" => requests = 0
  /\ phase \in {"unwinding", "down", "killed"} => requests = 0 \/ force
  /\ grpc \in {"off", "stopped"} => calls = 0

\* A resource is stopped once the gRPC server is, or has failed to stop.
GrpcWentFirst ==
  (\E i \in Resources : res[i] = "stopped") => GrpcFirst

\* Only a forced exit kills a process that has served.
ServedFirst ==
  /\ phase = "starting" => ~served
  /\ phase = "killed" /\ served => force

\* One signal is one step towards the exit.
SignalsCount ==
  /\ draining => signals >= 1
  /\ exit => signals >= 1 /\ (draining \/ Delay = 0)
  /\ exit /\ timer # Off => signals >= 2

UInv ==
  /\ TypeOK
  /\ NothingStopsEarly
  /\ LetIn
  /\ GrpcWentFirst
  /\ SignalsCount
  /\ ServedFirst
  /\ ClosedInReverse
  /\ NothingLeftUp
  /\ ForcedOnDemand

-----------------------------------------------------------------------------
LEMMA InitUInv == Init => UInv
<1> SUFFICES ASSUME Init PROVE UInv
  OBVIOUS
<1> USE ShutdownAssumption DEF Init
<1>1. TypeOK
  <2>1. timer \in 0..Off /\ signals \in 0..MaxSignals
        /\ requests \in 0..MaxRequests /\ calls \in 0..MaxRequests
    BY DEF Off
  <2>2. captured \in Seq({"TERM", "INT"})
    OBVIOUS
  <2> QED BY <2>1, <2>2, Zenon DEF TypeOK
<1>2. NothingStopsEarly /\ LetIn /\ GrpcWentFirst /\ ServedFirst
  BY DEF NothingStopsEarly, LetIn, GrpcWentFirst, ServedFirst
<1>3. SignalsCount /\ ForcedOnDemand
  BY DEF SignalsCount, ForcedOnDemand
<1>4. ClosedInReverse /\ NothingLeftUp
  BY DEF ClosedInReverse, NothingLeftUp
<1> QED BY <1>1, <1>2, <1>3, <1>4 DEF UInv

\* The actions by the variables they touch.
Lifespan ==
  (\E i \in Resources : StartResource(i) \/ StopResource(i))
  \/ StartGrpc \/ Listen \/ StopGrpc \/ GrpcStopped \/ GrpcStopFails \/ Exit
Signals == (\E sig \in {"TERM", "INT"} : Signal(sig)) \/ DrainOver
Loop == Close \/ Quiesce
Traffic == Arrive \/ CallArrives \/ Done \/ CallDone

LEMMA Split == [Next]_vars => \/ Lifespan \/ Signals \/ Loop \/ Traffic \/ Balance
                              \/ UNCHANGED vars
BY DEF Next, Startup, Unwind, Serve, Lifespan, Signals, Loop, Traffic, Down

LEMMA LifespanTypes == TypeOK /\ Lifespan => TypeOK'
<1> USE ShutdownAssumption DEF TypeOK, serverVars, workVars, balancerVars
<1>1. ASSUME TypeOK, NEW i \in Resources, StartResource(i) PROVE TypeOK'
  BY <1>1 DEF StartResource
<1>2. ASSUME TypeOK, NEW i \in Resources, StopResource(i) PROVE TypeOK'
  BY <1>2 DEF StopResource
<1>3. ASSUME TypeOK, StartGrpc \/ StopGrpc \/ GrpcStopFails PROVE TypeOK'
  BY <1>3 DEF StartGrpc, StopGrpc, GrpcStopFails
<1>5. ASSUME TypeOK, Listen PROVE TypeOK'
  <2>1. /\ phase' \in {"starting", "serving", "closing", "unwinding", "down", "killed"}
        /\ grpc' \in {"off", "up", "stopping", "stopped", "stuck"}
        /\ served' \in BOOLEAN
        /\ requests' \in 0..MaxRequests /\ calls' \in 0..MaxRequests
    BY <1>5 DEF Listen, Abandon
  <2> QED BY <1>5, <2>1 DEF Listen
<1>4. ASSUME TypeOK, GrpcStopped \/ Exit PROVE TypeOK'
  BY <1>4 DEF GrpcStopped, Exit
<1> QED BY <1>1, <1>2, <1>3, <1>4, <1>5 DEF Lifespan

LEMMA SignalsTypes == TypeOK /\ Signals => TypeOK'
<1> USE ShutdownAssumption
    DEF TypeOK, lifespanVars, workVars, balancerVars, Off, UvicornExit
<1>1. ASSUME TypeOK, NEW sig \in {"TERM", "INT"}, Signal(sig) PROVE TypeOK'
  <2>1. signals' \in 0..MaxSignals /\ timer' \in 0..Off
    BY <1>1 DEF Signal, BeginDrain
  <2>2. captured' \in Seq({"TERM", "INT"})
    BY <1>1 DEF Signal, BeginDrain
  <2>3. /\ exit' \in BOOLEAN /\ force' \in BOOLEAN /\ draining' \in BOOLEAN
        /\ timer' # Off => draining'
        /\ first' \in {"TERM", "INT"}
    BY <1>1, Zenon DEF Signal, BeginDrain
  <2> QED BY <1>1, <2>1, <2>2, <2>3, Zenon DEF Signal
<1>2. ASSUME TypeOK, DrainOver PROVE TypeOK'
  <2>1. timer' = Off /\ timer' \in 0..Off /\ captured' \in Seq({"TERM", "INT"})
    BY <1>2 DEF DrainOver
  <2>2. exit' \in BOOLEAN /\ force' \in BOOLEAN
    BY <1>2, Zenon DEF DrainOver
  <2>3. /\ phase' = phase /\ res' = res /\ grpc' = grpc /\ served' = served
        /\ draining' = draining /\ first' = first /\ signals' = signals /\ requests' = requests
        /\ calls' = calls /\ refused' = refused /\ probe' = probe /\ ready' = ready
        /\ routed' = routed
    BY <1>2 DEF DrainOver
  <2> QED BY <1>2, <2>1, <2>2, <2>3, SMT
<1> QED BY <1>1, <1>2 DEF Signals

LEMMA OtherTypes ==
  TypeOK /\ (Loop \/ Traffic \/ Balance \/ UNCHANGED vars) => TypeOK'
<1> USE ShutdownAssumption
    DEF TypeOK, serverVars, lifespanVars, workVars, balancerVars
<1>1. ASSUME TypeOK, Loop PROVE TypeOK'
  BY <1>1 DEF Loop, Close, Quiesce, Abandon
<1>2. ASSUME TypeOK, Traffic PROVE TypeOK'
  <2>1. requests' \in 0..MaxRequests /\ calls' \in 0..MaxRequests
    BY <1>2 DEF Traffic, Arrive, CallArrives, Done, CallDone
  <2>2. refused' \in BOOLEAN
    BY <1>2, Zenon DEF Traffic, Arrive, CallArrives, Done, CallDone
  <2> QED BY <1>2, <2>1, <2>2 DEF Traffic, Arrive, CallArrives, Done, CallDone
<1>3. ASSUME TypeOK, Balance PROVE TypeOK'
  <2>1. timer' \in 0..Off /\ (timer' # Off => timer # Off)
    BY <1>3 DEF Balance, Probe, ProbeEnds, Route, Tick, Off
  <2>2. /\ probe' \in {"due", "checking", "done"}
        /\ ready' \in BOOLEAN /\ routed' \in BOOLEAN
    BY <1>3, Zenon DEF Balance, Probe, ProbeEnds, Route, Tick
  <2>3. /\ phase' = phase /\ res' = res /\ grpc' = grpc /\ served' = served
        /\ exit' = exit /\ force' = force /\ captured' = captured /\ draining' = draining
        /\ first' = first /\ signals' = signals /\ requests' = requests /\ calls' = calls
        /\ refused' = refused
    BY <1>3 DEF Balance, Probe, ProbeEnds, Route, Tick
  <2> QED BY <1>3, <2>1, <2>2, <2>3, SMT
<1>4. ASSUME TypeOK, UNCHANGED vars PROVE TypeOK'
  BY <1>4 DEF vars
<1> QED BY <1>1, <1>2, <1>3, <1>4

LEMMA StepTypes == TypeOK /\ [Next]_vars => TypeOK'
BY Split, LifespanTypes, SignalsTypes, OtherTypes

-----------------------------------------------------------------------------
(* One lemma per part of UInv.  "Still" is what the other actions leave.   *)

Still == UNCHANGED <<phase, res, grpc, served>>

LEMMA NotLifespan ==
  Signals \/ Traffic \/ Balance \/ UNCHANGED vars => Still
BY DEF Signals, Signal, DrainOver, Traffic, Arrive, CallArrives, Done, CallDone,
       Balance, Probe, ProbeEnds, Route, Tick, vars, lifespanVars, Still

LEMMA StepEarly ==
  ASSUME TypeOK, NothingStopsEarly, [Next]_vars
  PROVE  NothingStopsEarly'
<1> USE DEF NothingStopsEarly, TypeOK
<1>1. CASE Lifespan
  BY <1>1 DEF Lifespan, StartResource, StopResource, StartGrpc, Listen, Abandon, StopGrpc,
              GrpcStopped, GrpcStopFails, Exit
<1>2. CASE Loop
  BY <1>2 DEF Loop, Close, Quiesce, Abandon
<1>3. CASE Still
  BY <1>3 DEF Still
<1> QED BY <1>1, <1>2, <1>3, Split, NotLifespan

LEMMA StepLetIn ==
  ASSUME TypeOK, NothingStopsEarly, LetIn, [Next]_vars
  PROVE  LetIn'
<1>1. CASE Lifespan
  <2> USE DEF TypeOK, NothingStopsEarly, serverVars, workVars, balancerVars
  <2>1. ASSUME NEW i \in Resources, StartResource(i) \/ StopResource(i)
        PROVE  LetIn'
    BY <2>1, Zenon DEF StartResource, StopResource, LetIn
  <2>2. CASE StartGrpc \/ Listen
    BY <2>2, Zenon DEF StartGrpc, Listen, Abandon, LetIn
  <2>3. CASE StopGrpc \/ GrpcStopped \/ GrpcStopFails \/ Exit
    BY <2>3, Zenon DEF StopGrpc, GrpcStopped, GrpcStopFails, Exit, LetIn
  <2> QED BY <1>1, <2>1, <2>2, <2>3 DEF Lifespan
<1>2. CASE Signals
  BY <1>2, Zenon DEF Signals, Signal, DrainOver, UvicornExit, BeginDrain,
                     lifespanVars, workVars, LetIn
<1>3. CASE Loop
  BY <1>3, Zenon DEF Loop, Close, Quiesce, Abandon, Quiet, serverVars, workVars, LetIn
<1>4. CASE Traffic
  <2>1. CASE Arrive \/ CallArrives
    BY <2>1, Zenon DEF Arrive, CallArrives, lifespanVars, serverVars, LetIn
  <2>2. CASE Done \/ CallDone
    <3>1. UNCHANGED <<phase, grpc, force>>
      BY <2>2 DEF Done, CallDone, lifespanVars, serverVars
    <3>2. (requests = 0 => requests' = 0) /\ (calls = 0 => calls' = 0)
      BY <2>2 DEF Done, CallDone
    <3> QED BY <3>1, <3>2, Zenon DEF LetIn
  <2> QED BY <1>4, <2>1, <2>2 DEF Traffic
<1>5. CASE Balance \/ UNCHANGED vars
  BY <1>5, Zenon DEF Balance, Probe, ProbeEnds, Route, Tick, vars, lifespanVars,
                     serverVars, workVars, LetIn
<1> QED BY <1>1, <1>2, <1>3, <1>4, <1>5, Split

LEMMA StepGrpcFirst ==
  ASSUME TypeOK, NothingStopsEarly, GrpcWentFirst, [Next]_vars
  PROVE  GrpcWentFirst'
<1> USE DEF NothingStopsEarly, GrpcWentFirst, GrpcFirst, TypeOK
<1>1. CASE Lifespan
  BY <1>1 DEF Lifespan, StartResource, StopResource, StartGrpc, Listen, Abandon, StopGrpc,
              GrpcStopped, GrpcStopFails, Exit
<1>2. CASE Loop
  BY <1>2 DEF Loop, Close, Quiesce, Abandon
<1>3. CASE Still
  BY <1>3 DEF Still
<1> QED BY <1>1, <1>2, <1>3, Split, NotLifespan

LEMMA StepReverse ==
  ASSUME TypeOK, NothingStopsEarly, ClosedInReverse, [Next]_vars
  PROVE  ClosedInReverse'
<1> USE ShutdownAssumption DEF NothingStopsEarly, ClosedInReverse, TypeOK
<1>1. ASSUME NEW i \in Resources, StartResource(i) PROVE ClosedInReverse'
  BY <1>1 DEF StartResource
<1>2. ASSUME NEW i \in Resources, StopResource(i) PROVE ClosedInReverse'
  BY <1>2 DEF StopResource, Turn, Resources
<1>3. ASSUME res' = res PROVE ClosedInReverse'
  BY <1>3
<1> QED
  BY <1>1, <1>2, <1>3, Split, NotLifespan
     DEF Lifespan, StartGrpc, Listen, Abandon, StopGrpc, GrpcStopped, GrpcStopFails, Exit,
         Loop, Close, Quiesce, Abandon, Still

LEMMA StepLeftUp ==
  ASSUME TypeOK, NothingLeftUp, [Next]_vars
  PROVE  NothingLeftUp'
<1> USE ShutdownAssumption DEF NothingLeftUp, TypeOK
<1>1. CASE Lifespan
  BY <1>1 DEF Lifespan, StartResource, StopResource, StartGrpc, Listen, Abandon, StopGrpc,
              GrpcStopped, GrpcStopFails, Exit, Unwound
<1>2. CASE Loop
  BY <1>2 DEF Loop, Close, Quiesce, Abandon
<1>3. CASE Still
  BY <1>3 DEF Still
<1> QED BY <1>1, <1>2, <1>3, Split, NotLifespan

LEMMA StepServed ==
  ASSUME TypeOK, ServedFirst, [Next]_vars
  PROVE  ServedFirst'
<1> USE DEF TypeOK, ServedFirst
<1>1. CASE Lifespan
  BY <1>1 DEF Lifespan, StartResource, StopResource, StartGrpc, Listen, Abandon,
              StopGrpc, GrpcStopped, GrpcStopFails, Exit, serverVars
<1>2. CASE Loop
  BY <1>2 DEF Loop, Close, Quiesce, Abandon, serverVars
<1>3. CASE Still /\ (force => force')
  BY <1>3 DEF Still
<1>4. Signals \/ Traffic \/ Balance \/ UNCHANGED vars => (force => force')
  BY DEF Signals, Signal, DrainOver, UvicornExit, BeginDrain, Traffic, Arrive,
         CallArrives, Done, CallDone, Balance, Probe, ProbeEnds, Route, Tick, vars,
         serverVars
<1> QED BY <1>1, <1>2, <1>3, <1>4, Split, NotLifespan

LEMMA NotSignals ==
  Lifespan \/ Loop \/ Traffic =>
    UNCHANGED <<draining, exit, force, signals, timer, first>>
BY DEF Lifespan, StartResource, StopResource, StartGrpc, Listen, Abandon, StopGrpc,
       GrpcStopped, GrpcStopFails, Exit, Loop, Close, Quiesce, Abandon, Traffic, Arrive,
       CallArrives, Done, CallDone, serverVars

LEMMA StepSignals ==
  ASSUME TypeOK, SignalsCount, ForcedOnDemand, [Next]_vars
  PROVE  SignalsCount' /\ ForcedOnDemand'
<1> USE ShutdownAssumption
<1>1. ASSUME NEW sig \in {"TERM", "INT"}, Signal(sig)
      PROVE  SignalsCount' /\ ForcedOnDemand'
  <2>1. signals' = signals + 1 /\ signals \in Nat
    BY <1>1 DEF Signal, TypeOK
  <2>2. CASE draining \/ Delay = 0
    <3>1. /\ signals' >= 1 /\ (signals >= 1 => signals' >= 2)
      BY <2>1
    <3>2. draining' = draining /\ timer' = timer
          /\ (force' => force \/ exit)
      BY <1>1, <2>2, Zenon DEF Signal, UvicornExit
    <3>3. (draining' \/ Delay = 0) /\ (draining => signals' >= 2)
      BY <2>2, <3>1, <3>2, Zenon DEF SignalsCount
    <3>4. timer' # Off => signals' >= 2
      BY <3>2, <3>3, Zenon DEF TypeOK
    <3>5. signals >= 2 => signals' >= 2
      BY <2>1
    <3> QED
      BY <3>1, <3>2, <3>3, <3>4, <3>5, Zenon DEF SignalsCount, ForcedOnDemand, Off
  <2>3. CASE ~(draining \/ Delay = 0)
    <3>1. ~exit
      BY <2>3, Zenon DEF SignalsCount
    <3>2. exit' = exit /\ force' = force
      BY <1>1, <2>3, Zenon DEF Signal, BeginDrain
    <3>3. signals' >= 1 /\ (signals >= 2 => signals' >= 2)
      BY <2>1
    <3> QED BY <3>1, <3>2, <3>3, Zenon DEF SignalsCount, ForcedOnDemand
  <2> QED BY <2>2, <2>3
<1>2. CASE DrainOver
  <2>1. timer # Off /\ timer' = Off /\ draining' = draining
        /\ signals' = signals
    BY <1>2 DEF DrainOver, Off
  <2>2. draining
    BY <2>1, Zenon DEF TypeOK
  <2>3. force' => force \/ exit
    BY <1>2, Zenon DEF DrainOver, UvicornExit
  <2>4. Off' = Off
    BY DEF Off
  <2> QED BY <2>1, <2>2, <2>3, <2>4, Zenon DEF SignalsCount, ForcedOnDemand
<1>3. CASE Balance
  <2>1. UNCHANGED <<draining, exit, force, signals>>
    BY <1>3 DEF Balance, Probe, ProbeEnds, Route, Tick, serverVars
  <2>2. timer' # Off => timer # Off
    BY <1>3 DEF Balance, Probe, ProbeEnds, Route, Tick, serverVars
  <2> QED BY <2>1, <2>2, Zenon DEF SignalsCount, ForcedOnDemand, Off
<1>4. CASE UNCHANGED <<draining, exit, force, signals, timer, first>>
  BY <1>4, Zenon DEF SignalsCount, ForcedOnDemand, Off
<1> QED
  BY <1>1, <1>2, <1>3, <1>4, Split, NotSignals DEF Signals, vars, serverVars

LEMMA StepUInv == UInv /\ [Next]_vars => UInv'
BY StepTypes, StepEarly, StepLetIn, StepGrpcFirst, StepReverse, StepLeftUp,
   StepServed, StepSignals DEF UInv

\* No step breaks UInv.
THEOREM Inductive == Spec => []UInv
BY InitUInv, StepUInv, PTL DEF Spec

-----------------------------------------------------------------------------
\* Every resource that was started and has a hook is stopped by the time the
\* process ends by itself, whatever fails on the way, and in the reverse order; and
\* one that has served is killed with hooks left out only by a second signal.
THEOREM UnwindsCleanly == Spec => []CleanUnwind
<1>1. UInv => CleanUnwind
  BY DEF UInv, CleanUnwind, ServedFirst, ForcedOnDemand, KilledOnDemand
<1> QED BY <1>1, Inductive, PTL

\* No resource is closed under a request or a call, unless the exit is forced or
\* the gRPC server failed to stop.
THEOREM NothingClosedUnderfoot == Spec => []NotUnderfoot
<1>1. UInv => NotUnderfoot
  <2> SUFFICES ASSUME UInv, NEW i \in Resources, res[i] = "stopped"
               PROVE  (requests = 0 \/ force) /\ (calls = 0 \/ grpc = "stuck")
    BY DEF NotUnderfoot
  <2>1. phase \in {"unwinding", "down", "killed"}
    BY DEF UInv, TypeOK, NothingStopsEarly
  <2>2. grpc \in {"off", "stopped", "stuck"}
    BY DEF UInv, TypeOK, GrpcWentFirst, GrpcFirst
  <2> QED BY <2>1, <2>2, Zenon DEF UInv, LetIn
<1> QED BY <1>1, Inductive, PTL

-----------------------------------------------------------------------------
(* The drain.  A probe that began before the signal takes up one tick of   *)
(* the delay, and the one that sees the flag the next.                     *)

Covered == Delay >= 2

TurnedAway == probe # "checking" /\ ~ready /\ ~routed

\* One tick into the drain the answer of a probe is 503 ...
ProbeSees ==
  draining /\ timer < Delay =>
    probe # "checking" /\ (probe = "done" => ~ready)

\* ... and after two, or when the delay is over, nothing is routed here.
BalancerFollows ==
  draining /\ (timer + 2 <= Delay \/ timer = Off) => TurnedAway

\* Unless there is a second signal, the loop exits when the delay is over,
\* and nothing is routed to a process that does not listen.
ExitsLate == exit /\ signals <= 1 => draining /\ timer = Off

ClosedToNobody == signals <= 1 /\ phase # "serving" => TurnedAway

DInv ==
  /\ ProbeSees
  /\ BalancerFollows
  /\ ExitsLate
  /\ ClosedToNobody
  /\ NoneRefused

LEMMA InitDInv == Init => DInv
<1> SUFFICES ASSUME Init PROVE DInv
  OBVIOUS
<1> QED
  BY Zenon DEF Init, DInv, ProbeSees, BalancerFollows, ExitsLate,
               ClosedToNobody, NoneRefused, TurnedAway

\* The balancer's own steps.
LEMMA BalanceDInv ==
  ASSUME Covered, TypeOK, DInv, Balance
  PROVE  DInv'
<1> USE ShutdownAssumption DEF Covered
<1>s. UNCHANGED <<draining, exit, signals, phase, refused>>
  BY DEF Balance, Probe, ProbeEnds, Route, Tick, serverVars, lifespanVars,
         workVars
<1>t. timer \in 0..Off /\ timer' \in 0..Off
  BY StepTypes DEF TypeOK, Next
<1>1. CASE Probe
  <2>1. timer' = timer /\ routed' = routed
    BY <1>1 DEF Probe, serverVars
  <2>2. probe' = "checking" => phase = "serving" /\ ~draining
    BY <1>1, Zenon DEF Probe, Unready
  <2>3. probe' # "checking" => ~ready'
    BY <1>1, Zenon DEF Probe
  <2>4. TurnedAway /\ probe' # "checking" => TurnedAway'
    BY <2>1, <2>3, Zenon DEF TurnedAway
  <2> QED
    BY <1>s, <2>1, <2>2, <2>3, <2>4, Zenon
       DEF DInv, ProbeSees, BalancerFollows, ExitsLate, ClosedToNobody,
           NoneRefused, Off
<1>2. CASE ProbeEnds
  <2>1. timer' = timer /\ probe = "checking" /\ ~TurnedAway
    BY <1>2, Zenon DEF ProbeEnds, serverVars, TurnedAway
  <2> QED
    BY <1>s, <2>1, Zenon
       DEF DInv, ProbeSees, BalancerFollows, ExitsLate, ClosedToNobody,
           NoneRefused, Off
<1>3. CASE Route
  <2>1. UNCHANGED <<timer, probe, ready>> /\ routed' = ready
    BY <1>3 DEF Route, serverVars
  <2>2. TurnedAway => TurnedAway'
    BY <2>1, Zenon DEF TurnedAway
  <2> QED
    BY <1>s, <2>1, <2>2, Zenon
       DEF DInv, ProbeSees, BalancerFollows, ExitsLate, ClosedToNobody,
           NoneRefused, Off
<1>4. CASE Tick
  <2>1. probe = "done" /\ probe' = "due" /\ routed = ready
        /\ routed' = routed /\ ready' = ready
    BY <1>4 DEF Tick
  <2>2. TurnedAway => TurnedAway'
    BY <2>1, Zenon DEF TurnedAway
  <2>3. /\ timer' = Off => timer = Off
        /\ timer' + 2 <= Delay => timer < Delay
    BY <1>4, <1>t DEF Tick, Off
  <2>4. draining /\ timer < Delay => TurnedAway'
    BY <2>1, Zenon DEF DInv, ProbeSees, TurnedAway
  <2>5. ExitsLate'
    <3>1. timer = Off => timer' = Off
      BY <1>4 DEF Tick
    <3> QED BY <1>s, <3>1, Zenon DEF DInv, ExitsLate, Off
  <2>6. BalancerFollows'
    BY <1>s, <2>2, <2>3, <2>4, Zenon DEF DInv, BalancerFollows, Off
  <2>7. ProbeSees'
    BY <2>1 DEF ProbeSees
  <2> QED
    BY <1>s, <2>2, <2>5, <2>6, <2>7, Zenon
       DEF DInv, ClosedToNobody, NoneRefused
<1> QED BY <1>1, <1>2, <1>3, <1>4 DEF Balance

LEMMA SignalsDInv ==
  ASSUME Covered, TypeOK, SignalsCount, DInv, Signals
  PROVE  DInv'
<1> USE ShutdownAssumption DEF Covered
<1>s. UNCHANGED <<phase, refused, probe, ready, routed>> /\ TurnedAway' = TurnedAway
  BY DEF Signals, Signal, DrainOver, lifespanVars, workVars, balancerVars,
         TurnedAway
<1>1. ASSUME NEW sig \in {"TERM", "INT"}, Signal(sig) PROVE DInv'
  <2>1. signals' = signals + 1 /\ signals \in Nat
    BY <1>1 DEF Signal, TypeOK
  <2>2. signals' <= 1 => signals <= 1 /\ ~(signals >= 1)
    BY <2>1
  <2>3. ClosedToNobody' /\ NoneRefused'
    BY <1>s, <2>2, Zenon DEF DInv, ClosedToNobody, NoneRefused
  <2>4. CASE draining
    <3>1. timer' = timer /\ draining' = draining
      BY <1>1, <2>4, Zenon DEF Signal
    <3>2. ~(signals' <= 1)
      BY <2>2, <2>4, Zenon DEF SignalsCount
    <3> QED
      BY <1>s, <2>3, <3>1, <3>2, Zenon
         DEF DInv, ProbeSees, BalancerFollows, ExitsLate, Off
  <2>5. CASE ~draining
    <3>1. Delay # 0 /\ ~(Delay + 2 <= Delay) /\ Delay # Off /\ ~(Delay < Delay)
      BY DEF Off
    <3>2. timer' = Delay /\ exit' = exit
      BY <1>1, <2>5, <3>1, Zenon DEF Signal, BeginDrain
    <3>3. ~exit
      BY <2>5, <3>1, Zenon DEF SignalsCount
    <3> QED
      BY <2>3, <3>1, <3>2, <3>3, Zenon
         DEF DInv, ProbeSees, BalancerFollows, ExitsLate, Off
  <2> QED BY <2>4, <2>5
<1>2. CASE DrainOver
  <2>1. UNCHANGED <<draining, signals>> /\ timer = 0 /\ timer' = Off
    BY <1>2 DEF DrainOver
  <2>2. draining
    <3>1. timer # Off
      BY <2>1 DEF Off
    <3> QED BY <3>1, Zenon DEF TypeOK
  <2>3. timer + 2 <= Delay /\ ~(Off < Delay)
    BY <2>1 DEF Off
  <2> QED
    BY <1>s, <2>1, <2>2, <2>3, Zenon
       DEF DInv, ProbeSees, BalancerFollows, ExitsLate, ClosedToNobody,
           NoneRefused, Off
<1> QED BY <1>1, <1>2 DEF Signals

LEMMA OtherDInv ==
  ASSUME Covered, TypeOK, DInv, Lifespan \/ Loop \/ Traffic \/ UNCHANGED vars
  PROVE  DInv'
<1>s. UNCHANGED <<draining, exit, signals, timer, probe, ready, routed>>
  BY DEF Lifespan, StartResource, StopResource, StartGrpc, Listen, Abandon, StopGrpc,
         GrpcStopped, GrpcStopFails, Exit, Loop, Close, Quiesce, Abandon, Traffic, Arrive,
         CallArrives, Done, CallDone, serverVars, balancerVars, vars
<1>1. ProbeSees' /\ BalancerFollows' /\ ExitsLate' /\ TurnedAway' = TurnedAway
  BY <1>s, Zenon DEF DInv, ProbeSees, BalancerFollows, ExitsLate, Off, TurnedAway
<1>2. phase = "serving" => phase' = "serving" \/ exit
  BY DEF Lifespan, StartResource, StopResource, StartGrpc, Listen, Abandon, StopGrpc,
         GrpcStopped, GrpcStopFails, Exit, Loop, Close, Quiesce, Abandon, Traffic, Arrive,
         CallArrives, Done, CallDone, lifespanVars, vars
<1>3. ClosedToNobody'
  BY <1>s, <1>1, <1>2, Zenon
     DEF DInv, ExitsLate, BalancerFollows, ClosedToNobody
<1>4. refused' => refused \/ (routed /\ phase # "serving")
  BY Zenon DEF Lifespan, StartResource, StopResource, StartGrpc, Listen, Abandon, StopGrpc,
         GrpcStopped, GrpcStopFails, Exit, Loop, Close, Quiesce, Abandon, Traffic, Arrive,
         CallArrives, Done, CallDone, workVars, vars
<1>5. NoneRefused'
  BY <1>s, <1>4, Zenon DEF DInv, ClosedToNobody, TurnedAway, NoneRefused
<1> QED BY <1>1, <1>3, <1>5, Zenon DEF DInv

\* If the delay covers a probe begun before the signal and the one after it, one
\* signal costs no request and does not force the exit.
THEOREM OneSignalIsGraceful == ASSUME Covered PROVE Spec => []GracefulOnce
<1>1. UInv /\ DInv /\ [Next]_vars => DInv'
  BY Split, BalanceDInv, SignalsDInv, OtherDInv DEF UInv
<1>2. UInv /\ DInv => GracefulOnce
  BY DEF UInv, DInv, GracefulOnce
<1> QED BY <1>1, <1>2, InitDInv, Inductive, PTL DEF Spec
=============================================================================
