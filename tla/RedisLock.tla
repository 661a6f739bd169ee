------------------------------ MODULE RedisLock ------------------------------
(***************************************************************************)
(* redis_lock of cache/lock.py: one lock key in Redis, taken by the tasks  *)
(* of several processes through redis-py's Lock, whose token makes release *)
(* and extend conditional.  A task stands for one "async with", so it is   *)
(* its own token.                                                          *)
(*                                                                         *)
(* Time is in ticks: what remains of the TTL, how long a task has waited.  *)
(* The extension task sleeps for half of the TTL, so while the key is its  *)
(* own it wakes when half of the TTL is left.                              *)
(***************************************************************************)
EXTENDS Naturals

CONSTANTS
  Tasks,
  Free,              \* the key is absent
  HalfTTL,           \* ttl_seconds / 2, in ticks
  AutoExtend,        \* auto_extend
  BlockingTimeout,   \* blocking_timeout, in ticks (0: blocking=False)
  MaxDelay,          \* from the extension task's waking to Redis, in ticks
  MaxFaults          \* bound: how often each kind of fault happens

TTL == 2 * HalfTTL

FaultKinds == {"stop", "outage", "lost", "late"}

ASSUME LockAssumption ==
  /\ Free \notin Tasks
  /\ HalfTTL \in Nat \ {0}
  /\ AutoExtend \in BOOLEAN
  /\ BlockingTimeout \in Nat
  /\ MaxDelay \in Nat
  /\ MaxFaults \in [FaultKinds -> Nat]

VARIABLES
  key,        \* whose token is in Redis
  ttl,        \* what remains of its TTL
  pc,         \* where each task is in redis_lock
  waited,     \* how long it has tried to acquire
  extender,   \* its extension task: "off", "on", or "over" (it gave up)
  faults      \* how often each kind of fault has happened

lockVars == <<key, ttl, pc, waited, extender, faults>>

Goto(t, l) == pc' = [pc EXCEPT ![t] = l]

SpendFault(k) == /\ faults[k] < MaxFaults[k]
                 /\ faults' = [faults EXCEPT ![k] = @ + 1]

LockInit ==
  /\ key = Free
  /\ ttl = 0
  /\ pc = [t \in Tasks |-> "outside"]
  /\ waited = [t \in Tasks |-> 0]
  /\ extender = [t \in Tasks |-> "off"]
  /\ faults = [k \in FaultKinds |-> 0]

-----------------------------------------------------------------------------
(* What the commands do to the key. *)

\* SET NX PX
TakeKey(t) == /\ key' = IF key = Free THEN t ELSE key
              /\ ttl' = IF key = Free THEN TTL ELSE ttl

\* Slip: DEL without a look at the token.
DropKeyAny(t) == /\ key' = Free
                 /\ ttl' = 0

\* release: a script deletes the key if it holds the token.
DropKey(t) == /\ key' = IF key = t THEN Free ELSE key
              /\ ttl' = IF key = t THEN 0 ELSE ttl

\* extend, replace_ttl=True: a script resets the TTL if the key holds the token.
ExtendKey(t) == /\ key' = key
                /\ ttl' = IF key = t THEN TTL ELSE ttl

SameKey == UNCHANGED <<key, ttl>>

-----------------------------------------------------------------------------
\* Lock.acquire attempts once, and again while it may block.
Attempts(t) == \/ pc[t] = "outside"
               \/ pc[t] = "waiting" /\ BlockingTimeout > 0

\* Lock.acquire: an attempt succeeds.
Acquire(t) ==
  /\ Attempts(t)
  /\ key = Free
  /\ TakeKey(t)
  /\ Goto(t, "holding")
  /\ extender' = [extender EXCEPT ![t] = IF AutoExtend THEN "on" ELSE "off"]
  /\ UNCHANGED <<waited, faults>>

\* Lock.acquire: the first attempt fails; more follow while there is time.
Queue(t) ==
  /\ pc[t] = "outside"
  /\ key # Free
  /\ Goto(t, "waiting")
  /\ UNCHANGED <<key, ttl, waited, extender, faults>>

\* Lock.acquire returns False, and redis_lock raises LockAcquireError.
GiveUp(t) ==
  /\ pc[t] = "waiting"
  /\ waited[t] >= BlockingTimeout
  /\ Goto(t, "refused")
  /\ UNCHANGED <<key, ttl, waited, extender, faults>>

\* _auto_extend_loop: the sleep is over and the key is still its own.
Extend(t) ==
  /\ extender[t] = "on"
  /\ key = t
  /\ ttl <= HalfTTL
  /\ ExtendKey(t)
  /\ UNCHANGED <<pc, waited, extender, faults>>

\* _auto_extend_loop: LockError, because the key is no longer its own.
ExtendTooLate(t) ==
  /\ extender[t] = "on"
  /\ key # t
  /\ extender' = [extender EXCEPT ![t] = "over"]
  /\ UNCHANGED <<key, ttl, pc, waited, faults>>

\* The block is left: it returned, raised or was cancelled.
Leave(t) ==
  /\ pc[t] = "holding"
  /\ Goto(t, IF AutoExtend THEN "reaping" ELSE "releasing")
  /\ UNCHANGED <<key, ttl, waited, extender, faults>>

\* Slip: only Exception is suppressed, so the CancelledError of the extension
\* task escapes, past the release.
ReapEscapes(t) ==
  /\ pc[t] = "reaping"
  /\ SameKey
  /\ Goto(t, "out")
  /\ extender' = [extender EXCEPT ![t] = "off"]
  /\ UNCHANGED <<waited, faults>>

\* Slip: the extension task is not cancelled.
ReapNot(t) ==
  /\ pc[t] = "reaping"
  /\ SameKey
  /\ Goto(t, "releasing")
  /\ UNCHANGED <<waited, extender, faults>>

\* _stop_extend_task; an extension that was under way may still be executed.
\* A cancellation that arrives here is swallowed with the outcome of the task.
Reap(t) ==
  /\ pc[t] = "reaping"
  /\ SameKey \/ (extender[t] = "on" /\ ttl <= HalfTTL /\ ExtendKey(t))
  /\ Goto(t, "releasing")
  /\ extender' = [extender EXCEPT ![t] = "off"]
  /\ UNCHANGED <<waited, faults>>

\* Lock.release: the key, or LockError, which is only logged.
Release(t) ==
  /\ pc[t] = "releasing"
  /\ DropKey(t)
  /\ Goto(t, "out")
  /\ UNCHANGED <<waited, extender, faults>>

-----------------------------------------------------------------------------
(* Failures. *)

\* A SET NX is executed, its reply times out, and redis-py sends it again: the
\* second one finds the first one's token and fails.
SetTwice(t) ==
  /\ Attempts(t)
  /\ key = Free
  /\ SpendFault("lost")
  /\ TakeKey(t)
  /\ Goto(t, "waiting")
  /\ UNCHANGED <<waited, extender>>

\* RedisError, for a command that may have been executed.  It leaves acquire
\* as an exception, ends the extension task, and is logged by the release.
RedisFails(t) ==
  /\ SpendFault("outage")
  /\ waited' = waited
  /\ \/ /\ Attempts(t)
        /\ SameKey \/ TakeKey(t)
        /\ Goto(t, "error")
        /\ extender' = extender
     \/ /\ extender[t] = "on"
        /\ SameKey \/ ExtendKey(t)
        /\ pc' = pc
        /\ extender' = [extender EXCEPT ![t] = "over"]
     \/ /\ pc[t] = "releasing"
        /\ SameKey \/ DropKey(t)
        /\ Goto(t, "out")
        /\ extender' = extender

\* The task is cancelled while it waits for acquire or release, or the process
\* dies and its extension task with it.
Stop(t) ==
  /\ pc[t] \in {"outside", "waiting", "holding", "reaping", "releasing"}
  /\ SpendFault("stop")
  /\ \/ SameKey
     \/ Attempts(t) /\ TakeKey(t)
     \/ pc[t] = "releasing" /\ DropKey(t)
  /\ Goto(t, "out")
  /\ extender' = [extender EXCEPT ![t] = "off"]
  /\ waited' = waited

\* No extension is due for longer than MaxDelay.
InTime == \A t \in Tasks :
  extender[t] = "on" /\ key = t => TTL < ttl + HalfTTL + MaxDelay

\* Time passes.  Attempts to acquire end in time; extensions are executed in
\* time, unless the event loop or Redis is held up.
Tick ==
  /\ key # Free \/ \E t \in Tasks : pc[t] = "waiting"
  /\ \A t \in Tasks : pc[t] = "waiting" => waited[t] < BlockingTimeout
  /\ IF InTime THEN faults' = faults ELSE SpendFault("late")
  /\ ttl' = IF ttl > 0 THEN ttl - 1 ELSE 0
  /\ key' = IF ttl <= 1 THEN Free ELSE key
  /\ waited' = [t \in Tasks |->
                  IF pc[t] = "waiting" THEN waited[t] + 1 ELSE waited[t]]
  /\ UNCHANGED <<pc, extender>>

-----------------------------------------------------------------------------
Outside(t) == pc[t] \in {"refused", "error", "out"}

AllOut == (\A t \in Tasks : Outside(t)) /\ key = Free /\ UNCHANGED lockVars

\* What a task does of itself, but for leaving the block.
Step(t) ==
  \/ Acquire(t) \/ Queue(t) \/ GiveUp(t)
  \/ Extend(t) \/ ExtendTooLate(t)
  \/ Reap(t) \/ Release(t)

LockNext ==
  \/ \E t \in Tasks : Step(t) \/ Leave(t)
  \/ \E t \in Tasks : SetTwice(t) \/ RedisFails(t) \/ Stop(t)
  \/ Tick
  \/ AllOut

LockSpec == LockInit /\ [][LockNext]_lockVars

\* Tasks run, Redis answers and time passes; a block may run for ever.
LockFairness ==
  /\ \A t \in Tasks : WF_lockVars(Step(t))
  /\ WF_lockVars(Tick)

FairLockSpec == LockSpec /\ LockFairness

-----------------------------------------------------------------------------
(* Properties. *)

LockTypeOK ==
  /\ key \in Tasks \cup {Free}
  /\ ttl \in 0..TTL
  /\ key = Free <=> ttl = 0
  /\ pc \in [Tasks -> {"outside", "waiting", "holding", "reaping", "releasing",
                       "refused", "error", "out"}]
  /\ waited \in [Tasks -> 0..BlockingTimeout]
  /\ extender \in [Tasks -> {"off", "on", "over"}]
  /\ faults \in [FaultKinds -> Nat]

\* "Hold a distributed lock while the block runs": as long as its extension
\* task lives and is in time, a task in the block has the key, however long the
\* block takes and whatever else fails.
LockHeld ==
  faults["late"] = 0 =>
    \A t \in Tasks : pc[t] = "holding" /\ extender[t] = "on" => key = t

\* Nobody takes the key away from a task but the task itself, when it releases
\* or is stopped, and the end of the TTL.
OthersUntouched ==
  [][key' # key /\ key # Free =>
       \/ pc[key] = "releasing" /\ pc'[key] = "out"
       \/ ttl <= 1]_lockVars

\* "Precisely how the lock used to leak": with no fault but a late extension,
\* the key belongs to a task that is in the block or on its way out of it.
NothingLeaks ==
  (\A k \in FaultKinds \ {"late"} : faults[k] = 0) /\ key # Free =>
    pc[key] \in {"holding", "reaping", "releasing"}

\* "Protects against dead holders": the key of a task that is gone is free
\* again, and everyone who waits gets the lock or an answer.
Freed ==
  \A t \in Tasks :
    /\ (key = t /\ Outside(t)) ~> (key # t)
    /\ (pc[t] = "waiting") ~> (pc[t] # "waiting")
=============================================================================
