-------------------------------- MODULE Cache --------------------------------
(***************************************************************************)
(* Cache of cache/cached.py: one key of one namespace, read through        *)
(* get_or_set (or a function under @cached) by tasks of several processes, *)
(* while a writer changes the source and invalidates.  A task makes one    *)
(* call: "at" is its place in get_or_set, RedisLock's pc its place in      *)
(* redis_lock.  A value is the version of the source it was made from.     *)
(***************************************************************************)
EXTENDS RedisLock, FiniteSets

CONSTANTS
  Protect,          \* stampede_protection
  MaxWrites,        \* bound: how often the source changes
  Unserializable,   \* versions whose value the serializer refuses
  FactoryErrors,    \* what a factory may raise: "error", "redis", "busy"
  Absent, Poisoned  \* no entry; an entry that does not decode

Versions == 0..MaxWrites

ASSUME CacheAssumption ==
  /\ Protect \in BOOLEAN
  /\ MaxWrites \in Nat
  /\ Unserializable \subseteq Versions
  /\ FactoryErrors \subseteq {"error", "redis", "busy"}
  /\ Absent \notin Versions /\ Poisoned \notin Versions /\ Absent # Poisoned
  /\ AutoExtend = FALSE    \* get_or_set leaves auto_extend off

VARIABLES
  source,   \* the version the factory would read
  entry,    \* the entry in Redis
  dirty,    \* the source was written, the entry not invalidated yet
  at,       \* where each task is in get_or_set
  value,    \* the version it will return
  raised,   \* what it will raise instead ("": nothing)
  runs,     \* how often it has called its factory
  threw,    \* history: what the last of these runs raised ("": nothing)
  since,    \* history: the version last invalidated when it made its call
  past      \* history of the key, see Past

cacheVars ==
  <<source, entry, dirty, at, value, raised, runs, threw, since, past>>
allVars == <<lockVars, cacheVars>>

\* floor: the version at the last invalidation that worked; raced: a value was
\* under way to Redis at that moment; shared: a factory was called without the
\* lock's protection; again: a computed value was lost, or never came to be.
Past == [floor : Versions, raced : BOOLEAN, shared : BOOLEAN, again : BOOLEAN]

CacheInit ==
  /\ LockInit
  /\ source = 0 /\ dirty = FALSE
  /\ entry \in {Absent, Poisoned}
  /\ at = [t \in Tasks |-> "idle"]
  /\ value = [t \in Tasks |-> 0]
  /\ raised = [t \in Tasks |-> ""]
  /\ runs = [t \in Tasks |-> 0]
  /\ threw = [t \in Tasks |-> ""]
  /\ since = [t \in Tasks |-> 0]
  /\ past = [floor |-> 0, raced |-> FALSE, shared |-> ~Protect, again |-> FALSE]

At(t, l) == at' = [at EXCEPT ![t] = l]

Again == past' = [past EXCEPT !.again = TRUE]

\* The call is inside "async with redis_lock".
Inside(t) == pc[t] = "holding"

\* The call has a value, or an exception e: out, past the lock if it holds it.
Finish(t, v, e) ==
  /\ value' = [value EXCEPT ![t] = v]
  /\ raised' = [raised EXCEPT ![t] = e]
  /\ At(t, IF Inside(t) THEN "leave" ELSE IF e = "" THEN "done" ELSE "failed")

-----------------------------------------------------------------------------
Call(t) ==
  /\ at[t] = "idle"
  /\ At(t, "look")
  /\ since' = [since EXCEPT ![t] = past.floor]
  /\ UNCHANGED <<lockVars, source, entry, dirty, value, raised, runs, threw,
                 past>>

\* _lookup found nothing, or nothing that decodes.
Miss(t) == /\ At(t, IF at[t] = "look" /\ Protect THEN "lock" ELSE "compute")
           /\ UNCHANGED <<value, raised>>

\* _decode: what does not decode is a miss.
Found(t) == IF entry \in Versions THEN Finish(t, entry, "") ELSE Miss(t)

\* _lookup
Look(t) ==
  /\ at[t] \in {"look", "relook"}
  /\ Found(t)
  /\ UNCHANGED <<lockVars, source, entry, dirty, runs, threw, since, past>>

\* _lookup: RedisError is a miss.
LookFails(t) ==
  /\ at[t] \in {"look", "relook"}
  /\ SpendFault("outage")
  /\ Miss(t)
  /\ Again
  /\ UNCHANGED <<key, ttl, pc, waited, extender, source, entry, dirty, runs,
                 threw, since>>

\* Slip: no second look under the lock.
EnterBlind(t) == At(t, "compute")

\* Inside the lock: "the holder we queued behind has probably just filled it".
Enter(t) == At(t, "relook")

Locked(t) ==
  /\ at[t] = "lock"
  /\ Acquire(t)
  /\ Enter(t)
  /\ UNCHANGED <<source, entry, dirty, value, raised, runs, threw, since,
                 past>>

Wait(t) ==
  /\ at[t] = "lock"
  /\ Queue(t) \/ SetTwice(t)
  /\ UNCHANGED cacheVars

\* Slip: try again from the top.
WithoutLockAgain(t) == At(t, "look")

\* "Duplicated work beats a failed request."
WithoutLock(t) == At(t, "compute")

\* LockAcquireError or RedisError out of redis_lock: go on without it.
Unlocked(t) ==
  /\ at[t] = "lock"
  /\ GiveUp(t) \/ RedisFails(t)
  /\ WithoutLock(t)
  /\ past' = [past EXCEPT !.shared = TRUE]
  /\ UNCHANGED <<source, entry, dirty, value, raised, runs, threw, since>>

\* The factory reads the source; its value is on its way to be stored.
Factory(t) ==
  /\ at[t] = "compute"
  /\ runs' = [runs EXCEPT ![t] = @ + 1]
  /\ threw' = [threw EXCEPT ![t] = ""]
  /\ value' = [value EXCEPT ![t] = source]
  /\ At(t, "store")
  /\ UNCHANGED <<lockVars, source, entry, dirty, raised, since, past>>

FactoryRaises(t) ==
  /\ at[t] = "compute"
  /\ runs' = [runs EXCEPT ![t] = @ + 1]
  /\ \E e \in FactoryErrors :
       /\ Finish(t, 0, e)
       /\ threw' = [threw EXCEPT ![t] = e]
  /\ Again
  /\ UNCHANGED <<lockVars, source, entry, dirty, since>>

\* set: a value that does not serialize is not stored.
Store(t) ==
  /\ at[t] = "store"
  /\ IF value[t] \in Unserializable
     THEN entry' = entry /\ Again
     ELSE entry' = value[t] /\ past' = past
  /\ Finish(t, value[t], "")
  /\ UNCHANGED <<lockVars, source, dirty, runs, threw, since>>

\* Slip: set lets the RedisError of its command out.
StoreRaises(t) ==
  /\ at[t] = "store"
  /\ value[t] \notin Unserializable
  /\ SpendFault("outage")
  /\ entry' \in {entry, value[t]}
  /\ Finish(t, 0, "redis")
  /\ Again
  /\ UNCHANGED <<key, ttl, pc, waited, extender, source, dirty, runs, threw,
                 since>>

\* set: RedisError, for a command that may have been executed.
StoreFails(t) ==
  /\ at[t] = "store"
  /\ value[t] \notin Unserializable
  /\ SpendFault("outage")
  /\ entry' \in {entry, value[t]}
  /\ Finish(t, value[t], "")
  /\ Again
  /\ UNCHANGED <<key, ttl, pc, waited, extender, source, dirty, runs, threw,
                 since>>

\* A RedisError of the factory is told from one of the lock by "held"; a
\* LockAcquireError of the factory is not.
Recomputes(t) == raised[t] = "busy"

\* Out of "async with": stop the extension task, release, and go on.
Unlock(t) ==
  /\ at[t] = "leave"
  /\ \/ Leave(t) /\ UNCHANGED <<at, past>>
     \/ /\ Release(t) \/ (pc[t] = "releasing" /\ RedisFails(t))
        /\ At(t, IF Recomputes(t) THEN "compute"
                 ELSE IF raised[t] = "" THEN "done" ELSE "failed")
        /\ past' = [past EXCEPT !.shared = @ \/ Recomputes(t)]
  /\ UNCHANGED <<source, entry, dirty, value, raised, runs, threw, since>>

\* The task is cancelled in its block, and leaves it; or it is cancelled or its
\* process dies anywhere else.
Killed(t) ==
  /\ at[t] \notin {"idle", "done", "failed"}
  /\ \/ /\ SpendFault("stop")
        /\ Inside(t) \/ at[t] # "lock"
        /\ at[t] # "leave"
        /\ Finish(t, 0, "cancelled")
        /\ UNCHANGED <<key, ttl, pc, waited, extender>>
     \/ /\ Inside(t) \/ at[t] \in {"lock", "leave"}
        /\ Stop(t)
        /\ At(t, "failed")
        /\ value' = value
        /\ raised' = [raised EXCEPT ![t] = "cancelled"]
  /\ Again
  /\ UNCHANGED <<source, entry, dirty, runs, threw, since>>

-----------------------------------------------------------------------------
(* The writer, the clock and Redis. *)

Write ==
  /\ ~dirty /\ source < MaxWrites
  /\ source' = source + 1
  /\ dirty' = TRUE
  /\ UNCHANGED <<lockVars, entry, at, value, raised, runs, threw, since,
                 past>>

\* Slip: delete names another key.
ForgetOther == entry' = entry

\* What delete, clear and @cached's invalidate do to the entry.
Forget == entry' = Absent

\* delete, clear or invalidate after a write.
Invalidate ==
  /\ dirty
  /\ Forget
  /\ dirty' = FALSE
  /\ past' = [past EXCEPT
       !.floor = source, !.again = TRUE,
       !.raced = @ \/ \E t \in Tasks : at[t] = "store" /\ value[t] < source]
  /\ UNCHANGED <<lockVars, source, at, value, raised, runs, threw, since>>

\* delete: RedisError is only logged.
InvalidateFails ==
  /\ dirty
  /\ SpendFault("outage")
  /\ entry' \in {entry, Absent}
  /\ dirty' = FALSE
  /\ Again
  /\ UNCHANGED <<key, ttl, pc, waited, extender, source, at, value, raised,
                 runs, threw, since>>

EntryExpires ==
  /\ entry # Absent
  /\ entry' = Absent
  /\ Again
  /\ UNCHANGED <<lockVars, source, dirty, at, value, raised, runs, threw,
                 since>>

\* Time passes; the lock may lapse under a task that is in its block.
Time ==
  /\ Tick
  /\ past' = [past EXCEPT !.shared = @ \/
       (key # Free /\ key' = Free /\ at[key] \in {"relook", "compute", "store"})]
  /\ UNCHANGED <<source, entry, dirty, at, value, raised, runs, threw, since>>

Ended(t) == at[t] \in {"done", "failed"}

AllEnded == (\A t \in Tasks : Ended(t)) /\ UNCHANGED allVars

Work(t) ==
  \/ Look(t) \/ Locked(t) \/ Wait(t) \/ Unlocked(t)
  \/ Factory(t) \/ Store(t) \/ Unlock(t)

CacheNext ==
  \/ \E t \in Tasks : Call(t) \/ Work(t)
  \/ \E t \in Tasks :
       LookFails(t) \/ FactoryRaises(t) \/ StoreFails(t) \/ Killed(t)
  \/ Write \/ Invalidate \/ InvalidateFails \/ EntryExpires
  \/ Time
  \/ AllEnded

CacheSpec == CacheInit /\ [][CacheNext]_allVars

\* Tasks run, factories end, Redis answers and time passes.
FairCacheSpec ==
  /\ CacheSpec
  /\ \A t \in Tasks : WF_allVars(Work(t))
  /\ WF_allVars(Time)

-----------------------------------------------------------------------------
(* Properties. *)

CacheTypeOK ==
  /\ LockTypeOK
  /\ source \in Versions
  /\ entry \in Versions \cup {Absent, Poisoned}
  /\ dirty \in BOOLEAN
  /\ at \in [Tasks -> {"idle", "look", "lock", "relook", "compute", "store",
                       "leave", "done", "failed"}]
  /\ value \in [Tasks -> Versions]
  /\ raised \in [Tasks -> FactoryErrors \cup {"", "cancelled"}]
  /\ runs \in [Tasks -> Nat]
  /\ threw \in [Tasks -> FactoryErrors \cup {""}]
  /\ since \in [Tasks -> Versions]
  /\ past \in Past /\ past.floor <= source

\* "Only one caller computes a given key at a time", as long as no lock lapsed
\* under its holder, was given up or could not be reached.
OneComputes ==
  ~past.shared =>
    Cardinality({t \in Tasks : at[t] \in {"compute", "store"}}) <= 1

\* "The rest wait briefly and read the value it stored": while the locks hold
\* and no value is lost, the factory runs once for all callers together.
OneFillForAll ==
  ~past.shared /\ ~past.again =>
    Cardinality({t \in Tasks : runs[t] > 0}) <= 1

\* Callers that miss together cost one run of the factory.
OneFill == CacheTypeOK /\ OneComputes /\ OneFillForAll

\* "Retrying would run the factory a second time": a call computes once.
RunsOnce == \A t \in Tasks : runs[t] <= 1

\* "A cache that takes the application down is worse than no cache": a call
\* fails with what its factory raised, or because it was cancelled.  No failure
\* of a lookup, a store, the serializer or the lock reaches the caller, before
\* the factory ran or after.
CacheNeverFails ==
  \A t \in Tasks :
    at[t] = "failed" =>
      raised[t] = "cancelled" \/ (raised[t] # "" /\ raised[t] = threw[t])

\* A caller gets its value as if there were no cache, from one computation.
CallerServed == RunsOnce /\ CacheNeverFails

\* A call made after an invalidation is never served what was computed before
\* it, unless a value was on its way to Redis when the entry was deleted.
ServedFresh ==
  past.raced \/ \A t \in Tasks : at[t] = "done" => value[t] >= since[t]

\* Every call returns or raises, whoever holds the lock and whatever fails.
Answered == \A t \in Tasks : (at[t] # "idle") ~> Ended(t)
=============================================================================
