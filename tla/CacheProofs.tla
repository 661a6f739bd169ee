----------------------------- MODULE CacheProofs -----------------------------
(***************************************************************************)
(* Proofs about Cache and about the RedisLock that it contains.            *)
(*                                                                         *)
(* LInv is the inductive invariant of the lock: to the types it adds that  *)
(* an extension task lives only while its task is in the block or about to *)
(* reap it, and that the key it extends is its own and was reset no longer *)
(* ago than half of the TTL and the delay.                                 *)
(*                                                                         *)
(* KInv is that of the cache.  Beside the types it says what a step of     *)
(* get_or_set may rely on: who computes owns the lock key (Guarded), the   *)
(* factory's one value is stored or still on its way (Filled), a call that *)
(* raises has a reason (Excused), and what may still be served is as new   *)
(* as the last invalidation (Fresh).                                       *)
(***************************************************************************)
EXTENDS Cache, FiniteSetTheorems, TLAPS

-----------------------------------------------------------------------------
(* redis_lock. *)

\* An extension is executed before the TTL ends.
Prompt == MaxDelay < HalfTTL

ExtendersServe ==
  \A t \in Tasks :
    extender[t] # "off" => AutoExtend /\ pc[t] \in {"holding", "reaping"}

ExtendersOwn ==
  faults["late"] = 0 =>
    \A t \in Tasks :
      extender[t] = "on" => key = t /\ TTL <= ttl + HalfTTL + MaxDelay

LInv ==
  /\ LockTypeOK
  /\ ExtendersServe
  /\ Prompt => ExtendersOwn
  /\ NothingLeaks

-----------------------------------------------------------------------------
(* What a command does to a well-formed key. *)

KeyOK == /\ key \in Tasks \cup {Free}
         /\ ttl \in 0..TTL
         /\ key = Free <=> ttl = 0

LEMMA Commands ==
  ASSUME KeyOK, NEW t \in Tasks,
         SameKey \/ TakeKey(t) \/ DropKey(t) \/ ExtendKey(t)
  PROVE  KeyOK'
BY LockAssumption DEF KeyOK, TTL, SameKey, TakeKey, DropKey, ExtendKey

LEMMA TypedKey == LockTypeOK => KeyOK
BY DEF LockTypeOK, KeyOK

LEMMA TypedFaults ==
  ASSUME LockTypeOK, NEW k \in FaultKinds, SpendFault(k)
  PROVE  faults' \in [FaultKinds -> Nat] /\ faults'[k] # 0
BY DEF LockTypeOK, SpendFault

\* Faults are counted, never forgotten.
LEMMA FaultsGrow ==
  ASSUME LockTypeOK, [LockNext]_lockVars, NEW k \in FaultKinds, faults'[k] = 0
  PROVE  faults[k] = 0
BY DEF LockTypeOK, LockNext, Step, Acquire, Queue, GiveUp, Extend,
       ExtendTooLate, Leave, Reap, Release, SetTwice, RedisFails, Stop, Tick,
       AllOut, lockVars, SpendFault

LEMMA InitLInv == LockInit => LInv
BY LockAssumption
   DEF LockInit, LInv, LockTypeOK, TTL, ExtendersServe, ExtendersOwn,
       NothingLeaks

-----------------------------------------------------------------------------
LEMMA StepTypes == LockTypeOK /\ [LockNext]_lockVars => LockTypeOK'
<1> SUFFICES ASSUME LockTypeOK, [LockNext]_lockVars PROVE LockTypeOK'
  OBVIOUS
<1> USE LockAssumption
<1>k. KeyOK
  BY TypedKey
<1>1. ASSUME NEW t \in Tasks, Acquire(t) PROVE LockTypeOK'
  BY <1>1, <1>k, Commands DEF Acquire, LockTypeOK, KeyOK, Goto
<1>2. ASSUME NEW t \in Tasks, Queue(t) \/ GiveUp(t) \/ Leave(t)
      PROVE  LockTypeOK'
  BY <1>2 DEF Queue, GiveUp, Leave, LockTypeOK, Goto
<1>3. ASSUME NEW t \in Tasks, Extend(t) \/ ExtendTooLate(t)
      PROVE  LockTypeOK'
  BY <1>3, <1>k, Commands DEF Extend, ExtendTooLate, LockTypeOK, KeyOK
<1>4. ASSUME NEW t \in Tasks, Reap(t) \/ Release(t) PROVE LockTypeOK'
  BY <1>4, <1>k, Commands DEF Reap, Release, LockTypeOK, KeyOK, Goto
<1>5. ASSUME NEW t \in Tasks, SetTwice(t) PROVE LockTypeOK'
  <2>1. faults' \in [FaultKinds -> Nat]
    BY <1>5, TypedFaults DEF SetTwice, FaultKinds
  <2> QED
    BY <1>5, <1>k, <2>1, Commands DEF SetTwice, LockTypeOK, KeyOK, Goto
<1>6. ASSUME NEW t \in Tasks, RedisFails(t) PROVE LockTypeOK'
  <2>1. faults' \in [FaultKinds -> Nat]
    BY <1>6, TypedFaults DEF RedisFails, FaultKinds
  <2>2. KeyOK'
    BY <1>6, <1>k, Commands DEF RedisFails
  <2> QED BY <1>6, <2>1, <2>2 DEF RedisFails, LockTypeOK, KeyOK, Goto
<1>7. ASSUME NEW t \in Tasks, Stop(t) PROVE LockTypeOK'
  <2>1. faults' \in [FaultKinds -> Nat]
    BY <1>7, TypedFaults DEF Stop, FaultKinds
  <2>2. KeyOK'
    BY <1>7, <1>k, Commands DEF Stop
  <2> QED BY <1>7, <2>1, <2>2 DEF Stop, LockTypeOK, KeyOK, Goto
<1>8. CASE Tick
  <2>1. faults' \in [FaultKinds -> Nat]
    BY <1>8, TypedFaults DEF Tick, LockTypeOK, FaultKinds
  <2> QED BY <1>8, <2>1 DEF Tick, LockTypeOK, TTL
<1>9. CASE UNCHANGED lockVars
  BY <1>9 DEF lockVars, LockTypeOK
<1> QED
  BY <1>1, <1>2, <1>3, <1>4, <1>5, <1>6, <1>7, <1>8, <1>9
     DEF LockNext, Step, AllOut

LEMMA StepServe ==
  ASSUME LockTypeOK, ExtendersServe, [LockNext]_lockVars
  PROVE  ExtendersServe'
<1>0. ASSUME NEW t \in Tasks, Acquire(t) PROVE ExtendersServe'
  BY <1>0 DEF Acquire, Goto, LockTypeOK, ExtendersServe
<1>1. ASSUME NEW t \in Tasks, Queue(t) \/ GiveUp(t) \/ Leave(t)
      PROVE  ExtendersServe'
  BY <1>1 DEF Queue, GiveUp, Leave, Goto, LockTypeOK, ExtendersServe
<1>2. ASSUME NEW t \in Tasks,
             Extend(t) \/ ExtendTooLate(t) \/ Reap(t) \/ Release(t)
      PROVE  ExtendersServe'
  BY <1>2 DEF Extend, ExtendTooLate, Reap, Release, Goto, LockTypeOK,
              ExtendersServe
<1>3. ASSUME NEW t \in Tasks, SetTwice(t) \/ RedisFails(t) \/ Stop(t)
      PROVE  ExtendersServe'
  BY <1>3 DEF SetTwice, RedisFails, Stop, Attempts, Goto, LockTypeOK,
              ExtendersServe
<1>4. CASE Tick \/ UNCHANGED lockVars
  BY <1>4 DEF Tick, lockVars, ExtendersServe
<1> QED BY <1>0, <1>1, <1>2, <1>3, <1>4 DEF LockNext, Step, AllOut

\* Only Tick lets the TTL of an owner run, and not to its end.
LEMMA StepOwn ==
  ASSUME Prompt, LockTypeOK, ExtendersServe, ExtendersOwn,
         [LockNext]_lockVars
  PROVE  ExtendersOwn'
<1> USE LockAssumption
<1> SUFFICES ASSUME NEW s \in Tasks, extender'[s] = "on", faults'["late"] = 0
             PROVE  key' = s /\ TTL <= ttl' + HalfTTL + MaxDelay
  BY DEF ExtendersOwn, TTL
<1>0. faults["late"] = 0
  BY FaultsGrow DEF FaultKinds
<1>1. ASSUME NEW t \in Tasks, Acquire(t)
      PROVE  key' = s /\ TTL <= ttl' + HalfTTL + MaxDelay
  <2>1. CASE s = t
    BY <1>1, <2>1 DEF Acquire, TakeKey, TTL
  <2>2. CASE s # t
    BY <1>0, <1>1, <2>2 DEF Acquire, ExtendersOwn, LockTypeOK
  <2> QED BY <2>1, <2>2
<1>2. ASSUME extender[s] = "on", SameKey
      PROVE  key' = s /\ TTL <= ttl' + HalfTTL + MaxDelay
  BY <1>0, <1>2 DEF SameKey, ExtendersOwn
<1>3. ASSUME extender[s] = "on", NEW t \in Tasks, TakeKey(t) \/ ExtendKey(t)
      PROVE  key' = s /\ TTL <= ttl' + HalfTTL + MaxDelay
  BY <1>0, <1>3 DEF TakeKey, ExtendKey, ExtendersOwn, TTL
<1>4. ASSUME extender[s] = "on", NEW t \in Tasks, pc[t] = "releasing",
             DropKey(t)
      PROVE  key' = s /\ TTL <= ttl' + HalfTTL + MaxDelay
  BY <1>0, <1>4 DEF DropKey, ExtendersOwn, ExtendersServe
<1>5. CASE Tick
  <2>1. extender[s] = "on" /\ key = s
    BY <1>0, <1>5 DEF Tick, ExtendersOwn
  <2>2. TTL < ttl + HalfTTL + MaxDelay
    <3>1. ~ SpendFault("late")
      BY TypedFaults DEF FaultKinds
    <3> QED BY <1>5, <2>1, <3>1 DEF Tick, InTime
  <2>3. ttl \in Nat /\ ttl > 1
    BY <2>2 DEF Prompt, TTL, LockTypeOK
  <2> QED BY <1>5, <2>1, <2>2, <2>3 DEF Tick, TTL
<1>6. ASSUME NEW t \in Tasks,
             \/ Queue(t) \/ GiveUp(t) \/ Leave(t)
             \/ Extend(t) \/ ExtendTooLate(t) \/ Reap(t) \/ Release(t)
             \/ SetTwice(t) \/ RedisFails(t) \/ Stop(t)
      PROVE  /\ extender[s] = "on"
             /\ \/ SameKey \/ TakeKey(t) \/ ExtendKey(t)
                \/ pc[t] = "releasing" /\ DropKey(t)
  BY <1>6 DEF Queue, GiveUp, Leave, Extend, ExtendTooLate, Reap, Release,
              SetTwice, RedisFails, Stop, SameKey, LockTypeOK
<1>7. CASE UNCHANGED lockVars
  BY <1>7, <1>2 DEF lockVars, SameKey
<1> QED
  BY <1>1, <1>2, <1>3, <1>4, <1>5, <1>6, <1>7 DEF LockNext, Step, AllOut

LEMMA StepLeaks ==
  ASSUME LockTypeOK, NothingLeaks, [LockNext]_lockVars
  PROVE  NothingLeaks'
<1> USE LockAssumption
<1>1. ASSUME NEW t \in Tasks, SetTwice(t) \/ RedisFails(t) \/ Stop(t)
      PROVE  NothingLeaks'
  <2>1. \E k \in FaultKinds \ {"late"} : SpendFault(k)
    BY <1>1 DEF SetTwice, RedisFails, Stop, FaultKinds
  <2> QED BY <2>1, TypedFaults DEF NothingLeaks
<1>2. ASSUME NEW t \in Tasks, Step(t) \/ Leave(t) PROVE NothingLeaks'
  BY <1>2 DEF Step, Acquire, Queue, GiveUp, Extend, ExtendTooLate, Leave, Reap,
              Release, TakeKey, DropKey, ExtendKey, SameKey, Goto,
              NothingLeaks, LockTypeOK
<1>3. CASE Tick
  <2>1. \A k \in FaultKinds \ {"late"} : faults'[k] = 0 => faults[k] = 0
    BY FaultsGrow
  <2> QED BY <1>3, <2>1 DEF Tick, NothingLeaks
<1>4. CASE UNCHANGED lockVars
  BY <1>4 DEF lockVars, NothingLeaks
<1> QED BY <1>1, <1>2, <1>3, <1>4 DEF LockNext, AllOut

LEMMA StepLInv == LInv /\ [LockNext]_lockVars => LInv'
<1> SUFFICES ASSUME LInv, [LockNext]_lockVars PROVE LInv'
  OBVIOUS
<1>1. Prompt => Prompt'
  BY DEF Prompt
<1> QED BY <1>1, StepTypes, StepServe, StepOwn, StepLeaks DEF LInv, Prompt

\* No step breaks LInv.
THEOREM LockInductive == LockSpec => []LInv
BY InitLInv, StepLInv, PTL DEF LockSpec

-----------------------------------------------------------------------------
\* Every variable of the lock keeps its type, the key has an owner exactly as
\* long as it has a TTL, and nobody waits for longer than blocking_timeout.
THEOREM LockTypeCorrect == LockSpec => []LockTypeOK
BY LockInductive, PTL DEF LInv

\* If extensions are in time, and delayed by less than half of the TTL,
\* redis_lock with auto_extend holds its key for the whole block, whatever else
\* fails.
THEOREM LockIsHeld == ASSUME Prompt PROVE LockSpec => []LockHeld
<1>1. LInv => LockHeld
  BY DEF LInv, ExtendersOwn, LockHeld
<1> QED BY <1>1, LockInductive, PTL

\* Without failures other than lateness, redis_lock leaves no key behind.
THEOREM NoLeak == LockSpec => []NothingLeaks
BY LockInductive, PTL DEF LInv

\* What may happen to a key that somebody has.
Untouched ==
  key' # key /\ key # Free =>
    \/ pc[key] = "releasing" /\ pc'[key] = "out"
    \/ ttl <= 1

LEMMA StepUntouched == LInv /\ [LockNext]_lockVars => [Untouched]_lockVars
BY LockAssumption
   DEF LInv, LockTypeOK, LockNext, Step, Acquire, Queue, GiveUp, Extend,
       ExtendTooLate, Leave, Reap, Release, SetTwice, RedisFails, Stop, Tick,
       AllOut, TakeKey, DropKey, ExtendKey, SameKey, lockVars, Goto, Untouched

\* The token keeps a task's key from every other task, whatever fails.
THEOREM TokensProtect == LockSpec => OthersUntouched
BY StepUntouched, LockInductive, PTL DEF OthersUntouched, LockSpec, Untouched

-----------------------------------------------------------------------------
(* get_or_set. *)

Places == {"idle", "look", "lock", "relook", "compute", "store", "leave",
           "done", "failed"}

\* Past the second look, and so under the lock, if there is one.
Computing == {"relook", "compute", "store"}

\* Until somebody goes on without the lock, who computes owns its key.
Guarded ==
  ~past.shared =>
    Protect /\ \A t \in Tasks : at[t] \in Computing => key = t

\* Until a value is lost, the one that was computed is in Redis or on its way,
\* and nobody computes another.
Filled ==
  ~past.shared /\ ~past.again =>
    /\ \A t \in Tasks : at[t] = "compute" => entry \notin Versions
    /\ \A t \in Tasks : runs[t] > 0 => at[t] = "store" \/ entry \in Versions
    /\ \A t, u \in Tasks : runs[t] > 0 /\ runs[u] > 0 => t = u

\* Who raises was cancelled, or raises what its factory raised.
Excused ==
  \A t \in Tasks :
    /\ at[t] = "failed" => raised[t] # ""
    /\ at[t] \in {"leave", "failed"} /\ raised[t] # "" =>
         raised[t] = "cancelled" \/ raised[t] = threw[t]

\* No factory raises LockAcquireError, the one exception get_or_set cannot
\* tell from its own lock's.
NotBusy == "busy" \notin FactoryErrors

\* The factory has not been called before it is reached, nor twice.
Once ==
  \A t \in Tasks :
    /\ at[t] \in {"idle", "look", "lock", "relook", "compute"} => runs[t] = 0
    /\ runs[t] <= 1

\* No value that is stored, on its way or about to be served is older than it
\* may be.
NoneStale ==
  /\ entry \in Versions => entry >= past.floor
  /\ \A t \in Tasks : at[t] = "store" => value[t] >= past.floor
  /\ \A t \in Tasks :
       at[t] = "done" \/ (at[t] = "leave" /\ raised[t] = "") =>
         value[t] >= since[t]

Fresh == /\ \A t \in Tasks : since[t] <= past.floor
         /\ ~past.raced => NoneStale

KInv == CacheTypeOK /\ Guarded /\ Filled /\ Excused /\ Fresh

-----------------------------------------------------------------------------
(* What the steps have in common. *)

\* What a call does.
Moves(t) ==
  \/ Call(t) \/ Work(t)
  \/ LookFails(t) \/ FactoryRaises(t) \/ StoreFails(t) \/ Killed(t)

\* What happens beside the calls.
Around == Write \/ Invalidate \/ InvalidateFails \/ EntryExpires \/ Time

LEMMA CacheCases ==
  ASSUME [CacheNext]_allVars
  PROVE  (\E t \in Tasks : Moves(t)) \/ Around \/ UNCHANGED allVars
BY DEF CacheNext, Moves, Around, AllEnded

\* A fault of the cache: one more is counted, and the lock is left alone.
Counts(k) == SpendFault(k) /\ UNCHANGED <<key, ttl, pc, waited, extender>>

\* The lock takes one of its own steps, or a fault is counted.
LEMMA LockMoves ==
  ASSUME [CacheNext]_allVars
  PROVE  [LockNext]_lockVars \/ \E k \in FaultKinds : Counts(k)
<1> DEFINE P == [LockNext]_lockVars \/ \E k \in FaultKinds : Counts(k)
<1>1. ASSUME [LockNext]_lockVars PROVE P
  BY <1>1
<1>2. ASSUME NEW k \in FaultKinds, SpendFault(k),
             UNCHANGED <<key, ttl, pc, waited, extender>>
      PROVE  P
  BY <1>2 DEF Counts
<1> SUFFICES P
  OBVIOUS
<1> HIDE DEF P
<1>3. ASSUME NEW t \in Tasks, Moves(t) PROVE P
  <2>1. CASE Call(t) \/ Look(t) \/ Factory(t) \/ FactoryRaises(t) \/ Store(t)
    BY <1>1, <2>1 DEF Call, Look, Factory, FactoryRaises, Store
  <2>2. CASE Locked(t)
    BY <1>1, <2>2 DEF Locked, LockNext, Step
  <2>3. CASE Wait(t)
    BY <1>1, <2>3 DEF Wait, LockNext, Step
  <2>4. CASE Unlocked(t)
    BY <1>1, <2>4 DEF Unlocked, LockNext, Step
  <2>5. CASE Unlock(t)
    BY <1>1, <2>5 DEF Unlock, LockNext, Step
  <2>6. CASE LookFails(t) \/ StoreFails(t)
    BY <1>2, <2>6 DEF LookFails, StoreFails, FaultKinds
  <2>7. CASE Killed(t)
    <3>1. \/ SpendFault("stop") /\ UNCHANGED <<key, ttl, pc, waited, extender>>
          \/ Stop(t)
      BY <2>7 DEF Killed
    <3> QED BY <1>1, <1>2, <3>1 DEF FaultKinds, LockNext
  <2> QED
    BY <1>3, <2>1, <2>2, <2>3, <2>4, <2>5, <2>6, <2>7 DEF Moves, Work
<1>4. CASE Write \/ Invalidate \/ EntryExpires
  BY <1>1, <1>4 DEF Write, Invalidate, EntryExpires
<1>5. CASE InvalidateFails
  BY <1>2, <1>5 DEF InvalidateFails, FaultKinds
<1>6. CASE Time
  BY <1>1, <1>6 DEF Time, LockNext
<1>7. CASE UNCHANGED allVars
  BY <1>1, <1>7 DEF allVars
<1> QED BY <1>3, <1>4, <1>5, <1>6, <1>7, CacheCases DEF Around

\* So the lock keeps its own invariant when get_or_set takes it.
LEMMA StepLockInv ==
  ASSUME LInv, [CacheNext]_allVars
  PROVE  LInv'
<1>1. ASSUME NEW k \in FaultKinds, Counts(k) PROVE LInv'
  <2>1. LockTypeOK
    BY DEF LInv
  <2>2. faults' \in [FaultKinds -> Nat]
    BY <1>1, <2>1, TypedFaults DEF Counts
  <2>3. \A j \in FaultKinds : faults'[j] = 0 => faults[j] = 0
    BY <1>1, <2>1 DEF Counts, SpendFault, LockTypeOK
  <2>4. LockTypeOK' /\ ExtendersServe'
    BY <1>1, <2>2 DEF Counts, LInv, LockTypeOK, ExtendersServe
  <2>5. Prompt => ExtendersOwn'
    BY <1>1, <2>3 DEF Counts, LInv, ExtendersOwn, FaultKinds
  <2>6. NothingLeaks'
    BY <1>1, <2>3 DEF Counts, LInv, NothingLeaks
  <2> QED BY <2>4, <2>5, <2>6 DEF LInv, Prompt
<1> QED BY <1>1, LockMoves, StepLInv

LEMMA StepLockTypes ==
  ASSUME CacheTypeOK, [CacheNext]_allVars
  PROVE  LockTypeOK'
<1>1. LockTypeOK
  BY DEF CacheTypeOK
<1>2. ASSUME NEW k \in FaultKinds, Counts(k) PROVE LockTypeOK'
  <2>1. faults' \in [FaultKinds -> Nat]
    BY <1>1, <1>2, TypedFaults DEF Counts
  <2> QED BY <1>1, <1>2, <2>1 DEF LockTypeOK, Counts
<1> QED BY <1>1, <1>2, LockMoves, StepTypes

-----------------------------------------------------------------------------
(* Types. *)

\* What CacheTypeOK says beside the lock.
Typed ==
  /\ source \in Versions
  /\ entry \in Versions \cup {Absent, Poisoned}
  /\ dirty \in BOOLEAN
  /\ at \in [Tasks -> Places]
  /\ value \in [Tasks -> Versions]
  /\ raised \in [Tasks -> FactoryErrors \cup {"", "cancelled"}]
  /\ runs \in [Tasks -> Nat]
  /\ threw \in [Tasks -> FactoryErrors \cup {""}]
  /\ since \in [Tasks -> Versions]
  /\ past \in Past /\ past.floor <= source

LEMMA TypedCache == CacheTypeOK <=> LockTypeOK /\ Typed
BY DEF CacheTypeOK, Typed, Places

\* What is noted of the past but for an invalidation.
LEMMA PastNoted ==
  ASSUME Typed, NEW b \in BOOLEAN, UNCHANGED source,
         \/ past' = past \/ Again \/ past' = [past EXCEPT !.shared = @ \/ b]
  PROVE  past' \in Past /\ past'.floor <= source'
<1>1. past \in Past /\ past.floor <= source
  BY DEF Typed
<1>2. past' \in Past /\ past'.floor = past.floor
  BY <1>1 DEF Past, Again
<1> QED BY <1>1, <1>2

\* A call ends with a value, or with an exception.
LEMMA TypedFinish ==
  ASSUME Typed, NEW t \in Tasks, NEW v \in Versions,
         NEW e \in FactoryErrors \cup {"", "cancelled"}, Finish(t, v, e)
  PROVE  /\ at' \in [Tasks -> Places]
         /\ value' \in [Tasks -> Versions]
         /\ raised' \in [Tasks -> FactoryErrors \cup {"", "cancelled"}]
BY DEF Typed, Finish, At, Places

LEMMA TypedMiss ==
  ASSUME Typed, NEW t \in Tasks, Miss(t)
  PROVE  /\ at' \in [Tasks -> Places]
         /\ value' \in [Tasks -> Versions]
         /\ raised' \in [Tasks -> FactoryErrors \cup {"", "cancelled"}]
BY DEF Typed, Miss, At, Places

LEMMA TypedRun ==
  ASSUME Typed, NEW t \in Tasks, runs' = [runs EXCEPT ![t] = @ + 1]
  PROVE  /\ runs' \in [Tasks -> Nat]
         /\ runs'[t] = runs[t] + 1 /\ runs'[t] > 0
<1>1. runs \in [Tasks -> Nat]
  BY DEF Typed
<1> QED BY <1>1

LEMMA MoveTypes ==
  ASSUME Typed, NEW t \in Tasks, Moves(t)
  PROVE  Typed'
<1> USE CacheAssumption
<1>a. 0 \in Versions
  BY DEF Versions
<1>1. CASE Call(t)
  BY <1>1 DEF Call, At, Typed, Places, Past
<1>2. CASE Look(t)
  <2>1. /\ at' \in [Tasks -> Places]
        /\ value' \in [Tasks -> Versions]
        /\ raised' \in [Tasks -> FactoryErrors \cup {"", "cancelled"}]
    BY <1>2, TypedMiss, TypedFinish DEF Look, Found
  <2>2. UNCHANGED source /\ UNCHANGED entry /\ UNCHANGED dirty
        /\ UNCHANGED runs /\ UNCHANGED threw /\ UNCHANGED since /\ UNCHANGED past
    BY <1>2 DEF Look
  <2> QED BY <2>1, <2>2 DEF Typed
<1>3. CASE LookFails(t)
  <2>1. /\ at' \in [Tasks -> Places]
        /\ value' \in [Tasks -> Versions]
        /\ raised' \in [Tasks -> FactoryErrors \cup {"", "cancelled"}]
    BY <1>3, TypedMiss DEF LookFails
  <2>2. UNCHANGED source /\ UNCHANGED entry /\ UNCHANGED dirty
        /\ UNCHANGED runs /\ UNCHANGED threw /\ UNCHANGED since
    BY <1>3 DEF LookFails
  <2>3. past' \in Past /\ past'.floor <= source'
    BY <1>3, <2>2, PastNoted DEF LookFails
  <2> QED BY <2>1, <2>2, <2>3 DEF Typed
<1>4. CASE Locked(t) \/ Wait(t)
  BY <1>4 DEF Locked, Enter, Wait, cacheVars, At, Typed, Places
<1>5. CASE Unlocked(t)
  BY <1>5 DEF Unlocked, WithoutLock, At, Typed, Places, Past
<1>6. CASE Factory(t)
  <2>1. /\ at' \in [Tasks -> Places]
        /\ value' \in [Tasks -> Versions]
    BY <1>6 DEF Factory, At, Typed, Places
  <2>2. UNCHANGED source /\ UNCHANGED entry /\ UNCHANGED dirty
        /\ UNCHANGED raised /\ UNCHANGED since /\ UNCHANGED past
    BY <1>6 DEF Factory
  <2>3. runs' \in [Tasks -> Nat]
        /\ threw' \in [Tasks -> FactoryErrors \cup {""}]
    BY <1>6, TypedRun DEF Factory, Typed
  <2> QED BY <2>1, <2>2, <2>3 DEF Typed
<1>7. CASE FactoryRaises(t)
  <2>1. /\ at' \in [Tasks -> Places]
        /\ value' \in [Tasks -> Versions]
        /\ raised' \in [Tasks -> FactoryErrors \cup {"", "cancelled"}]
    BY <1>7, <1>a, TypedFinish DEF FactoryRaises
  <2>2. UNCHANGED source /\ UNCHANGED entry /\ UNCHANGED dirty
        /\ UNCHANGED since
    BY <1>7 DEF FactoryRaises
  <2>4. runs' \in [Tasks -> Nat]
        /\ threw' \in [Tasks -> FactoryErrors \cup {""}]
    <3>1. PICK x \in FactoryErrors : threw' = [threw EXCEPT ![t] = x]
      BY <1>7 DEF FactoryRaises
    <3>2. threw \in [Tasks -> FactoryErrors \cup {""}]
      BY DEF Typed
    <3>3. threw' \in [Tasks -> FactoryErrors \cup {""}]
      BY <3>1, <3>2
    <3>4. runs' \in [Tasks -> Nat]
      BY <1>7, TypedRun DEF FactoryRaises
    <3> QED BY <3>3, <3>4
  <2>3. past' \in Past /\ past'.floor <= source'
    BY <1>7, <2>2, PastNoted DEF FactoryRaises
  <2> QED BY <2>1, <2>2, <2>3, <2>4 DEF Typed
<1>8. CASE Store(t) \/ StoreFails(t)
  <2>1. value[t] \in Versions
    BY DEF Typed
  <2>2. /\ at' \in [Tasks -> Places]
        /\ value' \in [Tasks -> Versions]
        /\ raised' \in [Tasks -> FactoryErrors \cup {"", "cancelled"}]
    BY <1>8, <2>1, TypedFinish DEF Store, StoreFails
  <2>3. UNCHANGED source /\ UNCHANGED dirty
        /\ UNCHANGED since /\ UNCHANGED runs /\ UNCHANGED threw
    BY <1>8 DEF Store, StoreFails
  <2>4. entry' \in {entry, value[t]}
    BY <1>8 DEF Store, StoreFails
  <2>5. past' \in Past /\ past'.floor <= source'
    BY <1>8, <2>3, PastNoted DEF Store, StoreFails
  <2> QED BY <2>1, <2>2, <2>3, <2>4, <2>5 DEF Typed
<1>9. CASE Unlock(t)
  <2>1. at' \in [Tasks -> Places]
    BY <1>9 DEF Unlock, At, Typed, Places
  <2>2. UNCHANGED source /\ UNCHANGED entry /\ UNCHANGED dirty
        /\ UNCHANGED value /\ UNCHANGED raised
        /\ UNCHANGED since /\ UNCHANGED runs /\ UNCHANGED threw
    BY <1>9 DEF Unlock
  <2>3. past' \in Past /\ past'.floor <= source'
    BY <1>9, <2>2, PastNoted DEF Unlock, Recomputes
  <2> QED BY <2>1, <2>2, <2>3 DEF Typed
<1>10. CASE Killed(t)
  <2>1. /\ at' \in [Tasks -> Places]
        /\ value' \in [Tasks -> Versions]
        /\ raised' \in [Tasks -> FactoryErrors \cup {"", "cancelled"}]
    BY <1>10, <1>a, TypedFinish DEF Killed, At, Typed, Places
  <2>2. UNCHANGED source /\ UNCHANGED entry /\ UNCHANGED dirty
        /\ UNCHANGED since /\ UNCHANGED runs /\ UNCHANGED threw
    BY <1>10 DEF Killed
  <2>3. past' \in Past /\ past'.floor <= source'
    BY <1>10, <2>2, PastNoted DEF Killed
  <2> QED BY <2>1, <2>2, <2>3 DEF Typed
<1> QED
  BY <1>1, <1>2, <1>3, <1>4, <1>5, <1>6, <1>7, <1>8, <1>9, <1>10
     DEF Moves, Work

LEMMA AroundTypes ==
  ASSUME Typed, Around
  PROVE  Typed'
<1> USE CacheAssumption
<1>1. CASE Write
  <2>1. source' \in Versions /\ past.floor <= source'
    <3>1. source \in Versions /\ past.floor \in Versions
          /\ past.floor <= source
      BY DEF Typed, Past
    <3>2. source < MaxWrites /\ source' = source + 1
      BY <1>1 DEF Write
    <3> QED BY <3>1, <3>2 DEF Versions
  <2>2. UNCHANGED entry /\ UNCHANGED at /\ UNCHANGED value
        /\ UNCHANGED raised /\ UNCHANGED runs /\ UNCHANGED threw /\ UNCHANGED since
        /\ UNCHANGED past /\ dirty' = TRUE
    BY <1>1 DEF Write
  <2> QED BY <2>1, <2>2 DEF Typed
<1>2. CASE Invalidate
  <2>1. past' \in Past /\ past'.floor <= source'
    <3>1. source' = source /\ source \in Versions /\ past \in Past
      BY <1>2 DEF Invalidate, Typed
    <3>2. PICK b \in BOOLEAN :
            past' = [past EXCEPT !.floor = source, !.again = TRUE, !.raced = b]
      BY <1>2, <3>1 DEF Invalidate, Past
    <3>3. past'.floor = source /\ past' \in Past
      BY <3>1, <3>2 DEF Past
    <3> QED BY <3>1, <3>3 DEF Versions
  <2>2. UNCHANGED source /\ UNCHANGED at /\ UNCHANGED value
        /\ UNCHANGED raised /\ UNCHANGED runs /\ UNCHANGED threw /\ UNCHANGED since
        /\ dirty' = FALSE /\ entry' = Absent
    BY <1>2 DEF Invalidate, Forget
  <2> QED BY <2>1, <2>2 DEF Typed
<1>3. CASE InvalidateFails \/ EntryExpires
  <2>1. past' \in Past /\ past'.floor <= source'
    BY <1>3, PastNoted DEF InvalidateFails, EntryExpires
  <2> QED BY <1>3, <2>1 DEF InvalidateFails, EntryExpires, Typed
<1>4. CASE Time
  <2>1. past' \in Past /\ past'.floor <= source'
    BY <1>4, PastNoted DEF Time
  <2> QED BY <1>4, <2>1 DEF Time, Typed
<1> QED BY <1>1, <1>2, <1>3, <1>4 DEF Around

LEMMA CacheStepTypes ==
  ASSUME CacheTypeOK, [CacheNext]_allVars
  PROVE  CacheTypeOK'
<1>1. LockTypeOK'
  BY StepLockTypes
<1>2. Typed
  BY TypedCache
<1>3. ASSUME UNCHANGED allVars PROVE Typed'
  <2>1. UNCHANGED source /\ UNCHANGED entry /\ UNCHANGED dirty
        /\ UNCHANGED at /\ UNCHANGED value /\ UNCHANGED raised
        /\ UNCHANGED runs /\ UNCHANGED threw /\ UNCHANGED since /\ UNCHANGED past
    BY <1>3 DEF allVars, cacheVars
  <2> QED BY <1>2, <2>1 DEF Typed
<1>4. Typed'
  BY <1>2, <1>3, CacheCases, MoveTypes, AroundTypes
<1> QED BY <1>1, <1>4 DEF CacheTypeOK, Typed, Places

-----------------------------------------------------------------------------
(* The lock. *)

\* A call that moves leaves the others where they are.
LEMMA OneMoves ==
  ASSUME Typed, NEW t \in Tasks, Moves(t), NEW u \in Tasks, u # t
  PROVE  /\ at'[u] = at[u] /\ value'[u] = value[u] /\ raised'[u] = raised[u]
         /\ runs'[u] = runs[u] /\ threw'[u] = threw[u]
         /\ since'[u] = since[u]
<1> USE DEF At, Typed
<1>1. CASE Call(t) \/ Look(t) \/ LookFails(t)
  BY <1>1 DEF Call, Look, LookFails, Found, Finish, Miss
<1>2. CASE Locked(t) \/ Wait(t) \/ Unlocked(t)
  BY <1>2 DEF Locked, Enter, Wait, cacheVars, Unlocked, WithoutLock
<1>3. CASE Factory(t)
  BY <1>3 DEF Factory
<1>4. CASE FactoryRaises(t)
  BY <1>4 DEF FactoryRaises, Finish
<1>5. CASE Store(t) \/ StoreFails(t)
  BY <1>5 DEF Store, StoreFails, Finish
<1>6. CASE Unlock(t)
  BY <1>6 DEF Unlock
<1>7. CASE Killed(t)
  BY <1>7 DEF Killed, Finish
<1> QED BY <1>1, <1>2, <1>3, <1>4, <1>5, <1>6, <1>7 DEF Moves, Work

\* Nobody takes the key from the task that owns it, but time.
LEMMA KeyIsKept ==
  ASSUME NEW t \in Tasks, Moves(t), key \in Tasks, key # t
  PROVE  key' = key
<1> USE LockAssumption
<1>1. CASE Call(t) \/ Look(t) \/ LookFails(t) \/ Factory(t) \/ FactoryRaises(t)
           \/ Store(t) \/ StoreFails(t)
  BY <1>1 DEF Call, Look, LookFails, Factory, FactoryRaises, Store, StoreFails,
              lockVars
<1>2. ASSUME RedisFails(t) PROVE key' = key
  BY <1>2 DEF RedisFails, SameKey, TakeKey, ExtendKey, DropKey
<1>3. ASSUME Acquire(t) \/ Queue(t) \/ SetTwice(t) \/ GiveUp(t) PROVE key' = key
  BY <1>3 DEF Acquire, Queue, SetTwice, GiveUp, TakeKey
<1>4. CASE Locked(t) \/ Wait(t) \/ Unlocked(t)
  BY <1>2, <1>3, <1>4 DEF Locked, Wait, Unlocked
<1>5. ASSUME Leave(t) \/ Release(t) PROVE key' = key
  BY <1>5 DEF Leave, Release, DropKey
<1>6. CASE Unlock(t)
  BY <1>2, <1>5, <1>6 DEF Unlock
<1>7. ASSUME Stop(t) PROVE key' = key
  BY <1>7 DEF Stop, SameKey, TakeKey, DropKey
<1>8. CASE Killed(t)
  BY <1>7, <1>8 DEF Killed
<1> QED BY <1>1, <1>4, <1>6, <1>8 DEF Moves, Work

\* Who goes on without the lock says so.
LEMMA SharedStays ==
  ASSUME Typed, [CacheNext]_allVars, past.shared
  PROVE  past'.shared
<1>1. ASSUME NEW t \in Tasks, Moves(t) PROVE past'.shared
  BY <1>1 DEF Moves, Work, Call, Look, LookFails, Locked, Wait, Unlocked,
              Factory, FactoryRaises, Store, StoreFails, Unlock, Killed, Again,
              Typed, Past, cacheVars
<1>2. CASE Around
  BY <1>2 DEF Around, Write, Invalidate, InvalidateFails, EntryExpires, Time,
              Again, Typed, Past
<1>3. CASE UNCHANGED allVars
  BY <1>3 DEF allVars, cacheVars
<1> QED BY <1>1, <1>2, <1>3, CacheCases

\* A call comes to compute from its second look, or with the key, while the lock
\* protects it.
LEMMA Comes ==
  ASSUME Typed, NEW t \in Tasks, Moves(t), ~past'.shared, Protect,
         at'[t] \in Computing
  PROVE  \/ at[t] \in Computing /\ key' = key
         \/ key = Free /\ key' = t
<1> USE CacheAssumption DEF At, Computing, Places
<1>a. at \in [Tasks -> Places]
  BY DEF Typed
<1>1. CASE Call(t)
  BY <1>1, <1>a DEF Call
<1>2. CASE Look(t) \/ LookFails(t)
  BY <1>2, <1>a DEF Look, LookFails, Found, Finish, Miss, lockVars
<1>3. CASE Locked(t)
  BY <1>3, <1>a DEF Locked, Acquire, TakeKey
<1>4. CASE Wait(t)
  BY <1>4, <1>a DEF Wait, cacheVars
<1>5. CASE Unlocked(t)
  BY <1>5 DEF Unlocked, Typed, Past
<1>6. CASE Factory(t)
  BY <1>6, <1>a DEF Factory, lockVars
<1>7. CASE FactoryRaises(t) \/ Store(t) \/ StoreFails(t)
  BY <1>7, <1>a DEF FactoryRaises, Store, StoreFails, Finish
<1>8. CASE Unlock(t)
  BY <1>8, <1>a DEF Unlock, Typed, Past
<1>9. CASE Killed(t)
  BY <1>9, <1>a DEF Killed, Finish
<1> QED
  BY <1>1, <1>2, <1>3, <1>4, <1>5, <1>6, <1>7, <1>8, <1>9 DEF Moves, Work

LEMMA StepGuarded ==
  ASSUME CacheTypeOK, Guarded, [CacheNext]_allVars
  PROVE  Guarded'
<1> USE LockAssumption
<1>a. Typed /\ LockTypeOK
  BY TypedCache
<1> SUFFICES ASSUME ~past'.shared
             PROVE  Protect /\ \A u \in Tasks : at'[u] \in Computing => key' = u
  BY DEF Guarded
<1>b. ~past.shared
  BY <1>a, SharedStays
<1>c. Protect /\ \A u \in Tasks : at[u] \in Computing => key = u
  BY <1>b DEF Guarded
<1> SUFFICES ASSUME NEW u \in Tasks, at'[u] \in Computing PROVE key' = u
  BY <1>c
<1>1. ASSUME NEW t \in Tasks, Moves(t) PROVE key' = u
  <2>1. CASE u = t
    BY <1>a, <1>c, <1>1, <2>1, Comes
  <2>2. CASE u # t
    BY <1>a, <1>c, <1>1, <2>2, OneMoves, KeyIsKept
  <2> QED BY <2>1, <2>2
<1>2. CASE Write \/ Invalidate \/ InvalidateFails \/ EntryExpires
  BY <1>2, <1>c
     DEF Write, Invalidate, InvalidateFails, EntryExpires, lockVars
<1>3. CASE Time
  <2>1. at' = at /\ key = u
    BY <1>3, <1>c DEF Time
  <2>2. key' \in {key, Free}
    BY <1>3 DEF Time, Tick
  <2>3. at[key] \in Computing
    BY <2>1
  <2> QED BY <1>3, <1>a, <2>1, <2>2, <2>3 DEF Time, Computing, Typed, Past
<1>4. CASE UNCHANGED allVars
  BY <1>4, <1>c DEF allVars, lockVars, cacheVars
<1> QED BY <1>1, <1>2, <1>3, <1>4, CacheCases DEF Around

-----------------------------------------------------------------------------
(* The factory. *)

\* What makes a second run of the factory right is noted.
LEMMA AgainStays ==
  ASSUME Typed, [CacheNext]_allVars, past.again
  PROVE  past'.again
<1>1. ASSUME NEW t \in Tasks, Moves(t) PROVE past'.again
  BY <1>1 DEF Moves, Work, Call, Look, LookFails, Locked, Wait, Unlocked,
              Factory, FactoryRaises, Store, StoreFails, Unlock, Killed, Again,
              Typed, Past, cacheVars
<1>2. CASE Around
  BY <1>2 DEF Around, Write, Invalidate, InvalidateFails, EntryExpires, Time,
              Again, Typed, Past
<1>3. CASE UNCHANGED allVars
  BY <1>3 DEF allVars, cacheVars
<1> QED BY <1>1, <1>2, <1>3, CacheCases

LEMMA AgainNoted ==
  ASSUME Typed, Again
  PROVE  past'.again
BY DEF Typed, Past, Again

\* While nothing goes wrong, the entry and the number of runs change only when a
\* value is stored and when the factory is called.
LEMMA QuietMoves ==
  ASSUME Typed, NEW t \in Tasks, Moves(t), ~past'.shared, ~past'.again
  PROVE  \/ Factory(t)
         \/ /\ at[t] = "store" /\ at'[t] \in {"leave", "done"}
            /\ entry' = value[t] /\ runs' = runs
         \/ /\ at[t] # "store"
            /\ at'[t] = "compute" => entry \notin Versions
            /\ entry' = entry /\ runs' = runs
<1> USE DEF At, Places
<1>a. at \in [Tasks -> Places]
  BY DEF Typed
<1>b. ~Again
  BY AgainNoted
<1>1. CASE Call(t)
  BY <1>1, <1>a DEF Call
<1>2. CASE Look(t)
  BY <1>2, <1>a DEF Look, Found, Finish, Miss
<1>3. CASE Locked(t)
  BY <1>3, <1>a DEF Locked, Enter
<1>4. CASE Wait(t)
  BY <1>4, <1>a DEF Wait, cacheVars
<1>5. CASE Unlocked(t)
  BY <1>5 DEF Unlocked, Typed, Past
<1>6. CASE Store(t)
  BY <1>6, <1>a, <1>b DEF Store, Finish
<1>7. CASE Unlock(t)
  <2>1. CASE Leave(t) /\ UNCHANGED <<at, past>>
    BY <1>7, <2>1 DEF Unlock
  <2>2. CASE At(t, IF Recomputes(t) THEN "compute"
                   ELSE IF raised[t] = "" THEN "done" ELSE "failed")
             /\ past' = [past EXCEPT !.shared = @ \/ Recomputes(t)]
    <3>1. ~Recomputes(t)
      BY <2>2 DEF Typed, Past
    <3> QED BY <1>7, <1>a, <2>2, <3>1 DEF Unlock
  <2> QED BY <1>7, <2>1, <2>2 DEF Unlock
<1>8. CASE LookFails(t) \/ FactoryRaises(t) \/ StoreFails(t) \/ Killed(t)
  BY <1>8, <1>b DEF LookFails, FactoryRaises, StoreFails, Killed
<1> QED
  BY <1>1, <1>2, <1>3, <1>4, <1>5, <1>6, <1>7, <1>8 DEF Moves, Work

\* The first to compute is the only one.
LEMMA FirstRun ==
  ASSUME Typed, Guarded, Filled, ~past.shared, ~past.again,
         NEW t \in Tasks, at[t] = "compute", NEW u \in Tasks
  PROVE  runs[u] = 0 /\ (u # t => at[u] # "compute")
<1>1. entry \notin Versions
  BY DEF Filled
<1>2. key = t
  BY DEF Guarded, Computing
<1>3. at[u] \in {"compute", "store"} => u = t
  BY <1>2 DEF Guarded, Computing
<1>4. ~(runs[u] > 0)
  BY <1>1, <1>3 DEF Filled
<1>5. runs[u] \in Nat
  BY DEF Typed
<1> QED BY <1>3, <1>4, <1>5

LEMMA StepFilled ==
  ASSUME CacheTypeOK, Guarded, Filled, [CacheNext]_allVars
  PROVE  Filled'
<1>a. Typed
  BY TypedCache
<1> DEFINE Done(u) == at[u] = "store" \/ entry \in Versions
<1> SUFFICES ASSUME ~past'.shared, ~past'.again
             PROVE  /\ \A u \in Tasks : at'[u] = "compute" => entry' \notin Versions
                    /\ \A u \in Tasks : runs'[u] > 0 => Done(u)'
                    /\ \A u, v \in Tasks : runs'[u] > 0 /\ runs'[v] > 0 => u = v
  BY DEF Filled
<1>b. ~past.shared /\ ~past.again
  BY <1>a, SharedStays, AgainStays
<1>c. /\ \A u \in Tasks : at[u] = "compute" => entry \notin Versions
      /\ \A u \in Tasks : runs[u] > 0 => Done(u)
      /\ \A u, v \in Tasks : runs[u] > 0 /\ runs[v] > 0 => u = v
  BY <1>b DEF Filled
<1>1. ASSUME NEW t \in Tasks, Factory(t)
      PROVE  /\ \A u \in Tasks : at'[u] = "compute" => entry' \notin Versions
             /\ \A u \in Tasks : runs'[u] > 0 => Done(u)'
             /\ \A u, v \in Tasks : runs'[u] > 0 /\ runs'[v] > 0 => u = v
  <2>1. /\ at[t] = "compute" /\ at'[t] = "store"
        /\ runs' = [runs EXCEPT ![t] = @ + 1] /\ Moves(t)
    BY <1>1, <1>a DEF Factory, At, Typed, Moves, Work
  <2>2. \A u \in Tasks :
          u # t => at'[u] = at[u] /\ at[u] # "compute" /\ runs'[u] = runs[u]
                   /\ runs[u] = 0
    BY <1>a, <1>b, <2>1, OneMoves, FirstRun
  <2>3. \A u \in Tasks : runs'[u] > 0 => u = t
    BY <2>2
  <2> QED BY <2>1, <2>2, <2>3
<1>2. ASSUME NEW t \in Tasks, Moves(t), runs' = runs,
             at[t] = "store" /\ at'[t] \in {"leave", "done"}, entry' = value[t]
      PROVE  /\ \A u \in Tasks : at'[u] = "compute" => entry' \notin Versions
             /\ \A u \in Tasks : runs'[u] > 0 => Done(u)'
             /\ \A u, v \in Tasks : runs'[u] > 0 /\ runs'[v] > 0 => u = v
  <2>1. entry' \in Versions
    BY <1>a, <1>2 DEF Typed
  <2>2. \A u \in Tasks : at'[u] # "compute"
    <3>1. key = t
      BY <1>b, <1>2 DEF Guarded, Computing
    <3>2. \A u \in Tasks : u # t => at'[u] = at[u] /\ at[u] # "compute"
      BY <1>a, <1>b, <1>2, <3>1, OneMoves DEF Guarded, Computing
    <3> QED BY <1>2, <3>2
  <2> QED BY <1>c, <1>2, <2>1, <2>2
<1>3. ASSUME NEW t \in Tasks, Moves(t), runs' = runs, entry' = entry,
             at[t] # "store", at'[t] = "compute" => entry \notin Versions
      PROVE  /\ \A u \in Tasks : at'[u] = "compute" => entry' \notin Versions
             /\ \A u \in Tasks : runs'[u] > 0 => Done(u)'
             /\ \A u, v \in Tasks : runs'[u] > 0 /\ runs'[v] > 0 => u = v
  <2>1. \A u \in Tasks : u # t => at'[u] = at[u]
    BY <1>a, <1>3, OneMoves
  <2> QED BY <1>c, <1>3, <2>1
<1>4. ASSUME NEW t \in Tasks, Moves(t)
      PROVE  /\ \A u \in Tasks : at'[u] = "compute" => entry' \notin Versions
             /\ \A u \in Tasks : runs'[u] > 0 => Done(u)'
             /\ \A u, v \in Tasks : runs'[u] > 0 /\ runs'[v] > 0 => u = v
  BY <1>a, <1>1, <1>2, <1>3, <1>4, QuietMoves
<1>5. CASE Around
  <2>1. ~Again
    BY <1>a, AgainNoted
  <2>2. Write \/ Time
    BY <1>a, <1>5, <2>1
       DEF Around, Invalidate, InvalidateFails, EntryExpires, Typed, Past
  <2>3. at' = at /\ entry' = entry /\ runs' = runs
    BY <2>2 DEF Write, Time
  <2> QED BY <1>c, <2>3
<1>6. CASE UNCHANGED allVars
  BY <1>c, <1>6 DEF allVars, cacheVars
<1> QED BY <1>4, <1>5, <1>6, CacheCases

-----------------------------------------------------------------------------
(* What a call ends with. *)

LEMMA RunsGrow ==
  ASSUME Typed, NEW t \in Tasks, Moves(t)
  PROVE  runs' = runs \/ (runs'[t] = runs[t] + 1 /\ at[t] = "compute")
<1>1. CASE Factory(t) \/ FactoryRaises(t)
  BY <1>1, TypedRun DEF Factory, FactoryRaises
<1>2. CASE \/ Call(t) \/ Look(t) \/ Locked(t) \/ Wait(t) \/ Unlocked(t)
           \/ Store(t) \/ Unlock(t) \/ LookFails(t) \/ StoreFails(t)
           \/ Killed(t)
  BY <1>2 DEF Call, Look, Locked, Wait, Unlocked, Store, Unlock, LookFails,
              StoreFails, Killed, cacheVars
<1> QED BY <1>1, <1>2 DEF Moves, Work

LEMMA MoveExcused ==
  ASSUME Typed, Excused, NEW t \in Tasks, Moves(t)
  PROVE  /\ at'[t] = "failed" => raised'[t] # ""
         /\ at'[t] \in {"leave", "failed"} /\ raised'[t] # "" =>
              raised'[t] = "cancelled" \/ raised'[t] = threw'[t]
<1> USE CacheAssumption DEF At
<1>a. /\ at \in [Tasks -> Places]
      /\ raised \in [Tasks -> FactoryErrors \cup {"", "cancelled"}]
      /\ threw \in [Tasks -> FactoryErrors \cup {""}]
  BY DEF Typed
<1>b. /\ at[t] = "failed" => raised[t] # ""
      /\ at[t] \in {"leave", "failed"} /\ raised[t] # "" =>
           raised[t] = "cancelled" \/ raised[t] = threw[t]
  BY DEF Excused
<1>1. CASE Call(t) \/ Locked(t) \/ Unlocked(t) \/ Factory(t)
  <2>1. at'[t] \in {"look", "relook", "compute", "store"}
    BY <1>1, <1>a
       DEF Call, Locked, Enter, Unlocked, WithoutLock, Factory
  <2> QED BY <2>1
<1>2. CASE Look(t) \/ LookFails(t)
  <2>1. Finish(t, entry, "") \/ Miss(t)
    BY <1>2 DEF Look, LookFails, Found
  <2> QED BY <1>a, <2>1 DEF Finish, Miss
<1>3. CASE Wait(t)
  BY <1>3, <1>b DEF Wait, cacheVars
<1>4. CASE FactoryRaises(t)
  <2>1. PICK e \in FactoryErrors :
          Finish(t, 0, e) /\ threw' = [threw EXCEPT ![t] = e]
    BY <1>4 DEF FactoryRaises
  <2> QED BY <1>a, <2>1 DEF Finish
<1>5. CASE Store(t) \/ StoreFails(t)
  <2>1. Finish(t, value[t], "")
    BY <1>5 DEF Store, StoreFails
  <2> QED BY <1>a, <2>1 DEF Finish
<1>6. CASE Unlock(t)
  <2>1. at[t] = "leave" /\ raised' = raised /\ threw' = threw
    BY <1>6 DEF Unlock
  <2>2. \/ at' = at
        \/ At(t, IF Recomputes(t) THEN "compute"
                 ELSE IF raised[t] = "" THEN "done" ELSE "failed")
    BY <1>6 DEF Unlock
  <2>3. at'[t] = "failed" => raised[t] # ""
    BY <1>a, <2>1, <2>2
  <2> QED BY <1>b, <2>1, <2>3
<1>7. CASE Killed(t)
  <2>1. raised'[t] = "cancelled"
    BY <1>7, <1>a DEF Killed, Finish
  <2> QED BY <2>1
<1> QED
  BY <1>1, <1>2, <1>3, <1>4, <1>5, <1>6, <1>7 DEF Moves, Work

LEMMA StepExcused ==
  ASSUME CacheTypeOK, Excused, [CacheNext]_allVars
  PROVE  Excused'
<1>a. Typed
  BY TypedCache
<1>1. ASSUME NEW t \in Tasks, Moves(t) PROVE Excused'
  <2> SUFFICES ASSUME NEW u \in Tasks
               PROVE  /\ at'[u] = "failed" => raised'[u] # ""
                      /\ at'[u] \in {"leave", "failed"} /\ raised'[u] # "" =>
                           raised'[u] = "cancelled" \/ raised'[u] = threw'[u]
    BY DEF Excused
  <2>1. CASE u = t
    BY <1>a, <1>1, <2>1, MoveExcused
  <2>2. CASE u # t
    BY <1>a, <1>1, <2>2, OneMoves DEF Excused
  <2> QED BY <2>1, <2>2
<1>2. ASSUME at' = at, raised' = raised, threw' = threw PROVE Excused'
  BY <1>2 DEF Excused
<1>3. CASE Around
  BY <1>2, <1>3
     DEF Around, Write, Invalidate, InvalidateFails, EntryExpires, Time
<1>4. CASE UNCHANGED allVars
  BY <1>2, <1>4 DEF allVars, cacheVars
<1> QED BY <1>1, <1>3, <1>4, CacheCases

Early == {"idle", "look", "lock", "relook", "compute"}

\* A call that has computed does not come back to the factory.
LEMMA NoWayBack ==
  ASSUME NotBusy, Typed, NEW t \in Tasks, Moves(t), at'[t] \in Early
  PROVE  at[t] \in Early /\ runs' = runs
<1> USE CacheAssumption DEF At, Early
<1>a. at \in [Tasks -> Places]
  BY DEF Typed
<1>1. CASE Call(t) \/ Look(t) \/ LookFails(t) \/ Locked(t) \/ Unlocked(t)
  BY <1>1, <1>a DEF Call, Look, LookFails, Locked, Unlocked
<1>2. CASE Wait(t)
  BY <1>2, <1>a DEF Wait, cacheVars
<1>3. CASE Factory(t) \/ FactoryRaises(t) \/ Store(t) \/ StoreFails(t)
  BY <1>3, <1>a DEF Factory, FactoryRaises, Store, StoreFails, Finish
<1>4. CASE Unlock(t)
  <2>1. ~Recomputes(t)
    BY DEF NotBusy, Recomputes, Typed
  <2> QED BY <1>4, <1>a, <2>1 DEF Unlock
<1>5. CASE Killed(t)
  BY <1>5, <1>a DEF Killed, Finish
<1> QED BY <1>1, <1>2, <1>3, <1>4, <1>5 DEF Moves, Work

LEMMA StepOnce ==
  ASSUME NotBusy, CacheTypeOK, Once, [CacheNext]_allVars
  PROVE  Once'
<1>a. Typed
  BY TypedCache
<1>1. ASSUME NEW t \in Tasks, Moves(t) PROVE Once'
  <2> SUFFICES ASSUME NEW u \in Tasks
               PROVE  (at'[u] \in Early => runs'[u] = 0) /\ runs'[u] <= 1
    BY DEF Once, Early
  <2>1. (at[u] \in Early => runs[u] = 0) /\ runs[u] <= 1
    BY DEF Once, Early
  <2>2. CASE u = t
    <3>1. runs' = runs \/ (runs'[t] = runs[t] + 1 /\ at[t] = "compute")
      BY <1>a, <1>1, RunsGrow
    <3>2. at'[t] \in Early => at[t] \in Early /\ runs' = runs
      BY <1>a, <1>1, NoWayBack
    <3>3. runs'[t] <= 1
      BY <2>1, <2>2, <3>1 DEF Early
    <3> QED BY <2>1, <2>2, <3>2, <3>3
  <2>3. CASE u # t
    BY <1>a, <1>1, <2>1, <2>3, OneMoves
  <2> QED BY <2>2, <2>3
<1>2. ASSUME at' = at, runs' = runs PROVE Once'
  BY <1>2 DEF Once
<1>3. CASE Around
  BY <1>2, <1>3
     DEF Around, Write, Invalidate, InvalidateFails, EntryExpires, Time
<1>4. CASE UNCHANGED allVars
  BY <1>2, <1>4 DEF allVars, cacheVars
<1> QED BY <1>1, <1>3, <1>4, CacheCases

-----------------------------------------------------------------------------
(* What a call is served. *)

\* A move does not invalidate.
LEMMA FloorStays ==
  ASSUME Typed, NEW t \in Tasks, Moves(t)
  PROVE  past'.floor = past.floor /\ past'.raced = past.raced
BY DEF Moves, Work, Call, Look, LookFails, Locked, Wait, Unlocked, Factory,
       FactoryRaises, Store, StoreFails, Unlock, Killed, Again, Typed, Past,
       cacheVars

\* What one call has on its way, or is served.
NotStale(t) ==
  /\ at[t] = "store" => value[t] >= past.floor
  /\ at[t] = "done" \/ (at[t] = "leave" /\ raised[t] = "") =>
       value[t] >= since[t]

LEMMA EachNotStale ==
  NoneStale <=> /\ entry \in Versions => entry >= past.floor
                /\ \A t \in Tasks : NotStale(t)
BY DEF NoneStale, NotStale

LEMMA Numbers ==
  ASSUME Typed
  PROVE  /\ source \in Nat /\ past.floor \in Nat /\ past.floor <= source
         /\ \A t \in Tasks : value[t] \in Nat /\ since[t] \in Nat
         /\ entry \in Versions => entry \in Nat
         /\ past \in Past
<1>1. \A v \in Versions : v \in Nat
  BY CacheAssumption DEF Versions
<1>2. past \in Past /\ past.floor \in Versions /\ past.floor <= source
  BY DEF Typed, Past
<1>3. /\ source \in Versions
      /\ value \in [Tasks -> Versions] /\ since \in [Tasks -> Versions]
  BY DEF Typed
<1> QED BY <1>1, <1>2, <1>3

\* A value that is found or stored may be served.
LEMMA FinishNotStale ==
  ASSUME Typed, NEW t \in Tasks, NEW v \in Versions,
         NEW e \in FactoryErrors \cup {"", "cancelled"}, Finish(t, v, e),
         e = "" => v >= since[t], UNCHANGED since
  PROVE  NotStale(t)'
<1>1. /\ at'[t] \in {"leave", "done", "failed"}
      /\ at'[t] = "done" => e = ""
      /\ value'[t] = v /\ raised'[t] = e
  BY DEF Finish, At, Typed
<1> QED BY <1>1 DEF NotStale

LEMMA MoveNotStale ==
  ASSUME Typed, Fresh, NoneStale, NEW t \in Tasks, Moves(t)
  PROVE  NotStale(t)' /\ (entry' \in Versions => entry' >= past.floor)
<1> USE CacheAssumption
<1>a. /\ at \in [Tasks -> Places] /\ value \in [Tasks -> Versions]
      /\ since \in [Tasks -> Versions]
  BY DEF Typed
<1>z. 0 \in Versions
  BY DEF Versions
<1>b. /\ past'.floor = past.floor
      /\ entry \in Versions => entry >= past.floor
      /\ NotStale(t)
      /\ since[t] <= past.floor
  BY FloorStays, EachNotStale DEF Fresh
<1>1. CASE Call(t) \/ Locked(t) \/ Unlocked(t) \/ LookFails(t)
  <2>1. at'[t] \in {"look", "lock", "relook", "compute"} /\ entry' = entry
    BY <1>1, <1>a
       DEF Call, Locked, Enter, Unlocked, WithoutLock, LookFails, Miss, At
  <2> QED BY <1>b, <2>1 DEF NotStale
<1>2. CASE Look(t)
  <2>1. entry' = entry /\ since' = since
    BY <1>2 DEF Look
  <2>2. CASE entry \in Versions
    <3>1. Finish(t, entry, "")
      BY <1>2, <2>2 DEF Look, Found
    <3>2. entry >= since[t]
      BY <1>b, <2>2, Numbers
    <3> QED BY <1>b, <2>1, <2>2, <3>1, <3>2, FinishNotStale
  <2>3. CASE entry \notin Versions
    <3>1. at'[t] \in {"lock", "compute"}
      BY <1>2, <1>a, <2>3 DEF Look, Found, Miss, At
    <3> QED BY <1>b, <2>1, <3>1 DEF NotStale
  <2> QED BY <2>2, <2>3
<1>3. CASE Wait(t)
  BY <1>3, <1>b DEF Wait, cacheVars, NotStale
<1>4. CASE Factory(t)
  <2>1. at'[t] = "store" /\ value'[t] = source /\ entry' = entry
    BY <1>4, <1>a DEF Factory, At
  <2> QED BY <1>b, <2>1, Numbers DEF NotStale
<1>5. CASE FactoryRaises(t)
  <2>1. PICK e \in FactoryErrors : Finish(t, 0, e)
    BY <1>5 DEF FactoryRaises
  <2>2. e # "" /\ entry' = entry /\ since' = since
    BY <1>5 DEF FactoryRaises
  <2> QED BY <1>z, <1>b, <2>1, <2>2, FinishNotStale
<1>6. CASE Store(t) \/ StoreFails(t)
  <2>1. /\ Finish(t, value[t], "") /\ entry' \in {entry, value[t]}
        /\ at[t] = "store" /\ since' = since
    BY <1>6 DEF Store, StoreFails
  <2>2. value[t] \in Versions /\ value[t] >= past.floor
    BY <1>a, <1>b, <2>1 DEF NotStale
  <2>3. value[t] >= since[t]
    BY <1>b, <2>2, Numbers
  <2>4. NotStale(t)'
    BY <2>1, <2>2, <2>3, FinishNotStale
  <2> QED BY <1>b, <2>1, <2>2, <2>4
<1>7. CASE Unlock(t)
  <2>1. /\ at[t] = "leave" /\ raised' = raised /\ value' = value
        /\ since' = since /\ entry' = entry
    BY <1>7 DEF Unlock
  <2>2. \/ at' = at
        \/ At(t, IF Recomputes(t) THEN "compute"
                 ELSE IF raised[t] = "" THEN "done" ELSE "failed")
    BY <1>7 DEF Unlock
  <2>3. at'[t] # "store" /\ (at'[t] = "done" => raised[t] = "")
    BY <1>a, <2>1, <2>2 DEF At
  <2> QED BY <1>b, <2>1, <2>3 DEF NotStale
<1>8. CASE Killed(t)
  <2>1. entry' = entry /\ since' = since
    BY <1>8 DEF Killed
  <2>2. Finish(t, 0, "cancelled") \/ at'[t] = "failed"
    BY <1>8, <1>a DEF Killed, At
  <2>3. ASSUME at'[t] = "failed" PROVE NotStale(t)'
    BY <2>3 DEF NotStale
  <2>4. ASSUME Finish(t, 0, "cancelled") PROVE NotStale(t)'
    BY <1>z, <2>1, <2>4, FinishNotStale
  <2> QED BY <1>b, <2>1, <2>2, <2>3, <2>4
<1> QED
  BY <1>1, <1>2, <1>3, <1>4, <1>5, <1>6, <1>7, <1>8 DEF Moves, Work

LEMMA MoveFresh ==
  ASSUME Typed, Fresh, NEW t \in Tasks, Moves(t)
  PROVE  Fresh'
<1>1. past'.floor = past.floor /\ past'.raced = past.raced
  BY FloorStays
<1>2. ASSUME NEW u \in Tasks PROVE since'[u] <= past'.floor
  <2>1. CASE u = t
    <3>1. since'[t] \in {since[t], past.floor}
      BY DEF Moves, Work, Call, Look, LookFails, Locked, Wait, Unlocked,
             Factory, FactoryRaises, Store, StoreFails, Unlock, Killed, Typed,
             cacheVars
    <3> QED BY <1>1, <2>1, <3>1, Numbers DEF Fresh
  <2>2. CASE u # t
    BY <1>1, <2>2, OneMoves DEF Fresh
  <2> QED BY <2>1, <2>2
<1>3. ASSUME ~past'.raced PROVE NoneStale'
  <2>1. NoneStale
    BY <1>1, <1>3 DEF Fresh
  <2>2. NotStale(t)' /\ (entry' \in Versions => entry' >= past'.floor)
    BY <1>1, <2>1, MoveNotStale
  <2>3. ASSUME NEW u \in Tasks, u # t PROVE NotStale(u)'
    <3>1. NotStale(u)
      BY <2>1, EachNotStale
    <3>2. /\ at'[u] = at[u] /\ value'[u] = value[u]
          /\ raised'[u] = raised[u] /\ since'[u] = since[u]
      BY <2>3, OneMoves
    <3> QED BY <1>1, <3>1, <3>2 DEF NotStale
  <2>4. \A u \in Tasks : NotStale(u)'
    BY <2>2, <2>3
  <2> QED BY <2>2, <2>4 DEF NoneStale, NotStale
<1> QED BY <1>2, <1>3 DEF Fresh

LEMMA AroundFresh ==
  ASSUME Typed, Fresh, Around
  PROVE  Fresh'
<1> USE CacheAssumption
<1>0. /\ at' = at /\ value' = value /\ raised' = raised /\ since' = since
      /\ entry' \in {entry, Absent}
  BY DEF Around, Write, Invalidate, Forget, InvalidateFails, EntryExpires, Time
<1>1. CASE Invalidate
  <2>1. PICK b \in BOOLEAN :
          past' = [past EXCEPT !.floor = source, !.again = TRUE,
             !.raced = past.raced \/ b]
          /\ (~b => \A t \in Tasks : at[t] = "store" => ~(value[t] < source))
    BY <1>1 DEF Invalidate
  <2>2. past'.floor = source /\ past'.raced = (past.raced \/ b)
    BY <2>1, Numbers DEF Past
  <2>3. \A t \in Tasks : since'[t] <= past'.floor
    BY <1>0, <2>2, Numbers DEF Fresh
  <2>4. ASSUME ~past'.raced PROVE NoneStale'
    <3>1. NoneStale /\ ~b
      BY <2>2, <2>4 DEF Fresh
    <3>2. \A t \in Tasks : at'[t] = "store" => value'[t] >= past'.floor
      BY <1>0, <2>1, <2>2, <3>1, Numbers
    <3>3. entry' \notin Versions
      BY <1>1 DEF Invalidate, Forget
    <3> QED BY <1>0, <3>1, <3>2, <3>3 DEF NoneStale
  <2> QED BY <2>3, <2>4 DEF Fresh
<1>2. CASE Write \/ InvalidateFails \/ EntryExpires \/ Time
  <2>1. past'.floor = past.floor /\ past'.raced = past.raced
    BY <1>2, Numbers
       DEF Write, InvalidateFails, EntryExpires, Time, Again, Past
  <2>2. ASSUME NoneStale PROVE NoneStale'
    BY <1>0, <2>1, <2>2 DEF NoneStale
  <2> QED BY <1>0, <2>1, <2>2 DEF Fresh
<1> QED BY <1>1, <1>2 DEF Around

LEMMA StepFresh ==
  ASSUME CacheTypeOK, Fresh, [CacheNext]_allVars
  PROVE  Fresh'
<1>a. Typed
  BY TypedCache
<1>1. ASSUME UNCHANGED allVars PROVE Fresh'
  <2>1. UNCHANGED entry /\ UNCHANGED at /\ UNCHANGED value /\ UNCHANGED raised
        /\ UNCHANGED since /\ UNCHANGED past
    BY <1>1 DEF allVars, cacheVars
  <2> QED BY <2>1 DEF Fresh, NoneStale
<1> QED BY <1>a, <1>1, CacheCases, MoveFresh, AroundFresh

-----------------------------------------------------------------------------
(* The invariant and the theorems. *)

LEMMA InitKInv == CacheInit => KInv /\ Once
<1> SUFFICES ASSUME CacheInit PROVE KInv /\ Once
  OBVIOUS
<1>0. 0 <= 0 /\ 0 <= 1 /\ ~(0 > 0) /\ 0 >= 0
  OBVIOUS
<1>1. /\ source = 0 /\ dirty = FALSE /\ entry \in {Absent, Poisoned}
      /\ at = [t \in Tasks |-> "idle"] /\ value = [t \in Tasks |-> 0]
      /\ raised = [t \in Tasks |-> ""] /\ runs = [t \in Tasks |-> 0]
      /\ threw = [t \in Tasks |-> ""] /\ since = [t \in Tasks |-> 0]
  BY DEF CacheInit
<1>2. past = [floor |-> 0, raced |-> FALSE, shared |-> ~Protect,
              again |-> FALSE]
  BY DEF CacheInit
<1>3. 0 \in Versions
  BY CacheAssumption DEF Versions
<1>4. past \in Past /\ past.floor = 0
  BY <1>2, <1>3, CacheAssumption DEF Past
<1>5. Typed
  <2>1. source \in Versions /\ entry \in Versions \cup {Absent, Poisoned}
        /\ dirty \in BOOLEAN
    BY <1>1, <1>3
  <2>2. /\ at \in [Tasks -> Places] /\ value \in [Tasks -> Versions]
        /\ raised \in [Tasks -> FactoryErrors \cup {"", "cancelled"}]
        /\ runs \in [Tasks -> Nat] /\ since \in [Tasks -> Versions]
        /\ threw \in [Tasks -> FactoryErrors \cup {""}]
    BY <1>1, <1>3 DEF Places
  <2>3. past.floor <= source
    BY <1>0, <1>1, <1>4, Zenon
  <2> QED BY <1>4, <2>1, <2>2, <2>3, Zenon DEF Typed
<1>6. LockTypeOK
  BY InitLInv DEF CacheInit, LInv
<1>7. Guarded
  <2>1. ~past.shared => Protect
    BY <1>2
  <2> QED BY <1>1, <2>1 DEF Guarded, Computing
<1>e. /\ entry \notin Versions
      /\ \A t \in Tasks : at[t] = "idle" /\ runs[t] = 0 /\ since[t] = 0
  BY <1>1, CacheAssumption
<1>8. Filled /\ Excused
  <2>1. \A t \in Tasks : ~(runs[t] > 0)
    BY <1>0, <1>e, Zenon
  <2> QED BY <1>e, <2>1 DEF Filled, Excused
<1>o. Once
  <2>1. \A t \in Tasks : runs[t] <= 1
    BY <1>0, <1>e, Zenon
  <2> QED BY <1>e, <2>1, Zenon DEF Once
<1>9. Fresh
  <2>1. NoneStale
    BY <1>e DEF NoneStale
  <2> QED BY <1>e, <1>4, <2>1 DEF Fresh
<1> QED BY <1>5, <1>6, <1>7, <1>8, <1>o, <1>9, TypedCache DEF KInv

LEMMA StepKInv == KInv /\ [CacheNext]_allVars => KInv'
BY CacheStepTypes, StepGuarded, StepFilled, StepExcused, StepFresh DEF KInv

LEMMA CacheInductive == CacheSpec => []KInv
BY InitKInv, StepKInv, PTL DEF CacheSpec

LEMMA AtMostOne ==
  ASSUME NEW S, \A x, y \in S : x = y
  PROVE  Cardinality(S) <= 1
<1>1. CASE S = {}
  BY <1>1, FS_EmptySet
<1>2. CASE S # {}
  <2>1. PICK x \in S : S = {x}
    BY <1>2
  <2>2. Cardinality({x}) = 1
    BY FS_Singleton
  <2> QED BY <2>1, <2>2
<1> QED BY <1>1, <1>2

LEMMA FillsOnce == KInv => OneFill
<1> SUFFICES ASSUME KInv PROVE OneFill
  OBVIOUS
<1>1. OneComputes
  <2> DEFINE S == {t \in Tasks : at[t] \in {"compute", "store"}}
  <2> SUFFICES ASSUME ~past.shared PROVE Cardinality(S) <= 1
    BY DEF OneComputes
  <2>1. \A x, y \in S : x = y
    BY DEF KInv, Guarded, Computing
  <2> HIDE DEF S
  <2> QED BY <2>1, AtMostOne
<1>2. OneFillForAll
  <2> DEFINE S == {t \in Tasks : runs[t] > 0}
  <2> SUFFICES ASSUME ~past.shared, ~past.again PROVE Cardinality(S) <= 1
    BY DEF OneFillForAll
  <2>1. \A x, y \in S : x = y
    BY DEF KInv, Filled
  <2> HIDE DEF S
  <2> QED BY <2>1, AtMostOne
<1> QED BY <1>1, <1>2 DEF KInv, OneFill

\* Callers that miss together cost one run of the factory: while the lock is
\* held and in reach one call computes at a time, and as long as no value is
\* lost, in redis or on its way, one computes for all of them.
THEOREM OneFillOnly == CacheSpec => []OneFill
BY CacheInductive, FillsOnce, PTL

\* A call fails with what its own factory raised, or because it was cancelled:
\* no failure of Redis, of the lock or of the serializer reaches the caller,
\* before the factory ran or after.
THEOREM CacheIsOptional == CacheSpec => []CacheNeverFails
<1>1. KInv => CacheNeverFails
  BY DEF KInv, Excused, CacheNeverFails
<1> QED BY <1>1, CacheInductive, PTL

\* A call is served as if there were no cache, from one computation, if its
\* factory does not raise LockAcquireError itself: get_or_set takes that one for
\* its own lock's, and calls the factory again.
THEOREM ServedOnce ==
  ASSUME NotBusy
  PROVE  CacheSpec => []CallerServed
<1>1. CacheInit => Once
  BY InitKInv
<1>2. KInv /\ Once /\ [CacheNext]_allVars => Once'
  BY NotBusy, StepOnce DEF KInv
<1>3. Once => RunsOnce
  BY DEF Once, RunsOnce
<1>4. KInv => CacheNeverFails
  BY DEF KInv, Excused, CacheNeverFails
<1>5. RunsOnce /\ CacheNeverFails => CallerServed
  BY DEF CallerServed
<1> QED BY <1>1, <1>2, <1>3, <1>4, <1>5, CacheInductive, PTL DEF CacheSpec

\* Who calls after an invalidation is not served what was computed before it,
\* unless a value was on its way to Redis when the entry was deleted.
THEOREM NoStaleService == CacheSpec => []ServedFresh
<1>1. KInv => ServedFresh
  BY DEF KInv, Fresh, NoneStale, ServedFresh
<1> QED BY <1>1, CacheInductive, PTL

\* The promises of the lock that do not rest on an extension task hold inside
\* get_or_set, whose calls take it, leave it and fail between the two as the
\* lock's own tasks do: without a failure no key is left behind, and whatever
\* fails none is taken from its owner.
THEOREM LockInCache == CacheSpec => []NothingLeaks /\ OthersUntouched
<1>1. CacheInit => LInv
  BY InitLInv DEF CacheInit
<1>2. LInv /\ [CacheNext]_allVars => LInv'
  BY StepLockInv
<1>3. LInv => NothingLeaks
  BY DEF LInv
<1>4. LInv /\ [CacheNext]_allVars => [Untouched]_lockVars
  <2> SUFFICES ASSUME LInv, [CacheNext]_allVars PROVE [Untouched]_lockVars
    OBVIOUS
  <2>1. ASSUME NEW k \in FaultKinds, Counts(k) PROVE Untouched
    BY <2>1 DEF Counts, Untouched
  <2> QED BY <2>1, LockMoves, StepUntouched
<1> QED BY <1>1, <1>2, <1>3, <1>4, PTL DEF CacheSpec, OthersUntouched, Untouched
=============================================================================
