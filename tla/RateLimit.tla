------------------------------ MODULE RateLimit ------------------------------
(***************************************************************************)
(* The rate limiters of cache/rate_limit.py behind the dependency that     *)
(* build_rate_limit_dep makes: RedisRateLimiter ("fixed"),                 *)
(* RedisSlidingWindowRateLimiter ("sliding") and InMemoryRateLimiter       *)
(* ("memory").  Each runs its check in one atomic step: a Lua script, or a *)
(* method without an await.  Time is in ticks, several to a second.        *)
(***************************************************************************)
EXTENDS Naturals, Sequences

CONSTANTS
  Keys,         \* what key_func makes of a request
  Rates,        \* the rates a service may write
  Strategies,   \* the limiters a service may choose
  Second,       \* ticks in a second
  MaxKeys       \* max_keys of the InMemoryRateLimiter

\* A rate as written: a tuple, or the numbers and the unit of a text.
ASSUME RateAssumption ==
  /\ \A r \in Rates :
       \/ r.form = "tuple" /\ r.times \in Nat /\ r.ticks \in Nat
       \/ r.form = "text" /\ r.times \in Nat /\ r.multiple \in Nat
  /\ Strategies \subseteq {"fixed", "sliding", "memory"}
  /\ Second \in Nat \ {0}
  /\ MaxKeys \in Nat \ {0}

UnitSeconds ==
  [s |-> 1, sec |-> 1, secs |-> 1, second |-> 1, seconds |-> 1,
   m |-> 60, min |-> 60, mins |-> 60, minute |-> 60, minutes |-> 60,
   h |-> 3600, hr |-> 3600, hour |-> 3600, hours |-> 3600,
   d |-> 86400, day |-> 86400, days |-> 86400]

\* What parse_rate accepts; anything else is a ValueError.
Valid(r) ==
  /\ r.times >= 1
  /\ \/ r.form = "tuple" /\ r.ticks > 0
     \/ r.form = "text" /\ r.multiple >= 1 /\ r.unit \in DOMAIN UnitSeconds

\* What parse_rate makes of it.
Parsed(r) == [times |-> r.times,
              ticks |-> IF r.form = "tuple" THEN r.ticks
                        ELSE r.multiple * UnitSeconds[r.unit] * Second]

VARIABLES
  rate,       \* the limit the dependency was built with
  strategy,   \* its limiter
  failOpen,   \* fail_open of a limiter on Redis
  count,      \* the counter of a key (0: there is none)
  age,        \* since the counter's window, or the key's TTL, was set
  log,        \* the sorted set of a key: the ages of its members
  lru,        \* _windows of the InMemoryRateLimiter, least recent first
  phase,      \* where the wall clock is in its second
  granted,    \* history: the ages of the requests let through, per key
  credit,     \* history: what X-RateLimit-Remaining still promises
  guess,      \* history: ... and that this was the guess of a degraded answer
  told,       \* history: the key was answered 429, and not let through since
  retry,      \* history: what is left of the first Retry-After since
  reset       \* history: how long until the second of X-RateLimit-Reset is over

store == <<count, age, log, lru>>
history == <<granted, credit, guess, told, retry, reset>>
setting == <<rate, strategy, failOpen>>
vars == <<setting, store, phase, history>>

Window == rate.ticks

Least(a, b) == IF a < b THEN a ELSE b
Less(a, b) == IF a < b THEN 0 ELSE a - b

All(x) == [k \in Keys |-> x]

\* What is promised: the sliding window lets through times requests in any
\* window, the others up to twice as many, and only the in-memory limiter may
\* forget a key.
W == INSTANCE RateWindow WITH
       window <- rate.ticks,
       bound <- IF strategy = "sliding" THEN rate.times ELSE 2 * rate.times,
       forgetful <- strategy = "memory"

Init ==
  /\ \E r \in Rates : Valid(r) /\ rate = Parsed(r)
  /\ strategy \in Strategies
  /\ failOpen \in BOOLEAN /\ (strategy = "memory" => failOpen)
  /\ count = All(0) /\ age = All(0) /\ log = All(<<>>) /\ lru = <<>>
  /\ phase \in 0..(Second - 1)
  /\ granted = All(<<>>) /\ credit = All(0) /\ guess = All(FALSE)
  /\ told = All(FALSE) /\ retry = All(0) /\ reset = All(0)

-----------------------------------------------------------------------------
(* What one hit does to the store, and its RateLimitResult.  Counts beyond *)
(* rate.times + 1 are all refused alike and not told apart.                *)

Result(allowed, remaining, after) ==
  [allowed |-> allowed, remaining |-> remaining, after |-> after]

Counted(n) == Least(n, rate.times + 1)

ByCount(n, after) == Result(n <= rate.times, Less(rate.times, n), after)

\* Slip: PEXPIRE on every hit.
FixedStartsLate(k) == 0

\* PEXPIRE on the first hit only.
FixedStarts(k) == IF count[k] = 0 THEN 0 ELSE age[k]

\* _INCR_WITH_TTL
FixedHit(k) ==
  /\ count' = [count EXCEPT ![k] = Counted(@ + 1)]
  /\ age' = [age EXCEPT ![k] = FixedStarts(k)]
  /\ UNCHANGED <<log, lru>>

FixedResult(k) == ByCount(count[k] + 1, Window - FixedStarts(k))

\* ZREMRANGEBYSCORE: the members, in the order of their scores, from the first
\* that is younger than the window.
Live(k) ==
  LET s == log[k]
      first == CHOOSE i \in 1..(Len(s) + 1) :
                 /\ \A j \in 1..(i - 1) : s[j] >= Window
                 /\ i <= Len(s) => s[i] < Window
  IN  SubSeq(s, first, Len(s))

\* _SLIDING_WINDOW: "denied requests are not recorded".
SlidingHit(k) ==
  /\ log' = [log EXCEPT ![k] = IF Len(Live(k)) < rate.times
                               THEN Append(Live(k), 0) ELSE Live(k)]
  /\ age' = [age EXCEPT ![k] = 0]
  /\ UNCHANGED <<count, lru>>

\* Slip: the limit is checked before, not after, this hit.
SlidingResultLate(k) ==
  LET n == Len(Live(k)) IN
  IF n <= rate.times THEN Result(TRUE, rate.times - n, Window)
  ELSE Result(FALSE, 0, Window - Live(k)[1])

SlidingResult(k) ==
  LET n == Len(Live(k)) IN
  IF n < rate.times THEN Result(TRUE, rate.times - (n + 1), Window)
  ELSE Result(FALSE, 0, Window - Live(k)[1])

\* InMemoryRateLimiter: the window is new or over.
Fresh(k) == count[k] = 0 \/ age[k] >= Window

MemoryCount(k) == (IF Fresh(k) THEN 0 ELSE count[k]) + 1

\* _windows but for k
Without(k) ==
  LET places == {i \in DOMAIN lru : lru[i] = k}
      i == CHOOSE j \in places : TRUE
  IN  IF places = {} THEN lru
      ELSE SubSeq(lru, 1, i - 1) \o SubSeq(lru, i + 1, Len(lru))

\* Slip: nothing is evicted.
RecentAll(k) == Append(Without(k), k)

\* move_to_end, and popitem(last=False) while there are too many.
Recent(k) ==
  LET moved == Append(Without(k), k) IN
  SubSeq(moved, Less(Len(moved), MaxKeys) + 1, Len(moved))

Evicted(k) == {j \in Keys : \E i \in DOMAIN lru : lru[i] = j}
              \ {Recent(k)[i] : i \in DOMAIN Recent(k)}

MemoryHit(k) ==
  /\ lru' = Recent(k)
  /\ count' = [j \in Keys |->
                 IF j = k THEN Counted(MemoryCount(k))
                 ELSE IF j \in Evicted(k) THEN 0 ELSE count[j]]
  /\ age' = [j \in Keys |->
               IF j = k THEN IF Fresh(k) THEN 0 ELSE age[k]
               ELSE IF j \in Evicted(k) THEN 0 ELSE age[j]]
  /\ log' = log

MemoryResult(k) ==
  ByCount(MemoryCount(k), Window - (IF Fresh(k) THEN 0 ELSE age[k]))

StoreHit(k) == \/ strategy = "fixed" /\ FixedHit(k)
               \/ strategy = "sliding" /\ SlidingHit(k)
               \/ strategy = "memory" /\ MemoryHit(k)

HitResult(k) == CASE strategy = "fixed" -> FixedResult(k)
                  [] strategy = "sliding" -> SlidingResult(k)
                  [] strategy = "memory" -> MemoryResult(k)

-----------------------------------------------------------------------------
\* Slip: the seconds of Retry-After are rounded down.
SecondsDown(ticks) == ticks \div Second

\* math.ceil(reset_after_seconds)
Seconds(ticks) == (ticks + Second - 1) \div Second

\* A first promise stands until the key is let through; a refusal after its time
\* shows as one tick more.
Stands(left, k, allowed, new) ==
  IF allowed THEN 0 ELSE IF ~told[k] THEN new ELSE IF left > 0 THEN left ELSE 1

\* The dependency: headers on every answer, 429 with Retry-After on a refusal.
\* X-RateLimit-Reset adds the seconds to a clock rounded down.
Respond(k) ==
  LET r == HitResult(k)
      after == Seconds(r.after) * Second IN
  /\ granted' = [j \in Keys |->
                   IF strategy = "memory" /\ j \in Evicted(k) THEN <<>>
                   ELSE IF j = k /\ r.allowed THEN Append(granted[j], 0)
                   ELSE granted[j]]
  /\ credit' = [credit EXCEPT ![k] = r.remaining]
  /\ guess' = [guess EXCEPT ![k] = FALSE]
  /\ told' = [told EXCEPT ![k] = ~r.allowed]
  /\ retry' = [retry EXCEPT ![k] = Stands(@, k, r.allowed, after)]
  /\ reset' = [reset EXCEPT ![k] =
                 Stands(@, k, r.allowed, Less(after, phase) + Second)]

\* A request with key k.  (One whose key is None is not limited.)
Request(k) ==
  /\ StoreHit(k)
  /\ Respond(k)
  /\ UNCHANGED <<setting, phase>>

\* RedisError, for a script that ran and whose reply was lost, or that did not run.
Unreachable(k, ran) ==
  /\ strategy # "memory"
  /\ IF ran THEN StoreHit(k) ELSE UNCHANGED store
  /\ UNCHANGED <<setting, phase, granted>>

\* _fail_open: the request passes uncounted, and its headers are those of a key
\* nobody used: X-RateLimit-Remaining is the whole rate.
Degraded(k, ran) ==
  /\ failOpen
  /\ Unreachable(k, ran)
  /\ credit' = [credit EXCEPT ![k] = rate.times]
  /\ guess' = [guess EXCEPT ![k] = TRUE]
  /\ told' = [told EXCEPT ![k] = FALSE]
  /\ retry' = [retry EXCEPT ![k] = 0]
  /\ reset' = [reset EXCEPT ![k] = 0]

\* Without fail_open hit raises: the request fails with none of the headers.  It
\* was one of those promised, and the turn that was waited for if the script took it.
Failed(k, ran) ==
  LET taken == ran /\ HitResult(k).allowed IN
  /\ ~failOpen
  /\ Unreachable(k, ran)
  /\ credit' = [credit EXCEPT ![k] = Less(@, 1)]
  /\ told' = [told EXCEPT ![k] = @ /\ ~taken]
  /\ retry' = [retry EXCEPT ![k] = IF taken THEN 0 ELSE @]
  /\ reset' = [reset EXCEPT ![k] = IF taken THEN 0 ELSE @]
  /\ guess' = guess

Older(s) == [i \in DOMAIN s |-> Least(s[i] + 1, Window)]

\* The TTL of k runs out with the next tick.
Expires(k) == strategy # "memory" /\ age[k] + 1 >= Window

Tick ==
  /\ phase' = (phase + 1) % Second
  /\ count' = [k \in Keys |-> IF Expires(k) THEN 0 ELSE count[k]]
  /\ age' = [k \in Keys |->
               IF Expires(k) \/ (count[k] = 0 /\ log[k] = <<>>) THEN 0
               ELSE Least(age[k] + 1, Window)]
  /\ log' = [k \in Keys |-> IF Expires(k) THEN <<>> ELSE Older(log[k])]
  /\ granted' = [k \in Keys |-> W!Older(granted[k])]
  /\ retry' = [k \in Keys |-> Less(retry[k], 1)]
  /\ reset' = [k \in Keys |-> Less(reset[k], 1)]
  /\ UNCHANGED <<setting, lru, credit, guess, told>>

Next == \/ \E k \in Keys : Request(k)
        \/ \E k \in Keys, ran \in BOOLEAN : Degraded(k, ran) \/ Failed(k, ran)
        \/ Tick

Spec == Init /\ [][Next]_vars

\* Time passes, and a caller comes back.
FairSpec == /\ Spec
            /\ WF_vars(Tick)
            /\ \A k \in Keys : WF_vars(Request(k))

-----------------------------------------------------------------------------
(* Properties. *)

TypeOK ==
  /\ rate.times >= 1 /\ rate.ticks >= 1
  /\ count \in [Keys -> 0..(rate.times + 1)]
  /\ age \in [Keys -> 0..Window]
  /\ \A k \in Keys :
       /\ Len(log[k]) <= rate.times
       /\ \A i \in DOMAIN log[k] : log[k][i] \in 0..Window
       /\ \A i \in DOMAIN granted[k] : granted[k][i] \in 0..(Window - 1)
  /\ Len(lru) <= MaxKeys
  /\ \A k \in Keys :
       strategy = "memory" =>
         (count[k] > 0 <=> \E i \in DOMAIN lru : lru[i] = k)
  /\ phase \in 0..(Second - 1)
  /\ credit \in [Keys -> 0..rate.times]
  /\ guess \in [Keys -> BOOLEAN] /\ told \in [Keys -> BOOLEAN]

\* "No burst at window boundaries": a limiter lets through no more requests in
\* any window than W says.
WithinLimit == W!WindowSpec

\* X-RateLimit-Remaining: while the count it was read from promises more, nobody
\* is refused, requests that failed in an outage being some of those promised.
RemainingHolds ==
  [][\A k \in Keys : credit[k] > 0 /\ ~guess[k] => ~told'[k]]_vars

\* "So clients can pace themselves instead of discovering the limit by hitting it"
\* (http/middleware/rate_limit.py:57): so is whoever was told that more remain,
\* by a degraded answer too.
RemainingIsTrue == [][\A k \in Keys : credit[k] > 0 => ~told'[k]]_vars

\* Retry-After: a client that was refused and waited that long is let through,
\* however often it or others with its key have knocked meanwhile; in an outage
\* its turn may be a request that passes uncounted, or one that fails.
RetryAfterHolds ==
  [][\A k \in Keys : told[k] /\ retry[k] = 0 => retry'[k] = 0]_vars

\* X-RateLimit-Reset, "so clients can pace themselves": so is one that waits
\* until that second is over.  (At its start the window may still be closed.)
ResetHolds ==
  [][\A k \in Keys : told[k] /\ reset[k] = 0 => reset'[k] = 0]_vars

\* What the headers promise is kept, but for the guess of a degraded answer.
HeadersHold == RemainingHolds /\ RetryAfterHolds /\ ResetHolds

\* "A client hammering a closed limit must not keep extending it": whoever is
\* refused and keeps asking is let through again.
ServedAgain == \A k \in Keys : told[k] ~> ~told[k]
=============================================================================
