---------------------------- MODULE TokensProofs ----------------------------
(***************************************************************************)
(* Proofs about Tokens.  PInv is the inductive invariant of the provider:  *)
(* who holds its lock, what the token in flight and the cached one are     *)
(* worth, and that neither was refused.  KeysAge is the one of the         *)
(* validator.                                                              *)
(***************************************************************************)
EXTENDS Tokens, TLAPS

\* The lock is held by the caller whose request is under way, and by no other.
LockHolds == \A c \in Callers : at[c] \in {"post", "issued"} <=> lock = c

\* Who presents a token has one, and who has not asked yet may ask twice.
HaveTokens ==
  \A c \in Callers :
    /\ at[c] \in {"issued", "have", "unknown", "ok", "refused"} => token[c] >= 1
    /\ at[c] = "idle" => tries[c] = 0

\* A request is made for want of a good token only.
Wanted == \A c \in Callers : at[c] = "post" => usable = 0

\* The token on its way has lost what the answer took, and nobody else has it.
OnItsWay ==
  \A c \in Callers :
    at[c] = "issued" =>
      /\ left[token[c]] = Life - late[c]
      /\ token[c] \notin rejected
      /\ \A d \in Callers \ {c} : token[d] # token[c]

\* The cached token outlives its use, and was not refused.
CachedGood == usable <= left[cached] /\ cached \notin rejected

PInv ==
  /\ TypeOK
  /\ LockHolds
  /\ HaveTokens
  /\ Wanted
  /\ OnItsWay
  /\ CachedGood

\* A key set without the current key is at least as old as that key.
KeysAge == jwks \notin {0, key} => keyAge <= jwksAge

-----------------------------------------------------------------------------
LEMMA Naturals ==
  /\ Life \in Nat /\ Leeway \in Nat /\ MaxDelay \in Nat /\ KeyTTL \in Nat
  /\ MaxTokens \in Nat /\ MaxRotations \in Nat /\ MaxOutages \in Nat
  /\ MaxDelay < Life /\ MaxDelay <= Leeway
  /\ Nobody \notin Callers
BY TokensAssumption

LEMMA LessIs ==
  ASSUME NEW a \in Nat, NEW b \in Nat
  PROVE  Less(a, b) \in Nat /\ Less(a, b) <= a /\ (b <= a => Less(a, b) = a - b)
BY DEF Less

LEMMA InitPInv == Init => PInv /\ KeysAge
BY Naturals
   DEF Init, PInv, TypeOK, LockHolds, HaveTokens, Wanted, OnItsWay, CachedGood,
       KeysAge, Ids, Kids

-----------------------------------------------------------------------------
(* The steps that hand a token out, and those that only move a caller on. *)

Moves(c) == Decode(c) \/ DecodeAgain(c) \/ KeysFail(c)

LEMMA Moved ==
  ASSUME NEW c \in Callers, TypeOK, Moves(c)
  PROVE  /\ at[c] \in {"have", "unknown"}
         /\ at' = [at EXCEPT ![c] = at'[c]]
         /\ at'[c] \in {"ok", "refused", "unknown"}
         /\ UNCHANGED <<keycloakVars, providerVars, token, late, tries, rejected>>
BY DEF Moves, Decode, DecodeAgain, KeysFail, Retry, Verdict, Goto, TypeOK

LEMMA StepTypes ==
  ASSUME TypeOK, HaveTokens, [Next]_vars
  PROVE  TypeOK'
<1>1. ASSUME NEW c \in Callers, Ask(c) PROVE TypeOK'
  <2>1. UNCHANGED <<key, keyAge, issued, kid, left, cached, usable, lock, token,
                    late, jwks, jwksAge, rejected, outages>>
    BY <1>1 DEF Ask, keycloakVars, providerVars, validatorVars
  <2>2. at' = [at EXCEPT ![c] = "want"]
    BY <1>1 DEF Ask, Goto
  <2>3. tries' = [tries EXCEPT ![c] = 1]
    <3>1. tries[c] = 0
      BY <1>1 DEF Ask, HaveTokens
    <3>2. tries' = [tries EXCEPT ![c] = tries[c] + 1]
      BY <1>1 DEF Ask
    <3> QED BY <3>1, <3>2
  <2> QED BY <2>1, <2>2, <2>3 DEF TypeOK
<1>2. ASSUME NEW c \in Callers, GetToken(c) PROVE TypeOK'
  <2>1. UNCHANGED <<key, keyAge, issued, kid, left, cached, usable, late, tries,
                    jwks, jwksAge, rejected, outages>>
    BY <1>2 DEF GetToken, keycloakVars, validatorVars
  <2>2. lock' \in {lock, c} /\ token' \in {token, [token EXCEPT ![c] = cached]}
        /\ at' \in {[at EXCEPT ![c] = "have"], [at EXCEPT ![c] = "post"]}
    BY <1>2 DEF GetToken, Gets, Goto
  <2>3. lock' \in Callers \cup {Nobody} /\ token' \in [Callers -> 0..issued']
    BY <2>1, <2>2 DEF TypeOK
  <2>4. at' \in [Callers -> {"idle", "want", "post", "issued", "have", "unknown",
                             "ok", "refused", "failed"}]
    BY <2>2 DEF TypeOK
  <2> QED BY <2>1, <2>3, <2>4 DEF TypeOK
<1>3. ASSUME NEW c \in Callers, Issue(c) PROVE TypeOK'
  <2>1. issued' \in Ids /\ issued' = issued + 1 /\ issued \in Nat
    BY <1>3, Naturals DEF Issue, TypeOK, Ids
  <2>2. token' \in [Callers -> 0..issued']
    <3>1. token' = [token EXCEPT ![c] = issued']
      BY <1>3, <2>1 DEF Issue
    <3>2. 0..issued \subseteq 0..issued' /\ issued' \in 0..issued'
      BY <2>1
    <3> QED BY <3>1, <3>2 DEF TypeOK
  <2>3. kid' \in [Ids -> Kids]
    <3>1. kid' = [kid EXCEPT ![issued'] = key]
      BY <1>3, <2>1 DEF Issue
    <3> QED BY <3>1 DEF TypeOK
  <2>4. left' \in [Ids -> 0..Life]
    <3>1. left' = [left EXCEPT ![issued'] = Life] /\ Life \in 0..Life
      BY <1>3, <2>1, Naturals DEF Issue
    <3> QED BY <3>1 DEF TypeOK
  <2>5. rejected' \subseteq 1..issued' /\ cached' \in 0..issued'
    <3>1. 1..issued \subseteq 1..issued' /\ 0..issued \subseteq 0..issued'
      BY <2>1
    <3> QED BY <1>3, <3>1 DEF Issue, TypeOK, providerVars
  <2>6. at' \in [Callers -> {"idle", "want", "post", "issued", "have", "unknown",
                             "ok", "refused", "failed"}]
        /\ late' \in [Callers -> 0..MaxDelay]
    BY <1>3, Naturals DEF Issue, Goto, TypeOK
  <2>7. UNCHANGED <<key, keyAge, cached, usable, lock, tries, jwks, jwksAge,
                    outages>>
    BY <1>3 DEF Issue, providerVars, validatorVars
  <2> QED BY <2>1, <2>2, <2>3, <2>4, <2>5, <2>6, <2>7 DEF TypeOK
<1>4. ASSUME NEW c \in Callers, Receive(c) PROVE TypeOK'
  <2>1. UNCHANGED <<key, keyAge, issued, kid, left, token, late, tries, jwks,
                    jwksAge, rejected, outages>>
    BY <1>4 DEF Receive, keycloakVars, validatorVars
  <2>2. usable' \in 0..Life
    BY <1>4, Naturals DEF Receive, UsableFor
  <2>3. cached' \in 0..issued /\ cached' # 0
    BY <1>4 DEF Receive, HaveTokens, TypeOK
  <2>4. lock' = Nobody /\ at' = [at EXCEPT ![c] = "have"]
    BY <1>4 DEF Receive, Goto
  <2> QED BY <2>1, <2>2, <2>3, <2>4 DEF TypeOK
<1>5. ASSUME NEW c \in Callers, PostFails(c) PROVE TypeOK'
  <2>1. UNCHANGED <<key, keyAge, issued, kid, left, cached, usable, token, late,
                    tries, jwks, jwksAge, rejected>>
    BY <1>5 DEF PostFails, keycloakVars, validatorVars
  <2>2. lock' = Nobody /\ at' = [at EXCEPT ![c] = "failed"]
    BY <1>5 DEF PostFails, DropLock, Goto
  <2>3. outages' \in 0..MaxOutages
    BY <1>5, Naturals DEF PostFails, TypeOK
  <2> QED BY <2>1, <2>2, <2>3 DEF TypeOK
<1>6. ASSUME NEW c \in Callers, Invalidate(c) PROVE TypeOK'
  <2>1. token[c] \in 1..issued
    BY <1>6 DEF Invalidate, HaveTokens, TypeOK
  <2>2. rejected' \subseteq 1..issued
    BY <1>6, <2>1 DEF Invalidate, TypeOK
  <2>3. tries' \in [Callers -> 0..2]
    BY <1>6 DEF Invalidate, TypeOK
  <2>4. cached' \in 0..issued /\ usable' \in 0..Life /\ usable' = 0
    BY <1>6, Naturals DEF Invalidate, Forget, TypeOK, Ids
  <2>5. at' = [at EXCEPT ![c] = "want"]
        /\ UNCHANGED <<key, keyAge, issued, kid, left, lock, token, late, jwks,
                       jwksAge, outages>>
    BY <1>6 DEF Invalidate, Goto, keycloakVars, validatorVars
  <2> QED BY <2>2, <2>3, <2>4, <2>5 DEF TypeOK
<1>7. ASSUME NEW c \in Callers, Moves(c) PROVE TypeOK'
  <2>1. jwks' \in {0, key, jwks} /\ jwksAge' \in {0, jwksAge}
        /\ (outages' = outages \/ (outages < MaxOutages /\ outages' = outages + 1))
    BY <1>7 DEF Moves, Decode, DecodeAgain, Retry, KeysFail
  <2>2. jwks' \in Kids /\ jwksAge' \in 0..(KeyTTL + 1)
        /\ outages' \in 0..MaxOutages
    BY <2>1, Naturals DEF TypeOK, Kids
  <2>3. at' = [at EXCEPT ![c] = at'[c]] /\ at'[c] \in {"ok", "refused", "unknown"}
        /\ UNCHANGED <<key, keyAge, issued, kid, left, cached, usable, lock,
                       token, late, tries, rejected>>
    BY <1>7, Moved DEF keycloakVars, providerVars
  <2>4. at' \in [Callers -> {"idle", "want", "post", "issued", "have", "unknown",
                             "ok", "refused", "failed"}]
    BY <2>3 DEF TypeOK
  <2> QED BY <2>2, <2>3, <2>4 DEF TypeOK
<1>8. CASE Rotate
  <2>1. key' \in Kids \ {0} /\ keyAge' \in 0..(KeyTTL + 1)
    BY <1>8, Naturals DEF Rotate, TypeOK, Kids
  <2>2. UNCHANGED <<issued, kid, left, cached, usable, lock, at, token, late,
                    tries, jwks, jwksAge, rejected, outages>>
    BY <1>8 DEF Rotate, providerVars, callerVars, validatorVars
  <2> QED BY <2>1, <2>2 DEF TypeOK
<1>9. CASE Tick
  <2>1. left' \in [Ids -> 0..Life]
    <3>1. \A n \in Ids : Less(left[n], 1) \in 0..Life
      BY Naturals DEF Less, TypeOK
    <3> QED BY <1>9, <3>1 DEF Tick
  <2>2. usable' \in 0..Life /\ (usable = 0 => usable' = 0)
    BY <1>9, Naturals DEF Tick, Less, TypeOK
  <2>3. late' \in [Callers -> 0..MaxDelay]
    <3>1. ASSUME NEW c \in Callers, at[c] = "issued"
          PROVE  late[c] + 1 \in 0..MaxDelay
      <4>1. late[c] < MaxDelay
        BY <1>9, <3>1 DEF Tick
      <4>2. late[c] \in 0..MaxDelay
        BY DEF TypeOK
      <4> QED BY <4>1, <4>2, Naturals
    <3>2. late' = [c \in Callers |->
                     IF at[c] = "issued" THEN late[c] + 1 ELSE late[c]]
      BY <1>9 DEF Tick
    <3>3. \A c \in Callers : late[c] \in 0..MaxDelay
      BY DEF TypeOK
    <3> QED BY <3>1, <3>2, <3>3
  <2>4. keyAge' \in 0..(KeyTTL + 1) /\ jwksAge' \in 0..(KeyTTL + 1)
    BY <1>9, Naturals DEF Tick, TypeOK
  <2>5. UNCHANGED <<key, issued, kid, cached, lock, at, token, tries, jwks,
                    rejected, outages>>
    BY <1>9 DEF Tick
  <2> QED BY <2>1, <2>2, <2>3, <2>4, <2>5 DEF TypeOK
<1>10. CASE UNCHANGED vars
  BY <1>10 DEF vars, keycloakVars, providerVars, callerVars, validatorVars, TypeOK
<1> QED
  BY <1>1, <1>2, <1>3, <1>4, <1>5, <1>6, <1>7, <1>8, <1>9, <1>10
     DEF Next, Step, Moves, AllEnded

-----------------------------------------------------------------------------
(* The steps, by what they do to callers and tokens.                       *)

LEMMA Split ==
  [Next]_vars =>
    \/ \E c \in Callers : \/ Ask(c) \/ GetToken(c) \/ Issue(c) \/ Receive(c)
                          \/ PostFails(c) \/ Invalidate(c) \/ Moves(c)
    \/ Rotate \/ Tick \/ UNCHANGED vars
BY DEF Next, Step, Moves, AllEnded

LEMMA StepHave ==
  ASSUME TypeOK, HaveTokens, LockHolds, CachedGood, [Next]_vars
  PROVE  HaveTokens'
<1> USE DEF TypeOK, HaveTokens, Goto
<1>1. ASSUME NEW c \in Callers, Ask(c) \/ PostFails(c) PROVE HaveTokens'
  BY <1>1 DEF Ask, PostFails
<1>2. ASSUME NEW c \in Callers, GetToken(c) PROVE HaveTokens'
  BY <1>2 DEF GetToken, Gets
<1>3. ASSUME NEW c \in Callers, Issue(c) PROVE HaveTokens'
  <2>1. token' = [token EXCEPT ![c] = issued + 1] /\ issued + 1 >= 1
    BY <1>3 DEF Issue, Ids, Naturals
  <2> QED BY <1>3, <2>1 DEF Issue
<1>4. ASSUME NEW c \in Callers, Receive(c) \/ Invalidate(c) PROVE HaveTokens'
  BY <1>4 DEF Receive, Invalidate
<1>5. ASSUME NEW c \in Callers, Moves(c) PROVE HaveTokens'
  BY <1>5, Moved DEF callerVars
<1>6. CASE UNCHANGED <<at, token, tries>>
  BY <1>6
<1> QED
  BY <1>1, <1>2, <1>3, <1>4, <1>5, <1>6, Split DEF Rotate, Tick, vars, callerVars

LEMMA StepLock ==
  ASSUME TypeOK, LockHolds, [Next]_vars
  PROVE  LockHolds'
<1> USE Naturals DEF TypeOK, LockHolds, Goto
<1>1. ASSUME NEW c \in Callers, Ask(c) \/ Invalidate(c) PROVE LockHolds'
  BY <1>1 DEF Ask, Invalidate, providerVars
<1>2. ASSUME NEW c \in Callers, GetToken(c) PROVE LockHolds'
  BY <1>2 DEF GetToken, Gets, LockFree
<1>3. ASSUME NEW c \in Callers, Issue(c) PROVE LockHolds'
  BY <1>3 DEF Issue, providerVars
<1>4. ASSUME NEW c \in Callers, Receive(c) \/ PostFails(c) PROVE LockHolds'
  BY <1>4 DEF Receive, PostFails, DropLock
<1>5. ASSUME NEW c \in Callers, Moves(c) PROVE LockHolds'
  BY <1>5, Moved DEF providerVars
<1>6. CASE UNCHANGED <<at, lock>>
  BY <1>6
<1> QED
  BY <1>1, <1>2, <1>3, <1>4, <1>5, <1>6, Split
     DEF Rotate, Tick, vars, callerVars, providerVars

LEMMA StepWanted ==
  ASSUME TypeOK, LockHolds, Wanted, [Next]_vars
  PROVE  Wanted'
<1> USE DEF TypeOK, Wanted, Goto
<1>1. ASSUME NEW c \in Callers, Ask(c) \/ PostFails(c) \/ Issue(c)
      PROVE  Wanted'
  BY <1>1 DEF Ask, PostFails, Issue, providerVars
<1>2. ASSUME NEW c \in Callers, GetToken(c) PROVE Wanted'
  <2>1. usable' = usable
    BY <1>2 DEF GetToken
  <2>2. usable \in Nat /\ (usable = 0 \/ cached # 0)
    BY Naturals
  <2> QED BY <1>2, <2>1, <2>2 DEF GetToken, Gets
<1>3. ASSUME NEW c \in Callers, Receive(c) PROVE Wanted'
  BY <1>3 DEF Receive, LockHolds
<1>4. ASSUME NEW c \in Callers, Invalidate(c) PROVE Wanted'
  BY <1>4 DEF Invalidate, Forget
<1>5. ASSUME NEW c \in Callers, Moves(c) PROVE Wanted'
  BY <1>5, Moved DEF providerVars
<1>6. CASE Tick
  <2>1. at' = at /\ (usable = 0 => usable' = 0)
    BY <1>6 DEF Tick, Less
  <2> QED BY <2>1
<1>7. CASE UNCHANGED <<at, usable>>
  BY <1>7
<1> QED
  BY <1>1, <1>2, <1>3, <1>4, <1>5, <1>6, <1>7, Split
     DEF Rotate, vars, callerVars, providerVars

LEMMA StepWay ==
  ASSUME TypeOK, HaveTokens, LockHolds, OnItsWay, [Next]_vars
  PROVE  OnItsWay'
<1> USE DEF TypeOK, OnItsWay, Goto
<1>1. ASSUME NEW c \in Callers, Ask(c) \/ PostFails(c) \/ Receive(c)
      PROVE  OnItsWay'
  BY <1>1 DEF Ask, PostFails, Receive, keycloakVars
<1>2. ASSUME NEW c \in Callers, GetToken(c) PROVE OnItsWay'
  <2>1. \A d \in Callers : at[d] # "issued"
    BY <1>2, Naturals DEF GetToken, LockFree, LockHolds
  <2>2. \A d \in Callers : at'[d] # "issued"
    BY <1>2, <2>1 DEF GetToken, Gets
  <2> QED BY <2>2
<1>3. ASSUME NEW c \in Callers, Issue(c) PROVE OnItsWay'
  <2>1. \A d \in Callers \ {c} : at'[d] # "issued"
    BY <1>3 DEF Issue, LockHolds
  <2>2. token'[c] = issued + 1 /\ issued \in Nat /\ issued + 1 \in Ids
    BY <1>3, Naturals DEF Issue, Ids
  <2>3. left'[token'[c]] = Life /\ late'[c] = 0 /\ rejected' = rejected
    BY <1>3, <2>2 DEF Issue
  <2>4. Life - 0 = Life
    BY Naturals
  <2>5. token'[c] \notin rejected'
    <3>1. issued + 1 \notin 1..issued
      BY <2>2
    <3> QED BY <2>2, <2>3, <3>1
  <2>6. \A d \in Callers \ {c} : token'[d] # token'[c]
    <3>1. \A d \in Callers \ {c} : token'[d] = token[d] /\ token[d] \in 0..issued
      BY <1>3 DEF Issue
    <3> QED BY <2>2, <3>1
  <2> QED BY <2>1, <2>3, <2>4, <2>5, <2>6
<1>4. ASSUME NEW c \in Callers, Invalidate(c) PROVE OnItsWay'
  <2>1. rejected' = rejected \cup {token[c]} /\ at' = [at EXCEPT ![c] = "want"]
        /\ UNCHANGED <<left, late, token>>
    BY <1>4 DEF Invalidate, keycloakVars
  <2> QED BY <2>1
<1>5. ASSUME NEW c \in Callers, Moves(c) PROVE OnItsWay'
  BY <1>5, Moved DEF keycloakVars
<1>6. CASE Tick
  <2> SUFFICES ASSUME NEW c \in Callers, at'[c] = "issued"
               PROVE  /\ left'[token'[c]] = Life - late'[c]
                      /\ token'[c] \notin rejected'
                      /\ \A d \in Callers \ {c} : token'[d] # token'[c]
    OBVIOUS
  <2>1. UNCHANGED <<at, token, rejected>>
    BY <1>6 DEF Tick
  <2>2. late'[c] = late[c] + 1 /\ late[c] < MaxDelay /\ late[c] \in Nat
    BY <1>6, <2>1 DEF Tick
  <2>t. token[c] \in Ids
    BY Naturals DEF Ids
  <2>3. left[token[c]] = Life - late[c] /\ left[token[c]] \in Nat
    BY <2>1, <2>t, Naturals
  <2>4. left'[token[c]] = Less(left[token[c]], 1)
    BY <1>6, <2>t DEF Tick
  <2>5. left'[token[c]] = Life - late'[c]
    BY <2>2, <2>3, <2>4, Naturals DEF Less
  <2> QED BY <2>1, <2>5
<1>7. CASE UNCHANGED <<at, token, late, left, rejected>>
  BY <1>7
<1> QED
  BY <1>1, <1>2, <1>3, <1>4, <1>5, <1>6, <1>7, Split
     DEF Rotate, vars, callerVars, keycloakVars

LEMMA StepCached ==
  ASSUME TypeOK, HaveTokens, OnItsWay, CachedGood, [Next]_vars
  PROVE  CachedGood'
<1> USE DEF TypeOK, CachedGood
<1>1. ASSUME NEW c \in Callers,
             Ask(c) \/ GetToken(c) \/ PostFails(c)
      PROVE  CachedGood'
  BY <1>1 DEF Ask, GetToken, PostFails, keycloakVars, providerVars
<1>2. ASSUME NEW c \in Callers, Issue(c) PROVE CachedGood'
  <2>1. cached # issued + 1 /\ left' = [left EXCEPT ![issued + 1] = Life]
        /\ UNCHANGED <<cached, usable, rejected>>
    BY <1>2 DEF Issue, providerVars, Ids
  <2>2. cached \in Ids
    BY Naturals DEF Ids
  <2> QED BY <2>1, <2>2
<1>3. ASSUME NEW c \in Callers, Receive(c) PROVE CachedGood'
  <2>1. cached' = token[c] /\ UNCHANGED <<left, rejected>> /\ usable' = UsableFor
    BY <1>3 DEF Receive, keycloakVars
  <2>2. left[token[c]] = Life - late[c] /\ token[c] \notin rejected
    BY <1>3 DEF Receive, OnItsWay
  <2>3. late[c] \in 0..MaxDelay
    OBVIOUS
  <2>4. UsableFor <= Life - late[c]
    BY <2>3, Naturals DEF UsableFor
  <2> QED BY <2>1, <2>2, <2>4
<1>4. ASSUME NEW c \in Callers, Invalidate(c) PROVE CachedGood'
  <2>1. cached' = 0 /\ usable' = 0 /\ left' = left
        /\ rejected' = rejected \cup {token[c]}
    BY <1>4 DEF Invalidate, Forget, keycloakVars
  <2>2. token[c] \in Nat \ {0} /\ 0 \in Ids
    BY <1>4, Naturals DEF Invalidate, HaveTokens, Ids
  <2>3. left[0] \in Nat /\ 0 \notin rejected
    BY <2>2
  <2> QED BY <2>1, <2>2, <2>3
<1>5. ASSUME NEW c \in Callers, Moves(c) PROVE CachedGood'
  BY <1>5, Moved DEF keycloakVars, providerVars
<1>6. CASE Tick
  <2>1. cached \in Ids /\ cached' = cached /\ rejected' = rejected
    BY <1>6, Naturals DEF Tick, Ids
  <2>2. usable' = Less(usable, 1) /\ left'[cached] = Less(left[cached], 1)
    BY <1>6, <2>1 DEF Tick
  <2>3. usable \in Nat /\ left[cached] \in Nat /\ usable <= left[cached]
    BY <2>1
  <2>4. Less(usable, 1) <= Less(left[cached], 1)
    BY <2>3 DEF Less
  <2> QED BY <2>1, <2>2, <2>4
<1>7. CASE UNCHANGED <<cached, usable, left, rejected>>
  BY <1>7
<1> QED
  BY <1>1, <1>2, <1>3, <1>4, <1>5, <1>6, <1>7, Split
     DEF Rotate, vars, keycloakVars, providerVars

LEMMA StepPInv == PInv /\ [Next]_vars => PInv'
BY StepTypes, StepHave, StepLock, StepWanted, StepWay, StepCached DEF PInv

\* No step breaks PInv.
THEOREM Inductive == Spec => []PInv
BY InitPInv, StepPInv, PTL DEF Spec

LEMMA StepKeys ==
  ASSUME TypeOK, KeysAge, [Next]_vars
  PROVE  KeysAge'
<1> USE Naturals DEF TypeOK, KeysAge
<1>1. ASSUME NEW c \in Callers, Moves(c) PROVE KeysAge'
  BY <1>1 DEF Moves, Decode, DecodeAgain, Retry, KeysFail, keycloakVars,
              validatorVars
<1>2. CASE Rotate
  BY <1>2 DEF Rotate, validatorVars
<1>3. CASE Tick
  BY <1>3 DEF Tick
<1>4. CASE UNCHANGED <<key, keyAge, jwks, jwksAge>>
  BY <1>4
<1>5. ASSUME NEW c \in Callers,
             \/ Ask(c) \/ GetToken(c) \/ Issue(c) \/ Receive(c)
             \/ PostFails(c) \/ Invalidate(c)
      PROVE  UNCHANGED <<key, keyAge, jwks, jwksAge>>
  BY <1>5 DEF Ask, GetToken, Issue, Receive, PostFails, Invalidate,
              keycloakVars, validatorVars
<1> QED
  BY <1>1, <1>2, <1>3, <1>4, <1>5, Split DEF vars, keycloakVars, validatorVars

-----------------------------------------------------------------------------
\* A caller gets a token from the provider in two ways: out of its cache, or as
\* the answer to a request of its own.
LEMMA Handed ==
  ASSUME PInv, [Next]_vars, NEW c \in Callers, GetsOne(c)
  PROVE  \/ GetToken(c) /\ token'[c] = cached /\ cached # 0 /\ usable > 0
         \/ Receive(c) /\ token'[c] = token[c]
<1> USE DEF PInv, TypeOK, GetsOne, Goto
<1>1. ASSUME NEW d \in Callers, Ask(d) \/ Issue(d) \/ PostFails(d)
                                \/ Invalidate(d)
      PROVE  FALSE
  BY <1>1 DEF Ask, Issue, PostFails, Invalidate
<1>2. ASSUME NEW d \in Callers, Moves(d) PROVE FALSE
  BY <1>2, Moved
<1>3. ASSUME NEW d \in Callers, GetToken(d)
      PROVE  GetToken(c) /\ token'[c] = cached /\ cached # 0 /\ usable > 0
  BY <1>3 DEF GetToken, Gets
<1>4. ASSUME NEW d \in Callers, Receive(d)
      PROVE  Receive(c) /\ token'[c] = token[c]
  BY <1>4 DEF Receive
<1>5. CASE at' = at
  BY <1>5
<1> QED
  BY <1>1, <1>2, <1>3, <1>4, <1>5, Split DEF Rotate, Tick, vars, callerVars

\* What a caller gets has not expired, however late it came ...
LEMMA HandsFresh ==
  ASSUME PInv, [Next]_vars, NEW c \in Callers, GetsOne(c)
  PROVE  left[token'[c]] > 0
<1> USE Naturals DEF PInv, TypeOK
<1>1. CASE cached # 0 /\ usable > 0 /\ token'[c] = cached
  <2>1. cached \in Ids
    BY DEF Ids
  <2> QED BY <1>1, <2>1 DEF CachedGood
<1>2. CASE Receive(c) /\ token'[c] = token[c]
  <2>1. left[token[c]] = Life - late[c] /\ late[c] \in 0..MaxDelay
    BY <1>2 DEF Receive, OnItsWay
  <2> QED BY <1>2, <2>1
<1> QED BY <1>1, <1>2, Handed

\* ... and was not refused before.
LEMMA HandsUnrejected ==
  ASSUME PInv, [Next]_vars, NEW c \in Callers, GetsOne(c)
  PROVE  token'[c] \notin rejected
BY Handed DEF PInv, CachedGood, OnItsWay, Receive

LEMMA Shares ==
  ASSUME PInv, [Next]_vars, issued' # issued
  PROVE  cached = 0 \/ usable = 0
<1>1. PICK c \in Callers : Issue(c)
  BY Split, Moved
     DEF PInv, Ask, GetToken, Receive, PostFails, Invalidate, Rotate, Tick, vars,
         keycloakVars
<1> QED BY <1>1 DEF PInv, Wanted, Issue

\* The provider never hands out an expired token or one that was refused, and
\* asks for no token while it has a good one.
THEOREM ProviderIsSound == Spec => ProviderSound
<1>1. PInv => TypeOK
  BY DEF PInv
<1>2. PInv /\ [Next]_vars =>
        [\A c \in Callers : GetsOne(c) => left[token'[c]] > 0]_vars
  BY HandsFresh
<1>3. PInv /\ [Next]_vars => [issued' # issued => cached = 0 \/ usable = 0]_vars
  BY Shares
<1>4. PInv /\ [Next]_vars =>
        [\A c \in Callers : GetsOne(c) => token'[c] \notin rejected]_vars
  BY HandsUnrejected
<1> QED
  BY <1>1, <1>2, <1>3, <1>4, Inductive, PTL
     DEF Spec, ProviderSound, FreshToken, SharedToken, NotAgain

-----------------------------------------------------------------------------
\* Who is refused, or accepted, was judged just now.
LEMMA Judged ==
  ASSUME TypeOK, [Next]_vars, NEW c \in Callers,
         at'[c] \in {"ok", "refused"}, at'[c] # at[c]
  PROVE  Moves(c)
<1> USE DEF TypeOK, Goto
<1>1. ASSUME NEW d \in Callers,
             \/ Ask(d) \/ GetToken(d) \/ Issue(d) \/ Receive(d)
             \/ PostFails(d) \/ Invalidate(d)
      PROVE  FALSE
  BY <1>1 DEF Ask, GetToken, Gets, Issue, Receive, PostFails, Invalidate
<1>2. ASSUME NEW d \in Callers, Moves(d) PROVE Moves(c)
  BY <1>2, Moved
<1> QED BY <1>1, <1>2, Split DEF Rotate, Tick, vars, callerVars

\* A live token of the current key is accepted unless Keycloak fails, and a key
\* that was retired is trusted for jwks_cache_ttl_seconds and no longer.
THEOREM ValidatorIsSound == Spec => ValidatorSound
<1>1. ASSUME TypeOK, [Next]_vars, NEW c \in Callers, at'[c] = "refused",
             at[c] # "refused"
      PROVE  left[token[c]] = 0 \/ kid[token[c]] # key \/ outages' > 0
  <2>1. Moves(c) /\ token[c] \in Ids
    <3>1. Moves(c)
      BY <1>1, Judged
    <3>2. issued \in 0..MaxTokens /\ token[c] \in 0..issued
      BY <1>1 DEF TypeOK, Ids
    <3> QED BY <3>1, <3>2, Naturals DEF Ids
  <2> USE Naturals DEF TypeOK, Goto
  <2>2. CASE KeysFail(c)
    <3>1. outages' = outages + 1
      BY <2>2, Zenon DEF KeysFail
    <3>2. outages \in Nat
      BY <1>1 DEF TypeOK
    <3> QED BY <3>1, <3>2
  <2>3. CASE Decode(c)
    BY <1>1, <2>1, <2>3 DEF Decode, Verdict
  <2>4. CASE DecodeAgain(c)
    BY <1>1, <2>1, <2>4 DEF DecodeAgain, Retry, Verdict
  <2> QED BY <2>1, <2>2, <2>3, <2>4 DEF Moves
<1>2. ASSUME TypeOK, KeysAge, [Next]_vars, NEW c \in Callers, at'[c] = "ok",
             at[c] # "ok"
      PROVE  kid[token[c]] = key \/ keyAge <= KeyTTL
  <2> USE Naturals DEF TypeOK, Goto
  <2>1. Moves(c)
    BY <1>2, Judged
  <2>2. CASE KeysFail(c)
    BY <1>2, <2>2 DEF KeysFail
  <2>3. CASE Decode(c)
    BY <1>2, <2>3 DEF Decode, Verdict, Expired, KeysAge
  <2>4. CASE DecodeAgain(c)
    BY <1>2, <2>4 DEF DecodeAgain, Retry, Verdict
  <2> QED BY <2>1, <2>2, <2>3, <2>4 DEF Moves
<1>3. PInv /\ KeysAge /\ [Next]_vars => KeysAge'
  BY StepKeys DEF PInv
<1>4. PInv /\ [Next]_vars =>
        [\A c \in Callers :
           at'[c] = "refused" /\ at[c] # "refused" =>
             left[token[c]] = 0 \/ kid[token[c]] # key \/ outages' > 0]_vars
  BY <1>1 DEF PInv
<1>5. PInv /\ KeysAge /\ [Next]_vars =>
        [\A c \in Callers :
           at'[c] = "ok" /\ at[c] # "ok" =>
             kid[token[c]] = key \/ keyAge <= KeyTTL]_vars
  BY <1>2 DEF PInv
<1> QED
  BY <1>3, <1>4, <1>5, InitPInv, Inductive, PTL
     DEF Spec, ValidatorSound, ValidAccepted, RetiredKey
=============================================================================
