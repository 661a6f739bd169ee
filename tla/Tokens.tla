------------------------------- MODULE Tokens --------------------------------
(***************************************************************************)
(* Service-to-service tokens: callers in one service share a               *)
(* ClientCredentialsTokenProvider (security/service_token.py), and the     *)
(* service they call checks the tokens with a KeycloakTokenValidator       *)
(* (security/keycloak.py), while Keycloak, which is external, rotates its  *)
(* signing key.  A caller that is refused invalidates and tries once more. *)
(***************************************************************************)
EXTENDS Naturals, FiniteSets

CONSTANTS
  Callers,
  Nobody,         \* holds the provider's lock
  Life,           \* expires_in, in ticks
  Leeway,         \* refresh_leeway_seconds
  MaxDelay,       \* from the issue of a token to the answer (timeout=10.0)
  KeyTTL,         \* jwks_cache_ttl_seconds
  MaxTokens,      \* bound: tokens issued
  MaxRotations,   \* bound: key rotations
  MaxOutages      \* bound: requests to Keycloak that fail

ASSUME TokensAssumption ==
  /\ Nobody \notin Callers
  /\ {Life, Leeway, MaxDelay, KeyTTL, MaxTokens, MaxRotations, MaxOutages}
       \subseteq Nat
  /\ Life > MaxDelay /\ Leeway >= MaxDelay

Ids == 0..MaxTokens            \* tokens; 0 is None
Kids == 0..(MaxRotations + 1)  \* keys; 0: no key set was fetched

VARIABLES
  key, keyAge,    \* Keycloak's signing key, and since when
  issued,         \* the tokens issued so far
  kid, left,      \* of each token: its key, what is left of its life
  cached, usable, \* _token, and what is left until _expires_at
  lock,           \* the provider's lock
  at,             \* where each caller is
  token,          \* the token it has
  late,           \* how long it has waited for an issued token
  tries,          \* how often it asked for one
  jwks, jwksAge,  \* the validator's key set and its age
  rejected,       \* history: tokens that were reported by invalidate
  outages

keycloakVars == <<key, keyAge, issued, kid, left>>
providerVars == <<cached, usable, lock>>
callerVars == <<at, token, late, tries>>
validatorVars == <<jwks, jwksAge>>
vars == <<keycloakVars, providerVars, callerVars, validatorVars, rejected,
          outages>>

Init ==
  /\ key = 1 /\ keyAge = 0 /\ issued = 0
  /\ kid = [n \in Ids |-> 0] /\ left = [n \in Ids |-> 0]
  /\ cached = 0 /\ usable = 0 /\ lock = Nobody
  /\ at = [c \in Callers |-> "idle"] /\ token = [c \in Callers |-> 0]
  /\ late = [c \in Callers |-> 0] /\ tries = [c \in Callers |-> 0]
  /\ jwks = 0 /\ jwksAge = 0
  /\ rejected = {} /\ outages = 0

Less(a, b) == IF a < b THEN 0 ELSE a - b

Goto(c, l) == at' = [at EXCEPT ![c] = l]

Gets(c, n) == Goto(c, "have") /\ token' = [token EXCEPT ![c] = n]

-----------------------------------------------------------------------------
(* The provider. *)

Ask(c) ==
  /\ at[c] = "idle"
  /\ Goto(c, "want")
  /\ tries' = [tries EXCEPT ![c] = @ + 1]
  /\ UNCHANGED <<keycloakVars, providerVars, token, late, validatorVars,
                 rejected, outages>>

\* Slip: the lock does not exclude anyone.
LockOpen == TRUE

LockFree == lock = Nobody

\* get_token, under the lock: the cached token, or a request for a new one.
GetToken(c) ==
  /\ at[c] = "want" /\ LockFree
  /\ IF cached # 0 /\ usable > 0
     THEN Gets(c, cached) /\ UNCHANGED lock
     ELSE Goto(c, "post") /\ lock' = c /\ UNCHANGED token
  /\ UNCHANGED <<keycloakVars, cached, usable, late, tries, validatorVars,
                 rejected, outages>>

\* Keycloak issues a token; its answer is on the way.
Issue(c) ==
  /\ at[c] = "post" /\ issued < MaxTokens
  /\ issued' = issued + 1
  /\ kid' = [kid EXCEPT ![issued + 1] = key]
  /\ left' = [left EXCEPT ![issued + 1] = Life]
  /\ Goto(c, "issued") /\ token' = [token EXCEPT ![c] = issued + 1]
  /\ late' = [late EXCEPT ![c] = 0]
  /\ UNCHANGED <<key, keyAge, providerVars, tries, validatorVars, rejected,
                 outages>>

\* max(expires_in - leeway, 1.0), counted from the answer.
UsableFor == IF Life > Leeway THEN Life - Leeway ELSE 1

\* The answer: cache the token, and release the lock.
Receive(c) ==
  /\ at[c] = "issued"
  /\ cached' = token[c] /\ usable' = UsableFor
  /\ lock' = Nobody
  /\ Goto(c, "have")
  /\ UNCHANGED <<keycloakVars, token, late, tries, validatorVars, rejected,
                 outages>>

\* Slip: the lock is not released on an error.
KeepLock == lock' = lock

DropLock == lock' = Nobody

\* The request fails or times out: get_token raises.
PostFails(c) ==
  /\ at[c] \in {"post", "issued"}
  /\ outages < MaxOutages /\ outages' = outages + 1
  /\ DropLock
  /\ Goto(c, "failed")
  /\ UNCHANGED <<keycloakVars, cached, usable, token, late, tries,
                 validatorVars, rejected>>

Forget == cached' = 0 /\ usable' = 0

\* A 401 downstream: invalidate, which takes no lock, and ask again.
Invalidate(c) ==
  /\ at[c] = "refused" /\ tries[c] = 1
  /\ Forget
  /\ rejected' = rejected \cup {token[c]}
  /\ Goto(c, "want")
  /\ tries' = [tries EXCEPT ![c] = 2]
  /\ UNCHANGED <<keycloakVars, lock, token, late, validatorVars, outages>>

-----------------------------------------------------------------------------
(* The validator. *)

\* _get_jwks_client: there is none, or it has outlived its TTL.
Expired == jwks = 0 \/ jwksAge > KeyTTL

\* jwt.decode with the token's own key: the signature is good, the life counts.
Verdict(c) == Goto(c, IF left[token[c]] > 0 THEN "ok" ELSE "refused")

\* _decode_once; an unknown kid is a PyJWKClientError.
Decode(c) ==
  /\ at[c] = "have"
  /\ LET known == IF Expired THEN key ELSE jwks IN
     /\ jwks' = known
     /\ jwksAge' = IF Expired THEN 0 ELSE jwksAge
     /\ IF kid[token[c]] = known THEN Verdict(c) ELSE Goto(c, "unknown")
  /\ UNCHANGED <<keycloakVars, providerVars, token, late, tries, rejected,
                 outages>>

\* Slip: an unknown kid is refused like any other bad token.
RetryStale(c) == UNCHANGED validatorVars /\ Goto(c, "refused")

\* "Refresh JWKS exactly once": a key that is still unknown is refused.
Retry(c) ==
  /\ jwks' = key /\ jwksAge' = 0
  /\ IF kid[token[c]] = key THEN Verdict(c) ELSE Goto(c, "refused")

DecodeAgain(c) ==
  /\ at[c] = "unknown"
  /\ Retry(c)
  /\ UNCHANGED <<keycloakVars, providerVars, token, late, tries, rejected,
                 outages>>

\* Keycloak does not answer: a PyJWKClientError too, and at last a 401.  The new
\* client has no keys yet.
KeysFail(c) ==
  /\ \/ at[c] = "have" /\ Expired /\ Goto(c, "unknown")
     \/ at[c] = "unknown" /\ Goto(c, "refused")
  /\ outages < MaxOutages /\ outages' = outages + 1
  /\ jwks' = 0 /\ jwksAge' = 0
  /\ UNCHANGED <<keycloakVars, providerVars, token, late, tries, rejected>>

-----------------------------------------------------------------------------
Rotate ==
  /\ key <= MaxRotations
  /\ key' = key + 1 /\ keyAge' = 0
  /\ UNCHANGED <<issued, kid, left, providerVars, callerVars, validatorVars,
                 rejected, outages>>

Ended(c) == at[c] \in {"ok", "failed"} \/ (at[c] = "refused" /\ tries[c] = 2)

\* One tick.  A token that is late is a time-out.
Tick ==
  /\ \E c \in Callers : ~Ended(c)
  /\ \A c \in Callers : at[c] = "issued" => late[c] < MaxDelay
  /\ keyAge' = IF keyAge > KeyTTL THEN keyAge ELSE keyAge + 1
  /\ jwksAge' = IF jwksAge > KeyTTL THEN jwksAge ELSE jwksAge + 1
  /\ left' = [n \in Ids |-> Less(left[n], 1)]
  /\ usable' = Less(usable, 1)
  /\ late' = [c \in Callers |->
                IF at[c] = "issued" THEN late[c] + 1 ELSE late[c]]
  /\ UNCHANGED <<key, issued, kid, cached, lock, at, token, tries, jwks,
                 rejected, outages>>

AllEnded == (\A c \in Callers : Ended(c)) /\ UNCHANGED vars

Step(c) == \/ GetToken(c) \/ Issue(c) \/ Receive(c) \/ Invalidate(c)
           \/ Decode(c) \/ DecodeAgain(c)

Next ==
  \/ \E c \in Callers : Ask(c) \/ Step(c) \/ PostFails(c) \/ KeysFail(c)
  \/ Rotate \/ Tick \/ AllEnded

Spec == Init /\ [][Next]_vars

FairSpec == Spec /\ \A c \in Callers : SF_vars(Step(c))

-----------------------------------------------------------------------------
(* Properties. *)

TypeOK ==
  /\ key \in Kids \ {0} /\ keyAge \in 0..(KeyTTL + 1)
  /\ issued \in Ids /\ cached \in 0..issued
  /\ kid \in [Ids -> Kids] /\ left \in [Ids -> 0..Life]
  /\ usable \in 0..Life /\ (cached = 0 => usable = 0)
  /\ lock \in Callers \cup {Nobody}
  /\ at \in [Callers -> {"idle", "want", "post", "issued", "have", "unknown",
                         "ok", "refused", "failed"}]
  /\ token \in [Callers -> 0..issued]
  /\ late \in [Callers -> 0..MaxDelay] /\ tries \in [Callers -> 0..2]
  /\ jwks \in Kids /\ jwksAge \in 0..(KeyTTL + 1)
  /\ rejected \subseteq 1..issued
  /\ outages \in 0..MaxOutages

GetsOne(c) == at[c] # "have" /\ at'[c] = "have"

\* refresh_leeway_seconds: get_token never returns a token that has expired,
\* however late Keycloak's answer came.
FreshToken == [][\A c \in Callers : GetsOne(c) => left[token'[c]] > 0]_vars

\* Callers share a token: none is fetched while the cached one is good, whoever
\* waited for the lock meanwhile.
SharedToken == [][issued' # issued => cached = 0 \/ usable = 0]_vars

\* "Drop the cached token": one that was refused is not handed out again.
NotAgain == [][\A c \in Callers : GetsOne(c) => token'[c] \notin rejected]_vars

\* "Unknown kid - likely key rotation": a live token of the current key is
\* accepted whatever key set is cached, as long as Keycloak answers.
ValidAccepted ==
  [][\A c \in Callers :
       at'[c] = "refused" /\ at[c] # "refused" =>
         left[token[c]] = 0 \/ kid[token[c]] # key \/ outages' > 0]_vars

\* jwks_cache_ttl_seconds: a key that was retired is trusted no longer than that.
RetiredKey ==
  [][\A c \in Callers :
       at'[c] = "ok" /\ at[c] # "ok" =>
         kid[token[c]] = key \/ keyAge <= KeyTTL]_vars

\* The provider hands out good tokens, and fetches no more than it needs.
ProviderSound == []TypeOK /\ FreshToken /\ SharedToken /\ NotAgain

\* The validator trusts the keys of Keycloak, and no others.
ValidatorSound == ValidAccepted /\ RetiredKey

\* Every caller gets an answer, also those behind one whose request failed.
Served ==
  \A c \in Callers : (at[c] = "want") ~> (Ended(c) \/ issued = MaxTokens)
=============================================================================
