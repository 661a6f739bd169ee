------------------------------ MODULE Endpoint -------------------------------
(***************************************************************************)
(* A request on its way to a handler: the dependencies of the routers and  *)
(* of the route (security/auth.py, on top of FastAPI), the claims of its   *)
(* token (security/keycloak.py, decode), its rule (Requirements), and the  *)
(* problem document that any exception becomes (Problems).  The audit of   *)
(* testing/routes.py looks at the same routes.                             *)
(***************************************************************************)
EXTENDS Requirements, Problems

CONSTANTS
  Families,    \* routes, and the requests and settings to try them with
  AllowedAzp   \* allowed_azp; empty: not checked

VARIABLES
  route, token, apiKey, body,  \* the request
  keyed,      \* HTTP__INTERNAL_API_KEY is set
  base,       \* problem_type_base_url; "/problems" when it is not set
  at, todo,   \* progress, and what is still to be solved of each level
  solved,     \* FastAPI's cache of this request: by callable
  user,       \* the claims of current_user
  decodes,    \* history: how often the token was decoded
  raised, response, page

requestVars == <<route, token, apiKey, body, keyed, base>>
vars == <<requestVars, at, todo, solved, user, decodes, raised, response, page>>

-----------------------------------------------------------------------------
(* Routers and dependencies.  A router is a kind and dependencies of its   *)
(* own; a dependency is a callable.                                        *)

CurrentUser == [call |-> "current_user"]
OptionalUser == [call |-> "optional_user"]
CheckApiKey == [call |-> "check_api_key"]
Requires(rule) == [call |-> "requires", rule |-> rule]
Plain == [call |-> "plain"]   \* a dependency of the service, not a scheme

Dependencies ==
  {CurrentUser, OptionalUser, CheckApiKey, Plain} \cup {Requires(r) : r \in Rules}

Routers == [kind : {"protected", "internal", "plain"}, deps : Seq(Dependencies)]

ASSUME EndpointAssumption ==
  \A f \in Families :
    /\ f.routes \subseteq
         [routers : Seq(Routers), deps : Seq(Dependencies), listed : BOOLEAN,
          inSchema : BOOLEAN]
    /\ \A t \in f.tokens : {t.valid, t.sub} \subseteq BOOLEAN
    /\ f.keyed \subseteq BOOLEAN

ProtectedRouter(own) == <<CurrentUser>> \o own

InternalRouter(own) == IF keyed THEN <<CheckApiKey>> \o own ELSE own

RouterDeps(router) ==
  CASE router.kind = "protected" -> ProtectedRouter(router.deps)
    [] router.kind = "internal" -> InternalRouter(router.deps)
    [] router.kind = "plain" -> router.deps

\* include_router and APIRouter: a route has the dependencies of its routers,
\* from the outermost one inwards, and then its own.
Levels == 1..(Len(route.routers) + 1)

Effective ==
  [i \in Levels |->
     IF i \in DOMAIN route.routers THEN RouterDeps(route.routers[i])
     ELSE route.deps]

Declared == UNION {Range(Effective[i]) : i \in Levels}

\* OpenAPI "security": something among them is built on HTTPBearer or APIKeyHeader.
DeclaresScheme == \E d \in Declared : d # Plain

\* assert_routes_protected reads app.openapi(), which leaves out the routes with
\* include_in_schema=False.
Unprotected == route.inSchema /\ ~route.listed /\ ~DeclaresScheme

-----------------------------------------------------------------------------
Unauthorized == HttpException(401, <<>>, {"WWW-Authenticate"})
InvalidKey == HttpException(401, <<>>, {})
Crash == [kind |-> "other"]
NoResponse == ProblemResponse(0, AboutBlank, None, <<>>, {})

Init ==
  /\ \E f \in Families :
       /\ route \in f.routes /\ token \in f.tokens /\ body \in f.bodies
       /\ apiKey \in f.keys /\ keyed \in f.keyed /\ base \in f.bases
  /\ at = "start" /\ todo = <<>> /\ solved = {} /\ user = {} /\ decodes = 0
  /\ raised = Crash /\ response = NoResponse /\ page = Page(None)

Raise(e) ==
  /\ at' = "raised" /\ raised' = e
  /\ UNCHANGED <<requestVars, todo, solved, user, response, page>>

\* FastAPI parses the body first, and solves the dependencies then.
Start ==
  /\ at = "start"
  /\ IF body = "malformed" THEN Raise([kind |-> "validation"])
     ELSE /\ at' = "solving" /\ todo' = Effective
          /\ UNCHANGED <<requestVars, solved, user, raised, response, page>>
  /\ UNCHANGED decodes

\* The level whose turn it is.
Turn(i) == i \in Levels /\ todo[i] # <<>> /\ \A j \in 1..(i - 1) : todo[j] = <<>>

\* The first dependency of level i is solved.
Solve(i) ==
  /\ todo' = [todo EXCEPT ![i] = Tail(@)]
  /\ solved' = solved \cup {Head(todo[i])}
  /\ UNCHANGED <<requestVars, at, raised, response, page>>

\* use_cache, keyed on the callable.
Cached(i) == Head(todo[i]) \in solved

Solving(i, call) ==
  at = "solving" /\ Turn(i) /\ ~Cached(i) /\ Head(todo[i]).call = call

FromCache(i) ==
  /\ at = "solving" /\ Turn(i) /\ Cached(i)
  /\ Solve(i) /\ UNCHANGED <<user, decodes>>

Bearer == token.scheme = "bearer"

\* TokenClaims, with the roles of this client and no other.
Claims(t) ==
  {Atom("role", r) : r \in t.realm \cup t.own} \cup
  {Atom("scope", s) : s \in t.scope} \cup {Atom("custom", c) : c \in t.raw}

\* Slip: a token that does not say which client it was issued to is accepted.
DecodeTrusting(t) ==
  CASE ~t.valid -> {Unauthorized}
    [] t.valid /\ AllowedAzp # {} /\ t.azp \notin AllowedAzp \cup {None} ->
         {Unauthorized}
    [] OTHER -> IF t.sub THEN {} ELSE {Crash}

\* KeycloakTokenValidator.decode: what it raises.  payload["sub"] is a KeyError.
DecodeRaises(t) ==
  CASE ~t.valid -> {Unauthorized}
    [] t.valid /\ AllowedAzp # {} /\ t.azp \notin AllowedAzp -> {Unauthorized}
    [] OTHER -> IF t.sub THEN {} ELSE {Crash}

Decode(i) ==
  /\ decodes' = decodes + 1
  /\ \/ \E e \in DecodeRaises(token) : Raise(e)
     \/ DecodeRaises(token) = {} /\ Solve(i) /\ user' = Claims(token)

SolveCurrentUser(i) ==
  /\ Solving(i, "current_user")
  /\ IF Bearer THEN Decode(i)
     ELSE Raise(Unauthorized) /\ UNCHANGED decodes

SolveOptionalUser(i) ==
  /\ Solving(i, "optional_user")
  /\ IF Bearer THEN Decode(i) ELSE Solve(i) /\ UNCHANGED <<user, decodes>>

\* compare_digest takes ASCII strings only.
SolveApiKey(i) ==
  /\ Solving(i, "check_api_key")
  /\ CASE apiKey = "right" -> Solve(i) /\ UNCHANGED user
       [] apiKey = "non-ascii" -> Raise(Crash)
       [] OTHER -> Raise(InvalidKey)
  /\ UNCHANGED decodes

\* checker depends on current_user, which comes first.
SolveRequires(i) ==
  /\ Solving(i, "requires")
  /\ LET rule == Head(todo[i]).rule IN
     CASE CurrentUser \notin solved ->
            /\ todo' = [todo EXCEPT ![i] = <<CurrentUser>> \o @]
            /\ UNCHANGED <<requestVars, at, solved, user, raised, response, page>>
       [] CurrentUser \in solved /\ Check(rule, user) -> Solve(i) /\ UNCHANGED user
       [] OTHER -> Raise(HttpException(403, Describe(rule), {}))
  /\ UNCHANGED decodes

SolvePlain(i) ==
  /\ Solving(i, "plain")
  /\ (Solve(i) /\ UNCHANGED user) \/ Raise(HttpException(400, <<>>, {}))
  /\ UNCHANGED decodes

\* All are solved: parameters and body are validated last.
Run ==
  /\ at = "solving" /\ \A i \in Levels : todo[i] = <<>>
  /\ IF body = "invalid" THEN Raise([kind |-> "validation"])
     ELSE /\ at' = "handler"
          /\ UNCHANGED <<requestVars, todo, solved, user, raised, response, page>>
  /\ UNCHANGED decodes

-----------------------------------------------------------------------------
AppErrors == {AppError(c, t) : c \in ErrorCode, t \in {None, "urn:problem"}}

HttpExceptions ==
  {HttpException(429, <<>>, {"Retry-After"})} \cup
  {HttpException(s, <<>>, {}) :
     s \in DOMAIN StatusToErrorCode \cup {405, 418, 503}}

HandlerRaises ==
  /\ at = "handler"
  /\ \E e \in AppErrors \cup HttpExceptions \cup {Crash} : Raise(e)
  /\ UNCHANGED decodes

HandlerReturns ==
  /\ at = "handler" /\ at' = "served"
  /\ UNCHANGED <<requestVars, todo, solved, user, decodes, raised, response,
                 page>>

\* A path or a method that no route has: Starlette raises, the handlers answer.
Unrouted ==
  /\ at = "start"
  /\ \E s \in {404, 405} : Raise(HttpException(s, <<>>, {}))
  /\ UNCHANGED decodes

Answer ==
  /\ at = "raised" /\ at' = "answered"
  /\ response' = Handler(raised, base)
  /\ UNCHANGED <<requestVars, todo, solved, user, decodes, raised, page>>

\* The reader of a problem follows its type to the documentation.
Follow ==
  /\ at = "answered" /\ response.type.base = "/problems" /\ at' = "followed"
  /\ page' = Page(response.type.slug)
  /\ UNCHANGED <<requestVars, todo, solved, user, decodes, raised, response>>

Ended ==
  /\ \/ at \in {"served", "followed"}
     \/ at = "answered" /\ response.type.base # "/problems"
  /\ UNCHANGED vars

Next ==
  \/ Start
  \/ \E i \in Levels :
       \/ FromCache(i) \/ SolveCurrentUser(i) \/ SolveOptionalUser(i)
       \/ SolveApiKey(i) \/ SolveRequires(i) \/ SolvePlain(i)
  \/ Run \/ HandlerRaises \/ HandlerReturns \/ Unrouted
  \/ Answer \/ Follow \/ Ended

Spec == Init /\ [][Next]_vars

-----------------------------------------------------------------------------
(* Properties. *)

Has(call) == \E d \in Declared : d.call = call

\* Every declared guard, whichever router declared it.
NeedsUser == Has("current_user") \/ Has("requires")

\* What a token must be, said of the token itself.
Trusted ==
  Bearer /\ token.valid /\ token.sub /\ (AllowedAzp = {} \/ token.azp \in AllowedAzp)

TypeOK ==
  /\ at \in {"start", "solving", "handler", "raised", "served", "answered",
             "followed"}
  /\ todo \in [Levels -> Seq({CurrentUser} \cup Declared)] \cup {<<>>}
  /\ solved \subseteq {CurrentUser} \cup Declared
  /\ at \in {"answered", "followed"} <=> response # NoResponse
  /\ response # NoResponse =>
       /\ response.media = "application/problem+json"
       /\ response.status \in 400..599
       /\ response.code \in ErrorCode \cup {None}

\* "Authentication is a property of a family of routes": no handler runs before
\* all the guards around it were satisfied by this request, however its routers
\* are nested, and a broken token is never taken for an anonymous caller.  The
\* rules are met by the claims of this token, whoever decoded it.
Guarded ==
  at \in {"handler", "served"} =>
    /\ NeedsUser => Trusted
    /\ Has("optional_user") /\ Bearer => Trusted
    /\ Has("check_api_key") => apiKey = "right"
    /\ \A d \in Declared : d.call = "requires" => Check(d.rule, Claims(token))
    /\ \A i \in DOMAIN route.routers :
         /\ route.routers[i].kind = "protected" => Trusted
         /\ route.routers[i].kind = "internal" /\ keyed => apiKey = "right"

\* Descriptions of custom predicates are the service's own words: what a 403
\* says is as true as they are, of the claims of any token there is.
HonestCustoms ==
  \A r \in Rules : \A f \in Families : \A t \in f.tokens : Honest(r, Claims(t))

\* "The 403 states the rule that was enforced": read by itself, it denies the
\* claims that were denied and would have granted those that were admitted.
RuleAsStated ==
  /\ response # NoResponse /\ response.status = 403 /\ response.detail # <<>> =>
       /\ Trusted
       /\ Reads(response.detail, Claims(token)) = "denies"
  /\ at \in {"handler", "served"} =>
       \A d \in Declared :
         d.call = "requires" => Reads(Describe(d.rule), Claims(token)) = "grants"

\* "The token is validated once per request" by each of the two callables,
\* however many routers, rules and parameters ask for the claims.
DecodedOnce ==
  decodes <= (IF NeedsUser THEN 1 ELSE 0)
               + (IF Has("optional_user") THEN 1 ELSE 0)

StatusOf(status, code) ==
  \/ status = PROBLEM_TYPES[code].status
  \/ status = 422 /\ code = "INPUT"
  \/ status >= 500 /\ code = "SERVER"

\* "So relative type URIs are dereferenceable", to the page of the code that the
\* problem names; and no code is "misleading": the status of the response is the
\* one on that page, or a 422 of INPUT, or another failure of the server.
TypeLeadsToPage ==
  /\ at = "followed" => page = [status |-> 200, code |-> response.code]
  /\ response # NoResponse /\ response.code \in DOMAIN PROBLEM_TYPES =>
       StatusOf(response.status, response.code)

\* "Dropping it would strip WWW-Authenticate from 401s and Retry-After from
\* 429s": what was raised on the way is what the caller gets.
ChallengesSurvive ==
  response # NoResponse =>
    /\ raised = Unauthorized => response.headers = {"WWW-Authenticate"}
    /\ raised = InvalidKey => response.headers = {}
    /\ raised.kind = "http" /\ "Retry-After" \in raised.headers =>
         response.status = 429 /\ "Retry-After" \in response.headers

\* This request is served without any credentials.
ServedOpen == at \in {"handler", "served"} /\ token.scheme = None /\ apiKey = "none"

\* A route of the OpenAPI document that serves a request without any credentials
\* is one that the audit reports, unless it is listed or asks for optional_user.
OpenRoutesReported ==
  ServedOpen /\ route.inSchema => Unprotected \/ route.listed \/ Has("optional_user")

\* "Prove that no route was left unauthenticated": the same of every route there
\* is.  It does not hold of the code, which never sees a route that is not in the
\* document.
AuditSeesEveryRoute ==
  ServedOpen => Unprotected \/ route.listed \/ Has("optional_user")

\* "Name the rule that failed": what a 403 quotes is the description of a rule of
\* this route, and the token was good but its claims did not meet the rule.
RefusedByRule ==
  response # NoResponse /\ response.detail # <<>> =>
    /\ response.status = 403 /\ Trusted
    /\ \E d \in Declared :
         /\ d.call = "requires" /\ response.detail = Describe(d.rule)
         /\ ~Check(d.rule, Claims(token))

\* Admission: no handler without its guards, no refusal without its rule, one
\* decoding, and an audit that sees the routes of the document as they are.
Admission == Guarded /\ RefusedByRule /\ DecodedOnce /\ OpenRoutesReported

\* A problem document says what happened, in its status, type and headers.
ProblemsTrue == TypeOK /\ TypeLeadsToPage /\ ChallengesSurvive
=============================================================================
