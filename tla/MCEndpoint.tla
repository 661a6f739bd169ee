------------------------------ MODULE MCEndpoint ------------------------------
(* The instance of Endpoint for TLC. *)
EXTENDS Endpoint

Primitives ==
  {HasRole(<<"admin", "agent">>), HasRole(<<"agent">>), HasScope(<<"write">>),
   Custom({Atom("custom", "owner"), Atom("custom", "tenant")},
          <<Atom("custom", "owner"), Or, Atom("custom", "tenant")>>)}

Joined(A, B) == {AnyOf(a, b) : a \in A, b \in B} \cup
                {AllOf(a, b) : a \in A, b \in B}

Pairs == Joined(Primitives, Primitives)

MCRanked ==
  <<Primitives \cup {HasRole(<<"admin">>)},
    Pairs \cup {RequireRoles(<<"admin", "agent">>, any) : any \in BOOLEAN},
    Joined(Pairs, Primitives) \cup Joined(Primitives, Pairs)>>

ARule == Requires(AllOf(HasRole(<<"admin", "agent">>), HasScope(<<"write">>)))

Router(kind, deps) == [kind |-> kind, deps |-> deps]

Route(routers, deps) ==
  [routers |-> routers, deps |-> deps, listed |-> FALSE, inSchema |-> TRUE]

MCRoutes ==
  {Route(<<>>, <<ARule>>),
   Route(<<>>, <<OptionalUser>>),
   Route(<<>>, <<Plain>>),
   [Route(<<>>, <<>>) EXCEPT !.listed = TRUE],
   [Route(<<>>, <<>>) EXCEPT !.inSchema = FALSE],
   Route(<<Router("protected", <<Plain>>), Router("plain", <<ARule>>)>>,
         <<CurrentUser, OptionalUser>>),
   Route(<<Router("protected", <<>>), Router("internal", <<Plain>>)>>, <<>>),
   Route(<<Router("internal", <<>>)>>, <<Plain>>)}

Header(scheme, valid, azp, sub, realm, own, scope, raw) ==
  [scheme |-> scheme, valid |-> valid, azp |-> azp, sub |-> sub,
   realm |-> realm, own |-> own, other |-> {"admin", "agent"}, scope |-> scope,
   raw |-> raw]

Good(azp, sub) == Header("bearer", TRUE, azp, sub, {"admin"}, {}, {"write"}, {})

MCTokens ==
  {Header("bearer", TRUE, "shop", TRUE, realm, own, scope, raw) :
     realm \in SUBSET {"admin"}, own \in SUBSET {"agent"},
     scope \in SUBSET {"write"}, raw \in SUBSET {"owner", "tenant"}} \cup
  {Good("other", TRUE), Good(None, TRUE), Good("shop", FALSE),
   [Good("shop", TRUE) EXCEPT !.valid = FALSE],
   [Good("shop", TRUE) EXCEPT !.scheme = "basic"],
   [Good("shop", TRUE) EXCEPT !.scheme = None]}

\* Every rule against all claims, and the other routes against everything else.
MCFamilies ==
  {[routes |-> {Route(<<Router("protected", <<>>)>>, <<Requires(r)>>) :
                  r \in Rules},
    tokens |-> MCTokens, keys |-> {"none"}, bodies |-> {"valid"},
    keyed |-> {FALSE}, bases |-> {"/problems"}],
   [routes |-> MCRoutes, tokens |-> MCTokens,
    keys |-> {"none", "right", "wrong", "non-ascii"},
    bodies |-> {"valid", "invalid", "malformed"},
    keyed |-> BOOLEAN, bases |-> {"/problems", "https://docs"}]}

ASSUME HonestAssumption == HonestCustoms
=============================================================================
