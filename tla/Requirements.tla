---------------------------- MODULE Requirements -----------------------------
(***************************************************************************)
(* The algebra of authorisation rules, security/requirements.py, and how a *)
(* reader understands the rendering of a rule that a 403 quotes.  Claims   *)
(* are a set of atoms: the roles and scopes of a token, and what custom    *)
(* predicates find in it.  A rendering is a sequence of atoms, operators   *)
(* and parentheses.                                                        *)
(***************************************************************************)
EXTENDS Naturals, Sequences, FiniteSets, Functions

CONSTANT Ranked   \* the rules of the service: those of height 1, of height 2, ...

Rules == UNION Range(Ranked)

Mark(t) == [t |-> t, v |-> ""]

Or == Mark("OR")
And == Mark("AND")
Open == Mark("(")
Close == Mark(")")

Atom(t, v) == [t |-> t, v |-> v]

Symbols ==
  [t : {"role", "scope", "custom"}, v : STRING] \cup {Or, And, Open, Close}

Primitive(atoms) == [kind |-> "primitive", parts |-> atoms]

HasRole(values) == Primitive([i \in DOMAIN values |-> Atom("role", values[i])])

HasScope(values) ==
  Primitive([i \in DOMAIN values |-> Atom("scope", values[i])])

\* A predicate that holds when the claims have one of the atoms "accepts", and
\* the description its author wrote, which nobody checks.
Custom(accepts, description) ==
  [kind |-> "custom", accepts |-> accepts, parts |-> description]

Combine(kind, parts) == [kind |-> kind, parts |-> parts]

\* _flatten: same-kind children are spliced in.
Flatten(kind, a, b) ==
  LET Splice(r) == IF r.kind = kind THEN r.parts ELSE <<r>>
  IN  Splice(a) \o Splice(b)

AnyOf(a, b) == Combine("any", Flatten("any", a, b))   \* a | b
AllOf(a, b) == Combine("all", Flatten("all", a, b))   \* a & b

\* Auth.require_roles
RequireRoles(roles, anyOf) ==
  IF anyOf THEN HasRole(roles)
  ELSE Combine("all", [i \in DOMAIN roles |-> HasRole(<<roles[i]>>)])

\* A requirement is made, once, of values or of requirements that exist, and of
\* one at least: none contains itself, so each call of check or describe ends.
ASSUME RulesAssumption ==
  /\ Ranked \in Seq(SUBSET Rules)
  /\ \A n \in DOMAIN Ranked : \A r \in Ranked[n] :
       \/ /\ r.kind = "primitive"
          /\ r.parts \in Seq([t : {"role", "scope"}, v : STRING]) \ {<<>>}
       \/ r.kind = "custom" /\ r.parts \in Seq(Symbols)
       \/ /\ r.kind \in {"any", "all"}
          /\ r.parts \in Seq(UNION {Ranked[m] : m \in 1..(n - 1)}) \ {<<>>}

\* check of each class, given that of the parts.
Checks(r, claims, check) ==
  LET parts == Range(r.parts) IN
  CASE r.kind = "primitive" -> parts \cap claims # {}
    [] r.kind = "custom" -> r.accepts \cap claims # {}
    [] r.kind = "any" -> \E p \in parts : check[p]
    [] r.kind = "all" -> \A p \in parts : check[p]

Check(rule, claims) ==
  LET check[r \in Rules] == Checks(r, claims, check) IN check[rule]

Join(texts, op) ==
  LET join[n \in 1..Len(texts)] ==
        IF n = 1 THEN texts[1] ELSE join[n - 1] \o <<op>> \o texts[n]
  IN  join[Len(texts)]

\* Slip: only the combinators are wrapped.
WrapByType(r, text) ==
  IF r.kind \in {"any", "all"} THEN <<Open>> \o text \o <<Close>> ELSE text

\* _wrap: keyed on the rendered text.
Wrap(r, text) ==
  IF {Or, And} \cap Range(text) # {} THEN <<Open>> \o text \o <<Close>>
  ELSE text

\* describe of each class, given that of the parts.
Describes(r, describe) ==
  LET Wrapped(i) == Wrap(r.parts[i], describe[r.parts[i]]) IN
  CASE r.kind = "primitive" ->
         Join([i \in DOMAIN r.parts |-> <<r.parts[i]>>], Or)
    [] r.kind = "custom" -> r.parts
    [] r.kind = "any" -> Join([i \in DOMAIN r.parts |-> Wrapped(i)], Or)
    [] r.kind = "all" -> Join([i \in DOMAIN r.parts |-> Wrapped(i)], And)

Describe(rule) ==
  LET describe[r \in Rules] == Describes(r, describe) IN describe[rule]

-----------------------------------------------------------------------------
(* The reader.  Nobody agrees on the precedence of AND and OR: a text that *)
(* has both at one level is unclear.                                       *)

Depth(text, i) ==
  Cardinality({j \in 1..i : text[j] = Open})
    - Cardinality({j \in 1..i : text[j] = Close})

Balanced(text) ==
  Depth(text, Len(text)) = 0 /\ \A i \in DOMAIN text : Depth(text, i) >= 0

TopLevel(text, op) ==
  {i \in DOMAIN text : text[i] = op /\ Depth(text, i) = 0}

Pieces(text, cuts) ==
  {SubSeq(text, p[1] + 1, p[2] - 1) :
     p \in {q \in ({0} \cup cuts) \X (cuts \cup {Len(text) + 1}) :
              q[1] < q[2] /\ \A c \in cuts : c <= q[1] \/ c >= q[2]}}

\* What a text says, given what its pieces say.
Saying(text, claims, says) ==
  LET ors == TopLevel(text, Or)
      ands == TopLevel(text, And)
      readings == {says[p] : p \in Pieces(text, ors \cup ands)}
  IN CASE text = <<>> \/ (ors # {} /\ ands # {}) -> "unclear"
       [] ors \cup ands # {} /\ "unclear" \in readings -> "unclear"
       [] ors # {} /\ ands = {} /\ "unclear" \notin readings ->
            IF "grants" \in readings THEN "grants" ELSE "denies"
       [] ands # {} /\ ors = {} /\ "unclear" \notin readings ->
            IF "denies" \in readings THEN "denies" ELSE "grants"
       [] text # <<>> /\ ors \cup ands = {} /\ Head(text) = Open ->
            says[SubSeq(text, 2, Len(text) - 1)]
       [] text # <<>> /\ ors \cup ands = {} /\ Head(text) # Open ->
            IF Head(text) \in claims THEN "grants" ELSE "denies"

Reads(text, claims) ==
  LET says[t \in Seq(Symbols)] == Saying(t, claims, says)
  IN  says[text]

Verdict(b) == IF b THEN "grants" ELSE "denies"

\* The author of a custom predicate described it, and as what it is.
Honest(r, claims) ==
  r.kind = "custom" =>
    /\ r.parts # <<>> /\ Balanced(r.parts)
    /\ Reads(r.parts, claims) = Verdict(r.accepts \cap claims # {})
=============================================================================
