--------------------------- MODULE EndpointProofs ---------------------------
(***************************************************************************)
(* What holds of every request, for all routes, rules, tokens and settings *)
(* (Endpoint, Requirements, Problems).  First that the recursive functions *)
(* of the model exist: then Check, Describe, Join and Reads satisfy their  *)
(* equations.  Then the inductive invariant of a request, from which its   *)
(* admission and its problem document follow, and last what the text of a  *)
(* 403 says to its reader.                                                 *)
(***************************************************************************)
EXTENDS Endpoint, SequenceTheorems, FiniteSetTheorems, WellFoundedInduction, TLAPS

-----------------------------------------------------------------------------
(* Recursive functions.  The functions that Check, Describe, Join and      *)
(* Reads choose are defined by their own values at smaller arguments; that *)
(* they exist is a lemma about numbers.                                    *)

\* The least element of a set of numbers, which stands in for an induction.
LEMMA Smallest ==
  ASSUME NEW S \in SUBSET Nat, S # {}
  PROVE  \E m \in S : \A n \in S : m <= n
<1> DEFINE R == {p \in Nat \X Nat : p[1] < p[2]}
<1>1. R = OpToRel(<, Nat)
  BY DEF OpToRel
<1>2. IsWellFoundedOn(R, Nat)
  BY <1>1, NatLessThanWellFounded
<1>3. PICK m \in S : \A n \in S : ~ (<<n, m>> \in R)
  <2> HIDE DEF R
  <2> QED BY <1>2, WFMin
<1>4. ASSUME NEW n \in S PROVE m <= n
  <2>1. m \in Nat /\ n \in Nat
    OBVIOUS
  <2>2. ~(n < m)
    BY <1>3, <1>4, <2>1
  <2> QED BY <2>1, <2>2
<1> QED BY <1>4

\* A set of numbers with 0 and every successor is all of them.
LEMMA Induction ==
  ASSUME NEW S, 0 \in S, \A n \in Nat : n \in S => n + 1 \in S
  PROVE  Nat \subseteq S
<1> SUFFICES ASSUME Nat \ S # {} PROVE FALSE
  OBVIOUS
<1>1. PICK m \in Nat \ S : \A n \in Nat \ S : m <= n
  <2>1. Nat \ S \in SUBSET Nat
    OBVIOUS
  <2> QED BY <2>1, Smallest
<1>2. m - 1 \in Nat /\ m - 1 \notin Nat \ S
  BY <1>1
<1> QED BY <1>1, <1>2

\* f follows the rule G below height n.
Follows(D, h, G, f, n) == \A x \in D : h[x] < n => f[x] = G[<<x, f>>]

\* A value that is made of the values at smaller heights only.
FromBelow(D, V, h, G) ==
  /\ h \in [D -> Nat]
  /\ G \in [D \X [D -> V] -> V]
  /\ \A x \in D : \A f, g \in [D -> V] :
       (\A y \in D : h[y] < h[x] => f[y] = g[y]) => G[<<x, f>>] = G[<<x, g>>]

\* Two functions that obey a recursion up to a height agree below it.
LEMMA OneFollows ==
  ASSUME NEW D, NEW V, NEW h, NEW G, FromBelow(D, V, h, G),
         NEW f \in [D -> V], NEW g \in [D -> V], NEW n \in Nat,
         Follows(D, h, G, f, n), Follows(D, h, G, g, n)
  PROVE  \A x \in D : h[x] < n => f[x] = g[x]
<1> DEFINE S == {h[x] : x \in {y \in D : h[y] < n /\ f[y] # g[y]}}
<1> SUFFICES ASSUME S # {} PROVE FALSE
  OBVIOUS
<1>1. S \in SUBSET Nat
  BY DEF FromBelow
<1>2. PICK m \in S : \A k \in S : m <= k
  <2> HIDE DEF S
  <2> QED BY <1>1, Smallest
<1>3. PICK x \in D : h[x] = m /\ m < n /\ f[x] # g[x]
  BY <1>2
<1>4. ASSUME NEW y \in D, h[y] < h[x] PROVE f[y] = g[y]
  <2>1. h[y] \in Nat /\ m \in Nat
    BY <1>1 DEF FromBelow
  <2>2. h[y] < n /\ h[y] \notin S
    BY <1>2, <1>3, <1>4, <2>1
  <2> QED BY <2>2
<1>5. G[<<x, f>>] = G[<<x, g>>]
  BY <1>4 DEF FromBelow
<1> QED BY <1>3, <1>5 DEF Follows

\* For every height there is a function that obeys the recursion up to it.
LEMMA SomeFollows ==
  ASSUME NEW D, NEW V, V # {}, NEW h, NEW G, FromBelow(D, V, h, G)
  PROVE  \A n \in Nat : \E f \in [D -> V] : Follows(D, h, G, f, n)
<1> DEFINE S == {n \in Nat : \E f \in [D -> V] : Follows(D, h, G, f, n)}
<1>1. 0 \in S
  <2>1. [x \in D |-> CHOOSE v \in V : TRUE] \in [D -> V]
    OBVIOUS
  <2>2. \A x \in D : ~(h[x] < 0)
    BY DEF FromBelow
  <2> QED BY <2>1, <2>2 DEF Follows
<1>2. ASSUME NEW n \in Nat, n \in S PROVE n + 1 \in S
  <2>1. PICK f \in [D -> V] : Follows(D, h, G, f, n)
    BY <1>2
  <2> DEFINE g == [x \in D |-> G[<<x, f>>]]
  <2>2. g \in [D -> V]
    BY DEF FromBelow
  <2>3. ASSUME NEW x \in D, h[x] < n + 1 PROVE g[x] = G[<<x, g>>]
    <3>1. ASSUME NEW y \in D, h[y] < h[x] PROVE f[y] = g[y]
      <4>1. h[x] \in Nat /\ h[y] \in Nat
        BY DEF FromBelow
      <4>2. h[y] < n
        BY <2>3, <3>1, <4>1
      <4> QED BY <2>1, <4>2 DEF Follows
    <3> HIDE DEF g
    <3>2. G[<<x, f>>] = G[<<x, g>>]
      BY <2>2, <3>1 DEF FromBelow
    <3> QED BY <3>2 DEF g
  <2> HIDE DEF g
  <2>4. Follows(D, h, G, g, n + 1)
    BY <2>3 DEF Follows
  <2> QED BY <2>2, <2>4
<1> HIDE DEF S
<1>3. Nat \subseteq S
  BY <1>1, <1>2, Induction
<1> QED BY <1>3 DEF S

\* The function that a rule defines.
LEMMA Recursion ==
  ASSUME NEW D, NEW V, V # {}, NEW h, NEW G, FromBelow(D, V, h, G)
  PROVE  \E f \in [D -> V] : \A x \in D : f[x] = G[<<x, f>>]
<1> DEFINE F(n) == CHOOSE f \in [D -> V] : Follows(D, h, G, f, n)
           f == [x \in D |-> F(h[x] + 1)[x]]
<1>1. \A n \in Nat : F(n) \in [D -> V] /\ Follows(D, h, G, F(n), n)
  BY SomeFollows
<1>2. \A x \in D : h[x] \in Nat
  BY DEF FromBelow
<1> HIDE DEF F
<1>3. f \in [D -> V]
  BY <1>1, <1>2
<1>4. ASSUME NEW x \in D, NEW y \in D, h[y] < h[x] + 1
      PROVE  f[y] = F(h[x] + 1)[y]
  <2>1. Follows(D, h, G, F(h[x] + 1), h[y] + 1)
    <3>1. \A z \in D : h[z] < h[y] + 1 => h[z] < h[x] + 1
      BY <1>2, <1>4
    <3> QED BY <1>1, <1>2, <3>1 DEF Follows
  <2>2. h[y] < h[y] + 1 /\ h[x] + 1 \in Nat /\ h[y] + 1 \in Nat
    BY <1>2
  <2> QED BY <1>1, <2>1, <2>2, OneFollows
<1> HIDE DEF f
<1>5. ASSUME NEW x \in D PROVE f[x] = G[<<x, f>>]
  <2> DEFINE g == F(h[x] + 1)
  <2>1. h[x] + 1 \in Nat /\ h[x] < h[x] + 1 /\ \A y \in D : h[y] < h[x] => h[y] < h[x] + 1
    BY <1>2
  <2>2. g \in [D -> V] /\ g[x] = G[<<x, g>>]
    BY <1>1, <2>1 DEF Follows
  <2>3. f[x] = g[x] /\ \A y \in D : h[y] < h[x] => f[y] = g[y]
    BY <1>4, <2>1
  <2> HIDE DEF g
  <2>4. G[<<x, f>>] = G[<<x, g>>]
    BY <1>3, <2>2, <2>3 DEF FromBelow
  <2> QED BY <2>2, <2>3, <2>4
<1> QED BY <1>3, <1>5

-----------------------------------------------------------------------------
(* Rules.  A rule is made of rules of smaller heights, so check and        *)
(* describe are what the equations of their classes say.                   *)

Values == [t : {"role", "scope"}, v : STRING]

RuleTyped(r) ==
  \/ r.kind = "primitive" /\ r.parts \in Seq(Values) \ {<<>>}
  \/ r.kind = "custom" /\ r.parts \in Seq(Symbols)
  \/ r.kind \in {"any", "all"} /\ r.parts \in Seq(Rules) \ {<<>>}

Lower(h, r) == r.kind \in {"any", "all"} => \A p \in Range(r.parts) : h[p] < h[r]

\* A sequence of elements of a set is one of a larger set, and of its range.
LEMMA SeqOf ==
  ASSUME NEW S, NEW T, NEW s \in Seq(S)
  PROVE  /\ Len(s) \in Nat /\ DOMAIN s = 1..Len(s)
         /\ Range(s) \subseteq S
         /\ S \subseteq T => s \in Seq(T)
<1>1. Len(s) \in Nat /\ DOMAIN s = 1..Len(s) /\ \A i \in 1..Len(s) : s[i] \in S
  BY LenProperties, ElementOfSeq
<1>2. s = [i \in 1..Len(s) |-> s[i]]
  BY SeqDef
<1>3. ASSUME S \subseteq T PROVE s \in Seq(T)
  <2>1. s \in [1..Len(s) -> T]
    BY <1>1, <1>2, <1>3
  <2> QED BY <1>1, <2>1, SeqDef
<1> QED BY <1>1, <1>3 DEF Range

\* Every rule is built of lower ones.
LEMMA Heights ==
  \E h \in [Rules -> Nat] : \A r \in Rules : RuleTyped(r) /\ Lower(h, r)
<1> DEFINE Of(r) == {n \in 1..Len(Ranked) : r \in Ranked[n]}
           H(r) == CHOOSE n \in Of(r) : \A m \in Of(r) : n <= m
           h == [r \in Rules |-> H(r)]
<1>1. Len(Ranked) \in Nat /\ DOMAIN Ranked = 1..Len(Ranked)
  BY RulesAssumption, LenProperties
<1>2. ASSUME NEW r \in Rules
      PROVE  H(r) \in Of(r) /\ \A m \in Of(r) : H(r) <= m
  <2>1. Of(r) # {}
    BY <1>1 DEF Rules, Range
  <2>2. Of(r) \in SUBSET Nat
    BY <1>1
  <2>3. \E n \in Of(r) : \A m \in Of(r) : n <= m
    <3> HIDE DEF Of
    <3> QED BY <2>1, <2>2, Smallest
  <2> QED BY <2>3
<1>3. \A r \in Rules : H(r) \in 1..Len(Ranked) /\ r \in Ranked[H(r)]
  BY <1>2
<1>4. h \in [Rules -> Nat]
  <2> HIDE DEF H
  <2> QED BY <1>1, <1>3
<1>5. ASSUME NEW r \in Rules PROVE RuleTyped(r) /\ Lower(h, r)
  <2> DEFINE n == H(r)
  <2>1. n \in 1..Len(Ranked) /\ r \in Ranked[n]
    BY <1>3
  <2> HIDE DEF n
  <2>2. CASE r.kind = "primitive" /\ r.parts \in Seq(Values) \ {<<>>}
    BY <2>2 DEF RuleTyped, Lower
  <2>3. CASE r.kind = "custom" /\ r.parts \in Seq(Symbols)
    BY <2>3 DEF RuleTyped, Lower
  <2>4. CASE /\ r.kind \in {"any", "all"}
             /\ r.parts \in Seq(UNION {Ranked[m] : m \in 1..(n - 1)}) \ {<<>>}
    <3> DEFINE S == UNION {Ranked[m] : m \in 1..(n - 1)}
    <3>1. 1..(n - 1) \subseteq 1..Len(Ranked)
      BY <1>1, <2>1
    <3>2. S \subseteq Rules
      BY <1>1, <3>1 DEF Rules, Range
    <3>3. r.parts \in Seq(Rules) /\ Range(r.parts) \subseteq S
      <4> HIDE DEF S
      <4>1. r.parts \in Seq(S)
        BY <2>4 DEF S
      <4> QED BY <3>2, <4>1, SeqOf
    <3>4. ASSUME NEW p \in S PROVE h[p] < h[r]
      <4>1. PICK m \in 1..(n - 1) : p \in Ranked[m]
        OBVIOUS
      <4>2. p \in Rules
        BY <3>2
      <4>3. m \in Of(p)
        BY <3>1, <4>1
      <4>4. H(p) <= m /\ H(p) \in Nat
        BY <1>1, <1>2, <1>3, <4>2, <4>3
      <4>5. h[p] = H(p) /\ h[r] = n
        BY <4>2 DEF n
      <4>6. m \in Nat /\ n \in Nat /\ m < n
        BY <1>1, <2>1, <4>1
      <4> HIDE DEF H, h
      <4> QED BY <4>4, <4>5, <4>6
    <3> QED BY <2>4, <3>3, <3>4 DEF RuleTyped, Lower
  <2>5. \/ r.kind = "primitive" /\ r.parts \in Seq(Values) \ {<<>>}
        \/ r.kind = "custom" /\ r.parts \in Seq(Symbols)
        \/ /\ r.kind \in {"any", "all"}
           /\ r.parts \in Seq(UNION {Ranked[m] : m \in 1..(n - 1)}) \ {<<>>}
    BY <1>1, <2>1, RulesAssumption DEF Values
  <2> QED BY <2>2, <2>3, <2>4, <2>5
<1> HIDE DEF h
<1> QED BY <1>4, <1>5

\* The parts of a rule are rules.
LEMMA PartsAreRules ==
  ASSUME NEW r \in Rules, r.kind \in {"any", "all"}
  PROVE  Range(r.parts) \subseteq Rules
<1>1. r.parts \in Seq(Rules)
  BY Heights DEF RuleTyped
<1> QED BY <1>1, SeqOf

-----------------------------------------------------------------------------
\* check asks nothing but the parts.
LEMMA ChecksParts ==
  ASSUME NEW r \in Rules, NEW claims, NEW f \in [Rules -> BOOLEAN],
         NEW g \in [Rules -> BOOLEAN],
         r.kind \in {"any", "all"} => \A p \in Range(r.parts) : f[p] = g[p]
  PROVE  /\ Checks(r, claims, f) \in BOOLEAN
         /\ Checks(r, claims, f) = Checks(r, claims, g)
<1>1. r.kind \in {"primitive", "custom", "any", "all"}
  BY Heights DEF RuleTyped
<1>2. CASE r.kind = "primitive"
  BY <1>2 DEF Checks
<1>3. CASE r.kind = "custom"
  BY <1>3 DEF Checks
<1>4. CASE r.kind = "any"
  <2>1. (\E p \in Range(r.parts) : f[p]) = (\E p \in Range(r.parts) : g[p])
    BY <1>4
  <2> QED BY <1>4, <2>1 DEF Checks
<1>5. CASE r.kind = "all"
  <2>1. (\A p \in Range(r.parts) : f[p]) = (\A p \in Range(r.parts) : g[p])
    BY <1>5
  <2> QED BY <1>5, <2>1 DEF Checks
<1> QED BY <1>1, <1>2, <1>3, <1>4, <1>5

\* There is a function as check is.
LEMMA CheckExists ==
  ASSUME NEW claims
  PROVE  \E f \in [Rules -> BOOLEAN] : f = [r \in Rules |-> Checks(r, claims, f)]
<1> DEFINE G == [q \in Rules \X [Rules -> BOOLEAN] |-> Checks(q[1], claims, q[2])]
<1>1. PICK h \in [Rules -> Nat] : \A r \in Rules : Lower(h, r)
  BY Heights
<1>2. \A r \in Rules : \A f \in [Rules -> BOOLEAN] :
        G[<<r, f>>] = Checks(r, claims, f)
  OBVIOUS
<1>3. FromBelow(Rules, BOOLEAN, h, G)
  <2>1. G \in [Rules \X [Rules -> BOOLEAN] -> BOOLEAN]
    <3>1. \A q \in Rules \X [Rules -> BOOLEAN] : Checks(q[1], claims, q[2]) \in BOOLEAN
      <4> TAKE q \in Rules \X [Rules -> BOOLEAN]
      <4>1. q[1] \in Rules /\ q[2] \in [Rules -> BOOLEAN]
        OBVIOUS
      <4> QED BY <4>1, ChecksParts
    <3> QED BY <3>1
  <2>2. ASSUME NEW r \in Rules, NEW f \in [Rules -> BOOLEAN],
               NEW g \in [Rules -> BOOLEAN],
               \A y \in Rules : h[y] < h[r] => f[y] = g[y]
        PROVE  G[<<r, f>>] = G[<<r, g>>]
    <3>1. r.kind \in {"any", "all"} => \A p \in Range(r.parts) : f[p] = g[p]
      BY <1>1, <2>2, PartsAreRules DEF Lower
    <3>2. Checks(r, claims, f) = Checks(r, claims, g)
      BY <3>1, ChecksParts
    <3> QED BY <1>2, <3>2
  <2> HIDE DEF G
  <2> QED BY <2>1, <2>2 DEF FromBelow
<1> HIDE DEF G
<1>4. PICK f \in [Rules -> BOOLEAN] : \A r \in Rules : f[r] = G[<<r, f>>]
  <2>1. BOOLEAN # {}
    OBVIOUS
  <2> QED BY <1>3, <2>1, Recursion
<1>5. \A r \in Rules : f[r] = Checks(r, claims, f)
  BY <1>2, <1>4
<1>6. f = [r \in Rules |-> f[r]]
  OBVIOUS
<1>7. f = [r \in Rules |-> Checks(r, claims, f)]
  BY <1>5, <1>6
<1> QED BY <1>7

\* check is what its class says of the checks of the parts.
LEMMA CheckIs ==
  ASSUME NEW r \in Rules, NEW claims
  PROVE  /\ Check(r, claims) \in BOOLEAN
         /\ r.kind = "primitive" =>
              (Check(r, claims) <=> Range(r.parts) \cap claims # {})
         /\ r.kind = "custom" =>
              (Check(r, claims) <=> r.accepts \cap claims # {})
         /\ r.kind = "any" =>
              (Check(r, claims) <=> \E p \in Range(r.parts) : Check(p, claims))
         /\ r.kind = "all" =>
              (Check(r, claims) <=> \A p \in Range(r.parts) : Check(p, claims))
<1> DEFINE check[q \in Rules] == Checks(q, claims, check)
<1>1. check = [q \in Rules |-> Checks(q, claims, check)]
  BY CheckExists
<1>2. \A q : Check(q, claims) = check[q]
  BY DEF Check
<1> HIDE DEF check
<1>3. check[r] = Checks(r, claims, check)
  BY <1>1
<1>4. r.kind = "primitive" => (check[r] <=> Range(r.parts) \cap claims # {})
  BY <1>3 DEF Checks
<1>5. r.kind = "custom" => (check[r] <=> r.accepts \cap claims # {})
  BY <1>3 DEF Checks
<1>6. r.kind = "any" => (check[r] <=> \E p \in Range(r.parts) : check[p])
  BY <1>3 DEF Checks
<1>7. r.kind = "all" => (check[r] <=> \A p \in Range(r.parts) : check[p])
  BY <1>3 DEF Checks
<1>8. check[r] \in BOOLEAN
  <2>1. r.kind \in {"primitive", "custom", "any", "all"}
    BY Heights DEF RuleTyped
  <2> QED BY <1>3, <2>1 DEF Checks
<1> QED BY <1>2, <1>4, <1>5, <1>6, <1>7, <1>8

-----------------------------------------------------------------------------
(* The algebra. *)

\* What a concatenation consists of.
LEMMA RangeConcat ==
  ASSUME NEW S, NEW s \in Seq(S), NEW t \in Seq(S)
  PROVE  Range(s \o t) = Range(s) \cup Range(t)
<1>1. /\ DOMAIN s = 1..Len(s) /\ DOMAIN t = 1..Len(t)
      /\ Len(s) \in Nat /\ Len(t) \in Nat
  BY SeqOf
<1>2. /\ DOMAIN (s \o t) = 1..(Len(s) + Len(t))
      /\ \A i \in 1..(Len(s) + Len(t)) :
           (s \o t)[i] = IF i <= Len(s) THEN s[i] ELSE t[i - Len(s)]
  BY <1>1, ConcatProperties
<1>3. ASSUME NEW x \in Range(s \o t) PROVE x \in Range(s) \cup Range(t)
  <2>1. PICK i \in 1..(Len(s) + Len(t)) : x = (s \o t)[i]
    BY <1>2 DEF Range
  <2>2. i <= Len(s) \/ i - Len(s) \in 1..Len(t)
    BY <1>1
  <2> QED BY <1>1, <1>2, <2>1, <2>2 DEF Range
<1>4. ASSUME NEW x \in Range(s) PROVE x \in Range(s \o t)
  <2>1. PICK i \in 1..Len(s) : x = s[i]
    BY <1>1 DEF Range
  <2>2. i \in 1..(Len(s) + Len(t)) /\ i <= Len(s)
    BY <1>1
  <2> QED BY <1>2, <2>1, <2>2 DEF Range
<1>5. ASSUME NEW x \in Range(t) PROVE x \in Range(s \o t)
  <2>1. PICK i \in 1..Len(t) : x = t[i]
    BY <1>1 DEF Range
  <2>2. /\ Len(s) + i \in 1..(Len(s) + Len(t)) /\ ~(Len(s) + i <= Len(s))
        /\ Len(s) + i - Len(s) = i
    BY <1>1
  <2> QED BY <1>2, <2>1, <2>2 DEF Range
<1> QED BY <1>3, <1>4, <1>5

\* One more in front.
LEMMA RangeCons ==
  ASSUME NEW S, NEW d \in S, NEW s \in Seq(S)
  PROVE  <<d>> \o s \in Seq(S) /\ Range(<<d>> \o s) = {d} \cup Range(s)
<1>1. <<d>> \in Seq(S)
  OBVIOUS
<1>2. Range(<<d>>) = {d}
  BY DEF Range
<1> DEFINE one == <<d>>
<1> HIDE DEF one
<1>3. one \in Seq(S) /\ Range(one) = {d}
  BY <1>1, <1>2 DEF one
<1>4. one \o s \in Seq(S)
  BY <1>3, ConcatProperties
<1>5. Range(one \o s) = Range(one) \cup Range(s)
  BY <1>3, RangeConcat
<1> QED BY <1>3, <1>4, <1>5 DEF one

\* Flatten keeps what is tested of all parts, or of one of them.
LEMMA Flattened ==
  ASSUME NEW a \in Rules, NEW b \in Rules, NEW kind \in {"any", "all"}
  PROVE  Range(Flatten(kind, a, b)) =
           (IF a.kind = kind THEN Range(a.parts) ELSE {a})
             \cup (IF b.kind = kind THEN Range(b.parts) ELSE {b})
<1> DEFINE Splice(r) == IF r.kind = kind THEN r.parts ELSE <<r>>
<1>1. ASSUME NEW r \in Rules
      PROVE  /\ Splice(r) \in Seq(Rules)
             /\ Range(Splice(r)) = IF r.kind = kind THEN Range(r.parts) ELSE {r}
  <2>1. <<r>> \in Seq(Rules) /\ Range(<<r>>) = {r}
    BY DEF Range
  <2>2. r.kind = kind => r.parts \in Seq(Rules)
    BY Heights DEF RuleTyped
  <2> QED BY <2>1, <2>2
<1>2. Flatten(kind, a, b) = Splice(a) \o Splice(b)
  BY DEF Flatten
<1> HIDE DEF Splice
<1> QED BY <1>1, <1>2, RangeConcat

\* "The nested form evaluates the same": a | b admits whom a or b admits, and
\* a & b whom both admit, whatever was spliced.
THEOREM OperatorsMean ==
  ASSUME NEW a \in Rules, NEW b \in Rules, NEW claims
  PROVE  /\ AnyOf(a, b) \in Rules =>
              (Check(AnyOf(a, b), claims) <=> Check(a, claims) \/ Check(b, claims))
         /\ AllOf(a, b) \in Rules =>
              (Check(AllOf(a, b), claims) <=> Check(a, claims) /\ Check(b, claims))
<1>1. ASSUME AnyOf(a, b) \in Rules
      PROVE  Check(AnyOf(a, b), claims) <=> Check(a, claims) \/ Check(b, claims)
  <2>1. /\ AnyOf(a, b).kind = "any"
        /\ AnyOf(a, b).parts = Flatten("any", a, b)
    BY DEF AnyOf, Combine
  <2>2. Check(AnyOf(a, b), claims) <=>
          \E p \in Range(Flatten("any", a, b)) : Check(p, claims)
    BY <1>1, <2>1, CheckIs
  <2>3. ASSUME NEW r \in Rules
        PROVE  Check(r, claims) <=>
                 \E p \in IF r.kind = "any" THEN Range(r.parts) ELSE {r} :
                   Check(p, claims)
    BY CheckIs
  <2> QED BY <2>2, <2>3, Flattened
<1>2. ASSUME AllOf(a, b) \in Rules
      PROVE  Check(AllOf(a, b), claims) <=> Check(a, claims) /\ Check(b, claims)
  <2>1. /\ AllOf(a, b).kind = "all"
        /\ AllOf(a, b).parts = Flatten("all", a, b)
    BY DEF AllOf, Combine
  <2>2. Check(AllOf(a, b), claims) <=>
          \A p \in Range(Flatten("all", a, b)) : Check(p, claims)
    BY <1>2, <2>1, CheckIs
  <2>3. ASSUME NEW r \in Rules
        PROVE  Check(r, claims) <=>
                 \A p \in IF r.kind = "all" THEN Range(r.parts) ELSE {r} :
                   Check(p, claims)
    BY CheckIs
  <2> QED BY <2>2, <2>3, Flattened
<1> QED BY <1>1, <1>2

\* "Passes on any one of roles; False demands all of them": what the shorthand
\* require_roles makes of its arguments.
THEOREM RequireRolesMeans ==
  ASSUME NEW roles \in Seq(STRING) \ {<<>>}, NEW anyOf \in BOOLEAN, NEW claims,
         RequireRoles(roles, anyOf) \in Rules
  PROVE  Check(RequireRoles(roles, anyOf), claims) <=>
           IF anyOf THEN \E i \in DOMAIN roles : Atom("role", roles[i]) \in claims
           ELSE \A i \in DOMAIN roles : Atom("role", roles[i]) \in claims
<1> DEFINE One(i) == HasRole(<<roles[i]>>)
<1>1. CASE anyOf
  <2>1. /\ RequireRoles(roles, anyOf).kind = "primitive"
        /\ RequireRoles(roles, anyOf).parts =
             [i \in DOMAIN roles |-> Atom("role", roles[i])]
    BY <1>1 DEF RequireRoles, HasRole, Primitive
  <2>2. Range([i \in DOMAIN roles |-> Atom("role", roles[i])]) =
          {Atom("role", roles[i]) : i \in DOMAIN roles}
    BY DEF Range
  <2>3. Check(RequireRoles(roles, anyOf), claims) <=>
          {Atom("role", roles[i]) : i \in DOMAIN roles} \cap claims # {}
    BY <2>1, <2>2, CheckIs
  <2> QED BY <1>1, <2>3
<1>2. CASE ~anyOf
  <2>1. /\ RequireRoles(roles, anyOf).kind = "all"
        /\ RequireRoles(roles, anyOf).parts = [i \in DOMAIN roles |-> One(i)]
    BY <1>2 DEF RequireRoles, Combine
  <2>2. Range([i \in DOMAIN roles |-> One(i)]) = {One(i) : i \in DOMAIN roles}
    BY DEF Range
  <2>3. {One(i) : i \in DOMAIN roles} \subseteq Rules
    BY <2>1, <2>2, PartsAreRules
  <2>4. Check(RequireRoles(roles, anyOf), claims) <=>
          \A i \in DOMAIN roles : Check(One(i), claims)
    <3> HIDE DEF One
    <3> QED BY <2>1, <2>2, CheckIs
  <2>5. ASSUME NEW i \in DOMAIN roles
        PROVE  Check(One(i), claims) <=> Atom("role", roles[i]) \in claims
    <3>1. One(i).kind = "primitive" /\ Range(One(i).parts) = {Atom("role", roles[i])}
      BY DEF HasRole, Primitive, Range
    <3>2. One(i) \in Rules
      BY <2>3
    <3> HIDE DEF One
    <3>3. Check(One(i), claims) <=> {Atom("role", roles[i])} \cap claims # {}
      BY <3>1, <3>2, CheckIs
    <3> QED BY <3>3
  <2> QED BY <1>2, <2>4, <2>5
<1> QED BY <1>1, <1>2

-----------------------------------------------------------------------------
(* The request.  The inductive invariant says of each dependency what it   *)
(* means that it was solved, and that every declared one is solved or      *)
(* still to be solved at its level.                                        *)

RequestTyped ==
  /\ route \in [routers : Seq(Routers), deps : Seq(Dependencies), listed : BOOLEAN,
                 inSchema : BOOLEAN]
  /\ token.valid \in BOOLEAN /\ token.sub \in BOOLEAN /\ keyed \in BOOLEAN
  /\ \E f \in Families : token \in f.tokens

Asked == Declared \cup (IF NeedsUser THEN {CurrentUser} ELSE {})

Progress ==
  /\ at \in {"start", "solving", "handler", "raised", "served", "answered",
             "followed"}
  /\ todo \in [Levels -> Seq(Asked)] \cup {<<>>}
  /\ solved \subseteq Asked
  /\ at \in {"solving", "handler", "served"} =>
       /\ todo \in [Levels -> Seq(Asked)]
       /\ \A i \in Levels : Range(Effective[i]) \subseteq solved \cup Range(todo[i])
  /\ at \in {"handler", "served"} => \A i \in Levels : todo[i] = <<>>

Met ==
  /\ CurrentUser \in solved => Trusted /\ user = Claims(token)
  /\ OptionalUser \in solved /\ Bearer => Trusted
  /\ CheckApiKey \in solved => apiKey = "right"
  /\ \A d \in solved : d.call = "requires" =>
       CurrentUser \in solved /\ Check(d.rule, Claims(token))

One(b) == IF b THEN 1 ELSE 0

Counted ==
  /\ decodes \in Nat
  /\ at \in {"start", "solving", "handler", "served"} =>
       decodes <= One(CurrentUser \in solved) + One(OptionalUser \in solved)
  /\ DecodedOnce

\* What can be raised on the way, and why.
Refusal(e) ==
  /\ Trusted
  /\ \E d \in Declared :
       /\ d.call = "requires" /\ ~Check(d.rule, Claims(token))
       /\ e = HttpException(403, Describe(d.rule), {})

Raisable(e) ==
  \/ e \in AppErrors \cup HttpExceptions \cup {Crash, [kind |-> "validation"]}
  \/ e = Unauthorized
  \/ Refusal(e)

Reported ==
  /\ at \in {"raised", "answered", "followed"} => Raisable(raised)
  /\ response = IF at \in {"answered", "followed"} THEN Handler(raised, base)
                ELSE NoResponse
  /\ at = "followed" =>
       response.type.base = "/problems" /\ page = Page(response.type.slug)

IInv == RequestTyped /\ Progress /\ Met /\ Counted /\ Reported

-----------------------------------------------------------------------------
\* A dependency is known by its callable.
LEMMA Calls ==
  ASSUME NEW d \in Dependencies
  PROVE  /\ d.call \in {"current_user", "optional_user", "check_api_key",
                        "requires", "plain"}
         /\ d.call = "current_user" <=> d = CurrentUser
         /\ d.call = "optional_user" <=> d = OptionalUser
         /\ d.call = "check_api_key" <=> d = CheckApiKey
         /\ d.call = "plain" <=> d = Plain
         /\ d.call = "requires" => d.rule \in Rules
  BY DEF Dependencies, CurrentUser, OptionalUser, CheckApiKey, Plain, Requires

\* The dependencies of a route, level by level.
LEMMA LevelsTyped ==
  ASSUME RequestTyped
  PROVE  /\ Levels = 1..(Len(route.routers) + 1) /\ Len(route.routers) \in Nat
         /\ DOMAIN route.routers = 1..Len(route.routers)
         /\ Effective \in [Levels -> Seq(Declared)]
         /\ Declared \subseteq Dependencies
         /\ Asked \subseteq Dependencies
         /\ \A i \in Levels : Range(Effective[i]) \subseteq Declared
<1>1. /\ route.routers \in Seq(Routers) /\ route.deps \in Seq(Dependencies)
      /\ keyed \in BOOLEAN
  BY DEF RequestTyped
<1>2. /\ DOMAIN route.routers = 1..Len(route.routers) /\ Len(route.routers) \in Nat
      /\ \A i \in DOMAIN route.routers : route.routers[i] \in Routers
  BY <1>1, LenProperties, ElementOfSeq
<1>3. ASSUME NEW r \in Routers PROVE RouterDeps(r) \in Seq(Dependencies)
  <2>1. /\ r.deps \in Seq(Dependencies)
        /\ r.kind \in {"protected", "internal", "plain"}
    BY DEF Routers
  <2>2. <<CurrentUser>> \in Seq(Dependencies) /\ <<CheckApiKey>> \in Seq(Dependencies)
    BY DEF Dependencies
  <2>3. /\ <<CurrentUser>> \o r.deps \in Seq(Dependencies)
        /\ <<CheckApiKey>> \o r.deps \in Seq(Dependencies)
    BY <2>1, <2>2, ConcatProperties
  <2> QED BY <1>1, <2>1, <2>3 DEF RouterDeps, ProtectedRouter, InternalRouter
<1>4. /\ DOMAIN Effective = Levels
      /\ \A i \in Levels : Effective[i] \in Seq(Dependencies)
  BY <1>1, <1>2, <1>3 DEF Effective
<1>5. ASSUME NEW i \in Levels
      PROVE  /\ Range(Effective[i]) \subseteq Declared
             /\ Range(Effective[i]) \subseteq Dependencies
             /\ Effective[i] \in Seq(Declared)
  <2>1. Range(Effective[i]) \subseteq Declared
    BY DEF Declared
  <2>2. Effective[i] \in Seq(Range(Effective[i]))
    <3>1. /\ Effective[i] = [j \in 1..Len(Effective[i]) |-> Effective[i][j]]
          /\ DOMAIN Effective[i] = 1..Len(Effective[i]) /\ Len(Effective[i]) \in Nat
      BY <1>4, SeqDef, LenProperties
    <3>2. \A j \in 1..Len(Effective[i]) : Effective[i][j] \in Range(Effective[i])
      BY <3>1 DEF Range
    <3>3. Effective[i] \in [1..Len(Effective[i]) -> Range(Effective[i])]
      BY <3>1, <3>2
    <3> QED BY <3>1, <3>3, SeqDef
  <2>3. Effective[i] \in Seq(Declared)
    BY <2>1, <2>2, SeqOf
  <2> QED BY <1>4, <2>1, <2>3, SeqOf
<1>6. Effective \in [Levels -> Seq(Declared)]
  <2>1. Effective = [i \in Levels |-> Effective[i]]
    BY DEF Effective
  <2> QED BY <1>5, <2>1
<1>7. Declared \subseteq Dependencies
  BY <1>5 DEF Declared
<1>8. Asked \subseteq Dependencies
  BY <1>7 DEF Asked, Dependencies
<1> QED BY <1>2, <1>5, <1>6, <1>7, <1>8 DEF Levels

\* A request that is under way does not change, nor does what it must meet.
LEMMA RequestStays ==
  ASSUME UNCHANGED requestVars
  PROVE  /\ route' = route /\ token' = token /\ apiKey' = apiKey
         /\ keyed' = keyed /\ base' = base
         /\ Levels' = Levels /\ Effective' = Effective /\ Declared' = Declared
         /\ NeedsUser' = NeedsUser /\ Asked' = Asked
         /\ Trusted' = Trusted /\ Bearer' = Bearer
         /\ RequestTyped => RequestTyped'
<1>1. /\ route' = route /\ token' = token /\ apiKey' = apiKey
      /\ keyed' = keyed /\ base' = base
  BY DEF requestVars
<1>2. /\ Levels' = Levels /\ Trusted' = Trusted /\ Bearer' = Bearer
      /\ RequestTyped => RequestTyped'
  BY <1>1 DEF Levels, Trusted, Bearer, RequestTyped
<1>3. Effective' = Effective
  <2> DEFINE E(i, rt, k) ==
        IF i \in DOMAIN rt.routers
        THEN LET r == rt.routers[i] IN
             CASE r.kind = "protected" -> <<CurrentUser>> \o r.deps
               [] r.kind = "internal" -> IF k THEN <<CheckApiKey>> \o r.deps ELSE r.deps
               [] r.kind = "plain" -> r.deps
        ELSE rt.deps
  <2>1. Effective = [i \in Levels |-> E(i, route, keyed)]
    BY DEF Effective, RouterDeps, InternalRouter, ProtectedRouter
  <2>2. Effective' = [i \in Levels' |-> E(i, route', keyed')]
    BY DEF Effective, RouterDeps, InternalRouter, ProtectedRouter
  <2> HIDE DEF E
  <2> QED BY <1>1, <1>2, <2>1, <2>2
<1>4. Declared' = Declared
  <2>1. \A x : x \in Declared' <=> x \in Declared
    BY <1>2, <1>3 DEF Declared
  <2> QED BY <2>1
<1>5. NeedsUser' = NeedsUser
  BY <1>4 DEF NeedsUser, Has
<1>6. Asked' = Asked
  BY <1>4, <1>5 DEF Asked
<1> QED BY <1>1, <1>2, <1>3, <1>4, <1>5, <1>6

\* Who asks for a user is known from the routes; the counts of decodings follow.
LEMMA Askers ==
  ASSUME RequestTyped
  PROVE  /\ CurrentUser \in Asked <=> NeedsUser
         /\ OptionalUser \in Asked <=> Has("optional_user")
         /\ CheckApiKey \in Declared <=> Has("check_api_key")
         /\ \A d \in Asked : d.call = "requires" => d \in Declared /\ NeedsUser
<1>1. Declared \subseteq Dependencies
  BY LevelsTyped
<1>2. \A d \in Declared : /\ d.call = "current_user" <=> d = CurrentUser
                          /\ d.call = "optional_user" <=> d = OptionalUser
                          /\ d.call = "check_api_key" <=> d = CheckApiKey
  BY <1>1, Calls
<1>3. /\ CurrentUser.call = "current_user" /\ OptionalUser.call = "optional_user"
      /\ CheckApiKey.call = "check_api_key" /\ OptionalUser # CurrentUser
  BY DEF CurrentUser, OptionalUser, CheckApiKey
<1>4. /\ CurrentUser \in Declared <=> Has("current_user")
      /\ OptionalUser \in Declared <=> Has("optional_user")
      /\ CheckApiKey \in Declared <=> Has("check_api_key")
  BY <1>2, <1>3 DEF Has
<1>5. \A d \in Asked : d.call = "requires" => d \in Declared
  BY <1>3 DEF Asked
<1> QED BY <1>3, <1>4, <1>5 DEF Asked, NeedsUser, Has

\* A request that has just arrived.
LEMMA InitTrue == Init => IInv
<1> SUFFICES ASSUME Init PROVE IInv
  OBVIOUS
<1>1. RequestTyped
  BY EndpointAssumption DEF Init, RequestTyped
<1>2. Progress /\ Met /\ Reported
  BY DEF Init, Progress, Met, Reported
<1>3. Counted
  BY DEF Init, Counted, One, DecodedOnce
<1> QED BY <1>1, <1>2, <1>3 DEF IInv

\* Raising ends the request, whatever was left to solve.
LEMMA Raising ==
  ASSUME IInv, NEW e, Raise(e), Raisable(e), decodes' \in Nat, DecodedOnce',
         at \in {"start", "solving", "handler"}
  PROVE  IInv'
<1> USE DEF IInv
<1>1. UNCHANGED requestVars
  BY DEF Raise
<1>2. /\ at' = "raised" /\ raised' = e /\ todo' = todo /\ solved' = solved
      /\ user' = user /\ response' = response /\ page' = page
  BY DEF Raise
<1>3. RequestTyped'
  BY <1>1, RequestStays
<1>4. Progress'
  BY <1>1, <1>2, RequestStays DEF Progress
<1>5. Met'
  BY <1>1, <1>2, RequestStays DEF Met
<1>6. Counted'
  BY <1>2 DEF Counted
<1>7. Reported'
  <2>1. Raisable(raised)'
    BY <1>1, <1>2, RequestStays DEF Raisable, Refusal
  <2>2. response = NoResponse
    BY DEF Reported
  <2> QED BY <1>2, <2>1, <2>2 DEF Reported
<1> QED BY <1>3, <1>4, <1>5, <1>6, <1>7

\* A dependency is solved when what it stands for is met.
LEMMA Solved ==
  ASSUME IInv, at = "solving", NEW i, Turn(i), Solve(i),
         user' = user \/ user' = Claims(token),
         \/ Head(todo[i]) = CurrentUser /\ Trusted /\ user' = Claims(token)
         \/ Head(todo[i]) = OptionalUser /\ (Bearer => Trusted)
         \/ Head(todo[i]) = CheckApiKey /\ apiKey = "right"
         \/ /\ Head(todo[i]).call = "requires" /\ CurrentUser \in solved
            /\ Check(Head(todo[i]).rule, Claims(token))
         \/ Head(todo[i]) = Plain
         \/ Head(todo[i]) \in solved,
         Counted'
  PROVE  IInv'
<1> USE DEF IInv
<1> DEFINE d == Head(todo[i])
<1>1. UNCHANGED requestVars
  BY DEF Solve
<1>2. /\ todo' = [todo EXCEPT ![i] = Tail(@)] /\ solved' = solved \cup {d}
      /\ at' = at /\ raised' = raised /\ response' = response /\ page' = page
  BY DEF Solve
<1>3. /\ i \in Levels /\ todo \in [Levels -> Seq(Asked)]
      /\ todo[i] \in Seq(Asked) /\ todo[i] # <<>>
  BY DEF Turn, Progress
<1>4. /\ d \in Asked /\ Tail(todo[i]) \in Seq(Asked)
      /\ Range(todo[i]) \subseteq {d} \cup Range(Tail(todo[i]))
  <2> DEFINE s == todo[i]
  <2>1. s \in Seq(Asked) /\ s # <<>> /\ d = Head(s)
    BY <1>3
  <2> HIDE DEF s, d
  <2>2. /\ d \in Asked /\ Tail(s) \in Seq(Asked) /\ d = s[1]
        /\ Len(s) \in Nat /\ DOMAIN s = 1..Len(s)
        /\ Len(Tail(s)) = Len(s) - 1
        /\ \A j \in 1..(Len(s) - 1) : Tail(s)[j] = s[j + 1]
    BY <2>1, HeadTailProperties, LenProperties
  <2>3. DOMAIN Tail(s) = 1..(Len(s) - 1)
    BY <2>2, LenProperties
  <2>4. \A j \in 1..Len(s) : j = 1 \/ j - 1 \in 1..(Len(s) - 1)
    BY <2>2
  <2>5. ASSUME NEW x \in Range(s), x # d PROVE x \in Range(Tail(s))
    <3>1. PICK j \in 1..Len(s) : x = s[j]
      BY <2>2 DEF Range
    <3>2. j - 1 \in 1..(Len(s) - 1) /\ Tail(s)[j - 1] = s[j]
      BY <2>2, <2>4, <2>5, <3>1
    <3> QED BY <2>3, <3>1, <3>2 DEF Range
  <2>6. Range(s) \subseteq {d} \cup Range(Tail(s))
    BY <2>5
  <2> QED BY <2>2, <2>6 DEF s
<1> HIDE DEF d
<1>5. RequestTyped'
  BY <1>1, RequestStays
<1>6. Progress'
  <2>1. todo' \in [Levels -> Seq(Asked)] /\ solved' \subseteq Asked
    BY <1>2, <1>3, <1>4 DEF Progress
  <2>2. ASSUME NEW k \in Levels
        PROVE  Range(Effective[k]) \subseteq solved' \cup Range(todo'[k])
    <3>1. Range(Effective[k]) \subseteq solved \cup Range(todo[k])
      BY DEF Progress
    <3>2. todo'[k] = IF k = i THEN Tail(todo[i]) ELSE todo[k]
      BY <1>2, <1>3
    <3> QED BY <1>2, <1>4, <3>1, <3>2
  <2> QED BY <1>1, <1>2, <2>1, <2>2, RequestStays DEF Progress
<1>7. Met'
  <2>1. d \in Dependencies
    BY <1>4, LevelsTyped
  <2>2. /\ CurrentUser \in solved' => Trusted /\ user' = Claims(token)
        /\ OptionalUser \in solved' /\ Bearer => Trusted
        /\ CheckApiKey \in solved' => apiKey = "right"
    BY <1>2, <2>1, Calls DEF Met, d
  <2>3. \A x \in solved' : x.call = "requires" =>
          CurrentUser \in solved' /\ Check(x.rule, Claims(token))
    BY <1>2, <2>1, Calls DEF Met, d
  <2> QED BY <1>1, <2>2, <2>3, RequestStays DEF Met
<1>8. Reported'
  BY <1>2 DEF Reported
<1> QED BY <1>5, <1>6, <1>7, <1>8

\* What stands first at a level is a dependency of this request.
LEMMA FirstAsked ==
  ASSUME IInv, at = "solving", NEW i, Turn(i)
  PROVE  Head(todo[i]) \in Asked /\ Head(todo[i]) \in Dependencies
<1>1. todo[i] \in Seq(Asked) /\ todo[i] # <<>> /\ Asked \subseteq Dependencies
  BY LevelsTyped DEF IInv, Progress, Turn
<1> QED BY <1>1

\* The table of the statuses that have a code.
LEMMA StatusCodes ==
  /\ DOMAIN StatusToErrorCode = {400, 401, 403, 404, 409, 413, 422, 429, 504}
  /\ StatusToErrorCode[400] = "INPUT" /\ StatusToErrorCode[401] = "AUTH"
  /\ StatusToErrorCode[403] = "FORBIDDEN" /\ StatusToErrorCode[404] = "NOT_FOUND"
  /\ StatusToErrorCode[409] = "CONFLICT" /\ StatusToErrorCode[422] = "INPUT"
  /\ StatusToErrorCode[429] = "RATE_LIMIT"
  /\ StatusToErrorCode[413] = "PAYLOAD_TOO_LARGE"
  /\ StatusToErrorCode[504] = "TIMEOUT"
  BY DEF StatusToErrorCode

\* A callable that asks for the claims decodes the token once.
LEMMA Decoding ==
  ASSUME IInv, at = "solving", NEW i, Turn(i), ~Cached(i), Bearer, Decode(i),
         Head(todo[i]) \in {CurrentUser, OptionalUser}
  PROVE  IInv'
<1> DEFINE d == Head(todo[i])
<1>1. d \in Asked /\ d \notin solved /\ solved \subseteq Asked
  BY FirstAsked DEF Cached, IInv, Progress
<1>2. /\ decodes \in Nat /\ decodes' = decodes + 1
      /\ decodes <= One(CurrentUser \in solved) + One(OptionalUser \in solved)
  BY DEF IInv, Counted, Decode
<1>3. CurrentUser # OptionalUser
  BY DEF CurrentUser, OptionalUser
<1>4. /\ CurrentUser \in Asked <=> NeedsUser
      /\ OptionalUser \in Asked <=> Has("optional_user")
  BY Askers DEF IInv
<1>5. decodes' \in Nat /\ decodes' <= One(CurrentUser \in solved \cup {d})
                                        + One(OptionalUser \in solved \cup {d})
  BY <1>1, <1>2, <1>3 DEF One
<1>6. decodes' <= One(NeedsUser) + One(Has("optional_user"))
  BY <1>1, <1>4, <1>5 DEF One
<1>7. UNCHANGED requestVars
  BY DEF Decode, Raise, Solve
<1>8. DecodedOnce'
  <2>1. Has("optional_user")' = Has("optional_user")
    BY <1>7, RequestStays DEF Has
  <2> QED BY <1>6, <1>7, <2>1, RequestStays DEF DecodedOnce, One
<1>9. token.valid \in BOOLEAN /\ token.sub \in BOOLEAN
  BY DEF IInv, RequestTyped
<1>10. CASE \E e \in DecodeRaises(token) : Raise(e)
  <2>1. DecodeRaises(token) \subseteq {Unauthorized, Crash}
    BY <1>9 DEF DecodeRaises
  <2>2. PICK e \in {Unauthorized, Crash} : Raise(e)
    BY <1>10, <2>1
  <2>3. Raisable(e)
    BY <2>2 DEF Raisable
  <2> QED BY <1>5, <1>8, <2>2, <2>3, Raising
<1>11. CASE DecodeRaises(token) = {} /\ Solve(i) /\ user' = Claims(token)
  <2>1. Trusted
    BY <1>9, <1>11 DEF DecodeRaises, Trusted
  <2>2. Counted'
    <3>1. at' = at /\ solved' = solved \cup {d}
      BY <1>11 DEF Solve
    <3> QED BY <1>5, <1>8, <3>1 DEF Counted
  <2> QED BY <1>11, <2>1, <2>2, Solved
<1> QED BY <1>10, <1>11 DEF Decode

\* Without a decoding the count stays right.
LEMMA CountedStays ==
  ASSUME IInv, decodes' = decodes, UNCHANGED requestVars
  PROVE  /\ decodes' \in Nat /\ DecodedOnce'
         /\ at = "solving" /\ at' = at /\ solved \subseteq solved' => Counted'
<1>1. Has("optional_user")' = Has("optional_user") /\ NeedsUser' = NeedsUser
  BY RequestStays DEF Has
<1>2. decodes' \in Nat /\ DecodedOnce'
  BY <1>1 DEF IInv, Counted, DecodedOnce
<1>3. ASSUME at = "solving", at' = at, solved \subseteq solved' PROVE Counted'
  <2>1. decodes <= One(CurrentUser \in solved) + One(OptionalUser \in solved)
    BY <1>3 DEF IInv, Counted
  <2> QED BY <1>2, <1>3, <2>1 DEF Counted, One, IInv
<1> QED BY <1>2, <1>3

\* Every step of a dependency.
LEMMA SolvingStep ==
  ASSUME IInv, NEW i \in Levels,
         \/ FromCache(i) \/ SolveCurrentUser(i) \/ SolveOptionalUser(i)
         \/ SolveApiKey(i) \/ SolveRequires(i) \/ SolvePlain(i)
  PROVE  IInv'
<1> DEFINE d == Head(todo[i])
<1>1. at = "solving" /\ Turn(i)
  BY DEF FromCache, SolveCurrentUser, SolveOptionalUser, SolveApiKey,
         SolveRequires, SolvePlain, Solving
<1>2. d \in Dependencies /\ d \in Asked
  BY <1>1, FirstAsked
<1>3. ASSUME Solve(i), decodes' = decodes PROVE Counted'
  <2>1. UNCHANGED requestVars /\ at' = at /\ solved \subseteq solved'
    BY <1>3 DEF Solve
  <2> QED BY <1>1, <1>3, <2>1, CountedStays
<1>4. ASSUME NEW e, Raise(e), decodes' = decodes, Raisable(e) PROVE IInv'
  <2>1. UNCHANGED requestVars
    BY <1>4 DEF Raise
  <2> QED BY <1>1, <1>4, <2>1, CountedStays, Raising
<1>5. CASE FromCache(i)
  BY <1>1, <1>3, <1>5, Solved DEF FromCache, Cached
<1>6. CASE SolveCurrentUser(i)
  <2>1. d = CurrentUser /\ ~Cached(i)
    BY <1>2, <1>6, Calls DEF SolveCurrentUser, Solving
  <2>2. CASE Bearer
    BY <1>1, <1>6, <2>1, <2>2, Decoding DEF SolveCurrentUser
  <2>3. CASE ~Bearer
    BY <1>4, <1>6, <2>3 DEF SolveCurrentUser, Raisable
  <2> QED BY <2>2, <2>3
<1>7. CASE SolveOptionalUser(i)
  <2>1. d = OptionalUser /\ ~Cached(i)
    BY <1>2, <1>7, Calls DEF SolveOptionalUser, Solving
  <2>2. CASE Bearer
    BY <1>1, <1>7, <2>1, <2>2, Decoding DEF SolveOptionalUser
  <2>3. CASE ~Bearer
    BY <1>1, <1>3, <1>7, <2>1, <2>3, Solved DEF SolveOptionalUser
  <2> QED BY <2>2, <2>3
<1>8. CASE SolveApiKey(i)
  <2>1. d = CheckApiKey /\ decodes' = decodes
    BY <1>2, <1>8, Calls DEF SolveApiKey, Solving
  <2>2. CASE apiKey = "right"
    BY <1>1, <1>3, <1>8, <2>1, <2>2, Solved DEF SolveApiKey
  <2>3. CASE apiKey # "right"
    <3>1. PICK e \in {Crash, InvalidKey} : Raise(e)
      BY <1>8, <2>3 DEF SolveApiKey
    <3>2. InvalidKey \in HttpExceptions
      BY StatusCodes DEF HttpExceptions, InvalidKey
    <3>3. Raisable(e)
      BY <3>1, <3>2 DEF Raisable
    <3> QED BY <1>4, <2>1, <3>1, <3>3
  <2> QED BY <2>2, <2>3
<1>9. CASE SolvePlain(i)
  <2>1. d = Plain /\ decodes' = decodes
    BY <1>2, <1>9, Calls DEF SolvePlain, Solving
  <2>2. CASE Solve(i) /\ user' = user
    BY <1>1, <1>3, <2>1, <2>2, Solved
  <2>3. CASE Raise(HttpException(400, <<>>, {}))
    <3>1. HttpException(400, <<>>, {}) \in HttpExceptions
      BY StatusCodes DEF HttpExceptions
    <3>2. Raisable(HttpException(400, <<>>, {}))
      BY <3>1 DEF Raisable
    <3> QED BY <1>4, <2>1, <2>3, <3>2
  <2> QED BY <1>9, <2>2, <2>3 DEF SolvePlain
<1>10. CASE SolveRequires(i)
  <2>1. d.call = "requires" /\ decodes' = decodes
    BY <1>10 DEF SolveRequires, Solving
  <2>2. d.rule \in Rules /\ d \in Declared /\ NeedsUser
    BY <1>2, <2>1, Calls, Askers DEF IInv
  <2>3. CASE CurrentUser \notin solved
    <3>1. /\ todo' = [todo EXCEPT ![i] = <<CurrentUser>> \o @]
          /\ UNCHANGED <<requestVars, at, solved, user, raised, response, page>>
      BY <1>10, <2>3 DEF SolveRequires
    <3>2. todo \in [Levels -> Seq(Asked)]
      BY <1>1 DEF IInv, Progress
    <3>3. CurrentUser \in Asked
      BY <2>2 DEF Asked
    <3>4. ASSUME NEW k \in Levels
          PROVE  todo'[k] \in Seq(Asked) /\ Range(todo[k]) \subseteq Range(todo'[k])
      <4>1. todo'[k] = IF k = i THEN <<CurrentUser>> \o todo[i] ELSE todo[k]
        BY <3>1, <3>2
      <4>2. /\ <<CurrentUser>> \o todo[i] \in Seq(Asked)
            /\ Range(todo[i]) \subseteq Range(<<CurrentUser>> \o todo[i])
        <5>1. todo[i] \in Seq(Asked)
          BY <3>2
        <5> DEFINE s == todo[i]
        <5> HIDE DEF s
        <5>2. <<CurrentUser>> \o s \in Seq(Asked)
              /\ Range(<<CurrentUser>> \o s) = {CurrentUser} \cup Range(s)
          BY <3>3, <5>1, RangeCons DEF s
        <5> QED BY <5>2 DEF s
      <4> QED BY <3>2, <4>1, <4>2
    <3>5. todo' \in [Levels -> Seq(Asked)]
      <4>1. todo' = [k \in Levels |-> todo'[k]]
        BY <3>1, <3>2
      <4> QED BY <3>4, <4>1
    <3>6. Progress'
      <4>1. \A k \in Levels : Range(Effective[k]) \subseteq solved \cup Range(todo[k])
        BY <1>1 DEF IInv, Progress
      <4>2. \A k \in Levels : Range(Effective[k]) \subseteq solved' \cup Range(todo'[k])
        BY <3>1, <3>4, <4>1
      <4> QED BY <1>1, <3>1, <3>5, <4>2, RequestStays DEF IInv, Progress
    <3>7. RequestTyped' /\ Met'
      BY <3>1, RequestStays DEF IInv, Met
    <3>8. Counted' /\ Reported'
      BY <1>1, <2>1, <3>1, CountedStays DEF IInv, Reported
    <3> QED BY <3>6, <3>7, <3>8 DEF IInv
  <2>4. CASE CurrentUser \in solved /\ Check(d.rule, user)
    <3>1. Solve(i) /\ user' = user /\ user = Claims(token)
      BY <1>10, <2>4 DEF SolveRequires, IInv, Met
    <3> QED BY <1>1, <1>3, <2>1, <2>4, <3>1, Solved
  <2>5. CASE CurrentUser \in solved /\ ~Check(d.rule, user)
    <3>1. Raise(HttpException(403, Describe(d.rule), {}))
      BY <1>10, <2>5 DEF SolveRequires
    <3>2. Trusted /\ user = Claims(token)
      BY <2>5 DEF IInv, Met
    <3>3. Refusal(HttpException(403, Describe(d.rule), {}))
      BY <2>1, <2>2, <2>5, <3>2 DEF Refusal
    <3>4. Raisable(HttpException(403, Describe(d.rule), {}))
      BY <3>3 DEF Raisable
    <3> QED BY <1>4, <2>1, <3>1, <3>4
  <2> QED BY <2>3, <2>4, <2>5
<1> QED BY <1>5, <1>6, <1>7, <1>8, <1>9, <1>10

\* The steps that solve nothing.
LEMMA StartStep == IInv /\ Start => IInv'
<1> SUFFICES ASSUME IInv, Start PROVE IInv'
  OBVIOUS
<1>1. at = "start" /\ decodes' = decodes /\ UNCHANGED requestVars
  BY DEF Start, Raise
<1>2. CASE body = "malformed"
  <2>1. Raise([kind |-> "validation"]) /\ Raisable([kind |-> "validation"])
    BY <1>2 DEF Start, Raisable
  <2> QED BY <1>1, <2>1, CountedStays, Raising
<1>3. CASE body # "malformed"
  <2>1. /\ at' = "solving" /\ todo' = Effective
        /\ UNCHANGED <<requestVars, solved, user, raised, response, page>>
    BY <1>3 DEF Start
  <2>2. /\ Effective \in [Levels -> Seq(Declared)]
        /\ Declared \subseteq Asked
    BY LevelsTyped DEF IInv, Asked
  <2>3. todo' \in [Levels -> Seq(Asked)]
    <3>1. \A i \in Levels : Effective[i] \in Seq(Asked)
      BY <2>2, SeqOf
    <3> QED BY <2>1, <2>2, <3>1
  <2>4. Progress'
    BY <1>1, <2>1, <2>3, RequestStays DEF IInv, Progress
  <2>5. RequestTyped' /\ Met'
    BY <2>1, RequestStays DEF IInv, Met
  <2>6. Counted' /\ Reported'
    BY <1>1, <2>1, CountedStays DEF IInv, Counted, Reported
  <2> QED BY <2>4, <2>5, <2>6 DEF IInv
<1> QED BY <1>2, <1>3

\* Handlers, answers and their readers solve nothing either.
LEMMA OtherSteps ==
  ASSUME IInv, \/ Run \/ HandlerRaises \/ HandlerReturns \/ Unrouted
               \/ Answer \/ Follow \/ UNCHANGED vars
  PROVE  IInv'
<1>1. decodes' = decodes /\ UNCHANGED requestVars
  BY DEF Run, HandlerRaises, HandlerReturns, Unrouted, Answer, Follow, Raise, vars,
         requestVars
<1>2. ASSUME NEW e, Raise(e), Raisable(e), at \in {"start", "solving", "handler"}
      PROVE  IInv'
  BY <1>1, <1>2, CountedStays, Raising
<1>3. ASSUME UNCHANGED <<todo, solved, user, raised>>,
             at' \in {"handler", "served", "answered", "followed", at},
             \/ at' = at
             \/ at = "solving" /\ at' = "handler" /\ \A i \in Levels : todo[i] = <<>>
             \/ at = "handler" /\ at' = "served"
             \/ at' \in {"answered", "followed"}
      PROVE  RequestTyped' /\ Progress' /\ Met' /\ Counted'
  <2>1. RequestTyped' /\ Met'
    BY <1>1, <1>3, RequestStays DEF IInv, Met
  <2>2. Progress'
    BY <1>1, <1>3, RequestStays DEF IInv, Progress
  <2>3. Counted'
    BY <1>1, <1>3, CountedStays DEF IInv, Counted
  <2> QED BY <2>1, <2>2, <2>3
<1>4. Raisable(raised) /\ raised' = raised => Raisable(raised)'
  BY <1>1, RequestStays DEF Raisable, Refusal
<1>5. CASE Run
  <2>1. Raisable([kind |-> "validation"])
    BY DEF Raisable
  <2>2. CASE body = "invalid"
    BY <1>2, <1>5, <2>1, <2>2 DEF Run
  <2>3. CASE body # "invalid"
    <3>1. Reported'
      BY <1>5, <2>3 DEF Run, IInv, Reported
    <3> QED BY <1>3, <1>5, <2>3, <3>1 DEF Run, IInv
  <2> QED BY <2>2, <2>3
<1>6. CASE HandlerRaises
  BY <1>2, <1>6 DEF HandlerRaises, Raisable
<1>7. CASE HandlerReturns
  <2>1. Reported'
    BY <1>7 DEF HandlerReturns, IInv, Reported
  <2> QED BY <1>3, <1>7, <2>1 DEF HandlerReturns, IInv
<1>8. CASE Unrouted
  <2>1. PICK s \in {404, 405} : Raise(HttpException(s, <<>>, {}))
    BY <1>8 DEF Unrouted
  <2>2. HttpException(s, <<>>, {}) \in HttpExceptions
    BY StatusCodes DEF HttpExceptions
  <2>3. Raisable(HttpException(s, <<>>, {}))
    BY <2>2 DEF Raisable
  <2> QED BY <1>2, <1>8, <2>1, <2>3 DEF Unrouted
<1>9. CASE Answer
  <2>1. Reported'
    BY <1>1, <1>4, <1>9, RequestStays DEF Answer, IInv, Reported
  <2> QED BY <1>3, <1>9, <2>1 DEF Answer, IInv
<1>10. CASE Follow
  <2>1. Reported'
    BY <1>1, <1>4, <1>10, RequestStays DEF Follow, IInv, Reported
  <2> QED BY <1>3, <1>10, <2>1 DEF Follow, IInv
<1>11. CASE UNCHANGED vars
  <2>1. UNCHANGED <<at, todo, solved, user, raised, response, page>>
    BY <1>11 DEF vars
  <2>2. Reported'
    BY <1>1, <1>4, <2>1, RequestStays DEF IInv, Reported
  <2> QED BY <1>3, <2>1, <2>2 DEF IInv
<1> QED BY <1>5, <1>6, <1>7, <1>8, <1>9, <1>10, <1>11

\* Every step of a request preserves the invariant.
LEMMA NextTrue == IInv /\ [Next]_vars => IInv'
  BY SolvingStep, StartStep, OtherSteps DEF Next, Ended

\* The invariant holds at every moment of every request.
LEMMA Invariance == Spec => []IInv
<1>1. Init => IInv
  BY InitTrue
<1>2. IInv /\ [Next]_vars => IInv'
  BY NextTrue
<1> QED BY <1>1, <1>2, PTL DEF Spec

-----------------------------------------------------------------------------
\* A handler runs when everything declared was solved.
LEMMA AllSolved ==
  ASSUME IInv, at \in {"handler", "served"}
  PROVE  /\ Declared \subseteq solved
         /\ NeedsUser => CurrentUser \in solved /\ Trusted
<1>1. Declared \subseteq solved
  <2>1. \A i \in Levels : Range(Effective[i]) \subseteq solved
    BY DEF IInv, Progress, Range
  <2> QED BY <2>1 DEF Declared
<1>2. ASSUME NeedsUser PROVE CurrentUser \in solved
  <2>1. PICK d \in Declared : d.call = "current_user" \/ d.call = "requires"
    BY <1>2 DEF NeedsUser, Has
  <2>2. d \in Dependencies /\ d \in solved
    BY <1>1, LevelsTyped DEF IInv
  <2> QED BY <2>1, <2>2, Calls DEF IInv, Met
<1> QED BY <1>1, <1>2 DEF IInv, Met

\* No handler runs before the guards of its routers and of its route were met
\* by this request.
LEMMA HandlersGuarded == IInv => Guarded
<1> SUFFICES ASSUME IInv, at \in {"handler", "served"}
             PROVE  /\ NeedsUser => Trusted
                    /\ Has("optional_user") /\ Bearer => Trusted
                    /\ Has("check_api_key") => apiKey = "right"
                    /\ \A d \in Declared : d.call = "requires" =>
                         Check(d.rule, Claims(token))
                    /\ \A i \in DOMAIN route.routers :
                         /\ route.routers[i].kind = "protected" => Trusted
                         /\ route.routers[i].kind = "internal" /\ keyed =>
                              apiKey = "right"
  BY DEF Guarded
<1>1. Declared \subseteq solved /\ (NeedsUser => CurrentUser \in solved /\ Trusted)
  BY AllSolved
<1>2. Declared \subseteq Dependencies
  BY LevelsTyped DEF IInv
<1>3. /\ \A d \in Declared : d.call = "requires" => Check(d.rule, Claims(token))
      /\ Has("optional_user") /\ Bearer => Trusted
      /\ Has("check_api_key") => apiKey = "right"
  BY <1>1, <1>2, Calls DEF IInv, Met, Has
<1>4. ASSUME NEW i \in DOMAIN route.routers
      PROVE  /\ route.routers[i].kind = "protected" => Trusted
             /\ route.routers[i].kind = "internal" /\ keyed => apiKey = "right"
  <2> DEFINE r == route.routers[i]
  <2>1. /\ i \in Levels /\ Effective[i] = RouterDeps(r) /\ r.deps \in Seq(Dependencies)
        /\ Range(Effective[i]) \subseteq solved
    <3>1. i \in Levels
      BY LevelsTyped DEF IInv
    <3>2. r \in Routers
      BY ElementOfSeq, LevelsTyped DEF IInv, RequestTyped
    <3>3. Effective[i] = RouterDeps(r)
      BY <3>1 DEF Effective
    <3> QED BY <1>1, <3>1, <3>2, <3>3, LevelsTyped DEF IInv, Routers
  <2>2. CurrentUser \in Dependencies /\ CheckApiKey \in Dependencies
    BY DEF Dependencies
  <2>3. ASSUME NEW d \in Dependencies
        PROVE  d \in Range(<<d>> \o r.deps)
    <3> DEFINE s == r.deps
    <3>1. s \in Seq(Dependencies)
      BY <2>1
    <3> HIDE DEF r, s
    <3>2. Range(<<d>> \o s) = {d} \cup Range(s)
      BY <2>3, <3>1, RangeCons
    <3> QED BY <3>2 DEF s
  <2>4. ASSUME r.kind = "protected" PROVE Trusted
    <3>1. CurrentUser \in solved
      BY <2>1, <2>2, <2>3, <2>4 DEF RouterDeps, ProtectedRouter
    <3> QED BY <3>1 DEF IInv, Met
  <2>5. ASSUME r.kind = "internal", keyed PROVE apiKey = "right"
    <3>1. CheckApiKey \in solved
      BY <2>1, <2>2, <2>3, <2>5 DEF RouterDeps, InternalRouter
    <3> QED BY <3>1 DEF IInv, Met
  <2> QED BY <2>4, <2>5
<1> QED BY <1>1, <1>3, <1>4

\* The audit sees every route that serves a request without credentials.
LEMMA OpenAreReported == IInv => OpenRoutesReported
<1> SUFFICES ASSUME IInv, at \in {"handler", "served"}, token.scheme = None,
                    apiKey = "none", route.inSchema, ~route.listed,
                    ~Has("optional_user")
             PROVE  Unprotected
  BY DEF OpenRoutesReported, ServedOpen
<1>1. Declared \subseteq solved /\ (NeedsUser => CurrentUser \in solved /\ Trusted)
  BY AllSolved
<1>2. Declared \subseteq Dependencies
  BY LevelsTyped DEF IInv
<1>3. ~Trusted
  BY DEF Trusted, Bearer, None
<1>4. ~Has("current_user") /\ ~Has("requires")
  BY <1>1, <1>3 DEF NeedsUser
<1>5. ~Has("check_api_key")
  BY <1>1, <1>2, Calls DEF Has, IInv, Met
<1>6. \A d \in Declared : d = Plain
  BY <1>2, <1>4, <1>5, Calls DEF Has
<1> QED BY <1>6 DEF Unprotected, DeclaresScheme

\* The detail of a response is that of the exception it was made of.
LEMMA Responses ==
  ASSUME IInv, response # NoResponse
  PROVE  /\ at \in {"answered", "followed"}
         /\ Raisable(raised) /\ response = Handler(raised, base)
  BY DEF IInv, Reported

\* What the handlers make of each exception that can be raised.
LEMMA HandlerOf ==
  ASSUME NEW e, NEW b
  PROVE  /\ e.kind = "app" => Handler(e, b) = AppErrorHandler(e, b)
         /\ e.kind = "validation" => Handler(e, b) = ValidationHandler(b)
         /\ e.kind = "http" => Handler(e, b) = HttpExceptionHandler(e, b)
         /\ e.kind = "other" => Handler(e, b) = UnhandledHandler(b)
  BY DEF Handler

\* The kinds of the exceptions.
LEMMA Kinds ==
  ASSUME NEW e, Raisable(e)
  PROVE  \/ e.kind \in {"validation", "other"}
         \/ /\ e.kind = "app" /\ e.code \in ErrorCode
            /\ e.type \in {None, "urn:problem"}
         \/ /\ e = Unauthorized /\ e.kind = "http" /\ e.status = 401 /\ e.detail = <<>>
            /\ e.headers = {"WWW-Authenticate"}
         \/ /\ e.kind = "http" /\ e.status = 429 /\ e.detail = <<>>
            /\ e.headers = {"Retry-After"}
         \/ /\ e.kind = "http" /\ e.detail = <<>> /\ e.headers = {}
            /\ e.status \in DOMAIN StatusToErrorCode \cup {405, 418, 503}
         \/ e.kind = "http" /\ e.status = 403 /\ e.headers = {} /\ Refusal(e)
<1>1. CASE e \in AppErrors
  BY <1>1 DEF AppErrors, AppError
<1>2. CASE e \in HttpExceptions
  BY <1>2 DEF HttpExceptions, HttpException
<1>3. CASE e \in {Crash, [kind |-> "validation"]}
  BY <1>3 DEF Crash
<1>4. CASE e = Unauthorized
  BY <1>4 DEF Unauthorized, HttpException
<1>5. CASE Refusal(e)
  <2>1. \E detail : e = HttpException(403, detail, {})
    BY <1>5 DEF Refusal
  <2>2. e.kind = "http" /\ e.status = 403 /\ e.headers = {}
    BY <2>1 DEF HttpException
  <2> QED BY <1>5, <2>2
<1>6. \/ e \in AppErrors \/ e \in HttpExceptions
      \/ e \in {Crash, [kind |-> "validation"]} \/ e = Unauthorized \/ Refusal(e)
  BY DEF Raisable
<1> QED BY <1>1, <1>2, <1>3, <1>4, <1>5, <1>6

\* A refusal that states a rule states one that this request did not meet.
LEMMA RefusalsTrue == IInv => RefusedByRule
<1> SUFFICES ASSUME IInv, response # NoResponse, response.detail # <<>>
             PROVE  /\ response.status = 403 /\ Trusted
                    /\ \E d \in Declared :
                         /\ d.call = "requires" /\ response.detail = Describe(d.rule)
                         /\ ~Check(d.rule, Claims(token))
  BY DEF RefusedByRule
<1>1. Raisable(raised) /\ response = Handler(raised, base)
  BY Responses
<1>2. /\ raised.kind # "app" => raised.kind = "http"
      /\ raised.kind # "app"
  BY <1>1, HandlerOf, Kinds
     DEF AppErrorHandler, ValidationHandler, UnhandledHandler, ProblemResponse
<1>3. response.status = raised.status /\ response.detail = raised.detail
  BY <1>1, <1>2, HandlerOf DEF HttpExceptionHandler, ProblemResponse
<1>4. raised.status = 403 /\ Refusal(raised)
  BY <1>1, <1>2, <1>3, Kinds
<1> QED BY <1>3, <1>4 DEF Refusal, HttpException

\* No handler without its guards, no refusal without its rule, one decoding, and
\* an audit that sees the routes as they are.
THEOREM AdmissionHolds == Spec => []Admission
<1>1. IInv => Admission
  BY HandlersGuarded, OpenAreReported, RefusalsTrue
     DEF Admission, IInv, Counted
<1> QED BY <1>1, Invariance, PTL

-----------------------------------------------------------------------------
(* The documents. *)

\* What a request has before it is answered has no status.
LEMMA Nothing == NoResponse.status = 0
  BY DEF NoResponse, ProblemResponse

\* The registry: every code has a page, and no two codes the same one.
LEMMA Registry ==
  /\ DOMAIN PROBLEM_TYPES =
       {"SERVER", "DATABASE", "INPUT", "AUTH", "APP_CHECK", "FORBIDDEN", "NOT_FOUND",
        "CONFLICT", "RATE_LIMIT", "IDEMPOTENCY", "PAYLOAD_TOO_LARGE", "TIMEOUT"}
  /\ \A c \in DOMAIN PROBLEM_TYPES :
       /\ PROBLEM_TYPES[c].status \in 400..599
       /\ PROBLEM_TYPES[c].slug # None
  /\ \A c, d \in DOMAIN PROBLEM_TYPES :
       PROBLEM_TYPES[c].slug = PROBLEM_TYPES[d].slug => c = d
  BY DEF PROBLEM_TYPES, ProblemType, None

\* Responses are problem documents with statuses and codes of their own.
LEMMA TypesTrue == IInv => TypeOK
<1> SUFFICES ASSUME IInv PROVE TypeOK
  OBVIOUS
<1>1. /\ todo \in [Levels -> Seq({CurrentUser} \cup Declared)] \cup {<<>>}
      /\ solved \subseteq {CurrentUser} \cup Declared
  <2>1. Asked \subseteq {CurrentUser} \cup Declared
    BY DEF Asked
  <2>2. solved \subseteq {CurrentUser} \cup Declared
    BY <2>1 DEF IInv, Progress
  <2>3. ASSUME todo \in [Levels -> Seq(Asked)]
        PROVE  todo \in [Levels -> Seq({CurrentUser} \cup Declared)]
    BY <2>1, <2>3, SeqOf
  <2> QED BY <2>2, <2>3 DEF IInv, Progress
<1>2. ASSUME at \in {"answered", "followed"}
      PROVE  /\ response # NoResponse
             /\ response.media = "application/problem+json"
             /\ response.status \in 400..599
             /\ response.code \in ErrorCode \cup {None}
  <2>1. Raisable(raised) /\ response = Handler(raised, base)
    BY <1>2 DEF IInv, Reported
  <2>2. CASE raised.kind = "app" /\ raised.code \in ErrorCode
    <3>1. AppErrorStatus(raised.code) \in 400..599
      BY <2>2, Registry DEF AppErrorStatus
    <3>2. response = AppErrorHandler(raised, base)
      BY <2>1, <2>2, HandlerOf
    <3>3. /\ response.media = "application/problem+json"
          /\ response.status = AppErrorStatus(raised.code)
          /\ response.code = raised.code
      BY <3>2 DEF AppErrorHandler, ProblemResponse
    <3> HIDE DEF NoResponse
    <3> QED BY <2>2, <3>1, <3>3, Nothing
  <2>3. CASE raised.kind \in {"validation", "other"}
    BY <2>1, <2>3, HandlerOf
       DEF ValidationHandler, UnhandledHandler, ProblemResponse, NoResponse, ErrorCode,
           PROBLEM_TYPES
  <2>4. CASE raised.kind = "http" /\ raised.status \in DOMAIN StatusToErrorCode \cup {401, 403, 405, 418, 429, 503}
    <3>1. ErrorCodeForStatus(raised.status) \in ErrorCode \cup {None}
      BY <2>4, StatusCodes DEF ErrorCodeForStatus, ErrorCode, PROBLEM_TYPES
    <3>2. raised.status \in 400..599
      BY <2>4, StatusCodes
    <3>3. response = HttpExceptionHandler(raised, base)
      BY <2>1, <2>4, HandlerOf
    <3>4. /\ response.media = "application/problem+json"
          /\ response.status = raised.status
          /\ response.code = ErrorCodeForStatus(raised.status)
      BY <3>3 DEF HttpExceptionHandler, ProblemResponse
    <3> QED BY <3>1, <3>2, <3>4, Nothing
  <2> QED BY <2>1, <2>2, <2>3, <2>4, Kinds DEF Refusal
<1>3. at \notin {"answered", "followed"} => response = NoResponse
  BY DEF IInv, Reported
<1> QED BY <1>1, <1>2, <1>3 DEF TypeOK, IInv, Progress

\* "So relative type URIs are dereferenceable": the type that a response names
\* is the slug of its code, which has one page.
LEMMA PageOfCode ==
  ASSUME NEW c \in DOMAIN PROBLEM_TYPES
  PROVE  Page(PROBLEM_TYPES[c].slug) = [status |-> 200, code |-> c]
<1> DEFINE found == {d \in DOMAIN PROBLEM_TYPES :
                      PROBLEM_TYPES[d].slug = PROBLEM_TYPES[c].slug}
<1>1. found = {c}
  BY Registry
<1>2. Page(PROBLEM_TYPES[c].slug) =
        IF found = {} THEN [status |-> 404, code |-> None]
        ELSE [status |-> 200, code |-> CHOOSE d \in found : TRUE]
  BY DEF Page
<1> HIDE DEF found
<1>3. (CHOOSE d \in found : TRUE) = c
  BY <1>1
<1> QED BY <1>1, <1>2, <1>3

\* The table of the statuses agrees with that of the types.
LEMMA StatusesAgree ==
  /\ \A s \in DOMAIN StatusToErrorCode :
       /\ StatusToErrorCode[s] \in DOMAIN PROBLEM_TYPES
       /\ StatusOf(s, StatusToErrorCode[s])
  /\ 503 \notin DOMAIN StatusToErrorCode /\ 405 \notin DOMAIN StatusToErrorCode
  /\ 418 \notin DOMAIN StatusToErrorCode
  /\ "SERVER" \in DOMAIN PROBLEM_TYPES /\ StatusOf(503, "SERVER")
<1>1. ASSUME NEW s \in DOMAIN StatusToErrorCode
      PROVE  StatusToErrorCode[s] \in DOMAIN PROBLEM_TYPES /\ StatusOf(s, StatusToErrorCode[s])
  BY <1>1 DEF StatusToErrorCode, PROBLEM_TYPES, ProblemType, StatusOf
<1>2. /\ 503 \notin DOMAIN StatusToErrorCode /\ 405 \notin DOMAIN StatusToErrorCode
      /\ 418 \notin DOMAIN StatusToErrorCode
  BY DEF StatusToErrorCode
<1>3. "SERVER" \in DOMAIN PROBLEM_TYPES /\ StatusOf(503, "SERVER")
  BY DEF PROBLEM_TYPES, ProblemType, StatusOf
<1> QED BY <1>1, <1>2, <1>3

\* The code of a response, its status and its type belong together.
LEMMA CodesTrue ==
  ASSUME IInv, response # NoResponse
  PROVE  /\ response.type.base = "/problems" =>
              /\ response.code \in DOMAIN PROBLEM_TYPES
              /\ response.type.slug = PROBLEM_TYPES[response.code].slug
         /\ response.code \in DOMAIN PROBLEM_TYPES =>
              StatusOf(response.status, response.code)
<1>1. Raisable(raised) /\ response = Handler(raised, base)
  BY Responses
<1>2. AboutBlank.base # "/problems" /\ None # "/problems" /\ "urn:problem" # "/problems"
  BY DEF AboutBlank, None
<1>3. \A c \in DOMAIN PROBLEM_TYPES :
        /\ ProblemTypeUri(c, base).slug = PROBLEM_TYPES[c].slug
        /\ ProblemTypeUri(c, base).base = base
  BY DEF ProblemTypeUri
<1>4. CASE /\ raised.kind = "app" /\ raised.code \in ErrorCode
           /\ raised.type \in {None, "urn:problem"}
  <2>1. response = AppErrorHandler(raised, base)
    BY <1>1, <1>4, HandlerOf
  <2>2. /\ response.type = ResolveType(raised, base)
        /\ response.status = AppErrorStatus(raised.code)
        /\ response.code = raised.code
    BY <2>1 DEF AppErrorHandler, ProblemResponse
  <2>3. raised.code # "OK" => raised.code \in DOMAIN PROBLEM_TYPES
    BY <1>4 DEF ErrorCode
  <2>4. CASE raised.type # None
    <3>1. response.type.base = "urn:problem"
      BY <1>4, <2>2, <2>4 DEF ResolveType
    <3> QED BY <1>2, <2>2, <3>1 DEF AppErrorStatus, StatusOf
  <2>5. CASE raised.type = None /\ raised.code = "OK"
    <3>1. response.type.base = AboutBlank.base
      BY <2>2, <2>5 DEF ResolveType
    <3> QED BY <1>2, <2>2, <3>1 DEF AppErrorStatus, StatusOf
  <2>6. CASE raised.type = None /\ raised.code # "OK"
    <3>1. response.type = ProblemTypeUri(raised.code, base)
      BY <2>2, <2>6 DEF ResolveType
    <3> QED BY <1>3, <2>2, <2>3, <2>6, <3>1 DEF AppErrorStatus, StatusOf
  <2> QED BY <2>4, <2>5, <2>6
<1>5. CASE raised.kind = "validation"
  <2>1. response = ValidationHandler(base)
    BY <1>1, <1>5, HandlerOf
  <2>2. /\ response.status = 422 /\ response.code = "INPUT"
        /\ response.type = ProblemTypeUri("INPUT", base)
    BY <2>1 DEF ValidationHandler, ProblemResponse
  <2>3. "INPUT" \in DOMAIN PROBLEM_TYPES /\ PROBLEM_TYPES["INPUT"].status = 400
    BY DEF PROBLEM_TYPES, ProblemType
  <2> QED BY <1>3, <2>2, <2>3 DEF StatusOf
<1>6. CASE raised.kind = "other"
  <2>1. response = UnhandledHandler(base)
    BY <1>1, <1>6, HandlerOf
  <2>2. /\ response.status = 500 /\ response.code = "SERVER"
        /\ response.type = ProblemTypeUri("SERVER", base)
    BY <2>1 DEF UnhandledHandler, ProblemResponse
  <2>3. "SERVER" \in DOMAIN PROBLEM_TYPES /\ PROBLEM_TYPES["SERVER"].status = 500
    BY DEF PROBLEM_TYPES, ProblemType
  <2> QED BY <1>3, <2>2, <2>3 DEF StatusOf
<1>7. CASE /\ raised.kind = "http"
           /\ raised.status \in DOMAIN StatusToErrorCode \cup {405, 418, 503}
  <2> DEFINE code == ErrorCodeForStatus(raised.status)
  <2>1. response = HttpExceptionHandler(raised, base)
    BY <1>1, <1>7, HandlerOf
  <2>2. /\ response.status = raised.status /\ response.code = code
        /\ response.type = IF code = None THEN AboutBlank ELSE ProblemTypeUri(code, base)
    BY <2>1 DEF HttpExceptionHandler, ProblemResponse
  <2>3. /\ raised.status \in 400..599
        /\ code = IF raised.status \in DOMAIN StatusToErrorCode
                  THEN StatusToErrorCode[raised.status]
                  ELSE IF raised.status = 503 THEN "SERVER" ELSE None
    BY <1>7, StatusCodes DEF ErrorCodeForStatus
  <2>4. code # None => code \in DOMAIN PROBLEM_TYPES /\ StatusOf(raised.status, code)
    <3>1. CASE raised.status \in DOMAIN StatusToErrorCode
      BY <2>3, <3>1, StatusesAgree
    <3>2. CASE raised.status \in {405, 418, 503}
      BY <2>3, <3>2, StatusesAgree
    <3> QED BY <1>7, <3>1, <3>2
  <2>5. None \notin DOMAIN PROBLEM_TYPES
    BY DEF PROBLEM_TYPES, None
  <2> HIDE DEF code
  <2> QED BY <1>2, <1>3, <2>2, <2>4, <2>5
<1>8. raised = Unauthorized => raised.status = 401
  BY DEF Unauthorized, HttpException
<1> QED BY <1>1, <1>4, <1>5, <1>6, <1>7, Kinds, StatusCodes

\* The type of a problem leads to the page of its code.
LEMMA TypesLead == IInv => TypeLeadsToPage
<1> SUFFICES ASSUME IInv PROVE TypeLeadsToPage
  OBVIOUS
<1>1. response # NoResponse /\ response.code \in DOMAIN PROBLEM_TYPES =>
        StatusOf(response.status, response.code)
  BY CodesTrue
<1>2. ASSUME at = "followed" PROVE page = [status |-> 200, code |-> response.code]
  <2>1. /\ response # NoResponse
        /\ page = Page(response.type.slug) /\ response.type.base = "/problems"
    BY <1>2, TypesTrue DEF IInv, Reported, TypeOK
  <2>2. /\ response.code \in DOMAIN PROBLEM_TYPES
        /\ response.type.slug = PROBLEM_TYPES[response.code].slug
    BY <2>1, CodesTrue
  <2> QED BY <2>1, <2>2, PageOfCode
<1> QED BY <1>1, <1>2 DEF TypeLeadsToPage

\* The challenges of what was raised reach the caller.
LEMMA ChallengesKept == IInv => ChallengesSurvive
<1> SUFFICES ASSUME IInv, response # NoResponse
             PROVE  /\ raised = Unauthorized => response.headers = {"WWW-Authenticate"}
                    /\ raised = InvalidKey => response.headers = {}
                    /\ raised.kind = "http" /\ "Retry-After" \in raised.headers =>
                         response.status = 429 /\ "Retry-After" \in response.headers
  BY DEF ChallengesSurvive
<1>1. Raisable(raised) /\ response = Handler(raised, base)
  BY Responses
<1>2. raised.kind = "http" =>
        response.status = raised.status /\ response.headers = raised.headers
  BY <1>1, HandlerOf DEF HttpExceptionHandler, ProblemResponse
<1>3. /\ Unauthorized.kind = "http" /\ Unauthorized.headers = {"WWW-Authenticate"}
      /\ InvalidKey.kind = "http" /\ InvalidKey.headers = {}
  BY DEF Unauthorized, InvalidKey, HttpException
<1>4. raised.kind = "http" /\ "Retry-After" \in raised.headers => raised.status = 429
  BY <1>1, Kinds
<1> QED BY <1>2, <1>3, <1>4

\* A problem document says what happened, in its status, type and headers.
THEOREM ProblemsHold == Spec => []ProblemsTrue
<1>1. IInv => ProblemsTrue
  BY TypesTrue, TypesLead, ChallengesKept DEF ProblemsTrue
<1> QED BY <1>1, Invariance, PTL

-----------------------------------------------------------------------------
(* Renderings: what Join, Wrap and describe write. *)

\* A sequence of values, each made of the one before.
Accumulates(D, V, first, next) ==
  \E f \in [D -> V] :
    \A n \in D : f[n] = IF n = 1 THEN first ELSE next[<<n, f[n - 1]>>]

\* A function whose every value is made of the one before it exists.
LEMMA Accumulate ==
  ASSUME NEW D, \A n \in D : n \in Nat /\ (n # 1 => n - 1 \in D),
         NEW V, NEW first \in V, NEW next \in [D \X V -> V]
  PROVE  Accumulates(D, V, first, next)
<1> DEFINE W(n, f) == IF n = 1 THEN first ELSE next[<<n, f[n - 1]>>]
           G == [q \in D \X [D -> V] |-> W(q[1], q[2])]
           h == [n \in D |-> n]
<1>1. ASSUME NEW n \in D, NEW f \in [D -> V] PROVE W(n, f) \in V
  OBVIOUS
<1>2. G \in [D \X [D -> V] -> V]
  <2>1. \A q \in D \X [D -> V] : W(q[1], q[2]) \in V
    <3> TAKE q \in D \X [D -> V]
    <3>1. q[1] \in D /\ q[2] \in [D -> V]
      OBVIOUS
    <3> HIDE DEF W
    <3> QED BY <1>1, <3>1
  <2> HIDE DEF W
  <2> QED BY <2>1
<1>3. \A n \in D : \A f \in [D -> V] : G[<<n, f>>] = W(n, f)
  OBVIOUS
<1>4. h \in [D -> Nat]
  OBVIOUS
<1>5. \A n \in D : \A f, g \in [D -> V] :
        (\A m \in D : h[m] < h[n] => f[m] = g[m]) => G[<<n, f>>] = G[<<n, g>>]
  <2> SUFFICES ASSUME NEW n \in D, NEW f \in [D -> V], NEW g \in [D -> V],
                      \A m \in D : h[m] < h[n] => f[m] = g[m]
               PROVE  G[<<n, f>>] = G[<<n, g>>]
    OBVIOUS
  <2>1. n # 1 => f[n - 1] = g[n - 1]
    OBVIOUS
  <2>2. W(n, f) = W(n, g)
    BY <2>1
  <2> HIDE DEF G, W
  <2>3. G[<<n, f>>] = W(n, f) /\ G[<<n, g>>] = W(n, g)
    BY <1>3
  <2> QED BY <2>2, <2>3
<1> HIDE DEF G, h, W
<1>6. FromBelow(D, V, h, G)
  BY <1>2, <1>4, <1>5 DEF FromBelow
<1>7. PICK f \in [D -> V] : \A n \in D : f[n] = G[<<n, f>>]
  <2>1. V # {}
    OBVIOUS
  <2> QED BY <1>6, <2>1, Recursion, Z3
<1>8. \A n \in D : f[n] = W(n, f)
  BY <1>3, <1>7
<1> QED BY <1>8 DEF W, Accumulates

\* The texts of a join, one after the other.
LEMMA JoinIs ==
  ASSUME NEW texts \in Seq(Seq(Symbols)), texts # <<>>, NEW op \in Symbols
  PROVE  \E join \in [1..Len(texts) -> Seq(Symbols)] :
           /\ Join(texts, op) = join[Len(texts)]
           /\ join[1] = texts[1]
           /\ \A n \in 1..Len(texts) :
                n # 1 => join[n] = join[n - 1] \o <<op>> \o texts[n]
<1> DEFINE D == 1..Len(texts)
           V == Seq(Symbols)
           next == [q \in D \X V |-> q[2] \o <<op>> \o texts[q[1]]]
<1>1. Len(texts) \in Nat /\ Len(texts) >= 1 /\ \A n \in D : texts[n] \in V
  BY LenProperties, ElementOfSeq, EmptySeq
<1>2. ASSUME NEW n \in D, NEW v \in V PROVE v \o <<op>> \o texts[n] \in V
  <2>1. <<op>> \in V
    OBVIOUS
  <2>2. v \o <<op>> \in V
    BY <2>1, ConcatProperties
  <2> QED BY <1>1, <2>2, ConcatProperties
<1>3. next \in [D \X V -> V]
  <2>1. \A q \in D \X V : q[2] \o <<op>> \o texts[q[1]] \in V
    <3> TAKE q \in D \X V
    <3>1. q[1] \in D /\ q[2] \in V
      OBVIOUS
    <3> HIDE DEF D, V
    <3> QED BY <1>2, <3>1
  <2> HIDE DEF D, V
  <2> QED BY <2>1
<1>4. \A n \in D : \A v \in V : next[<<n, v>>] = v \o <<op>> \o texts[n]
  OBVIOUS
<1>5. PICK f \in [D -> V] :
        \A n \in D : f[n] = IF n = 1 THEN texts[1] ELSE next[<<n, f[n - 1]>>]
  <2>1. texts[1] \in V
    BY <1>1
  <2>2. \A n \in D : n \in Nat /\ (n # 1 => n - 1 \in D)
    BY <1>1
  <2> HIDE DEF next, D, V
  <2> DEFINE first == texts[1]
  <2> HIDE DEF first
  <2>3. first \in V
    BY <2>1 DEF first
  <2>4. Accumulates(D, V, first, next)
    BY <1>3, <2>2, <2>3, Accumulate
  <2> QED BY <2>4 DEF first, Accumulates
<1>6. \A n \in D : f[n] = IF n = 1 THEN texts[1] ELSE f[n - 1] \o <<op>> \o texts[n]
  <2> TAKE n \in D
  <2>1. CASE n = 1
    BY <1>5, <2>1
  <2>2. CASE n # 1
    <3>1. n - 1 \in D
      BY <1>1, <2>2
    <3>2. f[n - 1] \in V
      BY <3>1
    <3> HIDE DEF next, D, V
    <3>3. f[n] = next[<<n, f[n - 1]>>]
      BY <1>5, <2>2
    <3>4. next[<<n, f[n - 1]>>] = f[n - 1] \o <<op>> \o texts[n]
      BY <1>4, <3>2
    <3> QED BY <2>2, <3>3, <3>4
  <2> QED BY <2>1, <2>2
<1> HIDE DEF next
<1>7. f = [n \in D |-> IF n = 1 THEN texts[1] ELSE f[n - 1] \o <<op>> \o texts[n]]
  <2> HIDE DEF D, V
  <2>1. f = [n \in D |-> f[n]]
    OBVIOUS
  <2> QED BY <1>6, <2>1
<1> DEFINE join[n \in D] ==
             IF n = 1 THEN texts[1] ELSE join[n - 1] \o <<op>> \o texts[n]
<1>8. join = [n \in D |-> IF n = 1 THEN texts[1]
                          ELSE join[n - 1] \o <<op>> \o texts[n]]
  BY <1>7
<1>9. Join(texts, op) = join[Len(texts)]
  BY DEF Join
<1> HIDE DEF join
<1>10. \A n \in D : join[n] = IF n = 1 THEN texts[1]
                              ELSE join[n - 1] \o <<op>> \o texts[n]
  BY <1>8
<1>11. \A n \in D : join[n] \in V
  <2> DEFINE S == {n \in D : join[n] \notin V}
  <2> SUFFICES ASSUME S # {} PROVE FALSE
    OBVIOUS
  <2>1. PICK m \in S : \A n \in S : m <= n
    <3>1. S \in SUBSET Nat
      BY <1>1
    <3> HIDE DEF S
    <3> QED BY <3>1, Smallest
  <2>2. m # 1 => join[m - 1] \in V
    <3>1. m # 1 => m - 1 \in D /\ ~(m <= m - 1)
      BY <1>1
    <3> QED BY <2>1, <3>1
  <2>3. m # 1 => join[m - 1] \o <<op>> \o texts[m] \in V
    BY <1>2, <2>2
  <2>4. texts[1] \in V
    BY <1>1
  <2> QED BY <1>10, <2>3, <2>4
<1>12. join \in [D -> V]
  <2> HIDE DEF V, D
  <2>1. join = [n \in D |-> join[n]]
    BY <1>8
  <2> QED BY <1>11, <2>1
<1>13. join[1] = texts[1]
  <2>1. 1 \in D
    BY <1>1
  <2> QED BY <1>10, <2>1
<1> QED BY <1>9, <1>10, <1>12, <1>13

\* Joining texts with an operator makes a text.
LEMMA JoinTyped ==
  ASSUME NEW texts \in Seq(Seq(Symbols)), texts # <<>>, NEW op \in Symbols
  PROVE  Join(texts, op) \in Seq(Symbols)
<1>1. Len(texts) \in Nat /\ Len(texts) # 0
  BY LenProperties, EmptySeq
<1>2. Len(texts) \in 1..Len(texts)
  BY <1>1
<1>3. PICK join \in [1..Len(texts) -> Seq(Symbols)] : Join(texts, op) = join[Len(texts)]
  BY JoinIs
<1> QED BY <1>2, <1>3

\* Operators and parentheses are four different symbols.
LEMMA Marks ==
  /\ Or # And /\ Or # Open /\ Or # Close
  /\ And # Open /\ And # Close /\ Open # Close
  BY DEF Or, And, Open, Close, Mark

\* They may stand in a text.
LEMMA Operators == {Or, And, Open, Close} \subseteq Symbols
  BY DEF Symbols

\* describe asks nothing but the parts.
LEMMA DescribesParts ==
  ASSUME NEW r \in Rules, NEW f \in [Rules -> Seq(Symbols)], NEW g,
         r.kind \in {"any", "all"} => \A p \in Range(r.parts) : f[p] = g[p]
  PROVE  /\ Describes(r, f) \in Seq(Symbols)
         /\ Describes(r, f) = Describes(r, g)
         /\ r.kind \in {"any", "all"} =>
              [i \in DOMAIN r.parts |-> Wrap(r.parts[i], f[r.parts[i]])]
                \in Seq(Seq(Symbols)) \ {<<>>}
<1>1. RuleTyped(r)
  BY Heights
<1>2. ASSUME NEW S, r.parts \in Seq(S) \ {<<>>}, NEW w, DOMAIN w = DOMAIN r.parts,
             \A i \in DOMAIN r.parts : w[i] \in Seq(Symbols),
             w = [i \in DOMAIN r.parts |-> w[i]]
      PROVE  w \in Seq(Seq(Symbols)) \ {<<>>}
  <2>1. Len(r.parts) \in Nat /\ DOMAIN r.parts = 1..Len(r.parts) /\ Len(r.parts) # 0
    BY <1>2, LenProperties, EmptySeq
  <2>2. w \in [1..Len(r.parts) -> Seq(Symbols)]
    BY <1>2, <2>1
  <2>3. w \in Seq(Seq(Symbols))
    <3> DEFINE T == Seq(Symbols)
               n == Len(r.parts)
    <3>1. n \in Nat /\ w \in [1..n -> T]
      BY <2>1, <2>2
    <3> HIDE DEF n, T
    <3>2. w \in Seq(T)
      BY <3>1, SeqDef
    <3> QED BY <3>2 DEF T
  <2>4. w # <<>>
    <3>1. 1 \in DOMAIN w
      BY <1>2, <2>1
    <3> QED BY <3>1
  <2> QED BY <2>3, <2>4
<1>3. CASE r.kind = "primitive"
  <2> DEFINE w == [i \in DOMAIN r.parts |-> <<r.parts[i]>>]
  <2>1. r.parts \in Seq(Values) \ {<<>>} /\ Values \subseteq Symbols
    BY <1>1, <1>3 DEF RuleTyped, Values, Symbols
  <2>2. \A i \in DOMAIN r.parts : w[i] \in Seq(Symbols)
    <3> TAKE i \in DOMAIN r.parts
    <3>1. r.parts[i] \in Symbols
      BY <2>1, LenProperties, ElementOfSeq
    <3> QED BY <3>1
  <2>3. DOMAIN w = DOMAIN r.parts /\ w = [i \in DOMAIN r.parts |-> w[i]]
    OBVIOUS
  <2>4. Describes(r, f) = Join(w, Or) /\ Describes(r, g) = Join(w, Or)
    BY <1>3 DEF Describes
  <2> HIDE DEF w
  <2>5. w \in Seq(Seq(Symbols)) \ {<<>>}
    BY <1>2, <2>1, <2>2, <2>3
  <2> QED BY <1>3, <2>4, <2>5, Operators, JoinTyped
<1>4. CASE r.kind = "custom"
  BY <1>1, <1>4 DEF RuleTyped, Describes
<1>5. CASE r.kind \in {"any", "all"}
  <2> DEFINE w == [i \in DOMAIN r.parts |-> Wrap(r.parts[i], f[r.parts[i]])]
             v == [i \in DOMAIN r.parts |-> Wrap(r.parts[i], g[r.parts[i]])]
             op == IF r.kind = "any" THEN Or ELSE And
  <2>1. r.parts \in Seq(Rules) \ {<<>>}
    BY <1>1, <1>5 DEF RuleTyped
  <2>2. \A i \in DOMAIN r.parts : r.parts[i] \in Range(r.parts) /\ r.parts[i] \in Rules
    BY <2>1, LenProperties, ElementOfSeq DEF Range
  <2>3. \A i \in DOMAIN r.parts : w[i] \in Seq(Symbols)
    <3> TAKE i \in DOMAIN r.parts
    <3>1. f[r.parts[i]] \in Seq(Symbols)
      BY <2>2
    <3>2. <<Open>> \in Seq(Symbols) /\ <<Close>> \in Seq(Symbols)
      BY Operators
    <3>3. <<Open>> \o f[r.parts[i]] \in Seq(Symbols)
      BY <3>1, <3>2, ConcatProperties
    <3>4. <<Open>> \o f[r.parts[i]] \o <<Close>> \in Seq(Symbols)
      BY <3>2, <3>3, ConcatProperties
    <3> QED BY <3>1, <3>4 DEF Wrap
  <2>4. DOMAIN w = DOMAIN r.parts /\ w = [i \in DOMAIN r.parts |-> w[i]]
    OBVIOUS
  <2>5. w = v
    <3>1. \A i \in DOMAIN r.parts : f[r.parts[i]] = g[r.parts[i]]
      BY <1>5, <2>2
    <3> QED BY <3>1
  <2>6. Describes(r, f) = Join(w, op) /\ Describes(r, g) = Join(v, op)
    BY <1>5 DEF Describes
  <2>7. op \in Symbols
    BY Operators
  <2> HIDE DEF w, v, op
  <2>8. w \in Seq(Seq(Symbols)) \ {<<>>}
    BY <1>2, <2>1, <2>3, <2>4
  <2>9. /\ Describes(r, f) \in Seq(Symbols)
        /\ Describes(r, f) = Describes(r, g)
    BY <2>5, <2>6, <2>7, <2>8, JoinTyped
  <2> QED BY <2>8, <2>9 DEF w
<1>6. r.kind \in {"primitive", "custom", "any", "all"}
  BY <1>1 DEF RuleTyped
<1> QED BY <1>3, <1>4, <1>5, <1>6

\* The texts that a combinator joins.
Parted(r) == [i \in DOMAIN r.parts |-> Wrap(r.parts[i], Describe(r.parts[i]))]

\* describe is what its class writes of the descriptions of the parts.
LEMMA DescribeIs ==
  ASSUME NEW r \in Rules
  PROVE  /\ Describe(r) \in Seq(Symbols)
         /\ r.kind = "primitive" =>
              Describe(r) = Join([i \in DOMAIN r.parts |-> <<r.parts[i]>>], Or)
         /\ r.kind = "custom" => Describe(r) = r.parts
         /\ r.kind \in {"any", "all"} => Parted(r) \in Seq(Seq(Symbols)) \ {<<>>}
         /\ r.kind = "any" => Describe(r) = Join(Parted(r), Or)
         /\ r.kind = "all" => Describe(r) = Join(Parted(r), And)
<1> DEFINE V == Seq(Symbols)
           G == [q \in Rules \X [Rules -> V] |-> Describes(q[1], q[2])]
<1>1. PICK h \in [Rules -> Nat] : \A q \in Rules : Lower(h, q)
  BY Heights
<1>2. \A q \in Rules : \A f \in [Rules -> V] : G[<<q, f>>] = Describes(q, f)
  OBVIOUS
<1>3. \A q \in Rules : \A f \in [Rules -> V] : Describes(q, f) \in V
  BY DescribesParts
<1>4. G \in [Rules \X [Rules -> V] -> V]
  <2> HIDE DEF V
  <2>1. \A q \in Rules \X [Rules -> V] : Describes(q[1], q[2]) \in V
    <3> TAKE q \in Rules \X [Rules -> V]
    <3>1. q[1] \in Rules /\ q[2] \in [Rules -> V]
      OBVIOUS
    <3> QED BY <1>3, <3>1
  <2> QED BY <2>1
<1>5. \A q \in Rules : \A f, g \in [Rules -> V] :
        (\A y \in Rules : h[y] < h[q] => f[y] = g[y]) => G[<<q, f>>] = G[<<q, g>>]
  <2> SUFFICES ASSUME NEW q \in Rules, NEW f \in [Rules -> V], NEW g \in [Rules -> V],
                      \A y \in Rules : h[y] < h[q] => f[y] = g[y]
               PROVE  G[<<q, f>>] = G[<<q, g>>]
    OBVIOUS
  <2>1. q.kind \in {"any", "all"} => \A p \in Range(q.parts) : f[p] = g[p]
    BY <1>1, PartsAreRules DEF Lower
  <2>2. Describes(q, f) = Describes(q, g)
    BY <2>1, DescribesParts
  <2> HIDE DEF G
  <2> QED BY <1>2, <2>2
<1> HIDE DEF G
<1>6. FromBelow(Rules, V, h, G)
  BY <1>1, <1>4, <1>5 DEF FromBelow
<1>7. PICK f \in [Rules -> V] : \A q \in Rules : f[q] = G[<<q, f>>]
  <2>1. V # {}
    <3>1. <<>> \in V
      OBVIOUS
    <3> QED BY <3>1
  <2> HIDE DEF V
  <2> QED BY <1>6, <2>1, Recursion
<1>8. f = [q \in Rules |-> Describes(q, f)]
  <2> HIDE DEF V
  <2>1. f = [q \in Rules |-> f[q]] /\ \A q \in Rules : f[q] = Describes(q, f)
    BY <1>2, <1>7
  <2> QED BY <2>1
<1> DEFINE describe[q \in Rules] == Describes(q, describe)
<1>9. describe = [q \in Rules |-> Describes(q, describe)]
  BY <1>8
<1>10. \A q : Describe(q) = describe[q]
  BY DEF Describe
<1> HIDE DEF describe
<1>11. \A q \in Rules : describe[q] = Describes(q, describe)
  BY <1>9
<1>12. \A q \in Rules : describe[q] = f[q]
  <2> DEFINE S == {h[q] : q \in {p \in Rules : describe[p] # f[p]}}
  <2> SUFFICES ASSUME S # {} PROVE FALSE
    OBVIOUS
  <2>1. PICK m \in S : \A n \in S : m <= n
    <3>1. S \in SUBSET Nat
      BY <1>1
    <3> HIDE DEF S
    <3> QED BY <3>1, Smallest
  <2>2. PICK q \in Rules : h[q] = m /\ describe[q] # f[q]
    BY <2>1
  <2>3. ASSUME NEW p \in Rules, h[p] < h[q] PROVE f[p] = describe[p]
    <3>1. h[p] \in Nat /\ h[q] \in Nat
      BY <1>1
    <3>2. h[p] \notin S
      <4> HIDE DEF S
      <4> QED BY <2>1, <2>2, <2>3, <3>1
    <3>3. describe[p] # f[p] => h[p] \in S
      OBVIOUS
    <3> QED BY <3>2, <3>3
  <2>4. q.kind \in {"any", "all"} => \A p \in Range(q.parts) : f[p] = describe[p]
    BY <1>1, <2>3, PartsAreRules DEF Lower
  <2>5. Describes(q, f) = Describes(q, describe)
    BY <2>4, DescribesParts
  <2>6. f[q] = Describes(q, f)
    BY <1>2, <1>7
  <2> QED BY <1>11, <2>2, <2>5, <2>6
<1>13. Describe(r) \in Seq(Symbols) /\ Describe(r) = Describes(r, describe)
  BY <1>10, <1>11, <1>12
<1>14. r.kind = "primitive" =>
         Describe(r) = Join([i \in DOMAIN r.parts |-> <<r.parts[i]>>], Or)
  BY <1>13 DEF Describes
<1>15. r.kind = "custom" => Describe(r) = r.parts
  BY <1>13 DEF Describes
<1>16. ASSUME r.kind \in {"any", "all"}
       PROVE  /\ Parted(r) \in Seq(Seq(Symbols)) \ {<<>>}
              /\ Describe(r) = Join(Parted(r), IF r.kind = "any" THEN Or ELSE And)
  <2> DEFINE w(g) == [i \in DOMAIN r.parts |-> Wrap(r.parts[i], g[r.parts[i]])]
  <2>1. Parted(r) = w(describe) /\ Parted(r) = w(f)
    <3>1. \A i \in DOMAIN r.parts : r.parts[i] \in Rules
      BY <1>16, PartsAreRules DEF Range
    <3> QED BY <1>10, <1>12, <3>1 DEF Parted
  <2>2. w(f) \in Seq(Seq(Symbols)) \ {<<>>}
    BY <1>16, DescribesParts
  <2>3. Describe(r) = Join(w(describe), IF r.kind = "any" THEN Or ELSE And)
    BY <1>13, <1>16 DEF Describes
  <2> HIDE DEF w
  <2> QED BY <2>1, <2>2, <2>3
<1> QED BY <1>13, <1>14, <1>15, <1>16

-----------------------------------------------------------------------------
(* Depth: a running count of parentheses. *)

Places(T, x, i) == {j \in 1..i : T[j] = x}

\* A prefix one longer has one place more, if that is where the symbol is.
LEMMA Counting ==
  ASSUME NEW T, NEW x, NEW i \in Nat
  PROVE  /\ Cardinality(Places(T, x, i)) \in Nat
         /\ i # 0 => Cardinality(Places(T, x, i)) =
                       Cardinality(Places(T, x, i - 1)) + (IF T[i] = x THEN 1 ELSE 0)
         /\ Cardinality(Places(T, x, 0)) = 0
<1>1. ASSUME NEW n \in Int
      PROVE  IsFiniteSet(Places(T, x, n)) /\ Cardinality(Places(T, x, n)) \in Nat
  <2>1. IsFiniteSet(1..n) /\ Places(T, x, n) \subseteq 1..n
    BY FS_Interval DEF Places
  <2>2. IsFiniteSet(Places(T, x, n))
    BY <2>1, FS_Subset
  <2> QED BY <2>2, FS_CardinalityType
<1>2. Cardinality(Places(T, x, 0)) = 0
  <2>1. Places(T, x, 0) = {}
    BY DEF Places
  <2> QED BY <2>1, FS_EmptySet
<1>3. ASSUME i # 0
      PROVE  Cardinality(Places(T, x, i)) =
               Cardinality(Places(T, x, i - 1)) + (IF T[i] = x THEN 1 ELSE 0)
  <2> DEFINE P == Places(T, x, i - 1)
  <2>1. IsFiniteSet(P) /\ Cardinality(P) \in Nat /\ i \notin P
    <3>1. i - 1 \in Int /\ i \notin 1..(i - 1)
      OBVIOUS
    <3> QED BY <1>1, <3>1 DEF Places
  <2>2. T[i] = x => Places(T, x, i) = P \cup {i}
    BY <1>3 DEF Places
  <2>3. T[i] # x => Places(T, x, i) = P
    BY <1>3 DEF Places
  <2> HIDE DEF P
  <2>4. Cardinality(P \cup {i}) = Cardinality(P) + 1
    BY <2>1, FS_AddElement
  <2>5. Cardinality(Places(T, x, i)) = Cardinality(P) + (IF T[i] = x THEN 1 ELSE 0)
    BY <2>1, <2>2, <2>3, <2>4
  <2> QED BY <2>5 DEF P
<1> QED BY <1>1, <1>2, <1>3

Weight(x) == IF x = Open THEN 1 ELSE IF x = Close THEN -1 ELSE 0

\* The depth changes by one at each parenthesis, and starts at 0.
LEMMA DepthStep ==
  ASSUME NEW T, NEW i \in Nat
  PROVE  /\ Depth(T, i) \in Int /\ Depth(T, 0) = 0
         /\ i # 0 => Depth(T, i) = Depth(T, i - 1) + Weight(T[i])
<1> DEFINE C(x, n) == Cardinality(Places(T, x, n))
<1>1. Open # Close
  BY Marks
<1>2. \A n : Depth(T, n) = C(Open, n) - C(Close, n)
  BY DEF Depth, Places
<1>3. \A x : \A n \in Nat : C(x, n) \in Nat /\ C(x, 0) = 0
  BY Counting
<1>4. ASSUME i # 0 PROVE Depth(T, i) = Depth(T, i - 1) + Weight(T[i])
  <2>1. i - 1 \in Nat
    BY <1>4
  <2>2. \A x : C(x, i) = C(x, i - 1) + (IF T[i] = x THEN 1 ELSE 0)
    BY <1>4, Counting
  <2>3. /\ C(Open, i) = C(Open, i - 1) + (IF T[i] = Open THEN 1 ELSE 0)
        /\ C(Close, i) = C(Close, i - 1) + (IF T[i] = Close THEN 1 ELSE 0)
    BY <2>2
  <2>4. C(Open, i - 1) \in Nat /\ C(Close, i - 1) \in Nat
    BY <1>3, <2>1
  <2> HIDE DEF C
  <2> QED BY <1>1, <1>2, <2>3, <2>4 DEF Weight
<1>5. Depth(T, i) \in Int
  BY <1>2, <1>3
<1>6. Depth(T, 0) = 0
  BY <1>2, <1>3
<1> QED BY <1>4, <1>5, <1>6

Agree(T, U, o, n) == \A j \in 1..n : T[o + j] = U[j]

MoveAlike(T, U, o, n) ==
  \A j \in 0..n : Depth(T, o + j) = Depth(T, o) + Depth(U, j)

\* Where two texts agree, their depths move alike.
LEMMA DepthShift ==
  ASSUME NEW T, NEW U, NEW o \in Nat, NEW n \in Nat, Agree(T, U, o, n)
  PROVE  MoveAlike(T, U, o, n)
<1> DEFINE S == {j \in 0..n : Depth(T, o + j) # Depth(T, o) + Depth(U, j)}
<1> SUFFICES ASSUME S # {} PROVE FALSE
  BY DEF MoveAlike
<1> USE DEF Agree
<1>1. PICK m \in S : \A j \in S : m <= j
  <2>1. S \in SUBSET Nat
    OBVIOUS
  <2> HIDE DEF S
  <2> QED BY <2>1, Smallest
<1>2. Depth(T, o) \in Int /\ Depth(U, 0) = 0 /\ o + 0 = o
  BY DepthStep
<1>3. m # 0
  BY <1>1, <1>2
<1>4. m \in 1..n /\ m - 1 \in 0..n /\ m - 1 \notin S /\ m \in Nat
  BY <1>1, <1>3
<1>5. Depth(T, o + (m - 1)) = Depth(T, o) + Depth(U, m - 1)
  BY <1>4
<1>6. o + m \in Nat /\ o + m # 0 /\ (o + m) - 1 = o + (m - 1)
  BY <1>4
<1>7. Depth(T, o + m) = Depth(T, o + (m - 1)) + Weight(T[o + m])
  <2>1. Depth(T, o + m) = Depth(T, (o + m) - 1) + Weight(T[o + m])
    BY <1>6, DepthStep
  <2> QED BY <1>6, <2>1
<1>8. Depth(U, m) = Depth(U, m - 1) + Weight(U[m])
  BY <1>3, <1>4, DepthStep
<1>9. Depth(U, m - 1) \in Int /\ Weight(U[m]) \in Int
  BY <1>4, DepthStep DEF Weight
<1>10. Depth(T, o + m) = Depth(T, o) + Depth(U, m)
  BY <1>2, <1>4, <1>5, <1>7, <1>8, <1>9
<1> QED BY <1>1, <1>10

-----------------------------------------------------------------------------
(* The reader: what a text says is made of what shorter texts say. *)

Verdicts == {"grants", "denies", "unclear"}

Texts == Seq(Symbols)

\* A part of a text is a text.
LEMMA Part ==
  ASSUME NEW T \in Texts, NEW m \in Int, NEW n \in Int, 1 <= m, n <= Len(T)
  PROVE  /\ SubSeq(T, m, n) \in Texts
         /\ Len(SubSeq(T, m, n)) = IF m <= n THEN n - m + 1 ELSE 0
         /\ \A i \in 1..(n - m + 1) : SubSeq(T, m, n)[i] = T[m + i - 1]
<1>1. Len(T) \in Nat /\ \A i \in 1..Len(T) : T[i] \in Symbols
  BY LenProperties, ElementOfSeq DEF Texts
<1>2. \A i \in m..n : T[i] \in Symbols
  BY <1>1
<1> QED BY <1>2, SubSeqProperties DEF Texts

\* Where a text is cut, its pieces are shorter than it.
LEMMA PiecesShorter ==
  ASSUME NEW T \in Texts, NEW cuts \in SUBSET (1..Len(T)), cuts # {}
  PROVE  \A p \in Pieces(T, cuts) : p \in Texts /\ Len(p) < Len(T)
<1> SUFFICES ASSUME NEW p \in Pieces(T, cuts) PROVE p \in Texts /\ Len(p) < Len(T)
  OBVIOUS
<1>1. Len(T) \in Nat
  BY LenProperties DEF Texts
<1>2. PICK q \in ({0} \cup cuts) \X (cuts \cup {Len(T) + 1}) :
        /\ q[1] < q[2] /\ \A c \in cuts : c <= q[1] \/ c >= q[2]
        /\ p = SubSeq(T, q[1] + 1, q[2] - 1)
  BY DEF Pieces
<1>3. q[1] \in 0..Len(T) /\ q[2] \in 1..(Len(T) + 1)
  <2>1. q[1] \in {0} \cup cuts /\ q[2] \in cuts \cup {Len(T) + 1}
    OBVIOUS
  <2>2. \A a \in {0} \cup cuts : a \in 0..Len(T)
    BY <1>1
  <2>3. \A b \in cuts \cup {Len(T) + 1} : b \in 1..(Len(T) + 1)
    BY <1>1
  <2> QED BY <2>1, <2>2, <2>3
<1>4. p \in Texts /\ Len(p) <= q[2] - q[1] - 1
  <2> DEFINE m == q[1] + 1
             n == q[2] - 1
  <2>1. m \in Int /\ n \in Int /\ 1 <= m /\ n <= Len(T) /\ n - m + 1 = q[2] - q[1] - 1
        /\ 0 <= q[2] - q[1] - 1
    BY <1>1, <1>2, <1>3
  <2>2. p = SubSeq(T, m, n)
    BY <1>2
  <2> HIDE DEF m, n
  <2>3. p \in Texts /\ Len(p) = IF m <= n THEN n - m + 1 ELSE 0
    BY <2>1, <2>2, Part
  <2> QED BY <2>1, <2>3
<1>5. PICK c \in cuts : c \in 1..Len(T)
  OBVIOUS
<1>6. ~(q[1] = 0 /\ q[2] = Len(T) + 1)
  BY <1>1, <1>2, <1>5
<1> QED BY <1>1, <1>3, <1>4, <1>5, <1>6

\* What a text says is not decided by texts as long as it.
LEMMA SayingShorter ==
  ASSUME NEW T \in Texts, NEW claims, NEW f \in [Texts -> Verdicts], NEW g,
         \A p \in Texts : Len(p) < Len(T) => f[p] = g[p]
  PROVE  /\ Saying(T, claims, f) \in Verdicts
         /\ Saying(T, claims, f) = Saying(T, claims, g)
<1> DEFINE ors == TopLevel(T, Or)
           ands == TopLevel(T, And)
           readings(s) == {s[p] : p \in Pieces(T, ors \cup ands)}
           inner == SubSeq(T, 2, Len(T) - 1)
<1>1. Len(T) \in Nat /\ DOMAIN T = 1..Len(T)
  BY LenProperties DEF Texts
<1>2. ors \cup ands \in SUBSET (1..Len(T))
  BY <1>1 DEF TopLevel
<1>3. ASSUME ors \cup ands # {} PROVE readings(f) = readings(g)
  <2>1. \A p \in Pieces(T, ors \cup ands) : p \in Texts /\ Len(p) < Len(T)
    <3> HIDE DEF ors, ands
    <3> QED BY <1>2, <1>3, PiecesShorter
  <2> HIDE DEF ors, ands
  <2> QED BY <2>1
<1>4. ASSUME T # <<>> PROVE inner \in Texts /\ f[inner] = g[inner]
  <2>1. Len(T) >= 1
    BY <1>1, <1>4, EmptySeq DEF Texts
  <2>2. inner \in Texts /\ Len(inner) < Len(T)
    BY <1>1, <2>1, Part
  <2> QED BY <2>2
<1>5. ASSUME NEW s
      PROVE  Saying(T, claims, s) =
               CASE T = <<>> \/ (ors # {} /\ ands # {}) -> "unclear"
                 [] ors \cup ands # {} /\ "unclear" \in readings(s) -> "unclear"
                 [] ors # {} /\ ands = {} /\ "unclear" \notin readings(s) ->
                      IF "grants" \in readings(s) THEN "grants" ELSE "denies"
                 [] ands # {} /\ ors = {} /\ "unclear" \notin readings(s) ->
                      IF "denies" \in readings(s) THEN "denies" ELSE "grants"
                 [] T # <<>> /\ ors \cup ands = {} /\ Head(T) = Open -> s[inner]
                 [] T # <<>> /\ ors \cup ands = {} /\ Head(T) # Open ->
                      IF Head(T) \in claims THEN "grants" ELSE "denies"
  BY DEF Saying
<1> HIDE DEF ors, ands, readings, inner
<1>6. CASE T = <<>>
  <2>1. ors = {} /\ ands = {}
    BY <1>1, <1>2, <1>6
  <2> QED BY <1>5, <1>6, <2>1 DEF Verdicts
<1>7. CASE T # <<>> /\ ors # {} /\ ands # {}
  BY <1>5, <1>7 DEF Verdicts
<1>8. CASE T # <<>> /\ ors # {} /\ ands = {}
  BY <1>3, <1>5, <1>8 DEF Verdicts
<1>9. CASE T # <<>> /\ ors = {} /\ ands # {}
  BY <1>3, <1>5, <1>9 DEF Verdicts
<1>10. CASE T # <<>> /\ ors = {} /\ ands = {} /\ Head(T) = Open
  <2>1. f[inner] \in Verdicts /\ f[inner] = g[inner]
    BY <1>4, <1>10
  <2> QED BY <1>5, <1>10, <2>1
<1>11. CASE T # <<>> /\ ors = {} /\ ands = {} /\ Head(T) # Open
  BY <1>5, <1>11 DEF Verdicts
<1> QED BY <1>6, <1>7, <1>8, <1>9, <1>10, <1>11

\* Reads is what Saying says of it.
LEMMA ReadsIs ==
  ASSUME NEW claims
  PROVE  \E s \in [Texts -> Verdicts] : \A T \in Texts :
           Reads(T, claims) = s[T] /\ s[T] = Saying(T, claims, s)
<1> DEFINE G == [q \in Texts \X [Texts -> Verdicts] |-> Saying(q[1], claims, q[2])]
           h == [T \in Texts |-> Len(T)]
<1>1. \A T \in Texts : Len(T) \in Nat
  BY LenProperties DEF Texts
<1>2. \A T \in Texts : \A f \in [Texts -> Verdicts] : G[<<T, f>>] = Saying(T, claims, f)
  OBVIOUS
<1>3. \A T \in Texts : \A f \in [Texts -> Verdicts] : Saying(T, claims, f) \in Verdicts
  BY SayingShorter
<1>4. G \in [Texts \X [Texts -> Verdicts] -> Verdicts]
  <2>1. \A q \in Texts \X [Texts -> Verdicts] : Saying(q[1], claims, q[2]) \in Verdicts
    <3> TAKE q \in Texts \X [Texts -> Verdicts]
    <3>1. q[1] \in Texts /\ q[2] \in [Texts -> Verdicts]
      OBVIOUS
    <3> QED BY <1>3, <3>1
  <2> QED BY <2>1
<1>5. h \in [Texts -> Nat]
  BY <1>1
<1>6. \A T \in Texts : \A f, g \in [Texts -> Verdicts] :
        (\A p \in Texts : h[p] < h[T] => f[p] = g[p]) => G[<<T, f>>] = G[<<T, g>>]
  <2> SUFFICES ASSUME NEW T \in Texts, NEW f \in [Texts -> Verdicts],
                      NEW g \in [Texts -> Verdicts],
                      \A p \in Texts : h[p] < h[T] => f[p] = g[p]
               PROVE  G[<<T, f>>] = G[<<T, g>>]
    OBVIOUS
  <2>1. \A p \in Texts : Len(p) < Len(T) => f[p] = g[p]
    OBVIOUS
  <2>2. Saying(T, claims, f) = Saying(T, claims, g)
    BY <2>1, SayingShorter
  <2> HIDE DEF G
  <2> QED BY <1>2, <2>2
<1> HIDE DEF G
<1>7. FromBelow(Texts, Verdicts, h, G)
  <2> HIDE DEF h
  <2> QED BY <1>4, <1>5, <1>6 DEF FromBelow
<1>8. PICK f \in [Texts -> Verdicts] : \A T \in Texts : f[T] = G[<<T, f>>]
  <2>1. Verdicts # {}
    BY DEF Verdicts
  <2> HIDE DEF h
  <2> QED BY <1>7, <2>1, Recursion
<1>9. f = [T \in Texts |-> Saying(T, claims, f)]
  <2>1. f = [T \in Texts |-> f[T]] /\ \A T \in Texts : f[T] = Saying(T, claims, f)
    BY <1>2, <1>8
  <2> QED BY <2>1
<1> DEFINE says[T \in Texts] == Saying(T, claims, says)
<1>10. says = [T \in Texts |-> Saying(T, claims, says)]
  BY <1>9
<1>11. \A T : Reads(T, claims) = says[T]
  BY DEF Reads, Texts
<1> HIDE DEF says
<1>12. \A T \in Texts : says[T] = Saying(T, claims, says)
  BY <1>10
<1>13. \A T \in Texts : f[T] = Saying(T, claims, f)
  BY <1>2, <1>8
<1>14. \A T \in Texts : says[T] = f[T]
  <2> DEFINE S == {Len(T) : T \in {U \in Texts : says[U] # f[U]}}
  <2> SUFFICES ASSUME S # {} PROVE FALSE
    OBVIOUS
  <2>1. PICK m \in S : \A n \in S : m <= n
    <3>1. S \in SUBSET Nat
      BY <1>1
    <3> HIDE DEF S
    <3> QED BY <3>1, Smallest
  <2>2. PICK T \in Texts : Len(T) = m /\ says[T] # f[T]
    BY <2>1
  <2>3. ASSUME NEW p \in Texts, Len(p) < Len(T) PROVE f[p] = says[p]
    <3>1. Len(p) \in Nat /\ Len(T) \in Nat
      BY <1>1
    <3>2. Len(p) \notin S
      <4> HIDE DEF S
      <4> QED BY <2>1, <2>2, <2>3, <3>1
    <3>3. says[p] # f[p] => Len(p) \in S
      OBVIOUS
    <3> QED BY <3>2, <3>3
  <2>4. Saying(T, claims, f) = Saying(T, claims, says)
    BY <2>3, SayingShorter
  <2> QED BY <1>12, <1>13, <2>2, <2>4
<1> QED BY <1>11, <1>13, <1>14

\* A text with operators of one kind only says what they make of its pieces.
LEMMA ReadsCut ==
  ASSUME NEW T \in Texts, NEW claims, NEW op \in {Or, And}, NEW other \in {Or, And},
         op # other, TopLevel(T, op) # {}, TopLevel(T, other) = {},
         NEW Q, Q = {Reads(p, claims) : p \in Pieces(T, TopLevel(T, op))},
         "unclear" \notin Q
  PROVE  Reads(T, claims) =
           IF op = Or THEN IF "grants" \in Q THEN "grants" ELSE "denies"
           ELSE IF "denies" \in Q THEN "denies" ELSE "grants"
<1>1. PICK s \in [Texts -> Verdicts] : \A U \in Texts :
        Reads(U, claims) = s[U] /\ s[U] = Saying(U, claims, s)
  BY ReadsIs
<1> DEFINE ors == TopLevel(T, Or)
           ands == TopLevel(T, And)
           readings == {s[p] : p \in Pieces(T, ors \cup ands)}
<1>2. DOMAIN T = 1..Len(T)
  BY LenProperties DEF Texts
<1>3. ors \cup ands \in SUBSET (1..Len(T)) /\ ors \cup ands # {}
  BY <1>2 DEF TopLevel
<1>4. ors \cup ands = TopLevel(T, op)
  OBVIOUS
<1>5. readings = Q
  <2>1. \A p \in Pieces(T, TopLevel(T, op)) : p \in Texts
    BY <1>3, <1>4, PiecesShorter
  <2> QED BY <1>1, <1>4, <2>1
<1>6. T # <<>>
  BY <1>2, <1>3
<1>7. Reads(T, claims) = Saying(T, claims, s)
  BY <1>1
<1>8. CASE op = Or
  <2>1. ors # {} /\ ands = {} /\ "unclear" \notin readings
    BY <1>5, <1>8
  <2>2. Saying(T, claims, s) = IF "grants" \in readings THEN "grants" ELSE "denies"
    BY <1>6, <2>1 DEF Saying
  <2> HIDE DEF readings
  <2> QED BY <1>5, <1>7, <1>8, <2>2
<1>9. CASE op = And
  <2>1. ands # {} /\ ors = {} /\ "unclear" \notin readings
    BY <1>5, <1>9
  <2>2. Saying(T, claims, s) = IF "denies" \in readings THEN "denies" ELSE "grants"
    BY <1>6, <2>1 DEF Saying
  <2>3. op # Or
    BY <1>9 DEF Or, And, Mark
  <2> HIDE DEF readings
  <2> QED BY <1>5, <1>7, <2>2, <2>3
<1> QED BY <1>8, <1>9

-----------------------------------------------------------------------------
(* Texts put together. *)

Linked(J, op, W) == J \o <<op>> \o W

\* A text, an operator, a text: what stands where.
Spells(K, J, op, W) ==
  /\ K \in Texts /\ Len(K) = Len(J) + 1 + Len(W)
  /\ Len(J) \in Nat /\ Len(W) \in Nat
  /\ \A i \in 1..Len(J) : K[i] = J[i]
  /\ K[Len(J) + 1] = op
  /\ \A j \in 1..Len(W) : K[Len(J) + 1 + j] = W[j]

\* What stands where in a text that another was linked to.
LEMMA JoinedText ==
  ASSUME NEW J \in Texts, NEW W \in Texts, NEW op \in {Or, And}
  PROVE  Spells(Linked(J, op, W), J, op, W)
<1>1. <<op>> \in Texts /\ Len(<<op>>) = 1 /\ <<op>>[1] = op
  BY Operators DEF Texts
<1>2. Len(J) \in Nat /\ Len(W) \in Nat
  BY LenProperties DEF Texts
<1> DEFINE K == Linked(J, op, W)
           M == J \o <<op>>
<1>3. /\ M \in Texts /\ Len(M) = Len(J) + 1
      /\ \A i \in 1..(Len(J) + 1) :
           M[i] = IF i <= Len(J) THEN J[i] ELSE <<op>>[i - Len(J)]
  BY <1>1, <1>2, ConcatProperties DEF Texts
<1>4. K = M \o W
  BY DEF Linked
<1> HIDE DEF M, K
<1>5. /\ K \in Texts /\ Len(K) = Len(M) + Len(W)
      /\ \A i \in 1..(Len(M) + Len(W)) :
           K[i] = IF i <= Len(M) THEN M[i] ELSE W[i - Len(M)]
  <2>1. /\ M \o W \in Texts /\ Len(M \o W) = Len(M) + Len(W)
        /\ \A i \in 1..(Len(M) + Len(W)) :
             (M \o W)[i] = IF i <= Len(M) THEN M[i] ELSE W[i - Len(M)]
    <3>1. M \in Seq(Symbols) /\ W \in Seq(Symbols)
      BY <1>3 DEF Texts
    <3> QED BY <3>1, ConcatProperties DEF Texts
  <2> QED BY <1>4, <2>1
<1>6. \A i \in 1..Len(J) : K[i] = J[i]
  BY <1>2, <1>3, <1>5
<1>7. K[Len(J) + 1] = op
  <2>1. Len(J) + 1 \in 1..(Len(M) + Len(W)) /\ Len(J) + 1 <= Len(M)
    BY <1>2, <1>3
  <2>2. K[Len(J) + 1] = M[Len(J) + 1]
    BY <1>5, <2>1
  <2>3. Len(J) + 1 \in 1..(Len(J) + 1) /\ ~(Len(J) + 1 <= Len(J))
        /\ (Len(J) + 1) - Len(J) = 1
    BY <1>2
  <2>4. M[Len(J) + 1] = <<op>>[(Len(J) + 1) - Len(J)]
    BY <1>3, <2>3
  <2> QED BY <1>1, <2>2, <2>3, <2>4
<1>8. ASSUME NEW j \in 1..Len(W) PROVE K[Len(J) + 1 + j] = W[j]
  <2> DEFINE i == Len(J) + 1 + j
  <2>1. i \in 1..(Len(M) + Len(W)) /\ ~(i <= Len(M)) /\ i - Len(M) = j
    BY <1>2, <1>3
  <2> HIDE DEF i
  <2>2. K[i] = W[j]
    BY <1>5, <2>1
  <2> QED BY <2>2 DEF i
<1> QED BY <1>2, <1>3, <1>5, <1>6, <1>7, <1>8 DEF K, Spells

\* Balanced texts around an operator: the operator is at the top level, and
\* nothing else changes its depth.
LEMMA JoinedDepth ==
  ASSUME NEW J \in Texts, NEW W \in Texts, NEW op \in {Or, And},
         NEW K, Spells(K, J, op, W), Balanced(J), Balanced(W)
  PROVE  /\ Balanced(K)
         /\ \A x \in {Or, And} :
              TopLevel(K, x) = TopLevel(J, x)
                                 \cup (IF x = op THEN {Len(J) + 1} ELSE {})
                                 \cup {Len(J) + 1 + j : j \in TopLevel(W, x)}
<1> DEFINE L == Len(J)
           N == Len(W)
<1>1. /\ K \in Texts /\ Len(K) = L + 1 + N /\ L \in Nat /\ N \in Nat
      /\ \A i \in 1..L : K[i] = J[i]
      /\ K[L + 1] = op
      /\ \A j \in 1..N : K[L + 1 + j] = W[j]
  BY DEF Spells
<1>2. DOMAIN K = 1..(L + 1 + N) /\ DOMAIN J = 1..L /\ DOMAIN W = 1..N
  BY <1>1, LenProperties DEF Texts
<1>3. /\ Depth(J, L) = 0 /\ \A i \in 1..L : Depth(J, i) >= 0
      /\ Depth(W, N) = 0 /\ \A j \in 1..N : Depth(W, j) >= 0
  BY <1>2 DEF Balanced
<1> HIDE DEF L, N
<1>4. \A i \in 0..L : Depth(K, i) = Depth(J, i)
  <2>1. Agree(K, J, 0, L)
    BY <1>1 DEF Agree
  <2>2. MoveAlike(K, J, 0, L)
    BY <1>1, <2>1, DepthShift
  <2>3. Depth(K, 0) = 0
    BY DepthStep
  <2> TAKE i \in 0..L
  <2>4. i \in Nat /\ 0 + i = i
    BY <1>1
  <2>5. Depth(J, i) \in Int
    BY <2>4, DepthStep
  <2>6. Depth(K, 0 + i) = Depth(K, 0) + Depth(J, i)
    BY <2>2 DEF MoveAlike
  <2> QED BY <2>3, <2>4, <2>5, <2>6
<1>5. Depth(K, L + 1) = 0
  <2>1. Weight(op) = 0
    BY Marks DEF Weight
  <2>2. L + 1 \in Nat /\ L + 1 # 0 /\ (L + 1) - 1 = L /\ L \in 0..L
    BY <1>1
  <2>3. Depth(K, L + 1) = Depth(K, L) + Weight(op)
    BY <1>1, <2>2, DepthStep
  <2> QED BY <1>3, <1>4, <2>1, <2>2, <2>3
<1>6. \A j \in 0..N : Depth(K, L + 1 + j) = Depth(W, j)
  <2>1. L + 1 \in Nat
    BY <1>1
  <2>2. Agree(K, W, L + 1, N)
    BY <1>1 DEF Agree
  <2>4. MoveAlike(K, W, L + 1, N)
    BY <1>1, <2>1, <2>2, DepthShift
  <2>3. \A j \in 0..N : Depth(W, j) \in Int
    BY <1>1, DepthStep
  <2> QED BY <1>5, <2>3, <2>4 DEF MoveAlike
<1>7. ASSUME NEW i \in 1..(L + 1 + N)
      PROVE  \/ i \in 1..L \/ i = L + 1 \/ \E j \in 1..N : i = L + 1 + j
  <2>1. ~(i <= L + 1) => i - (L + 1) \in 1..N /\ i = L + 1 + (i - (L + 1))
    BY <1>1
  <2> QED BY <1>1, <2>1
<1>8. Balanced(K)
  <2>1. Depth(K, Len(K)) = 0
    BY <1>1, <1>3, <1>6
  <2>2. ASSUME NEW i \in 1..(L + 1 + N) PROVE Depth(K, i) >= 0
    <3>1. CASE i \in 1..L
      BY <1>3, <1>4, <3>1
    <3>2. CASE i = L + 1
      BY <1>5, <3>2
    <3>3. CASE \E j \in 1..N : i = L + 1 + j
      <4>1. PICK j \in 1..N : i = L + 1 + j
        BY <3>3
      <4>2. j \in 0..N
        BY <1>1
      <4> QED BY <1>3, <1>6, <4>1, <4>2
    <3> QED BY <1>7, <3>1, <3>2, <3>3
  <2> QED BY <1>2, <2>1, <2>2 DEF Balanced
<1>9. ASSUME NEW x \in {Or, And}
      PROVE  TopLevel(K, x) = TopLevel(J, x) \cup (IF x = op THEN {L + 1} ELSE {})
                                \cup {L + 1 + j : j \in TopLevel(W, x)}
  <2> DEFINE A == TopLevel(J, x)
             B == IF x = op THEN {L + 1} ELSE {}
             C == {L + 1 + j : j \in TopLevel(W, x)}
  <2>1. \A i : i \in TopLevel(K, x) <=>
                 i \in 1..(L + 1 + N) /\ K[i] = x /\ Depth(K, i) = 0
    BY <1>2 DEF TopLevel
  <2>2. \A i : i \in A <=> i \in 1..L /\ J[i] = x /\ Depth(J, i) = 0
    BY <1>2 DEF TopLevel
  <2>3. \A j : j \in TopLevel(W, x) <=> j \in 1..N /\ W[j] = x /\ Depth(W, j) = 0
    BY <1>2 DEF TopLevel
  <2>4. ASSUME NEW i \in TopLevel(K, x) PROVE i \in A \cup B \cup C
    <3>1. i \in 1..(L + 1 + N) /\ K[i] = x /\ Depth(K, i) = 0
      BY <2>1
    <3>2. CASE i \in 1..L
      <4>1. i \in 0..L
        BY <3>2
      <4>2. i \in A
        BY <1>1, <1>4, <2>2, <3>1, <3>2, <4>1
      <4> QED BY <4>2
    <3>3. CASE i = L + 1
      BY <1>1, <3>1, <3>3
    <3>4. CASE \E j \in 1..N : i = L + 1 + j
      <4>1. PICK j \in 1..N : i = L + 1 + j
        BY <3>4
      <4>2. j \in 0..N
        BY <1>1
      <4>3. j \in TopLevel(W, x)
        BY <1>1, <1>6, <2>3, <3>1, <4>1, <4>2
      <4> QED BY <4>1, <4>3
    <3> QED BY <1>7, <3>1, <3>2, <3>3, <3>4
  <2>5. ASSUME NEW i \in A PROVE i \in TopLevel(K, x)
    <3>1. i \in 1..L /\ i \in 0..L /\ i \in 1..(L + 1 + N)
      BY <1>1, <2>2
    <3> QED BY <1>1, <1>4, <2>1, <2>2, <3>1
  <2>6. ASSUME NEW i \in B PROVE i \in TopLevel(K, x)
    <3>1. i = L + 1 /\ x = op /\ i \in 1..(L + 1 + N)
      BY <1>1
    <3> QED BY <1>1, <1>5, <2>1, <3>1
  <2>7. ASSUME NEW i \in C PROVE i \in TopLevel(K, x)
    <3>1. PICK j \in TopLevel(W, x) : i = L + 1 + j
      OBVIOUS
    <3>2. j \in 1..N /\ j \in 0..N /\ i \in 1..(L + 1 + N)
      BY <1>1, <2>3, <3>1
    <3> QED BY <1>1, <1>6, <2>1, <2>3, <3>1, <3>2
  <2> HIDE DEF A, B, C
  <2>8. TopLevel(K, x) = A \cup B \cup C
    BY <2>4, <2>5, <2>6, <2>7
  <2> QED BY <2>8 DEF A, B, C
<1> QED BY <1>8, <1>9 DEF L

\* A piece reaches from one cut, or the start, to the next one, or the end.
Neighbours(cuts, end, a, b) ==
  /\ a \in {0} \cup cuts /\ b \in cuts \cup {end} /\ a < b
  /\ \A c \in cuts : c <= a \/ c >= b

\* A piece is what lies between two neighbouring cuts.
LEMMA PieceIs ==
  ASSUME NEW T, NEW cuts, NEW p
  PROVE  p \in Pieces(T, cuts) <=>
           \E a, b : /\ Neighbours(cuts, Len(T) + 1, a, b)
                     /\ p = SubSeq(T, a + 1, b - 1)
<1>1. ASSUME p \in Pieces(T, cuts)
      PROVE  \E a, b : /\ Neighbours(cuts, Len(T) + 1, a, b)
                       /\ p = SubSeq(T, a + 1, b - 1)
  <2>1. PICK q \in ({0} \cup cuts) \X (cuts \cup {Len(T) + 1}) :
          /\ q[1] < q[2] /\ \A c \in cuts : c <= q[1] \/ c >= q[2]
          /\ p = SubSeq(T, q[1] + 1, q[2] - 1)
    BY <1>1 DEF Pieces
  <2>2. Neighbours(cuts, Len(T) + 1, q[1], q[2])
    BY <2>1 DEF Neighbours
  <2> QED BY <2>1, <2>2
<1>2. ASSUME NEW a, NEW b, Neighbours(cuts, Len(T) + 1, a, b),
             p = SubSeq(T, a + 1, b - 1)
      PROVE  p \in Pieces(T, cuts)
  <2> DEFINE q == <<a, b>>
             X == {u \in ({0} \cup cuts) \X (cuts \cup {Len(T) + 1}) :
                     u[1] < u[2] /\ \A c \in cuts : c <= u[1] \/ c >= u[2]}
  <2>1. q \in X
    BY <1>2 DEF Neighbours
  <2>2. Pieces(T, cuts) = {SubSeq(T, u[1] + 1, u[2] - 1) : u \in X}
    BY DEF Pieces
  <2>3. p = SubSeq(T, q[1] + 1, q[2] - 1)
    BY <1>2
  <2> HIDE DEF X, q
  <2> QED BY <2>1, <2>2, <2>3
<1> QED BY <1>1, <1>2

\* One more operator, at the end, is one more piece.
LEMMA PiecesExtend ==
  ASSUME NEW J \in Texts, NEW W \in Texts, NEW op \in {Or, And},
         NEW K, Spells(K, J, op, W), NEW cuts \in SUBSET (1..Len(J))
  PROVE  Pieces(K, cuts \cup {Len(J) + 1}) = Pieces(J, cuts) \cup {W}
<1> DEFINE L == Len(J)
           N == Len(W)
           more == cuts \cup {L + 1}
<1>1. /\ K \in Texts /\ Len(K) = L + 1 + N /\ L \in Nat /\ N \in Nat
      /\ \A i \in 1..L : K[i] = J[i]
      /\ \A j \in 1..N : K[L + 1 + j] = W[j]
  BY DEF Spells
<1> HIDE DEF L, N
<1>2. cuts \in SUBSET (1..L)
  BY DEF L
<1>3. ASSUME NEW a \in Int, NEW b \in Int, 0 <= a, a < b, b <= L + 1
      PROVE  SubSeq(K, a + 1, b - 1) = SubSeq(J, a + 1, b - 1)
  <2> DEFINE m == a + 1
             n == b - 1
             k == n - m + 1
  <2>1. /\ m \in Int /\ n \in Int /\ 1 <= m /\ n <= L /\ n <= L + 1 + N
        /\ k \in Nat /\ \A i \in 1..k : m + i - 1 \in 1..L
        /\ k = IF m <= n THEN k ELSE 0
    BY <1>1, <1>3
  <2> HIDE DEF m, n
  <2>2. /\ SubSeq(K, m, n) \in Texts
        /\ Len(SubSeq(K, m, n)) = k
        /\ \A i \in 1..k : SubSeq(K, m, n)[i] = K[m + i - 1]
    BY <1>1, <2>1, Part
  <2>3. /\ SubSeq(J, m, n) \in Texts
        /\ Len(SubSeq(J, m, n)) = k
        /\ \A i \in 1..k : SubSeq(J, m, n)[i] = J[m + i - 1]
    BY <1>1, <2>1, Part DEF L
  <2>4. \A i \in 1..k : SubSeq(K, m, n)[i] = SubSeq(J, m, n)[i]
    BY <1>1, <2>1, <2>2, <2>3
  <2> HIDE DEF k
  <2>5. SubSeq(K, m, n) = SubSeq(J, m, n)
    BY <2>2, <2>3, <2>4, SeqEqual DEF Texts
  <2> QED BY <2>5 DEF m, n
<1>4. SubSeq(K, L + 1 + 1, Len(K) + 1 - 1) = W
  <2> DEFINE m == L + 1 + 1
             n == Len(K) + 1 - 1
  <2>1. /\ m \in Int /\ n \in Int /\ 1 <= m /\ n <= Len(K) /\ n - m + 1 = N
        /\ N = IF m <= n THEN N ELSE 0
        /\ \A i \in 1..N : m + i - 1 = L + 1 + i
    BY <1>1
  <2> HIDE DEF m, n
  <2>2. /\ SubSeq(K, m, n) \in Texts
        /\ Len(SubSeq(K, m, n)) = N
        /\ \A i \in 1..N : SubSeq(K, m, n)[i] = K[m + i - 1]
    BY <1>1, <2>1, Part
  <2>3. \A i \in 1..N : SubSeq(K, m, n)[i] = W[i]
    BY <1>1, <2>1, <2>2
  <2>4. SubSeq(K, m, n) = W
    BY <2>2, <2>3, SeqEqual DEF Texts, N
  <2> QED BY <2>4 DEF m, n
<1>5. ASSUME NEW p \in Pieces(K, more) PROVE p \in Pieces(J, cuts) \cup {W}
  <2>1. PICK a, b : /\ Neighbours(more, Len(K) + 1, a, b)
                    /\ p = SubSeq(K, a + 1, b - 1)
    BY PieceIs
  <2>2. /\ a \in Int /\ b \in Int /\ 0 <= a /\ a < b /\ a <= L + 1
        /\ b \in more \cup {L + 1 + N + 1} /\ a \in {0} \cup more
        /\ \A c \in more : c <= a \/ c >= b
    BY <1>1, <1>2, <2>1 DEF Neighbours
  <2>3. CASE b <= L + 1
    <3>1. Neighbours(cuts, L + 1, a, b)
      BY <1>1, <1>2, <2>2, <2>3 DEF Neighbours
    <3>2. p = SubSeq(J, a + 1, b - 1)
      BY <1>3, <2>1, <2>2, <2>3
    <3> QED BY <3>1, <3>2, PieceIs DEF L
  <2>4. CASE ~(b <= L + 1)
    <3>1. b = L + 1 + N + 1
      BY <1>1, <1>2, <2>2, <2>4
    <3>2. L + 1 <= a
      BY <1>1, <2>2, <2>4
    <3>3. a = L + 1
      BY <1>1, <2>2, <3>2
    <3> QED BY <1>1, <1>4, <2>1, <3>1, <3>3
  <2> QED BY <2>3, <2>4
<1>6. ASSUME NEW p \in Pieces(J, cuts) PROVE p \in Pieces(K, more)
  <2>1. PICK a, b : Neighbours(cuts, L + 1, a, b) /\ p = SubSeq(J, a + 1, b - 1)
    BY PieceIs DEF L
  <2>2. /\ a \in Int /\ b \in Int /\ 0 <= a /\ a < b /\ b <= L + 1
        /\ b \in cuts \cup {L + 1} /\ a \in {0} \cup cuts
        /\ \A c \in cuts : c <= a \/ c >= b
    BY <1>1, <1>2, <2>1 DEF Neighbours
  <2>3. Neighbours(more, Len(K) + 1, a, b)
    BY <1>1, <2>2 DEF Neighbours
  <2>4. p = SubSeq(K, a + 1, b - 1)
    BY <1>3, <2>1, <2>2
  <2> QED BY <2>3, <2>4, PieceIs
<1>7. W \in Pieces(K, more)
  <2>1. Neighbours(more, Len(K) + 1, L + 1, Len(K) + 1)
    BY <1>1, <1>2 DEF Neighbours
  <2> DEFINE a == L + 1
             b == Len(K) + 1
  <2>2. Neighbours(more, Len(K) + 1, a, b) /\ W = SubSeq(K, a + 1, b - 1)
    BY <1>4, <2>1
  <2> HIDE DEF a, b
  <2> QED BY <2>2, PieceIs
<1> QED BY <1>5, <1>6, <1>7 DEF L

-----------------------------------------------------------------------------
(* A join of closed texts: at its top level stand the operators that join  *)
(* them, and its pieces are the texts.                                     *)

Closed(W) ==
  /\ W \in Texts /\ W # <<>> /\ Balanced(W)
  /\ TopLevel(W, Or) = {} /\ TopLevel(W, And) = {}

\* A joined text J of the texts in "of".
JoinOf(J, op, of) ==
  /\ J \in Texts /\ J # <<>> /\ Balanced(J)
  /\ \A x \in {Or, And} : x # op => TopLevel(J, x) = {}
  /\ Pieces(J, TopLevel(J, op)) = of

\* A closed text by itself is a join of one.
LEMMA JoinOfOne ==
  ASSUME NEW W, Closed(W), NEW op \in {Or, And}
  PROVE  JoinOf(W, op, {W}) /\ TopLevel(W, op) = {}
<1>1. /\ W \in Texts /\ TopLevel(W, op) = {} /\ Len(W) \in Nat
      /\ \A x \in {Or, And} : TopLevel(W, x) = {}
  BY LenProperties DEF Closed, Texts
<1>2. SubSeq(W, 1, Len(W)) = W
  BY <1>1, SubSeqFull DEF Texts
<1>3. \A p : p \in Pieces(W, {}) <=> p = W
  <2> TAKE p
  <2>1. \A a, b : Neighbours({}, Len(W) + 1, a, b) <=> a = 0 /\ b = Len(W) + 1
    BY <1>1 DEF Neighbours
  <2>2. p \in Pieces(W, {}) <=>
          \E a, b : Neighbours({}, Len(W) + 1, a, b) /\ p = SubSeq(W, a + 1, b - 1)
    BY PieceIs
  <2>3. ASSUME NEW a, NEW b, Neighbours({}, Len(W) + 1, a, b)
        PROVE  SubSeq(W, a + 1, b - 1) = W
    <3>1. a + 1 = 1 /\ b - 1 = Len(W)
      BY <1>1, <2>1, <2>3
    <3> QED BY <1>2, <3>1
  <2>4. \E a, b : Neighbours({}, Len(W) + 1, a, b)
    BY <2>1
  <2> QED BY <2>2, <2>3, <2>4
<1>4. Pieces(W, {}) = {W}
  BY <1>3
<1> QED BY <1>1, <1>4 DEF JoinOf, Closed

\* Linking a closed text to a join makes a join of one more.
LEMMA JoinOfMore ==
  ASSUME NEW J, NEW W, Closed(W), NEW op \in {Or, And}, NEW of, JoinOf(J, op, of),
         NEW K, K = Linked(J, op, W)
  PROVE  JoinOf(K, op, of \cup {W}) /\ TopLevel(K, op) # {}
<1>1. /\ J \in Texts /\ W \in Texts /\ Balanced(J) /\ Balanced(W)
      /\ \A x \in {Or, And} : TopLevel(W, x) = {}
  BY DEF JoinOf, Closed
<1>2. Spells(K, J, op, W)
  BY <1>1, JoinedText
<1>3. /\ Balanced(K)
      /\ \A x \in {Or, And} :
           TopLevel(K, x) = TopLevel(J, x)
                              \cup (IF x = op THEN {Len(J) + 1} ELSE {})
                              \cup {Len(J) + 1 + j : j \in TopLevel(W, x)}
  BY <1>1, <1>2, JoinedDepth
<1>4. TopLevel(K, op) = TopLevel(J, op) \cup {Len(J) + 1}
  BY <1>1, <1>3
<1>5. \A x \in {Or, And} : x # op => TopLevel(K, x) = {}
  BY <1>1, <1>3 DEF JoinOf
<1>6. TopLevel(J, op) \in SUBSET (1..Len(J))
  BY <1>1, LenProperties DEF TopLevel, Texts
<1>7. Pieces(K, TopLevel(K, op)) = of \cup {W}
  BY <1>1, <1>2, <1>4, <1>6, PiecesExtend DEF JoinOf
<1>8. K \in Texts /\ K # <<>>
  <2>1. K \in Texts /\ Len(K) = Len(J) + 1 + Len(W) /\ Len(J) \in Nat /\ Len(W) \in Nat
    BY <1>2 DEF Spells
  <2> QED BY <2>1, EmptySeq DEF Texts
<1> QED BY <1>3, <1>4, <1>5, <1>7, <1>8 DEF JoinOf

\* Join makes a join of its texts, in one piece only if there is one text.
LEMMA JoinShape ==
  ASSUME NEW texts \in Seq(Seq(Symbols)), texts # <<>>, NEW op \in {Or, And},
         \A i \in DOMAIN texts : Closed(texts[i])
  PROVE  /\ JoinOf(Join(texts, op), op, Range(texts))
         /\ \/ TopLevel(Join(texts, op), op) # {}
            \/ Range(texts) = {Join(texts, op)}
<1>1. Len(texts) \in Nat /\ Len(texts) >= 1 /\ DOMAIN texts = 1..Len(texts)
  BY LenProperties, EmptySeq
<1>2. PICK join \in [1..Len(texts) -> Seq(Symbols)] :
        /\ Join(texts, op) = join[Len(texts)]
        /\ join[1] = texts[1]
        /\ \A n \in 1..Len(texts) :
             n # 1 => join[n] = join[n - 1] \o <<op>> \o texts[n]
  <2>1. op \in Symbols
    BY Operators
  <2> QED BY <2>1, JoinIs
<1> DEFINE Of(n) == {texts[i] : i \in 1..n}
           Good(n) == /\ JoinOf(join[n], op, Of(n))
                      /\ TopLevel(join[n], op) # {} \/ Of(n) = {join[n]}
           S == {n \in 1..Len(texts) : ~Good(n)}
<1>3. Good(1)
  <2>1. JoinOf(texts[1], op, {texts[1]})
    BY <1>1, JoinOfOne
  <2>2. Of(1) = {texts[1]}
    OBVIOUS
  <2> HIDE DEF Of
  <2> QED BY <1>2, <2>1, <2>2
<1>4. ASSUME NEW n \in 1..Len(texts), n # 1, Good(n - 1) PROVE Good(n)
  <2>1. join[n] = Linked(join[n - 1], op, texts[n])
    BY <1>2, <1>4 DEF Linked
  <2>2. Closed(texts[n])
    BY <1>1
  <2>3. Of(n) = Of(n - 1) \cup {texts[n]}
    <3>1. 1..n = 1..(n - 1) \cup {n}
      BY <1>1
    <3> QED BY <3>1
  <2> HIDE DEF Of
  <2>4. JoinOf(join[n - 1], op, Of(n - 1))
    BY <1>4
  <2>5. JoinOf(join[n], op, Of(n - 1) \cup {texts[n]}) /\ TopLevel(join[n], op) # {}
    BY <2>1, <2>2, <2>4, JoinOfMore
  <2> QED BY <2>3, <2>5
<1> HIDE DEF Good
<1>5. S = {}
  <2> SUFFICES ASSUME S # {} PROVE FALSE
    OBVIOUS
  <2>1. PICK m \in S : \A n \in S : m <= n
    <3>1. S \in SUBSET Nat
      BY <1>1
    <3> HIDE DEF S
    <3> QED BY <3>1, Smallest
  <2>2. m # 1 /\ m \in 1..Len(texts)
    BY <1>3
  <2>3. m - 1 \in 1..Len(texts) /\ ~(m <= m - 1)
    BY <1>1, <2>2
  <2>4. Good(m - 1)
    BY <2>1, <2>3
  <2> QED BY <1>4, <2>1, <2>2, <2>4
<1>6. Good(Len(texts))
  <2>1. Len(texts) \in 1..Len(texts)
    BY <1>1
  <2> QED BY <1>5, <2>1
<1>7. Range(texts) = Of(Len(texts))
  BY <1>1 DEF Range
<1> HIDE DEF Of
<1> QED BY <1>2, <1>6, <1>7 DEF Good

\* A join of closed texts that say something definite says what its operator
\* makes of them.
LEMMA JoinReads ==
  ASSUME NEW texts \in Seq(Seq(Symbols)), texts # <<>>, NEW op \in {Or, And},
         \A i \in DOMAIN texts : Closed(texts[i]), NEW claims,
         \A i \in DOMAIN texts : Reads(texts[i], claims) \in {"grants", "denies"}
  PROVE  Reads(Join(texts, op), claims) =
           IF op = Or
           THEN IF \E i \in DOMAIN texts : Reads(texts[i], claims) = "grants"
                THEN "grants" ELSE "denies"
           ELSE IF \E i \in DOMAIN texts : Reads(texts[i], claims) = "denies"
                THEN "denies" ELSE "grants"
<1> DEFINE J == Join(texts, op)
           Q == {Reads(p, claims) : p \in Range(texts)}
<1>1. /\ JoinOf(J, op, Range(texts))
      /\ TopLevel(J, op) # {} \/ Range(texts) = {J}
  BY JoinShape
<1>2. /\ "unclear" \notin Q
      /\ "grants" \in Q <=> \E i \in DOMAIN texts : Reads(texts[i], claims) = "grants"
      /\ "denies" \in Q <=> \E i \in DOMAIN texts : Reads(texts[i], claims) = "denies"
      /\ Q \subseteq {"grants", "denies"}
  BY DEF Range
<1>3. Reads(J, claims) = IF op = Or THEN IF "grants" \in Q THEN "grants" ELSE "denies"
                         ELSE IF "denies" \in Q THEN "denies" ELSE "grants"
  <2>1. CASE TopLevel(J, op) # {}
    <3>1. PICK other \in {Or, And} : other # op
      BY Marks
    <3>2. /\ J \in Texts /\ TopLevel(J, other) = {}
          /\ Q = {Reads(p, claims) : p \in Pieces(J, TopLevel(J, op))}
      BY <1>1, <3>1 DEF JoinOf
    <3> HIDE DEF J, Q
    <3> QED BY <1>2, <2>1, <3>1, <3>2, ReadsCut
  <2>2. CASE Range(texts) = {J}
    <3>1. Q = {Reads(J, claims)}
      BY <2>2
    <3> HIDE DEF J, Q
    <3> QED BY <1>2, <3>1
  <2> QED BY <1>1, <2>1, <2>2
<1> HIDE DEF Q
<1> QED BY <1>2, <1>3

-----------------------------------------------------------------------------
(* Parentheses: a balanced text in them is closed, and says the same. *)

Enclosed(T) == <<Open>> \o T \o <<Close>>

\* What stands where in a text in parentheses.
LEMMA EnclosedText ==
  ASSUME NEW T \in Texts
  PROVE  /\ Enclosed(T) \in Texts /\ Len(T) \in Nat
         /\ Len(Enclosed(T)) = Len(T) + 2
         /\ Enclosed(T)[1] = Open
         /\ \A j \in 1..Len(T) : Enclosed(T)[1 + j] = T[j]
         /\ Enclosed(T)[Len(T) + 2] = Close
<1> DEFINE M == <<Open>> \o T
           N == Len(T)
           K == Enclosed(T)
<1>1. /\ <<Open>> \in Texts /\ Len(<<Open>>) = 1 /\ <<Open>>[1] = Open
      /\ <<Close>> \in Texts /\ Len(<<Close>>) = 1 /\ <<Close>>[1] = Close
  BY Operators DEF Texts
<1>2. N \in Nat
  BY LenProperties DEF Texts
<1>3. /\ M \in Texts /\ Len(M) = 1 + N
      /\ \A i \in 1..(1 + N) : M[i] = IF i <= 1 THEN <<Open>>[i] ELSE T[i - 1]
  BY <1>1, ConcatProperties DEF Texts
<1>4. K = M \o <<Close>>
  BY DEF Enclosed
<1> HIDE DEF M, N, K
<1>5. /\ K \in Texts /\ Len(K) = Len(M) + 1
      /\ \A i \in 1..(Len(M) + 1) :
           K[i] = IF i <= Len(M) THEN M[i] ELSE <<Close>>[i - Len(M)]
  <2>1. /\ M \o <<Close>> \in Texts /\ Len(M \o <<Close>>) = Len(M) + 1
        /\ \A i \in 1..(Len(M) + 1) :
             (M \o <<Close>>)[i] = IF i <= Len(M) THEN M[i] ELSE <<Close>>[i - Len(M)]
    BY <1>1, <1>3, ConcatProperties DEF Texts
  <2> QED BY <1>4, <2>1
<1>6. K[1] = Open
  BY <1>1, <1>2, <1>3, <1>5
<1>7. ASSUME NEW j \in 1..N PROVE K[1 + j] = T[j]
  <2> DEFINE i == 1 + j
  <2>1. i \in 1..(1 + N) /\ i <= Len(M) /\ i \in 1..(Len(M) + 1) /\ ~(i <= 1) /\ i - 1 = j
    BY <1>2, <1>3
  <2> HIDE DEF i
  <2>2. K[i] = M[i] /\ M[i] = T[j]
    BY <1>3, <1>5, <2>1
  <2> QED BY <2>2 DEF i
<1>8. K[N + 2] = Close
  <2> DEFINE i == N + 2
  <2>1. i \in 1..(Len(M) + 1) /\ ~(i <= Len(M)) /\ i - Len(M) = 1
    BY <1>2, <1>3
  <2> HIDE DEF i
  <2>2. K[i] = Close
    BY <1>1, <1>5, <2>1
  <2> QED BY <2>2 DEF i
<1>9. Len(K) = N + 2
  BY <1>2, <1>3, <1>5
<1> QED BY <1>2, <1>5, <1>6, <1>7, <1>8, <1>9 DEF K, N

\* A text without operators at its top level that starts with a parenthesis
\* says what it encloses; one that starts with an atom, whether that is claimed.
LEMMA ReadsClosed ==
  ASSUME NEW W, Closed(W), NEW claims
  PROVE  /\ W[1] = Open => Reads(W, claims) = Reads(SubSeq(W, 2, Len(W) - 1), claims)
         /\ W[1] # Open => Reads(W, claims) = Verdict(W[1] \in claims)
<1>1. PICK s \in [Texts -> Verdicts] : \A U \in Texts :
        Reads(U, claims) = s[U] /\ s[U] = Saying(U, claims, s)
  BY ReadsIs
<1>2. /\ W \in Texts /\ W # <<>> /\ TopLevel(W, Or) = {} /\ TopLevel(W, And) = {}
  BY DEF Closed
<1>3. Head(W) = W[1] /\ Len(W) \in Nat /\ Len(W) >= 1
  BY <1>2, LenProperties, EmptySeq DEF Texts
<1>4. SubSeq(W, 2, Len(W) - 1) \in Texts
  BY <1>2, <1>3, Part
<1>5. ASSUME W[1] = Open
      PROVE  Saying(W, claims, s) = s[SubSeq(W, 2, Len(W) - 1)]
  BY <1>2, <1>3, <1>5 DEF Saying
<1>6. ASSUME W[1] # Open PROVE Saying(W, claims, s) = Verdict(W[1] \in claims)
  BY <1>2, <1>3, <1>6 DEF Saying, Verdict
<1> QED BY <1>1, <1>2, <1>4, <1>5, <1>6

\* A balanced text in parentheses is closed, and says what it said.
LEMMA EnclosedCloses ==
  ASSUME NEW T \in Texts, Balanced(T), NEW claims
  PROVE  Closed(Enclosed(T)) /\ Reads(Enclosed(T), claims) = Reads(T, claims)
<1> DEFINE K == Enclosed(T)
           N == Len(T)
<1>1. /\ K \in Texts /\ N \in Nat /\ Len(K) = N + 2
      /\ K[1] = Open /\ \A j \in 1..N : K[1 + j] = T[j]
      /\ K[N + 2] = Close
  BY EnclosedText
<1>2. DOMAIN K = 1..(N + 2) /\ DOMAIN T = 1..N
  BY <1>1, LenProperties DEF Texts
<1>3. Depth(T, N) = 0 /\ \A j \in 1..N : Depth(T, j) >= 0
  BY <1>2 DEF Balanced
<1> HIDE DEF K, N
<1>4. Depth(K, 1) = 1
  <2>1. Depth(K, 0) = 0 /\ Depth(K, 1) = Depth(K, 1 - 1) + Weight(K[1])
    BY DepthStep
  <2> QED BY <1>1, <2>1 DEF Weight
<1>5. \A j \in 0..N : Depth(K, 1 + j) = 1 + Depth(T, j) /\ Depth(T, j) >= 0
  <2>1. Agree(K, T, 1, N)
    BY <1>1 DEF Agree
  <2>2. MoveAlike(K, T, 1, N)
    BY <1>1, <2>1, DepthShift
  <2>3. \A j \in 0..N : Depth(T, j) >= 0
    <3>1. Depth(T, 0) = 0 /\ \A j \in 0..N : j = 0 \/ j \in 1..N
      BY <1>1, DepthStep
    <3> QED BY <1>3, <3>1
  <2> QED BY <1>4, <2>2, <2>3 DEF MoveAlike
<1>6. Depth(K, N + 2) = 0
  <2>1. Depth(K, 1 + N) = 1
    BY <1>1, <1>3, <1>5
  <2>2. Weight(Close) = -1
    BY Marks DEF Weight
  <2>3. N + 2 \in Nat /\ N + 2 # 0 /\ (N + 2) - 1 = 1 + N
    BY <1>1
  <2>4. Depth(K, N + 2) = Depth(K, 1 + N) + Weight(Close)
    BY <1>1, <2>3, DepthStep
  <2> QED BY <2>1, <2>2, <2>4
<1>7. ASSUME NEW i \in 1..(N + 2)
      PROVE  i = 1 \/ i = N + 2 \/ (\E j \in 1..N : i = 1 + j)
  <2>1. i # 1 /\ i # N + 2 => i - 1 \in 1..N /\ i = 1 + (i - 1)
    BY <1>1
  <2> QED BY <2>1
<1>8. \A j \in 1..N : j \in 0..N
  BY <1>1
<1>9. Balanced(K)
  <2>1. ASSUME NEW i \in 1..(N + 2) PROVE Depth(K, i) >= 0
    <3>1. CASE \E j \in 1..N : i = 1 + j
      <4>1. PICK j \in 1..N : i = 1 + j
        BY <3>1
      <4>2. Depth(K, i) = 1 + Depth(T, j) /\ Depth(T, j) >= 0 /\ Depth(T, j) \in Int
        BY <1>1, <1>5, <1>8, <4>1, DepthStep
      <4> QED BY <4>2
    <3> QED BY <1>4, <1>6, <1>7, <3>1
  <2> QED BY <1>1, <1>2, <1>6, <2>1 DEF Balanced
<1>10. ASSUME NEW x \in {Or, And} PROVE TopLevel(K, x) = {}
  <2> SUFFICES ASSUME NEW i \in 1..(N + 2), K[i] = x, Depth(K, i) = 0 PROVE FALSE
    BY <1>2 DEF TopLevel
  <2>1. x # Open /\ x # Close
    BY Marks
  <2>2. PICK j \in 1..N : i = 1 + j
    BY <1>1, <1>7, <2>1
  <2>3. Depth(K, i) = 1 + Depth(T, j) /\ Depth(T, j) >= 0 /\ Depth(T, j) \in Int
    BY <1>1, <1>5, <1>8, <2>2, DepthStep
  <2> QED BY <2>3
<1>11. K # <<>>
  BY <1>1, EmptySeq DEF Texts
<1>12. Closed(K)
  BY <1>1, <1>9, <1>10, <1>11 DEF Closed
<1>13. SubSeq(K, 2, Len(K) - 1) = T
  <2> DEFINE m == 2
             n == Len(K) - 1
  <2>1. /\ m \in Int /\ n \in Int /\ 1 <= m /\ n <= Len(K) /\ n - m + 1 = N
        /\ N = IF m <= n THEN N ELSE 0
        /\ \A i \in 1..N : m + i - 1 = 1 + i
    BY <1>1
  <2> HIDE DEF m, n
  <2>2. /\ SubSeq(K, m, n) \in Texts
        /\ Len(SubSeq(K, m, n)) = N
        /\ \A i \in 1..N : SubSeq(K, m, n)[i] = K[m + i - 1]
    <3>1. /\ SubSeq(K, m, n) \in Texts
          /\ Len(SubSeq(K, m, n)) = IF m <= n THEN n - m + 1 ELSE 0
          /\ \A i \in 1..(n - m + 1) : SubSeq(K, m, n)[i] = K[m + i - 1]
      BY <1>1, <2>1, Part
    <3>2. Len(SubSeq(K, m, n)) = N
      BY <2>1, <3>1
    <3>3. 1..(n - m + 1) = 1..N
      BY <2>1
    <3> QED BY <3>1, <3>2, <3>3
  <2>3. ASSUME NEW i \in 1..N PROVE SubSeq(K, m, n)[i] = T[i]
    <3>1. K[m + i - 1] = K[1 + i]
      BY <2>1
    <3> QED BY <1>1, <2>2, <3>1
  <2>4. SubSeq(K, m, n) = T
    BY <2>2, <2>3, SeqEqual DEF Texts, N
  <2> QED BY <2>4 DEF m, n
<1>14. Reads(K, claims) = Reads(T, claims)
  BY <1>1, <1>12, <1>13, ReadsClosed
<1> QED BY <1>12, <1>14 DEF K

\* _wrap closes a text and keeps what it says.
LEMMA WrapCloses ==
  ASSUME NEW T \in Texts, T # <<>>, Balanced(T), NEW claims, NEW r
  PROVE  Closed(Wrap(r, T)) /\ Reads(Wrap(r, T), claims) = Reads(T, claims)
<1>1. CASE {Or, And} \cap Range(T) # {}
  <2>1. Wrap(r, T) = Enclosed(T)
    BY <1>1 DEF Wrap, Enclosed
  <2> QED BY <2>1, EnclosedCloses
<1>2. CASE {Or, And} \cap Range(T) = {}
  <2>1. Wrap(r, T) = T
    BY <1>2 DEF Wrap
  <2>2. TopLevel(T, Or) = {} /\ TopLevel(T, And) = {}
    BY <1>2 DEF TopLevel, Range
  <2> QED BY <2>1, <2>2 DEF Closed
<1> QED BY <1>1, <1>2

\* A role or a scope by itself.
LEMMA AtomReads ==
  ASSUME NEW x \in Values, NEW claims
  PROVE  Closed(<<x>>) /\ Reads(<<x>>, claims) = Verdict(x \in claims)
<1>1. x \notin {Or, And, Open, Close}
  <2>1. x.t = "role" \/ x.t = "scope"
    BY DEF Values
  <2>2. Or.t = "OR" /\ And.t = "AND" /\ Open.t = "(" /\ Close.t = ")"
    BY DEF Or, And, Open, Close, Mark
  <2> QED BY <2>1, <2>2
<1>2. <<x>> \in Texts /\ <<x>> # <<>> /\ Len(<<x>>) = 1 /\ <<x>>[1] = x
      /\ DOMAIN <<x>> = 1..1
  BY DEF Texts, Values, Symbols
<1>3. Depth(<<x>>, 1) = 0
  <2>1. Depth(<<x>>, 0) = 0 /\ Depth(<<x>>, 1) = Depth(<<x>>, 1 - 1) + Weight(<<x>>[1])
    BY DepthStep
  <2> QED BY <1>1, <1>2, <2>1 DEF Weight
<1>4. Balanced(<<x>>) /\ TopLevel(<<x>>, Or) = {} /\ TopLevel(<<x>>, And) = {}
  BY <1>1, <1>2, <1>3 DEF Balanced, TopLevel
<1>5. Closed(<<x>>)
  BY <1>2, <1>4 DEF Closed
<1> QED BY <1>1, <1>2, <1>5, ReadsClosed

-----------------------------------------------------------------------------
(* What a 403 says.                                                        *)

Right(T, claims, b) == T \in Texts /\ T # <<>> /\ Balanced(T)
                         /\ Reads(T, claims) = Verdict(b)

\* The description of a rule says what check does with any claims, if those of
\* the custom predicates in it do: by the height of the rule.
THEOREM DescriptionsTrue ==
  ASSUME NEW claims, \A r \in Rules : Honest(r, claims)
  PROVE  \A r \in Rules : Right(Describe(r), claims, Check(r, claims))
<1> DEFINE Good(r) == Right(Describe(r), claims, Check(r, claims))
<1>1. PICK h \in [Rules -> Nat] : \A r \in Rules : RuleTyped(r) /\ Lower(h, r)
  BY Heights
<1>2. ASSUME NEW r \in Rules, r.kind = "primitive" PROVE Good(r)
  <2> DEFINE texts == [i \in DOMAIN r.parts |-> <<r.parts[i]>>]
  <2>1. /\ r.parts \in Seq(Values) /\ r.parts # <<>>
        /\ Describe(r) = Join(texts, Or)
        /\ Check(r, claims) <=> Range(r.parts) \cap claims # {}
    BY <1>1, <1>2, DescribeIs, CheckIs DEF RuleTyped
  <2>2. /\ DOMAIN r.parts = 1..Len(r.parts) /\ Len(r.parts) \in Nat
        /\ \A i \in DOMAIN r.parts : r.parts[i] \in Values
    BY <2>1, LenProperties, ElementOfSeq
  <2>3. /\ DOMAIN texts = DOMAIN r.parts
        /\ \A i \in DOMAIN texts : texts[i] = <<r.parts[i]>>
    OBVIOUS
  <2> HIDE DEF texts
  <2>4. \A i \in DOMAIN texts :
          /\ Closed(texts[i])
          /\ Reads(texts[i], claims) = Verdict(r.parts[i] \in claims)
    BY <2>2, <2>3, AtomReads
  <2>5. texts \in Seq(Seq(Symbols)) /\ texts # <<>>
    <3>1. texts \in [1..Len(r.parts) -> Seq(Symbols)]
      BY <2>2, <2>3, <2>4 DEF Closed, Texts, texts
    <3>2. texts \in Seq(Seq(Symbols))
      BY <2>2, <3>1, SeqDef
    <3>3. DOMAIN texts # {}
      BY <2>1, <2>2, <2>3, EmptySeq
    <3> QED BY <3>2, <3>3
  <2>6. JoinOf(Join(texts, Or), Or, Range(texts))
    BY <2>4, <2>5, JoinShape
  <2>7. \A i \in DOMAIN texts : Reads(texts[i], claims) \in {"grants", "denies"}
    BY <2>4 DEF Verdict
  <2>8. Reads(Join(texts, Or), claims) =
          IF \E i \in DOMAIN texts : Reads(texts[i], claims) = "grants"
          THEN "grants" ELSE "denies"
    BY <2>4, <2>5, <2>7, JoinReads
  <2>9. (\E i \in DOMAIN texts : Reads(texts[i], claims) = "grants")
          <=> Check(r, claims)
    <3>1. \A i \in DOMAIN texts :
            Reads(texts[i], claims) = "grants" <=> r.parts[i] \in claims
      BY <2>4 DEF Verdict
    <3> QED BY <2>1, <2>3, <3>1 DEF Range
  <2> QED BY <2>1, <2>6, <2>8, <2>9 DEF JoinOf, Right, Verdict
<1>3. ASSUME NEW r \in Rules, r.kind = "custom" PROVE Good(r)
  <2>1. /\ Describe(r) = r.parts /\ Describe(r) \in Texts
        /\ Check(r, claims) <=> r.accepts \cap claims # {}
        /\ Check(r, claims) \in BOOLEAN
    BY <1>3, DescribeIs, CheckIs DEF Texts
  <2>2. Verdict(r.accepts \cap claims # {}) = Verdict(Check(r, claims))
    BY <2>1
  <2> QED BY <1>3, <2>1, <2>2 DEF Honest, Right
<1>4. ASSUME NEW r \in Rules, r.kind \in {"any", "all"},
             \A p \in Range(r.parts) : Good(p)
      PROVE  Good(r)
  <2> DEFINE texts == Parted(r)
  <2>1. texts \in Seq(Seq(Symbols)) /\ texts # <<>>
    BY <1>4, DescribeIs
  <2>2. /\ DOMAIN texts = DOMAIN r.parts
        /\ \A i \in DOMAIN texts :
              texts[i] = Wrap(r.parts[i], Describe(r.parts[i]))
    BY DEF Parted
  <2> HIDE DEF texts
  <2>3. ASSUME NEW i \in DOMAIN texts
        PROVE  /\ Closed(texts[i])
               /\ Reads(texts[i], claims) = Verdict(Check(r.parts[i], claims))
    <3>1. r.parts[i] \in Range(r.parts)
      BY <2>2 DEF Range
    <3>2. Right(Describe(r.parts[i]), claims, Check(r.parts[i], claims))
      BY <1>4, <3>1
    <3> QED BY <2>2, <3>2, WrapCloses DEF Right
  <2>4. \A i \in DOMAIN texts : Reads(texts[i], claims) \in {"grants", "denies"}
    BY <2>3 DEF Verdict
  <2>5. \A i \in DOMAIN texts :
          /\ Reads(texts[i], claims) = "grants" <=> Check(r.parts[i], claims)
          /\ Reads(texts[i], claims) = "denies" <=> ~Check(r.parts[i], claims)
    BY <2>3 DEF Verdict
  <2>6. CASE r.kind = "any"
    <3>1. Describe(r) = Join(texts, Or)
      BY <2>6, DescribeIs DEF texts
    <3>2. Check(r, claims) <=> \E i \in DOMAIN texts : Check(r.parts[i], claims)
      <4>1. Check(r, claims) <=> \E p \in Range(r.parts) : Check(p, claims)
        BY <2>6, CheckIs
      <4> QED BY <2>2, <4>1 DEF Range
    <3>3. JoinOf(Join(texts, Or), Or, Range(texts))
      BY <2>1, <2>3, JoinShape
    <3>4. Reads(Join(texts, Or), claims) =
            IF \E i \in DOMAIN texts : Reads(texts[i], claims) = "grants"
            THEN "grants" ELSE "denies"
      BY <2>1, <2>3, <2>4, JoinReads
    <3> QED BY <2>5, <3>1, <3>2, <3>3, <3>4 DEF JoinOf, Right, Verdict
  <2>7. CASE r.kind = "all"
    <3>1. Describe(r) = Join(texts, And)
      BY <2>7, DescribeIs DEF texts
    <3>2. Check(r, claims) <=> \A i \in DOMAIN texts : Check(r.parts[i], claims)
      <4>1. Check(r, claims) <=> \A p \in Range(r.parts) : Check(p, claims)
        BY <2>7, CheckIs
      <4> QED BY <2>2, <4>1 DEF Range
    <3>3. JoinOf(Join(texts, And), And, Range(texts))
      BY <2>1, <2>3, JoinShape
    <3>4. Reads(Join(texts, And), claims) =
            IF \E i \in DOMAIN texts : Reads(texts[i], claims) = "denies"
            THEN "denies" ELSE "grants"
      BY <2>1, <2>3, <2>4, JoinReads, Marks
    <3> QED BY <2>5, <3>1, <3>2, <3>3, <3>4 DEF JoinOf, Right, Verdict
  <2> QED BY <1>4, <2>6, <2>7
<1> HIDE DEF Good
<1>5. \A r \in Rules : Good(r)
  <2> SUFFICES ASSUME NEW q \in Rules, ~Good(q) PROVE FALSE
    OBVIOUS
  <2> DEFINE S == {h[r] : r \in {p \in Rules : ~Good(p)}}
  <2>1. S \in SUBSET Nat /\ h[q] \in S
    OBVIOUS
  <2>2. PICK m \in S : \A n \in S : m <= n
    <3> HIDE DEF S
    <3> QED BY <2>1, Smallest
  <2>3. PICK r \in Rules : ~Good(r) /\ h[r] = m
    OBVIOUS
  <2>4. CASE r.kind \in {"any", "all"}
    <3>1. ASSUME NEW p \in Range(r.parts) PROVE Good(p)
      <4>1. p \in Rules /\ h[p] < h[r] /\ h[p] \in Nat /\ h[r] \in Nat
        BY <1>1, <2>4, PartsAreRules DEF Lower
      <4>2. ~(m <= h[p])
        BY <2>3, <4>1
      <4> QED BY <2>2, <4>1, <4>2
    <3> QED BY <1>4, <2>3, <2>4, <3>1
  <2> QED BY <1>1, <1>2, <1>3, <2>3, <2>4 DEF RuleTyped
<1> QED BY <1>5 DEF Good

\* The 403 states the rule that was enforced: read by itself it denies the claims
\* that were denied, and the rules of a route whose handler runs, read by
\* themselves, grant those that were admitted.
THEOREM RuleAsStatedHolds ==
  ASSUME HonestCustoms
  PROVE  Spec => []RuleAsStated
<1>1. IInv => RuleAsStated
  <2> SUFFICES ASSUME IInv PROVE RuleAsStated
    OBVIOUS
  <2>1. /\ Guarded /\ RefusedByRule
        /\ \A d \in Declared : d.call = "requires" => d.rule \in Rules
    BY HandlersGuarded, RefusalsTrue, LevelsTyped, Calls DEF IInv
  <2>2. \A r \in Rules : Honest(r, Claims(token))
    BY DEF HonestCustoms, IInv, RequestTyped
  <2>3. \A r \in Rules :
          Reads(Describe(r), Claims(token)) = Verdict(Check(r, Claims(token)))
    BY <2>2, DescriptionsTrue DEF Right
  <2>4. ASSUME response # NoResponse, response.detail # <<>>
        PROVE  Trusted /\ Reads(response.detail, Claims(token)) = "denies"
    BY <2>1, <2>3, <2>4 DEF RefusedByRule, Verdict
  <2>5. ASSUME at \in {"handler", "served"}, NEW d \in Declared, d.call = "requires"
        PROVE  Reads(Describe(d.rule), Claims(token)) = "grants"
    BY <2>1, <2>3, <2>5 DEF Guarded, Verdict
  <2> QED BY <2>4, <2>5 DEF RuleAsStated
<1> QED BY <1>1, Invariance, PTL
=============================================================================
