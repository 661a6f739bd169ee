--------------------------- MODULE RateLimitProofs ---------------------------
(***************************************************************************)
(* Proofs about RateLimit, for any keys, rates and clock.  AInv is the     *)
(* inductive invariant: of each key it says how what the store counts      *)
(* bounds what was granted in the last window (Accounted), and that what   *)
(* the client was told is no better than what the store will do (Promised, *)
(* Warned).                                                                *)
(***************************************************************************)
EXTENDS RateLimit, SequenceTheorems, WellFoundedInduction, TLAPS

-----------------------------------------------------------------------------
(* Sequences of ages, oldest first. *)

\* Live, and W!Young, of any sequence and window.
Cut(s, w) ==
  LET first == CHOOSE i \in 1..(Len(s) + 1) :
                 /\ \A j \in 1..(i - 1) : s[j] >= w
                 /\ i <= Len(s) => s[i] < w
  IN  SubSeq(s, first, Len(s))

Sorted(s) == \A i, j \in 1..Len(s) : i <= j => s[i] >= s[j]

\* Counted from the youngest, s has an age for each of g, and none that is older.
Covers(s, g) ==
  /\ Len(g) <= Len(s)
  /\ \A i \in 0..(Len(g) - 1) : g[Len(g) - i] >= s[Len(s) - i]

LEMMA FurtherAtLeast ==
  \A a, b, c \in Nat : a >= b /\ b >= c => a >= c
OBVIOUS

\* The least element of a set of numbers, which stands in for an induction.
LEMMA Smallest ==
  ASSUME NEW S \in SUBSET Nat, S # {}
  PROVE  \E m \in S : \A n \in S : m <= n
<1> DEFINE R == {p \in Nat \X Nat : p[1] < p[2]}
<1>1. R = OpToRel(<, Nat)
  BY DEF OpToRel
<1>2. IsWellFoundedOn(R, Nat)
  BY <1>1, NatLessThanWellFounded
<1>3. PICK m \in S : \A n \in S : ~ (<<n, m>> \in R)
  <2> HIDE DEF R
  <2> QED BY <1>2, WFMin
<1>4. ASSUME NEW n \in S PROVE m <= n
  <2>1. m \in Nat /\ n \in Nat
    OBVIOUS
  <2>2. ~(n < m)
    BY <1>3, <1>4, <2>1
  <2> QED BY <2>1, <2>2
<1> QED BY <1>4

\* A cut drops the ages of a window and more, and these only.
LEMMA CutIs ==
  ASSUME NEW w \in Nat, NEW s \in Seq(Nat), Sorted(s)
  PROVE  \E d \in 0..Len(s) :
           /\ Cut(s, w) \in Seq(Nat)
           /\ Len(Cut(s, w)) = Len(s) - d
           /\ \A i \in 1..(Len(s) - d) : Cut(s, w)[i] = s[d + i] /\ s[d + i] < w
           /\ \A i \in 1..d : s[i] >= w
<1> DEFINE First(i) == /\ \A j \in 1..(i - 1) : s[j] >= w
                       /\ i <= Len(s) => s[i] < w
<1>a. Len(s) \in Nat /\ \A i \in 1..Len(s) : s[i] \in Nat
  BY ElementOfSeq, LenProperties
<1>1. \E i \in 1..(Len(s) + 1) : First(i)
  <2> DEFINE S == {i \in 1..(Len(s) + 1) : i <= Len(s) => s[i] < w}
  <2>1. S \subseteq Nat /\ Len(s) + 1 \in S
    BY <1>a
  <2>2. PICK m \in S : \A n \in S : m <= n
    <3> HIDE DEF S
    <3> QED BY <2>1, Smallest
  <2>3. ASSUME NEW j \in 1..(m - 1) PROVE s[j] >= w
    BY <1>a, <2>2, <2>3
  <2> QED BY <2>2, <2>3
<1> DEFINE f == CHOOSE i \in 1..(Len(s) + 1) : First(i)
<1>2. f \in 1..(Len(s) + 1) /\ First(f)
  BY <1>1
<1>3. Cut(s, w) = SubSeq(s, f, Len(s))
  BY DEF Cut
<1> HIDE DEF f
<1>4. /\ SubSeq(s, f, Len(s)) \in Seq(Nat)
      /\ Len(SubSeq(s, f, Len(s))) = IF f <= Len(s) THEN Len(s) - f + 1 ELSE 0
      /\ \A i \in 1..(Len(s) - f + 1) : SubSeq(s, f, Len(s))[i] = s[f + i - 1]
  <2>1. \A i \in f..Len(s) : s[i] \in Nat
    BY <1>a, <1>2
  <2> QED BY <1>a, <1>2, <2>1, SubSeqProperties
<1> DEFINE d == f - 1
<1>5. d \in 0..Len(s) /\ f = d + 1
  BY <1>a, <1>2
<1>6. ASSUME NEW i \in 1..(Len(s) - d)
      PROVE  Cut(s, w)[i] = s[d + i] /\ s[d + i] < w
  <2>1. i \in 1..(Len(s) - f + 1) /\ f + i - 1 = d + i /\ d + i \in 1..Len(s)
        /\ f \in 1..Len(s) /\ f <= d + i
    <3>1. Len(s) \in Nat
      BY <1>a
    <3> HIDE DEF f
    <3> QED BY <1>5, <3>1
  <2>2. s[f] < w /\ s[f] >= s[d + i]
    BY <1>2, <2>1 DEF Sorted
  <2> QED BY <1>a, <1>3, <1>4, <2>1, <2>2
<1>7. \A i \in 1..d : s[i] >= w
  BY <1>2
<1>8. Len(Cut(s, w)) = Len(s) - d
  BY <1>a, <1>3, <1>4, <1>5
<1> QED BY <1>3, <1>4, <1>5, <1>6, <1>7, <1>8

LEMMA FunctionIsSeq ==
  ASSUME NEW S, NEW n \in Nat, NEW f \in [1..n -> S]
  PROVE  f \in Seq(S) /\ Len(f) = n
BY SeqDef

LEMMA CutSorted ==
  ASSUME NEW w \in Nat, NEW s \in Seq(Nat), Sorted(s)
  PROVE  Sorted(Cut(s, w))
<1>1. PICK d \in 0..Len(s) :
        /\ Len(Cut(s, w)) = Len(s) - d
        /\ \A i \in 1..(Len(s) - d) : Cut(s, w)[i] = s[d + i]
  BY CutIs
<1>2. Len(s) \in Nat
  BY LenProperties
<1> SUFFICES ASSUME NEW i \in 1..(Len(s) - d), NEW j \in 1..(Len(s) - d), i <= j
             PROVE  Cut(s, w)[i] >= Cut(s, w)[j]
  BY <1>1 DEF Sorted
<1>3. d + i \in 1..Len(s) /\ d + j \in 1..Len(s) /\ d + i <= d + j
  BY <1>2
<1> QED BY <1>1, <1>3 DEF Sorted

\* What is young enough is kept.
LEMMA CutNothing ==
  ASSUME NEW w \in Nat, NEW s \in Seq(Nat), Sorted(s),
         \A i \in 1..Len(s) : s[i] < w
  PROVE  Len(Cut(s, w)) = Len(s) /\ \A i \in 1..Len(s) : Cut(s, w)[i] = s[i]
<1>0. Len(s) \in Nat /\ \A i \in 1..Len(s) : s[i] \in Nat
  BY ElementOfSeq, LenProperties
<1>1. PICK d \in 0..Len(s) :
        /\ Len(Cut(s, w)) = Len(s) - d
        /\ \A i \in 1..(Len(s) - d) : Cut(s, w)[i] = s[d + i]
        /\ \A i \in 1..d : s[i] >= w
  BY CutIs
<1>2. d = 0
  <2> SUFFICES ASSUME d # 0 PROVE FALSE
    OBVIOUS
  <2>1. 1 \in 1..d /\ 1 \in 1..Len(s)
    BY <1>0
  <2> QED BY <1>0, <1>1, <2>1
<1> QED BY <1>0, <1>1, <1>2

\* A new age, of zero, is the youngest.
LEMMA AppendSorted ==
  ASSUME NEW s \in Seq(Nat), Sorted(s)
  PROVE  /\ Append(s, 0) \in Seq(Nat) /\ Sorted(Append(s, 0))
         /\ Len(Append(s, 0)) = Len(s) + 1
         /\ \A i \in 1..Len(s) : Append(s, 0)[i] = s[i]
         /\ Append(s, 0)[Len(s) + 1] = 0
<1>0. Len(s) \in Nat /\ \A i \in 1..Len(s) : s[i] \in Nat
  BY ElementOfSeq, LenProperties
<1>1. /\ Append(s, 0) \in Seq(Nat) /\ Len(Append(s, 0)) = Len(s) + 1
      /\ \A i \in 1..Len(s) : Append(s, 0)[i] = s[i]
      /\ Append(s, 0)[Len(s) + 1] = 0
  BY AppendProperties
<1>2. ASSUME NEW i \in 1..(Len(s) + 1), NEW j \in 1..(Len(s) + 1), i <= j
      PROVE  Append(s, 0)[i] >= Append(s, 0)[j]
  <2>1. CASE j = Len(s) + 1
    BY <1>0, <1>1, <2>1
  <2>2. CASE j # Len(s) + 1
    BY <1>0, <1>1, <1>2, <2>2 DEF Sorted
  <2> QED BY <2>1, <2>2
<1> QED BY <1>1, <1>2 DEF Sorted

\* A tick makes all of them older alike.
LEMMA OlderSorted ==
  ASSUME NEW s \in Seq(Nat), Sorted(s)
  PROVE  /\ [i \in DOMAIN s |-> s[i] + 1] \in Seq(Nat)
         /\ Sorted([i \in DOMAIN s |-> s[i] + 1])
         /\ Len([i \in DOMAIN s |-> s[i] + 1]) = Len(s)
         /\ \A i \in 1..Len(s) : [j \in DOMAIN s |-> s[j] + 1][i] = s[i] + 1
<1> DEFINE o == [i \in DOMAIN s |-> s[i] + 1]
<1>0. Len(s) \in Nat /\ DOMAIN s = 1..Len(s)
      /\ \A i \in 1..Len(s) : s[i] \in Nat
  BY ElementOfSeq, LenProperties
<1>1. /\ DOMAIN o = 1..Len(s)
      /\ \A i \in 1..Len(s) : o[i] = s[i] + 1 /\ o[i] \in Nat
  BY <1>0
<1>2. o \in [1..Len(s) -> Nat]
  BY <1>0
<1>3. o \in Seq(Nat) /\ Len(o) = Len(s)
  BY <1>0, <1>2, FunctionIsSeq
<1>4. Sorted(o)
  BY <1>0, <1>1, <1>3 DEF Sorted
<1> QED BY <1>1, <1>3, <1>4

LEMMA CappedSorted ==
  ASSUME NEW s \in Seq(Nat), Sorted(s), Window \in Nat
  PROVE  /\ Older(s) \in Seq(0..Window) /\ Older(s) \in Seq(Nat)
         /\ Sorted(Older(s)) /\ Len(Older(s)) = Len(s)
         /\ \A i \in 1..Len(s) : Older(s)[i] = Least(s[i] + 1, Window)
<1>0. Len(s) \in Nat /\ DOMAIN s = 1..Len(s)
      /\ \A i \in 1..Len(s) : s[i] \in Nat
  BY ElementOfSeq, LenProperties
<1>1. /\ DOMAIN Older(s) = 1..Len(s)
      /\ \A i \in 1..Len(s) : Older(s)[i] = Least(s[i] + 1, Window)
  BY <1>0 DEF Older
<1>2. Older(s) \in [1..Len(s) -> 0..Window]
  BY <1>0 DEF Older, Least
<1>3. Older(s) \in Seq(0..Window) /\ Older(s) \in Seq(Nat)
      /\ Len(Older(s)) = Len(s)
  <2>1. Older(s) \in [1..Len(s) -> Nat]
    BY <1>2
  <2>2. Len(s) \in Nat
    BY <1>0
  <2> QED BY <1>2, <2>1, <2>2, FunctionIsSeq
<1>4. ASSUME NEW i \in 1..Len(s), NEW j \in 1..Len(s), i <= j
      PROVE  Older(s)[i] >= Older(s)[j]
  <2>1. s[i] >= s[j] /\ s[i] \in Nat /\ s[j] \in Nat
    BY <1>0, <1>4 DEF Sorted
  <2> QED BY <1>1, <2>1 DEF Least
<1> QED BY <1>1, <1>3, <1>4 DEF Sorted

-----------------------------------------------------------------------------
(* What the log of the sliding window says of the grants. *)

LEMMA CoversCut ==
  ASSUME NEW w \in Nat, NEW s \in Seq(Nat), NEW g \in Seq(Nat), Sorted(s),
         Covers(s, g), \A i \in 1..Len(g) : g[i] < w
  PROVE  Covers(Cut(s, w), g)
<1>0. /\ Len(s) \in Nat /\ \A i \in 1..Len(s) : s[i] \in Nat
      /\ Len(g) \in Nat /\ \A i \in 1..Len(g) : g[i] \in Nat
  BY ElementOfSeq, LenProperties
<1>1. PICK d \in 0..Len(s) :
        /\ Len(Cut(s, w)) = Len(s) - d
        /\ \A i \in 1..(Len(s) - d) : Cut(s, w)[i] = s[d + i]
        /\ \A i \in 1..d : s[i] >= w
  BY CutIs
<1>2. Len(g) <= Len(s) - d
  <2> SUFFICES ASSUME Len(s) - d < Len(g) PROVE FALSE
    BY <1>0
  <2>1. /\ Len(g) <= Len(s)
        /\ \A i \in 0..(Len(g) - 1) : g[Len(g) - i] >= s[Len(s) - i]
    BY DEF Covers
  <2> DEFINE i == Len(s) - d
  <2>2. i \in 0..(Len(g) - 1) /\ Len(s) - i = d /\ d \in 1..d
        /\ Len(g) - i \in 1..Len(g) /\ d \in 1..Len(s)
    BY <1>0, <2>1
  <2>3. g[Len(g) - i] >= s[d] /\ s[d] >= w
    BY <1>1, <2>1, <2>2
  <2>4. g[Len(g) - i] < w /\ g[Len(g) - i] \in Nat /\ s[d] \in Nat
    BY <1>0, <2>2
  <2> QED BY <2>3, <2>4
<1>3. ASSUME NEW i \in 0..(Len(g) - 1)
      PROVE  g[Len(g) - i] >= Cut(s, w)[Len(Cut(s, w)) - i]
  <2>1. /\ Len(Cut(s, w)) - i \in 1..(Len(s) - d)
        /\ d + (Len(Cut(s, w)) - i) = Len(s) - i
    BY <1>0, <1>1, <1>2
  <2>2. Cut(s, w)[Len(Cut(s, w)) - i] = s[Len(s) - i]
    BY <1>1, <2>1
  <2> QED BY <2>2 DEF Covers
<1> QED BY <1>1, <1>2, <1>3 DEF Covers

\* A new member covers a new grant, and does no harm without one.
LEMMA CoversAppend ==
  ASSUME NEW s \in Seq(Nat), NEW g \in Seq(Nat), Sorted(s), Sorted(g),
         Covers(s, g)
  PROVE  Covers(Append(s, 0), g) /\ Covers(Append(s, 0), Append(g, 0))
<1>0. /\ Len(s) \in Nat /\ \A i \in 1..Len(s) : s[i] \in Nat
      /\ Len(g) \in Nat /\ \A i \in 1..Len(g) : g[i] \in Nat
  BY ElementOfSeq, LenProperties
<1> DEFINE t == Append(s, 0)
           h == Append(g, 0)
<1>1. /\ Len(t) = Len(s) + 1 /\ t[Len(s) + 1] = 0
      /\ \A i \in 1..Len(s) : t[i] = s[i]
  BY AppendSorted
<1>2. /\ Len(h) = Len(g) + 1 /\ h[Len(g) + 1] = 0
      /\ \A i \in 1..Len(g) : h[i] = g[i]
  BY AppendSorted
<1>3. /\ Len(g) <= Len(s)
      /\ \A i \in 0..(Len(g) - 1) : g[Len(g) - i] >= s[Len(s) - i]
  BY DEF Covers
<1> HIDE DEF t, h
<1>4. ASSUME NEW i \in 0..(Len(g) - 1) PROVE g[Len(g) - i] >= t[Len(t) - i]
  <2>1. CASE i = 0
    BY <1>0, <1>1, <2>1
  <2>2. CASE i # 0
    <3>1. /\ i - 1 \in 0..(Len(g) - 1)
          /\ Len(t) - i = Len(s) - (i - 1) /\ Len(s) - (i - 1) \in 1..Len(s)
          /\ Len(g) - i \in 1..Len(g) /\ Len(g) - (i - 1) \in 1..Len(g)
          /\ Len(g) - i <= Len(g) - (i - 1)
      BY <1>0, <1>1, <1>3, <2>2
    <3>2. g[Len(g) - i] >= g[Len(g) - (i - 1)]
      BY <3>1 DEF Sorted
    <3>3. g[Len(g) - (i - 1)] >= s[Len(s) - (i - 1)]
      BY <1>3, <3>1
    <3>4. t[Len(t) - i] = s[Len(s) - (i - 1)]
      BY <1>1, <3>1
    <3>5. /\ g[Len(g) - i] \in Nat /\ g[Len(g) - (i - 1)] \in Nat
          /\ s[Len(s) - (i - 1)] \in Nat
      BY <1>0, <3>1
    <3> QED BY <3>2, <3>3, <3>4, <3>5, FurtherAtLeast
  <2> QED BY <2>1, <2>2
<1>5. Covers(t, g)
  BY <1>0, <1>1, <1>3, <1>4 DEF Covers
<1>6. ASSUME NEW i \in 0..(Len(h) - 1) PROVE h[Len(h) - i] >= t[Len(t) - i]
  <2>1. CASE i = 0
    BY <1>0, <1>1, <1>2, <2>1
  <2>2. CASE i # 0
    <3>1. /\ i - 1 \in 0..(Len(g) - 1)
          /\ Len(t) - i = Len(s) - (i - 1) /\ Len(s) - (i - 1) \in 1..Len(s)
          /\ Len(h) - i = Len(g) - (i - 1) /\ Len(g) - (i - 1) \in 1..Len(g)
      BY <1>0, <1>1, <1>2, <1>3, <2>2
    <3> QED BY <1>1, <1>2, <1>3, <3>1
  <2> QED BY <2>1, <2>2
<1>7. Covers(t, h)
  BY <1>0, <1>1, <1>2, <1>3, <1>6 DEF Covers
<1> QED BY <1>5, <1>7 DEF t, h

LEMMA OneOlder ==
  ASSUME Window \in Nat
  PROVE  \A a, b \in Nat : a >= b => a + 1 >= Least(b + 1, Window)
BY DEF Least

LEMMA CoversOlder ==
  ASSUME NEW s \in Seq(Nat), NEW g \in Seq(Nat), Sorted(s), Sorted(g),
         Covers(s, g), Window \in Nat
  PROVE  Covers(Older(s), Cut([i \in DOMAIN g |-> g[i] + 1], Window))
<1> DEFINE o == [i \in DOMAIN g |-> g[i] + 1]
           h == Cut(o, Window)
<1>0. /\ Len(s) \in Nat /\ \A i \in 1..Len(s) : s[i] \in Nat
      /\ Len(g) \in Nat /\ \A i \in 1..Len(g) : g[i] \in Nat
  BY ElementOfSeq, LenProperties
<1>1. /\ o \in Seq(Nat) /\ Sorted(o) /\ Len(o) = Len(g)
      /\ \A i \in 1..Len(g) : o[i] = g[i] + 1
  BY OlderSorted
<1>2. /\ Len(Older(s)) = Len(s)
      /\ \A i \in 1..Len(s) : Older(s)[i] = Least(s[i] + 1, Window)
  BY CappedSorted
<1>3. /\ Len(g) <= Len(s)
      /\ \A i \in 0..(Len(g) - 1) : g[Len(g) - i] >= s[Len(s) - i]
  BY DEF Covers
<1> HIDE DEF o
<1>4. PICK d \in 0..Len(o) :
        /\ Len(h) = Len(o) - d
        /\ \A i \in 1..(Len(o) - d) : h[i] = o[d + i]
  BY <1>1, CutIs
<1> HIDE DEF h
<1>5. ASSUME NEW i \in 0..(Len(h) - 1)
      PROVE  h[Len(h) - i] >= Older(s)[Len(Older(s)) - i]
  <2>0. /\ Len(h) = Len(g) - d /\ Len(o) = Len(g) /\ d \in 0..Len(g)
        /\ Len(g) \in Nat /\ Len(s) \in Nat /\ Len(g) <= Len(s)
        /\ i \in 0..(Len(g) - d - 1)
    BY <1>0, <1>1, <1>3, <1>4
  <2>1. /\ i \in 0..(Len(g) - 1) /\ Len(h) - i \in 1..(Len(o) - d)
        /\ d + (Len(h) - i) = Len(g) - i /\ Len(g) - i \in 1..Len(g)
        /\ Len(s) - i \in 1..Len(s)
    BY <2>0
  <2>2. h[Len(h) - i] = g[Len(g) - i] + 1
    <3>1. h[Len(h) - i] = o[d + (Len(h) - i)]
      <4> DEFINE j == Len(h) - i
      <4>1. j \in 1..(Len(o) - d)
        BY <2>1
      <4> HIDE DEF j
      <4>2. h[j] = o[d + j]
        BY <1>4, <4>1
      <4> QED BY <4>2 DEF j
    <3>2. o[Len(g) - i] = g[Len(g) - i] + 1
      BY <1>1, <2>1
    <3> QED BY <2>1, <3>1, <3>2
  <2>3. Older(s)[Len(Older(s)) - i] = Least(s[Len(s) - i] + 1, Window)
    BY <1>2, <2>1
  <2>4. /\ g[Len(g) - i] >= s[Len(s) - i]
        /\ g[Len(g) - i] \in Nat /\ s[Len(s) - i] \in Nat
    BY <1>0, <1>3, <2>1
  <2> QED BY <2>2, <2>3, <2>4, OneOlder
<1>6. Len(h) <= Len(Older(s))
  BY <1>0, <1>1, <1>2, <1>3, <1>4
<1> QED BY <1>5, <1>6 DEF Covers, h, o

-----------------------------------------------------------------------------
(* The invariant. *)

\* What the dependency was built with, and the clock.
Setting ==
  /\ rate.times \in Nat \ {0} /\ rate.ticks \in Nat \ {0}
  /\ strategy \in {"fixed", "sliding", "memory"} /\ failOpen \in BOOLEAN
  /\ phase \in 0..(Second - 1)

\* What the store may hold: each log is in the order of time, and the in-memory
\* limiter counts for the keys it remembers and no others.
StoreTypes ==
  /\ count \in [Keys -> 0..(rate.times + 1)]
  /\ age \in [Keys -> 0..Window]
  /\ log \in [Keys -> Seq(Nat)]
  /\ \A k \in Keys :
       /\ Len(log[k]) <= rate.times /\ Sorted(log[k])
       /\ \A i \in 1..Len(log[k]) : log[k][i] <= Window
  /\ lru \in Seq(Keys) /\ Len(lru) <= MaxKeys
  /\ strategy = "memory" =>
       \A k \in Keys : count[k] > 0 <=> \E i \in 1..Len(lru) : lru[i] = k

HistoryTypes ==
  /\ granted \in [Keys -> Seq(Nat)]
  /\ \A k \in Keys :
       /\ Sorted(granted[k])
       /\ \A i \in 1..Len(granted[k]) : granted[k][i] < Window
  /\ credit \in [Keys -> 0..rate.times]
  /\ guess \in [Keys -> BOOLEAN] /\ told \in [Keys -> BOOLEAN]
  /\ retry \in [Keys -> Nat] /\ reset \in [Keys -> Nat]

\* The log has a member for each of the grants; a counter accounts for all of
\* them but those let through in the window before its own, at most rate.times.
Records(g, l, a) == Covers(l, g) /\ \A i \in 1..Len(l) : l[i] >= a

Balances(g, c, a, t) ==
  LET before == Len(g) - Least(c, t) IN
  /\ before <= t
  /\ \A i \in 1..before : g[i] >= a

Accounted(k) ==
  /\ strategy = "sliding" => Records(granted[k], log[k], age[k])
  /\ strategy # "sliding" => Balances(granted[k], count[k], age[k], rate.times)
  /\ strategy = "fixed" /\ count[k] > 0 => age[k] < Window

\* A hit on k would be refused, and how long this would still be so.
Refuses(k) ==
  IF strategy = "sliding" THEN Len(Live(k)) >= rate.times
  ELSE count[k] >= rate.times /\ (strategy = "memory" => age[k] < Window)

Left(k) == Window - (IF strategy = "sliding" THEN Live(k)[1] ELSE age[k])

\* What is counted of k, as the next hit finds it.
Held(k) == IF strategy = "sliding" THEN Len(Live(k))
           ELSE IF strategy = "memory" /\ Fresh(k) THEN 0 ELSE count[k]

\* What was promised from a count is left, and whoever was refused was told to
\* wait for long enough.
Promised(k) ==
  credit[k] > 0 /\ ~guess[k] => ~told[k] /\ Held(k) + credit[k] <= rate.times

Warned(k) == told[k] /\ Refuses(k) => Left(k) <= retry[k] /\ Left(k) <= reset[k]

AInv ==
  /\ Setting /\ StoreTypes /\ HistoryTypes
  /\ \A k \in Keys : Accounted(k) /\ Promised(k) /\ Warned(k)

LEMMA Constants ==
  /\ Second \in Nat \ {0} /\ MaxKeys \in Nat \ {0}
  /\ Strategies \subseteq {"fixed", "sliding", "memory"}
BY RateAssumption

LEMMA ProductAtLeast ==
  \A a, b \in Nat : a >= 1 /\ b >= 1 => a * b \in Nat /\ a * b >= 1
OBVIOUS

LEMMA ParsedRates ==
  ASSUME NEW r \in Rates, Valid(r)
  PROVE  Parsed(r).times \in Nat \ {0} /\ Parsed(r).ticks \in Nat \ {0}
<1>1. r.times \in Nat /\ r.times >= 1
  BY RateAssumption DEF Valid
<1>2. CASE r.form = "tuple"
  <2>1. r.ticks \in Nat /\ r.ticks > 0
    BY <1>2, RateAssumption DEF Valid
  <2> QED BY <1>1, <1>2, <2>1 DEF Parsed
<1>3. CASE r.form = "text"
  <2>1. r.multiple \in Nat /\ r.multiple >= 1 /\ r.unit \in DOMAIN UnitSeconds
    BY <1>3, RateAssumption DEF Valid
  <2>2. UnitSeconds[r.unit] \in Nat /\ UnitSeconds[r.unit] >= 1
    BY <2>1 DEF UnitSeconds
  <2>3. Second \in Nat /\ Second >= 1
    BY Constants
  <2> DEFINE u == UnitSeconds[r.unit]
  <2> HIDE DEF u
  <2>4. u \in Nat /\ u >= 1
    BY <2>2 DEF u
  <2>5. r.multiple * u \in Nat /\ r.multiple * u >= 1
    BY <2>1, <2>4, ProductAtLeast
  <2>6. r.multiple * u * Second \in Nat /\ r.multiple * u * Second >= 1
    BY <2>3, <2>5, ProductAtLeast
  <2>7. Parsed(r).ticks = r.multiple * u * Second
    BY <1>3 DEF Parsed, u
  <2>8. Parsed(r).times = r.times
    BY DEF Parsed
  <2> QED BY <1>1, <2>6, <2>7, <2>8
<1> QED BY <1>2, <1>3 DEF Valid

\* math.ceil: the seconds last at least as long as the time, and are Second ticks each.
LEMMA SecondsIs ==
  ASSUME NEW t \in Nat
  PROVE  Seconds(t) * Second \in Nat /\ Seconds(t) * Second >= t
<1>1. Second \in Nat \ {0}
  BY Constants
<1> DEFINE q == (t + Second - 1) \div Second
<1>2. /\ q \in Int /\ (t + Second - 1) % Second \in 0..(Second - 1)
      /\ t + Second - 1 = Second * q + ((t + Second - 1) % Second)
  BY <1>1
<1>3. q >= 0
  BY <1>1
<1>4. q * Second = Second * q /\ q * Second \in Nat
  BY <1>1, <1>2, <1>3
<1> QED BY <1>1, <1>2, <1>4 DEF Seconds

LEMMA WithoutIs ==
  ASSUME NEW S, NEW k, lru \in Seq(S)
  PROVE  Without(k) \in Seq(S)
<1>0. Len(lru) \in Nat /\ DOMAIN lru = 1..Len(lru)
      /\ \A i \in 1..Len(lru) : lru[i] \in S
  BY ElementOfSeq, LenProperties
<1> DEFINE places == {i \in DOMAIN lru : lru[i] = k}
           p == CHOOSE j \in places : TRUE
<1>1. CASE places = {}
  BY <1>1 DEF Without
<1>2. CASE places # {}
  <2>1. p \in 1..Len(lru)
    BY <1>0, <1>2
  <2>2. Without(k) = SubSeq(lru, 1, p - 1) \o SubSeq(lru, p + 1, Len(lru))
    BY <1>2 DEF Without
  <2> HIDE DEF p
  <2>3. SubSeq(lru, 1, p - 1) \in Seq(S)
    <3>1. \A i \in 1..(p - 1) : lru[i] \in S
      BY <1>0, <2>1
    <3>2. p - 1 \in Int
      BY <1>0, <2>1
    <3> QED BY <3>1, <3>2, SubSeqProperties
  <2>4. SubSeq(lru, p + 1, Len(lru)) \in Seq(S)
    <3>1. \A i \in (p + 1)..Len(lru) : lru[i] \in S
      BY <1>0, <2>1
    <3>2. p + 1 \in Int /\ Len(lru) \in Int
      BY <1>0, <2>1
    <3> QED BY <3>1, <3>2, SubSeqProperties
  <2> QED BY <2>2, <2>3, <2>4, ConcatProperties
<1> QED BY <1>1, <1>2

\* What the in-memory limiter holds after a hit: k last, and no more than MaxKeys.
LEMMA RecentIs ==
  ASSUME lru \in Seq(Keys), NEW k \in Keys
  PROVE  /\ Recent(k) \in Seq(Keys) /\ Len(Recent(k)) <= MaxKeys
         /\ \E i \in 1..Len(Recent(k)) : Recent(k)[i] = k
         /\ \A i \in 1..Len(Recent(k)) :
              Recent(k)[i] = k \/ \E j \in 1..Len(lru) : lru[j] = Recent(k)[i]
<1> DEFINE S == {lru[j] : j \in 1..Len(lru)}
           M == Append(Without(k), k)
           f == Less(Len(M), MaxKeys) + 1
<1>0. MaxKeys \in Nat \ {0}
  BY Constants
<1>1. lru \in Seq(S) /\ S \subseteq Keys
  <2>1. Len(lru) \in Nat /\ lru \in [1..Len(lru) -> Keys]
    BY LenProperties
  <2>2. lru \in [1..Len(lru) -> S]
    BY <2>1
  <2> HIDE DEF S
  <2>3. lru \in Seq(S)
    BY <2>1, <2>2, FunctionIsSeq
  <2> QED BY <2>1, <2>3 DEF S
<1>2. Without(k) \in Seq(S \cup {k})
  <2>1. Without(k) \in Seq(S)
    BY <1>1, WithoutIs
  <2> QED BY <2>1, SeqMonotonic
<1>3. /\ M \in Seq(S \cup {k}) /\ Len(M) = Len(Without(k)) + 1
      /\ M[Len(Without(k)) + 1] = k /\ Len(Without(k)) \in Nat
  BY <1>2, AppendProperties, LenProperties
<1> HIDE DEF S
<1>4. /\ Len(M) \in Nat /\ Len(M) >= 1 /\ M[Len(M)] = k
      /\ \A i \in 1..Len(M) : M[i] \in S \cup {k}
  BY <1>3, ElementOfSeq
<1> HIDE DEF M
<1>5. /\ f \in 1..Len(M) /\ Len(M) - f + 1 <= MaxKeys
      /\ \A i \in f..Len(M) : M[i] \in S \cup {k}
  BY <1>0, <1>4 DEF Less
<1>6. Recent(k) = SubSeq(M, f, Len(M))
  BY DEF Recent, M
<1> HIDE DEF f
<1>7. /\ Recent(k) \in Seq(S \cup {k}) /\ Len(Recent(k)) = Len(M) - f + 1
      /\ \A i \in 1..(Len(M) - f + 1) : Recent(k)[i] = M[f + i - 1]
  <2>1. Len(M) \in Int /\ f \in Int /\ f <= Len(M)
    BY <1>4, <1>5
  <2> QED BY <1>5, <1>6, <2>1, SubSeqProperties
<1>8. \E i \in 1..Len(Recent(k)) : Recent(k)[i] = k
  <2>1. Len(M) - f + 1 \in 1..(Len(M) - f + 1) /\ f + (Len(M) - f + 1) - 1 = Len(M)
    BY <1>4, <1>5
  <2> DEFINE i == Len(M) - f + 1
  <2>2. Recent(k)[i] = M[f + i - 1]
    BY <1>7, <2>1
  <2> QED BY <1>4, <1>7, <2>1, <2>2
<1>9. \A i \in 1..Len(Recent(k)) : Recent(k)[i] \in S \cup {k}
  BY <1>7, ElementOfSeq
<1>10. Recent(k) \in Seq(Keys)
  <2>1. S \cup {k} \subseteq Keys
    BY <1>1
  <2> QED BY <1>7, <2>1, SeqMonotonic
<1>11. Len(Recent(k)) <= MaxKeys
  BY <1>5, <1>7
<1> QED BY <1>8, <1>9, <1>10, <1>11 DEF S

-----------------------------------------------------------------------------
(* A hit. *)

LEMMA LiveIs ==
  ASSUME Setting, StoreTypes, NEW k \in Keys
  PROVE  /\ Live(k) = Cut(log[k], Window) /\ Live(k) \in Seq(Nat)
         /\ Sorted(Live(k)) /\ Len(Live(k)) \in Nat
         /\ Len(Live(k)) <= Len(log[k]) /\ Len(Live(k)) <= rate.times
         /\ \A i \in 1..Len(Live(k)) : Live(k)[i] \in Nat /\ Live(k)[i] < Window
<1>1. Live(k) = Cut(log[k], Window)
  BY DEF Live, Cut, Window
<1>2. /\ log[k] \in Seq(Nat) /\ Sorted(log[k]) /\ Len(log[k]) <= rate.times
      /\ Window \in Nat /\ rate.times \in Nat
  BY DEF Setting, StoreTypes, Window
<1>3. PICK d \in 0..Len(log[k]) :
        /\ Cut(log[k], Window) \in Seq(Nat)
        /\ Len(Cut(log[k], Window)) = Len(log[k]) - d
        /\ \A i \in 1..(Len(log[k]) - d) :
             Cut(log[k], Window)[i] = log[k][d + i] /\ log[k][d + i] < Window
  BY <1>2, CutIs
<1>4. Sorted(Cut(log[k], Window))
  BY <1>2, CutSorted
<1>5. Len(log[k]) \in Nat
  BY <1>2, LenProperties
<1>6. \A i \in 1..Len(Live(k)) : Live(k)[i] \in Nat
  BY <1>1, <1>3, ElementOfSeq
<1>7. Len(Live(k)) \in Nat /\ Len(Live(k)) <= Len(log[k])
      /\ Len(Live(k)) <= rate.times
  BY <1>1, <1>2, <1>3, <1>5
<1>8. ASSUME NEW i \in 1..Len(Live(k)) PROVE Live(k)[i] < Window
  <2>1. i \in 1..(Len(log[k]) - d)
    BY <1>1, <1>3
  <2> QED BY <1>1, <1>3, <2>1
<1>9. Live(k) \in Seq(Nat) /\ Sorted(Live(k))
  BY <1>1, <1>3, <1>4
<1> QED BY <1>1, <1>6, <1>7, <1>8, <1>9

LEMMA FieldsOfResult ==
  \A a, b, c : /\ Result(a, b, c).allowed = a /\ Result(a, b, c).remaining = b
               /\ Result(a, b, c).after = c
BY DEF Result

LEMMA LeastIs ==
  \A a, b \in Nat : /\ Least(a, b) \in Nat /\ Least(a, b) <= a /\ Least(a, b) <= b
                    /\ (a <= b => Least(a, b) = a) /\ (b <= a => Least(a, b) = b)
BY DEF Least

\* A hit is refused when as much as the rate is counted.
LEMMA HeldIs ==
  ASSUME Setting, StoreTypes, NEW k \in Keys
  PROVE  /\ Held(k) \in Nat /\ (Refuses(k) <=> Held(k) >= rate.times)
         /\ strategy = "memory" => MemoryCount(k) = Held(k) + 1
<1>1. /\ rate.times \in Nat \ {0} /\ Window \in Nat \ {0}
      /\ count[k] \in 0..(rate.times + 1) /\ age[k] \in 0..Window
  BY DEF Setting, StoreTypes, Window
<1>2. CASE strategy = "sliding"
  BY <1>2, LiveIs DEF Held, Refuses
<1>3. CASE strategy = "fixed"
  BY <1>1, <1>3 DEF Held, Refuses
<1>4. CASE strategy = "memory"
  BY <1>1, <1>4 DEF Held, Refuses, Fresh, MemoryCount
<1> QED BY <1>2, <1>3, <1>4 DEF Setting

\* The answer to a hit, from what the store says.
LEMMA HitResultIs ==
  ASSUME Setting, StoreTypes, NEW k \in Keys
  PROVE  \E b \in BOOLEAN, n \in 0..rate.times, t \in Nat :
           /\ HitResult(k) = Result(b, n, t)
           /\ b = ~Refuses(k)
           /\ ~b => n = 0 /\ t = Left(k)
           /\ n > 0 => Held(k) + n < rate.times
<1>1. /\ rate.times \in Nat \ {0} /\ Window \in Nat \ {0}
      /\ count[k] \in 0..(rate.times + 1) /\ age[k] \in 0..Window
  BY DEF Setting, StoreTypes, Window
<1>2. CASE strategy = "sliding"
  <2>1. HitResult(k) = SlidingResult(k)
    BY <1>2 DEF HitResult
  <2>2. /\ Len(Live(k)) \in Nat /\ Len(Live(k)) <= rate.times
        /\ \A i \in 1..Len(Live(k)) : Live(k)[i] \in Nat /\ Live(k)[i] < Window
    BY LiveIs
  <2>3. CASE Len(Live(k)) < rate.times
    <3>1. SlidingResult(k) = Result(TRUE, rate.times - (Len(Live(k)) + 1), Window)
      BY <2>3 DEF SlidingResult
    <3>2. /\ rate.times - (Len(Live(k)) + 1) \in 0..rate.times
          /\ Held(k) + (rate.times - (Len(Live(k)) + 1)) < rate.times
      BY <1>1, <1>2, <2>2, <2>3 DEF Held
    <3>3. ~Refuses(k)
      BY <1>1, <1>2, <2>2, <2>3 DEF Refuses
    <3> QED BY <1>1, <2>1, <3>1, <3>2, <3>3
  <2>4. CASE ~(Len(Live(k)) < rate.times)
    <3>1. SlidingResult(k) = Result(FALSE, 0, Window - Live(k)[1])
      BY <2>4 DEF SlidingResult
    <3>2. Window - Live(k)[1] \in Nat
      BY <1>1, <2>2, <2>4
    <3>3. Refuses(k) /\ Left(k) = Window - Live(k)[1]
      BY <1>1, <1>2, <2>2, <2>4 DEF Refuses, Left
    <3>4. 0 \in 0..rate.times /\ ~(0 > 0)
      BY <1>1
    <3> QED BY <2>1, <3>1, <3>2, <3>3, <3>4
  <2> QED BY <2>3, <2>4
<1>3. ASSUME NEW m \in Nat, NEW a \in 0..Window, HitResult(k) = ByCount(m, Window - a),
             m <= rate.times <=> ~Refuses(k), Refuses(k) => a = age[k],
             strategy # "sliding", Held(k) + 1 = m, Held(k) \in Nat
      PROVE  \E b \in BOOLEAN, n \in 0..rate.times, t \in Nat :
               /\ HitResult(k) = Result(b, n, t)
               /\ b = ~Refuses(k)
               /\ ~b => n = 0 /\ t = Left(k)
               /\ n > 0 => Held(k) + n < rate.times
  <2>1. /\ Less(rate.times, m) \in 0..rate.times /\ Window - a \in Nat
        /\ Less(rate.times, m) > 0 => Held(k) + Less(rate.times, m) < rate.times
    BY <1>1, <1>3 DEF Less
  <2>2. CASE m <= rate.times
    <3>1. ByCount(m, Window - a) = Result(TRUE, Less(rate.times, m), Window - a)
      BY <2>2 DEF ByCount
    <3> QED BY <1>3, <2>1, <2>2, <3>1
  <2>3. CASE ~(m <= rate.times)
    <3>1. ByCount(m, Window - a) = Result(FALSE, Less(rate.times, m), Window - a)
      <4>1. (m <= rate.times) = FALSE
        BY <2>3
      <4> QED BY <4>1 DEF ByCount
    <3>2. Less(rate.times, m) = 0
      BY <1>1, <2>3 DEF Less
    <3>3. Window - a = Left(k)
      BY <1>3, <2>3 DEF Left
    <3> QED BY <1>3, <2>1, <2>3, <3>1, <3>2, <3>3
  <2> QED BY <2>2, <2>3
<1>4. CASE strategy = "fixed"
  <2>1. HitResult(k) = ByCount(count[k] + 1, Window - FixedStarts(k))
    BY <1>4 DEF HitResult, FixedResult
  <2>2. FixedStarts(k) \in 0..Window /\ count[k] + 1 \in Nat
    BY <1>1 DEF FixedStarts
  <2>3. count[k] + 1 <= rate.times <=> ~Refuses(k)
    BY <1>1, <1>4 DEF Refuses
  <2>4. Refuses(k) => FixedStarts(k) = age[k]
    BY <1>1, <1>4 DEF Refuses, FixedStarts
  <2>5. Held(k) + 1 = count[k] + 1 /\ Held(k) \in Nat /\ strategy # "sliding"
    BY <1>1, <1>4 DEF Held
  <2> QED BY <1>3, <2>1, <2>2, <2>3, <2>4, <2>5
<1>5. CASE strategy = "memory"
  <2> DEFINE a == IF Fresh(k) THEN 0 ELSE age[k]
  <2>1. HitResult(k) = ByCount(MemoryCount(k), Window - a)
    BY <1>5 DEF HitResult, MemoryResult
  <2>2. a \in 0..Window /\ MemoryCount(k) \in Nat
    BY <1>1 DEF MemoryCount
  <2>3. MemoryCount(k) <= rate.times <=> ~Refuses(k)
    BY <1>1, <1>5 DEF Refuses, MemoryCount, Fresh
  <2>4. Refuses(k) => a = age[k]
    BY <1>1, <1>5 DEF Refuses, Fresh
  <2>5. Held(k) + 1 = MemoryCount(k) /\ Held(k) \in Nat /\ strategy # "sliding"
    BY <1>5, HeldIs
  <2> QED BY <1>3, <2>1, <2>2, <2>3, <2>4, <2>5
<1> QED BY <1>2, <1>4, <1>5 DEF Setting

\* What the answer leaves in the history.
LEMMA RespondIs ==
  ASSUME Setting, HistoryTypes, NEW k \in Keys, Respond(k),
         NEW b \in BOOLEAN, NEW n \in 0..rate.times, NEW t \in Nat,
         HitResult(k) = Result(b, n, t)
  PROVE  /\ credit' = [credit EXCEPT ![k] = n] /\ told' = [told EXCEPT ![k] = ~b]
         /\ guess' = [guess EXCEPT ![k] = FALSE]
         /\ \A j \in Keys \ {k} : retry'[j] = retry[j] /\ reset'[j] = reset[j]
         /\ retry' \in [Keys -> Nat] /\ reset' \in [Keys -> Nat]
         /\ b => retry'[k] = 0 /\ reset'[k] = 0
         /\ ~b /\ ~told[k] => retry'[k] >= t /\ reset'[k] >= t
         /\ ~b /\ told[k] /\ retry[k] > 0 => retry'[k] = retry[k]
         /\ ~b /\ told[k] /\ reset[k] > 0 => reset'[k] = reset[k]
         /\ granted' = [j \in Keys |->
                          IF strategy = "memory" /\ j \in Evicted(k) THEN <<>>
                          ELSE IF j = k /\ b THEN Append(granted[j], 0)
                          ELSE granted[j]]
<1> DEFINE s == Seconds(t) * Second
           u == Less(s, phase) + Second
<1>1. HitResult(k).allowed = b /\ HitResult(k).remaining = n /\ HitResult(k).after = t
  BY FieldsOfResult
<1>2. /\ granted' = [j \in Keys |->
                          IF strategy = "memory" /\ j \in Evicted(k) THEN <<>>
                          ELSE IF j = k /\ b THEN Append(granted[j], 0)
                          ELSE granted[j]]
      /\ credit' = [credit EXCEPT ![k] = n] /\ told' = [told EXCEPT ![k] = ~b]
      /\ guess' = [guess EXCEPT ![k] = FALSE]
      /\ retry' = [retry EXCEPT ![k] = Stands(@, k, b, s)]
      /\ reset' = [reset EXCEPT ![k] = Stands(@, k, b, u)]
  BY <1>1 DEF Respond
<1>3. s \in Nat /\ s >= t
  BY SecondsIs
<1> HIDE DEF s
<1>4. u \in Nat /\ u >= t
  <2>1. Second \in Nat \ {0} /\ phase \in 0..(Second - 1)
    BY Constants DEF Setting
  <2> QED BY <1>3, <2>1 DEF Less
<1> HIDE DEF u
<1>5. /\ retry \in [Keys -> Nat] /\ reset \in [Keys -> Nat]
      /\ retry[k] \in Nat /\ reset[k] \in Nat
  BY DEF HistoryTypes
<1>6. ASSUME NEW left \in Nat, NEW new \in Nat
      PROVE  /\ Stands(left, k, b, new) \in Nat
             /\ b => Stands(left, k, b, new) = 0
             /\ ~b /\ ~told[k] => Stands(left, k, b, new) = new
             /\ ~b /\ told[k] /\ left > 0 => Stands(left, k, b, new) = left
  BY DEF Stands
<1> QED BY <1>2, <1>3, <1>4, <1>5, <1>6

\* Keys that a step leaves alone are answered as before.
LEMMA SameAnswer ==
  ASSUME NEW j \in Keys, rate' = rate, strategy' = strategy,
         count'[j] = count[j], age'[j] = age[j], log'[j] = log[j]
  PROVE  (Refuses(j)' <=> Refuses(j)) /\ Left(j)' = Left(j) /\ Held(j)' = Held(j)
<1>1. Live(j) = Cut(log[j], Window) /\ Live(j)' = Cut(log'[j], Window') /\ Window' = Window
  BY DEF Live, Cut, Window
<1>2. Live(j)' = Live(j)
  BY <1>1
<1>3. Refuses(j)' <=> Refuses(j)
  BY <1>1, <1>2 DEF Refuses
<1>4. Left(j)' = Left(j)
  BY <1>1, <1>2 DEF Left
<1>5. Held(j)' = Held(j)
  BY <1>1, <1>2 DEF Held, Fresh
<1> QED BY <1>3, <1>4, <1>5

LEMMA FixedHitIs ==
  ASSUME Setting, StoreTypes, NEW k \in Keys, strategy = "fixed", FixedHit(k),
         rate' = rate, strategy' = strategy
  PROVE  /\ StoreTypes'
         /\ \A j \in Keys \ {k} :
              count'[j] = count[j] /\ age'[j] = age[j] /\ log'[j] = log[j]
         /\ Held(k)' \in 0..(Held(k) + 1)
         /\ Refuses(k) => Left(k)' = Left(k)
<1>1. /\ rate.times \in Nat \ {0} /\ Window \in Nat \ {0} /\ Window' = Window
      /\ count \in [Keys -> 0..(rate.times + 1)] /\ age \in [Keys -> 0..Window]
      /\ count[k] \in 0..(rate.times + 1) /\ age[k] \in 0..Window
  BY DEF Setting, StoreTypes, Window
<1>2. /\ Counted(count[k] + 1) = Least(count[k] + 1, rate.times + 1)
      /\ Counted(count[k] + 1) \in 0..(rate.times + 1) /\ FixedStarts(k) \in 0..Window
  BY <1>1 DEF Counted, Least, FixedStarts
<1>3. /\ count' = [count EXCEPT ![k] = Counted(count[k] + 1)]
      /\ age' = [age EXCEPT ![k] = FixedStarts(k)] /\ log' = log /\ lru' = lru
  BY DEF FixedHit
<1>4. StoreTypes'
  <2>1. count' \in [Keys -> 0..(rate.times + 1)] /\ age' \in [Keys -> 0..Window]
    BY <1>1, <1>2, <1>3
  <2> QED BY <1>1, <1>3, <2>1 DEF StoreTypes
<1>5. \A j \in Keys \ {k} :
        count'[j] = count[j] /\ age'[j] = age[j] /\ log'[j] = log[j]
  BY <1>1, <1>3
<1>6. count'[k] = Counted(count[k] + 1) /\ age'[k] = FixedStarts(k)
  BY <1>1, <1>3
<1>7. Held(k)' \in 0..(Held(k) + 1)
  BY <1>1, <1>2, <1>6 DEF Held, Least
<1>8. Refuses(k) => Left(k)' = Left(k)
  BY <1>1, <1>6 DEF Refuses, Left, FixedStarts
<1> QED BY <1>4, <1>5, <1>7, <1>8

LEMMA SlidingHitIs ==
  ASSUME Setting, StoreTypes, NEW k \in Keys, strategy = "sliding", SlidingHit(k),
         rate' = rate, strategy' = strategy
  PROVE  /\ StoreTypes'
         /\ \A j \in Keys \ {k} :
              count'[j] = count[j] /\ age'[j] = age[j] /\ log'[j] = log[j]
         /\ Held(k)' \in 0..(Held(k) + 1)
         /\ Refuses(k) => Left(k)' = Left(k)
<1>1. /\ rate.times \in Nat \ {0} /\ Window \in Nat \ {0} /\ Window' = Window
      /\ age \in [Keys -> 0..Window] /\ log \in [Keys -> Seq(Nat)]
  BY DEF Setting, StoreTypes, Window
<1> DEFINE l == Live(k)
           m == IF Len(l) < rate.times THEN Append(l, 0) ELSE l
<1>2. /\ l \in Seq(Nat) /\ Sorted(l) /\ Len(l) \in Nat /\ Len(l) <= rate.times
      /\ \A i \in 1..Len(l) : l[i] \in Nat /\ l[i] < Window
  BY LiveIs
<1>3. /\ log' = [log EXCEPT ![k] = m] /\ age' = [age EXCEPT ![k] = 0]
      /\ count' = count /\ lru' = lru
  BY DEF SlidingHit
<1> HIDE DEF l
<1>4. /\ m \in Seq(Nat) /\ Sorted(m) /\ Len(m) \in Nat /\ Len(m) <= rate.times
      /\ \A i \in 1..Len(m) : m[i] \in Nat /\ m[i] < Window
      /\ Len(m) = IF Len(l) < rate.times THEN Len(l) + 1 ELSE Len(l)
  <2>1. /\ Append(l, 0) \in Seq(Nat) /\ Sorted(Append(l, 0))
        /\ Len(Append(l, 0)) = Len(l) + 1
        /\ \A i \in 1..Len(l) : Append(l, 0)[i] = l[i]
        /\ Append(l, 0)[Len(l) + 1] = 0
    BY <1>2, AppendSorted
  <2>2. CASE Len(l) < rate.times
    <3>1. ASSUME NEW i \in 1..(Len(l) + 1)
          PROVE  Append(l, 0)[i] \in Nat /\ Append(l, 0)[i] < Window
      <4>1. CASE i = Len(l) + 1
        BY <1>1, <2>1, <4>1
      <4>2. CASE i # Len(l) + 1
        <5>1. i \in 1..Len(l)
          BY <1>2, <4>2
        <5> QED BY <1>2, <2>1, <5>1
      <4> QED BY <4>1, <4>2
    <3> QED BY <1>1, <1>2, <2>1, <2>2, <3>1
  <2>3. CASE ~(Len(l) < rate.times)
    BY <1>2, <2>3
  <2> QED BY <2>2, <2>3
<1> HIDE DEF m
<1>5. log'[k] = m /\ age'[k] = 0
  BY <1>1, <1>3
<1>6. \A j \in Keys \ {k} :
        count'[j] = count[j] /\ age'[j] = age[j] /\ log'[j] = log[j]
  BY <1>1, <1>3
<1>7. StoreTypes'
  <2>1. log' \in [Keys -> Seq(Nat)] /\ age' \in [Keys -> 0..Window]
    <3>1. 0 \in 0..Window
      BY <1>1
    <3> QED BY <1>1, <1>3, <1>4, <3>1
  <2>2. ASSUME NEW j \in Keys
        PROVE  /\ Len(log'[j]) <= rate.times /\ Sorted(log'[j])
               /\ \A i \in 1..Len(log'[j]) : log'[j][i] <= Window
    <3>1. CASE j = k
      <4>1. \A i \in 1..Len(m) : m[i] <= Window
        BY <1>1, <1>4
      <4> QED BY <1>4, <1>5, <3>1, <4>1
    <3>2. CASE j # k
      BY <1>6, <3>2 DEF StoreTypes
    <3> QED BY <3>1, <3>2
  <2>3. count' \in [Keys -> 0..(rate'.times + 1)]
    BY <1>3 DEF StoreTypes
  <2>4. lru' \in Seq(Keys) /\ Len(lru') <= MaxKeys
    BY <1>3 DEF StoreTypes
  <2>5. \A j \in Keys : Sorted(log[j])' <=> Sorted(log'[j])
    BY DEF Sorted
  <2> QED BY <1>1, <2>1, <2>2, <2>3, <2>4, <2>5 DEF StoreTypes
<1>8. /\ Live(k)' = Cut(m, Window) /\ Len(Cut(m, Window)) = Len(m)
      /\ \A i \in 1..Len(m) : Cut(m, Window)[i] = m[i]
  <2>1. Live(k)' = Cut(log'[k], Window')
    BY DEF Live, Cut, Window
  <2>2. Window \in Nat /\ \A i \in 1..Len(m) : m[i] < Window
    BY <1>1, <1>4
  <2> QED BY <1>1, <1>4, <1>5, <2>1, <2>2, CutNothing
<1>9. Held(k)' \in 0..(Held(k) + 1)
  BY <1>1, <1>2, <1>4, <1>8 DEF Held, l
<1>10. ASSUME Refuses(k) PROVE Left(k)' = Left(k)
  <2>1. ~(Len(l) < rate.times)
    BY <1>1, <1>2, <1>10 DEF Refuses, l
  <2>2. m = l /\ 1 \in 1..Len(l)
    BY <1>1, <1>2, <2>1 DEF m
  <2>3. Live(k)'[1] = l[1]
    BY <1>8, <2>2
  <2> QED BY <1>1, <2>3 DEF Left, l
<1> QED BY <1>6, <1>7, <1>9, <1>10

LEMMA MemoryHitIs ==
  ASSUME Setting, StoreTypes, NEW k \in Keys, strategy = "memory", MemoryHit(k),
         rate' = rate, strategy' = strategy
  PROVE  /\ StoreTypes' /\ k \notin Evicted(k)
         /\ \A j \in Keys \ {k} :
              /\ log'[j] = log[j]
              /\ j \in Evicted(k) => count'[j] = 0 /\ age'[j] = 0
              /\ j \notin Evicted(k) => count'[j] = count[j] /\ age'[j] = age[j]
         /\ count'[k] = Counted(MemoryCount(k))
         /\ age'[k] = IF Fresh(k) THEN 0 ELSE age[k]
         /\ Held(k)' \in 0..(Held(k) + 1)
         /\ Refuses(k) => Left(k)' = Left(k)
<1>1. /\ rate.times \in Nat \ {0} /\ Window \in Nat \ {0} /\ Window' = Window
      /\ count \in [Keys -> 0..(rate.times + 1)] /\ age \in [Keys -> 0..Window]
      /\ count[k] \in 0..(rate.times + 1) /\ age[k] \in 0..Window
  BY DEF Setting, StoreTypes, Window
<1> DEFINE R == Recent(k)
<1>2. /\ R \in Seq(Keys) /\ Len(R) <= MaxKeys /\ DOMAIN R = 1..Len(R)
      /\ \E i \in 1..Len(R) : R[i] = k
      /\ \A i \in 1..Len(R) : R[i] = k \/ \E j \in 1..Len(lru) : lru[j] = R[i]
  <2>1. lru \in Seq(Keys)
    BY DEF StoreTypes
  <2>2. R \in Seq(Keys)
    BY <2>1, RecentIs
  <2> QED BY <2>1, <2>2, RecentIs, LenProperties
<1> HIDE DEF R
<1>3. Evicted(k) = {j \in Keys : (\E i \in 1..Len(lru) : lru[i] = j)
                                 /\ ~ \E i \in 1..Len(R) : R[i] = j}
  <2>1. DOMAIN lru = 1..Len(lru)
    BY LenProperties DEF StoreTypes
  <2> QED BY <1>2, <2>1 DEF Evicted, R
<1>4. k \notin Evicted(k)
  BY <1>2, <1>3
<1>5. /\ lru' = R /\ log' = log
      /\ count' = [j \in Keys |-> IF j = k THEN Counted(MemoryCount(k))
                                  ELSE IF j \in Evicted(k) THEN 0 ELSE count[j]]
      /\ age' = [j \in Keys |-> IF j = k THEN IF Fresh(k) THEN 0 ELSE age[k]
                                ELSE IF j \in Evicted(k) THEN 0 ELSE age[j]]
  BY DEF MemoryHit, R
<1>6. /\ MemoryCount(k) \in Nat \ {0}
      /\ Counted(MemoryCount(k)) = Least(MemoryCount(k), rate.times + 1)
      /\ Counted(MemoryCount(k)) \in 0..(rate.times + 1)
      /\ Counted(MemoryCount(k)) > 0
  BY <1>1 DEF Counted, Least, MemoryCount
<1>7. count' \in [Keys -> 0..(rate.times + 1)] /\ age' \in [Keys -> 0..Window]
  <2>1. 0 \in 0..Window /\ 0 \in 0..(rate.times + 1)
    BY <1>1
  <2> QED BY <1>1, <1>5, <1>6, <2>1
<1>8. ASSUME NEW j \in Keys
      PROVE  count'[j] > 0 <=> \E i \in 1..Len(lru') : lru'[i] = j
  <2>1. count[j] > 0 <=> \E i \in 1..Len(lru) : lru[i] = j
    BY DEF StoreTypes
  <2>2. count[j] \in Nat
    BY <1>1
  <2>3. CASE j = k
    BY <1>2, <1>5, <1>6, <2>3
  <2>4. CASE j # k /\ j \in Evicted(k)
    <3>1. count'[j] = 0 /\ ~ \E i \in 1..Len(R) : R[i] = j
      BY <1>3, <1>5, <2>4
    <3> QED BY <1>5, <3>1
  <2>5. CASE j # k /\ j \notin Evicted(k)
    <3>1. count'[j] = count[j]
      BY <1>5, <2>5
    <3>2. (\E i \in 1..Len(lru) : lru[i] = j) => \E i \in 1..Len(R) : R[i] = j
      BY <1>3, <2>5
    <3>3. (\E i \in 1..Len(R) : R[i] = j) => \E i \in 1..Len(lru) : lru[i] = j
      BY <1>2, <2>5
    <3> QED BY <1>5, <2>1, <3>1, <3>2, <3>3
  <2> QED BY <2>3, <2>4, <2>5
<1>9. StoreTypes'
  <2>1. /\ log' \in [Keys -> Seq(Nat)]
        /\ \A j \in Keys : /\ Len(log'[j]) <= rate'.times /\ Sorted(log[j])'
                           /\ \A i \in 1..Len(log'[j]) : log'[j][i] <= Window'
    BY <1>1, <1>5 DEF StoreTypes, Sorted
  <2>2. lru' \in Seq(Keys) /\ Len(lru') <= MaxKeys
    BY <1>2, <1>5
  <2> QED BY <1>1, <1>7, <1>8, <2>1, <2>2 DEF StoreTypes
<1>10. Held(k)' \in 0..(Held(k) + 1)
  <2>1. MemoryCount(k) = Held(k) + 1 /\ Held(k) \in Nat
    BY HeldIs
  <2>2. count'[k] \in Nat /\ count'[k] <= MemoryCount(k)
    BY <1>1, <1>5, <1>6 DEF Least
  <2>3. Held(k)' = 0 \/ Held(k)' = count'[k]
    BY DEF Held
  <2> QED BY <2>1, <2>2, <2>3
<1>11. Refuses(k) => Left(k)' = Left(k)
  BY <1>1, <1>5 DEF Refuses, Left, Fresh
<1> QED BY <1>4, <1>5, <1>9, <1>10, <1>11

-----------------------------------------------------------------------------
(* What a hit leaves of the accounts. *)

LEMMA BalanceIs ==
  ASSUME NEW g \in Seq(Nat), NEW c \in Nat, NEW a \in Nat, NEW t \in Nat,
         Balances(g, c, a, t)
  PROVE  /\ Len(g) <= t + Least(c, t)
         /\ \A n \in Nat : Least(c, t) <= Least(n, t) => Balances(g, n, a, t)
         /\ c < t => Balances(Append(g, 0), c + 1, a, t)
<1>0. Len(g) \in Nat /\ \A i \in 1..Len(g) : g[i] \in Nat
  BY ElementOfSeq, LenProperties
<1>1. Least(c, t) \in Nat
  BY LeastIs
<1>2. /\ Len(g) - Least(c, t) <= t
      /\ \A i \in 1..(Len(g) - Least(c, t)) : g[i] >= a
  BY DEF Balances
<1>3. ASSUME NEW n \in Nat, Least(c, t) <= Least(n, t)
      PROVE  Balances(g, n, a, t)
  <2>1. Least(n, t) \in Nat
    BY LeastIs
  <2>2. /\ Len(g) - Least(n, t) <= t
        /\ \A i \in 1..(Len(g) - Least(n, t)) : i \in 1..(Len(g) - Least(c, t))
    BY <1>0, <1>1, <1>2, <1>3, <2>1
  <2> QED BY <1>2, <2>2 DEF Balances
<1>4. ASSUME c < t PROVE Balances(Append(g, 0), c + 1, a, t)
  <2>1. Least(c, t) = c /\ Least(c + 1, t) = c + 1
    BY <1>4 DEF Least
  <2>2. /\ Len(Append(g, 0)) = Len(g) + 1
        /\ \A i \in 1..Len(g) : Append(g, 0)[i] = g[i]
    BY AppendProperties
  <2>3. Len(Append(g, 0)) - (c + 1) = Len(g) - c
    BY <1>0, <2>2
  <2>4. \A i \in 1..(Len(g) - c) : i \in 1..Len(g)
    BY <1>0
  <2> QED BY <1>2, <2>1, <2>2, <2>3, <2>4 DEF Balances
<1> QED BY <1>0, <1>1, <1>2, <1>3, <1>4

\* A counter that starts again does not know of the grants before.
LEMMA BalanceAnew ==
  ASSUME NEW g \in Seq(Nat), NEW t \in Nat \ {0}, Len(g) <= t, NEW c \in Nat
  PROVE  /\ Balances(g, c, 0, t)
         /\ Balances(Append(g, 0), 1, 0, t)
<1>0. Len(g) \in Nat /\ \A i \in 1..Len(g) : g[i] \in Nat
  BY ElementOfSeq, LenProperties
<1>1. Balances(g, c, 0, t)
  <2>1. Least(c, t) \in Nat
    BY LeastIs
  <2>2. /\ Len(g) - Least(c, t) <= t
        /\ \A i \in 1..(Len(g) - Least(c, t)) : i \in 1..Len(g)
    BY <1>0, <2>1
  <2> QED BY <1>0, <2>2 DEF Balances
<1>2. Balances(Append(g, 0), 1, 0, t)
  <2>1. Least(1, t) = 1
    BY DEF Least
  <2>2. /\ Len(Append(g, 0)) = Len(g) + 1
        /\ \A i \in 1..Len(g) : Append(g, 0)[i] = g[i]
    BY AppendProperties
  <2>3. Len(Append(g, 0)) - 1 = Len(g)
    BY <1>0, <2>2
  <2> QED BY <1>0, <2>1, <2>2, <2>3 DEF Balances
<1> QED BY <1>1, <1>2

\* Once its window is over, the grants before are.
LEMMA BalanceOver ==
  ASSUME NEW g \in Seq(Nat), NEW c \in Nat, NEW a \in Nat, NEW t \in Nat,
         NEW w \in Nat, Balances(g, c, a, t), \A i \in 1..Len(g) : g[i] < w,
         c = 0 \/ a >= w
  PROVE  Len(g) <= t
<1>0. Len(g) \in Nat /\ \A i \in 1..Len(g) : g[i] \in Nat
  BY ElementOfSeq, LenProperties
<1>1. Least(c, t) \in Nat /\ Least(c, t) <= t /\ (c = 0 => Least(c, t) = 0)
  BY DEF Least
<1>2. /\ Len(g) - Least(c, t) <= t
      /\ \A i \in 1..(Len(g) - Least(c, t)) : g[i] >= a
  BY DEF Balances
<1>3. CASE c = 0
  BY <1>0, <1>1, <1>2, <1>3
<1>4. CASE a >= w
  <2> SUFFICES ASSUME t < Len(g) PROVE FALSE
    BY <1>0
  <2>1. 1 \in 1..(Len(g) - Least(c, t)) /\ 1 \in 1..Len(g)
    BY <1>0, <1>1
  <2>2. g[1] >= a /\ g[1] < w /\ g[1] \in Nat
    BY <1>0, <1>2, <2>1
  <2> QED BY <1>4, <2>2
<1> QED BY <1>3, <1>4

\* The store takes account of a hit on k, and of its grant if it is let through.
LEMMA HitAccounts ==
  ASSUME Setting, StoreTypes, HistoryTypes, NEW k \in Keys, Accounted(k),
         StoreHit(k), rate' = rate, strategy' = strategy,
         \/ granted'[k] = granted[k]
         \/ ~Refuses(k) /\ granted'[k] = Append(granted[k], 0)
  PROVE  Accounted(k)'
<1> DEFINE g == granted[k]
           T == rate.times
<1>1. /\ T \in Nat \ {0} /\ Window \in Nat \ {0} /\ Window' = Window
      /\ count[k] \in 0..(T + 1) /\ age[k] \in 0..Window
      /\ count \in [Keys -> 0..(T + 1)] /\ age \in [Keys -> 0..Window]
      /\ log \in [Keys -> Seq(Nat)]
  BY DEF Setting, StoreTypes, Window
<1>2. /\ g \in Seq(Nat) /\ Sorted(g) /\ \A i \in 1..Len(g) : g[i] < Window
  BY DEF HistoryTypes
<1>b. count[k] \in Nat /\ age[k] \in Nat /\ T \in Nat /\ Window \in Nat
  BY <1>1
<1>a. granted'[k] = g \/ granted'[k] = Append(g, 0)
  OBVIOUS
<1> HIDE DEF g, T
<1>3. ASSUME strategy # "sliding",
             NEW n \in Nat, NEW a \in Nat, count'[k] = n, age'[k] = a,
             Balances(granted'[k], n, a, T),
             strategy = "fixed" => a < Window
      PROVE  Accounted(k)'
  BY <1>1, <1>3 DEF Accounted, T
<1>4. CASE strategy = "fixed"
  <2>1. /\ count'[k] = Counted(count[k] + 1) /\ age'[k] = FixedStarts(k)
    <3>1. FixedHit(k)
      BY <1>4 DEF StoreHit
    <3> QED BY <1>1, <3>1 DEF FixedHit
  <2>2. Balances(g, count[k], age[k], T) /\ (count[k] > 0 => age[k] < Window)
    BY <1>4 DEF Accounted, g, T
  <2>3. CASE count[k] = 0
    <3>1. count'[k] = 1 /\ age'[k] = 0
      BY <1>1, <2>1, <2>3 DEF Counted, Least, FixedStarts, T
    <3>2. Len(g) <= T
      BY <1>b, <1>2, <2>2, <2>3, BalanceOver
    <3>3. Balances(g, 1, 0, T) /\ Balances(Append(g, 0), 1, 0, T)
      BY <1>1, <1>2, <3>2, BalanceAnew
    <3>5. Balances(granted'[k], 1, 0, T)
      BY <1>a, <3>3
    <3> QED BY <1>1, <1>3, <1>4, <3>1, <3>5
  <2>4. CASE count[k] # 0
    <3>1. age'[k] = age[k] /\ age[k] < Window
      BY <1>1, <2>1, <2>2, <2>4 DEF FixedStarts
    <3>2. Refuses(k) <=> count[k] >= T
      BY <1>4 DEF Refuses, T
    <3>3. CASE count[k] >= T
      <4>1. /\ Counted(count[k] + 1) = T + 1 /\ T + 1 \in Nat
            /\ Least(count[k], T) <= Least(T + 1, T)
        BY <1>1, <3>3 DEF Counted, Least, T
      <4>2. Balances(g, T + 1, age[k], T)
        BY <1>1, <1>2, <2>2, <4>1, BalanceIs
      <4> QED BY <1>1, <1>3, <1>4, <2>1, <3>1, <3>2, <3>3, <4>1, <4>2 DEF g
    <3>4. CASE count[k] < T
      <4>1. /\ Counted(count[k] + 1) = count[k] + 1 /\ count[k] + 1 \in Nat
            /\ Least(count[k], T) <= Least(count[k] + 1, T)
        BY <1>1, <3>4 DEF Counted, Least, T
      <4>2. /\ Balances(g, count[k] + 1, age[k], T)
            /\ Balances(Append(g, 0), count[k] + 1, age[k], T)
        BY <1>1, <1>2, <2>2, <3>4, <4>1, BalanceIs
      <4>3. Balances(granted'[k], count[k] + 1, age[k], T)
        BY <1>a, <4>2
      <4> QED BY <1>1, <1>3, <1>4, <2>1, <3>1, <4>1, <4>3
    <3> QED BY <1>1, <3>3, <3>4
  <2> QED BY <2>3, <2>4
<1>5. CASE strategy = "memory"
  <2>1. /\ count'[k] = Counted(MemoryCount(k))
        /\ age'[k] = IF Fresh(k) THEN 0 ELSE age[k]
    <3>1. MemoryHit(k)
      BY <1>5 DEF StoreHit
    <3> QED BY <1>5, <3>1, MemoryHitIs
  <2>2. Balances(g, count[k], age[k], T)
    BY <1>5 DEF Accounted, g, T
  <2>3. CASE Fresh(k)
    <3>1. count'[k] = 1 /\ age'[k] = 0
      BY <1>1, <2>1, <2>3 DEF Counted, Least, MemoryCount, T
    <3>2. count[k] = 0 \/ age[k] >= Window
      BY <2>3 DEF Fresh
    <3>3. Len(g) <= T
      BY <1>b, <1>2, <2>2, <3>2, BalanceOver
    <3>4. Balances(g, 1, 0, T) /\ Balances(Append(g, 0), 1, 0, T)
      BY <1>1, <1>2, <3>3, BalanceAnew
    <3>5. Balances(granted'[k], 1, 0, T)
      BY <1>a, <3>4
    <3> QED BY <1>1, <1>3, <1>5, <3>1, <3>5
  <2>4. CASE ~Fresh(k)
    <3>1. age'[k] = age[k] /\ age[k] < Window
      BY <1>1, <2>1, <2>4 DEF Fresh
    <3>2. Refuses(k) <=> count[k] >= T
      BY <1>5, <3>1 DEF Refuses, T
    <3>3. CASE count[k] >= T
      <4>1. /\ Counted(MemoryCount(k)) = T + 1 /\ T + 1 \in Nat
            /\ Least(count[k], T) <= Least(T + 1, T)
        BY <1>1, <2>4, <3>3 DEF Counted, Least, MemoryCount, T
      <4>2. Balances(g, T + 1, age[k], T)
        BY <1>1, <1>2, <2>2, <4>1, BalanceIs
      <4> QED BY <1>1, <1>3, <1>5, <2>1, <3>1, <3>2, <3>3, <4>1, <4>2 DEF g
    <3>4. CASE count[k] < T
      <4>1. /\ Counted(MemoryCount(k)) = count[k] + 1 /\ count[k] + 1 \in Nat
            /\ Least(count[k], T) <= Least(count[k] + 1, T)
        BY <1>1, <2>4, <3>4 DEF Counted, Least, MemoryCount, T
      <4>2. /\ Balances(g, count[k] + 1, age[k], T)
            /\ Balances(Append(g, 0), count[k] + 1, age[k], T)
        BY <1>1, <1>2, <2>2, <3>4, <4>1, BalanceIs
      <4>3. Balances(granted'[k], count[k] + 1, age[k], T)
        BY <1>a, <4>2
      <4> QED BY <1>1, <1>3, <1>5, <2>1, <3>1, <4>1, <4>3
    <3> QED BY <1>1, <3>3, <3>4
  <2> QED BY <2>3, <2>4
<1>6. CASE strategy = "sliding"
  <2> DEFINE l == Live(k)
             m == IF Len(l) < rate.times THEN Append(l, 0) ELSE l
  <2>1. log'[k] = m /\ age'[k] = 0
    <3>1. SlidingHit(k)
      BY <1>6 DEF StoreHit
    <3> QED BY <1>1, <3>1 DEF SlidingHit
  <2>2. /\ l = Cut(log[k], Window) /\ l \in Seq(Nat) /\ Sorted(l) /\ Len(l) \in Nat
    BY LiveIs
  <2>3. Covers(l, g)
    <3>1. Covers(log[k], g) /\ log[k] \in Seq(Nat) /\ Sorted(log[k])
      BY <1>6 DEF Accounted, Records, StoreTypes, g
    <3> QED BY <1>1, <1>2, <2>2, <3>1, CoversCut
  <2>4. Refuses(k) <=> ~(Len(l) < rate.times)
    BY <1>1, <1>6, <2>2 DEF Refuses, T
  <2> HIDE DEF l
  <2>5. Covers(m, granted'[k]) /\ m \in Seq(Nat)
    <3>1. Covers(Append(l, 0), g) /\ Covers(Append(l, 0), Append(g, 0))
      BY <1>2, <2>2, <2>3, CoversAppend
    <3>2. Append(l, 0) \in Seq(Nat)
      BY <2>2, AppendSorted
    <3> QED BY <2>2, <2>3, <2>4, <3>1, <3>2 DEF g
  <2> HIDE DEF m
  <2>6. \A i \in 1..Len(m) : m[i] >= 0
    <3>1. \A i \in 1..Len(m) : m[i] \in Nat
      BY <2>5, ElementOfSeq
    <3> QED BY <3>1
  <2> QED BY <1>6, <2>1, <2>5, <2>6 DEF Accounted, Records, Covers
<1> QED BY <1>4, <1>5, <1>6 DEF Setting

\* A closed limit opens, in a whole number of ticks.
LEMMA LeftIs ==
  ASSUME Setting, StoreTypes, NEW k \in Keys, Accounted(k), Refuses(k)
  PROVE  Left(k) \in Nat /\ Left(k) > 0
<1>1. /\ rate.times \in Nat \ {0} /\ Window \in Nat \ {0} /\ age[k] \in 0..Window
      /\ count[k] \in 0..(rate.times + 1)
  BY DEF Setting, StoreTypes, Window
<1>2. CASE strategy = "sliding"
  <2>1. /\ Len(Live(k)) \in Nat
        /\ \A i \in 1..Len(Live(k)) : Live(k)[i] \in Nat /\ Live(k)[i] < Window
    BY LiveIs
  <2>2. 1 \in 1..Len(Live(k))
    BY <1>1, <1>2, <2>1 DEF Refuses
  <2> QED BY <1>1, <1>2, <2>1, <2>2 DEF Left
<1>3. CASE strategy = "fixed"
  BY <1>1, <1>3 DEF Refuses, Left, Accounted
<1>4. CASE strategy = "memory"
  BY <1>1, <1>4 DEF Refuses, Left
<1> QED BY <1>2, <1>3, <1>4 DEF Setting

LEMMA EmptyIs ==
  /\ <<>> \in Seq(Nat) /\ Len(<<>>) = 0 /\ Sorted(<<>>) /\ Covers(<<>>, <<>>)
  /\ \A c, a, t \in Nat : Balances(<<>>, c, a, t)
  /\ \A i : i \notin 1..Len(<<>>)
<1>1. <<>> \in Seq(Nat) /\ Len(<<>>) = 0
  BY EmptySeq
<1>2. Sorted(<<>>) /\ Covers(<<>>, <<>>)
  BY <1>1 DEF Sorted, Covers
<1>3. ASSUME NEW c \in Nat, NEW a \in Nat, NEW t \in Nat PROVE Balances(<<>>, c, a, t)
  <2>1. Least(c, t) \in Nat
    BY LeastIs
  <2> QED BY <1>1, <2>1 DEF Balances
<1>4. \A i : i \notin 1..Len(<<>>)
  BY <1>1
<1> QED BY <1>1, <1>2, <1>3, <1>4

LEMMA StoreHitIs ==
  ASSUME Setting, StoreTypes, NEW k \in Keys, StoreHit(k),
         rate' = rate, strategy' = strategy
  PROVE  /\ StoreTypes'
         /\ Held(k)' \in 0..(Held(k) + 1)
         /\ Refuses(k) => Left(k)' = Left(k)
         /\ \A j \in Keys \ {k} :
              /\ Refuses(j)' => Refuses(j) /\ Left(j)' = Left(j)
              /\ Held(j)' \in 0..Held(j)
<1>0. \A j \in Keys : Held(j) \in Nat
  BY HeldIs
<1>1. CASE strategy = "fixed"
  <2>1. FixedHit(k)
    BY <1>1 DEF StoreHit
  <2>2. \A j \in Keys \ {k} :
          count'[j] = count[j] /\ age'[j] = age[j] /\ log'[j] = log[j]
    BY <1>1, <2>1, FixedHitIs
  <2>3. \A j \in Keys \ {k} : /\ (Refuses(j)' <=> Refuses(j)) /\ Left(j)' = Left(j)
                            /\ Held(j)' \in 0..Held(j)
    BY <1>0, <2>2, SameAnswer
  <2> QED BY <1>1, <2>1, <2>3, FixedHitIs
<1>2. CASE strategy = "sliding"
  <2>1. SlidingHit(k)
    BY <1>2 DEF StoreHit
  <2>2. \A j \in Keys \ {k} :
          count'[j] = count[j] /\ age'[j] = age[j] /\ log'[j] = log[j]
    BY <1>2, <2>1, SlidingHitIs
  <2>3. \A j \in Keys \ {k} : /\ (Refuses(j)' <=> Refuses(j)) /\ Left(j)' = Left(j)
                            /\ Held(j)' \in 0..Held(j)
    BY <1>0, <2>2, SameAnswer
  <2> QED BY <1>2, <2>1, <2>3, SlidingHitIs
<1>3. CASE strategy = "memory"
  <2>1. MemoryHit(k)
    BY <1>3 DEF StoreHit
  <2>2. \A j \in Keys \ {k} :
          /\ log'[j] = log[j]
          /\ j \in Evicted(k) => count'[j] = 0 /\ age'[j] = 0
          /\ j \notin Evicted(k) => count'[j] = count[j] /\ age'[j] = age[j]
    BY <1>3, <2>1, MemoryHitIs
  <2>3. ASSUME NEW j \in Keys \ {k}
        PROVE  /\ Refuses(j)' => Refuses(j) /\ Left(j)' = Left(j)
               /\ Held(j)' \in 0..Held(j)
    <3>1. CASE j \in Evicted(k)
      <4>1. count'[j] = 0 /\ rate'.times \in Nat \ {0} /\ strategy' = "memory"
        BY <1>3, <2>2, <3>1 DEF Setting
      <4>2. Held(j)' = 0
        BY <4>1 DEF Held
      <4> QED BY <1>0, <4>1, <4>2 DEF Refuses
    <3>2. CASE j \notin Evicted(k)
      <4>1. count'[j] = count[j] /\ age'[j] = age[j] /\ log'[j] = log[j]
        BY <2>2, <3>2
      <4> QED BY <1>0, <4>1, SameAnswer
    <3> QED BY <3>1, <3>2
  <2> QED BY <1>3, <2>1, <2>3, MemoryHitIs
<1> QED BY <1>1, <1>2, <1>3 DEF Setting

\* The other keys' accounts are kept, or given up with their grants.
LEMMA OtherAccounts ==
  ASSUME Setting, StoreTypes, NEW k \in Keys, StoreHit(k),
         rate' = rate, strategy' = strategy, NEW j \in Keys \ {k}, Accounted(j),
         granted'[j] = IF strategy = "memory" /\ j \in Evicted(k) THEN <<>>
                       ELSE granted[j]
  PROVE  Accounted(j)'
<1>1. CASE strategy = "memory" /\ j \in Evicted(k)
  <2>1. MemoryHit(k)
    BY <1>1 DEF StoreHit
  <2>2. count'[j] = 0 /\ age'[j] = 0 /\ granted'[j] = <<>>
    BY <1>1, <2>1, MemoryHitIs
  <2>3. Balances(<<>>, 0, 0, rate.times)
    BY EmptyIs DEF Setting
  <2> QED BY <1>1, <2>2, <2>3 DEF Accounted
<1>2. CASE ~(strategy = "memory" /\ j \in Evicted(k))
  <2>1. count'[j] = count[j] /\ age'[j] = age[j] /\ log'[j] = log[j]
    <3>1. CASE strategy = "fixed"
      BY <3>1, FixedHitIs DEF StoreHit
    <3>2. CASE strategy = "sliding"
      BY <3>2, SlidingHitIs DEF StoreHit
    <3>3. CASE strategy = "memory"
      BY <1>2, <3>3, MemoryHitIs DEF StoreHit
    <3> QED BY <3>1, <3>2, <3>3 DEF Setting
  <2>2. granted'[j] = granted[j]
    BY <1>2
  <2> QED BY <2>1, <2>2 DEF Accounted, Records, Covers, Balances, Window
<1> QED BY <1>1, <1>2

LEMMA InitAInv == Init => AInv
<1> SUFFICES ASSUME Init PROVE AInv
  OBVIOUS
<1>1. Setting
  <2>1. rate.times \in Nat \ {0} /\ rate.ticks \in Nat \ {0}
    BY ParsedRates DEF Init
  <2> QED BY <2>1, Constants DEF Init, Setting
<1>2. \A k \in Keys : /\ count[k] = 0 /\ age[k] = 0 /\ log[k] = <<>>
                      /\ granted[k] = <<>> /\ credit[k] = 0 /\ told[k] = FALSE
                      /\ guess[k] = FALSE
  BY DEF Init, All
<1>3. rate.times \in Nat \ {0} /\ Window \in Nat \ {0} /\ MaxKeys \in Nat \ {0}
  BY <1>1, Constants DEF Setting, Window
<1>4. StoreTypes
  <2>1. count \in [Keys -> 0..(rate.times + 1)] /\ age \in [Keys -> 0..Window]
    BY <1>3 DEF Init, All
  <2>2. log \in [Keys -> Seq(Nat)]
    BY EmptyIs DEF Init, All
  <2>3. \A k \in Keys : /\ Len(log[k]) <= rate.times /\ Sorted(log[k])
                        /\ \A i \in 1..Len(log[k]) : log[k][i] <= Window
    <3>1. 0 <= rate.times
      BY <1>3
    <3> QED BY <1>2, <3>1, EmptyIs
  <2>4. lru \in Seq(Keys) /\ Len(lru) = 0
    BY EmptySeq DEF Init
  <2>5. \A k \in Keys : count[k] > 0 <=> \E i \in 1..Len(lru) : lru[i] = k
    <3>1. ~(0 > 0) /\ \A i : i \notin 1..Len(lru)
      BY <2>4
    <3> QED BY <1>2, <3>1
  <2> QED BY <1>3, <2>1, <2>2, <2>3, <2>4, <2>5 DEF StoreTypes
<1>5. HistoryTypes
  <2>1. granted \in [Keys -> Seq(Nat)]
    BY EmptyIs DEF Init, All
  <2>2. \A k \in Keys : /\ Sorted(granted[k])
                        /\ \A i \in 1..Len(granted[k]) : granted[k][i] < Window
    BY <1>2, EmptyIs
  <2>3. credit \in [Keys -> 0..rate.times]
    BY <1>3 DEF Init, All
  <2>4. retry \in [Keys -> Nat] /\ reset \in [Keys -> Nat]
    BY DEF Init, All
  <2>5. guess \in [Keys -> BOOLEAN] /\ told \in [Keys -> BOOLEAN]
    BY DEF Init, All
  <2> QED BY <2>1, <2>2, <2>3, <2>4, <2>5 DEF HistoryTypes
<1>6. ASSUME NEW k \in Keys PROVE Accounted(k) /\ Promised(k) /\ Warned(k)
  <2>1. Records(<<>>, <<>>, 0) /\ Balances(<<>>, 0, 0, rate.times)
    BY <1>3, EmptyIs DEF Records
  <2> QED BY <1>2, <2>1 DEF Accounted, Promised, Warned
<1> QED BY <1>1, <1>4, <1>5, <1>6 DEF AInv

LEMMA GrantTypes ==
  ASSUME Setting, HistoryTypes, NEW k \in Keys
  PROVE  /\ Append(granted[k], 0) \in Seq(Nat) /\ Sorted(Append(granted[k], 0))
         /\ \A i \in 1..Len(Append(granted[k], 0)) : Append(granted[k], 0)[i] < Window
<1> DEFINE g == granted[k]
<1>1. /\ g \in Seq(Nat) /\ Sorted(g) /\ Window \in Nat \ {0}
      /\ \A i \in 1..Len(g) : g[i] < Window
  BY DEF Setting, HistoryTypes, Window
<1>2. Len(g) \in Nat
  BY <1>1, LenProperties
<1> HIDE DEF g
<1>3. /\ Append(g, 0) \in Seq(Nat) /\ Sorted(Append(g, 0))
      /\ Len(Append(g, 0)) = Len(g) + 1
      /\ \A i \in 1..Len(g) : Append(g, 0)[i] = g[i]
      /\ Append(g, 0)[Len(g) + 1] = 0
  BY <1>1, AppendSorted
<1>4. ASSUME NEW i \in 1..(Len(g) + 1) PROVE Append(g, 0)[i] < Window
  <2>1. CASE i = Len(g) + 1
    BY <1>1, <1>3, <2>1
  <2>2. CASE i # Len(g) + 1
    BY <1>1, <1>2, <1>3, <2>2
  <2> QED BY <2>1, <2>2
<1> QED BY <1>3, <1>4 DEF g

LEMMA RequestAInv ==
  ASSUME AInv, NEW k \in Keys, Request(k)
  PROVE  AInv'
<1>1. Setting /\ StoreTypes /\ HistoryTypes
  BY DEF AInv
<1>2. /\ StoreHit(k) /\ Respond(k)
      /\ rate' = rate /\ strategy' = strategy /\ failOpen' = failOpen
      /\ phase' = phase
  BY DEF Request, setting
<1>3. PICK b \in BOOLEAN, n \in 0..rate.times, t \in Nat :
           /\ HitResult(k) = Result(b, n, t)
           /\ b = ~Refuses(k)
           /\ ~b => n = 0 /\ t = Left(k)
           /\ n > 0 => Held(k) + n < rate.times
  BY <1>1, HitResultIs
<1>4. /\ credit' = [credit EXCEPT ![k] = n] /\ told' = [told EXCEPT ![k] = ~b]
      /\ guess' = [guess EXCEPT ![k] = FALSE]
      /\ \A j \in Keys \ {k} : retry'[j] = retry[j] /\ reset'[j] = reset[j]
      /\ retry' \in [Keys -> Nat] /\ reset' \in [Keys -> Nat]
      /\ b => retry'[k] = 0 /\ reset'[k] = 0
      /\ ~b /\ ~told[k] => retry'[k] >= t /\ reset'[k] >= t
      /\ ~b /\ told[k] /\ retry[k] > 0 => retry'[k] = retry[k]
      /\ ~b /\ told[k] /\ reset[k] > 0 => reset'[k] = reset[k]
      /\ granted' = [j \in Keys |->
                       IF strategy = "memory" /\ j \in Evicted(k) THEN <<>>
                       ELSE IF j = k /\ b THEN Append(granted[j], 0)
                       ELSE granted[j]]
  <2>1. HitResult(k) = Result(b, n, t)
    BY <1>3
  <2> QED BY <1>1, <1>2, <2>1, RespondIs
<1>5. /\ StoreTypes'
      /\ Held(k)' \in 0..(Held(k) + 1)
      /\ Refuses(k) => Left(k)' = Left(k)
      /\ \A j \in Keys \ {k} : /\ Refuses(j)' => Refuses(j) /\ Left(j)' = Left(j)
                             /\ Held(j)' \in 0..Held(j)
  BY <1>1, <1>2, StoreHitIs
<1>6. Setting'
  BY <1>1, <1>2 DEF Setting
<1>7. /\ credit \in [Keys -> 0..rate.times] /\ told \in [Keys -> BOOLEAN]
      /\ guess \in [Keys -> BOOLEAN] /\ rate.times \in Nat
      /\ granted \in [Keys -> Seq(Nat)]
      /\ \A j \in Keys : /\ Sorted(granted[j])
                         /\ \A i \in 1..Len(granted[j]) : granted[j][i] < Window
      /\ \A j \in Keys : credit[j] \in Nat /\ retry[j] \in Nat /\ reset[j] \in Nat
  BY <1>1 DEF HistoryTypes, Setting
<1>8. strategy = "memory" => k \notin Evicted(k)
  BY <1>1, <1>2, MemoryHitIs DEF StoreHit
<1>9. /\ granted'[k] = IF b THEN Append(granted[k], 0) ELSE granted[k]
      /\ \A j \in Keys \ {k} :
           granted'[j] = IF strategy = "memory" /\ j \in Evicted(k) THEN <<>>
                         ELSE granted[j]
  BY <1>4, <1>8
<1>10. HistoryTypes'
  <2>1. /\ credit' \in [Keys -> 0..rate.times] /\ told' \in [Keys -> BOOLEAN]
        /\ guess' \in [Keys -> BOOLEAN]
    BY <1>4, <1>7
  <2>2. ASSUME NEW j \in Keys
        PROVE  /\ granted'[j] \in Seq(Nat) /\ Sorted(granted'[j])
               /\ \A i \in 1..Len(granted'[j]) : granted'[j][i] < Window
    <3>1. CASE granted'[j] = <<>>
      BY <3>1, EmptyIs
    <3>2. CASE granted'[j] = granted[j]
      BY <1>7, <3>2
    <3>3. CASE granted'[j] = Append(granted[j], 0)
      BY <1>1, <3>3, GrantTypes
    <3> QED BY <1>4, <3>1, <3>2, <3>3
  <2>3. granted' \in [Keys -> Seq(Nat)]
    <3>1. granted' = [j \in Keys |-> granted'[j]]
      BY <1>4
    <3> QED BY <2>2, <3>1
  <2> QED BY <1>2, <1>4, <2>1, <2>2, <2>3 DEF HistoryTypes, Window, Sorted
<1>11. ASSUME NEW j \in Keys PROVE Accounted(j)'
  <2>1. Accounted(j)
    BY DEF AInv
  <2>2. CASE j = k
    <3>1. \/ granted'[k] = granted[k]
          \/ ~Refuses(k) /\ granted'[k] = Append(granted[k], 0)
      BY <1>3, <1>9
    <3> QED BY <1>1, <1>2, <2>1, <2>2, <3>1, HitAccounts
  <2>3. CASE j # k
    BY <1>1, <1>2, <1>9, <2>1, <2>3, OtherAccounts
  <2> QED BY <2>2, <2>3
<1>12. ASSUME NEW j \in Keys PROVE Promised(j)' /\ Warned(j)'
  <2>1. Promised(j) /\ Warned(j)
    BY DEF AInv
  <2>2. CASE j # k
    <3>1. /\ credit'[j] = credit[j] /\ guess'[j] = guess[j] /\ told'[j] = told[j]
          /\ retry'[j] = retry[j] /\ reset'[j] = reset[j]
      BY <1>4, <1>7, <2>2
    <3>2. /\ Refuses(j)' => Refuses(j) /\ Left(j)' = Left(j)
          /\ Held(j)' \in 0..Held(j) /\ Held(j) \in Nat
      BY <1>1, <1>5, <2>2, HeldIs
    <3> QED BY <1>2, <1>7, <2>1, <3>1, <3>2 DEF Promised, Warned
  <2>3. CASE j = k
    <3>1. credit'[k] = n /\ (told'[k] <=> ~b)
      BY <1>4, <1>7
    <3>2. Promised(k)'
      <4> SUFFICES ASSUME n > 0 PROVE b /\ Held(k)' + n <= rate'.times
        BY <3>1 DEF Promised
      <4>1. b
        BY <1>3
      <4>2. Held(k) + n < rate.times
        BY <1>3
      <4>3. Held(k)' \in 0..(Held(k) + 1) /\ Held(k) \in Nat
        BY <1>1, <1>5, HeldIs
      <4> QED BY <1>2, <1>7, <4>1, <4>2, <4>3
    <3>3. Warned(k)'
      <4> SUFFICES ASSUME ~b PROVE Left(k)' <= retry'[k] /\ Left(k)' <= reset'[k]
        BY <3>1 DEF Warned
      <4>1. Refuses(k) /\ t = Left(k) /\ Left(k)' = t
        BY <1>3, <1>5
      <4>2. retry'[k] \in Nat /\ reset'[k] \in Nat /\ retry[k] \in Nat /\ reset[k] \in Nat
        BY <1>4, <1>7
      <4>3. CASE ~told[k]
        BY <1>4, <4>1, <4>2, <4>3
      <4>4. CASE told[k]
        <5>1. t <= retry[k] /\ t <= reset[k]
          BY <2>1, <2>3, <4>1, <4>4 DEF Warned
        <5>2. t > 0
          BY <1>1, <4>1, LeftIs DEF AInv
        <5>3. retry[k] > 0 /\ reset[k] > 0
          BY <4>2, <5>1, <5>2
        <5> QED BY <1>4, <4>1, <4>4, <5>1, <5>3
      <4> QED BY <4>3, <4>4
    <3> QED BY <2>3, <3>2, <3>3
  <2> QED BY <2>2, <2>3
<1> QED BY <1>5, <1>6, <1>10, <1>11, <1>12 DEF AInv

\* What a hit without a reply leaves in the store.
LEMMA UnreachableIs ==
  ASSUME AInv, NEW k \in Keys, NEW ran \in BOOLEAN, Unreachable(k, ran)
  PROVE  /\ Setting' /\ StoreTypes' /\ rate' = rate /\ granted' = granted
         /\ \A j \in Keys : Accounted(j)'
         /\ \A j \in Keys \ {k} : /\ Refuses(j)' => Refuses(j) /\ Left(j)' = Left(j)
                                /\ Held(j)' \in 0..Held(j)
         /\ Held(k)' \in 0..(Held(k) + 1)
         /\ Refuses(k)' /\ (ran => Refuses(k)) => Refuses(k) /\ Left(k)' = Left(k)
<1>1. Setting /\ StoreTypes /\ HistoryTypes /\ \A j \in Keys : Accounted(j)
  BY DEF AInv
<1>2. /\ rate' = rate /\ strategy' = strategy /\ failOpen' = failOpen
      /\ phase' = phase /\ granted' = granted /\ strategy # "memory"
  BY DEF Unreachable, setting
<1>3. Setting'
  BY <1>1, <1>2 DEF Setting
<1>4. CASE ran
  <2>1. StoreHit(k)
    BY <1>4 DEF Unreachable
  <2>2. /\ StoreTypes' /\ Held(k)' \in 0..(Held(k) + 1)
        /\ Refuses(k) => Left(k)' = Left(k)
        /\ \A j \in Keys \ {k} : /\ Refuses(j)' => Refuses(j) /\ Left(j)' = Left(j)
                               /\ Held(j)' \in 0..Held(j)
    BY <1>1, <1>2, <2>1, StoreHitIs
  <2>3. ASSUME NEW j \in Keys PROVE Accounted(j)'
    <3>1. CASE j = k
      BY <1>1, <1>2, <2>1, <3>1, HitAccounts
    <3>2. CASE j # k
      BY <1>1, <1>2, <2>1, <3>2, OtherAccounts
    <3> QED BY <3>1, <3>2
  <2> QED BY <1>2, <1>3, <1>4, <2>2, <2>3
<1>5. CASE ~ran
  <2>1. count' = count /\ age' = age /\ log' = log /\ lru' = lru
    BY <1>5 DEF Unreachable, store
  <2>2. StoreTypes'
    BY <1>1, <1>2, <2>1 DEF StoreTypes, Window, Sorted
  <2>3. \A j \in Keys : /\ (Refuses(j)' <=> Refuses(j)) /\ Left(j)' = Left(j)
                        /\ Held(j)' = Held(j)
    BY <1>2, <2>1, SameAnswer
  <2>4. \A j \in Keys : Accounted(j)'
    BY <1>1, <1>2, <2>1 DEF Accounted, Records, Covers, Balances, Window
  <2>5. \A j \in Keys : Held(j) \in Nat
    BY <1>1, HeldIs
  <2> QED BY <1>2, <1>3, <2>2, <2>3, <2>4, <2>5
<1> QED BY <1>4, <1>5

\* Of the other keys nothing is promised anew.
LEMMA OthersPromised ==
  ASSUME AInv, NEW j \in Keys, rate' = rate, credit'[j] = credit[j],
         guess'[j] = guess[j], told'[j] = told[j], retry'[j] = retry[j],
         reset'[j] = reset[j], Held(j)' \in 0..Held(j),
         Refuses(j)' => Refuses(j) /\ Left(j)' = Left(j)
  PROVE  Promised(j)' /\ Warned(j)'
<1>1. /\ Setting /\ StoreTypes /\ Promised(j) /\ Warned(j)
      /\ credit[j] \in 0..rate.times /\ rate.times \in Nat
  BY DEF AInv, HistoryTypes, Setting
<1>2. Held(j) \in Nat
  BY <1>1, HeldIs
<1>3. Promised(j)'
  BY <1>1, <1>2 DEF Promised
<1>4. Warned(j)'
  BY <1>1 DEF Warned
<1> QED BY <1>3, <1>4

LEMMA DegradedAInv ==
  ASSUME AInv, NEW k \in Keys, NEW ran \in BOOLEAN, Degraded(k, ran)
  PROVE  AInv'
<1>1. Setting /\ HistoryTypes
  BY DEF AInv
<1>2. /\ Setting' /\ StoreTypes' /\ rate' = rate /\ granted' = granted
      /\ \A j \in Keys : Accounted(j)'
      /\ \A j \in Keys \ {k} : /\ Refuses(j)' => Refuses(j) /\ Left(j)' = Left(j)
                             /\ Held(j)' \in 0..Held(j)
  BY UnreachableIs DEF Degraded
<1>3. /\ credit' = [credit EXCEPT ![k] = rate.times]
      /\ guess' = [guess EXCEPT ![k] = TRUE] /\ told' = [told EXCEPT ![k] = FALSE]
      /\ retry' = [retry EXCEPT ![k] = 0] /\ reset' = [reset EXCEPT ![k] = 0]
  BY DEF Degraded
<1>4. HistoryTypes'
  <2>1. rate.times \in 0..rate.times
    BY <1>1 DEF Setting
  <2> QED BY <1>1, <1>2, <1>3, <2>1 DEF HistoryTypes, Window, Sorted
<1>5. ASSUME NEW j \in Keys PROVE Promised(j)' /\ Warned(j)'
  <2>1. CASE j = k
    <3>1. guess'[j] = TRUE /\ told'[j] = FALSE
      BY <1>1, <1>3, <2>1 DEF HistoryTypes
    <3> QED BY <3>1 DEF Promised, Warned
  <2>2. CASE j # k
    <3>1. /\ credit'[j] = credit[j] /\ guess'[j] = guess[j] /\ told'[j] = told[j]
          /\ retry'[j] = retry[j] /\ reset'[j] = reset[j]
      BY <1>1, <1>3, <2>2 DEF HistoryTypes
    <3> QED BY <1>2, <2>2, <3>1, OthersPromised
  <2> QED BY <2>1, <2>2
<1> QED BY <1>2, <1>4, <1>5 DEF AInv

LEMMA FailedAInv ==
  ASSUME AInv, NEW k \in Keys, NEW ran \in BOOLEAN, Failed(k, ran)
  PROVE  AInv'
<1>1. /\ Setting /\ StoreTypes /\ HistoryTypes /\ Promised(k) /\ Warned(k)
      /\ credit[k] \in 0..rate.times /\ rate.times \in Nat
  BY DEF AInv, HistoryTypes, Setting
<1>2. /\ Setting' /\ StoreTypes' /\ rate' = rate /\ granted' = granted
      /\ \A j \in Keys : Accounted(j)'
      /\ \A j \in Keys \ {k} : /\ Refuses(j)' => Refuses(j) /\ Left(j)' = Left(j)
                             /\ Held(j)' \in 0..Held(j)
      /\ Held(k)' \in 0..(Held(k) + 1)
      /\ Refuses(k)' /\ (ran => Refuses(k)) => Refuses(k) /\ Left(k)' = Left(k)
  BY UnreachableIs DEF Failed
<1> DEFINE taken == ran /\ HitResult(k).allowed
<1>3. /\ credit' = [credit EXCEPT ![k] = Less(@, 1)] /\ guess' = guess
      /\ told' = [told EXCEPT ![k] = @ /\ ~taken]
      /\ retry' = [retry EXCEPT ![k] = IF taken THEN 0 ELSE @]
      /\ reset' = [reset EXCEPT ![k] = IF taken THEN 0 ELSE @]
  BY DEF Failed
<1>4. taken \in BOOLEAN /\ (taken <=> ran /\ ~Refuses(k))
  <2>1. PICK b \in BOOLEAN, n \in 0..rate.times, t \in Nat :
               HitResult(k) = Result(b, n, t) /\ b = ~Refuses(k)
    BY <1>1, HitResultIs
  <2>2. HitResult(k).allowed = b
    BY <2>1, FieldsOfResult
  <2> QED BY <2>1, <2>2
<1> HIDE DEF taken
<1>5. /\ Less(credit[k], 1) \in 0..rate.times
      /\ Less(credit[k], 1) > 0 => Less(credit[k], 1) = credit[k] - 1
  BY <1>1 DEF Less
<1>6. HistoryTypes'
  <2>1. credit' \in [Keys -> 0..rate.times]
    BY <1>1, <1>3, <1>5 DEF HistoryTypes
  <2>2. told' \in [Keys -> BOOLEAN]
    BY <1>1, <1>3, <1>4 DEF HistoryTypes
  <2>3. retry' \in [Keys -> Nat] /\ reset' \in [Keys -> Nat]
    BY <1>1, <1>3 DEF HistoryTypes
  <2> QED BY <1>1, <1>2, <1>3, <2>1, <2>2, <2>3 DEF HistoryTypes, Window, Sorted
<1>7. Promised(k)'
  <2>1. credit'[k] = Less(credit[k], 1) /\ (told'[k] => told[k])
    BY <1>1, <1>3 DEF HistoryTypes
  <2>2. Held(k) \in Nat
    BY <1>1, HeldIs
  <2> SUFFICES ASSUME Less(credit[k], 1) > 0, ~guess[k]
               PROVE  ~told'[k] /\ Held(k)' + Less(credit[k], 1) <= rate.times
    BY <1>2, <1>3, <2>1 DEF Promised
  <2>3. Less(credit[k], 1) = credit[k] - 1 /\ credit[k] > 0
    BY <1>1, <1>5
  <2>4. ~told[k] /\ Held(k) + credit[k] <= rate.times
    BY <1>1, <2>3 DEF Promised
  <2> QED BY <1>1, <1>2, <2>1, <2>2, <2>3, <2>4
<1>8. Warned(k)'
  <2> SUFFICES ASSUME told'[k], Refuses(k)'
               PROVE  Left(k)' <= retry'[k] /\ Left(k)' <= reset'[k]
    BY DEF Warned
  <2>1. told[k] /\ ~taken
    BY <1>1, <1>3 DEF HistoryTypes
  <2>2. Refuses(k) /\ Left(k)' = Left(k)
    BY <1>2, <1>4, <2>1
  <2>3. retry'[k] = retry[k] /\ reset'[k] = reset[k]
    BY <1>1, <1>3, <2>1 DEF HistoryTypes
  <2> QED BY <1>1, <2>1, <2>2, <2>3 DEF Warned
<1>9. ASSUME NEW j \in Keys, j # k PROVE Promised(j)' /\ Warned(j)'
  <2>1. /\ credit'[j] = credit[j] /\ guess'[j] = guess[j] /\ told'[j] = told[j]
        /\ retry'[j] = retry[j] /\ reset'[j] = reset[j]
    BY <1>1, <1>3, <1>9 DEF HistoryTypes
  <2> QED BY <1>2, <1>9, <2>1, OthersPromised
<1> QED BY <1>2, <1>6, <1>7, <1>8, <1>9 DEF AInv

-----------------------------------------------------------------------------
(* A tick. *)

LEMMA CutShrinks ==
  ASSUME NEW s \in Seq(Nat), Sorted(s), Window \in Nat
  PROVE  /\ Len(Cut(Older(s), Window)) <= Len(Cut(s, Window))
         /\ Len(Cut(Older(s), Window)) = Len(Cut(s, Window))
            /\ Len(Cut(s, Window)) > 0
              => Cut(Older(s), Window)[1] = Cut(s, Window)[1] + 1
<1> DEFINE o == Older(s)
<1>0. Len(s) \in Nat /\ \A i \in 1..Len(s) : s[i] \in Nat
  BY ElementOfSeq, LenProperties
<1>1. /\ o \in Seq(Nat) /\ Sorted(o) /\ Len(o) = Len(s)
      /\ \A i \in 1..Len(s) : o[i] = Least(s[i] + 1, Window)
  BY CappedSorted
<1> HIDE DEF o
<1>2. PICK d \in 0..Len(s) :
        /\ Len(Cut(s, Window)) = Len(s) - d
        /\ \A i \in 1..(Len(s) - d) : Cut(s, Window)[i] = s[d + i]
        /\ \A i \in 1..d : s[i] >= Window
  BY CutIs
<1>3. PICK e \in 0..Len(o) :
        /\ Len(Cut(o, Window)) = Len(o) - e
        /\ \A i \in 1..(Len(o) - e) : Cut(o, Window)[i] = o[e + i] /\ o[e + i] < Window
  BY <1>1, CutIs
<1>4. d <= e
  <2> SUFFICES ASSUME e < d PROVE FALSE
    BY <1>0, <1>1
  <2>1. 1 \in 1..(Len(o) - e) /\ e + 1 \in 1..d /\ e + 1 \in 1..Len(s)
    BY <1>0, <1>1
  <2>2. o[e + 1] < Window
    BY <1>3, <2>1
  <2>3. s[e + 1] >= Window /\ s[e + 1] \in Nat
    BY <1>0, <1>2, <2>1
  <2>4. o[e + 1] = Least(s[e + 1] + 1, Window)
    BY <1>1, <2>1
  <2> QED BY <2>2, <2>3, <2>4 DEF Least
<1>5. Len(Cut(o, Window)) <= Len(Cut(s, Window))
  BY <1>0, <1>1, <1>2, <1>3, <1>4
<1>6. ASSUME Len(Cut(o, Window)) = Len(Cut(s, Window)), Len(Cut(s, Window)) > 0
      PROVE  Cut(o, Window)[1] = Cut(s, Window)[1] + 1
  <2>1. e = d /\ 1 \in 1..(Len(s) - d) /\ d + 1 \in 1..Len(s)
    BY <1>0, <1>1, <1>2, <1>3, <1>6
  <2>2. Cut(s, Window)[1] = s[d + 1] /\ s[d + 1] \in Nat
    BY <1>0, <1>2, <2>1
  <2>3. Cut(o, Window)[1] = o[d + 1] /\ o[d + 1] < Window
    BY <1>1, <1>3, <2>1
  <2>4. o[d + 1] = Least(s[d + 1] + 1, Window)
    BY <1>1, <2>1
  <2> QED BY <2>2, <2>3, <2>4 DEF Least
<1> QED BY <1>5, <1>6 DEF o

\* What a tick leaves of the grants.
LEMMA OlderIs ==
  ASSUME NEW g \in Seq(Nat), Sorted(g), Window \in Nat
  PROVE  /\ W!Older(g) = Cut([i \in DOMAIN g |-> g[i] + 1], Window)
         /\ W!Older(g) \in Seq(Nat) /\ Sorted(W!Older(g))
         /\ \A i \in 1..Len(W!Older(g)) : W!Older(g)[i] < Window
<1> DEFINE o == [i \in DOMAIN g |-> g[i] + 1]
<1>1. W!Older(g) = Cut(o, Window)
  BY DEF W!Older, W!Young, Cut, Window
<1>2. o \in Seq(Nat) /\ Sorted(o)
  BY OlderSorted
<1> HIDE DEF o
<1>3. PICK d \in 0..Len(o) :
        /\ Cut(o, Window) \in Seq(Nat)
        /\ Len(Cut(o, Window)) = Len(o) - d
        /\ \A i \in 1..(Len(o) - d) : Cut(o, Window)[i] = o[d + i] /\ o[d + i] < Window
  BY <1>2, CutIs
<1>4. Sorted(Cut(o, Window))
  BY <1>2, CutSorted
<1>5. ASSUME NEW i \in 1..Len(Cut(o, Window)) PROVE Cut(o, Window)[i] < Window
  <2>1. i \in 1..(Len(o) - d)
    BY <1>3
  <2> QED BY <1>3, <2>1
<1> QED BY <1>1, <1>3, <1>4, <1>5 DEF o

LEMMA Shifted ==
  ASSUME NEW n \in Nat, NEW m \in Nat, NEW d \in 0..n, NEW i \in 1..(n - d - m)
  PROVE  i \in 1..(n - d) /\ d + i \in 1..(n - m) /\ d + i \in 1..n
OBVIOUS

LEMMA BalanceOlder ==
  ASSUME NEW g \in Seq(Nat), Sorted(g), Window \in Nat, NEW c \in Nat, NEW a \in Nat,
         NEW t \in Nat, Balances(g, c, a, t)
  PROVE  /\ \A b \in Nat : b <= a + 1 => Balances(W!Older(g), c, b, t)
         /\ c = 0 \/ a + 1 >= Window => Len(W!Older(g)) <= t
<1> DEFINE o == [i \in DOMAIN g |-> g[i] + 1]
           h == W!Older(g)
<1>0. Len(g) \in Nat /\ \A i \in 1..Len(g) : g[i] \in Nat
  BY ElementOfSeq, LenProperties
<1>1. /\ o \in Seq(Nat) /\ Sorted(o) /\ Len(o) = Len(g)
      /\ \A i \in 1..Len(g) : o[i] = g[i] + 1
  BY OlderSorted
<1>2. /\ h = Cut(o, Window) /\ h \in Seq(Nat) /\ \A i \in 1..Len(h) : h[i] < Window
  BY OlderIs
<1> HIDE DEF o, h
<1>3. PICK d \in 0..Len(o) :
        /\ Len(h) = Len(o) - d
        /\ \A i \in 1..(Len(o) - d) : h[i] = o[d + i]
  <2>1. \E d \in 0..Len(o) :
          /\ Cut(o, Window) \in Seq(Nat)
          /\ Len(Cut(o, Window)) = Len(o) - d
          /\ \A i \in 1..(Len(o) - d) :
               Cut(o, Window)[i] = o[d + i] /\ o[d + i] < Window
          /\ \A i \in 1..d : o[i] >= Window
    BY <1>1, CutIs
  <2> QED BY <1>2, <2>1
<1>4. /\ Len(g) - Least(c, t) <= t
      /\ \A i \in 1..(Len(g) - Least(c, t)) : g[i] >= a
  BY DEF Balances
<1>5. Least(c, t) \in Nat
  BY LeastIs
<1>6. ASSUME NEW b \in Nat, b <= a + 1 PROVE Balances(h, c, b, t)
  <2>0. Len(h) = Len(g) - d /\ d \in 0..Len(g)
    BY <1>1, <1>3
  <2>1. Len(h) - Least(c, t) <= t
    BY <1>0, <1>4, <1>5, <2>0
  <2>2. ASSUME NEW i \in 1..(Len(h) - Least(c, t)) PROVE h[i] >= b
    <3>1. /\ i \in 1..(Len(o) - d) /\ d + i \in 1..(Len(g) - Least(c, t))
          /\ d + i \in 1..Len(g)
      <4>1. i \in 1..(Len(g) - d - Least(c, t)) /\ Len(o) = Len(g)
        BY <1>1, <2>0
      <4> QED BY <1>0, <1>5, <2>0, <4>1, Shifted
    <3>2. h[i] = o[d + i] /\ o[d + i] = g[d + i] + 1
      BY <1>1, <1>3, <3>1
    <3>3. g[d + i] >= a /\ g[d + i] \in Nat
      BY <1>0, <1>4, <3>1
    <3> QED BY <1>6, <3>2, <3>3
  <2> QED BY <2>1, <2>2 DEF Balances
<1>7. ASSUME c = 0 \/ a + 1 >= Window PROVE Len(h) <= t
  <2>1. Balances(h, c, a + 1, t) /\ a + 1 \in Nat
    BY <1>6
  <2> QED BY <1>2, <1>7, <2>1, BalanceOver
<1> QED BY <1>6, <1>7 DEF h

LEMMA TickStore ==
  ASSUME Setting, StoreTypes, Tick
  PROVE  StoreTypes'
<1>1. /\ rate.times \in Nat \ {0} /\ Window \in Nat \ {0} /\ Window' = Window
      /\ rate' = rate /\ strategy' = strategy
  BY DEF Setting, Tick, setting, Window
<1>2. \A j \in Keys : count[j] \in 0..(rate.times + 1) /\ age[j] \in 0..Window
  BY DEF StoreTypes
<1>3. count' \in [Keys -> 0..(rate.times + 1)]
  <2>1. 0 \in 0..(rate.times + 1)
    BY <1>1
  <2> QED BY <1>2, <2>1 DEF Tick, setting
<1>4. age' \in [Keys -> 0..Window]
  <2>1. 0 \in 0..Window /\ \A a \in 0..Window : Least(a + 1, Window) \in 0..Window
    BY <1>1 DEF Least
  <2> QED BY <1>2, <2>1 DEF Tick, setting
<1>5. ASSUME NEW j \in Keys
      PROVE  /\ log'[j] \in Seq(Nat) /\ Len(log'[j]) <= rate.times /\ Sorted(log'[j])
             /\ \A i \in 1..Len(log'[j]) : log'[j][i] <= Window
  <2>1. log'[j] = IF Expires(j) THEN <<>> ELSE Older(log[j])
    BY DEF Tick, setting
  <2>2. CASE Expires(j)
    <3>1. 0 <= rate.times
      BY <1>1
    <3> QED BY <2>1, <2>2, <3>1, EmptyIs
  <2>3. CASE ~Expires(j)
    <3>1. log[j] \in Seq(Nat) /\ Sorted(log[j]) /\ Len(log[j]) <= rate.times
      BY DEF StoreTypes
    <3> DEFINE o == Older(log[j])
    <3>2. o \in Seq(0..Window) /\ o \in Seq(Nat) /\ Sorted(o) /\ Len(o) = Len(log[j])
      BY <1>1, <3>1, CappedSorted
    <3>3. \A i \in 1..Len(o) : o[i] \in 0..Window
      BY <3>2, ElementOfSeq
    <3> HIDE DEF o
    <3>4. \A i \in 1..Len(o) : o[i] <= Window
      BY <1>1, <3>3
    <3>5. log'[j] = o
      BY <2>1, <2>3 DEF o
    <3> QED BY <3>1, <3>2, <3>4, <3>5
  <2> QED BY <2>2, <2>3
<1>6. log' \in [Keys -> Seq(Nat)]
  <2>1. log' = [j \in Keys |-> log'[j]]
    BY DEF Tick, setting
  <2> QED BY <1>5, <2>1
<1>7. ASSUME strategy = "memory", NEW j \in Keys
      PROVE  count'[j] > 0 <=> \E i \in 1..Len(lru') : lru'[i] = j
  <2>1. count'[j] = count[j] /\ lru' = lru
    BY <1>7 DEF Tick, Expires
  <2> QED BY <1>7, <2>1 DEF StoreTypes
<1>8. lru' \in Seq(Keys) /\ Len(lru') <= MaxKeys
  BY DEF Tick, setting, StoreTypes
<1>9. \A j \in Keys : Sorted(log[j])' <=> Sorted(log'[j])
  BY DEF Sorted
<1> QED BY <1>1, <1>3, <1>4, <1>5, <1>6, <1>7, <1>8, <1>9 DEF StoreTypes

\* A limit that is closed after a tick was closed before, and for one tick longer.
LEMMA TickAnswers ==
  ASSUME Setting, StoreTypes, Tick, NEW k \in Keys, Accounted(k), Refuses(k)'
  PROVE  Refuses(k) /\ Left(k)' = Left(k) - 1
<1>1. /\ rate.times \in Nat \ {0} /\ Window \in Nat \ {0} /\ Window' = Window
      /\ rate' = rate /\ strategy' = strategy
      /\ count[k] \in 0..(rate.times + 1) /\ age[k] \in 0..Window
  BY DEF Setting, StoreTypes, Tick, setting, Window
<1>2. /\ count'[k] = IF Expires(k) THEN 0 ELSE count[k]
      /\ age'[k] = IF Expires(k) \/ (count[k] = 0 /\ log[k] = <<>>) THEN 0
                   ELSE Least(age[k] + 1, Window)
      /\ log'[k] = IF Expires(k) THEN <<>> ELSE Older(log[k])
  BY DEF Tick, setting
<1>3. CASE strategy = "fixed"
  <2>1. count'[k] >= rate.times
    BY <1>1, <1>3 DEF Refuses
  <2>2. ~Expires(k) /\ count'[k] = count[k] /\ count[k] # 0
    BY <1>1, <1>2, <2>1
  <2>3. age[k] + 1 < Window
    BY <1>1, <1>3, <2>2 DEF Expires
  <2>4. age'[k] = age[k] + 1
    BY <1>1, <1>2, <2>2, <2>3 DEF Least
  <2> QED BY <1>1, <1>3, <2>1, <2>2, <2>4 DEF Refuses, Left
<1>4. CASE strategy = "memory"
  <2>1. count'[k] >= rate.times /\ age'[k] < Window
    BY <1>1, <1>4 DEF Refuses
  <2>2. ~Expires(k) /\ count'[k] = count[k] /\ count[k] # 0
    BY <1>1, <1>2, <2>1
  <2>3. age'[k] = age[k] + 1 /\ age[k] < Window
    BY <1>1, <1>2, <2>1, <2>2 DEF Least
  <2> QED BY <1>1, <1>4, <2>1, <2>2, <2>3 DEF Refuses, Left
<1>5. CASE strategy = "sliding"
  <2>1. /\ log[k] \in Seq(Nat) /\ Sorted(log[k])
    BY DEF StoreTypes
  <2>2. /\ Live(k) = Cut(log[k], Window) /\ Len(Live(k)) \in Nat
        /\ Len(Live(k)) <= rate.times
        /\ \A i \in 1..Len(Live(k)) : Live(k)[i] \in Nat
    BY LiveIs
  <2>3. Live(k)' = Cut(log'[k], Window)
    BY <1>1 DEF Live, Cut, Window
  <2>4. Len(Cut(log'[k], Window)) >= rate.times
    BY <1>1, <1>5, <2>3 DEF Refuses
  <2>5. ~Expires(k)
    <3> SUFFICES ASSUME Expires(k) PROVE FALSE
      OBVIOUS
    <3>1. log'[k] = <<>>
      BY <1>2
    <3>2. Len(Cut(<<>>, Window)) = Len(<<>>)
      BY <1>1, CutNothing, EmptyIs
    <3>3. Len(Cut(<<>>, Window)) = 0
      BY <3>2, EmptyIs
    <3> QED BY <1>1, <2>4, <3>1, <3>3
  <2>6. log'[k] = Older(log[k])
    BY <1>2, <2>5
  <2> DEFINE n == Len(Cut(Older(log[k]), Window))
  <2>7. /\ n <= Len(Live(k))
        /\ n = Len(Live(k)) /\ Len(Live(k)) > 0
             => Cut(Older(log[k]), Window)[1] = Live(k)[1] + 1
    BY <1>1, <2>1, <2>2, CutShrinks
  <2>8. n \in Nat
    <3>1. Older(log[k]) \in Seq(Nat) /\ Sorted(Older(log[k]))
      BY <1>1, <2>1, CappedSorted
    <3>2. Cut(Older(log[k]), Window) \in Seq(Nat)
      BY <1>1, <3>1, CutIs
    <3> QED BY <3>2, LenProperties
  <2>9. n >= rate.times
    BY <2>4, <2>6
  <2> HIDE DEF n
  <2>10. n = Len(Live(k)) /\ Len(Live(k)) > 0 /\ Len(Live(k)) >= rate.times
    BY <1>1, <2>2, <2>7, <2>8, <2>9
  <2>11. Live(k)'[1] = Live(k)[1] + 1 /\ Live(k)[1] \in Nat
    <3>1. 1 \in 1..Len(Live(k))
      BY <2>2, <2>10
    <3> QED BY <2>2, <2>3, <2>6, <2>7, <2>10, <3>1
  <2>12. Left(k)' = Left(k) - 1
    <3>1. Left(k)' = Window - Live(k)'[1]
      BY <1>1, <1>5 DEF Left
    <3>2. Left(k) = Window - Live(k)[1]
      BY <1>5 DEF Left
    <3> QED BY <1>1, <2>11, <3>1, <3>2
  <2> QED BY <1>5, <2>10, <2>12 DEF Refuses
<1> QED BY <1>3, <1>4, <1>5 DEF Setting

\* With time, what is counted only gets less.
LEMMA TickHeld ==
  ASSUME Setting, StoreTypes, Tick, NEW k \in Keys
  PROVE  Held(k)' \in 0..Held(k)
<1>1. /\ rate.times \in Nat \ {0} /\ Window \in Nat \ {0} /\ Window' = Window
      /\ rate' = rate /\ strategy' = strategy
      /\ count[k] \in 0..(rate.times + 1) /\ age[k] \in 0..Window
      /\ log[k] \in Seq(Nat) /\ Sorted(log[k]) /\ Len(log[k]) \in Nat
  BY LenProperties DEF Setting, StoreTypes, Tick, setting, Window
<1>2. /\ count'[k] = IF Expires(k) THEN 0 ELSE count[k]
      /\ age'[k] = IF Expires(k) \/ (count[k] = 0 /\ log[k] = <<>>) THEN 0
                   ELSE Least(age[k] + 1, Window)
      /\ log'[k] = IF Expires(k) THEN <<>> ELSE Older(log[k])
  BY DEF Tick, setting
<1>3. Held(k) \in Nat
  BY HeldIs
<1>4. CASE strategy = "fixed"
  BY <1>1, <1>2, <1>4 DEF Held
<1>5. CASE strategy = "memory"
  <2>1. ~Expires(k) /\ count'[k] = count[k]
    BY <1>2, <1>5 DEF Expires
  <2>2. Fresh(k) => Fresh(k)'
    BY <1>1, <1>2, <2>1 DEF Fresh, Least
  <2> QED BY <1>1, <1>5, <2>1, <2>2 DEF Held
<1>6. CASE strategy = "sliding"
  <2>1. Live(k) = Cut(log[k], Window) /\ Live(k)' = Cut(log'[k], Window)
    BY <1>1, LiveIs DEF Live, Cut, Window
  <2>2. Held(k) = Len(Cut(log[k], Window)) /\ Held(k)' = Len(Cut(log'[k], Window))
    BY <1>1, <1>6, <2>1 DEF Held
  <2>3. CASE Expires(k)
    <3>1. Len(Cut(<<>>, Window)) = Len(<<>>)
      BY <1>1, CutNothing, EmptyIs
    <3> QED BY <1>2, <1>3, <2>2, <2>3, <3>1, EmptyIs
  <2>4. CASE ~Expires(k)
    BY <1>1, <1>2, <2>2, <2>4, CutShrinks
  <2> QED BY <2>3, <2>4
<1> QED BY <1>4, <1>5, <1>6 DEF Setting

\* A log of ages that are over covers no young grant.
LEMMA CoversNone ==
  ASSUME NEW s \in Seq(Nat), NEW g \in Seq(Nat), NEW w \in Nat, Covers(s, g),
         \A i \in 1..Len(s) : s[i] >= w, \A i \in 1..Len(g) : g[i] < w
  PROVE  Len(g) = 0
<1>0. /\ Len(s) \in Nat /\ \A i \in 1..Len(s) : s[i] \in Nat
      /\ Len(g) \in Nat /\ \A i \in 1..Len(g) : g[i] \in Nat
  BY ElementOfSeq, LenProperties
<1> SUFFICES ASSUME Len(g) # 0 PROVE FALSE
  OBVIOUS
<1>1. /\ Len(g) <= Len(s)
      /\ \A i \in 0..(Len(g) - 1) : g[Len(g) - i] >= s[Len(s) - i]
  BY DEF Covers
<1>2. 0 \in 0..(Len(g) - 1) /\ Len(g) - 0 = Len(g) /\ Len(s) - 0 = Len(s)
      /\ Len(g) \in 1..Len(g) /\ Len(s) \in 1..Len(s)
  BY <1>0, <1>1
<1>3. g[Len(g)] >= s[Len(s)]
  BY <1>1, <1>2
<1>4. g[Len(g)] < w /\ s[Len(s)] >= w /\ g[Len(g)] \in Nat /\ s[Len(s)] \in Nat
  BY <1>0, <1>2
<1> QED BY <1>3, <1>4

LEMMA TickAccounts ==
  ASSUME Setting, StoreTypes, HistoryTypes, Tick, NEW k \in Keys, Accounted(k)
  PROVE  Accounted(k)'
<1> DEFINE g == granted[k]
           h == W!Older(g)
<1>1. /\ rate.times \in Nat \ {0} /\ Window \in Nat \ {0} /\ Window' = Window
      /\ rate' = rate /\ strategy' = strategy
      /\ count[k] \in 0..(rate.times + 1) /\ age[k] \in 0..Window
  BY DEF Setting, StoreTypes, Tick, setting, Window
<1>2. /\ count'[k] = IF Expires(k) THEN 0 ELSE count[k]
      /\ age'[k] = IF Expires(k) \/ (count[k] = 0 /\ log[k] = <<>>) THEN 0
                   ELSE Least(age[k] + 1, Window)
      /\ log'[k] = IF Expires(k) THEN <<>> ELSE Older(log[k])
      /\ granted'[k] = h
  BY DEF Tick, setting
<1>3. g \in Seq(Nat) /\ Sorted(g) /\ \A i \in 1..Len(g) : g[i] < Window
  BY DEF HistoryTypes
<1> HIDE DEF g, h
<1>4. h \in Seq(Nat) /\ \A i \in 1..Len(h) : h[i] < Window
  BY <1>1, <1>3, OlderIs DEF h
<1>5. Least(age[k] + 1, Window) \in Nat /\ Least(age[k] + 1, Window) <= age[k] + 1
  BY <1>1 DEF Least
<1>6. CASE strategy # "sliding"
  <2>1. Balances(g, count[k], age[k], rate.times)
    BY <1>6 DEF Accounted, g
  <2>2. /\ \A b \in Nat : b <= age[k] + 1 => Balances(h, count[k], b, rate.times)
        /\ count[k] = 0 \/ age[k] + 1 >= Window => Len(h) <= rate.times
    <3>1. count[k] \in Nat /\ age[k] \in Nat /\ rate.times \in Nat /\ Window \in Nat
      BY <1>1
    <3> QED BY <1>3, <2>1, <3>1, BalanceOlder DEF h
  <2>3. Balances(h, count'[k], age'[k], rate.times)
    <3>1. CASE Expires(k)
      <4>1. Len(h) <= rate.times
        BY <2>2, <3>1 DEF Expires
      <4>2. Balances(h, 0, 0, rate.times)
        BY <1>1, <1>4, <4>1, BalanceAnew
      <4>3. count'[k] = 0 /\ age'[k] = 0
        BY <1>2, <3>1
      <4> QED BY <4>2, <4>3
    <3>2. CASE ~Expires(k)
      <4>1. count'[k] = count[k] /\ age'[k] \in Nat /\ age'[k] <= age[k] + 1
        BY <1>1, <1>2, <1>5, <3>2
      <4> QED BY <2>2, <4>1
    <3> QED BY <3>1, <3>2
  <2>4. strategy = "fixed" /\ count'[k] > 0 => age'[k] < Window
    <3> SUFFICES ASSUME strategy = "fixed", count'[k] > 0 PROVE age'[k] < Window
      OBVIOUS
    <3>1. ~Expires(k)
      BY <1>2
    <3>2. age[k] + 1 < Window
      BY <1>1, <3>1 DEF Expires
    <3> QED BY <1>1, <1>2, <3>1, <3>2 DEF Least
  <2> QED BY <1>1, <1>2, <1>6, <2>3, <2>4 DEF Accounted
<1>7. CASE strategy = "sliding"
  <2>1. /\ log[k] \in Seq(Nat) /\ Sorted(log[k]) /\ Covers(log[k], g)
        /\ \A i \in 1..Len(log[k]) : log[k][i] >= age[k]
    BY <1>7 DEF Accounted, Records, StoreTypes, g
  <2> DEFINE o == Older(log[k])
  <2>2. /\ o \in Seq(Nat) /\ Sorted(o) /\ Len(o) = Len(log[k])
        /\ \A i \in 1..Len(log[k]) : o[i] = Least(log[k][i] + 1, Window)
    BY <1>1, <2>1, CappedSorted
  <2>3. Covers(o, h)
    BY <1>1, <1>3, <2>1, CoversOlder, OlderIs DEF h
  <2>4. \A i \in 1..Len(log[k]) : log[k][i] \in Nat
    BY <2>1, ElementOfSeq
  <2>5. \A i \in 1..Len(o) : o[i] >= Least(age[k] + 1, Window)
    <3> SUFFICES ASSUME NEW i \in 1..Len(o)
                 PROVE  o[i] >= Least(age[k] + 1, Window)
      OBVIOUS
    <3>1. log[k][i] \in Nat /\ log[k][i] >= age[k]
          /\ o[i] = Least(log[k][i] + 1, Window)
      BY <2>1, <2>2, <2>4
    <3>2. \A a, b \in Nat : a >= b => Least(a + 1, Window) >= Least(b + 1, Window)
      BY <1>1 DEF Least
    <3>3. age[k] \in Nat
      BY <1>1
    <3>4. Least(log[k][i] + 1, Window) >= Least(age[k] + 1, Window)
      BY <3>1, <3>2, <3>3
    <3> QED BY <3>1, <3>4
  <2> HIDE DEF o
  <2>6. CASE Expires(k)
    <3>1. Least(age[k] + 1, Window) = Window
      BY <1>1, <2>6 DEF Expires, Least
    <3>2. Len(h) = 0
      BY <1>1, <1>4, <2>2, <2>3, <2>5, <3>1, CoversNone
    <3>3. Records(h, <<>>, 0)
      <4>1. \A i : i \notin 0..(0 - 1)
        OBVIOUS
      <4>2. Covers(<<>>, h)
        BY <3>2, <4>1, EmptyIs DEF Covers
      <4> QED BY <4>2, EmptyIs DEF Records
    <3>4. log'[k] = <<>> /\ age'[k] = 0
      BY <1>2, <2>6
    <3> QED BY <1>1, <1>2, <1>7, <3>3, <3>4 DEF Accounted, Records, Covers
  <2>7. CASE ~Expires(k)
    <3>1. log'[k] = o /\ age'[k] \in {0, Least(age[k] + 1, Window)}
      BY <1>2, <2>7 DEF o
    <3>2. \A i \in 1..Len(o) : o[i] >= 0
      <4>1. \A i \in 1..Len(o) : o[i] \in Nat
        BY <2>2, ElementOfSeq
      <4> QED BY <4>1
    <3>3. \A i \in 1..Len(o) : o[i] >= age'[k]
      BY <2>5, <3>1, <3>2
    <3>4. Records(h, o, age'[k])
      BY <2>3, <3>3 DEF Records
    <3> QED BY <1>1, <1>2, <1>7, <3>1, <3>4 DEF Accounted, Records, Covers
  <2> QED BY <2>6, <2>7
<1> QED BY <1>6, <1>7

LEMMA TickAInv ==
  ASSUME AInv, Tick
  PROVE  AInv'
<1>1. Setting /\ StoreTypes /\ HistoryTypes
  BY DEF AInv
<1>2. /\ rate' = rate /\ strategy' = strategy /\ failOpen' = failOpen
      /\ credit' = credit /\ guess' = guess /\ told' = told
      /\ phase' = (phase + 1) % Second
      /\ granted' = [j \in Keys |-> W!Older(granted[j])]
      /\ retry' = [j \in Keys |-> Less(retry[j], 1)]
      /\ reset' = [j \in Keys |-> Less(reset[j], 1)]
  BY DEF Tick, setting
<1>3. Setting'
  <2>1. phase' \in 0..(Second - 1)
    BY <1>1, <1>2, Constants DEF Setting
  <2> QED BY <1>1, <1>2, <2>1 DEF Setting
<1>4. StoreTypes'
  BY <1>1, TickStore
<1>5. \A a \in Nat : Less(a, 1) \in Nat /\ Less(a, 1) >= a - 1
  BY DEF Less
<1>6. Window \in Nat /\ Window' = Window
  BY <1>1, <1>2 DEF Setting, Window
<1>7. HistoryTypes'
  <2>1. ASSUME NEW j \in Keys
        PROVE  /\ W!Older(granted[j]) \in Seq(Nat) /\ Sorted(W!Older(granted[j]))
               /\ \A i \in 1..Len(W!Older(granted[j])) : W!Older(granted[j])[i] < Window
    <3>1. granted[j] \in Seq(Nat) /\ Sorted(granted[j])
      BY <1>1 DEF HistoryTypes
    <3> QED BY <1>6, <3>1, OlderIs
  <2>2. granted' \in [Keys -> Seq(Nat)]
    BY <1>2, <2>1
  <2>3. \A j \in Keys : /\ Sorted(granted'[j])
                        /\ \A i \in 1..Len(granted'[j]) : granted'[j][i] < Window
    <3>1. \A j \in Keys : granted'[j] = W!Older(granted[j])
      BY <1>2
    <3> QED BY <2>1, <3>1
  <2>4. retry' \in [Keys -> Nat] /\ reset' \in [Keys -> Nat]
    BY <1>1, <1>2, <1>5 DEF HistoryTypes
  <2>5. \A j \in Keys : Sorted(granted[j])' <=> Sorted(granted'[j])
    BY DEF Sorted
  <2> QED BY <1>1, <1>2, <1>6, <2>2, <2>3, <2>4, <2>5 DEF HistoryTypes
<1>8. ASSUME NEW j \in Keys PROVE Accounted(j)' /\ Promised(j)' /\ Warned(j)'
  <2>1. Accounted(j) /\ Promised(j) /\ Warned(j)
    BY DEF AInv
  <2>2. Accounted(j)'
    BY <1>1, <2>1, TickAccounts
  <2>3. Refuses(j)' => Refuses(j) /\ Left(j)' = Left(j) - 1
    BY <1>1, <2>1, TickAnswers
  <2>4. Refuses(j) => Left(j) \in Nat
    BY <1>1, <2>1, LeftIs
  <2>5. Promised(j)'
    <3>1. Held(j)' \in 0..Held(j) /\ Held(j) \in Nat
      BY <1>1, TickHeld, HeldIs
    <3>2. credit[j] \in 0..rate.times /\ rate.times \in Nat
      BY <1>1 DEF HistoryTypes, Setting
    <3> QED BY <1>2, <2>1, <3>1, <3>2 DEF Promised
  <2>6. Warned(j)'
    <3> SUFFICES ASSUME told'[j], Refuses(j)'
                 PROVE  Left(j)' <= retry'[j] /\ Left(j)' <= reset'[j]
      BY DEF Warned
    <3>1. Left(j) \in Nat /\ Left(j)' = Left(j) - 1
      BY <2>3, <2>4
    <3>2. Left(j) <= retry[j] /\ Left(j) <= reset[j]
      BY <1>2, <2>1, <2>3 DEF Warned
    <3>3. retry[j] \in Nat /\ reset[j] \in Nat
      BY <1>1 DEF HistoryTypes
    <3>4. /\ retry'[j] \in Nat /\ retry'[j] >= retry[j] - 1
          /\ reset'[j] \in Nat /\ reset'[j] >= reset[j] - 1
      BY <1>2, <1>5, <3>3
    <3> QED BY <3>1, <3>2, <3>3, <3>4
  <2> QED BY <2>2, <2>5, <2>6
<1> QED BY <1>3, <1>4, <1>7, <1>8 DEF AInv

-----------------------------------------------------------------------------
(* The theorems. *)

LEMMA NextAInv ==
  ASSUME AInv, [Next]_vars
  PROVE  AInv'
<1>1. CASE UNCHANGED vars
  <2>1. /\ rate' = rate /\ strategy' = strategy /\ failOpen' = failOpen
        /\ phase' = phase
        /\ count' = count /\ age' = age /\ log' = log /\ lru' = lru
        /\ granted' = granted /\ credit' = credit /\ guess' = guess
        /\ told' = told /\ retry' = retry /\ reset' = reset
    BY <1>1 DEF vars, setting, store, history
  <2>2. Setting' /\ StoreTypes' /\ HistoryTypes'
    BY <2>1 DEF AInv, Setting, StoreTypes, HistoryTypes, Window, Sorted
  <2>3. \A j \in Keys : /\ (Refuses(j)' <=> Refuses(j)) /\ Left(j)' = Left(j)
                        /\ Held(j)' = Held(j)
    BY <2>1, SameAnswer
  <2>4. \A j \in Keys : Accounted(j)'
    BY <2>1 DEF AInv, Accounted, Records, Covers, Balances, Window
  <2>5. \A j \in Keys : Promised(j)' /\ Warned(j)'
    BY <2>1, <2>3 DEF AInv, Promised, Warned
  <2> QED BY <2>2, <2>4, <2>5 DEF AInv
<1>2. CASE Next
  BY <1>2, RequestAInv, DegradedAInv, FailedAInv, TickAInv DEF Next
<1> QED BY <1>1, <1>2

\* The invariant holds in every behaviour.
THEOREM Inductive == Spec => []AInv
BY InitAInv, NextAInv, PTL DEF Spec

\* The limiters never hold more than they should, and the in-memory one counts
\* for the MaxKeys keys it used last and no others.
THEOREM StoreIsBounded == Spec => []TypeOK
<1>1. AInv => TypeOK
  <2> SUFFICES ASSUME AInv PROVE TypeOK
    OBVIOUS
  <2>1. Setting /\ StoreTypes /\ HistoryTypes
    BY DEF AInv
  <2>2. /\ rate.times >= 1 /\ rate.ticks >= 1
        /\ count \in [Keys -> 0..(rate.times + 1)] /\ age \in [Keys -> 0..Window]
        /\ phase \in 0..(Second - 1)
        /\ Window \in Nat
    BY <2>1 DEF Setting, StoreTypes, Window
  <2>3. ASSUME NEW k \in Keys
        PROVE  /\ Len(log[k]) <= rate.times
               /\ \A i \in DOMAIN log[k] : log[k][i] \in 0..Window
               /\ \A i \in DOMAIN granted[k] : granted[k][i] \in 0..(Window - 1)
    <3>1. /\ log[k] \in Seq(Nat) /\ granted[k] \in Seq(Nat)
          /\ Len(log[k]) <= rate.times
          /\ \A i \in 1..Len(log[k]) : log[k][i] <= Window
          /\ \A i \in 1..Len(granted[k]) : granted[k][i] < Window
      BY <2>1 DEF StoreTypes, HistoryTypes
    <3>2. /\ DOMAIN log[k] = 1..Len(log[k]) /\ DOMAIN granted[k] = 1..Len(granted[k])
          /\ \A i \in 1..Len(log[k]) : log[k][i] \in Nat
          /\ \A i \in 1..Len(granted[k]) : granted[k][i] \in Nat
      BY <3>1, LenProperties, ElementOfSeq
    <3>3. \A i \in 1..Len(log[k]) : log[k][i] \in 0..Window
      BY <2>2, <3>1, <3>2
    <3>4. \A i \in 1..Len(granted[k]) : granted[k][i] \in 0..(Window - 1)
      BY <2>2, <3>1, <3>2
    <3> QED BY <3>1, <3>2, <3>3, <3>4
  <2>4. /\ Len(lru) <= MaxKeys
        /\ \A k \in Keys : strategy = "memory" =>
             (count[k] > 0 <=> \E i \in DOMAIN lru : lru[i] = k)
    <3>1. DOMAIN lru = 1..Len(lru)
      BY <2>1, LenProperties DEF StoreTypes
    <3> QED BY <2>1, <3>1 DEF StoreTypes
  <2>5. /\ credit \in [Keys -> 0..rate.times]
        /\ guess \in [Keys -> BOOLEAN] /\ told \in [Keys -> BOOLEAN]
    BY <2>1 DEF HistoryTypes
  <2> QED BY <2>2, <2>3, <2>4, <2>5 DEF TypeOK
<1> QED BY <1>1, Inductive, PTL

\* What k was granted is below the bound when another request is let through.
LEMMA BoundHolds ==
  ASSUME Setting, StoreTypes, HistoryTypes, NEW k \in Keys, Accounted(k), ~Refuses(k)
  PROVE  Len(granted[k]) < IF strategy = "sliding" THEN rate.times ELSE 2 * rate.times
<1> DEFINE g == granted[k]
<1>1. /\ rate.times \in Nat \ {0} /\ Window \in Nat \ {0}
      /\ count[k] \in 0..(rate.times + 1) /\ age[k] \in 0..Window
  BY DEF Setting, StoreTypes, Window
<1>2. /\ g \in Seq(Nat) /\ Sorted(g) /\ Len(g) \in Nat
      /\ \A i \in 1..Len(g) : g[i] < Window
  BY LenProperties DEF HistoryTypes
<1> HIDE DEF g
<1>3. CASE strategy = "sliding"
  <2>1. /\ Live(k) = Cut(log[k], Window) /\ Len(Live(k)) \in Nat
    BY LiveIs
  <2>2. Covers(log[k], g) /\ log[k] \in Seq(Nat) /\ Sorted(log[k])
    BY <1>3 DEF Accounted, Records, StoreTypes, g
  <2>3. Covers(Live(k), g)
    BY <1>1, <1>2, <2>1, <2>2, CoversCut
  <2>4. Len(g) <= Len(Live(k)) /\ Len(Live(k)) < rate.times
    BY <1>1, <1>3, <2>1, <2>3 DEF Covers, Refuses
  <2> QED BY <1>1, <1>2, <1>3, <2>1, <2>4 DEF g
<1>4. CASE strategy # "sliding"
  <2>1. Balances(g, count[k], age[k], rate.times)
    BY <1>4 DEF Accounted, g
  <2>2. CASE count[k] < rate.times
    <3>1. Len(g) <= rate.times + Least(count[k], rate.times)
      BY <1>1, <1>2, <2>1, BalanceIs
    <3>2. Least(count[k], rate.times) = count[k]
      BY <1>1, <2>2 DEF Least
    <3> QED BY <1>1, <1>2, <1>4, <2>2, <3>1, <3>2 DEF g
  <2>3. CASE ~(count[k] < rate.times)
    <3>1. age[k] >= Window
      BY <1>1, <1>4, <2>3 DEF Refuses, Setting
    <3>2. Len(g) <= rate.times
      <4>1. /\ count[k] \in Nat /\ age[k] \in Nat /\ rate.times \in Nat
            /\ Window \in Nat
        BY <1>1
      <4> QED BY <1>2, <2>1, <3>1, <4>1, BalanceOver
    <3>3. Len(g) < 2 * rate.times
      BY <1>1, <1>2, <3>2
    <3> QED BY <1>4, <3>3 DEF g
  <2> QED BY <2>2, <2>3
<1> QED BY <1>3, <1>4

\* Each limiter implements the window it promises: of one key's requests no more
\* than the rate in any window ("No burst at window boundaries"), or twice as
\* many for the fixed windows, but for the keys the in-memory limiter forgot.
THEOREM LimitIsKept == Spec => WithinLimit
<1>1. Init => W!WindowInit
  <2> SUFFICES ASSUME Init PROVE W!WindowInit
    OBVIOUS
  <2>1. Setting
    BY InitAInv DEF AInv
  <2>2. granted = [k \in Keys |-> <<>>]
    BY DEF Init, All
  <2>3. (strategy = "memory") \in BOOLEAN
    OBVIOUS
  <2>4. rate.ticks \in Nat /\ rate.times \in Nat /\ 2 * rate.times \in Nat
    BY <2>1 DEF Setting
  <2> QED BY <2>2, <2>3, <2>4 DEF W!WindowInit
<1>2. AInv /\ [Next]_vars => [W!WindowNext]_(W!windowVars)
  <2> SUFFICES ASSUME AInv, [Next]_vars PROVE [W!WindowNext]_(W!windowVars)
    OBVIOUS
  <2>1. Setting /\ StoreTypes /\ HistoryTypes
    BY DEF AInv
  <2>2. CASE UNCHANGED vars
    <3>1. granted' = granted /\ rate' = rate /\ strategy' = strategy
      BY <2>2 DEF vars, setting, history
    <3> QED BY <3>1 DEF W!windowVars
  <2>3. ASSUME NEW k \in Keys, Request(k)
        PROVE  [W!WindowNext]_(W!windowVars)
    <3>1. /\ StoreHit(k) /\ Respond(k) /\ rate' = rate /\ strategy' = strategy
      BY <2>3 DEF Request, setting
    <3>2. PICK b \in BOOLEAN, n \in 0..rate.times, t \in Nat :
                 HitResult(k) = Result(b, n, t) /\ b = ~Refuses(k)
      BY <2>1, HitResultIs
    <3> DEFINE Lost == IF strategy = "memory" THEN Evicted(k) ELSE {}
    <3>3. granted' = [j \in Keys |->
                        IF strategy = "memory" /\ j \in Evicted(k) THEN <<>>
                        ELSE IF j = k /\ b THEN Append(granted[j], 0)
                        ELSE granted[j]]
      <4>1. HitResult(k) = Result(b, n, t)
        BY <3>2
      <4> QED BY <2>1, <3>1, <4>1, RespondIs
    <3>4. /\ Lost \in SUBSET (Keys \ {k}) /\ Lost \in SUBSET Keys
          /\ Lost # {} => strategy = "memory"
      <4>1. CASE strategy = "memory"
        <5>1. MemoryHit(k)
          BY <3>1, <4>1 DEF StoreHit
        <5>2. k \notin Evicted(k)
          BY <2>1, <3>1, <4>1, <5>1, MemoryHitIs
        <5> QED BY <4>1, <5>2 DEF Evicted
      <4>2. CASE strategy # "memory"
        BY <4>2
      <4> QED BY <4>1, <4>2
    <3>5. granted' = [j \in Keys |-> IF j \in Lost THEN <<>>
                                     ELSE IF j = k /\ b THEN Append(granted[j], 0)
                                     ELSE granted[j]]
      BY <3>3
    <3> HIDE DEF Lost
    <3>6. CASE b
      <4>1. Len(granted[k]) < IF strategy = "sliding" THEN rate.times ELSE 2 * rate.times
        BY <2>1, <3>2, <3>6, BoundHolds DEF AInv
      <4>2. granted' = [j \in Keys |-> IF j \in Lost THEN <<>>
                                       ELSE IF j = k THEN Append(granted[j], 0)
                                       ELSE granted[j]]
        BY <3>5, <3>6
      <4>3. W!Grant(k)
        BY <3>1, <3>4, <4>1, <4>2 DEF W!Grant
      <4> QED BY <4>3 DEF W!WindowNext
    <3>7. CASE ~b
      <4>1. granted' = [j \in Keys |-> IF j \in Lost THEN <<>> ELSE granted[j]]
        BY <3>5, <3>7
      <4>2. CASE strategy = "memory"
        <5>1. W!Forget
          BY <3>1, <3>4, <4>1, <4>2 DEF W!Forget
        <5> QED BY <5>1 DEF W!WindowNext
      <4>3. CASE strategy # "memory"
        <5>1. granted' = granted
          BY <2>1, <3>4, <4>1, <4>3 DEF HistoryTypes
        <5> QED BY <3>1, <5>1 DEF W!windowVars
      <4> QED BY <4>2, <4>3
    <3> QED BY <3>6, <3>7
  <2>4. ASSUME NEW k \in Keys, NEW ran \in BOOLEAN, Degraded(k, ran) \/ Failed(k, ran)
        PROVE  [W!WindowNext]_(W!windowVars)
    <3>1. granted' = granted /\ rate' = rate /\ strategy' = strategy
      BY <2>4 DEF Degraded, Failed, Unreachable, setting
    <3> QED BY <3>1 DEF W!windowVars
  <2>5. CASE Tick
    <3>1. W!Pass
      BY <2>5 DEF Tick, setting, W!Pass
    <3> QED BY <3>1 DEF W!WindowNext
  <2> QED BY <2>2, <2>3, <2>4, <2>5 DEF Next
<1> QED BY <1>1, <1>2, Inductive, PTL DEF Spec, WithinLimit, W!WindowSpec

\* While X-RateLimit-Remaining promises more from a count, nobody is refused.
LEMMA RemainingStands ==
  ASSUME AInv, [Next]_vars, NEW k \in Keys, credit[k] > 0, ~guess[k]
  PROVE  ~told'[k]
<1>1. ~told[k] /\ ~Refuses(k)
  <2>1. ~told[k] /\ Held(k) + credit[k] <= rate.times
    BY DEF AInv, Promised
  <2>2. /\ Held(k) \in Nat /\ (Refuses(k) <=> Held(k) >= rate.times)
        /\ credit[k] \in Nat /\ rate.times \in Nat
    BY HeldIs DEF AInv, HistoryTypes, Setting
  <2> QED BY <2>1, <2>2
<1>2. told \in [Keys -> BOOLEAN] /\ Setting /\ StoreTypes /\ HistoryTypes
  BY DEF AInv, HistoryTypes
<1>3. CASE UNCHANGED vars
  BY <1>1, <1>3 DEF vars, history
<1>4. ASSUME NEW j \in Keys, Request(j) PROVE ~told'[k]
  <2>1. Respond(j)
    BY <1>4 DEF Request
  <2>2. PICK b \in BOOLEAN, n \in 0..rate.times, t \in Nat :
               HitResult(j) = Result(b, n, t) /\ b = ~Refuses(j)
    BY <1>2, HitResultIs
  <2>3. told' = [told EXCEPT ![j] = ~b]
    <3>1. HitResult(j) = Result(b, n, t)
      BY <2>2
    <3> QED BY <1>2, <2>1, <3>1, RespondIs
  <2>4. CASE j = k
    BY <1>1, <1>2, <2>2, <2>3, <2>4
  <2>5. CASE j # k
    BY <1>1, <1>2, <2>3, <2>5
  <2> QED BY <2>4, <2>5
<1>5. ASSUME NEW j \in Keys, NEW ran \in BOOLEAN, Degraded(j, ran) \/ Failed(j, ran)
      PROVE  ~told'[k]
  <2>1. CASE Degraded(j, ran)
    BY <1>1, <1>2, <2>1 DEF Degraded
  <2>2. CASE Failed(j, ran)
    BY <1>1, <1>2, <2>2 DEF Failed
  <2> QED BY <1>5, <2>1, <2>2
<1>6. CASE Tick
  BY <1>1, <1>6 DEF Tick, setting
<1> QED BY <1>3, <1>4, <1>5, <1>6 DEF Next

\* What was announced to a refused client, and is over, stays over: the next
\* request with its key is let through.
LEMMA OverStaysOver ==
  ASSUME AInv, [Next]_vars, NEW k \in Keys, told[k]
  PROVE  (retry[k] = 0 => retry'[k] = 0) /\ (reset[k] = 0 => reset'[k] = 0)
<1>1. /\ Setting /\ StoreTypes /\ HistoryTypes
      /\ retry \in [Keys -> Nat] /\ reset \in [Keys -> Nat]
  BY DEF AInv, HistoryTypes
<1>2. retry[k] = 0 \/ reset[k] = 0 => ~Refuses(k)
  <2> SUFFICES ASSUME retry[k] = 0 \/ reset[k] = 0, Refuses(k) PROVE FALSE
    OBVIOUS
  <2>1. Left(k) <= retry[k] /\ Left(k) <= reset[k]
    BY DEF AInv, Warned
  <2>2. Left(k) \in Nat /\ Left(k) > 0
    BY <1>1, LeftIs DEF AInv
  <2> QED BY <2>1, <2>2
<1>3. CASE UNCHANGED vars
  BY <1>3 DEF vars, history
<1>4. ASSUME NEW j \in Keys, Request(j)
      PROVE  (retry[k] = 0 => retry'[k] = 0) /\ (reset[k] = 0 => reset'[k] = 0)
  <2>1. Respond(j)
    BY <1>4 DEF Request
  <2>2. PICK b \in BOOLEAN, n \in 0..rate.times, t \in Nat :
               HitResult(j) = Result(b, n, t) /\ b = ~Refuses(j)
    BY <1>1, HitResultIs
  <2>3. /\ \A i \in Keys \ {j} : retry'[i] = retry[i] /\ reset'[i] = reset[i]
        /\ b => retry'[j] = 0 /\ reset'[j] = 0
    <3>1. HitResult(j) = Result(b, n, t)
      BY <2>2
    <3> QED BY <1>1, <2>1, <3>1, RespondIs
  <2>4. CASE j = k
    BY <1>2, <2>2, <2>3, <2>4
  <2>5. CASE j # k
    BY <2>3, <2>5
  <2> QED BY <2>4, <2>5
<1>5. ASSUME NEW j \in Keys, NEW ran \in BOOLEAN, Degraded(j, ran) \/ Failed(j, ran)
      PROVE  (retry[k] = 0 => retry'[k] = 0) /\ (reset[k] = 0 => reset'[k] = 0)
  <2>1. CASE Degraded(j, ran)
    BY <1>1, <2>1 DEF Degraded
  <2>2. CASE Failed(j, ran)
    BY <1>1, <2>2 DEF Failed
  <2> QED BY <1>5, <2>1, <2>2
<1>6. CASE Tick
  <2>1. retry'[k] = Less(retry[k], 1) /\ reset'[k] = Less(reset[k], 1)
    BY <1>6 DEF Tick, setting
  <2>2. Less(0, 1) = 0
    BY DEF Less
  <2> QED BY <2>1, <2>2
<1> QED BY <1>3, <1>4, <1>5, <1>6 DEF Next

\* The headers are kept: while X-RateLimit-Remaining promises more, and is no
\* guess of a degraded answer, nobody is refused, and a client that was refused and waited for Retry-After, or until
\* the second of X-RateLimit-Reset is over, is let through, whoever knocked
\* meanwhile.
THEOREM HeadersAreTrue == Spec => HeadersHold
<1>1. AInv /\ [Next]_vars =>
        [\A k \in Keys : credit[k] > 0 /\ ~guess[k] => ~told'[k]]_vars
  BY RemainingStands
<1>2. AInv /\ [Next]_vars =>
        [\A k \in Keys : told[k] /\ retry[k] = 0 => retry'[k] = 0]_vars
  BY OverStaysOver
<1>3. AInv /\ [Next]_vars =>
        [\A k \in Keys : told[k] /\ reset[k] = 0 => reset'[k] = 0]_vars
  BY OverStaysOver
<1> QED
  BY <1>1, <1>2, <1>3, Inductive, PTL
     DEF Spec, HeadersHold, RemainingHolds, RetryAfterHolds, ResetHolds
=============================================================================
