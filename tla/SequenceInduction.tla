------------------------- MODULE SequenceInduction -------------------------
(***************************************************************************)
(* Induction on the natural numbers in a form without operators as         *)
(* parameters: for sets in place of predicates.  From it, what recursive   *)
(* functions on an interval compute, which is what sums and concatenations *)
(* over a sequence are made of.                                            *)
(***************************************************************************)
EXTENDS Integers, Sequences, SequencesExt, SequenceTheorems, WellFoundedInduction, TLAPS

(* A set of natural numbers has a smallest element.                        *)
LEMMA Smallest ==
  ASSUME NEW T \in SUBSET Nat, T # {}
  PROVE  \E x \in T : \A y \in T : x <= y
<1> DEFINE R == {ss \in Nat \X Nat : ss[1] < ss[2]}
<1>1. IsWellFoundedOn(R, Nat)
  BY NatLessThanWellFounded, Zenon DEF OpToRel
<1>2. \E x \in T : \A y \in T : ~ (<<y, x>> \in R)
  <2> HIDE DEF R
  <2> QED BY <1>1, WFMin
<1>3. \A x, y \in T : ~(<<y, x>> \in R) => x <= y
  OBVIOUS
<1> QED BY <1>2, <1>3

(* Induction.                                                              *)
LEMMA SetInduction ==
  ASSUME NEW S, 0 \in S, \A n \in Nat : n \in S => n + 1 \in S
  PROVE  Nat \subseteq S
<1> DEFINE T == Nat \ S
<1>1. SUFFICES ASSUME T # {} PROVE FALSE
  OBVIOUS
<1>2. PICK x \in T : \A y \in T : x <= y
  BY <1>1, Smallest
<1>3. x # 0 /\ x - 1 \in Nat /\ x - 1 \notin T
  BY <1>2
<1> QED BY <1>2, <1>3

(* The same up to a bound.                                                 *)
LEMMA BoundedInduction ==
  ASSUME NEW m \in Nat, NEW S, 0 \in S, \A n \in 0 .. m - 1 : n \in S => n + 1 \in S
  PROVE  0 .. m \subseteq S
<1> DEFINE T == {n \in Nat : n <= m => n \in S}
<1>1. 0 \in T
  OBVIOUS
<1>2. ASSUME NEW n \in Nat, n \in T PROVE n + 1 \in T
  BY <1>2
<1>3. Nat \subseteq T
  <2> HIDE DEF T
  <2> QED BY <1>1, <1>2, SetInduction
<1> QED BY <1>3

-----------------------------------------------------------------------------
(* g starts with c and goes on as next says.                               *)
Computes(g, c, next, m) ==
  /\ g[0] = c
  /\ \A k \in 1 .. m : g[k] = next[k][g[k - 1]]

(* There is such a function.                                               *)
LEMMA RecursionExists ==
  ASSUME NEW V, NEW c \in V, NEW m \in Nat, NEW next \in [1 .. m -> [V -> V]]
  PROVE  \E g \in [0 .. m -> V] : Computes(g, c, next, m)
<1> DEFINE S == {n \in Nat : \E g \in [0 .. n -> V] : Computes(g, c, next, n)}
<1>1. 0 \in S
  <2> DEFINE g == [k \in 0 .. 0 |-> c]
  <2>1. g \in [0 .. 0 -> V] /\ Computes(g, c, next, 0)
    BY DEF Computes
  <2> HIDE DEF g
  <2> QED BY <2>1
<1>2. ASSUME NEW n \in 0 .. m - 1, n \in S PROVE n + 1 \in S
  <2>1. PICK g \in [0 .. n -> V] : Computes(g, c, next, n)
    BY <1>2
  <2> DEFINE h == [k \in 0 .. n + 1 |-> IF k = n + 1 THEN next[n + 1][g[n]] ELSE g[k]]
  <2>2. n + 1 \in 1 .. m /\ g[n] \in V /\ next[n + 1] \in [V -> V]
    BY <2>1
  <2>3. h \in [0 .. n + 1 -> V]
    BY <2>1, <2>2
  <2>4. Computes(h, c, next, n + 1)
    <3>1. h[0] = c
      BY <2>1 DEF Computes
    <3>2. ASSUME NEW k \in 1 .. n PROVE h[k] = next[k][h[k - 1]]
      <4>1. h[k] = g[k] /\ h[k - 1] = g[k - 1]
        BY <3>2
      <4> QED BY <2>1, <4>1 DEF Computes
    <3>3. h[n + 1] = next[n + 1][h[n]]
      OBVIOUS
    <3> HIDE DEF h
    <3> QED BY <3>1, <3>2, <3>3 DEF Computes
  <2> HIDE DEF h
  <2> QED BY <2>3, <2>4
<1>3. 0 .. m \subseteq S
  <2> HIDE DEF S
  <2> QED BY <1>1, <1>2, BoundedInduction
<1>4. m \in S
  BY <1>3
<1> QED BY <1>4

-----------------------------------------------------------------------------
(* Concatenation of the elements of a sequence.                            *)

(* FlattenSeq(s) is what g comes to, if g joins the elements of s one by   *)
(* one.                                                                    *)
Joins(S, s, g) ==
  /\ g \in [0 .. Len(s) -> Seq(S)]
  /\ g[0] = <<>>
  /\ \A k \in 1 .. Len(s) : g[k] = g[k - 1] \o s[k]

LEMMA FlattenIs ==
  ASSUME NEW S, NEW s \in Seq(Seq(S)), NEW g, Joins(S, s, g)
  PROVE  FlattenSeq(s) = g[Len(s)]
<1> DEFINE m == Len(s)
           Rec(u) == u = [i \in 1 .. m |-> IF i = 1 THEN s[i] ELSE u[i - 1] \o s[i]]
           flatten == CHOOSE u : Rec(u)
           f == [i \in 1 .. m |-> g[i]]
<1>1. m \in Nat
  OBVIOUS
<1>2. CASE m = 0
  <2>1. s = <<>> /\ g[0] = <<>>
    BY <1>2 DEF Joins
  <2> QED BY <1>2, <2>1 DEF FlattenSeq
<1>3. CASE m # 0
  <2>1. Rec(f)
    <3>1. \A i \in 1 .. m : g[i] = IF i = 1 THEN s[i] ELSE f[i - 1] \o s[i]
      <4> SUFFICES ASSUME NEW i \in 1 .. m
                   PROVE  g[i] = IF i = 1 THEN s[i] ELSE f[i - 1] \o s[i]
        OBVIOUS
      <4>1. g[i] = g[i - 1] \o s[i] /\ s[i] \in Seq(S)
        <5>1. s[i] \in Seq(S)
          OBVIOUS
        <5> QED BY <5>1 DEF Joins
      <4>2. CASE i = 1
        <5>1. g[i - 1] = <<>>
          BY <4>2 DEF Joins
        <5> QED BY <4>1, <4>2, <5>1, ConcatEmptySeq
      <4>3. CASE i # 1
        <5>1. i - 1 \in 1 .. m
          BY <1>1, <4>3
        <5>2. f[i - 1] = g[i - 1]
          BY <5>1
        <5> HIDE DEF f
        <5> QED BY <4>1, <4>3, <5>2
      <4> QED BY <4>2, <4>3
    <3> DEFINE r == [i \in 1 .. m |-> IF i = 1 THEN s[i] ELSE f[i - 1] \o s[i]]
    <3>2. \A i \in 1 .. m : f[i] = r[i]
      <4>1. \A i \in 1 .. m : f[i] = g[i]
        OBVIOUS
      <4> HIDE DEF f
      <4> QED BY <3>1, <4>1
    <3> QED BY <3>2
  <2>2. Rec(flatten)
    <3> HIDE DEF f
    <3> QED BY <2>1
  <2>3. FlattenSeq(s) = flatten[m]
    BY <1>3 DEF FlattenSeq
  <2>4. \A i \in 1 .. m : flatten[i] = IF i = 1 THEN s[i] ELSE flatten[i - 1] \o s[i]
    <3> HIDE DEF flatten
    <3> QED BY <1>1, <2>2
  <2>5. \A i \in 1 .. m : f[i] = IF i = 1 THEN s[i] ELSE f[i - 1] \o s[i]
    <3> HIDE DEF f
    <3> QED BY <1>1, <2>1
  <2>6. m \in 1 .. m /\ f[m] = g[m]
    BY <1>1, <1>3
  <2> HIDE DEF flatten, f, m
  <2> DEFINE T == {k \in 0 .. m : k = 0 \/ flatten[k] = f[k]}
  <2>7. 0 \in T
    BY <1>1
  <2>8. ASSUME NEW k \in 0 .. m - 1, k \in T PROVE k + 1 \in T
    <3>1. k + 1 \in 1 .. m /\ (k + 1) - 1 = k /\ k + 1 \in 0 .. m
      BY <1>1
    <3>2. /\ flatten[k + 1] = IF k + 1 = 1 THEN s[k + 1] ELSE flatten[k] \o s[k + 1]
          /\ f[k + 1] = IF k + 1 = 1 THEN s[k + 1] ELSE f[k] \o s[k + 1]
      BY <2>4, <2>5, <3>1
    <3>3. k + 1 = 1 \/ flatten[k] = f[k]
      BY <2>8
    <3>4. flatten[k + 1] = f[k + 1]
      BY <3>2, <3>3
    <3> QED BY <3>1, <3>4
  <2>9. 0 .. m \subseteq T
    <3> HIDE DEF T
    <3> QED BY <1>1, <2>7, <2>8, BoundedInduction
  <2>10. m \in T
    <3> HIDE DEF T
    <3> QED BY <1>1, <2>6, <2>9
  <2> QED BY <1>1, <1>3, <2>3, <2>6, <2>10 DEF m
<1> QED BY <1>2, <1>3

LEMMA FlattenJoins ==
  ASSUME NEW S, NEW s \in Seq(Seq(S))
  PROVE  \E g : Joins(S, s, g)
<1> DEFINE m == Len(s)
           next == [k \in 1 .. m |-> [x \in Seq(S) |-> x \o s[k]]]
<1>1. m \in Nat /\ <<>> \in Seq(S)
  OBVIOUS
<1>2. next \in [1 .. m -> [Seq(S) -> Seq(S)]]
  <2>1. ASSUME NEW k \in 1 .. m, NEW x \in Seq(S) PROVE x \o s[k] \in Seq(S)
    <3>1. s[k] \in Seq(S)
      OBVIOUS
    <3> QED BY <3>1
  <2> HIDE DEF m
  <2> QED BY <2>1
<1>3. PICK g \in [0 .. m -> Seq(S)] : Computes(g, <<>>, next, m)
  <2> HIDE DEF next, m
  <2> QED BY <1>1, <1>2, RecursionExists
<1>4. ASSUME NEW k \in 1 .. m PROVE g[k] = g[k - 1] \o s[k]
  <2>1. g[k - 1] \in Seq(S)
    <3>1. k - 1 \in 0 .. m
      BY <1>1
    <3> HIDE DEF m
    <3> QED BY <1>3, <3>1
  <2>2. g[k] = next[k][g[k - 1]]
    BY <1>3 DEF Computes
  <2>3. next[k] = [x \in Seq(S) |-> x \o s[k]]
    OBVIOUS
  <2> HIDE DEF next, m
  <2> QED BY <2>1, <2>2, <2>3
<1> QED BY <1>3, <1>4 DEF Joins, Computes

LEMMA FlattenType ==
  ASSUME NEW S, NEW s \in Seq(Seq(S))
  PROVE  FlattenSeq(s) \in Seq(S)
<1>1. PICK g : Joins(S, s, g)
  BY FlattenJoins
<1>2. FlattenSeq(s) = g[Len(s)]
  BY <1>1, FlattenIs
<1>3. Len(s) \in 0 .. Len(s)
  OBVIOUS
<1>4. g \in [0 .. Len(s) -> Seq(S)]
  BY <1>1 DEF Joins
<1> QED BY <1>2, <1>3, <1>4

LEMMA FlattenAppend ==
  ASSUME NEW S, NEW s \in Seq(Seq(S)), NEW e \in Seq(S)
  PROVE  FlattenSeq(Append(s, e)) = FlattenSeq(s) \o e
<1>1. PICK g : Joins(S, s, g)
  BY FlattenJoins
<1> DEFINE m == Len(s)
           t == Append(s, e)
           h == [k \in 0 .. m + 1 |-> IF k = m + 1 THEN g[m] \o e ELSE g[k]]
<1>2. /\ m \in Nat /\ t \in Seq(Seq(S)) /\ Len(t) = m + 1 /\ t[m + 1] = e
      /\ \A k \in 1 .. m : t[k] = s[k]
  OBVIOUS
<1>3. /\ g \in [0 .. m -> Seq(S)] /\ g[0] = <<>> /\ g[m] \in Seq(S)
      /\ \A k \in 1 .. m : g[k] = g[k - 1] \o s[k]
  <2>1. m \in 0 .. m
    BY <1>2
  <2>2. /\ g \in [0 .. m -> Seq(S)] /\ g[0] = <<>>
        /\ \A k \in 1 .. m : g[k] = g[k - 1] \o s[k]
    BY <1>1 DEF Joins
  <2> HIDE DEF m
  <2> QED BY <2>1, <2>2
<1> HIDE DEF t, m
<1>4. g[m] \o e \in Seq(S)
  BY <1>3
<1>5. /\ h \in [0 .. m + 1 -> Seq(S)] /\ h[0] = <<>> /\ h[m + 1] = g[m] \o e
      /\ \A k \in 0 .. m : h[k] = g[k]
  BY <1>2, <1>3, <1>4
<1> HIDE DEF h
<1>6. ASSUME NEW k \in 1 .. m + 1 PROVE h[k] = h[k - 1] \o t[k]
  <2>1. k - 1 \in 0 .. m
    BY <1>2
  <2>2. CASE k = m + 1
    <3>1. k - 1 = m
      BY <1>2, <2>2
    <3> QED BY <1>2, <1>5, <2>1, <2>2, <3>1
  <2>3. CASE k # m + 1
    <3>1. k \in 1 .. m /\ k \in 0 .. m
      BY <1>2, <2>3
    <3> QED BY <1>2, <1>3, <1>5, <2>1, <3>1
  <2> QED BY <2>2, <2>3
<1>7. Joins(S, t, h)
  BY <1>2, <1>5, <1>6 DEF Joins
<1>8. FlattenSeq(t) = h[m + 1]
  BY <1>2, <1>7, FlattenIs
<1>9. FlattenSeq(s) = g[m]
  BY <1>1, FlattenIs DEF m
<1> QED BY <1>5, <1>8, <1>9 DEF t

LEMMA RangeJoin ==
  ASSUME NEW S, NEW s \in Seq(S), NEW t \in Seq(S)
  PROVE  Range(s \o t) = Range(s) \cup Range(t)
<1>1. \A x \in Range(s \o t) : x \in Range(s) \cup Range(t)
  BY DEF Range
<1>2. \A x \in Range(s) : x \in Range(s \o t)
  <2> SUFFICES ASSUME NEW i \in DOMAIN s PROVE s[i] \in Range(s \o t)
    BY DEF Range
  <2> QED BY DEF Range
<1>3. \A x \in Range(t) : x \in Range(s \o t)
  <2> SUFFICES ASSUME NEW i \in DOMAIN t PROVE t[i] \in Range(s \o t)
    BY DEF Range
  <2>1. i + Len(s) \in DOMAIN (s \o t) /\ (s \o t)[i + Len(s)] = t[i]
    OBVIOUS
  <2> QED BY <2>1 DEF Range
<1> QED BY <1>1, <1>2, <1>3

LEMMA FlattenRange ==
  ASSUME NEW S, NEW s \in Seq(Seq(S))
  PROVE  \A x : x \in Range(FlattenSeq(s)) <=> \E i \in DOMAIN s : x \in Range(s[i])
<1>1. PICK g : Joins(S, s, g)
  BY FlattenJoins
<1> DEFINE m == Len(s)
           Ok(k) == \A x : x \in Range(g[k]) <=> \E i \in 1 .. k : x \in Range(s[i])
           T == {k \in 0 .. m : Ok(k)}
<1>2. /\ m \in Nat /\ g \in [0 .. m -> Seq(S)] /\ g[0] = <<>>
      /\ \A k \in 1 .. m : g[k] = g[k - 1] \o s[k]
  BY <1>1 DEF Joins
<1>3. \A k \in 1 .. m : s[k] \in Seq(S)
  OBVIOUS
<1>4. DOMAIN s = 1 .. m
  OBVIOUS
<1> HIDE DEF m
<1>5. 0 \in T
  <2>1. Range(g[0]) = {} /\ 1 .. 0 = {}
    BY <1>2 DEF Range
  <2> QED BY <1>2, <2>1
<1>6. ASSUME NEW k \in 0 .. m - 1, k \in T PROVE k + 1 \in T
  <2>1. k + 1 \in 1 .. m /\ k \in 0 .. m /\ (k + 1) - 1 = k /\ k + 1 \in 0 .. m
    BY <1>2
  <2>2. g[k + 1] = g[k] \o s[k + 1] /\ g[k] \in Seq(S) /\ s[k + 1] \in Seq(S)
    BY <1>2, <1>3, <2>1
  <2>3. Range(g[k + 1]) = Range(g[k]) \cup Range(s[k + 1])
    BY <2>2, RangeJoin
  <2>4. \A i : i \in 1 .. k + 1 <=> i \in 1 .. k \/ i = k + 1
    BY <2>1
  <2>5. Ok(k)
    BY <1>6
  <2>6. Ok(k + 1)
    BY <2>3, <2>4, <2>5, Zenon
  <2> QED BY <2>1, <2>6
<1>7. 0 .. m \subseteq T
  <2> HIDE DEF T
  <2> QED BY <1>2, <1>5, <1>6, BoundedInduction
<1>8. m \in 0 .. m
  BY <1>2
<1>9. Ok(m)
  BY <1>7, <1>8
<1>10. FlattenSeq(s) = g[m]
  BY <1>1, FlattenIs DEF m
<1> QED BY <1>4, <1>9, <1>10

(* Joined one after the other.                                             *)
LEMMA FlattenNone ==
  ASSUME NEW S, NEW s \in Seq(Seq(S)), \A i \in DOMAIN s : s[i] = <<>>
  PROVE  FlattenSeq(s) = <<>>
<1>1. FlattenSeq(s) \in Seq(S)
  BY FlattenType
<1>2. \A i \in DOMAIN s : Range(s[i]) = {}
  BY DEF Range
<1>3. \A x : x \notin Range(FlattenSeq(s))
  BY <1>2, FlattenRange
<1>4. PICK r \in Seq(S) : r = FlattenSeq(s)
  BY <1>1
<1>5. r = <<>>
  <2> SUFFICES ASSUME r # <<>> PROVE FALSE
    OBVIOUS
  <2>1. 1 \in DOMAIN r
    OBVIOUS
  <2> QED BY <1>3, <1>4, <2>1 DEF Range
<1> QED BY <1>4, <1>5

LEMMA FlattenEmpty == FlattenSeq(<<>>) = <<>>
<1>1. PICK S : S = Nat
  OBVIOUS
<1>2. PICK s : s = <<>>
  OBVIOUS
<1>3. s \in Seq(Seq(S)) /\ \A i \in DOMAIN s : s[i] = <<>>
  BY <1>2
<1>4. FlattenSeq(s) = <<>>
  BY <1>3, FlattenNone
<1> QED BY <1>2, <1>4

LEMMA FlattenOne ==
  ASSUME NEW S, NEW e \in Seq(S)
  PROVE  FlattenSeq(<<e>>) = e
<1>1. <<>> \in Seq(Seq(S)) /\ FlattenSeq(<<>>) = <<>>
  BY FlattenEmpty
<1>2. FlattenSeq(Append(<<>>, e)) = <<>> \o e
  BY <1>1, FlattenAppend
<1>3. Append(<<>>, e) = <<e>> /\ <<>> \o e = e
  BY ConcatEmptySeq
<1> QED BY <1>2, <1>3

LEMMA JoinAssoc ==
  ASSUME NEW S, NEW a \in Seq(S), NEW b \in Seq(S), NEW c \in Seq(S)
  PROVE  (a \o b) \o c = a \o (b \o c)
BY ConcatAssociative

LEMMA AppendJoin ==
  ASSUME NEW S, NEW s \in Seq(S), NEW t \in Seq(S), NEW e \in S
  PROVE  s \o Append(t, e) = Append(s \o t, e)
OBVIOUS

LEMMA PrefixStep ==
  ASSUME NEW S, NEW t \in Seq(S), NEW k \in 0 .. Len(t) - 1
  PROVE  /\ SubSeq(t, 1, k) \in Seq(S) /\ t[k + 1] \in S
         /\ SubSeq(t, 1, k + 1) = Append(SubSeq(t, 1, k), t[k + 1])
OBVIOUS

LEMMA FlattenBothStep ==
  ASSUME NEW S, NEW s \in Seq(Seq(S)), NEW u \in Seq(Seq(S)), NEW e \in Seq(S),
         FlattenSeq(s \o u) = FlattenSeq(s) \o FlattenSeq(u)
  PROVE  FlattenSeq(s \o Append(u, e)) = FlattenSeq(s) \o FlattenSeq(Append(u, e))
<1>1. s \o Append(u, e) = Append(s \o u, e) /\ s \o u \in Seq(Seq(S))
  BY AppendJoin
<1>2. FlattenSeq(Append(s \o u, e)) = FlattenSeq(s \o u) \o e
  BY <1>1, FlattenAppend
<1>3. FlattenSeq(Append(u, e)) = FlattenSeq(u) \o e
  BY FlattenAppend
<1>4. FlattenSeq(s) \in Seq(S) /\ FlattenSeq(u) \in Seq(S)
  BY FlattenType
<1>5. (FlattenSeq(s) \o FlattenSeq(u)) \o e = FlattenSeq(s) \o (FlattenSeq(u) \o e)
  BY <1>4, JoinAssoc
<1> QED BY <1>1, <1>2, <1>3, <1>5

LEMMA FlattenBoth ==
  ASSUME NEW S, NEW s \in Seq(Seq(S)), NEW t \in Seq(Seq(S))
  PROVE  FlattenSeq(s \o t) = FlattenSeq(s) \o FlattenSeq(t)
<1> DEFINE Ok(k) == FlattenSeq(s \o SubSeq(t, 1, k)) = FlattenSeq(s) \o FlattenSeq(SubSeq(t, 1, k))
           T == {k \in 0 .. Len(t) : Ok(k)}
<1>1. FlattenSeq(s) \in Seq(S)
  BY FlattenType
<1>2. 0 \in T
  <2>1. SubSeq(t, 1, 0) = <<>> /\ s \o <<>> = s /\ FlattenSeq(s) \o <<>> = FlattenSeq(s) /\ 0 \in 0 .. Len(t)
    BY <1>1, ConcatEmptySeq
  <2>2. FlattenSeq(<<>>) = <<>>
    BY FlattenEmpty
  <2> QED BY <2>1, <2>2
<1>3. ASSUME NEW k \in 0 .. Len(t) - 1, k \in T PROVE k + 1 \in T
  <2>1. PICK u : u = SubSeq(t, 1, k)
    OBVIOUS
  <2>2. u \in Seq(Seq(S)) /\ t[k + 1] \in Seq(S) /\ SubSeq(t, 1, k + 1) = Append(u, t[k + 1])
    BY <2>1, PrefixStep
  <2>3. FlattenSeq(s \o u) = FlattenSeq(s) \o FlattenSeq(u)
    BY <1>3, <2>1
  <2>4. Ok(k + 1)
    BY <2>2, <2>3, FlattenBothStep
  <2>5. k + 1 \in 0 .. Len(t)
    OBVIOUS
  <2> HIDE DEF Ok
  <2> QED BY <2>4, <2>5
<1>4. Len(t) \in Nat
  OBVIOUS
<1>5. 0 .. Len(t) \subseteq T
  <2> HIDE DEF T
  <2> QED BY <1>2, <1>3, <1>4, BoundedInduction
<1>6. Ok(Len(t))
  BY <1>4, <1>5
<1>7. SubSeq(t, 1, Len(t)) = t
  OBVIOUS
<1> QED BY <1>6, <1>7
=============================================================================
