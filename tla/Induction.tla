----------------------------- MODULE Induction -----------------------------
(***************************************************************************)
(* Induction over the naturals, and what recursion over 1..n defines, in a *)
(* form that first-order provers can use: a property is a set, a step is a *)
(* function.                                                               *)
(***************************************************************************)
EXTENDS SequencesExt, FiniteSetTheorems, SequenceTheorems, TLAPS

\* Were n missing, the numbers missing up to n would each have a predecessor
\* among them: an injection of a finite set into itself without n.
LEMMA SetInduction ==
  ASSUME NEW S, 0 \in S, \A n \in Nat : n \in S => n + 1 \in S
  PROVE  Nat \subseteq S
<1> SUFFICES ASSUME NEW n \in Nat, n \notin S PROVE FALSE
  OBVIOUS
<1> DEFINE T == {k \in 0..n : k \notin S}
           below == [k \in T |-> k - 1]
<1>1. n \in T
  OBVIOUS
<1>2. \A k \in T : k - 1 \in T \ {n}
  <2> SUFFICES ASSUME NEW k \in T PROVE k - 1 \in T \ {n}
    OBVIOUS
  <2>1. k # 0 /\ k \in 0..n
    OBVIOUS
  <2>2. k - 1 \in 0..n /\ k - 1 \in Nat /\ (k - 1) + 1 = k /\ k - 1 # n
    BY <2>1
  <2> QED
    BY <2>2
<1>3. below \in [T -> T \ {n}]
  BY <1>2
<1>4. IsFiniteSet(T) /\ Cardinality(T) \in Nat
  <2>1. IsFiniteSet(0..n)
    BY FS_Interval
  <2>2. T \in SUBSET (0..n)
    OBVIOUS
  <2> HIDE DEF T
  <2> QED
    BY <2>1, <2>2, FS_Subset, FS_CardinalityType
<1>5. IsFiniteSet(T \ {n}) /\ Cardinality(T \ {n}) = Cardinality(T) - 1
  BY <1>1, <1>4, FS_RemoveElement
<1>6. Cardinality(T \ {n}) < Cardinality(T)
  BY <1>4, <1>5
<1>7. \A x, y \in T : below[x] = below[y] => x = y
  OBVIOUS
<1> HIDE DEF below, T
<1>8. \E x, y \in T : x # y /\ below[x] = below[y]
  BY <1>3, <1>4, <1>5, <1>6, FS_PigeonHole
<1> QED
  BY <1>7, <1>8

LEMMA IntervalInduction ==
  ASSUME NEW n \in Nat, NEW S, 0 \in S, \A i \in 1..n : i - 1 \in S => i \in S
  PROVE  0..n \subseteq S
<1> DEFINE T == {k \in Nat : k <= n => k \in S}
<1>1. 0 \in T
  OBVIOUS
<1>2. \A k \in Nat : k \in T => k + 1 \in T
  <2> SUFFICES ASSUME NEW k \in Nat, k \in T, k + 1 <= n PROVE k + 1 \in S
    OBVIOUS
  <2>1. k \in S /\ k + 1 \in 1..n /\ (k + 1) - 1 = k
    OBVIOUS
  <2> QED
    BY <2>1
<1> HIDE DEF T
<1>3. Nat \subseteq T
  BY <1>1, <1>2, SetInduction
<1> QED
  BY <1>3 DEF T

\* The functions on 0..n with a first value and a step to each later one.
Recursive(n, A, a, step) ==
  {g \in [0..n -> A] : g[0] = a /\ \A i \in 1..n : g[i] = step[i][g[i - 1]]}

\* A step that is a function defines a sequence of values.
LEMMA Recursion ==
  ASSUME NEW n \in Nat, NEW A, NEW a \in A, NEW step \in [1..n -> [A -> A]]
  PROVE  \E g : g \in Recursive(n, A, a, step)
<1> DEFINE Defines(g, k) ==
             g[0] = a /\ \A i \in 1..k : g[i] = step[i][g[i - 1]]
           S == {k \in Nat : \E g \in [0..k -> A] : Defines(g, k)}
<1>1. 0 \in S
  <2>1. [i \in 0..0 |-> a] \in [0..0 -> A] /\ [i \in 0..0 |-> a][0] = a
    OBVIOUS
  <2>2. 1..0 = {}
    OBVIOUS
  <2> QED
    BY <2>1, <2>2
<1>2. ASSUME NEW k \in 1..n, k - 1 \in S
      PROVE  k \in S
  <2>1. PICK g \in [0..(k - 1) -> A] : Defines(g, k - 1)
    BY <1>2
  <2>2. g[k - 1] \in A /\ step[k][g[k - 1]] \in A
    BY <2>1
  <2> DEFINE h == [i \in 0..k |-> IF i = k THEN step[k][g[k - 1]] ELSE g[i]]
  <2>3. h \in [0..k -> A]
    BY <2>1, <2>2
  <2>4. \A i \in 0..(k - 1) : h[i] = g[i]
    OBVIOUS
  <2>5. h[0] = a
    BY <2>1, <2>4
  <2>6. ASSUME NEW i \in 1..k PROVE h[i] = step[i][h[i - 1]]
    <3>1. i - 1 \in 0..(k - 1) /\ h[i - 1] = g[i - 1]
      BY <2>4
    <3>2. CASE i = k
      <4>1. h[k] = step[k][g[k - 1]]
        OBVIOUS
      <4> QED
        BY <3>1, <3>2, <4>1
    <3>3. CASE i # k
      <4>1. i \in 1..(k - 1) /\ i \in 0..(k - 1)
        BY <3>3
      <4> QED
        BY <2>1, <2>4, <3>1, <4>1
    <3> QED
      BY <3>2, <3>3
  <2> HIDE DEF h
  <2> QED
    BY <2>3, <2>5, <2>6
<1> HIDE DEF S
<1>3. 0..n \subseteq S
  BY <1>1, <1>2, IntervalInduction
<1>4. n \in S
  BY <1>3
<1>5. PICK g \in [0..n -> A] : Defines(g, n)
  BY <1>4 DEF S
<1>6. g \in Recursive(n, A, a, step)
  BY <1>5 DEF Recursive
<1> QED
  BY <1>6
-----------------------------------------------------------------------------
(* Sequences that are put together, and what is found in them.             *)

LEMMA FlattenIs ==
  ASSUME NEW A, NEW s \in Seq(Seq(A)), NEW n \in Nat, Len(s) = n,
         NEW g \in [0..n -> Seq(A)],
         g[0] = <<>>, \A i \in 1..n : g[i] = g[i - 1] \o s[i]
  PROVE  FlattenSeq(s) = g[n]
<1>0. CASE n = 0
  <2>1. s = <<>>
    BY <1>0
  <2> QED
    BY <1>0, <2>1 DEF FlattenSeq
<1>00. CASE n # 0
  <2> DEFINE next(f, i) == IF i = 1 THEN s[i] ELSE f[i - 1] \o s[i]
             IsFlat(f) == f = [i \in 1..n |-> next(f, i)]
             F == CHOOSE f : IsFlat(f)
             h == [i \in 1..n |-> g[i]]
  <2>1. /\ 1 \in 1..n /\ \A i \in 1..n : s[i] \in Seq(A)
        /\ g[1] = s[1]
    <3>1. 1 \in 1..n /\ 1 - 1 = 0 /\ s[1] \in Seq(A)
      BY <1>00
    <3>2. g[1] = g[1 - 1] \o s[1]
      BY <3>1
    <3>3. g[1] = <<>> \o s[1]
      BY <3>1, <3>2
    <3> QED
      BY <3>1, <3>3
  <2>2. FlattenSeq(s) = F[n]
    BY <1>00, <2>1 DEF FlattenSeq
  <2>3. \A i \in 1..n : h[i] = next(h, i)
    <3> SUFFICES ASSUME NEW i \in 1..n PROVE g[i] = next(h, i)
      OBVIOUS
    <3>1. CASE i = 1
      BY <2>1, <3>1
    <3>2. CASE i # 1
      <4>1. i - 1 \in 1..n /\ h[i - 1] = g[i - 1]
        BY <2>1, <3>2
      <4> QED
        BY <3>2, <4>1
    <3> QED
      BY <3>1, <3>2
  <2>4. IsFlat(h)
    BY <2>3
  <2>5. IsFlat(F)
    <3> HIDE DEF IsFlat, h
    <3> QED
      BY <2>4
  <2> DEFINE T == {k \in 0..n : k = 0 \/ F[k] = g[k]}
  <2>6. 0 \in T
    OBVIOUS
  <2>7. ASSUME NEW i \in 1..n, i - 1 \in T PROVE i \in T
    <3>0. i \in 0..n
      OBVIOUS
    <3>1. F[i] = next(F, i)
      <4> HIDE DEF next, F
      <4> QED
        BY <2>5
    <3> HIDE DEF F
    <3>2. CASE i = 1
      BY <2>1, <3>0, <3>1, <3>2
    <3>3. CASE i # 1
      <4>1. F[i - 1] = g[i - 1]
        BY <2>7, <3>3
      <4>2. F[i] = F[i - 1] \o s[i] /\ g[i] = g[i - 1] \o s[i]
        BY <3>1, <3>3
      <4> QED
        BY <3>0, <4>1, <4>2
    <3> QED
      BY <3>2, <3>3
  <2> HIDE DEF T, F
  <2>8. 0..n \subseteq T
    BY <2>6, <2>7, IntervalInduction
  <2>9. n \in T
    BY <2>8
  <2>10. F[n] = g[n]
    BY <1>00, <2>9 DEF T
  <2> QED
    BY <2>2, <2>10
<1> QED
  BY <1>0, <1>00

\* Which there are.
LEMMA FlattenGrows ==
  ASSUME NEW A, NEW s \in Seq(Seq(A))
  PROVE  \E g \in [0..Len(s) -> Seq(A)] :
           g[0] = <<>> /\ \A i \in 1..Len(s) : g[i] = g[i - 1] \o s[i]
<1> DEFINE n == Len(s)
           step == [i \in 1..n |-> [x \in Seq(A) |-> x \o s[i]]]
<1>1. n \in Nat /\ step \in [1..n -> [Seq(A) -> Seq(A)]] /\ <<>> \in Seq(A)
  OBVIOUS
<1>2. PICK g : g \in Recursive(n, Seq(A), <<>>, step)
  <2> HIDE DEF n, step
  <2> QED
    BY <1>1, Recursion
<1>3. /\ g \in [0..n -> Seq(A)] /\ g[0] = <<>>
      /\ \A i \in 1..n : g[i] = step[i][g[i - 1]]
  <2> HIDE DEF n, step
  <2> QED
    BY <1>2 DEF Recursive
<1>4. ASSUME NEW i \in 1..n PROVE g[i] = g[i - 1] \o s[i]
  <2>1. i - 1 \in 0..n
    OBVIOUS
  <2>2. g[i - 1] \in Seq(A)
    BY <1>3, <2>1
  <2> QED
    BY <1>3, <2>2
<1> QED
  BY <1>3, <1>4

LEMMA FlattenAppend ==
  ASSUME NEW A, NEW s \in Seq(Seq(A)), NEW x \in Seq(A)
  PROVE  /\ FlattenSeq(s) \in Seq(A)
         /\ FlattenSeq(Append(s, x)) = FlattenSeq(s) \o x
<1> DEFINE t == Append(s, x)
           n == Len(s)
<1>1. n \in Nat /\ t \in Seq(Seq(A)) /\ Len(t) = n + 1 /\ t[n + 1] = x
      /\ \A i \in 1..n : t[i] = s[i]
  OBVIOUS
<1> HIDE DEF t
<1>2. PICK g \in [0..(n + 1) -> Seq(A)] :
        g[0] = <<>> /\ \A i \in 1..(n + 1) : g[i] = g[i - 1] \o t[i]
  <2>1. \E g \in [0..Len(t) -> Seq(A)] :
           g[0] = <<>> /\ \A i \in 1..Len(t) : g[i] = g[i - 1] \o t[i]
    BY <1>1, FlattenGrows
  <2> QED
    BY <1>1, <2>1
<1>3. FlattenSeq(t) = g[n + 1]
  <2>1. n + 1 \in Nat
    BY <1>1
  <2> QED
    BY <1>1, <1>2, <2>1, FlattenIs
<1> DEFINE h == [i \in 0..n |-> g[i]]
<1>4. h \in [0..n -> Seq(A)] /\ h[0] = <<>> /\ h[n] = g[n]
  BY <1>1, <1>2
<1>5. ASSUME NEW i \in 1..n PROVE h[i] = h[i - 1] \o s[i]
  <2>1. i \in 1..(n + 1) /\ i \in 0..n /\ i - 1 \in 0..n
    BY <1>1
  <2> QED
    BY <1>1, <1>2, <2>1
<1>6. FlattenSeq(s) = h[n]
  <2> HIDE DEF h
  <2> QED
    BY <1>1, <1>4, <1>5, FlattenIs
<1>7. g[n + 1] = g[n] \o x
  <2>1. n + 1 \in 1..(n + 1) /\ (n + 1) - 1 = n
    BY <1>1
  <2> QED
    BY <1>1, <1>2, <2>1
<1> QED
  BY <1>1, <1>2, <1>3, <1>4, <1>6, <1>7 DEF t

\* The least of some numbers up to n.
LEMMA LeastIs ==
  ASSUME NEW n \in Nat, NEW S \in SUBSET (1..n), S # {}
  PROVE  Min(S) \in S /\ \A x \in S : Min(S) <= x
<1>1. \E x \in S : \A y \in S : x <= y
  <2> SUFFICES ASSUME \A x \in S : \E y \in S : ~(x <= y) PROVE FALSE
    OBVIOUS
  <2> DEFINE T == {k \in 0..n : \A x \in S : ~(x <= k)}
  <2>1. 0 \in T
    OBVIOUS
  <2>2. ASSUME NEW i \in 1..n, i - 1 \in T PROVE i \in T
    <3>1. i \in 0..n /\ \A x \in S : x \in Int /\ ~(x <= i - 1)
      BY <2>2
    <3>2. i \notin S
      <4>1. ASSUME i \in S PROVE FALSE
        <5>1. PICK y \in S : ~(i <= y)
          BY <4>1
        <5> QED
          BY <3>1, <5>1
      <4> QED
        BY <4>1
    <3> QED
      BY <3>1, <3>2
  <2> HIDE DEF T
  <2>3. 0..n \subseteq T
    BY <2>1, <2>2, IntervalInduction
  <2>4. n \in T
    BY <2>3
  <2>5. \A x \in S : x <= n
    OBVIOUS
  <2> QED
    BY <2>4, <2>5 DEF T
<1> QED
  BY <1>1 DEF Min

\* The elements of a flattened sequence are those of its parts, and all of them.
LEMMA FlattenFrom ==
  ASSUME NEW A, NEW s \in Seq(Seq(A))
  PROVE  /\ FlattenSeq(s) \in Seq(A)
         /\ \A k \in 1..Len(FlattenSeq(s)) :
              \E c \in 1..Len(s) : \E j \in 1..Len(s[c]) : FlattenSeq(s)[k] = s[c][j]
         /\ FlattenSeq(s) = <<>> => \A c \in 1..Len(s) : s[c] = <<>>
<1> DEFINE n == Len(s)
           Of(t, m) == /\ \A k \in 1..Len(t) :
                            \E c \in 1..m : \E j \in 1..Len(s[c]) : t[k] = s[c][j]
                       /\ t = <<>> => \A c \in 1..m : s[c] = <<>>
<1>1. n \in Nat /\ \A c \in 1..n : s[c] \in Seq(A)
  OBVIOUS
<1>2. PICK g \in [0..n -> Seq(A)] : g[0] = <<>> /\ \A i \in 1..n : g[i] = g[i - 1] \o s[i]
  BY FlattenGrows
<1>3. FlattenSeq(s) = g[n]
  BY <1>1, <1>2, FlattenIs
<1> DEFINE T == {m \in 0..n : Of(g[m], m)}
<1>4. 0 \in T
  BY <1>1, <1>2
<1>5. ASSUME NEW i \in 1..n, i - 1 \in T PROVE i \in T
  <2> DEFINE t == g[i - 1]
             x == s[i]
  <2>1. /\ i - 1 \in 0..n /\ i \in 0..n /\ Of(t, i - 1) /\ g[i] = t \o x
        /\ t \in Seq(A) /\ x \in Seq(A)
    <3>1. i - 1 \in 0..n /\ i \in 0..n
      BY <1>1
    <3> QED
      BY <1>1, <1>2, <1>5, <3>1
  <2> HIDE DEF t
  <2>2. ASSUME NEW k \in 1..Len(t \o x)
        PROVE  \E c \in 1..i : \E j \in 1..Len(s[c]) : (t \o x)[k] = s[c][j]
    <3>1. CASE k \in 1..Len(t)
      <4>1. (t \o x)[k] = t[k]
        BY <2>1, <3>1
      <4>2. PICK c \in 1..(i - 1) : \E j \in 1..Len(s[c]) : t[k] = s[c][j]
        BY <2>1, <3>1
      <4>3. c \in 1..i
        BY <1>1
      <4> QED
        BY <4>1, <4>2, <4>3
    <3>2. CASE k \notin 1..Len(t)
      <4>1. k - Len(t) \in 1..Len(x) /\ (t \o x)[k] = x[k - Len(t)]
        BY <2>1, <3>2
      <4>2. i \in 1..i
        BY <1>1
      <4> QED
        BY <4>1, <4>2
    <3> QED
      BY <3>1, <3>2
  <2>3. t \o x = <<>> => \A c \in 1..i : s[c] = <<>>
    <3> SUFFICES ASSUME t \o x = <<>>, NEW c \in 1..i PROVE s[c] = <<>>
      OBVIOUS
    <3>1. t = <<>> /\ x = <<>>
      BY <2>1, ConcatEmptySeq
    <3>2. c \in 1..(i - 1) \/ c = i
      BY <1>1
    <3> QED
      BY <2>1, <3>1, <3>2
  <2>4. Of(g[i], i)
    <3> HIDE DEF x
    <3> QED
      BY <2>1, <2>2, <2>3
  <2> HIDE DEF Of
  <2> QED
    BY <2>1, <2>4
<1> HIDE DEF T, Of
<1>6. 0..n \subseteq T
  BY <1>1, <1>4, <1>5, IntervalInduction
<1>7. n \in T
  BY <1>1, <1>6
<1>8. Of(g[n], n) /\ g[n] \in Seq(A)
  BY <1>1, <1>2, <1>7 DEF T
<1> QED
  BY <1>3, <1>8 DEF Of

LEMMA FlattenOne ==
  ASSUME NEW A, NEW x \in Seq(A)
  PROVE  FlattenSeq([b \in 1..1 |-> x]) = x
<1>1. [b \in 1..1 |-> x] = Append(<<>>, x)
  OBVIOUS
<1>2. <<>> \in Seq(Seq(A)) /\ FlattenSeq(<<>>) = <<>>
  BY DEF FlattenSeq
<1>3. FlattenSeq(Append(<<>>, x)) = FlattenSeq(<<>>) \o x
  BY <1>2, FlattenAppend
<1> QED
  BY <1>1, <1>2, <1>3

\* A sequence over a part is one over the whole.
LEMMA Widened ==
  ASSUME NEW A, NEW B, A \subseteq B, NEW s \in Seq(A)
  PROVE  s \in Seq(B)
<1> DEFINE n == Len(s)
<1>1. n \in Nat /\ s \in [1..n -> A]
  OBVIOUS
<1> HIDE DEF n
<1>2. s \in [1..n -> B]
  BY <1>1
<1> QED
  BY <1>1, <1>2
=============================================================================
