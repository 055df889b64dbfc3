---------------------------- MODULE Inductions -----------------------------
(***************************************************************************)
(* Induction for sets of numbers, and what folds over data compute:        *)
(* FlattenSeq and sums, for the proofs about the modules that fold.        *)
(***************************************************************************)
EXTENDS Integers, Sequences, FiniteSets, SequencesExt, SequenceTheorems,
        FiniteSetTheorems, WellFoundedInduction, TLAPS

(* A set of naturals that is not empty has a least element ...             *)
LEMMA LeastNatural ==
    ASSUME NEW T \in SUBSET Nat, T # {}
    PROVE  \E n \in T : \A m \in T : n <= m
<1>1. PICK n \in T : \A m \in T : <<m, n>> \notin OpToRel(<, Nat)
  BY NatLessThanWellFounded, WFMin
<1>2. \A m \in T : ~(m < n)
  BY <1>1 DEF OpToRel
<1> QED BY <1>2

(* ... so that a set that holds 0, and n + 1 with n, holds all of them.    *)
LEMMA SetInduction ==
    ASSUME NEW S, 0 \in S, \A n \in Nat : n \in S => n + 1 \in S
    PROVE  \A n \in Nat : n \in S
<1> SUFFICES ASSUME Nat \ S # {} PROVE FALSE
  OBVIOUS
<1>1. PICK n \in Nat \ S : \A m \in Nat \ S : n <= m
  BY LeastNatural
<1>2. n # 0 /\ n - 1 \in Nat /\ n - 1 \in S
  BY <1>1
<1> QED BY <1>1, <1>2

-----------------------------------------------------------------------------
(* FlattenSeq, by its recursion.                                           *)

IsFlatten(f, ss) ==
    f = [i \in 1 .. Len(ss) |-> IF i = 1 THEN ss[i] ELSE f[i - 1] \o ss[i]]

(* The function that FlattenSeq defines exists: one for every length.      *)
LEMMA FlattenExists ==
    ASSUME NEW S, NEW ss \in Seq(Seq(S))
    PROVE  \E f \in [1 .. Len(ss) -> Seq(S)] : IsFlatten(f, ss)
<1> DEFINE P(n, f) == \A i \in 1 .. n : f[i] = IF i = 1 THEN ss[i] ELSE f[i - 1] \o ss[i]
           D == {n \in Nat : n <= Len(ss) => \E f \in [1 .. n -> Seq(S)] : P(n, f)}
<1>0. Len(ss) \in Nat /\ \A i \in 1 .. Len(ss) : ss[i] \in Seq(S)
  OBVIOUS
<1>d. \A n \in Nat : n \in D <=> (n <= Len(ss) => \E f \in [1 .. n -> Seq(S)] : P(n, f))
  OBVIOUS
<1> HIDE DEF D
<1>1. 0 \in D
  <2>1. [i \in 1 .. 0 |-> <<>>] \in [1 .. 0 -> Seq(S)] /\ P(0, [i \in 1 .. 0 |-> <<>>])
    OBVIOUS
  <2> QED BY <1>d, <2>1
<1>2. ASSUME NEW n \in Nat, n \in D PROVE n + 1 \in D
  <2> SUFFICES ASSUME n + 1 <= Len(ss) PROVE \E f \in [1 .. n + 1 -> Seq(S)] : P(n + 1, f)
    <3> HIDE DEF P
    <3>1. n + 1 \in Nat
      OBVIOUS
    <3> QED BY <1>d, <3>1
  <2>1. PICK f \in [1 .. n -> Seq(S)] : P(n, f)
    <3> HIDE DEF P
    <3>1. n <= Len(ss)
      BY <1>0
    <3> QED BY <1>2, <1>d, <3>1
  <2> DEFINE v == IF n = 0 THEN ss[n + 1] ELSE f[n] \o ss[n + 1]
             g == [i \in 1 .. n + 1 |-> IF i = n + 1 THEN v ELSE f[i]]
  <2>2. v \in Seq(S)
    <3>1. ss[n + 1] \in Seq(S)
      BY <1>0
    <3>2. n # 0 => f[n] \in Seq(S)
      OBVIOUS
    <3> QED BY <3>1, <3>2
  <2>3. g \in [1 .. n + 1 -> Seq(S)]
    BY <2>2
  <2>4. ASSUME NEW i \in 1 .. n + 1
        PROVE  g[i] = IF i = 1 THEN ss[i] ELSE g[i - 1] \o ss[i]
    <3>1. CASE i = n + 1
      BY <3>1
    <3>2. CASE i # n + 1
      <4>1. i \in 1 .. n /\ g[i] = f[i] /\ (i # 1 => i - 1 \in 1 .. n /\ g[i - 1] = f[i - 1])
        BY <3>2
      <4> QED BY <2>1, <4>1
    <3> QED BY <3>1, <3>2
  <2> QED BY <2>3, <2>4
<1>3. \A n \in Nat : n \in D
  BY <1>1, <1>2, SetInduction
<1>4. PICK f \in [1 .. Len(ss) -> Seq(S)] : P(Len(ss), f)
  <2> HIDE DEF P
  <2> QED BY <1>0, <1>3, <1>d
<1>5. f = [i \in 1 .. Len(ss) |-> IF i = 1 THEN ss[i] ELSE f[i - 1] \o ss[i]]
  BY <1>4
<1> QED BY <1>5 DEF IsFlatten

LEMMA FlattenValue ==
    ASSUME NEW S, NEW ss \in Seq(Seq(S)), ss # <<>>
    PROVE  \E f : /\ IsFlatten(f, ss) /\ FlattenSeq(ss) = f[Len(ss)]
<1>1. PICK g : g = [i \in 1 .. Len(ss) |-> IF i = 1 THEN ss[i] ELSE g[i - 1] \o ss[i]]
  <2>1. PICK g \in [1 .. Len(ss) -> Seq(S)] : IsFlatten(g, ss)
    BY FlattenExists
  <2> QED BY <2>1 DEF IsFlatten
<1> DEFINE f == CHOOSE h : h = [i \in 1 .. Len(ss) |-> IF i = 1 THEN ss[i] ELSE h[i - 1] \o ss[i]]
<1>2. f = [i \in 1 .. Len(ss) |-> IF i = 1 THEN ss[i] ELSE f[i - 1] \o ss[i]]
  BY <1>1
<1>3. FlattenSeq(ss) = f[Len(ss)]
  BY DEF FlattenSeq
<1> QED BY <1>2, <1>3 DEF IsFlatten

LEMMA FlattenSteps ==
    ASSUME NEW S, NEW ss \in Seq(Seq(S)), ss # <<>>
    PROVE  \E f : /\ FlattenSeq(ss) = f[Len(ss)]
                  /\ f[1] = ss[1]
                  /\ \A i \in 1 .. Len(ss) : i + 1 \in 1 .. Len(ss) => f[i + 1] = f[i] \o ss[i + 1]
<1>1. PICK f : IsFlatten(f, ss) /\ FlattenSeq(ss) = f[Len(ss)]
  BY FlattenValue
<1>2. f = [i \in 1 .. Len(ss) |-> IF i = 1 THEN ss[i] ELSE f[i - 1] \o ss[i]]
  BY <1>1 DEF IsFlatten
<1>3. 1 \in 1 .. Len(ss) /\ Len(ss) \in Nat
  OBVIOUS
<1>4. f[1] = ss[1]
  BY <1>2, <1>3
<1>5. ASSUME NEW i \in 1 .. Len(ss), i + 1 \in 1 .. Len(ss) PROVE f[i + 1] = f[i] \o ss[i + 1]
  <2>1. PICK k \in 1 .. Len(ss) : k = i + 1 /\ k # 1 /\ k - 1 = i
    BY <1>3, <1>5
  <2>2. f[k] = f[k - 1] \o ss[k]
    BY <1>2, <2>1
  <2> QED BY <2>1, <2>2
<1> QED BY <1>1, <1>4, <1>5

LEMMA FlattenType ==
    ASSUME NEW S, NEW ss \in Seq(Seq(S))
    PROVE  FlattenSeq(ss) \in Seq(S)
<1>1. CASE ss = <<>>
  BY <1>1 DEF FlattenSeq
<1>2. CASE ss # <<>>
  <2>1. PICK f : /\ FlattenSeq(ss) = f[Len(ss)]
                 /\ f[1] = ss[1]
                 /\ \A i \in 1 .. Len(ss) : i + 1 \in 1 .. Len(ss) => f[i + 1] = f[i] \o ss[i + 1]
    BY <1>2, FlattenSteps
  <2>2. Len(ss) \in Nat /\ Len(ss) > 0 /\ \A i \in 1 .. Len(ss) : ss[i] \in Seq(S)
    BY <1>2
  <2> DEFINE D == {n \in Nat : n \in 1 .. Len(ss) => f[n] \in Seq(S)}
  <2>3. \A n \in Nat : n \in D
    <3>1. 0 \in D
      OBVIOUS
    <3>2. ASSUME NEW n \in Nat, n \in D PROVE n + 1 \in D
      <4>1. CASE n = 0
        BY <2>1, <2>2, <4>1
      <4>2. CASE n # 0 /\ n + 1 \in 1 .. Len(ss)
        <5>1. n \in 1 .. Len(ss) /\ f[n] \in Seq(S) /\ ss[n + 1] \in Seq(S)
          BY <2>2, <3>2, <4>2
        <5>2. f[n + 1] = f[n] \o ss[n + 1]
          BY <2>1, <4>2, <5>1
        <5>3. f[n + 1] \in Seq(S)
          BY <5>1, <5>2
        <5> QED BY <5>3
      <4>3. CASE n # 0 /\ n + 1 \notin 1 .. Len(ss)
        BY <4>3
      <4> QED BY <4>1, <4>2, <4>3
    <3> HIDE DEF D
    <3> QED BY <3>1, <3>2, SetInduction
  <2> QED BY <2>1, <2>2, <2>3
<1> QED BY <1>1, <1>2

LEMMA FlattenAppend ==
    ASSUME NEW S, NEW ss \in Seq(Seq(S)), NEW s \in Seq(S)
    PROVE  FlattenSeq(Append(ss, s)) = FlattenSeq(ss) \o s
<1> DEFINE n == Len(ss)
           tt == Append(ss, s)
<1>0. /\ n \in Nat /\ tt \in Seq(Seq(S)) /\ tt # <<>> /\ Len(tt) = n + 1
      /\ tt[n + 1] = s /\ \A i \in 1 .. n : tt[i] = ss[i]
  BY AppendProperties
<1>1. PICK g : /\ FlattenSeq(tt) = g[n + 1]
               /\ g[1] = tt[1]
               /\ \A i \in 1 .. n + 1 : i + 1 \in 1 .. n + 1 => g[i + 1] = g[i] \o tt[i + 1]
  <2> HIDE DEF tt
  <2>1. \E f : /\ FlattenSeq(tt) = f[Len(tt)]
               /\ f[1] = tt[1]
               /\ \A i \in 1 .. Len(tt) : i + 1 \in 1 .. Len(tt) => f[i + 1] = f[i] \o tt[i + 1]
    BY <1>0, FlattenSteps
  <2>2. Len(tt) = n + 1
    BY <1>0
  <2> QED BY ONLY <2>1, <2>2
<1> HIDE DEF tt
<1>3. CASE ss = <<>>
  <2>1. n = 0 /\ g[1] = s
    BY <1>0, <1>1, <1>3
  <2>2. FlattenSeq(ss) = <<>>
    BY <1>3 DEF FlattenSeq
  <2> QED BY <1>1, <2>1, <2>2 DEF tt
<1>4. CASE ss # <<>>
  <2>1. PICK f : /\ FlattenSeq(ss) = f[n]
                 /\ f[1] = ss[1]
                 /\ \A i \in 1 .. n : i + 1 \in 1 .. n => f[i + 1] = f[i] \o ss[i + 1]
    BY <1>4, FlattenSteps
  <2> DEFINE D == {k \in Nat : k \in 1 .. n => g[k] = f[k]}
  <2>3. \A k \in Nat : k \in D
    <3>1. 0 \in D
      OBVIOUS
    <3>2. ASSUME NEW k \in Nat, k \in D PROVE k + 1 \in D
      <4> SUFFICES ASSUME k + 1 \in 1 .. n PROVE g[k + 1] = f[k + 1]
        OBVIOUS
      <4>1. CASE k = 0
        BY <1>0, <1>1, <2>1, <4>1
      <4>2. CASE k # 0
        <5>1. /\ k \in 1 .. n /\ k \in 1 .. n + 1 /\ k + 1 \in 1 .. n + 1
              /\ g[k] = f[k] /\ tt[k + 1] = ss[k + 1]
          BY <1>0, <3>2, <4>2
        <5>2. g[k + 1] = g[k] \o tt[k + 1] /\ f[k + 1] = f[k] \o ss[k + 1]
          BY <1>1, <2>1, <5>1
        <5> QED BY <5>1, <5>2
      <4> QED BY <4>1, <4>2
    <3> HIDE DEF D
    <3> QED BY <3>1, <3>2, SetInduction
  <2>4. n \in 1 .. n /\ n \in 1 .. n + 1 /\ n + 1 \in 1 .. n + 1
    BY <1>0, <1>4
  <2>5. g[n] = f[n]
    BY <2>3, <2>4
  <2>6. g[n + 1] = g[n] \o s
    BY <1>0, <1>1, <2>4
  <2> QED BY <1>1, <2>1, <2>5, <2>6 DEF tt
<1> QED BY <1>3, <1>4

LEMMA FlattenConcat ==
    ASSUME NEW S, NEW ss \in Seq(Seq(S)), NEW tt \in Seq(Seq(S))
    PROVE  FlattenSeq(ss \o tt) = FlattenSeq(ss) \o FlattenSeq(tt)
<1> DEFINE Split(t) == FlattenSeq(ss \o t) = FlattenSeq(ss) \o FlattenSeq(t)
           D == {n \in Nat : \A t \in Seq(Seq(S)) : Len(t) = n => Split(t)}
<1>d. \A n \in Nat : n \in D <=> \A t \in Seq(Seq(S)) : Len(t) = n => Split(t)
  OBVIOUS
<1>0. FlattenSeq(ss) \in Seq(S)
  BY FlattenType
<1> HIDE DEF D
<1>1. 0 \in D
  <2>1. ASSUME NEW t \in Seq(Seq(S)), Len(t) = 0 PROVE Split(t)
    <3>1. t = <<>> /\ ss \o t = ss /\ FlattenSeq(t) = <<>>
      BY <2>1 DEF FlattenSeq
    <3> QED BY <1>0, <3>1
  <2> HIDE DEF Split
  <2> QED BY <1>d, <2>1
<1>2. ASSUME NEW n \in Nat, n \in D PROVE n + 1 \in D
  <2>1. ASSUME NEW t \in Seq(Seq(S)), Len(t) = n + 1 PROVE Split(t)
    <3> DEFINE u == SubSeq(t, 1, n)
               x == t[n + 1]
    <3>1. u \in Seq(Seq(S)) /\ Len(u) = n /\ x \in Seq(S) /\ t = Append(u, x)
      BY <2>1
    <3> HIDE DEF u, x
    <3>2. ss \o t = Append(ss \o u, x) /\ ss \o u \in Seq(Seq(S))
      BY <3>1
    <3>3. Split(u)
      <4> HIDE DEF Split
      <4> QED BY <1>2, <1>d, <3>1
    <3>4. /\ FlattenSeq(ss \o t) = FlattenSeq(ss \o u) \o x
          /\ FlattenSeq(t) = FlattenSeq(u) \o x
      BY <3>1, <3>2, FlattenAppend
    <3>5. FlattenSeq(u) \in Seq(S)
      BY <3>1, FlattenType
    <3>6. (FlattenSeq(ss) \o FlattenSeq(u)) \o x = FlattenSeq(ss) \o (FlattenSeq(u) \o x)
      BY <1>0, <3>1, <3>5, ConcatAssociative
    <3> QED BY <3>3, <3>4, <3>6
  <2> HIDE DEF Split
  <2>2. n + 1 \in Nat
    OBVIOUS
  <2> QED BY <1>d, <2>1, <2>2
<1>3. \A n \in Nat : n \in D
  BY <1>1, <1>2, SetInduction
<1> HIDE DEF Split
<1>4. Len(tt) \in Nat
  OBVIOUS
<1>5. Split(tt)
  BY <1>3, <1>4, <1>d
<1> QED BY <1>5 DEF Split

-----------------------------------------------------------------------------
(* Sequences in pieces.                                                    *)

LEMMA SplitAt ==
    ASSUME NEW S, NEW q \in Seq(S), NEW n \in 0 .. Len(q)
    PROVE  /\ SubSeq(q, 1, n) \in Seq(S) /\ SubSeq(q, n + 1, Len(q)) \in Seq(S)
           /\ Len(SubSeq(q, 1, n)) = n /\ Len(SubSeq(q, n + 1, Len(q))) = Len(q) - n
           /\ \A j \in 1 .. n : SubSeq(q, 1, n)[j] = q[j]
           /\ \A j \in 1 .. Len(q) - n : SubSeq(q, n + 1, Len(q))[j] = q[n + j]
           /\ q = SubSeq(q, 1, n) \o SubSeq(q, n + 1, Len(q))
<1>0. Len(q) \in Nat /\ n \in Nat /\ n <= Len(q)
  OBVIOUS
<1>1. /\ SubSeq(q, 1, n) \in Seq(S) /\ Len(SubSeq(q, 1, n)) = n
      /\ \A j \in 1 .. n : SubSeq(q, 1, n)[j] = q[j]
  OBVIOUS
<1>2. /\ SubSeq(q, n + 1, Len(q)) \in Seq(S) /\ Len(SubSeq(q, n + 1, Len(q))) = Len(q) - n
      /\ \A j \in 1 .. Len(q) - n : SubSeq(q, n + 1, Len(q))[j] = q[n + j]
  OBVIOUS
<1> DEFINE x == SubSeq(q, 1, n)
           y == SubSeq(q, n + 1, Len(q))
<1>3. q = x \o y
  <2>1. /\ x \in Seq(S) /\ y \in Seq(S) /\ Len(x) = n /\ Len(y) = Len(q) - n
        /\ \A j \in 1 .. n : x[j] = q[j]
        /\ \A j \in 1 .. Len(q) - n : y[j] = q[n + j]
    BY <1>1, <1>2
  <2> HIDE DEF x, y
  <2>2. /\ x \o y \in Seq(S) /\ Len(x \o y) = Len(x) + Len(y)
        /\ \A j \in 1 .. Len(x) + Len(y) : (x \o y)[j] = IF j <= Len(x) THEN x[j] ELSE y[j - Len(x)]
    BY <2>1, ConcatProperties
  <2>3. Len(x) + Len(y) = Len(q)
    BY <1>0, <2>1
  <2>4. ASSUME NEW j \in 1 .. Len(q) PROVE q[j] = (x \o y)[j]
    <3>0. j \in Nat /\ j >= 1 /\ j <= Len(q) /\ j \in 1 .. Len(x) + Len(y)
      BY <1>0, <2>3
    <3>1. CASE j <= n
      BY <1>0, <3>0, <3>1, <2>1, <2>2
    <3>2. CASE ~(j <= n)
      <4>1. j - n \in 1 .. Len(q) - n /\ n + (j - n) = j
        BY <1>0, <3>0, <3>2
      <4>2. y[j - n] = q[j]
        BY <4>1, <2>1
      <4> QED BY <3>0, <3>2, <4>2, <2>1, <2>2
    <3> QED BY <3>1, <3>2
  <2> QED BY <2>2, <2>3, <2>4, SeqEqual
<1> QED BY <1>1, <1>2, <1>3

-----------------------------------------------------------------------------
(* MapThenSumSet adds the values of a function over a finite set, taking   *)
(* away an element at a time.                                              *)

AnyOf(s) == CHOOSE x \in s : TRUE

(* f holds the sums of g over the subsets of S.                            *)
IsSum(f, g, S) ==
    f = [s \in SUBSET S |-> IF s = {} THEN 0 ELSE g[AnyOf(s)] + f[s \ {AnyOf(s)}]]

LEMMA SmallerSet ==
    ASSUME NEW S, IsFiniteSet(S), NEW s \in SUBSET S, NEW x \in s
    PROVE  /\ s \ {x} \in SUBSET S /\ IsFiniteSet(s) /\ Cardinality(s) \in Nat
           /\ Cardinality(s \ {x}) \in Nat /\ Cardinality(s \ {x}) + 1 = Cardinality(s)
<1>1. IsFiniteSet(s)
  BY FS_Subset
<1>2. Cardinality(s \ {x}) = Cardinality(s) - 1 /\ IsFiniteSet(s \ {x})
  BY <1>1, FS_RemoveElement
<1>3. Cardinality(s) \in Nat /\ Cardinality(s \ {x}) \in Nat
  BY <1>1, <1>2, FS_CardinalityType
<1> QED BY <1>1, <1>2, <1>3

LEMMA SumExists ==
    ASSUME NEW S, IsFiniteSet(S), NEW g \in [S -> Int]
    PROVE  \E f \in [SUBSET S -> Int] : IsSum(f, g, S)
<1> DEFINE Small(n) == {s \in SUBSET S : Cardinality(s) <= n}
           Step(f, s) == f[s] = IF s = {} THEN 0 ELSE g[AnyOf(s)] + f[s \ {AnyOf(s)}]
           P(n, f) == f \in [Small(n) -> Int] /\ \A s \in Small(n) : Step(f, s)
           D == {n \in Nat : \E f : P(n, f)}
<1>0. \A n \in Nat : n \in D <=> \E f : P(n, f)
  OBVIOUS
<1>a. \A s \in SUBSET S : s # {} => AnyOf(s) \in s
  BY DEF AnyOf
<1> HIDE DEF D
<1>1. 0 \in D
  <2> DEFINE f == [s \in Small(0) |-> 0]
  <2>1. \A s \in Small(0) : s = {}
    <3>1. ASSUME NEW s \in Small(0) PROVE s = {}
      <4>1. IsFiniteSet(s) /\ Cardinality(s) \in Nat /\ Cardinality(s) <= 0
        BY FS_Subset, FS_CardinalityType
      <4> QED BY <4>1, FS_EmptySet
    <3> QED BY <3>1
  <2>2. P(0, f)
    BY <2>1
  <2> QED BY <1>0, <2>2
<1>2. ASSUME NEW n \in Nat, n \in D PROVE n + 1 \in D
  <2>1. PICK f : P(n, f)
    BY <1>0, <1>2
  <2> DEFINE h == [s \in Small(n + 1) |->
                     IF s \in Small(n) THEN f[s] ELSE g[AnyOf(s)] + f[s \ {AnyOf(s)}]]
  <2>2. Small(n) \subseteq Small(n + 1)
    <3>1. \A s \in SUBSET S : Cardinality(s) \in Nat
      BY FS_Subset, FS_CardinalityType
    <3> QED BY <3>1
  <2>3. \A s \in Small(n + 1) : s # {} => s \ {AnyOf(s)} \in Small(n) /\ g[AnyOf(s)] \in Int
    <3>1. ASSUME NEW s \in Small(n + 1), s # {}
          PROVE  s \ {AnyOf(s)} \in Small(n) /\ g[AnyOf(s)] \in Int
      <4>1. AnyOf(s) \in s /\ AnyOf(s) \in S
        BY <1>a, <3>1
      <4>2. /\ s \ {AnyOf(s)} \in SUBSET S /\ Cardinality(s) \in Nat
            /\ Cardinality(s \ {AnyOf(s)}) \in Nat
            /\ Cardinality(s \ {AnyOf(s)}) + 1 = Cardinality(s)
        BY <4>1, SmallerSet
      <4> QED BY <4>1, <4>2
    <3> QED BY <3>1
  <2>4. {} \in Small(n)
    BY FS_EmptySet
  <2> HIDE DEF Small
  <2>5. h \in [Small(n + 1) -> Int]
    <3>1. ASSUME NEW s \in Small(n + 1)
          PROVE  (IF s \in Small(n) THEN f[s] ELSE g[AnyOf(s)] + f[s \ {AnyOf(s)}]) \in Int
      <4>1. CASE s \in Small(n)
        BY <2>1, <4>1
      <4>2. CASE s \notin Small(n)
        <5>1. s \ {AnyOf(s)} \in Small(n) /\ g[AnyOf(s)] \in Int
          BY <2>3, <2>4, <4>2
        <5>2. f[s \ {AnyOf(s)}] \in Int
          BY <2>1, <5>1
        <5> QED BY <4>2, <5>1, <5>2
      <4> QED BY <4>1, <4>2
    <3> QED BY <3>1
  <2>6. \A s \in Small(n + 1) : Step(h, s)
    BY <2>1, <2>2, <2>3, <2>4
  <2>7. P(n + 1, h)
    BY <2>5, <2>6
  <2> HIDE DEF P, h
  <2>8. n + 1 \in Nat
    OBVIOUS
  <2> QED BY <1>0, <2>7, <2>8
<1>3. \A n \in Nat : n \in D
  BY <1>1, <1>2, SetInduction
<1>4. PICK f : P(Cardinality(S), f)
  BY <1>0, <1>3, FS_CardinalityType
<1>5. Small(Cardinality(S)) = SUBSET S
  BY FS_Subset
<1>6. f \in [SUBSET S -> Int] /\ \A s \in SUBSET S : Step(f, s)
  BY <1>4, <1>5
<1> QED BY <1>6 DEF IsSum

SumRules(f, g, S) ==
    /\ f[{}] = 0
    /\ \A s \in SUBSET S : f[s] \in Int
    /\ \A s \in SUBSET S : \A x \in s : f[s] = g[x] + f[s \ {x}]

(* The order of the addition does not matter.                              *)
LEMMA SumRemove ==
    ASSUME NEW S, IsFiniteSet(S), NEW g \in [S -> Int], NEW f, IsSum(f, g, S)
    PROVE  SumRules(f, g, S)
<1>a. \A s \in SUBSET S : s # {} => AnyOf(s) \in s /\ AnyOf(s) \in S
  BY DEF AnyOf
<1>0. /\ \A s \in SUBSET S : s # {} => f[s] = g[AnyOf(s)] + f[s \ {AnyOf(s)}]
      /\ f[{}] = 0
  BY DEF IsSum
<1> DEFINE Fine(s) == f[s] \in Int /\ \A x \in s : f[s] = g[x] + f[s \ {x}]
           D == {n \in Nat : \A s \in SUBSET S : Cardinality(s) <= n => Fine(s)}
<1>d. \A n \in Nat : n \in D <=> \A s \in SUBSET S : Cardinality(s) <= n => Fine(s)
  OBVIOUS
<1> HIDE DEF D
<1>1. 0 \in D
  <2>1. ASSUME NEW s \in SUBSET S, Cardinality(s) <= 0 PROVE s = {}
    BY <2>1, FS_Subset, FS_EmptySet, FS_CardinalityType
  <2>2. Fine({})
    BY <1>0
  <2> QED BY <1>d, <2>1, <2>2
<1>2. ASSUME NEW n \in Nat, n \in D PROVE n + 1 \in D
  <2> SUFFICES ASSUME NEW s \in SUBSET S, Cardinality(s) <= n + 1, s # {} PROVE Fine(s)
    <3>1. Fine({})
      BY <1>0
    <3> HIDE DEF Fine
    <3> QED BY <1>d, <3>1
  <2>1. ASSUME NEW x \in s
        PROVE  s \ {x} \in SUBSET S /\ Fine(s \ {x}) /\ g[x] \in Int
    <3>1. s \ {x} \in SUBSET S /\ Cardinality(s \ {x}) \in Nat /\ Cardinality(s \ {x}) + 1 = Cardinality(s)
      BY SmallerSet
    <3>2. Cardinality(s \ {x}) <= n
      BY <3>1
    <3> HIDE DEF Fine
    <3> QED BY <1>2, <1>d, <3>1, <3>2
  <2> DEFINE c == AnyOf(s)
  <2>3. c \in s /\ f[s] = g[c] + f[s \ {c}]
    BY <1>0, <1>a
  <2> HIDE DEF c
  <2>4. f[s] \in Int
    BY <2>1, <2>3
  <2>5. ASSUME NEW x \in s PROVE f[s] = g[x] + f[s \ {x}]
    <3>1. CASE x = c
      BY <2>3, <3>1
    <3>2. CASE x # c
      <4>1. f[s \ {c}] = g[x] + f[(s \ {c}) \ {x}] /\ f[s \ {x}] = g[c] + f[(s \ {x}) \ {c}]
        BY <2>1, <2>3, <3>2
      <4>2. (s \ {c}) \ {x} = (s \ {x}) \ {c}
        OBVIOUS
      <4>3. f[(s \ {c}) \ {x}] \in Int
        <5>1. (s \ {c}) \in SUBSET S /\ x \in s \ {c} /\ c \in s
          BY <2>3, <3>2
        <5>2. /\ Cardinality(s) \in Nat /\ Cardinality(s \ {c}) + 1 = Cardinality(s)
              /\ Cardinality(s \ {c}) \in Nat
          BY <5>1, SmallerSet
        <5>3. /\ (s \ {c}) \ {x} \in SUBSET S /\ Cardinality((s \ {c}) \ {x}) \in Nat
              /\ Cardinality((s \ {c}) \ {x}) + 1 = Cardinality(s \ {c})
          <6> DEFINE u == s \ {c}
          <6>1. IsFiniteSet(S) /\ u \in SUBSET S /\ x \in u
            BY <5>1
          <6> HIDE DEF u
          <6>2. u \ {x} \in SUBSET S /\ Cardinality(u \ {x}) \in Nat /\ Cardinality(u \ {x}) + 1 = Cardinality(u)
            BY <6>1, SmallerSet
          <6> QED BY <6>2 DEF u
        <5>4. Cardinality((s \ {c}) \ {x}) <= n
          BY <5>2, <5>3
        <5>5. Fine((s \ {c}) \ {x})
          <6> HIDE DEF Fine
          <6> QED BY <1>2, <1>d, <5>3, <5>4
        <5> QED BY <5>5
      <4>4. g[c] \in Int /\ g[x] \in Int
        BY <2>1, <2>3
      <4>5. \A p, q, r \in Int : p + (q + r) = q + (p + r)
        OBVIOUS
      <4> DEFINE w == f[(s \ {c}) \ {x}]
      <4>6. f[s] = g[c] + (g[x] + w) /\ g[x] + f[s \ {x}] = g[x] + (g[c] + w) /\ w \in Int
        BY <2>3, <4>1, <4>2, <4>3, Zenon
      <4> HIDE DEF w
      <4> QED BY ONLY <4>4, <4>5, <4>6
    <3> QED BY <3>1, <3>2
  <2> QED BY <2>4, <2>5
<1>3. \A n \in Nat : n \in D
  BY <1>1, <1>2, SetInduction
<1>4. ASSUME NEW s \in SUBSET S PROVE Fine(s)
  <2>1. Cardinality(s) \in Nat
    BY FS_Subset, FS_CardinalityType
  <2> HIDE DEF Fine
  <2> QED BY <1>3, <1>d, <2>1
<1> QED BY <1>0, <1>4 DEF SumRules
(* The total of a function over its domain.                                *)
TotalOf(g) == (CHOOSE f : IsSum(f, g, DOMAIN g))[DOMAIN g]

LEMMA TotalIs ==
    ASSUME NEW S, IsFiniteSet(S), NEW g \in [S -> Int]
    PROVE  \E f : IsSum(f, g, S) /\ TotalOf(g) = f[S]
<1> DEFINE f == CHOOSE x : IsSum(x, g, S)
<1>1. \E x : IsSum(x, g, S)
  BY SumExists
<1>2. IsSum(f, g, S)
  BY <1>1
<1>3. DOMAIN g = S
  OBVIOUS
<1> QED BY <1>2, <1>3 DEF TotalOf

LEMMA TotalType ==
    ASSUME NEW S, IsFiniteSet(S), NEW g \in [S -> Int]
    PROVE  TotalOf(g) \in Int
<1>1. PICK f : IsSum(f, g, S) /\ TotalOf(g) = f[S]
  BY TotalIs
<1>2. SumRules(f, g, S)
  BY <1>1, SumRemove
<1> QED BY <1>1, <1>2 DEF SumRules

(* Functions that agree on a set have the same sum over it.                *)
LEMMA SumAgree ==
    ASSUME NEW S, IsFiniteSet(S), NEW g \in [S -> Int], NEW h \in [S -> Int],
           NEW e, NEW f, IsSum(e, g, S), IsSum(f, h, S),
           NEW T \in SUBSET S, \A x \in T : g[x] = h[x]
    PROVE  e[T] = f[T]
<1> DEFINE D == {n \in Nat : \A s \in SUBSET T : Cardinality(s) = n => e[s] = f[s]}
<1>d. \A n \in Nat : n \in D <=> \A s \in SUBSET T : Cardinality(s) = n => e[s] = f[s]
  OBVIOUS
<1>0. /\ e[{}] = 0 /\ f[{}] = 0
      /\ \A s \in SUBSET S : \A x \in s : e[s] = g[x] + e[s \ {x}]
      /\ \A s \in SUBSET S : \A x \in s : f[s] = h[x] + f[s \ {x}]
  <2>1. SumRules(e, g, S) /\ SumRules(f, h, S)
    BY SumRemove
  <2> QED BY <2>1 DEF SumRules
<1>f. IsFiniteSet(T) /\ \A s \in SUBSET T : IsFiniteSet(s) /\ Cardinality(s) \in Nat
  BY FS_Subset, FS_CardinalityType
<1> HIDE DEF D
<1>1. 0 \in D
  BY <1>d, <1>0, <1>f, FS_EmptySet
<1>2. ASSUME NEW n \in Nat, n \in D PROVE n + 1 \in D
  <2> SUFFICES ASSUME NEW s \in SUBSET T, Cardinality(s) = n + 1 PROVE e[s] = f[s]
    BY <1>d
  <2>1. s # {}
    BY FS_EmptySet
  <2>2. PICK x \in s : TRUE
    BY <2>1
  <2>3. s \ {x} \in SUBSET T /\ Cardinality(s \ {x}) = n
    <3>1. Cardinality(s \ {x}) \in Nat /\ Cardinality(s \ {x}) + 1 = Cardinality(s)
      BY <1>f, <2>2, SmallerSet
    <3> QED BY <3>1
  <2>4. e[s \ {x}] = f[s \ {x}]
    BY <1>2, <1>d, <2>3
  <2> QED BY <1>0, <2>4
<1>3. \A n \in Nat : n \in D
  BY <1>1, <1>2, SetInduction
<1> QED BY <1>3, <1>d, <1>f

(* The total follows a change at one place ...                             *)
LEMMA TotalChange ==
    ASSUME NEW S, IsFiniteSet(S), NEW g \in [S -> Int], NEW h \in [S -> Int],
           NEW x \in S, \A y \in S \ {x} : h[y] = g[y]
    PROVE  TotalOf(h) = TotalOf(g) + h[x] - g[x]
<1>1. PICK e : IsSum(e, g, S) /\ TotalOf(g) = e[S]
  BY TotalIs
<1>2. PICK f : IsSum(f, h, S) /\ TotalOf(h) = f[S]
  BY TotalIs
<1>3. e[S] = g[x] + e[S \ {x}] /\ f[S] = h[x] + f[S \ {x}] /\ e[S \ {x}] \in Int /\ f[S \ {x}] \in Int
  <2>1. SumRules(e, g, S) /\ SumRules(f, h, S)
    BY <1>1, <1>2, SumRemove
  <2> QED BY <2>1 DEF SumRules
<1>4. e[S \ {x}] = f[S \ {x}]
  BY <1>1, <1>2, SumAgree
<1>5. g[x] \in Int /\ h[x] \in Int
  OBVIOUS
<1> QED BY ONLY <1>1, <1>2, <1>3, <1>4, <1>5

(* ... and is 0 if all the values are.                                     *)
LEMMA TotalZero ==
    ASSUME NEW S, IsFiniteSet(S), NEW g \in [S -> Int], \A x \in S : g[x] = 0
    PROVE  TotalOf(g) = 0
<1>1. PICK f : IsSum(f, g, S) /\ TotalOf(g) = f[S]
  BY TotalIs
<1>2. /\ f[{}] = 0 /\ \A s \in SUBSET S : f[s] \in Int
      /\ \A s \in SUBSET S : \A x \in s : f[s] = g[x] + f[s \ {x}]
  <2>1. SumRules(f, g, S)
    BY <1>1, SumRemove
  <2> QED BY <2>1 DEF SumRules
<1> DEFINE D == {n \in Nat : \A s \in SUBSET S : Cardinality(s) = n => f[s] = 0}
<1>d. \A n \in Nat : n \in D <=> \A s \in SUBSET S : Cardinality(s) = n => f[s] = 0
  OBVIOUS
<1>f. \A s \in SUBSET S : IsFiniteSet(s) /\ Cardinality(s) \in Nat
  BY FS_Subset, FS_CardinalityType
<1> HIDE DEF D
<1>3. 0 \in D
  BY <1>d, <1>2, <1>f, FS_EmptySet
<1>4. ASSUME NEW n \in Nat, n \in D PROVE n + 1 \in D
  <2> SUFFICES ASSUME NEW s \in SUBSET S, Cardinality(s) = n + 1 PROVE f[s] = 0
    BY <1>d
  <2>1. s # {}
    BY FS_EmptySet
  <2>2. PICK x \in s : TRUE
    BY <2>1
  <2>3. s \ {x} \in SUBSET S /\ Cardinality(s \ {x}) = n
    <3>1. Cardinality(s \ {x}) \in Nat /\ Cardinality(s \ {x}) + 1 = Cardinality(s)
      BY <1>f, <2>2, SmallerSet
    <3> QED BY <3>1
  <2>4. f[s \ {x}] = 0 /\ g[x] = 0
    BY <1>4, <1>d, <2>3
  <2> QED BY <1>2, <2>4
<1>5. \A n \in Nat : n \in D
  BY <1>3, <1>4, SetInduction
<1> QED BY <1>1, <1>5, <1>d, <1>f

(* A total of naturals is one.                                             *)
LEMMA TotalNat ==
    ASSUME NEW S, IsFiniteSet(S), NEW g \in [S -> Nat]
    PROVE  TotalOf(g) \in Nat
<1>0. g \in [S -> Int]
  OBVIOUS
<1>1. PICK f : IsSum(f, g, S) /\ TotalOf(g) = f[S]
  BY <1>0, TotalIs
<1>2. /\ f[{}] = 0 /\ \A s \in SUBSET S : f[s] \in Int
      /\ \A s \in SUBSET S : \A x \in s : f[s] = g[x] + f[s \ {x}]
  <2>1. SumRules(f, g, S)
    BY <1>0, <1>1, SumRemove
  <2> QED BY <2>1 DEF SumRules
<1> DEFINE D == {n \in Nat : \A s \in SUBSET S : Cardinality(s) = n => f[s] \in Nat}
<1>d. \A n \in Nat : n \in D <=> \A s \in SUBSET S : Cardinality(s) = n => f[s] \in Nat
  OBVIOUS
<1>f. \A s \in SUBSET S : IsFiniteSet(s) /\ Cardinality(s) \in Nat
  BY FS_Subset, FS_CardinalityType
<1> HIDE DEF D
<1>3. 0 \in D
  <2>1. ASSUME NEW s \in SUBSET S, Cardinality(s) = 0 PROVE f[s] \in Nat
    <3>1. s = {}
      BY <1>f, <2>1, FS_EmptySet
    <3> QED BY <1>2, <3>1
  <2> QED BY <1>d, <2>1
<1>4. ASSUME NEW n \in Nat, n \in D PROVE n + 1 \in D
  <2> SUFFICES ASSUME NEW s \in SUBSET S, Cardinality(s) = n + 1 PROVE f[s] \in Nat
    BY <1>d
  <2>1. s # {}
    BY FS_EmptySet
  <2>2. PICK x \in s : TRUE
    BY <2>1
  <2>3. s \ {x} \in SUBSET S /\ Cardinality(s \ {x}) = n
    <3>1. Cardinality(s \ {x}) \in Nat /\ Cardinality(s \ {x}) + 1 = Cardinality(s)
      BY <1>f, <2>2, SmallerSet
    <3> QED BY <3>1
  <2>4. f[s \ {x}] \in Nat /\ g[x] \in Nat
    BY <1>4, <1>d, <2>3
  <2>5. f[s] = g[x] + f[s \ {x}]
    BY <1>2, <2>2
  <2> QED BY ONLY <2>4, <2>5
<1>5. \A n \in Nat : n \in D
  BY <1>3, <1>4, SetInduction
<1> QED BY <1>1, <1>5, <1>d, <1>f
=============================================================================
