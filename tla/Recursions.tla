------------------------------ MODULE Recursions ----------------------------
(* What the recursive definitions that the models use compute: the sum of a  *)
(* function over a finite set, and the sequence that joins a sequence of     *)
(* sequences.  All of it is induction over the natural numbers, and that     *)
(* follows from their order being well founded.                              *)
EXTENDS Integers, Sequences, SequencesExt, FiniteSets, FiniteSetsExt, Functions,
        FiniteSetTheorems, WellFoundedInduction, TLAPS

----------------------------------------------------------------------------
(* Induction over the natural numbers.                                       *)

\* A set of natural numbers has a least element.
LEMMA LeastNumber ==
    ASSUME NEW T \in SUBSET Nat, T # {}
    PROVE  \E n \in T : \A m \in T : n <= m
<1>1. PICK R : R = {ss \in Nat \X Nat : ss[1] < ss[2]}
  OBVIOUS
<1>2. IsWellFoundedOn(R, Nat)
  BY <1>1, NatLessThanWellFounded DEF OpToRel
<1>3. PICK n \in T : \A m \in T : <<m, n>> \notin R
  BY <1>2, WFMin
<1>4. ASSUME NEW m \in T PROVE n <= m
  <2>1. ~(m < n)
    BY <1>1, <1>3
  <2> QED
    BY <2>1
<1> QED
  BY <1>4

\* A set of natural numbers that holds 0, and the successor of its every element,
\* holds them all.
LEMMA SetInduction ==
    ASSUME NEW T, 0 \in T, \A n \in Nat : n \in T => n + 1 \in T
    PROVE  Nat \subseteq T
<1> SUFFICES ASSUME Nat \ T # {} PROVE FALSE
  OBVIOUS
<1>1. PICK n \in Nat \ T : \A m \in Nat \ T : n <= m
  BY LeastNumber
<1>2. n - 1 \in Nat /\ n - 1 \in T
  BY <1>1
<1> QED
  BY <1>1, <1>2

\* Min is a least element.
LEMMA MinLeast ==
    ASSUME NEW T \in SUBSET Nat, T # {}
    PROVE  Min(T) \in T /\ \A m \in T : Min(T) <= m
BY LeastNumber DEF Min

----------------------------------------------------------------------------
(* Sums over a finite set.                                                   *)

\* One element of a set, and the recursion of a sum for one set.
Chosen(s) == CHOOSE x \in s : TRUE
SumStep(g, h, s) == IF s = {} THEN 0 ELSE g[Chosen(s)] + h[s \ {Chosen(s)}]
SumsUpTo(g, h, S, n) ==
    \A s \in SUBSET S : Cardinality(s) <= n => h[s] = SumStep(g, h, s)
Sums(g, h, S) == h = [s \in SUBSET S |-> SumStep(g, h, s)]

\* A set without the element chosen from it has one element less.
LEMMA OneLess ==
    ASSUME NEW S, IsFiniteSet(S), NEW s \in SUBSET S, s # {}
    PROVE  /\ Chosen(s) \in s
           /\ s \ {Chosen(s)} \in SUBSET S
           /\ Cardinality(s) \in Nat /\ Cardinality(s \ {Chosen(s)}) \in Nat
           /\ Cardinality(s) = Cardinality(s \ {Chosen(s)}) + 1
<1>1. Chosen(s) \in s
  BY DEF Chosen
<1>2. IsFiniteSet(s)
  BY FS_Subset
<1>3. /\ Cardinality(s) \in Nat /\ IsFiniteSet(s \ {Chosen(s)})
      /\ Cardinality(s \ {Chosen(s)}) = Cardinality(s) - 1
  BY <1>1, <1>2, FS_RemoveElement, FS_CardinalityType
<1>4. Cardinality(s \ {Chosen(s)}) \in Nat
  BY <1>3, FS_CardinalityType
<1> QED
  BY <1>1, <1>3, <1>4

\* The recursion of a sum has a solution.
LEMMA SumsExist ==
    ASSUME NEW S, IsFiniteSet(S), NEW g
    PROVE  \E h : Sums(g, h, S)
<1> DEFINE Solved == {n \in Nat : \E h : SumsUpTo(g, h, S, n)}
<1>1. 0 \in Solved
  <2> DEFINE h == [s \in SUBSET S |-> 0]
  <2>1. ASSUME NEW s \in SUBSET S, Cardinality(s) <= 0 PROVE s = {}
    <3> SUFFICES ASSUME s # {} PROVE FALSE
      OBVIOUS
    <3>1. PICK c \in Nat : Cardinality(s) = c + 1
      BY OneLess
    <3> QED
      BY <2>1, <3>1
  <2>2. SumsUpTo(g, h, S, 0)
    BY <2>1 DEF SumsUpTo, SumStep
  <2> QED
    BY <2>2
<1>2. ASSUME NEW n \in Nat, n \in Solved PROVE n + 1 \in Solved
  <2>1. PICK h : SumsUpTo(g, h, S, n)
    BY <1>2
  <2> DEFINE k == [s \in SUBSET S |-> SumStep(g, h, s)]
  <2>2. ASSUME NEW s \in SUBSET S, Cardinality(s) <= n + 1
        PROVE  k[s] = SumStep(g, k, s)
    <3>1. CASE s = {}
      BY <3>1 DEF SumStep
    <3>2. CASE s # {}
      <4> DEFINE t == s \ {Chosen(s)}
      <4>1. t \in SUBSET S /\ Cardinality(t) <= n
        BY <2>2, <3>2, OneLess
      <4>2. h[t] = SumStep(g, h, t)
        BY <2>1, <4>1 DEF SumsUpTo
      <4>3. k[t] = h[t]
        BY <4>1, <4>2
      <4>4. k[s] = g[Chosen(s)] + h[t]
        BY <3>2 DEF SumStep
      <4> QED
        BY <3>2, <4>3, <4>4 DEF SumStep
    <3> QED
      BY <3>1, <3>2
  <2>3. SumsUpTo(g, k, S, n + 1)
    BY <2>2 DEF SumsUpTo
  <2> QED
    BY <2>3
<1>3. Cardinality(S) \in Solved
  <2> HIDE DEF Solved
  <2> QED
    BY <1>1, <1>2, SetInduction, FS_CardinalityType
<1>4. PICK h : SumsUpTo(g, h, S, Cardinality(S))
  BY <1>3
<1> DEFINE k == [s \in SUBSET S |-> h[s]]
<1>5. ASSUME NEW s \in SUBSET S PROVE k[s] = SumStep(g, k, s)
  <2>1. h[s] = SumStep(g, h, s)
    BY <1>4, FS_Subset DEF SumsUpTo
  <2>2. s \ {Chosen(s)} \in SUBSET S
    OBVIOUS
  <2> QED
    BY <2>1, <2>2 DEF SumStep
<1>6. Sums(g, k, S)
  BY <1>5 DEF Sums
<1> QED
  BY <1>6

\* SumFunctionOnSet is a solution's value.
LEMMA SumSolved ==
    ASSUME NEW S, IsFiniteSet(S), NEW g
    PROVE  \E h : Sums(g, h, S) /\ SumFunctionOnSet(g, S) = h[S]
<1> DEFINE H == CHOOSE h : Sums(g, h, S)
<1>1. Sums(g, H, S)
  BY SumsExist
<1>2. SumFunctionOnSet(g, S) = H[S]
  BY DEF SumFunctionOnSet, FoldFunctionOnSet, MapThenFoldSet, Sums, SumStep, Chosen
<1> QED
  BY <1>1, <1>2

\* What a sum is of natural numbers: a natural number; zero only if they all are;
\* and, when N times each of them is at most B, N times the sum is at most B for
\* every one of them.
LEMMA SumFacts ==
    ASSUME NEW S, IsFiniteSet(S), NEW g, \A x \in S : g[x] \in Nat,
           NEW N \in Nat, NEW B \in Nat, \A x \in S : N * g[x] <= B
    PROVE  /\ SumFunctionOnSet(g, S) \in Nat
           /\ \A x \in S : SumFunctionOnSet(g, S) >= g[x]
           /\ (\A x \in S : g[x] = 0) => SumFunctionOnSet(g, S) = 0
           /\ N * SumFunctionOnSet(g, S) <= Cardinality(S) * B
<1>1. PICK h : Sums(g, h, S) /\ SumFunctionOnSet(g, S) = h[S]
  BY SumSolved
<1> DEFINE Right(s) == /\ h[s] \in Nat
                       /\ \A x \in s : h[s] >= g[x]
                       /\ (\A x \in s : g[x] = 0) => h[s] = 0
                       /\ N * h[s] <= Cardinality(s) * B
           Known == {n \in Nat : \A s \in SUBSET S : Cardinality(s) = n => Right(s)}
<1>2. ASSUME NEW s \in SUBSET S, s = {} PROVE Right(s)
  <2>1. h[s] = 0 /\ Cardinality(s) = 0
    BY <1>1, <1>2, FS_EmptySet DEF Sums, SumStep
  <2> QED
    BY <1>2, <2>1
<1>3. 0 \in Known
  <2>1. ASSUME NEW s \in SUBSET S, Cardinality(s) = 0 PROVE s = {}
    <3> SUFFICES ASSUME s # {} PROVE FALSE
      OBVIOUS
    <3>1. PICK c \in Nat : Cardinality(s) = c + 1
      BY OneLess
    <3> QED
      BY <2>1, <3>1
  <2> HIDE DEF Right
  <2> QED
    BY <1>2, <2>1
<1>4. ASSUME NEW n \in Nat, n \in Known PROVE n + 1 \in Known
  <2> SUFFICES ASSUME NEW s \in SUBSET S, Cardinality(s) = n + 1 PROVE Right(s)
    OBVIOUS
  <2>1. Cardinality(s) = n + 1
    OBVIOUS
  <2>2. CASE s = {}
    BY <1>2, <2>2
  <2>3. CASE s # {}
    <3>1. PICK c \in s, t \in SUBSET S :
            /\ c = Chosen(s) /\ t = s \ {c} /\ Cardinality(t) = n
      <4>1. /\ Chosen(s) \in s /\ s \ {Chosen(s)} \in SUBSET S
            /\ Cardinality(s \ {Chosen(s)}) \in Nat
            /\ Cardinality(s) = Cardinality(s \ {Chosen(s)}) + 1
        BY <2>3, OneLess
      <4>2. Cardinality(s \ {Chosen(s)}) = n
        BY <2>1, <4>1
      <4> QED
        BY <4>1, <4>2
    <3>2. h[s] = g[c] + h[t]
      BY <1>1, <2>3, <3>1 DEF Sums, SumStep
    <3>3. Right(t)
      BY <1>4, <3>1
    <3>4. g[c] \in Nat /\ N * g[c] <= B
      OBVIOUS
    <3>5. h[s] \in Nat /\ h[s] >= g[c] /\ h[s] >= h[t]
      BY <3>2, <3>3, <3>4
    <3>6. \A x \in s : h[s] >= g[x]
      <4>1. ASSUME NEW x \in s PROVE h[s] >= g[x]
        <5>1. CASE x = c
          BY <3>5, <5>1
        <5>2. CASE x # c
          <6>1. h[t] >= g[x] /\ g[x] \in Nat
            BY <3>1, <3>3, <5>2
          <6> QED
            BY <3>3, <3>5, <6>1
        <5> QED
          BY <5>1, <5>2
      <4> QED
        BY <4>1
    <3>7. (\A x \in s : g[x] = 0) => h[s] = 0
      BY <3>1, <3>2, <3>3
    <3>8. N * h[s] <= Cardinality(s) * B
      <4>1. N * h[s] = N * g[c] + N * h[t]
        BY <3>2, <3>3, <3>4
      <4>2. N * h[t] <= n * B
        BY <3>1, <3>3
      <4>3. (n + 1) * B = n * B + B
        OBVIOUS
      <4>4. N * g[c] \in Nat /\ N * h[t] \in Nat /\ n * B \in Nat
        BY <3>3, <3>4
      <4> HIDE DEF Right
      <4> QED
        BY <3>4, <4>1, <4>2, <4>3, <4>4
    <3> QED
      BY <3>5, <3>6, <3>7, <3>8
  <2> QED
    BY <2>2, <2>3
<1>5. Cardinality(S) \in Known
  <2> HIDE DEF Known
  <2> QED
    BY <1>3, <1>4, SetInduction, FS_CardinalityType
<1> QED
  BY <1>1, <1>5

\* No sum over the slots that its terms bound reaches the bound.
LEMMA SumBounded ==
    ASSUME NEW k \in Nat, NEW n \in Nat, NEW m \in Nat \ {0}, NEW B \in Nat,
           NEW sum \in Nat, n <= m, k * m * sum <= n * B
    PROVE  k * sum <= B
<1>1. k * sum \in Nat
  OBVIOUS
<1>2. PICK x \in Nat : x = k * sum
  BY <1>1
<1>3. m * x <= n * B
  BY <1>2
<1>4. n * B <= m * B
  OBVIOUS
<1>5. m * x <= m * B
  BY <1>3, <1>4
<1>6. x <= B
  BY <1>5
<1> QED
  BY <1>2, <1>6

----------------------------------------------------------------------------
(* Sequences joined.                                                         *)

\* The recursion of FlattenSeq for its first i sequences.
FlattenStep(seqs, f, i) == IF i = 1 THEN seqs[i] ELSE f[i - 1] \o seqs[i]

\* FlattenSeq is what its recursion solves.
LEMMA FlattenSolved ==
    ASSUME NEW seqs, Len(seqs) \in Nat \ {0}
    PROVE  \E f : /\ f = [i \in 1..Len(seqs) |-> FlattenStep(seqs, f, i)]
                  /\ FlattenSeq(seqs) = f[Len(seqs)]
<1> DEFINE UpTo(f, n) == \A i \in 1..n : f[i] = FlattenStep(seqs, f, i)
           Solved == {n \in Nat : \E f : UpTo(f, n)}
<1>1. 0 \in Solved
  OBVIOUS
<1>2. ASSUME NEW n \in Nat, n \in Solved PROVE n + 1 \in Solved
  <2>1. PICK f : UpTo(f, n)
    BY <1>2
  <2> DEFINE g == [i \in 1..(n + 1) |-> FlattenStep(seqs, f, i)]
  <2>2. ASSUME NEW i \in 1..(n + 1) PROVE g[i] = FlattenStep(seqs, g, i)
    <3>1. CASE i = 1
      BY <3>1 DEF FlattenStep
    <3>2. CASE i # 1
      <4>1. i - 1 \in 1..n /\ i - 1 \in 1..(n + 1)
        BY <3>2
      <4>2. g[i - 1] = f[i - 1]
        BY <2>1, <4>1
      <4> QED
        BY <3>2, <4>2 DEF FlattenStep
    <3> QED
      BY <3>1, <3>2
  <2>3. UpTo(g, n + 1)
    BY <2>2
  <2> HIDE DEF UpTo, g
  <2> QED
    BY <2>3
<1>3. Len(seqs) \in Solved
  <2> HIDE DEF Solved
  <2> QED
    BY <1>1, <1>2, SetInduction
<1>4. PICK f : UpTo(f, Len(seqs))
  BY <1>3
<1> DEFINE g == [i \in 1..Len(seqs) |-> f[i]]
           Flat(h) == h = [i \in 1..Len(seqs) |-> FlattenStep(seqs, h, i)]
<1>5. ASSUME NEW i \in 1..Len(seqs) PROVE g[i] = FlattenStep(seqs, g, i)
  <2>1. f[i] = FlattenStep(seqs, f, i)
    BY <1>4
  <2>2. i # 1 => i - 1 \in 1..Len(seqs)
    OBVIOUS
  <2> QED
    BY <2>1, <2>2 DEF FlattenStep
<1>6. Flat(g)
  BY <1>5
<1> DEFINE H == CHOOSE h : Flat(h)
<1>7. Flat(H)
  BY <1>6
<1>8. FlattenSeq(seqs) = H[Len(seqs)]
  BY DEF FlattenSeq, FlattenStep
<1> QED
  BY <1>7, <1>8

=============================================================================
