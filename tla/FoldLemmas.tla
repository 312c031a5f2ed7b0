------------------------------ MODULE FoldLemmas ------------------------------
(***************************************************************************)
(* What two recursive operators of the community modules, SumFunction and  *)
(* FlattenSeq, compute.  The library's induction theorems take a predicate *)
(* as a parameter; here a predicate on numbers is the set of those that    *)
(* satisfy it, and induction is a fact about such sets.                    *)
(***************************************************************************)
EXTENDS SequencesExt, SequenceTheorems, FiniteSetTheorems, TLAPS

\* A set of naturals that is not empty has a least element.
LEMMA LeastNatural ==
  ASSUME NEW T \in SUBSET Nat, T # {}
  PROVE  \E x \in T : \A y \in T : x <= y
<1> DEFINE R == OpToRel(<, Nat)
<1>1. \E x \in T : \A y \in T : <<y, x>> \notin R
  <2>1. IsWellFoundedOn(R, Nat)
    BY NatLessThanWellFounded
  <2> HIDE DEF R
  <2> QED
    BY <2>1, WFMin
<1>2. \E x \in T : \A y \in T : ~(y < x)
  BY <1>1 DEF OpToRel
<1> QED
  BY <1>2

\* Induction: a set that holds 0 and the successor of each of its members holds
\* every natural.
LEMMA InductionOnNat ==
  ASSUME NEW P \in SUBSET Nat, 0 \in P, \A n \in P : n + 1 \in P
  PROVE  P = Nat
<1> SUFFICES ASSUME Nat \ P # {} PROVE FALSE
  OBVIOUS
<1>1. PICK x \in Nat \ P : \A y \in Nat \ P : x <= y
  BY LeastNatural
<1>2. x - 1 \in P
  BY <1>1
<1>3. (x - 1) + 1 \in P
  BY <1>2
<1> QED
  BY <1>3

\* The same up to a bound.
LEMMA InductionUpTo ==
  ASSUME NEW n \in Nat, NEW P, 0 \in P, \A i \in 1..n : i - 1 \in P => i \in P
  PROVE  \A i \in 0..n : i \in P
<1> DEFINE Q == {i \in Nat : i <= n => i \in P}
<1>1. \A i \in Q : i + 1 \in Q
  OBVIOUS
<1>2. Q = Nat
  BY <1>1, InductionOnNat
<1> QED
  BY <1>2

\* g starts with base and goes from one value to the next by F.
Runs(g, n, base, F) == g[0] = base /\ \A i \in 1..n : g[i] = F[i][g[i - 1]]

\* A function may be defined from its first value and the step from one value to
\* the next.
LEMMA Recursion ==
  ASSUME NEW n \in Nat, NEW V, NEW base \in V, NEW F \in [1..n -> [V -> V]]
  PROVE  \E g \in [0..n -> V] : Runs(g, n, base, F)
<1> DEFINE P == {m \in 0..n : \E g \in [0..n -> V] : Runs(g, m, base, F)}
<1>1. 0 \in P
  <2> DEFINE g == [i \in 0..n |-> base]
  <2>1. g \in [0..n -> V] /\ Runs(g, 0, base, F)
    BY DEF Runs
  <2> HIDE DEF g
  <2> QED
    BY <2>1
<1>2. ASSUME NEW m \in 1..n, m - 1 \in P PROVE m \in P
  <2>1. PICK g \in [0..n -> V] : Runs(g, m - 1, base, F)
    BY <1>2
  <2> DEFINE h == [g EXCEPT ![m] = F[m][g[m - 1]]]
  <2>2. h \in [0..n -> V]
    OBVIOUS
  <2>3. Runs(h, m, base, F)
    BY <2>1 DEF Runs
  <2> HIDE DEF h
  <2> QED
    BY <2>2, <2>3
<1>3. n \in P
  <2> HIDE DEF P
  <2>1. \A m \in 1..n : m - 1 \in P => m \in P
    BY <1>2
  <2>2. \A i \in 0..n : i \in P
    BY <1>1, <2>1, InductionUpTo
  <2> QED
    BY <2>2
<1> QED
  BY <1>3

-----------------------------------------------------------------------------
(* Sums.                                                                   *)

Chosen(s) == CHOOSE x \in s : TRUE

\* A function that sums f over every set of its arguments.
Sums(f, g) ==
  g = [s \in SUBSET DOMAIN f |->
         IF s = {} THEN 0 ELSE f[Chosen(s)] + g[s \ {Chosen(s)}]]

LEMMA ChosenRemoved ==
  ASSUME NEW s, IsFiniteSet(s), s # {}
  PROVE  /\ Chosen(s) \in s
         /\ Cardinality(s \ {Chosen(s)}) = Cardinality(s) - 1
<1>1. Chosen(s) \in s
  BY DEF Chosen
<1> QED
  BY <1>1, FS_RemoveElement

\* There is one, for a function on a finite set: by the size of the sets.
LEMMA SumsExist ==
  ASSUME NEW D, IsFiniteSet(D), NEW f \in [D -> Nat]
  PROVE  \E g \in [SUBSET D -> Nat] : Sums(f, g)
<1> DEFINE Step(g, s) == IF s = {} THEN 0 ELSE f[Chosen(s)] + g[s \ {Chosen(s)}]
           Small(n)   == {s \in SUBSET D : Cardinality(s) <= n}
           P == {n \in Nat : \E g \in [SUBSET D -> Nat] : \A s \in Small(n) : g[s] = Step(g, s)}
<1>1. \A s \in SUBSET D : Cardinality(s) \in Nat /\ (Cardinality(s) = 0 <=> s = {})
  BY FS_Subset, FS_CardinalityType, FS_EmptySet
<1>2. ASSUME NEW s \in SUBSET D, s # {}
      PROVE  /\ Chosen(s) \in D
             /\ s \ {Chosen(s)} \in SUBSET D
             /\ Cardinality(s \ {Chosen(s)}) = Cardinality(s) - 1
  BY <1>2, FS_Subset, ChosenRemoved
<1>3. 0 \in P
  <2> DEFINE g == [s \in SUBSET D |-> 0]
  <2>1. \A s \in Small(0) : g[s] = Step(g, s)
    BY <1>1
  <2> QED
    BY <2>1
<1>4. ASSUME NEW n \in P PROVE n + 1 \in P
  <2>1. PICK g \in [SUBSET D -> Nat] : \A s \in Small(n) : g[s] = Step(g, s)
    BY <1>4
  <2> DEFINE h == [s \in SUBSET D |-> IF s \in Small(n) THEN g[s] ELSE Step(g, s)]
  <2>2. ASSUME NEW s \in SUBSET D PROVE Step(g, s) \in Nat
    <3>1. ASSUME s # {} PROVE f[Chosen(s)] \in Nat /\ g[s \ {Chosen(s)}] \in Nat
      BY <1>2, <3>1
    <3> QED
      BY <3>1
  <2>3. h \in [SUBSET D -> Nat]
    BY <2>2
  <2>4. ASSUME NEW s \in Small(n + 1) PROVE h[s] = Step(h, s)
    <3>1. h[s] = Step(g, s)
      BY <2>1
    <3>2. ASSUME s # {} PROVE s \ {Chosen(s)} \in Small(n)
      BY <1>1, <1>2, <3>2
    <3> QED
      BY <3>1, <3>2
  <2>5. n \in Nat
    OBVIOUS
  <2> HIDE DEF h, Small, Step
  <2> QED
    BY <2>3, <2>4, <2>5
<1>5. P = Nat
  BY <1>3, <1>4, InductionOnNat
<1>6. Cardinality(D) \in Nat
  BY FS_CardinalityType
<1>7. PICK g \in [SUBSET D -> Nat] : \A s \in Small(Cardinality(D)) : g[s] = Step(g, s)
  BY <1>5, <1>6
<1>8. Small(Cardinality(D)) = SUBSET D
  BY FS_Subset
<1>9. g = [s \in SUBSET D |-> Step(g, s)]
  BY <1>7, <1>8
<1> QED
  BY <1>9 DEF Sums

\* SumFunction is the value of such a function at the whole domain.
LEMMA SumFunctionSums ==
  ASSUME NEW D, IsFiniteSet(D), NEW f \in [D -> Nat]
  PROVE  \E g : Sums(f, g) /\ SumFunction(f) = g[D]
<1> DEFINE g == CHOOSE g : Sums(f, g)
<1>1. Sums(f, g)
  BY SumsExist
<1>2. SumFunction(f) = g[D]
  BY DEF Sums, Chosen, SumFunction, SumFunctionOnSet, FoldFunctionOnSet, MapThenFoldSet
<1> QED
  BY <1>1, <1>2

\* A sum of natural numbers is one.
LEMMA SumFunctionNatural ==
  ASSUME NEW D, IsFiniteSet(D), NEW f \in [D -> Nat]
  PROVE  SumFunction(f) \in Nat
<1>1. PICK g : Sums(f, g) /\ SumFunction(f) = g[D]
  BY SumFunctionSums
<1> DEFINE P == {n \in Nat : \A s \in SUBSET D : Cardinality(s) <= n => g[s] \in Nat}
<1>2. \A s \in SUBSET D : g[s] = IF s = {} THEN 0 ELSE f[Chosen(s)] + g[s \ {Chosen(s)}]
  <2>1. DOMAIN f = D
    OBVIOUS
  <2> QED
    BY <1>1, <2>1, Zenon DEF Sums
<1>3. \A s \in SUBSET D : IsFiniteSet(s) /\ Cardinality(s) \in Nat /\ (Cardinality(s) = 0 => s = {})
  BY FS_Subset, FS_CardinalityType, FS_EmptySet
<1>4. 0 \in P
  BY <1>2, <1>3
<1>5. ASSUME NEW n \in P PROVE n + 1 \in P
  <2>1. ASSUME NEW s \in SUBSET D, Cardinality(s) <= n + 1, s # {}
        PROVE  g[s] \in Nat
    <3>1. Chosen(s) \in s /\ Cardinality(s \ {Chosen(s)}) = Cardinality(s) - 1
      BY <1>3, <2>1, ChosenRemoved
    <3>2. g[s \ {Chosen(s)}] \in Nat
      BY <1>3, <2>1, <3>1
    <3>3. f[Chosen(s)] \in Nat
      BY <2>1, <3>1
    <3> QED
      BY <1>2, <2>1, <3>2, <3>3
  <2>2. g[{}] = 0
    BY <1>2
  <2>3. \A s \in SUBSET D : Cardinality(s) <= n + 1 => g[s] \in Nat
    <3> TAKE s \in SUBSET D
    <3> HAVE Cardinality(s) <= n + 1
    <3>1. CASE s = {}
      <4>1. g[s] = 0
        BY <2>2, <3>1, Zenon
      <4> QED
        BY <4>1
    <3>2. CASE s # {}
      BY <2>1, <3>2, Zenon
    <3> QED
      BY <3>1, <3>2
  <2> QED
    BY <2>3
<1>6. P = Nat
  BY <1>4, <1>5, InductionOnNat
<1>7. Cardinality(D) \in Nat
  BY FS_CardinalityType
<1> QED
  BY <1>1, <1>6, <1>7

\* Two functions that differ by 1 at d only have sums that differ by 1 on the
\* sets that hold d, and only there.
LEMMA SumsIncrement ==
  ASSUME NEW D, IsFiniteSet(D), NEW f \in [D -> Nat], NEW d \in D,
         NEW e \in [D -> Nat], e[d] = f[d] + 1, \A x \in D \ {d} : e[x] = f[x],
         NEW g, Sums(f, g), NEW h, Sums(e, h)
  PROVE  h[D] = g[D] + 1
<1> DEFINE Right(s) == g[s] \in Nat /\ h[s] = g[s] + (IF d \in s THEN 1 ELSE 0)
           P == {n \in Nat : \A s \in SUBSET D : Cardinality(s) <= n => Right(s)}
<1>0. /\ \A s \in SUBSET D : g[s] = IF s = {} THEN 0 ELSE f[Chosen(s)] + g[s \ {Chosen(s)}]
      /\ \A s \in SUBSET D : h[s] = IF s = {} THEN 0 ELSE e[Chosen(s)] + h[s \ {Chosen(s)}]
  <2>1. DOMAIN f = D /\ DOMAIN e = D
    OBVIOUS
  <2> QED
    BY <2>1, Zenon DEF Sums
<1>1. \A s \in SUBSET D : IsFiniteSet(s) /\ Cardinality(s) \in Nat /\ (Cardinality(s) = 0 => s = {})
  BY FS_Subset, FS_CardinalityType, FS_EmptySet
<1>2. Right({})
  <2>1. {} \in SUBSET D
    OBVIOUS
  <2>2. g[{}] = 0 /\ h[{}] = 0
    BY <1>0, <2>1, Zenon
  <2> QED
    BY <2>2
<1>3. ASSUME NEW n \in P, NEW s \in SUBSET D, Cardinality(s) <= n + 1, s # {}
      PROVE  Right(s)
  <2> DEFINE a == Chosen(s)
             r == s \ {a}
  <2>1. a \in s /\ Cardinality(r) = Cardinality(s) - 1
    BY <1>1, <1>3, ChosenRemoved
  <2>2. Right(r)
    <3> HIDE DEF Right
    <3> QED
      BY <1>1, <1>3, <2>1
  <2>3. g[s] = f[a] + g[r] /\ h[s] = e[a] + h[r]
    BY <1>0, <1>3
  <2>4. f[a] \in Nat /\ e[a] = f[a] + (IF a = d THEN 1 ELSE 0)
    BY <2>1
  <2> HIDE DEF a
  <2> QED
    BY <2>1, <2>2, <2>3, <2>4
<1>4. P = Nat
  <2> HIDE DEF Right
  <2>1. 0 \in P
    BY <1>1, <1>2
  <2>2. ASSUME NEW n \in P PROVE n + 1 \in P
    <3>1. \A s \in SUBSET D : Cardinality(s) <= n + 1 => Right(s)
      BY <1>2, <1>3, Zenon
    <3> QED
      BY <3>1
  <2> QED
    BY <2>1, <2>2, InductionOnNat
<1>5. Cardinality(D) \in Nat
  BY FS_CardinalityType
<1> QED
  BY <1>4, <1>5

\* One more at one argument is one more in the sum.
LEMMA SumFunctionIncrement ==
  ASSUME NEW D, IsFiniteSet(D), NEW f \in [D -> Nat], NEW d \in D,
         NEW e \in [D -> Nat], e[d] = f[d] + 1, \A x \in D \ {d} : e[x] = f[x]
  PROVE  SumFunction(e) = SumFunction(f) + 1
<1>2. PICK g : Sums(f, g) /\ SumFunction(f) = g[D]
  BY SumFunctionSums
<1>3. PICK h : Sums(e, h) /\ SumFunction(e) = h[D]
  BY SumFunctionSums
<1>4. h[D] = g[D] + 1
  BY <1>2, <1>3, SumsIncrement
<1> QED
  BY <1>2, <1>3, <1>4, Zenon

\* The sum of zeros is 0.
LEMMA SumFunctionZero ==
  ASSUME NEW D, IsFiniteSet(D)
  PROVE  SumFunction([d \in D |-> 0]) = 0
<1> DEFINE f == [d \in D |-> 0]
<1>1. PICK g : Sums(f, g) /\ SumFunction(f) = g[D]
  BY SumFunctionSums
<1> DEFINE P == {n \in Nat : \A s \in SUBSET D : Cardinality(s) <= n => g[s] = 0}
<1>2. \A s \in SUBSET D : g[s] = IF s = {} THEN 0 ELSE f[Chosen(s)] + g[s \ {Chosen(s)}]
  BY <1>1, Zenon DEF Sums
<1>3. \A s \in SUBSET D : IsFiniteSet(s) /\ Cardinality(s) \in Nat /\ (Cardinality(s) = 0 => s = {})
  BY FS_Subset, FS_CardinalityType, FS_EmptySet
<1>4. 0 \in P
  BY <1>2, <1>3
<1>5. ASSUME NEW n \in P PROVE n + 1 \in P
  <2>1. ASSUME NEW s \in SUBSET D, Cardinality(s) <= n + 1, s # {}
        PROVE  g[s] = 0
    <3>1. Chosen(s) \in s /\ Cardinality(s \ {Chosen(s)}) = Cardinality(s) - 1
      BY <1>3, <2>1, ChosenRemoved
    <3>2. g[s \ {Chosen(s)}] = 0
      BY <1>3, <2>1, <3>1
    <3> QED
      BY <1>2, <2>1, <3>1, <3>2
  <2> QED
    BY <1>2, <2>1
<1>6. P = Nat
  BY <1>4, <1>5, InductionOnNat
<1>7. Cardinality(D) \in Nat
  BY FS_CardinalityType
<1> QED
  BY <1>1, <1>6, <1>7

-----------------------------------------------------------------------------
(* Concatenations.                                                         *)

\* The concatenations of the first 0, 1, ... sequences of seqs.
Accumulates(seqs, g) ==
  /\ g[0] = <<>>
  /\ \A i \in 1..Len(seqs) : g[i] = g[i - 1] \o seqs[i]

LEMMA FlattenSeqPrefixes ==
  ASSUME NEW T, NEW seqs \in Seq(Seq(T))
  PROVE  \E g \in [0..Len(seqs) -> Seq(T)] :
           Accumulates(seqs, g) /\ FlattenSeq(seqs) = g[Len(seqs)]
<1> DEFINE n == Len(seqs)
           Step(f, i) == IF i = 1 THEN seqs[i] ELSE f[i - 1] \o seqs[i]
           f == CHOOSE f : f = [i \in 1..n |-> Step(f, i)]
<1>0. n \in Nat /\ \A i \in 1..n : seqs[i] \in Seq(T)
  OBVIOUS
<1> HIDE DEF n
<1>1. \E h \in [1..n -> Seq(T)] : h = [i \in 1..n |-> Step(h, i)]
  <2> DEFINE F == [i \in 1..n |-> [v \in Seq(T) |-> v \o seqs[i]]]
  <2>1. F \in [1..n -> [Seq(T) -> Seq(T)]] /\ <<>> \in Seq(T)
    BY <1>0
  <2>2. PICK g \in [0..n -> Seq(T)] : Runs(g, n, <<>>, F)
    <3> HIDE DEF F
    <3> QED
      BY <1>0, <2>1, Recursion
  <2>3. g[0] = <<>> /\ \A i \in 1..n : g[i] = F[i][g[i - 1]]
    BY <2>2, Zenon DEF Runs
  <2> DEFINE h == [i \in 1..n |-> g[i]]
  <2>4. ASSUME NEW i \in 1..n PROVE h[i] = Step(h, i)
    <3>1. i - 1 \in 0..n /\ (i # 1 => i - 1 \in 1..n)
      BY <1>0
    <3>2. g[i] = g[i - 1] \o seqs[i]
      <4>1. g[i - 1] \in Seq(T)
        BY <3>1
      <4>2. F[i][g[i - 1]] = g[i - 1] \o seqs[i]
        BY <4>1, Zenon
      <4> QED
        BY <2>3, <4>2, Zenon
    <3>3. CASE i = 1
      <4>1. i - 1 = 0
        BY <3>3
      <4>2. g[i] = <<>> \o seqs[i]
        BY <2>3, <3>2, <4>1, Zenon
      <4> QED
        BY <1>0, <3>3, <4>2, ConcatEmptySeq
    <3>4. CASE i # 1
      BY <3>1, <3>2, <3>4, Zenon
    <3> QED
      BY <3>3, <3>4
  <2>5. h = [i \in 1..n |-> Step(h, i)]
    BY <2>4, Zenon
  <2>6. h \in [1..n -> Seq(T)]
    BY <1>0
  <2> HIDE DEF h, Step
  <2> QED
    BY <2>5, <2>6
<1>2. f = [i \in 1..n |-> Step(f, i)]
  BY <1>1
<1>3. n # 0 => FlattenSeq(seqs) = f[n]
  BY DEF FlattenSeq, n
<1>4. n = 0 => FlattenSeq(seqs) = <<>>
  BY DEF FlattenSeq, n
<1> HIDE DEF f
<1> DEFINE g == [i \in 0..n |-> IF i = 0 THEN <<>> ELSE f[i]]
<1>5. ASSUME NEW i \in 1..n, g[i - 1] \in Seq(T)
      PROVE  g[i] = g[i - 1] \o seqs[i] /\ g[i] \in Seq(T)
  <2>1. f[i] = Step(f, i) /\ g[i] = f[i]
    <3>1. f[i] = Step(f, i)
      BY <1>2, Zenon
    <3>2. g[i] = f[i]
      BY <1>0
    <3> QED
      BY <3>1, <3>2
  <2>2. CASE i = 1
    BY <1>0, <2>1, <2>2, ConcatEmptySeq
  <2>3. CASE i # 1
    <3>1. g[i - 1] = f[i - 1]
      BY <1>0, <2>3
    <3>2. g[i] = g[i - 1] \o seqs[i]
      BY <2>1, <2>3, <3>1, Zenon
    <3> HIDE DEF g
    <3> QED
      BY <1>0, <1>5, <3>2, ConcatProperties
  <2> QED
    BY <2>2, <2>3
<1>6. \A i \in 0..n : g[i] \in Seq(T)
  <2> DEFINE P == {i \in 0..n : g[i] \in Seq(T)}
  <2>1. 0 \in P
    BY <1>0
  <2>2. ASSUME NEW i \in 1..n, i - 1 \in P PROVE i \in P
    <3> HIDE DEF g
    <3>1. i \in 0..n /\ g[i - 1] \in Seq(T)
      BY <1>0, <2>2
    <3>2. g[i] \in Seq(T)
      BY <1>5, <3>1
    <3> QED
      BY <3>1, <3>2
  <2> HIDE DEF P
  <2>3. \A i \in 1..n : i - 1 \in P => i \in P
    BY <2>2
  <2>4. \A i \in 0..n : i \in P
    BY <1>0, <2>1, <2>3, InductionUpTo
  <2> QED
    BY <2>4 DEF P
<1>7. g \in [0..n -> Seq(T)]
  BY <1>6
<1>8. FlattenSeq(seqs) = g[n]
  BY <1>0, <1>3, <1>4
<1>9. Accumulates(seqs, g)
  <2>1. g[0] = <<>>
    BY <1>0
  <2>2. ASSUME NEW i \in 1..n PROVE g[i] = g[i - 1] \o seqs[i]
    <3>1. i - 1 \in 0..n
      BY <1>0
    <3> QED
      BY <1>5, <1>6, <3>1
  <2> QED
    BY <2>1, <2>2 DEF Accumulates, n
<1> QED
  BY <1>7, <1>8, <1>9 DEF n

\* Nothing but empty sequences makes an empty one.
LEMMA FlattenSeqEmpty ==
  ASSUME NEW T, NEW seqs \in Seq(Seq(T)), \A i \in 1..Len(seqs) : seqs[i] = <<>>
  PROVE  FlattenSeq(seqs) = <<>>
<1> DEFINE n == Len(seqs)
<1>1. PICK g \in [0..n -> Seq(T)] : Accumulates(seqs, g) /\ FlattenSeq(seqs) = g[n]
  BY FlattenSeqPrefixes
<1>2. n \in Nat /\ g[0] = <<>> /\ \A i \in 1..n : g[i] = g[i - 1] \o seqs[i]
  BY <1>1 DEF Accumulates
<1> DEFINE P == {i \in 0..n : g[i] = <<>>}
<1>3. 0 \in P
  BY <1>2
<1>4. ASSUME NEW i \in 1..n, i - 1 \in P PROVE i \in P
  <2>1. g[i] = <<>> \o <<>>
    BY <1>2, <1>4
  <2>2. <<>> \o <<>> = <<>>
    BY ConcatEmptySeq, EmptySeq
  <2> QED
    BY <1>2, <2>1, <2>2
<1>5. \A i \in 0..n : i \in P
  <2> HIDE DEF P, n
  <2> QED
    BY <1>2, <1>3, <1>4, InductionUpTo
<1> QED
  BY <1>1, <1>2, <1>5

\* t is s with x appended to its kth sequence, and those after it are empty.
Extends(s, t, k, x) ==
  /\ t[k] = s[k] \o x
  /\ \A i \in 1..Len(s) : i # k => t[i] = s[i]
  /\ \A i \in 1..Len(s) : k < i => s[i] = <<>>

\* What a sequence ends with stays at its end, whatever precedes it.
LEMMA JoinLast ==
  ASSUME NEW T, NEW x \in Seq(T), NEW p \in Seq(T), NEW a \in Seq(T)
  PROVE  /\ p \o (a \o x) = (p \o a) \o x
         /\ (p \o x) \o <<>> = (p \o <<>>) \o x
<1>1. p \o x \in Seq(T)
  BY ConcatProperties
<1>2. (p \o x) \o <<>> = p \o x /\ p \o <<>> = p
  BY <1>1, ConcatEmptySeq
<1>3. p \o (a \o x) = (p \o a) \o x
  BY ConcatAssociative
<1> QED
  BY <1>2, <1>3

\* What is appended to the last sequence that is not empty is appended to all.
LEMMA FlattenSeqExtend ==
  ASSUME NEW T, NEW s \in Seq(Seq(T)), NEW t \in Seq(Seq(T)), Len(t) = Len(s),
         NEW k \in 1..Len(s), NEW x \in Seq(T), Extends(s, t, k, x)
  PROVE  FlattenSeq(t) = FlattenSeq(s) \o x
<1> DEFINE n == Len(s)
<1>0. n \in Nat /\ Len(t) = n /\ k \in 1..n /\ k \in Nat /\ \A i \in 1..n : s[i] \in Seq(T)
  OBVIOUS
<1>1. PICK g \in [0..n -> Seq(T)] : Accumulates(s, g) /\ FlattenSeq(s) = g[n]
  BY FlattenSeqPrefixes
<1>2. PICK h \in [0..n -> Seq(T)] : Accumulates(t, h) /\ FlattenSeq(t) = h[n]
  BY <1>0, FlattenSeqPrefixes
<1>3. /\ g[0] = <<>> /\ \A i \in 1..n : g[i] = g[i - 1] \o s[i]
      /\ h[0] = <<>> /\ \A i \in 1..n : h[i] = h[i - 1] \o t[i]
  BY <1>0, <1>1, <1>2, Zenon DEF Accumulates
<1>4. \A p \in Seq(T), a \in Seq(T) :
        /\ p \o (a \o x) = (p \o a) \o x
        /\ (p \o x) \o <<>> = (p \o <<>>) \o x
  <2> TAKE p \in Seq(T), a \in Seq(T)
  <2> QED
    BY JoinLast
<1> HIDE DEF n
<1> DEFINE P == {i \in 0..n : h[i] = IF i < k THEN g[i] ELSE g[i] \o x}
<1>5. 0 \in P
  BY <1>0, <1>3
<1>6. ASSUME NEW i \in 1..n, i - 1 \in P PROVE i \in P
  <2>1. i \in 0..n /\ i - 1 \in 0..n
    BY <1>0
  <2>2. h[i] = h[i - 1] \o t[i] /\ g[i] = g[i - 1] \o s[i]
    BY <1>3
  <2>3. h[i - 1] = IF i - 1 < k THEN g[i - 1] ELSE g[i - 1] \o x
    BY <1>6
  <2>4. g[i - 1] \in Seq(T) /\ s[i] \in Seq(T)
    BY <1>0, <2>1
  <2>5. /\ g[i - 1] \o (s[i] \o x) = (g[i - 1] \o s[i]) \o x
        /\ (g[i - 1] \o x) \o <<>> = (g[i - 1] \o <<>>) \o x
    BY <1>4, <2>4, Zenon
  <2>6. CASE i < k
    <3>1. i - 1 < k /\ i # k
      BY <1>0, <2>6
    <3>2. t[i] = s[i]
      BY <3>1, Zenon DEF Extends, n
    <3>3. h[i] = g[i]
      BY <2>2, <2>3, <3>1, <3>2, Zenon
    <3> QED
      BY <2>1, <2>6, <3>3, Zenon
  <2>7. CASE i = k
    <3>1. i - 1 < k /\ ~(i < k)
      BY <1>0, <2>7
    <3>2. t[i] = s[i] \o x
      BY <2>7, Zenon DEF Extends
    <3>3. h[i] = g[i] \o x
      BY <2>2, <2>3, <2>5, <3>1, <3>2, Zenon
    <3> QED
      BY <2>1, <3>1, <3>3, Zenon
  <2>8. CASE k < i
    <3>1. ~(i - 1 < k) /\ ~(i < k) /\ i # k
      BY <1>0, <2>8
    <3>2. t[i] = <<>> /\ s[i] = <<>>
      BY <2>8, <3>1, Zenon DEF Extends, n
    <3>3. h[i] = g[i] \o x
      BY <2>2, <2>3, <2>5, <3>1, <3>2, Zenon
    <3> QED
      BY <2>1, <3>1, <3>3, Zenon
  <2>9. i < k \/ i = k \/ k < i
    BY <1>0
  <2> QED
    BY <2>6, <2>7, <2>8, <2>9
<1>7. \A i \in 0..n : i \in P
  <2> HIDE DEF P
  <2>1. \A i \in 1..n : i - 1 \in P => i \in P
    BY <1>6
  <2> QED
    BY <1>0, <1>5, <2>1, InductionUpTo
<1>8. h[n] = g[n] \o x
  <2>1. n \in 0..n /\ ~(n < k)
    BY <1>0
  <2> QED
    BY <1>7, <2>1
<1> QED
  BY <1>1, <1>2, <1>8, Zenon
=============================================================================
