--------------------------- MODULE GateOutputProofs ---------------------------
(* Theorems about GateOutput for every value of its constants. *)
EXTENDS GateOutput, FoldLemmas

-----------------------------------------------------------------------------
(* Sorting.                                                                *)

Sorts(s, S) ==
  /\ ToSet(s) = S
  /\ \A i, j \in DOMAIN s : i < j => s[i] < s[j]

\* The least of n + 1 numbers goes before the others.
LEMMA SortedStep ==
  ASSUME NEW n \in Nat, NEW S \in SUBSET Nat, NEW m \in S, \A x \in S : m <= x,
         NEW t \in [1..n -> S \ {m}], Sorts(t, S \ {m})
  PROVE  \E s \in [1..(n + 1) -> S] : Sorts(s, S)
<1> DEFINE s == [i \in 1..(n + 1) |-> IF i = 1 THEN m ELSE t[i - 1]]
<1>1. \A i \in 1..(n + 1) : i = 1 \/ i - 1 \in 1..n
  OBVIOUS
<1>2. s \in [1..(n + 1) -> S]
  BY <1>1
<1>3. /\ DOMAIN t = 1..n
      /\ \A y \in S \ {m} : \E j \in 1..n : t[j] = y
      /\ \A i, j \in 1..n : i < j => t[i] < t[j]
  BY DEF Sorts, ToSet
<1>4. ToSet(s) = S
  <2>1. ASSUME NEW y \in S PROVE \E i \in 1..(n + 1) : s[i] = y
    <3>1. CASE y = m
      <4>1. 1 \in 1..(n + 1) /\ s[1] = y
        BY <3>1
      <4> QED
        BY <4>1
    <3>2. CASE y # m
      <4>1. PICK j \in 1..n : t[j] = y
        BY <1>3, <3>2
      <4>2. j + 1 \in 1..(n + 1) /\ j + 1 # 1 /\ (j + 1) - 1 = j
        OBVIOUS
      <4>3. s[j + 1] = y
        BY <4>1, <4>2
      <4> QED
        BY <4>2, <4>3
    <3> QED
      BY <3>1, <3>2
  <2>2. DOMAIN s = 1..(n + 1)
    OBVIOUS
  <2> HIDE DEF s
  <2> QED
    BY <1>2, <2>1, <2>2 DEF ToSet
<1>5. ASSUME NEW i \in 1..(n + 1), NEW j \in 1..(n + 1), i < j
      PROVE  s[i] < s[j]
  <2>1. j - 1 \in 1..n /\ s[j] = t[j - 1] /\ s[j] \in Nat /\ s[j] # m /\ s[j] \in S
    <3>1. j - 1 \in 1..n /\ j # 1
      BY <1>5
    <3>2. t[j - 1] \in S \ {m}
      BY <3>1
    <3> QED
      BY <3>1, <3>2
  <2>2. CASE i = 1
    BY <2>1, <2>2
  <2>3. CASE i # 1
    <3>1. i - 1 \in 1..n /\ i - 1 < j - 1 /\ s[i] = t[i - 1]
      BY <1>5, <2>3
    <3> QED
      BY <1>3, <2>1, <3>1
  <2> QED
    BY <2>2, <2>3
<1>6. Sorts(s, S)
  <2>1. DOMAIN s = 1..(n + 1)
    OBVIOUS
  <2> HIDE DEF s
  <2> QED
    BY <1>4, <1>5, <2>1 DEF Sorts
<1> HIDE DEF s
<1> QED
  BY <1>2, <1>6

\* A finite set of numbers can be put in order.
LEMMA SortedExists ==
  ASSUME NEW S \in SUBSET Nat, IsFiniteSet(S)
  PROVE  \E s \in [1..Cardinality(S) -> S] : Sorts(s, S)
<1> DEFINE P == {n \in Nat : \A U \in SUBSET Nat :
                   IsFiniteSet(U) /\ Cardinality(U) = n =>
                     \E s \in [1..n -> U] : Sorts(s, U)}
<1>1. 0 \in P
  <2>1. ASSUME NEW U \in SUBSET Nat, IsFiniteSet(U), Cardinality(U) = 0
        PROVE  \E s \in [1..0 -> U] : Sorts(s, U)
    <3>1. U = {}
      BY <2>1, FS_EmptySet
    <3> DEFINE s == [i \in 1..0 |-> 0]
    <3>2. s \in [1..0 -> U] /\ DOMAIN s = {}
      OBVIOUS
    <3> HIDE DEF s
    <3>3. Sorts(s, U)
      BY <3>1, <3>2 DEF Sorts, ToSet
    <3> QED
      BY <3>2, <3>3
  <2> QED
    BY <2>1
<1>2. ASSUME NEW n \in P PROVE n + 1 \in P
  <2>1. ASSUME NEW U \in SUBSET Nat, IsFiniteSet(U), Cardinality(U) = n + 1
        PROVE  \E s \in [1..(n + 1) -> U] : Sorts(s, U)
    <3>1. U # {}
      BY <2>1, FS_EmptySet
    <3>2. PICK m \in U : \A x \in U : m <= x
      BY <3>1, LeastNatural
    <3>3. IsFiniteSet(U \ {m}) /\ Cardinality(U \ {m}) = n
      <4>1. IsFiniteSet(U \ {m}) /\ Cardinality(U \ {m}) = Cardinality(U) - 1
        BY <2>1, FS_RemoveElement
      <4>2. n \in Nat
        OBVIOUS
      <4> QED
        BY <2>1, <4>1, <4>2
    <3>4. PICK t \in [1..n -> U \ {m}] : Sorts(t, U \ {m})
      BY <3>3
    <3> QED
      BY <3>2, <3>4, SortedStep
  <2> QED
    BY <2>1
<1>3. P = Nat
  <2> HIDE DEF P
  <2>1. P \in SUBSET Nat
    BY DEF P
  <2> QED
    BY <1>1, <1>2, <2>1, InductionOnNat
<1>4. Cardinality(S) \in Nat
  BY FS_CardinalityType
<1> QED
  BY <1>3, <1>4

\* What Sorted returns: every member of the set, and each once.
LEMMA SortedIsSorted ==
  ASSUME NEW S \in SUBSET Nat, IsFiniteSet(S)
  PROVE  /\ Sorted(S) \in [1..Cardinality(S) -> S]
         /\ Sorted(S) \in Seq(S)
         /\ Len(Sorted(S)) = Cardinality(S)
         /\ ToSet(Sorted(S)) = S
<1> DEFINE C == Cardinality(S)
<1>1. C \in Nat
  BY FS_CardinalityType
<1>2. Sorted(S) \in [1..C -> S] /\ ToSet(Sorted(S)) = S
  BY SortedExists DEF Sorted, Sorts
<1> HIDE DEF C
<1>3. Sorted(S) \in Seq(S) /\ Len(Sorted(S)) = C
  BY <1>1, <1>2
<1> QED
  BY <1>2, <1>3 DEF C

-----------------------------------------------------------------------------
(* Types.                                                                  *)

LEMMA SmallerType ==
  ASSUME NEW m \in Nat, NEW n \in Nat
  PROVE  Smaller(m, n) \in Nat /\ Smaller(m, n) <= m /\ Smaller(m, n) <= n
  BY DEF Smaller

\* The markers of a text are finitely many numbers.
LEMMA MatchesType ==
  ASSUME NEW text \in Seq(Symbols)
  PROVE  /\ Matches(text) \in SUBSET (Nat \ {0})
         /\ IsFiniteSet(Matches(text))
<1>1. Len(text) \in Nat /\ Matches(text) \subseteq 1..Len(text)
  BY DEF Matches
<1>2. IsFiniteSet(1..Len(text))
  BY <1>1, FS_Interval
<1>3. IsFiniteSet(Matches(text))
  BY <1>1, <1>2, FS_Subset
<1>4. 1..Len(text) \subseteq Nat \ {0}
  BY <1>1
<1> QED
  BY <1>1, <1>3, <1>4

LEMMA ExtractType ==
  ASSUME NEW text \in Seq(Symbols)
  PROVE  /\ extractMarkers(text) \in Seq(Nat \ {0})
         /\ ToSet(extractMarkers(text)) = Matches(text)
         /\ Len(extractMarkers(text)) = Cardinality(Matches(text))
<1> DEFINE S == Matches(text)
<1>1. S \in SUBSET (Nat \ {0}) /\ S \in SUBSET Nat /\ IsFiniteSet(S)
  BY MatchesType
<1>2. /\ Sorted(S) \in Seq(S)
      /\ ToSet(Sorted(S)) = S
      /\ Len(Sorted(S)) = Cardinality(S)
  <2> HIDE DEF S
  <2> QED
    BY <1>1, SortedIsSorted
<1>3. Sorted(S) \in Seq(Nat \ {0})
  <2> HIDE DEF S
  <2> QED
    BY <1>1, <1>2, SeqMonotonic
<1> QED
  BY <1>2, <1>3 DEF extractMarkers

\* The first symbols of a piece, which is all that Write takes of it.
LEMMA TakenType ==
  ASSUME NEW piece \in Seq(Symbols), NEW n \in Nat, n <= Len(piece)
  PROVE  SubSeq(piece, 1, n) \in Seq(Symbols) /\ Len(SubSeq(piece, 1, n)) = n
<1>1. \A i \in 1..n : piece[i] \in Symbols
  OBVIOUS
<1> QED
  BY <1>1, SubSeqProperties

LEMMA PieceType == ASSUME NEW piece \in Pieces PROVE piece \in Seq(Symbols)
  BY DEF Pieces, BoundedSeq, SeqOf

-----------------------------------------------------------------------------
(* The inductive invariant.                                                *)

\* What is left of the running gate's allowance; those after it are silent.
AllowanceInv ==
  /\ gate > 0 => remaining = Cap - Smaller(Len(printed[gate]), Cap)
  /\ \A g \in Gates : gate < g => printed[g] = <<>>

\* Nothing is written, and no markers are extracted, once the markers are.
ScanInv ==
  /\ vulnIDs = IF classified THEN extractMarkers(buf) ELSE <<>>
  /\ command # <<>> => /\ classified
                       /\ vulnIDs # <<>>
                       /\ command = <<BuildCreateCommand(repo, vulnIDs)>>

Inv == TypeOK /\ AllowanceInv /\ BufferIsLeading /\ ScanInv

Texts(p) == [g \in Gates |-> Leading(p[g])]

LEMMA LeadingType ==
  ASSUME NEW text \in Seq(Symbols)
  PROVE  /\ Leading(text) \in Seq(Symbols)
         /\ Len(Leading(text)) = Smaller(Len(text), Cap)
<1>1. Smaller(Len(text), Cap) \in Nat /\ Smaller(Len(text), Cap) <= Len(text)
  <2>1. Len(text) \in Nat
    OBVIOUS
  <2> QED
    BY <2>1, SmallerType, CapAssumption
<1> QED
  BY <1>1, TakenType DEF Leading

LEMMA TextsType ==
  ASSUME NEW p \in [Gates -> Seq(Symbols)]
  PROVE  /\ Texts(p) \in Seq(Seq(Symbols))
         /\ Len(Texts(p)) = GateCount
         /\ \A g \in Gates : Texts(p)[g] = Leading(p[g])
<1>1. GateCount \in Nat /\ Gates = 1..GateCount
  BY GateCountAssumption DEF Gates
<1>2. \A g \in Gates : Leading(p[g]) \in Seq(Symbols)
  BY LeadingType
<1> QED
  BY <1>1, <1>2 DEF Texts

\* Nothing of a piece is taken before the allowance is spent by what precedes it.
LEMMA Allowance ==
  ASSUME NEW a \in Nat, NEW b \in Nat, NEW c \in Nat
  PROVE  /\ Smaller(a, c) \in Nat /\ Smaller(a, c) <= a
         /\ Smaller(b, c - Smaller(a, c)) \in Nat /\ Smaller(b, c - Smaller(a, c)) <= b
         /\ Smaller(b, c - Smaller(a, c)) # 0 => Smaller(a, c) = a
         /\ Smaller(a + b, c) = Smaller(a, c) + Smaller(b, c - Smaller(a, c))
  BY DEF Smaller

\* A gate's leading part, after one more piece.
LEMMA LeadingExtends ==
  ASSUME NEW text \in Seq(Symbols), NEW piece \in Seq(Symbols)
  PROVE  Leading(text \o piece) =
           Leading(text) \o SubSeq(piece, 1, Smaller(Len(piece), Cap - Smaller(Len(text), Cap)))
<1> DEFINE a == Len(text)
           b == Len(piece)
           k == Smaller(a, Cap)
           n == Smaller(b, Cap - k)
           whole == text \o piece
<1>1. /\ a \in Nat /\ b \in Nat /\ Cap \in Nat
      /\ whole \in Seq(Symbols) /\ Len(whole) = a + b
      /\ \A i \in 1..(a + b) : whole[i] = IF i <= a THEN text[i] ELSE piece[i - a]
  BY CapAssumption, ConcatProperties
<1>2. /\ k \in Nat /\ k <= a /\ n \in Nat /\ n <= b
      /\ n # 0 => k = a
      /\ Smaller(a + b, Cap) = k + n
  <2>1. a \in Nat /\ b \in Nat /\ Cap \in Nat
    BY <1>1
  <2> HIDE DEF a, b
  <2>2. /\ Smaller(a, Cap) \in Nat /\ Smaller(a, Cap) <= a
        /\ Smaller(b, Cap - Smaller(a, Cap)) \in Nat /\ Smaller(b, Cap - Smaller(a, Cap)) <= b
        /\ Smaller(b, Cap - Smaller(a, Cap)) # 0 => Smaller(a, Cap) = a
        /\ Smaller(a + b, Cap) = Smaller(a, Cap) + Smaller(b, Cap - Smaller(a, Cap))
    BY <2>1, Allowance, Zenon
  <2> QED
    BY <2>2
<1> HIDE DEF k, n
<1>3. /\ Leading(text) = SubSeq(text, 1, k)
      /\ Leading(whole) = SubSeq(whole, 1, k + n)
  BY <1>1, <1>2 DEF Leading, k
<1> HIDE DEF whole
<1>4. /\ SubSeq(text, 1, k) \in Seq(Symbols) /\ Len(SubSeq(text, 1, k)) = k
      /\ \A i \in 1..k : SubSeq(text, 1, k)[i] = text[i]
  <2>1. \A i \in 1..k : text[i] \in Symbols
    BY <1>1, <1>2
  <2> QED
    BY <1>2, <2>1, SubSeqProperties
<1>5. /\ SubSeq(piece, 1, n) \in Seq(Symbols) /\ Len(SubSeq(piece, 1, n)) = n
      /\ \A i \in 1..n : SubSeq(piece, 1, n)[i] = piece[i]
  <2>1. \A i \in 1..n : piece[i] \in Symbols
    BY <1>1, <1>2
  <2> QED
    BY <1>2, <2>1, SubSeqProperties
<1>6. /\ SubSeq(whole, 1, k + n) \in Seq(Symbols) /\ Len(SubSeq(whole, 1, k + n)) = k + n
      /\ \A i \in 1..(k + n) : SubSeq(whole, 1, k + n)[i] = whole[i]
  <2>1. k + n \in Nat /\ k + n <= a + b
    BY <1>1, <1>2
  <2>2. \A i \in 1..(k + n) : whole[i] \in Symbols
    BY <1>1, <2>1
  <2> QED
    BY <2>1, <2>2, SubSeqProperties
<1> DEFINE l == SubSeq(text, 1, k)
           r == SubSeq(piece, 1, n)
           w == SubSeq(whole, 1, k + n)
<1> HIDE DEF l, r, w, a, b
<1>7. /\ l \o r \in Seq(Symbols) /\ Len(l \o r) = k + n
      /\ \A i \in 1..(k + n) : (l \o r)[i] = IF i <= k THEN l[i] ELSE r[i - k]
  <2>1. l \in Seq(Symbols) /\ Len(l) = k /\ r \in Seq(Symbols) /\ Len(r) = n
    BY <1>4, <1>5 DEF l, r
  <2> QED
    BY <2>1, ConcatProperties
<1>8. \A i \in 1..(k + n) : w[i] = (l \o r)[i]
  <2> TAKE i \in 1..(k + n)
  <2>1. CASE i <= k
    <3>1. w[i] = text[i] /\ l[i] = text[i]
      BY <1>1, <1>2, <1>4, <1>6, <2>1 DEF w, l
    <3> QED
      BY <1>7, <2>1, <3>1
  <2>2. CASE k < i
    <3>1. i - k \in 1..n /\ n # 0 /\ ~(i <= k) /\ i \in 1..(a + b)
      BY <1>1, <1>2, <2>2
    <3>2. k = a
      BY <1>2, <3>1
    <3>3. w[i] = piece[i - k] /\ r[i - k] = piece[i - k]
      BY <1>1, <1>5, <1>6, <3>1, <3>2 DEF w, r
    <3> QED
      BY <1>7, <3>1, <3>3
  <2>3. i <= k \/ k < i
    BY <1>2
  <2> QED
    BY <2>1, <2>2, <2>3
<1>9. w = l \o r
  BY <1>6, <1>7, <1>8, SeqEqual DEF w
<1> QED
  BY <1>3, <1>9 DEF w, l, r, n, k, a, b, whole

LEMMA BufferOfTexts == BufferIsLeading <=> buf = FlattenSeq(Texts(printed))
  BY DEF BufferIsLeading, Texts

LEMMA LeadingNothing == Leading(<<>>) = <<>>
<1>1. Smaller(Len(<<>>), Cap) = 0
  BY CapAssumption DEF Smaller
<1>2. SubSeq(<<>>, 1, 0) = <<>>
  BY SubSeqEmpty
<1> QED
  BY <1>1, <1>2 DEF Leading

LEMMA InitInv == Init => Inv
<1> SUFFICES ASSUME Init PROVE Inv
  OBVIOUS
<1>1. /\ gate = 0 /\ buf = <<>> /\ remaining = 0 /\ vulnIDs = <<>> /\ classified = FALSE
      /\ repo \in Names /\ command = <<>> /\ printed = [g \in Gates |-> <<>>]
  BY DEF Init
<1>2. printed \in [Gates -> Seq(Symbols)] /\ \A g \in Gates : printed[g] = <<>>
  <2>1. <<>> \in Seq(Symbols)
    OBVIOUS
  <2> QED
    BY <1>1, <2>1
<1>3. TypeOK
  <2>1. <<>> \in Seq(Symbols) /\ <<>> \in Seq(Nat)
    OBVIOUS
  <2>2. 0 \in 0..GateCount /\ 0 \in 0..Cap
    BY GateCountAssumption, CapAssumption
  <2> QED
    BY <1>1, <1>2, <2>1, <2>2, Zenon DEF TypeOK
<1>4. AllowanceInv
  BY <1>1, <1>2 DEF AllowanceInv
<1>5. BufferIsLeading
  <2>1. \A i \in 1..Len(Texts(printed)) : Texts(printed)[i] = <<>>
    <3>1. \A i \in Gates : Texts(printed)[i] = <<>>
      BY <1>2, LeadingNothing, TextsType
    <3> QED
      BY <1>2, <3>1, TextsType DEF Gates
  <2>2. FlattenSeq(Texts(printed)) = <<>>
    BY <1>2, <2>1, TextsType, FlattenSeqEmpty
  <2> QED
    BY <1>1, <2>2, BufferOfTexts
<1>6. ScanInv
  BY <1>1 DEF ScanInv
<1> QED
  BY <1>3, <1>4, <1>5, <1>6 DEF Inv

-----------------------------------------------------------------------------
(* The buffer.                                                             *)

\* What the writer takes of a piece.
Taken(piece) == SubSeq(piece, 1, Smaller(Len(piece), remaining))

\* What a Write does, in the terms of the invariant.
LEMMA Writes ==
  ASSUME TypeOK, AllowanceInv, NEW piece \in Pieces, Write(piece)
  PROVE  /\ gate \in Gates /\ ~classified
         /\ piece \in Seq(Symbols)
         /\ Taken(piece) \in Seq(Symbols)
         /\ Smaller(Len(piece), remaining) \in Nat
         /\ Smaller(Len(piece), remaining) <= remaining
         /\ buf' = buf \o Taken(piece)
         /\ remaining' = remaining - Smaller(Len(piece), remaining)
         /\ printed' \in [Gates -> Seq(Symbols)]
         /\ printed'[gate] = printed[gate] \o piece
         /\ \A g \in Gates \ {gate} : printed'[g] = printed[g]
         /\ UNCHANGED <<gate, vulnIDs, classified, repo, command>>
<1>1. gate \in Gates /\ ~classified
  BY GateCountAssumption DEF Write, Prints, TypeOK, Gates
<1>2. piece \in Seq(Symbols) /\ Len(piece) \in Nat
  BY PieceType
<1>3. remaining \in Nat
  BY CapAssumption DEF TypeOK
<1>4. Smaller(Len(piece), remaining) \in Nat /\ Smaller(Len(piece), remaining) <= Len(piece)
      /\ Smaller(Len(piece), remaining) <= remaining
  BY <1>2, <1>3, SmallerType
<1>5. Taken(piece) \in Seq(Symbols)
  BY <1>2, <1>4, TakenType DEF Taken
<1>6. printed' = [printed EXCEPT ![gate] = @ \o piece]
  BY DEF Write, Prints
<1>7. printed[gate] \o piece \in Seq(Symbols)
  BY <1>1, <1>2, ConcatProperties DEF TypeOK
<1>8. /\ printed' \in [Gates -> Seq(Symbols)]
      /\ printed'[gate] = printed[gate] \o piece
      /\ \A g \in Gates \ {gate} : printed'[g] = printed[g]
  BY <1>1, <1>6, <1>7, Zenon DEF TypeOK
<1>9. /\ buf' = buf \o Taken(piece)
      /\ remaining' = remaining - Smaller(Len(piece), remaining)
      /\ UNCHANGED <<gate, vulnIDs, classified, repo, command>>
  BY Zenon DEF Write, Taken
<1> QED
  BY <1>1, <1>2, <1>4, <1>5, <1>8, <1>9, Zenon

LEMMA WriteInv == ASSUME Inv, NEW piece \in Pieces, Write(piece) PROVE Inv'
<1>0. TypeOK /\ AllowanceInv /\ BufferIsLeading /\ ScanInv
  BY DEF Inv
<1>1. /\ gate \in Gates /\ ~classified
      /\ piece \in Seq(Symbols)
      /\ Taken(piece) \in Seq(Symbols)
      /\ Smaller(Len(piece), remaining) \in Nat
      /\ Smaller(Len(piece), remaining) <= remaining
      /\ buf' = buf \o Taken(piece)
      /\ remaining' = remaining - Smaller(Len(piece), remaining)
      /\ printed' \in [Gates -> Seq(Symbols)]
      /\ printed'[gate] = printed[gate] \o piece
      /\ \A g \in Gates \ {gate} : printed'[g] = printed[g]
      /\ UNCHANGED <<gate, vulnIDs, classified, repo, command>>
  BY <1>0, Writes
<1>2. gate \in Nat \ {0} /\ Cap \in Nat /\ remaining \in 0..Cap
  BY <1>0, <1>1, GateCountAssumption, CapAssumption DEF Gates, TypeOK
<1>3. TypeOK'
  <2>1. buf' \in Seq(Symbols)
    BY <1>0, <1>1, ConcatProperties DEF TypeOK
  <2>2. remaining' \in 0..Cap
    BY <1>1, <1>2
  <2> QED
    BY <1>0, <1>1, <2>1, <2>2 DEF TypeOK
<1>4. printed[gate] \in Seq(Symbols) /\ Len(printed[gate]) \in Nat /\ Len(piece) \in Nat
  BY <1>0, <1>1 DEF TypeOK
<1>5. remaining = Cap - Smaller(Len(printed[gate]), Cap)
  BY <1>0, <1>2 DEF AllowanceInv
<1>6. AllowanceInv'
  <2>1. Len(printed'[gate]) = Len(printed[gate]) + Len(piece)
    BY <1>1, <1>4, ConcatProperties
  <2> DEFINE a == Len(printed[gate])
             b == Len(piece)
  <2>2. a \in Nat /\ b \in Nat
    BY <1>4
  <2> HIDE DEF a, b
  <2>3. /\ Smaller(a, Cap) \in Nat
        /\ Smaller(b, Cap - Smaller(a, Cap)) \in Nat
        /\ Smaller(a + b, Cap) = Smaller(a, Cap) + Smaller(b, Cap - Smaller(a, Cap))
    BY <1>2, <2>2, Allowance
  <2>4. remaining' = Cap - Smaller(a + b, Cap)
    <3>1. remaining' = remaining - Smaller(b, Cap - Smaller(a, Cap))
      BY <1>1, <1>5, Zenon DEF a, b
    <3>2. remaining = Cap - Smaller(a, Cap)
      BY <1>5 DEF a
    <3> QED
      BY <1>2, <2>3, <3>1, <3>2
  <2>5. remaining' = Cap - Smaller(Len(printed'[gate]), Cap)
    BY <2>1, <2>4, Zenon DEF a, b
  <2>6. \A g \in Gates : gate < g => printed'[g] = <<>>
    <3> SUFFICES ASSUME NEW g \in Gates, gate < g PROVE printed'[g] = <<>>
      OBVIOUS
    <3>1. g # gate
      BY <1>2
    <3> QED
      BY <1>0, <1>1, <3>1 DEF AllowanceInv
  <2> QED
    BY <1>1, <2>5, <2>6, Zenon DEF AllowanceInv
<1>7. BufferIsLeading'
  <2> DEFINE s == Texts(printed)
             t == Texts(printed')
             x == Taken(piece)
  <2>1. /\ s \in Seq(Seq(Symbols)) /\ Len(s) = GateCount
        /\ \A g \in Gates : s[g] = Leading(printed[g])
    BY <1>0, TextsType DEF TypeOK
  <2>2. /\ t \in Seq(Seq(Symbols)) /\ Len(t) = GateCount
        /\ \A g \in Gates : t[g] = Leading(printed'[g])
    BY <1>1, TextsType
  <2>3. Leading(printed'[gate]) = Leading(printed[gate]) \o x
    BY <1>1, <1>4, <1>5, LeadingExtends, Zenon DEF Taken
  <2> HIDE DEF s, t, x
  <2>4. t[gate] = s[gate] \o x
    BY <1>1, <2>1, <2>2, <2>3, Zenon
  <2>5. \A g \in Gates : g # gate => t[g] = s[g]
    BY <1>1, <2>1, <2>2, Zenon
  <2>6. \A g \in Gates : gate < g => s[g] = <<>>
    BY <1>0, <2>1, LeadingNothing DEF AllowanceInv
  <2>7. Extends(s, t, gate, x) /\ gate \in 1..Len(s) /\ Len(t) = Len(s)
    <3>1. 1..Len(s) = Gates
      BY <2>1 DEF Gates
    <3> QED
      BY <1>1, <2>1, <2>2, <2>4, <2>5, <2>6, <3>1, Zenon DEF Extends
  <2>8. x \in Seq(Symbols)
    BY <1>1 DEF x
  <2>9. FlattenSeq(t) = FlattenSeq(s) \o x
    BY <2>1, <2>2, <2>7, <2>8, FlattenSeqExtend
  <2>10. buf = FlattenSeq(s)
    BY <1>0, BufferOfTexts DEF s
  <2>11. buf' = FlattenSeq(t)
    BY <1>1, <2>9, <2>10, Zenon DEF x
  <2> QED
    BY <2>11, Zenon DEF BufferIsLeading, t, Texts
<1>8. ScanInv'
  BY <1>0, <1>1 DEF ScanInv
<1> QED
  BY <1>3, <1>6, <1>7, <1>8 DEF Inv

LEMMA NextInv == ASSUME Inv, [Next]_vars PROVE Inv'
<1>0. TypeOK /\ AllowanceInv /\ BufferIsLeading /\ ScanInv
  BY DEF Inv
<1>1. CASE StartGate
  <2>1. /\ ~classified /\ gate < GateCount /\ gate' = gate + 1 /\ remaining' = Cap
        /\ UNCHANGED <<buf, vulnIDs, classified, repo, command, printed>>
    BY <1>1 DEF StartGate
  <2>2. gate \in Nat /\ gate + 1 \in Gates /\ gate' \in 0..GateCount /\ Cap \in 0..Cap
    BY <1>0, <2>1, GateCountAssumption, CapAssumption DEF TypeOK, Gates
  <2>3. TypeOK'
    BY <1>0, <2>1, <2>2 DEF TypeOK
  <2>4. AllowanceInv'
    <3>1. printed[gate + 1] = <<>>
      BY <1>0, <2>2 DEF AllowanceInv
    <3>2. Smaller(Len(<<>>), Cap) = 0
      BY CapAssumption DEF Smaller
    <3>3. remaining' = Cap - Smaller(Len(printed'[gate']), Cap)
      BY <2>1, <3>1, <3>2, CapAssumption
    <3>4. \A g \in Gates : gate' < g => printed'[g] = <<>>
      <4> SUFFICES ASSUME NEW g \in Gates, gate' < g PROVE printed'[g] = <<>>
        OBVIOUS
      <4>1. gate < g
        BY <2>1, <2>2, GateCountAssumption DEF Gates
      <4> QED
        BY <1>0, <2>1, <4>1 DEF AllowanceInv
    <3> QED
      BY <3>3, <3>4 DEF AllowanceInv
  <2>5. BufferIsLeading' /\ ScanInv'
    BY <1>0, <2>1 DEF BufferIsLeading, ScanInv
  <2> QED
    BY <2>3, <2>4, <2>5 DEF Inv
<1>2. CASE Classify
  <2>1. /\ ~classified /\ vulnIDs' = extractMarkers(buf) /\ classified' = TRUE
        /\ UNCHANGED <<gate, buf, remaining, repo, command, printed>>
    BY <1>2 DEF Classify
  <2>2. extractMarkers(buf) \in Seq(Nat)
    <3>1. extractMarkers(buf) \in Seq(Nat \ {0})
      BY <1>0, ExtractType DEF TypeOK
    <3> QED
      BY <3>1, SeqMonotonic
  <2>3. TypeOK'
    BY <1>0, <2>1, <2>2 DEF TypeOK
  <2>4. AllowanceInv' /\ BufferIsLeading' /\ ScanInv'
    BY <1>0, <2>1 DEF AllowanceInv, BufferIsLeading, ScanInv
  <2> QED
    BY <2>3, <2>4 DEF Inv
<1>3. CASE Publish
  <2>1. /\ vulnIDs # <<>> /\ command' = <<BuildCreateCommand(repo, vulnIDs)>>
        /\ UNCHANGED <<gate, buf, remaining, vulnIDs, classified, repo, printed>>
    BY <1>3 DEF Publish
  <2>2. TypeOK' /\ AllowanceInv' /\ BufferIsLeading'
    BY <1>0, <2>1 DEF TypeOK, AllowanceInv, BufferIsLeading
  <2>3. command' = <<BuildCreateCommand(repo', vulnIDs')>>
    BY <2>1, Zenon
  <2>4. ScanInv'
    BY <1>0, <2>1, <2>3, Zenon DEF ScanInv
  <2> QED
    BY <2>2, <2>4 DEF Inv
<1>4. ASSUME NEW piece \in Pieces, Write(piece) PROVE Inv'
  BY <1>4, WriteInv
<1>5. CASE UNCHANGED vars
  BY <1>0, <1>5 DEF vars, Inv, TypeOK, AllowanceInv, BufferIsLeading, ScanInv
<1> QED
  BY <1>1, <1>2, <1>3, <1>4, <1>5 DEF Next

-----------------------------------------------------------------------------
(* The markers.                                                            *)

\* A marker of n digits at position i.
MarkerAt(text, i, n) ==
  /\ text[i] = "Tag"
  /\ \A j \in (i + 1)..(i + n) : text[j] = "Digit"
  /\ i + n < Len(text) => text[i + n + 1] # "Digit"

LEMMA MatchesMarkers ==
  ASSUME NEW text \in Seq(Symbols)
  PROVE  \A n : n \in Matches(text) <=>
                  n \in Nat \ {0} /\ \E i \in Nat \ {0} : i + n <= Len(text) /\ MarkerAt(text, i, n)
<1>1. Len(text) \in Nat
  OBVIOUS
<1>2. \A n : n \in Matches(text) <=>
               n \in 1..Len(text) /\ \E i \in 1..(Len(text) - n) : MarkerAt(text, i, n)
  BY DEF Matches, MarkerAt
<1> QED
  BY <1>1, <1>2

\* Where a text ends with a line end, no marker runs on into the next.
LEMMA MarkerBefore ==
  ASSUME NEW s \in Seq(Symbols), NEW t \in Seq(Symbols), Terminated(s),
         NEW i \in Nat \ {0}, NEW n \in Nat \ {0}, i <= Len(s)
  PROVE  (i + n <= Len(s \o t) /\ MarkerAt(s \o t, i, n)) <=>
         (i + n <= Len(s) /\ MarkerAt(s, i, n))
<1> DEFINE w == s \o t
           a == Len(s)
           b == Len(t)
<1>1. /\ a \in Nat /\ b \in Nat /\ Len(w) = a + b
      /\ \A j \in 1..(a + b) : w[j] = IF j <= a THEN s[j] ELSE t[j - a]
  BY ConcatProperties
<1>2. s[a] = "Other" /\ a > 0
  <2>1. s # <<>>
    OBVIOUS
  <2> QED
    BY <2>1 DEF Terminated, Last
<1>3. i <= a
  OBVIOUS
<1> HIDE DEF w, a, b
<1>4. \A j \in 1..a : w[j] = s[j]
  BY <1>1
<1>5. ASSUME i + n <= a + b, MarkerAt(w, i, n) PROVE i + n < a /\ MarkerAt(s, i, n)
  <2>1. w[i] = "Tag" /\ \A j \in (i + 1)..(i + n) : w[j] = "Digit"
    BY <1>5 DEF MarkerAt
  <2>2. w[a] = "Other"
    BY <1>1, <1>2, <1>4
  <2>3. i # a
    BY <2>1, <2>2
  <2>4. i + n < a
    <3> SUFFICES ASSUME a <= i + n PROVE FALSE
      BY <1>1
    <3>1. a \in (i + 1)..(i + n)
      BY <1>1, <1>3, <2>3
    <3> QED
      BY <2>1, <2>2, <3>1
  <2>5. \A j \in i..(i + n + 1) : w[j] = s[j]
    BY <1>1, <1>4, <2>4
  <2>6. w[i + n + 1] # "Digit"
    BY <1>1, <1>5, <2>4 DEF MarkerAt
  <2>7. s[i] = "Tag" /\ s[i + n + 1] # "Digit" /\ \A j \in (i + 1)..(i + n) : s[j] = "Digit"
    BY <2>1, <2>5, <2>6
  <2> QED
    BY <2>4, <2>7 DEF MarkerAt
<1>6. ASSUME i + n <= a, MarkerAt(s, i, n) PROVE i + n <= a + b /\ MarkerAt(w, i, n)
  <2>1. s[i] = "Tag" /\ \A j \in (i + 1)..(i + n) : s[j] = "Digit"
    BY <1>6 DEF MarkerAt
  <2>2. i + n \in (i + 1)..(i + n)
    OBVIOUS
  <2>3. i + n # a
    BY <1>2, <2>1, <2>2
  <2>4. i + n < a
    BY <1>1, <1>6, <2>3
  <2>5. \A j \in i..(i + n + 1) : w[j] = s[j]
    BY <1>1, <1>4, <2>4
  <2>6. s[i + n + 1] # "Digit"
    BY <1>6, <2>4 DEF MarkerAt, a
  <2>7. w[i] = "Tag" /\ w[i + n + 1] # "Digit" /\ \A j \in (i + 1)..(i + n) : w[j] = "Digit"
    BY <2>1, <2>5, <2>6
  <2> QED
    BY <1>1, <2>4, <2>7 DEF MarkerAt
<1>7. (i + n <= a + b /\ MarkerAt(w, i, n)) <=> (i + n <= a /\ MarkerAt(s, i, n))
  BY <1>1, <1>5, <1>6
<1> QED
  BY <1>1, <1>7 DEF w, a, b

\* Nor does one begin earlier.
LEMMA MarkerAfter ==
  ASSUME NEW s \in Seq(Symbols), NEW t \in Seq(Symbols),
         NEW i \in Nat \ {0}, NEW n \in Nat \ {0}
  PROVE  (Len(s) + i + n <= Len(s \o t) /\ MarkerAt(s \o t, Len(s) + i, n)) <=>
         (i + n <= Len(t) /\ MarkerAt(t, i, n))
<1> DEFINE w == s \o t
           a == Len(s)
           b == Len(t)
<1>1. /\ a \in Nat /\ b \in Nat /\ Len(w) = a + b
      /\ \A j \in 1..(a + b) : w[j] = IF j <= a THEN s[j] ELSE t[j - a]
  BY ConcatProperties
<1> HIDE DEF w, a, b
<1>2. \A j \in 1..b : w[a + j] = t[j]
  BY <1>1
<1>3. ASSUME i + n <= b PROVE MarkerAt(w, a + i, n) <=> MarkerAt(t, i, n)
  <2>1. w[a + i] = t[i]
    <3>1. i \in 1..b
      BY <1>1, <1>3
    <3> QED
      BY <1>2, <3>1
  <2>2. (\A j \in ((a + i) + 1)..((a + i) + n) : w[j] = "Digit") <=>
        (\A j \in (i + 1)..(i + n) : t[j] = "Digit")
    <3>1. ASSUME \A j \in ((a + i) + 1)..((a + i) + n) : w[j] = "Digit", NEW j \in (i + 1)..(i + n)
          PROVE  t[j] = "Digit"
      <4>1. j \in 1..b /\ a + j \in ((a + i) + 1)..((a + i) + n)
        BY <1>1, <1>3
      <4> QED
        BY <1>2, <3>1, <4>1
    <3>2. ASSUME \A j \in (i + 1)..(i + n) : t[j] = "Digit", NEW j \in ((a + i) + 1)..((a + i) + n)
          PROVE  w[j] = "Digit"
      <4>1. j - a \in 1..b /\ j - a \in (i + 1)..(i + n) /\ a + (j - a) = j
        BY <1>1, <1>3
      <4> QED
        BY <1>2, <3>2, <4>1
    <3> QED
      BY <3>1, <3>2
  <2>3. (a + i) + n < Len(w) <=> i + n < b
    BY <1>1
  <2>4. i + n < b => w[(a + i) + n + 1] = t[i + n + 1]
    <3>1. i + n < b => i + n + 1 \in 1..b /\ a + (i + n + 1) = (a + i) + n + 1
      BY <1>1
    <3> QED
      BY <1>2, <3>1
  <2> QED
    BY <2>1, <2>2, <2>3, <2>4 DEF MarkerAt, b
<1>4. (a + i) + n <= a + b <=> i + n <= b
  BY <1>1
<1>5. ((a + i) + n <= a + b /\ MarkerAt(w, a + i, n)) <=> (i + n <= b /\ MarkerAt(t, i, n))
  BY <1>3, <1>4
<1> QED
  BY <1>1, <1>5 DEF w, a, b

LEMMA MatchesJoin ==
  ASSUME NEW s \in Seq(Symbols), NEW t \in Seq(Symbols), Terminated(s)
  PROVE  Matches(s \o t) = Matches(s) \cup Matches(t)
<1> DEFINE w == s \o t
<1>1. w \in Seq(Symbols)
  BY ConcatProperties
<1>2. Len(s) \in Nat /\ Len(t) \in Nat
  OBVIOUS
<1>3. ASSUME NEW n \in Nat \ {0}, NEW i \in Nat \ {0}, i + n <= Len(w), MarkerAt(w, i, n)
      PROVE  n \in Matches(s) \cup Matches(t)
  <2>1. CASE i <= Len(s)
    <3>1. i + n <= Len(s) /\ MarkerAt(s, i, n)
      BY <1>3, <2>1, MarkerBefore
    <3> QED
      BY <3>1, MatchesMarkers
  <2>2. CASE Len(s) < i
    <3> DEFINE k == i - Len(s)
    <3>1. k \in Nat \ {0} /\ i = Len(s) + k
      BY <1>2, <2>2
    <3> HIDE DEF k
    <3>2. k + n <= Len(t) /\ MarkerAt(t, k, n)
      BY <1>3, <3>1, MarkerAfter
    <3> QED
      BY <3>1, <3>2, MatchesMarkers
  <2> QED
    BY <1>2, <2>1, <2>2
<1>4. ASSUME NEW n \in Nat \ {0}, NEW i \in Nat \ {0}, i + n <= Len(s), MarkerAt(s, i, n)
      PROVE  n \in Matches(w)
  <2>1. i <= Len(s)
    BY <1>2, <1>4
  <2>2. i + n <= Len(w) /\ MarkerAt(w, i, n)
    BY <1>4, <2>1, MarkerBefore
  <2> HIDE DEF w
  <2> QED
    BY <1>1, <2>2, MatchesMarkers
<1>5. ASSUME NEW n \in Nat \ {0}, NEW i \in Nat \ {0}, i + n <= Len(t), MarkerAt(t, i, n)
      PROVE  n \in Matches(w)
  <2> DEFINE k == Len(s) + i
  <2>1. k \in Nat \ {0}
    BY <1>2
  <2>2. k + n <= Len(w) /\ MarkerAt(w, k, n)
    BY <1>5, MarkerAfter
  <2> HIDE DEF w, k
  <2> QED
    BY <1>1, <2>1, <2>2, MatchesMarkers
<1>6. Matches(w) \subseteq Matches(s) \cup Matches(t)
  <2> HIDE DEF w
  <2> QED
    BY <1>1, <1>3, MatchesMarkers
<1>7. Matches(s) \subseteq Matches(w) /\ Matches(t) \subseteq Matches(w)
  <2> HIDE DEF w
  <2> QED
    BY <1>4, <1>5, MatchesMarkers
<1> QED
  BY <1>6, <1>7

LEMMA TerminatedJoin ==
  ASSUME NEW s \in Seq(Symbols), NEW t \in Seq(Symbols), Terminated(s), Terminated(t)
  PROVE  Terminated(s \o t)
<1>1. CASE t = <<>>
  <2>1. s \o t = s
    BY <1>1, ConcatEmptySeq
  <2> QED
    BY <2>1
<1>2. CASE t # <<>>
  <2>1. t[Len(t)] = "Other" /\ Len(t) \in Nat \ {0} /\ Len(s) \in Nat
    BY <1>2 DEF Terminated, Last
  <2>2. Len(s \o t) = Len(s) + Len(t)
    BY ConcatProperties
  <2>3. (s \o t)[Len(s) + Len(t)] = t[(Len(s) + Len(t)) - Len(s)]
    BY <2>1, ConcatProperties
  <2>4. (Len(s) + Len(t)) - Len(s) = Len(t)
    BY <2>1
  <2>5. (s \o t)[Len(s \o t)] = "Other"
    BY <2>1, <2>2, <2>3, <2>4, Zenon
  <2> QED
    BY <2>5, Zenon DEF Terminated, Last
<1> QED
  BY <1>1, <1>2

\* The markers of texts that end with line ends are those of their concatenation.
LEMMA MatchesFlat ==
  ASSUME NEW s \in Seq(Seq(Symbols)), \A i \in 1..Len(s) : Terminated(s[i])
  PROVE  Matches(FlattenSeq(s)) = UNION {Matches(s[i]) : i \in 1..Len(s)}
<1> DEFINE n == Len(s)
<1>0. n \in Nat /\ \A i \in 1..n : s[i] \in Seq(Symbols) /\ Terminated(s[i])
  OBVIOUS
<1>1. PICK g \in [0..n -> Seq(Symbols)] : Accumulates(s, g) /\ FlattenSeq(s) = g[n]
  BY FlattenSeqPrefixes
<1>2. g[0] = <<>> /\ \A i \in 1..n : g[i] = g[i - 1] \o s[i]
  BY <1>1 DEF Accumulates
<1> HIDE DEF n
<1> DEFINE P == {i \in 0..n : /\ Terminated(g[i])
                              /\ \A m : m \in Matches(g[i]) <=>
                                          \E j \in 1..i : m \in Matches(s[j])}
<1>3. 0 \in P
  <2>1. Terminated(<<>>)
    BY DEF Terminated
  <2>2. Matches(<<>>) = {}
    BY DEF Matches
  <2>3. 0 \in 0..n /\ 1..0 = {}
    BY <1>0
  <2> QED
    BY <1>2, <2>1, <2>2, <2>3, Zenon
<1>4. ASSUME NEW i \in 1..n, i - 1 \in P PROVE i \in P
  <2>1. i \in 0..n /\ i - 1 \in 0..n
    BY <1>0
  <2>2. /\ Terminated(g[i - 1])
        /\ \A m : m \in Matches(g[i - 1]) <=> \E j \in 1..(i - 1) : m \in Matches(s[j])
    BY <1>4, Zenon
  <2>3. g[i - 1] \in Seq(Symbols) /\ s[i] \in Seq(Symbols) /\ Terminated(s[i])
    BY <1>0, <2>1
  <2>4. g[i] = g[i - 1] \o s[i]
    BY <1>2
  <2>5. Terminated(g[i])
    BY <2>2, <2>3, <2>4, TerminatedJoin, Zenon
  <2>6. Matches(g[i]) = Matches(g[i - 1]) \cup Matches(s[i])
    BY <2>2, <2>3, <2>4, MatchesJoin, Zenon
  <2>7. \A j : j \in 1..i <=> j \in 1..(i - 1) \/ j = i
    BY <1>0
  <2>8. \A m : m \in Matches(g[i]) <=> \E j \in 1..i : m \in Matches(s[j])
    BY <2>2, <2>6, <2>7, Zenon
  <2> QED
    BY <2>1, <2>5, <2>8, Zenon
<1>5. \A i \in 0..n : i \in P
  <2> HIDE DEF P
  <2>1. \A i \in 1..n : i - 1 \in P => i \in P
    BY <1>4
  <2> QED
    BY <1>0, <1>3, <2>1, InductionUpTo
<1>6. n \in P
  <2>1. n \in 0..n
    BY <1>0
  <2> QED
    BY <1>5, <2>1
<1>7. \A m : m \in Matches(g[n]) <=> \E j \in 1..n : m \in Matches(s[j])
  BY <1>6, Zenon
<1> QED
  BY <1>1, <1>7, Zenon DEF n

-----------------------------------------------------------------------------
(* The seed.                                                               *)

Letters     == {"Letter", "Digit", "Dash"}
SeedSymbols == Letters \cup {"Comma"}

\* A number of n digits between the dash at position k and a comma or the end.
EndAt(text, k, n) ==
  /\ k + n <= Len(text)
  /\ text[k] = "Dash"
  /\ \A j \in (k + 1)..(k + n) : text[j] = "Digit"
  /\ k + n < Len(text) => text[k + n + 1] = "Comma"

\* The findings that can be read off a seed.
Ends(text) == {n \in Nat \ {0} : \E k \in Nat \ {0} : EndAt(text, k, n)}

\* w is s and then t, position by position.
Parts(w, s, t) ==
  /\ Len(w) = Len(s) + Len(t)
  /\ \A i \in 1..Len(s) : w[i] = s[i]
  /\ \A i \in 1..Len(t) : w[Len(s) + i] = t[i]

LEMMA Joined ==
  ASSUME NEW T, NEW s \in Seq(T), NEW t \in Seq(T)
  PROVE  s \o t \in Seq(T) /\ Parts(s \o t, s, t)
BY ConcatProperties DEF Parts

LEMMA SpelledType ==
  ASSUME NEW n \in Nat
  PROVE  /\ Spelled(n) \in Seq(Letters) /\ Spelled(n) \in Seq(SeedSymbols)
         /\ Len(Spelled(n)) = 4 + n
         /\ Spelled(n)[4] = "Dash"
         /\ \A j \in 1..n : Spelled(n)[4 + j] = "Digit"
<1> DEFINE p == <<"Letter", "Dash", "Digit", "Dash">>
           d == [i \in 1..n |-> "Digit"]
<1>1. p \in Seq(Letters) /\ Len(p) = 4 /\ p[4] = "Dash"
  BY DEF Letters
<1>2. d \in Seq(Letters) /\ Len(d) = n /\ \A i \in 1..n : d[i] = "Digit"
  BY DEF Letters
<1>3. Spelled(n) = p \o d
  BY DEF Spelled
<1> HIDE DEF p, d
<1>4. p \o d \in Seq(Letters) /\ Parts(p \o d, p, d)
  BY <1>1, <1>2, Joined, Zenon
<1>5. 4 \in 1..4
  OBVIOUS
<1>6. /\ Len(p \o d) = 4 + n
      /\ (p \o d)[4] = "Dash"
      /\ \A j \in 1..n : (p \o d)[4 + j] = "Digit"
  BY <1>1, <1>2, <1>4, <1>5, Zenon DEF Parts
<1>7. Letters \subseteq SeedSymbols
  BY DEF SeedSymbols
<1>8. p \o d \in Seq(SeedSymbols)
  BY <1>4, <1>7, SeqMonotonic
<1> QED
  BY <1>3, <1>4, <1>6, <1>8, Zenon

\* The first finding: a name has no comma, and a finding's last dash is its own.
LEMMA EndsFirst ==
  ASSUME NEW head \in Seq(Letters), NEW n \in Nat \ {0}
  PROVE  Ends(head \o Spelled(n)) = {n}
<1> DEFINE p == Spelled(n)
           w == head \o p
           h == Len(head)
<1>0. /\ n \in Nat /\ h \in Nat /\ 4 \in 1..(4 + n)
      /\ \A j \in 1..n : 4 + j \in 1..(4 + n) /\ h + (4 + j) = h + 4 + j
      /\ h + (4 + n) = h + 4 + n
  OBVIOUS
<1>1. /\ p \in Seq(Letters) /\ Len(p) = 4 + n /\ p[4] = "Dash"
      /\ \A j \in 1..n : p[4 + j] = "Digit"
  BY <1>0, SpelledType, Zenon
<1> HIDE DEF p
<1>2. w \in Seq(Letters) /\ Parts(w, head, p)
  BY <1>1, Joined, Zenon
<1> HIDE DEF w
<1>3. /\ Len(w) = h + 4 + n /\ w[h + 4] = "Dash"
      /\ \A j \in 1..n : w[h + 4 + j] = "Digit"
  BY <1>0, <1>1, <1>2, Zenon DEF Parts
<1> HIDE DEF h
<1>4. \A i \in 1..(h + 4 + n) : w[i] # "Comma"
  <2>1. \A i \in 1..(h + 4 + n) : w[i] \in Letters
    BY <1>2, <1>3
  <2> QED
    BY <2>1 DEF Letters
<1>5. ASSUME NEW m \in Nat \ {0}, NEW k \in Nat \ {0}, EndAt(w, k, m) PROVE m = n
  <2>1. /\ k + m <= h + 4 + n /\ w[k] = "Dash"
        /\ \A j \in (k + 1)..(k + m) : w[j] = "Digit"
        /\ k + m < h + 4 + n => w[k + m + 1] = "Comma"
    BY <1>3, <1>5 DEF EndAt
  <2>2. k + m = h + 4 + n
    BY <1>0, <1>4, <2>1
  <2>3. ~(k < h + 4)
    <3> SUFFICES ASSUME k < h + 4 PROVE FALSE
      OBVIOUS
    <3>1. h + 4 \in (k + 1)..(k + m)
      BY <1>0, <2>2
    <3> QED
      BY <1>3, <2>1, <3>1
  <2>4. ~(h + 4 < k)
    <3> SUFFICES ASSUME h + 4 < k PROVE FALSE
      OBVIOUS
    <3> DEFINE j == k - (h + 4)
    <3>1. j \in 1..n /\ h + 4 + j = k
      BY <1>0, <2>2
    <3> HIDE DEF j
    <3> QED
      BY <1>3, <2>1, <3>1
  <2> QED
    BY <1>0, <2>2, <2>3, <2>4
<1>6. EndAt(w, h + 4, n)
  <2>1. \A j \in (h + 4 + 1)..(h + 4 + n) : j - (h + 4) \in 1..n /\ h + 4 + (j - (h + 4)) = j
    BY <1>0
  <2>2. \A j \in (h + 4 + 1)..(h + 4 + n) : w[j] = "Digit"
    BY <1>3, <2>1
  <2> QED
    BY <1>0, <1>3, <2>2 DEF EndAt
<1>7. h + 4 \in Nat \ {0}
  BY <1>0
<1>8. Ends(w) = {n}
  BY <1>5, <1>6, <1>7 DEF Ends
<1> QED
  BY <1>8 DEF w, p

\* Each further one: the comma ends the one before it, and keeps them apart.
LEMMA EndsNext ==
  ASSUME NEW x \in Seq(SeedSymbols), NEW n \in Nat \ {0}
  PROVE  Ends(x \o (<<"Comma">> \o Spelled(n))) = Ends(x) \cup {n}
<1> DEFINE p == Spelled(n)
           c == <<"Comma">>
           y == c \o p
           w == x \o y
           a == Len(x)
<1>0. /\ n \in Nat /\ a \in Nat /\ 1 \in 1..1 /\ 1 \in 1..(1 + (4 + n)) /\ 4 \in 1..(4 + n)
      /\ \A i \in 1..(4 + n) : 1 + i \in 1..(1 + (4 + n)) /\ a + (1 + i) = a + 1 + i
      /\ \A j \in 1..n : 4 + j \in 1..(4 + n) /\ a + 1 + (4 + j) = a + 5 + j
      /\ a + (1 + (4 + n)) = a + 5 + n /\ a + 1 + 4 = a + 5
  OBVIOUS
<1>1. /\ p \in Seq(Letters) /\ p \in Seq(SeedSymbols) /\ Len(p) = 4 + n /\ p[4] = "Dash"
      /\ \A j \in 1..n : p[4 + j] = "Digit"
  BY <1>0, SpelledType, Zenon
<1>2. c \in Seq(SeedSymbols) /\ Len(c) = 1 /\ c[1] = "Comma"
  BY DEF SeedSymbols
<1> HIDE DEF c, p
<1>3. y \in Seq(SeedSymbols) /\ Parts(y, c, p)
  BY <1>1, <1>2, Joined, Zenon
<1> HIDE DEF y
<1>4. Parts(w, x, y)
  BY <1>3, Joined, Zenon
<1> HIDE DEF w
<1>5. /\ Len(w) = a + 5 + n
      /\ \A i \in 1..a : w[i] = x[i]
      /\ w[a + 1] = "Comma"
      /\ \A i \in 1..(4 + n) : w[a + 1 + i] = p[i]
      /\ w[a + 5] = "Dash"
      /\ \A j \in 1..n : w[a + 5 + j] = "Digit"
  <2>0. Len(y) = 1 + (4 + n) /\ y[1] = "Comma" /\ \A i \in 1..(4 + n) : y[1 + i] = p[i]
    BY <1>0, <1>1, <1>2, <1>3, Zenon DEF Parts
  <2>1. /\ Len(w) = a + 5 + n /\ \A i \in 1..a : w[i] = x[i]
        /\ w[a + 1] = "Comma"
    BY <1>0, <1>4, <2>0, Zenon DEF Parts
  <2>2. \A i \in 1..(4 + n) : w[a + 1 + i] = p[i]
    <3> TAKE i \in 1..(4 + n)
    <3>1. 1 + i \in 1..(1 + (4 + n)) /\ a + (1 + i) = a + 1 + i
      BY <1>0, Zenon
    <3>2. w[a + (1 + i)] = y[1 + i]
      BY <1>4, <2>0, <3>1, Zenon DEF Parts
    <3> QED
      BY <2>0, <3>1, <3>2, Zenon
  <2>3. w[a + 5] = "Dash"
    BY <1>0, <1>1, <2>2, Zenon
  <2>4. \A j \in 1..n : w[a + 5 + j] = "Digit"
    <3> TAKE j \in 1..n
    <3>1. 4 + j \in 1..(4 + n) /\ a + 1 + (4 + j) = a + 5 + j
      BY <1>0, Zenon
    <3> QED
      BY <1>1, <2>2, <3>1, Zenon
  <2> QED
    BY <2>1, <2>2, <2>3, <2>4, Zenon
<1> HIDE DEF a
<1>6. \A i \in (a + 2)..(a + 5 + n) : w[i] # "Comma"
  <2>1. \A i \in 1..(4 + n) : p[i] \in Letters
    BY <1>1
  <2>2. \A i \in (a + 2)..(a + 5 + n) : i - (a + 1) \in 1..(4 + n) /\ a + 1 + (i - (a + 1)) = i
    BY <1>0
  <2>3. \A i \in (a + 2)..(a + 5 + n) : w[i] \in Letters
    BY <1>5, <2>1, <2>2
  <2> QED
    BY <2>3 DEF Letters
<1>7. ASSUME NEW m \in Nat \ {0}, NEW k \in Nat \ {0}, EndAt(w, k, m) PROVE m \in Ends(x) \cup {n}
  <2>1. /\ k + m <= a + 5 + n /\ w[k] = "Dash"
        /\ \A j \in (k + 1)..(k + m) : w[j] = "Digit"
        /\ k + m < a + 5 + n => w[k + m + 1] = "Comma"
    BY <1>5, <1>7 DEF EndAt
  <2>2. CASE k + m <= a
    <3>1. x[k] = "Dash" /\ \A j \in (k + 1)..(k + m) : x[j] = "Digit"
      BY <1>0, <1>5, <2>1, <2>2
    <3>2. k + m < a => x[k + m + 1] = "Comma"
      BY <1>0, <1>5, <2>1
    <3>3. EndAt(x, k, m)
      BY <2>2, <3>1, <3>2 DEF EndAt, a
    <3> QED
      BY <3>3 DEF Ends
  <2>3. CASE a < k + m
    <3>1. a + 1 < k
      <4>1. a + 1 \notin (k + 1)..(k + m)
        BY <1>5, <2>1
      <4>2. k # a + 1
        BY <1>5, <2>1
      <4> QED
        BY <1>0, <2>3, <4>1, <4>2
    <3>2. k + m = a + 5 + n
      BY <1>0, <1>6, <2>1, <3>1
    <3>3. ~(k < a + 5)
      <4> SUFFICES ASSUME k < a + 5 PROVE FALSE
        OBVIOUS
      <4>1. a + 5 \in (k + 1)..(k + m)
        BY <1>0, <3>2
      <4> QED
        BY <1>5, <2>1, <4>1
    <3>4. ~(a + 5 < k)
      <4> SUFFICES ASSUME a + 5 < k PROVE FALSE
        OBVIOUS
      <4> DEFINE j == k - (a + 5)
      <4>1. j \in 1..n /\ a + 5 + j = k
        BY <1>0, <3>2
      <4> HIDE DEF j
      <4> QED
        BY <1>5, <2>1, <4>1
    <3> QED
      BY <1>0, <3>2, <3>3, <3>4
  <2> QED
    BY <1>0, <2>2, <2>3
<1>8. ASSUME NEW m \in Nat \ {0}, NEW k \in Nat \ {0}, EndAt(x, k, m) PROVE EndAt(w, k, m)
  <2>1. /\ k + m <= a /\ x[k] = "Dash"
        /\ \A j \in (k + 1)..(k + m) : x[j] = "Digit"
        /\ k + m < a => x[k + m + 1] = "Comma"
    BY <1>8 DEF EndAt, a
  <2>2. w[k] = "Dash" /\ \A j \in (k + 1)..(k + m) : w[j] = "Digit"
    BY <1>0, <1>5, <2>1
  <2>3. CASE k + m < a
    <3>1. k + m + 1 \in 1..a
      BY <1>0, <2>3
    <3> QED
      BY <1>0, <1>5, <2>1, <2>2, <2>3, <3>1 DEF EndAt
  <2>4. CASE k + m = a
    BY <1>0, <1>5, <2>1, <2>2, <2>4 DEF EndAt
  <2> QED
    BY <1>0, <2>1, <2>3, <2>4
<1>9. EndAt(w, a + 5, n)
  <2>1. \A j \in (a + 5 + 1)..(a + 5 + n) : j - (a + 5) \in 1..n /\ a + 5 + (j - (a + 5)) = j
    BY <1>0
  <2>2. \A j \in (a + 5 + 1)..(a + 5 + n) : w[j] = "Digit"
    BY <1>5, <2>1
  <2> QED
    BY <1>0, <1>5, <2>2 DEF EndAt
<1>10. a + 5 \in Nat \ {0}
  BY <1>0
<1>11. Ends(w) = Ends(x) \cup {n}
  BY <1>7, <1>8, <1>9, <1>10 DEF Ends
<1> QED
  BY <1>11 DEF w, y, c, p

LEMMA JoinThree ==
  ASSUME NEW p \in Seq(SeedSymbols), NEW s \in Seq(SeedSymbols), NEW t \in Seq(SeedSymbols)
  PROVE  p \o (s \o t) = (p \o s) \o t
BY ConcatAssociative

\* Before the same text, what differs makes a difference.
LEMMA JoinCancel ==
  ASSUME NEW p \in Seq(SeedSymbols), NEW s \in Seq(SeedSymbols), NEW t \in Seq(SeedSymbols),
         p \o t = s \o t
  PROVE  p = s
BY ConcatSimplifications

-----------------------------------------------------------------------------
(* A seed and the repository and findings it is of.                        *)

\* The findings as a seed lists them.
Listing(c) ==
  [i \in 1..Len(c) |-> IF i = 1 THEN Spelled(c[i]) ELSE <<"Comma">> \o Spelled(c[i])]

LEMMA ListingType ==
  ASSUME NEW c \in Seq(Nat \ {0})
  PROVE  Listing(c) \in Seq(Seq(SeedSymbols)) /\ Len(Listing(c)) = Len(c)
<1> DEFINE n == Len(c)
<1>1. n \in Nat /\ \A i \in 1..n : c[i] \in Nat
  OBVIOUS
<1> HIDE DEF n
<1>2. <<"Comma">> \in Seq(SeedSymbols)
  BY DEF SeedSymbols
<1>3. ASSUME NEW i \in 1..n
      PROVE  (IF i = 1 THEN Spelled(c[i]) ELSE <<"Comma">> \o Spelled(c[i])) \in Seq(SeedSymbols)
  <2>1. Spelled(c[i]) \in Seq(SeedSymbols)
    BY <1>1, SpelledType, Zenon
  <2>2. <<"Comma">> \o Spelled(c[i]) \in Seq(SeedSymbols)
    BY <1>2, <2>1, Joined, Zenon
  <2> QED
    BY <2>1, <2>2, Zenon
<1>4. Listing(c) \in [1..n -> Seq(SeedSymbols)]
  BY <1>3, Zenon DEF Listing, n
<1> QED
  BY <1>1, <1>4 DEF n

\* What can be read off a list of findings is the findings, whatever the name
\* before it reads like.
LEMMA EndsListing ==
  ASSUME NEW head \in Seq(Letters), NEW c \in Seq(Nat \ {0}), c # <<>>
  PROVE  Ends(head \o FlattenSeq(Listing(c))) = ToSet(c)
<1> DEFINE n == Len(c)
           s == Listing(c)
<1>0. n \in Nat \ {0} /\ \A i \in 1..n : c[i] \in Nat \ {0}
  OBVIOUS
<1>1. s \in Seq(Seq(SeedSymbols)) /\ Len(s) = n
  BY ListingType
<1>2. \A i \in 1..n : s[i] = IF i = 1 THEN Spelled(c[i]) ELSE <<"Comma">> \o Spelled(c[i])
  BY Zenon DEF Listing
<1> HIDE DEF s
<1>3. PICK g \in [0..n -> Seq(SeedSymbols)] : Accumulates(s, g) /\ FlattenSeq(s) = g[n]
  BY <1>1, FlattenSeqPrefixes
<1> HIDE DEF n
<1>4. g[0] = <<>> /\ \A i \in 1..n : g[i] = g[i - 1] \o s[i]
  BY <1>1, <1>3, Zenon DEF Accumulates
<1>5. head \in Seq(SeedSymbols)
  <2>1. Letters \subseteq SeedSymbols
    BY DEF SeedSymbols
  <2> QED
    BY <2>1, SeqMonotonic
<1> DEFINE P == {i \in 0..n : i = 0 \/ \A m : m \in Ends(head \o g[i]) <=>
                                                \E j \in 1..i : m = c[j]}
<1>6. 0 \in P
  BY <1>0
<1>7. ASSUME NEW i \in 1..n, i - 1 \in P PROVE i \in P
  <2>1. i \in 0..n /\ i - 1 \in 0..n
    BY <1>0
  <2>2. g[i] = g[i - 1] \o s[i] /\ g[i - 1] \in Seq(SeedSymbols)
    BY <1>4, <2>1
  <2>3. c[i] \in Nat \ {0} /\ c[i] \in Nat
    BY <1>0
  <2>4. Spelled(c[i]) \in Seq(SeedSymbols)
    BY <2>3, SpelledType, Zenon
  <2>5. CASE i = 1
    <3>1. g[i - 1] = <<>>
      BY <1>4, <2>5
    <3>2. g[i] = Spelled(c[i])
      <4>1. <<>> \o Spelled(c[i]) = Spelled(c[i])
        BY <2>4, ConcatEmptySeq
      <4> QED
        BY <1>2, <2>2, <2>5, <3>1, <4>1, Zenon
    <3>3. Ends(head \o g[i]) = {c[i]}
      BY <2>3, <3>2, EndsFirst, Zenon
    <3>4. \A j : j \in 1..i <=> j = i
      BY <2>5
    <3>5. \A m : m \in Ends(head \o g[i]) <=> \E j \in 1..i : m = c[j]
      BY <3>3, <3>4, Zenon
    <3> QED
      BY <2>1, <3>5, Zenon
  <2>6. CASE i # 1
    <3>1. s[i] = <<"Comma">> \o Spelled(c[i])
      BY <1>2, <2>6, Zenon
    <3>2. s[i] \in Seq(SeedSymbols)
      BY <1>1
    <3>3. head \o g[i] = (head \o g[i - 1]) \o s[i]
      <4>1. head \o (g[i - 1] \o s[i]) = (head \o g[i - 1]) \o s[i]
        BY <1>5, <2>2, <3>2, JoinThree, Zenon
      <4> QED
        BY <2>2, <4>1, Zenon
    <3>4. head \o g[i - 1] \in Seq(SeedSymbols)
      BY <1>5, <2>2, Joined, Zenon
    <3>5. Ends(head \o g[i]) = Ends(head \o g[i - 1]) \cup {c[i]}
      BY <2>3, <3>1, <3>3, <3>4, EndsNext, Zenon
    <3>6. i - 1 # 0
      BY <2>6
    <3>7. \A m : m \in Ends(head \o g[i - 1]) <=> \E j \in 1..(i - 1) : m = c[j]
      BY <1>7, <3>6, Zenon
    <3>8. \A j : j \in 1..i <=> j \in 1..(i - 1) \/ j = i
      BY <1>0
    <3>9. \A m : m \in Ends(head \o g[i]) <=> \E j \in 1..i : m = c[j]
      BY <3>5, <3>7, <3>8, Zenon
    <3> QED
      BY <2>1, <3>9, Zenon
  <2> QED
    BY <2>5, <2>6, Zenon
<1>8. \A i \in 0..n : i \in P
  <2> HIDE DEF P
  <2>1. \A i \in 1..n : i - 1 \in P => i \in P
    BY <1>7
  <2> QED
    BY <1>0, <1>6, <2>1, InductionUpTo
<1>9. n \in P /\ n # 0
  <2>1. n \in 0..n
    BY <1>0
  <2> QED
    BY <1>0, <1>8, <2>1
<1>10. \A m : m \in Ends(head \o g[n]) <=> \E j \in 1..n : m = c[j]
  BY <1>9, Zenon
<1>11. \A m : m \in ToSet(c) <=> \E j \in 1..n : m = c[j]
  <2>1. DOMAIN c = 1..n
    BY DEF n
  <2> QED
    BY <2>1, Zenon DEF ToSet
<1> QED
  BY <1>3, <1>10, <1>11, Zenon DEF s

\* What the seed is made of: the members of a list of findings, each once.
LEMMA CanonicalType ==
  ASSUME NEW ids \in Seq(Nat \ {0}), ids # <<>>
  PROVE  /\ canonicalVulnIDs(ids) \in Seq(Nat \ {0})
         /\ canonicalVulnIDs(ids) # <<>>
         /\ ToSet(canonicalVulnIDs(ids)) = ToSet(ids)
<1> DEFINE S == ToSet(ids)
<1>1. S \in SUBSET (Nat \ {0}) /\ S \in SUBSET Nat /\ S # {}
  <2>1. DOMAIN ids = 1..Len(ids) /\ 1 \in 1..Len(ids) /\ \A i \in 1..Len(ids) : ids[i] \in Nat \ {0}
    OBVIOUS
  <2>2. ids[1] \in S
    BY <2>1, Zenon DEF ToSet
  <2>3. \A m \in S : m \in Nat \ {0}
    BY <2>1, Zenon DEF ToSet
  <2> QED
    BY <2>2, <2>3
<1>2. IsFiniteSet(S)
  <2>1. Len(ids) \in Nat /\ DOMAIN ids = 1..Len(ids)
    OBVIOUS
  <2>2. IsFiniteSet(1..Len(ids))
    BY <2>1, FS_Interval
  <2>3. ids \in Surjection(1..Len(ids), S)
    BY DEF Surjection, ToSet
  <2> QED
    BY <2>2, <2>3, FS_Surjection
<1> HIDE DEF S
<1>3. Sorted(S) \in Seq(S) /\ ToSet(Sorted(S)) = S
  BY <1>1, <1>2, SortedIsSorted
<1>4. Sorted(S) \in Seq(Nat \ {0})
  BY <1>1, <1>3, SeqMonotonic
<1>5. Sorted(S) # <<>>
  <2>1. ToSet(<<>>) = {}
    BY DEF ToSet
  <2> QED
    BY <1>1, <1>3, <2>1
<1> QED
  BY <1>3, <1>4, <1>5, Zenon DEF canonicalVulnIDs, S

-----------------------------------------------------------------------------
(* Theorems.                                                               *)

\* The writers keep to their types: no gate's allowance is ever negative or more
\* than the cap, however its output is cut into pieces.
THEOREM TypeCorrect == Spec => []TypeOK
<1>1. Inv => TypeOK
  BY DEF Inv
<1> QED
  BY <1>1, InitInv, NextInv, PTL DEF Spec

\* However os/exec cuts a gate's output into pieces, and however much of it there
\* is, the buffer holds exactly its leading part, for every cap and every number
\* of gates: a gate can neither push out what another one wrote nor use up what
\* the next one may write.
THEOREM BufferKeepsLeading == Spec => []BufferIsLeading
<1>1. Inv => BufferIsLeading
  BY DEF Inv
<1> QED
  BY <1>1, InitInv, NextInv, PTL DEF Spec

\* When no gate exceeds its allowance and each ends its output with a line end,
\* no marker is lost, cut or made up where two gates' outputs meet, and the
\* command names and counts each of them once.
THEOREM FindingsExact == Spec => []FindingsAreExact
<1>1. Inv => FindingsAreExact
  <2> SUFFICES ASSUME Inv, classified, \A g \in Gates : Len(printed[g]) <= Cap /\ Terminated(printed[g])
               PROVE  /\ ToSet(vulnIDs) = AllPrinted
                      /\ \A c \in ToSet(command) :
                           ToSet(c.vulns) = AllPrinted /\ c.vuln_count = Cardinality(AllPrinted)
    BY DEF FindingsAreExact
  <2>0. TypeOK /\ BufferIsLeading /\ ScanInv
    BY DEF Inv
  <2>1. ASSUME NEW g \in Gates PROVE Leading(printed[g]) = printed[g]
    <3>1. printed[g] \in Seq(Symbols) /\ Len(printed[g]) \in Nat /\ Len(printed[g]) <= Cap
      BY <2>0 DEF TypeOK
    <3>2. Smaller(Len(printed[g]), Cap) = Len(printed[g])
      BY <3>1, CapAssumption DEF Smaller
    <3> QED
      BY <3>1, <3>2, SubSeqFull DEF Leading
  <2> DEFINE s == Texts(printed)
  <2>2. /\ s \in Seq(Seq(Symbols)) /\ Len(s) = GateCount
        /\ \A g \in Gates : s[g] = printed[g]
    BY <2>0, <2>1, TextsType DEF TypeOK
  <2> HIDE DEF s
  <2>3. 1..Len(s) = Gates
    BY <2>2 DEF Gates
  <2>4. \A i \in 1..Len(s) : Terminated(s[i])
    BY <2>2, <2>3
  <2>5. Matches(FlattenSeq(s)) = UNION {Matches(s[i]) : i \in 1..Len(s)}
    BY <2>2, <2>4, MatchesFlat
  <2>6. buf = FlattenSeq(s)
    BY <2>0, BufferOfTexts DEF s
  <2>7. Matches(buf) = AllPrinted
    BY <2>2, <2>3, <2>5, <2>6, Zenon DEF AllPrinted
  <2>8. vulnIDs = extractMarkers(buf)
    BY <2>0 DEF ScanInv
  <2>9. ToSet(vulnIDs) = AllPrinted /\ Len(vulnIDs) = Cardinality(AllPrinted)
    BY <2>0, <2>7, <2>8, ExtractType DEF TypeOK
  <2>10. ASSUME NEW c \in ToSet(command)
         PROVE  c = BuildCreateCommand(repo, vulnIDs)
    BY <2>0 DEF ScanInv, ToSet
  <2>11. \A c \in ToSet(command) : c.vulns = vulnIDs /\ c.vuln_count = Len(vulnIDs)
    BY <2>10 DEF BuildCreateCommand
  <2> QED
    BY <2>9, <2>11, Zenon
<1> QED
  BY <1>1, InitInv, NextInv, PTL DEF Spec

\* A seed names its repository and its set of findings, for names and findings of
\* any length: whoever asks for a task about the same findings of the same
\* repository, in whatever order and how often each is named, asks for the same
\* task, and nobody else does, though the parts of a seed are only set apart by
\* symbols that a name may hold.
THEOREM SeedIdentifies ==
  ASSUME NEW name \in Seq(Letters), NEW other \in Seq(Letters),
         NEW ids \in Seq(Nat \ {0}), ids # <<>>,
         NEW more \in Seq(Nat \ {0}), more # <<>>
  PROVE  Seed(name, ids) = Seed(other, more) <=> name = other /\ ToSet(ids) = ToSet(more)
<1> DEFINE S(x) == FlattenSeq(Listing(canonicalVulnIDs(x)))
           H(x) == x \o <<"Dash">>
<1>1. \A x, y : Seed(x, y) = H(x) \o S(y)
  BY Zenon DEF Seed, Listing
<1>2. ASSUME NEW x \in Seq(Letters) PROVE H(x) \in Seq(Letters) /\ H(x) \in Seq(SeedSymbols)
  <2>1. <<"Dash">> \in Seq(Letters) /\ Letters \subseteq SeedSymbols
    BY DEF Letters, SeedSymbols
  <2>2. x \o <<"Dash">> \in Seq(Letters)
    BY <2>1, Joined, Zenon
  <2> QED
    BY <2>1, <2>2, SeqMonotonic
<1>3. ASSUME NEW x \in Seq(Nat \ {0}), x # <<>>
      PROVE  /\ S(x) \in Seq(SeedSymbols)
             /\ \A h \in Seq(Letters) : Ends(h \o S(x)) = ToSet(x)
  <2>1. /\ canonicalVulnIDs(x) \in Seq(Nat \ {0}) /\ canonicalVulnIDs(x) # <<>>
        /\ ToSet(canonicalVulnIDs(x)) = ToSet(x)
    BY <1>3, CanonicalType, Zenon
  <2>2. Listing(canonicalVulnIDs(x)) \in Seq(Seq(SeedSymbols))
    BY <2>1, ListingType, Zenon
  <2>3. S(x) \in Seq(SeedSymbols)
    <3> DEFINE l == Listing(canonicalVulnIDs(x))
    <3> HIDE DEF l
    <3>1. PICK g \in [0..Len(l) -> Seq(SeedSymbols)] : FlattenSeq(l) = g[Len(l)]
      BY <2>2, FlattenSeqPrefixes DEF l
    <3>2. Len(l) \in 0..Len(l)
      BY <2>2 DEF l
    <3> QED
      BY <3>1, <3>2, Zenon DEF l
  <2> QED
    BY <2>1, <2>3, EndsListing, Zenon
<1> HIDE DEF S, H
<1>4. ASSUME Seed(name, ids) = Seed(other, more)
      PROVE  name = other /\ ToSet(ids) = ToSet(more)
  <2>1. H(name) \o S(ids) = H(other) \o S(more)
    BY <1>1, <1>4, Zenon
  <2>2. ToSet(ids) = ToSet(more)
    BY <1>2, <1>3, <2>1, Zenon
  <2>3. S(ids) = S(more)
    BY <2>2, Zenon DEF S, canonicalVulnIDs
  <2>4. H(name) = H(other)
    <3>1. S(more) \in Seq(SeedSymbols)
      BY <1>3
    <3>2. H(name) \in Seq(SeedSymbols) /\ H(other) \in Seq(SeedSymbols)
      BY <1>2
    <3>3. H(name) \o S(more) = H(other) \o S(more)
      BY <2>1, <2>3, Zenon
    <3> QED
      BY <3>1, <3>2, <3>3, JoinCancel, Zenon
  <2>5. <<"Dash">> \in Seq(SeedSymbols) /\ Letters \subseteq SeedSymbols
    BY DEF Letters, SeedSymbols
  <2>6. name = other
    <3>1. name \in Seq(SeedSymbols) /\ other \in Seq(SeedSymbols)
      BY <2>5, SeqMonotonic
    <3>2. name \o <<"Dash">> = other \o <<"Dash">>
      BY <2>4, Zenon DEF H
    <3> QED
      BY <2>5, <3>1, <3>2, JoinCancel, Zenon
  <2> QED
    BY <2>2, <2>6
<1>5. ASSUME name = other, ToSet(ids) = ToSet(more)
      PROVE  Seed(name, ids) = Seed(other, more)
  <2>1. S(ids) = S(more)
    BY <1>5, Zenon DEF S, canonicalVulnIDs
  <2> QED
    BY <1>1, <1>5, <2>1, Zenon
<1> QED
  BY <1>4, <1>5

\* A task's identifier is that of its repository and set of findings, whatever
\* the gates printed, and of no others.
THEOREM OneTask == Spec => []OneTaskPerFindingSet
<1>1. Inv => OneTaskPerFindingSet
  <2> SUFFICES ASSUME Inv, NEW c \in ToSet(command), NEW name \in Names,
                      NEW ids \in BoundedSeq(1..(2 * Cap), 2) \ {<<>>}
               PROVE  Seed(name, ids) = c.TaskIdentifier <=>
                        name = repo /\ ToSet(ids) = ToSet(vulnIDs)
    BY DEF OneTaskPerFindingSet
  <2>0. TypeOK /\ ScanInv
    BY DEF Inv
  <2>1. command # <<>>
    <3>1. ToSet(<<>>) = {}
      BY DEF ToSet
    <3> QED
      BY <3>1
  <2>2. /\ classified /\ vulnIDs # <<>> /\ command = <<BuildCreateCommand(repo, vulnIDs)>>
        /\ vulnIDs = extractMarkers(buf)
    BY <2>0, <2>1 DEF ScanInv
  <2>3. c = BuildCreateCommand(repo, vulnIDs)
    BY <2>2 DEF ToSet
  <2>4. c.TaskIdentifier = Seed(repo, vulnIDs)
    BY <2>3 DEF BuildCreateCommand
  <2>5. vulnIDs \in Seq(Nat \ {0})
    BY <2>0, <2>2, ExtractType DEF TypeOK
  <2>6. name \in Seq(Letters) /\ repo \in Seq(Letters)
    BY <2>0, NamesAssumption DEF TypeOK, Letters
  <2>7. ids \in Seq(Nat \ {0}) /\ ids # <<>>
    <3>1. ids \in Seq(1..(2 * Cap))
      <4>1. PICK m \in 0..2 : ids \in [1..m -> 1..(2 * Cap)]
        BY Zenon DEF BoundedSeq, SeqOf
      <4> DEFINE V == 1..(2 * Cap)
      <4> HIDE DEF V
      <4>2. ids \in [1..m -> V] /\ m \in Nat
        BY <4>1 DEF V
      <4>3. ids \in Seq(V)
        BY <4>2
      <4> QED
        BY <4>3 DEF V
    <3>2. 1..(2 * Cap) \subseteq Nat \ {0}
      BY CapAssumption
    <3> QED
      BY <3>1, <3>2, SeqMonotonic
  <2>8. Seed(name, ids) = Seed(repo, vulnIDs) <=> name = repo /\ ToSet(ids) = ToSet(vulnIDs)
    BY <2>2, <2>5, <2>6, <2>7, SeedIdentifies
  <2> QED
    BY <2>4, <2>8
<1> QED
  BY <1>1, InitInv, NextInv, PTL DEF Spec
=============================================================================
