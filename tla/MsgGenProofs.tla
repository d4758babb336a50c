---------------------------- MODULE MsgGenProofs ----------------------------
(***************************************************************************)
(* MsgGen for any prefixes, packages and files.  GenInv says of every      *)
(* moment of the walk what was read so far and what is in progress.  From  *)
(* it: whatever the order in which the directories are read, the packages  *)
(* that are emitted are those of the first prefix that has them, sorted    *)
(* and each of them once; a reference that finds nothing is to what no     *)
(* prefix has or what is shadowed; and defaults are the declared values.   *)
(***************************************************************************)
EXTENDS MsgGen, FiniteSetTheorems, SequenceTheorems, WellFoundedInduction, TLAPS

---------------------------------------------------------------------------
(***************************************************************************)
(* Sequences.                                                              *)
(***************************************************************************)
LEMMA SequenceIs ==
  ASSUME NEW s, IsSequence(s)
  PROVE  Len(s) \in Nat /\ DOMAIN s = 1..Len(s) /\ s \in [1..Len(s) -> Range(s)]
BY LenProperties DEF IsSequence

LEMMA IndexedIsSequence ==
  ASSUME NEW n \in Nat, NEW s, DOMAIN s = 1..n, s = [k \in 1..n |-> s[k]]
  PROVE  IsSequence(s) /\ Len(s) = n
<1>1. s \in [1..n -> Range(s)]
  BY DEF Range
<1>2. s \in Seq(Range(s))
  BY <1>1, SeqDef
<1> QED
  BY <1>2, LenProperties DEF IsSequence

LEMMA Extended ==
  ASSUME NEW s, IsSequence(s), NEW e
  PROVE  /\ IsSequence(Append(s, e))
         /\ Len(Append(s, e)) = Len(s) + 1
         /\ DOMAIN Append(s, e) = 1..(Len(s) + 1)
         /\ \A k \in 1..Len(s) : Append(s, e)[k] = s[k]
         /\ Append(s, e)[Len(s) + 1] = e
<1> DEFINE S == Range(s) \cup {e}
           t == Append(s, e)
<1>1. s \in Seq(S)
  BY SeqMonotonic DEF IsSequence
<1>2. /\ t \in Seq(S) /\ Len(t) = Len(s) + 1 /\ Len(s) \in Nat
      /\ \A k \in 1..Len(s) : t[k] = s[k]
      /\ t[Len(s) + 1] = e
  BY <1>1, AppendProperties, LenProperties
<1>3. DOMAIN t = 1..(Len(s) + 1) /\ t = [k \in 1..(Len(s) + 1) |-> t[k]]
  BY <1>2, LenProperties
<1> HIDE DEF t
<1>4. IsSequence(t)
  BY <1>2, <1>3, IndexedIsSequence
<1> QED
  BY <1>2, <1>3, <1>4 DEF t

LEMMA EmptySequence == IsSequence(<<>>) /\ DOMAIN <<>> = {} /\ Len(<<>>) = 0
BY EmptySeq, LenProperties DEF IsSequence

\* Min of the community modules is the least element: < is well-founded on Nat.
LEMMA LeastOf ==
  ASSUME NEW S \in SUBSET Nat, S # {}
  PROVE  Min(S) \in S /\ \A y \in S : Min(S) <= y
<1> DEFINE R == OpToRel(<, Nat)
<1>1. IsWellFoundedOn(R, Nat)
  BY NatLessThanWellFounded
<1>2. \A x, y \in Nat : <<y, x>> \in R <=> y < x
  BY DEF OpToRel
<1> HIDE DEF R
<1>3. PICK x \in S : \A y \in S : ~(<<y, x>> \in R)
  BY <1>1, WFMin
<1>4. ASSUME NEW y \in S
      PROVE  x <= y
  <2>1. x \in Nat /\ y \in Nat
    OBVIOUS
  <2>2. ~(y < x)
    BY <1>2, <1>3, <2>1
  <2> QED
    BY <2>1, <2>2
<1> QED
  BY <1>4 DEF Min

---------------------------------------------------------------------------
(***************************************************************************)
(* Ordered: the elements of a finite set along a total order, upTo[i]      *)
(* being those that come no later than i.                                  *)
(***************************************************************************)
TotalOrder(S, upTo) ==
  /\ \A i \in S : i \in upTo[i] /\ upTo[i] \subseteq S
  /\ \A i, j \in S : i \in upTo[j] \/ j \in upTo[i]
  /\ \A i, j \in S : i \in upTo[j] /\ j \in upTo[i] => i = j
  /\ \A i, j \in S : i \in upTo[j] => upTo[i] \subseteq upTo[j]

\* Ordered lists every element once, along the order.
LEMMA OrderedIs ==
  ASSUME NEW S, IsFiniteSet(S), NEW upTo, TotalOrder(S, upTo)
  PROVE  LET o == Ordered(S, upTo)
             n == Cardinality(S)
         IN  /\ n \in Nat /\ DOMAIN o = 1..n /\ o = [k \in 1..n |-> o[k]]
             /\ \A k \in 1..n : o[k] \in S /\ Cardinality(upTo[o[k]]) = k
             /\ \A i \in S : \E k \in 1..n : o[k] = i
             /\ \A k, l \in 1..n : k <= l <=> o[k] \in upTo[o[l]]
             /\ \A k, l \in 1..n : o[k] = o[l] => k = l
<1> DEFINE o == Ordered(S, upTo)
           n == Cardinality(S)
           rank == [i \in S |-> Cardinality(upTo[i])]
<1>1. n \in Nat
  BY FS_CardinalityType
<1>2. ASSUME NEW i \in S
      PROVE  IsFiniteSet(upTo[i]) /\ rank[i] \in 1..n
  <2>1. upTo[i] \in SUBSET S /\ i \in upTo[i]
    BY DEF TotalOrder
  <2>2. IsFiniteSet(upTo[i]) /\ Cardinality(upTo[i]) <= n
    BY <2>1, FS_Subset
  <2>3. Cardinality(upTo[i]) \in Nat /\ Cardinality(upTo[i]) # 0
    BY <2>1, <2>2, FS_CardinalityType, FS_EmptySet
  <2> QED
    BY <1>1, <2>2, <2>3
<1>3. ASSUME NEW i \in S, NEW j \in S, i \in upTo[j], rank[j] <= rank[i]
      PROVE  i = j
  <2>1. upTo[i] \in SUBSET upTo[j] /\ j \in upTo[j]
    BY <1>3 DEF TotalOrder
  <2>2. Cardinality(upTo[i]) = Cardinality(upTo[j])
    <3>1. Cardinality(upTo[i]) <= Cardinality(upTo[j])
      BY <1>2, <2>1, FS_Subset
    <3> QED
      BY <1>2, <1>3, <3>1
  <2>3. upTo[i] = upTo[j]
    BY <1>2, <2>1, <2>2, FS_Subset
  <2> QED
    BY <1>3, <2>1, <2>3 DEF TotalOrder
<1>4. ASSUME NEW i \in S, NEW j \in S
      PROVE  rank[i] <= rank[j] <=> i \in upTo[j]
  <2>1. CASE i \in upTo[j]
    <3>1. upTo[i] \in SUBSET upTo[j]
      BY <2>1 DEF TotalOrder
    <3> QED
      BY <1>2, <2>1, <3>1, FS_Subset
  <2>2. CASE i \notin upTo[j]
    <3>1. j \in upTo[i] /\ i # j
      BY <2>2 DEF TotalOrder
    <3>2. ~(rank[i] <= rank[j])
      BY <1>3, <3>1
    <3> QED
      BY <2>2, <3>2
  <2> QED
    BY <2>1, <2>2
<1>5. ASSUME NEW i \in S, NEW j \in S, rank[i] = rank[j]
      PROVE  i = j
  <2>1. rank[i] <= rank[j] /\ rank[j] <= rank[i]
    BY <1>2, <1>5
  <2> QED
    BY <1>4, <2>1 DEF TotalOrder
<1>6. \A k \in 1..n : \E i \in S : rank[i] = k
  <2>1. rank \in [S -> 1..n]
    BY <1>2
  <2> HIDE DEF rank
  <2>2. rank \in Injection(S, 1..n)
    BY <1>5, <2>1 DEF Injection, IsInjective
  <2>3. IsFiniteSet(1..n) /\ Cardinality(1..n) = n
    BY <1>1, FS_Interval
  <2>4. rank \in Surjection(S, 1..n)
    BY <2>2, <2>3, FS_Injection
  <2> QED
    BY <2>4 DEF Surjection
<1>7. DOMAIN o = 1..n /\ o = [k \in 1..n |-> o[k]]
  BY DEF Ordered
<1>8. ASSUME NEW k \in 1..n
      PROVE  o[k] \in S /\ rank[o[k]] = k /\ Cardinality(upTo[o[k]]) = k
  <2>1. o[k] = CHOOSE i \in S : Cardinality(upTo[i]) = k
    BY DEF Ordered
  <2>2. \E i \in S : Cardinality(upTo[i]) = k
    BY <1>6
  <2>3. o[k] \in S /\ Cardinality(upTo[o[k]]) = k
    BY <2>1, <2>2
  <2> QED
    BY <2>3
<1> HIDE DEF o, n, rank
<1>9. \A i \in S : o[rank[i]] = i
  BY <1>2, <1>5, <1>8
<1>10. \A i \in S : \E k \in 1..n : o[k] = i
  BY <1>2, <1>9
<1>11. \A k, l \in 1..n : k <= l <=> o[k] \in upTo[o[l]]
  BY <1>4, <1>8
<1>12. \A k, l \in 1..n : o[k] = o[l] => k = l
  BY <1>8
<1> QED
  BY <1>1, <1>7, <1>8, <1>10, <1>11, <1>12 DEF o, n

---------------------------------------------------------------------------
(***************************************************************************)
(* Pick: some positions of a sequence, in their order.                     *)
(***************************************************************************)
Below(kept) == [i \in kept |-> {j \in kept : j <= i}]
Positions(kept) == Ordered(kept, Below(kept))

\* The positions kept, in ascending order and each once.
LEMMA PositionsAre ==
  ASSUME NEW kept \in SUBSET Nat, IsFiniteSet(kept)
  PROVE  LET at == Positions(kept)
             n == Cardinality(kept)
         IN  /\ n \in Nat /\ DOMAIN at = 1..n /\ at = [k \in 1..n |-> at[k]]
             /\ \A k \in 1..n : at[k] \in kept /\ Cardinality(Below(kept)[at[k]]) = k
             /\ \A i \in kept : \E k \in 1..n : at[k] = i
             /\ \A k, l \in 1..n : k < l => at[k] < at[l]
<1> DEFINE at == Positions(kept)
           n == Cardinality(kept)
           U == Below(kept)
<1>1. /\ \A i, j \in kept : i \in U[j] <=> i <= j
      /\ \A i \in kept : U[i] \subseteq kept
  BY DEF Below
<1>0. \A i \in kept : i \in Nat
  OBVIOUS
<1> HIDE DEF U
<1>2. TotalOrder(kept, U)
  <2>1. ASSUME NEW i \in kept, NEW j \in kept, i \in U[j]
        PROVE  U[i] \subseteq U[j]
    <3>1. ASSUME NEW x \in U[i]
          PROVE  x \in U[j]
      <4>1. x \in kept /\ x <= i /\ i <= j
        BY <1>1, <2>1
      <4>2. x \in Nat /\ i \in Nat /\ j \in Nat
        BY <1>0, <4>1
      <4>3. x <= j
        BY <4>1, <4>2
      <4> QED
        BY <1>1, <4>1, <4>3
    <3> QED
      BY <3>1
  <2>2. \A i \in kept : i \in U[i] /\ U[i] \subseteq kept
    BY <1>1, <1>0
  <2>3. \A i, j \in kept : i \in U[j] \/ j \in U[i]
    BY <1>1, <1>0
  <2>4. \A i, j \in kept : i \in U[j] /\ j \in U[i] => i = j
    BY <1>1, <1>0
  <2> QED
    BY <2>1, <2>2, <2>3, <2>4 DEF TotalOrder
<1>3. /\ n \in Nat /\ DOMAIN at = 1..n
      /\ \A k \in 1..n : at[k] \in kept /\ Cardinality(U[at[k]]) = k
      /\ \A i \in kept : \E k \in 1..n : at[k] = i
      /\ \A k, l \in 1..n : k <= l <=> at[k] \in U[at[l]]
      /\ \A k, l \in 1..n : at[k] = at[l] => k = l
  BY <1>2, OrderedIs DEF Positions, U
<1>4. at = [k \in 1..n |-> at[k]]
  BY <1>2, OrderedIs DEF Positions, U
<1> HIDE DEF at, n
<1>5. ASSUME NEW k \in 1..n, NEW l \in 1..n, k < l
      PROVE  at[k] < at[l]
  <2>1. k <= l /\ k # l
    BY <1>3, <1>5
  <2>2. at[k] <= at[l] /\ at[k] # at[l]
    BY <1>1, <1>3, <2>1
  <2>3. at[k] \in Nat /\ at[l] \in Nat
    BY <1>3, <1>0
  <2> QED
    BY <2>2, <2>3
<1> QED
  BY <1>3, <1>4, <1>5 DEF at, n, U

\* There is only one way to list a set of positions in increasing order.
LEMMA OnlyPositions ==
  ASSUME NEW kept \in SUBSET Nat, IsFiniteSet(kept), NEW m \in Nat, NEW at \in [1..m -> kept],
         \A i \in kept : \E k \in 1..m : at[k] = i,
         \A k, l \in 1..m : k < l => at[k] < at[l]
  PROVE  m = Cardinality(kept) /\ at = Positions(kept)
<1> DEFINE p == Positions(kept)
           n == Cardinality(kept)
<1>1. /\ n \in Nat /\ p = [k \in 1..n |-> p[k]]
      /\ \A k \in 1..n : p[k] \in kept /\ Cardinality(Below(kept)[p[k]]) = k
      /\ \A i \in kept : \E k \in 1..n : p[k] = i
  BY PositionsAre
<1> HIDE DEF p
<1>2. \A k \in 1..m : at[k] \in Nat
  OBVIOUS
<1>3. \A k, l \in 1..m : at[k] <= at[l] => k <= l
  BY <1>2
<1>4. ASSUME NEW j \in 0..m, NEW T, NEW b, b \in [1..j -> T],
             \A k \in 1..j : b[k] = at[k],
             \A t \in T : \E k \in 1..j : b[k] = t
      PROVE  Cardinality(T) = j
  <2>1. b \in Surjection(1..j, T)
    BY <1>4 DEF Surjection
  <2>2. IsInjective(b)
    <3>1. ASSUME NEW x \in 1..j, NEW y \in 1..j, b[x] = b[y]
          PROVE  x = y
      <4>1. x \in 1..m /\ y \in 1..m /\ at[x] = at[y]
        BY <1>4, <3>1
      <4>2. x <= y /\ y <= x
        BY <1>2, <1>3, <4>1
      <4> QED
        BY <4>2
    <3> QED
      BY <1>4, <3>1 DEF IsInjective
  <2>3. b \in Injection(1..j, T)
    BY <1>4, <2>2 DEF Injection
  <2>4. IsFiniteSet(1..j) /\ Cardinality(1..j) = j
    BY FS_Interval
  <2> QED
    BY <2>1, <2>3, <2>4, FS_Surjection
<1>5. m = n
  <2>1. m \in 0..m
    OBVIOUS
  <2> QED
    BY <1>4, <2>1
<1>6. ASSUME NEW k \in 1..m
      PROVE  at[k] = p[k]
  <2> DEFINE T == Below(kept)[at[k]]
             b == [l \in 1..k |-> at[l]]
  <2>1. T = {j \in kept : j <= at[k]}
    BY DEF Below
  <2>2. b \in [1..k -> T] /\ \A l \in 1..k : b[l] = at[l]
    <3>1. ASSUME NEW l \in 1..k
          PROVE  at[l] \in T
      <4>1. l \in 1..m /\ (l = k \/ l < k)
        OBVIOUS
      <4>2. at[l] \in kept /\ at[l] <= at[k]
        BY <1>2, <4>1
      <4> QED
        BY <2>1, <4>2
    <3> QED
      BY <3>1
  <2>3. \A t \in T : \E l \in 1..k : b[l] = t
    <3>1. ASSUME NEW t \in T
          PROVE  \E l \in 1..k : b[l] = t
      <4>1. t \in kept /\ t <= at[k]
        BY <2>1
      <4>2. PICK l \in 1..m : at[l] = t
        BY <4>1
      <4>3. l \in 1..k
        BY <1>3, <4>1, <4>2
      <4> QED
        BY <4>2, <4>3
    <3> QED
      BY <3>1
  <2> HIDE DEF T, b
  <2>4. Cardinality(T) = k
    <3>1. k \in 0..m
      OBVIOUS
    <3> QED
      BY <1>4, <2>2, <2>3, <3>1
  <2>5. PICK q \in 1..n : p[q] = at[k]
    BY <1>1
  <2>6. q = k
    BY <1>1, <2>4, <2>5 DEF T
  <2> QED
    BY <2>5, <2>6
<1> QED
  BY <1>1, <1>5, <1>6 DEF p

\* Pick is a sequence: what is at the positions kept.
LEMMA PickIs ==
  ASSUME NEW kept \in SUBSET Nat, IsFiniteSet(kept), NEW s
  PROVE  LET at == Positions(kept)
             n == Cardinality(kept)
         IN  /\ IsSequence(Pick(s, kept)) /\ Len(Pick(s, kept)) = n
             /\ Pick(s, kept) = [k \in 1..n |-> s[at[k]]]
             /\ DOMAIN Pick(s, kept) = 1..n
             /\ \A k \in 1..n : Pick(s, kept)[k] = s[at[k]]
<1> DEFINE at == Positions(kept)
           n == Cardinality(kept)
           t == Pick(s, kept)
<1>1. n \in Nat /\ DOMAIN at = 1..n
  BY PositionsAre
<1>2. t = [k \in DOMAIN at |-> s[at[k]]]
  BY DEF Pick, Positions, Below
<1> HIDE DEF at, n, t
<1>3. DOMAIN t = 1..n /\ t = [k \in 1..n |-> t[k]] /\ \A k \in 1..n : t[k] = s[at[k]]
  BY <1>1, <1>2
<1>4. IsSequence(t) /\ Len(t) = n
  BY <1>1, <1>3, IndexedIsSequence
<1> QED
  BY <1>1, <1>2, <1>3, <1>4 DEF at, n, t

LEMMA PickNothing == \A s : Pick(s, {}) = <<>>
BY PickIs, FS_EmptySet

\* A position after all others adds its element at the end.
LEMMA PickOneMore ==
  ASSUME NEW kept \in SUBSET Nat, IsFiniteSet(kept), NEW s, NEW m \in Nat,
         \A i \in kept : i < m
  PROVE  Pick(s, kept \cup {m}) = Append(Pick(s, kept), s[m])
<1> DEFINE p == Positions(kept)
           n == Cardinality(kept)
           more == kept \cup {m}
           at == [k \in 1..(n + 1) |-> IF k = n + 1 THEN m ELSE p[k]]
           t == Append(Pick(s, kept), s[m])
<1>1. /\ n \in Nat
      /\ \A k \in 1..n : p[k] \in kept
      /\ \A i \in kept : \E k \in 1..n : p[k] = i
      /\ \A k, l \in 1..n : k < l => p[k] < p[l]
  BY PositionsAre
<1>2. /\ IsSequence(Pick(s, kept)) /\ Len(Pick(s, kept)) = n
      /\ \A k \in 1..n : Pick(s, kept)[k] = s[p[k]]
  BY PickIs
<1>3. more \in SUBSET Nat /\ IsFiniteSet(more)
  BY FS_AddElement
<1> HIDE DEF p, n
<1>4. at \in [1..(n + 1) -> more]
  BY <1>1
<1>5. \A i \in more : \E k \in 1..(n + 1) : at[k] = i
  <2>1. ASSUME NEW i \in kept
        PROVE  \E k \in 1..(n + 1) : at[k] = i
    <3>1. PICK k \in 1..n : p[k] = i
      BY <1>1
    <3>2. k \in 1..(n + 1) /\ k # n + 1
      BY <1>1
    <3> QED
      BY <3>1, <3>2
  <2>2. n + 1 \in 1..(n + 1) /\ at[n + 1] = m
    BY <1>1
  <2> QED
    BY <2>1, <2>2
<1>6. ASSUME NEW k \in 1..(n + 1), NEW l \in 1..(n + 1), k < l
      PROVE  at[k] < at[l]
  <2>1. k \in 1..n /\ at[k] = p[k]
    BY <1>1, <1>6
  <2>2. CASE l = n + 1
    BY <1>1, <2>1, <2>2
  <2>3. CASE l # n + 1
    <3>1. l \in 1..n /\ at[l] = p[l]
      BY <1>1, <2>3
    <3> QED
      BY <1>1, <1>6, <2>1, <3>1
  <2> QED
    BY <2>2, <2>3
<1> HIDE DEF more
<1>7. n + 1 = Cardinality(more) /\ at = Positions(more)
  <2>1. n + 1 \in Nat
    BY <1>1
  <2> HIDE DEF at
  <2> QED
    BY <1>3, <1>4, <1>5, <1>6, <2>1, OnlyPositions
<1>8. Pick(s, more) = [k \in 1..(n + 1) |-> s[at[k]]]
  BY <1>3, <1>7, PickIs
<1>9. t = [k \in 1..(n + 1) |-> t[k]]
  BY <1>2, Extended, SequenceIs
<1>10. ASSUME NEW k \in 1..(n + 1)
       PROVE  t[k] = s[at[k]]
  BY <1>1, <1>2, Extended
<1> HIDE DEF at, t
<1>11. Pick(s, more) = t
  BY <1>8, <1>9, <1>10
<1> QED
  BY <1>11 DEF more, t

---------------------------------------------------------------------------
(***************************************************************************)
(* The sort and the removal of duplicates, for packages with names of      *)
(* PackageOrder.                                                           *)
(***************************************************************************)
Named(s) == IsSequence(s) /\ \A k \in DOMAIN s : s[k].name \in Range(PackageOrder)

\* The rank of a name is its place in PackageOrder, which names nothing twice.
LEMMA RankIs ==
  /\ \A p \in Range(PackageOrder) :
       Rank(p) \in 1..Len(PackageOrder) /\ Rank(p) \in Nat /\ PackageOrder[Rank(p)] = p
  /\ \A r \in DOMAIN PackageOrder : Rank(PackageOrder[r]) = r
  /\ Len(PackageOrder) \in Nat /\ DOMAIN PackageOrder = 1..Len(PackageOrder)
<1>1. Len(PackageOrder) \in Nat /\ DOMAIN PackageOrder = 1..Len(PackageOrder)
  BY SequenceIs, MsgGenAssumption
<1>2. ASSUME NEW p \in Range(PackageOrder)
      PROVE  Rank(p) \in DOMAIN PackageOrder /\ PackageOrder[Rank(p)] = p
  <2>1. \E r \in DOMAIN PackageOrder : PackageOrder[r] = p
    BY DEF Range
  <2> QED
    BY <2>1 DEF Rank
<1>3. ASSUME NEW r \in DOMAIN PackageOrder
      PROVE  Rank(PackageOrder[r]) = r
  <2>1. PackageOrder[r] \in Range(PackageOrder)
    BY DEF Range
  <2>2. /\ Rank(PackageOrder[r]) \in DOMAIN PackageOrder
        /\ PackageOrder[Rank(PackageOrder[r])] = PackageOrder[r]
    BY <1>2, <2>1
  <2> QED
    BY <2>2, MsgGenAssumption DEF IsInjective
<1> QED
  BY <1>1, <1>2, <1>3

NoLater(s, j, i) == \/ Rank(s[j].name) < Rank(s[i].name)
                    \/ s[j].name = s[i].name /\ j <= i

\* A stable sort by name: equal names stay in the order they came in.
LEMMA NoLaterIsTotal ==
  ASSUME NEW s, Named(s)
  PROVE  /\ IsFiniteSet(DOMAIN s)
         /\ TotalOrder(DOMAIN s, [i \in DOMAIN s |-> {j \in DOMAIN s : NoLater(s, j, i)}])
<1> DEFINE U == [i \in DOMAIN s |-> {j \in DOMAIN s : NoLater(s, j, i)}]
           rank == [i \in DOMAIN s |-> Rank(s[i].name)]
<1>1. Len(s) \in Nat /\ DOMAIN s = 1..Len(s)
  BY SequenceIs DEF Named
<1>2. \A i, j \in DOMAIN s : rank[i] \in Nat /\ (rank[i] = rank[j] <=> s[i].name = s[j].name)
  BY RankIs DEF Named
<1>3. /\ \A i, j \in DOMAIN s :
            j \in U[i] <=> rank[j] < rank[i] \/ (rank[i] = rank[j] /\ j <= i)
      /\ \A i \in DOMAIN s : U[i] \subseteq DOMAIN s
  BY <1>2 DEF NoLater
<1>4. \A i \in DOMAIN s : i \in Nat
  BY <1>1
<1> HIDE DEF U, rank
<1>5. \A i \in DOMAIN s : i \in U[i] /\ U[i] \subseteq DOMAIN s
  BY <1>2, <1>3, <1>4
<1>6. \A i, j \in DOMAIN s : i \in U[j] \/ j \in U[i]
  BY <1>2, <1>3, <1>4
<1>7. \A i, j \in DOMAIN s : i \in U[j] /\ j \in U[i] => i = j
  BY <1>2, <1>3, <1>4
<1>8. ASSUME NEW i \in DOMAIN s, NEW j \in DOMAIN s, i \in U[j]
      PROVE  U[i] \subseteq U[j]
  <2>1. ASSUME NEW x \in U[i]
        PROVE  x \in U[j]
    <3>1. x \in DOMAIN s
      BY <1>3
    <3>2. /\ rank[x] < rank[i] \/ (rank[i] = rank[x] /\ x <= i)
          /\ rank[i] < rank[j] \/ (rank[j] = rank[i] /\ i <= j)
      BY <1>3, <1>8, <3>1
    <3>3. rank[x] \in Nat /\ rank[i] \in Nat /\ rank[j] \in Nat /\ x \in Nat /\ i \in Nat /\ j \in Nat
      BY <1>2, <1>4, <3>1
    <3>4. rank[x] < rank[j] \/ (rank[j] = rank[x] /\ x <= j)
      BY <3>2, <3>3
    <3> QED
      BY <1>3, <3>1, <3>4
  <2> QED
    BY <2>1
<1>9. TotalOrder(DOMAIN s, U)
  BY <1>5, <1>6, <1>7, <1>8 DEF TotalOrder
<1> QED
  BY <1>1, <1>9, FS_Interval DEF U

\* sort_by_key: the same packages, by name, equal ones in the order they came in.
LEMMA SortIs ==
  ASSUME NEW s, Named(s)
  PROVE  \E at \in [DOMAIN s -> DOMAIN s] :
           LET t == SortByName(s)
           IN  /\ Named(t) /\ DOMAIN t = DOMAIN s
               /\ \A k \in DOMAIN s : t[k] = s[at[k]]
               /\ \A i \in DOMAIN s : \E k \in DOMAIN s : at[k] = i
               /\ \A k, l \in DOMAIN s : k <= l => NoLater(s, at[k], at[l])
<1> DEFINE U == [i \in DOMAIN s |-> {j \in DOMAIN s : NoLater(s, j, i)}]
           at == Ordered(DOMAIN s, U)
           t == SortByName(s)
           n == Cardinality(DOMAIN s)
<1>1. Len(s) \in Nat /\ DOMAIN s = 1..Len(s)
  BY SequenceIs DEF Named
<1>2. n = Len(s)
  <2>1. ASSUME NEW m \in Nat
        PROVE  Cardinality(1..m) = m
    BY FS_Interval
  <2> QED
    BY <1>1, <2>1
<1>3. IsFiniteSet(DOMAIN s) /\ TotalOrder(DOMAIN s, U)
  BY NoLaterIsTotal
<1>4. t = [k \in DOMAIN at |-> s[at[k]]]
  BY DEF SortByName, NoLater
<1>5. \A k, l \in DOMAIN s : k \in U[l] => NoLater(s, k, l)
  OBVIOUS
<1> HIDE DEF U
<1>6. at = [k \in 1..n |-> at[k]]
  BY <1>3, OrderedIs
<1>7. /\ DOMAIN at = 1..n
      /\ \A k \in 1..n : at[k] \in DOMAIN s
      /\ \A i \in DOMAIN s : \E k \in 1..n : at[k] = i
      /\ \A k, l \in 1..n : k <= l <=> at[k] \in U[at[l]]
  BY <1>3, OrderedIs
<1> HIDE DEF at, t, n
<1>8. at \in [DOMAIN s -> DOMAIN s]
  BY <1>1, <1>2, <1>6, <1>7
<1>9. DOMAIN t = 1..Len(s) /\ t = [k \in 1..Len(s) |-> t[k]] /\ \A k \in DOMAIN s : t[k] = s[at[k]]
  BY <1>1, <1>2, <1>4, <1>7
<1>10. Named(t)
  <2>1. IsSequence(t)
    BY <1>1, <1>9, IndexedIsSequence
  <2> QED
    BY <1>1, <1>2, <1>7, <1>9, <2>1 DEF Named
<1>11. \A k, l \in DOMAIN s : k <= l => NoLater(s, at[k], at[l])
  BY <1>1, <1>2, <1>5, <1>7
<1> QED
  BY <1>1, <1>2, <1>7, <1>8, <1>9, <1>10, <1>11 DEF t

\* dedup_by_key after a sort: each name once, by the first package that had it.
LEMMA DedupIs ==
  ASSUME NEW t, Named(t),
         \A k, l \in DOMAIN t : k <= l => Rank(t[k].name) <= Rank(t[l].name)
  PROVE  LET d == DedupByName(t)
         IN  /\ IsSequence(d)
             /\ \A k, l \in DOMAIN d : k < l => Rank(d[k].name) < Rank(d[l].name)
             /\ \A i \in DOMAIN t : \E k \in DOMAIN d : d[k].name = t[i].name
             /\ \A k \in DOMAIN d : \E i \in DOMAIN t :
                  d[k] = t[i] /\ \A j \in DOMAIN t : t[j].name = t[i].name => i <= j
<1> DEFINE kept == {i \in DOMAIN t : i = 1 \/ t[i].name # t[i - 1].name}
           at == Positions(kept)
           n == Cardinality(kept)
           d == DedupByName(t)
<1>1. Len(t) \in Nat /\ DOMAIN t = 1..Len(t)
  BY SequenceIs DEF Named
<1>2. kept \in SUBSET Nat /\ IsFiniteSet(kept)
  <2>1. kept \in SUBSET (1..Len(t)) /\ IsFiniteSet(1..Len(t))
    BY <1>1, FS_Interval
  <2> QED
    BY <2>1, FS_Subset
<1>3. d = Pick(t, kept)
  BY DEF DedupByName
<1>4. \A i \in kept : i \in DOMAIN t /\ (i = 1 \/ t[i].name # t[i - 1].name)
  OBVIOUS
<1>5. \A i \in DOMAIN t : i \notin kept => i # 1 /\ t[i].name = t[i - 1].name
  OBVIOUS
<1> HIDE DEF kept, d
<1>6. /\ n \in Nat
      /\ \A k \in 1..n : at[k] \in kept
      /\ \A i \in kept : \E k \in 1..n : at[k] = i
      /\ \A k, l \in 1..n : k < l => at[k] < at[l]
  BY <1>2, PositionsAre
<1>7. /\ IsSequence(d) /\ DOMAIN d = 1..n
      /\ \A k \in 1..n : d[k] = t[at[k]]
  BY <1>2, <1>3, PickIs
<1> HIDE DEF at, n
<1>8. \A i, j \in DOMAIN t : /\ Rank(t[i].name) \in Nat
                             /\ Rank(t[i].name) = Rank(t[j].name) => t[i].name = t[j].name
  BY RankIs DEF Named
\* Between two packages of one name there are only packages of that name.
<1>9. ASSUME NEW i \in DOMAIN t, NEW j \in DOMAIN t, j < i, t[j].name = t[i].name
      PROVE  i \notin kept
  <2>1. i - 1 \in DOMAIN t /\ j <= i - 1 /\ i - 1 <= i /\ i # 1
    BY <1>1, <1>9
  <2>2. Rank(t[j].name) <= Rank(t[i - 1].name) /\ Rank(t[i - 1].name) <= Rank(t[i].name)
    BY <2>1
  <2>3. Rank(t[i - 1].name) = Rank(t[i].name)
    BY <1>8, <1>9, <2>1, <2>2
  <2>4. t[i - 1].name = t[i].name
    BY <1>8, <2>1, <2>3
  <2> QED
    BY <1>4, <2>1, <2>4
<1>10. ASSUME NEW k \in DOMAIN d, NEW l \in DOMAIN d, k < l
       PROVE  Rank(d[k].name) < Rank(d[l].name)
  <2>1. at[k] < at[l] /\ at[k] \in DOMAIN t /\ at[l] \in kept /\ at[l] \in DOMAIN t
    BY <1>4, <1>6, <1>7, <1>10
  <2>2. t[at[k]].name # t[at[l]].name
    BY <1>9, <2>1
  <2>3. at[k] <= at[l]
    BY <1>1, <2>1
  <2>4. Rank(t[at[k]].name) <= Rank(t[at[l]].name)
    BY <2>1, <2>3
  <2>5. Rank(t[at[k]].name) < Rank(t[at[l]].name)
    BY <1>8, <2>1, <2>2, <2>4
  <2> QED
    BY <1>7, <2>5
<1>11. ASSUME NEW i \in DOMAIN t
       PROVE  \E k \in DOMAIN d : d[k].name = t[i].name
  <2> DEFINE same == {j \in DOMAIN t : t[j].name = t[i].name}
             m == Min(same)
  <2>1. same \in SUBSET Nat /\ same # {}
    BY <1>1
  <2>2. m \in same /\ \A j \in same : m <= j
    <3> HIDE DEF same
    <3> QED
      BY <2>1, LeastOf
  <2> HIDE DEF m
  <2>3. m \in DOMAIN t /\ t[m].name = t[i].name
    BY <2>2
  <2>4. m \in kept
    <3>1. SUFFICES ASSUME m \notin kept
                   PROVE  FALSE
      OBVIOUS
    <3>2. m # 1 /\ t[m].name = t[m - 1].name
      BY <1>5, <2>3, <3>1
    <3>3. m - 1 \in DOMAIN t /\ ~(m <= m - 1)
      BY <1>1, <2>3, <3>2
    <3> QED
      BY <2>2, <2>3, <3>2, <3>3
  <2>5. PICK k \in 1..n : at[k] = m
    BY <1>6, <2>4
  <2> QED
    BY <1>7, <2>3, <2>5
<1>12. ASSUME NEW k \in DOMAIN d
       PROVE  \E i \in DOMAIN t :
                 d[k] = t[i] /\ \A j \in DOMAIN t : t[j].name = t[i].name => i <= j
  <2>1. at[k] \in kept /\ at[k] \in DOMAIN t /\ d[k] = t[at[k]]
    BY <1>4, <1>6, <1>7
  <2>2. ASSUME NEW j \in DOMAIN t, t[j].name = t[at[k]].name
        PROVE  at[k] <= j
    <3>1. ~(j < at[k])
      BY <1>9, <2>1, <2>2
    <3> QED
      BY <1>1, <2>1, <3>1
  <2> QED
    BY <2>1, <2>2
<1> QED
  BY <1>7, <1>10, <1>11, <1>12 DEF d

\* Sorted by name, each name once, and of the packages of one name the first.
LEMMA SortedOnce ==
  ASSUME NEW s, Named(s)
  PROVE  LET d == DedupByName(SortByName(s))
         IN  /\ IsSequence(d)
             /\ \A k, l \in DOMAIN d : k < l => Rank(d[k].name) < Rank(d[l].name)
             /\ \A i \in DOMAIN s : \E k \in DOMAIN d : d[k].name = s[i].name
             /\ \A k \in DOMAIN d : \E i \in DOMAIN s :
                  d[k] = s[i] /\ \A j \in DOMAIN s : s[j].name = s[i].name => i <= j
<1> DEFINE t == SortByName(s)
           d == DedupByName(t)
<1>1. PICK at \in [DOMAIN s -> DOMAIN s] :
        /\ Named(t) /\ DOMAIN t = DOMAIN s
        /\ \A k \in DOMAIN s : t[k] = s[at[k]]
        /\ \A i \in DOMAIN s : \E k \in DOMAIN s : at[k] = i
        /\ \A k, l \in DOMAIN s : k <= l => NoLater(s, at[k], at[l])
  BY SortIs
<1> HIDE DEF t
<1>2. Len(s) \in Nat /\ DOMAIN s = 1..Len(s)
  BY SequenceIs DEF Named
<1>3. \A i \in DOMAIN s : Rank(s[i].name) \in Nat
  BY RankIs DEF Named
<1>4. \A k, l \in DOMAIN t : k <= l => Rank(t[k].name) <= Rank(t[l].name)
  <2>1. ASSUME NEW k \in DOMAIN t, NEW l \in DOMAIN t, k <= l
        PROVE  Rank(t[k].name) <= Rank(t[l].name)
    <3>1. NoLater(s, at[k], at[l]) /\ at[k] \in DOMAIN s /\ at[l] \in DOMAIN s
      BY <1>1, <2>1
    <3>2. Rank(s[at[k]].name) <= Rank(s[at[l]].name)
      BY <1>3, <3>1 DEF NoLater
    <3> QED
      BY <1>1, <3>2
  <2> QED
    BY <2>1
<1>5. /\ IsSequence(d)
      /\ \A k, l \in DOMAIN d : k < l => Rank(d[k].name) < Rank(d[l].name)
      /\ \A i \in DOMAIN t : \E k \in DOMAIN d : d[k].name = t[i].name
      /\ \A k \in DOMAIN d : \E i \in DOMAIN t :
           d[k] = t[i] /\ \A j \in DOMAIN t : t[j].name = t[i].name => i <= j
  BY <1>1, <1>4, DedupIs
<1> HIDE DEF d
<1>6. ASSUME NEW i \in DOMAIN s
      PROVE  \E k \in DOMAIN d : d[k].name = s[i].name
  <2>1. PICK l \in DOMAIN s : at[l] = i
    BY <1>1
  <2>2. l \in DOMAIN t /\ t[l] = s[i]
    BY <1>1, <2>1
  <2>3. PICK k \in DOMAIN d : d[k].name = t[l].name
    BY <1>5, <2>2
  <2> QED
    BY <2>2, <2>3
<1>7. ASSUME NEW k \in DOMAIN d
      PROVE  \E i \in DOMAIN s :
                d[k] = s[i] /\ \A j \in DOMAIN s : s[j].name = s[i].name => i <= j
  <2>1. PICK l \in DOMAIN t : d[k] = t[l] /\ \A j \in DOMAIN t : t[j].name = t[l].name => l <= j
    BY <1>5
  <2>2. at[l] \in DOMAIN s /\ d[k] = s[at[l]]
    BY <1>1, <2>1
  <2>3. ASSUME NEW j \in DOMAIN s, s[j].name = s[at[l]].name
        PROVE  at[l] <= j
    <3>1. PICK m \in DOMAIN s : at[m] = j
      BY <1>1
    <3>2. l <= m
      BY <1>1, <2>1, <2>3, <3>1
    <3>3. NoLater(s, at[l], j)
      BY <1>1, <2>1, <3>1, <3>2
    <3>4. ~(Rank(s[at[l]].name) < Rank(s[j].name))
      BY <1>3, <2>2, <2>3
    <3> QED
      BY <3>3, <3>4 DEF NoLater
  <2> QED
    BY <2>2, <2>3
<1> QED
  BY <1>5, <1>6, <1>7 DEF d, t

---------------------------------------------------------------------------
(***************************************************************************)
(* The walk over the prefixes.                                             *)
(***************************************************************************)
Parsed(files) == [k \in DOMAIN files |-> ParseFile(files[k]).item]
AllParse(files) == \A k \in DOMAIN files : ParseFile(files[k]).outcome = "ok"

\* A package as it stands in prefix i.
ReadFrom(pkg, i) ==
  /\ pkg.name \in DOMAIN prefixes[i] \ {SkippedPackage}
  /\ pkg.items = Parsed(FilesIn(i, pkg.name)) /\ AllParse(FilesIn(i, pkg.name))

\* Package p of prefix i has been read to its end.
Finished(i, p) ==
  i < prefix \/ (i = prefix /\ p \notin unread /\ (package # <<>> => package.name # p))

\* Where the walk is.
PlaceInv ==
  /\ prefixes \in Worlds /\ prefix \in 0..Len(prefixes)
  /\ prefix = 0 => unread = {} /\ package = <<>>
  /\ prefix # 0 => unread \subseteq DOMAIN prefixes[prefix]
  /\ package # <<>> => package.name \in Range(PackageOrder) \ {SkippedPackage}
  /\ phase \in {"scan", "parsed", "generated", "failed", "panicked"}

\* The open package holds the files of the lines read so far.
PackageInv ==
  package # <<>> =>
    /\ package = [name |-> package.name, items |-> package.items, next |-> package.next]
    /\ package.name \in DOMAIN prefixes[prefix] \ {SkippedPackage}
    /\ package.next \in 1..(Len(Index) + 1)
    /\ LET files == Pick(Index, {k \in FilesOf(Index) : k < package.next})
       IN  package.items = Parsed(files) /\ AllParse(files)

\* The packages come from the prefixes in their order, and each one that was
\* read to its end is among them.
OriginInv ==
  /\ IsSequence(packages)
  /\ \E origin \in [DOMAIN packages -> 1..prefix] :
       /\ \A k \in DOMAIN packages : ReadFrom(packages[k], origin[k])
       /\ \A k, l \in DOMAIN packages : k <= l => origin[k] <= origin[l]
       /\ \A i \in 1..prefix : \A p \in DOMAIN prefixes[i] \ {SkippedPackage} :
            Finished(i, p) => \E k \in DOMAIN packages : origin[k] = i /\ packages[k].name = p

\* Before and after the sort, a package is one that some prefix holds.
SourceInv == \A k \in DOMAIN packages : \E i \in DOMAIN prefixes : ReadFrom(packages[k], i)

\* The invariant of the generator, of which the last three parts are about the
\* time after the walk.
GenInv ==
  /\ PlaceInv /\ SourceInv
  /\ phase = "scan" => PackageInv /\ OriginInv
  /\ FirstPrefixWins
  /\ phase = "generated" => ~EmitPanics
  /\ PanicsWithCause

LEMMA WorldIs ==
  ASSUME NEW world \in Worlds
  PROVE  /\ Len(world) \in Nat /\ DOMAIN world = 1..Len(world)
         /\ \A i \in DOMAIN world :
              /\ DOMAIN world[i] \subseteq Range(PackageOrder)
              /\ \A p \in DOMAIN world[i] :
                   /\ IsSequence(world[i][p])
                   /\ \A entry \in Range(world[i][p]) : entry.ns \in DOMAIN Parts => IsFile(entry)
BY SequenceIs, MsgGenAssumption

LEMMA FilesAre ==
  ASSUME NEW index, IsSequence(index), NEW n \in Nat
  PROVE  LET read == {k \in FilesOf(index) : k < n}
         IN  read \in SUBSET Nat /\ IsFiniteSet(read)
<1> DEFINE read == {k \in FilesOf(index) : k < n}
<1>1. Len(index) \in Nat /\ DOMAIN index = 1..Len(index)
  BY SequenceIs
<1>2. read \in SUBSET (1..Len(index))
  BY <1>1 DEF FilesOf
<1> HIDE DEF read
<1>3. IsFiniteSet(1..Len(index))
  BY <1>1, FS_Interval
<1>4. IsFiniteSet(read)
  BY <1>2, <1>3, FS_Subset
<1>5. read \in SUBSET Nat
  BY <1>1, <1>2
<1> QED
  BY <1>4, <1>5 DEF read

\* The files of a package in a prefix are those its index names.
LEMMA FilesInAre ==
  ASSUME prefixes \in Worlds, NEW i \in DOMAIN prefixes, NEW p
  PROVE  /\ IsSequence(FilesIn(i, p))
         /\ \A k \in DOMAIN FilesIn(i, p) :
              FilesIn(i, p)[k].ns \in DOMAIN Parts /\ IsFile(FilesIn(i, p)[k])
         /\ p \notin DOMAIN prefixes[i] \ {SkippedPackage} => FilesIn(i, p) = <<>>
<1>1. CASE p \in DOMAIN prefixes[i] \ {SkippedPackage}
  <2> DEFINE index == prefixes[i][p]
             kept == FilesOf(index)
  <2>1. /\ IsSequence(index)
        /\ \A entry \in Range(index) : entry.ns \in DOMAIN Parts => IsFile(entry)
    BY <1>1, WorldIs
  <2>2. FilesIn(i, p) = Pick(index, kept)
    BY <1>1 DEF FilesIn
  <2> HIDE DEF index
  <2>3. Len(index) \in Nat /\ DOMAIN index = 1..Len(index)
    BY <2>1, SequenceIs
  <2>4. {k \in kept : k < Len(index) + 1} = kept
    BY <2>3 DEF FilesOf
  <2>5. kept \in SUBSET Nat /\ IsFiniteSet(kept)
    <3>1. Len(index) + 1 \in Nat
      BY <2>3
    <3> QED
      BY <2>1, <2>4, <3>1, FilesAre
  <2>6. \A k \in kept : index[k].ns \in DOMAIN Parts /\ index[k] \in Range(index)
    BY DEF FilesOf, Range
  <2> HIDE DEF kept
  <2>7. /\ IsSequence(Pick(index, kept)) /\ DOMAIN Pick(index, kept) = 1..Cardinality(kept)
        /\ \A k \in 1..Cardinality(kept) :
             /\ Pick(index, kept)[k] = index[Positions(kept)[k]]
             /\ Positions(kept)[k] \in kept
    BY <2>5, PickIs, PositionsAre
  <2> QED
    BY <1>1, <2>1, <2>2, <2>6, <2>7
<1>2. CASE p \notin DOMAIN prefixes[i] \ {SkippedPackage}
  <2>1. FilesIn(i, p) = <<>>
    BY <1>2 DEF FilesIn
  <2> QED
    BY <2>1, EmptySequence
<1> QED
  BY <1>1, <1>2

LEMMA ParsedIs ==
  ASSUME NEW t, IsSequence(t)
  PROVE  /\ IsSequence(Parsed(t)) /\ DOMAIN Parsed(t) = DOMAIN t /\ Len(Parsed(t)) = Len(t)
         /\ Parsed(t) = <<>> <=> t = <<>>
<1> DEFINE u == Parsed(t)
<1>1. Len(t) \in Nat /\ DOMAIN t = 1..Len(t)
  BY SequenceIs
<1>2. DOMAIN u = 1..Len(t) /\ u = [k \in 1..Len(t) |-> u[k]]
  BY <1>1 DEF Parsed
<1> HIDE DEF u
<1>3. IsSequence(u) /\ Len(u) = Len(t)
  BY <1>1, <1>2, IndexedIsSequence
<1>4. \A s : IsSequence(s) => (s = <<>> <=> Len(s) = 0)
  BY EmptySeq DEF IsSequence
<1> QED
  BY <1>1, <1>2, <1>3, <1>4 DEF u

\* One more file of the index, parsed.
LEMMA ParsedExtended ==
  ASSUME NEW t, IsSequence(t), NEW f
  PROVE  /\ Parsed(Append(t, f)) = Append(Parsed(t), ParseFile(f).item)
         /\ AllParse(t) /\ ParseFile(f).outcome = "ok" => AllParse(Append(t, f))
<1> DEFINE n == Len(t)
           e == ParseFile(f).item
           s == Parsed(t)
           u == Append(t, f)
           v == Append(s, e)
<1>1. n \in Nat /\ DOMAIN t = 1..n /\ IsSequence(s) /\ Len(s) = n
  BY SequenceIs, ParsedIs
<1>2. /\ DOMAIN u = 1..(n + 1)
      /\ \A k \in 1..n : u[k] = t[k]
      /\ u[n + 1] = f
  BY <1>1, Extended
<1>3. \A k \in 1..n : s[k] = ParseFile(t[k]).item
  BY <1>1 DEF Parsed
<1> HIDE DEF u, s, e
<1>4. /\ DOMAIN v = 1..(n + 1) /\ IsSequence(v)
      /\ \A k \in 1..n : v[k] = s[k]
      /\ v[n + 1] = e
  BY <1>1, Extended
<1>5. v = [k \in 1..(n + 1) |-> v[k]]
  <2>1. Len(v) \in Nat /\ DOMAIN v = 1..Len(v) /\ v \in [1..Len(v) -> Range(v)]
    BY <1>4, SequenceIs
  <2> HIDE DEF v
  <2> QED
    BY <1>4, <2>1
<1> HIDE DEF v
<1>6. \A k \in 1..(n + 1) : k \in 1..n \/ k = n + 1
  BY <1>1
<1>7. \A k \in 1..(n + 1) : v[k] = ParseFile(u[k]).item
  BY <1>2, <1>3, <1>4, <1>6 DEF e
<1>8. Parsed(u) = v
  BY <1>2, <1>5, <1>7 DEF Parsed
<1>9. AllParse(t) /\ ParseFile(f).outcome = "ok" => AllParse(u)
  BY <1>1, <1>2, <1>6 DEF AllParse
<1> QED
  BY <1>8, <1>9 DEF u, v, s, e

(***************************************************************************)
(* Parsing a file either yields an item with the file's name, or ends the  *)
(* walk with an error, or with a panic at a line without a space.          *)
(***************************************************************************)
Outcomes == {"ok", "failed", "panicked"}

LEMMA ParseMessageOutcome ==
  ASSUME NEW lines, IsSequence(lines)
  PROVE  /\ ParseMessage(lines).outcome \in Outcomes
         /\ ParseMessage(lines).outcome = "panicked" =>
              \E line \in Range(lines) : line.form = "word"
<1> DEFINE turns == [i \in DOMAIN lines |-> ParseLine(lines[i])]
           bad == {i \in DOMAIN turns : turns[i].result \in {"failed", "panicked"}}
<1>1. ParseMessage(lines).outcome = IF bad = {} THEN "ok" ELSE turns[Min(bad)].result
  BY DEF ParseMessage, MessageOf
<1>2. bad \in SUBSET Nat
  BY SequenceIs
<1>3. bad # {} => Min(bad) \in bad
  <2> HIDE DEF bad
  <2> QED
    BY <1>2, LeastOf
<1>4. \A i \in bad : turns[i].result \in {"failed", "panicked"} /\ i \in DOMAIN lines
  OBVIOUS
<1>5. ASSUME NEW line, ParseLine(line).result = "panicked"
      PROVE  line.form = "word"
  <2> DEFINE v == CutComment(line.value)
             constant == line.eq \/ Holds(v, "=")
             defs == IF constant THEN ConstantDef(line, v) ELSE MemberDef(line, v)
  <2>1. CASE line.form \notin {"blank", "word"}
    <3>1. ParseLine(line) = IF defs = {} THEN [result |-> "failed"]
                            ELSE [result |-> IF constant THEN "constant" ELSE "member",
                                  def |-> CHOOSE d \in defs : TRUE]
      BY <2>1 DEF ParseLine
    <3> HIDE DEF defs, constant
    <3> QED
      BY <1>5, <3>1
  <2>2. CASE line.form = "blank"
    BY <1>5, <2>2 DEF ParseLine
  <2> QED
    BY <2>1, <2>2
<1>6. \A i \in bad : turns[i].result = "panicked" => \E line \in Range(lines) : line.form = "word"
  BY <1>5 DEF Range
<1> HIDE DEF bad, turns
<1> QED
  BY <1>1, <1>3, <1>4, <1>6 DEF Outcomes

\* A file that parses has the messages its kind asks for; a panic has its line.
LEMMA ParseFileIs ==
  ASSUME NEW entry, entry.ns \in DOMAIN Parts, IsFile(entry)
  PROVE  LET file == ParseFile(entry)
             parts == Parts[entry.ns]
         IN  /\ file.outcome \in Outcomes
             /\ file.outcome = "ok" =>
                  /\ file.item = [ns |-> entry.ns, name |-> entry.name,
                                  msgs |-> [i \in DOMAIN parts |-> ParseMessage(entry.blocks[i])]]
                  /\ DOMAIN parts = DOMAIN entry.blocks
             /\ file.outcome = "panicked" =>
                  \E b \in DOMAIN entry.blocks : \E line \in Range(entry.blocks[b]) :
                     line.form = "word"
<1> DEFINE parts == Parts[entry.ns]
           msgs == [i \in DOMAIN parts |-> ParseMessage(entry.blocks[i])]
           bad == {i \in DOMAIN msgs : msgs[i].outcome # "ok"}
           item == [ns |-> entry.ns, name |-> entry.name, msgs |-> msgs]
           file == ParseFile(entry)
           Word == \E b \in DOMAIN entry.blocks : \E line \in Range(entry.blocks[b]) :
                      line.form = "word"
<1>1. /\ Len(entry.blocks) # Len(parts) => file.outcome = "failed"
      /\ Len(entry.blocks) = Len(parts) =>
           /\ file.outcome = IF bad = {} THEN "ok" ELSE msgs[Min(bad)].outcome
           /\ file.item = item
  BY DEF ParseFile
<1>2. ASSUME Len(entry.blocks) = Len(parts)
      PROVE  /\ file.outcome \in Outcomes
             /\ DOMAIN parts = DOMAIN entry.blocks
             /\ file.outcome = "panicked" => Word
  <2>1. DOMAIN parts = 1..Len(parts)
    <3>1. entry.ns \in {"msg", "srv", "action"}
      BY DEF Parts
    <3>2. CASE entry.ns = "msg"
      BY <3>2 DEF Parts
    <3>3. CASE entry.ns = "srv"
      BY <3>3 DEF Parts
    <3>4. CASE entry.ns = "action"
      BY <3>4 DEF Parts
    <3> QED
      BY <3>1, <3>2, <3>3, <3>4
  <2>2. Len(entry.blocks) \in Nat /\ DOMAIN entry.blocks = 1..Len(entry.blocks)
    BY SequenceIs DEF IsFile
  <2>3. DOMAIN msgs = DOMAIN parts /\ DOMAIN parts = DOMAIN entry.blocks
    BY <1>2, <2>1, <2>2
  <2>4. ASSUME NEW i \in DOMAIN msgs
        PROVE  msgs[i].outcome \in Outcomes /\ (msgs[i].outcome = "panicked" => Word)
    <3>1. i \in DOMAIN entry.blocks /\ IsSequence(entry.blocks[i])
      BY <2>3 DEF Range, IsFile
    <3>2. msgs[i] = ParseMessage(entry.blocks[i])
      OBVIOUS
    <3> HIDE DEF msgs
    <3> QED
      BY <3>1, <3>2, ParseMessageOutcome
  <2>5. bad \in SUBSET Nat
    BY <2>2, <2>3
  <2>6. bad # {} => Min(bad) \in bad
    <3> HIDE DEF bad
    <3> QED
      BY <2>5, LeastOf
  <2>7. \A i \in bad : i \in DOMAIN msgs
    OBVIOUS
  <2> HIDE DEF bad, msgs, parts, file, Word
  <2> QED
    BY <1>1, <1>2, <2>3, <2>4, <2>6, <2>7 DEF Outcomes
<1> HIDE DEF file, item, bad, msgs, Word
<1>3. file.outcome \in Outcomes
  BY <1>1, <1>2 DEF Outcomes
<1>4. file.outcome = "ok" => file.item = item /\ DOMAIN parts = DOMAIN entry.blocks
  BY <1>1, <1>2
<1>5. file.outcome = "panicked" => Word
  BY <1>1, <1>2
<1> QED
  BY <1>3, <1>4, <1>5 DEF file, item, msgs, Word

\* The items of files that parse have the names of the files.
LEMMA LabelsParsed ==
  ASSUME NEW t, IsSequence(t), AllParse(t),
         \A k \in DOMAIN t : t[k].ns \in DOMAIN Parts /\ IsFile(t[k])
  PROVE  Labels(Parsed(t)) = Labels(t)
<1> DEFINE u == Parsed(t)
<1>1. DOMAIN u = DOMAIN t
  BY ParsedIs
<1>2. ASSUME NEW k \in DOMAIN t
      PROVE  u[k].ns = t[k].ns /\ u[k].name = t[k].name
  <2>1. u[k] = ParseFile(t[k]).item
    BY DEF Parsed
  <2>2. ParseFile(t[k]).outcome = "ok"
    BY DEF AllParse
  <2> DEFINE msgs == [i \in DOMAIN Parts[t[k].ns] |-> ParseMessage(t[k].blocks[i])]
  <2>3. ParseFile(t[k]).item = [ns |-> t[k].ns, name |-> t[k].name, msgs |-> msgs]
    BY <2>2, ParseFileIs
  <2> HIDE DEF msgs, u
  <2> QED
    BY <2>1, <2>3
<1> HIDE DEF u
<1>3. Labels(u) = Labels(t)
  BY <1>1, <1>2 DEF Labels
<1> QED
  BY <1>3 DEF u


---------------------------------------------------------------------------
(***************************************************************************)
(* What a line says and what becomes of it.                                *)
(***************************************************************************)
LEMMA FromFirstToLast ==
  ASSUME NEW t, IsSequence(t)
  PROVE  /\ DOMAIN t = {} => t = <<>>
         /\ DOMAIN t # {} => SubSeq(t, Min(DOMAIN t), Max(DOMAIN t)) = t
<1> DEFINE n == Len(t)
           S == DOMAIN t
<1>1. n \in Nat /\ S = 1..n /\ t \in Seq(Range(t))
  BY SequenceIs DEF IsSequence
<1>2. S = {} => t = <<>>
  <2>1. n = 0 => t = <<>>
    BY <1>1, EmptySeq
  <2>2. S = {} => n = 0
    <3>1. n # 0 => 1 \in S
      BY <1>1
    <3> QED
      BY <3>1
  <2> QED
    BY <2>1, <2>2
<1>3. SubSeq(t, 1, n) = t
  BY <1>1, SubSeqFull
<1> HIDE DEF S, n
<1>4. ASSUME S # {}
      PROVE  Min(S) = 1 /\ Max(S) = n
  <2>1. n \in S /\ 1 \in S /\ \A i \in S : 1 <= i /\ i <= n /\ i \in Nat
    BY <1>1, <1>4
  <2>2. Min(S) \in S /\ Min(S) <= 1
    <3>1. S \in SUBSET Nat
      BY <2>1
    <3> QED
      BY <1>4, <2>1, <3>1, LeastOf
  <2>3. Max(S) = CHOOSE x \in S : \A y \in S : x >= y
    BY DEF Max
  <2>4. \A y \in S : n >= y
    BY <1>1, <2>1
  <2>5. Max(S) \in S /\ \A y \in S : Max(S) >= y
    BY <2>1, <2>3, <2>4
  <2>6. Max(S) >= n /\ Max(S) <= n /\ Max(S) \in Nat
    BY <2>1, <2>5
  <2> QED
    BY <1>1, <2>1, <2>2, <2>6
<1> QED
  BY <1>2, <1>3, <1>4 DEF S

Blankless(t) == " " \notin Range(t)

\* trim() keeps a text without blanks.
LEMMA TrimNoBlank ==
  ASSUME NEW t, IsSequence(t), Blankless(t)
  PROVE  Trim(t) = t
<1> DEFINE shown == {i \in DOMAIN t : t[i] # " "}
<1>1. shown = DOMAIN t
  BY DEF Range, Blankless
<1>2. Trim(t) = IF shown = {} THEN <<>> ELSE SubSeq(t, Min(shown), Max(shown))
  BY DEF Trim
<1> HIDE DEF shown
<1> QED
  BY <1>1, <1>2, FromFirstToLast, Zenon

\* Cutting at '#' changes a value only if there is a '#' in it.
LEMMA CutCommentIs ==
  ASSUME NEW v
  PROVE  CutComment(v) = v \/ (Holds(v, "#") /\ CutComment(v).lit \in {"broken", "text", "none"})
<1> DEFINE kept == Trim(Before(v.chars, "#"))
<1>1. Text(<<>>).lit = "text" /\ Text(kept).lit = "text" /\ NoValue.lit = "none"
  BY DEF Text, NoValue
<1>2. CutComment(v) = IF ~Holds(v, "#") THEN v
                      ELSE IF v.lit = "list" THEN [lit |-> "broken"]
                      ELSE IF v.quoted THEN IF kept = <<>> THEN Text(<<>>) ELSE [lit |-> "broken"]
                      ELSE IF kept = <<>> THEN NoValue ELSE Text(kept)
  BY DEF CutComment
<1> HIDE DEF kept
<1> QED
  BY <1>1, <1>2

\* The literals a parsed value comes from, one by one.
LiteralValues(type, w) ==
  IF type.elem.kind = "basic" THEN BasicLiteral(type.elem.of, w)
  ELSE StringLiteral(IF type.seq = "none" THEN type.elem.max ELSE Unbounded, w)

\* A default or constant that is accepted has one value for each literal.
LEMMA ValuesAre ==
  ASSUME NEW type, NEW v, v.lit = "list" => IsSequence(v.items),
         NEW e \in ValidateDefault(type, v) \cup ValidateValue(type, v)
  PROVE  /\ type.elem.kind \in {"basic", "string"}
         /\ type.seq # "none" => v.lit = "list"
         /\ DOMAIN e = DOMAIN Literals(type, v) /\ Len(e) = Len(Literals(type, v))
         /\ type.seq = "none" => Len(e) = 1
         /\ \A k \in DOMAIN e : e[k] \in LiteralValues(type, Literals(type, v)[k])
<1>1. CASE type.seq = "none"
  <2>1. e \in NestableDefault(type.elem, v)
    BY <1>1 DEF ValidateDefault, ValidateValue
  <2>2. Literals(type, v) = <<v>>
    BY <1>1 DEF Literals
  <2>3. CASE type.elem.kind = "basic"
    <3>1. PICK w \in BasicLiteral(type.elem.of, v) : e = <<w>>
      BY <2>1, <2>3 DEF NestableDefault
    <3> QED
      BY <1>1, <2>2, <2>3, <3>1 DEF LiteralValues
  <2>4. CASE type.elem.kind = "string"
    <3>1. PICK w \in StringLiteral(type.elem.max, v) : e = <<w>>
      BY <2>1, <2>4 DEF NestableDefault
    <3> QED
      BY <1>1, <2>2, <2>4, <3>1 DEF LiteralValues
  <2>5. CASE type.elem.kind \notin {"basic", "string"}
    BY <2>1, <2>5 DEF NestableDefault
  <2> QED
    BY <2>3, <2>4, <2>5
<1>2. CASE type.seq # "none"
  <2> DEFINE elem == type.elem
             Item(w) == CASE elem.kind = "basic"  -> BasicLiteral(elem.of, w)
                          [] elem.kind = "string" -> StringLiteral(Unbounded, w)
                          [] OTHER                -> {}
             f == [i \in DOMAIN v.items |-> CHOOSE w \in Item(v.items[i]) : TRUE]
  <2>1. e \in ArrayDefault(type.elem, v)
    BY <1>2 DEF ValidateDefault, ValidateValue
  <2>2. /\ v.lit = "list" /\ v.items # <<>> /\ \A i \in DOMAIN v.items : Item(v.items[i]) # {}
        /\ e = f
    <3>1. ArrayDefault(elem, v) =
            IF v.lit = "list" /\ v.items # <<>> /\ \A i \in DOMAIN v.items : Item(v.items[i]) # {}
            THEN {f} ELSE {}
      BY DEF ArrayDefault
    <3> HIDE DEF Item, f
    <3> QED
      BY <2>1, <3>1
  <2>3. Literals(type, v) = v.items
    BY <1>2, <2>2 DEF Literals, Items
  <2>4. Len(v.items) \in Nat /\ DOMAIN v.items = 1..Len(v.items)
    BY <2>2, SequenceIs
  <2>5. v.items # <<>> => 1 \in DOMAIN v.items
    <3>1. Len(v.items) = 0 => v.items = <<>>
      BY <2>2, EmptySeq DEF IsSequence
    <3> QED
      BY <2>4, <3>1
  <2>6. elem.kind \in {"basic", "string"}
    BY <2>2, <2>5
  <2>7. ASSUME NEW k \in DOMAIN v.items
        PROVE  e[k] \in LiteralValues(type, v.items[k])
    <3>1. Item(v.items[k]) = LiteralValues(type, v.items[k])
      BY <1>2, <2>6 DEF LiteralValues
    <3> HIDE DEF Item
    <3> QED
      BY <2>2, <3>1
  <2>8. Len(e) = Len(v.items)
    <3>1. DOMAIN e = 1..Len(v.items) /\ e = [k \in 1..Len(v.items) |-> e[k]]
      BY <2>2, <2>4
    <3> QED
      BY <2>4, <3>1, IndexedIsSequence
  <2> QED
    BY <1>2, <2>2, <2>3, <2>6, <2>7, <2>8
<1> QED
  BY <1>1, <1>2

---------------------------------------------------------------------------
(***************************************************************************)
(* Every step of the walk keeps GenInv.                                    *)
(***************************************************************************)
LEMMA SamePrefixes ==
  ASSUME prefixes' = prefixes
  PROVE  /\ \A i, p : FilesIn(i, p)' = FilesIn(i, p)
         /\ \A pkg, i : ReadFrom(pkg, i)' <=> ReadFrom(pkg, i)
BY DEF ReadFrom, FilesIn

\* OriginInv speaks of packages and of what is finished, which a step may leave alone.
LEMMA OriginsStay ==
  ASSUME OriginInv, prefixes' = prefixes, packages' = packages,
         prefix \in Nat, prefix' \in Nat, prefix <= prefix',
         \A i \in 1..prefix' : \A p \in DOMAIN prefixes[i] \ {SkippedPackage} :
           Finished(i, p)' => i \in 1..prefix /\ Finished(i, p)
  PROVE  OriginInv'
<1>1. PICK origin \in [DOMAIN packages -> 1..prefix] :
        /\ \A k \in DOMAIN packages : ReadFrom(packages[k], origin[k])
        /\ \A k, l \in DOMAIN packages : k <= l => origin[k] <= origin[l]
        /\ \A i \in 1..prefix : \A p \in DOMAIN prefixes[i] \ {SkippedPackage} :
             Finished(i, p) => \E k \in DOMAIN packages : origin[k] = i /\ packages[k].name = p
  BY DEF OriginInv
<1>2. origin \in [DOMAIN packages' -> 1..prefix']
  BY <1>1
<1>3. \A k \in DOMAIN packages' : ReadFrom(packages[k], origin[k])'
  BY <1>1, SamePrefixes
<1>4. \A k, l \in DOMAIN packages' : k <= l => origin[k] <= origin[l]
  BY <1>1
<1>5. \A i \in 1..prefix' : \A p \in DOMAIN prefixes'[i] \ {SkippedPackage} :
        Finished(i, p)' => \E k \in DOMAIN packages' : origin[k] = i /\ packages'[k].name = p
  BY <1>1
<1> QED
  BY <1>2, <1>3, <1>4, <1>5 DEF OriginInv

LEMMA SourceStays ==
  ASSUME SourceInv, prefixes' = prefixes, packages' = packages
  PROVE  SourceInv'
<1>1. ASSUME NEW k \in DOMAIN packages
      PROVE  \E i \in DOMAIN prefixes : ReadFrom(packages[k], i)'
  <2>1. PICK i \in DOMAIN prefixes : ReadFrom(packages[k], i)
    BY DEF SourceInv
  <2> QED
    BY <2>1, SamePrefixes
<1> QED
  BY <1>1 DEF SourceInv

LEMMA SameLines ==
  ASSUME prefixes' = prefixes
  PROVE  LinesRead' = LinesRead /\ DefLines' = DefLines
<1>1. LinesRead' = LinesRead
  BY DEF LinesRead, FilesIn
<1> QED
  BY <1>1 DEF DefLines

\* Nothing has gone wrong and nothing is emitted yet.
LEMMA Underway ==
  ASSUME phase' \in {"scan", "parsed", "failed"}
  PROVE  (phase = "generated" => ~EmitPanics)' /\ PanicsWithCause'
BY DEF PanicsWithCause

\* A line of an index that names a file is one of the package's files.
LEMMA EntryIsIn ==
  ASSUME prefixes \in Worlds, NEW i \in DOMAIN prefixes,
         NEW p \in DOMAIN prefixes[i] \ {SkippedPackage}, NEW n \in FilesOf(prefixes[i][p])
  PROVE  \E k \in DOMAIN FilesIn(i, p) : FilesIn(i, p)[k] = prefixes[i][p][n]
<1> DEFINE index == prefixes[i][p]
           kept == FilesOf(index)
<1>1. IsSequence(index) /\ FilesIn(i, p) = Pick(index, kept)
  BY WorldIs DEF FilesIn
<1> HIDE DEF index
<1>2. Len(index) \in Nat /\ DOMAIN index = 1..Len(index) /\ Len(index) + 1 \in Nat
  BY <1>1, SequenceIs
<1>3. {k \in kept : k < Len(index) + 1} = kept
  BY <1>2 DEF FilesOf
<1>4. kept \in SUBSET Nat /\ IsFiniteSet(kept)
  BY <1>1, <1>2, <1>3, FilesAre
<1>5. n \in kept
  BY DEF index
<1> HIDE DEF kept
<1>6. PICK k \in 1..Cardinality(kept) : Positions(kept)[k] = n
  BY <1>4, <1>5, PositionsAre
<1>7. DOMAIN Pick(index, kept) = 1..Cardinality(kept) /\ Pick(index, kept)[k] = index[n]
  BY <1>4, <1>6, PickIs
<1> QED
  BY <1>1, <1>7 DEF index

\* The lines of those files are those that PanicsWithCause and AsDeclared look at.
LEMMA LineIsRead ==
  ASSUME prefixes \in Worlds, NEW i \in DOMAIN prefixes, NEW p, NEW k \in DOMAIN FilesIn(i, p),
         NEW b \in DOMAIN FilesIn(i, p)[k].blocks, NEW line \in Range(FilesIn(i, p)[k].blocks[b])
  PROVE  line \in LinesRead
<1>1. p \in Range(PackageOrder)
  <2>1. CASE p \in DOMAIN prefixes[i]
    BY <2>1, WorldIs
  <2>2. CASE p \notin DOMAIN prefixes[i]
    BY <2>2, EmptySequence DEF FilesIn
  <2> QED
    BY <2>1, <2>2
<1> DEFINE file == FilesIn(i, p)[k]
           some == Range(FilesIn(i, p))
           all == UNION {Range(FilesIn(j, q)) : j \in DOMAIN prefixes, q \in Range(PackageOrder)}
           its == {Range(file.blocks[c]) : c \in DOMAIN file.blocks}
<1>2. file \in some
  BY DEF Range
<1>3. some \in {Range(FilesIn(j, q)) : j \in DOMAIN prefixes, q \in Range(PackageOrder)}
  BY <1>1
<1>4. file \in all
  BY <1>2, <1>3
<1>5. line \in UNION its
  OBVIOUS
<1>6. LinesRead = UNION {UNION {Range(f.blocks[c]) : c \in DOMAIN f.blocks} : f \in all}
  BY DEF LinesRead
<1> HIDE DEF all
<1> QED
  BY <1>4, <1>5, <1>6

LEMMA GenInitInv == GenInit => GenInv
<1> SUFFICES ASSUME GenInit
             PROVE  GenInv
  OBVIOUS
<1> USE DEF GenInit
<1>1. PlaceInv
  <2>1. Len(prefixes) \in Nat
    BY WorldIs
  <2> QED
    BY <2>1 DEF PlaceInv
<1>2. PackageInv
  BY DEF PackageInv
<1>3. OriginInv
  <2>1. IsSequence(packages) /\ DOMAIN packages = {}
    BY EmptySequence
  <2>2. [k \in {} |-> 0] \in [DOMAIN packages -> 1..prefix]
    BY <2>1
  <2>3. 1..prefix = {}
    OBVIOUS
  <2> QED
    BY <2>1, <2>2, <2>3 DEF OriginInv
<1>4. FirstPrefixWins /\ PanicsWithCause
  BY DEF FirstPrefixWins, PanicsWithCause
<1>5. SourceInv
  BY EmptySequence DEF SourceInv
<1> QED
  BY <1>1, <1>2, <1>3, <1>4, <1>5 DEF GenInv

\* The next prefix: all that was finished stays finished, nothing of it is read yet.
LEMMA OpenPrefixInv ==
  ASSUME GenInv, OpenPrefix
  PROVE  GenInv'
<1> USE DEF OpenPrefix, Between
<1>1. PlaceInv /\ PackageInv /\ OriginInv /\ SourceInv
  BY DEF GenInv
<1>2. /\ Len(prefixes) \in Nat /\ prefix \in 0..Len(prefixes)
      /\ prefix' = prefix + 1 /\ prefix' \in 1..Len(prefixes)
  BY <1>1, WorldIs DEF PlaceInv
<1>3. PlaceInv'
  BY <1>1, <1>2 DEF PlaceInv
<1>4. PackageInv'
  BY DEF PackageInv
<1>5. OriginInv'
  <2>1. ASSUME NEW i \in 1..prefix', NEW p \in DOMAIN prefixes[i] \ {SkippedPackage},
               Finished(i, p)'
        PROVE  i \in 1..prefix /\ Finished(i, p)
    <3>1. i < prefix' \/ (i = prefix' /\ p \notin DOMAIN prefixes[prefix'])
      BY <2>1 DEF Finished
    <3>2. i < prefix'
      BY <3>1
    <3>3. i \in 1..prefix /\ (i < prefix \/ i = prefix)
      BY <1>2, <3>2
    <3> QED
      BY <3>3 DEF Finished
  <2>2. prefix \in Nat /\ prefix' \in Nat /\ prefix <= prefix'
    BY <1>2
  <2> QED
    BY <1>1, <2>1, <2>2, OriginsStay
<1>6. FirstPrefixWins'
  BY DEF FirstPrefixWins
<1>7. SourceInv'
  BY <1>1, SourceStays
<1>8. (phase = "generated" => ~EmitPanics)' /\ PanicsWithCause'
  BY Underway
<1> QED
  BY <1>3, <1>4, <1>5, <1>6, <1>7, <1>8 DEF GenInv

\* read_dir picks any directory that is left; a package has none of its files yet.
LEMMA OpenPackageInv ==
  ASSUME GenInv, NEW p \in unread, OpenPackage(p)
  PROVE  GenInv'
<1> USE DEF OpenPackage
<1>1. PlaceInv /\ PackageInv /\ OriginInv /\ SourceInv
  BY DEF GenInv
<1>2. /\ Len(prefixes) \in Nat /\ prefix \in 0..Len(prefixes) /\ prefix # 0 /\ prefix \in DOMAIN prefixes
      /\ p \in DOMAIN prefixes[prefix] /\ IsSequence(prefixes[prefix][p])
      /\ p \in Range(PackageOrder)
  <2>1. prefixes \in Worlds /\ prefix \in 0..Len(prefixes) /\ prefix # 0 /\ p \in DOMAIN prefixes[prefix]
    BY <1>1 DEF PlaceInv
  <2>2. Len(prefixes) \in Nat /\ DOMAIN prefixes = 1..Len(prefixes)
    BY <2>1, WorldIs
  <2>3. prefix \in DOMAIN prefixes
    BY <2>1, <2>2
  <2> QED
    BY <2>1, <2>2, <2>3, WorldIs
<1>3. PlaceInv'
  <2>1. package' # <<>> => package'.name = p /\ p # SkippedPackage
    OBVIOUS
  <2> QED
    BY <1>1, <1>2, <2>1 DEF PlaceInv
<1>4. PackageInv'
  <2>1. CASE p = SkippedPackage
    BY <2>1 DEF PackageInv
  <2>2. CASE p # SkippedPackage
    <3> DEFINE index == prefixes[prefix][p]
    <3>1. /\ package'.name = p /\ package'.items = <<>> /\ package'.next = 1
          /\ package' = [name |-> p, items |-> <<>>, next |-> 1]
      BY <2>2
    <3>2. Index' = index
      BY <3>1 DEF Index
    <3>3. Len(index) \in Nat /\ DOMAIN index = 1..Len(index)
      BY <1>2, SequenceIs
    <3>4. {k \in FilesOf(index) : k < 1} = {}
      BY <3>3 DEF FilesOf
    <3>5. Pick(index, {k \in FilesOf(index) : k < 1}) = <<>>
      BY <3>4, PickNothing
    <3>6. package'.items = Parsed(<<>>) /\ AllParse(<<>>)
      BY <3>1, EmptySequence, ParsedIs DEF AllParse
    <3> QED
      BY <1>2, <2>2, <3>1, <3>2, <3>3, <3>5, <3>6 DEF PackageInv
  <2> QED
    BY <2>1, <2>2
<1>5. OriginInv'
  <2>1. ASSUME NEW i \in 1..prefix', NEW q \in DOMAIN prefixes[i] \ {SkippedPackage},
               Finished(i, q)'
        PROVE  i \in 1..prefix /\ Finished(i, q)
    <3>1. CASE i < prefix
      BY <3>1 DEF Finished
    <3>2. CASE i = prefix
      <4>1. q \notin unread \ {p} /\ (package' # <<>> => package'.name # q)
        BY <1>2, <2>1, <3>2 DEF Finished
      <4>2. q # p
        <5>1. SUFFICES ASSUME q = p
                       PROVE  FALSE
          OBVIOUS
        <5>2. package' = [name |-> p, items |-> <<>>, next |-> 1] /\ package'.name = p
          BY <5>1
        <5>3. package' = <<>>
          BY <4>1, <5>1, <5>2
        <5>4. DOMAIN package' = {"name", "items", "next"} /\ DOMAIN package' = {}
          BY <5>2, <5>3, EmptySequence
        <5> QED
          BY <5>4
      <4> QED
        BY <1>2, <3>2, <4>1, <4>2 DEF Finished
    <3> QED
      BY <1>2, <3>1, <3>2
  <2>2. prefix \in Nat /\ prefix' \in Nat /\ prefix <= prefix'
    BY <1>2
  <2> QED
    BY <1>1, <2>1, <2>2, OriginsStay
<1>6. FirstPrefixWins'
  BY DEF FirstPrefixWins
<1>7. SourceInv'
  BY <1>1, SourceStays
<1>8. (phase = "generated" => ~EmitPanics)' /\ PanicsWithCause'
  BY Underway
<1> QED
  BY <1>3, <1>4, <1>5, <1>6, <1>7, <1>8 DEF GenInv

\* A line of the index adds its file to the open package, or ends the walk.
LEMMA ReadEntryInv ==
  ASSUME GenInv, ReadEntry
  PROVE  GenInv'
<1> DEFINE index == Index
           n == package.next
           entry == index[n]
           known == entry.ns \in DOMAIN Parts
           file == ParseFile(entry)
           taken == known /\ file.outcome = "ok"
           items == IF taken THEN Append(package.items, file.item) ELSE package.items
           Read(m) == {k \in FilesOf(index) : k < m}
<1>1. PlaceInv /\ PackageInv /\ OriginInv /\ SourceInv
  BY DEF GenInv, ReadEntry
<1>2. /\ package # <<>> /\ n <= Len(index)
      /\ package = [name |-> package.name, items |-> package.items, next |-> n]
      /\ package.name \in DOMAIN prefixes[prefix] \ {SkippedPackage}
      /\ n \in 1..(Len(index) + 1)
      /\ package.items = Parsed(Pick(index, Read(n))) /\ AllParse(Pick(index, Read(n)))
  BY <1>1 DEF PackageInv, ReadEntry
<1>3. /\ package' = [package EXCEPT !.next = n + 1, !.items = items]
      /\ phase' = IF known /\ file.outcome # "ok" THEN file.outcome ELSE phase
      /\ UNCHANGED <<prefixes, prefix, unread, packages>> /\ phase = "scan"
  BY DEF ReadEntry
<1>4. /\ Len(prefixes) \in Nat /\ prefix \in 0..Len(prefixes) /\ prefix \in DOMAIN prefixes
      /\ IsSequence(index) /\ index = prefixes[prefix][package.name]
  BY <1>1, <1>2, WorldIs DEF PlaceInv, Index
<1>5. Len(index) \in Nat /\ DOMAIN index = 1..Len(index) /\ n \in DOMAIN index
  BY <1>2, <1>4, SequenceIs
<1>6. known => /\ file.outcome \in Outcomes
               /\ file.outcome = "panicked" =>
                    \E b \in DOMAIN entry.blocks : \E line \in Range(entry.blocks[b]) :
                       line.form = "word"
  <2>1. ASSUME known
        PROVE  IsFile(entry)
    <3>1. entry \in Range(index) /\ prefixes \in Worlds
      BY <1>1, <1>5 DEF Range, PlaceInv
    <3> QED
      BY <1>2, <1>4, <2>1, <3>1, WorldIs
  <2> QED
    BY <2>1, ParseFileIs
<1>16. known => \E k \in DOMAIN FilesIn(prefix, package.name) :
                   FilesIn(prefix, package.name)[k] = entry
  <2>1. known => n \in FilesOf(prefixes[prefix][package.name])
    BY <1>4, <1>5 DEF FilesOf
  <2>2. prefixes \in Worlds
    BY <1>1 DEF PlaceInv
  <2> QED
    BY <1>2, <1>4, <2>1, <2>2, EntryIsIn
<1> HIDE DEF index, n, entry, file
<1>7. package' = [name |-> package.name, items |-> items, next |-> n + 1]
  <2> HIDE DEF items
  <2> QED
    BY <1>2, <1>3
<1>8. PlaceInv'
  <2>1. phase' \in {"scan", "failed", "panicked"}
    BY <1>3, <1>6 DEF Outcomes
  <2>2. prefix # 0
    BY <1>1, <1>2 DEF PlaceInv
  <2>3. package'.name = package.name /\ package # <<>>
    BY <1>2, <1>7
  <2> QED
    BY <1>1, <1>3, <2>1, <2>2, <2>3 DEF PlaceInv
<1>9. phase' = "scan" => (known <=> taken)
  BY <1>3, <1>6 DEF Outcomes
<1>10. ASSUME known <=> taken
       PROVE  PackageInv'
  <2>1. Index' = index
    BY <1>3, <1>4, <1>7 DEF Index
  <2>2. n + 1 \in 1..(Len(index) + 1)
    BY <1>2, <1>5
  <2>3. items = Parsed(Pick(index, Read(n + 1))) /\ AllParse(Pick(index, Read(n + 1)))
    <3>1. CASE known
      <4>1. n \in FilesOf(index)
        BY <1>5, <3>1 DEF FilesOf, entry
      <4>2. Read(n + 1) = Read(n) \cup {n}
        <5>1. \A k \in FilesOf(index) : k \in Nat
          BY <1>5 DEF FilesOf
        <5>2. \A k \in FilesOf(index) : k < n + 1 <=> k < n \/ k = n
          BY <1>5, <5>1
        <5> QED
          BY <4>1, <5>2
      <4>3. Read(n) \in SUBSET Nat /\ IsFiniteSet(Read(n)) /\ n \in Nat
        BY <1>4, <1>5, FilesAre
      <4>4. \A k \in Read(n) : k < n
        OBVIOUS
      <4> HIDE DEF Read
      <4>5. Pick(index, Read(n + 1)) = Append(Pick(index, Read(n)), entry)
        BY <4>2, <4>3, <4>4, PickOneMore DEF entry
      <4>6. IsSequence(Pick(index, Read(n)))
        BY <4>3, PickIs
      <4>7. items = Append(package.items, file.item)
        BY <1>10, <3>1
      <4>8. file.outcome = "ok" /\ file = ParseFile(entry)
        BY <1>10, <3>1 DEF file
      <4> QED
        BY <1>2, <4>5, <4>6, <4>7, <4>8, ParsedExtended
    <3>2. CASE ~known
      <4>1. n \notin FilesOf(index)
        BY <3>2 DEF FilesOf, entry
      <4>2. Read(n + 1) = Read(n)
        <5>1. \A k \in FilesOf(index) : k \in Nat /\ k # n
          BY <1>5, <4>1 DEF FilesOf
        <5>2. \A k \in FilesOf(index) : k < n + 1 <=> k < n
          BY <1>5, <5>1
        <5> QED
          BY <5>2
      <4> QED
        BY <1>2, <3>2, <4>2
    <3> QED
      BY <3>1, <3>2
  <2> HIDE DEF items, Read
  <2>4. package'.name = package.name /\ package'.items = items /\ package'.next = n + 1
    BY <1>7
  <2>5. package'.name \in DOMAIN prefixes'[prefix'] \ {SkippedPackage}
    BY <1>2, <1>3, <2>4
  <2>6. package' = [name |-> package'.name, items |-> package'.items, next |-> package'.next]
    BY <1>7, <2>4
  <2>7. /\ package'.next \in 1..(Len(Index') + 1)
        /\ package'.items = Parsed(Pick(Index', {k \in FilesOf(Index') : k < package'.next}))
        /\ AllParse(Pick(Index', {k \in FilesOf(Index') : k < package'.next}))
    BY <2>1, <2>2, <2>3, <2>4 DEF Read
  <2> QED
    BY <2>5, <2>6, <2>7 DEF PackageInv
<1>11. OriginInv'
  <2>1. package' # <<>> /\ package'.name = package.name
    <3>1. DOMAIN package' = {"name", "items", "next"}
      BY <1>7
    <3> QED
      BY <1>7, <3>1, EmptySequence
  <2>2. ASSUME NEW i \in 1..prefix', NEW q \in DOMAIN prefixes[i] \ {SkippedPackage},
               Finished(i, q)'
        PROVE  i \in 1..prefix /\ Finished(i, q)
    BY <1>3, <2>1, <2>2 DEF Finished
  <2>3. prefix \in Nat /\ prefix' \in Nat /\ prefix <= prefix'
    BY <1>3, <1>4
  <2> QED
    BY <1>1, <1>3, <2>2, <2>3, OriginsStay
<1>12. FirstPrefixWins'
  BY <1>3, <1>6 DEF FirstPrefixWins, Outcomes
<1>13. SourceInv'
  BY <1>1, <1>3, SourceStays
<1>14. CASE phase' \in {"scan", "failed"}
  BY <1>8, <1>9, <1>10, <1>11, <1>12, <1>13, <1>14, Underway DEF GenInv
<1>15. CASE phase' = "panicked"
  <2>1. known /\ file.outcome = "panicked"
    BY <1>3, <1>15
  <2>2. PICK k \in DOMAIN FilesIn(prefix, package.name) :
          FilesIn(prefix, package.name)[k] = entry
    BY <1>16, <2>1
  <2>3. PICK b \in DOMAIN entry.blocks : \E line \in Range(entry.blocks[b]) : line.form = "word"
    BY <1>6, <2>1
  <2>4. PICK line \in Range(entry.blocks[b]) : line.form = "word"
    BY <2>3
  <2>5. line \in LinesRead
    <3>1. prefixes \in Worlds
      BY <1>1 DEF PlaceInv
    <3> QED
      BY <1>4, <2>2, <2>4, <3>1, LineIsRead
  <2>6. PanicsWithCause'
    BY <1>3, <2>4, <2>5, SameLines DEF PanicsWithCause
  <2> QED
    BY <1>8, <1>12, <1>13, <1>15, <2>6 DEF GenInv
<1>18. phase' \in {"scan", "failed", "panicked"}
  BY <1>3, <1>6 DEF Outcomes
<1> QED
  BY <1>14, <1>15, <1>18

\* The package read to its end joins those that came before it.
LEMMA ClosePackageInv ==
  ASSUME GenInv, ClosePackage
  PROVE  GenInv'
<1> DEFINE n == Len(packages)
           last == [name |-> package.name, items |-> package.items]
           index == Index
<1>1. PlaceInv /\ PackageInv /\ OriginInv /\ SourceInv
  BY DEF GenInv, ClosePackage
<1>2. /\ package # <<>> /\ package.next > Len(index)
      /\ package.name \in DOMAIN prefixes[prefix] \ {SkippedPackage}
      /\ package.next \in 1..(Len(index) + 1)
      /\ LET files == Pick(index, {k \in FilesOf(index) : k < package.next})
         IN  package.items = Parsed(files) /\ AllParse(files)
  BY <1>1 DEF PackageInv, ClosePackage
<1>3. /\ packages' = Append(packages, last) /\ package' = <<>>
      /\ UNCHANGED <<prefixes, prefix, unread, phase>> /\ phase = "scan"
  BY DEF ClosePackage
<1>4. /\ Len(prefixes) \in Nat /\ prefix \in 1..Len(prefixes) /\ prefix \in DOMAIN prefixes
      /\ IsSequence(index) /\ index = prefixes[prefix][package.name]
  BY <1>1, <1>2, WorldIs DEF PlaceInv, Index
<1>5. Len(index) \in Nat /\ DOMAIN index = 1..Len(index)
  BY <1>4, SequenceIs
<1> HIDE DEF index
<1>6. PlaceInv'
  BY <1>1, <1>3 DEF PlaceInv
<1>7. PackageInv'
  BY <1>3 DEF PackageInv
<1>8. FirstPrefixWins'
  BY <1>3 DEF FirstPrefixWins
<1>9. ReadFrom(last, prefix)
  <2>1. {k \in FilesOf(index) : k < package.next} = FilesOf(index)
    <3>1. \A k \in FilesOf(index) : k < package.next
      BY <1>2, <1>5 DEF FilesOf
    <3> QED
      BY <3>1
  <2>2. FilesIn(prefix, package.name) = Pick(index, FilesOf(index))
    BY <1>2, <1>4 DEF FilesIn
  <2>3. last.name = package.name /\ last.items = package.items
    OBVIOUS
  <2> HIDE DEF last
  <2> QED
    BY <1>2, <2>1, <2>2, <2>3 DEF ReadFrom
<1>10. last.name = package.name
  OBVIOUS
<1> HIDE DEF last
<1>11. OriginInv'
  <2>1. IsSequence(packages) /\ n \in Nat /\ DOMAIN packages = 1..n
    BY <1>1, SequenceIs DEF OriginInv
  <2>2. PICK origin \in [DOMAIN packages -> 1..prefix] :
          /\ \A k \in DOMAIN packages : ReadFrom(packages[k], origin[k])
          /\ \A k, l \in DOMAIN packages : k <= l => origin[k] <= origin[l]
          /\ \A i \in 1..prefix : \A p \in DOMAIN prefixes[i] \ {SkippedPackage} :
               Finished(i, p) => \E k \in DOMAIN packages : origin[k] = i /\ packages[k].name = p
    BY <1>1 DEF OriginInv
  <2>3. /\ IsSequence(packages') /\ DOMAIN packages' = 1..(n + 1)
        /\ \A k \in 1..n : packages'[k] = packages[k]
        /\ packages'[n + 1] = last
    BY <1>3, <2>1, Extended
  <2> HIDE DEF n
  <2>4. \A k \in 1..(n + 1) : k \in 1..n \/ k = n + 1
    BY <2>1
  <2>5. PICK after \in [1..(n + 1) -> 1..prefix] :
          /\ \A k \in 1..n : k \in 1..(n + 1) /\ after[k] = origin[k]
          /\ n + 1 \in 1..(n + 1) /\ after[n + 1] = prefix
    <3> DEFINE after == [k \in 1..(n + 1) |-> IF k = n + 1 THEN prefix ELSE origin[k]]
    <3>1. \A k \in 1..n : k \in 1..(n + 1) /\ k # n + 1 /\ origin[k] \in 1..prefix
      BY <2>1, <2>2
    <3>2. after \in [1..(n + 1) -> 1..prefix]
      BY <1>4, <2>4, <3>1
    <3>3. \A k \in 1..n : k \in 1..(n + 1) /\ after[k] = origin[k]
      BY <3>1
    <3>4. n + 1 \in 1..(n + 1) /\ after[n + 1] = prefix
      BY <2>1
    <3> QED
      BY <3>2, <3>3, <3>4
  <2>6. after \in [DOMAIN packages' -> 1..prefix']
    BY <1>3, <2>3, <2>5
  <2>8. \A k \in DOMAIN packages' : ReadFrom(packages[k], after[k])'
    <3>1. \A k \in 1..(n + 1) : ReadFrom(packages'[k], after[k])
      BY <1>9, <2>1, <2>2, <2>3, <2>4, <2>5
    <3>2. \A k \in 1..(n + 1) : ReadFrom(packages[k], after[k])' <=> ReadFrom(packages'[k], after[k])
      BY <1>3 DEF ReadFrom, FilesIn
    <3> QED
      BY <2>3, <3>1, <3>2
  <2>9. ASSUME NEW k \in DOMAIN packages', NEW l \in DOMAIN packages', k <= l
        PROVE  after[k] <= after[l]
    <3>1. CASE l \in 1..n
      <4>1. k \in 1..n
        BY <2>1, <2>3, <2>9, <3>1
      <4> QED
        BY <2>1, <2>2, <2>5, <2>9, <3>1, <4>1
    <3>2. CASE l = n + 1
      <4>1. after[k] \in 1..prefix /\ after[l] = prefix
        BY <2>3, <2>5, <3>2
      <4> QED
        BY <1>4, <4>1
    <3> QED
      BY <2>3, <2>4, <3>1, <3>2
  <2>10. ASSUME NEW i \in 1..prefix', NEW p \in DOMAIN prefixes'[i] \ {SkippedPackage},
                Finished(i, p)'
         PROVE  \E k \in DOMAIN packages' : after[k] = i /\ packages'[k].name = p
    <3>1. i \in 1..prefix /\ (i < prefix \/ (i = prefix /\ p \notin unread))
      BY <1>3, <2>10 DEF Finished
    <3>2. CASE Finished(i, p)
      <4>1. PICK k \in DOMAIN packages : origin[k] = i /\ packages[k].name = p
        BY <1>3, <2>2, <3>1, <3>2
      <4> QED
        BY <2>1, <2>3, <2>5, <4>1
    <3>3. CASE ~Finished(i, p)
      <4>1. i = prefix /\ p = package.name
        BY <3>1, <3>3 DEF Finished
      <4> QED
        BY <1>10, <2>3, <2>5, <4>1
    <3> QED
      BY <3>2, <3>3
  <2> QED
    BY <2>3, <2>6, <2>8, <2>9, <2>10 DEF OriginInv
<1>12. SourceInv'
  <2>1. /\ DOMAIN packages = 1..n /\ DOMAIN packages' = 1..(n + 1) /\ n \in Nat
        /\ \A k \in 1..n : packages'[k] = packages[k]
        /\ packages'[n + 1] = last
    BY <1>1, <1>3, Extended, SequenceIs DEF OriginInv
  <2> HIDE DEF n
  <2>2. \A k \in 1..(n + 1) : k \in 1..n \/ k = n + 1
    BY <2>1
  <2>3. \A k \in 1..(n + 1) : \E i \in DOMAIN prefixes : ReadFrom(packages'[k], i)
    BY <1>1, <1>4, <1>9, <2>1, <2>2 DEF SourceInv
  <2>4. \A k, i : ReadFrom(packages[k], i)' <=> ReadFrom(packages'[k], i)
    BY <1>3 DEF ReadFrom, FilesIn
  <2> QED
    BY <1>3, <2>1, <2>3, <2>4 DEF SourceInv
<1>13. (phase = "generated" => ~EmitPanics)' /\ PanicsWithCause'
  BY <1>3, Underway
<1> QED
  BY <1>3, <1>6, <1>7, <1>8, <1>11, <1>12, <1>13 DEF GenInv

---------------------------------------------------------------------------
(***************************************************************************)
(* At the end of the walk: the filter, the sort and the removal of         *)
(* duplicates leave what FirstPrefixWins asks for.                         *)
(***************************************************************************)
NotEmpty == Pick(packages, {k \in DOMAIN packages : packages[k].items # <<>>})
Provided == {r \in DOMAIN PackageOrder : Providers(PackageOrder[r]) # {}}

WinnersIn(s) ==
  LET names == Pick(PackageOrder, Provided)
  IN  /\ [k \in DOMAIN s |-> s[k].name] = names
      /\ \A k \in DOMAIN s :
            Labels(s[k].items) = Labels(FilesIn(Min(Providers(names[k])), names[k]))

\* Among the packages that are not empty each name stands for the first time
\* where its first provider comes.
LEMMA NotEmptyIs ==
  ASSUME PlaceInv, OriginInv, Between, prefix = Len(prefixes)
  PROVE  /\ Named(NotEmpty)
         /\ \A k \in DOMAIN NotEmpty :
              LET p == NotEmpty[k].name
              IN  /\ \E i \in DOMAIN prefixes : ReadFrom(NotEmpty[k], i)
                  /\ Providers(p) # {}
                  /\ (\A l \in DOMAIN NotEmpty : NotEmpty[l].name = p => k <= l) =>
                       Labels(NotEmpty[k].items) = Labels(FilesIn(Min(Providers(p)), p))
         /\ \A p : Providers(p) # {} => \E k \in DOMAIN NotEmpty : NotEmpty[k].name = p
<1> DEFINE kept == {k \in DOMAIN packages : packages[k].items # <<>>}
           at == Positions(kept)
           n == Cardinality(kept)
           q == NotEmpty
<1>1. PICK origin \in [DOMAIN packages -> 1..prefix] :
        /\ \A k \in DOMAIN packages : ReadFrom(packages[k], origin[k])
        /\ \A k, l \in DOMAIN packages : k <= l => origin[k] <= origin[l]
        /\ \A i \in 1..prefix : \A p \in DOMAIN prefixes[i] \ {SkippedPackage} :
             Finished(i, p) => \E k \in DOMAIN packages : origin[k] = i /\ packages[k].name = p
  BY DEF OriginInv
<1>2. Len(packages) \in Nat /\ DOMAIN packages = 1..Len(packages)
  BY SequenceIs DEF OriginInv
<1>3. /\ prefix \in Nat /\ DOMAIN prefixes = 1..prefix /\ prefixes \in Worlds
      /\ \A i \in DOMAIN prefixes : DOMAIN prefixes[i] \subseteq Range(PackageOrder)
  BY WorldIs DEF PlaceInv
<1>4. kept \in SUBSET Nat /\ IsFiniteSet(kept)
  <2>1. kept \in SUBSET (1..Len(packages)) /\ IsFiniteSet(1..Len(packages))
    BY <1>2, FS_Interval
  <2> QED
    BY <2>1, FS_Subset
<1>5. \A k : k \in kept <=> k \in DOMAIN packages /\ packages[k].items # <<>>
  OBVIOUS
<1>6. q = Pick(packages, kept)
  BY DEF NotEmpty
<1> HIDE DEF kept, q
<1>7. /\ n \in Nat /\ \A k \in 1..n : at[k] \in kept
      /\ \A i \in kept : \E k \in 1..n : at[k] = i
      /\ \A k, l \in 1..n : k < l => at[k] < at[l]
  BY <1>4, PositionsAre
<1>8. IsSequence(q) /\ DOMAIN q = 1..n /\ \A k \in 1..n : q[k] = packages[at[k]]
  BY <1>4, <1>6, PickIs
<1> HIDE DEF at, n
\* What stands in a prefix, and which prefixes provide a package.
<1>9. ASSUME NEW i \in DOMAIN prefixes, NEW p
      PROVE  /\ IsSequence(FilesIn(i, p))
             /\ \A k \in DOMAIN FilesIn(i, p) :
                  FilesIn(i, p)[k].ns \in DOMAIN Parts /\ IsFile(FilesIn(i, p)[k])
  BY <1>3, FilesInAre
<1>10. ASSUME NEW k \in DOMAIN packages
       PROVE  /\ origin[k] \in DOMAIN prefixes
              /\ packages[k].name \in DOMAIN prefixes[origin[k]] \ {SkippedPackage}
              /\ ReadFrom(packages[k], origin[k])
              /\ Labels(packages[k].items) = Labels(FilesIn(origin[k], packages[k].name))
              /\ k \in kept <=> origin[k] \in Providers(packages[k].name)
  <2>1. ReadFrom(packages[k], origin[k]) /\ origin[k] \in DOMAIN prefixes
    BY <1>1, <1>3
  <2>2. /\ packages[k].name \in DOMAIN prefixes[origin[k]] \ {SkippedPackage}
        /\ packages[k].items = Parsed(FilesIn(origin[k], packages[k].name))
        /\ AllParse(FilesIn(origin[k], packages[k].name))
    BY <2>1 DEF ReadFrom
  <2>4. Labels(packages[k].items) = Labels(FilesIn(origin[k], packages[k].name))
    BY <1>9, <2>1, <2>2, LabelsParsed
  <2>3. packages[k].items = <<>> <=> FilesIn(origin[k], packages[k].name) = <<>>
    BY <1>9, <2>1, <2>2, ParsedIs
  <2> QED
    BY <1>5, <2>1, <2>2, <2>3, <2>4 DEF Providers
<1>11. ASSUME NEW p, NEW i \in Providers(p)
       PROVE  \E k \in kept : origin[k] = i /\ packages[k].name = p
  <2>1. i \in DOMAIN prefixes /\ FilesIn(i, p) # <<>>
    BY <1>11 DEF Providers
  <2>2. p \in DOMAIN prefixes[i] \ {SkippedPackage}
    BY <2>1 DEF FilesIn
  <2>3. Finished(i, p)
    BY <1>3, <2>1 DEF Finished, Between
  <2>4. PICK k \in DOMAIN packages : origin[k] = i /\ packages[k].name = p
    BY <1>1, <1>3, <2>1, <2>2, <2>3
  <2> QED
    BY <1>10, <2>4
<1>12. Named(q)
  <2>1. ASSUME NEW k \in DOMAIN q
        PROVE  q[k].name \in Range(PackageOrder)
    BY <1>3, <1>5, <1>7, <1>8, <1>10
  <2> QED
    BY <1>8, <2>1 DEF Named
<1>13. ASSUME NEW k \in DOMAIN q
       PROVE  Providers(q[k].name) # {} /\ \E i \in DOMAIN prefixes : ReadFrom(q[k], i)
  <2>1. at[k] \in kept /\ at[k] \in DOMAIN packages /\ q[k] = packages[at[k]]
    BY <1>5, <1>7, <1>8
  <2>2. /\ origin[at[k]] \in DOMAIN prefixes /\ ReadFrom(packages[at[k]], origin[at[k]])
        /\ origin[at[k]] \in Providers(packages[at[k]].name)
    BY <1>10, <2>1
  <2> QED
    BY <2>1, <2>2
<1>14. ASSUME NEW k \in DOMAIN q,
              \A l \in DOMAIN q : q[l].name = q[k].name => k <= l
       PROVE  Labels(q[k].items) = Labels(FilesIn(Min(Providers(q[k].name)), q[k].name))
  <2> DEFINE p == q[k].name
             m == at[k]
             S == Providers(p)
  <2>1. m \in kept /\ m \in DOMAIN packages /\ q[k] = packages[m]
    BY <1>5, <1>7, <1>8
  <2>2. origin[m] \in S
    BY <1>10, <2>1
  <2>3. ASSUME NEW i \in S
        PROVE  origin[m] <= i
    <3>1. PICK j \in kept : origin[j] = i /\ packages[j].name = p
      BY <1>11
    <3>2. PICK l \in 1..n : at[l] = j
      BY <1>7
    <3>3. q[l].name = p /\ l \in DOMAIN q
      BY <1>8, <3>1, <3>2
    <3>4. k <= l
      BY <1>14, <3>3
    <3>5. m <= j
      <4>1. k \in 1..n /\ m \in Nat /\ j \in Nat
        BY <1>4, <1>8, <2>1
      <4>2. k < l \/ k = l
        BY <1>7, <3>2, <3>4, <4>1
      <4> QED
        BY <1>7, <3>2, <4>1, <4>2
    <3> QED
      BY <1>1, <1>5, <2>1, <3>1, <3>5
  <2>4. S \in SUBSET Nat
    BY <1>3 DEF Providers
  <2>5. Min(S) = origin[m]
    <3> HIDE DEF S
    <3>1. Min(S) \in S /\ Min(S) <= origin[m]
      BY <2>2, <2>4, LeastOf
    <3>2. origin[m] <= Min(S)
      BY <2>3, <3>1
    <3>3. Min(S) \in Nat /\ origin[m] \in Nat
      BY <2>2, <2>4, <3>1
    <3> QED
      BY <3>1, <3>2, <3>3
  <2>6. Labels(packages[m].items) = Labels(FilesIn(origin[m], packages[m].name))
    BY <1>10, <2>1
  <2> QED
    BY <2>1, <2>5, <2>6
<1>15. ASSUME NEW p, Providers(p) # {}
       PROVE  \E k \in DOMAIN q : q[k].name = p
  <2>1. PICK i \in Providers(p) : TRUE
    BY <1>15
  <2>2. PICK j \in kept : packages[j].name = p
    BY <1>11, <2>1
  <2>3. PICK k \in 1..n : at[k] = j
    BY <1>7, <2>2
  <2> QED
    BY <1>8, <2>2, <2>3
<1> QED
  BY <1>12, <1>13, <1>14, <1>15 DEF q

\* What is left after filter, sort and dedup is what FirstPrefixWins asks for.
LEMMA WinnersAre ==
  ASSUME PlaceInv, OriginInv, Between, prefix = Len(prefixes)
  PROVE  LET d == DedupByName(SortByName(NotEmpty))
         IN  /\ WinnersIn(d)
             /\ \A k \in DOMAIN d : \E i \in DOMAIN prefixes : ReadFrom(d[k], i)
<1> DEFINE q == NotEmpty
           d == DedupByName(SortByName(q))
           at == [k \in DOMAIN d |-> Rank(d[k].name)]
           n == Len(d)
<1>1. /\ Named(q)
      /\ \A k \in DOMAIN q :
           /\ \E i \in DOMAIN prefixes : ReadFrom(q[k], i)
           /\ Providers(q[k].name) # {}
           /\ (\A l \in DOMAIN q : q[l].name = q[k].name => k <= l) =>
                Labels(q[k].items) = Labels(FilesIn(Min(Providers(q[k].name)), q[k].name))
      /\ \A p : Providers(p) # {} => \E k \in DOMAIN q : q[k].name = p
  BY NotEmptyIs
<1> HIDE DEF q
<1>2. /\ IsSequence(d)
      /\ \A k, l \in DOMAIN d : k < l => Rank(d[k].name) < Rank(d[l].name)
      /\ \A i \in DOMAIN q : \E k \in DOMAIN d : d[k].name = q[i].name
      /\ \A k \in DOMAIN d : \E i \in DOMAIN q :
           d[k] = q[i] /\ \A j \in DOMAIN q : q[j].name = q[i].name => i <= j
  BY <1>1, SortedOnce
<1> HIDE DEF d
<1>3. n \in Nat /\ DOMAIN d = 1..n
  BY <1>2, SequenceIs
<1>4. ASSUME NEW k \in DOMAIN d
      PROVE  /\ Providers(d[k].name) # {}
             /\ Labels(d[k].items) = Labels(FilesIn(Min(Providers(d[k].name)), d[k].name))
             /\ d[k].name \in Range(PackageOrder)
             /\ \E i \in DOMAIN prefixes : ReadFrom(d[k], i)
  <2>1. PICK i \in DOMAIN q :
          d[k] = q[i] /\ \A j \in DOMAIN q : q[j].name = q[i].name => i <= j
    BY <1>2
  <2> QED
    BY <1>1, <2>1 DEF Named
<1>5. Provided \in SUBSET Nat /\ IsFiniteSet(Provided)
  <2>1. IsFiniteSet(1..Len(PackageOrder)) /\ Provided \in SUBSET (1..Len(PackageOrder))
    BY RankIs, FS_Interval DEF Provided
  <2>2. Len(PackageOrder) \in Nat
    BY RankIs
  <2>3. IsFiniteSet(Provided)
    BY <2>1, FS_Subset
  <2> QED
    BY <2>1, <2>2, <2>3
<1>6. \A k \in DOMAIN d : at[k] \in Provided /\ PackageOrder[at[k]] = d[k].name
  BY <1>4, RankIs DEF Provided
<1>7. ASSUME NEW r \in Provided
      PROVE  \E k \in DOMAIN d : at[k] = r
  <2>1. r \in DOMAIN PackageOrder /\ Providers(PackageOrder[r]) # {}
    BY DEF Provided
  <2>2. PICK i \in DOMAIN q : q[i].name = PackageOrder[r]
    BY <1>1, <2>1
  <2>3. PICK k \in DOMAIN d : d[k].name = PackageOrder[r]
    BY <1>2, <2>2
  <2>4. Rank(d[k].name) = r
    BY <2>1, <2>3, RankIs
  <2> QED
    BY <2>4
<1>8. \A k, l \in DOMAIN d : k < l => at[k] < at[l]
  BY <1>2
<1>9. at \in [1..n -> Provided]
  BY <1>3, <1>6
<1> HIDE DEF at, n
<1>10. n = Cardinality(Provided) /\ at = Positions(Provided)
  <2>1. \A r \in Provided : \E k \in 1..n : at[k] = r
    BY <1>3, <1>7
  <2>2. \A k, l \in 1..n : k < l => at[k] < at[l]
    BY <1>3, <1>8
  <2> QED
    BY <1>3, <1>5, <1>9, <2>1, <2>2, OnlyPositions, Zenon
<1> DEFINE names == Pick(PackageOrder, Provided)
<1>11. names = [k \in 1..n |-> PackageOrder[at[k]]]
  BY <1>5, <1>10, PickIs
<1> HIDE DEF names
<1>12. [k \in DOMAIN d |-> d[k].name] = names
  BY <1>3, <1>6, <1>11
<1>13. \A k \in DOMAIN d : names[k] = d[k].name
  BY <1>3, <1>6, <1>11
<1>14. WinnersIn(d)
  BY <1>4, <1>12, <1>13 DEF WinnersIn, names
<1> QED
  BY <1>4, <1>14 DEF d, q

LEMMA GetPackagesInv ==
  ASSUME GenInv, GetPackages
  PROVE  GenInv'
<1>1. /\ Between /\ prefix = Len(prefixes)
      /\ packages' = DedupByName(SortByName(NotEmpty)) /\ phase' = "parsed"
      /\ UNCHANGED <<prefixes, prefix, unread, package>>
  BY DEF GetPackages, NotEmpty
<1>2. PlaceInv /\ PackageInv /\ OriginInv
  BY <1>1 DEF GenInv, Between
<1>3. PlaceInv'
  BY <1>1, <1>2 DEF PlaceInv
<1>4. /\ WinnersIn(packages')
      /\ \A k \in DOMAIN packages' : \E i \in DOMAIN prefixes : ReadFrom(packages'[k], i)
  BY <1>1, <1>2, WinnersAre
<1>5. FirstPrefixWins' <=> (phase' \in {"parsed", "generated"} => WinnersIn(packages)')
  BY DEF FirstPrefixWins, WinnersIn, Provided
<1>6. WinnersIn(packages)' <=> WinnersIn(packages')
  BY <1>1 DEF WinnersIn, Provided, Providers, FilesIn
<1>7. FirstPrefixWins'
  BY <1>4, <1>5, <1>6
<1>8. SourceInv'
  <2>1. \A k, i : ReadFrom(packages[k], i)' <=> ReadFrom(packages'[k], i)
    BY <1>1 DEF ReadFrom, FilesIn
  <2> QED
    BY <1>1, <1>4, <2>1 DEF SourceInv
<1>9. (phase = "generated" => ~EmitPanics)' /\ PanicsWithCause'
  BY <1>1, Underway
<1> QED
  BY <1>1, <1>3, <1>7, <1>8, <1>9 DEF GenInv

---------------------------------------------------------------------------
(***************************************************************************)
(* What is emitted comes from the lines of the files, and a value that     *)
(* value_tokens cannot write comes from a line that PanicsWithCause names. *)
(***************************************************************************)
LEMMA LineSays ==
  ASSUME NEW line, IsLine(line)
  PROVE  LET turn == ParseLine(line)
             v == CutComment(line.value)
         IN  /\ turn.result = "member" => line.form = "def" /\ turn.def \in MemberDef(line, v)
             /\ turn.result = "constant" => line.form = "def" /\ turn.def \in ConstantDef(line, v)
<1> DEFINE v == CutComment(line.value)
           constant == line.eq \/ Holds(v, "=")
           defs == IF constant THEN ConstantDef(line, v) ELSE MemberDef(line, v)
           turn == ParseLine(line)
<1>1. CASE line.form = "blank"
  BY <1>1 DEF ParseLine
<1>2. CASE line.form = "word"
  BY <1>2 DEF ParseLine
<1>3. CASE line.form = "def"
  <2>1. turn = IF defs = {} THEN [result |-> "failed"]
               ELSE [result |-> IF constant THEN "constant" ELSE "member",
                     def |-> CHOOSE d \in defs : TRUE]
    BY <1>3 DEF ParseLine
  <2>2. defs # {} => (CHOOSE d \in defs : TRUE) \in defs
    OBVIOUS
  <2>3. /\ constant => defs = ConstantDef(line, v)
        /\ ~constant => defs = MemberDef(line, v)
    OBVIOUS
  <2> HIDE DEF defs, constant, turn
  <2>4. /\ turn.result = "member" => turn.def \in MemberDef(line, v)
        /\ turn.result = "constant" => turn.def \in ConstantDef(line, v)
    <3>1. CASE defs = {}
      BY <2>1, <3>1
    <3>2. CASE defs # {} /\ constant
      BY <2>1, <2>2, <2>3, <3>2
    <3>3. CASE defs # {} /\ ~constant
      BY <2>1, <2>2, <2>3, <3>3
    <3> QED
      BY <3>1, <3>2, <3>3
  <2> QED
    BY <1>3, <2>4 DEF turn
<1> QED
  BY <1>1, <1>2, <1>3 DEF IsLine

\* Members and constants of a message come from lines of its file.
LEMMA MessageSays ==
  ASSUME NEW lines, IsSequence(lines), \A line \in Range(lines) : IsLine(line)
  PROVE  LET msg == ParseMessage(lines)
         IN  /\ \A i \in DOMAIN msg.members : \E line \in Range(lines) :
                  line.form = "def" /\ msg.members[i] \in MemberDef(line, CutComment(line.value))
             /\ \A i \in DOMAIN msg.constants : \E line \in Range(lines) :
                  line.form = "def" /\ msg.constants[i] \in ConstantDef(line, CutComment(line.value))
<1> DEFINE turns == [i \in DOMAIN lines |-> ParseLine(lines[i])]
           defs == [i \in DOMAIN turns |-> turns[i].def]
           Results(kind) == {i \in DOMAIN turns : turns[i].result \in {kind}}
           msg == ParseMessage(lines)
<1>1. msg.members = Pick(defs, Results("member")) /\ msg.constants = Pick(defs, Results("constant"))
  BY DEF ParseMessage, MessageOf
<1>2. Len(lines) \in Nat /\ DOMAIN lines = 1..Len(lines)
  BY SequenceIs
<1>3. ASSUME NEW kind, NEW k \in DOMAIN Pick(defs, Results(kind))
      PROVE  \E i \in DOMAIN lines : ParseLine(lines[i]).result = kind
                                     /\ Pick(defs, Results(kind))[k] = ParseLine(lines[i]).def
  <2> DEFINE kept == Results(kind)
  <2>1. kept \in SUBSET Nat /\ IsFiniteSet(kept)
    <3>1. kept \in SUBSET (1..Len(lines)) /\ IsFiniteSet(1..Len(lines))
      BY <1>2, FS_Interval
    <3>2. 1..Len(lines) \subseteq Nat
      OBVIOUS
    <3> HIDE DEF kept
    <3> QED
      BY <3>1, <3>2, FS_Subset
  <2>2. \A i \in kept : i \in DOMAIN lines /\ ParseLine(lines[i]).result = kind
                        /\ defs[i] = ParseLine(lines[i]).def
    OBVIOUS
  <2> HIDE DEF defs
  <2>3. k \in DOMAIN Pick(defs, kept)
    BY <1>3
  <2> HIDE DEF kept
  <2>4. /\ k \in 1..Cardinality(kept) /\ Pick(defs, kept)[k] = defs[Positions(kept)[k]]
        /\ Positions(kept)[k] \in kept
    BY <2>1, <2>3, PickIs, PositionsAre
  <2> QED
    BY <2>2, <2>4 DEF kept
<1> HIDE DEF defs, Results, msg
<1>4. ASSUME NEW i \in DOMAIN msg.members
      PROVE  \E line \in Range(lines) :
                line.form = "def" /\ msg.members[i] \in MemberDef(line, CutComment(line.value))
  <2>1. PICK j \in DOMAIN lines : /\ ParseLine(lines[j]).result = "member"
                                  /\ msg.members[i] = ParseLine(lines[j]).def
    BY <1>1, <1>3
  <2>2. lines[j] \in Range(lines)
    BY DEF Range
  <2> QED
    BY <2>1, <2>2, LineSays
<1>5. ASSUME NEW i \in DOMAIN msg.constants
      PROVE  \E line \in Range(lines) :
                line.form = "def" /\ msg.constants[i] \in ConstantDef(line, CutComment(line.value))
  <2>1. PICK j \in DOMAIN lines : /\ ParseLine(lines[j]).result = "constant"
                                  /\ msg.constants[i] = ParseLine(lines[j]).def
    BY <1>1, <1>3
  <2>2. lines[j] \in Range(lines)
    BY DEF Range
  <2> QED
    BY <2>1, <2>2, LineSays
<1> QED
  BY <1>4, <1>5 DEF msg

\* The file that item is parsed from.
ItemOf(item, f) ==
  /\ f.ns \in DOMAIN Parts /\ IsFile(f) /\ DOMAIN Parts[f.ns] = DOMAIN f.blocks
  /\ item = [ns |-> f.ns, name |-> f.name,
             msgs |-> [b \in DOMAIN Parts[f.ns] |-> ParseMessage(f.blocks[b])]]

\* Each item of a package is a file of it in the prefix it was read from.
LEMMA ItemsAre ==
  ASSUME prefixes \in Worlds, SourceInv, NEW k \in DOMAIN packages,
         NEW item \in Range(packages[k].items)
  PROVE  \E i \in DOMAIN prefixes : \E j \in DOMAIN FilesIn(i, packages[k].name) :
            ItemOf(item, FilesIn(i, packages[k].name)[j])
<1> DEFINE p == packages[k].name
<1>1. PICK i \in DOMAIN prefixes : ReadFrom(packages[k], i)
  BY DEF SourceInv
<1> DEFINE files == FilesIn(i, p)
<1>2. packages[k].items = Parsed(files) /\ AllParse(files)
  BY <1>1 DEF ReadFrom
<1>3. IsSequence(files) /\ \A j \in DOMAIN files : files[j].ns \in DOMAIN Parts /\ IsFile(files[j])
  BY FilesInAre
<1> HIDE DEF files
<1>4. PICK j \in DOMAIN Parsed(files) : item = Parsed(files)[j]
  BY <1>2 DEF Range
<1>5. j \in DOMAIN files /\ item = ParseFile(files[j]).item
  BY <1>4 DEF Parsed
<1>6. ParseFile(files[j]).outcome = "ok"
  BY <1>2, <1>5 DEF AllParse
<1>7. ItemOf(item, files[j])
  BY <1>3, <1>5, <1>6, ParseFileIs DEF ItemOf
<1> QED
  BY <1>5, <1>7 DEF files

LEMMA AllAreEmitted ==
  ASSUME NEW k \in DOMAIN packages, NEW item \in Range(packages[k].items)
  PROVE  ItemTypes(packages[k].name, item) \subseteq Emitted
<1>1. packages[k] \in Range(packages)
  BY DEF Range
<1> QED
  BY <1>1 DEF Emitted

LEMMA PartsHave ==
  /\ 1 \in DOMAIN Parts["msg"]
  /\ \A part \in {"Goal", "Result", "Feedback"} :
        \E b \in DOMAIN Parts["action"] : Parts["action"][b] = part
BY DEF Parts

LEMMA BlockIsEmitted ==
  ASSUME NEW k \in DOMAIN packages, NEW item \in Range(packages[k].items), NEW f, ItemOf(item, f),
         NEW b \in DOMAIN Parts[f.ns]
  PROVE  \E e \in Emitted : e.path = <<packages[k].name, f.ns, f.name, Parts[f.ns][b]>>
<1> DEFINE p == packages[k].name
           e == Definition(p, item, Parts[item.ns][b], item.msgs[b].members, item.msgs[b].constants)
<1>1. item.ns = f.ns /\ item.name = f.name /\ b \in DOMAIN item.msgs
  BY DEF ItemOf
<1>2. e \in ItemTypes(p, item)
  BY <1>1 DEF ItemTypes
<1>3. e \in Emitted
  BY <1>2, AllAreEmitted
<1>4. e.path = <<p, f.ns, f.name, Parts[f.ns][b]>>
  BY <1>1 DEF Definition
<1> QED
  BY <1>3, <1>4

\* What an emitted type is made of.
MadeFrom(d, p, f) ==
  \/ \E b \in DOMAIN f.blocks :
        /\ d.members = ParseMessage(f.blocks[b]).members
        /\ d.constants = ParseMessage(f.blocks[b]).constants
  \/ /\ f.ns = "action" /\ d.constants = <<>>
     /\ \E part \in DOMAIN ActionParts(p, f.name) : d.members = ActionParts(p, f.name)[part]

\* Each type emitted is made from a file that a prefix holds.
LEMMA EmittedIs ==
  ASSUME prefixes \in Worlds, SourceInv, NEW d \in Emitted
  PROVE  \E k \in DOMAIN packages : \E item \in Range(packages[k].items) :
           /\ d.path[1] = packages[k].name
           /\ \E i \in DOMAIN prefixes : \E j \in DOMAIN FilesIn(i, packages[k].name) :
                LET f == FilesIn(i, packages[k].name)[j]
                IN  ItemOf(item, f) /\ MadeFrom(d, packages[k].name, f)
<1>1. PICK k \in DOMAIN packages : \E item \in Range(packages[k].items) :
        d \in ItemTypes(packages[k].name, item)
  BY DEF Emitted, Range
<1>2. PICK item \in Range(packages[k].items) : d \in ItemTypes(packages[k].name, item)
  BY <1>1
<1> DEFINE p == packages[k].name
<1>3. PICK i \in DOMAIN prefixes : \E j \in DOMAIN FilesIn(i, p) : ItemOf(item, FilesIn(i, p)[j])
  BY ItemsAre
<1>4. PICK j \in DOMAIN FilesIn(i, p) : ItemOf(item, FilesIn(i, p)[j])
  BY <1>3
<1> DEFINE f == FilesIn(i, p)[j]
<1> HIDE DEF f, p
<1>5. ItemOf(item, f)
  BY <1>4 DEF f
<1>6. /\ item.ns = f.ns /\ item.name = f.name
      /\ DOMAIN item.msgs = DOMAIN f.blocks
      /\ \A b \in DOMAIN f.blocks : item.msgs[b] = ParseMessage(f.blocks[b])
  BY <1>5 DEF ItemOf
<1>7. d.path[1] = p /\ MadeFrom(d, p, f)
  <2>0. d \in ItemTypes(p, item)
    BY <1>2 DEF p
  <2>1. CASE \E b \in DOMAIN item.msgs :
               d = Definition(p, item, Parts[item.ns][b], item.msgs[b].members,
                              item.msgs[b].constants)
    <3>1. PICK b \in DOMAIN item.msgs :
            d = Definition(p, item, Parts[item.ns][b], item.msgs[b].members,
                           item.msgs[b].constants)
      BY <2>1
    <3> QED
      BY <1>6, <3>1 DEF Definition, MadeFrom
  <2>2. CASE item.ns = "action" /\ \E part \in DOMAIN ActionParts(p, item.name) :
               d = Definition(p, item, part, ActionParts(p, item.name)[part], <<>>)
    <3>1. PICK part \in DOMAIN ActionParts(p, item.name) :
            d = Definition(p, item, part, ActionParts(p, item.name)[part], <<>>)
      BY <2>2
    <3>2. d.path[1] = p /\ d.members = ActionParts(p, item.name)[part] /\ d.constants = <<>>
      BY <3>1 DEF Definition
    <3> QED
      BY <1>6, <2>2, <3>2 DEF MadeFrom
  <2> QED
    BY <2>0, <2>1, <2>2 DEF ItemTypes
<1> QED
  BY <1>4, <1>5, <1>7 DEF p, f

AllPartsEmitted(p, name) ==
  \A part \in {"Goal", "Result", "Feedback"} :
     \E e \in Emitted : e.path = <<p, "action", name, part>>

\* A member stands on a line, or is one that actions add.
\* Each member emitted is one that a line declares or one of the parts of an action.
LEMMA MemberIs ==
  ASSUME prefixes \in Worlds, SourceInv, NEW d \in Emitted, NEW m \in Range(d.members)
  PROVE  \/ \E line \in DefLines : IsDef(line) /\ m \in MemberDef(line, CutComment(line.value))
         \/ \E name : /\ \E part \in DOMAIN ActionParts(d.path[1], name) :
                            m \in Range(ActionParts(d.path[1], name)[part])
                       /\ AllPartsEmitted(d.path[1], name)
<1>1. PICK k \in DOMAIN packages : \E item \in Range(packages[k].items) :
           /\ d.path[1] = packages[k].name
           /\ \E i \in DOMAIN prefixes : \E j \in DOMAIN FilesIn(i, packages[k].name) :
                LET f == FilesIn(i, packages[k].name)[j]
                IN  ItemOf(item, f) /\ MadeFrom(d, packages[k].name, f)
  BY EmittedIs
<1> DEFINE p == packages[k].name
<1>5. PICK item \in Range(packages[k].items) :
        /\ d.path[1] = p
        /\ \E i \in DOMAIN prefixes : \E j \in DOMAIN FilesIn(i, p) :
             ItemOf(item, FilesIn(i, p)[j]) /\ MadeFrom(d, p, FilesIn(i, p)[j])
  BY <1>1
<1>6. PICK i \in DOMAIN prefixes : \E j \in DOMAIN FilesIn(i, p) :
        ItemOf(item, FilesIn(i, p)[j]) /\ MadeFrom(d, p, FilesIn(i, p)[j])
  BY <1>5
<1>2. PICK j \in DOMAIN FilesIn(i, p) :
        ItemOf(item, FilesIn(i, p)[j]) /\ MadeFrom(d, p, FilesIn(i, p)[j])
  BY <1>6
<1> DEFINE f == FilesIn(i, p)[j]
<1>3. CASE \E b \in DOMAIN f.blocks : d.members = ParseMessage(f.blocks[b]).members
  <2>1. PICK b \in DOMAIN f.blocks : d.members = ParseMessage(f.blocks[b]).members
    BY <1>3
  <2>2. IsSequence(f.blocks[b]) /\ \A line \in Range(f.blocks[b]) : IsLine(line)
    BY <1>2, <2>1 DEF ItemOf, IsFile, Range
  <2>3. PICK line \in Range(f.blocks[b]) :
          line.form = "def" /\ m \in MemberDef(line, CutComment(line.value))
    BY <2>1, <2>2, MessageSays DEF Range
  <2>4. line \in LinesRead
    BY <1>2, <2>1, <2>3, LineIsRead
  <2> QED
    BY <2>2, <2>3, <2>4 DEF DefLines, IsLine
<1>4. CASE f.ns = "action" /\ \E part \in DOMAIN ActionParts(p, f.name) : d.members = ActionParts(p, f.name)[part]
  <2>1. ASSUME NEW part \in {"Goal", "Result", "Feedback"}
        PROVE  \E e \in Emitted : e.path = <<p, "action", f.name, part>>
    <3>1. PICK b \in DOMAIN Parts["action"] : Parts["action"][b] = part
      BY PartsHave
    <3>2. b \in DOMAIN Parts[f.ns] /\ f.ns = "action"
      BY <1>4, <3>1
    <3> HIDE DEF f
    <3>3. ItemOf(item, f)
      BY <1>2 DEF f
    <3>4. PICK e \in Emitted : e.path = <<p, f.ns, f.name, Parts[f.ns][b]>>
      BY <3>2, <3>3, BlockIsEmitted
    <3> QED
      BY <3>1, <3>2, <3>4
  <2> QED
    BY <1>4, <1>5, <2>1 DEF AllPartsEmitted
<1> QED
  BY <1>2, <1>3, <1>4 DEF MadeFrom

\* Each constant emitted is one that a line declares.
LEMMA ConstantIs ==
  ASSUME prefixes \in Worlds, SourceInv, NEW d \in Emitted, NEW c \in Range(d.constants)
  PROVE  \E line \in DefLines : IsDef(line) /\ c \in ConstantDef(line, CutComment(line.value))
<1>1. PICK k \in DOMAIN packages : \E item \in Range(packages[k].items) :
           /\ d.path[1] = packages[k].name
           /\ \E i \in DOMAIN prefixes : \E j \in DOMAIN FilesIn(i, packages[k].name) :
                LET f == FilesIn(i, packages[k].name)[j]
                IN  ItemOf(item, f) /\ MadeFrom(d, packages[k].name, f)
  BY EmittedIs
<1> DEFINE p == packages[k].name
<1>8. PICK i \in DOMAIN prefixes : \E j \in DOMAIN FilesIn(i, p) :
        (\E item : ItemOf(item, FilesIn(i, p)[j])) /\ MadeFrom(d, p, FilesIn(i, p)[j])
  BY <1>1
<1>2. PICK j \in DOMAIN FilesIn(i, p) :
        (\E item : ItemOf(item, FilesIn(i, p)[j])) /\ MadeFrom(d, p, FilesIn(i, p)[j])
  BY <1>8
<1> DEFINE f == FilesIn(i, p)[j]
<1>3. \E b \in DOMAIN f.blocks : d.constants = ParseMessage(f.blocks[b]).constants
  <2>1. d.constants # <<>>
    BY EmptySequence DEF Range
  <2> QED
    BY <1>2, <2>1 DEF MadeFrom
<1>4. PICK b \in DOMAIN f.blocks : d.constants = ParseMessage(f.blocks[b]).constants
  BY <1>3
<1>5. IsSequence(f.blocks[b]) /\ \A line \in Range(f.blocks[b]) : IsLine(line)
  BY <1>2, <1>4 DEF ItemOf, IsFile, Range
<1>6. PICK line \in Range(f.blocks[b]) :
        line.form = "def" /\ c \in ConstantDef(line, CutComment(line.value))
  BY <1>4, <1>5, MessageSays DEF Range
<1>7. line \in LinesRead
  BY <1>2, <1>4, <1>6, LineIsRead
<1> QED
  BY <1>5, <1>6, <1>7 DEF DefLines, IsLine

\* The members that actions add: plain, without default, and naming another
\* message or a part of the action itself.
LEMMA ActionMembers ==
  ASSUME NEW p, NEW name, NEW part \in DOMAIN ActionParts(p, name),
         NEW m \in Range(ActionParts(p, name)[part])
  PROVE  /\ m.default = <<>>
         /\ \/ m.type.elem.kind = "basic"
            \/ m.type.elem = UuidType
            \/ m.type.elem = TimeType
            \/ \E res \in {"Goal", "Result", "Feedback"} :
                 m.type.elem = Reference(p, "action", name, res)
<1> DEFINE goal == Member("goal", Reference(p, "action", name, "Goal"))
           accepted == Member("accepted", [kind |-> "basic", of |-> "bool"])
           stamp == Member("stamp", TimeType)
           status == Member("status", [kind |-> "basic", of |-> "int8"])
           result == Member("result", Reference(p, "action", name, "Result"))
           feedback == Member("feedback", Reference(p, "action", name, "Feedback"))
           parts == ActionParts(p, name)
<1>1. /\ parts.SendGoalRequest = <<GoalId, goal>>
      /\ parts.SendGoalResponse = <<accepted, stamp>>
      /\ parts.GetResultRequest = <<GoalId>>
      /\ parts.GetResultResponse = <<status, result>>
      /\ parts.FeedbackMessage = <<GoalId, feedback>>
      /\ DOMAIN parts = {"SendGoalRequest", "SendGoalResponse", "GetResultRequest",
                         "GetResultResponse", "FeedbackMessage"}
  BY DEF ActionParts, TimeType
<1> HIDE DEF parts, goal, accepted, stamp, status, result, feedback
<1>2. m \in {GoalId, goal, accepted, stamp, status, result, feedback}
  <2>1. \A a, b : Range(<<a, b>>) = {a, b} /\ Range(<<a>>) = {a}
    BY DEF Range
  <2>2. part \in DOMAIN parts /\ m \in Range(parts[part])
    BY DEF parts
  <2> HIDE DEF GoalId
  <2> QED
    BY <1>1, <2>1, <2>2
<1>3. \A n, e : Member(n, e).default = <<>> /\ Member(n, e).type.elem = e
  BY DEF Member, Plain
<1>4. m.default = <<>>
  <2>1. \E n, e : m = Member(n, e)
    BY <1>2 DEF goal, accepted, stamp, status, result, feedback, GoalId
  <2> QED
    BY <1>3, <2>1
<1>5. CASE m \in {accepted, status}
  <2>1. \A t : [kind |-> "basic", of |-> t].kind = "basic"
    OBVIOUS
  <2>2. m.type.elem = [kind |-> "basic", of |-> "bool"] \/ m.type.elem = [kind |-> "basic", of |-> "int8"]
    BY <1>3, <1>5 DEF accepted, status
  <2> QED
    BY <1>4, <2>1, <2>2
<1>6. CASE m = GoalId
  BY <1>3, <1>4, <1>6 DEF GoalId, UuidType
<1>7. CASE m = stamp
  BY <1>3, <1>4, <1>7 DEF stamp
<1>8. CASE m \in {goal, result, feedback}
  <2>1. CASE m = goal
    BY <1>3, <1>4, <2>1 DEF goal
  <2>2. CASE m = result
    BY <1>3, <1>4, <2>2 DEF result
  <2>3. CASE m = feedback
    BY <1>3, <1>4, <2>3 DEF feedback
  <2> QED
    BY <1>8, <2>1, <2>2, <2>3
<1> QED
  BY <1>2, <1>5, <1>6, <1>7, <1>8

\* A value that is parsed for a basic type is a literal of the file.
LEMMA BasicLiteralIs ==
  ASSUME NEW t \in DOMAIN Bits \cup FloatTypes \cup {"bool"}, NEW v, NEW w \in BasicLiteral(t, v)
  PROVE  /\ t \in DOMAIN Bits => w = v /\ v.lit = "int" /\ w.val \in IntRange(t)
         /\ t \in FloatTypes => w = v
         /\ t = "bool" => w.val = v.val /\ w.lit = "bool"
         /\ w.lit = "float" => t \in FloatTypes /\ w = v
<1>1. DOMAIN Bits \cap FloatTypes = {} /\ "bool" \notin DOMAIN Bits \cup FloatTypes
  BY DEF Bits, FloatTypes
<1>2. CASE t \in DOMAIN Bits
  <2>1. w \in IntegerLiteral(t, v)
    BY <1>2 DEF BasicLiteral
  <2>2. w = v /\ v.lit = "int" /\ v.val \in IntRange(t)
    BY <2>1 DEF IntegerLiteral
  <2> QED
    BY <1>1, <1>2, <2>2
<1>3. CASE t \in FloatTypes
  <2>1. w = v
    BY <1>1, <1>3 DEF BasicLiteral
  <2> QED
    BY <1>1, <1>3, <2>1
<1>4. CASE t = "bool"
  <2>1. w.val = v.val /\ w.lit = "bool"
    BY <1>1, <1>4 DEF BasicLiteral
  <2> QED
    BY <1>1, <1>4, <2>1
<1> QED
  BY <1>2, <1>3, <1>4

LEMMA StringLiteralIs ==
  ASSUME NEW max, NEW v, NEW w \in StringLiteral(max, v)
  PROVE  /\ w.lit = "text" /\ w.chars = Spelling(v)
         /\ max # Unbounded => Len(w.chars) <= max
<1> HIDE DEF Spelling
<1>1. w = Text(Spelling(v)) /\ (max = Unbounded \/ Len(Spelling(v)) <= max)
  BY DEF StringLiteral
<1> QED
  BY <1>1 DEF Text

\* Only a float that is not finite or, among the constants, an array of texts
\* of the wrong size has no tokens.
LEMMA FloatIsWritten ==
  ASSUME NEW line, IsDef(line), NEW e, NEW k \in DOMAIN e,
         e \in ValidateDefault(line.type, CutComment(line.value))
               \cup ValidateValue(line.type, CutComment(line.value)),
         e[k].lit = "float", ~e[k].finite
  PROVE  /\ line.type.elem.kind = "basic" /\ line.type.elem.of \in FloatTypes
         /\ \E i \in DOMAIN Items(line.value) :
               Items(line.value)[i].lit = "float" /\ ~Items(line.value)[i].finite
<1> DEFINE type == line.type
           elem == type.elem
           v == CutComment(line.value)
<1>1. v = line.value \/ v.lit \in {"broken", "text", "none"}
  BY CutCommentIs
<1>2. v.lit = "list" => IsSequence(v.items)
  BY <1>1 DEF IsDef
<1>3. /\ elem.kind \in {"basic", "string"}
      /\ type.seq # "none" => v.lit = "list"
      /\ DOMAIN e = DOMAIN Literals(type, v)
      /\ e[k] \in LiteralValues(type, Literals(type, v)[k])
  BY <1>2, ValuesAre
<1> DEFINE w == Literals(type, v)[k]
<1>4. elem.kind = "basic" /\ e[k] \in BasicLiteral(elem.of, w)
  <2>1. CASE elem.kind = "string"
    <3>1. e[k].lit = "text"
      BY <1>3, <2>1, StringLiteralIs DEF LiteralValues
    <3> QED
      BY <3>1
  <2> QED
    BY <1>3, <2>1 DEF LiteralValues
<1>5. elem.of \in FloatTypes /\ e[k] = w
  BY <1>4, BasicLiteralIs DEF IsDef
<1>6. w.lit = "float" /\ ~w.finite
  BY <1>5
<1>7. CASE type.seq = "none"
  <2>1. Literals(type, v) = <<v>> /\ DOMAIN <<v>> = {1} /\ <<v>>[1] = v
    BY <1>7 DEF Literals
  <2>2. k = 1 /\ w = v
    BY <1>3, <2>1
  <2>3. v = line.value
    BY <1>1, <1>6, <2>2
  <2>4. Items(line.value) = <<v>>
    BY <1>6, <2>2, <2>3 DEF Items
  <2> QED
    BY <1>4, <1>5, <1>6, <2>1, <2>2, <2>4
<1>8. CASE type.seq # "none"
  <2>1. v.lit = "list" /\ v = line.value
    BY <1>1, <1>3, <1>8
  <2>2. Literals(type, v) = Items(line.value)
    BY <1>8, <2>1 DEF Literals
  <2> QED
    BY <1>3, <1>4, <1>5, <1>6, <2>2
<1> QED
  BY <1>7, <1>8

\* A default that value_tokens cannot write is an infinity or NaN.
LEMMA DefaultIsWritten ==
  ASSUME NEW line, IsDef(line), NEW m \in MemberDef(line, CutComment(line.value)), m.default # <<>>,
         ~ValuesFit(m.type, m.default)
  PROVE  /\ line.type.elem.kind = "basic" /\ line.type.elem.of \in FloatTypes
         /\ \E i \in DOMAIN Items(line.value) :
               Items(line.value)[i].lit = "float" /\ ~Items(line.value)[i].finite
<1> DEFINE type == line.type
           v == CutComment(line.value)
           e == m.default
<1>1. m.type = type /\ e \in ValidateDefault(type, v)
  BY DEF MemberDef
<1>2. v = line.value \/ v.lit \in {"broken", "text", "none"}
  BY CutCommentIs
<1>3. v.lit = "list" => IsSequence(v.items)
  BY <1>2 DEF IsDef
<1> HIDE DEF v, e
<1>4. type.seq = "none" => Len(e) = 1
  BY <1>1, <1>3, ValuesAre
<1>5. /\ type.seq = "array"   => Len(e) = type.size
      /\ type.seq = "bounded" => Len(e) <= type.size
  BY <1>1 DEF ValidateDefault
<1>6. PICK k \in DOMAIN e : e[k].lit = "float" /\ ~e[k].finite
  BY <1>1, <1>4, <1>5 DEF ValuesFit, e
<1> QED
  BY <1>1, <1>6, FloatIsWritten DEF v

\* A constant it cannot write is one of those, or texts of a wrong number.
LEMMA ConstantIsWritten ==
  ASSUME NEW line, IsDef(line), NEW c \in ConstantDef(line, CutComment(line.value)),
         ~ValuesFit(c.type, c.value)
  PROVE  \/ /\ line.upper /\ line.type.seq = "array" /\ line.type.elem.kind = "string"
            /\ line.value.lit = "list" /\ Len(line.value.items) # line.type.size
         \/ /\ line.type.elem.kind = "basic" /\ line.type.elem.of \in FloatTypes
            /\ \E i \in DOMAIN Items(line.value) :
                  Items(line.value)[i].lit = "float" /\ ~Items(line.value)[i].finite
<1> DEFINE type == line.type
           v == CutComment(line.value)
           e == c.value
<1>1. /\ c.type = type /\ e \in ValidateValue(type, v) /\ ConstantTypeParses(type)
      /\ line.upper
  BY DEF ConstantDef
<1>2. v = line.value \/ v.lit \in {"broken", "text", "none"}
  BY CutCommentIs
<1>3. v.lit = "list" => IsSequence(v.items)
  BY <1>2 DEF IsDef
<1> HIDE DEF v, e
<1>4. /\ type.seq = "none" => Len(e) = 1
      /\ type.seq # "none" => v.lit = "list" /\ Len(e) = Len(Literals(type, v))
      /\ type.elem.kind \in {"basic", "string"}
  BY <1>1, <1>3, ValuesAre
<1>5. type.seq \in {"none", "array"}
  BY <1>1 DEF ConstantTypeParses
<1>6. type.seq = "array" => type.elem.kind = "string" \/ Len(e) = type.size
  BY <1>1 DEF ValidateValue
<1>7. CASE type.seq = "array" /\ Len(e) # type.size
  <2>1. v.lit = "list" /\ v = line.value /\ Len(e) = Len(line.value.items)
    BY <1>2, <1>4, <1>7 DEF Literals, Items
  <2> QED
    BY <1>1, <1>6, <1>7, <2>1
<1>8. CASE ~(type.seq = "array" /\ Len(e) # type.size)
  <2>1. PICK k \in DOMAIN e : e[k].lit = "float" /\ ~e[k].finite
    BY <1>1, <1>4, <1>5, <1>8 DEF ValuesFit, e
  <2> QED
    BY <1>1, <2>1, FloatIsWritten DEF v
<1> QED
  BY <1>7, <1>8

\* The token streams are made unless one of those values stops them.
LEMMA EmitInv ==
  ASSUME GenInv, Emit
  PROVE  GenInv'
<1>1. /\ phase = "parsed" /\ phase' = IF EmitPanics THEN "panicked" ELSE "generated"
      /\ UNCHANGED <<prefixes, prefix, unread, package, packages>>
  BY DEF Emit
<1>2. PlaceInv /\ SourceInv /\ FirstPrefixWins /\ prefixes \in Worlds
  BY DEF GenInv, PlaceInv
<1>3. PlaceInv' /\ SourceInv'
  BY <1>1, <1>2, SourceStays DEF PlaceInv
<1>4. FirstPrefixWins'
  <2>1. FirstPrefixWins' <=> (phase' \in {"parsed", "generated"} => WinnersIn(packages)')
    BY DEF FirstPrefixWins, WinnersIn, Provided
  <2>2. FirstPrefixWins <=> (phase \in {"parsed", "generated"} => WinnersIn(packages))
    BY DEF FirstPrefixWins, WinnersIn, Provided
  <2>3. WinnersIn(packages)' <=> WinnersIn(packages)
    BY <1>1 DEF WinnersIn, Provided, Providers, FilesIn
  <2> QED
    BY <1>1, <1>2, <2>1, <2>2, <2>3
<1>5. EmitPanics' <=> EmitPanics
  BY <1>1 DEF EmitPanics, Emitted
<1>6. ASSUME EmitPanics
      PROVE  PanicsWithCause'
  <2>1. PICK d \in Emitted :
          \/ \E i \in DOMAIN d.constants : ~ValuesFit(d.constants[i].type, d.constants[i].value)
          \/ \E i \in DOMAIN d.members :
               d.members[i].default # <<>> /\ ~ValuesFit(d.members[i].type, d.members[i].default)
    BY <1>6 DEF EmitPanics
  <2>2. CASE \E i \in DOMAIN d.constants : ~ValuesFit(d.constants[i].type, d.constants[i].value)
    <3>1. PICK c \in Range(d.constants) : ~ValuesFit(c.type, c.value)
      BY <2>2 DEF Range
    <3>2. PICK line \in DefLines : IsDef(line) /\ c \in ConstantDef(line, CutComment(line.value))
      BY <1>2, ConstantIs
    <3>3. line \in DefLines'
      BY <1>1, SameLines
    <3> QED
      BY <3>1, <3>2, <3>3, ConstantIsWritten DEF PanicsWithCause
  <2>3. CASE \E i \in DOMAIN d.members :
               d.members[i].default # <<>> /\ ~ValuesFit(d.members[i].type, d.members[i].default)
    <3>1. PICK m \in Range(d.members) : m.default # <<>> /\ ~ValuesFit(m.type, m.default)
      BY <2>3 DEF Range
    <3>2. PICK line \in DefLines : IsDef(line) /\ m \in MemberDef(line, CutComment(line.value))
      <4>1. ASSUME NEW name, NEW part \in DOMAIN ActionParts(d.path[1], name),
                   m \in Range(ActionParts(d.path[1], name)[part])
            PROVE  FALSE
        <5>1. m.default = <<>>
          BY <4>1, ActionMembers
        <5> QED
          BY <3>1, <5>1
      <4> QED
        BY <1>2, <4>1, MemberIs
    <3>3. line \in DefLines'
      BY <1>1, SameLines
    <3> QED
      BY <3>1, <3>2, <3>3, DefaultIsWritten DEF PanicsWithCause
  <2> QED
    BY <2>1, <2>2, <2>3
<1>7. (phase = "generated" => ~EmitPanics)' /\ (~EmitPanics => PanicsWithCause')
  BY <1>1, <1>5 DEF PanicsWithCause
<1>8. phase' # "scan"
  BY <1>1
<1> QED
  BY <1>3, <1>4, <1>6, <1>7, <1>8 DEF GenInv

LEMMA GenStutterInv ==
  ASSUME GenInv, UNCHANGED genVars
  PROVE  GenInv'
<1> USE DEF genVars
<1>1. PlaceInv' <=> PlaceInv
  BY DEF PlaceInv
<1>2. SourceInv => SourceInv'
  BY SourceStays
<1>3. PackageInv' <=> PackageInv
  BY DEF PackageInv, Index
<1>4. PlaceInv /\ OriginInv => OriginInv'
  <2>1. SUFFICES ASSUME PlaceInv, OriginInv
                 PROVE  OriginInv'
    OBVIOUS
  <2>2. prefix \in Nat
    BY <2>1, WorldIs DEF PlaceInv
  <2> QED
    BY <2>1, <2>2, OriginsStay DEF Finished
<1>5. FirstPrefixWins' <=> FirstPrefixWins
  <2>1. FirstPrefixWins' <=> (phase' \in {"parsed", "generated"} => WinnersIn(packages)')
    BY DEF FirstPrefixWins, WinnersIn, Provided
  <2>2. FirstPrefixWins <=> (phase \in {"parsed", "generated"} => WinnersIn(packages))
    BY DEF FirstPrefixWins, WinnersIn, Provided
  <2>3. WinnersIn(packages)' <=> WinnersIn(packages)
    BY DEF WinnersIn, Provided, Providers, FilesIn
  <2> QED
    BY <2>1, <2>2, <2>3
<1>6. EmitPanics' <=> EmitPanics
  BY DEF EmitPanics, Emitted
<1>7. PanicsWithCause' <=> PanicsWithCause
  BY SameLines DEF PanicsWithCause
<1> QED
  BY <1>1, <1>2, <1>3, <1>4, <1>5, <1>6, <1>7 DEF GenInv

\* Every step of the generator keeps the invariant.
LEMMA GenNextInv == GenInv /\ [GenNext]_genVars => GenInv'
BY OpenPrefixInv, OpenPackageInv, ReadEntryInv, ClosePackageInv, GetPackagesInv, EmitInv,
   GenStutterInv DEF GenNext

---------------------------------------------------------------------------
(***************************************************************************)
(* What the invariant says of the generated code.                          *)
(***************************************************************************)
LEMMA TypesAre == GenInv => GenTypeOK
<1> SUFFICES ASSUME GenInv
             PROVE  GenTypeOK
  OBVIOUS
<1>1. \A k \in DOMAIN packages : packages[k].name \in Range(PackageOrder)
  BY WorldIs DEF GenInv, PlaceInv, SourceInv, ReadFrom
<1>2. prefix > 0 => unread \subseteq DOMAIN prefixes[prefix]
  BY WorldIs DEF GenInv, PlaceInv
<1> QED
  BY <1>1, <1>2 DEF GenInv, PlaceInv, GenTypeOK

LEMMA SingletonIs == \A v : IsSequence(<<v>>)
<1>1. \A v : <<v>> \in Seq({v}) /\ Range(<<v>>) = {v}
  BY DEF Range
<1> QED
  BY <1>1 DEF IsSequence

LEMMA NoBlank ==
  ASSUME NEW v
  PROVE  \/ Holds(v, " ")
         \/ \A i \in DOMAIN Items(v) : Items(v)[i].lit = "text" => Blankless(Items(v)[i].chars)
BY Zenon DEF Holds, Blankless

\* A literal without a blank in a text is the value, character by character.
LEMMA SameValueIs ==
  ASSUME NEW type, NEW v, IsSequence(Items(v)),
         \A i \in DOMAIN Items(v) :
           Items(v)[i].lit = "text" => /\ IsSequence(Items(v)[i].chars)
                                       /\ Blankless(Items(v)[i].chars),
         type.elem.kind = "basic" => type.elem.of \in DOMAIN Bits \cup FloatTypes \cup {"bool"},
         type.elem.kind \in {"basic", "string"},
         NEW k \in DOMAIN Literals(type, v), NEW e \in LiteralValues(type, Literals(type, v)[k])
  PROVE  SameValue(type.elem, Literals(type, v)[k], e)
<1> DEFINE elem == type.elem
           w == Literals(type, v)[k]
<1>1. CASE elem.kind = "basic"
  <2>1. e \in BasicLiteral(elem.of, w)
    BY <1>1 DEF LiteralValues
  <2>2. /\ elem.of = "bool" => e.val = w.val
        /\ elem.of # "bool" => e = w
    BY <1>1, <2>1, BasicLiteralIs
  <2> QED
    BY <1>1, <2>2 DEF SameValue
<1>2. CASE elem.kind = "string"
  <2>1. e.chars = Spelling(w)
    BY <1>2, StringLiteralIs DEF LiteralValues
  <2>2. w.lit = "text" => Spelling(w) = w.chars
    <3>1. SUFFICES ASSUME w.lit = "text"
                   PROVE  Spelling(w) = w.chars
      OBVIOUS
    <3>2. \E i \in DOMAIN Items(v) : w = Items(v)[i]
      <4>1. CASE type.seq = "none"
        <5>1. Literals(type, v) = <<v>> /\ DOMAIN <<v>> = {1} /\ <<v>>[1] = v
          BY <4>1 DEF Literals
        <5>2. w = v
          BY <5>1
        <5>3. Items(v) = <<v>>
          BY <3>1, <5>2 DEF Items
        <5> QED
          BY <5>1, <5>2, <5>3
      <4>2. CASE type.seq # "none"
        BY <4>2 DEF Literals
      <4> QED
        BY <4>1, <4>2
    <3>3. IsSequence(w.chars) /\ Blankless(w.chars)
      BY <3>1, <3>2
    <3>4. Trim(w.chars) = w.chars
      BY <3>3, TrimNoBlank
    <3> QED
      BY <3>1, <3>4 DEF Spelling
  <2>3. e.chars = IF w.lit = "text" THEN w.chars ELSE Spelling(w)
    BY <2>1, <2>2
  <2> QED
    BY <1>2, <2>3 DEF SameValue
<1> QED
  BY <1>1, <1>2

\* Defaults are of their type and declared by a line.
LEMMA DefaultsAreFit == GenInv => DefaultsFit
<1> SUFFICES ASSUME GenInv, phase = "generated"
             PROVE  DefaultsFit
  BY DEF DefaultsFit
<1>1. SourceInv /\ prefixes \in Worlds /\ ~EmitPanics
  BY DEF GenInv, PlaceInv
<1>2. ASSUME NEW d \in Emitted, NEW m \in Range(d.members), m.default # <<>>
      PROVE  FitsItsType(m) /\ AsDeclared(m)
  <2> DEFINE type == m.type
             elem == type.elem
             e == m.default
             Same(line) ==
               /\ Len(Literals(type, line.value)) = Len(e)
               /\ \A k \in DOMAIN e : SameValue(elem, Literals(type, line.value)[k], e[k])
             Known(t) == \A k \in DOMAIN Items(t) : Items(t)[k].lit = "text" =>
                           IsSequence(Items(t)[k].chars) /\ Blankless(Items(t)[k].chars)
  <2>1. e # <<>>
    BY <1>2
  <2>2. ASSUME NEW name, NEW part \in DOMAIN ActionParts(d.path[1], name)
        PROVE  m \notin Range(ActionParts(d.path[1], name)[part])
    BY <2>1, ActionMembers
  <2>3. PICK line \in DefLines : IsDef(line) /\ m \in MemberDef(line, CutComment(line.value))
    BY <1>1, <2>1, <2>2, MemberIs
  <2> DEFINE v == CutComment(line.value)
  <2>4. line.name = m.name /\ line.type = type /\ e \in ValidateDefault(type, v)
    BY <2>1, <2>3 DEF MemberDef
  <2>5. v = line.value \/ (Holds(line.value, "#") /\ v.lit \in {"broken", "text", "none"})
    BY CutCommentIs
  <2>6. v.lit = "list" => IsSequence(v.items)
    BY <2>3, <2>5 DEF IsDef
  <2>7. /\ elem.kind \in {"basic", "string"}
        /\ Len(e) = Len(Literals(type, v)) /\ DOMAIN e = DOMAIN Literals(type, v)
        /\ \A k \in DOMAIN e : e[k] \in LiteralValues(type, Literals(type, v)[k])
    BY <2>4, <2>6, ValuesAre
  <2>8. elem.kind = "basic" => elem.of \in DOMAIN Bits \cup FloatTypes \cup {"bool"}
    BY <2>3, <2>4 DEF IsDef
  <2>9. FitsItsType(m)
    <3>1. ValuesFit(type, e)
      BY <1>1, <2>1 DEF EmitPanics, Range
    <3>2. ASSUME elem.kind = "basic", elem.of \in DOMAIN Bits, NEW k \in DOMAIN e
          PROVE  e[k].val \in IntRange(elem.of)
      <4>1. e[k] \in BasicLiteral(elem.of, Literals(type, v)[k])
        BY <2>7, <3>2 DEF LiteralValues
      <4> QED
        BY <3>2, <4>1, BasicLiteralIs
    <3>3. ASSUME elem.kind = "string", elem.max # Unbounded, type.seq = "none", NEW k \in DOMAIN e
          PROVE  Len(e[k].chars) <= elem.max
      <4>1. e[k] \in StringLiteral(elem.max, Literals(type, v)[k])
        BY <2>7, <3>3 DEF LiteralValues
      <4> QED
        BY <3>3, <4>1, StringLiteralIs
    <3> HIDE DEF e
    <3> QED
      BY <3>1, <3>2, <3>3 DEF e, FitsItsType
  <2>11. ASSUME ~Holds(line.value, "#"), Known(line.value)
         PROVE  Same(line)
    <3>1. v = line.value
      BY <2>5, <2>11
    <3> HIDE DEF v
    <3>2. IsSequence(Items(v))
      <4>1. v.lit # "list" => Items(v) = <<v>>
        BY DEF Items
      <4>2. IsSequence(<<v>>)
        BY SingletonIs
      <4> QED
        BY <2>6, <4>1, <4>2 DEF Items
    <3>3. \A k \in DOMAIN e : SameValue(elem, Literals(type, v)[k], e[k])
      BY <2>7, <2>8, <2>11, <3>1, <3>2, SameValueIs
    <3> QED
      BY <2>7, <3>1, <3>3
  <2>12. Known(line.value) \/ Altered(line.value)
    <3>1. \/ Altered(line.value)
          \/ \A k \in DOMAIN Items(line.value) :
                Items(line.value)[k].lit = "text" => Blankless(Items(line.value)[k].chars)
      BY NoBlank, Zenon DEF Altered
    <3> QED
      BY <2>3, <3>1 DEF IsDef
  <2>13. Holds(line.value, "#") => Altered(line.value)
    BY Zenon DEF Altered
  <2>14. Same(line) \/ Altered(line.value)
    <3> HIDE DEF Known, Same
    <3> QED
      BY <2>11, <2>12, <2>13
  <2>15. AsDeclared(m)
    BY <2>4, <2>14 DEF AsDeclared
  <2> QED
    BY <2>9, <2>15
<1> QED
  BY <1>2 DEF DefaultsFit

---------------------------------------------------------------------------
(***************************************************************************)
(* A path that no emitted type has is that of a message, and the first     *)
(* prefix with its package does not hold it.                               *)
(***************************************************************************)
MessagePath(q, name) == <<q, "msg", name, Parts["msg"][1]>>

LEMMA MessagePathIs ==
  \A q, name : /\ MessagePath(q, name)[1] = q /\ MessagePath(q, name)[2] = "msg"
               /\ MessagePath(q, name)[3] = name
<1>1. \A a, b, c, e : <<a, b, c, e>>[1] = a /\ <<a, b, c, e>>[2] = b /\ <<a, b, c, e>>[3] = c
  OBVIOUS
<1> QED
  BY <1>1, Zenon DEF MessagePath

IsMessageType(elem) ==
  elem.kind = "named" \/ (elem.kind = "namespaced" /\ elem.ns = "msg" /\ elem.part = "")

LEMMA PathIs ==
  ASSUME NEW p, NEW elem, IsMessageType(elem)
  PROVE  \E q, name : Path(p, elem) = MessagePath(q, name)
<1>1. Parts["msg"][1] = ""
  BY DEF Parts
<1>2. CASE elem.kind = "named"
  BY <1>1, <1>2, Zenon DEF Path, MessagePath
<1>3. CASE elem.kind = "namespaced" /\ elem.ns = "msg" /\ elem.part = ""
  BY <1>1, <1>3, Zenon DEF Path, MessagePath
<1> QED
  BY <1>2, <1>3, Zenon DEF IsMessageType

\* What the first prefix with a package holds is emitted.
LEMMA FirstHasIt ==
  ASSUME GenInv, phase = "generated", NEW q, NEW name, Providers(q) # {},
         Defined(Min(Providers(q)), MessagePath(q, name))
  PROVE  \E e \in Emitted : e.path = MessagePath(q, name)
<1> DEFINE first == Min(Providers(q))
           names == Pick(PackageOrder, Provided)
<1>1. /\ prefixes \in Worlds /\ SourceInv
      /\ [k \in DOMAIN packages |-> packages[k].name] = names
      /\ \A k \in DOMAIN packages :
            Labels(packages[k].items) = Labels(FilesIn(Min(Providers(names[k])), names[k]))
  BY DEF GenInv, PlaceInv, FirstPrefixWins, Provided
<1>2. q \in Range(PackageOrder)
  <2>1. PICK i \in DOMAIN prefixes : FilesIn(i, q) # <<>>
    BY DEF Providers
  <2>2. q \in DOMAIN prefixes[i]
    BY <2>1 DEF FilesIn
  <2> QED
    BY <1>1, <2>2, WorldIs
<1>3. Provided \in SUBSET Nat /\ IsFiniteSet(Provided)
  <2>1. IsFiniteSet(1..Len(PackageOrder)) /\ Provided \in SUBSET (1..Len(PackageOrder))
    BY RankIs, FS_Interval DEF Provided
  <2>2. Len(PackageOrder) \in Nat
    BY RankIs
  <2>3. IsFiniteSet(Provided)
    BY <2>1, FS_Subset
  <2> QED
    BY <2>1, <2>2, <2>3
<1>4. PICK r \in Provided : PackageOrder[r] = q
  BY <1>2 DEF Provided, Range
<1>5. PICK k \in DOMAIN packages : packages[k].name = q /\ names[k] = q
  <2>1. PICK k \in 1..Cardinality(Provided) : Positions(Provided)[k] = r
    BY <1>3, PositionsAre
  <2>2. k \in DOMAIN names /\ names[k] = q
    BY <1>3, <1>4, <2>1, PickIs
  <2> HIDE DEF names
  <2> QED
    BY <1>1, <2>2
<1>6. Labels(packages[k].items) = Labels(FilesIn(first, q))
  BY <1>1, <1>5
<1>7. PICK j \in DOMAIN FilesIn(first, q) :
        FilesIn(first, q)[j].ns = "msg" /\ FilesIn(first, q)[j].name = name
  BY MessagePathIs DEF Defined
<1>8. j \in DOMAIN packages[k].items /\ Labels(packages[k].items)[j] = <<"msg", name>>
  <2> HIDE DEF first, names
  <2> QED
    BY <1>6, <1>7 DEF Labels
<1>9. packages[k].items[j].ns = "msg" /\ packages[k].items[j].name = name
  BY <1>8 DEF Labels
<1> DEFINE item == packages[k].items[j]
<1>10. item \in Range(packages[k].items)
  BY <1>8 DEF Range
<1>11. PICK f : ItemOf(item, f)
  BY <1>1, <1>10, ItemsAre
<1>12. f.ns = "msg" /\ f.name = name
  BY <1>9, <1>11 DEF ItemOf
<1> HIDE DEF item
<1>13. PICK e \in Emitted : e.path = <<packages[k].name, f.ns, f.name, Parts[f.ns][1]>>
  <2>1. 1 \in DOMAIN Parts[f.ns]
    BY <1>12, PartsHave
  <2>2. PICK b \in DOMAIN Parts[f.ns] : b = 1
    BY <2>1
  <2>3. \E e \in Emitted : e.path = <<packages[k].name, f.ns, f.name, Parts[f.ns][b]>>
    BY <1>10, <1>11, BlockIsEmitted
  <2> QED
    BY <2>2, <2>3
<1> QED
  BY <1>5, <1>12, <1>13 DEF MessagePath

\* A message that some prefix defines, and that is not emitted, is not in the
\* first prefix that has its package.
\* A message that a prefix holds and nobody emits is shadowed by an earlier prefix.
LEMMA NotFirst ==
  ASSUME GenInv, phase = "generated", NEW q, NEW name,
         \A e \in Emitted : e.path # MessagePath(q, name),
         NEW l \in DOMAIN prefixes, Defined(l, MessagePath(q, name))
  PROVE  \E k \in Providers(q) : ~Defined(k, MessagePath(q, name)) /\ l > k
<1>1. prefixes \in Worlds
  BY DEF GenInv, PlaceInv
<1>2. DOMAIN prefixes \subseteq Nat
  BY <1>1, WorldIs
<1>3. l \in Providers(q)
  BY MessagePathIs, EmptySequence DEF Defined, Providers
<1>4. Min(Providers(q)) \in Providers(q) /\ Min(Providers(q)) <= l
  <2>1. Providers(q) \in SUBSET Nat
    BY <1>2 DEF Providers
  <2> QED
    BY <1>3, <2>1, LeastOf
<1>5. ~Defined(Min(Providers(q)), MessagePath(q, name))
  BY <1>3, FirstHasIt
<1>6. Min(Providers(q)) \in Nat /\ l \in Nat
  BY <1>2, <1>4 DEF Providers
<1> QED
  BY <1>4, <1>5, <1>6

\* A reference that finds no type is to what no prefix has or to what is shadowed.
LEMMA ReferencesAreFound == GenInv => ReferencesResolve
<1> DEFINE Explained(d, m) ==
             LET elem == m.type.elem
                 path == Path(d.path[1], elem)
             IN  \/ /\ \A k \in DOMAIN prefixes : ~Defined(k, path)
                    /\ \/ elem \in {UuidType, TimeType}
                       \/ \E line \in DefLines : line.name = m.name /\ line.type.elem = elem
                 \/ \E k \in Providers(path[1]) :
                       ~Defined(k, path) /\ \E l \in DOMAIN prefixes : l > k /\ Defined(l, path)
<1>1. ASSUME GenInv, phase = "generated", NEW d \in Emitted, NEW m \in Range(d.members),
             Refers(m.type.elem), \A e \in Emitted : e.path # Path(d.path[1], m.type.elem)
      PROVE  Explained(d, m)
  <2> DEFINE elem == m.type.elem
             path == Path(d.path[1], elem)
  <2>1. SourceInv /\ prefixes \in Worlds
    BY <1>1 DEF GenInv, PlaceInv
  <2>2. /\ elem \in {UuidType, TimeType} \/ \E line \in DefLines : line.name = m.name /\ line.type.elem = elem
        /\ \E q, name : path = MessagePath(q, name)
    <3>1. CASE \E line \in DefLines : IsDef(line) /\ m \in MemberDef(line, CutComment(line.value))
      <4>1. PICK line \in DefLines : IsDef(line) /\ m \in MemberDef(line, CutComment(line.value))
        BY <3>1
      <4>2. m.name = line.name /\ m.type = line.type
        BY <4>1 DEF MemberDef
      <4>3. elem.kind \in {"named", "namespaced"}
        BY <1>1 DEF Refers
      <4>4. IsMessageType(elem)
        BY <4>1, <4>2, <4>3, Zenon DEF IsDef, IsMessageType
      <4>5. \E q, name : path = MessagePath(q, name)
        BY <4>4, PathIs
      <4> QED
        BY <4>1, <4>2, <4>5
    <3>2. CASE \E name :
                 /\ \E part \in DOMAIN ActionParts(d.path[1], name) :
                       m \in Range(ActionParts(d.path[1], name)[part])
                 /\ AllPartsEmitted(d.path[1], name)
      <4>1. elem \in {UuidType, TimeType} => \E q, name : path = MessagePath(q, name)
        <5>1. IsMessageType(UuidType) /\ IsMessageType(TimeType)
          BY DEF UuidType, TimeType, Reference, IsMessageType
        <5> QED
          BY <5>1, PathIs
      <4>2. elem \in {UuidType, TimeType}
        <5>1. PICK name : /\ \E part \in DOMAIN ActionParts(d.path[1], name) :
                               m \in Range(ActionParts(d.path[1], name)[part])
                          /\ AllPartsEmitted(d.path[1], name)
          BY <3>2
        <5>2. elem.kind # "basic"
          BY <1>1 DEF Refers
        <5>3. ASSUME NEW of \in {"Goal", "Result", "Feedback"},
                     elem = Reference(d.path[1], "action", name, of)
              PROVE  FALSE
          <6>1. path = <<d.path[1], "action", name, of>>
            BY <5>3 DEF Path, Reference
          <6> QED
            BY <1>1, <5>1, <6>1 DEF AllPartsEmitted
        <5> QED
          BY <5>1, <5>2, <5>3, ActionMembers
      <4> QED
        BY <4>1, <4>2
    <3> QED
      BY <2>1, <3>1, <3>2, MemberIs
  <2>3. PICK q, name : path = MessagePath(q, name)
    BY <2>2
  <2>4. path[1] = q
    BY <2>3, MessagePathIs
  <2> HIDE DEF path, elem
  <2>5. CASE \E l \in DOMAIN prefixes : Defined(l, path)
    <3>1. PICK l \in DOMAIN prefixes : Defined(l, path)
      BY <2>5
    <3>2. \A e \in Emitted : e.path # path
      BY <1>1 DEF path, elem
    <3>3. \E k \in Providers(path[1]) : ~Defined(k, path) /\ l > k
      BY <1>1, <2>3, <2>4, <3>1, <3>2, NotFirst
    <3> QED
      BY <3>1, <3>3 DEF path, elem
  <2>6. CASE \A l \in DOMAIN prefixes : ~Defined(l, path)
    BY <2>2, <2>6 DEF path, elem
  <2> QED
    BY <2>5, <2>6
<1> QED
  BY <1>1 DEF ReferencesResolve

\* Both halves of GeneratorFaithful.
LEMMA GeneratorIsFaithful == GenInv => GeneratorFaithful
BY DefaultsAreFit DEF GeneratorFaithful, GenInv

=============================================================================
