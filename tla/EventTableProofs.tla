--------------------------- MODULE EventTableProofs --------------------------
(***************************************************************************)
(* What the queries of EventTable return, for every table, cursor and      *)
(* limit.                                                                  *)
(***************************************************************************)
EXTENDS EventTable, FiniteSetTheorems, WellFoundedInduction, TLAPS

-----------------------------------------------------------------------------
(* A set of naturals that is not empty has a least element, and Least is it. *)
LEMMA LeastExists ==
  ASSUME NEW S \in SUBSET Nat, S # {}
  PROVE  Least(S) \in S /\ \A j \in S : Least(S) <= j
<1>. DEFINE below == {0..x : x \in S}
<1>1. below \subseteq FiniteSubsetsOf(Nat) /\ below # {}
  <2>1. ASSUME NEW x \in S  PROVE 0..x \subseteq Nat /\ IsFiniteSet(0..x)
    BY FS_Interval
  <2>. QED
    BY <2>1, Zenon DEF FiniteSubsetsOf
<1>2. \E T \in below : \A U \in below : ~ (<<U, T>> \in StrictSubsetOrdering(Nat))
  BY <1>1, WFMin, FS_StrictSubsetOrderingWellFounded, Zenon
<1>3. PICK x \in S : \A y \in S : ~ (<<0..y, 0..x>> \in StrictSubsetOrdering(Nat))
  BY <1>2, Zenon
<1>4. ASSUME NEW y \in S, y < x  PROVE FALSE
  <2>1. 0..y \subseteq 0..x /\ 0..y # 0..x
    <3>1. x \in 0..x /\ x \notin 0..y /\ 0..y \subseteq 0..x
      BY <1>4
    <3>. QED
      BY <3>1, Zenon
  <2>2. <<0..y, 0..x>> \in (SUBSET Nat) \X (SUBSET Nat)
    BY SMT
  <2>3. <<0..y, 0..x>> \in StrictSubsetOrdering(Nat)
    BY <2>1, <2>2, SMT DEF StrictSubsetOrdering
  <2>. QED
    BY <1>3, <2>3, <1>4, Zenon
<1>5. \A y \in S : x <= y
  BY <1>4
<1>. QED
  BY <1>5 DEF Least

(* On a buffer without holes, the trim keeps those of its ids among the    *)
(* last `keep` ever assigned.                                              *)
LEMMA TrimmedInterval ==
  ASSUME NEW lo \in Nat, NEW hi \in Nat, NEW keep \in Nat
  PROVE  Trimmed(lo..hi, keep) = {i \in lo..hi : i > hi - keep}
<1>1. ASSUME NEW i \in lo..hi
      PROVE  Cardinality({j \in lo..hi : j > i}) = hi - i
  <2>1. {j \in lo..hi : j > i} = (i + 1)..hi
    BY <1>1
  <2>2. Cardinality((i + 1)..hi) = hi - i
    <3>1. i + 1 \in Int /\ hi \in Int /\ i <= hi
      BY <1>1
    <3>2. Cardinality((i + 1)..hi) = IF i + 1 > hi THEN 0 ELSE hi - (i + 1) + 1
      BY <3>1, FS_Interval, Zenon
    <3>. QED
      BY <3>1, <3>2
  <2>. QED
    BY <2>1, <2>2, Zenon
<1>2. ASSUME NEW i \in lo..hi
      PROVE  Cardinality({j \in lo..hi : j > i}) < keep <=> i > hi - keep
  BY <1>1
<1>. QED
  BY <1>2 DEF Trimmed, Newest

(* A batch has no holes: a row between two of its rows is in it as well.   *)
LEMMA BatchDense ==
  ASSUME NEW ids \in SUBSET Nat, IsFiniteSet(ids), NEW last \in Nat, NEW limit \in Nat,
         NEW j \in RowsAfter(ids, last, limit),
         NEW i \in ids, last < i, i < j
  PROVE  i \in RowsAfter(ids, last, limit)
<1>. DEFINE P(n) == {k \in ids : last < k /\ k < n}
<1>1. IsFiniteSet(P(j))
  BY FS_Subset
<1>2. P(i) \subseteq P(j)
  <2>1. j \in Nat /\ i \in Nat
    BY DEF RowsAfter
  <2>2. ASSUME NEW k \in ids, last < k, k < i  PROVE k < j
    <3>1. k \in Nat
      BY <2>2
    <3>. QED
      BY <2>1, <2>2, <3>1
  <2>. QED
    BY <2>2, Zenon
<1>3. /\ Cardinality(P(i)) <= Cardinality(P(j))
      /\ Cardinality(P(i)) \in Nat /\ Cardinality(P(j)) \in Nat
  BY <1>1, <1>2, FS_Subset, FS_CardinalityType
<1>4. Cardinality(P(j)) < limit
  BY DEF RowsAfter
<1>5. Cardinality(P(i)) < limit
  BY <1>3, <1>4
<1>. QED
  BY <1>5 DEF RowsAfter

(* What a poll makes of a finite table: the rows after last_id up to some  *)
(* row, and at least one if there is any.                                  *)
LEMMA BatchReads ==
  ASSUME NEW n \in Nat, NEW ids \in SUBSET (1..n), NEW last \in Nat, NEW limit \in Nat \ {0}
  PROVE  /\ RowsAfter(ids, last, limit) \subseteq ids
         /\ \A i \in RowsAfter(ids, last, limit) : last < i
         /\ \A i \in ids, j \in RowsAfter(ids, last, limit) :
              last < i /\ i <= j => i \in RowsAfter(ids, last, limit)
         /\ RowsAfter(ids, last, limit) = {} => \A i \in ids : i <= last
<1>1. ids \in SUBSET Nat /\ IsFiniteSet(ids)
  <2>1. IsFiniteSet(1..n) /\ ids \in SUBSET (1..n)
    BY FS_Interval
  <2>2. IsFiniteSet(ids)
    BY <2>1, FS_Subset, Zenon
  <2>. QED
    BY <2>2
<1>2. /\ RowsAfter(ids, last, limit) \subseteq ids
      /\ \A i \in RowsAfter(ids, last, limit) : last < i
  BY DEF RowsAfter
<1>3. ASSUME NEW i \in ids, NEW j \in RowsAfter(ids, last, limit), last < i, i <= j
      PROVE  i \in RowsAfter(ids, last, limit)
  <2>1. i \in Nat /\ j \in Nat
    BY <1>1, <1>2
  <2>2. i = j \/ i < j
    BY <1>3, <2>1
  <2>. QED
    BY <1>1, <1>3, <2>2, BatchDense
<1>4. ASSUME NEW i \in ids, ~(i <= last)  PROVE RowsAfter(ids, last, limit) # {}
  <2>. DEFINE S == {k \in ids : last < k}
  <2>1. S \in SUBSET Nat /\ S # {}
    <3>1. i \in S
      BY <1>1, <1>4
    <3>. QED
      BY <1>1, <3>1
  <2>2. PICK m \in S : \A k \in S : m <= k
    BY <2>1, LeastExists
  <2>3. {k \in ids : last < k /\ k < m} = {}
    <3>1. ASSUME NEW k \in ids, last < k, k < m  PROVE FALSE
      <4>1. k \in S /\ k \in Nat /\ m \in Nat
        BY <1>1, <3>1
      <4>. QED
        BY <2>2, <3>1, <4>1
    <3>. QED
      BY <3>1
  <2>4. Cardinality({k \in ids : last < k /\ k < m}) = 0
    BY <2>3, FS_EmptySet
  <2>. QED
    BY <2>2, <2>4 DEF RowsAfter
<1>5. RowsAfter(ids, last, limit) = {} => \A i \in ids : i <= last
  BY <1>4, Zenon
<1>. QED
  BY <1>2, <1>3, <1>5, Zenon
=============================================================================
