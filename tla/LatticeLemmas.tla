--------------------------- MODULE LatticeLemmas ---------------------------
(***************************************************************************)
(* Facts about the operators of Lattice: what Reachable marks and what     *)
(* Compact leaves of used_list_, for every set of addresses.               *)
(***************************************************************************)
EXTENDS Lattice, FiniteSetTheorems, TLAPS

-----------------------------------------------------------------------------
(* Marking *)

\* In a lattice without dangling pointers the roots are marked, and whatever a
\* marked state points back to; only allocated states are.
LEMMA ReachableClosed ==
  ASSUME NEW roots \in SUBSET Used,
         \A y \in Used : BackPointers(y) \subseteq Used
  PROVE  /\ Reachable(roots) \subseteq Used
         /\ roots \subseteq Reachable(roots)
         /\ \A y \in Reachable(roots) : BackPointers(y) \subseteq Reachable(roots)
<1>1. Reachable(roots) \subseteq Used /\ roots \subseteq Reachable(roots)
  BY DEF Reachable
<1>2. ASSUME NEW y \in Reachable(roots), NEW x \in BackPointers(y)
      PROVE  x \in Reachable(roots)
  BY <1>1, <1>2 DEF Reachable
<1>3. QED
  BY <1>1, <1>2

\* Nothing else is marked: any closed set that holds the roots holds the marks.
LEMMA ReachableLeast ==
  ASSUME NEW roots, NEW C \in SUBSET Used, roots \subseteq C,
         \A y \in C : BackPointers(y) \subseteq C
  PROVE  Reachable(roots) \subseteq C
  BY DEF Reachable

-----------------------------------------------------------------------------
(* Ranks *)

LEMMA RankType ==
  ASSUME NEW s, NEW M, NEW i \in Int
  PROVE  /\ IsFiniteSet({j \in 1 .. i : s[j] \in M})
         /\ Rank(s, M, i) \in Nat
<1>1. IsFiniteSet(1 .. i)
  BY FS_Interval
<1>2. IsFiniteSet({j \in 1 .. i : s[j] \in M})
  BY <1>1, FS_Subset
<1>3. QED
  BY <1>2, FS_CardinalityType DEF Rank

LEMMA RankNat ==
  ASSUME NEW s, NEW M, NEW i \in Int
  PROVE  Rank(s, M, i) \in Nat
  BY RankType

\* A member of M raises the rank above that of every earlier position.
LEMMA RankStrict ==
  ASSUME NEW s, NEW M, NEW i \in Nat, NEW k \in Nat, i < k, s[k] \in M
  PROVE  Rank(s, M, i) < Rank(s, M, k)
<1> DEFINE P(n) == {j \in 1 .. n : s[j] \in M}
<1>1. /\ IsFiniteSet(P(i)) /\ Rank(s, M, i) = Cardinality(P(i))
      /\ IsFiniteSet(P(k)) /\ Rank(s, M, k) = Cardinality(P(k))
      /\ Rank(s, M, i) \in Nat /\ Rank(s, M, k) \in Nat
  BY RankType DEF Rank
<1>2. P(i) \in SUBSET P(k) /\ k \in P(k) /\ k \notin P(i)
  OBVIOUS
<1>3. Cardinality(P(i)) <= Cardinality(P(k)) /\ Cardinality(P(i)) # Cardinality(P(k))
  <2> HIDE DEF P
  <2> QED BY <1>1, <1>2, FS_Subset
<1>4. QED
  BY <1>1, <1>3

LEMMA RankMonotone ==
  ASSUME NEW s, NEW M, NEW i \in Nat, NEW k \in Nat, i <= k
  PROVE  Rank(s, M, i) <= Rank(s, M, k)
<1> DEFINE P(n) == {j \in 1 .. n : s[j] \in M}
<1>1. IsFiniteSet(P(k)) /\ Rank(s, M, i) = Cardinality(P(i)) /\ Rank(s, M, k) = Cardinality(P(k))
  <2>1. IsFiniteSet(P(k))
    BY RankType
  <2>2. QED
    BY <2>1 DEF Rank
<1>2. P(i) \in SUBSET P(k)
  OBVIOUS
<1>3. QED
  <2> HIDE DEF P
  <2> QED BY <1>1, <1>2, FS_Subset

\* Every rank from 1 to the last is that of exactly one position.
LEMMA RankBijection ==
  ASSUME NEW s, NEW M, NEW n \in Nat
  PROVE  /\ \A i \in 1 .. n : s[i] \in M => Rank(s, M, i) \in 1 .. Rank(s, M, n)
         /\ \A k \in 1 .. Rank(s, M, n) :
              \E i \in 1 .. n : s[i] \in M /\ Rank(s, M, i) = k
         /\ \A i, j \in 1 .. n :
              s[i] \in M /\ s[j] \in M /\ Rank(s, M, i) = Rank(s, M, j) => i = j
<1> DEFINE P == {j \in 1 .. n : s[j] \in M}
           m == Rank(s, M, n)
           f == [i \in P |-> Rank(s, M, i)]
<1>1. m \in Nat /\ m = Cardinality(P) /\ IsFiniteSet(P)
  <2>1. m \in Nat /\ IsFiniteSet(P)
    <3>1. m \in Nat
      BY RankNat
    <3>2. IsFiniteSet(1 .. n) /\ P \in SUBSET (1 .. n)
      BY FS_Interval
    <3>3. IsFiniteSet(P)
      <4> HIDE DEF P
      <4> QED BY <3>2, FS_Subset
    <3>4. QED
      BY <3>1, <3>3
  <2>2. m = Cardinality(P)
    BY DEF Rank
  <2>3. QED
    BY <2>1, <2>2
<1>2. Rank(s, M, 0) \in Nat
  BY RankNat
<1>3. ASSUME NEW i \in P PROVE Rank(s, M, i) \in 1 .. m
  <2>1. Rank(s, M, 0) < Rank(s, M, i)
    BY RankStrict
  <2>2. Rank(s, M, i) <= m
    BY RankMonotone
  <2>3. Rank(s, M, i) \in Nat
    BY RankNat
  <2>4. QED
    BY <2>1, <2>2, <2>3, <1>1, <1>2
<1>4. ASSUME NEW i \in P, NEW j \in P, Rank(s, M, i) = Rank(s, M, j) PROVE i = j
  <2>1. Rank(s, M, i) \in Nat
    BY RankNat
  <2>2. ~(i < j) /\ ~(j < i)
    BY <2>1, <1>4, RankStrict
  <2>3. QED
    BY <2>2
<1>5. f \in Injection(P, 1 .. m)
  BY <1>3, <1>4 DEF Injection, IsInjective
<1>6. IsFiniteSet(1 .. m) /\ Cardinality(1 .. m) = m
  BY <1>1, FS_Interval
<1>7. f \in Surjection(P, 1 .. m)
  <2> HIDE DEF f, P, m
  <2> QED BY <1>1, <1>5, <1>6, FS_Injection
<1>8. \A k \in 1 .. m : \E i \in P : Rank(s, M, i) = k
  BY <1>7 DEF Surjection
<1>9. QED
  BY <1>3, <1>4, <1>8

-----------------------------------------------------------------------------
(* Compaction of used_list_ *)

\* Each member of M moves to the position its rank gives, and nothing else does.
LEMMA CompactPositions ==
  ASSUME NEW S, NEW s \in Seq(S), NEW M
  PROVE  /\ Compact(s, M) \in Seq(S)
         /\ Len(Compact(s, M)) = Rank(s, M, Len(s))
         /\ \A k \in 1 .. Rank(s, M, Len(s)) : \E i \in 1 .. Len(s) :
              s[i] \in M /\ Rank(s, M, i) = k /\ Compact(s, M)[k] = s[i]
         /\ \A i \in 1 .. Len(s) : s[i] \in M =>
              /\ Rank(s, M, i) \in 1 .. Rank(s, M, Len(s))
              /\ Compact(s, M)[Rank(s, M, i)] = s[i]
<1> DEFINE n == Len(s)
           m == Rank(s, M, n)
           at(k) == CHOOSE i \in DOMAIN s : s[i] \in M /\ Rank(s, M, i) = k
           c == [k \in 1 .. m |-> s[at(k)]]
<1>1. n \in Nat /\ DOMAIN s = 1 .. n /\ m \in Nat
  <2>1. n \in Nat /\ DOMAIN s = 1 .. n
    OBVIOUS
  <2>2. QED
    BY <2>1, RankNat
<1>2. Compact(s, M) = c
  BY DEF Compact
<1>3. ASSUME NEW k \in 1 .. m
      PROVE  at(k) \in 1 .. n /\ s[at(k)] \in M /\ Rank(s, M, at(k)) = k
  BY <1>1, RankBijection
<1>4. c \in Seq(S) /\ Len(c) = m
  BY <1>1, <1>3
<1>5. ASSUME NEW i \in 1 .. n, s[i] \in M
      PROVE  Rank(s, M, i) \in 1 .. m /\ c[Rank(s, M, i)] = s[i]
  <2>1. Rank(s, M, i) \in 1 .. m
    BY <1>1, <1>5, RankBijection
  <2>2. at(Rank(s, M, i)) = i
    BY <1>1, <1>3, <1>5, <2>1, RankBijection
  <2>3. QED
    BY <2>1, <2>2
<1>6. QED
  BY <1>1, <1>2, <1>3, <1>4, <1>5

\* The elements that remain are those in M.
LEMMA CompactRange ==
  ASSUME NEW S, NEW s \in Seq(S), NEW M
  PROVE  {Compact(s, M)[k] : k \in DOMAIN Compact(s, M)} = {s[i] : i \in DOMAIN s} \cap M
<1> DEFINE c == Compact(s, M)
<1>1. DOMAIN c = 1 .. Rank(s, M, Len(s)) /\ DOMAIN s = 1 .. Len(s)
  BY CompactPositions
<1>2. ASSUME NEW k \in DOMAIN c PROVE c[k] \in {s[i] : i \in DOMAIN s} \cap M
  <2>1. PICK i \in 1 .. Len(s) : s[i] \in M /\ c[k] = s[i]
    BY <1>1, CompactPositions
  <2>2. QED
    BY <1>1, <2>1
<1>3. ASSUME NEW i \in DOMAIN s, s[i] \in M PROVE \E k \in DOMAIN c : c[k] = s[i]
  BY <1>1, <1>3, CompactPositions
<1>4. QED
  BY <1>2, <1>3

LEMMA CompactType ==
  ASSUME NEW S, NEW s \in Seq(S), NEW M
  PROVE  Compact(s, M) \in Seq(S \cap M)
<1> DEFINE c == Compact(s, M)
<1>1. c \in Seq(S) /\ \A k \in 1 .. Len(c) : c[k] \in M
  BY CompactPositions
<1> HIDE DEF c
<1>2. c \in Seq(S \cap M)
  BY <1>1
<1>3. QED
  BY <1>2 DEF c

\* No element is duplicated.
LEMMA CompactInjective ==
  ASSUME NEW S, NEW s \in Seq(S), NEW M,
         \A i, j \in DOMAIN s : s[i] = s[j] => i = j
  PROVE  \A k, l \in DOMAIN Compact(s, M) : Compact(s, M)[k] = Compact(s, M)[l] => k = l
<1> SUFFICES ASSUME NEW k \in DOMAIN Compact(s, M), NEW l \in DOMAIN Compact(s, M),
                    Compact(s, M)[k] = Compact(s, M)[l]
             PROVE  k = l
  OBVIOUS
<1>1. DOMAIN Compact(s, M) = 1 .. Rank(s, M, Len(s)) /\ DOMAIN s = 1 .. Len(s)
  BY CompactPositions
<1>2. PICK i \in 1 .. Len(s) : Rank(s, M, i) = k /\ Compact(s, M)[k] = s[i]
  BY <1>1, CompactPositions
<1>3. PICK j \in 1 .. Len(s) : Rank(s, M, j) = l /\ Compact(s, M)[l] = s[j]
  BY <1>1, CompactPositions
<1>4. i = j
  BY <1>1, <1>2, <1>3
<1>5. QED
  BY <1>2, <1>3, <1>4

\* The list shrinks by the number of states that were not marked.
LEMMA CompactLength ==
  ASSUME NEW S, NEW s \in Seq(S), NEW M,
         \A i, j \in DOMAIN s : s[i] = s[j] => i = j
  PROVE  LET R == {s[i] : i \in DOMAIN s}
         IN  Cardinality(R \ M) \in Nat /\ Len(Compact(s, M)) = Len(s) - Cardinality(R \ M)
<1> DEFINE n == Len(s)
           R == {s[i] : i \in DOMAIN s}
           P == {j \in 1 .. n : s[j] \in M}
           Q == (1 .. n) \ P
           f == [j \in Q |-> s[j]]
<1>1. n \in Nat /\ DOMAIN s = 1 .. n
  OBVIOUS
<1>2. IsFiniteSet(1 .. n) /\ Cardinality(1 .. n) = n
  BY <1>1, FS_Interval
<1>3. (1 .. n) \cap P = P
  OBVIOUS
<1>4. IsFiniteSet(Q) /\ Cardinality(Q) = n - Cardinality(P)
  <2> HIDE DEF P
  <2> QED BY <1>2, <1>3, FS_Difference
<1>5. f \in Bijection(Q, R \ M)
  BY <1>1 DEF Bijection, Injection, Surjection, IsInjective
<1>6. Cardinality(R \ M) = Cardinality(Q)
  <2> HIDE DEF Q, R, f
  <2> QED BY <1>4, <1>5, FS_Bijection DEF ExistsBijection
<1>7. Cardinality(Q) \in Nat
  <2> HIDE DEF Q
  <2> QED BY <1>4, FS_CardinalityType
<1>8. Len(Compact(s, M)) = Cardinality(P)
  <2>1. Rank(s, M, n) = Cardinality(P)
    BY DEF Rank
  <2>2. QED
    BY <2>1, CompactPositions
<1>9. Cardinality(P) \in Nat
  BY <1>1, <1>8, RankNat, CompactPositions
<1>10. QED
  <2> HIDE DEF P, Q
  <2> QED BY <1>1, <1>4, <1>6, <1>7, <1>8, <1>9

=============================================================================
