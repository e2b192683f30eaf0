---------------------------- MODULE HLevelProofs ----------------------------
(***************************************************************************)
(* Proofs about HLevelDecoder: for every graph, utterance and option, in   *)
(* whatever way tokens are pruned, the hash list finds what it holds, every*)
(* element is in one list, reference counts are exact, tokens lead back    *)
(* along paths of the graph, and a pass keeps the best expansion.          *)
(*                                                                         *)
(* First linked lists, the table and its operations, then tokens and their *)
(* counts, then the two together (Store), what is done arc by arc and      *)
(* element by element, the cut-offs, the inductive invariant (DecoderInv)  *)
(* with one lemma for each action, and what it implies.                    *)
(***************************************************************************)
EXTENDS HLevelCorrect, FiniteSetTheorems, SequenceTheorems, WellFoundedInduction, TLAPS

-----------------------------------------------------------------------------
(* Numbers *)

LEMMA LeastNumber ==
  ASSUME NEW T \in SUBSET Nat, T # {}
  PROVE  \E x \in T : \A y \in T : x <= y
<1> DEFINE R == {ss \in Nat \X Nat : ss[1] < ss[2]}
<1>1. R = OpToRel(<, Nat)
  BY DEF OpToRel
<1>2. IsWellFoundedOn(R, Nat)
  BY <1>1, NatLessThanWellFounded
<1>3. PICK x \in T : \A y \in T : ~(<<y, x>> \in R)
  <2> HIDE DEF R
  <2> QED BY <1>2, WFMin
<1>4. ASSUME NEW y \in T
      PROVE  x <= y
  <2>1. ~(<<y, x>> \in R)
    BY <1>3
  <2>2. <<y, x>>[1] = y /\ <<y, x>>[2] = x /\ <<y, x>> \in Nat \X Nat
    OBVIOUS
  <2>3. ~(y < x)
    BY <2>1, <2>2
  <2>4. QED
    BY <2>3
<1>5. QED
  BY <1>4

\* A function with integer values takes its least value on a finite set: the
\* position with the fewest positions below it has it.
LEMMA LeastValue ==
  ASSUME NEW S, IsFiniteSet(S), S # {}, NEW f \in [S -> Int]
  PROVE  \E x \in S : \A y \in S : f[x] <= f[y]
<1> DEFINE below(x) == {z \in S : f[z] < f[x]}
           T == {Cardinality(below(x)) : x \in S}
<1>1. \A x \in S : IsFiniteSet(below(x)) /\ Cardinality(below(x)) \in Nat
  <2>1. TAKE x \in S
  <2>2. below(x) \in SUBSET S
    OBVIOUS
  <2> HIDE DEF below
  <2>3. QED
    BY <2>2, FS_Subset, FS_CardinalityType
<1>2. PICK x \in S : \A y \in S : Cardinality(below(x)) <= Cardinality(below(y))
  <2>1. T \in SUBSET Nat /\ T # {}
    BY <1>1
  <2>2. PICK m \in T : \A k \in T : m <= k
    <3> HIDE DEF T
    <3> QED BY <2>1, LeastNumber
  <2>3. QED
    BY <2>2
<1>3. ASSUME NEW y \in S, f[y] < f[x]
      PROVE  FALSE
  <2>1. below(y) \in SUBSET below(x) /\ y \in below(x) /\ y \notin below(y)
    BY <1>3
  <2>2. /\ IsFiniteSet(below(x)) /\ IsFiniteSet(below(y))
        /\ Cardinality(below(x)) \in Nat /\ Cardinality(below(y)) \in Nat
    BY <1>1
  <2>3. Cardinality(below(x)) <= Cardinality(below(y))
    BY <1>2
  <2> HIDE DEF below
  <2>4. Cardinality(below(y)) <= Cardinality(below(x)) /\ Cardinality(below(x)) # Cardinality(below(y))
    BY <2>1, <2>2, FS_Subset
  <2>5. QED
    BY <2>2, <2>3, <2>4
<1>4. QED
  BY <1>3

LEMMA MinIs ==
  ASSUME NEW S \in SUBSET Int, IsFiniteSet(S), S # {}
  PROVE  Min(S) \in S /\ \A y \in S : Min(S) <= y
<1>1. [x \in S |-> x] \in [S -> Int]
  OBVIOUS
<1>2. \E x \in S : \A y \in S : x <= y
  <2>1. \E x \in S : \A y \in S : [z \in S |-> z][x] <= [z \in S |-> z][y]
    BY <1>1, LeastValue
  <2>2. QED
    BY <2>1
<1>3. QED
  BY <1>2 DEF Min

LEMMA MinUnique ==
  ASSUME NEW S \in SUBSET Int, NEW x \in S, \A y \in S : x <= y
  PROVE  Min(S) = x
<1>1. Min(S) \in S /\ \A y \in S : Min(S) <= y
  BY DEF Min
<1>2. Min(S) <= x /\ x <= Min(S) /\ Min(S) \in Int
  BY <1>1
<1>3. QED
  BY <1>2

LEMMA MinPair ==
  ASSUME NEW x \in Int, NEW y \in Int
  PROVE  Min({x, y}) = IF x <= y THEN x ELSE y
<1>1. CASE x <= y
  BY <1>1, MinUnique
<1>2. CASE ~(x <= y)
  BY <1>2, MinUnique
<1>3. QED
  BY <1>1, <1>2

LEMMA FiniteImage ==
  ASSUME NEW S, IsFiniteSet(S), NEW f
  PROVE  IsFiniteSet({f[x] : x \in S})
<1> DEFINE T == {f[x] : x \in S}
           g == [x \in S |-> f[x]]
<1>1. g \in Surjection(S, T)
  BY DEF Surjection
<1> HIDE DEF g, T
<1>2. IsFiniteSet(T)
  BY <1>1, FS_Surjection
<1>3. QED
  BY <1>2 DEF T

\* What holds of 0, and of a number if of the one before, holds of all.
LEMMA UpTo ==
  ASSUME NEW n \in Nat, NEW P, 0 \in P,
         \A k \in 1 .. n : k - 1 \in P => k \in P
  PROVE  \A k \in 0 .. n : k \in P
<1> DEFINE T == {k \in 0 .. n : k \notin P}
<1> SUFFICES ASSUME T # {} PROVE FALSE
  OBVIOUS
<1>1. T \in SUBSET Nat
  OBVIOUS
<1>2. PICK k \in T : \A l \in T : k <= l
  <2>1. \E k \in T : \A l \in T : k <= l
    <3> HIDE DEF T
    <3> QED BY <1>1, LeastNumber
  <2>2. QED
    BY <2>1
<1>3. k \in 1 .. n
  OBVIOUS
<1>4. k - 1 \in P
  BY <1>2, <1>3
<1>5. QED
  BY <1>3, <1>4

-----------------------------------------------------------------------------
(* Linked lists *)

\* The i-th of p, Null past its end.
Item(p, i) == IF i \in 1 .. Len(p) THEN p[i] ELSE 0

Members(p) == {p[i] : i \in 1 .. Len(p)}

\* p is what is met from x along next.
Linked(next, x, p) ==
  /\ p \in Seq(DOMAIN next)
  /\ x = Item(p, 1)
  /\ \A i \in 1 .. Len(p) : next[p[i]] = Item(p, i + 1)
  /\ \A i, j \in 1 .. Len(p) : p[i] = p[j] => i = j

\* A list without repetition is no longer than its set of members.
LEMMA LinkedLength ==
  ASSUME NEW next, NEW x, NEW p, IsFiniteSet(DOMAIN next), Linked(next, x, p)
  PROVE  Len(p) \in Nat /\ Cardinality(DOMAIN next) \in Nat /\ Len(p) <= Cardinality(DOMAIN next)
<1>1. /\ Len(p) \in Nat /\ p \in [1 .. Len(p) -> DOMAIN next]
      /\ \A i, j \in 1 .. Len(p) : p[i] = p[j] => i = j
  BY DEF Linked
<1>2. p \in Injection(1 .. Len(p), DOMAIN next)
  BY <1>1 DEF Injection, IsInjective
<1>3. Cardinality(1 .. Len(p)) <= Cardinality(DOMAIN next)
  BY <1>2, FS_Injection
<1>4. Cardinality(1 .. Len(p)) = Len(p)
  <2>1. 1 \in Int /\ Len(p) \in Int /\ (1 > Len(p) => Len(p) = 0)
    BY <1>1
  <2>2. Cardinality(1 .. Len(p)) = IF 1 > Len(p) THEN 0 ELSE Len(p) - 1 + 1
    BY <2>1, FS_Interval
  <2>3. QED
    BY <2>1, <2>2
<1>5. Cardinality(DOMAIN next) \in Nat
  BY FS_CardinalityType
<1>6. QED
  BY <1>1, <1>3, <1>4, <1>5

First(p, n) == [i \in 1 .. (IF n <= Len(p) THEN n ELSE Len(p)) |-> p[i]]

LEMMA HCardinality == \A S : H!Cardinality(S) = Cardinality(S)
BY DEF H!Cardinality, Cardinality

LEMMA LinksIs ==
  ASSUME NEW next, NEW x, NEW p, IsFiniteSet(DOMAIN next), 0 \notin DOMAIN next, Linked(next, x, p)
  PROVE  H!Links(next, x) = p
<1> DEFINE C == Cardinality(DOMAIN next)
           Then(path) == LET y == IF path = <<>> THEN x ELSE next[path[Len(path)]]
                         IN  IF y = Null THEN path ELSE Append(path, y)
           step(f, n) == IF n = 0 THEN <<>> ELSE Then(f[n - 1])
<1>1. Len(p) \in Nat /\ C \in Nat /\ Len(p) <= C
  BY LinkedLength
<1>2. /\ p \in Seq(DOMAIN next) /\ x = Item(p, 1)
      /\ \A i \in 1 .. Len(p) : next[p[i]] = Item(p, i + 1) /\ p[i] # 0
  BY DEF Linked
<1>3. \A n \in Nat : First(p, n) \in Seq(DOMAIN next) /\ Len(First(p, n)) = (IF n <= Len(p) THEN n ELSE Len(p))
  BY <1>1, <1>2 DEF First
<1>4. First(p, 0) = <<>>
  BY <1>1, <1>3
<1>5. ASSUME NEW n \in Nat, n # 0
      PROVE  Then(First(p, n - 1)) = First(p, n)
  <2> DEFINE path == First(p, n - 1)
             y == IF path = <<>> THEN x ELSE next[path[Len(path)]]
  <2>1. n - 1 \in Nat
    BY <1>5
  <2>2. path \in Seq(DOMAIN next) /\ Len(path) = (IF n - 1 <= Len(p) THEN n - 1 ELSE Len(p))
    BY <1>3, <2>1
  <2>3. y = IF n <= Len(p) THEN p[n] ELSE 0
    <3>1. CASE n = 1
      <4>1. path = <<>>
        BY <1>4, <3>1
      <4>2. QED
        BY <1>1, <1>2, <3>1, <4>1 DEF Item
    <3>2. CASE Len(p) = 0
      <4>1. path = <<>>
        BY <2>2, <3>2, <2>1
      <4>2. x = 0 /\ ~(n <= Len(p))
        BY <1>2, <1>5, <3>2 DEF Item
      <4>3. QED
        BY <4>1, <4>2
    <3>3. CASE n # 1 /\ Len(p) # 0
      <4> DEFINE l == Len(path)
      <4>1. l \in 1 .. Len(p) /\ path # <<>> /\ (l = IF n - 1 <= Len(p) THEN n - 1 ELSE Len(p))
        BY <1>1, <2>1, <2>2, <3>3
      <4>2. path[l] = p[l]
        BY <1>1, <2>1, <4>1 DEF First
      <4>3. next[p[l]] = Item(p, l + 1)
        BY <1>2, <4>1
      <4>4. Item(p, l + 1) = IF n <= Len(p) THEN p[n] ELSE 0
        BY <1>1, <1>5, <4>1 DEF Item
      <4>5. QED
        BY <4>1, <4>2, <4>3, <4>4
    <3>4. QED
      BY <3>1, <3>2, <3>3
  <2>4. CASE n <= Len(p)
    <3>1. y = p[n] /\ p[n] # 0 /\ p[n] \in DOMAIN next
      BY <1>1, <1>2, <1>5, <2>3, <2>4
    <3>2. Then(path) = Append(path, p[n])
      BY <3>1 DEF Null, H!Null
    <3>3. Append(path, p[n]) = First(p, n)
      <4>1. /\ Append(path, p[n]) \in Seq(DOMAIN next)
            /\ Len(Append(path, p[n])) = n
            /\ Append(path, p[n])[n] = p[n]
            /\ \A i \in 1 .. n - 1 : Append(path, p[n])[i] = path[i]
        <5>1. Len(path) = n - 1
          BY <1>1, <1>5, <2>2, <2>4
        <5> HIDE DEF path
        <5>2. QED
          BY <2>2, <3>1, <5>1, <1>5
      <4>2. \A i \in 1 .. n - 1 : path[i] = p[i]
        BY <1>1, <2>4, <1>5 DEF First
      <4>3. First(p, n) \in Seq(DOMAIN next) /\ Len(First(p, n)) = n
        BY <1>3, <2>4
      <4>4. \A i \in 1 .. n : First(p, n)[i] = p[i]
        BY <1>1, <2>4 DEF First
      <4>5. \A i \in 1 .. n : Append(path, p[n])[i] = First(p, n)[i]
        <5> HIDE DEF path
        <5> QED BY <4>1, <4>2, <4>4
      <4> HIDE DEF path
      <4>6. QED
        BY <4>1, <4>3, <4>5
    <3>4. QED
      BY <3>2, <3>3
  <2>5. CASE ~(n <= Len(p))
    <3>1. y = 0
      BY <2>3, <2>5
    <3>2. Then(path) = path
      BY <3>1 DEF Null, H!Null
    <3>3. First(p, n) = path
      BY <1>1, <1>5, <2>5 DEF First
    <3>4. QED
      BY <3>2, <3>3
  <2>6. QED
    BY <2>4, <2>5
<1> DEFINE w == [n \in 0 .. C |-> First(p, n)]
           Met(f) == f = [n \in 0 .. C |-> step(f, n)]
<1>6. Met(w)
  <2>1. ASSUME NEW n \in 0 .. C
        PROVE  w[n] = step(w, n)
    <3>1. CASE n = 0
      BY <1>4, <3>1
    <3>2. CASE n # 0
      <4>1. n - 1 \in 0 .. C /\ n \in Nat
        BY <1>1, <3>2
      <4>2. w[n] = First(p, n) /\ w[n - 1] = First(p, n - 1)
        BY <4>1
      <4>3. Then(First(p, n - 1)) = First(p, n)
        BY <1>5, <3>2, <4>1
      <4>4. step(w, n) = Then(w[n - 1])
        BY <3>2
      <4> HIDE DEF Then, w
      <4>5. QED
        BY <4>2, <4>3, <4>4
    <3>3. QED
      BY <3>1, <3>2
  <2>2. DOMAIN w = 0 .. C /\ w = [n \in 0 .. C |-> w[n]]
    OBVIOUS
  <2> HIDE DEF w, step
  <2>3. QED
    BY <2>1, <2>2
<1>7. ASSUME NEW f, Met(f)
      PROVE  f[C] = First(p, C)
  <2> DEFINE P == {n \in 0 .. C : f[n] = First(p, n)}
  <2>1. \A n \in 0 .. C : f[n] = step(f, n)
    <3> HIDE DEF step
    <3> QED BY <1>7
  <2>2. 0 \in P
    <3>1. f[0] = step(f, 0)
      BY <1>1, <2>1
    <3>2. QED
      BY <1>1, <1>4, <3>1
  <2>3. ASSUME NEW k \in 1 .. C, k - 1 \in P
        PROVE  k \in P
    <3>1. k \in Nat /\ k # 0 /\ k \in 0 .. C
      BY <1>1, <2>3
    <3>2. f[k] = Then(f[k - 1])
      BY <2>1, <3>1
    <3>3. f[k - 1] = First(p, k - 1)
      BY <2>3
    <3>4. Then(First(p, k - 1)) = First(p, k)
      BY <1>5, <3>1
    <3> HIDE DEF Then
    <3>5. QED
      BY <3>1, <3>2, <3>3, <3>4
  <2> HIDE DEF P
  <2>4. C \in P
    <3>1. \A k \in 1 .. C : k - 1 \in P => k \in P
      BY <2>3
    <3>2. C \in 0 .. C
      BY <1>1
    <3> HIDE DEF C
    <3>3. QED
      BY <1>1, <2>2, <3>1, <3>2, UpTo
  <2>5. QED
    BY <2>4 DEF P
<1>8. H!Links(next, x) = (CHOOSE f : Met(f))[C]
  <2>1. H!Cardinality(DOMAIN next) = C
    BY HCardinality
  <2>2. H!Links(next, x) =
          (CHOOSE f : f = [n \in 0 .. H!Cardinality(DOMAIN next) |-> step(f, n)])[H!Cardinality(DOMAIN next)]
    BY DEF H!Links, H!Null, Null
  <2> HIDE DEF C, step
  <2>3. QED
    BY <2>1, <2>2
<1>9. Met(CHOOSE f : Met(f))
  <2> HIDE DEF Met
  <2> QED BY <1>6
<1>10. (CHOOSE f : Met(f))[C] = First(p, C)
  <2> HIDE DEF Met
  <2> QED BY <1>7, <1>9
<1>11. First(p, C) = p
  BY <1>1, <1>2 DEF First
<1>12. QED
  BY <1>8, <1>10, <1>11

\* A list depends on the links of its members alone.
LEMMA LinkedSame ==
  ASSUME NEW next, NEW after, NEW x, NEW p, Linked(next, x, p),
         DOMAIN next \subseteq DOMAIN after,
         \A m \in Members(p) : after[m] = next[m]
  PROVE  Linked(after, x, p)
<1>1. p \in Seq(DOMAIN after)
  BY DEF Linked
<1>2. \A i \in 1 .. Len(p) : after[p[i]] = next[p[i]]
  BY DEF Members
<1>3. QED
  BY <1>1, <1>2 DEF Linked

\* p with e after its j-th.
Inserted(p, j, e) == [i \in 1 .. Len(p) + 1 |-> IF i <= j THEN p[i] ELSE IF i = j + 1 THEN e ELSE p[i - 1]]

LEMMA InsertedIsSeq ==
  ASSUME NEW S, NEW p \in Seq(S), NEW j \in 0 .. Len(p), NEW e
  PROVE  /\ Inserted(p, j, e) \in Seq(S \cup {e}) /\ Len(Inserted(p, j, e)) = Len(p) + 1
<1> DEFINE q == Inserted(p, j, e)
<1>1. Len(p) \in Nat /\ \A i \in 1 .. Len(p) : p[i] \in S
  OBVIOUS
<1>2. \A i \in 1 .. Len(p) + 1 : q[i] = IF i <= j THEN p[i] ELSE IF i = j + 1 THEN e ELSE p[i - 1]
  BY DEF Inserted
<1>3. q \in Seq(S \cup {e}) /\ Len(q) = Len(p) + 1
  <2>1. \A i \in 1 .. Len(p) + 1 : (IF i <= j THEN p[i] ELSE IF i = j + 1 THEN e ELSE p[i - 1]) \in S \cup {e}
    BY <1>1
  <2>2. Len(p) + 1 \in Nat
    BY <1>1
  <2>3. QED
    BY <2>1, <2>2 DEF Inserted
<1>4. QED
  BY <1>3

LEMMA InsertedMembers ==
  ASSUME NEW p, \E S : p \in Seq(S), NEW j \in 0 .. Len(p), NEW e
  PROVE  Members(Inserted(p, j, e)) = Members(p) \cup {e}
<1> DEFINE q == Inserted(p, j, e)
<1>1. Len(p) \in Nat
  OBVIOUS
<1>2. \A i \in 1 .. Len(p) + 1 : q[i] = IF i <= j THEN p[i] ELSE IF i = j + 1 THEN e ELSE p[i - 1]
  BY DEF Inserted
<1>3. Len(q) = Len(p) + 1
  <2>1. PICK S : p \in Seq(S)
    OBVIOUS
  <2>2. QED
    BY <2>1, InsertedIsSeq
<1> HIDE DEF q
<1>4. ASSUME NEW i \in 1 .. Len(p) PROVE \E k \in 1 .. Len(q) : q[k] = p[i]
  <2>1. CASE i <= j
    <3>1. i \in 1 .. Len(p) + 1 /\ q[i] = p[i]
      BY <1>1, <1>2, <2>1
    <3>2. QED
      BY <1>3, <3>1
  <2>2. CASE ~(i <= j)
    <3>1. i + 1 \in 1 .. Len(p) + 1 /\ ~(i + 1 <= j) /\ i + 1 # j + 1 /\ (i + 1) - 1 = i
      BY <1>1, <2>2
    <3>2. q[i + 1] = p[i]
      BY <1>2, <3>1
    <3>3. QED
      BY <1>3, <3>1, <3>2
  <2>3. QED
    BY <2>1, <2>2
<1>5. j + 1 \in 1 .. Len(q) /\ q[j + 1] = e
  BY <1>1, <1>2, <1>3
<1>6. ASSUME NEW k \in 1 .. Len(q) PROVE q[k] \in Members(p) \cup {e}
  <2>1. k <= j => k \in 1 .. Len(p)
    BY <1>1
  <2>2. ~(k <= j) /\ k # j + 1 => k - 1 \in 1 .. Len(p)
    BY <1>1, <1>3
  <2>3. q[k] = IF k <= j THEN p[k] ELSE IF k = j + 1 THEN e ELSE p[k - 1]
    BY <1>2, <1>3
  <2>4. QED
    BY <2>1, <2>2, <2>3 DEF Members
<1>7. Members(q) = Members(p) \cup {e}
  <2>1. Members(p) \subseteq Members(q)
    BY <1>4 DEF Members
  <2>2. e \in Members(q)
    BY <1>5 DEF Members
  <2>3. Members(q) \subseteq Members(p) \cup {e}
    BY <1>6 DEF Members
  <2>4. QED
    BY <2>1, <2>2, <2>3
<1>8. QED
  BY <1>7 DEF q

LEMMA LinkedInsert ==
  ASSUME NEW next, NEW after, NEW x, NEW p, Linked(next, x, p),
         DOMAIN next \subseteq DOMAIN after,
         NEW j \in 0 .. Len(p), NEW e \in DOMAIN after, e \notin Members(p),
         after[e] = Item(p, j + 1), j > 0 => after[p[j]] = e,
         \A m \in Members(p) : (j > 0 => m # p[j]) => after[m] = next[m]
  PROVE  Linked(after, IF j = 0 THEN e ELSE x, Inserted(p, j, e))
<1> DEFINE q == Inserted(p, j, e)
           S == DOMAIN next
<1>1. /\ Len(p) \in Nat /\ p \in Seq(S) /\ x = Item(p, 1)
      /\ \A i \in 1 .. Len(p) : next[p[i]] = Item(p, i + 1)
      /\ \A i, k \in 1 .. Len(p) : p[i] = p[k] => i = k
  BY DEF Linked
<1>2. q \in Seq(S \cup {e}) /\ Len(q) = Len(p) + 1
  BY <1>1, InsertedIsSeq
<1>3. \A i \in 1 .. Len(p) + 1 : q[i] = IF i <= j THEN p[i] ELSE IF i = j + 1 THEN e ELSE p[i - 1]
  BY DEF Inserted
<1>4. q \in Seq(DOMAIN after)
  <2>1. S \cup {e} \subseteq DOMAIN after
    OBVIOUS
  <2> HIDE DEF q
  <2>2. QED
    BY <1>2, <2>1
<1> HIDE DEF q
<1>5. (IF j = 0 THEN e ELSE x) = Item(q, 1)
  BY <1>1, <1>2, <1>3 DEF Item
<1>6. ASSUME NEW i \in 1 .. Len(q) PROVE after[q[i]] = Item(q, i + 1)
  <2>1. CASE i < j
    <3>1. i \in 1 .. Len(p) /\ i + 1 <= j /\ i + 1 \in 1 .. Len(q) /\ i + 1 \in 1 .. Len(p) /\ i # j /\ j \in 1 .. Len(p)
      BY <1>1, <1>2, <2>1
    <3>2. q[i] = p[i] /\ Item(q, i + 1) = p[i + 1] /\ Item(p, i + 1) = p[i + 1]
      BY <1>2, <1>3, <2>1, <3>1 DEF Item
    <3>3. p[i] # p[j] /\ p[i] \in Members(p)
      BY <1>1, <3>1 DEF Members
    <3>4. after[p[i]] = next[p[i]]
      BY <3>3
    <3>5. QED
      BY <1>1, <3>1, <3>2, <3>4
  <2>2. CASE i = j
    <3>1. q[i] = p[i] /\ q[i + 1] = e /\ j > 0 /\ i + 1 \in 1 .. Len(q)
      BY <1>1, <1>2, <1>3, <2>2
    <3>2. QED
      BY <2>2, <3>1 DEF Item
  <2>3. CASE i = j + 1
    <3>1. q[i] = e
      BY <1>1, <1>2, <1>3, <2>3
    <3>2. Item(q, i + 1) = Item(p, i)
      <4>1. CASE i \in 1 .. Len(p)
        <5>1. i + 1 \in 1 .. Len(p) + 1 /\ ~(i + 1 <= j) /\ i + 1 # j + 1 /\ (i + 1) - 1 = i
          BY <1>1, <2>3, <4>1
        <5>2. q[i + 1] = p[i]
          BY <1>3, <5>1
        <5>3. QED
          BY <1>2, <4>1, <5>1, <5>2 DEF Item
      <4>2. CASE i \notin 1 .. Len(p)
        <5>1. i + 1 \notin 1 .. Len(q)
          BY <1>1, <1>2, <2>3, <4>2
        <5>2. QED
          BY <4>2, <5>1 DEF Item
      <4>3. QED
        BY <4>1, <4>2
    <3>3. QED
      BY <2>3, <3>1, <3>2
  <2>4. CASE i > j + 1
    <3>1. i - 1 \in 1 .. Len(p) /\ i - 1 # j /\ ~(i <= j) /\ i # j + 1 /\ (i - 1) + 1 = i
      BY <1>1, <1>2, <2>4
    <3>2. q[i] = p[i - 1]
      BY <1>2, <1>3, <3>1
    <3>3. j > 0 => j \in 1 .. Len(p)
      BY <1>1
    <3>4. after[p[i - 1]] = next[p[i - 1]]
      <4>1. p[i - 1] \in Members(p)
        BY <3>1 DEF Members
      <4>2. j > 0 => p[i - 1] # p[j]
        BY <1>1, <3>1, <3>3
      <4>3. QED
        BY <4>1, <4>2
    <3>5. next[p[i - 1]] = Item(p, i)
      BY <1>1, <3>1
    <3>6. Item(q, i + 1) = Item(p, i)
      <4>1. CASE i \in 1 .. Len(p)
        <5>1. i + 1 \in 1 .. Len(p) + 1 /\ ~(i + 1 <= j) /\ i + 1 # j + 1 /\ (i + 1) - 1 = i
          BY <1>1, <2>4, <4>1
        <5>2. q[i + 1] = p[i]
          BY <1>3, <5>1
        <5>3. QED
          BY <1>2, <4>1, <5>1, <5>2 DEF Item
      <4>2. CASE i \notin 1 .. Len(p)
        <5>1. i + 1 \notin 1 .. Len(q)
          BY <1>1, <1>2, <2>4, <4>2
        <5>2. QED
          BY <4>2, <5>1 DEF Item
      <4>3. QED
        BY <4>1, <4>2
    <3>7. QED
      BY <3>2, <3>4, <3>5, <3>6
  <2>5. QED
    BY <1>1, <1>2, <2>1, <2>2, <2>3, <2>4
<1>7. ASSUME NEW i \in 1 .. Len(q), NEW k \in 1 .. Len(q), q[i] = q[k] PROVE i = k
  <2> DEFINE Old(n) == IF n <= j THEN n ELSE n - 1
  <2>1. \A n \in 1 .. Len(q) : n # j + 1 => Old(n) \in 1 .. Len(p) /\ q[n] = p[Old(n)]
    BY <1>1, <1>2, <1>3
  <2>2. q[j + 1] = e /\ j + 1 \in 1 .. Len(q)
    BY <1>1, <1>2, <1>3
  <2>3. \A n \in 1 .. Len(p) : p[n] # e
    BY DEF Members
  <2>4. \A n \in 1 .. Len(q) : n # j + 1 => q[n] # e
    <3> HIDE DEF Old
    <3> QED BY <2>1, <2>3
  <2>5. CASE i = j + 1 \/ k = j + 1
    BY <1>7, <2>2, <2>4, <2>5
  <2>6. CASE i # j + 1 /\ k # j + 1
    <3>1. Old(i) = Old(k)
      <4>1. p[Old(i)] = p[Old(k)] /\ Old(i) \in 1 .. Len(p) /\ Old(k) \in 1 .. Len(p)
        <5> HIDE DEF Old
        <5> QED BY <1>7, <2>1, <2>6
      <4> HIDE DEF Old
      <4>2. QED
        BY <1>1, <4>1
    <3>2. QED
      BY <1>1, <1>2, <2>6, <3>1
  <2>7. QED
    BY <2>5, <2>6
<1>8. Linked(after, IF j = 0 THEN e ELSE x, q)
  BY <1>4, <1>5, <1>6, <1>7 DEF Linked
<1>9. QED
  BY <1>8 DEF q

LEMMA FunctionIsSeq ==
  ASSUME NEW n \in Nat, NEW S, NEW q \in [1 .. n -> S]
  PROVE  q \in Seq(S) /\ Len(q) = n
OBVIOUS

\* The part of p from its i-th.
From(p, i) == [k \in 1 .. Len(p) - i + 1 |-> p[i + k - 1]]

LEMMA LinkedFrom ==
  ASSUME NEW next, NEW x, NEW p, Linked(next, x, p), NEW i \in 1 .. Len(p) + 1
  PROVE  /\ Linked(next, Item(p, i), From(p, i))
         /\ Len(From(p, i)) = Len(p) - i + 1
         /\ \A k \in 1 .. Len(p) - i + 1 : From(p, i)[k] = p[i + k - 1]
<1> DEFINE q == From(p, i)
<1>1. /\ Len(p) \in Nat /\ p \in Seq(DOMAIN next)
      /\ \A k \in 1 .. Len(p) : next[p[k]] = Item(p, k + 1) /\ p[k] \in DOMAIN next
      /\ \A k, l \in 1 .. Len(p) : p[k] = p[l] => k = l
  BY DEF Linked
<1>2. \A k \in 1 .. Len(p) - i + 1 : q[k] = p[i + k - 1] /\ i + k - 1 \in 1 .. Len(p)
  BY <1>1 DEF From
<1>3. q \in Seq(DOMAIN next) /\ Len(q) = Len(p) - i + 1
  <2>1. Len(p) - i + 1 \in Nat
    BY <1>1
  <2>2. \A k \in 1 .. Len(p) - i + 1 : p[i + k - 1] \in DOMAIN next
    BY <1>1
  <2>3. q \in [1 .. Len(p) - i + 1 -> DOMAIN next]
    BY <2>2 DEF From
  <2> HIDE DEF q
  <2>4. QED
    BY <2>1, <2>3, FunctionIsSeq
<1> HIDE DEF q
<1>4. Item(p, i) = Item(q, 1)
  BY <1>1, <1>2, <1>3 DEF Item
<1>5. ASSUME NEW k \in 1 .. Len(q) PROVE next[q[k]] = Item(q, k + 1)
  <2>1. q[k] = p[i + k - 1] /\ i + k - 1 \in 1 .. Len(p)
    BY <1>2, <1>3
  <2>2. next[q[k]] = Item(p, (i + k - 1) + 1)
    BY <1>1, <2>1
  <2>3. Item(q, k + 1) = Item(p, (i + k - 1) + 1)
    <3>1. CASE k + 1 \in 1 .. Len(q)
      <4>1. q[k + 1] = p[i + (k + 1) - 1] /\ i + (k + 1) - 1 \in 1 .. Len(p) /\ i + (k + 1) - 1 = (i + k - 1) + 1
        BY <1>1, <1>2, <1>3, <3>1
      <4>2. QED
        BY <3>1, <4>1 DEF Item
    <3>2. CASE k + 1 \notin 1 .. Len(q)
      <4>1. (i + k - 1) + 1 \notin 1 .. Len(p)
        BY <1>1, <1>3, <3>2
      <4>2. QED
        BY <3>2, <4>1 DEF Item
    <3>3. QED
      BY <3>1, <3>2
  <2>4. QED
    BY <2>2, <2>3
<1>6. ASSUME NEW k \in 1 .. Len(q), NEW l \in 1 .. Len(q), q[k] = q[l] PROVE k = l
  <2>1. i + k - 1 = i + l - 1
    BY <1>1, <1>2, <1>3, <1>6
  <2>2. QED
    BY <1>1, <1>3, <2>1
<1>7. Linked(next, Item(p, i), q)
  BY <1>3, <1>4, <1>5, <1>6 DEF Linked
<1>8. QED
  BY <1>2, <1>3, <1>7 DEF q

\* What follows the head.
LEMMA LinkedTail ==
  ASSUME NEW next, NEW x, NEW p, Linked(next, x, p), x # 0
  PROVE  /\ Linked(next, next[x], From(p, 2))
         /\ Members(From(p, 2)) = Members(p) \ {x} /\ x \in Members(p)
<1>1. /\ Len(p) \in Nat /\ x = Item(p, 1)
      /\ \A k \in 1 .. Len(p) : next[p[k]] = Item(p, k + 1)
      /\ \A k, l \in 1 .. Len(p) : p[k] = p[l] => k = l
  BY DEF Linked
<1>2. 1 \in 1 .. Len(p) /\ x = p[1] /\ 2 \in 1 .. Len(p) + 1
  BY <1>1 DEF Item
<1>3. next[x] = Item(p, 2)
  BY <1>1, <1>2
<1>4. /\ Linked(next, Item(p, 2), From(p, 2)) /\ Len(From(p, 2)) = Len(p) - 2 + 1
      /\ \A k \in 1 .. Len(p) - 2 + 1 : From(p, 2)[k] = p[2 + k - 1]
  <2>1. Linked(next, Item(p, 2), From(p, 2))
    BY <1>2, LinkedFrom
  <2>2. Len(From(p, 2)) = Len(p) - 2 + 1
    BY <1>2, LinkedFrom
  <2>3. \A k \in 1 .. Len(p) - 2 + 1 : From(p, 2)[k] = p[2 + k - 1]
    BY <1>2, LinkedFrom
  <2>4. QED
    BY <2>1, <2>2, <2>3
<1>5. Members(From(p, 2)) = Members(p) \ {x}
  <2>1. ASSUME NEW k \in 1 .. Len(From(p, 2)) PROVE From(p, 2)[k] \in Members(p) \ {x}
    <3>1. From(p, 2)[k] = p[2 + k - 1] /\ 2 + k - 1 \in 1 .. Len(p) /\ 2 + k - 1 # 1
      BY <1>1, <1>4
    <3>2. QED
      BY <1>1, <1>2, <3>1 DEF Members
  <2>2. ASSUME NEW k \in 1 .. Len(p), p[k] # x PROVE \E l \in 1 .. Len(From(p, 2)) : From(p, 2)[l] = p[k]
    <3>1. k # 1 /\ k - 1 \in 1 .. Len(From(p, 2)) /\ 2 + (k - 1) - 1 = k
      BY <1>1, <1>2, <1>4, <2>2
    <3>2. From(p, 2)[k - 1] = p[k]
      BY <1>4, <3>1
    <3>3. QED
      BY <3>1, <3>2
  <2>3. QED
    BY <2>1, <2>2 DEF Members
<1>6. QED
  BY <1>2, <1>3, <1>4, <1>5 DEF Members

LEMMA RangeIsMembers ==
  ASSUME NEW S, NEW p \in Seq(S)
  PROVE  Range(p) = Members(p)
<1>1. DOMAIN p = 1 .. Len(p)
  OBVIOUS
<1>2. QED
  BY <1>1 DEF Range, Members

LEMMA LinkedNone ==
  ASSUME NEW next
  PROVE  Linked(next, 0, <<>>) /\ Members(<<>>) = {}
BY DEF Linked, Item, Members

LEMMA LinkedNull ==
  ASSUME NEW next, 0 \notin DOMAIN next, NEW p, NEW x, Linked(next, x, p)
  PROVE  x = 0 <=> p = <<>>
<1>1. /\ Len(p) \in Nat /\ x = Item(p, 1) /\ p \in Seq(DOMAIN next)
  BY DEF Linked
<1>2. CASE p = <<>>
  BY <1>1, <1>2 DEF Item
<1>3. CASE p # <<>>
  <2>1. 1 \in 1 .. Len(p) /\ p[1] \in DOMAIN next
    BY <1>1, <1>3
  <2>2. QED
    BY <1>1, <1>3, <2>1 DEF Item
<1>4. QED
  BY <1>2, <1>3

-----------------------------------------------------------------------------
(* The table: what is in its list, L, freed, F, still walked from w, W, and the *)
(* buckets in use from the last to the first, B                               *)

Elem == [key : Nat, val : Nat, tail : Nat]
Slot == [prev : Nat, last : Nat]

Tails(h) == [x \in DOMAIN h.elems |-> h.elems[x].tail]
Prevs(h) == [b \in DOMAIN h.buckets |-> h.buckets[b].prev]
Home(h, e) == H!Bucket(h, h.elems[e].key)

Shape(h) ==
  /\ h \in [head : Nat, bucketTail : Nat, size : Nat \ {0}, buckets : Seq(Slot),
            freed : Nat, elems : Seq(Elem)]
  /\ h.size <= Len(h.buckets)

\* Each element is in one of the three lists.
Lists(h, L, F, w, W) ==
  /\ Linked(Tails(h), h.head, L)
  /\ Linked(Tails(h), h.freed, F)
  /\ Linked(Tails(h), w, W)
  /\ Members(L) \cup Members(F) \cup Members(W) = DOMAIN h.elems
  /\ Members(L) \cap Members(F) = {} /\ Members(L) \cap Members(W) = {} /\ Members(F) \cap Members(W) = {}

\* The elements of bucket b are those of L after the i-th up to the j-th; its prev
\* is the bucket that ends with the i-th.
Ends(h, L, b, i, j) ==
  /\ i \in 0 .. Len(L) /\ j \in 1 .. Len(L) /\ i < j
  /\ h.buckets[b].last = L[j]
  /\ IF i = 0 THEN h.buckets[b].prev = 0
     ELSE h.buckets[b].prev \in DOMAIN h.buckets /\ h.buckets[h.buckets[b].prev].last = L[i]
  /\ \A k \in 1 .. Len(L) : Home(h, L[k]) = b <=> i < k /\ k <= j

Buckets(h, L, B) ==
  /\ Linked(Prevs(h), h.bucketTail, B)
  /\ \A b \in DOMAIN h.buckets : b \notin Members(B) => h.buckets[b].last = 0
  /\ \A b \in Members(B) : \E i, j : Ends(h, L, b, i, j)
  /\ \A k \in 1 .. Len(L) : Home(h, L[k]) \in Members(B)
  /\ L # <<>> => h.bucketTail # 0 /\ h.buckets[h.bucketTail].last = L[Len(L)]
  /\ \A k, l \in 1 .. Len(L) : h.elems[L[k]].key = h.elems[L[l]].key => k = l

Table(h, L, F, w, W, B) == Shape(h) /\ Lists(h, L, F, w, W) /\ Buckets(h, L, B)

LEMMA ShapeFacts ==
  ASSUME NEW h, Shape(h)
  PROVE  /\ h.elems \in Seq(Elem) /\ Len(h.elems) \in Nat /\ DOMAIN h.elems = 1 .. Len(h.elems)
         /\ \A x \in DOMAIN h.elems : h.elems[x] \in Elem
         /\ h.buckets \in Seq(Slot) /\ Len(h.buckets) \in Nat
         /\ DOMAIN h.buckets = 1 .. Len(h.buckets)
         /\ \A b \in DOMAIN h.buckets : h.buckets[b] \in Slot
         /\ h.size \in Nat /\ h.size # 0 /\ h.size <= Len(h.buckets)
         /\ DOMAIN Tails(h) = DOMAIN h.elems /\ DOMAIN Prevs(h) = DOMAIN h.buckets
         /\ \A x \in DOMAIN h.elems : Tails(h)[x] = h.elems[x].tail
         /\ \A b \in DOMAIN h.buckets : Prevs(h)[b] = h.buckets[b].prev
         /\ 0 \notin DOMAIN Tails(h) /\ 0 \notin DOMAIN Prevs(h)
         /\ IsFiniteSet(DOMAIN Tails(h)) /\ IsFiniteSet(DOMAIN Prevs(h))
<1>1. /\ h.elems \in Seq(Elem) /\ h.buckets \in Seq(Slot)
      /\ h.size \in Nat /\ h.size # 0 /\ h.size <= Len(h.buckets)
  BY DEF Shape
<1>2. Len(h.elems) \in Nat /\ Len(h.buckets) \in Nat
      /\ DOMAIN h.elems = 1 .. Len(h.elems) /\ DOMAIN h.buckets = 1 .. Len(h.buckets)
      /\ (\A x \in DOMAIN h.elems : h.elems[x] \in Elem)
      /\ (\A b \in DOMAIN h.buckets : h.buckets[b] \in Slot)
  BY <1>1
<1>3. DOMAIN Tails(h) = DOMAIN h.elems /\ DOMAIN Prevs(h) = DOMAIN h.buckets
      /\ (\A x \in DOMAIN h.elems : Tails(h)[x] = h.elems[x].tail)
      /\ (\A b \in DOMAIN h.buckets : Prevs(h)[b] = h.buckets[b].prev)
  BY DEF Tails, Prevs
<1>4. IsFiniteSet(1 .. Len(h.elems)) /\ IsFiniteSet(1 .. Len(h.buckets))
  <2>1. 1 \in Int /\ Len(h.elems) \in Int /\ Len(h.buckets) \in Int
    BY <1>2
  <2>2. QED
    BY <2>1, FS_Interval
<1>5. 0 \notin DOMAIN Tails(h) /\ 0 \notin DOMAIN Prevs(h)
  BY <1>2, <1>3
<1>6. QED
  BY <1>1, <1>2, <1>3, <1>4, <1>5

\* What Chain walks.
LEMMA ChainIs ==
  ASSUME NEW h, Shape(h), NEW x, NEW p, Linked(Tails(h), x, p)
  PROVE  H!Chain(h, x) = p
<1>1. H!Chain(h, x) = H!Links(Tails(h), x)
  BY DEF H!Chain, Tails
<1>2. QED
  BY <1>1, ShapeFacts, LinksIs

LEMMA HomeIs ==
  ASSUME NEW h, Shape(h), NEW key \in Nat
  PROVE  H!Bucket(h, key) \in DOMAIN h.buckets
<1>1. h.size \in Nat /\ h.size # 0 /\ h.size <= Len(h.buckets) /\ Len(h.buckets) \in Nat
      /\ DOMAIN h.buckets = 1 .. Len(h.buckets)
  BY ShapeFacts
<1>2. key % h.size \in 0 .. h.size - 1
  BY <1>1
<1>3. QED
  BY <1>1, <1>2 DEF H!Bucket

\* The buckets depend on the keys of the list alone.
LEMMA BucketsSame ==
  ASSUME NEW h, NEW g, NEW L, NEW B, Buckets(h, L, B), \A k \in 1 .. Len(L) : L[k] \in DOMAIN h.elems,
         g.buckets = h.buckets, g.bucketTail = h.bucketTail, g.size = h.size,
         \A e \in Members(L) : g.elems[e].key = h.elems[e].key
  PROVE  Buckets(g, L, B)
<1>1. Prevs(g) = Prevs(h)
  BY DEF Prevs
<1>2. \A k \in 1 .. Len(L) : g.elems[L[k]].key = h.elems[L[k]].key /\ Home(g, L[k]) = Home(h, L[k])
  BY DEF Members, Home, H!Bucket
<1>3. ASSUME NEW b, NEW i, NEW j, Ends(h, L, b, i, j)
      PROVE  Ends(g, L, b, i, j)
  BY <1>2, <1>3 DEF Ends
<1>4. QED
  BY <1>1, <1>2, <1>3 DEF Buckets

-----------------------------------------------------------------------------
(* Its operations *)

LEMMA SetValKeeps ==
  ASSUME NEW h, NEW L, NEW F, NEW w, NEW W, NEW B, Table(h, L, F, w, W, B),
         NEW e \in DOMAIN h.elems, NEW val \in Nat
  PROVE  /\ Table(H!SetVal(h, e, val), L, F, w, W, B)
         /\ DOMAIN H!SetVal(h, e, val).elems = DOMAIN h.elems
         /\ \A x \in DOMAIN h.elems : H!SetVal(h, e, val).elems[x].key = h.elems[x].key
         /\ \A x \in DOMAIN h.elems :
              H!SetVal(h, e, val).elems[x].val = IF x = e THEN val ELSE h.elems[x].val
<1> DEFINE g == H!SetVal(h, e, val)
<1>1. Shape(h) /\ Lists(h, L, F, w, W) /\ Buckets(h, L, B)
  BY DEF Table
<1>2. /\ h.elems \in Seq(Elem) /\ DOMAIN h.elems = 1 .. Len(h.elems) /\ Len(h.elems) \in Nat
      /\ \A x \in DOMAIN h.elems : h.elems[x] \in Elem
  BY <1>1, ShapeFacts
<1>3. /\ g = [h EXCEPT !.elems = g.elems]
      /\ g.elems = [x \in DOMAIN h.elems |-> IF x = e THEN [h.elems[e] EXCEPT !.val = val] ELSE h.elems[x]]
  BY <1>1 DEF H!SetVal, Shape
<1> HIDE DEF g
<1>4. ASSUME NEW x \in DOMAIN h.elems
      PROVE  /\ g.elems[x] \in Elem /\ g.elems[x].key = h.elems[x].key /\ g.elems[x].tail = h.elems[x].tail
             /\ g.elems[x].val = IF x = e THEN val ELSE h.elems[x].val
  <2>1. h.elems[x] \in Elem
    BY <1>2
  <2>2. CASE x = e
    <3>1. g.elems[x] = [h.elems[x] EXCEPT !.val = val]
      BY <1>3, <2>2
    <3>2. QED
      BY <2>1, <2>2, <3>1 DEF Elem
  <2>3. CASE x # e
    <3>1. g.elems[x] = h.elems[x]
      BY <1>3, <2>3
    <3>2. QED
      BY <2>1, <2>3, <3>1
  <2>4. QED
    BY <2>2, <2>3
<1>5. DOMAIN g.elems = DOMAIN h.elems
  BY <1>3
<1>6. g.elems \in Seq(Elem)
  BY <1>2, <1>4, <1>5, <1>3, FunctionIsSeq
<1>7. Shape(g) /\ g.head = h.head /\ g.freed = h.freed /\ g.buckets = h.buckets
      /\ g.bucketTail = h.bucketTail /\ g.size = h.size
  <2>1. g.head = h.head /\ g.freed = h.freed /\ g.buckets = h.buckets
        /\ g.bucketTail = h.bucketTail /\ g.size = h.size
    BY <1>1, <1>3 DEF Shape
  <2>2. g \in [head : Nat, bucketTail : Nat, size : Nat \ {0}, buckets : Seq(Slot),
            freed : Nat, elems : Seq(Elem)]
    BY <1>1, <1>3, <1>6 DEF Shape
  <2>3. QED
    BY <1>1, <2>1, <2>2 DEF Shape
<1>8. Tails(g) = Tails(h)
  BY <1>4, <1>5 DEF Tails
<1>9. Lists(g, L, F, w, W)
  BY <1>1, <1>5, <1>7, <1>8 DEF Lists
<1>10. \A k \in 1 .. Len(L) : L[k] \in DOMAIN h.elems
  BY <1>1 DEF Lists, Members
<1>11. \A x \in Members(L) : g.elems[x].key = h.elems[x].key
  BY <1>4, <1>10 DEF Members
<1>12. Buckets(g, L, B)
  BY <1>1, <1>7, <1>10, <1>11, BucketsSame
<1>13. QED
  BY <1>4, <1>5, <1>7, <1>9, <1>12 DEF Table, g

\* The first of the list that is walked is freed.
LEMMA DeleteKeeps ==
  ASSUME NEW h, NEW L, NEW F, NEW w, NEW W, NEW B, Table(h, L, F, w, W, B), w # 0
  PROVE  /\ Table(H!Delete(h, w), L, Inserted(F, 0, w), h.elems[w].tail, From(W, 2), B)
         /\ DOMAIN H!Delete(h, w).elems = DOMAIN h.elems
         /\ \A x \in DOMAIN h.elems : /\ H!Delete(h, w).elems[x].key = h.elems[x].key
                                      /\ H!Delete(h, w).elems[x].val = h.elems[x].val
         /\ Members(From(W, 2)) = Members(W) \ {w} /\ w \in Members(W)
<1> DEFINE g == H!Delete(h, w)
           V == From(W, 2)
           G == Inserted(F, 0, w)
<1>1. Shape(h) /\ Lists(h, L, F, w, W) /\ Buckets(h, L, B)
  BY DEF Table
<1>2. /\ h.elems \in Seq(Elem) /\ DOMAIN h.elems = 1 .. Len(h.elems) /\ Len(h.elems) \in Nat
      /\ \A x \in DOMAIN h.elems : h.elems[x] \in Elem
  BY <1>1, ShapeFacts
<1>3. Linked(Tails(h), Tails(h)[w], V) /\ Members(V) = Members(W) \ {w} /\ w \in Members(W)
  BY <1>1, LinkedTail DEF Lists
<1>4. w \in DOMAIN h.elems /\ w \notin Members(F) /\ w \notin Members(L) /\ w \notin Members(V)
  BY <1>1, <1>3 DEF Lists
<1>5. Tails(h)[w] = h.elems[w].tail
  BY <1>4 DEF Tails
<1>6. /\ g = [h EXCEPT !.elems = g.elems, !.freed = w]
      /\ g.elems = [x \in DOMAIN h.elems |-> IF x = w THEN [h.elems[w] EXCEPT !.tail = h.freed] ELSE h.elems[x]]
  BY <1>1 DEF H!Delete, Shape
<1> HIDE DEF g
<1>7. ASSUME NEW x \in DOMAIN h.elems
      PROVE  /\ g.elems[x] \in Elem /\ g.elems[x].key = h.elems[x].key /\ g.elems[x].val = h.elems[x].val
             /\ g.elems[x].tail = IF x = w THEN h.freed ELSE h.elems[x].tail
  <2>1. h.elems[x] \in Elem /\ h.freed \in Nat
    BY <1>1, <1>2 DEF Shape
  <2>2. CASE x = w
    <3>1. g.elems[x] = [h.elems[x] EXCEPT !.tail = h.freed]
      BY <1>6, <2>2
    <3>2. QED
      BY <2>1, <2>2, <3>1 DEF Elem
  <2>3. CASE x # w
    <3>1. g.elems[x] = h.elems[x]
      BY <1>6, <2>3
    <3>2. QED
      BY <2>1, <2>3, <3>1
  <2>4. QED
    BY <2>2, <2>3
<1>8. DOMAIN g.elems = DOMAIN h.elems
  BY <1>6
<1>9. g.elems \in Seq(Elem)
  BY <1>2, <1>6, <1>7, <1>8, FunctionIsSeq
<1>10. Shape(g) /\ g.head = h.head /\ g.freed = w /\ g.buckets = h.buckets
       /\ g.bucketTail = h.bucketTail /\ g.size = h.size
  <2>1. g.head = h.head /\ g.freed = w /\ g.buckets = h.buckets
        /\ g.bucketTail = h.bucketTail /\ g.size = h.size
    BY <1>1, <1>6 DEF Shape
  <2>2. w \in Nat
    BY <1>2, <1>4
  <2>3. g \in [head : Nat, bucketTail : Nat, size : Nat \ {0}, buckets : Seq(Slot),
            freed : Nat, elems : Seq(Elem)]
    BY <1>1, <1>6, <1>9, <2>2 DEF Shape
  <2>4. QED
    BY <1>1, <2>1, <2>3 DEF Shape
<1>11. /\ DOMAIN Tails(g) = DOMAIN Tails(h) /\ DOMAIN Tails(h) = DOMAIN h.elems
       /\ \A x \in DOMAIN h.elems : x # w => Tails(g)[x] = Tails(h)[x]
       /\ Tails(g)[w] = h.freed
  BY <1>4, <1>7, <1>8 DEF Tails
<1>12. Lists(g, L, G, h.elems[w].tail, V)
  <2>1. Members(L) \subseteq DOMAIN h.elems /\ Members(F) \subseteq DOMAIN h.elems /\ Members(V) \subseteq DOMAIN h.elems
    BY <1>1, <1>3 DEF Lists
  <2>2. Linked(Tails(g), g.head, L)
    <3>1. Linked(Tails(h), g.head, L) /\ \A m \in Members(L) : Tails(g)[m] = Tails(h)[m]
      BY <1>1, <1>4, <1>10, <1>11, <2>1 DEF Lists
    <3>2. QED
      BY <1>11, <3>1, LinkedSame
  <2>3. Linked(Tails(g), h.elems[w].tail, V)
    <3>1. Linked(Tails(h), h.elems[w].tail, V) /\ \A m \in Members(V) : Tails(g)[m] = Tails(h)[m]
      BY <1>3, <1>4, <1>5, <1>11, <2>1
    <3>2. QED
      BY <1>11, <3>1, LinkedSame
  <2>4. Linked(Tails(g), g.freed, G) /\ Members(G) = Members(F) \cup {w}
    <3>1. Linked(Tails(h), h.freed, F)
      BY <1>1 DEF Lists
    <3>2. F \in Seq(DOMAIN Tails(h)) /\ h.freed = Item(F, 1) /\ Len(F) \in Nat
      BY <3>1 DEF Linked
    <3>3. 0 \in 0 .. Len(F) /\ w \in DOMAIN Tails(g) /\ Tails(g)[w] = Item(F, 0 + 1) /\ ~(0 > 0)
      BY <1>4, <1>11, <3>2
    <3>4. \A m \in Members(F) : Tails(g)[m] = Tails(h)[m]
      BY <1>4, <1>11, <2>1
    <3>5. Linked(Tails(g), IF 0 = 0 THEN w ELSE h.freed, Inserted(F, 0, w))
      BY <1>4, <1>11, <3>1, <3>3, <3>4, LinkedInsert
    <3>6. Members(G) = Members(F) \cup {w}
      <4>1. F \in Seq(DOMAIN Tails(h)) /\ 0 \in 0 .. Len(F)
        BY <3>2, <3>3
      <4>2. QED
        BY <4>1, InsertedMembers
    <3>7. QED
      BY <1>10, <3>5, <3>6
  <2>5. Members(L) \cup Members(F) \cup Members(W) = DOMAIN h.elems
        /\ Members(L) \cap Members(F) = {} /\ Members(L) \cap Members(W) = {} /\ Members(F) \cap Members(W) = {}
    BY <1>1 DEF Lists
  <2> HIDE DEF G, V
  <2>6. QED
    BY <1>3, <1>8, <2>2, <2>3, <2>4, <2>5 DEF Lists
<1>13. Buckets(g, L, B)
  <2>1. \A k \in 1 .. Len(L) : L[k] \in DOMAIN h.elems
    BY <1>1 DEF Lists, Members
  <2>2. \A x \in Members(L) : g.elems[x].key = h.elems[x].key
    BY <1>7, <2>1 DEF Members
  <2>3. QED
    BY <1>1, <1>10, <2>1, <2>2, BucketsSame
<1>14. QED
  BY <1>3, <1>7, <1>8, <1>10, <1>12, <1>13 DEF Table, g

\* The list becomes the one that is walked; no bucket is in use.
LEMMA ClearKeeps ==
  ASSUME NEW h, NEW L, NEW F, NEW W, NEW B, Table(h, L, F, 0, W, B)
  PROVE  /\ Table(H!Clear(h), <<>>, F, h.head, L, <<>>)
         /\ H!Clear(h).elems = h.elems
         /\ W = <<>>
<1> DEFINE g == H!Clear(h)
<1>1. Shape(h) /\ Lists(h, L, F, 0, W) /\ Buckets(h, L, B)
  BY DEF Table
<1>2. /\ h.buckets \in Seq(Slot) /\ Len(h.buckets) \in Nat
      /\ DOMAIN h.buckets = 1 .. Len(h.buckets) /\ 0 \notin DOMAIN Tails(h) /\ 0 \notin DOMAIN Prevs(h)
      /\ IsFiniteSet(DOMAIN Prevs(h))
      /\ \A b \in DOMAIN h.buckets : h.buckets[b] \in Slot
  BY <1>1, ShapeFacts
<1>3. W = <<>>
  BY <1>1, <1>2, LinkedNull DEF Lists
<1>4. H!ActiveBuckets(h) = Members(B)
  <2>1. H!Links(Prevs(h), h.bucketTail) = B
    BY <1>1, <1>2, LinksIs DEF Buckets
  <2>2. H!ActiveBuckets(h) = {B[i] : i \in DOMAIN B}
    BY <2>1 DEF H!ActiveBuckets, Prevs
  <2>3. DOMAIN B = 1 .. Len(B)
    BY <1>1 DEF Buckets, Linked
  <2>4. QED
    BY <2>2, <2>3 DEF Members
<1>5. /\ g = [h EXCEPT !.head = 0, !.bucketTail = 0, !.buckets = g.buckets]
      /\ g.buckets = [b \in DOMAIN h.buckets |->
                        IF b \in Members(B) THEN [h.buckets[b] EXCEPT !.last = 0] ELSE h.buckets[b]]
  BY <1>1, <1>4 DEF H!Clear, Shape, H!Null
<1> HIDE DEF g
<1>6. ASSUME NEW b \in DOMAIN h.buckets
      PROVE  g.buckets[b] \in Slot /\ g.buckets[b].last = 0
  <2>1. h.buckets[b] \in Slot
    BY <1>2
  <2>2. CASE b \in Members(B)
    <3>1. g.buckets[b] = [h.buckets[b] EXCEPT !.last = 0]
      BY <1>5, <2>2
    <3>2. QED
      BY <2>1, <3>1 DEF Slot
  <2>3. CASE b \notin Members(B)
    <3>1. g.buckets[b] = h.buckets[b]
      BY <1>5, <2>3
    <3>2. QED
      BY <1>1, <2>1, <2>3, <3>1 DEF Buckets
  <2>4. QED
    BY <2>2, <2>3
<1>7. g.buckets \in Seq(Slot) /\ Len(g.buckets) = Len(h.buckets)
      /\ DOMAIN g.buckets = DOMAIN h.buckets
  <2>1. g.buckets \in [1 .. Len(h.buckets) -> Slot]
    BY <1>2, <1>5, <1>6
  <2>2. QED
    BY <1>2, <2>1, FunctionIsSeq
<1>8. Shape(g) /\ g.head = 0 /\ g.bucketTail = 0 /\ g.freed = h.freed /\ g.elems = h.elems /\ g.size = h.size
  <2>1. g.head = 0 /\ g.bucketTail = 0 /\ g.freed = h.freed /\ g.elems = h.elems /\ g.size = h.size
    BY <1>1, <1>5 DEF Shape
  <2>2. g \in [head : Nat, bucketTail : Nat, size : Nat \ {0}, buckets : Seq(Slot),
            freed : Nat, elems : Seq(Elem)]
    <3>1. g = [head |-> 0, bucketTail |-> 0, size |-> h.size, buckets |-> g.buckets,
               freed |-> h.freed, elems |-> h.elems]
      BY <1>1, <1>5 DEF Shape
    <3>2. h.size \in Nat \ {0} /\ h.freed \in Nat /\ h.elems \in Seq(Elem) /\ g.buckets \in Seq(Slot)
      BY <1>1, <1>7 DEF Shape
    <3>3. QED
      BY <3>1, <3>2
  <2>3. QED
    BY <1>1, <1>7, <2>1, <2>2 DEF Shape
<1>9. Tails(g) = Tails(h)
  BY <1>8 DEF Tails
<1>10. Lists(g, <<>>, F, h.head, L)
  <2>1. Linked(Tails(g), g.head, <<>>) /\ Members(<<>>) = {}
    BY <1>8, LinkedNone
  <2>2. Linked(Tails(g), g.freed, F) /\ Linked(Tails(g), h.head, L)
    BY <1>1, <1>8, <1>9 DEF Lists
  <2>3. QED
    BY <1>1, <1>3, <1>8, <2>1, <2>2 DEF Lists
<1>11. Buckets(g, <<>>, <<>>)
  <2>1. Linked(Prevs(g), g.bucketTail, <<>>) /\ Members(<<>>) = {}
    BY <1>8, LinkedNone
  <2>2. Len(<<>>) = 0
    OBVIOUS
  <2>3. QED
    BY <1>6, <1>7, <2>1, <2>2 DEF Buckets
<1>12. QED
  BY <1>3, <1>8, <1>10, <1>11 DEF Table, g

LEMMA EmptyTable ==
  ASSUME NEW h, NEW L, NEW B, Shape(h), Buckets(h, L, B), L = <<>>
  PROVE  B = <<>> /\ h.bucketTail = 0 /\ \A b \in DOMAIN h.buckets : h.buckets[b].last = 0
<1>1. Len(L) = 0
  OBVIOUS
<1>2. Members(B) = {}
  BY <1>1 DEF Buckets, Ends
<1>3. Linked(Prevs(h), h.bucketTail, B) /\ 0 \notin DOMAIN Prevs(h)
  BY ShapeFacts DEF Buckets
<1>4. Len(B) \in Nat /\ B \in Seq(DOMAIN Prevs(h))
  BY <1>3 DEF Linked
<1>5. B = <<>>
  BY <1>2, <1>4 DEF Members
<1>6. QED
  BY <1>2, <1>3, <1>5, LinkedNull DEF Buckets

LEMMA SetSizeKeeps ==
  ASSUME NEW h, NEW F, NEW w, NEW W, NEW B, Table(h, <<>>, F, w, W, B), NEW n \in Nat, n # 0
  PROVE  /\ Table(H!SetSize(h, n), <<>>, F, w, W, <<>>)
         /\ H!SetSize(h, n).elems = h.elems
<1> DEFINE g == H!SetSize(h, n)
           m == IF n > Len(h.buckets) THEN n ELSE Len(h.buckets)
<1>1. Shape(h) /\ Lists(h, <<>>, F, w, W) /\ Buckets(h, <<>>, B)
  BY DEF Table
<1>2. /\ h.buckets \in Seq(Slot) /\ Len(h.buckets) \in Nat
      /\ DOMAIN h.buckets = 1 .. Len(h.buckets)
      /\ \A b \in DOMAIN h.buckets : h.buckets[b] \in Slot
  BY <1>1, ShapeFacts
<1>3. h.bucketTail = 0 /\ \A b \in DOMAIN h.buckets : h.buckets[b].last = 0
  BY <1>1, EmptyTable
<1>4. /\ g = [h EXCEPT !.size = n, !.buckets = g.buckets]
      /\ g.buckets = [b \in 1 .. m |-> IF b \in DOMAIN h.buckets THEN h.buckets[b] ELSE [prev |-> 1, last |-> 0]]
  BY <1>1 DEF H!SetSize, Shape, H!Empty, H!Null
<1> HIDE DEF g
<1>5. m \in Nat /\ n <= m
  BY <1>2
<1> HIDE DEF m
<1>6. ASSUME NEW b \in 1 .. m
      PROVE  g.buckets[b] \in Slot /\ g.buckets[b].last = 0
  <2>1. CASE b \in DOMAIN h.buckets
    <3>1. g.buckets[b] = h.buckets[b] /\ h.buckets[b] \in Slot
      BY <1>2, <1>4, <2>1
    <3>2. QED
      BY <1>3, <2>1, <3>1
  <2>2. CASE b \notin DOMAIN h.buckets
    <3>1. g.buckets[b] = [prev |-> 1, last |-> 0]
      BY <1>4, <2>2
    <3>2. QED
      BY <3>1 DEF Slot
  <2>3. QED
    BY <2>1, <2>2
<1>7. g.buckets \in Seq(Slot) /\ Len(g.buckets) = m /\ DOMAIN g.buckets = 1 .. m
  <2>1. g.buckets \in [1 .. m -> Slot]
    BY <1>4, <1>6
  <2>2. QED
    BY <1>5, <2>1, FunctionIsSeq
<1>8. Shape(g) /\ g.head = h.head /\ g.bucketTail = 0 /\ g.freed = h.freed /\ g.elems = h.elems /\ g.size = n
  <2>1. g.head = h.head /\ g.bucketTail = 0 /\ g.freed = h.freed /\ g.elems = h.elems /\ g.size = n
    BY <1>1, <1>3, <1>4 DEF Shape
  <2>2. g \in [head : Nat, bucketTail : Nat, size : Nat \ {0}, buckets : Seq(Slot),
            freed : Nat, elems : Seq(Elem)]
    BY <1>1, <1>4, <1>7 DEF Shape
  <2>3. QED
    BY <1>5, <1>7, <2>1, <2>2 DEF Shape
<1>9. Tails(g) = Tails(h)
  BY <1>8 DEF Tails
<1>10. Lists(g, <<>>, F, w, W)
  BY <1>1, <1>8, <1>9 DEF Lists
<1>11. Buckets(g, <<>>, <<>>)
  <2>1. Linked(Prevs(g), g.bucketTail, <<>>) /\ Members(<<>>) = {}
    BY <1>8, LinkedNone
  <2>2. Len(<<>>) = 0
    OBVIOUS
  <2>3. QED
    BY <1>6, <1>7, <2>1, <2>2 DEF Buckets
<1>12. QED
  BY <1>8, <1>10, <1>11 DEF Table, g

\* A block of new elements is freed when no freed one is left.
LEMMA ReserveKeeps ==
  ASSUME NEW h, NEW L, NEW F, NEW w, NEW W, NEW B, Table(h, L, F, w, W, B)
  PROVE  LET g == H!Reserve(h)
         IN  /\ \E G : Table(g, L, G, w, W, B)
             /\ g.freed # 0
             /\ g.head = h.head /\ g.bucketTail = h.bucketTail /\ g.buckets = h.buckets /\ g.size = h.size
             /\ DOMAIN h.elems \subseteq DOMAIN g.elems
             /\ \A x \in DOMAIN h.elems : g.elems[x] = h.elems[x]
<1> DEFINE g == H!Reserve(h)
<1>1. CASE h.freed # 0
  <2>1. g = h
    BY <1>1 DEF H!Reserve, H!Null
  <2>2. QED
    BY <1>1, <2>1
<1>2. CASE h.freed = 0
  <2> DEFINE n == Len(h.elems)
             block == [i \in 1 .. BlockSize |->
                         [key |-> 0, val |-> 0, tail |-> IF i = BlockSize THEN 0 ELSE n + i + 1]]
             G == [i \in 1 .. BlockSize |-> n + i]
  <2>1. Shape(h) /\ Lists(h, L, F, w, W) /\ Buckets(h, L, B)
    BY DEF Table
  <2>2. /\ h.elems \in Seq(Elem) /\ DOMAIN h.elems = 1 .. n /\ n \in Nat
        /\ \A x \in DOMAIN h.elems : h.elems[x] \in Elem
    BY <2>1, ShapeFacts
  <2>3. BlockSize \in Nat /\ BlockSize # 0
    BY HLevelAssumption
  <2>4. block \in Seq(Elem) /\ Len(block) = BlockSize
    <3>1. \A i \in 1 .. BlockSize : [key |-> 0, val |-> 0, tail |-> IF i = BlockSize THEN 0 ELSE n + i + 1] \in Elem
      BY <2>2 DEF Elem
    <3>2. block \in [1 .. BlockSize -> Elem]
      BY <3>1
    <3> HIDE DEF block
    <3>3. QED
      BY <2>3, <3>2, FunctionIsSeq
  <2>5. g = [h EXCEPT !.elems = h.elems \o block, !.freed = n + 1]
    BY <1>2, <2>1 DEF H!Reserve, H!Null, Shape
  <2>6. \A i \in 1 .. BlockSize : block[i].tail = IF i = BlockSize THEN 0 ELSE n + i + 1
    OBVIOUS
  <2> HIDE DEF block, g
  <2>7. /\ g.elems = h.elems \o block /\ g.freed = n + 1 /\ g.head = h.head
        /\ g.bucketTail = h.bucketTail /\ g.buckets = h.buckets /\ g.size = h.size
    BY <2>1, <2>5 DEF Shape
  <2>8. /\ g.elems \in Seq(Elem) /\ Len(g.elems) = n + BlockSize /\ DOMAIN g.elems = 1 .. n + BlockSize
        /\ (\A x \in 1 .. n : g.elems[x] = h.elems[x])
        /\ (\A i \in 1 .. BlockSize : g.elems[n + i] = block[i])
    <3>1. PICK t : t = h.elems \o block
      OBVIOUS
    <3>2. t \in Seq(Elem) /\ Len(t) = n + BlockSize
      BY <2>2, <2>4, <3>1, ConcatProperties
    <3>3. \A x \in 1 .. n : t[x] = h.elems[x]
      BY <2>2, <2>4, <3>1
    <3>4. \A i \in 1 .. BlockSize : t[n + i] = block[i]
      BY <2>2, <2>3, <2>4, <3>1
    <3>5. DOMAIN t = 1 .. n + BlockSize
      BY <3>2
    <3>6. QED
      BY <2>7, <3>1, <3>2, <3>3, <3>4, <3>5
  <2>9. Shape(g)
    <3>1. g = [head |-> h.head, bucketTail |-> h.bucketTail, size |-> h.size, buckets |-> h.buckets,
               freed |-> n + 1, elems |-> g.elems]
      BY <2>1, <2>5, <2>7 DEF Shape
    <3>2. /\ h.head \in Nat /\ h.bucketTail \in Nat /\ h.size \in Nat \ {0}
          /\ h.buckets \in Seq(Slot) /\ n + 1 \in Nat /\ h.size <= Len(h.buckets)
      BY <2>1, <2>2 DEF Shape
    <3> HIDE DEF n
    <3>3. QED
      BY <2>7, <2>8, <3>1, <3>2 DEF Shape
  <2>10. /\ DOMAIN Tails(g) = 1 .. n + BlockSize /\ DOMAIN Tails(h) = 1 .. n
         /\ (\A x \in 1 .. n : Tails(g)[x] = Tails(h)[x])
         /\ (\A i \in 1 .. BlockSize : Tails(g)[n + i] = IF i = BlockSize THEN 0 ELSE n + i + 1)
    <3> HIDE DEF n, g, block
    <3>1. DOMAIN g.elems = 1 .. n + BlockSize /\ DOMAIN h.elems = 1 .. n
      BY <2>2, <2>8
    <3>2. /\ DOMAIN Tails(g) = DOMAIN g.elems /\ \A x \in DOMAIN g.elems : Tails(g)[x] = g.elems[x].tail
          /\ DOMAIN Tails(h) = DOMAIN h.elems /\ \A x \in DOMAIN h.elems : Tails(h)[x] = h.elems[x].tail
      BY DEF Tails
    <3>3. \A x \in 1 .. n : x \in 1 .. n + BlockSize
      BY <2>2, <2>3
    <3>4. \A i \in 1 .. BlockSize : n + i \in 1 .. n + BlockSize
      BY <2>2, <2>3
    <3>5. \A x \in 1 .. n : Tails(g)[x] = Tails(h)[x]
      BY <2>8, <3>1, <3>2, <3>3
    <3>6. \A i \in 1 .. BlockSize : Tails(g)[n + i] = block[i].tail
      BY <2>8, <3>1, <3>2, <3>4
    <3>7. QED
      BY <2>6, <3>1, <3>2, <3>5, <3>6
  <2>11. Members(L) \subseteq 1 .. n /\ Members(W) \subseteq 1 .. n /\ F = <<>>
    <3>1. F = <<>>
      BY <1>2, <2>1, ShapeFacts, LinkedNull DEF Lists
    <3>2. QED
      BY <2>1, <2>2, <3>1 DEF Lists
  <2>12. Linked(Tails(g), g.head, L) /\ Linked(Tails(g), w, W)
    <3>1. DOMAIN Tails(h) \subseteq DOMAIN Tails(g)
      BY <2>2, <2>3, <2>10
    <3>2. Linked(Tails(h), h.head, L) /\ Linked(Tails(h), w, W)
      BY <2>1 DEF Lists
    <3>3. (\A m \in Members(L) : Tails(g)[m] = Tails(h)[m]) /\ (\A m \in Members(W) : Tails(g)[m] = Tails(h)[m])
      BY <2>10, <2>11
    <3>4. Linked(Tails(g), h.head, L)
      BY <3>1, <3>2, <3>3, LinkedSame
    <3>5. Linked(Tails(g), w, W)
      BY <3>1, <3>2, <3>3, LinkedSame
    <3>6. QED
      BY <2>7, <3>4, <3>5
  <2>13. Linked(Tails(g), g.freed, G) /\ Members(G) = n + 1 .. n + BlockSize
    <3>1. G \in [1 .. BlockSize -> DOMAIN Tails(g)]
      BY <2>2, <2>3, <2>10
    <3>2. G \in Seq(DOMAIN Tails(g)) /\ Len(G) = BlockSize
      <4> HIDE DEF G
      <4> QED BY <2>3, <3>1, FunctionIsSeq
    <3>3. \A i \in 1 .. BlockSize : G[i] = n + i
      OBVIOUS
    <3> HIDE DEF G, n
    <3>4. g.freed = Item(G, 1)
      BY <2>3, <2>7, <3>2, <3>3 DEF Item
    <3>5. ASSUME NEW i \in 1 .. Len(G) PROVE Tails(g)[G[i]] = Item(G, i + 1)
      <4>1. Tails(g)[G[i]] = IF i = BlockSize THEN 0 ELSE n + i + 1
        BY <2>10, <3>2, <3>3
      <4>2. Item(G, i + 1) = IF i = BlockSize THEN 0 ELSE n + i + 1
        <5>1. CASE i = BlockSize
          BY <2>3, <3>2, <5>1 DEF Item
        <5>2. CASE i # BlockSize
          <6>1. i + 1 \in 1 .. BlockSize
            BY <2>3, <3>2, <5>2
          <6>2. G[i + 1] = n + (i + 1)
            BY <3>3, <6>1
          <6>3. n + (i + 1) = n + i + 1
            BY <2>2, <2>3, <3>2
          <6>4. QED
            BY <3>2, <5>2, <6>1, <6>2, <6>3 DEF Item
        <5>3. QED
          BY <5>1, <5>2
      <4>3. QED
        BY <4>1, <4>2
    <3>6. \A i, k \in 1 .. Len(G) : G[i] = G[k] => i = k
      BY <2>2, <2>3, <3>2, <3>3
    <3>7. Members(G) = n + 1 .. n + BlockSize
      <4>1. \A i \in 1 .. Len(G) : G[i] \in n + 1 .. n + BlockSize
        BY <2>2, <2>3, <3>2, <3>3
      <4>2. \A m \in n + 1 .. n + BlockSize : m - n \in 1 .. Len(G) /\ G[m - n] = m
        BY <2>2, <2>3, <3>2, <3>3
      <4>3. QED
        BY <4>1, <4>2 DEF Members
    <3>8. QED
      BY <3>2, <3>4, <3>5, <3>6, <3>7 DEF Linked
  <2>14. Lists(g, L, G, w, W)
    <3>1. Members(L) \cup Members(W) = 1 .. n /\ Members(L) \cap Members(W) = {}
      <4>1. Members(F) = {}
        BY <2>11, LinkedNone
      <4>2. QED
        BY <2>1, <2>2, <4>1 DEF Lists
    <3> HIDE DEF G, n
    <3>2. 1 .. n + BlockSize = (1 .. n) \cup (n + 1 .. n + BlockSize) /\ (1 .. n) \cap (n + 1 .. n + BlockSize) = {}
      BY <2>2, <2>3
    <3>3. QED
      BY <2>8, <2>12, <2>13, <3>1, <3>2 DEF Lists
  <2>15. Buckets(g, L, B)
    <3>1. \A k \in 1 .. Len(L) : L[k] \in DOMAIN h.elems
      BY <2>2, <2>11 DEF Members
    <3>2. \A x \in Members(L) : g.elems[x].key = h.elems[x].key
      BY <2>8, <2>11
    <3>3. QED
      BY <2>1, <2>7, <3>1, <3>2, BucketsSame
  <2>16. g.freed # 0 /\ DOMAIN h.elems \subseteq DOMAIN g.elems /\ \A x \in DOMAIN h.elems : g.elems[x] = h.elems[x]
    BY <2>2, <2>3, <2>7, <2>8
  <2>17. \E G1 : Table(g, L, G1, w, W, B)
    BY <2>9, <2>14, <2>15 DEF Table
  <2>18. QED
    BY <2>7, <2>16, <2>17 DEF g
<1>3. QED
  BY <1>1, <1>2

\* The first of the indexes in I.
LEMMA LeastIs ==
  ASSUME NEW I, I \subseteq Nat
  PROVE  LET i == IF I # {} THEN H!Min(I) ELSE 0
         IN  (I = {} /\ i = 0) \/ (i \in I /\ \A k \in I : i <= k)
<1>1. CASE I = {}
  BY <1>1
<1>2. CASE I # {}
  <2>1. \E i \in I : \A k \in I : i <= k
    BY <1>2, LeastNumber
  <2>2. H!Min(I) \in I /\ \A k \in I : H!Min(I) <= k
    BY <2>1 DEF H!Min
  <2>3. QED
    BY <1>2, <2>2
<1>3. QED
  BY <1>1, <1>2

\* Where the elements of a bucket begin and end.
LEMMA EndsAre ==
  ASSUME NEW h, NEW L, NEW F, NEW w, NEW W, NEW B, Table(h, L, F, w, W, B), NEW b, NEW i, NEW j, Ends(h, L, b, i, j)
  PROVE  /\ (IF h.buckets[b].prev = 0 THEN h.head ELSE h.elems[h.buckets[h.buckets[b].prev].last].tail) = L[i + 1]
         /\ h.elems[h.buckets[b].last].tail = Item(L, j + 1)
<1>1. Shape(h) /\ Lists(h, L, F, w, W)
  BY DEF Table
<1>2. /\ Len(L) \in Nat /\ h.head = Item(L, 1)
      /\ \A k \in 1 .. Len(L) : Tails(h)[L[k]] = Item(L, k + 1) /\ L[k] \in DOMAIN Tails(h)
  BY <1>1 DEF Lists, Linked
<1>3. /\ \A k \in 1 .. Len(L) : h.elems[L[k]].tail = Item(L, k + 1)
      /\ DOMAIN h.buckets = 1 .. Len(h.buckets)
  BY <1>1, <1>2, ShapeFacts
<1>4. i + 1 \in 1 .. Len(L) /\ Item(L, i + 1) = L[i + 1] /\ i \in 0 .. Len(L) /\ j \in 1 .. Len(L)
  BY <1>2 DEF Ends, Item
<1>5. CASE i = 0
  BY <1>2, <1>3, <1>4, <1>5 DEF Ends
<1>6. CASE i # 0
  <2>1. h.buckets[b].prev # 0 /\ h.buckets[h.buckets[b].prev].last = L[i] /\ h.buckets[b].last = L[j]
    BY <1>3, <1>6 DEF Ends
  <2>2. i \in 1 .. Len(L)
    BY <1>4, <1>6
  <2>3. QED
    BY <1>3, <1>4, <2>1, <2>2
<1>7. QED
  BY <1>5, <1>6

LEMMA FindIs ==
  ASSUME NEW h, NEW L, NEW F, NEW w, NEW W, NEW B, Table(h, L, F, w, W, B), NEW key \in Nat
  PROVE  \/ \E k \in 1 .. Len(L) : h.elems[L[k]].key = key /\ H!Find(h, key) = L[k]
         \/ H!Find(h, key) = 0 /\ \A k \in 1 .. Len(L) : h.elems[L[k]].key # key
<1> DEFINE b == H!Bucket(h, key)
           bucket == h.buckets[b]
           first == IF bucket.prev = 0 THEN h.head ELSE h.elems[h.buckets[bucket.prev].last].tail
           tail == h.elems[bucket.last].tail
           items == H!Chain(h, first)
           Hit(e) == e = tail \/ h.elems[e].key = key
           I == {m \in 1 .. Len(items) : Hit(items[m])}
           i0 == IF I # {} THEN H!Min(I) ELSE 0
<1>1. Shape(h) /\ Lists(h, L, F, w, W) /\ Buckets(h, L, B)
  BY DEF Table
<1>2. b \in DOMAIN h.buckets
  BY <1>1, HomeIs
<1>3. \A k \in 1 .. Len(L) : h.elems[L[k]].key = key => Home(h, L[k]) = b /\ b \in Members(B)
  BY <1>1 DEF Home, Buckets
<1>4. H!Find(h, key) = IF bucket.last = 0 \/ i0 = 0 \/ items[i0] = tail THEN 0 ELSE items[i0]
  BY DEF H!Find, H!SelectInSeq, H!Null
<1>5. CASE b \notin Members(B)
  <2>1. bucket.last = 0
    BY <1>1, <1>2, <1>5 DEF Buckets
  <2>2. H!Find(h, key) = 0
    <3> HIDE DEF i0, items, tail, b
    <3> QED BY <1>4, <2>1
  <2>3. QED
    BY <1>3, <1>5, <2>2
<1>6. CASE b \in Members(B)
  <2>1. PICK i, j : Ends(h, L, b, i, j)
    BY <1>1, <1>6 DEF Buckets
  <2>2. first = L[i + 1] /\ tail = Item(L, j + 1)
    <3> HIDE DEF b
    <3>1. /\ (IF h.buckets[b].prev = 0 THEN h.head ELSE h.elems[h.buckets[h.buckets[b].prev].last].tail) = L[i + 1]
          /\ h.elems[h.buckets[b].last].tail = Item(L, j + 1)
      <4> HIDE DEF bucket, first, tail, items, Hit, I, i0
      <4> QED BY <2>1, EndsAre
    <3>2. QED
      BY <3>1
  <2>3. /\ Linked(Tails(h), h.head, L) /\ Len(L) \in Nat
        /\ (\A k, l \in 1 .. Len(L) : L[k] = L[l] => k = l)
        /\ \A k \in 1 .. Len(L) : L[k] \in DOMAIN Tails(h)
    BY <1>1 DEF Lists, Linked
  <2>4. i \in 0 .. Len(L) /\ j \in 1 .. Len(L) /\ i < j /\ bucket.last = L[j] /\ i + 1 \in 1 .. Len(L)
        /\ \A k \in 1 .. Len(L) : Home(h, L[k]) = b <=> i < k /\ k <= j
    BY <2>1, <2>3 DEF Ends
  <2>5. 0 \notin DOMAIN Tails(h)
    BY <1>1, ShapeFacts
  <2>6. bucket.last # 0
    BY <2>3, <2>4, <2>5
  <2>7. /\ Linked(Tails(h), first, From(L, i + 1)) /\ Len(From(L, i + 1)) = Len(L) - i
        /\ \A m \in 1 .. Len(L) - i : From(L, i + 1)[m] = L[i + m]
    <3> HIDE DEF first, tail, bucket, items, b
    <3>1. i + 1 \in 1 .. Len(L) + 1 /\ Item(L, i + 1) = first
      <4>1. i + 1 \in 1 .. Len(L) + 1
        BY <2>3, <2>4
      <4>2. Item(L, i + 1) = L[i + 1]
        BY <2>4 DEF Item
      <4>3. QED
        BY <2>2, <4>1, <4>2
    <3>2. Linked(Tails(h), Item(L, i + 1), From(L, i + 1))
      BY <2>3, <3>1, LinkedFrom
    <3>3. Len(From(L, i + 1)) = Len(L) - (i + 1) + 1
      BY <2>3, <3>1, LinkedFrom
    <3>4. \A m \in 1 .. Len(L) - (i + 1) + 1 : From(L, i + 1)[m] = L[(i + 1) + m - 1]
      BY DEF From
    <3>5. Len(L) - (i + 1) + 1 = Len(L) - i /\ \A m \in 1 .. Len(L) - i : (i + 1) + m - 1 = i + m
      BY <2>3, <2>4
    <3>6. QED
      BY <3>1, <3>2, <3>3, <3>4, <3>5
  <2>8. items = From(L, i + 1)
    BY <1>1, <2>7, ChainIs
  <2> HIDE DEF first, tail, bucket, items, b
  <2>9. /\ Len(items) = Len(L) - i
        /\ \A m \in 1 .. Len(items) : items[m] = L[i + m] /\ i + m \in 1 .. Len(L)
    BY <2>3, <2>4, <2>7, <2>8
  <2>10. I \subseteq Nat
    BY <2>3, <2>4, <2>9
  <2>11. (I = {} /\ i0 = 0) \/ (i0 \in I /\ \A k \in I : i0 <= k)
    <3> HIDE DEF I
    <3> QED BY <2>10, LeastIs
  <2>12. \A m \in 1 .. Len(items) : i + m <= j => items[m] # tail
    <3>1. \A k \in 1 .. Len(L) : k <= j => L[k] # Item(L, j + 1)
      <4>1. CASE j + 1 \in 1 .. Len(L)
        BY <2>3, <2>4, <4>1 DEF Item
      <4>2. CASE j + 1 \notin 1 .. Len(L)
        BY <2>3, <2>5, <4>2 DEF Item
      <4>3. QED
        BY <4>1, <4>2
    <3>2. QED
      BY <2>2, <2>9, <3>1
  <2>13. CASE \E k \in 1 .. Len(L) : h.elems[L[k]].key = key
    <3>1. PICK k \in 1 .. Len(L) : h.elems[L[k]].key = key
      BY <2>13
    <3>2. i < k /\ k <= j /\ k - i \in 1 .. Len(items) /\ i + (k - i) = k
      BY <1>3, <2>3, <2>4, <2>9, <3>1
    <3>3. k - i \in I
      BY <2>9, <3>1, <3>2
    <3>4. i0 \in I /\ i0 <= k - i /\ i0 \in 1 .. Len(items)
      <4>1. I # {}
        BY <3>3
      <4>2. i0 \in I /\ i0 <= k - i
        <5> HIDE DEF I, i0
        <5> QED BY <2>11, <3>3, <4>1
      <4>3. QED
        BY <4>2
    <3>5. items[i0] # tail
      <4>1. i + i0 <= j
        <5> HIDE DEF i0, I
        <5> QED BY <2>3, <2>4, <2>9, <3>2, <3>4
      <4>2. QED
        <5> HIDE DEF i0, I
        <5> QED BY <2>12, <3>4, <4>1
    <3>6. h.elems[items[i0]].key = key
      BY <3>4, <3>5
    <3>7. i + i0 = k
      <4>1. items[i0] = L[i + i0] /\ i + i0 \in 1 .. Len(L)
        BY <2>9, <3>4
      <4>2. QED
        BY <1>1, <3>1, <3>6, <4>1 DEF Buckets
    <3>8. items[i0] = L[k] /\ i0 # 0
      <4> HIDE DEF i0, I
      <4> QED BY <2>9, <3>4, <3>7
    <3>9. H!Find(h, key) = L[k]
      <4> HIDE DEF i0
      <4> QED BY <1>4, <2>6, <3>5, <3>8
    <3>10. QED
      BY <3>1, <3>9
  <2>14. CASE \A k \in 1 .. Len(L) : h.elems[L[k]].key # key
    <3>1. \A m \in I : items[m] = tail
      BY <2>9, <2>14
    <3>2. i0 = 0 \/ items[i0] = tail
      <4> HIDE DEF I, i0
      <4> QED BY <2>11, <3>1
    <3>3. H!Find(h, key) = 0
      <4> HIDE DEF i0
      <4> QED BY <1>4, <3>2
    <3>4. QED
      BY <2>14, <3>3
  <2>15. QED
    BY <2>13, <2>14
<1>7. QED
  BY <1>5, <1>6

\* The fields after an insertion, g; r is the table with a freed element.
InsertedFields(h, r, key, val, b, last0, before, tail, e, g) ==
  /\ Shape(g)
  /\ g.head = (IF before = 0 THEN e ELSE h.head)
  /\ g.freed = r.elems[e].tail
  /\ g.size = h.size
  /\ g.bucketTail = (IF last0 # 0 THEN h.bucketTail ELSE b)
  /\ DOMAIN g.buckets = DOMAIN h.buckets
  /\ \A c \in DOMAIN h.buckets : c # b => g.buckets[c] = h.buckets[c]
  /\ g.buckets[b].last = e
  /\ g.buckets[b].prev = (IF last0 # 0 THEN h.buckets[b].prev ELSE h.bucketTail)
  /\ DOMAIN g.elems = DOMAIN r.elems
  /\ g.elems[e] = [key |-> key, val |-> val, tail |-> tail]
  /\ before # 0 => g.elems[before] = [r.elems[before] EXCEPT !.tail = e]
  /\ \A x \in DOMAIN r.elems : x # e /\ x # before => g.elems[x] = r.elems[x]

LEMMA InsertIs ==
  ASSUME NEW h, NEW r, r = H!Reserve(h), Shape(r),
         r.head = h.head, r.bucketTail = h.bucketTail, r.buckets = h.buckets, r.size = h.size,
         NEW key \in Nat, NEW val \in Nat, NEW b, b = H!Bucket(h, key),
         NEW last0, last0 = h.buckets[b].last,
         NEW before, before = IF last0 # 0 THEN last0
                              ELSE IF h.bucketTail # 0 THEN h.buckets[h.bucketTail].last ELSE 0,
         NEW tail, tail = IF last0 # 0 THEN r.elems[last0].tail ELSE 0, tail \in Nat,
         NEW e, e = r.freed, e \in DOMAIN r.elems,
         before # 0 => before \in DOMAIN r.elems, before # e,
         NEW g, g = H!Insert(h, key, val)
  PROVE  InsertedFields(h, r, key, val, b, last0, before, tail, e, g)
<1> DEFINE taken == [r EXCEPT !.freed = r.elems[e].tail, !.elems[e] = [key |-> key, val |-> val, tail |-> tail]]
           linked == IF before = 0 THEN [taken EXCEPT !.head = e] ELSE [taken EXCEPT !.elems[before].tail = e]
<1>1. /\ r.elems \in Seq(Elem) /\ Len(r.elems) \in Nat /\ DOMAIN r.elems = 1 .. Len(r.elems)
      /\ \A x \in DOMAIN r.elems : r.elems[x] \in Elem
      /\ r.buckets \in Seq(Slot) /\ Len(r.buckets) \in Nat
      /\ DOMAIN r.buckets = 1 .. Len(r.buckets)
      /\ \A c \in DOMAIN r.buckets : r.buckets[c] \in Slot
      /\ r.size \in Nat /\ r.size # 0 /\ r.size <= Len(r.buckets)
  BY ShapeFacts
<1>2. r = [head |-> r.head, bucketTail |-> r.bucketTail, size |-> r.size, buckets |-> r.buckets,
           freed |-> r.freed, elems |-> r.elems] /\ r.head \in Nat /\ r.bucketTail \in Nat
  BY DEF Shape
<1>3. b \in DOMAIN r.buckets
  BY HomeIs DEF H!Bucket
<1> DEFINE E1 == [r.elems EXCEPT ![e] = [key |-> key, val |-> val, tail |-> tail]]
           E2 == IF before = 0 THEN E1 ELSE [E1 EXCEPT ![before] = [E1[before] EXCEPT !.tail = e]]
           K == [r.buckets EXCEPT ![b] = IF last0 # 0 THEN [h.buckets[b] EXCEPT !.last = e]
                                         ELSE [prev |-> h.bucketTail, last |-> e]]
<1>4. taken = [head |-> r.head, bucketTail |-> r.bucketTail, size |-> r.size, buckets |-> r.buckets,
               freed |-> r.elems[e].tail, elems |-> E1]
  <2>1. taken = [[r EXCEPT !.freed = r.elems[e].tail] EXCEPT !.elems = E1]
    BY <1>2
  <2> HIDE DEF E1, taken
  <2>2. QED
    BY <1>2, <2>1
<1>5. linked = [head |-> IF before = 0 THEN e ELSE r.head, bucketTail |-> r.bucketTail, size |-> r.size,
                buckets |-> r.buckets, freed |-> r.elems[e].tail, elems |-> E2]
  <2>1. CASE before = 0
    <3>1. linked = [taken EXCEPT !.head = e] /\ E2 = E1
      BY <2>1
    <3> HIDE DEF E1, E2, taken, linked
    <3>2. QED
      BY <1>4, <2>1, <3>1
  <2>2. CASE before # 0
    <3>1. linked = [taken EXCEPT !.elems[before].tail = e] /\ E2 = [E1 EXCEPT ![before] = [E1[before] EXCEPT !.tail = e]]
      BY <2>2
    <3> HIDE DEF E1, E2, taken, linked
    <3>2. QED
      BY <1>4, <2>2, <3>1
  <2>3. QED
    BY <2>1, <2>2
<1>6. g = IF last0 # 0
            THEN [linked EXCEPT !.buckets[b] = [@ EXCEPT !.last = e]]
            ELSE [linked EXCEPT !.buckets[b] = [prev |-> h.bucketTail, last |-> e], !.bucketTail = b]
  BY SMTT(30) DEF H!Insert, H!Null, H!Joined
<1>7. g = [head |-> IF before = 0 THEN e ELSE r.head,
           bucketTail |-> IF last0 # 0 THEN r.bucketTail ELSE b, size |-> r.size,
           buckets |-> K, freed |-> r.elems[e].tail, elems |-> E2]
  <2>1. CASE last0 # 0
    <3>1. g = [linked EXCEPT !.buckets[b] = [@ EXCEPT !.last = e]] /\ K = [r.buckets EXCEPT ![b] = [r.buckets[b] EXCEPT !.last = e]]
      BY <1>6, <2>1
    <3> HIDE DEF E2, K, linked
    <3>2. QED
      BY <1>5, <2>1, <3>1
  <2>2. CASE last0 = 0
    <3>1. /\ g = [linked EXCEPT !.buckets[b] = [prev |-> h.bucketTail, last |-> e], !.bucketTail = b]
          /\ K = [r.buckets EXCEPT ![b] = [prev |-> h.bucketTail, last |-> e]]
      BY <1>6, <2>2
    <3> HIDE DEF E2, K, linked
    <3>2. QED
      BY <1>5, <2>2, <3>1
  <2>3. QED
    BY <2>1, <2>2
<1>8. /\ DOMAIN E2 = DOMAIN r.elems
      /\ E2[e] = [key |-> key, val |-> val, tail |-> tail]
      /\ (before # 0 => E2[before] = [r.elems[before] EXCEPT !.tail = e])
      /\ (\A x \in DOMAIN r.elems : x # e /\ x # before => E2[x] = r.elems[x])
  <2>1. /\ DOMAIN E1 = DOMAIN r.elems /\ E1[e] = [key |-> key, val |-> val, tail |-> tail]
        /\ \A x \in DOMAIN r.elems : x # e => E1[x] = r.elems[x]
    OBVIOUS
  <2> HIDE DEF E1
  <2>2. CASE before = 0
    <3>1. E2 = E1
      BY <2>2
    <3> HIDE DEF E2
    <3>2. QED
      BY <2>1, <2>2, <3>1
  <2>3. CASE before # 0
    <3>1. E2 = [E1 EXCEPT ![before] = [E1[before] EXCEPT !.tail = e]] /\ E1[before] = r.elems[before]
      BY <2>1, <2>3
    <3> HIDE DEF E2
    <3>2. QED
      BY <2>1, <2>3, <3>1
  <2>4. QED
    BY <2>2, <2>3
<1>9. /\ DOMAIN K = DOMAIN h.buckets /\ K[b].last = e
      /\ (\A c \in DOMAIN h.buckets : c # b => K[c] = h.buckets[c])
      /\ K[b].prev = (IF last0 # 0 THEN h.buckets[b].prev ELSE h.bucketTail)
      /\ K[b] \in Slot
  <2>1. h.buckets[b] \in Slot /\ e \in Nat /\ h.bucketTail \in Nat
    BY <1>1, <1>2, <1>3
  <2>2. /\ DOMAIN K = DOMAIN h.buckets /\ \A c \in DOMAIN h.buckets : c # b => K[c] = h.buckets[c]
        /\ K[b] = IF last0 # 0 THEN [h.buckets[b] EXCEPT !.last = e] ELSE [prev |-> h.bucketTail, last |-> e]
    BY <1>3
  <2> HIDE DEF K
  <2>3. CASE last0 # 0
    BY <2>1, <2>2, <2>3 DEF Slot
  <2>4. CASE last0 = 0
    BY <2>1, <2>2, <2>4 DEF Slot
  <2>5. QED
    BY <2>2, <2>3, <2>4
<1> HIDE DEF E1, E2, K, taken, linked
<1>10. E2 \in Seq(Elem)
  <2>1. ASSUME NEW x \in DOMAIN r.elems PROVE E2[x] \in Elem
    <3>1. r.elems[x] \in Elem /\ e \in Nat
      BY <1>1
    <3>2. CASE x = e
      <4>1. E2[x] = [key |-> key, val |-> val, tail |-> tail]
        BY <1>8, <3>2
      <4>2. QED
        BY <4>1 DEF Elem
    <3>3. CASE x # e /\ x = before
      <4>1. before # 0
        BY <1>1, <3>3
      <4>2. E2[before] = [r.elems[before] EXCEPT !.tail = e]
        BY <1>8, <4>1
      <4>3. E2[x] = [r.elems[x] EXCEPT !.tail = e]
        BY <3>3, <4>2
      <4>4. QED
        BY <3>1, <4>3 DEF Elem
    <3>4. CASE x # e /\ x # before
      BY <1>8, <3>1, <3>4
    <3>5. QED
      BY <3>2, <3>3, <3>4
  <2>2. E2 = [x \in DOMAIN E2 |-> E2[x]]
    BY <1>7, <1>8 DEF E1, E2
  <2>3. E2 \in [1 .. Len(r.elems) -> Elem]
    BY <1>1, <1>8, <2>1, <2>2
  <2>4. QED
    BY <1>1, <2>3, FunctionIsSeq
<1>11. K \in Seq(Slot) /\ Len(K) = Len(r.buckets)
  <2>1. K = [c \in DOMAIN K |-> K[c]]
    BY DEF K
  <2>2. K \in [1 .. Len(r.buckets) -> Slot]
    BY <1>1, <1>9, <2>1
  <2>3. QED
    BY <1>1, <2>2, FunctionIsSeq
<1>12. Shape(g)
  <2>1. /\ (IF before = 0 THEN e ELSE r.head) \in Nat /\ (IF last0 # 0 THEN r.bucketTail ELSE b) \in Nat
        /\ r.elems[e].tail \in Nat
    <3>1. r.elems[e] \in Elem /\ e \in Nat /\ b \in Nat
      BY <1>1, <1>3
    <3>2. QED
      BY <1>2, <3>1 DEF Elem
  <2>2. QED
    BY <1>1, <1>7, <1>10, <1>11, <2>1 DEF Shape
<1>13. /\ g.head = (IF before = 0 THEN e ELSE h.head) /\ g.freed = r.elems[e].tail
       /\ g.size = h.size /\ g.bucketTail = (IF last0 # 0 THEN h.bucketTail ELSE b)
       /\ g.buckets = K /\ g.elems = E2
  BY <1>7
<1>14. /\ DOMAIN g.buckets = DOMAIN h.buckets /\ g.buckets[b].last = e
       /\ (\A c \in DOMAIN h.buckets : c # b => g.buckets[c] = h.buckets[c])
       /\ g.buckets[b].prev = (IF last0 # 0 THEN h.buckets[b].prev ELSE h.bucketTail)
  BY <1>9, <1>13
<1>15. /\ DOMAIN g.elems = DOMAIN r.elems
       /\ g.elems[e] = [key |-> key, val |-> val, tail |-> tail]
       /\ (before # 0 => g.elems[before] = [r.elems[before] EXCEPT !.tail = e])
       /\ (\A x \in DOMAIN r.elems : x # e /\ x # before => g.elems[x] = r.elems[x])
  BY <1>8, <1>13
<1>16. QED
  BY <1>12, <1>13, <1>14, <1>15 DEF InsertedFields

\* A freed element joins the list after its j-th.
LEMMA InsertLists ==
  ASSUME NEW r, NEW L, NEW G, NEW w, NEW W, Shape(r), Lists(r, L, G, w, W),
         NEW e, e = r.freed, e # 0, NEW j \in 0 .. Len(L),
         NEW g, DOMAIN g.elems = DOMAIN r.elems, g.elems[e].tail = Item(L, j + 1),
         j > 0 => g.elems[L[j]].tail = e,
         \A x \in DOMAIN r.elems : x # e /\ (j > 0 => x # L[j]) => g.elems[x].tail = r.elems[x].tail,
         g.head = (IF j = 0 THEN e ELSE r.head), g.freed = r.elems[e].tail
  PROVE  /\ Lists(g, Inserted(L, j, e), From(G, 2), w, W)
         /\ e \in DOMAIN r.elems /\ e \notin Members(L) /\ e \notin Members(W)
         /\ Members(Inserted(L, j, e)) = Members(L) \cup {e}
<1> DEFINE q == Inserted(L, j, e)
           V == From(G, 2)
<1>1. /\ Linked(Tails(r), r.head, L) /\ Linked(Tails(r), r.freed, G) /\ Linked(Tails(r), w, W)
      /\ Members(L) \cup Members(G) \cup Members(W) = DOMAIN r.elems
      /\ Members(L) \cap Members(G) = {} /\ Members(L) \cap Members(W) = {} /\ Members(G) \cap Members(W) = {}
  BY DEF Lists
<1>2. /\ Linked(Tails(r), Tails(r)[e], V) /\ Members(V) = Members(G) \ {e} /\ e \in Members(G)
  BY <1>1, LinkedTail
<1>3. e \in DOMAIN r.elems /\ e \notin Members(L) /\ e \notin Members(W) /\ e \notin Members(V)
  BY <1>1, <1>2
<1>4. /\ DOMAIN Tails(g) = DOMAIN r.elems /\ DOMAIN Tails(r) = DOMAIN r.elems
      /\ \A x \in DOMAIN r.elems : Tails(g)[x] = g.elems[x].tail /\ Tails(r)[x] = r.elems[x].tail
  BY DEF Tails
<1>5. L \in Seq(DOMAIN r.elems) /\ Len(L) \in Nat
  BY <1>1, <1>4 DEF Linked
<1>6. j > 0 => L[j] \in Members(L) /\ L[j] \in DOMAIN r.elems
  BY <1>1, <1>5 DEF Members
<1>7. \A x \in DOMAIN r.elems : x # e /\ (j > 0 => x # L[j]) => Tails(g)[x] = Tails(r)[x]
  BY <1>4
<1>8. Linked(Tails(g), g.head, q)
  <2>1. Tails(g)[e] = Item(L, j + 1) /\ (j > 0 => Tails(g)[L[j]] = e) /\ e \in DOMAIN Tails(g)
    BY <1>3, <1>4, <1>6
  <2>2. \A m \in Members(L) : (j > 0 => m # L[j]) => Tails(g)[m] = Tails(r)[m]
    BY <1>1, <1>3, <1>7
  <2>3. Linked(Tails(g), IF j = 0 THEN e ELSE r.head, Inserted(L, j, e))
    BY <1>1, <1>3, <1>4, <2>1, <2>2, LinkedInsert
  <2>4. QED
    BY <2>3
<1>9. Members(q) = Members(L) \cup {e}
  BY <1>5, InsertedMembers
<1>10. Linked(Tails(g), g.freed, V)
  <2>1. \A m \in Members(V) : Tails(g)[m] = Tails(r)[m]
    <3>1. \A m \in Members(V) : m \in DOMAIN r.elems /\ m # e /\ (j > 0 => m # L[j])
      BY <1>1, <1>2, <1>3, <1>6
    <3>2. QED
      BY <1>7, <3>1
  <2>2. Linked(Tails(r), g.freed, V)
    BY <1>2, <1>3, <1>4
  <2>3. QED
    BY <1>4, <2>1, <2>2, LinkedSame
<1>11. Linked(Tails(g), w, W)
  <2>1. \A m \in Members(W) : Tails(g)[m] = Tails(r)[m]
    <3>1. \A m \in Members(W) : m \in DOMAIN r.elems /\ m # e /\ (j > 0 => m # L[j])
      BY <1>1, <1>3, <1>6
    <3>2. QED
      BY <1>7, <3>1
  <2>2. QED
    BY <1>1, <1>4, <2>1, LinkedSame
<1>12. Lists(g, q, V, w, W)
  <2> HIDE DEF q, V
  <2>1. /\ Members(q) \cup Members(V) \cup Members(W) = DOMAIN g.elems
        /\ Members(q) \cap Members(V) = {} /\ Members(q) \cap Members(W) = {} /\ Members(V) \cap Members(W) = {}
    BY <1>1, <1>2, <1>3, <1>9
  <2>2. QED
    BY <1>8, <1>10, <1>11, <2>1 DEF Lists
<1>13. QED
  BY <1>3, <1>9, <1>12

\* A bucket that ends with an element is the element's.
LEMMA EndsOnce ==
  ASSUME NEW h, NEW L, NEW F, NEW w, NEW W, NEW B, Table(h, L, F, w, W, B),
         NEW d \in DOMAIN h.buckets, NEW k \in 1 .. Len(L), h.buckets[d].last = L[k]
  PROVE  Home(h, L[k]) = d /\ d \in Members(B)
<1>1. Shape(h) /\ Lists(h, L, F, w, W) /\ Buckets(h, L, B) /\ 0 \notin DOMAIN Tails(h)
  BY ShapeFacts DEF Table
<1>2. /\ Len(L) \in Nat /\ (\A m \in 1 .. Len(L) : L[m] \in DOMAIN Tails(h))
      /\ \A m, l \in 1 .. Len(L) : L[m] = L[l] => m = l
  BY <1>1 DEF Lists, Linked
<1>3. L[k] # 0
  BY <1>1, <1>2
<1>4. d \in Members(B)
  BY <1>1, <1>3 DEF Buckets
<1>5. PICK i, j : Ends(h, L, d, i, j)
  BY <1>1, <1>4 DEF Buckets
<1>6. j \in 1 .. Len(L) /\ L[j] = L[k] /\ i < j /\ i \in 0 .. Len(L)
  BY <1>5 DEF Ends
<1>7. j = k
  BY <1>2, <1>6
<1>8. QED
  BY <1>2, <1>4, <1>5, <1>6, <1>7 DEF Ends

\* The elements of two buckets do not overlap.
LEMMA EndsApart ==
  ASSUME NEW h, NEW L, Len(L) \in Nat, NEW b, NEW i, NEW j, Ends(h, L, b, i, j),
         NEW c, NEW k, NEW l, Ends(h, L, c, k, l), b # c
  PROVE  l <= i \/ j <= k
<1>1. /\ i \in 0 .. Len(L) /\ j \in 1 .. Len(L) /\ i < j /\ k \in 0 .. Len(L) /\ l \in 1 .. Len(L) /\ k < l
      /\ \A n \in 1 .. Len(L) : Home(h, L[n]) = b <=> i < n /\ n <= j
      /\ \A n \in 1 .. Len(L) : Home(h, L[n]) = c <=> k < n /\ n <= l
  BY DEF Ends
<1>2. SUFFICES ASSUME i < l, k < j PROVE FALSE
  BY <1>1
<1>3. CASE i >= k
  <2>1. i + 1 \in 1 .. Len(L) /\ i < i + 1 /\ i + 1 <= j /\ k < i + 1 /\ i + 1 <= l
    BY <1>1, <1>2, <1>3
  <2>2. QED
    BY <1>1, <2>1
<1>4. CASE k > i
  <2>1. k + 1 \in 1 .. Len(L) /\ i < k + 1 /\ k + 1 <= j /\ k < k + 1 /\ k + 1 <= l
    BY <1>1, <1>2, <1>4
  <2>2. QED
    BY <1>1, <2>1
<1>5. QED
  BY <1>1, <1>3, <1>4

\* The key enters a bucket that holds others, as its last.
LEMMA InsertOldBucket ==
  ASSUME NEW h, NEW L, NEW F, NEW w, NEW W, NEW B, Table(h, L, F, w, W, B),
         NEW key \in Nat, NEW b, b = H!Bucket(h, key), NEW i, NEW j, Ends(h, L, b, i, j), b \in Members(B),
         NEW e \in DOMAIN h.elems, e \notin Members(L),
         \A k \in 1 .. Len(L) : h.elems[L[k]].key # key,
         NEW g, g.size = h.size, g.bucketTail = h.bucketTail, DOMAIN g.buckets = DOMAIN h.buckets,
         \A c \in DOMAIN h.buckets : c # b => g.buckets[c] = h.buckets[c],
         g.buckets[b].last = e, g.buckets[b].prev = h.buckets[b].prev,
         \A x \in Members(L) : g.elems[x].key = h.elems[x].key, g.elems[e].key = key
  PROVE  Buckets(g, Inserted(L, j, e), B)
<1> DEFINE q == Inserted(L, j, e)
<1>1. Shape(h) /\ Lists(h, L, F, w, W) /\ Buckets(h, L, B)
  BY DEF Table
<1>2. /\ Len(L) \in Nat /\ L \in Seq(DOMAIN Tails(h))
      /\ \A k, l \in 1 .. Len(L) : L[k] = L[l] => k = l
  BY <1>1 DEF Lists, Linked
<1>3. /\ i \in 0 .. Len(L) /\ j \in 1 .. Len(L) /\ i < j /\ h.buckets[b].last = L[j]
      /\ \A k \in 1 .. Len(L) : Home(h, L[k]) = b <=> i < k /\ k <= j
  BY DEF Ends
<1>4. /\ Len(q) = Len(L) + 1
      /\ \A k \in 1 .. Len(L) + 1 : q[k] = IF k <= j THEN L[k] ELSE IF k = j + 1 THEN e ELSE L[k - 1]
  <2>1. j \in 0 .. Len(L)
    BY <1>3
  <2>2. QED
    BY <1>2, <2>1, InsertedIsSeq DEF Inserted
<1> HIDE DEF q
<1>5. \A k \in 1 .. Len(L) : Home(g, L[k]) = Home(h, L[k]) /\ g.elems[L[k]].key = h.elems[L[k]].key
  BY DEF Members, Home, H!Bucket
<1>6. Home(g, e) = b
  BY DEF Home, H!Bucket
<1>7. /\ \A k \in 1 .. Len(q) : k <= j => k \in 1 .. Len(L) /\ q[k] = L[k] /\ Home(g, q[k]) = Home(h, L[k])
      /\ j + 1 \in 1 .. Len(q) /\ q[j + 1] = e /\ Home(g, q[j + 1]) = b
      /\ \A k \in 1 .. Len(q) : k > j + 1 => k - 1 \in 1 .. Len(L) /\ q[k] = L[k - 1] /\ Home(g, q[k]) = Home(h, L[k - 1])
  <2>1. ASSUME NEW k \in 1 .. Len(q), k <= j PROVE k \in 1 .. Len(L) /\ q[k] = L[k] /\ Home(g, q[k]) = Home(h, L[k])
    <3>1. k \in 1 .. Len(L) /\ q[k] = L[k]
      BY <1>2, <1>3, <1>4, <2>1
    <3>2. QED
      BY <1>5, <3>1
  <2>2. j + 1 \in 1 .. Len(q) /\ q[j + 1] = e
    BY <1>2, <1>3, <1>4
  <2>3. ASSUME NEW k \in 1 .. Len(q), k > j + 1
        PROVE  k - 1 \in 1 .. Len(L) /\ q[k] = L[k - 1] /\ Home(g, q[k]) = Home(h, L[k - 1])
    <3>1. k - 1 \in 1 .. Len(L) /\ q[k] = L[k - 1]
      BY <1>2, <1>3, <1>4, <2>3
    <3>2. QED
      BY <1>5, <3>1
  <2>4. QED
    BY <1>6, <2>1, <2>2, <2>3
<1>8. b \in DOMAIN h.buckets /\ DOMAIN Prevs(h) = DOMAIN h.buckets /\ 0 \notin DOMAIN h.buckets
  BY <1>1, HomeIs, ShapeFacts
<1>9. Prevs(g) = Prevs(h)
  <2>1. \A c \in DOMAIN h.buckets : g.buckets[c].prev = h.buckets[c].prev
    OBVIOUS
  <2>2. QED
    BY <2>1 DEF Prevs
<1>10. Ends(g, q, b, i, j + 1)
  <2>1. i \in 0 .. Len(q) /\ j + 1 \in 1 .. Len(q) /\ i < j + 1 /\ g.buckets[b].last = q[j + 1]
    BY <1>2, <1>3, <1>4, <1>7
  <2>2. IF i = 0 THEN g.buckets[b].prev = 0
        ELSE g.buckets[b].prev \in DOMAIN g.buckets /\ g.buckets[g.buckets[b].prev].last = q[i]
    <3>1. CASE i = 0
      BY <3>1 DEF Ends
    <3>2. CASE i # 0
      <4> DEFINE d == h.buckets[b].prev
      <4>1. d \in DOMAIN h.buckets /\ h.buckets[d].last = L[i]
        BY <3>2 DEF Ends
      <4>2. L[i] # L[j]
        BY <1>2, <1>3, <3>2
      <4>3. d # b
        BY <1>3, <4>1, <4>2
      <4>4. q[i] = L[i]
        BY <1>2, <1>3, <1>4, <3>2
      <4>5. QED
        BY <3>2, <4>1, <4>3, <4>4
    <3>3. QED
      BY <3>1, <3>2
  <2>3. ASSUME NEW k \in 1 .. Len(q) PROVE Home(g, q[k]) = b <=> i < k /\ k <= j + 1
    <3>1. CASE k <= j
      BY <1>2, <1>3, <1>4, <1>7, <3>1
    <3>2. CASE k = j + 1
      BY <1>2, <1>3, <1>4, <1>7, <3>2
    <3>3. CASE k > j + 1
      BY <1>2, <1>3, <1>4, <1>7, <3>3
    <3>4. QED
      BY <1>2, <1>3, <1>4, <3>1, <3>2, <3>3
  <2>4. QED
    BY <2>1, <2>2, <2>3 DEF Ends
<1>11. ASSUME NEW c \in Members(B), c # b
       PROVE  \E k, l : Ends(g, q, c, k, l)
  <2>1. PICK k, l : Ends(h, L, c, k, l)
    BY <1>1 DEF Buckets
  <2>2. /\ k \in 0 .. Len(L) /\ l \in 1 .. Len(L) /\ k < l /\ h.buckets[c].last = L[l]
        /\ \A n \in 1 .. Len(L) : Home(h, L[n]) = c <=> k < n /\ n <= l
    BY <2>1 DEF Ends
  <2>3. l <= i \/ j <= k
    BY <1>2, <1>11, <2>1, EndsApart
  <2>4. c \in DOMAIN h.buckets
    BY <1>1, <1>8 DEF Buckets, Members, Linked
  <2>5. g.buckets[c] = h.buckets[c]
    BY <1>11, <2>4
  <2>6. CASE l <= i
    <3>1. k \in 0 .. Len(q) /\ l \in 1 .. Len(q) /\ k < l /\ l <= j /\ k <= j /\ l < j
      BY <1>2, <1>3, <1>4, <2>2, <2>6
    <3>2. g.buckets[c].last = q[l]
      BY <1>7, <2>2, <2>5, <3>1
    <3>3. IF k = 0 THEN g.buckets[c].prev = 0
          ELSE g.buckets[c].prev \in DOMAIN g.buckets /\ g.buckets[g.buckets[c].prev].last = q[k]
      <4>1. CASE k = 0
        BY <2>1, <2>5, <4>1 DEF Ends
      <4>2. CASE k # 0
        <5> DEFINE d == h.buckets[c].prev
        <5>1. d \in DOMAIN h.buckets /\ h.buckets[d].last = L[k]
          BY <2>1, <4>2 DEF Ends
        <5>2. L[k] # L[j]
          BY <1>2, <1>3, <2>2, <3>1, <4>2
        <5>3. d # b
          BY <1>3, <5>1, <5>2
        <5>4. k \in 1 .. Len(q)
          BY <1>2, <1>4, <3>1, <4>2
        <5>5. q[k] = L[k]
          BY <1>7, <3>1, <5>4
        <5>6. QED
          BY <2>5, <4>2, <5>1, <5>3, <5>5
      <4>3. QED
        BY <4>1, <4>2
    <3>4. ASSUME NEW n \in 1 .. Len(q) PROVE Home(g, q[n]) = c <=> k < n /\ n <= l
      <4>1. CASE n <= j
        BY <1>7, <2>2, <4>1
      <4>2. CASE n = j + 1
        BY <1>2, <1>3, <1>7, <1>11, <3>1, <4>2
      <4>3. CASE n > j + 1
        <5>1. n - 1 \in 1 .. Len(L) /\ Home(g, q[n]) = Home(h, L[n - 1])
          BY <1>7, <4>3
        <5>2. ~(n - 1 <= l) /\ ~(n <= l)
          BY <1>2, <1>3, <1>4, <3>1, <2>2, <4>3
        <5>3. QED
          BY <2>2, <5>1, <5>2
      <4>4. QED
        BY <1>2, <1>3, <1>4, <4>1, <4>2, <4>3
    <3>5. Ends(g, q, c, k, l)
      BY <3>1, <3>2, <3>3, <3>4 DEF Ends
    <3>6. QED
      BY <3>5
  <2>7. CASE j <= k
    <3>1. k + 1 \in 0 .. Len(q) /\ l + 1 \in 1 .. Len(q) /\ k + 1 < l + 1 /\ k + 1 # 0 /\ k \in 1 .. Len(L) /\ l + 1 > j + 1
          /\ (l + 1) - 1 = l
      BY <1>2, <1>3, <1>4, <2>2, <2>7
    <3>2. g.buckets[c].last = q[l + 1]
      <4>1. q[l + 1] = L[(l + 1) - 1]
        BY <1>7, <3>1
      <4>2. QED
        BY <2>2, <2>5, <3>1, <4>1
    <3>3. g.buckets[c].prev \in DOMAIN g.buckets /\ g.buckets[g.buckets[c].prev].last = q[k + 1]
      <4> DEFINE d == h.buckets[c].prev
      <4>1. d \in DOMAIN h.buckets /\ h.buckets[d].last = L[k]
        BY <2>1, <3>1 DEF Ends
      <4>2. CASE k = j
        <5>1. Home(h, L[k]) = d
          BY <3>1, <4>1, EndsOnce
        <5>2. Home(h, L[k]) = b
          BY <1>3, <4>2
        <5>3. d = b
          BY <5>1, <5>2
        <5>4. g.buckets[c].prev = b
          BY <2>5, <5>3
        <5>5. q[k + 1] = e
          BY <1>7, <4>2
        <5>6. QED
          BY <1>8, <5>4, <5>5
      <4>3. CASE k # j
        <5>1. L[k] # L[j]
          BY <1>2, <1>3, <3>1, <4>3
        <5>2. d # b
          BY <1>3, <4>1, <5>1
        <5>3. k + 1 \in 1 .. Len(q) /\ k + 1 > j + 1 /\ (k + 1) - 1 = k
          BY <1>2, <1>3, <1>4, <2>7, <3>1, <4>3
        <5>4. q[k + 1] = L[k]
          BY <1>7, <5>3
        <5>5. QED
          BY <2>5, <4>1, <5>2, <5>4
      <4>4. QED
        BY <4>2, <4>3
    <3>4. ASSUME NEW n \in 1 .. Len(q) PROVE Home(g, q[n]) = c <=> k + 1 < n /\ n <= l + 1
      <4>1. CASE n <= j
        <5>1. n \in 1 .. Len(L) /\ Home(g, q[n]) = Home(h, L[n])
          BY <1>7, <4>1
        <5>2. ~(k < n) /\ ~(k + 1 < n)
          BY <1>3, <2>2, <2>7, <4>1, <5>1
        <5>3. QED
          BY <2>2, <5>1, <5>2
      <4>2. CASE n = j + 1
        <5>1. Home(g, q[n]) = b /\ ~(k + 1 < n)
          BY <1>3, <1>7, <2>2, <2>7, <4>2
        <5>2. QED
          BY <1>11, <5>1
      <4>3. CASE n > j + 1
        <5>1. n - 1 \in 1 .. Len(L) /\ Home(g, q[n]) = Home(h, L[n - 1])
          BY <1>7, <4>3
        <5>2. (k < n - 1 /\ n - 1 <= l) <=> (k + 1 < n /\ n <= l + 1)
          BY <1>2, <1>4, <2>2
        <5>3. QED
          BY <2>2, <5>1, <5>2
      <4>4. QED
        BY <1>2, <1>3, <1>4, <4>1, <4>2, <4>3
    <3>5. Ends(g, q, c, k + 1, l + 1)
      BY <3>1, <3>2, <3>3, <3>4 DEF Ends
    <3>6. QED
      BY <3>5
  <2>8. QED
    BY <2>3, <2>6, <2>7
<1>12. \A c \in DOMAIN g.buckets : c \notin Members(B) => g.buckets[c].last = 0
  BY <1>1 DEF Buckets
<1>13. \A k \in 1 .. Len(q) : Home(g, q[k]) \in Members(B)
  <2>1. ASSUME NEW k \in 1 .. Len(q) PROVE Home(g, q[k]) \in Members(B)
    <3>1. k <= j \/ k = j + 1 \/ k > j + 1
      BY <1>2, <1>3, <1>4
    <3>2. QED
      BY <1>1, <1>7, <3>1 DEF Buckets
  <2>2. QED
    BY <2>1
<1>14. g.bucketTail # 0 /\ g.buckets[g.bucketTail].last = q[Len(q)]
  <2> DEFINE t == h.bucketTail
  <2>1. L # <<>> /\ Len(L) \in 1 .. Len(L)
    BY <1>2, <1>3
  <2>2. t # 0 /\ h.buckets[t].last = L[Len(L)]
    BY <1>1, <2>1 DEF Buckets
  <2>3. t \in DOMAIN h.buckets
    <3>1. t = Item(B, 1) /\ B \in Seq(DOMAIN Prevs(h))
      BY <1>1 DEF Buckets, Linked
    <3>2. QED
      BY <1>8, <2>2, <3>1 DEF Item
  <2>4. Home(h, L[Len(L)]) = t
    BY <2>1, <2>2, <2>3, EndsOnce
  <2>5. CASE j = Len(L)
    <3>1. t = b
      BY <1>3, <2>4, <2>5
    <3>2. QED
      BY <1>4, <1>7, <2>2, <2>5, <3>1
  <2>6. CASE j # Len(L)
    <3>1. t # b
      BY <1>2, <1>3, <2>1, <2>2, <2>6
    <3>2. Len(q) > j + 1 /\ Len(q) \in 1 .. Len(q) /\ Len(q) - 1 = Len(L)
      BY <1>2, <1>3, <1>4, <2>6
    <3>3. q[Len(q)] = L[Len(L)]
      BY <1>7, <3>2
    <3>4. QED
      BY <2>2, <2>3, <3>1, <3>3
  <2>7. QED
    BY <2>5, <2>6
<1>15. ASSUME NEW k \in 1 .. Len(q), NEW l \in 1 .. Len(q), g.elems[q[k]].key = g.elems[q[l]].key
       PROVE  k = l
  <2> DEFINE Old(n) == IF n <= j THEN n ELSE n - 1
  <2>1. \A n \in 1 .. Len(q) : n # j + 1 => Old(n) \in 1 .. Len(L) /\ q[n] = L[Old(n)]
    BY <1>2, <1>3, <1>4
  <2>2. \A n \in 1 .. Len(q) : n # j + 1 => g.elems[q[n]].key = h.elems[L[Old(n)]].key /\ g.elems[q[n]].key # key
    <3> HIDE DEF Old
    <3> QED BY <1>5, <2>1
  <2>3. CASE k = j + 1 \/ l = j + 1
    BY <1>7, <1>15, <2>2, <2>3
  <2>4. CASE k # j + 1 /\ l # j + 1
    <3>1. Old(k) = Old(l)
      <4>1. h.elems[L[Old(k)]].key = h.elems[L[Old(l)]].key /\ Old(k) \in 1 .. Len(L) /\ Old(l) \in 1 .. Len(L)
        <5> HIDE DEF Old
        <5> QED BY <1>15, <2>1, <2>2, <2>4
      <4> HIDE DEF Old
      <4>2. QED
        BY <1>1, <4>1 DEF Buckets
    <3>2. QED
      BY <1>2, <1>3, <1>4, <2>4, <3>1
  <2>5. QED
    BY <2>3, <2>4
<1>16. Linked(Prevs(g), g.bucketTail, B)
  BY <1>1, <1>9 DEF Buckets
<1>17. \A c \in Members(B) : \E k, l : Ends(g, q, c, k, l)
  BY <1>10, <1>11
<1>18. Buckets(g, q, B)
  BY <1>12, <1>13, <1>14, <1>15, <1>16, <1>17 DEF Buckets
<1>19. QED
  BY <1>18 DEF q

\* The key is the first of its bucket, which becomes the last of the buckets.
LEMMA InsertNewBucket ==
  ASSUME NEW h, NEW L, NEW F, NEW w, NEW W, NEW B, Table(h, L, F, w, W, B),
         NEW key \in Nat, NEW b, b = H!Bucket(h, key), b \notin Members(B),
         NEW e \in DOMAIN h.elems, e \notin Members(L),
         NEW g, g.size = h.size, g.bucketTail = b, DOMAIN g.buckets = DOMAIN h.buckets,
         \A c \in DOMAIN h.buckets : c # b => g.buckets[c] = h.buckets[c],
         g.buckets[b].last = e, g.buckets[b].prev = h.bucketTail,
         \A x \in Members(L) : g.elems[x].key = h.elems[x].key, g.elems[e].key = key
  PROVE  Buckets(g, Inserted(L, Len(L), e), Inserted(B, 0, b))
<1> DEFINE q == Inserted(L, Len(L), e)
           C == Inserted(B, 0, b)
           n == Len(L)
<1>1. Shape(h) /\ Lists(h, L, F, w, W) /\ Buckets(h, L, B)
  BY DEF Table
<1>2. n \in Nat /\ L \in Seq(DOMAIN Tails(h))
      /\ \A k, l \in 1 .. n : L[k] = L[l] => k = l
  BY <1>1 DEF Lists, Linked
<1>3. /\ Len(q) = n + 1
      /\ \A k \in 1 .. n + 1 : q[k] = IF k <= n THEN L[k] ELSE IF k = n + 1 THEN e ELSE L[k - 1]
  <2>1. n \in 0 .. Len(L)
    BY <1>2
  <2>2. QED
    BY <1>2, <2>1, InsertedIsSeq DEF Inserted
<1> HIDE DEF q
<1>4. \A k \in 1 .. n : q[k] = L[k] /\ Home(g, q[k]) = Home(h, L[k]) /\ g.elems[q[k]].key = h.elems[L[k]].key
  <2>1. \A k \in 1 .. n : q[k] = L[k] /\ L[k] \in Members(L)
    BY <1>2, <1>3 DEF Members
  <2>2. QED
    BY <2>1 DEF Home, H!Bucket
<1>5. q[n + 1] = e /\ Home(g, q[n + 1]) = b
  BY <1>2, <1>3 DEF Home, H!Bucket
<1>6. b \in DOMAIN h.buckets /\ DOMAIN Prevs(h) = DOMAIN h.buckets /\ 0 \notin DOMAIN h.buckets
      /\ 0 \notin DOMAIN Tails(h) /\ IsFiniteSet(DOMAIN Prevs(h))
  BY <1>1, HomeIs, ShapeFacts
<1>7. \A k \in 1 .. n : Home(h, L[k]) \in Members(B) /\ Home(h, L[k]) # b /\ h.elems[L[k]].key # key /\ L[k] # 0
  <2>1. \A k \in 1 .. n : Home(h, L[k]) \in Members(B) /\ L[k] # 0
    BY <1>1, <1>2, <1>6 DEF Buckets
  <2>2. QED
    BY <2>1 DEF Home
<1>8. h.buckets[b].last = 0
  BY <1>1, <1>6 DEF Buckets
<1>9. Linked(Prevs(h), h.bucketTail, B) /\ B \in Seq(DOMAIN Prevs(h)) /\ Len(B) \in Nat /\ h.bucketTail = Item(B, 1)
  BY <1>1 DEF Buckets, Linked
<1>10. Members(C) = Members(B) \cup {b}
  <2>1. 0 \in 0 .. Len(B)
    BY <1>9
  <2>2. QED
    BY <1>9, <2>1, InsertedMembers
<1>11. Linked(Prevs(g), g.bucketTail, C)
  <2>1. /\ DOMAIN Prevs(g) = DOMAIN h.buckets /\ Prevs(g)[b] = h.bucketTail
        /\ \A c \in DOMAIN h.buckets : c # b => Prevs(g)[c] = Prevs(h)[c]
    BY <1>6 DEF Prevs
  <2>2. 0 \in 0 .. Len(B) /\ Prevs(g)[b] = Item(B, 0 + 1) /\ ~(0 > 0)
    BY <1>9, <2>1
  <2>3. \A m \in Members(B) : Prevs(g)[m] = Prevs(h)[m]
    <3>1. Members(B) \subseteq DOMAIN h.buckets
      BY <1>6, <1>9 DEF Members
    <3>2. QED
      BY <2>1, <3>1
  <2>4. Linked(Prevs(g), IF 0 = 0 THEN b ELSE h.bucketTail, Inserted(B, 0, b))
    BY <1>6, <1>9, <2>1, <2>2, <2>3, LinkedInsert
  <2>5. QED
    BY <2>4
<1>12. ASSUME NEW c \in Members(B) PROVE \E k, l : Ends(g, q, c, k, l)
  <2>1. PICK k, l : Ends(h, L, c, k, l)
    BY <1>1 DEF Buckets
  <2>2. /\ k \in 0 .. n /\ l \in 1 .. n /\ k < l /\ h.buckets[c].last = L[l]
        /\ \A m \in 1 .. n : Home(h, L[m]) = c <=> k < m /\ m <= l
    BY <2>1 DEF Ends
  <2>3. c \in DOMAIN h.buckets /\ c # b /\ g.buckets[c] = h.buckets[c]
    BY <1>6, <1>9 DEF Members
  <2>4. g.buckets[c].last = q[l]
    BY <1>4, <2>2, <2>3
  <2>5. IF k = 0 THEN g.buckets[c].prev = 0
        ELSE g.buckets[c].prev \in DOMAIN g.buckets /\ g.buckets[g.buckets[c].prev].last = q[k]
    <3>1. CASE k = 0
      BY <2>1, <2>3, <3>1 DEF Ends
    <3>2. CASE k # 0
      <4> DEFINE d == h.buckets[c].prev
      <4>1. d \in DOMAIN h.buckets /\ h.buckets[d].last = L[k]
        BY <2>1, <3>2 DEF Ends
      <4>2. k \in 1 .. n
        BY <1>2, <2>2, <3>2
      <4>3. d # b
        BY <1>7, <1>8, <4>1, <4>2
      <4>4. QED
        BY <1>4, <2>3, <3>2, <4>1, <4>2, <4>3
    <3>3. QED
      BY <3>1, <3>2
  <2>6. ASSUME NEW m \in 1 .. Len(q) PROVE Home(g, q[m]) = c <=> k < m /\ m <= l
    <3>1. CASE m <= n
      <4>1. m \in 1 .. n
        BY <1>2, <3>1
      <4>2. QED
        BY <1>4, <2>2, <4>1
    <3>2. CASE m = n + 1
      BY <1>2, <1>5, <2>2, <2>3, <3>2
    <3>3. QED
      BY <1>2, <1>3, <3>1, <3>2
  <2>7. k \in 0 .. Len(q) /\ l \in 1 .. Len(q) /\ k < l
    BY <1>2, <1>3, <2>2
  <2>8. Ends(g, q, c, k, l)
    BY <2>4, <2>5, <2>6, <2>7 DEF Ends
  <2>9. QED
    BY <2>8
<1>13. Ends(g, q, b, n, n + 1)
  <2>1. n \in 0 .. Len(q) /\ n + 1 \in 1 .. Len(q) /\ n < n + 1 /\ g.buckets[b].last = q[n + 1]
    BY <1>2, <1>3, <1>5
  <2>2. IF n = 0 THEN g.buckets[b].prev = 0
        ELSE g.buckets[b].prev \in DOMAIN g.buckets /\ g.buckets[g.buckets[b].prev].last = q[n]
    <3>1. CASE n = 0
      <4>1. L = <<>>
        BY <1>2, <3>1
      <4>2. h.bucketTail = 0
        BY <1>1, <4>1, EmptyTable
      <4>3. QED
        BY <3>1, <4>2
    <3>2. CASE n # 0
      <4> DEFINE t == h.bucketTail
      <4>1. L # <<>> /\ n \in 1 .. n
        BY <1>2, <3>2
      <4>2. t # 0 /\ h.buckets[t].last = L[n]
        BY <1>1, <4>1 DEF Buckets
      <4>3. t \in Members(B) /\ t \in DOMAIN h.buckets
        BY <1>6, <1>9, <4>2 DEF Item, Members
      <4>4. g.buckets[t].last = q[n]
        BY <1>4, <4>1, <4>2, <4>3
      <4>5. QED
        BY <3>2, <4>3, <4>4
    <3>3. QED
      BY <3>1, <3>2
  <2>3. ASSUME NEW m \in 1 .. Len(q) PROVE Home(g, q[m]) = b <=> n < m /\ m <= n + 1
    <3>1. CASE m <= n
      <4>1. m \in 1 .. n
        BY <1>2, <3>1
      <4>2. QED
        BY <1>2, <1>4, <1>7, <3>1, <4>1
    <3>2. CASE m = n + 1
      BY <1>2, <1>5, <3>2
    <3>3. QED
      BY <1>2, <1>3, <3>1, <3>2
  <2>4. QED
    BY <2>1, <2>2, <2>3 DEF Ends
<1>14. \A c \in DOMAIN g.buckets : c \notin Members(C) => g.buckets[c].last = 0
  BY <1>1, <1>10 DEF Buckets
<1>15. \A k \in 1 .. Len(q) : Home(g, q[k]) \in Members(C)
  <2>1. \A k \in 1 .. Len(q) : k \in 1 .. n \/ k = n + 1
    BY <1>2, <1>3
  <2>2. QED
    BY <1>4, <1>5, <1>7, <1>10, <2>1
<1>16. g.bucketTail # 0 /\ g.buckets[g.bucketTail].last = q[Len(q)]
  BY <1>3, <1>5, <1>6
<1>17. ASSUME NEW k \in 1 .. Len(q), NEW l \in 1 .. Len(q), g.elems[q[k]].key = g.elems[q[l]].key
       PROVE  k = l
  <2>1. \A m \in 1 .. Len(q) : m \in 1 .. n \/ m = n + 1
    BY <1>2, <1>3
  <2>2. \A m \in 1 .. n : g.elems[q[m]].key # key
    BY <1>4, <1>7
  <2>3. g.elems[q[n + 1]].key = key
    BY <1>5
  <2>4. CASE k \in 1 .. n /\ l \in 1 .. n
    BY <1>1, <1>4, <1>17, <2>4 DEF Buckets
  <2>5. CASE ~(k \in 1 .. n /\ l \in 1 .. n)
    BY <1>17, <2>1, <2>2, <2>3, <2>5
  <2>6. QED
    BY <2>4, <2>5
<1> HIDE DEF C
<1>18. \A c \in Members(C) : \E k, l : Ends(g, q, c, k, l)
  BY <1>10, <1>12, <1>13
<1>19. Buckets(g, q, C)
  BY <1>11, <1>14, <1>15, <1>16, <1>17, <1>18 DEF Buckets
<1>20. QED
  BY <1>19 DEF q, C

\* An element with the key and the value joins the list.
\* The list has a new element e, M.
Grown(h, L, W, key, val, g, M, e) ==
  /\ e \notin Members(L) /\ e \notin Members(W) /\ Members(M) = Members(L) \cup {e}
  /\ g.elems[e].key = key /\ g.elems[e].val = val
  /\ \A x \in Members(L) \cup Members(W) :
       g.elems[x].key = h.elems[x].key /\ g.elems[x].val = h.elems[x].val

LEMMA InsertKeeps ==
  ASSUME NEW h, NEW L, NEW F, NEW w, NEW W, NEW B, Table(h, L, F, w, W, B),
         NEW key \in Nat, NEW val \in Nat, \A k \in 1 .. Len(L) : h.elems[L[k]].key # key
  PROVE  \E M, G, C, e : /\ Table(H!Insert(h, key, val), M, G, w, W, C)
                         /\ Grown(h, L, W, key, val, H!Insert(h, key, val), M, e)
<1> DEFINE r == H!Reserve(h)
           e == r.freed
           b == H!Bucket(h, key)
           last0 == h.buckets[b].last
           before == IF last0 # 0 THEN last0 ELSE IF h.bucketTail # 0 THEN h.buckets[h.bucketTail].last ELSE 0
           tail == IF last0 # 0 THEN r.elems[last0].tail ELSE 0
           g == H!Insert(h, key, val)
<1>1. /\ \E G : Table(r, L, G, w, W, B)
      /\ e # 0
      /\ r.head = h.head /\ r.bucketTail = h.bucketTail /\ r.buckets = h.buckets /\ r.size = h.size
      /\ DOMAIN h.elems \subseteq DOMAIN r.elems
      /\ \A x \in DOMAIN h.elems : r.elems[x] = h.elems[x]
  BY ReserveKeeps
<1>2. PICK G : Table(r, L, G, w, W, B)
  BY <1>1
<1> HIDE DEF r, g
<1>3. Shape(r) /\ Lists(r, L, G, w, W) /\ Buckets(r, L, B)
  BY <1>2 DEF Table
<1>4. /\ DOMAIN Tails(r) = DOMAIN r.elems /\ 0 \notin DOMAIN r.elems
      /\ (\A x \in DOMAIN r.elems : Tails(r)[x] = r.elems[x].tail /\ r.elems[x] \in Elem)
      /\ DOMAIN Prevs(r) = DOMAIN h.buckets /\ 0 \notin DOMAIN h.buckets
  BY <1>1, <1>3, ShapeFacts
<1>5. /\ Len(L) \in Nat /\ L \in Seq(DOMAIN r.elems) /\ r.head = Item(L, 1)
      /\ (\A k \in 1 .. Len(L) : r.elems[L[k]].tail = Item(L, k + 1) /\ L[k] \in DOMAIN r.elems)
      /\ (\A k, l \in 1 .. Len(L) : L[k] = L[l] => k = l)
  BY <1>3, <1>4 DEF Lists, Linked
<1>6. b = H!Bucket(r, key) /\ b \in DOMAIN h.buckets
  <2>1. b = H!Bucket(r, key)
    BY <1>1 DEF H!Bucket
  <2>2. QED
    BY <1>1, <1>3, <2>1, HomeIs
<1>7. \A k \in 1 .. Len(L) : r.elems[L[k]].key # key
  <2>1. \A k \in 1 .. Len(L) : L[k] \in DOMAIN h.elems
    BY DEF Table, Lists, Members
  <2>2. QED
    BY <1>1, <2>1
<1>8. e \in DOMAIN r.elems /\ e \notin Members(L) /\ e \notin Members(W)
  <2>1. Linked(Tails(r), e, G)
    BY <1>3 DEF Lists
  <2>2. e \in Members(G)
    BY <1>1, <2>1, LinkedTail
  <2>3. QED
    BY <1>3, <2>2 DEF Lists
\* The place of the new element.
<1>9. \E j \in 0 .. Len(L) :
        /\ tail = Item(L, j + 1) /\ before = (IF j = 0 THEN 0 ELSE L[j])
        /\ \/ last0 # 0 /\ b \in Members(B) /\ \E i : Ends(r, L, b, i, j)
           \/ last0 = 0 /\ b \notin Members(B) /\ j = Len(L)
  <2>1. CASE b \in Members(B)
    <3>1. PICK i, j : Ends(r, L, b, i, j)
      BY <1>3, <2>1 DEF Buckets
    <3>2. j \in 1 .. Len(L) /\ last0 = L[j]
      BY <1>1, <3>1 DEF Ends
    <3>3. last0 # 0 /\ before = L[j] /\ tail = Item(L, j + 1) /\ j # 0 /\ j \in 0 .. Len(L)
      BY <1>4, <1>5, <3>2
    <3>4. QED
      BY <2>1, <3>1, <3>3
  <2>2. CASE b \notin Members(B)
    <3>1. last0 = 0
      BY <1>1, <1>3, <1>6, <2>2 DEF Buckets
    <3>2. tail = 0 /\ Item(L, Len(L) + 1) = 0 /\ Len(L) \in 0 .. Len(L)
      BY <1>5, <3>1 DEF Item
    <3>3. before = IF Len(L) = 0 THEN 0 ELSE L[Len(L)]
      <4>1. CASE L = <<>>
        <5>1. h.bucketTail = 0 /\ Len(L) = 0
          BY <1>1, <1>3, <4>1, EmptyTable
        <5>2. QED
          BY <3>1, <5>1
      <4>2. CASE L # <<>>
        <5>1. h.bucketTail # 0 /\ h.buckets[h.bucketTail].last = L[Len(L)]
          BY <1>1, <1>3, <4>2 DEF Buckets
        <5>2. Len(L) # 0
          BY <1>5, <4>2
        <5>3. QED
          BY <3>1, <5>1, <5>2
      <4>3. QED
        BY <4>1, <4>2
    <3>4. QED
      BY <2>2, <3>1, <3>2, <3>3
  <2>3. QED
    BY <2>1, <2>2
<1>10. PICK j \in 0 .. Len(L) :
        /\ tail = Item(L, j + 1) /\ before = (IF j = 0 THEN 0 ELSE L[j])
        /\ \/ last0 # 0 /\ b \in Members(B) /\ \E i : Ends(r, L, b, i, j)
           \/ last0 = 0 /\ b \notin Members(B) /\ j = Len(L)
  BY <1>9
<1> HIDE DEF e, b, last0, before, tail
<1>11. /\ tail \in Nat /\ (before # 0 <=> j > 0) /\ (before # 0 => before \in DOMAIN r.elems) /\ before # e
       /\ (j > 0 => before = L[j] /\ j \in 1 .. Len(L))
  <2>1. \A m \in DOMAIN r.elems : m \in Nat /\ m # 0
    BY <1>3, <1>4, ShapeFacts
  <2>2. j = 0 => before = 0
    BY <1>10
  <2>3. j # 0 => j > 0 /\ before = L[j] /\ j \in 1 .. Len(L) /\ before \in DOMAIN r.elems /\ before # e
    BY <1>5, <1>8, <1>10 DEF Members
  <2>4. tail \in Nat
    BY <1>5, <1>10, <2>1 DEF Item
  <2>5. e # 0
    BY <1>1 DEF e
  <2>6. QED
    BY <2>1, <2>2, <2>3, <2>4, <2>5
<1>12. /\ Shape(g)
       /\ g.head = (IF before = 0 THEN e ELSE h.head)
       /\ g.freed = r.elems[e].tail
       /\ g.size = h.size
       /\ g.bucketTail = (IF last0 # 0 THEN h.bucketTail ELSE b)
       /\ DOMAIN g.buckets = DOMAIN h.buckets
       /\ (\A c \in DOMAIN h.buckets : c # b => g.buckets[c] = h.buckets[c])
       /\ g.buckets[b].last = e
       /\ g.buckets[b].prev = (IF last0 # 0 THEN h.buckets[b].prev ELSE h.bucketTail)
       /\ DOMAIN g.elems = DOMAIN r.elems
       /\ g.elems[e] = [key |-> key, val |-> val, tail |-> tail]
       /\ (before # 0 => g.elems[before] = [r.elems[before] EXCEPT !.tail = e])
       /\ (\A x \in DOMAIN r.elems : x # e /\ x # before => g.elems[x] = r.elems[x])
  <2>1. r = H!Reserve(h) /\ b = H!Bucket(h, key) /\ last0 = h.buckets[b].last
        /\ before = (IF last0 # 0 THEN last0 ELSE IF h.bucketTail # 0 THEN h.buckets[h.bucketTail].last ELSE 0)
        /\ tail = (IF last0 # 0 THEN r.elems[last0].tail ELSE 0) /\ e = r.freed /\ g = H!Insert(h, key, val)
    BY DEF r, b, last0, before, tail, e, g
  <2>2. InsertedFields(h, r, key, val, b, last0, before, tail, e, g)
    BY <1>1, <1>3, <1>8, <1>11, <2>1, InsertIs
  <2>3. QED
    BY <2>2 DEF InsertedFields
<1>13. /\ g.elems[e].tail = Item(L, j + 1) /\ g.elems[e].key = key /\ g.elems[e].val = val
       /\ (j > 0 => g.elems[L[j]].tail = e)
       /\ (\A x \in DOMAIN r.elems : x # e => g.elems[x].key = r.elems[x].key /\ g.elems[x].val = r.elems[x].val)
       /\ (\A x \in DOMAIN r.elems : x # e /\ (j > 0 => x # L[j]) => g.elems[x].tail = r.elems[x].tail)
  <2>1. g.elems[e].tail = Item(L, j + 1) /\ g.elems[e].key = key /\ g.elems[e].val = val
    BY <1>10, <1>12
  <2>2. ASSUME j > 0
        PROVE  /\ g.elems[L[j]].tail = e
               /\ g.elems[L[j]].key = r.elems[L[j]].key /\ g.elems[L[j]].val = r.elems[L[j]].val
    <3>1. before = L[j] /\ before # 0 /\ r.elems[before] \in Elem
      BY <1>4, <1>11, <2>2
    <3>2. g.elems[before] = [r.elems[before] EXCEPT !.tail = e]
      BY <1>12, <3>1
    <3>3. /\ g.elems[before].tail = e /\ g.elems[before].key = r.elems[before].key
          /\ g.elems[before].val = r.elems[before].val
      BY <3>1, <3>2 DEF Elem
    <3>4. QED
      BY <3>1, <3>3
  <2>3. ASSUME NEW x \in DOMAIN r.elems, x # e, j > 0 => x # L[j]
        PROVE  g.elems[x] = r.elems[x]
    <3>1. x # before
      BY <1>4, <1>11, <2>3
    <3>2. QED
      BY <1>12, <2>3, <3>1
  <2>4. QED
    BY <2>1, <2>2, <2>3
<1>14. /\ Lists(g, Inserted(L, j, e), From(G, 2), w, W)
       /\ Members(Inserted(L, j, e)) = Members(L) \cup {e}
  <2>1. g.head = (IF j = 0 THEN e ELSE r.head) /\ e = r.freed /\ e # 0
    BY <1>1, <1>10, <1>11, <1>12 DEF e
  <2>2. QED
    BY <1>3, <1>12, <1>13, <2>1, InsertLists
<1>15. \A x \in Members(L) : g.elems[x].key = r.elems[x].key
  BY <1>5, <1>8, <1>13 DEF Members
<1>16. \E C : Buckets(g, Inserted(L, j, e), C)
  <2>1. CASE last0 # 0 /\ b \in Members(B) /\ \E i : Ends(r, L, b, i, j)
    <3>1. PICK i : Ends(r, L, b, i, j)
      BY <2>1
    <3>2. Buckets(g, Inserted(L, j, e), B)
      BY <1>1, <1>2, <1>6, <1>7, <1>8, <1>12, <1>13, <1>15, <2>1, <3>1, InsertOldBucket
    <3>3. QED
      BY <3>2
  <2>2. CASE last0 = 0 /\ b \notin Members(B) /\ j = Len(L)
    <3>1. Buckets(g, Inserted(L, Len(L), e), Inserted(B, 0, b))
      BY <1>1, <1>2, <1>6, <1>8, <1>12, <1>13, <1>15, <2>2, InsertNewBucket
    <3>2. QED
      BY <2>2, <3>1
  <2>3. QED
    BY <1>10, <2>1, <2>2
<1>17. \A x \in Members(L) \cup Members(W) :
         g.elems[x].key = h.elems[x].key /\ g.elems[x].val = h.elems[x].val
  <2>1. Members(L) \cup Members(W) \subseteq DOMAIN h.elems
    BY DEF Table, Lists
  <2>2. QED
    BY <1>1, <1>8, <1>13, <2>1
<1>18. \E C : Table(g, Inserted(L, j, e), From(G, 2), w, W, C)
  BY <1>12, <1>14, <1>16 DEF Table
<1>19. QED
  BY <1>8, <1>13, <1>14, <1>17, <1>18 DEF g, Grown

-----------------------------------------------------------------------------
(* Tokens *)

PrevOf(tk) == [x \in DOMAIN tk |-> tk[x].prev]

\* The tokens that point to t, and the elements of S that hold it.
Kin(tk, t) == {u \in DOMAIN tk : tk[u].prev = t}
Holders(h, S, t) == {e \in S : h.elems[e].val = t}

IsFunction(f) == f = [x \in DOMAIN f |-> f[x]]

\* Every token leads back to a first one.
Rooted(tk) ==
  /\ IsFunction(tk) /\ IsFiniteSet(DOMAIN tk) /\ DOMAIN tk \subseteq Nat \ {0}
  /\ \A t \in DOMAIN tk :
       /\ tk[t] = [arc |-> tk[t].arc, prev |-> tk[t].prev, refs |-> tk[t].refs, weight |-> tk[t].weight]
       /\ tk[t].prev \in DOMAIN tk \cup {0} /\ tk[t].refs \in Nat /\ tk[t].refs # 0
       /\ \E p : Linked(PrevOf(tk), t, p)

\* x has one count that nothing accounts for.
Counted(tk, h, S, x) ==
  \A t \in DOMAIN tk :
    tk[t].refs = Cardinality(Holders(h, S, t)) + Cardinality(Kin(tk, t)) + (IF t = x THEN 1 ELSE 0)

\* Some tokens of tk are gone.
Reduced(tk, rest) ==
  /\ DOMAIN rest \subseteq DOMAIN tk
  /\ \A t \in DOMAIN rest : rest[t].arc = tk[t].arc /\ rest[t].prev = tk[t].prev /\ rest[t].weight = tk[t].weight

LEMMA CountsAreNumbers ==
  ASSUME NEW tk, Rooted(tk), NEW h, NEW S, IsFiniteSet(S)
  PROVE  \A t : /\ IsFiniteSet(Kin(tk, t)) /\ Cardinality(Kin(tk, t)) \in Nat
                /\ IsFiniteSet(Holders(h, S, t)) /\ Cardinality(Holders(h, S, t)) \in Nat
<1> SUFFICES ASSUME NEW t
             PROVE  /\ IsFiniteSet(Kin(tk, t)) /\ Cardinality(Kin(tk, t)) \in Nat
                    /\ IsFiniteSet(Holders(h, S, t)) /\ Cardinality(Holders(h, S, t)) \in Nat
  OBVIOUS
<1>1. Kin(tk, t) \in SUBSET DOMAIN tk /\ Holders(h, S, t) \in SUBSET S
  BY DEF Kin, Holders
<1>2. IsFiniteSet(DOMAIN tk)
  BY DEF Rooted
<1>3. IsFiniteSet(Kin(tk, t)) /\ IsFiniteSet(Holders(h, S, t))
  BY <1>1, <1>2, FS_Subset
<1>4. QED
  BY <1>3, FS_CardinalityType

\* A set with a member has a positive cardinality, and one member if it is 1.
LEMMA CardinalityOf ==
  ASSUME NEW T, IsFiniteSet(T)
  PROVE  /\ Cardinality(T) \in Nat
         /\ Cardinality(T) = 0 => T = {}
         /\ \A y \in T : Cardinality(T) # 0 /\ (Cardinality(T) = 1 => T = {y})
<1>1. Cardinality(T) \in Nat /\ (Cardinality(T) = 0 <=> T = {})
  BY FS_CardinalityType, FS_EmptySet
<1>2. Cardinality(T) = 1 <=> \E z : T = {z}
  BY FS_Singleton
<1>3. QED
  BY <1>1, <1>2

LEMMA LeastInSeq ==
  ASSUME NEW I, I \subseteq Nat
  PROVE  LET i == IF I # {} THEN Min(I) ELSE 0
         IN  (I = {} /\ i = 0) \/ (i \in I /\ \A k \in I : i <= k)
<1>1. CASE I = {}
  BY <1>1
<1>2. CASE I # {}
  <2>1. \E i \in I : \A k \in I : i <= k
    BY <1>2, LeastNumber
  <2>2. Min(I) \in I /\ \A k \in I : Min(I) <= k
    BY <2>1 DEF Min
  <2>3. QED
    BY <1>2, <2>2
<1>3. QED
  BY <1>1, <1>2

LEMMA BackIs ==
  ASSUME NEW tk, Rooted(tk), NEW t, NEW p, Linked(PrevOf(tk), t, p)
  PROVE  Back(tk, t) = p
<1>1. Back(tk, t) = H!Links(PrevOf(tk), t)
  BY DEF Back, PrevOf
<1>2. DOMAIN PrevOf(tk) = DOMAIN tk /\ IsFiniteSet(DOMAIN PrevOf(tk)) /\ 0 \notin DOMAIN PrevOf(tk)
  BY DEF PrevOf, Rooted
<1>3. QED
  BY <1>1, <1>2, LinksIs

\* rest is tk without the first m tokens of the path, which have one count each.
Deleted(tk, p, m, rest) ==
  /\ \A i \in 1 .. m : tk[p[i]].refs = 1
  /\ m < Len(p) => tk[p[m + 1]].refs > 1
  /\ rest = [u \in DOMAIN tk \ {p[i] : i \in 1 .. m} |->
               IF m < Len(p) /\ u = p[m + 1] THEN [tk[u] EXCEPT !.refs = @ - 1] ELSE tk[u]]

LEMMA TokenDeleteIs ==
  ASSUME NEW tk, Rooted(tk), NEW x, NEW p, Linked(PrevOf(tk), x, p)
  PROVE  \E m \in 0 .. Len(p) : Deleted(tk, p, m, TokenDelete(tk, x))
<1> DEFINE I == {i \in 1 .. Len(p) : tk[p[i]].refs > 1}
           n == IF I # {} THEN Min(I) ELSE 0
           m == IF n = 0 THEN Len(p) ELSE n - 1
           path == Back(tk, x)
<1>1. path = p
  BY BackIs
<1>2. Len(p) \in Nat /\ p \in Seq(DOMAIN tk) /\ DOMAIN p = 1 .. Len(p)
      /\ \A i \in 1 .. Len(p) : p[i] \in DOMAIN tk
  BY DEF Linked, PrevOf
<1> HIDE DEF path
<1>3. SelectInSeq(path, LAMBDA u : tk[u].refs > 1) = n
  BY <1>1 DEF SelectInSeq
<1>4. TokenDelete(tk, x) =
        [u \in DOMAIN tk \ Range(IF n = 0 THEN p ELSE SubSeq(p, 1, n - 1)) |->
           IF n # 0 /\ u = p[n] THEN [tk[u] EXCEPT !.refs = @ - 1] ELSE tk[u]]
  <2> DEFINE k == SelectInSeq(path, LAMBDA u : tk[u].refs > 1)
  <2>1. TokenDelete(tk, x) =
          [u \in DOMAIN tk \ Range(IF k = 0 THEN path ELSE SubSeq(path, 1, k - 1)) |->
             IF k # 0 /\ u = path[k] THEN [tk[u] EXCEPT !.refs = @ - 1] ELSE tk[u]]
    BY DEF TokenDelete, path
  <2> HIDE DEF k, n
  <2>2. k = n
    BY <1>3 DEF k
  <2>3. QED
    BY <1>1, <2>1, <2>2
<1>5. (I = {} /\ n = 0) \/ (n \in I /\ \A k \in I : n <= k)
  <2>1. I \subseteq Nat
    OBVIOUS
  <2> HIDE DEF I
  <2>2. QED
    BY <2>1, LeastInSeq
<1>6. n = 0 \/ n \in 1 .. Len(p)
  BY <1>5
<1> HIDE DEF n
<1>7. m \in 0 .. Len(p) /\ (m < Len(p) <=> n # 0) /\ (n # 0 => n = m + 1)
  BY <1>2, <1>6
<1>8. \A i \in 1 .. m : tk[p[i]].refs = 1
  <2>1. \A i \in 1 .. m : i \in 1 .. Len(p) /\ i \notin I
    BY <1>2, <1>5, <1>6, <1>7
  <2>2. \A i \in 1 .. Len(p) : tk[p[i]].refs \in Nat /\ tk[p[i]].refs # 0
    BY <1>2 DEF Rooted
  <2>3. QED
    BY <2>1, <2>2
<1>9. m < Len(p) => tk[p[m + 1]].refs > 1
  BY <1>5, <1>7
<1>10. Range(IF n = 0 THEN p ELSE SubSeq(p, 1, n - 1)) = {p[i] : i \in 1 .. m}
  <2>1. CASE n = 0
    BY <1>2, <2>1 DEF Range
  <2>2. CASE n # 0
    <3>1. n - 1 \in 0 .. Len(p) /\ m = n - 1
      BY <1>2, <1>6, <2>2
    <3>2. SubSeq(p, 1, n - 1) = [i \in 1 .. n - 1 |-> p[i]]
      BY <1>2, <3>1
    <3>3. QED
      BY <2>2, <3>1, <3>2 DEF Range
  <2>3. QED
    BY <2>1, <2>2
<1> HIDE DEF m
<1>11. TokenDelete(tk, x) =
         [u \in DOMAIN tk \ {p[i] : i \in 1 .. m} |->
            IF m < Len(p) /\ u = p[m + 1] THEN [tk[u] EXCEPT !.refs = @ - 1] ELSE tk[u]]
  <2>1. \A u : (n # 0 /\ u = p[n]) <=> (m < Len(p) /\ u = p[m + 1])
    BY <1>7
  <2>2. QED
    BY <1>4, <1>10, <2>1
<1>12. QED
  BY <1>7, <1>8, <1>9, <1>11 DEF Deleted

LEMMA PathIs ==
  ASSUME NEW tk, NEW x, NEW p, Linked(PrevOf(tk), x, p)
  PROVE  /\ Len(p) \in Nat /\ p \in Seq(DOMAIN tk) /\ x = Item(p, 1)
         /\ \A k \in 1 .. Len(p) : p[k] \in DOMAIN tk /\ tk[p[k]].prev = Item(p, k + 1)
         /\ \A k, l \in 1 .. Len(p) : p[k] = p[l] => k = l
<1>1. DOMAIN PrevOf(tk) = DOMAIN tk
  BY DEF PrevOf
<1>2. p \in Seq(DOMAIN tk) /\ x = Item(p, 1)
  BY <1>1 DEF Linked
<1>3. Len(p) \in Nat /\ \A k \in 1 .. Len(p) : p[k] \in DOMAIN tk
  BY <1>2
<1>4. \A k \in 1 .. Len(p) : tk[p[k]].prev = Item(p, k + 1)
  BY <1>3 DEF Linked, PrevOf
<1>5. \A k, l \in 1 .. Len(p) : p[k] = p[l] => k = l
  BY DEF Linked
<1>6. QED
  BY <1>2, <1>3, <1>4, <1>5

\* Deleting tokens that only deleted ones point to leaves paths.
LEMMA RestRooted ==
  ASSUME NEW tk, Rooted(tk), NEW D, \A d \in D : Kin(tk, d) \subseteq D,
         NEW rest, IsFunction(rest), DOMAIN rest = DOMAIN tk \ D, Reduced(tk, rest),
         \A t \in DOMAIN rest :
           /\ rest[t] = [arc |-> tk[t].arc, prev |-> tk[t].prev, refs |-> rest[t].refs, weight |-> tk[t].weight]
           /\ rest[t].refs \in Nat /\ rest[t].refs # 0
  PROVE  Rooted(rest)
<1>1. IsFiniteSet(DOMAIN rest) /\ DOMAIN rest \subseteq Nat \ {0}
  BY FS_Subset DEF Rooted, Reduced
<1>2. ASSUME NEW t \in DOMAIN rest
      PROVE  rest[t].prev \in DOMAIN rest \cup {0}
  <2>1. t \in DOMAIN tk /\ t \notin D /\ rest[t].prev = tk[t].prev /\ tk[t].prev \in DOMAIN tk \cup {0}
    BY DEF Reduced, Rooted
  <2>2. tk[t].prev \notin D
    BY <2>1 DEF Kin
  <2>3. QED
    BY <2>1, <2>2
<1>3. ASSUME NEW t \in DOMAIN rest
      PROVE  \E p : Linked(PrevOf(rest), t, p)
  <2>1. PICK p : Linked(PrevOf(tk), t, p)
    BY DEF Rooted, Reduced
  <2>2. /\ Len(p) \in Nat /\ p \in Seq(DOMAIN tk) /\ t = Item(p, 1)
        /\ \A k \in 1 .. Len(p) : p[k] \in DOMAIN tk /\ tk[p[k]].prev = Item(p, k + 1)
        /\ \A k, l \in 1 .. Len(p) : p[k] = p[l] => k = l
    BY <2>1, PathIs
  <2> DEFINE P == {k \in Nat : k \in 1 .. Len(p) => p[k] \in DOMAIN rest}
  <2>3. 0 \in P
    OBVIOUS
  <2>4. ASSUME NEW k \in 1 .. Len(p), k - 1 \in P
        PROVE  k \in P
    <3>1. CASE k = 1
      BY <2>2, <3>1 DEF Item
    <3>2. CASE k # 1
      <4>1. k - 1 \in 1 .. Len(p) /\ (k - 1) + 1 = k
        BY <2>2, <3>2
      <4>2. p[k - 1] \in DOMAIN rest /\ tk[p[k - 1]].prev = Item(p, k)
        BY <2>2, <2>4, <4>1
      <4>3. Item(p, k) = p[k] /\ rest[p[k - 1]].prev = tk[p[k - 1]].prev
        BY <4>2 DEF Item, Reduced
      <4>4. p[k] \in DOMAIN rest \cup {0} /\ p[k] \in DOMAIN tk
        BY <1>2, <2>2, <4>2, <4>3
      <4>5. p[k] # 0
        BY <4>4 DEF Rooted
      <4>6. QED
        BY <4>4, <4>5
    <3>3. QED
      BY <3>1, <3>2
  <2> HIDE DEF P
  <2>5. \A k \in 0 .. Len(p) : k \in P
    BY <2>2, <2>3, <2>4, UpTo
  <2>6. \A k \in 1 .. Len(p) : p[k] \in DOMAIN rest
    BY <2>2, <2>5 DEF P
  <2>7. p \in Seq(DOMAIN rest)
    <3>1. p = [k \in 1 .. Len(p) |-> p[k]]
      BY <2>2
    <3>2. p \in [1 .. Len(p) -> DOMAIN rest]
      BY <2>6, <3>1
    <3>3. QED
      BY <2>2, <3>2, FunctionIsSeq
  <2>8. \A k \in 1 .. Len(p) : rest[p[k]].prev = Item(p, k + 1)
    BY <2>2, <2>6 DEF Reduced
  <2>9. Linked(PrevOf(rest), t, p)
    BY <2>2, <2>6, <2>7, <2>8 DEF Linked, PrevOf
  <2>10. QED
    BY <2>9
<1>4. ASSUME NEW t \in DOMAIN rest
      PROVE  rest[t] = [arc |-> rest[t].arc, prev |-> rest[t].prev, refs |-> rest[t].refs, weight |-> rest[t].weight]
  BY DEF Reduced
<1>5. QED
  BY <1>1, <1>2, <1>3, <1>4 DEF Rooted

\* TokenDelete gives one count of x back; who else is counted stays exact.
LEMMA TokenDeleteKeeps ==
  ASSUME NEW tk, Rooted(tk), NEW x \in DOMAIN tk, NEW h, NEW S, IsFiniteSet(S), Counted(tk, h, S, x),
         \A e \in S : h.elems[e].val \in DOMAIN tk
  PROVE  /\ Rooted(TokenDelete(tk, x))
         /\ Reduced(tk, TokenDelete(tk, x))
         /\ Counted(TokenDelete(tk, x), h, S, 0)
         /\ \A e \in S : h.elems[e].val \in DOMAIN TokenDelete(tk, x)
<1> DEFINE r == TokenDelete(tk, x)
<1>1. PICK p : Linked(PrevOf(tk), x, p)
  BY DEF Rooted
<1>2. /\ Len(p) \in Nat /\ p \in Seq(DOMAIN tk) /\ x = Item(p, 1)
      /\ \A k \in 1 .. Len(p) : p[k] \in DOMAIN tk /\ tk[p[k]].prev = Item(p, k + 1)
      /\ \A k, l \in 1 .. Len(p) : p[k] = p[l] => k = l
  BY <1>1, PathIs
<1>3. 1 \in 1 .. Len(p) /\ x = p[1]
  BY <1>2 DEF Item, Rooted
<1> HIDE DEF r
<1>4. PICK m \in 0 .. Len(p) : Deleted(tk, p, m, r)
  BY <1>1, TokenDeleteIs DEF r
<1>5. /\ \A i \in 1 .. m : tk[p[i]].refs = 1
      /\ m < Len(p) => tk[p[m + 1]].refs > 1
  BY <1>4 DEF Deleted
<1> DEFINE D == {p[i] : i \in 1 .. m}
<1>6. \A i \in 1 .. m : i \in 1 .. Len(p)
  BY <1>2
<1>7. \A t : /\ IsFiniteSet(Kin(tk, t)) /\ Cardinality(Kin(tk, t)) \in Nat
             /\ IsFiniteSet(Holders(h, S, t)) /\ Cardinality(Holders(h, S, t)) \in Nat
  BY CountsAreNumbers
<1>8. \A i \in 1 .. Len(p) : i > 1 => i - 1 \in 1 .. Len(p) /\ p[i - 1] \in Kin(tk, p[i]) /\ p[i] # x
  <2> SUFFICES ASSUME NEW i \in 1 .. Len(p), i > 1
               PROVE  i - 1 \in 1 .. Len(p) /\ p[i - 1] \in Kin(tk, p[i]) /\ p[i] # x
    OBVIOUS
  <2>1. i - 1 \in 1 .. Len(p) /\ (i - 1) + 1 = i /\ i # 1
    BY <1>2
  <2>2. tk[p[i - 1]].prev = Item(p, i) /\ Item(p, i) = p[i]
    BY <1>2, <2>1 DEF Item
  <2>3. QED
    BY <1>2, <1>3, <2>1, <2>2 DEF Kin
<1>9. ASSUME NEW i \in 1 .. m
      PROVE  Holders(h, S, p[i]) = {} /\ Kin(tk, p[i]) \subseteq D
  <2>1. i \in 1 .. Len(p) /\ p[i] \in DOMAIN tk
    BY <1>2, <1>6
  <2> DEFINE a == Cardinality(Holders(h, S, p[i]))
             b == Cardinality(Kin(tk, p[i]))
  <2>2. 1 = a + b + (IF p[i] = x THEN 1 ELSE 0) /\ a \in Nat /\ b \in Nat
    <3>1. tk[p[i]].refs = a + b + (IF p[i] = x THEN 1 ELSE 0)
      BY <2>1 DEF Counted
    <3>2. tk[p[i]].refs = 1
      BY <1>5
    <3>3. a \in Nat /\ b \in Nat
      BY <1>7
    <3> HIDE DEF a, b
    <3>4. QED
      BY <3>1, <3>2, <3>3
  <2>3. CASE i = 1
    <3>1. a = 0 /\ b = 0
      BY <1>3, <2>2, <2>3
    <3>2. QED
      BY <1>7, <3>1, CardinalityOf
  <2>4. CASE i # 1
    <3>1. i - 1 \in 1 .. m /\ p[i - 1] \in Kin(tk, p[i]) /\ p[i] # x
      BY <1>8, <2>1, <2>4
    <3>2. b # 0
      BY <1>7, <3>1, CardinalityOf
    <3>3. a = 0 /\ b = 1
      BY <2>2, <3>1, <3>2
    <3>4. Kin(tk, p[i]) = {p[i - 1]}
      BY <1>7, <3>1, <3>3, CardinalityOf
    <3>5. Holders(h, S, p[i]) = {}
      BY <1>7, <3>3, CardinalityOf
    <3>6. QED
      BY <3>1, <3>4, <3>5
  <2>5. QED
    BY <2>3, <2>4
<1>10. /\ DOMAIN r = DOMAIN tk \ D
       /\ \A u \in DOMAIN r :
            r[u] = IF m < Len(p) /\ u = p[m + 1] THEN [tk[u] EXCEPT !.refs = @ - 1] ELSE tk[u]
  BY <1>4 DEF Deleted
<1>11. ASSUME NEW u \in DOMAIN r
       PROVE  /\ u \in DOMAIN tk /\ u \notin D /\ tk[u].refs \in Nat
              /\ r[u] = [arc |-> tk[u].arc, prev |-> tk[u].prev, refs |-> r[u].refs, weight |-> tk[u].weight]
              /\ r[u].refs = tk[u].refs - (IF m < Len(p) /\ u = p[m + 1] THEN 1 ELSE 0)
              /\ r[u].refs \in Nat /\ r[u].refs # 0
  <2>1. u \in DOMAIN tk /\ u \notin D
    BY <1>10
  <2>2. /\ tk[u] = [arc |-> tk[u].arc, prev |-> tk[u].prev, refs |-> tk[u].refs, weight |-> tk[u].weight]
        /\ tk[u].refs \in Nat /\ tk[u].refs # 0
    BY <2>1 DEF Rooted
  <2>3. CASE m < Len(p) /\ u = p[m + 1]
    <3>1. tk[u].refs > 1 /\ r[u] = [tk[u] EXCEPT !.refs = @ - 1]
      <4>1. tk[u].refs > 1
        BY <1>5, <2>3
      <4>2. r[u] = [tk[u] EXCEPT !.refs = @ - 1]
        <5> HIDE DEF D
        <5> QED BY <1>10, <2>3
      <4>3. QED
        BY <4>1, <4>2
    <3>2. r[u] = [arc |-> tk[u].arc, prev |-> tk[u].prev, refs |-> tk[u].refs - 1, weight |-> tk[u].weight]
      BY <2>2, <3>1
    <3>3. QED
      BY <2>1, <2>2, <2>3, <3>1, <3>2
  <2>4. CASE ~(m < Len(p) /\ u = p[m + 1])
    <3>1. r[u] = tk[u]
      BY <1>10, <2>4
    <3>2. QED
      BY <2>1, <2>2, <2>4, <3>1
  <2>5. QED
    BY <2>3, <2>4
<1>12. Reduced(tk, r)
  BY <1>10, <1>11 DEF Reduced
<1>13. Rooted(r)
  <2>1. \A d \in D : Kin(tk, d) \subseteq D
    BY <1>9
  <2> HIDE DEF D
  <2>2. DOMAIN r = DOMAIN tk \ D /\ IsFunction(r)
    BY <1>4, <1>10 DEF Deleted, IsFunction
  <2>3. QED
    BY <1>11, <1>12, <2>1, <2>2, RestRooted
<1>14. ASSUME NEW u \in DOMAIN r
       PROVE  r[u].refs = Cardinality(Holders(h, S, u)) + Cardinality(Kin(r, u)) + (IF u = 0 THEN 1 ELSE 0)
  <2>1. u # 0 /\ u \in DOMAIN tk /\ u \notin D
    BY <1>11 DEF Rooted
  <2> DEFINE a == Cardinality(Holders(h, S, u))
             b == Cardinality(Kin(tk, u))
  <2>2. tk[u].refs = a + b + (IF u = x THEN 1 ELSE 0) /\ a \in Nat /\ b \in Nat
    BY <1>7, <2>1 DEF Counted
  <2>3. Kin(r, u) = Kin(tk, u) \ D
    BY <1>10, <1>11 DEF Kin
  <2>4. CASE m < Len(p) /\ u = p[m + 1] /\ m = 0
    <3>1. D = {} /\ u = x
      BY <1>3, <2>4
    <3>2. Kin(r, u) = Kin(tk, u)
      BY <2>3, <3>1
    <3>3. QED
      BY <1>11, <2>1, <2>2, <2>4, <3>1, <3>2
  <2>5. CASE m < Len(p) /\ u = p[m + 1] /\ m # 0
    <3>1. m + 1 \in 1 .. Len(p) /\ m + 1 > 1 /\ (m + 1) - 1 = m /\ m \in 1 .. Len(p)
      BY <1>2, <2>5
    <3>2. p[m] \in Kin(tk, u) /\ u # x
      BY <1>8, <2>5, <3>1
    <3>3. ASSUME NEW d \in D, d \in Kin(tk, u) PROVE d = p[m]
      <4>1. PICK i \in 1 .. m : d = p[i]
        OBVIOUS
      <4>2. i \in 1 .. Len(p) /\ i + 1 \in 1 .. Len(p)
        BY <1>2, <3>1
      <4>3. tk[p[i]].prev = p[i + 1]
        BY <1>2, <4>2 DEF Item
      <4>4. p[i + 1] = p[m + 1]
        BY <2>5, <3>3, <4>1, <4>3 DEF Kin
      <4>5. i + 1 = m + 1
        BY <1>2, <3>1, <4>2, <4>4
      <4>6. QED
        BY <4>1, <4>5
    <3>4. p[m] \in D
      BY <3>1
    <3>5. Kin(r, u) = Kin(tk, u) \ {p[m]}
      BY <2>3, <3>3, <3>4
    <3>6. Cardinality(Kin(r, u)) = b - 1
      BY <1>7, <3>2, <3>5, FS_RemoveElement
    <3>7. QED
      BY <1>11, <2>1, <2>2, <2>5, <3>2, <3>6
  <2>6. CASE ~(m < Len(p) /\ u = p[m + 1])
    <3>1. ASSUME NEW d \in D PROVE d \notin Kin(tk, u)
      <4>1. PICK i \in 1 .. m : d = p[i]
        OBVIOUS
      <4>2. i \in 1 .. Len(p) /\ tk[d].prev = Item(p, i + 1)
        BY <1>2, <1>6, <4>1
      <4>3. CASE i = m
        <5>1. Item(p, i + 1) # u
          BY <1>2, <2>1, <2>6, <4>3 DEF Item
        <5>2. QED
          BY <4>2, <5>1 DEF Kin
      <4>4. CASE i # m
        <5>1. i + 1 \in 1 .. m /\ i + 1 \in 1 .. Len(p)
          BY <1>2, <4>4
        <5>2. Item(p, i + 1) = p[i + 1] /\ p[i + 1] \in D
          BY <5>1 DEF Item
        <5>3. QED
          BY <2>1, <4>2, <5>2 DEF Kin
      <4>5. QED
        BY <4>3, <4>4
    <3>2. Kin(r, u) = Kin(tk, u)
      BY <2>3, <3>1
    <3>3. u # x
      <4>1. CASE m = 0
        BY <1>2, <1>3, <2>6, <4>1
      <4>2. CASE m # 0
        <5>1. 1 \in 1 .. m
          BY <1>2, <4>2
        <5>2. QED
          BY <1>3, <2>1, <5>1
      <4>3. QED
        BY <4>1, <4>2
    <3>4. QED
      BY <1>11, <2>1, <2>2, <2>6, <3>2, <3>3
  <2>7. QED
    BY <2>4, <2>5, <2>6
<1>15. ASSUME NEW e \in S
       PROVE  h.elems[e].val \in DOMAIN r
  <2>1. h.elems[e].val \in DOMAIN tk
    OBVIOUS
  <2>2. ASSUME NEW i \in 1 .. m PROVE h.elems[e].val # p[i]
    BY <1>9 DEF Holders
  <2>3. QED
    BY <1>10, <2>1, <2>2
<1>16. QED
  BY <1>12, <1>13, <1>14, <1>15 DEF Counted, r

LEMMA FreshIs ==
  ASSUME NEW tk, IsFiniteSet(DOMAIN tk)
  PROVE  Fresh(tk) \in Nat \ {0} /\ Fresh(tk) \notin DOMAIN tk
<1> DEFINE n == Cardinality(DOMAIN tk)
<1>1. n \in Nat
  BY FS_CardinalityType
<1>2. \E t \in 1 .. n + 1 : t \notin DOMAIN tk
  <2> SUFFICES ASSUME 1 .. n + 1 \subseteq DOMAIN tk PROVE FALSE
    OBVIOUS
  <2>1. Cardinality(1 .. n + 1) <= n
    BY FS_Subset
  <2>2. Cardinality(1 .. n + 1) = n + 1
    <3> HIDE DEF n
    <3>1. 1 \in Int /\ n + 1 \in Int /\ ~(1 > n + 1)
      BY <1>1
    <3> DEFINE k == n + 1
    <3> HIDE DEF k
    <3>2. Cardinality(1 .. k) = IF 1 > k THEN 0 ELSE k - 1 + 1
      BY <3>1, FS_Interval DEF k
    <3>3. QED
      BY <1>1, <3>1, <3>2 DEF k
  <2>3. QED
    BY <1>1, <2>1, <2>2
<1>3. Fresh(tk) \in 1 .. n + 1 /\ Fresh(tk) \notin DOMAIN tk
  BY <1>2 DEF Fresh
<1>4. QED
  BY <1>1, <1>3

\* A token that points to a token, or to none, is rooted.
LEMMA MoreRooted ==
  ASSUME NEW tk, Rooted(tk), NEW x \in Nat \ {0}, x \notin DOMAIN tk, NEW more, IsFunction(more),
         DOMAIN more = DOMAIN tk \cup {x},
         Reduced(more, tk), more[x].prev \in DOMAIN tk \cup {0},
         \A t \in DOMAIN more :
           /\ more[t] = [arc |-> more[t].arc, prev |-> more[t].prev, refs |-> more[t].refs, weight |-> more[t].weight]
           /\ more[t].refs \in Nat /\ more[t].refs # 0
  PROVE  Rooted(more)
<1>1. IsFiniteSet(DOMAIN more) /\ DOMAIN more \subseteq Nat \ {0}
  BY FS_AddElement DEF Rooted
<1>2. ASSUME NEW t \in DOMAIN tk
      PROVE  more[t].prev = tk[t].prev /\ tk[t].prev \in DOMAIN tk \cup {0} /\ t # x
  BY DEF Reduced, Rooted
<1>3. ASSUME NEW t \in DOMAIN tk
      PROVE  \E p : Linked(PrevOf(tk), t, p) /\ Linked(PrevOf(more), t, p) /\ x \notin Members(p)
  <2>1. PICK p : Linked(PrevOf(tk), t, p)
    BY DEF Rooted
  <2>2. \A m \in Members(p) : m \in DOMAIN tk
    BY <2>1, PathIs DEF Members
  <2>3. DOMAIN PrevOf(tk) \subseteq DOMAIN PrevOf(more)
    BY DEF PrevOf
  <2>4. \A m \in Members(p) : PrevOf(more)[m] = PrevOf(tk)[m]
    BY <1>2, <2>2 DEF PrevOf
  <2>5. Linked(PrevOf(more), t, p)
    BY <2>1, <2>3, <2>4, LinkedSame
  <2>6. QED
    BY <1>2, <2>1, <2>2, <2>5
<1>4. \E p : Linked(PrevOf(more), x, p)
  <2> DEFINE u == more[x].prev
  <2>1. x \in DOMAIN PrevOf(more) /\ PrevOf(more)[x] = u /\ DOMAIN PrevOf(tk) \subseteq DOMAIN PrevOf(more)
    BY DEF PrevOf
  <2>2. \E p : Linked(PrevOf(more), u, p) /\ x \notin Members(p)
    <3>1. CASE u \in DOMAIN tk
      BY <1>3, <3>1
    <3>2. CASE u = 0
      <4>1. Linked(PrevOf(more), 0, <<>>) /\ Members(<<>>) = {}
        BY LinkedNone
      <4>2. QED
        BY <3>2, <4>1
    <3>3. QED
      BY <3>1, <3>2
  <2>3. PICK p : Linked(PrevOf(more), u, p) /\ x \notin Members(p)
    BY <2>2
  <2>4. Len(p) \in Nat /\ u = Item(p, 1)
    BY <2>3, PathIs
  <2>5. Linked(PrevOf(more), x, Inserted(p, 0, x))
    <3> HIDE DEF u
    <3>1. 0 \in 0 .. Len(p) /\ u = Item(p, 0 + 1)
      BY <2>4
    <3>2. Linked(PrevOf(more), IF 0 = 0 THEN x ELSE u, Inserted(p, 0, x))
      BY <2>1, <2>3, <3>1, LinkedInsert
    <3>3. QED
      BY <3>2
  <2>6. QED
    BY <2>5
<1>5. ASSUME NEW t \in DOMAIN more
      PROVE  more[t].prev \in DOMAIN more \cup {0} /\ \E p : Linked(PrevOf(more), t, p)
  BY <1>2, <1>3, <1>4
<1>6. QED
  BY <1>1, <1>5 DEF Rooted

LEMMA AddedIs ==
  ASSUME NEW tk, IsFiniteSet(DOMAIN tk), NEW new
  PROVE  /\ DOMAIN Added(tk, new) = DOMAIN tk \cup {Fresh(tk)}
         /\ Added(tk, new)[Fresh(tk)] = new
         /\ \A u \in DOMAIN tk : Added(tk, new)[u] = tk[u]
         /\ IsFunction(Added(tk, new))
<1> DEFINE x == Fresh(tk)
<1>1. x \notin DOMAIN tk
  BY FreshIs
<1>2. Added(tk, new) = [t \in DOMAIN tk \cup {x} |-> IF t \in DOMAIN tk THEN tk[t] ELSE new]
  BY DEF Added
<1> HIDE DEF x
<1>3. QED
  BY <1>1, <1>2 DEF x, IsFunction

\* n is tk with x, a new token from prev.
More(n, tk, x, arc, ac, prev) ==
  /\ IsFunction(n) /\ DOMAIN n = DOMAIN tk \cup {x}
  /\ n[x] = [arc |-> arc, prev |-> prev, refs |-> 1, weight |-> tk[prev].weight + arc.weight + ac]
  /\ \A u \in DOMAIN tk : n[u] = IF u = prev THEN [tk[u] EXCEPT !.refs = @ + 1] ELSE tk[u]

LEMMA NewTokenIs ==
  ASSUME NEW tk, Rooted(tk), NEW arc, NEW ac, NEW prev \in DOMAIN tk
  PROVE  More(NewToken(tk, arc, ac, prev), tk, Fresh(tk), arc, ac, prev)
<1> DEFINE more == [tk EXCEPT ![prev].refs = @ + 1]
           new == [arc |-> arc, prev |-> prev, refs |-> 1, weight |-> tk[prev].weight + arc.weight + ac]
<1>1. DOMAIN more = DOMAIN tk /\ \A u \in DOMAIN tk : more[u] = IF u = prev THEN [tk[u] EXCEPT !.refs = @ + 1] ELSE tk[u]
  OBVIOUS
<1>2. NewToken(tk, arc, ac, prev) = Added(more, new)
  BY DEF NewToken
<1> HIDE DEF more, new
<1>3. Fresh(more) = Fresh(tk) /\ IsFiniteSet(DOMAIN more)
  BY <1>1 DEF Fresh, Rooted
<1>4. /\ DOMAIN Added(more, new) = DOMAIN more \cup {Fresh(more)}
      /\ Added(more, new)[Fresh(more)] = new
      /\ \A u \in DOMAIN more : Added(more, new)[u] = more[u]
      /\ IsFunction(Added(more, new))
  BY <1>3, AddedIs
<1>5. QED
  BY <1>1, <1>2, <1>3, <1>4 DEF new, More

\* A new token has one count to be accounted for.
LEMMA NewTokenKeeps ==
  ASSUME NEW tk, Rooted(tk), NEW h, NEW S, IsFiniteSet(S), Counted(tk, h, S, 0),
         \A e \in S : h.elems[e].val \in DOMAIN tk, NEW arc, NEW ac, NEW prev \in DOMAIN tk
  PROVE  /\ Rooted(NewToken(tk, arc, ac, prev))
         /\ Reduced(NewToken(tk, arc, ac, prev), tk)
         /\ Counted(NewToken(tk, arc, ac, prev), h, S, Fresh(tk))
<1> DEFINE x == Fresh(tk)
           n == NewToken(tk, arc, ac, prev)
<1>1. x \in Nat \ {0} /\ x \notin DOMAIN tk
  BY FreshIs DEF Rooted
<1>2. /\ IsFunction(n) /\ DOMAIN n = DOMAIN tk \cup {x}
      /\ n[x] = [arc |-> arc, prev |-> prev, refs |-> 1, weight |-> tk[prev].weight + arc.weight + ac]
      /\ \A u \in DOMAIN tk : n[u] = IF u = prev THEN [tk[u] EXCEPT !.refs = @ + 1] ELSE tk[u]
  BY NewTokenIs DEF More
<1> HIDE DEF x, n
<1>3. ASSUME NEW u \in DOMAIN tk
      PROVE  /\ n[u] = [arc |-> tk[u].arc, prev |-> tk[u].prev, refs |-> n[u].refs, weight |-> tk[u].weight]
             /\ n[u].refs = tk[u].refs + (IF u = prev THEN 1 ELSE 0)
             /\ tk[u].refs \in Nat /\ n[u].refs \in Nat /\ n[u].refs # 0 /\ u # x /\ u # 0
  <2>1. /\ tk[u] = [arc |-> tk[u].arc, prev |-> tk[u].prev, refs |-> tk[u].refs, weight |-> tk[u].weight]
        /\ tk[u].refs \in Nat /\ tk[u].refs # 0 /\ u # 0
    BY DEF Rooted
  <2>2. CASE u = prev
    <3>1. n[u] = [tk[u] EXCEPT !.refs = @ + 1]
      BY <1>2, <2>2
    <3>2. n[u] = [arc |-> tk[u].arc, prev |-> tk[u].prev, refs |-> tk[u].refs + 1, weight |-> tk[u].weight]
      BY <2>1, <3>1
    <3>3. QED
      BY <1>1, <2>1, <2>2, <3>2
  <2>3. CASE u # prev
    <3>1. n[u] = tk[u]
      BY <1>2, <2>3
    <3>2. QED
      BY <1>1, <2>1, <2>3, <3>1
  <2>4. QED
    BY <2>2, <2>3
<1>4. Reduced(n, tk)
  BY <1>2, <1>3 DEF Reduced
<1>5. Rooted(n)
  <2>1. \A t \in DOMAIN n :
           /\ n[t] = [arc |-> n[t].arc, prev |-> n[t].prev, refs |-> n[t].refs, weight |-> n[t].weight]
           /\ n[t].refs \in Nat /\ n[t].refs # 0
    BY <1>2, <1>3
  <2>2. n[x].prev \in DOMAIN tk \cup {0}
    BY <1>2
  <2>3. IsFunction(n) /\ DOMAIN n = DOMAIN tk \cup {x}
    BY <1>2
  <2>4. QED
    BY <1>1, <1>4, <2>1, <2>2, <2>3, MoreRooted
<1>6. \A t : /\ IsFiniteSet(Kin(tk, t)) /\ Cardinality(Kin(tk, t)) \in Nat
             /\ IsFiniteSet(Holders(h, S, t)) /\ Cardinality(Holders(h, S, t)) \in Nat
  BY CountsAreNumbers
<1>7. ASSUME NEW t \in DOMAIN n
      PROVE  n[t].refs = Cardinality(Holders(h, S, t)) + Cardinality(Kin(n, t)) + (IF t = x THEN 1 ELSE 0)
  <2>1. CASE t = x
    <3>1. Kin(n, t) = {}
      <4>1. \A u \in DOMAIN tk : n[u].prev # x
        <5> SUFFICES ASSUME NEW u \in DOMAIN tk PROVE n[u].prev # x
          OBVIOUS
        <5>1. n[u].prev = tk[u].prev
          BY <1>4 DEF Reduced
        <5>2. tk[u].prev \in DOMAIN tk \cup {0}
          BY DEF Rooted
        <5>3. QED
          BY <1>1, <5>1, <5>2
      <4>2. n[x].prev # x
        BY <1>1, <1>2
      <4>3. QED
        BY <1>2, <2>1, <4>1, <4>2 DEF Kin
    <3>2. Holders(h, S, t) = {}
      BY <1>1, <2>1 DEF Holders
    <3>3. n[t].refs = 1
      BY <1>2, <2>1
    <3>4. QED
      BY <2>1, <3>1, <3>2, <3>3, FS_EmptySet
  <2>2. CASE t # x
    <3>1. t \in DOMAIN tk
      BY <1>2, <2>2
    <3>2. tk[t].refs = Cardinality(Holders(h, S, t)) + Cardinality(Kin(tk, t))
      <4>1. t # 0
        BY <1>3, <3>1
      <4>2. tk[t].refs = Cardinality(Holders(h, S, t)) + Cardinality(Kin(tk, t)) + 0
        BY <3>1, <4>1 DEF Counted
      <4>3. QED
        BY <1>6, <4>2
    <3>3. n[t].refs = tk[t].refs + (IF t = prev THEN 1 ELSE 0)
      BY <1>3, <3>1
    <3>4. CASE t = prev
      <4>1. Kin(n, t) = Kin(tk, t) \cup {x}
        BY <1>2, <1>3, <3>4 DEF Kin
      <4>2. x \notin Kin(tk, t)
        BY <1>1 DEF Kin
      <4>3. Cardinality(Kin(n, t)) = Cardinality(Kin(tk, t)) + 1
        BY <1>6, <4>1, <4>2, FS_AddElement
      <4>4. QED
        BY <1>6, <2>2, <3>2, <3>4, <3>3, <4>3
    <3>5. CASE t # prev
      <4>1. Kin(n, t) = Kin(tk, t)
        BY <1>2, <1>3, <3>5 DEF Kin
      <4>2. QED
        BY <1>6, <2>2, <3>2, <3>5, <3>3, <4>1
    <3>6. QED
      BY <3>4, <3>5
  <2>3. QED
    BY <2>1, <2>2
<1>8. QED
  BY <1>4, <1>5, <1>7 DEF Counted, n, x

-----------------------------------------------------------------------------
(* Counts when an element is given a token, or gives it back *)

\* The element that is added holds the token that was not accounted for.
LEMMA CountInsert ==
  ASSUME NEW tk, Rooted(tk), NEW h, NEW S, IsFiniteSet(S), NEW x, Counted(tk, h, S, x),
         NEW g, NEW e, e \notin S, g.elems[e].val = x, \A y \in S : g.elems[y].val = h.elems[y].val
  PROVE  Counted(tk, g, S \cup {e}, 0)
<1> SUFFICES ASSUME NEW t \in DOMAIN tk
             PROVE  tk[t].refs = Cardinality(Holders(g, S \cup {e}, t)) + Cardinality(Kin(tk, t))
                                   + (IF t = 0 THEN 1 ELSE 0)
  BY DEF Counted
<1>1. t # 0
  BY DEF Rooted
<1>2. /\ IsFiniteSet(Holders(h, S, t)) /\ Cardinality(Holders(h, S, t)) \in Nat /\ Cardinality(Kin(tk, t)) \in Nat
  BY CountsAreNumbers
<1>3. tk[t].refs = Cardinality(Holders(h, S, t)) + Cardinality(Kin(tk, t)) + (IF t = x THEN 1 ELSE 0)
  BY DEF Counted
<1>4. CASE t = x
  <2>1. Holders(g, S \cup {e}, t) = Holders(h, S, t) \cup {e} /\ e \notin Holders(h, S, t)
    BY <1>4 DEF Holders
  <2>2. Cardinality(Holders(g, S \cup {e}, t)) = Cardinality(Holders(h, S, t)) + 1
    BY <1>2, <2>1, FS_AddElement
  <2>3. QED
    BY <1>1, <1>2, <1>3, <1>4, <2>2
<1>5. CASE t # x
  <2>1. Holders(g, S \cup {e}, t) = Holders(h, S, t)
    BY <1>5 DEF Holders
  <2>2. QED
    BY <1>1, <1>2, <1>3, <1>5, <2>1
<1>6. QED
  BY <1>4, <1>5

\* The token that is replaced is no longer accounted for.
LEMMA CountSet ==
  ASSUME NEW tk, Rooted(tk), NEW h, NEW S, IsFiniteSet(S), NEW x, Counted(tk, h, S, x),
         NEW g, NEW e \in S, h.elems[e].val # x, g.elems[e].val = x,
         \A y \in S : y # e => g.elems[y].val = h.elems[y].val
  PROVE  Counted(tk, g, S, h.elems[e].val)
<1> DEFINE old == h.elems[e].val
<1> SUFFICES ASSUME NEW t \in DOMAIN tk
             PROVE  tk[t].refs = Cardinality(Holders(g, S, t)) + Cardinality(Kin(tk, t))
                                   + (IF t = old THEN 1 ELSE 0)
  BY DEF Counted
<1>1. \A i : IsFiniteSet(Holders(i, S, t)) /\ Cardinality(Holders(i, S, t)) \in Nat /\ Cardinality(Kin(tk, t)) \in Nat
  BY CountsAreNumbers
<1>2. tk[t].refs = Cardinality(Holders(h, S, t)) + Cardinality(Kin(tk, t)) + (IF t = x THEN 1 ELSE 0)
  BY DEF Counted
<1>3. CASE t = x
  <2>1. Holders(g, S, t) = Holders(h, S, t) \cup {e} /\ e \notin Holders(h, S, t)
    BY <1>3 DEF Holders
  <2>2. Cardinality(Holders(g, S, t)) = Cardinality(Holders(h, S, t)) + 1
    BY <1>1, <2>1, FS_AddElement
  <2>3. QED
    BY <1>1, <1>2, <1>3, <2>2
<1>4. CASE t = old
  <2>1. Holders(g, S, t) = Holders(h, S, t) \ {e} /\ e \in Holders(h, S, t)
    BY <1>4 DEF Holders
  <2>2. Cardinality(Holders(g, S, t)) = Cardinality(Holders(h, S, t)) - 1
    BY <1>1, <2>1, FS_RemoveElement
  <2>3. QED
    BY <1>1, <1>2, <1>4, <2>2
<1>5. CASE t # x /\ t # old
  <2>1. Holders(g, S, t) = Holders(h, S, t)
    BY <1>5 DEF Holders
  <2>2. QED
    BY <1>2, <1>5, <2>1
<1>6. QED
  BY <1>3, <1>4, <1>5

\* The token of an element that is given back is no longer accounted for.
LEMMA CountDelete ==
  ASSUME NEW tk, Rooted(tk), NEW h, NEW S, IsFiniteSet(S), Counted(tk, h, S, 0),
         NEW g, NEW e \in S, \A y \in S : g.elems[y].val = h.elems[y].val
  PROVE  Counted(tk, g, S \ {e}, h.elems[e].val)
<1> DEFINE old == h.elems[e].val
<1> SUFFICES ASSUME NEW t \in DOMAIN tk
             PROVE  tk[t].refs = Cardinality(Holders(g, S \ {e}, t)) + Cardinality(Kin(tk, t))
                                   + (IF t = old THEN 1 ELSE 0)
  BY DEF Counted
<1>1. IsFiniteSet(Holders(h, S, t)) /\ Cardinality(Holders(h, S, t)) \in Nat /\ Cardinality(Kin(tk, t)) \in Nat
  BY CountsAreNumbers
<1>2. tk[t].refs = Cardinality(Holders(h, S, t)) + Cardinality(Kin(tk, t))
  <2>1. t # 0
    BY DEF Rooted
  <2>2. tk[t].refs = Cardinality(Holders(h, S, t)) + Cardinality(Kin(tk, t)) + (IF t = 0 THEN 1 ELSE 0)
    BY DEF Counted
  <2>3. QED
    BY <1>1, <2>1, <2>2
<1>3. CASE t = old
  <2>1. Holders(g, S \ {e}, t) = Holders(h, S, t) \ {e} /\ e \in Holders(h, S, t)
    BY <1>3 DEF Holders
  <2>2. Cardinality(Holders(g, S \ {e}, t)) = Cardinality(Holders(h, S, t)) - 1
    BY <1>1, <2>1, FS_RemoveElement
  <2>3. QED
    BY <1>1, <1>2, <1>3, <2>2
<1>4. CASE t # old
  <2>1. Holders(g, S \ {e}, t) = Holders(h, S, t)
    BY <1>4 DEF Holders
  <2>2. QED
    BY <1>1, <1>2, <1>4, <2>1
<1>5. QED
  BY <1>3, <1>4

-----------------------------------------------------------------------------
(* Paths of tokens are paths of the graph *)

\* Token t took its arc from the state of token u, in the frame of its depth.
Follows(gr, fs, tk, depth, t, u) ==
  LET arc == tk[t].arc
  IN  /\ arc \in Range(gr.arcs[tk[u].arc.nextstate])
      /\ depth[t] = depth[u] + (IF Emits(arc) THEN 1 ELSE 0)
      /\ tk[t].weight = tk[u].weight + arc.weight + (IF Emits(arc) THEN fs[depth[t]][arc.ilabel] ELSE 0)

Real(gr, fs, tk, depth) ==
  \A t \in DOMAIN tk :
    /\ depth[t] \in Nat /\ tk[t].weight \in Int
    /\ tk[t].prev = 0 => tk[t].arc.ilabel = 0 /\ tk[t].arc.nextstate = gr.start /\ depth[t] = 0
    /\ tk[t].prev # 0 => Follows(gr, fs, tk, depth, t, tk[t].prev)

LEMMA RealReduced ==
  ASSUME NEW gr, NEW fs, NEW tk, NEW depth, Real(gr, fs, tk, depth), NEW rest, Rooted(rest), Reduced(tk, rest)
  PROVE  Real(gr, fs, rest, depth)
<1> SUFFICES ASSUME NEW t \in DOMAIN rest
             PROVE  /\ depth[t] \in Nat /\ rest[t].weight \in Int
                    /\ rest[t].prev = 0 => /\ rest[t].arc.ilabel = 0 /\ rest[t].arc.nextstate = gr.start
                                           /\ depth[t] = 0
                    /\ rest[t].prev # 0 => Follows(gr, fs, rest, depth, t, rest[t].prev)
  BY DEF Real
<1>1. /\ t \in DOMAIN tk /\ rest[t].arc = tk[t].arc /\ rest[t].prev = tk[t].prev /\ rest[t].weight = tk[t].weight
  BY DEF Reduced
<1>2. /\ depth[t] \in Nat /\ tk[t].weight \in Int
      /\ tk[t].prev = 0 => tk[t].arc.ilabel = 0 /\ tk[t].arc.nextstate = gr.start /\ depth[t] = 0
  BY <1>1 DEF Real
<1>3. ASSUME tk[t].prev # 0
      PROVE  Follows(gr, fs, rest, depth, t, tk[t].prev)
  <2> DEFINE u == tk[t].prev
  <2>1. Follows(gr, fs, tk, depth, t, u)
    BY <1>1, <1>3 DEF Real
  <2>2. u \in DOMAIN rest
    BY <1>1, <1>3 DEF Rooted
  <2>3. rest[u].arc = tk[u].arc /\ rest[u].weight = tk[u].weight
    BY <2>2 DEF Reduced
  <2> HIDE DEF u
  <2>4. QED
    BY <1>1, <2>1, <2>3 DEF Follows, u
<1>4. QED
  BY <1>1, <1>2, <1>3

\* depth with d for x.
With(depth, tk, x, d) == [t \in DOMAIN tk \cup {x} |-> IF t = x THEN d ELSE depth[t]]

LEMMA RealNew ==
  ASSUME NEW gr, NEW fs, NEW tk, Rooted(tk), NEW depth, Real(gr, fs, tk, depth),
         NEW prev \in DOMAIN tk, NEW arc \in Range(gr.arcs[tk[prev].arc.nextstate]), NEW d \in Nat,
         d = depth[prev] + (IF Emits(arc) THEN 1 ELSE 0),
         arc.weight \in Int, (IF Emits(arc) THEN fs[d][arc.ilabel] ELSE 0) \in Int
  PROVE  Real(gr, fs, NewToken(tk, arc, IF Emits(arc) THEN fs[d][arc.ilabel] ELSE 0, prev),
              With(depth, tk, Fresh(tk), d))
<1> DEFINE x == Fresh(tk)
           ac == IF Emits(arc) THEN fs[d][arc.ilabel] ELSE 0
           n == NewToken(tk, arc, ac, prev)
           to == With(depth, tk, x, d)
<1>1. x \notin DOMAIN tk
  BY FreshIs DEF Rooted
<1>2. More(n, tk, x, arc, ac, prev)
  BY NewTokenIs
<1>3. to[x] = d /\ \A u \in DOMAIN tk : to[u] = depth[u]
  BY <1>1 DEF With
<1> HIDE DEF x, n, to, ac
<1>4. /\ DOMAIN n = DOMAIN tk \cup {x}
      /\ n[x] = [arc |-> arc, prev |-> prev, refs |-> 1, weight |-> tk[prev].weight + arc.weight + ac]
      /\ \A u \in DOMAIN tk : n[u] = IF u = prev THEN [tk[u] EXCEPT !.refs = @ + 1] ELSE tk[u]
  BY <1>2 DEF More
<1>5. \A u \in DOMAIN tk : n[u].arc = tk[u].arc /\ n[u].prev = tk[u].prev /\ n[u].weight = tk[u].weight
  <2> SUFFICES ASSUME NEW u \in DOMAIN tk
               PROVE  n[u].arc = tk[u].arc /\ n[u].prev = tk[u].prev /\ n[u].weight = tk[u].weight
    OBVIOUS
  <2>1. tk[u] = [arc |-> tk[u].arc, prev |-> tk[u].prev, refs |-> tk[u].refs, weight |-> tk[u].weight]
    BY DEF Rooted
  <2>2. CASE u = prev
    <3>1. n[u] = [tk[u] EXCEPT !.refs = @ + 1]
      BY <1>4, <2>2
    <3>2. QED
      BY <2>1, <3>1
  <2>3. CASE u # prev
    BY <1>4, <2>3
  <2>4. QED
    BY <2>2, <2>3
<1>6. ASSUME NEW t \in DOMAIN tk
      PROVE  /\ to[t] \in Nat /\ n[t].weight \in Int
             /\ n[t].prev = 0 => n[t].arc.ilabel = 0 /\ n[t].arc.nextstate = gr.start /\ to[t] = 0
             /\ n[t].prev # 0 => Follows(gr, fs, n, to, t, n[t].prev)
  <2>1. n[t].arc = tk[t].arc /\ n[t].prev = tk[t].prev /\ n[t].weight = tk[t].weight /\ to[t] = depth[t]
    BY <1>3, <1>5
  <2>2. /\ depth[t] \in Nat /\ tk[t].weight \in Int
        /\ tk[t].prev = 0 => tk[t].arc.ilabel = 0 /\ tk[t].arc.nextstate = gr.start /\ depth[t] = 0
    BY DEF Real
  <2>3. ASSUME tk[t].prev # 0
        PROVE  Follows(gr, fs, n, to, t, tk[t].prev)
    <3> DEFINE u == tk[t].prev
    <3>1. Follows(gr, fs, tk, depth, t, u)
      BY <2>3 DEF Real
    <3>2. u \in DOMAIN tk
      BY <2>3 DEF Rooted
    <3>3. n[u].arc = tk[u].arc /\ n[u].weight = tk[u].weight /\ to[u] = depth[u]
      BY <1>3, <1>5, <3>2
    <3> HIDE DEF u
    <3>4. QED
      BY <2>1, <3>1, <3>3 DEF Follows, u
  <2>4. QED
    BY <2>1, <2>2, <2>3
<1>7. /\ to[x] \in Nat /\ n[x].weight \in Int /\ n[x].prev # 0 /\ Follows(gr, fs, n, to, x, n[x].prev)
  <2>1. n[x].prev = prev /\ n[x].arc = arc /\ n[x].weight = tk[prev].weight + arc.weight + ac
    BY <1>4
  <2>2. n[prev].arc = tk[prev].arc /\ n[prev].weight = tk[prev].weight /\ to[prev] = depth[prev] /\ to[x] = d
    BY <1>3, <1>5
  <2>3. prev # 0
    BY DEF Rooted
  <2>4. Follows(gr, fs, n, to, x, prev)
    BY <2>1, <2>2 DEF Follows, ac
  <2>5. n[x].weight \in Int
    <3>1. tk[prev].weight \in Int /\ arc.weight \in Int /\ ac \in Int
      BY DEF Real, ac
    <3>2. QED
      BY <2>1, <3>1
  <2>6. QED
    BY <2>1, <2>2, <2>3, <2>4, <2>5
<1>8. Real(gr, fs, n, to)
  BY <1>4, <1>6, <1>7 DEF Real
<1>9. QED
  BY <1>8 DEF n, to, ac, x

-----------------------------------------------------------------------------
(* The list and the tokens together *)

\* Arcs lead to states, which are numbers.
IsGraph(gr) ==
  /\ gr.start \in DOMAIN gr.arcs /\ DOMAIN gr.arcs \subseteq Nat
  /\ \A s \in DOMAIN gr.arcs : \A i \in 1 .. Len(gr.arcs[s]) :
       gr.arcs[s][i].nextstate \in DOMAIN gr.arcs /\ gr.arcs[s][i].weight \in Int
  /\ \A s \in DOMAIN gr.arcs : gr.arcs[s] \in Seq(Range(gr.arcs[s]))

\* The row has a cost for every label that is emitted.
IsRow(gr, row) ==
  \A s \in DOMAIN gr.arcs : \A i \in 1 .. Len(gr.arcs[s]) : Emits(gr.arcs[s][i]) => row[gr.arcs[s][i].ilabel] \in Int

\* q says what is where: the lists, their buckets, the depth of each token, of
\* those held by the list, here, and of those that are still walked, back.
In(q) == Members(q.L) \cup Members(q.W)

\* An element holds a token of its state.
Holds(gr, h, tk, e) ==
  /\ h.elems[e].val \in DOMAIN tk /\ h.elems[e].key \in DOMAIN gr.arcs
  /\ tk[h.elems[e].val].arc.nextstate = h.elems[e].key

Deep(h, q) ==
  /\ \A e \in Members(q.L) : q.depth[h.elems[e].val] = q.here
  /\ \A e \in Members(q.W) : q.depth[h.elems[e].val] = q.back

\* Token x has a count that no element accounts for.
Store(gr, fs, h, tk, q, x) ==
  /\ Table(h, q.L, q.F, q.w, q.W, q.B)
  /\ Rooted(tk)
  /\ Counted(tk, h, In(q), x)
  /\ \A e \in In(q) : Holds(gr, h, tk, e)
  /\ Real(gr, fs, tk, q.depth)
  /\ Deep(h, q)

KeysOf(h, L) == {h.elems[e].key : e \in Members(L)}

\* From h and q to g and p the list grew, what is walked stayed.
Onward(h, q, g, p) ==
  /\ p.w = q.w /\ p.W = q.W /\ p.here = q.here /\ p.back = q.back
  /\ \A e \in Members(q.W) : g.elems[e].val = h.elems[e].val /\ g.elems[e].key = h.elems[e].key
  /\ KeysOf(h, q.L) \subseteq KeysOf(g, p.L)

LEMMA InIsFinite ==
  ASSUME NEW h, NEW q, Table(h, q.L, q.F, q.w, q.W, q.B)
  PROVE  /\ IsFiniteSet(In(q)) /\ In(q) \subseteq DOMAIN h.elems
         /\ Members(q.L) \cap Members(q.W) = {}
         /\ \A e \in In(q) : h.elems[e].key \in Nat /\ h.elems[e].val \in Nat
<1>1. Shape(h) /\ In(q) \subseteq DOMAIN h.elems /\ Members(q.L) \cap Members(q.W) = {}
  BY DEF Table, Lists, In
<1>2. IsFiniteSet(DOMAIN h.elems) /\ \A x \in DOMAIN h.elems : h.elems[x] \in Elem
  BY <1>1, ShapeFacts
<1>3. IsFiniteSet(In(q))
  BY <1>1, <1>2, FS_Subset
<1>4. QED
  BY <1>1, <1>2, <1>3 DEF Elem

\* A token that nothing holds is dropped.
LEMMA DropKeeps ==
  ASSUME NEW gr, NEW fs, NEW h, NEW tk, NEW q, NEW x \in DOMAIN tk, Store(gr, fs, h, tk, q, x)
  PROVE  /\ Store(gr, fs, h, TokenDelete(tk, x), q, 0)
         /\ Reduced(tk, TokenDelete(tk, x))
<1> DEFINE r == TokenDelete(tk, x)
<1>1. /\ Table(h, q.L, q.F, q.w, q.W, q.B) /\ Rooted(tk) /\ Counted(tk, h, In(q), x)
      /\ (\A e \in In(q) : Holds(gr, h, tk, e)) /\ Real(gr, fs, tk, q.depth) /\ Deep(h, q)
  BY DEF Store
<1>2. IsFiniteSet(In(q)) /\ \A e \in In(q) : h.elems[e].val \in DOMAIN tk
  BY <1>1, InIsFinite DEF Holds
<1>3. /\ Rooted(r) /\ Reduced(tk, r) /\ Counted(r, h, In(q), 0)
      /\ \A e \in In(q) : h.elems[e].val \in DOMAIN r
  BY <1>1, <1>2, TokenDeleteKeeps
<1> HIDE DEF r
<1>4. Real(gr, fs, r, q.depth)
  BY <1>1, <1>3, RealReduced
<1>5. \A e \in In(q) : Holds(gr, h, r, e)
  BY <1>1, <1>3 DEF Holds, Reduced
<1>6. QED
  BY <1>1, <1>3, <1>4, <1>5 DEF Store, r

\* g and p are h and q with an element for the state of token x.
Placed(gr, fs, h, q, g, p, tk, x, key) ==
  /\ Store(gr, fs, g, tk, p, 0) /\ Onward(h, q, g, p) /\ p.depth = q.depth
  /\ In(q) \subseteq In(p) /\ (\A e \in In(q) : g.elems[e].val = h.elems[e].val)
  /\ \E e \in Members(p.L) :
       g.elems[e].val = x /\ g.elems[e].key = key /\ Members(p.L) = Members(q.L) \cup {e}

\* A token that no element holds enters a state without one.
LEMMA EnterNew ==
  ASSUME NEW gr, IsGraph(gr), NEW fs, NEW h, NEW tk, NEW q, NEW x \in DOMAIN tk, Store(gr, fs, h, tk, q, x),
         NEW key, key = tk[x].arc.nextstate, key \in DOMAIN gr.arcs, q.depth[x] = q.here,
         \A k \in 1 .. Len(q.L) : h.elems[q.L[k]].key # key
  PROVE  LET g == H!Insert(h, key, x)
         IN  \E p : Placed(gr, fs, h, q, g, p, tk, x, key)
<1> DEFINE g == H!Insert(h, key, x)
<1>1. /\ Table(h, q.L, q.F, q.w, q.W, q.B) /\ Rooted(tk) /\ Counted(tk, h, In(q), x)
      /\ (\A e \in In(q) : Holds(gr, h, tk, e)) /\ Real(gr, fs, tk, q.depth) /\ Deep(h, q)
  BY DEF Store
<1>2. key \in Nat /\ x \in Nat
  BY <1>1 DEF IsGraph, Rooted
<1>3. PICK M, G, C, e : Table(g, M, G, q.w, q.W, C) /\ Grown(h, q.L, q.W, key, x, g, M, e)
  BY <1>1, <1>2, InsertKeeps
<1> HIDE DEF g
<1>4. /\ Table(g, M, G, q.w, q.W, C)
      /\ e \notin Members(q.L) /\ e \notin Members(q.W) /\ Members(M) = Members(q.L) \cup {e}
      /\ g.elems[e].key = key /\ g.elems[e].val = x
      /\ \A y \in Members(q.L) \cup Members(q.W) :
           g.elems[y].key = h.elems[y].key /\ g.elems[y].val = h.elems[y].val
  BY <1>3 DEF Grown
<1> DEFINE p == [L |-> M, F |-> G, w |-> q.w, W |-> q.W, B |-> C, depth |-> q.depth, here |-> q.here, back |-> q.back]
<1>5. /\ p.L = M /\ p.F = G /\ p.w = q.w /\ p.W = q.W /\ p.B = C /\ p.depth = q.depth /\ p.here = q.here
      /\ p.back = q.back
  OBVIOUS
<1> HIDE DEF p
<1>6. In(p) = In(q) \cup {e} /\ e \notin In(q) /\ \A y \in In(q) : g.elems[y].key = h.elems[y].key /\ g.elems[y].val = h.elems[y].val
  BY <1>4, <1>5 DEF In
<1>7. Counted(tk, g, In(p), 0)
  <2>1. IsFiniteSet(In(q))
    BY <1>1, InIsFinite
  <2>2. QED
    BY <1>1, <1>4, <1>6, <2>1, CountInsert
<1>8. \A y \in In(p) : Holds(gr, g, tk, y)
  BY <1>1, <1>4, <1>6 DEF Holds
<1>9. Deep(g, p)
  BY <1>1, <1>4, <1>5 DEF Deep
<1>10. Table(g, p.L, p.F, p.w, p.W, p.B)
  BY <1>4, <1>5
<1>11. Store(gr, fs, g, tk, p, 0)
  BY <1>1, <1>5, <1>7, <1>8, <1>9, <1>10 DEF Store
<1>12. Onward(h, q, g, p)
  BY <1>4, <1>5 DEF Onward, KeysOf
<1>13. \E y \in Members(p.L) :
         g.elems[y].val = x /\ g.elems[y].key = key /\ Members(p.L) = Members(q.L) \cup {y}
  BY <1>4, <1>5
<1>14. Placed(gr, fs, h, q, g, p, tk, x, key)
  BY <1>5, <1>6, <1>11, <1>12, <1>13 DEF Placed
<1>15. QED
  BY <1>14 DEF g

\* It replaces the token of the element found.
LEMMA EnterOld ==
  ASSUME NEW gr, IsGraph(gr), NEW fs, NEW h, NEW tk, NEW q, NEW x \in DOMAIN tk, Store(gr, fs, h, tk, q, x),
         NEW f \in Members(q.L), h.elems[f].key = tk[x].arc.nextstate, q.depth[x] = q.here,
         \A e \in In(q) : h.elems[e].val # x
  PROVE  LET g == H!SetVal(h, f, x)
             r == TokenDelete(tk, h.elems[f].val)
         IN  /\ Store(gr, fs, g, r, q, 0) /\ Onward(h, q, g, q) /\ Reduced(tk, r)
             /\ g.elems[f].val = x /\ g.elems[f].key = h.elems[f].key
             /\ \A e \in In(q) : e # f => g.elems[e].val = h.elems[e].val
<1> DEFINE g == H!SetVal(h, f, x)
           old == h.elems[f].val
<1>1. /\ Table(h, q.L, q.F, q.w, q.W, q.B) /\ Rooted(tk) /\ Counted(tk, h, In(q), x)
      /\ (\A e \in In(q) : Holds(gr, h, tk, e)) /\ Real(gr, fs, tk, q.depth) /\ Deep(h, q)
  BY DEF Store
<1>2. /\ IsFiniteSet(In(q)) /\ In(q) \subseteq DOMAIN h.elems /\ f \in In(q) /\ f \in DOMAIN h.elems
      /\ Members(q.L) \cap Members(q.W) = {}
  BY <1>1, InIsFinite DEF In
<1>3. x \in Nat
  BY <1>1 DEF Rooted
<1>4. /\ Table(g, q.L, q.F, q.w, q.W, q.B)
      /\ \A y \in DOMAIN h.elems : g.elems[y].key = h.elems[y].key
      /\ \A y \in DOMAIN h.elems : g.elems[y].val = IF y = f THEN x ELSE h.elems[y].val
  <2>1. Table(g, q.L, q.F, q.w, q.W, q.B)
    BY <1>1, <1>2, <1>3, SetValKeeps
  <2>2. \A y \in DOMAIN h.elems : g.elems[y].key = h.elems[y].key
    BY <1>1, <1>2, <1>3, SetValKeeps
  <2>3. \A y \in DOMAIN h.elems : g.elems[y].val = IF y = f THEN x ELSE h.elems[y].val
    BY <1>1, <1>2, <1>3, SetValKeeps
  <2>4. QED
    BY <2>1, <2>2, <2>3
<1> HIDE DEF g
<1>5. Counted(tk, g, In(q), old)
  BY <1>1, <1>2, <1>4, CountSet
<1>6. old \in DOMAIN tk
  BY <1>1, <1>2 DEF Holds
<1>7. \A y \in In(q) : Holds(gr, g, tk, y)
  BY <1>1, <1>2, <1>4 DEF Holds
<1>8. Deep(g, q)
  <2>1. ASSUME NEW e \in Members(q.L) PROVE q.depth[g.elems[e].val] = q.here
    BY <1>1, <1>2, <1>4 DEF Deep, In
  <2>2. ASSUME NEW e \in Members(q.W) PROVE q.depth[g.elems[e].val] = q.back
    BY <1>1, <1>2, <1>4 DEF Deep, In
  <2>3. QED
    BY <2>1, <2>2 DEF Deep
<1>9. Store(gr, fs, g, tk, q, old)
  BY <1>1, <1>4, <1>5, <1>7, <1>8 DEF Store
<1>10. Store(gr, fs, g, TokenDelete(tk, old), q, 0) /\ Reduced(tk, TokenDelete(tk, old))
  BY <1>6, <1>9, DropKeeps
<1>11. Onward(h, q, g, q)
  <2>1. ASSUME NEW e \in Members(q.W) PROVE g.elems[e].val = h.elems[e].val /\ g.elems[e].key = h.elems[e].key
    BY <1>2, <1>4 DEF In
  <2>2. KeysOf(h, q.L) \subseteq KeysOf(g, q.L)
    BY <1>2, <1>4 DEF In, KeysOf
  <2>3. QED
    BY <2>1, <2>2 DEF Onward
<1>12. g.elems[f].val = x /\ g.elems[f].key = h.elems[f].key
  BY <1>2, <1>4
<1>13. \A e \in In(q) : e # f => g.elems[e].val = h.elems[e].val
  BY <1>2, <1>4
<1>14. QED
  BY <1>10, <1>11, <1>12, <1>13 DEF g

\* Some element holds t, or a token that t was passed on to.
Alive(h, tk, q, t) == \E e \in In(q) : h.elems[e].val = t \/ tk[h.elems[e].val].prev = t

LEMMA AliveIs ==
  ASSUME NEW gr, NEW fs, NEW h, NEW tk, NEW q, NEW x, Store(gr, fs, h, tk, q, x), NEW t, t # 0, Alive(h, tk, q, t)
  PROVE  t \in DOMAIN tk
<1>1. PICK e \in In(q) : h.elems[e].val = t \/ tk[h.elems[e].val].prev = t
  BY DEF Alive
<1>2. h.elems[e].val \in DOMAIN tk
  BY DEF Store, Holds
<1>3. tk[h.elems[e].val].prev \in DOMAIN tk \cup {0}
  BY <1>2 DEF Store, Rooted
<1>4. QED
  BY <1>1, <1>2, <1>3

\* A new token for an arc of the state of t: nothing holds it yet.
LEMMA NewKeeps ==
  ASSUME NEW gr, IsGraph(gr), NEW fs, NEW h, NEW tk, NEW q, Store(gr, fs, h, tk, q, 0),
         NEW t \in DOMAIN tk, NEW arc \in Range(gr.arcs[tk[t].arc.nextstate]),
         q.here \in Nat, q.here = q.depth[t] + (IF Emits(arc) THEN 1 ELSE 0),
         NEW ac \in Int, ac = IF Emits(arc) THEN fs[q.here][arc.ilabel] ELSE 0, arc.weight \in Int
  PROVE  LET n == NewToken(tk, arc, ac, t)
             x == Fresh(tk)
         IN  \E p : /\ Store(gr, fs, h, n, p, x) /\ Onward(h, q, h, p) /\ In(p) = In(q) /\ p.L = q.L
                    /\ p.depth[t] = q.depth[t] /\ p.depth[x] = p.here
                    /\ (\A e \in In(p) : h.elems[e].val # x)
<1> DEFINE n == NewToken(tk, arc, ac, t)
           x == Fresh(tk)
           p == [L |-> q.L, F |-> q.F, w |-> q.w, W |-> q.W, B |-> q.B, depth |-> With(q.depth, tk, x, q.here),
                 here |-> q.here, back |-> q.back]
<1>1. /\ Table(h, q.L, q.F, q.w, q.W, q.B) /\ Rooted(tk) /\ Counted(tk, h, In(q), 0)
      /\ (\A e \in In(q) : Holds(gr, h, tk, e)) /\ Real(gr, fs, tk, q.depth) /\ Deep(h, q)
  BY DEF Store
<1>2. IsFiniteSet(In(q)) /\ \A e \in In(q) : h.elems[e].val \in DOMAIN tk
  BY <1>1, InIsFinite DEF Holds
<1>3. x \notin DOMAIN tk
  BY <1>1, FreshIs DEF Rooted
<1>4. Rooted(n) /\ Reduced(n, tk) /\ Counted(n, h, In(q), x)
  BY <1>1, <1>2, NewTokenKeeps
<1>5. Real(gr, fs, n, With(q.depth, tk, x, q.here))
  BY <1>1, RealNew
<1>6. /\ p.L = q.L /\ p.F = q.F /\ p.w = q.w /\ p.W = q.W /\ p.B = q.B /\ p.here = q.here /\ p.back = q.back
      /\ p.depth = With(q.depth, tk, x, q.here) /\ In(p) = In(q)
  BY DEF In
<1> HIDE DEF n, x, p
<1>7. p.depth[x] = p.here /\ \A u \in DOMAIN tk : p.depth[u] = q.depth[u]
  BY <1>3, <1>6 DEF With
<1>8. Deep(h, p)
  <2>1. \A e \in In(q) : p.depth[h.elems[e].val] = q.depth[h.elems[e].val]
    BY <1>2, <1>7
  <2>2. QED
    BY <1>1, <1>6, <2>1 DEF Deep, In
<1>9. \A e \in In(p) : Holds(gr, h, n, e) /\ h.elems[e].val # x
  BY <1>1, <1>3, <1>4, <1>6 DEF Holds, Reduced
<1>10. Store(gr, fs, h, n, p, x)
  BY <1>1, <1>4, <1>5, <1>6, <1>8, <1>9 DEF Store
<1>11. Onward(h, q, h, p)
  BY <1>6 DEF Onward
<1>12. QED
  BY <1>6, <1>7, <1>9, <1>10, <1>11 DEF n, x

\* What Enter does.
IsState(s) == {"toks", "token", "changed"} \subseteq DOMAIN s

Entered(s, r, x, key, f) ==
  \/ /\ f = 0 /\ r.toks = H!Insert(s.toks, key, x) /\ r.token = s.token
     /\ r.changed = Append(s.changed, key)
  \/ /\ f # 0 /\ r.toks = H!SetVal(s.toks, f, x) /\ r.token = TokenDelete(s.token, s.toks.elems[f].val)
     /\ r.changed = Append(s.changed, key) /\ s.token[x].weight < s.token[s.toks.elems[f].val].weight
  \/ /\ f # 0 /\ r.toks = s.toks /\ r.token = TokenDelete(s.token, x) /\ r.changed = s.changed
     /\ ~(s.token[x].weight < s.token[s.toks.elems[f].val].weight)

LEMMA EnterIs ==
  ASSUME NEW s, IsState(s), NEW x, NEW key, key = s.token[x].arc.nextstate
  PROVE  /\ Entered(s, Enter(s, x), x, key, H!Find(s.toks, key))
         /\ DOMAIN Enter(s, x) = DOMAIN s
         /\ "next" \in DOMAIN s => Enter(s, x).next = s.next
<1> DEFINE f == H!Find(s.toks, key)
           old == s.toks.elems[f].val
           a == [s EXCEPT !.toks = H!Insert(s.toks, key, x), !.changed = Append(@, key)]
           b == [s EXCEPT !.toks = H!SetVal(s.toks, f, x), !.token = TokenDelete(s.token, old), !.changed = Append(@, key)]
           c == [s EXCEPT !.token = TokenDelete(s.token, x)]
<1>1. Enter(s, x) = CASE f = 0 -> a
                      [] f # 0 /\ s.token[x].weight < s.token[old].weight -> b
                      [] OTHER -> c
  BY DEF Enter, Value, Null, H!Null
<1>2. /\ DOMAIN a = DOMAIN s /\ a.toks = H!Insert(s.toks, key, x) /\ a.token = s.token /\ a.changed = Append(s.changed, key)
      /\ DOMAIN b = DOMAIN s /\ b.toks = H!SetVal(s.toks, f, x) /\ b.token = TokenDelete(s.token, old)
      /\ b.changed = Append(s.changed, key)
      /\ DOMAIN c = DOMAIN s /\ c.toks = s.toks /\ c.token = TokenDelete(s.token, x) /\ c.changed = s.changed
  BY DEF IsState
<1>5. "next" \in DOMAIN s => a.next = s.next /\ b.next = s.next /\ c.next = s.next
  OBVIOUS
<1> DEFINE less == s.token[x].weight < s.token[old].weight
<1> HIDE DEF f, a, b, c, less
<1>3. \/ f = 0 /\ Enter(s, x) = a
      \/ f # 0 /\ less /\ Enter(s, x) = b
      \/ f # 0 /\ ~less /\ Enter(s, x) = c
  BY <1>1 DEF less
<1>4. Entered(s, Enter(s, x), x, key, f) /\ DOMAIN Enter(s, x) = DOMAIN s
  BY <1>2, <1>3 DEF Entered, less
<1>6. "next" \in DOMAIN s => Enter(s, x).next = s.next
  BY <1>3, <1>5
<1>7. QED
  BY <1>4, <1>6 DEF f

Cost(h, tk, e) == tk[h.elems[e].val].weight

\* A token of weight w has entered the list: a cost of it is w or one it had
\* before, none went up, and one is not above w.  What is walked stays.
Settled(h, tk, q, g, rk, p, w) ==
  /\ \A e \in Members(q.W) : Cost(g, rk, e) = Cost(h, tk, e)
  /\ \A e \in Members(p.L) : Cost(g, rk, e) = w \/ \E d \in Members(q.L) : Cost(g, rk, e) = Cost(h, tk, d)
  /\ \A d \in Members(q.L) : \E e \in Members(p.L) : Cost(g, rk, e) <= Cost(h, tk, d)
  /\ \E e \in Members(p.L) : Cost(g, rk, e) <= w

\* Token t is passed on along an arc, with weight w.
PassedOn(gr, fs, s, q, r, p, tk, t, key, w) ==
  /\ Store(gr, fs, r.toks, r.token, p, 0) /\ Onward(s.toks, q, r.toks, p)
  /\ Settled(s.toks, tk, q, r.toks, r.token, p, w) /\ r.token[t].weight = tk[t].weight
  /\ Alive(r.toks, r.token, p, t) /\ r.token[t].arc = tk[t].arc /\ p.depth[t] = q.depth[t]
  /\ r.changed = s.changed \/ (r.changed = Append(s.changed, key) /\ key \in KeysOf(r.toks, p.L))

LEMMA OnwardOnward ==
  ASSUME NEW h, NEW q, NEW g, NEW p, NEW f, NEW o, Onward(h, q, g, p), Onward(g, p, f, o)
  PROVE  Onward(h, q, f, o)
BY DEF Onward

LEMMA SettledIs ==
  ASSUME NEW h, NEW tk, NEW q, NEW g, NEW rk, NEW p, NEW w \in Int, \A e \in In(q) : Cost(h, tk, e) \in Int,
         NEW f \in Members(p.L), Members(p.L) = Members(q.L) \cup {f}, f \notin Members(q.W),
         \A e \in In(q) : e # f => Cost(g, rk, e) = Cost(h, tk, e), Cost(g, rk, f) <= w,
         Cost(g, rk, f) = w \/ (f \in Members(q.L) /\ Cost(g, rk, f) = Cost(h, tk, f)),
         f \in Members(q.L) => Cost(g, rk, f) <= Cost(h, tk, f)
  PROVE  Settled(h, tk, q, g, rk, p, w)
<1>1. \A e \in Members(q.L) \cup Members(q.W) : e \in In(q)
  BY DEF In
<1>2. ASSUME NEW d \in Members(q.L)
      PROVE  \E e \in Members(p.L) : Cost(g, rk, e) <= Cost(h, tk, d)
  <2>1. d \in Members(p.L) /\ Cost(h, tk, d) \in Int
    BY <1>1
  <2>2. Cost(g, rk, d) <= Cost(h, tk, d)
    <3>1. CASE d = f
      BY <3>1
    <3>2. CASE d # f
      BY <1>1, <2>1, <3>2
    <3>3. QED
      BY <3>1, <3>2
  <2>3. QED
    BY <2>1, <2>2
<1>3. \A e \in Members(p.L) : Cost(g, rk, e) = w \/ \E d \in Members(q.L) : Cost(g, rk, e) = Cost(h, tk, d)
  BY <1>1
<1>4. QED
  BY <1>1, <1>2, <1>3 DEF Settled

LEMMA EnterKeeps ==
  ASSUME NEW gr, IsGraph(gr), NEW fs, NEW s, IsState(s), NEW tk, NEW q, Store(gr, fs, s.toks, tk, q, 0),
         NEW t \in DOMAIN tk, Alive(s.toks, tk, q, t), NEW arc \in Range(gr.arcs[tk[t].arc.nextstate]),
         arc.nextstate \in DOMAIN gr.arcs,
         q.here \in Nat, q.here = q.depth[t] + (IF Emits(arc) THEN 1 ELSE 0),
         NEW ac \in Int, ac = IF Emits(arc) THEN fs[q.here][arc.ilabel] ELSE 0, arc.weight \in Int,
         s.token = NewToken(tk, arc, ac, t)
  PROVE  \E p : PassedOn(gr, fs, s, q, Enter(s, Fresh(tk)), p, tk, t, arc.nextstate,
                        tk[t].weight + arc.weight + ac)
<1> DEFINE h == s.toks
           n == NewToken(tk, arc, ac, t)
           x == Fresh(tk)
           key == arc.nextstate
           r == Enter(s, x)
           f == H!Find(h, key)
           w == tk[t].weight + arc.weight + ac
<1>1. Rooted(tk) /\ (\A u \in DOMAIN tk : tk[u].weight \in Int) /\ \A e \in In(q) : h.elems[e].val \in DOMAIN tk
  BY DEF Store, Real, Holds
<1>2. More(n, tk, x, arc, ac, t) /\ x \notin DOMAIN tk /\ x \in Nat \ {0}
  BY <1>1, NewTokenIs, FreshIs DEF Rooted
<1>3. \E p : /\ Store(gr, fs, h, n, p, x) /\ Onward(h, q, h, p) /\ In(p) = In(q) /\ p.L = q.L
             /\ p.depth[t] = q.depth[t] /\ p.depth[x] = p.here
             /\ (\A e \in In(p) : h.elems[e].val # x)
  BY NewKeeps
<1> HIDE DEF x, n, f, r
<1>4. x \in DOMAIN n /\ n[x].arc = arc /\ n[x].prev = t /\ n[x].weight = w
  BY <1>2 DEF More
<1>5. \A u \in DOMAIN tk :
        u \in DOMAIN n /\ n[u].arc = tk[u].arc /\ n[u].prev = tk[u].prev /\ n[u].weight = tk[u].weight
  <2> SUFFICES ASSUME NEW u \in DOMAIN tk
               PROVE  /\ u \in DOMAIN n /\ n[u].arc = tk[u].arc /\ n[u].prev = tk[u].prev
                      /\ n[u].weight = tk[u].weight
    OBVIOUS
  <2>1. tk[u] = [arc |-> tk[u].arc, prev |-> tk[u].prev, refs |-> tk[u].refs, weight |-> tk[u].weight]
    BY <1>1 DEF Rooted
  <2>2. u \in DOMAIN n /\ n[u] = IF u = t THEN [tk[u] EXCEPT !.refs = @ + 1] ELSE tk[u]
    BY <1>2 DEF More
  <2>3. CASE u = t
    <3>1. n[u] = [tk[u] EXCEPT !.refs = @ + 1]
      BY <2>2, <2>3
    <3>2. QED
      BY <2>1, <2>2, <3>1
  <2>4. CASE u # t
    BY <2>2, <2>4
  <2>5. QED
    BY <2>3, <2>4
<1>6. PICK p1 : /\ Store(gr, fs, h, n, p1, x) /\ Onward(h, q, h, p1) /\ In(p1) = In(q) /\ p1.L = q.L
                /\ p1.depth[t] = q.depth[t] /\ p1.depth[x] = p1.here
                /\ (\A e \in In(p1) : h.elems[e].val # x)
  BY <1>3
<1>7. /\ Table(h, p1.L, p1.F, p1.w, p1.W, p1.B) /\ key \in Nat
      /\ p1.L \in Seq(DOMAIN h.elems)
  BY <1>6 DEF Store, IsGraph, Table, Lists, Linked, Tails
<1>8. \/ \E k \in 1 .. Len(p1.L) : h.elems[p1.L[k]].key = key /\ f = p1.L[k]
      \/ f = 0 /\ \A k \in 1 .. Len(p1.L) : h.elems[p1.L[k]].key # key
  <2> HIDE DEF key, h
  <2>1. f = H!Find(h, key)
    BY DEF f
  <2>2. QED
    BY <1>7, <2>1, FindIs
<1>9. /\ w \in Int /\ \A e \in In(q) : Cost(h, tk, e) \in Int /\ Cost(h, n, e) = Cost(h, tk, e)
  <2>1. tk[t].weight \in Int
    BY <1>1
  <2>2. w \in Int
    BY <2>1
  <2> HIDE DEF w
  <2>3. QED
    BY <1>1, <1>5, <2>2 DEF Cost
<1> HIDE DEF w
<1>10. s.token = n
  BY DEF n
<1>11. Entered(s, r, x, key, f)
  BY <1>4, <1>10, EnterIs DEF r, f
<1>12. t # 0
  BY <1>1 DEF Rooted
<1>13. f # 0 => f \in Members(p1.L) /\ h.elems[f].key = key
  BY <1>8 DEF Members
<1>14. f = 0 => \A k \in 1 .. Len(p1.L) : h.elems[p1.L[k]].key # key
  <2>1. \A k \in 1 .. Len(p1.L) : p1.L[k] # 0
    <3>1. 0 \notin DOMAIN h.elems
      BY <1>7, ShapeFacts DEF Table
    <3>2. QED
      BY <1>7, <3>1
  <2>2. QED
    BY <1>8, <2>1
<1>15. ASSUME f = 0, r.toks = H!Insert(h, key, x), r.token = n, r.changed = Append(s.changed, key)
       PROVE  \E p : PassedOn(gr, fs, s, q, r, p, tk, t, key, w)
  <2> DEFINE g == H!Insert(h, key, x)
  <2>1. PICK p : Placed(gr, fs, h, p1, g, p, n, x, key)
    <3>1. Store(gr, fs, h, n, p1, x) /\ p1.depth[x] = p1.here
      BY <1>6
    <3>2. \A k \in 1 .. Len(p1.L) : h.elems[p1.L[k]].key # key
      BY <1>14, <1>15
    <3>3. x \in DOMAIN n /\ key = n[x].arc.nextstate /\ key \in DOMAIN gr.arcs
      BY <1>4
    <3> HIDE DEF n, x, key
    <3>4. QED
      BY <3>1, <3>2, <3>3, EnterNew
  <2> HIDE DEF g
  <2>2. /\ Store(gr, fs, g, n, p, 0) /\ Onward(h, p1, g, p) /\ p.depth = p1.depth
        /\ In(p1) \subseteq In(p) /\ (\A e \in In(p1) : g.elems[e].val = h.elems[e].val)
        /\ \E e \in Members(p.L) :
             g.elems[e].val = x /\ g.elems[e].key = key /\ Members(p.L) = Members(p1.L) \cup {e}
    BY <2>1 DEF Placed
  <2>3. PICK e \in Members(p.L) :
          g.elems[e].val = x /\ g.elems[e].key = key /\ Members(p.L) = Members(p1.L) \cup {e}
    BY <2>2
  <2>4. Alive(g, n, p, t)
    BY <1>4, <2>3 DEF Alive, In
  <2>5. n[t].arc = tk[t].arc /\ n[t].weight = tk[t].weight /\ p.depth[t] = q.depth[t]
    BY <1>5, <1>6, <2>2
  <2>6. Onward(h, q, g, p)
    BY <1>6, <2>2, OnwardOnward
  <2>7. key \in KeysOf(g, p.L)
    BY <2>3 DEF KeysOf
  <2>8. r.toks = g
    BY <1>15 DEF g
  <2>9. Settled(h, tk, q, g, n, p, w)
    <3>1. e \notin In(q)
      <4>1. \A y \in In(q) : h.elems[y].val # x /\ g.elems[y].val = h.elems[y].val
        BY <1>6, <2>2
      <4>2. QED
        BY <2>3, <4>1
    <3>2. Cost(g, n, e) = w
      BY <1>4, <2>3 DEF Cost
    <3>3. \A y \in In(q) : Cost(g, n, y) = Cost(h, tk, y)
      BY <1>6, <1>9, <2>2 DEF Cost
    <3>4. Members(p.L) = Members(q.L) \cup {e} /\ Cost(g, n, e) <= w
      BY <1>6, <1>9, <2>3, <3>2
    <3>5. QED
      BY <1>9, <2>3, <3>1, <3>2, <3>3, <3>4, SettledIs DEF In
  <2>10. PassedOn(gr, fs, s, q, r, p, tk, t, key, w)
    BY <1>15, <2>2, <2>4, <2>5, <2>6, <2>7, <2>8, <2>9 DEF PassedOn
  <2>11. QED
    BY <2>10
<1>16. ASSUME f # 0, r.toks = H!SetVal(h, f, x), r.token = TokenDelete(n, h.elems[f].val),
              r.changed = Append(s.changed, key), n[x].weight < n[h.elems[f].val].weight
       PROVE  \E p : PassedOn(gr, fs, s, q, r, p, tk, t, key, w)
  <2> DEFINE g == H!SetVal(h, f, x)
             m == TokenDelete(n, h.elems[f].val)
  <2>1. /\ Store(gr, fs, g, m, p1, 0) /\ Onward(h, p1, g, p1) /\ Reduced(n, m)
        /\ g.elems[f].val = x /\ g.elems[f].key = h.elems[f].key
        /\ \A e \in In(p1) : e # f => g.elems[e].val = h.elems[e].val
    BY <1>4, <1>6, <1>13, <1>16, EnterOld
  <2> HIDE DEF g, m
  <2>2. f \in In(p1) /\ x \in DOMAIN m
    BY <1>13, <1>16, <2>1 DEF In, Store, Holds
  <2>3. Alive(g, m, p1, t)
    BY <1>4, <2>1, <2>2 DEF Alive, Reduced
  <2>4. t \in DOMAIN m
    BY <1>12, <2>1, <2>3, AliveIs
  <2>5. m[t].arc = tk[t].arc /\ m[t].weight = tk[t].weight /\ p1.depth[t] = q.depth[t]
    BY <1>5, <1>6, <2>1, <2>4 DEF Reduced
  <2>6. Onward(h, q, g, p1)
    BY <1>6, <2>1, OnwardOnward
  <2>7. key \in KeysOf(g, p1.L)
    BY <1>13, <1>16, <2>1 DEF KeysOf
  <2>8. r.toks = g /\ r.token = m
    BY <1>16 DEF g, m
  <2>9. Settled(h, tk, q, g, m, p1, w)
    <3>1. \A e \in In(p1) : g.elems[e].val \in DOMAIN m /\ m[g.elems[e].val].weight = n[g.elems[e].val].weight
      BY <2>1 DEF Store, Holds, Reduced
    <3>2. f \in Members(q.L) /\ f \notin Members(q.W) /\ f \in In(q)
      BY <1>6, <1>13, <1>16, InIsFinite DEF In, Store
    <3>3. Cost(g, m, f) = w /\ w < Cost(h, tk, f)
      <4>1. Cost(g, m, f) = n[x].weight
        BY <1>6, <2>1, <3>1, <3>2 DEF Cost
      <4>2. n[x].weight < Cost(h, n, f)
        BY <1>16 DEF Cost
      <4>3. Cost(h, n, f) = Cost(h, tk, f)
        BY <1>9, <3>2
      <4>4. QED
        BY <1>4, <4>1, <4>2, <4>3
    <3>4. \A e \in In(q) : e # f => Cost(g, m, e) = Cost(h, tk, e)
      <4>1. \A e \in In(q) : e # f => Cost(g, m, e) = Cost(h, n, e)
        BY <1>6, <2>1, <3>1 DEF Cost
      <4>2. QED
        BY <1>9, <4>1
    <3>5. Cost(g, m, f) <= w /\ Cost(g, m, f) <= Cost(h, tk, f)
      BY <1>9, <3>2, <3>3
    <3>6. p1.L = q.L /\ f \in Members(p1.L) /\ Members(p1.L) = Members(q.L) \cup {f}
      BY <1>6, <3>2
    <3>7. QED
      BY <1>9, <3>2, <3>3, <3>4, <3>5, <3>6, SettledIs
  <2>10. PassedOn(gr, fs, s, q, r, p1, tk, t, key, w)
    BY <1>16, <2>1, <2>3, <2>5, <2>6, <2>7, <2>8, <2>9 DEF PassedOn
  <2>11. QED
    BY <2>10
<1>17. ASSUME f # 0, r.toks = h, r.token = TokenDelete(n, x), r.changed = s.changed,
              ~(n[x].weight < n[h.elems[f].val].weight)
       PROVE  \E p : PassedOn(gr, fs, s, q, r, p, tk, t, key, w)
  <2> DEFINE m == TokenDelete(n, x)
  <2>1. Store(gr, fs, h, m, p1, 0) /\ Reduced(n, m)
    BY <1>4, <1>6, DropKeeps
  <2> HIDE DEF m
  <2>2. Alive(h, m, p1, t)
    <3>1. PICK e \in In(q) : h.elems[e].val = t \/ tk[h.elems[e].val].prev = t
      BY DEF Alive
    <3>2. e \in In(p1) /\ h.elems[e].val \in DOMAIN m /\ h.elems[e].val \in DOMAIN tk
      BY <1>6, <2>1 DEF Store, Holds
    <3>3. m[h.elems[e].val].prev = tk[h.elems[e].val].prev
      BY <1>5, <2>1, <3>2 DEF Reduced
    <3>4. QED
      BY <3>1, <3>2, <3>3 DEF Alive
  <2>3. t \in DOMAIN m
    BY <1>12, <2>1, <2>2, AliveIs
  <2>4. m[t].arc = tk[t].arc /\ m[t].weight = tk[t].weight /\ p1.depth[t] = q.depth[t]
    BY <1>5, <1>6, <2>1, <2>3 DEF Reduced
  <2>5. r.toks = h /\ r.token = m
    BY <1>17 DEF m
  <2>6. PassedOn(gr, fs, s, q, r, p1, tk, t, key, w)
    <3>1. Onward(s.toks, q, r.toks, p1) /\ Store(gr, fs, r.toks, r.token, p1, 0) /\ Alive(r.toks, r.token, p1, t)
      BY <1>6, <2>1, <2>2, <2>5
    <3>2. r.token[t].arc = tk[t].arc /\ r.token[t].weight = tk[t].weight /\ p1.depth[t] = q.depth[t]
      BY <2>4, <2>5
    <3>3. Settled(h, tk, q, h, m, p1, w)
      <4>1. \A e \in In(p1) : h.elems[e].val \in DOMAIN m /\ m[h.elems[e].val].weight = n[h.elems[e].val].weight
        BY <2>1 DEF Store, Holds, Reduced
      <4>2. f \in Members(q.L) /\ f \notin Members(q.W) /\ f \in In(q)
        BY <1>6, <1>13, <1>17, InIsFinite DEF In, Store
      <4>3. \A e \in In(q) : Cost(h, m, e) = Cost(h, tk, e)
        <5>1. \A e \in In(q) : Cost(h, m, e) = Cost(h, n, e)
          BY <1>6, <4>1 DEF Cost
        <5>2. QED
          BY <1>9, <5>1
      <4>4. Cost(h, m, f) <= w /\ Cost(h, m, f) <= Cost(h, tk, f)
        <5>1. ~(w < Cost(h, n, f))
          BY <1>4, <1>17 DEF Cost
        <5>2. Cost(h, n, f) = Cost(h, tk, f) /\ Cost(h, m, f) = Cost(h, tk, f) /\ Cost(h, tk, f) \in Int
          BY <1>9, <4>2, <4>3
        <5>3. QED
          BY <1>9, <5>1, <5>2
      <4>5. p1.L = q.L /\ f \in Members(p1.L) /\ Members(p1.L) = Members(q.L) \cup {f}
        BY <1>6, <4>2
      <4>6. QED
        BY <1>9, <4>2, <4>3, <4>4, <4>5, SettledIs
    <3>4. QED
      BY <1>17, <2>5, <3>1, <3>2, <3>3 DEF PassedOn
  <2>7. QED
    BY <2>6
<1>18. \E p : PassedOn(gr, fs, s, q, r, p, tk, t, key, w)
  <2>1. \/ f = 0 /\ r.toks = H!Insert(h, key, x) /\ r.token = n /\ r.changed = Append(s.changed, key)
        \/ /\ f # 0 /\ r.toks = H!SetVal(h, f, x) /\ r.token = TokenDelete(n, h.elems[f].val)
           /\ r.changed = Append(s.changed, key) /\ n[x].weight < n[h.elems[f].val].weight
        \/ /\ f # 0 /\ r.toks = h /\ r.token = TokenDelete(n, x) /\ r.changed = s.changed
           /\ ~(n[x].weight < n[h.elems[f].val].weight)
    <3> HIDE DEF key
    <3> QED BY <1>10, <1>11, Zenon DEF Entered
  <2> HIDE DEF h, key
  <2>2. QED
    BY <2>1, <1>15, <1>16, <1>17, Zenon
<1>19. QED
  BY <1>18 DEF r, x, w

-----------------------------------------------------------------------------
(* What is done arc by arc and element by element *)

Stage(pass, c, r, n) ==
  IF pass = "emitting" THEN EmitArc(r, c.t, c.arcs[n])
  ELSE IF pass = "epsilon" THEN EpsilonArc(r, c.t, c.arcs[n])
  ELSE [toks |-> H!Delete(r.toks, c.list[n]), token |-> TokenDelete(r.token, Value(c.toks, c.list[n]))]

Stages(pass, c, s, len, f) == [n \in 0 .. len |-> IF n = 0 THEN s ELSE Stage(pass, c, f[n - 1], n)]

\* If it is defined up to m - 1, it is up to m.
LEMMA StagesExtend ==
  ASSUME NEW pass, NEW c, NEW s, NEW m \in Nat, m # 0, NEW g, g = Stages(pass, c, s, m - 1, g)
  PROVE  \E f : f = Stages(pass, c, s, m, f)
<1> DEFINE step(h, n) == IF n = 0 THEN s ELSE Stage(pass, c, h[n - 1], n)
           end == step(g, m)
           f == [n \in 0 .. m |-> IF n = m THEN end ELSE g[n]]
<1>1. \A n \in 0 .. m - 1 : g[n] = step(g, n)
  <2>1. g = [n \in 0 .. m - 1 |-> step(g, n)]
    BY DEF Stages
  <2> HIDE DEF step
  <2>2. QED
    BY <2>1
<1>2. /\ DOMAIN f = 0 .. m /\ f[m] = end
      /\ \A n \in 0 .. m - 1 : f[n] = g[n]
  <2> HIDE DEF end
  <2>1. \A n \in 0 .. m - 1 : n \in 0 .. m /\ n # m
    OBVIOUS
  <2>2. QED
    BY <2>1
<1>3. f = [n \in 0 .. m |-> f[n]]
  <2> HIDE DEF end
  <2> QED OBVIOUS
<1> HIDE DEF end, f
<1>4. ASSUME NEW n \in 0 .. m
      PROVE  f[n] = step(f, n)
  <2>1. n # 0 => n - 1 \in 0 .. m - 1
    OBVIOUS
  <2>2. n # 0 => f[n - 1] = g[n - 1]
    BY <1>2, <2>1
  <2>3. step(f, n) = step(g, n)
    BY <2>2
  <2>4. CASE n = m
    <3>1. f[m] = step(g, m)
      BY <1>2 DEF end
    <3> HIDE DEF step
    <3>2. QED
      BY <2>3, <2>4, <3>1
  <2>5. CASE n # m
    <3>1. n \in 0 .. m - 1
      BY <2>5
    <3>2. f[n] = g[n] /\ g[n] = step(g, n)
      BY <1>1, <1>2, <3>1
    <3> HIDE DEF step
    <3>3. QED
      BY <2>3, <3>2
  <2>6. QED
    BY <2>4, <2>5
<1>5. f = [n \in 0 .. m |-> step(f, n)]
  <2> HIDE DEF step
  <2> QED BY <1>3, <1>4
<1>6. f = Stages(pass, c, s, m, f)
  BY <1>5 DEF Stages
<1>7. QED
  BY <1>6

LEMMA StagesExist ==
  ASSUME NEW pass, NEW c, NEW s, NEW len \in Nat
  PROVE  \E f : f = Stages(pass, c, s, len, f)
<1> DEFINE T == {m \in Nat : ~\E f : f = Stages(pass, c, s, m, f)}
<1> SUFFICES ASSUME T # {}
             PROVE  FALSE
  OBVIOUS
<1>1. T \in SUBSET Nat /\ T # {}
  OBVIOUS
<1>2. PICK m \in T : \A y \in T : m <= y
  <2> HIDE DEF T
  <2> QED BY <1>1, LeastNumber
<1>3. m \in Nat /\ ~\E f : f = Stages(pass, c, s, m, f)
  OBVIOUS
<1>4. m # 0
  <2> DEFINE f == [n \in 0 .. 0 |-> s]
  <2>1. f = Stages(pass, c, s, 0, f)
    BY DEF Stages
  <2>2. QED
    BY <1>3, <2>1
<1>5. m - 1 \in Nat /\ m - 1 \notin T
  <2>1. m - 1 \in Nat /\ ~(m <= m - 1)
    BY <1>3, <1>4
  <2> HIDE DEF T
  <2>2. QED
    BY <1>2, <2>1
<1>6. PICK g : g = Stages(pass, c, s, m - 1, g)
  BY <1>5
<1>7. QED
  BY <1>3, <1>4, <1>6, StagesExtend

\* f is what comes out after each.
Run(pass, c, s, len, f) == f[0] = s /\ \A n \in 1 .. len : f[n] = Stage(pass, c, f[n - 1], n)

LEMMA ChosenRuns ==
  ASSUME NEW pass, NEW c, NEW s, NEW len \in Nat
  PROVE  Run(pass, c, s, len, CHOOSE f : f = Stages(pass, c, s, len, f))
<1> DEFINE f == CHOOSE f : f = Stages(pass, c, s, len, f)
<1>1. f = Stages(pass, c, s, len, f)
  BY StagesExist
<1> DEFINE step(n) == IF n = 0 THEN s ELSE Stage(pass, c, f[n - 1], n)
<1>2. f = [n \in 0 .. len |-> step(n)]
  BY <1>1 DEF Stages
<1> HIDE DEF f
<1>3. \A n \in 0 .. len : f[n] = step(n)
  <2> HIDE DEF step
  <2> QED BY <1>2
<1>4. 0 \in 0 .. len /\ \A n \in 1 .. len : n \in 0 .. len /\ n # 0
  OBVIOUS
<1>5. QED
  BY <1>3, <1>4 DEF Run, f

LEMMA EmitArcsRun ==
  ASSUME NEW s, NEW t, NEW arcs, Len(arcs) \in Nat
  PROVE  \E f : /\ EmitArcs(s, t, arcs) = f[Len(arcs)]
                /\ Run("emitting", [t |-> t, arcs |-> arcs], s, Len(arcs), f)
<1> DEFINE c == [t |-> t, arcs |-> arcs]
           len == Len(arcs)
           f == CHOOSE f : f = Stages("emitting", c, s, len, f)
<1>1. c.t = t /\ c.arcs = arcs
  OBVIOUS
<1> HIDE DEF c
<1>2. EmitArcs(s, t, arcs) = f[len]
  BY <1>1 DEF EmitArcs, Stages, Stage
<1>3. Run("emitting", c, s, len, f)
  BY ChosenRuns
<1> HIDE DEF f
<1>4. QED
  BY <1>2, <1>3 DEF c

LEMMA EpsilonArcsRun ==
  ASSUME NEW s, NEW t, NEW arcs, Len(arcs) \in Nat
  PROVE  \E f : /\ EpsilonArcs(s, t, arcs) = f[Len(arcs)]
                /\ Run("epsilon", [t |-> t, arcs |-> arcs], s, Len(arcs), f)
<1> DEFINE c == [t |-> t, arcs |-> arcs]
           len == Len(arcs)
           f == CHOOSE f : f = Stages("epsilon", c, s, len, f)
<1>1. c.t = t /\ c.arcs = arcs
  OBVIOUS
<1> HIDE DEF c
<1>2. EpsilonArcs(s, t, arcs) = f[len]
  BY <1>1 DEF EpsilonArcs, Stages, Stage
<1>3. Run("epsilon", c, s, len, f)
  BY ChosenRuns
<1> HIDE DEF f
<1>4. QED
  BY <1>2, <1>3 DEF c

LEMMA ClearToksRun ==
  ASSUME NEW s, NEW list, Len(list) \in Nat
  PROVE  \E f : /\ ClearToks(s, list) = f[Len(list)]
                /\ Run("clear", [toks |-> s.toks, list |-> list], s, Len(list), f)
<1> DEFINE c == [toks |-> s.toks, list |-> list]
           len == Len(list)
           f == CHOOSE f : f = Stages("clear", c, s, len, f)
<1>1. c.toks = s.toks /\ c.list = list
  OBVIOUS
<1> HIDE DEF c
<1>2. ClearToks(s, list) = f[len]
  BY <1>1 DEF ClearToks, Stages, Stage
<1>3. Run("clear", c, s, len, f)
  BY ChosenRuns
<1> HIDE DEF f
<1>4. QED
  BY <1>2, <1>3 DEF c

\* While the arcs of token t, which took arc a, are followed from h and q.
Passing(gr, fs, h, q, t, a, d, r, p) ==
  /\ IsState(r)
  /\ Store(gr, fs, r.toks, r.token, p, 0) /\ Onward(h, q, r.toks, p)
  /\ Alive(r.toks, r.token, p, t) /\ r.token[t].arc = a /\ p.depth[t] = d
  /\ r.changed \in Seq(KeysOf(r.toks, p.L))

\* From r and p to r1 and o a token of weight w was passed on.
PassedAlong(gr, fs, h, q, t, a, d, r, p, r1, o, w) ==
  /\ Passing(gr, fs, h, q, t, a, d, r1, o)
  /\ Settled(r.toks, r.token, p, r1.toks, r1.token, o, w) /\ r1.token[t].weight = r.token[t].weight

LEMMA SeqOfMore ==
  ASSUME NEW S, NEW T, S \subseteq T, NEW c \in Seq(S)
  PROVE  c \in Seq(T) /\ \A y \in T : Append(c, y) \in Seq(T)
<1>1. Len(c) \in Nat /\ c \in [1 .. Len(c) -> T]
  OBVIOUS
<1>2. c \in Seq(T)
  BY <1>1, FunctionIsSeq
<1>3. QED
  BY <1>2

LEMMA PassingEnter ==
  ASSUME NEW gr, IsGraph(gr), NEW fs, NEW h, NEW q, NEW t, t # 0, NEW a, NEW d, NEW r, NEW p,
         Passing(gr, fs, h, q, t, a, d, r, p),
         NEW arc \in Range(gr.arcs[a.nextstate]), arc.nextstate \in DOMAIN gr.arcs,
         q.here \in Nat, q.here = d + (IF Emits(arc) THEN 1 ELSE 0),
         NEW ac \in Int, ac = IF Emits(arc) THEN fs[q.here][arc.ilabel] ELSE 0, arc.weight \in Int,
         NEW s, IsState(s), s.toks = r.toks, s.changed = r.changed, s.token = NewToken(r.token, arc, ac, t)
  PROVE  \E o : PassedAlong(gr, fs, h, q, t, a, d, r, p, Enter(s, Fresh(r.token)), o,
                           r.token[t].weight + arc.weight + ac)
<1> DEFINE key == arc.nextstate
           to == Enter(s, Fresh(r.token))
           w == r.token[t].weight + arc.weight + ac
<1>1. /\ Store(gr, fs, r.toks, r.token, p, 0) /\ Onward(h, q, r.toks, p)
      /\ Alive(r.toks, r.token, p, t) /\ r.token[t].arc = a /\ p.depth[t] = d
      /\ r.changed \in Seq(KeysOf(r.toks, p.L))
  BY DEF Passing
<1>2. t \in DOMAIN r.token
  BY <1>1, AliveIs
<1>3. p.here = q.here
  BY <1>1 DEF Onward
<1>4. (\E o : PassedOn(gr, fs, s, p, to, o, r.token, t, key, w)) /\ DOMAIN to = DOMAIN s
  <2>1. Store(gr, fs, s.toks, r.token, p, 0) /\ Alive(s.toks, r.token, p, t)
    BY <1>1
  <2>2. /\ arc \in Range(gr.arcs[r.token[t].arc.nextstate]) /\ p.here \in Nat
        /\ p.here = p.depth[t] + (IF Emits(arc) THEN 1 ELSE 0)
        /\ ac = IF Emits(arc) THEN fs[p.here][arc.ilabel] ELSE 0
    BY <1>1, <1>3
  <2>3. \E o : PassedOn(gr, fs, s, p, to, o, r.token, t, key, w)
    BY <1>2, <2>1, <2>2, EnterKeeps
  <2>4. DOMAIN to = DOMAIN s
    BY EnterIs
  <2>5. QED
    BY <2>3, <2>4
<1> HIDE DEF to, w
<1>5. PICK o : PassedOn(gr, fs, s, p, to, o, r.token, t, key, w)
  BY <1>4
<1>6. /\ Store(gr, fs, to.toks, to.token, o, 0) /\ Onward(r.toks, p, to.toks, o)
      /\ Alive(to.toks, to.token, o, t) /\ to.token[t].arc = a /\ o.depth[t] = d
      /\ to.changed = r.changed \/ (to.changed = Append(r.changed, key) /\ key \in KeysOf(to.toks, o.L))
      /\ Settled(r.toks, r.token, p, to.toks, to.token, o, w) /\ to.token[t].weight = r.token[t].weight
  BY <1>1, <1>5 DEF PassedOn
<1>7. Onward(h, q, to.toks, o)
  BY <1>1, <1>6, OnwardOnward
<1>8. to.changed \in Seq(KeysOf(to.toks, o.L))
  <2>1. KeysOf(r.toks, p.L) \subseteq KeysOf(to.toks, o.L)
    BY <1>6 DEF Onward
  <2>2. r.changed \in Seq(KeysOf(to.toks, o.L))
    BY <1>1, <2>1, SeqOfMore
  <2>3. CASE to.changed = r.changed
    BY <2>2, <2>3
  <2>4. CASE to.changed = Append(r.changed, key) /\ key \in KeysOf(to.toks, o.L)
    <3>1. Append(r.changed, key) \in Seq(KeysOf(to.toks, o.L))
      BY <2>2, <2>4, AppendProperties
    <3>2. QED
      BY <2>4, <3>1
  <2>5. QED
    BY <1>6, <2>3, <2>4
<1>9. IsState(to)
  BY <1>4 DEF IsState
<1>10. Passing(gr, fs, h, q, t, a, d, to, o)
  BY <1>6, <1>7, <1>8, <1>9 DEF Passing
<1>11. PassedAlong(gr, fs, h, q, t, a, d, r, p, to, o, w)
  BY <1>6, <1>10 DEF PassedAlong
<1>12. QED
  BY <1>11 DEF to, w

\* What EmitArc does: nothing, or the token is passed on and the bound tightened.
LEMMA EmitArcIs ==
  ASSUME IsGraph(graph), frame \in Nat, NEW h, NEW q, NEW t, t # 0, NEW a, NEW r, NEW p, "next" \in DOMAIN r,
         Passing(graph, feats, h, q, t, a, frame, r, p), q.here = frame + 1,
         NEW arc \in Range(graph.arcs[a.nextstate]), arc.nextstate \in DOMAIN graph.arcs, arc.weight \in Int,
         Emits(arc) => feats[frame + 1][arc.ilabel] \in Int
  PROVE  LET weight == r.token[t].weight + arc.weight + feats[frame + 1][arc.ilabel]
             r1 == EmitArc(r, t, arc)
         IN  \/ r1 = r /\ (~Emits(arc) \/ weight >= r.next)
             \/ /\ Emits(arc) /\ ~(weight >= r.next) /\ DOMAIN r1 = DOMAIN r
                /\ r1.next = IF weight + cutoff.adaptive < r.next THEN weight + cutoff.adaptive ELSE r.next
                /\ \E o : PassedAlong(graph, feats, h, q, t, a, frame, r, p, r1, o, weight)
<1> DEFINE ac == feats[frame + 1][arc.ilabel]
           weight == r.token[t].weight + arc.weight + ac
           bound == IF weight + cutoff.adaptive < r.next THEN weight + cutoff.adaptive ELSE r.next
           s == [r EXCEPT !.token = NewToken(r.token, arc, ac, t), !.next = bound]
           r1 == EmitArc(r, t, arc)
<1>1. Emits(arc) => arc.weight + r.token[t].weight + ac = weight
  <2>1. t \in DOMAIN r.token
    BY AliveIs DEF Passing
  <2>2. r.token[t].weight \in Int
    BY <2>1 DEF Passing, Store, Real
  <2>3. QED
    BY <2>2
<1>2. IF ~Emits(arc) \/ weight >= r.next THEN r1 = r ELSE r1 = Enter(s, Fresh(r.token))
  <2>1. CASE ~Emits(arc)
    BY <2>1 DEF EmitArc
  <2>2. CASE Emits(arc)
    BY <1>1, <2>2 DEF EmitArc
  <2>3. QED
    BY <2>1, <2>2
<1>3. IsState(r)
  BY DEF Passing
<1>4. /\ IsState(s) /\ s.toks = r.toks /\ s.changed = r.changed /\ s.token = NewToken(r.token, arc, ac, t)
      /\ s.next = bound /\ DOMAIN s = DOMAIN r
  BY <1>3 DEF IsState
<1> HIDE DEF s, ac, bound, r1
<1>5. CASE ~Emits(arc) \/ weight >= r.next
  BY <1>2, <1>5 DEF r1, ac
<1>6. CASE Emits(arc) /\ ~(weight >= r.next)
  <2>1. q.here \in Nat /\ q.here = frame + (IF Emits(arc) THEN 1 ELSE 0)
    BY <1>6
  <2>2. ac \in Int /\ ac = IF Emits(arc) THEN feats[q.here][arc.ilabel] ELSE 0
    BY <1>6 DEF ac
  <2>3. r1 = Enter(s, Fresh(r.token))
    BY <1>2, <1>6
  <2>4. \E o : PassedAlong(graph, feats, h, q, t, a, frame, r, p, r1, o, weight)
    BY <1>4, <2>1, <2>2, <2>3, PassingEnter
  <2>5. r1.next = bound /\ DOMAIN r1 = DOMAIN r
    BY <1>4, <2>3, EnterIs
  <2> HIDE DEF weight
  <2>6. QED
    BY <1>6, <2>4, <2>5 DEF r1, ac, bound, weight
<1>7. QED
  BY <1>5, <1>6

LEMMA EpsilonArcKeeps ==
  ASSUME IsGraph(graph), frame \in Nat, NEW h, NEW q, NEW t, t # 0, NEW a, NEW r, NEW p,
         Passing(graph, feats, h, q, t, a, frame, r, p), q.here = frame,
         NEW arc \in Range(graph.arcs[a.nextstate]), arc.nextstate \in DOMAIN graph.arcs, arc.weight \in Int
  PROVE  \E o : Passing(graph, feats, h, q, t, a, frame, EpsilonArc(r, t, arc), o)
<1> DEFINE s == [r EXCEPT !.token = NewToken(r.token, arc, 0, t)]
           over == r.token[t].weight + arc.weight > cutoff.next
<1>1. EpsilonArc(r, t, arc) = IF Emits(arc) \/ over THEN r ELSE Enter(s, Fresh(r.token))
  BY DEF EpsilonArc
<1>2. IsState(r)
  BY DEF Passing
<1>3. IsState(s) /\ s.toks = r.toks /\ s.changed = r.changed /\ s.token = NewToken(r.token, arc, 0, t)
  BY <1>2 DEF IsState
<1> HIDE DEF s, over
<1>4. CASE Emits(arc) \/ over
  BY <1>1, <1>4
<1>5. CASE ~Emits(arc) /\ ~over
  <2>1. q.here \in Nat /\ q.here = frame + (IF Emits(arc) THEN 1 ELSE 0)
    BY <1>5
  <2>2. 0 \in Int /\ 0 = IF Emits(arc) THEN feats[q.here][arc.ilabel] ELSE 0
    BY <1>5
  <2>3. \E o : PassedAlong(graph, feats, h, q, t, a, frame, r, p, Enter(s, Fresh(r.token)), o,
                          r.token[t].weight + arc.weight + 0)
    BY <1>3, <2>1, <2>2, PassingEnter
  <2>4. QED
    BY <1>1, <1>5, <2>3 DEF PassedAlong
<1>6. QED
  BY <1>4, <1>5

\* All the epsilon arcs of the state of t.
LEMMA EpsilonArcsKeep ==
  ASSUME IsGraph(graph), frame \in Nat, NEW h, NEW q, NEW t, t # 0, NEW a, a.nextstate \in DOMAIN graph.arcs,
         NEW s, NEW p, Passing(graph, feats, h, q, t, a, frame, s, p), q.here = frame
  PROVE  \E o : Passing(graph, feats, h, q, t, a, frame, EpsilonArcs(s, t, graph.arcs[a.nextstate]), o)
<1> DEFINE arcs == graph.arcs[a.nextstate]
           len == Len(arcs)
           Fine(r) == \E o : Passing(graph, feats, h, q, t, a, frame, r, o)
<1>1. arcs \in Seq(Range(arcs)) /\ len \in Nat
  BY DEF IsGraph
<1>2. \A n \in 1 .. len :
        arcs[n] \in Range(arcs) /\ arcs[n].nextstate \in DOMAIN graph.arcs /\ arcs[n].weight \in Int
  BY <1>1 DEF IsGraph
<1>3. PICK f : /\ EpsilonArcs(s, t, arcs) = f[len]
               /\ Run("epsilon", [t |-> t, arcs |-> arcs], s, len, f)
  BY <1>1, EpsilonArcsRun
<1>4. f[0] = s /\ \A n \in 1 .. len : f[n] = EpsilonArc(f[n - 1], t, arcs[n])
  BY <1>3 DEF Run, Stage
<1> DEFINE P == {n \in 0 .. len : Fine(f[n])}
<1>5. 0 \in P
  BY <1>1, <1>4
<1>6. ASSUME NEW n \in 1 .. len, n - 1 \in P
      PROVE  n \in P
  <2>1. PICK o : Passing(graph, feats, h, q, t, a, frame, f[n - 1], o)
    BY <1>6
  <2>2. Fine(EpsilonArc(f[n - 1], t, arcs[n]))
    BY <1>2, <2>1, EpsilonArcKeeps
  <2>3. QED
    BY <1>4, <2>2
<1> HIDE DEF P
<1>7. \A n \in 0 .. len : n \in P
  BY <1>1, <1>5, <1>6, UpTo
<1>8. len \in P
  BY <1>1, <1>7
<1>9. QED
  BY <1>3, <1>8 DEF P

\* The costs of the list are at least b, and smaller than Huge.
Above(h, tk, q, b) == \A e \in Members(q.L) : b <= Cost(h, tk, e) /\ Cost(h, tk, e) < Huge

Reached(h, tk, q, b) == \E e \in Members(q.L) : Cost(h, tk, e) = b

\* The bound is a number that does not cut b off.
Bounded(next, b) == next \in Int /\ next <= Huge /\ (b < Huge => next > b)

\* One arc with an expansion of at least b.
LEMMA EmitArcKeeps ==
  ASSUME NEW b \in Int, b <= Huge, cutoff.adaptive \in Int, b < Huge => cutoff.adaptive > 0,
         NEW gr, NEW fs, NEW h, NEW q, NEW t, NEW a, NEW d, NEW r, NEW p, Bounded(r.next, b),
         NEW weight \in Int, b <= weight, ~(weight >= r.next), Above(r.toks, r.token, p, b),
         NEW r1, r1.next = (IF weight + cutoff.adaptive < r.next THEN weight + cutoff.adaptive ELSE r.next),
         NEW o, PassedAlong(gr, fs, h, q, t, a, d, r, p, r1, o, weight)
  PROVE  /\ Bounded(r1.next, b) /\ Above(r1.toks, r1.token, o, b)
         /\ Reached(r.toks, r.token, p, b) \/ weight = b => Reached(r1.toks, r1.token, o, b)
<1>1. Settled(r.toks, r.token, p, r1.toks, r1.token, o, weight)
  BY DEF PassedAlong
<1>2. Huge \in Int
  BY HLevelCosts
<1>3. Store(gr, fs, r1.toks, r1.token, o, 0)
  BY DEF PassedAlong, Passing
<1>4. Bounded(r1.next, b)
  BY <1>2 DEF Bounded
<1>5. \A e \in Members(o.L) : Cost(r1.toks, r1.token, e) \in Int
  BY <1>3 DEF Store, Holds, In, Real, Cost
<1>6. weight < Huge
  BY <1>2 DEF Bounded
<1>7. Above(r1.toks, r1.token, o, b)
  BY <1>1, <1>6 DEF Above, Settled
<1>8. ASSUME Reached(r.toks, r.token, p, b) \/ weight = b
      PROVE  Reached(r1.toks, r1.token, o, b)
  <2>1. \E e \in Members(o.L) : Cost(r1.toks, r1.token, e) <= b
    BY <1>1, <1>8 DEF Settled, Reached
  <2>2. QED
    BY <1>5, <1>7, <2>1 DEF Above, Reached
<1>9. QED
  BY <1>4, <1>7, <1>8

\* The emitting arcs cost x from a token of weight w, none less than b.
Expanded(arcs, row, w, x, b) ==
  \A i \in 1 .. Len(arcs) : Emits(arcs[i]) => x[i] = w + arcs[i].weight + row[arcs[i].ilabel] /\ b <= x[i]

\* From s and q to r and o: what is walked stays, and b is in the list if it was or
\* if one of the first n arcs costs it.
Through(s, q, r, o, arcs, x, b, n) ==
  /\ Bounded(r.next, b) /\ Above(r.toks, r.token, o, b)
  /\ \A e \in Members(q.W) : Cost(r.toks, r.token, e) = Cost(s.toks, s.token, e)
  /\ Reached(s.toks, s.token, q, b) \/ (b < Huge /\ \E i \in 1 .. n : Emits(arcs[i]) /\ x[i] = b) =>
       Reached(r.toks, r.token, o, b)

\* All the emitting arcs of the state of t.
LEMMA EmitArcsKeep ==
  ASSUME IsGraph(graph), frame \in Nat, NEW row, row = feats[frame + 1], IsRow(graph, row),
         NEW b \in Int, b <= Huge, cutoff.adaptive \in Int, b < Huge => cutoff.adaptive > 0,
         NEW h, NEW q, NEW t, t # 0, NEW a, a.nextstate \in DOMAIN graph.arcs,
         NEW s, Passing(graph, feats, h, q, t, a, frame, s, q), q.here = frame + 1,
         "next" \in DOMAIN s, Bounded(s.next, b), Above(s.toks, s.token, q, b),
         NEW arcs, arcs = graph.arcs[a.nextstate], NEW x, Expanded(arcs, row, s.token[t].weight, x, b)
  PROVE  \E o : /\ Passing(graph, feats, h, q, t, a, frame, EmitArcs(s, t, arcs), o)
                /\ Through(s, q, EmitArcs(s, t, arcs), o, arcs, x, b, Len(arcs))
<1> DEFINE len == Len(arcs)
           Met(n) == \/ Reached(s.toks, s.token, q, b)
                     \/ b < Huge /\ \E i \in 1 .. n : Emits(arcs[i]) /\ x[i] = b
           Kept(r, o, n) == /\ Passing(graph, feats, h, q, t, a, frame, r, o) /\ Bounded(r.next, b)
                            /\ "next" \in DOMAIN r /\ r.token[t].weight = s.token[t].weight
                            /\ Above(r.toks, r.token, o, b)
                            /\ \A e \in Members(q.W) : Cost(r.toks, r.token, e) = Cost(s.toks, s.token, e)
                            /\ Met(n) => Reached(r.toks, r.token, o, b)
<1>1. arcs \in Seq(Range(arcs)) /\ len \in Nat
  BY DEF IsGraph
<1>2. \A n \in 1 .. len :
        /\ arcs[n] \in Range(arcs) /\ arcs[n].nextstate \in DOMAIN graph.arcs /\ arcs[n].weight \in Int
        /\ Emits(arcs[n]) => feats[frame + 1][arcs[n].ilabel] \in Int
  <2>1. TAKE n \in 1 .. len
  <2>2. arcs[n] \in Range(arcs)
    BY <1>1 DEF Range
  <2>3. arcs[n].nextstate \in DOMAIN graph.arcs /\ arcs[n].weight \in Int
    BY DEF IsGraph
  <2>4. Emits(arcs[n]) => feats[frame + 1][arcs[n].ilabel] \in Int
    BY DEF IsRow
  <2>5. QED
    BY <2>2, <2>3, <2>4
<1>3. PICK f : /\ EmitArcs(s, t, arcs) = f[len]
               /\ Run("emitting", [t |-> t, arcs |-> arcs], s, len, f)
  BY <1>1, EmitArcsRun
<1>4. f[0] = s /\ \A n \in 1 .. len : f[n] = EmitArc(f[n - 1], t, arcs[n])
  BY <1>3 DEF Run, Stage
<1> DEFINE P == {n \in 0 .. len : \E o : Kept(f[n], o, n)}
<1>5. 0 \in P
  <2>1. Kept(s, q, 0)
    OBVIOUS
  <2> HIDE DEF Kept
  <2>2. QED
    BY <1>1, <1>4, <2>1
<1>6. ASSUME NEW n \in 1 .. len, n - 1 \in P
      PROVE  n \in P
  <2> DEFINE r == f[n - 1]
             r1 == f[n]
             arc == arcs[n]
             weight == r.token[t].weight + arc.weight + feats[frame + 1][arc.ilabel]
  <2>1. PICK p : Kept(r, p, n - 1)
    <3> HIDE DEF Kept
    <3> QED BY <1>6
  <2>2. /\ Passing(graph, feats, h, q, t, a, frame, r, p) /\ Bounded(r.next, b)
        /\ "next" \in DOMAIN r /\ r.token[t].weight = s.token[t].weight
        /\ Above(r.toks, r.token, p, b)
        /\ \A e \in Members(q.W) : Cost(r.toks, r.token, e) = Cost(s.toks, s.token, e)
        /\ Met(n - 1) => Reached(r.toks, r.token, p, b)
    BY <2>1
  <2>3. r1 = EmitArc(r, t, arc)
    BY <1>4
  <2>4. /\ Emits(arc) => weight = x[n] /\ b <= weight /\ weight \in Int
    <3>1. t \in DOMAIN r.token
      BY <2>2, AliveIs DEF Passing
    <3>2. r.token[t].weight \in Int
      BY <2>2, <3>1 DEF Passing, Store, Real
    <3>3. Emits(arc) => x[n] = s.token[t].weight + arc.weight + row[arc.ilabel] /\ b <= x[n]
      BY DEF Expanded
    <3>4. Emits(arc) => arc.weight \in Int /\ row[arc.ilabel] \in Int
      BY <1>2
    <3>5. r.token[t].weight = s.token[t].weight
      BY <2>2
    <3> HIDE DEF r, arc
    <3>6. QED
      BY <3>2, <3>3, <3>4, <3>5
  <2>5. Met(n) => Met(n - 1) \/ (Emits(arc) /\ x[n] = b /\ b < Huge)
    <3>1. \A i \in 1 .. n : i = n \/ i \in 1 .. n - 1
      OBVIOUS
    <3>2. QED
      BY <3>1
  <2> HIDE DEF Met
  <2>6. \/ r1 = r /\ (~Emits(arc) \/ weight >= r.next)
        \/ /\ Emits(arc) /\ ~(weight >= r.next) /\ DOMAIN r1 = DOMAIN r
           /\ r1.next = IF weight + cutoff.adaptive < r.next THEN weight + cutoff.adaptive ELSE r.next
           /\ \E o : PassedAlong(graph, feats, h, q, t, a, frame, r, p, r1, o, weight)
    <3> HIDE DEF r, r1, arc
    <3>1. arc \in Range(graph.arcs[a.nextstate]) /\ arc.nextstate \in DOMAIN graph.arcs
      BY <1>2 DEF arc
    <3>2. arc.weight \in Int /\ (Emits(arc) => feats[frame + 1][arc.ilabel] \in Int)
      BY <1>2 DEF arc
    <3>3. QED
      BY <2>2, <2>3, <3>1, <3>2, EmitArcIs
  <2> HIDE DEF r, r1, arc, weight
  <2>7. CASE r1 = r /\ (~Emits(arc) \/ weight >= r.next)
    <3>1. ~(Emits(arc) /\ x[n] = b /\ b < Huge)
      BY <2>2, <2>4, <2>7 DEF Bounded
    <3>2. Kept(r1, p, n)
      BY <2>2, <2>5, <2>7, <3>1
    <3>3. QED
      BY <3>2 DEF r1
  <2>8. CASE /\ Emits(arc) /\ ~(weight >= r.next) /\ DOMAIN r1 = DOMAIN r
             /\ r1.next = IF weight + cutoff.adaptive < r.next THEN weight + cutoff.adaptive ELSE r.next
             /\ \E o : PassedAlong(graph, feats, h, q, t, a, frame, r, p, r1, o, weight)
    <3>1. PICK o : PassedAlong(graph, feats, h, q, t, a, frame, r, p, r1, o, weight)
      BY <2>8
    <3>2. /\ Bounded(r1.next, b) /\ Above(r1.toks, r1.token, o, b)
          /\ Reached(r.toks, r.token, p, b) \/ weight = b => Reached(r1.toks, r1.token, o, b)
      BY <2>2, <2>4, <2>8, <3>1, EmitArcKeeps
    <3>3. Met(n) => Reached(r1.toks, r1.token, o, b)
      BY <2>2, <2>4, <2>5, <2>8, <3>2
    <3>4. /\ Passing(graph, feats, h, q, t, a, frame, r1, o) /\ r1.token[t].weight = s.token[t].weight
          /\ Settled(r.toks, r.token, p, r1.toks, r1.token, o, weight)
      BY <2>2, <3>1 DEF PassedAlong
    <3>5. \A e \in Members(q.W) : Cost(r1.toks, r1.token, e) = Cost(s.toks, s.token, e)
      <4>1. p.W = q.W
        BY <2>2 DEF Passing, Onward
      <4>2. QED
        BY <2>2, <3>4, <4>1 DEF Settled
    <3>6. Kept(r1, o, n)
      BY <2>2, <2>8, <3>2, <3>3, <3>4, <3>5
    <3>7. QED
      BY <3>6 DEF r1
  <2>9. QED
    BY <2>6, <2>7, <2>8
<1> HIDE DEF P
<1>7. \A n \in 0 .. len : n \in P
  BY <1>1, <1>5, <1>6, UpTo
<1>8. len \in P
  BY <1>1, <1>7
<1>9. PICK o : Kept(f[len], o, len)
  <2> HIDE DEF Kept
  <2> QED BY <1>8 DEF P
<1>10. QED
  BY <1>3, <1>9 DEF Through

-----------------------------------------------------------------------------
(* Elements that are given back *)

\* The lists of h and q without the first that is walked.
Freed(h, q, g, p) ==
  /\ p.L = q.L /\ p.W = From(q.W, 2) /\ p.w = h.elems[q.w].tail /\ Members(p.W) = Members(q.W) \ {q.w}
  /\ p.here = q.here /\ p.back = q.back
  /\ DOMAIN g.elems = DOMAIN h.elems
  /\ \A x \in DOMAIN h.elems : g.elems[x].key = h.elems[x].key /\ g.elems[x].val = h.elems[x].val

LEMMA FreeKeeps ==
  ASSUME NEW gr, NEW fs, NEW h, NEW tk, NEW q, Store(gr, fs, h, tk, q, 0), q.w # 0
  PROVE  \E p : /\ Store(gr, fs, H!Delete(h, q.w), TokenDelete(tk, h.elems[q.w].val), p, 0)
                /\ Freed(h, q, H!Delete(h, q.w), p) /\ Reduced(tk, TokenDelete(tk, h.elems[q.w].val))
<1> DEFINE w == q.w
           g == H!Delete(h, w)
           old == h.elems[w].val
           p == [L |-> q.L, F |-> Inserted(q.F, 0, w), w |-> h.elems[w].tail, W |-> From(q.W, 2), B |-> q.B,
                 depth |-> q.depth, here |-> q.here, back |-> q.back]
<1>1. /\ Table(h, q.L, q.F, q.w, q.W, q.B) /\ Rooted(tk) /\ Counted(tk, h, In(q), 0)
      /\ (\A e \in In(q) : Holds(gr, h, tk, e)) /\ Real(gr, fs, tk, q.depth) /\ Deep(h, q)
  BY DEF Store
<1>2. IsFiniteSet(In(q)) /\ In(q) \subseteq DOMAIN h.elems /\ Members(q.L) \cap Members(q.W) = {}
  BY <1>1, InIsFinite
<1>3. /\ Table(g, q.L, Inserted(q.F, 0, w), h.elems[w].tail, From(q.W, 2), q.B)
      /\ DOMAIN g.elems = DOMAIN h.elems
      /\ \A x \in DOMAIN h.elems : g.elems[x].key = h.elems[x].key /\ g.elems[x].val = h.elems[x].val
      /\ Members(From(q.W, 2)) = Members(q.W) \ {w} /\ w \in Members(q.W)
  <2>1. Table(g, q.L, Inserted(q.F, 0, w), h.elems[w].tail, From(q.W, 2), q.B)
    BY <1>1, DeleteKeeps
  <2>2. DOMAIN g.elems = DOMAIN h.elems
    BY <1>1, DeleteKeeps
  <2>3. \A x \in DOMAIN h.elems : g.elems[x].key = h.elems[x].key /\ g.elems[x].val = h.elems[x].val
    BY <1>1, DeleteKeeps
  <2>4. Members(From(q.W, 2)) = Members(q.W) \ {w} /\ w \in Members(q.W)
    BY <1>1, DeleteKeeps
  <2>5. QED
    BY <2>1, <2>2, <2>3, <2>4
<1>4. /\ p.L = q.L /\ p.F = Inserted(q.F, 0, w) /\ p.w = h.elems[w].tail /\ p.W = From(q.W, 2) /\ p.B = q.B
      /\ p.depth = q.depth /\ p.here = q.here /\ p.back = q.back
  OBVIOUS
<1> HIDE DEF g, p, w
<1>5. In(p) = In(q) \ {w} /\ w \in In(q)
  BY <1>2, <1>3, <1>4 DEF In
<1>6. Counted(tk, g, In(p), old)
  BY <1>1, <1>2, <1>3, <1>5, CountDelete
<1>7. old \in DOMAIN tk
  BY <1>1, <1>5 DEF Holds
<1>8. \A e \in In(p) : Holds(gr, g, tk, e)
  BY <1>1, <1>2, <1>3, <1>5 DEF Holds
<1>9. Deep(g, p)
  <2>1. ASSUME NEW e \in Members(p.L) PROVE p.depth[g.elems[e].val] = p.here
    BY <1>1, <1>2, <1>3, <1>4 DEF Deep, In
  <2>2. ASSUME NEW e \in Members(p.W) PROVE p.depth[g.elems[e].val] = p.back
    BY <1>1, <1>2, <1>3, <1>4 DEF Deep, In
  <2>3. QED
    BY <2>1, <2>2 DEF Deep
<1>10. Store(gr, fs, g, tk, p, old)
  BY <1>1, <1>3, <1>4, <1>6, <1>8, <1>9 DEF Store
<1>11. Store(gr, fs, g, TokenDelete(tk, old), p, 0) /\ Reduced(tk, TokenDelete(tk, old))
  BY <1>7, <1>10, DropKeeps
<1>12. Freed(h, q, g, p)
  BY <1>3, <1>4 DEF Freed, w
<1>13. QED
  BY <1>11, <1>12 DEF g, w

\* What no element holds, and no token points to, is not counted: nothing is left.
LEMMA NoTokens ==
  ASSUME NEW tk, Rooted(tk), NEW h, Counted(tk, h, {}, 0)
  PROVE  tk = <<>>
<1> DEFINE C == Cardinality(DOMAIN tk)
           T == {n \in Nat : \E t \in DOMAIN tk : \E p : Linked(PrevOf(tk), t, p) /\ C = Len(p) + n}
<1>1. IsFiniteSet(DOMAIN tk) /\ C \in Nat /\ 0 \notin DOMAIN tk
  BY FS_CardinalityType DEF Rooted
<1>2. DOMAIN PrevOf(tk) = DOMAIN tk
  BY DEF PrevOf
<1>3. ASSUME NEW t \in DOMAIN tk, NEW p, Linked(PrevOf(tk), t, p)
      PROVE  Len(p) \in Nat /\ Len(p) <= C
  <2>1. IsFiniteSet(DOMAIN PrevOf(tk))
    BY <1>1, <1>2
  <2>2. Len(p) \in Nat
    BY <1>3, <2>1, LinkedLength
  <2>3. Len(p) <= Cardinality(DOMAIN PrevOf(tk))
    BY <1>3, <2>1, LinkedLength
  <2>4. QED
    BY <1>2, <2>2, <2>3
<1>4. ASSUME NEW t \in DOMAIN tk
      PROVE  \E u \in DOMAIN tk : tk[u].prev = t
  <2>1. Holders(h, {}, t) = {} /\ t # 0
    BY <1>1 DEF Holders
  <2>2. Cardinality(Holders(h, {}, t)) = 0
    BY <2>1, FS_EmptySet
  <2>3. tk[t].refs = 0 + Cardinality(Kin(tk, t)) + (IF t = 0 THEN 1 ELSE 0)
    BY <2>2 DEF Counted
  <2>4. tk[t].refs # 0
    BY DEF Rooted
  <2>5. Cardinality(Kin(tk, t)) # 0
    BY <2>1, <2>3, <2>4
  <2>6. Kin(tk, t) # {}
    BY <2>5, FS_EmptySet
  <2>7. QED
    BY <2>6 DEF Kin
<1>5. ASSUME NEW t \in DOMAIN tk, NEW p, Linked(PrevOf(tk), t, p), NEW u \in DOMAIN tk, tk[u].prev = t
      PROVE  \E o : Linked(PrevOf(tk), u, o) /\ Len(o) = Len(p) + 1
  <2>1. /\ Len(p) \in Nat /\ p \in Seq(DOMAIN tk) /\ t = Item(p, 1)
        /\ \A k \in 1 .. Len(p) : p[k] \in DOMAIN tk /\ tk[p[k]].prev = Item(p, k + 1)
        /\ \A k, l \in 1 .. Len(p) : p[k] = p[l] => k = l
    BY <1>5, PathIs
  <2>2. 1 \in 1 .. Len(p) /\ t = p[1]
    BY <1>1, <2>1 DEF Item
  <2>3. u \notin Members(p)
    <3> SUFFICES ASSUME NEW k \in 1 .. Len(p), u = p[k] PROVE FALSE
      BY DEF Members
    <3>1. Item(p, k + 1) = p[1] /\ p[1] # 0
      BY <1>1, <1>5, <2>1, <2>2
    <3>2. k + 1 \in 1 .. Len(p) /\ p[k + 1] = p[1]
      BY <3>1 DEF Item
    <3>3. k + 1 = 1
      BY <2>1, <2>2, <3>2
    <3>4. QED
      BY <3>3
  <2>4. Linked(PrevOf(tk), u, Inserted(p, 0, u))
    <3>1. /\ 0 \in 0 .. Len(p) /\ u \in DOMAIN PrevOf(tk) /\ PrevOf(tk)[u] = Item(p, 0 + 1)
      BY <1>5, <2>1 DEF PrevOf
    <3>2. Linked(PrevOf(tk), IF 0 = 0 THEN u ELSE t, Inserted(p, 0, u))
      BY <1>5, <2>3, <3>1, LinkedInsert
    <3>3. QED
      BY <3>2
  <2>5. Len(Inserted(p, 0, u)) = Len(p) + 1
    <3>1. 0 \in 0 .. Len(p)
      BY <2>1
    <3>2. QED
      BY <2>1, <3>1, InsertedIsSeq
  <2>6. QED
    BY <2>4, <2>5
<1>6. T = {}
  <2> SUFFICES ASSUME T # {} PROVE FALSE
    OBVIOUS
  <2>1. T \in SUBSET Nat
    OBVIOUS
  <2>2. PICK n \in T : \A y \in T : n <= y
    <3> HIDE DEF T
    <3> QED BY <2>1, LeastNumber
  <2>3. n \in Nat /\ \E t \in DOMAIN tk : \E p : Linked(PrevOf(tk), t, p) /\ C = Len(p) + n
    OBVIOUS
  <2>4. PICK t \in DOMAIN tk : \E p : Linked(PrevOf(tk), t, p) /\ C = Len(p) + n
    BY <2>3
  <2>5. PICK p : Linked(PrevOf(tk), t, p) /\ C = Len(p) + n
    BY <2>4
  <2>6. PICK u \in DOMAIN tk : tk[u].prev = t
    BY <1>4
  <2>7. PICK o : Linked(PrevOf(tk), u, o) /\ Len(o) = Len(p) + 1
    BY <1>5, <2>5, <2>6
  <2>8. Len(p) \in Nat /\ Len(o) <= C
    BY <1>3, <2>5, <2>7
  <2>9. n - 1 \in Nat /\ C = Len(o) + (n - 1)
    BY <1>1, <2>3, <2>5, <2>7, <2>8
  <2>10. n - 1 \in T
    BY <2>7, <2>9
  <2> HIDE DEF T
  <2>11. n <= n - 1
    BY <2>2, <2>10
  <2>12. QED
    BY <2>3, <2>11
<1>7. DOMAIN tk = {}
  <2> SUFFICES ASSUME NEW t \in DOMAIN tk PROVE FALSE
    OBVIOUS
  <2>1. PICK p : Linked(PrevOf(tk), t, p)
    BY DEF Rooted
  <2>2. Len(p) \in Nat /\ Len(p) <= C
    BY <1>3, <2>1
  <2>3. C - Len(p) \in Nat /\ C = Len(p) + (C - Len(p))
    BY <1>1, <2>2
  <2>4. C - Len(p) \in T
    BY <2>1, <2>3
  <2>5. QED
    BY <1>6, <2>4
<1>8. QED
  BY <1>7 DEF Rooted, IsFunction

LEMMA FromFrom ==
  ASSUME NEW p, Len(p) \in Nat, NEW i \in 1 .. Len(p)
  PROVE  From(From(p, i), 2) = From(p, i + 1)
<1>1. DOMAIN From(p, i) = 1 .. Len(p) - i + 1 /\ Len(p) - i + 1 \in Nat
  BY DEF From
<1>2. Len(From(p, i)) = Len(p) - i + 1
  BY <1>1 DEF From
<1>3. Len(From(p, i)) - 2 + 1 = Len(p) - (i + 1) + 1
  BY <1>2
<1>4. \A k \in 1 .. Len(p) - (i + 1) + 1 : From(p, i)[2 + k - 1] = p[(i + 1) + k - 1]
  <2> SUFFICES ASSUME NEW k \in 1 .. Len(p) - (i + 1) + 1
               PROVE  From(p, i)[2 + k - 1] = p[(i + 1) + k - 1]
    OBVIOUS
  <2>1. 2 + k - 1 \in 1 .. Len(p) - i + 1 /\ i + (2 + k - 1) - 1 = (i + 1) + k - 1
    OBVIOUS
  <2>2. From(p, i)[2 + k - 1] = p[i + (2 + k - 1) - 1]
    BY <2>1 DEF From
  <2>3. QED
    BY <2>1, <2>2
<1> DEFINE q == From(p, i)
<1> HIDE DEF q
<1>5. From(q, 2) = [k \in 1 .. Len(q) - 2 + 1 |-> q[2 + k - 1]]
  BY DEF From
<1>6. From(p, i + 1) = [k \in 1 .. Len(p) - (i + 1) + 1 |-> p[(i + 1) + k - 1]]
  BY DEF From
<1>7. QED
  BY <1>3, <1>4, <1>5, <1>6 DEF q

\* What q becomes when the list is taken from the table to be walked.
Walked(h, q, n) ==
  [L |-> <<>>, F |-> q.F, w |-> h.head, W |-> q.L, B |-> <<>>, depth |-> q.depth, here |-> n, back |-> q.here]

LEMMA ClearStore ==
  ASSUME NEW gr, NEW fs, NEW h, NEW tk, NEW q, Store(gr, fs, h, tk, q, 0), q.w = 0, NEW n
  PROVE  /\ Store(gr, fs, H!Clear(h), tk, Walked(h, q, n), 0)
         /\ H!Clear(h).elems = h.elems
         /\ H!List(h) = q.L /\ Len(q.L) \in Nat
<1> DEFINE g == H!Clear(h)
           p == Walked(h, q, n)
<1>1. /\ Table(h, q.L, q.F, 0, q.W, q.B) /\ Rooted(tk) /\ Counted(tk, h, In(q), 0)
      /\ (\A e \in In(q) : Holds(gr, h, tk, e)) /\ Real(gr, fs, tk, q.depth) /\ Deep(h, q)
  BY DEF Store
<1>2. Shape(h) /\ Linked(Tails(h), h.head, q.L) /\ Len(q.L) \in Nat
  BY <1>1 DEF Table, Lists, Linked
<1>3. H!List(h) = q.L
  BY <1>2, ChainIs DEF H!List
<1>4. Table(g, <<>>, q.F, h.head, q.L, <<>>)
  BY <1>1, ClearKeeps
<1>5. g.elems = h.elems
  BY <1>1, ClearKeeps
<1>6. q.W = <<>>
  BY <1>1, ClearKeeps
<1>7. /\ p.L = <<>> /\ p.F = q.F /\ p.w = h.head /\ p.W = q.L /\ p.B = <<>>
      /\ p.depth = q.depth /\ p.back = q.here
  BY DEF Walked
<1> HIDE DEF p, g
<1>8. Members(<<>>) = {} /\ In(p) = In(q) /\ In(q) = Members(q.L)
  BY <1>6, <1>7, LinkedNone DEF In
<1>9. Counted(tk, g, In(p), 0)
  BY <1>1, <1>5, <1>8 DEF Counted, Holders
<1>10. \A e \in In(p) : Holds(gr, g, tk, e)
  BY <1>1, <1>5, <1>8 DEF Holds
<1>11. Deep(g, p)
  BY <1>1, <1>5, <1>7, <1>8 DEF Deep
<1>12. Store(gr, fs, g, tk, p, 0)
  BY <1>1, <1>4, <1>7, <1>9, <1>10, <1>11 DEF Store
<1>13. QED
  BY <1>2, <1>3, <1>5, <1>12 DEF p, g

\* All elements of a list that was taken from the table are given back.
LEMMA ClearToksKeeps ==
  ASSUME NEW gr, NEW fs, NEW h, NEW tk, NEW q, Store(gr, fs, h, tk, q, 0), q.w = 0
  PROVE  LET c == ClearToks([toks |-> H!Clear(h), token |-> tk], H!List(h))
         IN  \E p : /\ Store(gr, fs, c.toks, c.token, p, 0)
                    /\ p.L = <<>> /\ p.W = <<>> /\ p.w = 0 /\ c.token = <<>>
<1> DEFINE L == q.L
           s == [toks |-> H!Clear(h), token |-> tk]
           c == ClearToks(s, L)
           start == Walked(h, q, 0)
<1>1. /\ Store(gr, fs, s.toks, s.token, start, 0) /\ s.toks.elems = h.elems
      /\ H!List(h) = L /\ Len(L) \in Nat
  BY ClearStore
<1>2. Shape(h) /\ Linked(Tails(h), h.head, L) /\ h.head = Item(L, 1) /\ Len(L) \in Nat
  BY DEF Store, Table, Lists, Linked
<1>3. start.L = <<>> /\ start.w = h.head /\ start.W = L
  BY DEF Walked
<1> HIDE DEF start, s
<1>4. PICK f : /\ c = f[Len(L)]
               /\ Run("clear", [toks |-> s.toks, list |-> L], s, Len(L), f)
  BY <1>2, ClearToksRun
<1>5. /\ f[0] = s
      /\ \A n \in 1 .. Len(L) :
           f[n] = [toks |-> H!Delete(f[n - 1].toks, L[n]),
                   token |-> TokenDelete(f[n - 1].token, s.toks.elems[L[n]].val)]
  BY <1>4 DEF Run, Stage, Value
<1> DEFINE Fine(n) == \E p : /\ Store(gr, fs, f[n].toks, f[n].token, p, 0)
                             /\ p.L = <<>> /\ p.w = Item(L, n + 1) /\ p.W = From(L, n + 1)
                             /\ DOMAIN f[n].toks.elems = DOMAIN h.elems
                             /\ \A x \in DOMAIN h.elems : f[n].toks.elems[x].val = h.elems[x].val
           P == {n \in 0 .. Len(L) : Fine(n)}
<1>6. L \in Seq(DOMAIN h.elems)
  BY <1>2 DEF Linked, Tails
<1>7. 0 \in P
  <2>1. L = From(L, 1)
    <3>1. Len(L) - 1 + 1 = Len(L) /\ L = [k \in 1 .. Len(L) |-> L[k]]
      BY <1>2, <1>6
    <3>2. \A k \in 1 .. Len(L) : L[1 + k - 1] = L[k]
      BY <1>2
    <3>3. QED
      BY <3>1, <3>2 DEF From
  <2>2. Fine(0)
    BY <1>1, <1>2, <1>3, <1>5, <2>1
  <2> HIDE DEF Fine
  <2>3. QED
    BY <1>2, <2>2
<1>8. ASSUME NEW n \in 1 .. Len(L), n - 1 \in P
      PROVE  n \in P
  <2> DEFINE g == f[n - 1].toks
             k == f[n - 1].token
  <2>1. PICK p : /\ Store(gr, fs, g, k, p, 0)
                 /\ p.L = <<>> /\ p.w = Item(L, n) /\ p.W = From(L, n)
                 /\ DOMAIN g.elems = DOMAIN h.elems
                 /\ \A x \in DOMAIN h.elems : g.elems[x].val = h.elems[x].val
    <3>1. (n - 1) + 1 = n
      OBVIOUS
    <3>2. QED
      BY <1>8, <3>1
  <2>2. p.w = L[n] /\ L[n] \in DOMAIN h.elems /\ L[n] # 0
    <3>1. 0 \notin DOMAIN h.elems
      BY <1>2, ShapeFacts
    <3>2. QED
      BY <1>6, <2>1, <3>1 DEF Item
  <2>3. f[n].toks = H!Delete(g, p.w) /\ f[n].token = TokenDelete(k, g.elems[p.w].val)
    <3>1. f[n] = [toks |-> H!Delete(g, L[n]), token |-> TokenDelete(k, s.toks.elems[L[n]].val)]
      BY <1>5
    <3>2. s.toks.elems[L[n]].val = g.elems[L[n]].val
      BY <1>1, <2>1, <2>2
    <3>3. QED
      BY <2>2, <3>1, <3>2
  <2> HIDE DEF g, k
  <2>4. PICK o : /\ Store(gr, fs, H!Delete(g, p.w), TokenDelete(k, g.elems[p.w].val), o, 0)
                 /\ Freed(g, p, H!Delete(g, p.w), o)
    BY <2>1, <2>2, FreeKeeps
  <2>5. o.W = From(L, n + 1)
    BY <1>2, <2>1, <2>4, FromFrom DEF Freed
  <2>6. o.w = Item(L, n + 1)
    <3>1. Linked(Tails(f[n].toks), o.w, o.W)
      BY <2>3, <2>4 DEF Store, Table, Lists
    <3>2. o.w = Item(o.W, 1)
      BY <3>1 DEF Linked
    <3>3. Item(From(L, n + 1), 1) = Item(L, n + 1)
      <4>1. n + 1 \in 1 .. Len(L) + 1
        BY <1>2
      <4>2. Len(From(L, n + 1)) = Len(L) - (n + 1) + 1
        <5>1. Len(L) - (n + 1) + 1 \in Nat
          BY <1>2
        <5>2. QED
          BY <5>1 DEF From
      <4>3. CASE n = Len(L)
        BY <1>2, <4>2, <4>3 DEF Item
      <4>4. CASE n # Len(L)
        <5>1. 1 \in 1 .. Len(L) - (n + 1) + 1 /\ n + 1 \in 1 .. Len(L) /\ (n + 1) + 1 - 1 = n + 1
          BY <1>2, <4>4
        <5>2. From(L, n + 1)[1] = L[n + 1]
          BY <5>1 DEF From
        <5>3. QED
          BY <4>2, <5>1, <5>2 DEF Item
      <4>5. QED
        BY <4>3, <4>4
    <3>4. QED
      BY <2>5, <3>2, <3>3
  <2>7. Fine(n)
    BY <2>1, <2>3, <2>4, <2>5, <2>6 DEF Freed
  <2> HIDE DEF Fine
  <2>8. QED
    BY <2>7
<1>9. Fine(Len(L))
  <2> HIDE DEF P
  <2>1. \A n \in 0 .. Len(L) : n \in P
    BY <1>2, <1>7, <1>8, UpTo
  <2>2. Len(L) \in 0 .. Len(L)
    BY <1>2
  <2>3. QED
    BY <2>1, <2>2 DEF P
<1>10. PICK p : /\ Store(gr, fs, c.toks, c.token, p, 0)
                /\ p.L = <<>> /\ p.w = Item(L, Len(L) + 1) /\ p.W = From(L, Len(L) + 1)
  BY <1>4, <1>9
<1>11. p.w = 0 /\ p.W = <<>>
  <2>1. p.w = 0
    BY <1>2, <1>10 DEF Item
  <2>2. Len(L) - (Len(L) + 1) + 1 = 0
    BY <1>2
  <2>3. p.W = <<>>
    <3>1. Linked(Tails(c.toks), 0, p.W) /\ 0 \notin DOMAIN Tails(c.toks)
      BY <1>10, <2>1, ShapeFacts DEF Store, Table, Lists
    <3>2. QED
      BY <3>1, LinkedNull
  <2>4. QED
    BY <2>1, <2>3
<1>12. c.token = <<>>
  <2>1. In(p) = {}
    BY <1>10, <1>11, LinkedNone DEF In
  <2>2. Rooted(c.token) /\ Counted(c.token, c.toks, {}, 0)
    BY <1>10, <2>1 DEF Store
  <2>3. QED
    BY <2>2, NoTokens
<1>13. QED
  BY <1>1, <1>10, <1>11, <1>12 DEF s

-----------------------------------------------------------------------------
(* The cut-offs *)

\* What a decoder was made with, and is given.
Settings == graph \in Graphs /\ opts \in OptionSets /\ frame \in Nat /\ (feats = <<>> \/ feats \in FeatureSets)

LEMMA IntervalIs ==
  ASSUME NEW n \in Nat
  PROVE  IsFiniteSet(1 .. n) /\ Cardinality(1 .. n) = n
<1>1. 1 \in Int /\ n \in Int /\ (1 > n => n = 0)
  OBVIOUS
<1>2. IsFiniteSet(1 .. n) /\ Cardinality(1 .. n) = IF 1 > n THEN 0 ELSE n - 1 + 1
  BY <1>1, FS_Interval
<1>3. QED
  BY <1>1, <1>2

LEMMA RangeIsFinite ==
  ASSUME NEW n \in Nat, NEW f, DOMAIN f = 1 .. n
  PROVE  IsFiniteSet(Range(f))
<1>1. IsFiniteSet(1 .. n)
  BY IntervalIs
<1>2. IsFiniteSet({f[i] : i \in 1 .. n})
  BY <1>1, FiniteImage
<1>3. QED
  BY <1>2 DEF Range

LEMMA FirstLeastIs ==
  ASSUME NEW n \in Nat, NEW S \in SUBSET (1 .. n), S # {}, NEW cost, \A i \in S : cost[i] \in Int
  PROVE  FirstLeast(S, cost) \in S /\ \A j \in S : cost[FirstLeast(S, cost)] <= cost[j]
<1> DEFINE f == [i \in S |-> cost[i]]
<1>1. IsFiniteSet(S) /\ S \in SUBSET Nat
  <2>1. IsFiniteSet(1 .. n)
    BY IntervalIs
  <2>2. IsFiniteSet(S)
    BY <2>1, FS_Subset
  <2>3. QED
    BY <2>2
<1>2. PICK x \in S : \A y \in S : cost[x] <= cost[y]
  <2>1. f \in [S -> Int] /\ \A i \in S : f[i] = cost[i]
    OBVIOUS
  <2> HIDE DEF f
  <2>2. \E x \in S : \A y \in S : f[x] <= f[y]
    BY <1>1, <2>1, LeastValue
  <2>3. QED
    BY <2>1, <2>2
<1> DEFINE T == {i \in S : cost[i] = cost[x]}
<1>3. PICK i \in T : \A j \in T : i <= j
  <2>1. T \in SUBSET Nat /\ T # {}
    BY <1>1
  <2> HIDE DEF T
  <2>2. QED
    BY <2>1, LeastNumber
<1>4. \A j \in S : cost[i] < cost[j] \/ (cost[i] = cost[j] /\ i <= j)
  <2>1. TAKE j \in S
  <2>2. cost[x] <= cost[j] /\ cost[x] \in Int /\ cost[j] \in Int /\ cost[i] = cost[x]
    BY <1>2, <1>3
  <2>3. cost[j] = cost[x] => i <= j
    BY <1>3
  <2>4. QED
    BY <2>2, <2>3
<1>5. FirstLeast(S, cost) = CHOOSE k \in S : \A j \in S : cost[k] < cost[j] \/ (cost[k] = cost[j] /\ k <= j)
  BY DEF FirstLeast
<1> DEFINE k == FirstLeast(S, cost)
<1>6. k \in S /\ \A j \in S : cost[k] < cost[j] \/ (cost[k] = cost[j] /\ k <= j)
  <2>1. i \in S
    BY <1>3
  <2>2. QED
    BY <1>4, <1>5, <2>1
<1> HIDE DEF k
<1>7. \A j \in S : cost[k] <= cost[j]
  BY <1>6
<1>8. QED
  BY <1>6, <1>7 DEF k

\* The n-th of more than n costs is a cost.
LEMMA NthIs ==
  ASSUME NEW len \in Nat, NEW cost \in [1 .. len -> Int], NEW n \in Nat, n < len
  PROVE  Nth(cost, n) \in Int
<1> DEFINE upto(c) == {i \in DOMAIN cost : cost[i] <= c}
           S == {c \in Range(cost) : Cardinality(upto(c)) > n}
<1>1. IsFiniteSet(1 .. len) /\ 1 .. len # {} /\ Cardinality(1 .. len) = len
  <2>1. 1 \in 1 .. len
    OBVIOUS
  <2>2. QED
    BY <2>1, IntervalIs
<1>2. PICK m \in 1 .. len : \A i \in 1 .. len : cost[i] <= cost[m]
  <2> DEFINE f == [i \in 1 .. len |-> -cost[i]]
  <2>1. f \in [1 .. len -> Int] /\ \A i \in 1 .. len : f[i] = -cost[i]
    OBVIOUS
  <2> HIDE DEF f
  <2>2. PICK m \in 1 .. len : \A i \in 1 .. len : f[m] <= f[i]
    BY <1>1, <2>1, LeastValue
  <2>3. \A i \in 1 .. len : cost[i] <= cost[m]
    BY <2>1, <2>2
  <2>4. QED
    BY <2>3
<1>3. upto(cost[m]) = 1 .. len /\ cost[m] \in Range(cost)
  BY <1>2 DEF Range
<1>4. cost[m] \in S
  BY <1>1, <1>3
<1>5. S \in SUBSET Int /\ IsFiniteSet(S) /\ S # {}
  <2>1. DOMAIN cost = 1 .. len /\ Range(cost) \in SUBSET Int
    BY DEF Range
  <2>2. IsFiniteSet(Range(cost)) /\ S \in SUBSET Range(cost)
    BY <2>1, RangeIsFinite
  <2> HIDE DEF S
  <2>3. QED
    BY <1>4, <2>1, <2>2, FS_Subset
<1>6. Nth(cost, n) = Min(S)
  BY DEF Nth
<1> HIDE DEF S
<1>7. QED
  BY <1>5, <1>6, MinIs

\* The weights of a list, and the least of them.
Weighed(list, w) ==
  /\ w = Weights(list) /\ Len(list) \in Nat /\ w \in [1 .. Len(list) -> Int] /\ DOMAIN list = 1 .. Len(list)
  /\ Len(w) = Len(list) /\ (list = <<>> <=> Len(list) = 0)

LEMMA BestIs ==
  ASSUME NEW list, NEW w, Weighed(list, w), Huge \in Int, NEW top, top = IF list = <<>> THEN Huge ELSE Min(Range(w))
  PROVE  top \in Int /\ \A i \in 1 .. Len(list) : top <= w[i]
<1>1. /\ Len(list) \in Nat /\ w \in [1 .. Len(list) -> Int] /\ DOMAIN w = 1 .. Len(list)
      /\ list = <<>> <=> Len(list) = 0
  BY DEF Weighed
<1>2. CASE list = <<>>
  BY <1>1, <1>2
<1>3. CASE list # <<>>
  <2>1. 1 \in 1 .. Len(list)
    BY <1>1, <1>3
  <2>2. Range(w) \in SUBSET Int /\ Range(w) # {} /\ \A i \in 1 .. Len(list) : w[i] \in Range(w)
    BY <1>1, <2>1 DEF Range
  <2>3. IsFiniteSet(Range(w))
    BY <1>1, RangeIsFinite
  <2>4. Min(Range(w)) \in Range(w) /\ \A y \in Range(w) : Min(Range(w)) <= y
    BY <2>2, <2>3, MinIs
  <2>5. QED
    BY <1>3, <2>2, <2>4
<1>4. QED
  BY <1>2, <1>3

\* c is a cut-off: a token below it leaves room in the beam.
Cuts(list, w, c) ==
  /\ c.weight \in Int /\ c.adaptive \in Int
  /\ \A i \in 1 .. Len(list) : w[i] < c.weight => c.adaptive > 0

LEMMA PlusIs ==
  ASSUME NEW a \in Int, NEW b \in Int, Huge \in Int
  PROVE  Plus(a, b) \in Int /\ Plus(a, b) = IF a >= Huge \/ b >= Huge THEN Huge ELSE a + b
BY DEF Plus

LEMMA CutoffIs ==
  ASSUME Settings, NEW list, NEW w, Weighed(list, w)
  PROVE  Cuts(list, w, GetCutoff(list))
<1> DEFINE top == IF list = <<>> THEN Huge ELSE Min(Range(w))
           wide == Plus(top, opts.beam)
           nth == Nth(w, opts.maxActive)
           ans == Min({wide, nth})
           a == [weight |-> wide, adaptive |-> opts.beam]
           b == [weight |-> ans, adaptive |-> Min({opts.beam, ans - top + opts.delta})]
<1>1. Huge \in Int /\ Huge > 0 /\ opts.beam \in Nat /\ opts.delta \in Nat /\ opts.maxActive \in Nat
  BY HLevelCosts DEF Settings
<1>2. /\ Len(list) \in Nat /\ w \in [1 .. Len(list) -> Int] /\ Len(w) = Len(list) /\ w = Weights(list)
      /\ \A i \in 1 .. Len(list) : w[i] \in Int
  BY DEF Weighed
<1>3. GetCutoff(list) = IF Len(w) <= opts.maxActive THEN a ELSE b
  BY <1>2 DEF GetCutoff
<1>4. top \in Int /\ \A i \in 1 .. Len(list) : top <= w[i]
  BY <1>1, BestIs
<1> HIDE DEF top
<1>5. wide \in Int /\ wide = IF top >= Huge \/ opts.beam >= Huge THEN Huge ELSE top + opts.beam
  <2>1. opts.beam \in Int
    BY <1>1
  <2>2. QED
    BY <1>1, <1>4, <2>1, PlusIs
<1>6. a.weight = wide /\ a.adaptive = opts.beam /\ b.weight = ans /\ b.adaptive = Min({opts.beam, ans - top + opts.delta})
  OBVIOUS
<1> HIDE DEF wide, a, b, nth
<1>7. ASSUME NEW i \in 1 .. Len(list), w[i] < wide
      PROVE  opts.beam > 0
  BY <1>1, <1>2, <1>4, <1>5, <1>7
<1>8. CASE Len(w) <= opts.maxActive
  BY <1>1, <1>3, <1>5, <1>6, <1>7, <1>8 DEF Cuts
<1>9. CASE ~(Len(w) <= opts.maxActive)
  <2>1. nth \in Int
    BY <1>1, <1>2, <1>9, NthIs DEF nth
  <2>2. ans \in Int /\ ans <= wide
    BY <1>5, <2>1, MinPair
  <2> HIDE DEF ans
  <2> DEFINE room == ans - top + opts.delta
  <2>3. room \in Int
    BY <1>1, <1>4, <2>2
  <2>4. b.adaptive = IF opts.beam <= room THEN opts.beam ELSE room
    <3> HIDE DEF room
    <3>1. b.adaptive = Min({opts.beam, room})
      BY <1>6 DEF room
    <3>2. QED
      BY <1>1, <2>3, <3>1, MinPair
  <2>5. ASSUME NEW i \in 1 .. Len(list), w[i] < ans
        PROVE  opts.beam > 0 /\ room > 0
    <3>1. w[i] \in Int /\ top <= w[i]
      BY <1>2, <1>4
    <3>2. w[i] < wide
      BY <1>5, <2>2, <2>5, <3>1
    <3>3. QED
      BY <1>1, <1>4, <1>7, <2>2, <2>5, <3>1, <3>2
  <2> HIDE DEF room
  <2>6. QED
    BY <1>1, <1>3, <1>6, <1>9, <2>2, <2>3, <2>4, <2>5 DEF Cuts
<1>10. QED
  BY <1>8, <1>9

LEMMA CutoffFasterIs ==
  ASSUME Settings, NEW list, NEW w, Weighed(list, w)
  PROVE  Cuts(list, w, GetCutoffFaster(list))
<1> DEFINE top == IF list = <<>> THEN Huge ELSE Min(Range(w))
           beam == Plus(top, opts.beam)
           max == IF Len(w) > opts.maxActive THEN Nth(w, opts.maxActive) ELSE Huge
           min == IF Len(w) <= opts.minActive THEN Huge
                  ELSE IF opts.minActive = 0 THEN top ELSE Nth(w, opts.minActive)
           At(c) == [weight |-> c, adaptive |-> IF c = Huge THEN Huge ELSE c - top + opts.delta]
           wide == [weight |-> beam, adaptive |-> opts.beam]
<1>1. /\ Huge \in Int /\ Huge > 0 /\ opts.beam \in Nat /\ opts.delta \in Nat
      /\ opts.maxActive \in Nat /\ opts.minActive \in Nat
  BY HLevelCosts DEF Settings
<1>2. /\ Len(list) \in Nat /\ w \in [1 .. Len(list) -> Int] /\ Len(w) = Len(list) /\ w = Weights(list)
      /\ \A i \in 1 .. Len(list) : w[i] \in Int
  BY DEF Weighed
<1>3. GetCutoffFaster(list) = CASE max < beam -> At(max)
                                [] max >= beam /\ min > beam -> At(min)
                                [] OTHER -> wide
  BY <1>2 DEF GetCutoffFaster
<1>4. top \in Int /\ \A i \in 1 .. Len(list) : top <= w[i]
  BY <1>1, BestIs
<1> HIDE DEF top
<1>5. beam \in Int /\ beam = IF top >= Huge \/ opts.beam >= Huge THEN Huge ELSE top + opts.beam
  <2>1. opts.beam \in Int
    BY <1>1
  <2>2. QED
    BY <1>1, <1>4, <2>1, PlusIs
<1> HIDE DEF beam
<1>6. max \in Int
  <2>1. Len(w) > opts.maxActive => Nth(w, opts.maxActive) \in Int
    BY <1>1, <1>2, NthIs
  <2>2. QED
    BY <1>1, <2>1
<1>7. min \in Int
  <2>1. ~(Len(w) <= opts.minActive) => Nth(w, opts.minActive) \in Int
    BY <1>1, <1>2, NthIs
  <2>2. QED
    BY <1>1, <1>4, <2>1
<1> HIDE DEF max, min
<1>8. ASSUME NEW c \in Int
      PROVE  Cuts(list, w, At(c))
  <2>1. At(c).weight = c /\ At(c).adaptive = IF c = Huge THEN Huge ELSE c - top + opts.delta
    OBVIOUS
  <2> HIDE DEF At
  <2>2. At(c).adaptive \in Int
    BY <1>1, <1>4, <1>8, <2>1
  <2>3. ASSUME NEW i \in 1 .. Len(list), w[i] < c
        PROVE  At(c).adaptive > 0
    <3>1. w[i] \in Int /\ top <= w[i]
      BY <1>2, <1>4
    <3>2. QED
      BY <1>1, <1>4, <2>1, <2>3, <3>1
  <2>4. QED
    BY <2>1, <2>2, <2>3 DEF Cuts
<1>9. Cuts(list, w, wide)
  <2>1. wide.weight = beam /\ wide.adaptive = opts.beam
    OBVIOUS
  <2> HIDE DEF wide
  <2>2. ASSUME NEW i \in 1 .. Len(list), w[i] < beam
        PROVE  opts.beam > 0
    BY <1>1, <1>2, <1>4, <1>5, <2>2
  <2>3. QED
    BY <1>1, <1>5, <2>1, <2>2 DEF Cuts
<1> HIDE DEF At, wide
<1>10. GetCutoffFaster(list) \in {At(max), At(min), wide}
  <2>1. CASE max < beam
    BY <1>3, <2>1
  <2>2. CASE ~(max < beam) /\ max >= beam /\ min > beam
    BY <1>3, <2>2
  <2>3. CASE ~(max < beam) /\ ~(max >= beam /\ min > beam)
    BY <1>3, <2>3
  <2>4. QED
    BY <2>1, <2>2, <2>3
<1>11. QED
  BY <1>6, <1>7, <1>8, <1>9, <1>10

-----------------------------------------------------------------------------
(* The inductive invariant *)

Holding(gr, fs, fr, a, h, tk, w, qu, q) ==
  /\ Store(gr, fs, h, tk, q, 0)
  /\ q.w = w /\ q.here = (IF a = "emitting" THEN fr + 1 ELSE fr) /\ q.back = fr
  /\ a = "nonemitting" => qu \in Seq(KeysOf(h, q.L))
  /\ a = "destroyed" => q.L = <<>> /\ q.W = <<>> /\ tk = <<>>

\* What the emitting arcs of the token of e cost, when its weight is below the limit.
Expansions(gr, row, h, tk, e, limit) ==
  {Cost(h, tk, e) + a.weight + row[a.ilabel] :
     a \in {x \in Range(gr.arcs[h.elems[e].key]) : Emits(x) /\ Cost(h, tk, e) < limit}}

\* b is the least expansion: the list has a token of that weight, or what is still
\* walked expands to it and the bound lets it through.
Pruned(gr, row, h, tk, q, c, b) ==
  /\ b \in Int /\ b <= Huge /\ DOMAIN c = {"weight", "adaptive", "next"} /\ c.weight \in Int /\ c.adaptive \in Int
  /\ Bounded(c.next, b) /\ (b < Huge => c.adaptive > 0)
  /\ Above(h, tk, q, b)
  /\ \A e \in Members(q.W) : \A x \in Expansions(gr, row, h, tk, e, c.weight) : b <= x
  /\ b < Huge => Reached(h, tk, q, b) \/ \E e \in Members(q.W) : b \in Expansions(gr, row, h, tk, e, c.weight)

DecoderInv ==
  /\ Settings
  /\ at # "emitting" => last = 0
  /\ at = "emitting" => frame < Len(feats)
  /\ \E q : /\ Holding(graph, feats, frame, at, toks, token, last, queue, q)
            /\ at = "emitting" => Pruned(graph, feats[frame + 1], toks, token, q, cutoff, best)

LEMMA RowIs ==
  ASSUME Settings, frame < Len(feats)
  PROVE  IsRow(graph, feats[frame + 1])
<1>1. feats # <<>>
  <2>1. Len(<<>>) = 0 /\ ~(frame < 0)
    BY DEF Settings
  <2>2. QED
    BY <2>1
<1>2. feats \in FeatureSets /\ Len(feats) \in Nat /\ frame \in Nat /\ graph \in Graphs
  BY <1>1, HLevelCosts DEF Settings
<1>3. frame + 1 \in 1 .. Len(feats)
  BY <1>2
<1>4. QED
  BY <1>2, <1>3, HLevelCosts DEF IsRow, Emits

LEMMA GraphIs ==
  ASSUME graph \in Graphs
  PROVE  IsGraph(graph)
BY HLevelAssumption, HLevelCosts DEF IsGraph

\* A table without elements.
Blank(h, F, n) ==
  [L |-> <<>>, F |-> F, w |-> 0, W |-> <<>>, B |-> <<>>, depth |-> <<>>, here |-> n, back |-> n]

LEMMA BlankStore ==
  ASSUME NEW gr, NEW fs, NEW h, NEW F, Table(h, <<>>, F, 0, <<>>, <<>>), NEW n
  PROVE  Store(gr, fs, h, <<>>, Blank(h, F, n), 0)
<1> DEFINE q == Blank(h, F, n)
<1>1. q.L = <<>> /\ q.F = F /\ q.w = 0 /\ q.W = <<>> /\ q.B = <<>>
  BY DEF Blank
<1> HIDE DEF q
<1>2. Members(<<>>) = {} /\ In(q) = {}
  BY <1>1, LinkedNone DEF In
<1>3. Rooted(<<>>) /\ DOMAIN <<>> = {}
  <2>1. DOMAIN <<>> = {} /\ <<>> = [x \in {} |-> <<>>[x]]
    OBVIOUS
  <2>2. QED
    BY <2>1, FS_EmptySet DEF Rooted, IsFunction
<1>4. Counted(<<>>, h, In(q), 0) /\ Real(gr, fs, <<>>, q.depth)
  BY <1>3 DEF Counted, Real
<1>5. Deep(h, q)
  BY <1>1, <1>2 DEF Deep
<1>6. Store(gr, fs, h, <<>>, q, 0)
  BY <1>1, <1>2, <1>3, <1>4, <1>5 DEF Store
<1>7. QED
  BY <1>6 DEF q

LEMMA NewTable ==
  ASSUME NEW n \in Nat, n # 0
  PROVE  Table(H!SetSize(H!New, n), <<>>, <<>>, 0, <<>>, <<>>)
<1> DEFINE h == H!SetSize(H!New, n)
<1>1. h = [head |-> 0, bucketTail |-> 0, size |-> n, buckets |-> [b \in 1 .. n |-> [prev |-> 1, last |-> 0]],
           freed |-> 0, elems |-> <<>>]
  <2>1. /\ Len(<<>>) = 0 /\ DOMAIN <<>> = {} /\ n > 0
    OBVIOUS
  <2>2. H!New = [head |-> 0, bucketTail |-> 0, size |-> 0, buckets |-> <<>>, freed |-> 0, elems |-> <<>>]
    BY DEF H!New, H!Null
  <2>3. h = [H!New EXCEPT !.size = n, !.buckets = [b \in 1 .. n |-> [prev |-> 1, last |-> 0]]]
    BY <2>1, <2>2 DEF H!SetSize, H!Empty, H!Null
  <2>4. QED
    BY <2>2, <2>3
<1> HIDE DEF h
<1>2. /\ h.head = 0 /\ h.bucketTail = 0 /\ h.size = n /\ h.freed = 0 /\ h.elems = <<>>
      /\ h.buckets = [b \in 1 .. n |-> [prev |-> 1, last |-> 0]]
  BY <1>1
<1>3. h.buckets \in Seq(Slot) /\ Len(h.buckets) = n /\ h.elems \in Seq(Elem)
  <2>1. h.buckets \in [1 .. n -> Slot]
    BY <1>2 DEF Slot
  <2>2. QED
    BY <1>2, <2>1, FunctionIsSeq
<1>4. Shape(h)
  BY <1>1, <1>2, <1>3 DEF Shape
<1>5. Members(<<>>) = {} /\ Linked(Tails(h), 0, <<>>) /\ Linked(Prevs(h), 0, <<>>) /\ Len(<<>>) = 0
  BY LinkedNone
<1>6. DOMAIN h.elems = {}
  BY <1>2
<1>7. Lists(h, <<>>, <<>>, 0, <<>>)
  BY <1>2, <1>5, <1>6 DEF Lists
<1>8. Buckets(h, <<>>, <<>>)
  BY <1>2, <1>5 DEF Buckets
<1>9. QED
  BY <1>4, <1>7, <1>8 DEF Table, h

LEMMA DecoderInit ==
  Init => DecoderInv
<1> SUFFICES ASSUME Init PROVE DecoderInv
  OBVIOUS
<1>1. /\ graph \in Graphs /\ toks = H!SetSize(H!New, FirstSize) /\ token = <<>> /\ last = 0
      /\ frame = 0 /\ at = "idle"
  BY DEF Init, Null, H!Null
<1> DEFINE q == Blank(toks, <<>>, 0)
<1>2. Table(toks, <<>>, <<>>, 0, <<>>, <<>>)
  <2>1. FirstSize \in Nat /\ FirstSize # 0
    BY HLevelAssumption
  <2>2. QED
    BY <1>1, <2>1, NewTable
<1>3. Store(graph, feats, toks, token, q, 0)
  BY <1>1, <1>2, BlankStore
<1>4. q.w = 0 /\ q.here = 0 /\ q.back = 0
  BY DEF Blank
<1> HIDE DEF q
<1>5. Holding(graph, feats, frame, at, toks, token, last, queue, q)
  BY <1>1, <1>3, <1>4 DEF Holding
<1>6. Settings
  <2>1. opts \in OptionSets /\ feats = <<>>
    BY DEF Init
  <2>2. QED
    BY <1>1, <2>1 DEF Settings
<1>7. QED
  BY <1>1, <1>5, <1>6 DEF DecoderInv

\* The list is walked, or refused, by what leaves tokens and elements alone.
LEMMA IdleKeeps ==
  ASSUME DecoderInv, at \in {"idle", "nonemitting"}, at' = "idle",
         UNCHANGED <<graph, opts, toks, token, last, feats, frame>>
  PROVE  DecoderInv'
<1>1. PICK q : Holding(graph, feats, frame, at, toks, token, last, queue, q)
  BY DEF DecoderInv
<1>2. Holding(graph', feats', frame', at', toks', token', last', queue', q)
  BY <1>1 DEF Holding
<1>3. QED
  BY <1>2 DEF DecoderInv, Settings

LEMMA PopStateKeeps ==
  ASSUME DecoderInv, PopState
  PROVE  DecoderInv'
<1> DEFINE state == queue[Len(queue)]
           found == H!Find(toks, state)
           t == toks.elems[found].val
           s0 == [toks |-> toks, token |-> token, changed |-> <<>>]
           s == IF token[t].weight > cutoff.next THEN s0 ELSE EpsilonArcs(s0, t, graph.arcs[state])
<1>1. PICK q : Holding(graph, feats, frame, at, toks, token, last, queue, q)
  BY DEF DecoderInv
<1>2. /\ at = "nonemitting" /\ queue # <<>> /\ toks' = s.toks /\ token' = s.token
      /\ queue' = Front(queue) \o s.changed
      /\ UNCHANGED <<graph, opts, last, feats, frame, at>>
  BY DEF PopState, Value, Changed, Arcs
<1>3. /\ Store(graph, feats, toks, token, q, 0) /\ q.w = last /\ q.here = frame /\ q.back = frame
      /\ queue \in Seq(KeysOf(toks, q.L))
  BY <1>1, <1>2 DEF Holding
<1>4. IsGraph(graph) /\ frame \in Nat
  BY GraphIs DEF DecoderInv, Settings
<1>5. state \in KeysOf(toks, q.L)
  <2> DEFINE K == KeysOf(toks, q.L)
  <2> HIDE DEF K
  <2>1. queue \in Seq(K) /\ queue # <<>>
    BY <1>2, <1>3 DEF K
  <2>2. Len(queue) \in 1 .. Len(queue)
    BY <2>1
  <2>3. queue[Len(queue)] \in K
    BY <2>1, <2>2
  <2>4. QED
    BY <2>3 DEF K
<1>6. Table(toks, q.L, q.F, q.w, q.W, q.B) /\ q.L \in Seq(DOMAIN toks.elems) /\ 0 \notin DOMAIN toks.elems
  <2>1. Table(toks, q.L, q.F, q.w, q.W, q.B)
    BY <1>3 DEF Store
  <2>2. q.L \in Seq(DOMAIN toks.elems) /\ Shape(toks)
    BY <2>1 DEF Table, Lists, Linked, Tails
  <2>3. QED
    BY <2>1, <2>2, ShapeFacts
<1>7. state \in Nat
  BY <1>5, <1>6, InIsFinite DEF KeysOf, In
<1>8. found \in Members(q.L) /\ toks.elems[found].key = state
  <2>1. \/ \E k \in 1 .. Len(q.L) : toks.elems[q.L[k]].key = state /\ found = q.L[k]
        \/ found = 0 /\ \A k \in 1 .. Len(q.L) : toks.elems[q.L[k]].key # state
    BY <1>6, <1>7, FindIs
  <2>2. \E k \in 1 .. Len(q.L) : toks.elems[q.L[k]].key = state
    BY <1>5 DEF KeysOf, Members
  <2> HIDE DEF found
  <2>3. QED
    BY <2>1, <2>2 DEF Members
<1> HIDE DEF found
<1>9. t \in DOMAIN token /\ token[t].arc.nextstate = state /\ state \in DOMAIN graph.arcs /\ t # 0
  <2>1. Holds(graph, toks, token, found)
    BY <1>3, <1>8 DEF Store, In
  <2>2. QED
    BY <1>3, <1>8, <2>1 DEF Holds, Store, Rooted
<1>10. q.depth[t] = frame /\ Alive(toks, token, q, t)
  BY <1>3, <1>8 DEF Store, Deep, Alive, In
<1> DEFINE a == token[t].arc
<1>11. Passing(graph, feats, toks, q, t, a, frame, s0, q)
  <2>1. IsState(s0) /\ s0.toks = toks /\ s0.token = token /\ s0.changed = <<>>
    BY DEF IsState
  <2>2. Onward(toks, q, toks, q)
    BY DEF Onward
  <2>3. <<>> \in Seq(KeysOf(toks, q.L))
    OBVIOUS
  <2> HIDE DEF s0
  <2>4. QED
    BY <1>3, <1>10, <2>1, <2>2, <2>3 DEF Passing
<1> HIDE DEF s0
<1>12. \E p : Passing(graph, feats, toks, q, t, a, frame, s, p)
  <2>1. \E p : Passing(graph, feats, toks, q, t, a, frame, EpsilonArcs(s0, t, graph.arcs[a.nextstate]), p)
    <3> HIDE DEF t
    <3> QED BY <1>3, <1>4, <1>9, <1>11, EpsilonArcsKeep
  <2>2. a.nextstate = state
    BY <1>9
  <2>3. QED
    BY <1>11, <2>1, <2>2
<1> HIDE DEF s, t, a
<1>13. PICK p : Passing(graph, feats, toks, q, t, a, frame, s, p)
  BY <1>12
<1>14. /\ Store(graph, feats, s.toks, s.token, p, 0) /\ Onward(toks, q, s.toks, p)
       /\ s.changed \in Seq(KeysOf(s.toks, p.L))
  BY <1>13 DEF Passing
<1>15. queue' \in Seq(KeysOf(s.toks, p.L))
  <2>1. queue \in Seq(KeysOf(s.toks, p.L))
    BY <1>3, <1>14, SeqOfMore DEF Onward
  <2>2. Front(queue) \in Seq(KeysOf(s.toks, p.L))
    BY <1>2, <2>1 DEF Front
  <2>3. QED
    BY <1>2, <1>14, <2>2
<1>16. Holding(graph', feats', frame', at', toks', token', last', queue', p)
  BY <1>2, <1>3, <1>14, <1>15 DEF Holding, Onward
<1>17. QED
  BY <1>2, <1>16 DEF DecoderInv, Settings

LEMMA ExpandElementKeeps ==
  ASSUME DecoderInv, ExpandElement, best' = best
  PROVE  DecoderInv'
<1> DEFINE t == toks.elems[last].val
           key == toks.elems[last].key
           s0 == [toks |-> toks, token |-> token, next |-> cutoff.next, changed |-> <<>>]
           s == IF token[t].weight >= cutoff.weight THEN s0 ELSE EmitArcs(s0, t, graph.arcs[key])
           row == feats[frame + 1]
<1>1. PICK q : /\ Holding(graph, feats, frame, at, toks, token, last, queue, q)
               /\ at = "emitting" => Pruned(graph, row, toks, token, q, cutoff, best)
  BY DEF DecoderInv
<1>2. /\ at = "emitting" /\ last # 0 /\ toks' = H!Delete(s.toks, last) /\ token' = TokenDelete(s.token, t)
      /\ last' = s.toks.elems[last].tail /\ cutoff' = [cutoff EXCEPT !.next = s.next]
      /\ UNCHANGED <<graph, opts, feats, frame, at>>
  BY DEF ExpandElement, Value, Arcs, Null, H!Null
<1>3. /\ Store(graph, feats, toks, token, q, 0) /\ q.w = last /\ q.here = frame + 1 /\ q.back = frame
  BY <1>1, <1>2 DEF Holding
<1>4. IsGraph(graph) /\ frame \in Nat /\ IsRow(graph, row) /\ Pruned(graph, row, toks, token, q, cutoff, best)
  BY <1>1, <1>2, GraphIs, RowIs DEF DecoderInv, Settings
<1> HIDE DEF row
<1>5. last \in Members(q.W) /\ last \in In(q)
  <2>1. Linked(Tails(toks), last, q.W)
    BY <1>3 DEF Store, Table, Lists
  <2>2. QED
    BY <1>2, <2>1, LinkedTail DEF In
<1>6. t \in DOMAIN token /\ token[t].arc.nextstate = key /\ key \in DOMAIN graph.arcs /\ t # 0
  <2>1. Holds(graph, toks, token, last)
    BY <1>3, <1>5 DEF Store
  <2>2. QED
    BY <1>3, <2>1 DEF Holds, Store, Rooted
<1>7. q.depth[t] = frame /\ Alive(toks, token, q, t)
  BY <1>3, <1>5 DEF Store, Deep, Alive
<1> DEFINE a == token[t].arc
<1>8. Passing(graph, feats, toks, q, t, a, frame, s0, q)
  <2>1. IsState(s0) /\ s0.toks = toks /\ s0.token = token /\ s0.changed = <<>>
    BY DEF IsState
  <2>2. Onward(toks, q, toks, q)
    BY DEF Onward
  <2>3. <<>> \in Seq(KeysOf(toks, q.L))
    OBVIOUS
  <2> HIDE DEF s0
  <2>4. QED
    BY <1>3, <1>7, <2>1, <2>2, <2>3 DEF Passing
<1>9. /\ "next" \in DOMAIN s0 /\ s0.next = cutoff.next /\ s0.toks = toks /\ s0.token = token
  OBVIOUS
<1> HIDE DEF s0
<1> DEFINE x == [i \in 1 .. Len(graph.arcs[key]) |->
                   token[t].weight + graph.arcs[key][i].weight + row[graph.arcs[key][i].ilabel]]
           Met == Reached(toks, token, q, best) \/ (best < Huge /\ best \in Expansions(graph, row, toks, token, last, cutoff.weight))
           After(r, p) == /\ Passing(graph, feats, toks, q, t, a, frame, r, p) /\ Bounded(r.next, best)
                          /\ Above(r.toks, r.token, p, best)
                          /\ \A e \in Members(q.W) : Cost(r.toks, r.token, e) = Cost(toks, token, e)
                          /\ Met => Reached(r.toks, r.token, p, best)
<1>10. /\ best \in Int /\ best <= Huge /\ DOMAIN cutoff = {"weight", "adaptive", "next"} /\ cutoff.weight \in Int
       /\ cutoff.adaptive \in Int /\ Bounded(cutoff.next, best) /\ (best < Huge => cutoff.adaptive > 0)
       /\ Above(toks, token, q, best)
       /\ \A e \in Members(q.W) : \A y \in Expansions(graph, row, toks, token, e, cutoff.weight) : best <= y
       /\ best < Huge => \/ Reached(toks, token, q, best)
                         \/ \E e \in Members(q.W) : best \in Expansions(graph, row, toks, token, e, cutoff.weight)
  BY <1>4 DEF Pruned
<1>11. token[t].weight \in Int /\ Cost(toks, token, last) = token[t].weight /\ a.nextstate = key
       /\ graph.arcs[key] \in Seq(Range(graph.arcs[key]))
  BY <1>3, <1>4, <1>6 DEF Store, Real, Cost, IsGraph
<1>12. \E p : After(s, p)
  <2>1. CASE token[t].weight >= cutoff.weight
    <3>1. Expansions(graph, row, toks, token, last, cutoff.weight) = {}
      <4>1. ~(Cost(toks, token, last) < cutoff.weight)
        BY <1>10, <1>11, <2>1
      <4>2. QED
        BY <4>1 DEF Expansions
    <3>2. s = s0
      BY <2>1
    <3>3. After(s0, q)
      BY <1>8, <1>9, <1>10, <3>1
    <3> HIDE DEF After, s
    <3>4. QED
      BY <3>2, <3>3
  <2>2. CASE ~(token[t].weight >= cutoff.weight)
    <3> DEFINE arcs == graph.arcs[key]
    <3>1. s = EmitArcs(s0, t, arcs)
      BY <2>2
    <3>2. Expansions(graph, row, toks, token, last, cutoff.weight) = {x[i] : i \in {j \in 1 .. Len(arcs) : Emits(arcs[j])}}
      <4>1. token[t].weight < cutoff.weight
        BY <1>10, <1>11, <2>2
      <4>2. Range(arcs) = {arcs[i] : i \in 1 .. Len(arcs)}
        BY <1>11, RangeIsMembers DEF Members
      <4>3. Expansions(graph, row, toks, token, last, cutoff.weight) =
              {token[t].weight + y.weight + row[y.ilabel] : y \in {z \in Range(arcs) : Emits(z)}}
        BY <1>11, <4>1 DEF Expansions
      <4>4. \A i \in 1 .. Len(arcs) : x[i] = token[t].weight + arcs[i].weight + row[arcs[i].ilabel]
        OBVIOUS
      <4> HIDE DEF t, arcs, key, x
      <4>5. ASSUME NEW y \in Range(arcs), Emits(y)
            PROVE  \E i \in 1 .. Len(arcs) : Emits(arcs[i]) /\ x[i] = token[t].weight + y.weight + row[y.ilabel]
        BY <4>2, <4>4, <4>5
      <4>6. ASSUME NEW i \in 1 .. Len(arcs), Emits(arcs[i])
            PROVE  arcs[i] \in Range(arcs) /\ x[i] = token[t].weight + arcs[i].weight + row[arcs[i].ilabel]
        BY <4>2, <4>4
      <4>7. QED
        BY <4>3, <4>5, <4>6
    <3>3. Expanded(arcs, row, s0.token[t].weight, x, best)
      <4>1. last \in Members(q.W)
        BY <1>5
      <4> HIDE DEF t, key
      <4>2. QED
        BY <1>9, <1>10, <3>2, <4>1 DEF Expanded
    <3> HIDE DEF x, arcs, s
    <3>4. \E o : Passing(graph, feats, toks, q, t, a, frame, s, o) /\ Through(s0, q, s, o, arcs, x, best, Len(arcs))
      <4>1. a.nextstate = key /\ arcs = graph.arcs[a.nextstate] /\ a.nextstate \in DOMAIN graph.arcs /\ t # 0
        BY <1>6, <1>11 DEF arcs
      <4>2. IsRow(graph, row) /\ row = feats[frame + 1] /\ q.here = frame + 1
        BY <1>3, <1>4 DEF row
      <4>3. Bounded(s0.next, best) /\ Above(s0.toks, s0.token, q, best) /\ "next" \in DOMAIN s0
        BY <1>9, <1>10
      <4> HIDE DEF t, a, key
      <4>4. QED
        BY <1>4, <1>8, <1>10, <3>1, <3>3, <4>1, <4>2, <4>3, EmitArcsKeep
    <3>5. Met => \/ Reached(s0.toks, s0.token, q, best)
                 \/ best < Huge /\ \E i \in 1 .. Len(arcs) : Emits(arcs[i]) /\ x[i] = best
      BY <1>9, <3>2
    <3> HIDE DEF Met
    <3>6. QED
      BY <1>9, <3>4, <3>5 DEF Through
  <2>3. QED
    BY <2>1, <2>2
<1> HIDE DEF s, a, x, Met
<1>13. PICK p : After(s, p)
  <2> HIDE DEF After
  <2> QED BY <1>12
<1>14. Store(graph, feats, s.toks, s.token, p, 0) /\ Onward(toks, q, s.toks, p)
  BY <1>13 DEF Passing
<1>15. p.w = last /\ s.toks.elems[last].val = t /\ p.W = q.W
  BY <1>3, <1>5, <1>14 DEF Onward
<1> HIDE DEF t
<1>16. PICK o : /\ Store(graph, feats, toks', token', o, 0)
                /\ Freed(s.toks, p, toks', o) /\ Reduced(s.token, token')
  BY <1>2, <1>14, <1>15, FreeKeeps
<1>17. o.w = last' /\ o.here = frame + 1 /\ o.back = frame
  BY <1>2, <1>3, <1>14, <1>15, <1>16 DEF Freed, Onward
<1>18. Holding(graph', feats', frame', at', toks', token', last', queue', o)
  BY <1>2, <1>16, <1>17 DEF Holding
<1>19. o.L = p.L /\ Members(o.W) = Members(q.W) \ {last}
  BY <1>15, <1>16 DEF Freed
<1>20. ASSUME NEW e \in In(o)
       PROVE  Cost(toks', token', e) = Cost(s.toks, s.token, e) /\ toks'.elems[e].key = s.toks.elems[e].key
  <2>1. e \in In(p)
    BY <1>15, <1>19 DEF In
  <2>2. toks'.elems[e].val = s.toks.elems[e].val /\ toks'.elems[e].key = s.toks.elems[e].key
    <3>1. e \in DOMAIN s.toks.elems
      BY <1>14, <2>1, InIsFinite DEF Store
    <3>2. QED
      BY <1>16, <3>1 DEF Freed
  <2>3. toks'.elems[e].val \in DOMAIN token'
    BY <1>16 DEF Store, Holds
  <2>4. QED
    BY <1>16, <2>2, <2>3 DEF Reduced, Cost
<1>21. ASSUME NEW e \in Members(o.W)
       PROVE  Expansions(graph, row, toks', token', e, cutoff.weight) = Expansions(graph, row, toks, token, e, cutoff.weight)
  <2>1. e \in Members(q.W) /\ e \in In(o)
    BY <1>19 DEF In
  <2>2. Cost(toks', token', e) = Cost(toks, token, e) /\ toks'.elems[e].key = toks.elems[e].key
    BY <1>13, <1>14, <1>20, <2>1 DEF Onward
  <2>3. QED
    BY <2>2 DEF Expansions
<1>22. Above(toks', token', o, best) /\ (Reached(s.toks, s.token, p, best) => Reached(toks', token', o, best))
  <2>1. \A e \in Members(p.L) : e \in Members(o.L) /\ Cost(toks', token', e) = Cost(s.toks, s.token, e)
    BY <1>19, <1>20 DEF In
  <2>2. Above(s.toks, s.token, p, best)
    BY <1>13
  <2>3. QED
    BY <1>19, <2>1, <2>2 DEF Above, Reached
<1>23. /\ DOMAIN cutoff' = {"weight", "adaptive", "next"} /\ cutoff'.weight = cutoff.weight
       /\ cutoff'.adaptive = cutoff.adaptive /\ cutoff'.next = s.next
  BY <1>2, <1>10
<1>24. best < Huge => \/ Reached(toks', token', o, best)
                     \/ \E e \in Members(o.W) : best \in Expansions(graph, row, toks', token', e, cutoff.weight)
  <2>1. ASSUME best < Huge, ~Met
        PROVE  \E e \in Members(o.W) : best \in Expansions(graph, row, toks', token', e, cutoff.weight)
    <3>1. PICK e \in Members(q.W) : best \in Expansions(graph, row, toks, token, e, cutoff.weight)
      BY <1>10, <2>1 DEF Met
    <3>2. e # last
      BY <2>1, <3>1 DEF Met
    <3>3. e \in Members(o.W)
      BY <1>19, <3>1, <3>2
    <3>4. QED
      BY <1>21, <3>1, <3>3
  <2>2. Met => Reached(toks', token', o, best)
    BY <1>13, <1>22
  <2>3. QED
    BY <2>1, <2>2
<1>25. Pruned(graph, row, toks', token', o, cutoff', best)
  <2>1. \A e \in Members(o.W) : \A y \in Expansions(graph, row, toks', token', e, cutoff.weight) : best <= y
    BY <1>10, <1>19, <1>21
  <2>2. Bounded(s.next, best)
    BY <1>13
  <2>3. QED
    BY <1>10, <1>22, <1>23, <1>24, <2>1, <2>2 DEF Pruned
<1>26. Settings' /\ at' = "emitting" /\ frame' < Len(feats')
  BY <1>2 DEF DecoderInv, Settings
<1>27. Pruned(graph', feats'[frame' + 1], toks', token', o, cutoff', best')
  BY <1>2, <1>25 DEF row
<1>28. QED
  BY <1>18, <1>26, <1>27 DEF DecoderInv

LEMMA StoreSize ==
  ASSUME NEW gr, NEW fs, NEW h, NEW tk, NEW q, Store(gr, fs, h, tk, q, 0), q.L = <<>>, q.B = <<>>, NEW n \in Nat, n # 0
  PROVE  Store(gr, fs, H!SetSize(h, n), tk, q, 0)
<1> DEFINE g == H!SetSize(h, n)
<1>1. /\ Table(h, <<>>, q.F, q.w, q.W, <<>>) /\ Rooted(tk) /\ Counted(tk, h, In(q), 0)
      /\ (\A e \in In(q) : Holds(gr, h, tk, e)) /\ Real(gr, fs, tk, q.depth) /\ Deep(h, q)
  BY DEF Store
<1>2. Table(g, <<>>, q.F, q.w, q.W, <<>>) /\ g.elems = h.elems
  BY <1>1, SetSizeKeeps
<1> HIDE DEF g
<1>3. Counted(tk, g, In(q), 0)
  BY <1>1, <1>2 DEF Counted, Holders
<1>4. (\A e \in In(q) : Holds(gr, g, tk, e)) /\ Deep(g, q)
  BY <1>1, <1>2 DEF Holds, Deep
<1>5. Store(gr, fs, g, tk, q, 0)
  BY <1>1, <1>2, <1>3, <1>4 DEF Store
<1>6. QED
  BY <1>5 DEF g

\* What the arcs of element e expand to, if its token weighs w.
Costs(gr, row, key, w) == {w + a.weight + row[a.ilabel] : a \in {x \in Range(gr.arcs[key]) : Emits(x)}}

LEMMA ArcsAre ==
  ASSUME NEW gr, IsGraph(gr), NEW row, IsRow(gr, row), NEW key \in DOMAIN gr.arcs
  PROVE  /\ IsFiniteSet({x \in Range(gr.arcs[key]) : Emits(x)})
         /\ \A a \in Range(gr.arcs[key]) : a.weight \in Int /\ (Emits(a) => row[a.ilabel] \in Int)
<1> DEFINE arcs == gr.arcs[key]
<1>1. arcs \in Seq(Range(arcs))
  BY DEF IsGraph
<1> HIDE DEF arcs
<1>2. Len(arcs) \in Nat /\ DOMAIN arcs = 1 .. Len(arcs)
  BY <1>1
<1>3. IsFiniteSet(Range(arcs))
  BY <1>2, RangeIsFinite
<1>4. IsFiniteSet({x \in Range(arcs) : Emits(x)})
  <2>1. {x \in Range(arcs) : Emits(x)} \in SUBSET Range(arcs)
    OBVIOUS
  <2>2. QED
    BY <1>3, <2>1, FS_Subset
<1>5. ASSUME NEW a \in Range(arcs)
      PROVE  a.weight \in Int /\ (Emits(a) => row[a.ilabel] \in Int)
  <2>1. PICK i \in 1 .. Len(arcs) : a = arcs[i]
    BY <1>2 DEF Range
  <2>2. arcs[i].weight \in Int
    BY DEF IsGraph, arcs
  <2>3. Emits(arcs[i]) => row[arcs[i].ilabel] \in Int
    BY DEF IsRow, arcs
  <2>4. QED
    BY <2>1, <2>2, <2>3
<1>6. QED
  BY <1>4, <1>5 DEF arcs

LEMMA CostsAre ==
  ASSUME NEW gr, IsGraph(gr), NEW row, IsRow(gr, row), NEW key \in DOMAIN gr.arcs, NEW w \in Int
  PROVE  Costs(gr, row, key, w) \in SUBSET Int /\ IsFiniteSet(Costs(gr, row, key, w))
<1> DEFINE S == {x \in Range(gr.arcs[key]) : Emits(x)}
           f == [a \in S |-> w + a.weight + row[a.ilabel]]
<1>1. IsFiniteSet(S) /\ \A a \in S : a.weight \in Int /\ row[a.ilabel] \in Int
  <2>1. /\ IsFiniteSet(S)
        /\ \A a \in Range(gr.arcs[key]) : a.weight \in Int /\ (Emits(a) => row[a.ilabel] \in Int)
    BY ArcsAre
  <2>2. QED
    BY <2>1
<1>2. Costs(gr, row, key, w) = {w + a.weight + row[a.ilabel] : a \in S}
  BY DEF Costs
<1> HIDE DEF S
<1>3. \A a \in S : w + a.weight + row[a.ilabel] \in Int
  BY <1>1
<1>4. IsFiniteSet({f[a] : a \in S})
  <2> HIDE DEF f
  <2> QED BY <1>1, FiniteImage
<1>5. {f[a] : a \in S} = {w + a.weight + row[a.ilabel] : a \in S}
  OBVIOUS
<1>6. QED
  BY <1>2, <1>3, <1>4, <1>5

\* The list as it is when a pass begins: its elements, keys and weights.
Passed(q, row, list, w) ==
  /\ list = q.L /\ Weighed(list, w) /\ IsGraph(graph) /\ IsRow(graph, row) /\ Huge \in Int
  /\ \A i \in 1 .. Len(list) : /\ toks.elems[list[i]].key \in DOMAIN graph.arcs
                               /\ Cost(toks, token, list[i]) = w[i]

LEMMA PassedIs ==
  ASSUME NEW q, Store(graph, feats, toks, token, q, 0), IsGraph(graph), NEW row, IsRow(graph, row)
  PROVE  Passed(q, row, q.L, Weights(q.L))
<1> DEFINE list == q.L
           w == Weights(list)
<1>1. list \in Seq(DOMAIN toks.elems)
  BY DEF Store, Table, Lists, Linked, Tails
<1> HIDE DEF list
<1>2. Len(list) \in Nat /\ DOMAIN list = 1 .. Len(list) /\ (list = <<>> <=> Len(list) = 0)
  BY <1>1
<1>3. \A i \in 1 .. Len(list) : Holds(graph, toks, token, list[i]) /\ token[toks.elems[list[i]].val].weight \in Int
  <2>1. TAKE i \in 1 .. Len(list)
  <2>2. list[i] \in In(q)
    BY DEF In, Members, list
  <2>3. Holds(graph, toks, token, list[i])
    BY <2>2 DEF Store
  <2>4. QED
    BY <2>3 DEF Holds, Store, Real
<1>4. w = [i \in 1 .. Len(list) |-> token[toks.elems[list[i]].val].weight]
  BY <1>2 DEF Weights, Value
<1>5. w \in [1 .. Len(list) -> Int] /\ \A i \in 1 .. Len(list) : w[i] = Cost(toks, token, list[i])
  BY <1>3, <1>4 DEF Cost
<1> HIDE DEF w
<1>6. Len(w) = Len(list)
  BY <1>2, <1>5, FunctionIsSeq
<1>7. Weighed(list, w)
  BY <1>2, <1>5, <1>6 DEF Weighed, w
<1>8. \A i \in 1 .. Len(list) : toks.elems[list[i]].key \in DOMAIN graph.arcs
  BY <1>3 DEF Holds
<1>9. Huge \in Int
  BY HLevelCosts
<1>10. QED
  BY <1>5, <1>7, <1>8, <1>9 DEF Passed, list, w

\* What an element expands to, by its place in the list.
LEMMA ExpansionsAre ==
  ASSUME NEW q, NEW row, NEW list, NEW w, Passed(q, row, list, w), NEW limit \in Int, NEW i \in 1 .. Len(list)
  PROVE  Expansions(graph, row, toks, token, list[i], limit) =
           IF w[i] < limit THEN Costs(graph, row, toks.elems[list[i]].key, w[i]) ELSE {}
<1> DEFINE key == toks.elems[list[i]].key
<1>1. Cost(toks, token, list[i]) = w[i]
  BY DEF Passed
<1>2. Expansions(graph, row, toks, token, list[i], limit) =
        {w[i] + a.weight + row[a.ilabel] : a \in {x \in Range(graph.arcs[key]) : Emits(x) /\ w[i] < limit}}
  BY <1>1 DEF Expansions
<1> HIDE DEF key
<1>3. QED
  BY <1>2 DEF Costs, key

\* The least expansion of the list.
Leading(q, row, limit, b) ==
  /\ b \in Int /\ b <= Huge
  /\ \A e \in Members(q.L) : \A x \in Expansions(graph, row, toks, token, e, limit) : b <= x
  /\ b < Huge => \E e \in Members(q.L) : b \in Expansions(graph, row, toks, token, e, limit)

LEMMA BestExpansionLeads ==
  ASSUME NEW q, NEW row, NEW list, NEW w, Passed(q, row, list, w), NEW limit \in Int
  PROVE  Leading(q, row, limit, BestExpansion(list, row, limit))
<1> DEFINE C(i) == Costs(graph, row, toks.elems[list[i]].key, w[i])
           below == {j \in 1 .. Len(list) : w[j] < limit}
           all == UNION {C(i) : i \in below}
           b == BestExpansion(list, row, limit)
<1>1. /\ list = q.L /\ w = Weights(list) /\ Len(list) \in Nat /\ DOMAIN list = 1 .. Len(list) /\ Huge \in Int
      /\ \A i \in 1 .. Len(list) : w[i] \in Int
  BY DEF Passed, Weighed
<1>2. \A i \in below : C(i) \in SUBSET Int /\ IsFiniteSet(C(i))
  BY <1>1, CostsAre DEF Passed
<1>3. b = Min({Huge} \cup all)
  <2>1. \A i : C(i) = {w[i] + a.weight + row[a.ilabel] : a \in {x \in Range(graph.arcs[toks.elems[list[i]].key]) : Emits(x)}}
    BY DEF Costs
  <2>2. b = Min({Huge} \cup
                UNION {{w[i] + a.weight + row[a.ilabel] :
                          a \in {x \in Range(graph.arcs[toks.elems[list[i]].key]) : Emits(x)}} :
                       i \in below})
    BY <1>1 DEF BestExpansion, Arcs
  <2> HIDE DEF C, below, b
  <2>3. {C(i) : i \in below} =
          {{w[i] + a.weight + row[a.ilabel] :
              a \in {x \in Range(graph.arcs[toks.elems[list[i]].key]) : Emits(x)}} :
           i \in below}
    BY <2>1, Zenon
  <2>4. QED
    BY <2>2, <2>3, Zenon
<1> HIDE DEF C
<1>4. IsFiniteSet(all)
  <2> DEFINE f == [i \in below |-> C(i)]
  <2>1. IsFiniteSet(below)
    <3>1. IsFiniteSet(1 .. Len(list)) /\ below \in SUBSET (1 .. Len(list))
      BY <1>1, IntervalIs
    <3> HIDE DEF below
    <3>2. QED
      BY <3>1, FS_Subset
  <2> HIDE DEF below
  <2>2. IsFiniteSet({f[i] : i \in below})
    <3> HIDE DEF f
    <3> QED BY <2>1, FiniteImage
  <2>3. {f[i] : i \in below} = {C(i) : i \in below}
    OBVIOUS
  <2>4. \A T \in {C(i) : i \in below} : IsFiniteSet(T)
    BY <1>2
  <2> HIDE DEF f
  <2>5. QED
    BY <2>2, <2>3, <2>4, FS_UNION
<1>5. IsFiniteSet({Huge} \cup all) /\ {Huge} \cup all \in SUBSET Int /\ {Huge} \cup all # {}
  <2>1. all \in SUBSET Int
    <3> HIDE DEF below
    <3> QED BY <1>2
  <2> HIDE DEF all
  <2>2. IsFiniteSet(all \cup {Huge}) /\ all \cup {Huge} = {Huge} \cup all
    BY <1>4, FS_AddElement
  <2>3. QED
    BY <1>1, <2>1, <2>2
<1> HIDE DEF all, b
<1>6. b \in {Huge} \cup all /\ \A y \in {Huge} \cup all : b <= y
  BY <1>3, <1>5, MinIs
<1>7. b \in Int /\ b <= Huge /\ (b < Huge => b \in all) /\ \A y \in all : b <= y
  BY <1>1, <1>5, <1>6
<1>8. \A i \in 1 .. Len(list) :
        Expansions(graph, row, toks, token, list[i], limit) = IF i \in below THEN C(i) ELSE {}
  BY ExpansionsAre DEF C
<1>9. ASSUME NEW e \in Members(q.L), NEW x \in Expansions(graph, row, toks, token, e, limit)
      PROVE  b <= x
  <2>1. PICK i \in 1 .. Len(list) : e = list[i]
    BY <1>1 DEF Members
  <2> HIDE DEF below
  <2>2. i \in below /\ x \in C(i)
    BY <1>8, <1>9, <2>1
  <2>3. x \in all
    BY <2>2 DEF all
  <2>4. QED
    BY <1>7, <2>3
<1>10. ASSUME b < Huge
       PROVE  \E e \in Members(q.L) : b \in Expansions(graph, row, toks, token, e, limit)
  <2>1. PICK i \in below : b \in C(i)
    BY <1>7, <1>10 DEF all
  <2>2. i \in 1 .. Len(list) /\ list[i] \in Members(q.L)
    BY <1>1 DEF Members
  <2>3. QED
    BY <1>8, <2>1, <2>2
<1>11. QED
  BY <1>7, <1>9, <1>10 DEF Leading, b

\* The first bound is not below an expansion of the token it is taken from.
LEMMA FirstBoundIs ==
  ASSUME NEW q, NEW row, NEW list, NEW w, Passed(q, row, list, w), NEW fr, row = feats[fr],
         NEW b \in Int, NEW adaptive \in Int, b < Huge => adaptive > 0, NEW k \in 0 .. Len(list),
         k # 0 /\ b < Huge => \A x \in Costs(graph, row, toks.elems[list[k]].key, w[k]) : b <= x
  PROVE  Bounded(FirstBound(list, k, adaptive, fr), b)
<1>1. Huge \in Int /\ Len(list) \in Nat /\ w = Weights(list) /\ \A i \in 1 .. Len(list) : w[i] \in Int
  BY DEF Passed, Weighed
<1>2. CASE k = 0
  BY <1>1, <1>2 DEF FirstBound, Bounded
<1>3. CASE k # 0
  <2> DEFINE key == toks.elems[list[k]].key
             S == {x \in Range(graph.arcs[key]) : Emits(x)}
             f == [a \in S |-> Plus(a.weight + w[k] + row[a.ilabel], adaptive)]
             T == {f[a] : a \in S}
             m == FirstBound(list, k, adaptive, fr)
  <2>1. k \in 1 .. Len(list) /\ key \in DOMAIN graph.arcs /\ w[k] \in Int
    BY <1>1, <1>3 DEF Passed
  <2>2. /\ IsFiniteSet(S)
        /\ \A a \in S : a.weight \in Int /\ row[a.ilabel] \in Int
    <3>1. /\ IsFiniteSet(S)
          /\ \A a \in Range(graph.arcs[key]) : a.weight \in Int /\ (Emits(a) => row[a.ilabel] \in Int)
      BY <2>1, ArcsAre DEF Passed
    <3>2. QED
      BY <3>1
  <2>3. m = Min({Huge} \cup T)
    <3>1. m = Min({Huge} \cup {Plus(a.weight + w[k] + row[a.ilabel], adaptive) : a \in S})
      BY <1>1, <1>3 DEF FirstBound, Arcs
    <3>2. T = {Plus(a.weight + w[k] + row[a.ilabel], adaptive) : a \in S}
      OBVIOUS
    <3> HIDE DEF m, T, S
    <3>3. QED
      BY <3>1, <3>2
  <2>4. ASSUME NEW a \in S
        PROVE  f[a] \in Int /\ (b < Huge => f[a] > b)
    <3> DEFINE x == w[k] + a.weight + row[a.ilabel]
    <3>1. x \in Int /\ a.weight + w[k] + row[a.ilabel] = x
      <4>1. a.weight \in Int /\ row[a.ilabel] \in Int
        BY <2>2
      <4> HIDE DEF S
      <4>2. QED
        BY <2>1, <4>1
    <3>2. x \in Costs(graph, row, key, w[k])
      BY DEF Costs
    <3>3. f[a] = Plus(x, adaptive)
      BY <3>1
    <3> HIDE DEF x, f, S
    <3>4. f[a] \in Int /\ f[a] = IF x >= Huge \/ adaptive >= Huge THEN Huge ELSE x + adaptive
      <4>1. Plus(x, adaptive) \in Int
        BY <1>1, <3>1, PlusIs
      <4>2. Plus(x, adaptive) = IF x >= Huge \/ adaptive >= Huge THEN Huge ELSE x + adaptive
        BY DEF Plus
      <4>3. QED
        BY <3>3, <4>1, <4>2
    <3>5. b < Huge => b <= x
      BY <1>3, <3>2
    <3>6. QED
      BY <1>1, <3>1, <3>4, <3>5
  <2> HIDE DEF S
  <2>5. IsFiniteSet(T)
    <3> HIDE DEF f
    <3> QED BY <2>2, FiniteImage
  <2>6. T \in SUBSET Int /\ \A y \in T : b < Huge => y > b
    <3> HIDE DEF f
    <3> QED BY <2>4
  <2> HIDE DEF T, m
  <2>7. IsFiniteSet({Huge} \cup T) /\ {Huge} \cup T \in SUBSET Int /\ {Huge} \cup T # {}
    <3>1. IsFiniteSet(T \cup {Huge}) /\ T \cup {Huge} = {Huge} \cup T
      BY <2>5, FS_AddElement
    <3>2. QED
      BY <1>1, <2>6, <3>1
  <2>8. m \in {Huge} \cup T /\ \A y \in {Huge} \cup T : m <= y
    BY <2>3, <2>7, MinIs
  <2>9. m \in Int /\ m <= Huge /\ (b < Huge => m > b)
    BY <1>1, <2>6, <2>7, <2>8
  <2>10. QED
    BY <2>9 DEF Bounded, m
<1>4. QED
  BY <1>2, <1>3

\* The pass begins with a bound that lets the least expansion through: the token
\* it is taken from is the least of those that may be expanded.
LEMMA PassStarts ==
  ASSUME NEW q, NEW row, NEW list, NEW w, Passed(q, row, list, w), row = feats[frame + 1],
         NEW c, Cuts(list, w, c), NEW b, Leading(q, row, c.weight, b),
         NEW S \in SUBSET (1 .. Len(list)),
         \A i \in 1 .. Len(list) : (\E a \in Range(graph.arcs[toks.elems[list[i]].key]) : Emits(a)) => i \in S
  PROVE  /\ b < Huge => c.adaptive > 0
         /\ Bounded(FirstBound(list, FirstLeast(S, w), c.adaptive, frame + 1), b)
<1> DEFINE k == FirstLeast(S, w)
<1>1. /\ list = q.L /\ Huge \in Int /\ Len(list) \in Nat /\ \A i \in 1 .. Len(list) : w[i] \in Int
  BY DEF Passed, Weighed
<1>2. c.weight \in Int /\ c.adaptive \in Int /\ \A i \in 1 .. Len(list) : w[i] < c.weight => c.adaptive > 0
  BY DEF Cuts
<1>3. b \in Int /\ \A e \in Members(q.L) : \A x \in Expansions(graph, row, toks, token, e, c.weight) : b <= x
  BY DEF Leading
<1>4. ASSUME b < Huge
      PROVE  \E i \in S : w[i] < c.weight
  <2>1. PICK e \in Members(q.L) : b \in Expansions(graph, row, toks, token, e, c.weight)
    BY <1>4 DEF Leading
  <2>2. PICK i \in 1 .. Len(list) : e = list[i]
    BY <1>1, <2>1 DEF Members
  <2>3. w[i] < c.weight /\ b \in Costs(graph, row, toks.elems[list[i]].key, w[i])
    BY <1>2, <2>1, <2>2, ExpansionsAre
  <2>4. i \in S
    BY <2>3 DEF Costs
  <2>5. QED
    BY <2>3, <2>4
<1>5. k \in 0 .. Len(list) /\ (k # 0 => k \in S /\ \A j \in S : w[k] <= w[j])
  <2>1. CASE S = {}
    BY <1>1, <2>1 DEF FirstLeast
  <2>2. CASE S # {}
    <3>1. k \in S /\ \A j \in S : w[k] <= w[j]
      BY <1>1, <2>2, FirstLeastIs
    <3> HIDE DEF k
    <3>2. QED
      BY <1>1, <3>1
  <2>3. QED
    BY <2>1, <2>2
<1> HIDE DEF k
<1>6. ASSUME k # 0, b < Huge
      PROVE  \A x \in Costs(graph, row, toks.elems[list[k]].key, w[k]) : b <= x
  <2>1. k \in 1 .. Len(list) /\ list[k] \in Members(q.L)
    BY <1>1, <1>5, <1>6 DEF Members
  <2>2. w[k] < c.weight
    <3>1. PICK i \in S : w[i] < c.weight
      BY <1>4, <1>6
    <3>2. w[k] <= w[i] /\ w[k] \in Int /\ w[i] \in Int
      BY <1>1, <1>5, <1>6, <2>1
    <3>3. QED
      BY <1>2, <3>1, <3>2
  <2>3. Expansions(graph, row, toks, token, list[k], c.weight) = Costs(graph, row, toks.elems[list[k]].key, w[k])
    BY <1>2, <2>1, <2>2, ExpansionsAre
  <2>4. QED
    BY <1>3, <2>1, <2>3
<1>7. b < Huge => c.adaptive > 0
  BY <1>2, <1>4
<1>8. Bounded(FirstBound(list, k, c.adaptive, frame + 1), b)
  BY <1>2, <1>3, <1>5, <1>6, <1>7, FirstBoundIs
<1>9. QED
  BY <1>7, <1>8 DEF k

LEMMA PassBegins ==
  ASSUME BeginEmitting, NEW q, Store(graph, feats, toks, token, q, 0), H!List(toks) = q.L, Settings, IsGraph(graph),
         NEW row, row = feats[frame + 1], IsRow(graph, row),
         best' = BestExpansion(H!List(toks), row, cutoff'.weight)
  PROVE  /\ cutoff' \in [weight : Int, adaptive : Int, next : Int]
         /\ Bounded(cutoff'.next, best') /\ (best' < Huge => cutoff'.adaptive > 0)
         /\ Leading(q, row, cutoff'.weight, best')
<1> DEFINE list == q.L
           w == Weights(list)
<1>1. Passed(q, row, list, w)
  BY PassedIs
<1>2. Weighed(list, w) /\ DOMAIN list = 1 .. Len(list) /\ w = Weights(list)
  BY <1>1 DEF Passed, Weighed
<1> HIDE DEF list, w
<1>3. ASSUME NEW c, NEW k, StartPass(list, c, k), Cuts(list, w, c),
             NEW S \in SUBSET (1 .. Len(list)), k = FirstLeast(S, w),
             \A i \in 1 .. Len(list) : (\E a \in Range(graph.arcs[toks.elems[list[i]].key]) : Emits(a)) => i \in S
      PROVE  /\ cutoff' \in [weight : Int, adaptive : Int, next : Int]
             /\ Bounded(cutoff'.next, best') /\ (best' < Huge => cutoff'.adaptive > 0)
             /\ Leading(q, row, cutoff'.weight, best')
  <2> DEFINE m == FirstBound(list, k, c.adaptive, frame + 1)
  <2>1. cutoff' = [weight |-> c.weight, adaptive |-> c.adaptive, next |-> m]
    BY <1>3 DEF StartPass
  <2> HIDE DEF m
  <2>2. cutoff'.weight = c.weight /\ cutoff'.adaptive = c.adaptive /\ cutoff'.next = m
    BY <2>1
  <2>3. c.weight \in Int /\ c.adaptive \in Int
    BY <1>3 DEF Cuts
  <2>4. Leading(q, row, c.weight, best')
    BY <1>1, <2>2, <2>3, BestExpansionLeads DEF list
  <2>5. (best' < Huge => c.adaptive > 0) /\ Bounded(m, best')
    BY <1>1, <1>3, <2>4, PassStarts DEF m
  <2>6. m \in Int
    BY <2>5 DEF Bounded
  <2>7. QED
    BY <2>1, <2>2, <2>3, <2>4, <2>5, <2>6
<1>4. CASE StartPass(list, GetCutoff(list), BestElem(list))
  <2>1. BestElem(list) = FirstLeast(1 .. Len(list), w)
    BY <1>2 DEF BestElem
  <2>2. Cuts(list, w, GetCutoff(list))
    BY <1>2, CutoffIs
  <2>3. QED
    BY <1>3, <1>4, <2>1, <2>2
<1>5. CASE StartPass(list, GetCutoffFaster(list), BestElemFaster(list))
  <2> DEFINE S == {i \in 1 .. Len(list) : \E a \in Range(graph.arcs[toks.elems[list[i]].key]) : Emits(a)}
  <2>1. BestElemFaster(list) = FirstLeast(S, w)
    BY <1>2 DEF BestElemFaster, Arcs
  <2>2. Cuts(list, w, GetCutoffFaster(list))
    BY <1>2, CutoffFasterIs
  <2>3. S \in SUBSET (1 .. Len(list)) /\ \A i \in 1 .. Len(list) :
          (\E a \in Range(graph.arcs[toks.elems[list[i]].key]) : Emits(a)) => i \in S
    OBVIOUS
  <2> HIDE DEF S
  <2>4. QED
    BY <1>3, <1>5, <2>1, <2>2, <2>3
<1>6. QED
  BY <1>4, <1>5 DEF BeginEmitting, list

LEMMA BeginEmittingKeeps ==
  ASSUME DecoderInv, BeginEmitting, best' = BestExpansion(H!List(toks), feats[frame + 1], cutoff'.weight)
  PROVE  DecoderInv'
<1>1. PICK q : Holding(graph, feats, frame, at, toks, token, last, queue, q)
  BY DEF DecoderInv
<1>2. /\ at = "nonemitting" /\ toks' = PossiblyResizeHash(H!Clear(toks), Len(H!List(toks)))
      /\ last' = toks.head /\ at' = "emitting" /\ frame < Len(feats)
      /\ UNCHANGED <<graph, opts, token, feats, frame>>
  BY DEF BeginEmitting, StartPass
<1>3. Store(graph, feats, toks, token, q, 0) /\ q.w = 0 /\ q.here = frame
  BY <1>1, <1>2 DEF Holding, DecoderInv
<1> DEFINE c == H!Clear(toks)
           n == Len(H!List(toks))
           p == Walked(toks, q, frame + 1)
<1>4. Store(graph, feats, c, token, p, 0) /\ n \in Nat /\ c.elems = toks.elems /\ H!List(toks) = q.L
  BY <1>3, ClearStore
<1>5. p.L = <<>> /\ p.B = <<>> /\ p.w = toks.head /\ p.here = frame + 1 /\ p.back = frame /\ p.W = q.L
  BY <1>3 DEF Walked
<1> HIDE DEF c, n, p
<1>6. Store(graph, feats, toks', token, p, 0) /\ toks'.elems = toks.elems
  <2>1. CASE n * HashRatio > c.size
    <3>1. Shape(c)
      BY <1>4 DEF Store, Table
    <3>2. c.size \in Nat
      BY <3>1, ShapeFacts
    <3>3. HashRatio \in Nat
      BY HLevelAssumption
    <3> DEFINE m == n * HashRatio
    <3>4. m \in Nat
      BY <1>4, <3>3
    <3>5. m # 0
      <4> HIDE DEF m
      <4>1. m > c.size
        BY <2>1 DEF m
      <4>2. QED
        BY <3>2, <3>4, <4>1
    <3>6. toks' = H!SetSize(c, m)
      BY <1>2, <2>1 DEF PossiblyResizeHash, c, n
    <3> HIDE DEF m
    <3>7. toks'.elems = c.elems
      BY <1>4, <1>5, <3>4, <3>5, <3>6, SetSizeKeeps DEF Store
    <3>8. QED
      BY <1>4, <1>5, <3>4, <3>5, <3>6, <3>7, StoreSize
  <2>2. CASE ~(n * HashRatio > c.size)
    <3>1. toks' = c
      BY <1>2, <2>2 DEF PossiblyResizeHash, c, n
    <3>2. QED
      BY <1>4, <3>1
  <2>3. QED
    BY <2>1, <2>2
<1>7. Holding(graph', feats', frame', at', toks', token', last', queue', p)
  BY <1>2, <1>5, <1>6 DEF Holding
<1>8. Settings /\ IsGraph(graph) /\ IsRow(graph, feats[frame + 1])
  BY <1>2, GraphIs, RowIs DEF DecoderInv, Settings
<1>9. Pruned(graph, feats[frame + 1], toks', token, p, cutoff', best')
  <2>1. /\ cutoff' \in [weight : Int, adaptive : Int, next : Int]
        /\ Bounded(cutoff'.next, best') /\ (best' < Huge => cutoff'.adaptive > 0)
        /\ Leading(q, feats[frame + 1], cutoff'.weight, best')
    BY <1>3, <1>4, <1>8, PassBegins
  <2>2. \A e : /\ Cost(toks', token, e) = Cost(toks, token, e)
               /\ Expansions(graph, feats[frame + 1], toks', token, e, cutoff'.weight) =
                    Expansions(graph, feats[frame + 1], toks, token, e, cutoff'.weight)
    BY <1>6 DEF Cost, Expansions
  <2>3. Members(p.L) = {}
    BY <1>5, LinkedNone
  <2>4. Above(toks', token, p, best')
    BY <2>3 DEF Above
  <2>5. DOMAIN cutoff' = {"weight", "adaptive", "next"} /\ cutoff'.weight \in Int /\ cutoff'.adaptive \in Int
    BY <2>1
  <2>6. QED
    BY <1>5, <2>1, <2>2, <2>4, <2>5 DEF Pruned, Leading
<1>10. QED
  BY <1>2, <1>7, <1>8, <1>9 DEF DecoderInv, Settings

\* The keys of the list, in its order.
LEMMA KeysIs ==
  ASSUME NEW h, NEW q, Table(h, q.L, q.F, q.w, q.W, q.B)
  PROVE  Keys(h) \in Seq(KeysOf(h, q.L))
<1>1. Shape(h) /\ Linked(Tails(h), h.head, q.L) /\ q.L \in Seq(DOMAIN h.elems) /\ Len(q.L) \in Nat
  BY DEF Table, Lists, Linked, Tails
<1>2. H!List(h) = q.L /\ DOMAIN q.L = 1 .. Len(q.L)
  BY <1>1, ChainIs DEF H!List
<1>3. Keys(h) = [i \in 1 .. Len(q.L) |-> h.elems[q.L[i]].key]
  BY <1>2 DEF Keys
<1>4. \A i \in 1 .. Len(q.L) : h.elems[q.L[i]].key \in KeysOf(h, q.L)
  BY DEF KeysOf, Members
<1>5. Keys(h) \in [1 .. Len(q.L) -> KeysOf(h, q.L)]
  BY <1>3, <1>4
<1>6. QED
  BY <1>1, <1>5, FunctionIsSeq

LEMMA EndEmittingKeeps ==
  ASSUME DecoderInv, EndEmitting
  PROVE  DecoderInv'
<1>1. PICK q : Holding(graph, feats, frame, at, toks, token, last, queue, q)
  BY DEF DecoderInv
<1>2. /\ at = "emitting" /\ last = 0 /\ queue' = Keys(toks) /\ frame' = frame + 1 /\ at' = "nonemitting"
      /\ UNCHANGED <<graph, opts, toks, token, last, feats>>
  BY DEF EndEmitting, Null, H!Null
<1>3. Store(graph, feats, toks, token, q, 0) /\ q.w = 0 /\ q.here = frame + 1
  BY <1>1, <1>2 DEF Holding
<1> DEFINE p == [L |-> q.L, F |-> q.F, w |-> q.w, W |-> q.W, B |-> q.B, depth |-> q.depth,
                 here |-> q.here, back |-> frame + 1]
<1>4. /\ p.L = q.L /\ p.F = q.F /\ p.w = q.w /\ p.W = q.W /\ p.B = q.B /\ p.depth = q.depth /\ p.here = q.here
      /\ p.back = frame + 1 /\ In(p) = In(q)
  BY DEF In
<1> HIDE DEF p
<1>5. /\ Table(toks, q.L, q.F, q.w, q.W, q.B) /\ Rooted(token) /\ Counted(token, toks, In(q), 0)
      /\ (\A e \in In(q) : Holds(graph, toks, token, e)) /\ Real(graph, feats, token, q.depth) /\ Deep(toks, q)
  BY <1>3 DEF Store
<1>6. Members(q.W) = {}
  <2>1. Linked(Tails(toks), 0, q.W) /\ 0 \notin DOMAIN Tails(toks)
    BY <1>3, <1>5, ShapeFacts DEF Table, Lists
  <2>2. q.W = <<>>
    BY <2>1, LinkedNull
  <2>3. QED
    BY <2>2, LinkedNone
<1>7. Deep(toks, p)
  BY <1>4, <1>5, <1>6 DEF Deep
<1>8. Store(graph, feats, toks, token, p, 0)
  BY <1>4, <1>5, <1>7 DEF Store
<1>9. queue' \in Seq(KeysOf(toks, p.L))
  BY <1>2, <1>4, <1>5, KeysIs
<1>10. Holding(graph', feats', frame', at', toks', token', last', queue', p)
  BY <1>2, <1>3, <1>4, <1>8, <1>9 DEF Holding
<1>11. Settings' /\ last' = 0
  BY <1>2 DEF DecoderInv, Settings
<1>12. QED
  BY <1>2, <1>10, <1>11 DEF DecoderInv

\* The store whose only token is x, for arc, and which no element holds yet.
Planted(gr, fs, h, tk, q, x, arc) ==
  /\ Store(gr, fs, h, tk, q, x) /\ q.L = <<>> /\ q.W = <<>> /\ q.w = 0
  /\ x \in DOMAIN tk /\ tk[x].arc = arc /\ q.depth[x] = q.here /\ q.here = 0 /\ q.back = 0

\* The first token of an utterance.
LEMMA RootStore ==
  ASSUME NEW gr, IsGraph(gr), NEW fs, NEW h, NEW F, Table(h, <<>>, F, 0, <<>>, <<>>), NEW arc,
         arc.ilabel = 0, arc.nextstate = gr.start
  PROVE  LET tk == Added(<<>>, [arc |-> arc, prev |-> 0, refs |-> 1, weight |-> 0])
             x == Fresh(<<>>)
         IN  \E q : Planted(gr, fs, h, tk, q, x, arc)
<1> DEFINE x == Fresh(<<>>)
           new == [arc |-> arc, prev |-> 0, refs |-> 1, weight |-> 0]
           tk == Added(<<>>, new)
           q == [L |-> <<>>, F |-> F, w |-> 0, W |-> <<>>, B |-> <<>>, depth |-> [t \in {x} |-> 0],
                 here |-> 0, back |-> 0]
<1>1. DOMAIN <<>> = {} /\ IsFiniteSet({}) /\ IsFiniteSet(DOMAIN <<>>)
  BY FS_EmptySet
<1>2. Store(gr, fs, h, <<>>, Blank(h, F, 0), 0)
  BY BlankStore
<1>3. Rooted(<<>>)
  BY <1>2 DEF Store
<1>4. x \in Nat \ {0}
  BY <1>1, FreshIs
<1>5. DOMAIN tk = {x} /\ tk[x] = new /\ IsFunction(tk)
  <2> HIDE DEF new
  <2>1. DOMAIN tk = DOMAIN <<>> \cup {x}
    BY <1>1, AddedIs
  <2>2. tk[x] = new
    BY <1>1, AddedIs
  <2>3. IsFunction(tk)
    BY <1>1, AddedIs
  <2>4. QED
    BY <1>1, <2>1, <2>2, <2>3
<1>6. /\ q.L = <<>> /\ q.F = F /\ q.w = 0 /\ q.W = <<>> /\ q.B = <<>> /\ q.depth = [t \in {x} |-> 0]
      /\ q.here = 0 /\ q.back = 0
  OBVIOUS
<1> HIDE DEF x, tk, q
<1>7. tk[x].arc = arc /\ tk[x].prev = 0 /\ tk[x].refs = 1 /\ tk[x].weight = 0
      /\ tk[x] = [arc |-> tk[x].arc, prev |-> tk[x].prev, refs |-> tk[x].refs, weight |-> tk[x].weight]
  BY <1>5
<1> HIDE DEF new
<1>8. Rooted(tk)
  <2>1. Reduced(tk, <<>>)
    BY <1>1 DEF Reduced
  <2>2. DOMAIN tk = DOMAIN <<>> \cup {x} /\ x \notin DOMAIN <<>> /\ tk[x].prev \in DOMAIN <<>> \cup {0}
    BY <1>1, <1>5, <1>7
  <2>3. \A t \in DOMAIN tk :
           /\ tk[t] = [arc |-> tk[t].arc, prev |-> tk[t].prev, refs |-> tk[t].refs, weight |-> tk[t].weight]
           /\ tk[t].refs \in Nat /\ tk[t].refs # 0
    BY <1>5, <1>7
  <2>4. QED
    BY <1>3, <1>4, <1>5, <2>1, <2>2, <2>3, MoreRooted
<1>9. In(q) = {}
  BY <1>6, LinkedNone DEF In
<1>10. Counted(tk, h, In(q), x)
  <2>1. Holders(h, In(q), x) = {} /\ Kin(tk, x) = {}
    BY <1>4, <1>5, <1>7, <1>9 DEF Holders, Kin
  <2>2. Cardinality(Holders(h, In(q), x)) = 0 /\ Cardinality(Kin(tk, x)) = 0
    BY <2>1, FS_EmptySet
  <2>3. QED
    BY <1>5, <1>7, <2>2 DEF Counted
<1>11. Real(gr, fs, tk, q.depth) /\ q.depth[x] = 0
  BY <1>5, <1>6, <1>7 DEF Real
<1>12. Deep(h, q)
  BY <1>6, LinkedNone DEF Deep
<1>13. Store(gr, fs, h, tk, q, x)
  BY <1>6, <1>8, <1>9, <1>10, <1>11, <1>12 DEF Store
<1>14. Planted(gr, fs, h, tk, q, x, arc)
  BY <1>5, <1>6, <1>7, <1>11, <1>13 DEF Planted
<1>15. QED
  BY <1>14 DEF x, tk, new

LEMMA ClearedKeeps ==
  ASSUME DecoderInv, at = "idle"
  PROVE  /\ Cleared.token = <<>>
         /\ \E F : Table(Cleared.toks, <<>>, F, 0, <<>>, <<>>)
<1>1. PICK q : Holding(graph, feats, frame, at, toks, token, last, queue, q)
  BY DEF DecoderInv
<1>2. Store(graph, feats, toks, token, q, 0) /\ q.w = 0
  BY <1>1 DEF Holding, DecoderInv
<1> DEFINE c == ClearToks([toks |-> H!Clear(toks), token |-> token], H!List(toks))
<1>3. PICK p : /\ Store(graph, feats, c.toks, c.token, p, 0)
               /\ p.L = <<>> /\ p.W = <<>> /\ p.w = 0 /\ c.token = <<>>
  BY <1>2, ClearToksKeeps
<1>4. Cleared = c
  BY DEF Cleared
<1> HIDE DEF c
<1>5. Table(c.toks, <<>>, p.F, 0, <<>>, p.B)
  BY <1>3 DEF Store
<1>6. p.B = <<>>
  BY <1>5, EmptyTable DEF Table
<1>7. QED
  BY <1>3, <1>4, <1>5, <1>6

LEMMA DecodeKeeps ==
  ASSUME DecoderInv, Decode
  PROVE  DecoderInv'
<1> DEFINE dummy == [ilabel |-> 0, olabel |-> 0, weight |-> 0, nextstate |-> graph.start]
           new == [arc |-> dummy, prev |-> 0, refs |-> 1, weight |-> 0]
           x == Fresh(<<>>)
           tk == Added(<<>>, new)
           h == Cleared.toks
<1>1. /\ at = "idle" /\ graph' = graph /\ opts' = opts /\ last' = last /\ frame' = 0 /\ at' = "nonemitting"
      /\ feats' \in FeatureSets
      /\ token' = Added(Cleared.token, new) /\ toks' = H!Insert(Cleared.toks, graph.start, Fresh(Cleared.token))
      /\ queue' = Keys(toks')
  BY DEF Decode, Null, H!Null
<1>2. Cleared.token = <<>> /\ \E F : Table(h, <<>>, F, 0, <<>>, <<>>)
  BY <1>1, ClearedKeeps
<1>3. PICK F : Table(h, <<>>, F, 0, <<>>, <<>>)
  BY <1>2
<1>4. token' = tk /\ toks' = H!Insert(h, graph.start, x)
  BY <1>1, <1>2
<1>5. IsGraph(graph) /\ graph \in Graphs /\ last = 0
  BY <1>1, GraphIs DEF DecoderInv, Settings
<1>6. dummy.ilabel = 0 /\ dummy.nextstate = graph.start
  OBVIOUS
<1> HIDE DEF dummy, h
<1>7. PICK q : Planted(graph, feats', h, tk, q, x, dummy)
  BY <1>3, <1>5, <1>6, RootStore
<1>8. /\ Store(graph, feats', h, tk, q, x) /\ q.L = <<>> /\ q.W = <<>> /\ q.w = 0
      /\ x \in DOMAIN tk /\ tk[x].arc = dummy /\ q.depth[x] = q.here /\ q.here = 0 /\ q.back = 0
  BY <1>7 DEF Planted
<1> HIDE DEF tk, x
<1> DEFINE key == graph.start
           g == H!Insert(h, key, x)
<1>9. key \in DOMAIN graph.arcs /\ key = tk[x].arc.nextstate
  BY <1>5, <1>6, <1>8 DEF IsGraph
<1>10. \A k \in 1 .. Len(q.L) : h.elems[q.L[k]].key # key
  BY <1>8
<1>11. PICK p : Placed(graph, feats', h, q, g, p, tk, x, key)
  <2> HIDE DEF key
  <2> QED BY <1>5, <1>8, <1>9, <1>10, EnterNew
<1> HIDE DEF g, key
<1>12. Store(graph, feats', g, tk, p, 0) /\ Onward(h, q, g, p)
  BY <1>11 DEF Placed
<1>13. toks' = g
  BY <1>4 DEF g, key
<1>14. p.w = 0 /\ p.here = 0 /\ p.back = 0
  BY <1>8, <1>12 DEF Onward
<1>15. Keys(g) \in Seq(KeysOf(g, p.L))
  BY <1>12, KeysIs DEF Store
<1>16. queue' \in Seq(KeysOf(g, p.L))
  BY <1>1, <1>13, <1>15 DEF Keys
<1>17. Holding(graph', feats', frame', at', toks', token', last', queue', p)
  BY <1>1, <1>4, <1>5, <1>12, <1>13, <1>14, <1>16 DEF Holding
<1>18. QED
  BY <1>1, <1>5, <1>17 DEF DecoderInv, Settings

LEMMA DestroyKeeps ==
  ASSUME DecoderInv, Destroy
  PROVE  DecoderInv'
<1>1. /\ at = "idle" /\ toks' = Cleared.toks /\ token' = Cleared.token /\ at' = "destroyed"
      /\ UNCHANGED <<graph, opts, last, feats, frame>>
  BY DEF Destroy
<1>2. PICK F : Table(toks', <<>>, F, 0, <<>>, <<>>)
  BY <1>1, ClearedKeeps
<1>3. token' = <<>>
  BY <1>1, ClearedKeeps
<1> DEFINE q == Blank(toks', F, frame)
<1>4. Store(graph, feats, toks', token', q, 0)
  BY <1>2, <1>3, BlankStore
<1>5. q.L = <<>> /\ q.W = <<>> /\ q.w = 0 /\ q.here = frame /\ q.back = frame
  BY DEF Blank
<1> HIDE DEF q
<1>6. last = 0
  BY <1>1 DEF DecoderInv
<1>7. Holding(graph', feats', frame', at', toks', token', last', queue', q)
  BY <1>1, <1>3, <1>4, <1>5, <1>6 DEF Holding
<1>8. QED
  BY <1>1, <1>6, <1>7 DEF DecoderInv, Settings

\* Every step keeps the invariant; those of the driver alone leave tokens and
\* elements as they are.
LEMMA NextKeeps ==
  ASSUME DecoderInv, HNext
  PROVE  DecoderInv'
<1>1. DriverNext
  BY DEF HNext
<1>2. CASE SkipEmpty
  BY <1>2, IdleKeeps DEF SkipEmpty
<1>3. CASE EndUtterance
  <2>1. GetBestPath \/ Refuse
    BY <1>3 DEF EndUtterance
  <2>2. at = "nonemitting" /\ at' = "idle" /\ UNCHANGED <<graph, opts, toks, token, last, feats, frame>>
    BY <2>1 DEF GetBestPath, Refuse
  <2>3. QED
    BY <2>2, IdleKeeps
<1>4. CASE Decode
  BY <1>4, DecodeKeeps
<1>5. CASE PopState
  BY <1>5, PopStateKeeps
<1>6. CASE BeginEmitting
  <2>1. at = "nonemitting" /\ at' = "emitting"
    BY <1>6 DEF BeginEmitting, StartPass
  <2>2. best' = BestExpansion(H!List(toks), feats[frame + 1], cutoff'.weight)
    BY <2>1 DEF HNext
  <2>3. QED
    BY <1>6, <2>2, BeginEmittingKeeps
<1>7. CASE ExpandElement
  <2>1. best' = best
    BY <1>7 DEF HNext, ExpandElement
  <2>2. QED
    BY <1>7, <2>1, ExpandElementKeeps
<1>8. CASE EndEmitting
  BY <1>8, EndEmittingKeeps
<1>9. CASE Destroy
  BY <1>9, DestroyKeeps
<1>10. QED
  BY <1>1, <1>2, <1>3, <1>4, <1>5, <1>6, <1>7, <1>8, <1>9 DEF DriverNext

\* The invariant holds in every state.
LEMMA DecoderInvariant ==
  HSpec => []DecoderInv
<1>1. HInit => DecoderInv
  BY DecoderInit DEF HInit, DriverInit
<1>2. DecoderInv /\ [HNext]_hvars => DecoderInv'
  <2> SUFFICES ASSUME DecoderInv, [HNext]_hvars
               PROVE  DecoderInv'
    OBVIOUS
  <2>1. CASE HNext
    BY <2>1, NextKeeps
  <2>2. CASE UNCHANGED hvars
    BY <2>2 DEF hvars, vars, DecoderInv, Settings
  <2>3. QED
    BY <2>1, <2>2
<1>3. QED
  BY <1>1, <1>2, PTL DEF HSpec

-----------------------------------------------------------------------------
(* The elements *)

LEMMA DisjointCount ==
  ASSUME NEW S, IsFiniteSet(S), NEW T, IsFiniteSet(T), S \cap T = {}
  PROVE  IsFiniteSet(S \cup T) /\ Cardinality(S \cup T) = Cardinality(S) + Cardinality(T)
<1>1. Cardinality(S) \in Nat /\ Cardinality(T) \in Nat
  BY FS_CardinalityType
<1>2. IsFiniteSet(S \cup T)
  BY FS_Union
<1>3. Cardinality(S \cup T) = Cardinality(S) + Cardinality(T) - Cardinality(S \cap T)
  BY FS_Union
<1>4. Cardinality(S \cap T) = 0
  BY FS_EmptySet
<1>5. QED
  BY <1>1, <1>2, <1>3, <1>4

LEMMA MembersCount ==
  ASSUME NEW next, NEW x, NEW p, Linked(next, x, p), IsFiniteSet(DOMAIN next)
  PROVE  IsFiniteSet(Members(p)) /\ Cardinality(Members(p)) \in Nat
<1>1. Members(p) \subseteq DOMAIN next
  BY DEF Linked, Members
<1>2. QED
  BY <1>1, FS_Subset, FS_CardinalityType

\* What the decoder has of the three lists.
LEMMA ListsAre ==
  ASSUME NEW q, Holding(graph, feats, frame, at, toks, token, last, queue, q), DecoderInv
  PROVE  /\ Range(H!List(toks)) = Members(q.L) /\ Range(H!Chain(toks, toks.freed)) = Members(q.F)
         /\ (IF at = "emitting" THEN Range(H!Chain(toks, last)) ELSE {}) = Members(q.W)
         /\ Held = In(q)
<1>1. /\ Shape(toks) /\ Lists(toks, q.L, q.F, last, q.W)
      /\ at # "emitting" => last = 0
  BY DEF Holding, Store, Table, DecoderInv
<1>2. /\ Linked(Tails(toks), toks.head, q.L) /\ Linked(Tails(toks), toks.freed, q.F)
      /\ Linked(Tails(toks), last, q.W)
  BY <1>1 DEF Lists
<1>3. /\ H!List(toks) = q.L /\ H!Chain(toks, toks.freed) = q.F /\ H!Chain(toks, last) = q.W
  BY <1>1, <1>2, ChainIs DEF H!List
<1>4. Range(q.L) = Members(q.L) /\ Range(q.F) = Members(q.F) /\ Range(q.W) = Members(q.W)
  BY <1>2, RangeIsMembers DEF Linked
<1>5. at # "emitting" => q.W = <<>> /\ Members(q.W) = {}
  <2>1. 0 \notin DOMAIN Tails(toks)
    BY <1>1, ShapeFacts
  <2>2. last = 0 => q.W = <<>>
    BY <1>2, <2>1, LinkedNull
  <2>3. Members(<<>>) = {}
    BY LinkedNone
  <2>4. QED
    BY <1>1, <2>2, <2>3
<1>6. (IF at = "emitting" THEN Range(H!Chain(toks, last)) ELSE {}) = Members(q.W)
  BY <1>3, <1>4, <1>5
<1>7. QED
  BY <1>3, <1>4, <1>6 DEF Held, In

LEMMA ElementsFollow ==
  ASSUME DecoderInv
  PROVE  ElementsAccounted
<1>1. PICK q : Holding(graph, feats, frame, at, toks, token, last, queue, q)
  BY DEF DecoderInv
<1>2. Shape(toks) /\ Lists(toks, q.L, q.F, q.w, q.W)
  BY <1>1 DEF Holding, Store, Table
<1>3. /\ DOMAIN toks.elems = 1 .. Len(toks.elems) /\ Len(toks.elems) \in Nat
      /\ IsFiniteSet(DOMAIN Tails(toks))
  BY <1>2, ShapeFacts
<1> DEFINE L == Members(q.L)
           F == Members(q.F)
           W == Members(q.W)
<1>4. /\ L \cup F \cup W = DOMAIN toks.elems /\ L \cap F = {} /\ L \cap W = {} /\ F \cap W = {}
  BY <1>2 DEF Lists
<1>5. /\ IsFiniteSet(L) /\ IsFiniteSet(F) /\ IsFiniteSet(W)
      /\ Cardinality(L) \in Nat /\ Cardinality(F) \in Nat /\ Cardinality(W) \in Nat
  BY <1>2, <1>3, MembersCount DEF Lists
<1>6. /\ Range(H!List(toks)) = L /\ Range(H!Chain(toks, toks.freed)) = F
      /\ (IF at = "emitting" THEN Range(H!Chain(toks, last)) ELSE {}) = W
  BY <1>1, ListsAre
<1> HIDE DEF L, F, W
<1>7. IsFiniteSet(F \cup W) /\ Cardinality(F \cup W) = Cardinality(F) + Cardinality(W)
  BY <1>4, <1>5, DisjointCount
<1>8. (F \cup W) \cap L = {} /\ (F \cup W) \cup L = DOMAIN toks.elems
  BY <1>4
<1>9. Cardinality((F \cup W) \cup L) = Cardinality(F) + Cardinality(W) + Cardinality(L)
  BY <1>5, <1>7, <1>8, DisjointCount
<1>10. Cardinality(DOMAIN toks.elems) = Len(toks.elems)
  <2>1. 1 \in Int /\ Len(toks.elems) \in Int /\ (1 > Len(toks.elems) => Len(toks.elems) = 0)
    BY <1>3
  <2>2. Cardinality(1 .. Len(toks.elems)) =
          IF 1 > Len(toks.elems) THEN 0 ELSE Len(toks.elems) - 1 + 1
    BY <2>1, FS_Interval
  <2>3. QED
    BY <1>3, <2>1, <2>2
<1>11. F \cup W \cup L = DOMAIN toks.elems
  BY <1>8
<1>12. Cardinality(F) + Cardinality(W) + Cardinality(L) = Len(toks.elems)
  BY <1>8, <1>9, <1>10
<1>13. QED
  BY <1>6, <1>11, <1>12 DEF ElementsAccounted

LEMMA FindFollows ==
  ASSUME DecoderInv
  PROVE  TableFinds
<1>1. PICK q : Holding(graph, feats, frame, at, toks, token, last, queue, q)
  BY DEF DecoderInv
<1>2. /\ Table(toks, q.L, q.F, q.w, q.W, q.B)
      /\ \A e \in In(q) : Holds(graph, toks, token, e)
  BY <1>1 DEF Holding, Store
<1>3. Range(H!List(toks)) = Members(q.L) /\ Held = In(q)
  BY <1>1, ListsAre
<1>4. States \subseteq Nat
  BY GraphIs DEF DecoderInv, Settings, States, IsGraph
<1>5. \A k, l \in 1 .. Len(q.L) : toks.elems[q.L[k]].key = toks.elems[q.L[l]].key => k = l
  BY <1>2 DEF Table, Buckets
<1>6. \A k \in 1 .. Len(q.L) : q.L[k] # 0
  <2>1. q.L \in Seq(DOMAIN Tails(toks)) /\ 0 \notin DOMAIN Tails(toks)
    BY <1>2, ShapeFacts DEF Table, Lists, Linked
  <2>2. QED
    BY <2>1
<1>7. ASSUME NEW key \in States
      PROVE  {e \in Members(q.L) : toks.elems[e].key = key} = {H!Find(toks, key)} \ {Null}
  <2>1. key \in Nat
    BY <1>4
  <2>2. \/ \E k \in 1 .. Len(q.L) : toks.elems[q.L[k]].key = key /\ H!Find(toks, key) = q.L[k]
        \/ H!Find(toks, key) = 0 /\ \A k \in 1 .. Len(q.L) : toks.elems[q.L[k]].key # key
    BY <1>2, <2>1, FindIs
  <2>3. CASE \E k \in 1 .. Len(q.L) : toks.elems[q.L[k]].key = key /\ H!Find(toks, key) = q.L[k]
    <3>1. PICK k \in 1 .. Len(q.L) : toks.elems[q.L[k]].key = key /\ H!Find(toks, key) = q.L[k]
      BY <2>3
    <3>2. {e \in Members(q.L) : toks.elems[e].key = key} = {q.L[k]}
      BY <1>5, <3>1 DEF Members
    <3>3. QED
      BY <1>6, <3>1, <3>2 DEF Null, H!Null
  <2>4. CASE H!Find(toks, key) = 0 /\ \A k \in 1 .. Len(q.L) : toks.elems[q.L[k]].key # key
    BY <2>4 DEF Members, Null, H!Null
  <2>5. QED
    BY <2>2, <2>3, <2>4
<1>8. \A e \in Held : token[toks.elems[e].val].arc.nextstate = toks.elems[e].key
  BY <1>2, <1>3 DEF Holds
<1>9. QED
  BY <1>3, <1>7, <1>8 DEF TableFinds

LEMMA CountsFollow ==
  ASSUME DecoderInv
  PROVE  RefCountsExact
<1>1. PICK q : Holding(graph, feats, frame, at, toks, token, last, queue, q)
  BY DEF DecoderInv
<1>2. /\ Table(toks, q.L, q.F, q.w, q.W, q.B) /\ Rooted(token) /\ Counted(token, toks, In(q), 0)
      /\ at = "destroyed" => token = <<>>
  BY <1>1 DEF Holding, Store
<1>3. Held = In(q)
  BY <1>1, ListsAre
<1>4. IsFiniteSet(In(q))
  BY <1>2, InIsFinite
<1>5. ASSUME NEW t \in DOMAIN token
      PROVE  token[t].refs = Cardinality({e \in Held : toks.elems[e].val = t})
                               + Cardinality({u \in DOMAIN token : token[u].prev = t})
  <2>1. t # 0
    BY <1>2 DEF Rooted
  <2>2. Holders(toks, In(q), t) = {e \in Held : toks.elems[e].val = t}
        /\ Kin(token, t) = {u \in DOMAIN token : token[u].prev = t}
    BY <1>3 DEF Holders, Kin
  <2>3. /\ Cardinality(Holders(toks, In(q), t)) \in Nat /\ Cardinality(Kin(token, t)) \in Nat
    BY <1>2, <1>4, CountsAreNumbers
  <2>4. token[t].refs = Cardinality(Holders(toks, In(q), t)) + Cardinality(Kin(token, t)) + 0
    BY <1>2, <2>1 DEF Counted
  <2>5. QED
    BY <2>2, <2>3, <2>4
<1>6. QED
  BY <1>2, <1>5 DEF RefCountsExact

-----------------------------------------------------------------------------
(* The paths *)

\* path leads from a first token to t.
Leads(tk, path, t) ==
  /\ path \in Seq(DOMAIN tk) /\ Len(path) \in Nat \ {0} /\ path[Len(path)] = t /\ DOMAIN path = 1 .. Len(path)
  /\ \A i \in 1 .. Len(path) : path[i] \in DOMAIN tk
  /\ tk[path[1]].prev = 0
  /\ \A i \in 2 .. Len(path) : tk[path[i]].prev = path[i - 1]

\* The positions up to the k-th of the tokens that took an emitting arc.
Taken(tk, path, k) == {j \in 1 .. k : Emits(tk[path[j]].arc)}

LEMMA PathLeads ==
  ASSUME NEW t \in DOMAIN token, Rooted(token)
  PROVE  Leads(token, PathTo(t), t)
<1> DEFINE path == PathTo(t)
<1>1. PICK p : Linked(PrevOf(token), t, p)
  BY DEF Rooted
<1> DEFINE n == Len(p)
<1>2. /\ n \in Nat /\ p \in Seq(DOMAIN token) /\ t = Item(p, 1)
      /\ \A k \in 1 .. n : p[k] \in DOMAIN token /\ token[p[k]].prev = Item(p, k + 1)
  BY <1>1, PathIs
<1>3. n # 0 /\ t = p[1]
  <2>1. t # 0
    BY DEF Rooted
  <2>2. QED
    BY <1>2, <2>1 DEF Item
<1>4. path = [i \in 1 .. n |-> p[(n - i) + 1]]
  BY <1>1, BackIs DEF PathTo, Reverse
<1>5. /\ path \in Seq(DOMAIN token) /\ Len(path) = n /\ DOMAIN path = 1 .. n
      /\ \A i \in 1 .. n : path[i] \in DOMAIN token
  <2>1. \A i \in 1 .. n : (n - i) + 1 \in 1 .. n
    BY <1>2
  <2>2. path \in [1 .. n -> DOMAIN token]
    BY <1>2, <1>4, <2>1
  <2>3. QED
    BY <1>2, <2>2, FunctionIsSeq
<1>6. \A i \in 1 .. n : path[i] = p[(n - i) + 1]
  BY <1>4
<1> HIDE DEF path, n
<1>7. path[n] = t /\ path[1] = p[n]
  <2>1. (n - n) + 1 = 1 /\ (n - 1) + 1 = n /\ n \in 1 .. n /\ 1 \in 1 .. n
    BY <1>2, <1>3
  <2>2. QED
    BY <1>3, <1>6, <2>1
<1>8. token[path[1]].prev = 0
  <2>1. n \in 1 .. n /\ n + 1 \notin 1 .. Len(p)
    BY <1>2, <1>3 DEF n
  <2>2. QED
    BY <1>2, <1>7, <2>1 DEF Item
<1>9. ASSUME NEW i \in 2 .. n
      PROVE  token[path[i]].prev = path[i - 1]
  <2>1. /\ i \in 1 .. n /\ i - 1 \in 1 .. n /\ (n - i) + 1 \in 1 .. n
        /\ ((n - i) + 1) + 1 \in 1 .. n /\ (n - (i - 1)) + 1 = ((n - i) + 1) + 1
    BY <1>2
  <2>2. path[i] = p[(n - i) + 1] /\ path[i - 1] = p[((n - i) + 1) + 1]
    BY <1>6, <2>1
  <2>3. token[p[(n - i) + 1]].prev = Item(p, ((n - i) + 1) + 1)
    BY <1>2, <2>1
  <2>4. QED
    BY <2>1, <2>2, <2>3 DEF Item, n
<1>10. Leads(token, path, t)
  BY <1>2, <1>3, <1>5, <1>7, <1>8, <1>9 DEF Leads
<1>11. QED
  BY <1>10 DEF path

\* One more arc.
LEMMA TakenNext ==
  ASSUME NEW tk, NEW path, NEW k \in Nat \ {0}
  PROVE  /\ IsFiniteSet(Taken(tk, path, k)) /\ Cardinality(Taken(tk, path, k)) \in Nat
         /\ Cardinality(Taken(tk, path, k)) =
              Cardinality(Taken(tk, path, k - 1)) + (IF Emits(tk[path[k]].arc) THEN 1 ELSE 0)
<1> DEFINE S == Taken(tk, path, k - 1)
<1>1. IsFiniteSet(S) /\ IsFiniteSet(Taken(tk, path, k)) /\ k \notin S
  <2>1. /\ 1 \in Int /\ k \in Int /\ k - 1 \in Int
        /\ Taken(tk, path, k) \subseteq 1 .. k /\ S \subseteq 1 .. k - 1 /\ k \notin 1 .. k - 1
    BY DEF Taken
  <2>2. IsFiniteSet(1 .. k) /\ IsFiniteSet(1 .. k - 1)
    BY <2>1, FS_Interval
  <2>3. QED
    BY <2>1, <2>2, FS_Subset
<1>2. Cardinality(S) \in Nat /\ Cardinality(Taken(tk, path, k)) \in Nat
  BY <1>1, FS_CardinalityType
<1>3. CASE Emits(tk[path[k]].arc)
  <2>1. Taken(tk, path, k) = S \cup {k}
    BY <1>3 DEF Taken
  <2>2. Cardinality(S \cup {k}) = Cardinality(S) + 1
    BY <1>1, FS_AddElement
  <2>3. QED
    BY <1>1, <1>2, <1>3, <2>1, <2>2
<1>4. CASE ~Emits(tk[path[k]].arc)
  <2>1. Taken(tk, path, k) = S
    BY <1>4 DEF Taken
  <2>2. QED
    BY <1>1, <1>2, <1>4, <2>1
<1>5. QED
  BY <1>3, <1>4

\* The depth of a token is the number of emitting arcs that lead to it.
LEMMA DepthIs ==
  ASSUME NEW gr, NEW fs, NEW tk, NEW depth, Real(gr, fs, tk, depth), 0 \notin DOMAIN tk,
         NEW path, NEW t, Leads(tk, path, t)
  PROVE  \A k \in 1 .. Len(path) : depth[path[k]] = Cardinality(Taken(tk, path, k))
<1> DEFINE n == Len(path)
           P == {k \in Nat : k = 0 \/ depth[path[k]] = Cardinality(Taken(tk, path, k))}
<1>1. n \in Nat /\ 0 \in P
  BY DEF Leads
<1>2. Cardinality(Taken(tk, path, 0)) = 0
  <2>1. Taken(tk, path, 0) = {}
    BY DEF Taken
  <2>2. QED
    BY <2>1, FS_EmptySet
<1>3. ASSUME NEW k \in 1 .. n, k - 1 \in P
      PROVE  k \in P
  <2>1. k \in Nat \ {0} /\ path[k] \in DOMAIN tk
    BY <1>1 DEF Leads
  <2>2. Cardinality(Taken(tk, path, k)) =
          Cardinality(Taken(tk, path, k - 1)) + (IF Emits(tk[path[k]].arc) THEN 1 ELSE 0)
    BY <2>1, TakenNext
  <2>3. CASE k = 1
    <3>1. tk[path[1]].arc.ilabel = 0 /\ depth[path[1]] = 0
      BY <2>1, <2>3 DEF Leads, Real
    <3>2. k - 1 = 0 /\ ~Emits(tk[path[k]].arc)
      BY <2>3, <3>1 DEF Emits
    <3>3. QED
      BY <1>2, <2>1, <2>2, <2>3, <3>1, <3>2
  <2>4. CASE k # 1
    <3>1. k \in 2 .. n /\ k - 1 \in 1 .. n /\ k - 1 # 0
      BY <1>1, <2>4
    <3>2. tk[path[k]].prev = path[k - 1] /\ path[k - 1] \in DOMAIN tk
      BY <3>1 DEF Leads
    <3>3. Follows(gr, fs, tk, depth, path[k], path[k - 1])
      BY <2>1, <3>2 DEF Real
    <3>4. depth[path[k]] = depth[path[k - 1]] + (IF Emits(tk[path[k]].arc) THEN 1 ELSE 0)
      BY <3>3 DEF Follows
    <3>5. depth[path[k - 1]] = Cardinality(Taken(tk, path, k - 1))
      BY <1>3, <3>1
    <3>6. QED
      BY <2>1, <2>2, <3>4, <3>5
  <2>5. QED
    BY <2>3, <2>4
<1> HIDE DEF P
<1>4. \A k \in 0 .. n : k \in P
  BY <1>1, <1>3, UpTo
<1>5. \A k \in 1 .. n : k \in 0 .. n /\ k # 0
  BY <1>1
<1>6. QED
  BY <1>4, <1>5 DEF P

LEMMA PathsFollow ==
  ASSUME DecoderInv
  PROVE  TokenPathsAreReal
<1>1. PICK q : Holding(graph, feats, frame, at, toks, token, last, queue, q)
  BY DEF DecoderInv
<1>2. /\ Rooted(token) /\ Real(graph, feats, token, q.depth) /\ Deep(toks, q)
      /\ \A e \in In(q) : Holds(graph, toks, token, e)
      /\ q.here = (IF at = "emitting" THEN frame + 1 ELSE frame)
  BY <1>1 DEF Holding, Store
<1>3. 0 \notin DOMAIN token
  BY <1>2 DEF Rooted
<1>4. Range(H!List(toks)) = Members(q.L)
  BY <1>1, ListsAre
<1>5. ASSUME NEW t \in DOMAIN token
      PROVE  /\ Leads(token, PathTo(t), t)
             /\ \A k \in 1 .. Len(PathTo(t)) :
                  /\ q.depth[PathTo(t)[k]] = Cardinality(Taken(token, PathTo(t), k))
                  /\ Emitted(SubSeq(PathTo(t), 1, k)) = Cardinality(Taken(token, PathTo(t), k))
             /\ Emitted(PathTo(t)) = q.depth[t]
  <2> DEFINE path == PathTo(t)
  <2>1. Leads(token, path, t)
    BY <1>2, PathLeads
  <2> HIDE DEF path
  <2>2. \A k \in 1 .. Len(path) : q.depth[path[k]] = Cardinality(Taken(token, path, k))
    BY <1>2, <1>3, <2>1, DepthIs
  <2>3. ASSUME NEW k \in 1 .. Len(path)
        PROVE  Emitted(SubSeq(path, 1, k)) = Cardinality(Taken(token, path, k))
    <3> DEFINE sub == SubSeq(path, 1, k)
    <3>1. DOMAIN sub = 1 .. k /\ \A j \in 1 .. k : sub[j] = path[j]
      BY <2>1 DEF Leads
    <3> HIDE DEF sub
    <3>2. {i \in DOMAIN sub : Emits(token[sub[i]].arc)} = Taken(token, path, k)
      BY <3>1 DEF Taken
    <3>3. QED
      BY <3>2 DEF Emitted, sub
  <2>4. Emitted(path) = Cardinality(Taken(token, path, Len(path)))
    BY <2>1 DEF Emitted, Taken, Leads
  <2>5. Len(path) \in 1 .. Len(path) /\ path[Len(path)] = t
    BY <2>1 DEF Leads
  <2>6. QED
    BY <2>1, <2>2, <2>3, <2>4, <2>5 DEF path
<1>6. ASSUME NEW t \in DOMAIN token
      PROVE  LET path == PathTo(t)
                 arc(i) == token[path[i]].arc
                 ac(i) == IF Emits(arc(i)) THEN feats[Emitted(SubSeq(path, 1, i))][arc(i).ilabel] ELSE 0
             IN  /\ arc(1).nextstate = graph.start
                 /\ \A i \in 2 .. Len(path) :
                      /\ arc(i) \in Range(Arcs(arc(i - 1).nextstate))
                      /\ token[path[i]].weight = token[path[i - 1]].weight + arc(i).weight + ac(i)
  <2> DEFINE path == PathTo(t)
  <2>1. /\ Leads(token, path, t)
        /\ \A k \in 1 .. Len(path) : q.depth[path[k]] = Emitted(SubSeq(path, 1, k))
    BY <1>5
  <2> HIDE DEF path
  <2>2. token[path[1]].arc.nextstate = graph.start
    <3>1. 1 \in 1 .. Len(path) /\ path[1] \in DOMAIN token /\ token[path[1]].prev = 0
      BY <2>1 DEF Leads
    <3>2. QED
      BY <1>2, <3>1 DEF Real
  <2>3. ASSUME NEW i \in 2 .. Len(path)
        PROVE  LET arc == token[path[i]].arc
               IN  /\ arc \in Range(graph.arcs[token[path[i - 1]].arc.nextstate])
                   /\ token[path[i]].weight = token[path[i - 1]].weight + arc.weight
                        + (IF Emits(arc) THEN feats[Emitted(SubSeq(path, 1, i))][arc.ilabel] ELSE 0)
    <3>1. i \in 1 .. Len(path) /\ i - 1 \in 1 .. Len(path)
      BY <2>1 DEF Leads
    <3>2. path[i] \in DOMAIN token /\ path[i - 1] \in DOMAIN token /\ token[path[i]].prev = path[i - 1]
      BY <2>1, <3>1 DEF Leads
    <3>3. Follows(graph, feats, token, q.depth, path[i], path[i - 1])
      BY <1>2, <1>3, <3>2 DEF Real
    <3>4. q.depth[path[i]] = Emitted(SubSeq(path, 1, i))
      BY <2>1, <3>1
    <3>5. QED
      BY <3>3, <3>4 DEF Follows
  <2>4. QED
    BY <2>2, <2>3 DEF Arcs, path
<1>7. ASSUME NEW e \in Range(H!List(toks))
      PROVE  Emitted(PathTo(Value(toks, e))) = IF at = "emitting" THEN frame + 1 ELSE frame
  <2>1. e \in In(q) /\ e \in Members(q.L)
    BY <1>4 DEF In
  <2>2. toks.elems[e].val \in DOMAIN token /\ q.depth[toks.elems[e].val] = q.here
    BY <1>2, <2>1 DEF Deep, Holds
  <2>3. QED
    BY <1>2, <1>5, <2>2 DEF Value
<1>8. QED
  BY <1>6, <1>7 DEF TokenPathsAreReal

-----------------------------------------------------------------------------
(* The pass *)

\* At its end nothing is walked any more: the best expansion is in the list.
LEMMA BestFollows ==
  DecoderInv => BestExpansionSurvives
<1> SUFFICES ASSUME DecoderInv, at = "emitting", last = 0
             PROVE  Min({Huge} \cup Range(Weights(H!List(toks)))) = best
  BY DEF BestExpansionSurvives, Null, H!Null
<1> DEFINE row == feats[frame + 1]
<1>1. PICK q : /\ Holding(graph, feats, frame, at, toks, token, last, queue, q)
               /\ Pruned(graph, row, toks, token, q, cutoff, best)
  BY DEF DecoderInv
<1>2. IsGraph(graph) /\ IsRow(graph, row)
  BY GraphIs, RowIs DEF DecoderInv, Settings
<1>3. Store(graph, feats, toks, token, q, 0) /\ q.w = 0
  BY <1>1 DEF Holding
<1>4. Shape(toks) /\ Linked(Tails(toks), toks.head, q.L) /\ Linked(Tails(toks), 0, q.W)
  BY <1>3 DEF Store, Table, Lists
<1>5. H!List(toks) = q.L
  BY <1>4, ChainIs DEF H!List
<1>6. Members(q.W) = {}
  <2>1. 0 \notin DOMAIN Tails(toks)
    BY <1>4, ShapeFacts
  <2>2. q.W = <<>>
    BY <1>4, <2>1, LinkedNull
  <2>3. QED
    BY <2>2, LinkedNone
<1> DEFINE w == Weights(q.L)
<1>7. Passed(q, row, q.L, w)
  BY <1>2, <1>3, PassedIs
<1> HIDE DEF row, w
<1>8. /\ w \in [1 .. Len(q.L) -> Int] /\ Huge \in Int
      /\ \A i \in 1 .. Len(q.L) : Cost(toks, token, q.L[i]) = w[i]
  BY <1>7 DEF Passed, Weighed
<1>9. Range(w) \in SUBSET Int /\ \A c : c \in Range(w) <=> \E e \in Members(q.L) : Cost(toks, token, e) = c
  BY <1>8 DEF Range, Members
<1>10. /\ best \in Int /\ best <= Huge /\ Above(toks, token, q, best)
       /\ best < Huge => Reached(toks, token, q, best)
  BY <1>1, <1>6 DEF Pruned
<1> DEFINE all == {Huge} \cup Range(w)
<1>11. best \in all
  <2>1. CASE best < Huge
    BY <1>9, <1>10, <2>1 DEF Reached
  <2>2. CASE ~(best < Huge)
    BY <1>8, <1>10, <2>2
  <2>3. QED
    BY <2>1, <2>2
<1>12. all \in SUBSET Int /\ \A y \in all : best <= y
  BY <1>8, <1>9, <1>10 DEF Above
<1> HIDE DEF all
<1>13. Min(all) = best
  BY <1>11, <1>12, MinUnique
<1>14. QED
  BY <1>5, <1>13 DEF all, w

-----------------------------------------------------------------------------
(* The theorems *)

\* Whatever is inserted, cleared and freed while the old list is walked, every
\* element is in the table, walked or freed, and in one of them only.
THEOREM HElementsAccounted ==
  HSpec => []ElementsAccounted
<1>1. DecoderInv => ElementsAccounted
  BY ElementsFollow
<1>2. QED
  BY <1>1, DecoderInvariant, PTL

\* Find returns the element of the list that has the key, NULL when there is none,
\* and every element holds a token of its state.
THEOREM HTableFinds ==
  HSpec => []TableFinds
<1>1. DecoderInv => TableFinds
  BY FindFollows
<1>2. QED
  BY <1>1, DecoderInvariant, PTL

\* The count of a token is the number of elements and tokens that point to it: none
\* is deleted while in use, none is leaked, none is left in a destroyed decoder.
THEOREM HRefCountsExact ==
  HSpec => []RefCountsExact
<1>1. DecoderInv => RefCountsExact
  BY CountsFollow
<1>2. QED
  BY <1>1, DecoderInvariant, PTL

\* The tokens behind a token are a path of the graph with its weight, as many frames
\* deep as the decoder for those of the list, whatever the pruning.
THEOREM HTokenPathsAreReal ==
  HSpec => []TokenPathsAreReal
<1>1. DecoderInv => TokenPathsAreReal
  BY PathsFollow
<1>2. QED
  BY <1>1, DecoderInvariant, PTL

\* The list is walked while the bound on the next cut-off is tightened: when it is
\* at its end the token of the best expansion is in the new list, whichever cut-off
\* (GetCutoff of either decoder) and whatever beam, delta, maxActive and minActive.
THEOREM HBestExpansionSurvives ==
  HSpec => []BestExpansionSurvives
<1>1. DecoderInv => BestExpansionSurvives
  BY BestFollows
<1>2. QED
  BY <1>1, DecoderInvariant, PTL
=============================================================================
