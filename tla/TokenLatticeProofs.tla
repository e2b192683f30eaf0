------------------------- MODULE TokenLatticeProofs -------------------------
(***************************************************************************)
(* Type correctness and memory safety of the collected lattice, what it    *)
(* counts, what a collection leaves behind, and the paths a traceback      *)
(* follows, for every set of addresses, cost and option.                   *)
(***************************************************************************)
EXTENDS TokenLattice, LatticeLemmas

-----------------------------------------------------------------------------
(* The inductive invariant *)

\* The safety properties need each other: a sweep frees what is not marked, so
\* the marks must not leave used_list_ (BackPointersLive), the tokens must be
\* among them (TokensLive), and a new search must start without tokens.
IInv ==
  /\ TypeOK
  /\ TokensLive
  /\ BackPointersLive
  /\ NoAliasing
  /\ outstanding = Len(usedList)
  /\ mode = "idle" => Held = {}

-----------------------------------------------------------------------------
(* Lemmas on types *)

LEMMA UsedType ==
  ASSUME usedList \in Seq(LS)
  PROVE  Used \subseteq LS /\ IsFiniteSet(Used) /\ DOMAIN usedList = 1 .. Len(usedList)
<1>1. Used \subseteq LS
  BY DEF Used
<1>2. QED
  BY <1>1, LatticeAssumption, FS_Subset DEF LatticeAssumption

LEMMA BackPointersType ==
  ASSUME TypeOK, NEW y \in LS
  PROVE  BackPointers(y) \subseteq LS
  BY DEF TypeOK, Node, LatticeArc, BackPointers

LEMMA BlankType == Blank \in Node
  BY LatticeAssumption DEF LatticeAssumption, Blank, NoArc, Node, LatticeArc

LEMMA WithArcType ==
  ASSUME TypeOK, NEW n \in Node, NEW src \in LS, NEW cost \in Costs, NEW olabel \in OLabels
  PROVE  WithArc(n, src, cost, olabel) \in Node
<1> DEFINE arc  == [prev |-> src, olabel |-> olabel, weight |-> cost - node[src].fwd]
           best == IF cost < n.fwd THEN arc ELSE n.best
           fwd  == IF cost < n.fwd THEN cost ELSE n.fwd
           keep == GenLattice /\ best.prev # NoLS /\ cost < fwd + LatticeBeam
           arcs == n.arcs \cup (IF keep THEN {arc} ELSE {})
<1>1. cost \in Int /\ node[src].fwd \in Int
  BY TokenLatticeAssumption DEF TokenLatticeAssumption, TypeOK, Node
<1>2. arc \in [prev : LS, olabel : OLabels, weight : Int] /\ arc \in LatticeArc
  BY <1>1 DEF LatticeArc
<1>3. best \in LatticeArc /\ fwd \in Int
  BY <1>1, <1>2 DEF Node
<1>4. arcs \in SUBSET [prev : LS, olabel : OLabels, weight : Int]
  <2> HIDE DEF arc, keep
  <2> QED BY <1>2 DEF Node
<1>5. WithArc(n, src, cost, olabel) = [best |-> best, fwd |-> fwd, arcs |-> arcs]
  BY DEF WithArc
<1>6. QED
  <2> HIDE DEF best, fwd, arcs
  <2> QED BY <1>3, <1>4, <1>5 DEF Node

\* An arc adds one back pointer at most, to its source.
LEMMA WithArcBackPointers ==
  ASSUME NEW n, NEW src, NEW cost, NEW olabel, src # NoLS
  PROVE  LET w == WithArc(n, src, cost, olabel)
         IN  /\ {w.best.prev} \ {NoLS} \subseteq ({n.best.prev} \ {NoLS}) \cup {src}
             /\ {a.prev : a \in w.arcs} \subseteq {a.prev : a \in n.arcs} \cup {src}
  BY DEF WithArc

-----------------------------------------------------------------------------
(* Allocation *)

\* NewState extends used_list_ by an address that was in neither list.
LEMMA NewStateInv ==
  ASSUME TypeOK, NoAliasing, outstanding = Len(usedList),
         NEW x \in LS, NEW n \in Node, NewState(x, n)
  PROVE  /\ Used' = Used \cup {x} /\ x \notin Used
         /\ usedList' \in Seq(LS) /\ pool' \subseteq LS
         /\ index' \in [LS -> Int] /\ node' \in [LS -> Node]
         /\ NoAliasing'
         /\ outstanding' = Len(usedList') /\ outstanding' \in Int
<1> DEFINE m == Len(usedList)
<1>1. x \notin Used /\ pool' = pool \ {x} /\ usedList' = Append(usedList, x)
  BY DEF NewState, Allocatable, NoAliasing
<1>2. /\ m \in Nat /\ DOMAIN usedList = 1 .. m
      /\ usedList' \in Seq(LS) /\ Len(usedList') = m + 1 /\ DOMAIN usedList' = 1 .. m + 1
      /\ usedList'[m + 1] = x
      /\ \A i \in 1 .. m : usedList'[i] = usedList[i]
  BY <1>1 DEF TypeOK
<1>3. Used' = Used \cup {x}
  <2>1. \A y : y \in Used <=> \E i \in 1 .. m : usedList[i] = y
    BY <1>2 DEF Used
  <2>2. \A y : y \in Used' <=> \E i \in 1 .. m + 1 : usedList'[i] = y
    BY <1>2 DEF Used
  <2>3. 1 .. m + 1 = (1 .. m) \cup {m + 1}
    BY <1>2
  <2> HIDE DEF m
  <2>4. QED
    BY <1>2, <2>1, <2>2, <2>3
<1>4. NoAliasing'
  <2>1. ASSUME NEW i \in 1 .. m + 1, NEW j \in 1 .. m + 1, usedList'[i] = usedList'[j]
        PROVE  i = j
    <3>1. CASE i \in 1 .. m /\ j \in 1 .. m
      BY <1>2, <2>1, <3>1 DEF NoAliasing
    <3>2. CASE i = m + 1 \/ j = m + 1
      <4>1. \A k \in 1 .. m : usedList'[k] \in Used
        BY <1>2 DEF Used
      <4>2. QED
        BY <1>1, <1>2, <2>1, <3>2, <4>1
    <3>3. QED
      BY <1>2, <3>1, <3>2
  <2>2. Used' \cap pool' = {}
    BY <1>1, <1>3 DEF NoAliasing
  <2>3. QED
    BY <1>2, <2>1, <2>2 DEF NoAliasing
<1>5. index' \in [LS -> Int] /\ node' \in [LS -> Node]
  BY <1>2 DEF NewState, TypeOK
<1>6. QED
  BY <1>1, <1>2, <1>3, <1>4, <1>5 DEF NewState, TypeOK

-----------------------------------------------------------------------------
(* Sweeping *)

\* SortLists loses no state and duplicates none.
LEMMA RearrangementsKeep ==
  ASSUME NEW S, NEW s \in Seq(S), NEW t \in Rearrangements(s),
         \A i, j \in DOMAIN s : s[i] = s[j] => i = j
  PROVE  /\ t \in Seq(S) /\ Len(t) = Len(s)
         /\ {t[i] : i \in DOMAIN t} = {s[i] : i \in DOMAIN s}
         /\ \A i, j \in DOMAIN t : t[i] = t[j] => i = j
<1> DEFINE n == Len(s)
           R == {s[i] : i \in DOMAIN s}
<1>1. n \in Nat /\ DOMAIN s = 1 .. n /\ R \subseteq S
  OBVIOUS
<1>2. t \in [1 .. n -> R] /\ \A x \in R : \E i \in 1 .. n : t[i] = x
  BY <1>1 DEF Rearrangements
<1>3. t \in Seq(S) /\ Len(t) = n /\ DOMAIN t = 1 .. n
  <2> HIDE DEF R, n
  <2> QED BY <1>1, <1>2
<1>4. {t[i] : i \in DOMAIN t} = R
  <2> HIDE DEF R, n
  <2> QED BY <1>2, <1>3
<1>5. IsFiniteSet(1 .. n) /\ Cardinality(1 .. n) = n
  BY <1>1, FS_Interval
<1>6. s \in Bijection(1 .. n, R)
  <2>1. s \in [1 .. n -> R]
    BY <1>1
  <2>2. QED
    BY <1>1, <2>1 DEF Bijection, Injection, Surjection, IsInjective
<1>7. Cardinality(R) = n
  <2> HIDE DEF R, n
  <2> QED BY <1>5, <1>6, FS_Bijection DEF ExistsBijection
<1>8. t \in Surjection(1 .. n, R)
  <2> HIDE DEF R, n
  <2> QED BY <1>2 DEF Surjection
<1>9. t \in Injection(1 .. n, R)
  <2> HIDE DEF R, n
  <2> QED BY <1>5, <1>7, <1>8, FS_SurjSameCardinalityImpliesInj
<1>10. QED
  BY <1>3, <1>4, <1>9 DEF Injection, IsInjective

\* A sweep that keeps M, where M is closed under the back pointers, preserves
\* what concerns the lists, however the survivors are then ordered.
LEMMA SweepInv ==
  ASSUME TypeOK, NoAliasing, BackPointersLive, outstanding = Len(usedList),
         NEW M \in SUBSET LS, \A y \in M : BackPointers(y) \subseteq M,
         SweepStates(M),
         usedList' = Compact(usedList, M) \/ usedList' \in Rearrangements(Compact(usedList, M))
  PROVE  /\ Used' = Used \cap M
         /\ usedList' \in Seq(LS) /\ pool' \subseteq LS
         /\ index' \in [LS -> Int] /\ node' = node
         /\ NoAliasing' /\ BackPointersLive'
         /\ outstanding' = Len(usedList') /\ outstanding' \in Int
<1> DEFINE c == Compact(usedList, M)
<1>1. usedList \in Seq(LS) /\ (\A i, j \in DOMAIN usedList : usedList[i] = usedList[j] => i = j)
  BY DEF TypeOK, NoAliasing
<1>2. /\ c \in Seq(LS)
      /\ {c[k] : k \in DOMAIN c} = Used \cap M
      /\ \A k, l \in DOMAIN c : c[k] = c[l] => k = l
  <2>1. c \in Seq(LS)
    BY <1>1, CompactPositions
  <2>2. {c[k] : k \in DOMAIN c} = Used \cap M
    BY <1>1, CompactRange DEF Used
  <2>3. \A k, l \in DOMAIN c : c[k] = c[l] => k = l
    BY <1>1, CompactInjective
  <2>4. QED
    BY <2>1, <2>2, <2>3
<1>3. Cardinality(Used \ M) \in Nat /\ Len(c) = Len(usedList) - Cardinality(Used \ M)
  BY <1>1, CompactLength DEF Used
<1>4. /\ usedList' \in Seq(LS)
      /\ Len(usedList') = Len(c)
      /\ {usedList'[k] : k \in DOMAIN usedList'} = {c[k] : k \in DOMAIN c}
      /\ \A k, l \in DOMAIN usedList' : usedList'[k] = usedList'[l] => k = l
  <2> HIDE DEF c
  <2>1. CASE usedList' = c
    BY <1>2, <2>1
  <2>2. CASE usedList' \in Rearrangements(c)
    BY <1>2, <2>2, RearrangementsKeep
  <2>3. QED
    BY <2>1, <2>2 DEF c
<1>5. Used' = Used \cap M
  BY <1>2, <1>4 DEF Used
<1>6. Used \subseteq LS
  BY <1>1, UsedType
<1>7. pool' \subseteq LS /\ Used' \cap pool' = {}
  BY <1>5, <1>6 DEF SweepStates, TypeOK, NoAliasing
<1>8. NoAliasing'
  BY <1>4, <1>7 DEF NoAliasing
<1>9. node' = node
  BY DEF SweepStates
<1>10. BackPointersLive'
  <2>1. \A x : BackPointers(x)' = BackPointers(x)
    BY <1>9 DEF BackPointers
  <2>2. QED
    BY <1>5, <2>1 DEF BackPointersLive
<1>11. index' \in [LS -> Int]
  <2> DEFINE at(x) == CHOOSE i \in DOMAIN usedList : usedList[i] = x
             new(x) == IF x \notin Used THEN index[x]
                       ELSE IF x \notin M THEN -1
                       ELSE Rank(usedList, M, at(x)) - 1
  <2>1. ASSUME NEW x \in Used PROVE Rank(usedList, M, at(x)) \in Nat
    <3>1. \E i \in DOMAIN usedList : usedList[i] = x
      BY DEF Used
    <3>2. at(x) \in DOMAIN usedList
      BY <3>1
    <3>3. at(x) \in Int
      BY <1>1, <3>2
    <3>4. QED
      BY <3>3, RankNat
  <2>2. ASSUME NEW x \in LS PROVE new(x) \in Int
    <3> HIDE DEF at
    <3> QED BY <2>1 DEF TypeOK
  <2>3. index' = [x \in LS |-> new(x)]
    BY DEF SweepStates
  <2>4. QED
    <3> HIDE DEF new
    <3> QED BY <2>2, <2>3
<1>12. outstanding' = Len(usedList') /\ outstanding' \in Int
  <2> HIDE DEF c
  <2> QED BY <1>3, <1>4 DEF SweepStates, TypeOK
<1>13. QED
  BY <1>4, <1>5, <1>7, <1>8, <1>9, <1>10, <1>11, <1>12

\* What is reachable from live states is live, closed, and holds the roots.
LEMMA MarkInv ==
  ASSUME TypeOK, BackPointersLive, NEW roots \in SUBSET Used
  PROVE  /\ Reachable(roots) \in SUBSET LS
         /\ roots \subseteq Reachable(roots)
         /\ Reachable(roots) \subseteq Used
         /\ \A y \in Reachable(roots) : BackPointers(y) \subseteq Reachable(roots)
<1>1. Used \subseteq LS
  BY UsedType DEF TypeOK
<1>2. \A y \in Used : BackPointers(y) \subseteq Used
  BY DEF BackPointersLive
<1>3. QED
  BY <1>1, <1>2, ReachableClosed

-----------------------------------------------------------------------------
(* The invariant is inductive *)

LEMMA InitIInv == Init => IInv
<1> SUFFICES ASSUME Init PROVE IInv
  OBVIOUS
<1>1. TypeOK
  BY BlankType DEF Init, TypeOK
<1>2. Used = {} /\ Held = {}
  BY DEF Init, Used, Held
<1>3. NoAliasing
  BY <1>2 DEF Init, NoAliasing
<1>4. outstanding = Len(usedList)
  BY DEF Init
<1>5. QED
  BY <1>1, <1>2, <1>3, <1>4 DEF IInv, TokensLive, BackPointersLive

LEMMA BeginDecodeIInv ==
  ASSUME IInv, NEW x \in LS, BeginDecode(x)
  PROVE  IInv'
<1> DEFINE n == [Blank EXCEPT !.fwd = 0]
<1>1. n \in Node
  BY BlankType DEF Node
<1>2. NewState(x, n)
  BY DEF BeginDecode, CreateStartState
<1> HIDE DEF n
<1>3. /\ Used' = Used \cup {x} /\ x \notin Used
      /\ usedList' \in Seq(LS) /\ pool' \subseteq LS
      /\ index' \in [LS -> Int] /\ node' \in [LS -> Node]
      /\ NoAliasing' /\ outstanding' = Len(usedList') /\ outstanding' \in Int
  BY <1>1, <1>2, NewStateInv DEF IInv
<1>4. stateHeld' = {x} /\ arcHeld' = {} /\ mode' = "search"
  BY DEF BeginDecode, IInv, Held
<1>5. TypeOK' /\ TokensLive'
  BY <1>3, <1>4 DEF TypeOK, TokensLive, Held
<1>6. BackPointersLive'
  <2>1. \A y \in Used : BackPointers(y)' = BackPointers(y)
    BY <1>2, <1>3, UsedType DEF NewState, BackPointers, IInv, TypeOK
  <2>2. BackPointers(x)' = {}
    BY <1>2 DEF n, NewState, BackPointers, Blank, NoArc, IInv, TypeOK
  <2>3. QED
    BY <1>3, <2>1, <2>2 DEF IInv, BackPointersLive
<1>7. QED
  BY <1>3, <1>4, <1>5, <1>6 DEF IInv

LEMMA MoveTokensIInv ==
  ASSUME IInv, MoveTokens
  PROVE  IInv'
<1>1. UNCHANGED <<usedList, pool, index, node, outstanding, mode>>
  BY DEF MoveTokens
<1>2. Held' \subseteq Held /\ mode' = "search"
  BY DEF MoveTokens, Held
<1>3. TypeOK' /\ TokensLive'
  BY <1>1, <1>2 DEF IInv, TypeOK, TokensLive, Held, Used, MoveTokens
<1>4. BackPointersLive' /\ NoAliasing' /\ outstanding' = Len(usedList')
  <2>1. Used' = Used /\ \A y : BackPointers(y)' = BackPointers(y)
    BY <1>1 DEF Used, BackPointers
  <2>2. BackPointersLive'
    BY <2>1 DEF IInv, BackPointersLive
  <2>3. NoAliasing' /\ outstanding' = Len(usedList')
    BY <1>1, <2>1 DEF IInv, NoAliasing
  <2>4. QED
    BY <2>2, <2>3
<1>5. QED
  BY <1>2, <1>3, <1>4 DEF IInv

LEMMA EnterInactiveIInv ==
  ASSUME IInv, NEW src \in LS, NEW x \in LS, NEW cost \in Costs, NEW olabel \in OLabels,
         EnterInactive(src, x, cost, olabel)
  PROVE  IInv'
<1> DEFINE n == WithArc(Blank, src, cost, olabel)
<1>1. n \in Node
  BY BlankType, WithArcType DEF IInv
<1>2. NewState(x, n)
  BY DEF EnterInactive, CombineNew
<1>3. {n.best.prev} \ {NoLS} \subseteq {src} /\ {a.prev : a \in n.arcs} \subseteq {src}
  <2>1. src # NoLS
    BY LatticeAssumption DEF LatticeAssumption
  <2>2. Blank.best.prev = NoLS /\ Blank.arcs = {}
    BY DEF Blank, NoArc
  <2>3. QED
    BY <2>1, <2>2, WithArcBackPointers
<1> HIDE DEF n
<1>4. /\ Used' = Used \cup {x} /\ x \notin Used
      /\ usedList' \in Seq(LS) /\ pool' \subseteq LS
      /\ index' \in [LS -> Int] /\ node' \in [LS -> Node]
      /\ NoAliasing' /\ outstanding' = Len(usedList') /\ outstanding' \in Int
  BY <1>1, <1>2, NewStateInv DEF IInv
<1>5. stateHeld' = stateHeld \cup {x} /\ arcHeld' = arcHeld /\ mode' = "search" /\ src \in Used
  BY DEF EnterInactive, IInv, TokensLive
<1>6. TypeOK' /\ TokensLive'
  BY <1>4, <1>5 DEF IInv, TypeOK, TokensLive, Held, EnterInactive
<1>7. BackPointersLive'
  <2>1. \A y \in Used : BackPointers(y)' = BackPointers(y)
    BY <1>2, <1>4, UsedType DEF NewState, BackPointers, IInv, TypeOK
  <2>2. BackPointers(x)' \subseteq {src}
    BY <1>2, <1>3 DEF NewState, BackPointers, IInv, TypeOK
  <2>3. QED
    BY <1>4, <1>5, <2>1, <2>2 DEF IInv, BackPointersLive
<1>8. QED
  BY <1>4, <1>5, <1>6, <1>7 DEF IInv

LEMMA EnterActiveIInv ==
  ASSUME IInv, NEW src \in LS, NEW dest \in LS, NEW cost \in Costs, NEW olabel \in OLabels,
         EnterActive(src, dest, cost, olabel)
  PROVE  IInv'
<1> DEFINE n == WithArc(node[dest], src, cost, olabel)
<1>1. node[dest] \in Node /\ n \in Node
  BY WithArcType DEF IInv, TypeOK
<1>2. node' = [node EXCEPT ![dest] = n]
  BY DEF EnterActive, CombineActive
<1>3. /\ {n.best.prev} \ {NoLS} \subseteq BackPointers(dest) \cup {src}
      /\ {a.prev : a \in n.arcs} \subseteq BackPointers(dest) \cup {src}
  <2>1. src # NoLS
    BY LatticeAssumption DEF LatticeAssumption
  <2>2. QED
    BY <2>1, WithArcBackPointers DEF BackPointers
<1> HIDE DEF n
<1>4. /\ UNCHANGED <<usedList, pool, index, outstanding, stateHeld, arcHeld, mode>>
      /\ mode = "search" /\ src \in Used
  BY DEF EnterActive, CombineActive, IInv, TokensLive
<1>5. Used' = Used /\ Held' = Held
  BY <1>4 DEF Used, Held
<1>6. TypeOK' /\ TokensLive' /\ NoAliasing'
  BY <1>1, <1>2, <1>4, <1>5 DEF IInv, TypeOK, TokensLive, NoAliasing
<1>7. BackPointersLive'
  <2>1. \A y \in Used : y # dest => BackPointers(y)' = BackPointers(y)
    BY <1>2, UsedType DEF BackPointers, IInv, TypeOK
  <2>2. BackPointers(dest)' \subseteq BackPointers(dest) \cup {src}
    BY <1>2, <1>3 DEF BackPointers, IInv, TypeOK
  <2>3. QED
    BY <1>4, <1>5, <2>1, <2>2 DEF IInv, BackPointersLive
<1>8. QED
  BY <1>4, <1>6, <1>7 DEF IInv

LEMMA GcIInv ==
  ASSUME IInv, Gc
  PROVE  IInv'
<1> DEFINE M == Reachable(arcHeld)
<1>1. stateHeld = {} /\ arcHeld \in SUBSET Used /\ UNCHANGED <<stateHeld, arcHeld>>
  BY DEF Gc, IInv, TokensLive, Held
<1>2. /\ M \in SUBSET LS /\ arcHeld \subseteq M /\ M \subseteq Used
      /\ \A y \in M : BackPointers(y) \subseteq M
  BY <1>1, MarkInv DEF IInv
<1>3. /\ SweepStates(M)
      /\ usedList' = Compact(usedList, M) \/ usedList' \in Rearrangements(Compact(usedList, M))
      /\ mode' \in {"search", "fatal"}
  BY DEF Gc
<1> HIDE DEF M
<1>4. /\ Used' = Used \cap M
      /\ usedList' \in Seq(LS) /\ pool' \subseteq LS
      /\ index' \in [LS -> Int] /\ node' = node
      /\ NoAliasing' /\ BackPointersLive'
      /\ outstanding' = Len(usedList') /\ outstanding' \in Int
  BY <1>2, <1>3, SweepInv DEF IInv
<1>5. TypeOK' /\ TokensLive'
  BY <1>1, <1>2, <1>3, <1>4 DEF IInv, TypeOK, TokensLive, Held
<1>6. QED
  BY <1>3, <1>4, <1>5 DEF IInv

LEMMA GetLatticeIInv ==
  ASSUME IInv, NEW s \in LS, GetLattice(s)
  PROVE  IInv'
<1> DEFINE M == Reachable({s})
<1>1. {s} \in SUBSET Used
  BY DEF GetLattice, IInv, TokensLive, Held
<1>2. /\ M \in SUBSET LS
      /\ \A y \in M : BackPointers(y) \subseteq M
  BY <1>1, MarkInv DEF IInv
<1>3. /\ SweepStates(M) /\ usedList' = Compact(usedList, M)
      /\ mode' = "finished" /\ UNCHANGED <<stateHeld, arcHeld>>
  BY DEF GetLattice, Sweep
<1> HIDE DEF M
<1>4. /\ usedList' \in Seq(LS) /\ pool' \subseteq LS
      /\ index' \in [LS -> Int] /\ node' = node
      /\ NoAliasing' /\ BackPointersLive'
      /\ outstanding' = Len(usedList') /\ outstanding' \in Int
  BY <1>2, <1>3, SweepInv DEF IInv
<1>5. stateHeld' \subseteq LS /\ arcHeld' \subseteq LS
  BY <1>3 DEF IInv, TypeOK
<1>6. TypeOK' /\ TokensLive'
  BY <1>3, <1>4, <1>5 DEF IInv, TypeOK, TokensLive
<1>7. QED
  BY <1>3, <1>4, <1>6 DEF IInv

LEMMA CleanUpIInv ==
  ASSUME IInv, CleanUp
  PROVE  IInv'
<1>1. /\ SweepStates({}) /\ usedList' = Compact(usedList, {})
      /\ mode' \in {"idle", "fatal"} /\ stateHeld' = {} /\ arcHeld' = {}
  BY DEF CleanUp, Sweep
<1>2. {} \in SUBSET LS /\ \A y \in {} : BackPointers(y) \subseteq {}
  OBVIOUS
<1>3. /\ usedList' \in Seq(LS) /\ pool' \subseteq LS
      /\ index' \in [LS -> Int] /\ node' = node
      /\ NoAliasing' /\ BackPointersLive'
      /\ outstanding' = Len(usedList') /\ outstanding' \in Int
  BY <1>1, <1>2, SweepInv DEF IInv
<1>4. TypeOK' /\ TokensLive'
  BY <1>1, <1>3 DEF IInv, TypeOK, TokensLive, Held
<1>5. QED
  BY <1>1, <1>3, <1>4 DEF IInv, Held

LEMMA NextIInv == IInv /\ [Next]_vars => IInv'
<1> SUFFICES ASSUME IInv, [Next]_vars PROVE IInv'
  OBVIOUS
<1>1. CASE UNCHANGED vars
  <2>1. Used' = Used /\ Held' = Held /\ \A x : BackPointers(x)' = BackPointers(x)
    BY <1>1 DEF vars, Used, Held, BackPointers
  <2>2. TypeOK' /\ TokensLive' /\ BackPointersLive' /\ NoAliasing'
    BY <1>1, <2>1 DEF vars, IInv, TypeOK, TokensLive, BackPointersLive, NoAliasing
  <2>3. QED
    BY <1>1, <2>1, <2>2 DEF vars, IInv
<1>2. CASE Next
  BY <1>2, BeginDecodeIInv, MoveTokensIInv, EnterInactiveIInv, EnterActiveIInv, GcIInv,
     GetLatticeIInv, CleanUpIInv DEF Next
<1>3. QED
  BY <1>1, <1>2

-----------------------------------------------------------------------------
(* Theorems *)

THEOREM SpecIInv == Spec => []IInv
  BY InitIInv, NextIInv, PTL DEF Spec

\* The variables of the lattice keep the types lattice.h declares.
THEOREM SpecTypeOK == Spec => []TypeOK
<1>1. IInv => TypeOK
  BY DEF IInv
<1>2. QED
  BY <1>1, SpecIInv, PTL

\* No token of the search ever points to a lattice state a collection freed.
THEOREM SpecTokensLive == Spec => []TokensLive
<1>1. IInv => TokensLive
  BY DEF IInv
<1>2. QED
  BY <1>1, SpecIInv, PTL

\* No back pointer of a live lattice state leads into freed memory.
THEOREM SpecBackPointersLive == Spec => []BackPointersLive
<1>1. IInv => BackPointersLive
  BY DEF IInv
<1>2. QED
  BY <1>1, SpecIInv, PTL

\* No object is handed out while in use, and none is freed twice.
THEOREM SpecNoAliasing == Spec => []NoAliasing
<1>1. IInv => NoAliasing
  BY DEF IInv
<1>2. QED
  BY <1>1, SpecIInv, PTL

-----------------------------------------------------------------------------
(* Indexes and sweeps *)

\* A sweep gives each survivor its position in the compacted list.
LEMMA SweepIndexes ==
  ASSUME TypeOK, NoAliasing, NEW M \in SUBSET LS, SweepStates(M)
  PROVE  LET c == Compact(usedList, M)
         IN  \A k \in DOMAIN c : c[k] \in Used \cap M /\ index'[c[k]] = k - 1
<1> DEFINE c == Compact(usedList, M)
           n == Len(usedList)
<1>1. usedList \in Seq(LS) /\ n \in Nat /\ DOMAIN usedList = 1 .. n
  BY DEF TypeOK
<1>2. DOMAIN c = 1 .. Rank(usedList, M, n)
  BY <1>1, CompactPositions
<1> SUFFICES ASSUME NEW k \in DOMAIN c
             PROVE  c[k] \in Used \cap M /\ index'[c[k]] = k - 1
  OBVIOUS
<1>3. PICK i \in 1 .. n : usedList[i] \in M /\ Rank(usedList, M, i) = k /\ c[k] = usedList[i]
  BY <1>1, <1>2, CompactPositions
<1>4. c[k] \in Used \cap M /\ c[k] \in LS
  BY <1>1, <1>3 DEF Used
<1>5. (CHOOSE j \in DOMAIN usedList : usedList[j] = c[k]) = i
  BY <1>1, <1>3 DEF NoAliasing
<1>6. index'[c[k]] = Rank(usedList, M, CHOOSE j \in DOMAIN usedList : usedList[j] = c[k]) - 1
  <2> HIDE DEF c
  <2> QED BY <1>4 DEF SweepStates
<1>7. QED
  <2> HIDE DEF c
  <2> QED BY <1>3, <1>4, <1>5, <1>6

\* After a sweep the indexes are positions, however the survivors are ordered.
LEMMA SweepNumbers ==
  ASSUME TypeOK, NoAliasing, BackPointersLive, outstanding = Len(usedList),
         NEW M \in SUBSET LS, \A y \in M : BackPointers(y) \subseteq M,
         SweepStates(M),
         usedList' = Compact(usedList, M) \/ usedList' \in Rearrangements(Compact(usedList, M))
  PROVE  IndexesArePositions'
<1> DEFINE c == Compact(usedList, M)
<1>1. usedList \in Seq(LS) /\ (\A i, j \in DOMAIN usedList : usedList[i] = usedList[j] => i = j)
  BY DEF TypeOK, NoAliasing
<1>2. Used' = Used \cap M /\ outstanding' = Len(usedList')
  BY SweepInv
<1>3. {c[k] : k \in DOMAIN c} = Used \cap M
  BY <1>1, CompactRange DEF Used
<1>4. \A k \in DOMAIN c : index'[c[k]] = k - 1
  BY SweepIndexes
<1>5. Len(usedList') = Len(c) /\ Len(c) \in Nat /\ DOMAIN c = 1 .. Len(c)
  <2>1. Cardinality(Used \ M) \in Nat /\ Len(c) = Len(usedList) - Cardinality(Used \ M)
    BY <1>1, CompactLength DEF Used
  <2>2. c \in Seq(LS)
    BY <1>1, CompactPositions
  <2>3. QED
    <3> HIDE DEF c
    <3> QED BY <1>2, <2>1, <2>2 DEF SweepStates
<1>6. {index'[x] : x \in Used'} = 0 .. Len(c) - 1
  <2> HIDE DEF c
  <2>1. ASSUME NEW x \in Used' PROVE index'[x] \in 0 .. Len(c) - 1
    <3>1. PICK k \in 1 .. Len(c) : c[k] = x
      BY <1>2, <1>3, <1>5
    <3>2. QED
      BY <1>4, <1>5, <3>1
  <2>2. ASSUME NEW p \in 0 .. Len(c) - 1 PROVE \E x \in Used' : index'[x] = p
    <3>1. p + 1 \in DOMAIN c /\ (p + 1) - 1 = p
      BY <1>5
    <3>2. c[p + 1] \in Used' /\ index'[c[p + 1]] = p
      BY <1>2, <1>3, <1>4, <3>1
    <3>3. QED
      BY <3>2
  <2>3. QED
    BY <2>1, <2>2
<1>7. QED
  <2> HIDE DEF c
  <2> QED BY <1>5, <1>6 DEF IndexesArePositions

-----------------------------------------------------------------------------
(* IndexesArePositions *)

\* A new state is numbered after all others.
LEMMA NewStateNumbers ==
  ASSUME IInv, IndexesArePositions, NEW x \in LS, NEW n \in Node, NewState(x, n)
  PROVE  IndexesArePositions'
<1> DEFINE m == Len(usedList)
<1>1. Used' = Used \cup {x} /\ x \notin Used
  BY NewStateInv DEF IInv
<1>2. m \in Nat /\ Len(usedList') = m + 1
  BY DEF NewState, IInv, TypeOK
<1>3. index'[x] = m /\ \A y \in Used : index'[y] = index[y]
  BY <1>1, UsedType DEF NewState, IInv, TypeOK
<1>4. 0 .. (m + 1) - 1 = (0 .. m - 1) \cup {m}
  BY <1>2
<1>5. {index'[y] : y \in Used'} = {index[y] : y \in Used} \cup {m}
  <2> HIDE DEF m
  <2> QED BY <1>1, <1>3
<1>6. QED
  BY <1>2, <1>4, <1>5 DEF IndexesArePositions

LEMMA NextNumbers == IInv /\ IndexesArePositions /\ [Next]_vars => IndexesArePositions'
<1> SUFFICES ASSUME IInv, IndexesArePositions, [Next]_vars PROVE IndexesArePositions'
  OBVIOUS
<1>1. ASSUME NEW x \in LS, BeginDecode(x) PROVE IndexesArePositions'
  <2>1. [Blank EXCEPT !.fwd = 0] \in Node
    BY BlankType DEF Node
  <2>2. QED
    BY <1>1, <2>1, NewStateNumbers DEF BeginDecode, CreateStartState
<1>2. ASSUME NEW src \in LS, NEW x \in LS, NEW cost \in Costs, NEW olabel \in OLabels,
             EnterInactive(src, x, cost, olabel)
      PROVE  IndexesArePositions'
  <2>1. WithArc(Blank, src, cost, olabel) \in Node
    BY BlankType, WithArcType DEF IInv
  <2>2. QED
    BY <1>2, <2>1, NewStateNumbers DEF EnterInactive, CombineNew
<1>3. CASE Gc
  <2>1. arcHeld \in SUBSET Used
    BY <1>3 DEF Gc, IInv, TokensLive, Held
  <2>2. Reachable(arcHeld) \in SUBSET LS
        /\ \A y \in Reachable(arcHeld) : BackPointers(y) \subseteq Reachable(arcHeld)
    BY <2>1, MarkInv DEF IInv
  <2>3. SweepStates(Reachable(arcHeld))
        /\ (\/ usedList' = Compact(usedList, Reachable(arcHeld))
            \/ usedList' \in Rearrangements(Compact(usedList, Reachable(arcHeld))))
    BY <1>3 DEF Gc
  <2>4. QED
    BY <2>2, <2>3, SweepNumbers DEF IInv
<1>4. ASSUME NEW s \in LS, GetLattice(s) PROVE IndexesArePositions'
  <2>1. {s} \in SUBSET Used
    BY <1>4 DEF GetLattice, IInv, TokensLive, Held
  <2>2. Reachable({s}) \in SUBSET LS
        /\ \A y \in Reachable({s}) : BackPointers(y) \subseteq Reachable({s})
    BY <2>1, MarkInv DEF IInv
  <2>3. QED
    BY <1>4, <2>2, SweepNumbers DEF IInv, GetLattice, Sweep
<1>5. CASE CleanUp
  <2>1. {} \in SUBSET LS /\ \A y \in {} : BackPointers(y) \subseteq {}
    OBVIOUS
  <2>2. QED
    BY <1>5, <2>1, SweepNumbers DEF IInv, CleanUp, Sweep
<1>6. ASSUME UNCHANGED <<usedList, index>> PROVE IndexesArePositions'
  BY <1>6 DEF IndexesArePositions, Used
<1>7. ASSUME MoveTokens \/ UNCHANGED vars
             \/ \E src, dest \in LS, cost \in Costs, olabel \in OLabels :
                  EnterActive(src, dest, cost, olabel)
      PROVE  UNCHANGED <<usedList, index>>
  BY <1>7 DEF MoveTokens, vars, EnterActive, CombineActive
<1>8. QED
  BY <1>1, <1>2, <1>3, <1>4, <1>5, <1>6, <1>7 DEF Next

\* The numbers GetLattice gives the FST's states are 0 .. n-1, each used once:
\* GcSweep renumbers what it keeps, and NewState continues from there.
THEOREM SpecIndexesArePositions == Spec => []IndexesArePositions
<1>1. Init => IndexesArePositions
  <2> SUFFICES ASSUME Init PROVE IndexesArePositions
    OBVIOUS
  <2>1. Used = {} /\ Len(usedList) = 0
    BY DEF Init, Used
  <2>2. QED
    BY <2>1 DEF IndexesArePositions
<1>2. QED
  BY <1>1, NextNumbers, SpecIInv, PTL DEF Spec

-----------------------------------------------------------------------------
(* AllocationsBalance *)

\* GcCheck finds every survivor where its index says, and the states of the arcs'
\* tokens among them, so it never aborts.
LEMMA GcKeepsRunning ==
  ASSUME IInv, Gc, GcChecks => UsePool
  PROVE  mode' = "search"
<1> DEFINE M == Reachable(arcHeld)
           c == Compact(usedList, M)
<1>1. arcHeld \in SUBSET Used
  BY DEF Gc, IInv, TokensLive, Held
<1>2. M \in SUBSET LS
  BY <1>1, MarkInv DEF IInv
<1>3. SweepStates(M)
  BY DEF Gc
<1>4. \A k \in DOMAIN c : index'[c[k]] = k - 1
  <2> HIDE DEF M
  <2> QED BY <1>2, <1>3, SweepIndexes DEF IInv
<1>5. \A x \in arcHeld : \E k \in DOMAIN c : c[k] = x
  <2>1. {c[k] : k \in DOMAIN c} = Used \cap M
    <3> HIDE DEF M
    <3>1. usedList \in Seq(LS)
      BY DEF IInv, TypeOK
    <3>2. QED
      BY <3>1, CompactRange DEF Used
  <2>2. arcHeld \subseteq Used \cap M
    BY <1>1, MarkInv DEF IInv
  <2>3. QED
    <3> HIDE DEF c, M
    <3> QED BY <2>1, <2>2
<1>6. GcChecks => ~CheckAborts(c) /\ ~TokenOffList(c)
  <2> HIDE DEF c
  <2> QED BY <1>4, <1>5 DEF CheckAborts, TokenOffList
<1>7. QED
  BY <1>6 DEF Gc

\* Lattice::Clear frees every state, so its count comes out even.
LEMMA CleanUpEven ==
  ASSUME IInv, CleanUp
  PROVE  mode' = "idle"
<1>1. SweepStates({}) /\ usedList' = Compact(usedList, {})
  BY DEF CleanUp, Sweep
<1>2. {} \in SUBSET LS /\ \A y \in {} : BackPointers(y) \subseteq {}
  OBVIOUS
<1>3. Used' = {} /\ usedList' \in Seq(LS) /\ outstanding' = Len(usedList')
  BY <1>1, <1>2, SweepInv DEF IInv
<1>4. Len(usedList') = 0
  BY <1>3 DEF Used
<1>5. QED
  BY <1>3, <1>4 DEF CleanUp

LEMMA NextBalance == IInv /\ AllocationsBalance /\ [Next]_vars => AllocationsBalance'
<1> SUFFICES ASSUME IInv, AllocationsBalance, [Next]_vars, GcChecks => UsePool
             PROVE  mode' # "fatal"
  BY NextIInv DEF IInv, AllocationsBalance
<1>1. mode # "fatal"
  BY DEF AllocationsBalance
<1>2. CASE Gc
  BY <1>2, GcKeepsRunning
<1>3. CASE CleanUp
  BY <1>3, CleanUpEven
<1>4. CASE ~Gc /\ ~CleanUp
  BY <1>1, <1>4 DEF Next, vars, BeginDecode, MoveTokens, EnterInactive, EnterActive, GetLattice
<1>5. QED
  BY <1>2, <1>3, <1>4

\* The allocation counts agree with used_list_, and neither Lattice::Clear nor,
\* with the pool on, GcCheck ever ends the process.
THEOREM SpecAllocationsBalance == Spec => []AllocationsBalance
<1>1. Init => AllocationsBalance
  BY DEF Init, AllocationsBalance
<1>2. QED
  BY <1>1, NextBalance, SpecIInv, PTL DEF Spec

-----------------------------------------------------------------------------
(* GcCollects *)

\* Whatever is marked is a root or is pointed to by something marked.
LEMMA MarkedHasReason ==
  ASSUME BackPointersLive, NEW roots \in SUBSET Used
  PROVE  \A x \in Reachable(roots) :
            x \in roots \/ \E y \in Reachable(roots) : x \in BackPointers(y)
<1> DEFINE R == Reachable(roots)
           C == {x \in R : x \in roots \/ \E y \in R : x \in BackPointers(y)}
<1>1. R \subseteq Used /\ roots \subseteq R /\ \A y \in R : BackPointers(y) \subseteq R
  BY ReachableClosed DEF BackPointersLive
<1>2. C \in SUBSET Used /\ roots \subseteq C
  BY <1>1
<1>3. \A y \in C : BackPointers(y) \subseteq C
  BY <1>1
<1>4. R \subseteq C
  <2> HIDE DEF C
  <2> QED BY <1>2, <1>3, ReachableLeast
<1>5. QED
  BY <1>4

\* A collection is complete: nothing survives that no arc's token descends from.
THEOREM SpecGcCollects == Spec => GcCollects
<1>1. ASSUME IInv, Gc
      PROVE  \A x \in Used' : x \in arcHeld \/ \E y \in Used' : x \in BackPointers(y)
  <2> DEFINE M == Reachable(arcHeld)
  <2>1. arcHeld \in SUBSET Used
    BY <1>1 DEF Gc, IInv, TokensLive, Held
  <2>2. M \in SUBSET LS /\ M \subseteq Used /\ \A y \in M : BackPointers(y) \subseteq M
    BY <1>1, <2>1, MarkInv DEF IInv
  <2>3. SweepStates(M)
        /\ (usedList' = Compact(usedList, M) \/ usedList' \in Rearrangements(Compact(usedList, M)))
    BY <1>1 DEF Gc
  <2>4. \A x \in M : x \in arcHeld \/ \E y \in M : x \in BackPointers(y)
    BY <1>1, <2>1, MarkedHasReason DEF IInv
  <2> HIDE DEF M
  <2>5. Used' = Used \cap M
    BY <1>1, <2>2, <2>3, SweepInv DEF IInv
  <2>6. QED
    BY <2>2, <2>4, <2>5
<1>2. IInv => [Gc => \A x \in Used' : x \in arcHeld \/ \E y \in Used' : x \in BackPointers(y)]_vars
  BY <1>1
<1>3. QED
  BY <1>2, SpecIInv, PTL DEF GcCollects


-----------------------------------------------------------------------------
(* The paths: what a traceback through the lattice relies on. Back pointers have no *)
(* cycles, there is a single start, best arcs are lattice arcs and justify the costs. *)

\* Every set of live states has a member that points to no other of the set:
\* State::GcMark's recursion ends, and so does every traceback.
Acyclic == \A T \in SUBSET Used : T # {} => \E x \in T : BackPointers(x) \cap T = {}

\* That the only start stays the only one takes Acyclic: an arc into it would
\* close a cycle, since whatever the arc leaves descends from it.
PathInv ==
  /\ IInv
  /\ Acyclic
  /\ mode = "idle" => Used = {}
  /\ OneStart
  /\ ForwardsCostJustified
  /\ BestArcInLattice

\* A set of live states closed under the back pointers contains a start.
LEMMA ClosedHasStart ==
  ASSUME Acyclic, NEW R \in SUBSET Used, R # {}, \A y \in R : BackPointers(y) \subseteq R
  PROVE  \E x \in R : IsStart(x)
<1>1. PICK x \in R : BackPointers(x) \cap R = {}
  BY DEF Acyclic
<1>2. BackPointers(x) = {}
  BY <1>1
<1>3. IsStart(x)
  BY <1>2 DEF BackPointers, IsStart
<1>4. QED
  BY <1>3

\* What an arc leaves descends from the start.
LEMMA StartReached ==
  ASSUME PathInv, NEW roots \in SUBSET Used, roots # {}
  PROVE  \E x \in Reachable(roots) : IsStart(x)
<1>1. /\ Reachable(roots) \in SUBSET Used /\ Reachable(roots) # {}
      /\ \A y \in Reachable(roots) : BackPointers(y) \subseteq Reachable(roots)
  BY MarkInv DEF PathInv, IInv
<1>2. QED
  BY <1>1, ClosedHasStart DEF PathInv

-----------------------------------------------------------------------------
(* A new state *)

\* A fresh object that points to live states only.
LEMMA NewStatePaths ==
  ASSUME PathInv, NEW x \in LS, NEW n \in Node, NewState(x, n),
         ({n.best.prev} \ {NoLS}) \cup {a.prev : a \in n.arcs} \subseteq Used
  PROVE  /\ Used' = Used \cup {x} /\ x \notin Used
         /\ node'[x] = n /\ \A y \in Used : node'[y] = node[y]
         /\ Acyclic'
<1>1. Used' = Used \cup {x} /\ x \notin Used
  BY NewStateInv DEF PathInv, IInv
<1>2. node'[x] = n /\ \A y \in Used : node'[y] = node[y]
  BY <1>1, UsedType DEF NewState, PathInv, IInv, TypeOK
<1>3. BackPointers(x)' \subseteq Used /\ \A y \in Used : BackPointers(y)' = BackPointers(y)
  BY <1>2 DEF BackPointers
<1>4. ASSUME NEW T \in SUBSET (Used \cup {x}), T # {}
      PROVE  \E y \in T : BackPointers(y)' \cap T = {}
  <2>1. CASE T = {x}
    BY <1>1, <1>3, <2>1
  <2>2. CASE T # {x}
    <3>1. T \ {x} \in SUBSET Used /\ T \ {x} # {}
      BY <1>4, <2>2
    <3>2. PICK y \in T \ {x} : BackPointers(y) \cap (T \ {x}) = {}
      BY <3>1 DEF PathInv, Acyclic
    <3>3. y \in Used /\ BackPointers(y) \subseteq Used
      BY <3>1, <3>2 DEF PathInv, IInv, BackPointersLive
    <3>4. BackPointers(y)' \cap T = {}
      BY <1>1, <1>3, <3>2, <3>3
    <3>5. QED
      BY <3>2, <3>4
  <2>3. QED
    BY <2>1, <2>2
<1>5. Acyclic'
  BY <1>1, <1>4 DEF Acyclic
<1>6. QED
  BY <1>1, <1>2, <1>5

LEMMA BeginDecodePaths ==
  ASSUME PathInv, NEW x \in LS, BeginDecode(x)
  PROVE  PathInv'
<1> DEFINE n == [Blank EXCEPT !.fwd = 0]
<1>1. n \in Node /\ n.best.prev = NoLS /\ n.arcs = {}
  BY BlankType DEF Node, Blank, NoArc
<1>2. NewState(x, n) /\ mode' = "search"
  BY DEF BeginDecode, CreateStartState
<1> HIDE DEF n
<1>3. Used = {}
  BY DEF BeginDecode, PathInv
<1>4. Used' = {x} /\ node'[x] = n /\ Acyclic'
  BY <1>1, <1>2, <1>3, NewStatePaths
<1>5. IsStart(x)'
  BY <1>1, <1>4 DEF IsStart
<1>6. OneStart' /\ ForwardsCostJustified' /\ BestArcInLattice'
  BY <1>4, <1>5 DEF OneStart, ForwardsCostJustified, BestArcInLattice
<1>7. IInv'
  BY BeginDecodeIInv DEF PathInv
<1>8. QED
  BY <1>2, <1>4, <1>6, <1>7 DEF PathInv

\* What an arc from src does to the fields n of its destination.
LEMMA WithArcFields ==
  ASSUME PathInv, NEW n \in Node, NEW src \in LS, NEW cost \in Costs, NEW olabel \in OLabels
  PROVE  LET w == WithArc(n, src, cost, olabel)
         IN  /\ cost < n.fwd => w.best.prev = src /\ w.fwd = cost /\ w.best.weight = cost - node[src].fwd
             /\ cost >= n.fwd => w.best = n.best /\ w.fwd = n.fwd
             /\ w.fwd <= n.fwd
             /\ GenLattice /\ LatticeBeam > 0 /\ (n.best.prev # NoLS => n.best \in n.arcs)
                  => (w.best.prev # NoLS => w.best \in w.arcs)
<1> DEFINE w == WithArc(n, src, cost, olabel)
           arc == [prev |-> src, olabel |-> olabel, weight |-> cost - node[src].fwd]
<1>1. cost \in Int /\ n.fwd \in Int /\ LatticeBeam \in Nat /\ src # NoLS
  BY LatticeAssumption, TokenLatticeAssumption DEF LatticeAssumption, TokenLatticeAssumption, Node
<1>2. CASE cost < n.fwd
  <2>1. w.best = arc /\ w.fwd = cost
    BY <1>2 DEF WithArc
  <2>2. GenLattice /\ LatticeBeam > 0 => arc \in w.arcs
    <3>1. cost < cost + LatticeBeam <=> LatticeBeam > 0
      BY <1>1
    <3>2. arc.prev # NoLS
      BY <1>1
    <3>3. QED
      BY <1>2, <3>1, <3>2 DEF WithArc
  <2>3. QED
    BY <1>1, <1>2, <2>1, <2>2
<1>3. CASE ~(cost < n.fwd)
  <2>1. w.best = n.best /\ w.fwd = n.fwd /\ n.arcs \subseteq w.arcs
    BY <1>3 DEF WithArc
  <2>2. QED
    BY <1>1, <1>3, <2>1
<1>4. QED
  BY <1>2, <1>3

LEMMA EnterInactivePaths ==
  ASSUME PathInv, NEW src \in LS, NEW x \in LS, NEW cost \in Costs, NEW olabel \in OLabels,
         EnterInactive(src, x, cost, olabel)
  PROVE  PathInv'
<1> DEFINE n == WithArc(Blank, src, cost, olabel)
<1>1. src \in Used /\ src \in Held /\ mode = "search" /\ mode' = "search"
  BY DEF EnterInactive, PathInv, IInv, TokensLive
<1>2. n \in Node /\ Blank.fwd = MaxCost /\ Blank.best.prev = NoLS /\ Blank.arcs = {} /\ src # NoLS
  BY BlankType, WithArcType, LatticeAssumption DEF PathInv, IInv, Blank, NoArc, LatticeAssumption
<1>3. NewState(x, n)
  BY DEF EnterInactive, CombineNew
<1>4. {n.best.prev} \ {NoLS} \subseteq {src} /\ {a.prev : a \in n.arcs} \subseteq {src}
  BY <1>2, WithArcBackPointers
<1>5. /\ n.best.prev = src /\ n.fwd = cost /\ n.best.weight = cost - node[src].fwd
      /\ GenLattice /\ LatticeBeam > 0 => n.best \in n.arcs
  <2>1. cost < Blank.fwd
    BY <1>2, TokenLatticeAssumption DEF TokenLatticeAssumption
  <2>2. QED
    BY <1>2, <2>1, BlankType, WithArcFields
<1> HIDE DEF n
<1>6. /\ Used' = Used \cup {x} /\ x \notin Used
      /\ node'[x] = n /\ \A y \in Used : node'[y] = node[y]
      /\ Acyclic'
  BY <1>1, <1>2, <1>3, <1>4, NewStatePaths
<1>7. ~IsStart(x)' /\ \A y \in Used : IsStart(y)' = IsStart(y)
  BY <1>2, <1>5, <1>6 DEF IsStart
<1>8. OneStart'
  <2>1. PICK s \in Used : \A y \in Used : IsStart(y) <=> y = s
    BY <1>1 DEF PathInv, OneStart
  <2>2. QED
    BY <1>6, <1>7, <2>1 DEF OneStart
<1>9. ForwardsCostJustified'
  <2>1. ASSUME NEW y \in Used', ~IsStart(y)'
        PROVE  node'[y].fwd >= node'[node'[y].best.prev].fwd + node'[y].best.weight
    <3>1. CASE y = x
      <4>1. cost \in Int /\ node[src].fwd \in Int
        BY TokenLatticeAssumption DEF TokenLatticeAssumption, PathInv, IInv, TypeOK, Node
      <4>2. node'[src].fwd = node[src].fwd
        BY <1>1, <1>6
      <4>3. QED
        BY <1>5, <1>6, <3>1, <4>1, <4>2
    <3>2. CASE y \in Used
      <4>1. ~IsStart(y) /\ node'[y] = node[y]
        BY <1>6, <1>7, <2>1, <3>2
      <4>2. node[y].best.prev \in Used
        BY <3>2, <4>1 DEF PathInv, IInv, BackPointersLive, BackPointers, IsStart
      <4>3. QED
        BY <1>6, <3>2, <4>1, <4>2 DEF PathInv, ForwardsCostJustified
    <3>3. QED
      BY <1>6, <3>1, <3>2
  <2>2. QED
    BY <2>1 DEF ForwardsCostJustified
<1>10. BestArcInLattice'
  BY <1>5, <1>6, <1>7 DEF PathInv, BestArcInLattice
<1>11. IInv'
  BY EnterInactiveIInv DEF PathInv
<1>12. QED
  BY <1>1, <1>6, <1>8, <1>9, <1>10, <1>11 DEF PathInv

-----------------------------------------------------------------------------
(* A new arc into a live state *)

LEMMA EnterActivePaths ==
  ASSUME PathInv, NEW src \in LS, NEW dest \in LS, NEW cost \in Costs, NEW olabel \in OLabels,
         EnterActive(src, dest, cost, olabel)
  PROVE  PathInv'
<1> DEFINE n == WithArc(node[dest], src, cost, olabel)
           R == Reachable({src})
<1>1. /\ UNCHANGED <<usedList, pool, index, outstanding, stateHeld, arcHeld, mode>>
      /\ mode = "search" /\ src \in Used /\ src \in Held /\ dest \in Used /\ dest \notin R
  BY DEF EnterActive, CombineActive, PathInv, IInv, TokensLive, Held
<1>2. Used' = Used /\ Held' = Held
  BY <1>1 DEF Used, Held
<1>3. node[dest] \in Node /\ src # NoLS
  BY LatticeAssumption DEF PathInv, IInv, TypeOK, LatticeAssumption
<1>4. /\ node'[dest] = n
      /\ \A y \in Used : y # dest => node'[y] = node[y]
  BY <1>1, UsedType DEF EnterActive, CombineActive, PathInv, IInv, TypeOK
<1>5. R \in SUBSET Used /\ src \in R /\ \A y \in R : BackPointers(y) \subseteq R
  <2>1. {src} \in SUBSET Used
    BY <1>1
  <2>2. QED
    BY <2>1, MarkInv DEF PathInv, IInv
<1>6. /\ BackPointers(dest)' \subseteq BackPointers(dest) \cup {src}
      /\ \A y \in Used : y # dest => BackPointers(y)' = BackPointers(y)
  <2>1. /\ {n.best.prev} \ {NoLS} \subseteq BackPointers(dest) \cup {src}
        /\ {a.prev : a \in n.arcs} \subseteq BackPointers(dest) \cup {src}
    BY <1>3, WithArcBackPointers DEF BackPointers
  <2> HIDE DEF n
  <2>2. QED
    BY <1>4, <2>1 DEF BackPointers
<1>7. /\ cost < node[dest].fwd => n.best.prev = src /\ n.fwd = cost /\ n.best.weight = cost - node[src].fwd
      /\ cost >= node[dest].fwd => n.best = node[dest].best /\ n.fwd = node[dest].fwd
      /\ n.fwd <= node[dest].fwd
      /\ GenLattice /\ LatticeBeam > 0 /\ (node[dest].best.prev # NoLS => node[dest].best \in node[dest].arcs)
           => (n.best.prev # NoLS => n.best \in n.arcs)
  BY <1>3, WithArcFields
<1>8. cost \in Int /\ node[src].fwd \in Int /\ node[dest].fwd \in Int /\ n.fwd \in Int
  <2>1. n \in Node
    BY <1>3, WithArcType DEF PathInv, IInv
  <2>2. QED
    BY <1>3, <2>1, TokenLatticeAssumption DEF TokenLatticeAssumption, PathInv, IInv, TypeOK, Node
<1> HIDE DEF n, R
<1>9. Acyclic'
  <2>1. ASSUME NEW T \in SUBSET Used, T # {}
        PROVE  \E y \in T : BackPointers(y)' \cap T = {}
    <3>1. CASE T \cap R = {}
      <4>1. PICK y \in T : BackPointers(y) \cap T = {}
        BY <2>1 DEF PathInv, Acyclic
      <4>2. QED
        BY <1>5, <1>6, <3>1, <4>1
    <3>2. CASE T \cap R # {}
      <4>1. T \cap R \in SUBSET Used
        OBVIOUS
      <4>2. PICK y \in T \cap R : BackPointers(y) \cap (T \cap R) = {}
        BY <3>2, <4>1 DEF PathInv, Acyclic
      <4>3. BackPointers(y) \cap T = {} /\ BackPointers(y)' = BackPointers(y)
        BY <1>1, <1>5, <1>6, <4>2
      <4>4. QED
        BY <4>2, <4>3
    <3>3. QED
      BY <3>1, <3>2
  <2>2. QED
    BY <1>2, <2>1 DEF Acyclic
<1>10. PICK s \in Used : \A y \in Used : IsStart(y) <=> y = s
  BY <1>1 DEF PathInv, OneStart
<1>11. s \in R
  <2>1. {src} \in SUBSET Used /\ {src} # {}
    BY <1>1
  <2>2. QED
    BY <1>5, <1>10, <2>1, StartReached DEF R
<1>12. ~IsStart(dest) /\ ~IsStart(dest)'
  <2>1. dest # s
    BY <1>1, <1>11
  <2>2. ~IsStart(dest)
    BY <1>1, <1>10, <2>1
  <2>3. n.best.prev # NoLS
    BY <1>3, <1>7, <1>8, <2>2 DEF IsStart
  <2>4. QED
    BY <1>4, <2>2, <2>3 DEF IsStart
<1>13. \A y \in Used : IsStart(y)' = IsStart(y)
  BY <1>4, <1>12 DEF IsStart
<1>14. OneStart'
  BY <1>2, <1>10, <1>13 DEF OneStart
<1>15. ForwardsCostJustified'
  <2>1. \A y \in Used : node'[y].fwd <= node[y].fwd /\ node[y].fwd \in Int /\ node'[y].fwd \in Int
    <3>1. \A y \in Used : node[y].fwd \in Int
      BY UsedType DEF PathInv, IInv, TypeOK, Node
    <3>2. QED
      BY <1>4, <1>7, <1>8, <3>1
  <2>2. src # dest
    BY <1>1, <1>5
  <2>3. ASSUME NEW y \in Used, ~IsStart(y)
        PROVE  node'[y].fwd >= node'[node'[y].best.prev].fwd + node'[y].best.weight
    <3>1. /\ node[y].fwd >= node[node[y].best.prev].fwd + node[y].best.weight
          /\ node[y].best.prev \in Used /\ node[y].best.weight \in Int
      <4>1. node[y].best.prev \in Used
        BY <2>3 DEF PathInv, IInv, BackPointersLive, BackPointers, IsStart
      <4>2. node[y].best.weight \in Int
        BY UsedType DEF PathInv, IInv, TypeOK, Node, LatticeArc
      <4>3. QED
        BY <2>3, <4>1, <4>2 DEF PathInv, ForwardsCostJustified
    <3>2. CASE y = dest /\ cost < node[dest].fwd
      <4>1. /\ node'[y].fwd = cost /\ node'[y].best.prev = src
            /\ node'[y].best.weight = cost - node[src].fwd
        BY <1>4, <1>7, <3>2
      <4>2. node'[src].fwd = node[src].fwd
        BY <1>1, <1>4, <2>2
      <4>3. QED
        BY <1>8, <4>1, <4>2
    <3>3. CASE ~(y = dest /\ cost < node[dest].fwd)
      <4>1. node'[y].fwd = node[y].fwd /\ node'[y].best = node[y].best
        BY <1>4, <1>7, <1>8, <3>3
      <4>2. node'[node[y].best.prev].fwd <= node[node[y].best.prev].fwd
            /\ node[node[y].best.prev].fwd \in Int /\ node'[node[y].best.prev].fwd \in Int
            /\ node[y].fwd \in Int
        BY <2>1, <3>1
      <4>3. QED
        BY <3>1, <4>1, <4>2
    <3>4. QED
      BY <3>2, <3>3
  <2>4. QED
    BY <1>2, <1>13, <2>3 DEF ForwardsCostJustified
<1>16. BestArcInLattice'
  <2>1. ASSUME GenLattice /\ LatticeBeam > 0, NEW y \in Used, ~IsStart(y)
        PROVE  node'[y].best \in node'[y].arcs
    <3>1. \A z \in Used : ~IsStart(z) => node[z].best \in node[z].arcs
      BY <2>1 DEF PathInv, BestArcInLattice
    <3>2. CASE y = dest
      <4>1. node[dest].best \in node[dest].arcs
        BY <1>1, <1>12, <3>1
      <4>2. n.best.prev # NoLS
        BY <1>4, <1>12 DEF IsStart
      <4>3. QED
        BY <1>4, <1>7, <2>1, <3>2, <4>1, <4>2
    <3>3. CASE y # dest
      BY <1>4, <2>1, <3>1, <3>3
    <3>4. QED
      BY <3>2, <3>3
  <2>2. QED
    BY <1>2, <1>13, <2>1 DEF BestArcInLattice
<1>17. IInv'
  BY EnterActiveIInv DEF PathInv
<1>18. QED
  BY <1>1, <1>9, <1>14, <1>15, <1>16, <1>17 DEF PathInv

-----------------------------------------------------------------------------
(* Collections *)

\* Fewer live states with the fields they had: only the start can be lost.
LEMMA FewerStates ==
  ASSUME PathInv, Used' \subseteq Used, node' = node
  PROVE  Acyclic' /\ ForwardsCostJustified' /\ BestArcInLattice'
<1>1. \A x : BackPointers(x)' = BackPointers(x) /\ IsStart(x)' = IsStart(x)
  BY DEF BackPointers, IsStart
<1>2. Acyclic'
  BY <1>1 DEF PathInv, Acyclic
<1>3. ForwardsCostJustified'
  BY <1>1 DEF PathInv, ForwardsCostJustified
<1>4. BestArcInLattice'
  BY <1>1 DEF PathInv, BestArcInLattice
<1>5. QED
  BY <1>2, <1>3, <1>4

\* Collecting what the roots do not reach keeps the start.
LEMMA SweepKeepsStart ==
  ASSUME PathInv, mode = "search", NEW roots \in SUBSET Used, roots # {}, roots \subseteq Held,
         Used' = Used \cap Reachable(roots), node' = node
  PROVE  \E s \in Used' : \A x \in Used' : IsStart(x)' <=> x = s
<1>1. PICK s \in Used : \A x \in Used : IsStart(x) <=> x = s
  BY DEF PathInv, OneStart
<1>2. Reachable(roots) \subseteq Used
  BY MarkInv DEF PathInv, IInv
<1>3. s \in Reachable(roots)
  BY <1>1, <1>2, StartReached
<1>4. \A x : IsStart(x)' = IsStart(x)
  BY DEF IsStart
<1>5. QED
  BY <1>1, <1>3, <1>4

LEMMA GcPaths ==
  ASSUME PathInv, Gc
  PROVE  PathInv'
<1> DEFINE M == Reachable(arcHeld)
<1>1. /\ mode = "search" /\ stateHeld = {} /\ UNCHANGED <<stateHeld, arcHeld>>
      /\ arcHeld \in SUBSET Used
  BY DEF Gc, PathInv, IInv, TokensLive, Held
<1>2. M \in SUBSET LS /\ \A y \in M : BackPointers(y) \subseteq M
  BY <1>1, MarkInv DEF PathInv, IInv
<1>3. /\ SweepStates(M)
      /\ usedList' = Compact(usedList, M) \/ usedList' \in Rearrangements(Compact(usedList, M))
      /\ mode' \in {"search", "fatal"}
  BY DEF Gc
<1> HIDE DEF M
<1>4. Used' = Used \cap M /\ node' = node
  BY <1>2, <1>3, SweepInv DEF PathInv, IInv
<1>5. Acyclic' /\ ForwardsCostJustified' /\ BestArcInLattice'
  BY <1>4, FewerStates
<1>6. OneStart'
  <2>1. Held' = arcHeld /\ Held = arcHeld
    BY <1>1 DEF Held
  <2>2. CASE arcHeld = {}
    BY <1>3, <2>1, <2>2 DEF OneStart
  <2>3. CASE arcHeld # {}
    BY <1>1, <1>4, <2>1, <2>3, SweepKeepsStart DEF OneStart, M
  <2>4. QED
    BY <2>2, <2>3
<1>7. IInv'
  BY GcIInv DEF PathInv
<1>8. QED
  BY <1>3, <1>5, <1>6, <1>7 DEF PathInv

LEMMA GetLatticePaths ==
  ASSUME PathInv, NEW s \in LS, GetLattice(s)
  PROVE  PathInv'
<1> DEFINE M == Reachable({s})
<1>1. mode = "search" /\ {s} \in SUBSET Used /\ {s} \subseteq Held
  BY DEF GetLattice, PathInv, IInv, TokensLive, Held
<1>2. M \in SUBSET LS /\ \A y \in M : BackPointers(y) \subseteq M
  BY <1>1, MarkInv DEF PathInv, IInv
<1>3. SweepStates(M) /\ usedList' = Compact(usedList, M) /\ mode' = "finished"
  BY DEF GetLattice, Sweep
<1> HIDE DEF M
<1>4. Used' = Used \cap M /\ node' = node
  BY <1>2, <1>3, SweepInv DEF PathInv, IInv
<1>5. Acyclic' /\ ForwardsCostJustified' /\ BestArcInLattice'
  BY <1>4, FewerStates
<1>6. OneStart'
  <2>1. {s} # {}
    OBVIOUS
  <2>2. QED
    BY <1>1, <1>4, <2>1, SweepKeepsStart DEF OneStart, M
<1>7. IInv'
  BY GetLatticeIInv DEF PathInv
<1>8. QED
  BY <1>3, <1>5, <1>6, <1>7 DEF PathInv

LEMMA CleanUpPaths ==
  ASSUME PathInv, CleanUp
  PROVE  PathInv'
<1>1. /\ SweepStates({}) /\ usedList' = Compact(usedList, {})
      /\ mode' \in {"idle", "fatal"}
  BY DEF CleanUp, Sweep
<1>2. {} \in SUBSET LS /\ \A y \in {} : BackPointers(y) \subseteq {}
  OBVIOUS
<1>3. Used' = {} /\ node' = node
  BY <1>1, <1>2, SweepInv DEF PathInv, IInv
<1>4. Acyclic' /\ ForwardsCostJustified' /\ BestArcInLattice'
  BY <1>3, FewerStates
<1>5. OneStart'
  BY <1>1 DEF OneStart
<1>6. IInv'
  BY CleanUpIInv DEF PathInv
<1>7. QED
  BY <1>3, <1>4, <1>5, <1>6 DEF PathInv

-----------------------------------------------------------------------------
(* The invariant is inductive *)

LEMMA InitPaths == Init => PathInv
<1> SUFFICES ASSUME Init PROVE PathInv
  OBVIOUS
<1>1. Used = {} /\ mode = "idle"
  BY DEF Init, Used
<1>2. Acyclic /\ OneStart /\ ForwardsCostJustified /\ BestArcInLattice
  BY <1>1 DEF Acyclic, OneStart, ForwardsCostJustified, BestArcInLattice
<1>3. QED
  BY <1>1, <1>2, InitIInv DEF PathInv

LEMMA MoveTokensPaths ==
  ASSUME PathInv, MoveTokens \/ UNCHANGED vars
  PROVE  PathInv'
<1>1. UNCHANGED <<usedList, pool, index, node, outstanding, mode>>
  BY DEF MoveTokens, vars
<1>2. Used' = Used /\ (mode = "search" => Held' \subseteq Held)
  BY <1>1 DEF Used, Held, MoveTokens, vars
<1>3. Acyclic' /\ ForwardsCostJustified' /\ BestArcInLattice'
  BY <1>1, <1>2, FewerStates
<1>4. OneStart'
  <2>1. \A x : IsStart(x)' = IsStart(x)
    BY <1>1 DEF IsStart
  <2>2. mode' = "search" /\ Held' # {} => Held # {}
    BY <1>1, <1>2
  <2>3. QED
    BY <1>1, <1>2, <2>1, <2>2 DEF PathInv, OneStart
<1>5. IInv'
  BY NextIInv DEF PathInv, Next
<1>6. QED
  BY <1>1, <1>2, <1>3, <1>4, <1>5 DEF PathInv

LEMMA NextPaths == PathInv /\ [Next]_vars => PathInv'
  BY BeginDecodePaths, MoveTokensPaths, EnterInactivePaths, EnterActivePaths, GcPaths,
     GetLatticePaths, CleanUpPaths DEF Next

-----------------------------------------------------------------------------
(* Theorems *)

THEOREM SpecPathInv == Spec => []PathInv
  BY InitPaths, NextPaths, PTL DEF Spec

\* No live lattice state descends from itself: State::GcMark, which recurses
\* along the back pointers, and GetBestSequence, which follows the best ones,
\* both end.
THEOREM SpecAcyclic == Spec => []Acyclic
<1>1. PathInv => Acyclic
  BY DEF PathInv
<1>2. QED
  BY <1>1, SpecPathInv, PTL

\* Exactly one state has no predecessor while a token is alive and in the
\* lattice that is emitted: no collection loses it, no arrival supplants it.
THEOREM SpecOneStart == Spec => []OneStart
<1>1. PathInv => OneStart
  BY DEF PathInv
<1>2. QED
  BY <1>1, SpecPathInv, PTL

\* No state's cost is better than its best arc justifies.
THEOREM SpecForwardsCostJustified == Spec => []ForwardsCostJustified
<1>1. PathInv => ForwardsCostJustified
  BY DEF PathInv
<1>2. QED
  BY <1>1, SpecPathInv, PTL

\* The one-best traceback is a path of the lattice that GetLattice emits.
THEOREM SpecBestArcInLattice == Spec => []BestArcInLattice
<1>1. PathInv => BestArcInLattice
  BY DEF PathInv
<1>2. QED
  BY <1>1, SpecPathInv, PTL

=============================================================================
