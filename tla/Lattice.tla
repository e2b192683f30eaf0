------------------------------ MODULE Lattice ------------------------------
(***************************************************************************)
(* The back-pointer lattice of dcd/lattice.h: the states a decoder's       *)
(* tokens point to, the operations that build it, and the mark-and-sweep   *)
(* collector that reclaims what no token reaches.                          *)
(*                                                                         *)
(* A C++ State* is an address of LS.  The module has no Next: its clients  *)
(* (TokenLattice, CLevelDecoder) say when the operations are called.       *)
(***************************************************************************)
EXTENDS Token, Sequences, FiniteSets

CONSTANTS
  OLabels,       \* output labels; 0 is epsilon
  LatticeBeam,   \* SearchOptions::lattice_beam
  GenLattice,    \* SearchOptions::gen_lattice
  UsePool        \* SearchOptions::use_lattice_pool

ASSUME LatticeAssumption ==
  /\ IsFiniteSet(LS)
  /\ NoLS \notin LS
  /\ 0 \in OLabels
  /\ MaxCost \in Nat \ {0}
  /\ LatticeBeam \in Nat
  /\ GenLattice \in BOOLEAN
  /\ UsePool \in BOOLEAN

VARIABLES
  usedList,     \* used_list_
  pool,         \* free_list_, as a set: which pooled state is reused first is immaterial
  index,        \* State::index_
  node,         \* State::best_arc_, forwards_cost_ and arcs_
  outstanding   \* num_allocs_ - num_frees_

latticeVars == <<usedList, pool, index, node, outstanding>>

-----------------------------------------------------------------------------
(* Lattice states and arcs *)

\* A LatticeArc: where it comes from, its output label and its total weight
\* (am_weight_ + lm_weight_).
NoLabel == -1  \* kNoLabel
LatticeArc == [prev : LS \cup {NoLS}, olabel : OLabels \cup {NoLabel}, weight : Int]
Node == [best : LatticeArc, fwd : Int, arcs : SUBSET [prev : LS, olabel : OLabels, weight : Int]]

\* LatticeArc::Clear
NoArc == [prev |-> NoLS, olabel |-> NoLabel, weight |-> MaxCost]

\* State::Init, which starts with State::Clear
Blank == [best |-> NoArc, fwd |-> MaxCost, arcs |-> {}]

Used == {usedList[i] : i \in DOMAIN usedList}

IsStart(x) == node[x].best.prev = NoLS

\* The states an object's back pointers name, through best_arc_ and arcs_.
BackPointers(x) ==
  ({node[x].best.prev} \ {NoLS}) \cup {a.prev : a \in node[x].arcs}

-----------------------------------------------------------------------------
(* Building the lattice *)

\* Where NewState can find an object: the pool if it may and has one, fresh
\* memory otherwise.
Allocatable == IF UsePool /\ pool # {} THEN pool ELSE LS \ (Used \cup pool)

\* Mutant: the object stays in the pool.
NewStateKeptInPool(x, n) ==
  /\ x \in Allocatable
  /\ index' = [index EXCEPT ![x] = Len(usedList)]
  /\ usedList' = Append(usedList, x)
  /\ node' = [node EXCEPT ![x] = n]
  /\ outstanding' = outstanding + 1
  /\ UNCHANGED pool

\* NewState returning x, whose fields the caller completes into n.
NewState(x, n) ==
  /\ x \in Allocatable
  /\ pool' = pool \ {x}
  /\ index' = [index EXCEPT ![x] = Len(usedList)]
  /\ usedList' = Append(usedList, x)
  /\ node' = [node EXCEPT ![x] = n]
  /\ outstanding' = outstanding + 1

CreateStartState(x) == NewState(x, [Blank EXCEPT !.fwd = 0])

\* Mutants: an improving arrival lowers the cost but is not recorded as the best
\* arc; the weight is not relative to the predecessor; the beam is tested against
\* the cost before the arrival.
WithArcNotBest(n, src, cost, olabel) ==
  [n EXCEPT !.fwd = IF cost < @ THEN cost ELSE @]

WithArcAbsolute(n, src, cost, olabel) ==
  IF cost < n.fwd THEN [n EXCEPT !.fwd = cost, !.best = [prev |-> src, olabel |-> olabel, weight |-> cost]]
  ELSE n

WithArcStaleBeam(n, src, cost, olabel) ==
  LET arc == [prev |-> src, olabel |-> olabel, weight |-> cost - node[src].fwd]
  IN  [best |-> IF cost < n.fwd THEN arc ELSE n.best,
       fwd  |-> IF cost < n.fwd THEN cost ELSE n.fwd,
       arcs |-> n.arcs \cup {a \in {arc} : GenLattice /\ n.best.prev # NoLS /\ cost < n.fwd + LatticeBeam}]

\* State::AddArc on a state whose fields are n: an arc from src, arriving with
\* the given cost.
WithArc(n, src, cost, olabel) ==
  LET arc  == [prev |-> src, olabel |-> olabel, weight |-> cost - node[src].fwd]
      best == IF cost < n.fwd THEN arc ELSE n.best
      fwd  == IF cost < n.fwd THEN cost ELSE n.fwd
      keep == GenLattice /\ best.prev # NoLS /\ cost < fwd + LatticeBeam
  IN  [best |-> best, fwd |-> fwd, arcs |-> n.arcs \cup (IF keep THEN {arc} ELSE {})]

\* TokenTpl::Combine into an inactive token: AddState, then AddArc.
CombineNew(src, x, cost, olabel) == NewState(x, WithArc(Blank, src, cost, olabel))

\* TokenTpl::Combine into a token that already points to dest: AddArc only.
CombineActive(src, dest, cost, olabel) ==
  /\ node' = [node EXCEPT ![dest] = WithArc(node[dest], src, cost, olabel)]
  /\ UNCHANGED <<usedList, pool, index, outstanding>>

\* State::GetBestSequence: the output labels of the best arcs from the start state
\* to x, epsilons included.
GetBestSequence(x) ==
  LET sequence[y \in LS] ==
        IF IsStart(y) THEN <<>> ELSE Append(sequence[node[y].best.prev], node[y].best.olabel)
  IN  sequence[x]

-----------------------------------------------------------------------------
(* Garbage collection *)

\* Mutants: marking follows best_arc_ only; it leaves out the root itself; nothing
\* is cleared before it.
ReachableByBest(roots) ==
  LET closed == {C \in SUBSET Used : roots \subseteq C /\ \A y \in C : {node[y].best.prev} \cap Used \subseteq C}
  IN  Used \ UNION {Used \ C : C \in closed}

ReachableBelow(roots) ==
  LET closed == {C \in SUBSET Used : \A y \in C \cup roots : BackPointers(y) \cap Used \subseteq C}
  IN  Used \ UNION {Used \ C : C \in closed}

ReachableUncleared(roots) == roots \cup Used

\* What State::GcMark, called on every root, marks: the allocated states that no
\* set holding the roots and closed under the back pointers leaves out.
Reachable(roots) ==
  LET closed == {C \in SUBSET Used : roots \cap Used \subseteq C
                                     /\ \A y \in C : BackPointers(y) \cap Used \subseteq C}
  IN  Used \ UNION {Used \ C : C \in closed}

\* The number of positions of s up to i that hold a member of M.
Rank(s, M, i) == Cardinality({j \in 1 .. i : s[j] \in M})

\* s without the elements outside M, the others in their order.
Compact(s, M) ==
  [k \in 1 .. Rank(s, M, Len(s)) |->
     s[CHOOSE i \in DOMAIN s : s[i] \in M /\ Rank(s, M, i) = k]]

\* Mutants: the survivors keep their old indexes; a free is not counted.
SweepStatesNotRenumbered(M) ==
  /\ index' = [x \in LS |-> IF x \in Used \ M THEN -1 ELSE index[x]]
  /\ pool' = IF UsePool THEN pool \cup (Used \ M) ELSE pool
  /\ outstanding' = outstanding - Cardinality(Used \ M)
  /\ UNCHANGED node

SweepStatesUncounted(M) ==
  /\ index' = [x \in LS |->
                 IF x \notin Used THEN index[x]
                 ELSE IF x \notin M THEN -1
                 ELSE Rank(usedList, M, CHOOSE i \in DOMAIN usedList : usedList[i] = x) - 1]
  /\ pool' = IF UsePool THEN pool \cup (Used \ M) ELSE pool
  /\ UNCHANGED <<outstanding, node>>

\* GcSweep when M is the set of marked states: what it does to the states, and
\* to used_list_.  FreeState leaves the fields of a freed object as they are.
SweepStates(M) ==
  /\ index' = [x \in LS |->
                 IF x \notin Used THEN index[x]
                 ELSE IF x \notin M THEN -1
                 ELSE Rank(usedList, M, CHOOSE i \in DOMAIN usedList : usedList[i] = x) - 1]
  /\ pool' = IF UsePool THEN pool \cup (Used \ M) ELSE pool
  /\ outstanding' = outstanding - Cardinality(Used \ M)
  /\ UNCHANGED node

Sweep(M) == usedList' = Compact(usedList, M) /\ SweepStates(M)

=============================================================================
