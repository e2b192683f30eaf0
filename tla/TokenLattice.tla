---------------------------- MODULE TokenLattice ----------------------------
(***************************************************************************)
(* What a decoder may do to a Lattice.  The decoder is reduced to the sets *)
(* of lattice states its tokens point to: those of the search states and   *)
(* those of the search arcs.  Tokens move, are dropped, and leave an arc   *)
(* into a search state, which grows the lattice; between the expansion of  *)
(* the search states and that of the arcs the collector may run.           *)
(* CLevelDecoder is shown to implement this specification.                 *)
(***************************************************************************)
EXTENDS Lattice

CONSTANTS
  Costs,      \* costs with which a token may arrive in a search state
  GcChecks    \* SearchOptions::gc_check

ASSUME TokenLatticeAssumption ==
  /\ Costs \subseteq Int
  /\ \A c \in Costs : c < MaxCost
  /\ GcChecks \in BOOLEAN

VARIABLES
  stateHeld,   \* lattice states the tokens of the search states point to
  arcHeld,     \* lattice states the tokens of the active search arcs point to
  mode         \* "idle" | "search" | "finished" | "fatal" (LOG(FATAL) ends the process)

vars == <<usedList, pool, index, node, outstanding, stateHeld, arcHeld, mode>>

Held == stateHeld \cup arcHeld

Init ==
  /\ usedList = <<>>
  /\ pool = {}
  /\ index = [x \in LS |-> -1]
  /\ node = [x \in LS |-> Blank]
  /\ outstanding = 0
  /\ stateHeld = {}
  /\ arcHeld = {}
  /\ mode = "idle"

-----------------------------------------------------------------------------
(* Search *)

\* BeginDecode: a token on a new start state.
BeginDecode(x) ==
  /\ mode = "idle"
  /\ CreateStartState(x)
  /\ mode' = "search"
  /\ stateHeld' = {x}
  /\ UNCHANGED <<arcHeld>>

\* Tokens enter arcs, advance inside them, are pruned or overwritten: no
\* lattice state is touched, and no token is aimed at one that none held.
MoveTokens ==
  /\ mode = "search"
  /\ stateHeld' \in SUBSET stateHeld
  /\ arcHeld' \in SUBSET Held
  /\ UNCHANGED <<usedList, pool, index, node, outstanding, mode>>

\* A token leaves an arc into an inactive search state.
EnterInactive(src, x, cost, olabel) ==
  /\ mode = "search"
  /\ src \in Held
  /\ CombineNew(src, x, cost, olabel)
  /\ stateHeld' = stateHeld \cup {x}
  /\ UNCHANGED <<arcHeld, mode>>

\* A token leaves an arc into an active search state.  GcMark recurses for ever
\* on a cycle of back pointers, so a client owes a destination that the source
\* does not descend from: it follows no cycle of epsilon arcs.
EnterActive(src, dest, cost, olabel) ==
  /\ mode = "search"
  /\ src \in Held
  /\ dest \in stateHeld
  /\ CombineActive(src, dest, cost, olabel)
  /\ dest \notin Reachable({src})
  /\ UNCHANGED <<stateHeld, arcHeld, mode>>

-----------------------------------------------------------------------------
(* Collection *)

\* SortLists orders used_list_ by address, which may be any order.
Rearrangements(s) ==
  LET range == {s[i] : i \in DOMAIN s}
  IN  {t \in [DOMAIN s -> range] : \A x \in range : \E i \in DOMAIN s : t[i] = x}

\* GcCheck on the list a sweep left: Lattice::Check aborts on an index that is
\* not the position, SortLists when there is no pool.
CheckAborts(list) ==
  \/ ~UsePool
  \/ \E i \in DOMAIN list : index'[list[i]] # i - 1

\* GcCheck itself aborts on a token of an active arc whose state is not in the list,
\* unless it is the arc's last, which it passes over: it may be any.
TokenOffList(list) == \E x \in arcHeld : \A i \in DOMAIN list : list[i] # x

\* CLevelDecoder::Gc, followed by GcCheck if asked for.  Only the tokens of the
\* active arcs are roots; it runs when ExpandActiveStates has just cleared the
\* token of every search state.
Gc ==
  LET marked == Reachable(arcHeld)
      swept  == Compact(usedList, marked)
  IN  /\ mode = "search"
      /\ stateHeld = {}
      /\ SweepStates(marked)
      /\ IF GcChecks
           THEN /\ usedList' \in Rearrangements(swept)
                /\ \/ mode' = "search" /\ ~CheckAborts(swept)
                   \/ mode' = "fatal" /\ (CheckAborts(swept) \/ TokenOffList(swept))
           ELSE usedList' = swept /\ mode' = "search"
      /\ UNCHANGED <<stateHeld, arcHeld>>

\* EndDecode asking for the lattice that ends in s: everything s does not
\* descend from is freed, whatever the other tokens hold.
GetLattice(s) ==
  /\ mode = "search"
  /\ s \in stateHeld
  /\ Sweep(Reachable({s}))
  /\ mode' = "finished"
  /\ UNCHANGED <<stateHeld, arcHeld>>

\* CleanUp: Lattice::Clear unmarks and sweeps everything and compares the
\* allocation counts; the search states go with their tokens.
CleanUp ==
  /\ mode \in {"search", "finished"}
  /\ Sweep({})
  /\ mode' = IF outstanding' = 0 THEN "idle" ELSE "fatal"
  /\ stateHeld' = {}
  /\ arcHeld' = {}

Next ==
  \/ \E x \in LS : BeginDecode(x)
  \/ MoveTokens
  \/ \E src, x \in LS, cost \in Costs, olabel \in OLabels : EnterInactive(src, x, cost, olabel)
  \/ \E src, dest \in LS, cost \in Costs, olabel \in OLabels : EnterActive(src, dest, cost, olabel)
  \/ Gc
  \/ \E s \in LS : GetLattice(s)
  \/ CleanUp

Spec == Init /\ [][Next]_vars

-----------------------------------------------------------------------------
(* Properties *)

\* Every variable has the type its declaration in lattice.h gives it.
TypeOK ==
  /\ usedList \in Seq(LS)
  /\ pool \subseteq LS
  /\ index \in [LS -> Int]
  /\ node \in [LS -> Node]
  /\ outstanding \in Int
  /\ stateHeld \subseteq LS
  /\ arcHeld \subseteq LS
  /\ mode \in {"idle", "search", "finished", "fatal"}

\* While the search runs, no token points to a state that a collection freed:
\* the tokens of the active arcs are roots enough (CLevelDecoder::Gc).
TokensLive == mode = "search" => Held \subseteq Used

\* A live state's best arc and lattice arcs lead to live states, so a traceback
\* or GetLattice never reads freed memory (Lattice::Check, "bad arc back
\* pointer" and "arc back pointer into freelist").
BackPointersLive == \A x \in Used : BackPointers(x) \subseteq Used

\* An address is in used_list_ at most once and never in free_list_ as well:
\* NewState hands out no object that is in use, FreeState frees none twice.
NoAliasing ==
  /\ \A i, j \in DOMAIN usedList : usedList[i] = usedList[j] => i = j
  /\ Used \cap pool = {}

\* num_allocs_ and num_frees_ differ by what is in use, and neither the check
\* of Clear nor any of the three of GcCheck (pool on) ever aborts the process.
AllocationsBalance ==
  /\ outstanding = Len(usedList)
  /\ (GcChecks => UsePool) => mode # "fatal"

\* The indexes of the live states are the positions 0 .. n-1 in some order (that
\* of the list, unless GcCheck has sorted it since): what GetLattice emits as FST
\* state numbers, and what GetBestSequence asserts (index_ != -1).
IndexesArePositions == {index[x] : x \in Used} = 0 .. Len(usedList) - 1

\* IsStart tells the start state from all others: while a token is alive, and
\* in the lattice GetLattice emits, exactly one state has no best predecessor.
OneStart ==
  mode = "finished" \/ (mode = "search" /\ Held # {}) =>
    \E s \in Used : \A x \in Used : IsStart(x) <=> x = s

\* A state's forward cost is no better than its best arc justifies; it is worse
\* when the predecessor has improved since and not been expanded again.
ForwardsCostJustified ==
  \A x \in Used : ~IsStart(x) =>
     node[x].fwd >= node[node[x].best.prev].fwd + node[x].best.weight

\* The one-best traceback is a path of the lattice GetLattice emits from arcs_.
BestArcInLattice ==
  GenLattice /\ LatticeBeam > 0 =>
    \A x \in Used : ~IsStart(x) => node[x].best \in node[x].arcs

\* A collection leaves no garbage: every surviving state is held by an arc's
\* token or is a back pointer of another survivor.
GcCollects ==
  [][Gc => \A x \in Used' : x \in arcHeld \/ \E y \in Used' : x \in BackPointers(y)]_vars

=============================================================================
