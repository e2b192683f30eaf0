---------------------------- MODULE SimpleLattice ----------------------------
(***************************************************************************)
(* SimpleLattice (simple-lattice.h), the lattice of a decoder that is only *)
(* asked for the best sequence ("hmm_simple"): Lattice with a best arc for *)
(* every state and nothing else.  Marking and sweeping do nothing, and     *)
(* used_list_ grows until Clear.  It keeps its states in Lattice's         *)
(* variables; no arcs_ are ever kept and the pool stays empty.             *)
(***************************************************************************)
EXTENDS Lattice

\* State::AddArc without a lattice beam: an improving arrival becomes the best arc.
WithBestArc(n, src, cost, olabel) ==
  IF cost < n.fwd
    THEN [n EXCEPT !.best = [prev |-> src, olabel |-> olabel, weight |-> cost - node[src].fwd],
                   !.fwd = cost]
    ELSE n

\* NewState returning x, fresh memory, whose fields the caller completes into n.
SimpleNewState(x, n) ==
  /\ x \in LS \ Used
  /\ index' = [index EXCEPT ![x] = Len(usedList)]
  /\ usedList' = Append(usedList, x)
  /\ node' = [node EXCEPT ![x] = n]
  /\ outstanding' = outstanding + 1
  /\ UNCHANGED pool

SimpleCreateStartState(x) == SimpleNewState(x, [Blank EXCEPT !.fwd = 0])

SimpleCombineNew(src, x, cost, olabel) == SimpleNewState(x, WithBestArc(Blank, src, cost, olabel))

SimpleCombineActive(src, dest, cost, olabel) ==
  /\ node' = [node EXCEPT ![dest] = WithBestArc(node[dest], src, cost, olabel)]
  /\ UNCHANGED <<usedList, pool, index, outstanding>>

\* GcClearMarks, GcMark, GcSweep and GetLattice.
SimpleSweep == UNCHANGED latticeVars

\* Clear deletes the states; it does not count them as freed.
SimpleClear ==
  /\ usedList' = <<>>
  /\ UNCHANGED <<pool, index, node, outstanding>>
=============================================================================
