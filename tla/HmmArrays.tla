------------------------------ MODULE HmmArrays ------------------------------
(***************************************************************************)
(* HMMTransitionModel::FromFsts (dcd/hmm-transition-model.h): the arc      *)
(* types laid out in flat arrays, and what Expand reads from them.         *)
(* Offsets count from 0 as in the code, the arrays are sequences.          *)
(***************************************************************************)
EXTENDS TransModel

Empty == [types |-> <<>>, numStates |-> <<>>, weights |-> <<>>, stateLabels |-> <<>>,
          weightOffsets |-> <<>>, stateOffsets |-> <<>>]

TypeOfSize == 2 :> "epsilon" @@ 4 :> "leftToRight" @@ 6 :> "ergodic"

\* Mutant: the label of every arc.
LabelsOfArcs(fst) == [k \in DOMAIN fst.arcs |-> fst.arcs[k].label]

\* The label of a state is the label of its first arc (a Moore machine).
LabelsOfStates(fst) ==
  LET first == {k \in DOMAIN fst.arcs : k = 1 \/ fst.arcs[k - 1].from # fst.arcs[k].from}
  IN  [n \in 1 .. Cardinality(first) |->
         fst.arcs[CHOOSE k \in first : Cardinality({l \in first : l <= k}) = n].label]

\* What stands for the entry of an HMM, so that state n is at position n.
Sentinel(fst, value) == IF fst.numStates \in {4, 6} THEN <<value>> ELSE <<>>

\* One type more.  A size that is no HMM has no type.
Layout(mdl, fst) ==
  LET n == fst.numStates
  IN  [types         |-> mdl.types \o (IF n \in DOMAIN TypeOfSize THEN <<TypeOfSize[n]>> ELSE <<>>),
       numStates     |-> Append(mdl.numStates, n),
       weightOffsets |-> Append(mdl.weightOffsets, Len(mdl.weights)),
       stateOffsets  |-> Append(mdl.stateOffsets, Len(mdl.stateLabels)),
       weights       |-> mdl.weights \o Sentinel(fst, 0) \o [k \in DOMAIN fst.arcs |-> fst.arcs[k].weight],
       stateLabels   |-> mdl.stateLabels \o Sentinel(fst, -1) \o LabelsOfStates(fst)]

FromFsts(fsts) == FoldLeft(Layout, Empty, fsts)

\* ExpandGeneric and GenericTransitionModel::Expand walk the acceptor itself.
Generic(fst) == [type |-> "ergodic", numStates |-> fst.numStates - 1, arcs |-> fst.arcs]

\* The HMM that HMMTransitionModel::Expand(i, ..) sees.
HmmAt(fsts, i) ==
  LET mdl == FromFsts(fsts)
  IN  CASE mdl.types[i] = "epsilon"     -> [type |-> "epsilon"]
        [] mdl.types[i] = "leftToRight" ->
             [type    |-> "leftToRight",
              weights |-> [k \in 0 .. 6 |-> mdl.weights[mdl.weightOffsets[i] + k + 1]],
              labels  |-> [n \in 1 .. 3 |-> mdl.stateLabels[mdl.stateOffsets[i] + n + 1]]]
        [] mdl.types[i] = "ergodic"     -> Generic(fsts[i])

=============================================================================
