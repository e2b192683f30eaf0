------------------------------ MODULE MCHLevel ------------------------------
(* Small graphs, utterances and options for HLevelDecoder. *)
EXTENDS HLevelCorrect

CONSTANTS AcCosts, ArcWeights

Arc(ilabel, olabel, weight, nextstate) ==
  [ilabel |-> ilabel, olabel |-> olabel, weight |-> weight, nextstate |-> nextstate]

\* Two words that meet in an epsilon diamond; state 4 is entered by the direct
\* epsilon arc before the cheaper way through 3, state 5 has no emitting arc.
Diamond(w) ==
  [start |-> 1,
   arcs  |-> <<<<Arc(1, 1, 0, 2), Arc(2, 2, w, 2), Arc(0, 0, 1, 4)>>,
               <<Arc(1, 0, 1, 2), Arc(0, 0, 2, 4), Arc(0, 0, 0, 3), Arc(2, 0, 0, 5)>>,
               <<Arc(0, 0, 0, 4), Arc(2, 1, w, 3)>>,
               <<Arc(0, 0, 0, 5), Arc(1, 1, 0, 1)>>,
               <<>>>>,
   final |-> <<Huge, Huge, 2, 0, 0>>]

\* Nothing is final, and an epsilon loop that never improves.
Loop(w) ==
  [start |-> 3,
   arcs  |-> <<<<Arc(0, 0, 0, 3), Arc(1, 1, w, 2)>>,
               <<Arc(0, 0, 0, 1), Arc(0, 0, 1, 2)>>,
               <<Arc(1, 1, 0, 1), Arc(2, 1, 0, 3), Arc(2, 2, w, 2)>>>>,
   final |-> <<Huge, Huge, Huge>>]

MCGraphs == {Diamond(w) : w \in ArcWeights} \cup {Loop(w) : w \in ArcWeights}

MCFeatureSets == [1 .. 2 -> [1 .. 2 -> AcCosts]]

Option(variant, beam, maxActive, minActive, allowPartial) ==
  [variant |-> variant, beam |-> beam, delta |-> 1, maxActive |-> maxActive, minActive |-> minActive,
   allowPartial |-> allowPartial]

MCOptionSets ==
  {Option("hlevel", Huge, Huge, 0, TRUE), Option("hlevel", 2, 2, 0, FALSE),
   Option("faster", Huge, Huge, 0, FALSE), Option("faster", 1, 3, 2, TRUE)}
=============================================================================
