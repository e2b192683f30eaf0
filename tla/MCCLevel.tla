------------------------------ MODULE MCCLevel ------------------------------
(* Small networks, HMMs and utterances for CLevelDecoder. *)
EXTENDS CLevelCorrect

CONSTANTS
  Weights,     \* weights of the network arcs that are varied
  AmCosts,     \* acoustic costs
  Frames       \* rows of an utterance

Arc(src, dst, ilabel, olabel, weight) ==
  [src |-> src, dst |-> dst, ilabel |-> ilabel, olabel |-> olabel, weight |-> weight]

HmmArc(from, to, weight, label) == [from |-> from, to |-> to, weight |-> weight, label |-> label]

\* Input labels: 0 is epsilon, 1 and 2 are ergodic HMMs (one of one frame or more,
\* one of exactly one frame), 3 is a left-to-right HMM, at least three frames long.
MCHmms ==
  0 :> [type |-> "epsilon"] @@
  1 :> [type |-> "ergodic", numStates |-> 5,
        arcs |-> <<HmmArc(0, 5, 1, 1), HmmArc(0, 1, 0, 1), HmmArc(1, 1, 0, 2), HmmArc(1, 5, 0, 1)>>] @@
  2 :> [type |-> "ergodic", numStates |-> 5, arcs |-> <<HmmArc(0, 5, 0, 2)>>] @@
  3 :> [type |-> "leftToRight", labels |-> <<1, 2, 1>>,
        weights |-> [n \in 0 .. 6 |-> IF n \in {1, 5, 6} THEN 1 ELSE 0]]

\* Two words and a back-off state 3; the epsilon arcs form a diamond (1-3-4, with
\* the direct arc 1-4 taken first), so that 4 is reached again after it was
\* expanded, and every loop emits.
Diamond(a, b, c) ==
  [start |-> 1,
   arcs  |-> <<Arc(1, 4, 0, 0, a), Arc(1, 3, 0, 0, b), Arc(3, 4, 0, 0, c), Arc(4, 5, 0, 0, 0),
               Arc(4, 1, 1, 1, 0), Arc(5, 1, 2, 2, a), Arc(3, 5, 2, 1, b)>>,
   final |-> <<MaxCost, MaxCost, MaxCost, 0, 1>>]

DiamondNetworks == {Diamond(a, b, c) : a, b \in Weights, c \in Weights \cup {-1}}

\* The same words with a left-to-right HMM in parallel with an ergodic one.
Parallel(a, b) ==
  [start |-> 1,
   arcs  |-> <<Arc(1, 2, 3, 1, a), Arc(1, 2, 1, 2, b), Arc(2, 1, 0, 0, 0), Arc(2, 2, 2, 1, a)>>,
   final |-> <<MaxCost, 0>>]

ParallelNetworks == {Parallel(a, b) : a, b \in Weights}

\* States 1 and 2 are connected both ways by epsilon arcs.
EpsilonCycle(a) ==
  [start |-> 1, arcs |-> <<Arc(1, 2, 0, 0, a), Arc(2, 1, 0, 0, a), Arc(1, 1, 2, 1, 0)>>, final |-> <<0, 0>>]

CycleNetworks == {EpsilonCycle(a) : a \in Weights}

\* No state is final: the utterance stops in the middle of the grammar.
UnfinishedNetworks == {[w EXCEPT !.final = <<MaxCost, MaxCost, MaxCost, MaxCost, MaxCost>>] : w \in DiamondNetworks}

AllNetworks == DiamondNetworks \cup ParallelNetworks

\* The last row of an utterance is never read.
AllUtterances ==
  {u \in [1 .. Frames -> [1 .. 2 -> AmCosts]] : u[Frames] = [l \in 1 .. 2 |-> 0]}

MCCosts == -3 .. 15
=============================================================================
