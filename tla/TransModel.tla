---------------------------- MODULE TransModel ----------------------------
(***************************************************************************)
(* How the tokens inside a search arc advance by one frame                 *)
(* (dcd/hmm-transition-model.h).  An input label stands for an HMM:        *)
(*   [type |-> "epsilon"]                                                  *)
(*   [type |-> "leftToRight", weights |-> 0..6 -> Int, labels |-> 1..3]    *)
(*   [type |-> "ergodic", numStates |-> n, arcs |-> sequence of            *)
(*      [from, to, weight, label]], the arcs of state 0 first.             *)
(* am[l] is the acoustic cost of HMM state label l on the current frame    *)
(* (Score).                                                                *)
(***************************************************************************)
EXTENDS Token, Sequences, SequencesExt

\* The acoustic labels of an HMM's states.
HmmLabels(hmm) == CASE hmm.type = "epsilon"     -> {}
                 [] hmm.type = "leftToRight" -> {hmm.labels[n] : n \in 1 .. 3}
                 [] hmm.type = "ergodic"     -> {hmm.arcs[k].label : k \in DOMAIN hmm.arcs}

HmmOK(hmm) ==
  \/ hmm.type = "epsilon"
  \/ /\ hmm.type = "leftToRight"
     /\ hmm.weights \in [0 .. 6 -> Int] /\ hmm.labels \in [1 .. 3 -> HmmLabels(hmm)]
  \/ /\ hmm.type = "ergodic" /\ hmm.numStates \in Nat
     /\ hmm.arcs \in Seq([from : 0 .. hmm.numStates, to : 0 .. hmm.numStates, weight : Int, label : HmmLabels(hmm)])

IsNonEmitting(hmm) == hmm.type = "epsilon"

NumStates(hmm) == CASE hmm.type = "epsilon"     -> 0
                    [] hmm.type = "leftToRight" -> 3
                    [] hmm.type = "ergodic"     -> hmm.numStates

GetExitWeight(hmm) == IF hmm.type = "leftToRight" THEN hmm.weights[6] ELSE 0

\* The entry token and one per HMM state.
NoTokens(hmm) == [n \in 0 .. NumStates(hmm) |-> Inactive]

BestCost(tokens) == Min({tokens[n].cost : n \in DOMAIN tokens})

\* The array is updated in place from its end, so each state reads the token its
\* predecessor had on the last frame.  A tie goes to the predecessor.
ExpandLeftToRight(hmm, tokens, am) ==
  LET loop(n) == Plus(tokens[n].cost, hmm.weights[2 * n - 1] + am[hmm.labels[n]])
      prev(n) == Plus(tokens[n - 1].cost, hmm.weights[2 * n - 2] + am[hmm.labels[n]])
      next    == [n \in 0 .. 3 |->
                    IF n = 0 THEN Inactive
                    ELSE IF ~Active(tokens[n]) /\ ~Active(tokens[n - 1]) THEN tokens[n]
                    ELSE IF loop(n) < prev(n) THEN [tokens[n] EXCEPT !.cost = loop(n)]
                    ELSE [tb |-> tokens[n - 1].tb, cost |-> prev(n)]]
  IN  [tokens |-> next, best |-> BestCost(next)]

\* Every state takes the best token an arc of the topology brings it within the
\* beam, the first of equals in arc order; the token of the last state goes
\* nowhere.  (The code clears a destination whose token is above the beam.)
ExpandGeneric(hmm, tokens, am, threshold) ==
  LET arc(k)  == hmm.arcs[k]
      cost(k) == Plus(tokens[arc(k).from].cost, arc(k).weight + am[arc(k).label])
      into(n) == {k \in DOMAIN hmm.arcs :
                    /\ arc(k).to = n /\ arc(k).from # hmm.numStates
                    /\ Active(tokens[arc(k).from]) /\ cost(k) <= threshold /\ cost(k) < MaxCost}
      best(n) == CHOOSE k \in into(n) :
                   \A l \in into(n) : cost(k) < cost(l) \/ (cost(k) = cost(l) /\ k <= l)
      next    == [n \in 0 .. hmm.numStates |->
                    IF into(n) = {} THEN Inactive
                    ELSE [tb |-> tokens[arc(best(n)).from].tb, cost |-> cost(best(n))]]
  IN  [tokens |-> next, best |-> BestCost(next)]

\* Mutant: the entry token is not cleared when it has moved on.
ExpandKeepingEntry(hmm, tokens, am, threshold) ==
  LET r == IF hmm.type = "leftToRight" THEN ExpandLeftToRight(hmm, tokens, am)
           ELSE ExpandGeneric(hmm, tokens, am, threshold)
  IN  [r EXCEPT !.tokens[0] = tokens[0]]

\* HMMTransitionModel::Expand: the tokens on the next frame and the best cost.
Expand(hmm, tokens, am, threshold) ==
  IF hmm.type = "leftToRight" THEN ExpandLeftToRight(hmm, tokens, am)
  ELSE ExpandGeneric(hmm, tokens, am, threshold)

=============================================================================
