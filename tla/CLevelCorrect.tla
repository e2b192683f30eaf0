--------------------------- MODULE CLevelCorrect ---------------------------
(***************************************************************************)
(* What the search of CLevelDecoder promises: a dynamic-programming        *)
(* reference for its costs, the coherence of its lists and queue, and the  *)
(* mapping to the abstract client of the lattice, TokenLattice.            *)
(***************************************************************************)
EXTENDS CLevelDecoder

CONSTANT Costs      \* costs with which a token may arrive in a search state

VARIABLE viterbi    \* the reference costs after `frame` frames

-----------------------------------------------------------------------------
(* The Viterbi recursion *)

\* The arcs of an HMM that consume a frame.
Topology(hmm) ==
  IF hmm.type = "leftToRight"
    THEN {[from |-> n - 1, to |-> n, weight |-> hmm.weights[2 * n - 2], label |-> hmm.labels[n]] : n \in 1 .. 3}
         \cup {[from |-> n, to |-> n, weight |-> hmm.weights[2 * n - 1], label |-> hmm.labels[n]] : n \in 1 .. 3}
    ELSE {arc \in Range(hmm.arcs) : arc.from # hmm.numStates}

Least(S) == Min(S \cup {MaxCost})

\* The cheapest sequence of epsilon arcs between two states of a network w.
EpsilonDistance ==
  [w \in Networks |->
     LET Q   == DOMAIN w.final
         eps == {a \in Range(w.arcs) : IsNonEmitting(Hmms[a.ilabel])}
         Relax(d, n) == [p, q \in Q |->
           Min({d[p, q]} \cup {Plus(d[p, a.src], a.weight) : a \in {b \in eps : b.dst = q}})]
     IN  FoldLeft(Relax, [p, q \in Q |-> IF p = q THEN 0 ELSE MaxCost], [n \in Q |-> n])]

Closure(c) == [q \in States |-> Least({Plus(c[p], EpsilonDistance[net][p, q]) : p \in States})]

EmittingIds == {a \in ArcIds : ~IsNonEmitting(Hmm(a))}

StartCosts ==
  [states |-> Closure([q \in States |-> IF q = net.start THEN 0 ELSE MaxCost]),
   arcs   |-> [a \in EmittingIds |-> [n \in 0 .. NumStates(Hmm(a)) |-> MaxCost]]]

\* One frame with acoustic costs am.
FrameCosts(c, am) ==
  LET from(a, n) == IF n = 0 THEN Plus(c.states[net.arcs[a].src], net.arcs[a].weight) ELSE c.arcs[a][n]
      arcs == [a \in EmittingIds |-> [n \in 0 .. NumStates(Hmm(a)) |->
                 Least({Plus(from(a, t.from), t.weight + am[t.label]) :
                          t \in {u \in Topology(Hmm(a)) : u.to = n}})]]
      exits(q) == {Plus(arcs[a][NumStates(Hmm(a))], GetExitWeight(Hmm(a))) :
                     a \in {b \in EmittingIds : net.arcs[b].dst = q}}
  IN  [states |-> Closure([q \in States |-> Least(exits(q))]), arcs |-> arcs]

\* The decoder with a history variable: the cost of the best path to every point
\* of the network after `frame` frames.
HInit == Init /\ viterbi = StartCosts

HNext ==
  /\ Next
  /\ viterbi' = CASE frame' = frame + 1 -> FrameCosts(viterbi, utt[frame + 1])
                   [] frame' < frame     -> StartCosts
                   [] OTHER              -> viterbi

hvars == <<vars, viterbi>>

HSpec == HInit /\ [][HNext]_hvars

\* The decoder is one thread that blocks on nothing.
FairSpec == HSpec /\ WF_hvars(HNext)

-----------------------------------------------------------------------------
(* The abstract client of the lattice *)

StateHeld == {token[q].tb : q \in States} \ {NoLS}
HeldBy(a) == {tokens[a][n].tb : n \in DOMAIN tokens[a]} \ {NoLS}
ArcHeld == UNION {HeldBy(a) : a \in ArcIds}

Mode == CASE loc.at \in {"idle", "fatal"}              -> loc.at
          [] loc.at = "cleanup" /\ result.lattice      -> "finished"
          [] OTHER                                     -> "search"

TL == INSTANCE TokenLattice WITH stateHeld <- StateHeld, arcHeld <- ArcHeld, mode <- Mode,
                                 GcChecks <- FALSE

-----------------------------------------------------------------------------
(* Properties *)

\* The decoder drives the lattice as TokenLattice allows: it gives AddArc a source
\* one of its tokens holds, collects with every held state among the roots, and
\* when a collection runs no search state holds a token (clevel-decoder.h:752-765).
ImplementsTokenLattice == TL!Spec

\* Without pruning, the cost of every token is the Viterbi cost of its point of
\* the network: list orders, in-place updates and repeated epsilon relaxations
\* lose no hypothesis and invent none.
ViterbiExact ==
  loc.at = "frame" =>
      /\ \A q \in States : token[q].cost = viterbi.states[q]
      /\ \A a \in EmittingIds : \A n \in DOMAIN tokens[a] : tokens[a][n].cost = viterbi.arcs[a][n]

\* The network states to which the arcs with these output labels lead.
ReadBy(labels) ==
  FoldLeft(LAMBDA from, l : {arc.dst : arc \in {b \in Range(net.arcs) : b.src \in from /\ b.olabel = l}},
           {net.start}, labels)

\* Without pruning, EndDecode finds the best accepting path, and the best sequence
\* is read off a path to the state it found: in either lattice, whatever was
\* collected or reused behind the tokens since it was written.
BestResult ==
  loc.at = "cleanup" =>
    LET best == Least({Plus(viterbi.states[q], net.final[q]) : q \in States})
    IN  /\ best < MaxCost => /\ result.state # Null
                             /\ Plus(result.token.cost, net.final[result.state]) = best
        /\ result.state # Null => result.state \in ReadBy(result.sequence)

\* Pruning may lose hypotheses but never makes one cheaper than a path is.
NeverBelowViterbi ==
  loc.at = "frame" =>
      /\ \A q \in States : token[q].cost >= viterbi.states[q]
      /\ \A a \in EmittingIds : \A n \in DOMAIN tokens[a] : tokens[a][n].cost >= viterbi.arcs[a][n]

\* A search state's token agrees with the lattice: it has a lattice state of its
\* own, whose forward cost is the token's.
TokensMatchLattice ==
  loc.at # "cleanup" =>
    \A q \in States : Active(token[q]) =>
      /\ token[q].cost = node[token[q].tb].fwd
      /\ \A p \in States : token[p].tb = token[q].tb => p = q

\* Between frames, without pruning, the forward cost of every lattice state
\* is that of its predecessor plus the arc's weight, so the weights of
\* the lattice's best path add up to its cost.
TracebackAddsUp ==
  loc.at = "frame" =>
    \A x \in Used : ~IsStart(x) =>
      node[x].fwd = node[node[x].best.prev].fwd + node[x].best.weight

\* The active lists and the objects in them agree: an active search state is in
\* active_states_ once, at its index_; an arc with a token is in active_arcs_ once,
\* which is what makes the arcs' tokens enough roots for a collection.
ListsCoherent ==
  /\ \A q \in States :
       /\ Active(token[q]) <=> position[q] # -1
       /\ position[q] # -1 => activeStates[position[q] + 1] = q
  /\ \A i \in DOMAIN activeStates : activeStates[i] # Null => position[activeStates[i]] = i - 1
  /\ \A a \in ArcIds :
       /\ Cardinality({i \in DOMAIN activeArcs : activeArcs[i] = a}) = IF arcActive[a] THEN 1 ELSE 0
       /\ HeldBy(a) # {} => arcActive[a]

\* On a network without dead ends some arc survives every frame, so SwapArcs has a
\* best arc, and the allocation counts agree at the end of every utterance.
NeverFails == loc.at \notin {"undefined", "fatal"}

\* On a network without epsilon cycles every utterance comes to an end.
Terminates == loc.at # "idle" ~> loc.at = "idle"

-----------------------------------------------------------------------------
(* What comments say and the code does not do *)

\* The epsilon expansion is "a generic single source shortest path algorithm"
\* (clevel-decoder.h:1254), which ends when no arrival improves a state.
EpsilonExpansionEnds == loc.at = "epsilon" ~> loc.at = "frame"

\* Without a final state the decoder backs off to the best of the non-final ones
\* (constants.h:39, "backoff to non-final final").
BackoffFindsBest ==
  loc.at = "cleanup" /\ (\A q \in States : Active(token[q]) => net.final[q] = MaxCost) =>
    result.token.cost = Least({token[q].cost : q \in States})

=============================================================================
