------------------------------ MODULE SearchGraph ------------------------------
(***************************************************************************)
(* From a Kaldi model to a search graph: arc types are made, written and   *)
(* read; a network of phones in context is relabelled and expanded on      *)
(* demand, or its HMMs are used as transition models.                      *)
(***************************************************************************)
EXTENDS ArcTypes, HmmArrays, ArcExpandFst

CONSTANTS
  Networks,        \* [start, final, out], arcs labelled with positions in ilabel_info
  EntryCosts,      \* costs of the tokens that enter an HMM
  AcousticCosts,   \* the functions label -> cost a frame may have
  MaxFrames        \* bound: frames an HMM is fed

\* A network has its states' arcs in sequences, which lead to states of it.
ASSUME SearchGraphAssumption ==
  \A net \in Networks :
    /\ net.start \in DOMAIN net.out /\ DOMAIN net.out \subseteq Nat
    /\ net = [start |-> net.start, final |-> net.final, out |-> net.out]
    /\ \A q \in DOMAIN net.out :
         net.out[q] \in Seq([ilabel : Nat, olabel : Nat, weight : Int, nextstate : DOMAIN net.out])

VARIABLES
  network,         \* the network before it is relabelled
  hmm,             \* the arc type under test, or 0
  fast, generic,   \* its tokens in HMMTransitionModel and in GenericTransitionModel
  frames

hmmVars == <<hmm, fast, generic, frames>>
vars == <<typeVars, expandVars, network, hmmVars>>

\* fstrelabel --relabel_ipairs=log2phys
RelabelArc(arc) == [arc EXCEPT !.ilabel = PhysicalLabel(@)]
Relabel(net) ==
  [net EXCEPT !.out = [q \in DOMAIN @ |-> [k \in DOMAIN @[q] |-> RelabelArc(@[q][k])]]]

Init ==
  /\ TypesInit
  /\ ExpandInit
  /\ network = <<>>
  /\ hmm = 0 /\ fast = <<>> /\ generic = <<>> /\ frames = 0

Idle == made = "read" /\ network = <<>> /\ hmm = 0

OpenNetwork ==
  /\ Idle
  /\ network' \in {net \in Networks :
       \A q \in DOMAIN net.out : \A k \in DOMAIN net.out[q] :
         net.out[q][k].ilabel < Len(ilabel_info)}
  /\ Construct(Relabel(network'), arcs)
  /\ UNCHANGED <<typeVars, hmmVars>>

OpenHmm ==
  /\ Idle
  /\ ~opts.use_trans_ids   \* the labels of a state's arcs agree (make-arc-types.cc:116)
  /\ \E i \in DOMAIN arcs :
       /\ HmmAt(arcs, i).type = "leftToRight"
       /\ hmm' = i
       /\ fast' = NoTokens(HmmAt(arcs, i))
       /\ generic' = NoTokens(Generic(arcs[i]))
  /\ UNCHANGED <<typeVars, expandVars, network, frames>>

\* A token may enter (SearchArc::SetEntryToken), then the frame is expanded.
FeedHmm ==
  /\ hmm # 0 /\ frames < MaxFrames
  /\ \E cost \in EntryCosts \cup {MaxCost}, am \in AcousticCosts, tb \in LS :
       LET enter(tokens) == [tokens EXCEPT ![0] = Combine(@, [tb |-> tb, cost |-> cost], 0)]
       IN  /\ fast' = ExpandLeftToRight(HmmAt(arcs, hmm), enter(fast), am).tokens
           /\ generic' = ExpandGeneric(Generic(arcs[hmm]), enter(generic), am, MaxCost).tokens
  /\ frames' = frames + 1
  /\ UNCHANGED <<typeVars, expandVars, network, hmm>>

Next ==
  \/ MakeArcTypes /\ UNCHANGED <<expandVars, network, hmmVars>>
  \/ OpenNetwork
  \/ network # <<>> /\ UseExpansion /\ UNCHANGED <<typeVars, network, hmmVars>>
  \/ OpenHmm
  \/ FeedHmm

Spec == Init /\ [][Next]_vars
-----------------------------------------------------------------------------
\* What the expansion is right for: no epsilon arc before an emitting one, whichever
\* labels the table makes epsilons, and ...
EpsilonsLast(networks) ==
  \A net \in networks, info \in IlabelInfos :
    LET epsilon(label) == label = 0 \/ IsDisambiguation(info[label + 1])
    IN  \A q \in DOMAIN net.out : \A k, l \in DOMAIN net.out[q] :
          /\ k < l /\ net.out[q][k].ilabel < Len(info) /\ net.out[q][l].ilabel < Len(info)
          /\ epsilon(net.out[q][k].ilabel)
          => epsilon(net.out[q][l].ilabel)

\* ... no HMM of two states, which would be taken for an epsilon.
HmmsAreLong == \A phone \in DOMAIN Topology : Len(Topology[phone]) > 2

\* The expanded network, said at once: a place is a state of the network or a state
\* inside the k-th arc that leaves one.
Place(e) == IF e.arcstate = NoStateId THEN <<e.state>> ELSE <<e.state, e.index + 1, e.arcstate>>

ArcsOf(place) ==
  LET out == network.out[place[1]]
      inside(k) == HmmOf(out[k].ilabel)
  IN  IF Len(place) = 1
      THEN {[ilabel |-> 0, olabel |-> out[k].olabel, weight |-> out[k].weight,
             to |-> IF IsEpsilonLabel(out[k].ilabel) THEN <<out[k].nextstate>>
                    ELSE <<place[1], k, 0>>] : k \in DOMAIN out}
      ELSE LET arc == out[place[2]]
               type == HmmOf(arc.ilabel)
           IN  {[ilabel |-> a.label, olabel |-> 0, weight |-> a.weight,
                 to |-> IF a.to = type.numStates - 1 THEN <<arc.nextstate>>
                        ELSE <<place[1], place[2], a.to>>]
                : a \in {b \in ToSet(type.arcs) : b.from = place[3]}}

(***************************************************************************)
(* In whatever order a client asks and the cache forgets, an expanded      *)
(* state has the arcs and the final weight that replacing every arc of the *)
(* network by the HMM of its own window gives it, although types may be    *)
(* shared, written, read and scaled in between (ArcExpandFstImpl::Expand,  *)
(* arc-expand-fst.h:186).  Final() may have pushed the arcs a second time. *)
(* The networks have no epsilon arc before an emitting one.                *)
(***************************************************************************)
ExpansionIsEager ==
  \A s \in DOMAIN cache :
    LET e == elements[s + 1]
        meant(arc) == [ilabel |-> arc.ilabel, olabel |-> arc.olabel, weight |-> arc.weight,
                       to |-> Place(elements[arc.nextstate + 1])]
        pushed == cache[s].arcs
    IN  /\ cache[s].hasArcs
        /\ {meant(pushed[k]) : k \in DOMAIN pushed} = ArcsOf(Place(e))
        /\ Len(pushed) <= 2 * Len(Leave(e))
        /\ cache[s].hasFinal =>
             cache[s].final = IF e.arcstate = NoStateId THEN network.final[e.state] ELSE Zero
        /\ s # 0 \/ e = Source(network.start)

(***************************************************************************)
(* "Element.index indexes into arcs leaving element.state"                 *)
(* (arc-expand-fst.h:205): the arcs of a state of the network lead, one by *)
(* one and in order, to elements whose index seeks that arc (FindArc).     *)
(***************************************************************************)
ElementsNameTheirArc ==
  \A s \in DOMAIN cache :
    LET e == elements[s + 1]
    IN  e.arcstate = NoStateId =>
          \A k \in DOMAIN fst_.out[e.state] :
            LET d == elements[cache[s].arcs[k].nextstate + 1]
            IN  d.index = -1 \/ FindArc(d) = fst_.out[e.state][k]

(***************************************************************************)
(* The in-place recursion of a left-to-right HMM over the flat arrays      *)
(* (ExpandLeftToRight, FromFsts) agrees, on every frame, whatever enters   *)
(* and whatever the weights, with expanding the acceptor arc by arc: the   *)
(* tokens that leave (n = 3) cost the same, with the exit weight.  Inside, *)
(* a fast token has not yet paid for its next transition: a generic one is *)
(* in the state it has come to, by leaving a state or by looping.          *)
(***************************************************************************)
LeftToRightIsGeneric ==
  hmm # 0 =>
    LET weights == HmmAt(arcs, hmm).weights
        left(n)   == IF n = 0 THEN MaxCost ELSE Plus(fast[n].cost, weights[2 * n])
        looped(n) == IF n = 3 THEN MaxCost ELSE Plus(fast[n + 1].cost, weights[2 * n + 1])
    IN  \A n \in 0 .. 3 : generic[n].cost = Min({left(n), looped(n)})
=============================================================================
