--------------------------- MODULE CLevelDecoder ---------------------------
(***************************************************************************)
(* The token-passing search of dcd/clevel-decoder.h over a static network. *)
(* A frame takes the tokens of the active search states into their         *)
(* emitting arcs, collects the lattice now and then, advances the tokens   *)
(* inside the arcs, prunes, lets tokens leave the arcs into search states, *)
(* and closes the search states under epsilon arcs.                        *)
(*                                                                         *)
(* A step is one iteration of one of these loops, so that it calls         *)
(* Lattice::AddArc at most once.  Search states are created on demand in   *)
(* the code and start blank; here every one exists from the start.         *)
(***************************************************************************)
EXTENDS SimpleLattice, TransModel

CONSTANTS
  Networks,       \* networks to search: [start, arcs, final], see NetworkOK
  Hmms,           \* the transition model: input label -> HMM
  Utterances,     \* utterances: sequences of rows, HMM state label -> acoustic cost
  MaxUtterances,  \* bound: how many utterances one decoder is given
  LatticeClasses, \* the lattices L to search with: "Lattice", "SimpleLattice"
  Beam,           \* SearchOptions::beam
  Band,           \* SearchOptions::band ("max_arcs")
  GcPeriod,       \* SearchOptions::gc_period
  PruneEps        \* SearchOptions::prune_eps

\* Network states are 1 .. n and arcs the positions of net.arcs, in the order the
\* FST iterates over them; a state that is not final costs kMaxCost or more.
\* SearchState::Init refuses a negative epsilon self-loop.
NetworkOK(w) ==
  /\ w.final \in Seq(Int) /\ w.start \in DOMAIN w.final
  /\ w.arcs \in Seq([src : DOMAIN w.final, dst : DOMAIN w.final, ilabel : DOMAIN Hmms,
                     olabel : OLabels, weight : Int])
  /\ \A a \in Range(w.arcs) : IsNonEmitting(Hmms[a.ilabel]) /\ a.src = a.dst => a.weight >= 0

ASSUME DecoderAssumption ==
  /\ \A i \in DOMAIN Hmms : HmmOK(Hmms[i])
  /\ \A w \in Networks : NetworkOK(w)
  /\ \A u \in Utterances : u \in Seq([UNION {HmmLabels(Hmms[i]) : i \in DOMAIN Hmms} -> Int]) \ {<<>>}
  /\ {MaxUtterances, Beam, Band, GcPeriod} \subseteq Nat
  /\ PruneEps \in BOOLEAN
  /\ LatticeClasses \subseteq {"Lattice", "SimpleLattice"}

Null == 0        \* an emptied slot of an active list, and no state

VARIABLES
  net,            \* *fst_
  class,          \* the template argument L
  utt,            \* the Decodable: one row per frame
  frame,          \* HMMTransitionModel::index_
  time,           \* time_
  utterances,     \* how many utterances have been decoded
  token,          \* SearchState::token_
  position,       \* SearchState::index_
  activeStates,   \* active_states_
  inEpsQueue,     \* SearchState::in_eps_queue_
  epsQueue,       \* the EpsQueue of ExpandEpsilonArcs
  tokens,         \* SearchArc::tokens_ of the emitting arcs
  arcActive,      \* SearchArc::time_ # -1
  activeArcs,     \* active_arcs_
  bestStateCost,  \* best_state_cost_
  result,         \* what EndDecode found: a state, its token, whether a lattice was asked for
  loc             \* control: the step, loop positions, thresholds

stateVars == <<token, position, activeStates>>
epsVars   == <<inEpsQueue, epsQueue>>
arcVars   == <<tokens, arcActive, activeArcs>>
netVars   == <<net, class>>
uttVars   == <<netVars, utt, frame, time, utterances>>
endVars   == <<bestStateCost, result>>
vars == <<latticeVars, stateVars, epsVars, arcVars, uttVars, endVars, loc>>

States == DOMAIN net.final
ArcIds == DOMAIN net.arcs
Hmm(a) == Hmms[net.arcs[a].ilabel]

\* SearchState::eps_arcs_ and arcs_ of every state of a network, in its order: the
\* arcs that do not emit and those that do.
ArcsInOrder(w, silent) ==
  [q \in DOMAIN w.final |->
     Compact([a \in DOMAIN w.arcs |-> a],
             {a \in DOMAIN w.arcs : w.arcs[a].src = q /\ IsNonEmitting(Hmms[w.arcs[a].ilabel]) = silent})]

EpsilonArcsOf  == [w \in Networks |-> ArcsInOrder(w, TRUE)]
EmittingArcsOf == [w \in Networks |-> ArcsInOrder(w, FALSE)]

EpsilonArcs(q)  == EpsilonArcsOf[net][q]
EmittingArcs(q) == EmittingArcsOf[net][q]

NoResult == [state |-> Null, token |-> Inactive, lattice |-> FALSE, sequence |-> <<>>]

Fresh(w) ==
  /\ token = [q \in DOMAIN w.final |-> Inactive]
  /\ position = [q \in DOMAIN w.final |-> -1]
  /\ inEpsQueue = [q \in DOMAIN w.final |-> FALSE]
  /\ tokens = [a \in DOMAIN w.arcs |-> NoTokens(Hmms[w.arcs[a].ilabel])]
  /\ arcActive = [a \in DOMAIN w.arcs |-> FALSE]

Init ==
  /\ usedList = <<>> /\ pool = {} /\ outstanding = 0
  /\ index = [x \in LS |-> -1] /\ node = [x \in LS |-> Blank]
  /\ net \in Networks /\ class \in LatticeClasses /\ Fresh(net)
  /\ utt = <<>> /\ frame = 0 /\ time = -1 /\ utterances = 0
  /\ activeStates = <<>> /\ activeArcs = <<>> /\ epsQueue = <<>>
  /\ bestStateCost = MaxCost /\ result = NoResult
  /\ loc = [at |-> "idle", i |-> 1, j |-> 0, best |-> MaxCost, threshold |-> MaxCost,
            state |-> Null, cost |-> MaxCost]

\* Control passes to a loop whose locals are fresh.
Goto(at, threshold) ==
  loc' = [loc EXCEPT !.at = at, !.i = 1, !.j = 0, !.best = MaxCost, !.threshold = threshold,
                     !.state = Null]

\* The state Lattice::NewState returns.  Which address it has makes no difference.
NewLatticeState == CHOOSE x \in IF class = "Lattice" THEN Allocatable ELSE LS \ Used : TRUE

\* A state that is in no list joins active_states_.
JoinActiveStates(q) ==
  IF position[q] = -1
    THEN /\ position' = [position EXCEPT ![q] = Len(activeStates)]
         /\ activeStates' = Append(activeStates, q)
    ELSE UNCHANGED <<position, activeStates>>

\* A state takes a token, unless it has one that is as good.
Activate(q, tk) ==
  /\ token' = [token EXCEPT ![q] = IF Active(@) /\ @.cost <= tk.cost THEN @ ELSE tk]
  /\ JoinActiveStates(q)

-----------------------------------------------------------------------------
(* Decode, BeginDecode *)

\* SetInput, then BeginDecode up to its ExpandEpsilonArcs: a token of cost 0 on
\* the start state, which Activate puts in the list.
BeginDecode ==
  /\ loc.at = "idle" /\ utterances < MaxUtterances
  /\ \E u \in Utterances : utt' = u
  /\ frame' = 0
  /\ LET x == NewLatticeState IN
       /\ IF class = "Lattice" THEN CreateStartState(x) ELSE SimpleCreateStartState(x)
       /\ Activate(net.start, [tb |-> x, cost |-> 0])
  /\ result' = NoResult
  /\ Goto("epsilon", MaxCost)
  /\ UNCHANGED <<epsVars, arcVars, netVars, time, utterances, bestStateCost>>

\* The test of the frame loop.  Done is IsLastFrame(index_).
NextFrame ==
  /\ loc.at = "frame"
  /\ IF frame = Len(utt) - 1
       THEN Goto("end", MaxCost) /\ time' = time
       ELSE Goto("states", Plus(bestStateCost, Beam)) /\ time' = time + 1
  /\ UNCHANGED <<latticeVars, stateVars, epsVars, arcVars, netVars, utt, frame, utterances, endVars>>

-----------------------------------------------------------------------------
(* A token arrives in a search state *)

\* TokenTpl::Combine into the token of q, in either lattice; tb is its lattice
\* state, a new one if it has none.
CombineToken(q, src, tb, cost, olabel) ==
  CASE class = "Lattice" /\ Active(token[q])        -> CombineActive(src, tb, cost, olabel)
    [] class = "Lattice" /\ ~Active(token[q])       -> CombineNew(src, tb, cost, olabel)
    [] class = "SimpleLattice" /\ Active(token[q])  -> SimpleCombineActive(src, tb, cost, olabel)
    [] class = "SimpleLattice" /\ ~Active(token[q]) -> SimpleCombineNew(src, tb, cost, olabel)

\* SearchState::SetToken: an exit token at lattice state src enters q.
SetToken(q, src, cost, olabel) ==
  LET tb == IF Active(token[q]) THEN token[q].tb ELSE NewLatticeState
  IN  /\ CombineToken(q, src, tb, cost, olabel)
      /\ token' = [token EXCEPT ![q] = [tb |-> tb, cost |-> node'[tb].fwd]]
      /\ JoinActiveStates(q)

ExpandToFollowingState(a, src, cost) == SetToken(net.arcs[a].dst, src, cost, net.arcs[a].olabel)

\* The tokens of an arc when tk has entered it.
SetEntryToken(a, tk) ==
  LET old == IF arcActive[a] THEN tokens[a] ELSE NoTokens(Hmm(a))
  IN  [old EXCEPT ![0] = Combine(@, tk, net.arcs[a].weight)]

GetExitCost(a) == Plus(tokens[a][NumStates(Hmm(a))].cost, GetExitWeight(Hmm(a)))

\* SearchArc::Deactivate
DeactivateArc(a) ==
  /\ tokens' = [tokens EXCEPT ![a] = NoTokens(Hmm(a))]
  /\ arcActive' = [arcActive EXCEPT ![a] = FALSE]

-----------------------------------------------------------------------------
(* ExpandEpsilonArcs *)

\* Every active state with epsilon arcs is queued.
QueueStates ==
  /\ loc.at = "epsilon"
  /\ epsQueue' = Compact(activeStates, {q \in States : EpsilonArcs(q) # <<>>})
  /\ inEpsQueue' = [q \in States |-> inEpsQueue[q] \/ q \in Range(epsQueue')]
  /\ loc' = [loc EXCEPT !.at = "pop", !.threshold = MaxCost,
               !.best = Min({MaxCost} \cup {token[q].cost : q \in Range(activeStates)})]
  /\ UNCHANGED <<latticeVars, stateVars, arcVars, uttVars, endVars>>

PopState ==
  /\ loc.at = "pop" /\ epsQueue # <<>>
  /\ LET q == Head(epsQueue) IN
       /\ inEpsQueue' = [inEpsQueue EXCEPT ![q] = FALSE]
       /\ loc' = IF token[q].cost < loc.threshold
                   THEN [loc EXCEPT !.at = "relax", !.state = q, !.i = 1, !.cost = MaxCost]
                   ELSE loc
  /\ epsQueue' = Tail(epsQueue)
  /\ UNCHANGED <<latticeVars, stateVars, arcVars, uttVars, endVars>>

\* Mutants: only a state that was not active before is queued; the expanded state
\* is queued again.
EnqueueNew(q) ==
  IF EpsilonArcs(q) # <<>> /\ ~inEpsQueue[q] /\ position[q] = -1
    THEN inEpsQueue' = [inEpsQueue EXCEPT ![q] = TRUE] /\ epsQueue' = Append(epsQueue, q)
    ELSE UNCHANGED epsVars

EnqueueSource(q) ==
  IF ~inEpsQueue[loc.state]
    THEN inEpsQueue' = [inEpsQueue EXCEPT ![loc.state] = TRUE] /\ epsQueue' = Append(epsQueue, loc.state)
    ELSE UNCHANGED epsVars

\* A state with epsilon arcs that is not in the queue joins it.
Enqueue(q) ==
  IF EpsilonArcs(q) # <<>> /\ ~inEpsQueue[q]
    THEN /\ inEpsQueue' = [inEpsQueue EXCEPT ![q] = TRUE]
         /\ epsQueue' = Append(epsQueue, q)
    ELSE UNCHANGED epsVars

\* One iteration of SearchState::ExpandEpsilonArcs.  The destination is queued
\* again whether or not the arrival improved it.
RelaxArc ==
  /\ loc.at = "relax" /\ loc.i <= Len(EpsilonArcs(loc.state))
  /\ LET a     == EpsilonArcs(loc.state)[loc.i]
         cost  == Plus(token[loc.state].cost, net.arcs[a].weight)
         limit == IF PruneEps THEN Plus(loc.best, Beam) ELSE MaxCost
     IN  IF cost < limit
           THEN /\ ExpandToFollowingState(a, token[loc.state].tb, cost)
                /\ loc' = [loc EXCEPT !.i = @ + 1, !.cost = Min({@, cost})]
                /\ Enqueue(net.arcs[a].dst)
           ELSE /\ loc' = [loc EXCEPT !.i = @ + 1]
                /\ UNCHANGED <<latticeVars, stateVars, epsVars>>
  /\ UNCHANGED <<arcVars, uttVars, endVars>>

\* Back in the decoder's loop: a better arrival tightens the threshold.
EndRelax ==
  /\ loc.at = "relax" /\ loc.i > Len(EpsilonArcs(loc.state))
  /\ loc' = IF loc.cost < loc.best
              THEN [loc EXCEPT !.at = "pop", !.best = loc.cost, !.threshold = Plus(loc.cost, Beam)]
              ELSE [loc EXCEPT !.at = "pop"]
  /\ UNCHANGED <<latticeVars, stateVars, epsVars, arcVars, uttVars, endVars>>

\* The queue is empty.  In the frame loop, but not in BeginDecode, the transition
\* model then moves to the next frame.
EndEpsilon ==
  /\ loc.at = "pop" /\ epsQueue = <<>>
  /\ bestStateCost' = loc.best
  /\ frame' = IF time = -1 THEN frame ELSE frame + 1
  /\ Goto("frame", MaxCost)
  /\ UNCHANGED <<latticeVars, stateVars, epsVars, arcVars, netVars, utt, time, utterances, result>>

-----------------------------------------------------------------------------
(* ExpandActiveStates *)

\* The emitting arcs of q that its token enters.
ExpandIntoArcs(q, threshold) ==
  Compact(EmittingArcs(q), {a \in ArcIds : Plus(token[q].cost, net.arcs[a].weight) < threshold})

\* SearchState::Deactivate of the state at position i of the list.
DeactivateState(i) ==
  /\ token' = [token EXCEPT ![activeStates[i]] = Inactive]
  /\ position' = [position EXCEPT ![activeStates[i]] = -1]
  /\ activeStates' = [activeStates EXCEPT ![i] = Null]

\* One active state enters those of its emitting arcs that are within the beam,
\* and is deactivated.
ExpandActiveState ==
  /\ loc.at = "states" /\ loc.i <= Len(activeStates)
  /\ LET q       == activeStates[loc.i]
         entered == IF token[q].cost > loc.threshold THEN <<>> ELSE ExpandIntoArcs(q, loc.threshold)
         entry(a) == SetEntryToken(a, token[q])
         cost    == Min({MaxCost} \cup {entry(a)[0].cost : a \in Range(entered)})
     IN  /\ tokens' = [a \in ArcIds |-> IF a \in Range(entered) THEN entry(a) ELSE tokens[a]]
         /\ arcActive' = [a \in ArcIds |-> arcActive[a] \/ a \in Range(entered)]
         /\ activeArcs' = activeArcs \o Compact(entered, {a \in ArcIds : ~arcActive[a]})
         /\ loc' = [loc EXCEPT !.i = @ + 1, !.threshold = Min({@, Plus(cost, Beam)})]
  /\ DeactivateState(loc.i)
  /\ UNCHANGED <<latticeVars, epsVars, uttVars, endVars>>

EndStates ==
  /\ loc.at = "states" /\ loc.i > Len(activeStates)
  /\ activeStates' = <<>>
  /\ IF GcPeriod > 0 /\ (time + 1) % GcPeriod = 0 THEN Goto("gc", MaxCost) ELSE Goto("arcs", MaxCost)
  /\ UNCHANGED <<latticeVars, token, position, epsVars, arcVars, uttVars, endVars>>

\* Mutant: the token of the last HMM state is not marked.
ArcMarksButLast(a) == {tokens[a][n].tb : n \in 0 .. NumStates(Hmm(a)) - 1} \ {NoLS}

\* What the tokens in an arc point to (SearchArc::GcMark).
ArcMarks(a) == {tokens[a][n].tb : n \in 0 .. NumStates(Hmm(a))} \ {NoLS}

\* Everything that does not lie behind the roots is collected, by Lattice.
CollectFrom(roots) ==
  IF class = "Lattice" THEN \E marked \in {Reachable(roots)} : Sweep(marked) ELSE SimpleSweep

\* gc_check is off, as by default; TokenLattice has it.
Gc ==
  /\ loc.at = "gc"
  /\ \E roots \in {UNION {ArcMarks(a) : a \in Range(activeArcs)}} : CollectFrom(roots)
  /\ Goto("arcs", MaxCost)
  /\ UNCHANGED <<stateVars, epsVars, arcVars, uttVars, endVars>>

-----------------------------------------------------------------------------
(* ExpandActiveArcs *)

\* ExpandActiveArcs_ArcExpansion on one arc: its tokens advance by a frame, and it
\* is deactivated if none is within the beam of the best arc so far.
ExpandActiveArc ==
  /\ loc.at = "arcs" /\ loc.i <= Len(activeArcs)
  /\ LET a == activeArcs[loc.i]
         r == Expand(Hmm(a), tokens[a], utt[frame + 1], loc.threshold)
     IN  IF r.best >= loc.threshold
           THEN /\ DeactivateArc(a)
                /\ activeArcs' = [activeArcs EXCEPT ![loc.i] = Null]
                /\ loc' = [loc EXCEPT !.i = @ + 1]
           ELSE /\ tokens' = [tokens EXCEPT ![a] = r.tokens]
                /\ loc' = IF r.best < loc.best
                            THEN [loc EXCEPT !.i = @ + 1, !.j = loc.i, !.best = r.best,
                                             !.threshold = Plus(r.best, Beam)]
                            ELSE [loc EXCEPT !.i = @ + 1]
                /\ UNCHANGED <<arcActive, activeArcs>>
  /\ UNCHANGED <<latticeVars, stateVars, epsVars, uttVars, endVars>>

\* The cost at (zero-based) position Band of the surviving arcs' costs in order.
ComputeBand ==
  LET live     == {i \in DOMAIN activeArcs : activeArcs[i] # Null}
      cost(i)  == BestCost(tokens[activeArcs[i]])
      below(c) == Cardinality({i \in live : cost(i) < c})
      upto(c)  == Cardinality({i \in live : cost(i) <= c})
  IN  IF Cardinality(live) > Band
        THEN CHOOSE c \in {cost(i) : i \in live} : below(c) <= Band /\ Band < upto(c)
        ELSE MaxCost

\* The positions i and j of active_arcs_ are exchanged.
Swapped(i, j) == [activeArcs EXCEPT ![i] = activeArcs[j], ![j] = activeArcs[i]]

\* The threshold is the band when more arcs were expanded than it allows.
BandThreshold == IF Len(activeArcs) > Band THEN ComputeBand ELSE loc.threshold

\* The best arc is swapped to the front and the band replaces the beam's
\* threshold if more arcs were expanded than it allows.  When no arc survived,
\* best_index is -1 and the swap writes outside active_arcs_.
SwapArcs ==
  /\ loc.at = "arcs" /\ loc.i > Len(activeArcs)
  /\ IF loc.j = 0
       THEN loc' = [loc EXCEPT !.at = "undefined"] /\ UNCHANGED activeArcs
       ELSE /\ activeArcs' = Swapped(1, loc.j)
            /\ Goto("compact", BandThreshold)
  /\ UNCHANGED <<latticeVars, stateVars, epsVars, tokens, arcActive, uttVars, endVars>>

\* One iteration of ExpandActiveArcs_ListCompaction: an arc within the threshold
\* moves down the list, and the token at its end leaves it.
CompactArc ==
  /\ loc.at = "compact" /\ loc.i <= Len(activeArcs) /\ activeArcs[loc.i] # Null
  /\ LET a    == activeArcs[loc.i]
         last == tokens[a][NumStates(Hmm(a))]
         left == GetExitCost(a) < MaxCost /\ GetExitCost(a) < loc.threshold
         kept == [activeArcs EXCEPT ![loc.i] = Null]
     IN  IF BestCost(tokens[a]) <= loc.threshold
           THEN /\ activeArcs' = [kept EXCEPT ![loc.j + 1] = a]
                /\ IF left THEN ExpandToFollowingState(a, last.tb, GetExitCost(a)) ELSE UNCHANGED <<latticeVars, stateVars>>
                /\ loc' = [loc EXCEPT !.i = @ + 1, !.j = @ + 1,
                             !.threshold = IF left THEN Min({@, Plus(GetExitCost(a), Beam)}) ELSE @]
                /\ UNCHANGED <<tokens, arcActive>>
           ELSE /\ activeArcs' = kept
                /\ DeactivateArc(a)
                /\ loc' = [loc EXCEPT !.i = @ + 1]
                /\ UNCHANGED <<latticeVars, stateVars>>
  /\ UNCHANGED <<epsVars, uttVars, endVars>>

SkipSlot ==
  /\ loc.at = "compact" /\ loc.i <= Len(activeArcs) /\ activeArcs[loc.i] = Null
  /\ loc' = [loc EXCEPT !.i = @ + 1]
  /\ UNCHANGED <<latticeVars, stateVars, epsVars, arcVars, uttVars, endVars>>

\* Mutant: the list is cut one short.
EndArcsOneShort ==
  /\ loc.at = "compact" /\ loc.i > Len(activeArcs)
  /\ activeArcs' = SubSeq(activeArcs, 1, loc.j - 1)
  /\ Goto("epsilon", MaxCost)
  /\ UNCHANGED <<latticeVars, stateVars, epsVars, tokens, arcActive, uttVars, endVars>>

EndArcs ==
  /\ loc.at = "compact" /\ loc.i > Len(activeArcs)
  /\ activeArcs' = SubSeq(activeArcs, 1, loc.j)
  /\ Goto("epsilon", MaxCost)
  /\ UNCHANGED <<latticeVars, stateVars, epsVars, tokens, arcActive, uttVars, endVars>>

-----------------------------------------------------------------------------
(* EndDecode, CleanUp *)

AcceptCost(q) == Plus(token[q].cost, net.final[q])

\* Mutant: the best state is found without the final costs.
FindCheapestState ==
  LET final == {i \in DOMAIN activeStates : AcceptCost(activeStates[i]) < MaxCost}
      least == {i \in final : \A k \in final : token[activeStates[i]].cost <= token[activeStates[k]].cost}
  IN  IF final # {} THEN activeStates[Min(least)] ELSE Null

\* kBackoff: the first of the states with the least accept cost.  When none is
\* final, the last state with a cost: each replaces the one before it, as the
\* code compares its cost with the accept cost kept, which is kMaxCost or more.
FindBestState ==
  LET final == {i \in DOMAIN activeStates : AcceptCost(activeStates[i]) < MaxCost}
      least == {i \in final : \A k \in final : AcceptCost(activeStates[i]) <= AcceptCost(activeStates[k])}
      alive == {i \in DOMAIN activeStates : token[activeStates[i]].cost < MaxCost}
  IN  IF final # {} THEN activeStates[Min(least)]
      ELSE IF alive # {} THEN activeStates[Max(alive)]
      ELSE Null

\* The one-best sequence is read off the state found; the lattice that ends in it
\* is generated if the caller wants one, which sweeps everything else.
EndDecode ==
  /\ loc.at = "end"
  /\ LET q == FindBestState IN
       IF q = Null
         THEN result' = NoResult /\ UNCHANGED latticeVars
         ELSE /\ result' = [state |-> q, token |-> token[q], lattice |-> GenLattice,
                            sequence |-> GetBestSequence(token[q].tb)]
              /\ IF GenLattice THEN CollectFrom({token[q].tb}) ELSE UNCHANGED latticeVars
  /\ Goto("cleanup", MaxCost)
  /\ UNCHANGED <<stateVars, epsVars, arcVars, uttVars, bestStateCost>>

\* The search states and their arcs are freed.  A pooled search state keeps
\* in_eps_queue_ until it is used again, and then too.
ClearSearchHash ==
  /\ token' = [q \in States |-> Inactive] /\ position' = [q \in States |-> -1]
  /\ tokens' = [a \in ArcIds |-> NoTokens(Hmm(a))] /\ arcActive' = [a \in ArcIds |-> FALSE]

\* Lattice::Clear, ClearSearchHash and ClearSearch.
CleanUp ==
  /\ loc.at = "cleanup"
  /\ IF class = "Lattice"
       THEN Sweep({}) /\ Goto(IF outstanding' = 0 THEN "idle" ELSE "fatal", MaxCost)
       ELSE SimpleClear /\ Goto("idle", MaxCost)
  /\ ClearSearchHash
  /\ activeStates' = <<>> /\ activeArcs' = <<>>
  /\ time' = -1
  /\ utterances' = utterances + 1
  /\ UNCHANGED <<epsVars, netVars, utt, frame, endVars>>

Next ==
  \/ BeginDecode \/ NextFrame
  \/ QueueStates \/ PopState \/ RelaxArc \/ EndRelax \/ EndEpsilon
  \/ ExpandActiveState \/ EndStates \/ Gc
  \/ ExpandActiveArc \/ SwapArcs \/ CompactArc \/ SkipSlot \/ EndArcs
  \/ EndDecode \/ CleanUp

Spec == Init /\ [][Next]_vars

=============================================================================
