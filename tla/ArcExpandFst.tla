----------------------------- MODULE ArcExpandFst -----------------------------
(***************************************************************************)
(* ArcExpandFst (dcd/arc-expand-fst.h): a search network whose arcs are    *)
(* replaced by the acceptors of their labels, state by state and on        *)
(* demand.  States are numbered in the order they are met; an element says *)
(* what a number stands for.  OpenFst's cache keeps what was expanded and  *)
(* may drop it between two calls.                                          *)
(***************************************************************************)
EXTENDS Integers, FiniteSets, SequencesExt

CONSTANTS
  MaxCalls   \* bound: calls of a client

VARIABLES
  fst_,      \* the network: [start, final (state -> weight), out (state -> sequence of arcs)]
  types,     \* label + 1 -> acceptor
  elements,  \* state + 1 -> [state, arcstate, index]
  hasStart,
  cache,     \* state -> [arcs, hasArcs, final, hasFinal]
  calls

expandVars == <<fst_, types, elements, hasStart, cache, calls>>

NoStateId == -1
NoWeight == -1
Zero == 1000000   \* infinity

Source(state) == [state |-> state, arcstate |-> NoStateId, index |-> -1]
Inside(state, arcstate, index) == [state |-> state, arcstate |-> arcstate, index |-> index]

\* Epsilon and disambiguation types have two states.
Epsilons == {label \in 0 .. Len(types) - 1 : types[label + 1].numStates = 2}

\* FindArc: the arc of the network an element is inside of, sought by its position.
FindArc(e) == fst_.out[e.state][e.index + 1]

\* The arcs that leave a state of the network lead into acceptors.  The index counts
\* those that do; epsilon arcs are passed over.
LeaveSource(e) ==
  LET out == fst_.out[e.state]
      emitting(k) == Cardinality({l \in 1 .. k - 1 : out[l].ilabel \notin Epsilons})
  IN  [k \in DOMAIN out |->
         [ilabel |-> 0, olabel |-> out[k].olabel, weight |-> out[k].weight,
          element |-> IF out[k].ilabel \in Epsilons THEN Source(out[k].nextstate)
                      ELSE Inside(e.state, 0, emitting(k))]]

\* The arcs of an acceptor that leave one of its states.
ArcsFrom(list, state) ==
  LET upto[k \in 0 .. Len(list)] ==
        IF k = 0 THEN <<>>
        ELSE IF list[k].from = state THEN Append(upto[k - 1], list[k]) ELSE upto[k - 1]
  IN  upto[Len(list)]

LeaveInside(e) ==
  LET type == types[FindArc(e).ilabel + 1]
      out  == ArcsFrom(type.arcs, e.arcstate)
  IN  [k \in DOMAIN out |->
         [ilabel |-> out[k].label, olabel |-> 0, weight |-> out[k].weight,
          element |-> IF out[k].to = type.numStates - 1 THEN Source(FindArc(e).nextstate)
                      ELSE Inside(e.state, out[k].to, e.index)]]

Leave(e) == IF e.arcstate = NoStateId THEN LeaveSource(e) ELSE LeaveInside(e)

AddElement(table, e) == IF e \in ToSet(table) THEN table ELSE Append(table, e)

\* The elements that arcs lead to, one after the other.
AddElements(table, out) ==
  LET upto[k \in 0 .. Len(out)] == IF k = 0 THEN table ELSE AddElement(upto[k - 1], out[k].element)
  IN  upto[Len(out)]

\* Mutant: two elements are equal without looking at their index.
StateOfPair(table, e) ==
  Min({d \in DOMAIN table : table[d].state = e.state /\ table[d].arcstate = e.arcstate}) - 1

StateOf(table, e) == (CHOOSE d \in DOMAIN table : table[d] = e) - 1

NotCached == [arcs |-> <<>>, hasArcs |-> FALSE, final |-> NoWeight, hasFinal |-> FALSE]
Cached(s) == IF s \in DOMAIN cache THEN cache[s] ELSE NotCached

\* The effect of Expand(s) on a cached state: arcs are pushed behind those it has.
Expanded(s) ==
  LET out == Leave(elements[s + 1])
      table == AddElements(elements, out)
  IN  [elements |-> table,
       entry |-> [Cached(s) EXCEPT
         !.arcs = @ \o [k \in DOMAIN out |->
                          [ilabel |-> out[k].ilabel, olabel |-> out[k].olabel,
                           weight |-> out[k].weight, nextstate |-> StateOf(table, out[k].element)]],
         !.hasArcs = TRUE]]

Put(s, entry) == cache' = [d \in DOMAIN cache \cup {s} |-> IF d = s THEN entry ELSE cache[d]]

ExpandInit ==
  /\ fst_ = <<>> /\ types = <<>>
  /\ elements = <<>> /\ hasStart = FALSE /\ cache = <<>> /\ calls = 0

\* ArcExpandFst(network, acceptors)
Construct(network, acceptors) ==
  /\ fst_' = network /\ types' = acceptors
  /\ UNCHANGED <<elements, hasStart, cache, calls>>

States == 0 .. Len(elements) - 1
Call == calls < MaxCalls /\ calls' = calls + 1 /\ UNCHANGED <<fst_, types>>

Start ==
  /\ Call /\ ~hasStart
  /\ elements' = AddElement(elements, Source(fst_.start))
  /\ hasStart' = TRUE
  /\ UNCHANGED cache

\* NumArcs, NumInputEpsilons, NumOutputEpsilons, InitArcIterator and an ArcIterator.
Arcs(s) ==
  /\ Call /\ ~Cached(s).hasArcs
  /\ elements' = Expanded(s).elements
  /\ Put(s, Expanded(s).entry)
  /\ UNCHANGED hasStart

\* Final expands the state, even if it has its arcs already.
Final(s) ==
  /\ Call /\ ~Cached(s).hasFinal
  /\ elements' = Expanded(s).elements
  /\ LET e == elements[s + 1]
     IN  Put(s, [Expanded(s).entry EXCEPT
                   !.hasFinal = TRUE,
                   !.final = IF e.arcstate = NoStateId THEN fst_.final[e.state] ELSE Zero])
  /\ UNCHANGED hasStart

\* OpenFst's cache drops a state (its table of elements is not part of the cache).
Drop(s) ==
  /\ Call /\ s \in DOMAIN cache
  /\ cache' = [d \in DOMAIN cache \ {s} |-> cache[d]]
  /\ UNCHANGED <<elements, hasStart>>

UseExpansion == Start \/ \E s \in States : Arcs(s) \/ Final(s) \/ Drop(s)
=============================================================================
