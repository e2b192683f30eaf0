------------------------------- MODULE GcMark -------------------------------
(***************************************************************************)
(* One collection, call by call: State::GcMark of dcd/lattice.h recurses   *)
(* from the tokens through the back pointers and counts its visits, the    *)
(* sweep follows, and with the option early_mission the labels that all    *)
(* hypotheses have in common are read off the visit counts.                *)
(*                                                                         *)
(* Lattice takes the marked states as a set; here they are computed.       *)
(***************************************************************************)
EXTENDS Lattice, SequencesExt

CONSTANTS
  Lattices,   \* lattices to collect: [node, usedList]
  Tokens      \* the lattice states that the active arcs' tokens point to, in order

ASSUME GcMarkAssumption ==
  \A g \in Lattices :
    /\ g.usedList \in Seq(LS)
    /\ \A x \in Range(g.usedList) :
         /\ IsFiniteSet(g.node[x].arcs)
         /\ g.node[x].best.prev \in Range(g.usedList) \cup {NoLS}
         /\ \A a \in g.node[x].arcs : a.prev \in Range(g.usedList)
    /\ \A tokens \in Tokens : tokens \in Seq(Range(g.usedList))

\* Back pointers have no cycle, as TokenLattice proves of the lattice a decoder
\* builds (TokenLatticeProofs!SpecAcyclic).
ASSUME GcMarkAcyclic ==
  \A g \in Lattices : \A S \in SUBSET Range(g.usedList) :
    S # {} => \E x \in S : S \cap ({g.node[x].best.prev} \cup {a.prev : a \in g.node[x].arcs}) = {}

VARIABLES
  roots,      \* all tokens of the active arcs
  todo,       \* tokens that have not been marked from
  marked,     \* State::marked_
  stack,      \* the calls of GcMark that have not returned: a state and the
              \* predecessors it has still to call
  partial,    \* early_mission
  loc

gcVars == <<roots, todo, marked, stack, partial, loc>>
vars == <<latticeVars, gcVars>>

\* A lattice between two collections.  The states that survived the last one are
\* still marked; GcClearMarks comes first.
Init ==
  /\ \E g \in Lattices : node = g.node /\ usedList = g.usedList
  /\ index = [x \in LS |-> IF x \in Used THEN (CHOOSE i \in DOMAIN usedList : usedList[i] = x) - 1 ELSE -1]
  /\ pool = {} /\ outstanding = Len(usedList)
  /\ roots \in Tokens /\ todo = roots
  /\ marked = [x \in LS |-> IF x \in Used THEN 1 ELSE 0]
  /\ stack = <<>> /\ partial = <<>> /\ loc = "clear"

-----------------------------------------------------------------------------
(* Marking *)

ClearMarks ==
  /\ loc = "clear"
  /\ marked' = [x \in LS |-> IF x \in Used THEN 0 ELSE marked[x]]
  /\ loc' = "mark"
  /\ UNCHANGED <<latticeVars, roots, todo, stack, partial>>

\* best_arc_, unless it is cleared.  (As a mutant: only best_arc_ is followed.)
BestPredecessor(x) == IF IsStart(x) THEN <<>> ELSE <<node[x].best.prev>>

\* The calls GcMark makes, in order: best_arc_, then arcs_.  The order of arcs_ is
\* that of arrival, which a set does not tell; one order is as good as another.
Predecessors(x) ==
  LET arcs == SetToSeq(node[x].arcs)
  IN  BestPredecessor(x) \o [i \in DOMAIN arcs |-> arcs[i].prev]

\* Mutant: visits to a state that is marked are not counted.
VisitOnce(x, calls) ==
  IF marked[x] > 0 THEN stack' = calls /\ UNCHANGED marked
  ELSE stack' = <<[state |-> x, left |-> Predecessors(x)]>> \o calls /\ UNCHANGED marked

\* The call x->GcMark(), when the calls below it are `calls`.
Visit(x, calls) ==
  IF marked[x] > 0
    THEN marked' = [marked EXCEPT ![x] = @ + 1] /\ stack' = calls
    ELSE stack' = <<[state |-> x, left |-> Predecessors(x)]>> \o calls /\ UNCHANGED marked

\* CLevelDecoder::Gc calls it on the next token.
MarkToken ==
  /\ loc = "mark" /\ stack = <<>> /\ todo # <<>>
  /\ Visit(Head(todo), <<>>)
  /\ todo' = Tail(todo)
  /\ UNCHANGED <<latticeVars, roots, partial, loc>>

\* A call goes on to the next predecessor.
MarkPredecessor ==
  /\ stack # <<>> /\ Head(stack).left # <<>>
  /\ LET call == Head(stack)
     IN  Visit(Head(call.left), <<[call EXCEPT !.left = Tail(@)]>> \o Tail(stack))
  /\ UNCHANGED <<latticeVars, roots, todo, partial, loc>>

\* A call returns, and only now is its state marked.
MarkState ==
  /\ stack # <<>> /\ Head(stack).left = <<>>
  /\ marked' = [marked EXCEPT ![Head(stack).state] = 1]
  /\ stack' = Tail(stack)
  /\ UNCHANGED <<latticeVars, roots, todo, partial, loc>>

-----------------------------------------------------------------------------
(* Sweep and early mission *)

Marked == {x \in Used : marked[x] > 0}

GcSweep ==
  /\ loc = "mark" /\ stack = <<>> /\ todo = <<>>
  /\ Sweep(Marked)
  /\ loc' = "mission"
  /\ UNCHANGED <<roots, todo, marked, stack, partial>>

\* The states from the one after the start to x, by best arcs.
BestPath(x) ==
  LET path[i \in 0 .. Cardinality(LS)] ==
        IF i = 0 THEN <<x>>
        ELSE IF IsStart(Head(path[i - 1])) THEN path[i - 1]
        ELSE <<node[Head(path[i - 1])].best.prev>> \o path[i - 1]
  IN  Tail(path[Cardinality(LS)])

Labels(path) == SelectSeq([i \in DOMAIN path |-> node[path[i]].best.olabel], LAMBDA l : l # 0)

\* Mutant: the walk does not stop where paths branch.
CommonPartAll(path) == path

\* The states of a path up to the first that was visited more than once.
CommonPart(path) ==
  LET branching == {i \in DOMAIN path : marked[path[i]] > 1}
  IN  SubSeq(path, 1, Min(branching \cup {Len(path)}))

\* The path to the last state of used_list_, as far as all hypotheses share it.  When
\* nothing survived, back() of an empty vector is read.
EarlyMission ==
  /\ loc = "mission"
  /\ IF usedList = <<>>
     THEN loc' = "undefined" /\ UNCHANGED partial
     ELSE /\ partial' = Labels(CommonPart(BestPath(Last(usedList))))
          /\ loc' = "done"
  /\ UNCHANGED <<latticeVars, roots, todo, marked, stack>>

Next == ClearMarks \/ MarkToken \/ MarkPredecessor \/ MarkState \/ GcSweep \/ EarlyMission

Spec == Init /\ [][Next]_vars

-----------------------------------------------------------------------------
(* Properties *)

\* The recursion marks what Lattice says it marks: whatever the order of the
\* tokens and of the arcs, and though a state is marked only after its
\* predecessors are.
MarksReachable ==
  loc = "mark" /\ stack = <<>> /\ todo = <<>> => Marked = Reachable(Range(roots))

\* The visit count of a state is the number of its references: the tokens, and
\* the best arcs and lattice arcs of the marked states.  A state is never on the
\* stack twice.
MarksAreReferences ==
  /\ loc = "mission" =>
       \A x \in Used :
         marked[x] = Cardinality({i \in DOMAIN roots : roots[i] = x})
                     + Cardinality({y \in Used : node[y].best.prev = x})
                     + Cardinality({p \in Used \X UNION {node[z].arcs : z \in Used} :
                                      p[2] \in node[p[1]].arcs /\ p[2].prev = x})
  /\ \A i, j \in DOMAIN stack : stack[i].state = stack[j].state => i = j

\* Where all hypotheses have left the start state for the same successor, the
\* partial result is a prefix of the labels of each: no later word can change it.
PartialIsCommon ==
  loc = "done" /\ (\A x \in Range(roots) : ~IsStart(x))
               /\ (\A x, y \in Used : ~IsStart(x) /\ ~IsStart(y)
                      /\ IsStart(node[x].best.prev) /\ IsStart(node[y].best.prev) => x = y) =>
    \A i \in DOMAIN roots : IsPrefix(partial, Labels(BestPath(roots[i])))

=============================================================================
