------------------------------- MODULE AllPaths -------------------------------
(***************************************************************************)
(* The enumeration of the paths of an acyclic FST by farprintnbeststrings  *)
(* and fstxprintstrings (bin/): a stack of states, one arc iterator for a  *)
(* state, and the labels and costs of the path that is being followed.     *)
(* The two tools differ in what they take back at a final state.           *)
(*                                                                         *)
(* An FST is [start, final, out]: out[s] is the sequence of the arcs       *)
(* [label, weight, nextstate] that leave s, final the set of its final     *)
(* states, which no arc leaves.  The start state is not final.             *)
(***************************************************************************)
EXTENDS KaldiWeight, FiniteSets, Sequences, SequencesExt

VARIABLES
  tool,            \* "none", "far" (farprintnbeststrings) or "fst" (fstxprintstrings)
  fst,
  queue,           \* the top is the last
  arc_iterators,   \* state -> position; a state without one has no iterator
  current_path,
  current_cost,
  strings          \* what was printed: [labels, cost]

pathVars == <<tool, fst, queue, arc_iterators, current_path, current_cost, strings>>

PathsInit ==
  /\ tool = "none" /\ fst = <<>> /\ queue = <<>> /\ arc_iterators = <<>>
  /\ current_path = <<>> /\ current_cost = <<>> /\ strings = <<>>

Begin(program, machine) ==
  /\ tool' = program /\ fst' = machine
  /\ queue' = <<machine.start>>
  /\ arc_iterators' = <<>>
  /\ current_path' = <<>> /\ current_cost' = <<One>>
  /\ strings' = <<>>

Running == queue # <<>>
State == Last(queue)
Position(s) == IF s \in DOMAIN arc_iterators THEN arc_iterators[s] ELSE 1

\* PathToString leaves epsilon out.
Words(path) == SelectSeq(path, LAMBDA label : label # 0)

FollowArc ==
  /\ Running /\ State \notin fst.final /\ Position(State) <= Len(fst.out[State])
  /\ LET arc == fst.out[State][Position(State)]
     IN  /\ current_path' = Append(current_path, arc.label)
         /\ current_cost' = Append(current_cost, Times(arc.weight, Last(current_cost)))
         /\ queue' = Append(queue, arc.nextstate)
  /\ arc_iterators' = (State :> Position(State) + 1) @@ arc_iterators
  /\ UNCHANGED <<tool, fst, strings>>

\* Mutant: the iterator of a state that is left stays at its end.
KeepIterator(s) == (s :> Position(s)) @@ arc_iterators

\* A state that is left can be entered again by another path.
DropIterator(s) ==
  IF s = fst.start THEN (s :> Position(s)) @@ arc_iterators
  ELSE [d \in DOMAIN arc_iterators \ {s} |-> arc_iterators[d]]

LeaveState ==
  /\ Running /\ State \notin fst.final /\ Position(State) > Len(fst.out[State])
  /\ IF current_path # <<>>
     THEN current_path' = Front(current_path) /\ current_cost' = Front(current_cost)
     ELSE UNCHANGED <<current_path, current_cost>>
  /\ arc_iterators' = DropIterator(State)
  /\ queue' = Front(queue)
  /\ UNCHANGED <<tool, fst, strings>>

\* Only fstxprintstrings takes the last label back, and no tool the last cost.
EmitPath ==
  /\ Running /\ State \in fst.final
  /\ strings' = Append(strings, [labels |-> Words(current_path), cost |-> Last(current_cost)])
  /\ current_path' = IF tool = "fst" THEN Front(current_path) ELSE current_path
  /\ arc_iterators' = (State :> Position(State)) @@ arc_iterators
  /\ queue' = Front(queue)
  /\ UNCHANGED <<tool, fst, current_cost>>

Walk == FollowArc \/ LeaveState \/ EmitPath
-----------------------------------------------------------------------------
\* The paths, said at once: those that leave s, each a sequence of arcs.
PathsFrom(machine) ==
  LET states == DOMAIN machine.out
      grow[n \in 0 .. Cardinality(states)] ==
        IF n = 0 THEN {<<machine.out[machine.start][k]>> : k \in DOMAIN machine.out[machine.start]}
        ELSE grow[n - 1] \cup
             UNION {{Append(p, machine.out[Last(p).nextstate][k]) :
                       k \in DOMAIN machine.out[Last(p).nextstate]} : p \in grow[n - 1]}
  IN  {p \in grow[Cardinality(states)] : Last(p).nextstate \in machine.final}

LabelsOf(p) == Words([k \in DOMAIN p |-> p[k].label])
CostOf(p) == FoldLeft(LAMBDA cost, arc : Times(cost, arc.weight), One, p)

(***************************************************************************)
(* When a tool has finished, every path was printed once and under its own *)
(* labels; and by farprintnbeststrings, whose FSTs come from ShortestPath, *)
(* with its own cost, although it takes nothing back at a final state:     *)
(* what is left over are epsilons of weight One ("Compute all the simple   *)
(* paths in an acyclic WFST", farprintnbeststrings.cc:54).                 *)
(***************************************************************************)
PathsPrinted ==
  tool # "none" /\ ~Running =>
    LET paths == PathsFrom(fst)
        meant(p) == [labels |-> LabelsOf(p), cost |-> CostOf(p)]
    IN  /\ Len(strings) = Cardinality(paths)
        /\ IF tool = "far" THEN ToSet(strings) = {meant(p) : p \in paths}
           ELSE {strings[k].labels : k \in DOMAIN strings} = {LabelsOf(p) : p \in paths}
=============================================================================
