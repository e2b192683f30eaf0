------------------------------- MODULE FarTools -------------------------------
(* An archive is filtered (FarFilter); the one that was written is printed (AllPaths). *)
EXTENDS FarFilter, AllPaths

CONSTANTS
  NShortest,   \* value -> the FSTs ShortestPath may make of it
  Machines     \* value -> the acyclic FST it is

VARIABLES
  utt          \* records of the archive printed so far

vars == <<filterVars, pathVars, utt>>

Init == FilterInit /\ PathsInit /\ utt = 0

Archived == main = "done" /\ ~text

\* farprintnbeststrings, record by record.
PrintNext ==
  /\ Archived /\ tool # "fst" /\ ~Running /\ utt < Len(writer)
  /\ \E nbest \in NShortest[writer[utt + 1].value] : Begin("far", nbest)
  /\ utt' = utt + 1
  /\ UNCHANGED filterVars

\* fstxprintstrings of one of the FSTs.
PrintFst ==
  /\ Archived /\ tool = "none"
  /\ \E k \in DOMAIN writer : Begin("fst", Machines[writer[k].value])
  /\ UNCHANGED <<filterVars, utt>>

Next ==
  \/ Filter /\ UNCHANGED <<pathVars, utt>>
  \/ PrintNext
  \/ PrintFst
  \/ Walk /\ UNCHANGED <<filterVars, utt>>

Spec == Init /\ [][Next]_vars

\* The machine runs the tool, its threads and its children.
MaxStages == Max({Len(chain) : chain \in Pipelines})
FairSpec ==
  /\ Spec
  /\ WF_vars(Main /\ UNCHANGED <<pathVars, utt>>)
  /\ \A i \in 1 .. MaxStages :
       /\ WF_vars(i \in DOMAIN procs /\ Child(i) /\ Others /\ UNCHANGED <<pathVars, utt>>)
       /\ WF_vars(i \in DOMAIN procs /\ Thread(i) /\ Others /\ UNCHANGED <<pathVars, utt>>)
=============================================================================
