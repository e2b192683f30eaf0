------------------------------ MODULE MCFarTools ------------------------------
(* Two lattices, commands of every kind and small FSTs for FarTools. *)
EXTENDS FarTools

\* Two lattices, what one command makes of them and what a second makes of that.
MCArchives == {<<"a", "b">>, <<"b">>}
MCSize == [a |-> 4, b |-> 1, a1 |-> 3, b1 |-> 2, a2 |-> 1, b2 |-> 4]
Once == [a |-> "a1", b |-> "b1", a1 |-> "a2", b1 |-> "b2", a2 |-> "b1", b2 |-> "a1"]

Cmd(reads, errs, fails, slow, missing) ==
  [reads |-> reads, errs |-> errs, answers |-> Once, fails |-> fails, slow |-> slow, missing |-> missing]

MCCommands ==
  [quiet |-> Cmd("record", 0, FALSE, FALSE, FALSE),
   loud  |-> Cmd("record", 3, FALSE, FALSE, FALSE),
   slow  |-> Cmd("record", 0, FALSE, TRUE, FALSE),
   fails |-> Cmd("record", 1, TRUE, FALSE, FALSE),
   cat   |-> Cmd("all", 0, FALSE, FALSE, FALSE),
   none  |-> Cmd("record", 0, FALSE, FALSE, TRUE)]

MCPipelines ==
  {<<c>> : c \in DOMAIN MCCommands} \cup
  {<<"quiet", "loud">>, <<"loud", "quiet">>, <<"fails", "quiet">>, <<"quiet", "fails">>, <<"loud", "slow">>, <<"quiet", "none">>,
   <<"loud", "loud", "loud">>, <<"loud", "fails", "quiet">>}

\* Graph and acoustic costs that differ.
Arc(label, cost, nextstate) == [label |-> label, weight |-> Pair(cost, 3 * cost), nextstate |-> nextstate]

\* What ShortestPath makes: one path, or epsilons to paths that share their ends.
Best == [start |-> 2, final |-> {0}, out |-> 0 :> <<>> @@ 1 :> <<Arc(8, 1, 0)>> @@ 2 :> <<Arc(7, 2, 1)>>]
Several ==
  [start |-> 0, final |-> {1},
   out |-> 0 :> <<Arc(0, 0, 4), Arc(0, 0, 2), Arc(0, 0, 5)>> @@ 1 :> <<>> @@
           2 :> <<Arc(7, 2, 3)>> @@ 3 :> <<Arc(8, 1, 1)>> @@ 4 :> <<Arc(9, 1, 3)>> @@ 5 :> <<Arc(9, 4, 1)>>]
WithNothing ==
  [start |-> 0, final |-> {1},
   out |-> 0 :> <<Arc(0, 0, 2), Arc(0, 0, 3)>> @@ 1 :> <<>> @@ 2 :> <<Arc(0, 1, 1)>> @@ 3 :> <<Arc(7, 2, 1)>>]
MCNShortest == [value \in DOMAIN MCSize |-> {Best, Several, WithNothing}]

\* Acyclic: states shared by paths, several final states.
MCMachines ==
  [value \in DOMAIN MCSize |->
     IF value \in {"a1", "a2"} THEN Several
     ELSE [start |-> 3, final |-> {0, 1},
           out |-> 0 :> <<>> @@ 1 :> <<>> @@ 2 :> <<Arc(5, 1, 0), Arc(6, 2, 1)>> @@
                   3 :> <<Arc(7, 1, 2), Arc(8, 3, 1), Arc(9, 1, 2)>>]]
=============================================================================
