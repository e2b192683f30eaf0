------------------------------- MODULE MCGraphs -------------------------------
(* Two phones, two pdfs a class and small networks for SearchGraph. *)
EXTENDS SearchGraph

\* Three states with loops; and a model with five states that skips some.
T(state, cost) == [state |-> state, cost |-> cost]
Loop(s, class) == [pdfClass |-> class, transitions |-> <<T(s, 1), T(s + 1, 2)>>]
Exit == [pdfClass |-> NoPdf, transitions |-> <<>>]

Bakis == <<Loop(0, 0), Loop(1, 1), Loop(2, 0), Exit>>
MCTopology == 1 :> Bakis @@ 2 :> Bakis @@
  3 :> <<[pdfClass |-> 0, transitions |-> <<T(1, 1), T(3, 2)>>], Loop(1, 1), Loop(2, 2),
         [pdfClass |-> 3, transitions |-> <<T(1, 0), T(4, 3)>>], Loop(4, 4), Exit>>

\* A window is a phone and its left neighbour; neighbours 1 and 2 are tied.
Windows == {<<l, p>> : l \in 1 .. 3, p \in 1 .. 3}
MCCompute == [w \in Windows |-> [class \in 0 .. 4 |->
                IF w[2] = 3 THEN class ELSE IF w[1] = 3 THEN 2 + class ELSE class]]

Quadruples == {<<p, s, pdf, k>> : p \in 1 .. 3, s \in 0 .. 4, pdf \in 0 .. 4, k \in 1 .. 2}
MCTransitionId == [q \in Quadruples |-> q[1] * 100 + q[2] * 20 + q[3] * 2 + q[4]]
MCTransitionCost == [id \in 0 .. 500 |-> IF id = 100 + 2 THEN -1 ELSE (id * 7) % 5]

MCIlabelInfos ==
  {<< <<>>, a, b, c>> : a \in {<<1, 1>>, <<-5>>}, b \in {<<2, 1>>, <<3, 1>>, <<1, 2>>},
                        c \in {<<1, 3>>, <<2, 1>>, <<-7>>}}

MCOptions == [logical2physical : BOOLEAN, use_trans_ids : BOOLEAN, type : {"fsts", "far"}]

A(ilabel, olabel, weight, nextstate) ==
  [ilabel |-> ilabel, olabel |-> olabel, weight |-> weight, nextstate |-> nextstate]
Network(out) == [start |-> 0, final |-> [q \in DOMAIN out |-> IF q = 1 THEN 0 ELSE Zero], out |-> out]

MCNetworks ==
  {Network(0 :> <<A(2, 7, 1, 1), A(2, 8, 2, 0), A(0, 0, 1, 1)>> @@ 1 :> <<>>),
   Network(0 :> <<A(2, 7, 1, 1)>> @@ 1 :> <<A(3, 8, 1, 0)>>),
   Network(0 :> <<A(3, 8, 1, 1)>> @@ 1 :> <<A(1, 7, 0, 0)>>)}

\* Sorted by input label: the epsilon arc comes first.
SortedNetworks == {Network(0 :> <<A(0, 0, 1, 1), A(2, 7, 1, 1), A(3, 8, 1, 0)>> @@ 1 :> <<>>)}

\* What the proofs about the expansion need holds of these.
ASSUME MCExpansion == EpsilonsLast(MCNetworks) /\ HmmsAreLong

MCAcousticCosts ==
  {[label \in 0 .. 500 |-> 0], [label \in 0 .. 500 |-> ((label * 3) % 5) + 1]}
=============================================================================
