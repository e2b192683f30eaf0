----------------------------- MODULE KaldiWeight -----------------------------
(***************************************************************************)
(* The weights of the Kaldi lattices (include/dcd/kaldi-lattice-arc.h): a  *)
(* pair of costs, the graph's and the acoustic one, ordered by their sum   *)
(* and then by the first.  The only infinite weight is Zero, which has     *)
(* both costs infinite; floats are integers here, so nothing is rounded    *)
(* and nothing is NaN.                                                     *)
(***************************************************************************)
EXTENDS Integers

Pair(value1, value2) == [zero |-> FALSE, value1 |-> value1, value2 |-> value2]
Zero == [zero |-> TRUE, value1 |-> 0, value2 |-> 0]
One == Pair(0, 0)

Finite == [zero : {FALSE}, value1 : Int, value2 : Int]

\* Member: either both costs are infinite or neither is.
Weight == Finite \cup {Zero}

\* f < g of two costs of which Zero's is the infinite one.
SumBelow(w1, w2) ==
  ~w1.zero /\ (w2.zero \/ w1.value1 + w1.value2 < w2.value1 + w2.value2)
FirstBelow(w1, w2) == ~w1.zero /\ (w2.zero \/ w1.value1 < w2.value1)

\* The smaller cost is the larger weight.
Compare(w1, w2) ==
  IF SumBelow(w1, w2) THEN 1
  ELSE IF SumBelow(w2, w1) THEN -1
  ELSE IF FirstBelow(w1, w2) THEN 1
  ELSE IF FirstBelow(w2, w1) THEN -1
  ELSE 0

Plus(w1, w2) == IF Compare(w1, w2) >= 0 THEN w1 ELSE w2

NaturalLess(w1, w2) == Compare(w1, w2) = 1

Times(w1, w2) ==
  IF w1.zero \/ w2.zero THEN Zero
  ELSE Pair(w1.value1 + w2.value1, w1.value2 + w2.value2)

\* Dividing Zero, and dividing by Zero, both give Zero.
Divide(w1, w2) ==
  IF w1.zero \/ w2.zero THEN Zero
  ELSE Pair(w1.value1 - w2.value1, w1.value2 - w2.value2)
=============================================================================
