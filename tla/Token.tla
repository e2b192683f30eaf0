------------------------------- MODULE Token -------------------------------
(***************************************************************************)
(* The tokens of dcd/token.h: a hypothesis' cost and the lattice state its *)
(* traceback starts from.                                                  *)
(***************************************************************************)
EXTENDS Integers

CONSTANTS
  LS,        \* addresses at which a Lattice::State can be allocated
  NoLS,      \* the null State*
  MaxCost    \* kMaxCost

Token == [tb : LS \cup {NoLS}, cost : Int]

\* TokenTpl(), TokenTpl::Clear
Inactive == [tb |-> NoLS, cost |-> MaxCost]

Active(t) == t.tb # NoLS

\* The sum of two costs.  They are floats and kMaxCost is 2^31, which absorbs any
\* weight below half its ulp (64).
Plus(c, w) == IF c >= MaxCost \/ w >= MaxCost THEN MaxCost ELSE c + w

\* TokenTpl::Combine(token, w): t keeps the better of itself and u + w.
Combine(t, u, w) == IF Plus(u.cost, w) < t.cost THEN [tb |-> u.tb, cost |-> Plus(u.cost, w)] ELSE t

=============================================================================
