------------------------------ MODULE MCGcMark ------------------------------
(* Every lattice of four states in which a state's predecessors come before it. *)
EXTENDS GcMark

CONSTANTS l1, l2, l3, l4

Before == (l1 :> {}) @@ (l2 :> {l1}) @@ (l3 :> {l1, l2}) @@ (l4 :> {l1, l2, l3})
Label == (l1 :> 0) @@ (l2 :> 1) @@ (l3 :> 2) @@ (l4 :> 3)

\* best and more give each state its best predecessor and the others; gen, whether
\* lattices are generated.
Arcs(x, P, skip) == {[prev |-> p, olabel |-> IF x = skip THEN 0 ELSE Label[x], weight |-> 0] : p \in P}

NodeOf(best, more, skip, gen) ==
  [x \in LS |->
     IF x = l1 THEN [Blank EXCEPT !.fwd = 0]
     ELSE [best |-> CHOOSE a \in Arcs(x, {best[x]}, skip) : TRUE, fwd |-> 0,
           arcs |-> IF gen THEN Arcs(x, {best[x]} \cup more[x], skip) ELSE {}]]

\* The list holds the states in the order of their creation, which need not be
\* that of the paths.
MCLattices ==
  LET others == {l2, l3, l4}
      bests  == {f \in [others -> LS] : \A x \in others : f[x] \in Before[x]}
      mores  == {f \in [others -> SUBSET LS] : \A x \in others : f[x] \subseteq Before[x]}
      orders == {<<l1, l2, l3, l4>>, <<l1, l4, l2, l3>>, <<l1, l3, l4, l2>>}
  IN  {[node |-> NodeOf(f, g, s, gen), usedList |-> o] :
         f \in bests, g \in mores, s \in {l1, l3}, gen \in BOOLEAN, o \in orders}

MCTokens == UNION {[1 .. n -> LS] : n \in 0 .. 2}
=============================================================================
