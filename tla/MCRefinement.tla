---------------------------- MODULE MCRefinement ----------------------------
(* A square of five levels.  A node of level 3 at the inner corner of its  *)
(* grandparent may pass the test: its demand refines nodes of level 2, and *)
(* theirs all of level 1, beyond an edge and a corner.                     *)
EXTENDS Refinement

(* A node and its ancestors.                                               *)
Chain(l, x) == {[lev |-> k, x |-> [d \in Dim |-> x[d] \div 2^(l - k)]] : k \in 0..l}

MCCorner == Chain(3, <<1, 1>>)
=============================================================================
