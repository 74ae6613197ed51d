----------------------------- MODULE MCTimestep -----------------------------
(* A root with a leaf and a refined child, which has two leaves: the least *)
(* tree on which the descent passes through a node that is not the root.   *)
EXTENDS Timestep

CONSTANTS r, a, x, y, z

MCNode == {r, a, x, y, z}
MCParent == [n \in {a, x, y, z} |-> IF n \in {a, x} THEN r ELSE a]
MCBelow == [n \in MCNode |-> CASE n = r -> MCNode
                               [] n = a -> {a, y, z}
                               [] OTHER -> {n}]
MCCfl == {2, 6}
=============================================================================
