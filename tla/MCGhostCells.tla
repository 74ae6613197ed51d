---------------------------- MODULE MCGhostCells ----------------------------
(* Trees of up to three levels of refined nodes: children that meet at a   *)
(* face or a corner, and a grandchild refined in the midst of its uncles.  *)
EXTENDS GhostCells

C(x, y) == Child(Root, <<x, y>>)
First == {Root}
Four == {Root} \cup {C(x, y) : x \in 0..1, y \in 0..1}

MCTrees == {{}, First, First \cup {C(0, 0)}, First \cup {C(0, 0), C(1, 1)},
            First \cup {C(0, 0), C(1, 0)}, Four,
            Four \cup {Child(C(0, 0), <<1, 1>>)}}
=============================================================================
