-------------------------- MODULE MCTreeFormation ---------------------------
(* A square where two nodes of level 1 that meet at a corner may be        *)
(* refined.                                                                *)
EXTENDS TreeFormation

MCCorner == {Root, [lev |-> 1, x |-> <<0, 0>>], [lev |-> 1, x |-> <<1, 1>>]}
=============================================================================
