--------------------------- MODULE MCConservation ---------------------------
(* Trees whose children meet at a face, at a corner, and with the domain's *)
(* boundary on both levels.                                                *)
EXTENDS Conservation

C(x, y) == Child(Root, <<x, y>>)

MCTrees == {{}, {Root}, {Root, C(0, 0)}, {Root, C(0, 0), C(1, 1)}}

(* Multiples of a number that all divisions of a behavior leave exact.     *)
Scale == 27 * 2^10
Pattern(k) == [p \in Places |->
  Scale * (((k * (p[1] + p[2] + 2 * p[3][1]) + p[3][2] * (p[3][1] + k)) % 3) - 1)]
MCData == {Pattern(1), Pattern(2)}
MCFlows == [s \in 0..2 |-> IF s = 0 THEN MCData ELSE {Pattern(s + 3)}]
=============================================================================
