----------------------------- MODULE MCGravity -----------------------------
(* A row of two coarse nodes, of which one has two fine leaves; directions *)
(* left and right; two localities.                                         *)
EXTENDS Gravity

CONSTANTS r, a, b, a1, a2, none

MCNode == {r, a, b, a1, a2}
MCParent == [n \in MCNode \ {r} |-> IF n \in {a1, a2} THEN a ELSE r]
MCDir == {"left", "right"}
MCFlip == [d \in MCDir |-> IF d = "left" THEN "right" ELSE "left"]
MCNbr == [n \in MCNode |-> [d \in MCDir |->
  CASE <<n, d>> = <<a, "right">> -> b
    [] <<n, d>> = <<b, "left">> -> a
    [] <<n, d>> = <<a1, "right">> -> a2
    [] <<n, d>> = <<a2, "left">> -> a1
    [] OTHER -> none]]

(* The coarse neighbors share buffers, the fine ones do not.               *)
MCLoc == [n \in MCNode |-> IF n = a2 THEN 2 ELSE 1]
=============================================================================
