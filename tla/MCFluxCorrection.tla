-------------------------- MODULE MCFluxCorrection --------------------------
(* A coarse leaf b between refined nodes a and e, with a niece on either   *)
(* side; directions left and right.  The leaf e2 in the middle of its row  *)
(* waits for no parent, so it may run ahead of it; the leaves at the ends  *)
(* of a row get that side from their parents.                              *)
EXTENDS FluxCorrection

CONSTANTS r, a, b, e, a1, e1, e2, e3, none

MCNode == {r, a, b, e, a1, e1, e2, e3}
MCParent == [n \in MCNode \ {r} |->
              IF n = a1 THEN a ELSE IF n \in {e1, e2, e3} THEN e ELSE r]
MCDir == {"left", "right"}
MCFlip == [d \in MCDir |-> IF d = "left" THEN "right" ELSE "left"]

(* The nodes of one level that touch, from left to right.                  *)
Touching == {<<a, b>>, <<b, e>>, <<e1, e2>>, <<e2, e3>>}
MCNbr == [n \in MCNode |-> [d \in MCDir |->
  IF d = "right" /\ \E m \in MCNode : <<n, m>> \in Touching
  THEN CHOOSE m \in MCNode : <<n, m>> \in Touching
  ELSE IF d = "left" /\ \E m \in MCNode : <<m, n>> \in Touching
  THEN CHOOSE m \in MCNode : <<m, n>> \in Touching
  ELSE none]]
=============================================================================
