---------------------------- MODULE MCRadiation ----------------------------
(* A coarse leaf b beside a refined node a: a2 is a niece of b, and gets   *)
(* that side from its parent a.  Directions left and right.                *)
EXTENDS Radiation

CONSTANTS r, a, b, a1, a2, none

MCNode == {r, a, b, a1, a2}
MCParent == [n \in MCNode \ {r} |-> IF n \in {a1, a2} THEN a ELSE r]
MCLevel == [n \in MCNode |-> IF n = r THEN 0 ELSE IF n \in {a, b} THEN 1 ELSE 2]
MCDir == {"left", "right"}
MCFlip == [d \in MCDir |-> IF d = "left" THEN "right" ELSE "left"]

RightOf(n) == IF n = a THEN b ELSE IF n = a1 THEN a2 ELSE none
LeftOf(n) == IF n = b THEN a ELSE IF n = a2 THEN a1 ELSE none
MCNbr == [n \in MCNode |-> [d \in MCDir |->
            IF d = "right" THEN RightOf(n) ELSE LeftOf(n)]]
=============================================================================
