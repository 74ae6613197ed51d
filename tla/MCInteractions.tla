--------------------------- MODULE MCInteractions ---------------------------
(* Trees with one refined child of the root, and with two that meet at a   *)
(* face or only at the centre of the domain.  One cell is where these      *)
(* children meet, in one that is refined in the second tree and a leaf     *)
(* next to refined nodes in the others; the other cell is any that is near *)
(* it, one of those just outside, or the one in the opposite corner.       *)
EXTENDS Interactions

Child(x, y, z) == [lev |-> 1, x |-> <<x, y, z>>]

MCTrees == {{RootNode} \cup S : S \in {{Child(0, 0, 0)},
                                       {Child(0, 0, 0), Child(1, 0, 0)},
                                       {Child(0, 0, 0), Child(1, 1, 1)}}}

Cell(x) == [lev |-> 0, x |-> x]
One == <<INX \div 2, 0, INX \div 2 - 1>>
Square(v) == v[1] * v[1] + v[2] * v[2] + v[3] * v[3]
MCPairs == {<<Cell(One), Cell(x)>> :
              x \in {v \in Own : v = <<0, INX - 1, INX - 1>>
                               \/ Square(Difference(One, v)) <= 5}}
=============================================================================
