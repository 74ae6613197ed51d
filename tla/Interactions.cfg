\* A grid of 6^3 cells per node. Theta is at its minimum, one half, the largest
\* the options name: stencils are 3 cells wide, the loops over them 5, and the
\* masks one entry less than the loops at either end.
CONSTANTS
  INX = 6
  ThetaNum = 1
  ThetaDen = 2
  FloorNum = 1
  FloorDen = 2
  Trees <- MCTrees
  Pairs <- MCPairs
SPECIFICATION PairSpec
\* both cells have been followed to their leaves
CHECK_DEADLOCK FALSE
INVARIANTS
  EachPairOnce
  Reciprocal
