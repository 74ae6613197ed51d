\* Two dimensions, 4 cells and 3 around them, as in the program's 8 and 3.
CONSTANTS
  NDIM = 2
  INX = 4
  H_BW = 3
  MaxLevel = 3
  Trees <- MCTrees
  MaxRegrids = 1
SPECIFICATION Spec
\* the last timestep is over
CHECK_DEADLOCK FALSE
INVARIANTS
  GhostsExact
