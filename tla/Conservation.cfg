\* Two dimensions; two regrids, so that what was created can be killed.
CONSTANTS
  NDIM = 2
  INX = 2
  MaxLevel = 2
  Trees <- MCTrees
  Data <- MCData
  Flows <- MCFlows
  MaxRegrids = 2
SPECIFICATION Spec
\* the last timestep is over
CHECK_DEADLOCK FALSE
INVARIANTS
  Conserved
