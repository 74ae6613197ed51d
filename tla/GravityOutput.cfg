\* The solve of the regrid before an output file is written.
CONSTANTS
  r = r
  a = a
  b = b
  a1 = a1
  a2 = a2
  none = none
  Node <- MCNode
  Root = r
  Parent <- MCParent
  Dir <- MCDir
  Flip <- MCFlip
  Nbr <- MCNbr
  NoNode = none
  Loc <- MCLoc
  NRK = 1
  Steps = 0
  Output = TRUE
SPECIFICATION FairSpec
\* the nodes stop after the last solve
CHECK_DEADLOCK FALSE
PROPERTY OutputReached
