\* The fine neighbors on two localities; a regrid's solve and two steps of two stages.
CONSTANTS
  r = r
  a = a
  b = b
  a1 = a1
  a2 = a2
  none = none
  Node <- MCNode
  Root = r
  Parent <- MCParent
  Dir <- MCDir
  Flip <- MCFlip
  Nbr <- MCNbr
  NoNode = none
  Loc <- MCLoc
  NRK = 2
  Steps = 2
  Output = FALSE
SPECIFICATION FairSpec
\* the nodes stop after the last solve
CHECK_DEADLOCK FALSE
INVARIANTS
  FieldOfThisSolve
  AliveBoundaries
  SignalsAtRest
PROPERTY AllSolved
