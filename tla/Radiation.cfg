\* A niece and its aunt, two steps of one or two substeps of three stages.
CONSTANTS
  r = r
  a = a
  b = b
  a1 = a1
  a2 = a2
  none = none
  Node <- MCNode
  Root = r
  Parent <- MCParent
  Dir <- MCDir
  Face <- MCDir
  Flip <- MCFlip
  Nbr <- MCNbr
  NoNode = none
  Level <- MCLevel
  MaxLevel = 2
  Dts = {0, 2, 3}
  NRK = 3
  Steps = 2
SPECIFICATION FairSpec
\* the nodes stop at the next regrid
CHECK_DEADLOCK FALSE
INVARIANTS
  RadiationFresh
  RadiationFluxMatches
  RadiationDrained
PROPERTY RadiationDone
