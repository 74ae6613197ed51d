\* Nieces on both sides of a coarse leaf and a leaf that waits for no parent, two
\* steps of two exchanges.
CONSTANTS
  r = r
  a = a
  b = b
  e = e
  a1 = a1
  e1 = e1
  e2 = e2
  e3 = e3
  none = none
  Node <- MCNode
  Root = r
  Parent <- MCParent
  Dir <- MCDir
  Flip <- MCFlip
  Nbr <- MCNbr
  NoNode = none
  Face <- MCDir
  NRK = 1
  Radiation = FALSE
  Steps = 2
SPECIFICATION FluxFairSpec
\* the nodes stop at the next regrid
CHECK_DEADLOCK FALSE
INVARIANTS
  FreshBoundaries
  EnergyAgreed
  BoundedSkew
  DrainedAtEnd
  FluxOfThisStage
  NoFluxLeftOver
PROPERTY AllExchanged
