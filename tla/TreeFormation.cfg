CONSTANTS
  NDIM = 2
  MinLevel = 0
  MaxLevel = 2
  Localities = 2
  MaxRegrids = 3
  NoNode = NoNode
  Candidates <- MCCorner
SPECIFICATION TreeSpec
INVARIANTS
  NeighborsKnown
  FluxPartners
  FormNeverAborts
  RegistryComplete
  EvenShares
PROPERTIES
  RegridFinishes
CHECK_DEADLOCK FALSE
