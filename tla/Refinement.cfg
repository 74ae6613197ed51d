\* Two dimensions: corners count.
CONSTANTS
  NDIM = 2
  MinLevel = 1
  MaxLevel = 4
  Candidates <- MCCorner
SPECIFICATION FairSpec
INVARIANTS
  NeverAborts
PROPERTIES
  LeastGradedTree
  RegridEnds
