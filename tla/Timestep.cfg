\* A chunk of two steps and one of a single step; the cap of stop_time is 4 at
\* step 0, below one of the limits.
CONSTANTS
  r = r
  a = a
  x = x
  y = y
  z = z
  Node <- MCNode
  Root = r
  Parent <- MCParent
  Below <- MCBelow
  Cfl <- MCCfl
  Huge = 1000
  RefFreq = 2
  StopTime = 8
  StopStep = 2
SPECIFICATION FairSpec
\* the run of the program ends
CHECK_DEADLOCK FALSE
INVARIANTS
  ChannelsInStep
  SameClock
  CflRespected
  NeverPastStopTime
  QuietBetweenChunks
PROPERTIES
  ImplementsLockStep
  Finishes
