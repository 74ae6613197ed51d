\* Two steps are asked for, in chunks of two; stop_time leaves room for more.
CONSTANTS
  r = r
  a = a
  x = x
  y = y
  z = z
  Node <- MCNode
  Root = r
  Parent <- MCParent
  Below <- MCBelow
  Cfl <- MCCfl
  Huge = 1000
  RefFreq = 2
  StopTime = 20
  StopStep = 2
SPECIFICATION Spec
\* the run of the program ends
CHECK_DEADLOCK FALSE
INVARIANT StepsAsDocumented
