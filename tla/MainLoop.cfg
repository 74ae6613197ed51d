\* One locality, or three in two groups; one restart.
CONSTANTS
  none = none
  MaxLocalities = 3
  Shares <- MCShares
  Trees <- MCTrees
  Name <- MCName
  NoFile = none
  RefinementFreq = 2
  StopTime = 4
  OutputDt = 2
  Options <- MCOptions
  MaxCrashes = 1
SPECIFICATION LoopFairSpec
\* the program ends
CHECK_DEADLOCK FALSE
INVARIANTS
  FilesIntact
  SourceKept
  NoOutputLost
PROPERTY Terminates
