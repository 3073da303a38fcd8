SPECIFICATION FairSpec
CONSTANTS
  MaxThreads = 5
  Priority <- MCPriority
  Created = 4
  Watched <- MCWatched
  SliceTicks = 3
  MaxSleep = 2
INVARIANTS
  OneRunning
  InversionBounded
  SleepersRest
  SInv
PROPERTIES
  ReadyRuns
  SleeperWakes
