SPECIFICATION RecoveryFairSpec
CONSTANTS
  Clients <- MCClients
  Servers <- MCServers
  Drivers <- MCDrivers
  Absent <- MCAbsent
  MaxCalls <- MCMaxCalls
  Watched <- MCWatched
  Halting <- MCHalting
  MaxRestart = 1
  MaxDeaths = 2
INVARIANTS
  SleepingServiceIsIdle
  OneOldAnswerPerRestart
PROPERTIES
  OnlyOwnServiceStrands
  QueuedRequestsServed
CHECK_DEADLOCK FALSE
