SPECIFICATION RecoveryFairSpec
CONSTANTS
  Clients <- MCClients
  Servers <- MCServers
  Drivers <- MCDrivers
  Absent <- MCAbsent
  MaxCalls <- MCMaxCalls
  Watched <- MCWatched
  Halting <- MCNoHalting
  MaxRestart = 5
  MaxDeaths = 1
PROPERTIES
  NobodyWaitsForever
CHECK_DEADLOCK FALSE
