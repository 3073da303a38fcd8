SPECIFICATION FairSpec
CONSTANTS
  Clients <- MCClients
  Servers <- MCServers
  Drivers <- MCDrivers
  Absent <- MCAbsent
  MaxCalls <- MCMaxCalls
INVARIANTS
  NoLostWakeup
  CallerAccounted
  AnswerMatches
  IInv
PROPERTIES
  RefinesRpc
  EveryCallReturns
