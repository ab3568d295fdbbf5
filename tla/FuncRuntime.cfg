SPECIFICATION FairSpec
CONSTANTS
  c1 = c1
  l1 = l1
  PoolSize = 1
  Call <- OneCall
  Reloader <- OneReloader
  MaxInFlight = 2
  MaxRt = 2
  MaxFault = 1
INVARIANTS
  CrashIsRepairedOnce
  CloseSparesCalls
  EveryRuntimeIsOwned
PROPERTIES
  RuntimeMakesProgress
