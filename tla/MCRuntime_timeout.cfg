\* Three turns with an id and a place each; the other parts are as small as they may be.
CONSTANTS
  Turn = 1
  Floor = 1
  Grace = 0
  Lag = 0
  MaxCalls = 1
  Horizon = 1
  t1 = t1
  t2 = t2
  t3 = t3
  t4 = t4
  ida = ida
  idb = idb
  idc = idc
  Turns = {t1, t2, t3}
  Ids = {ida, idb, idc}
  IdOf <- Distinct
  Capacity = 3
  HandoffLimit = 3
  MaxLedgers = 5
  PoolTurns = {a}
  Threads = 1
  Depth = 1
  MaxJobs = 1
  ChainLimit = 1
  ReentryLimit = 1
  Contracts <- MCContracts
SPECIFICATION MCSpec
CHECK_DEADLOCK FALSE
INVARIANT LimitBindsTheTurn
