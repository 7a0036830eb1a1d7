\* A turn of 4 ticks with a floor of 1, on a loop that may be later than the grace; four turns on
\* two registry entries; two turns on three threads.
CONSTANTS
  Turn = 4
  Floor = 1
  Grace = 2
  Lag = 3
  MaxCalls = 3
  Horizon = 11
  t1 = t1
  t2 = t2
  t3 = t3
  t4 = t4
  ida = ida
  idb = idb
  idc = idc
  Turns = {t1, t2, t3, t4}
  Ids = {ida, idb, idc}
  IdOf <- Shared
  Capacity = 2
  HandoffLimit = 2
  MaxLedgers = 4
  PoolTurns = {a, b}
  Threads = 3
  Depth = 3
  MaxJobs = 5
  ChainLimit = 2
  ReentryLimit = 1
  Contracts <- MCContracts
SPECIFICATION MCSpec
CHECK_DEADLOCK FALSE
INVARIANTS OneLedger CallIsTold WireIsFaithful
PROPERTIES DeadlinesHold PoolMoves
