SPECIFICATION TalkSpec
CONSTANTS
  MaxTurns = 3
  GateRounds = 2
  Retries = 1
  Kinds = {"rows", "risk"}
  Material = FALSE
  MayTimeOut = FALSE
  Overlap = TRUE
  MaxEvictions = 0
CHECK_DEADLOCK FALSE
INVARIANTS TurnPairKept
