SPECIFICATION TalkSpec
CONSTANTS
  MaxTurns = 4
  GateRounds = 2
  Retries = 1
  Kinds = {"rows", "risk"}
  Material = TRUE
  MayTimeOut = FALSE
  Overlap = FALSE
  MaxEvictions = 0
CHECK_DEADLOCK FALSE
INVARIANTS MaterialIsRevised
