CONSTANTS
  Plans = {p1, p2}
  Settings = {s1}
  Questions = {q1}
  MaxRounds = 4
  MaxUnchanged = 2
  Pairs <- MeshPairs
  Inputs <- OneInput
  Agents <- MeshAgents
  Boundary = "user-boundary"
  AgentOf <- MeshAgentOf
  Callers <- MeshCallers
  Idempotent <- MeshIdempotent
  ChainLimit = 3
  ReentryLimit = 2
  HandoffLimit = 4
  MaxTurns = 6
  GateRounds = 1
  Retries = 1
  Kinds = {"rows"}
  Material = FALSE
  MayTimeOut = TRUE
  Overlap = FALSE
  MaxEvictions = 1
SPECIFICATION MCSpec
CHECK_DEADLOCK FALSE
INVARIANTS LedgerHolds NestingBounded PlanIsSettled
  InterruptionsBounded NothingUnwanted WaitingMatchesStore
PROPERTIES AnswersStand TurnSettles Deliberates
