CONSTANTS
  Requests = {r1, r2, r3}
  r1 = r1
  r2 = r2
  r3 = r3
  Scenes <- MCScenes
  Nobody = Nobody
  NoSignature = NoSignature
  ExactTtl = 1
  SemanticTtl = 2
  MaxFaults = 1
  MaxTicks = 2
  Workers = {w1, w2, w3}
  w1 = w1
  w2 = w2
  w3 = w3
  GlobalLimit = 2
  AgentLimit <- MCAgentLimit
  StreamMaxlen = 2
  MaxFailures = 1
SPECIFICATION MCSpec
INVARIANT NothingStaysBehind
PROPERTIES ServedRight Answered StatsHold
