SPECIFICATION Spec
CONSTANTS
  Publishers = {p1, p2}
  Streams = {s1}
  Keep = 4
  MaxIdle = 2
  MaxEvents = 3
  MaxTurns = 1
  MaxEvictions = 0
CHECK_DEADLOCK FALSE
INVARIANT CannotLose
