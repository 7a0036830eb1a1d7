CONSTANTS
  Publishers = {p1, p2}
  Streams = {s1}
  Keep = 2
  MaxIdle = 2
  MaxEvents = 3
  MaxTurns = 2
  MaxEvictions = 1
  ChatIds = {chat1, chat2}
  MaxQuestions = 2
  Calls <- MCCalls
  MaxLost = 1
SPECIFICATION MCSpec
CHECK_DEADLOCK FALSE
INVARIANTS StreamIsWhole ChatStands
PROPERTY Feeds
