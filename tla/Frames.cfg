CONSTANTS
  Base = 8
  IntSize = 2
  LongSize = 2
  Id <- MCId
  Leader <- MCLeader
  Payloads <- MCPayloads
  Count = 1
  Capacity = 2
  SendTimesOut = TRUE
  RecvTimesOut = TRUE
  NoThread = NoThread

SPECIFICATION Spec

INVARIANT InitialComesFirst
PROPERTY ImplementsChannel
PROPERTY EverythingArrives

CHECK_DEADLOCK FALSE
