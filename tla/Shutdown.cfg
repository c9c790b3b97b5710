CONSTANTS
  Node = {1, 2}
  Conn <- MCConn
  Breakable = {}
  Stoppable = {1}
  KeepAlive = KeepAlive
  Main = Main
  NoEnd = NoEnd

SPECIFICATION Spec

INVARIANT EntriesAreWatched
PROPERTY StoppedIsForgotten

CHECK_DEADLOCK FALSE
