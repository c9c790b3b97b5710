CONSTANTS
  Node = {1, 2}
  Conn <- MCConn
  Breakable <- MCConn
  Stoppable = {}
  KeepAlive = KeepAlive
  Main = Main
  NoEnd = NoEnd

SPECIFICATION Spec

INVARIANT EntriesAreUsable
INVARIANT EntriesAreWatched
PROPERTY AgreementIsKept
PROPERTY OneConnection
PROPERTY BrokenIsForgotten

CHECK_DEADLOCK FALSE
