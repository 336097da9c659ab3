SPECIFICATION FairSpec
CONSTANTS
  c1 = c1
  c2 = c2
  c3 = c3
  NoClient = NoClient
  Client = {c1, c2}
  MaxOut = 2
  Scrollback = 1
  Buffer = 1
  MayExit = TRUE
  MayUnsubscribe = TRUE
INVARIANTS
  NoGapWhileRunning
  ListedWhileAlive
PROPERTIES
  ExitedIsRemoved
  UnattendedIsKilled
  ReaderIsFreed
