SPECIFICATION FairSpec
CONSTANTS
  metrics = metrics
  terminal = terminal
  NoSub = NoSub
  Sub = {metrics, terminal}
  Id = {1, 2}
  IdOf <- Numbers
  Streaming = {terminal}
  SendBuffer = 2
  MaxMissed = 1
  MaxEvents = 2
  MaxFaults = 1
CONSTRAINT QuietInput
INVARIANTS
  SocketInv
  NothingMissed
  AgreeAtRest
PROPERTIES
  ImplementsConnection
  DeadConnectionEnds
  Resubscribed
CHECK_DEADLOCK FALSE \* every part of the page may have left
