SPECIFICATION FairSpec
CONSTANTS
  l1 = l1
  l2 = l2
  l3 = l3
  alice = alice
  bob = bob
  NoAgent = NoAgent
  Login = {l1, l2}
  User = {alice}
  UserOf <- Users
  MayOverlap = FALSE
  MayForget = FALSE
  MayDie = TRUE
  MayRestart = TRUE
INVARIANTS
  OneAgentPerUser
  RegisteredListens
CHECK_DEADLOCK FALSE \* every client may have left for good
PROPERTIES
  EveryCallAnswered
