SPECIFICATION FairSpec
CONSTANTS
  c1 = c1
  c2 = c2
  c3 = c3
  r1 = r1
  r2 = r2
  p1 = p1
  p2 = p2
  w1 = w1
  NoPlan = NoPlan
  Call = {c1, c2, c3}
  RequestId = {r1, r2}
  RequestOf <- Requests
  Plan = {p1, p2}
  PlanOf <- Plans
  Full = {p1}
  Watcher = {w1}
  Watches <- Watching
  Lifetime = 1
  Retention = 1
  MaxTime = 2
  MaxCrash = 1
INVARIANTS
  InstalledOnce
  JobKeepsItsReport
PROPERTIES
  ResultIsKept
  AcceptedEnds
CHECK_DEADLOCK FALSE \* nobody has to ask for anything
