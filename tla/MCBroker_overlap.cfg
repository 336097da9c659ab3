SPECIFICATION Spec
CONSTANTS
  c1 = c1
  c2 = c2
  c3 = c3
  r1 = r1
  r2 = r2
  u1 = u1
  NoCall = NoCall
  NoUnit = NoUnit
  Call = {c1, c2, c3}
  RequestId = {r1, r2}
  Unit = {u1}
  RequestOf <- Requests
  KindOf <- ApplyKinds
  OpOf <- ApplyOps
  UnitOf <- ApplyUnits
  ExpectedOf <- ApplyExpected
  MayOverlap = TRUE
  MayCrash = TRUE
  AuditMayFail = TRUE
  MayFlip = FALSE
INVARIANTS
  AppliedOnce
