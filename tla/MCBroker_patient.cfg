SPECIFICATION FairSpec
CONSTANTS
  c1 = c1
  c2 = c2
  c3 = c3
  r1 = r1
  r2 = r2
  u1 = u1
  NoCall = NoCall
  NoUnit = NoUnit
  Call = {c1, c2, c3}
  RequestId = {r1, r2}
  Unit = {u1}
  RequestOf <- Requests
  KindOf <- UnitKinds
  OpOf <- UnitOps
  UnitOf <- UnitUnits
  ExpectedOf <- UnitExpected
  MayOverlap = FALSE
  MayCrash = TRUE
  AuditMayFail = FALSE
  MayFlip = TRUE
INVARIANTS
  RepliesAgree
  AuditCoversEffects
  OpenRowsAreEvidence
  LockHeldWhileCritical
PROPERTIES
  ImplementsIdempotentAction
  EveryCallAnswered
