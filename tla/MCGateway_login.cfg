SPECIFICATION GatewaySpec
CONSTANTS
  l1 = l1
  l2 = l2
  l3 = l3
  l4 = l4
  k1 = k1
  t1 = t1
  t2 = t2
  r1 = r1
  r2 = r2
  r3 = r3
  a1 = a1
  Token = {t1, t2}
  Attempt = {l1, l2, l3, l4}
  Key = {k1}
  KeyOf <- OneKey
  Reauth = {r1, r2, r3}
  ReauthOn <- Proven
  Action = {a1}
  ActionOn <- ActsOnT1
  Threshold = 2
  MaxDelay = 3
  Second = 1
  Width = 4
  Window = 1
  MaxTime = 5
  MaxCrash = 1
CONSTRAINT Apart
INVARIANTS
  FreshMeansProved
PROPERTIES
  BlockGrowsWhileItFits
CHECK_DEADLOCK FALSE \* every call is made once
