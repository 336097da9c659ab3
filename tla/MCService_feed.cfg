SPECIFICATION FairSpec
CONSTANTS
  u1 = u1
  s1 = s1
  s2 = s2
  active = active
  enabled = enabled
  up = up
  down = down
  Empty = Empty
  Gone = Gone
  Unit = {u1}
  Field = {active, enabled}
  Queried = {enabled}
  Value = {up, down, Empty}
  Look <- Looks
  Fallback <- Stopped
  Sub = {s1, s2}
  Size = 1
  MaxChanges = 3
CONSTRAINT OneOrLate
INVARIANTS
  FeedInv
PROPERTIES
  ViewCatchesUp
CHECK_DEADLOCK FALSE \* before the first subscription nothing has to happen
