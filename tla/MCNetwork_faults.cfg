SPECIFICATION FairSpec
CONSTANTS
  a1 = a1
  a2 = a2
  a3 = a3
  x = x
  y = y
  NoCall = NoCall
  Call = {a1, a2, a3}
  Change = {x, y}
  ChangeOf <- Changes
  MayFail = TRUE
  MayLose = {"try"}
  MayCrash = TRUE
INVARIANTS
  UnconfirmedNeverStays
PROPERTIES
  ImplementsFairDeadManSwitch
