SPECIFICATION Spec
CONSTANTS
  w1 = w1
  w2 = w2
  d1 = d1
  d2 = d2
  d3 = d3
  i1 = i1
  i2 = i2
  i3 = i3
  s1 = s1
  s2 = s2
  a = a
  b = b
  v0 = v0
  v1 = v1
  v2 = v2
  v3 = v3
  x = x
  n0 = n0
  n1 = n1
  n2 = n2
  Missing = Missing
  Anything = Anything
  Path = {a, b}
  Content = {v0, v1, v2, v3, x}
  Initially <- AtFirst
  Save = {s1, s2}
  SaveTo <- SaveOnA
  SaveContent <- SaveContents
  SaveExpects <- SaveExpected
  Call = {w1, w2, d1, d2, d3}
  RequestId = {i1, i2, i3}
  IdOf <- Requests
  Deletes = {d1, d2, d3}
  PathOf <- Paths
  ContentOf <- Contents
  ExpectsOf <- Expects
  Name = {n0, n1, n2}
  MaxNumber = 2
  NameOf <- Names
  EditTo = {x, Missing}
  MaxEdits = 1
  MaxCrash = 1
CONSTRAINT Together
INVARIANTS
  WrittenOnce
  SuccessIsTrue
PROPERTIES
  NoLostUpdate
  RollbackFirst
  TrashIsKept
CHECK_DEADLOCK FALSE \* every call is made once
