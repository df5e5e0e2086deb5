\* Every fault at once, distinct request ids, a stream that is trimmed.
SPECIFICATION Spec
CONSTANTS
  A = A  B = B  e1 = e1  e2 = e2  e3 = e3  f1 = f1  f2 = f2
  i1 = i1  i2 = i2  i3 = i3  i4 = i4
  Projects = {A}
  Events = {e1, e2, e3}
  ProjectOf <- OneProject
  Ids = {i1, i2, i3}
  IdOf <- ThreeIdsA
  Malformed = {e3}
  Refused = {e2}
  Numbered = {e1}
  MaxRetries = 1
  StreamCap = 2
  Faults = {"crash", "redis", "error"}
  Slow = {A}
  Served = {}
  NoEntry = NoEntry
CHECK_DEADLOCK FALSE
INVARIANT Accounted
