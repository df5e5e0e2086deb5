\* Only project A is scheduled fairly, and only its posts may time out.
SPECIFICATION FairSpec
CONSTANTS
  A = A  B = B  e1 = e1  e2 = e2  e3 = e3  f1 = f1  f2 = f2
  i1 = i1  i2 = i2  i3 = i3  i4 = i4
  Projects = {A, B}
  Events = {e1, f1, f2}
  ProjectOf <- ThreeEvents
  Ids = {i1, i2, i3}
  IdOf <- ThreeIds
  Malformed = {}
  Refused = {}
  Numbered = {f2}
  MaxRetries = 1
  StreamCap = 4
  Faults = {"error"}
  Slow = {A}
  Served = {A}
  NoEntry = NoEntry
CHECK_DEADLOCK FALSE
INVARIANTS PendingIsCurrent OneAtATime FirstAttemptsInOrder
PROPERTY Settled
