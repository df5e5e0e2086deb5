\* At-least-once delivery across a restart of the worker.
SPECIFICATION FairSpec
CONSTANTS
  A = A  B = B  e1 = e1  e2 = e2  e3 = e3  f1 = f1  f2 = f2
  i1 = i1  i2 = i2  i3 = i3  i4 = i4
  Projects = {A, B}
  Events = {e1, e2, e3, f1}
  ProjectOf <- TwoProjects
  Ids = {i1, i2, i3, i4}
  IdOf <- OwnIds
  Malformed = {}
  Refused = {}
  Numbered = {}
  MaxRetries = 1
  StreamCap = 4
  Faults = {"crash"}
  Slow = {}
  Served = {A, B}
  NoEntry = NoEntry
CHECK_DEADLOCK FALSE
PROPERTY Settled
