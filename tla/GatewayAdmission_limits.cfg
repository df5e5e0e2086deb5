\* Three requests of one project over four months; a superadmin may keep a
\* subscriber at the free limit.
SPECIFICATION Spec
CONSTANTS
  A = A  r1 = r1  r2 = r2  r3 = r3
  m0 = m0  m1 = m1  m2 = m2  m3 = m3
  Projects = {A}
  Requests = {r1, r2, r3}
  Free = 1  Pro = 2  Caps = {1}
  Capacity = 1  Cost = 1  Idle = 1
  CounterTTL = 2
  Months = {m0, m1, m2, m3}
  MonthOf <- Calendar
  MonthLength = 1
  Behind = 1  Ahead = 0  Horizon = 2
  NoCap = NoCap  Never = Never  NoBucket = NoBucket  None = None
SYMMETRY Symmetric
INVARIANTS QuotaHolds RefusedOnlyFull BurstBounded CountersExpire
