\* Two handlers race for the same projects: what holds for any number of writers.
SPECIFICATION FairSpec
CONSTANTS
  h1 = h1  h2 = h2  h3 = h3  A = A  B = B
  d1 = d1  d2 = d2  d3 = d3  x = x  y = y
  Handlers = {h1, h2}
  Chains = {A, B}
  Decisions = {d1, d2, d3}
  Bodies = {x, y}
  Requests <- RacingRequests
  Serves <- AllServeAll
  MaxId = 3
  NoHash = NoHash  NoSeq = NoSeq  NoRow = NoRow  NoRequest = NoRequest
INVARIANTS RecordedOnce LinksPointBack NumberedAlongLinks RepliesTruthful ForksDetected RemovalDetected
PROPERTIES LedgerSpec Answered
