\* Two projects, each an honest line of links, fail the boot integrity check.
SPECIFICATION Spec
CONSTANTS
  h1 = h1  h2 = h2  h3 = h3  A = A  B = B
  d1 = d1  d2 = d2  d3 = d3  x = x  y = y
  Handlers = {h1, h2}
  Chains = {A, B}
  Decisions = {d1, d2, d3}
  Bodies = {x, y}
  Requests <- NumberedRequests
  Serves <- OneEach
  MaxId = 4
  NoHash = NoHash  NoSeq = NoSeq  NoRow = NoRow  NoRequest = NoRequest
INVARIANT HonestVerifies
