\* A blocked decision is rejected, and rejected decisions are not listed.
SPECIFICATION Spec
CONSTANTS
  r1 = r1  r2 = r2
  Reviewers = {r1, r2}
  Asks <- SomeAsks
  Policies <- BlockPolicies
  Modes = {"gate"}
  MaxPolls = 2
  Faults = {}
CHECK_DEADLOCK FALSE
INVARIANT HeldIsListed
