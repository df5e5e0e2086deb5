\* Two reviewers, both modes, every fault.
SPECIFICATION Spec
CONSTANTS
  r1 = r1  r2 = r2
  Reviewers = {r1, r2}
  Asks <- SomeAsks
  Policies <- SomePolicies
  Modes = {"gate", "observe"}
  MaxPolls = 2
  Faults = {"policy", "answer", "call", "wait", "poll"}
SYMMETRY ReviewerSymmetry
CHECK_DEADLOCK FALSE
INVARIANTS VerdictStands LoserLeavesNoTrace EscalationStands ApprovalIsListed
