SPECIFICATION FairSpec
CONSTANTS
 Script <- AllPages
 MaxRuns = 2
 Chosen = {1,2}
 MaxChanges = 2
 MaxFaults = 1
CHECK_DEADLOCK FALSE
INVARIANTS TypeOK NothingPending OwnChangesShown ShownIsStored EditsKept FailureTruthful NoTwin ShownIsSelected
PROPERTY StepsForward CatchesUp
