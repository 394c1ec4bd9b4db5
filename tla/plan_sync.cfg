CONSTANT N = 3
SPECIFICATION FairSpec
INVARIANTS CycleDetected PlanIsPlanOf SyncParts SyncKeepsLooseOrder
PROPERTY Terminates
