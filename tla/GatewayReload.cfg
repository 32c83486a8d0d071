SPECIFICATION FairSpec
CONSTANT MaxEdits = 1
INVARIANT DeliversAfterReload
CHECK_DEADLOCK FALSE
