SPECIFICATION FairSpec
CONSTANT MaxEdits = 3
INVARIANTS NothingLeftBehind OnConfigInForce PanicsOnlyAfterCron NoSilentMiss
PROPERTY SignalEnds
CHECK_DEADLOCK FALSE
