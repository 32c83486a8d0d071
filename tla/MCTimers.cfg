SPECIFICATION MCSpec
CONSTANTS
  a = a
  b = b
  Handlers = {m1, m2}
  Senders = {s1, s2}
  Nobody = nobody
  Capable <- MCCapable
  Jobs = {a, b}
  Kind <- MCKind
  When <- MCWhen
  Gateways = {1, 2}
  Others = {web}
  MaxNow = 3
  MaxCalls = 2
  MaxFaults = 1
  JobIds = {"a", "b"}
  MaxRecords = 2
  MaxRuns = 4
  MaxClears = 2
  MaxErrors = 1
  Refs = {"r1", "r2"}
  Paths = {"p", "q"}
  Scopes = {"s", "t"}
  MaxAge = 1
  MaxTime = 4
INVARIANTS  RunsRecorded MediaFound Indicators
PROPERTIES DueRuns 
CHECK_DEADLOCK FALSE
