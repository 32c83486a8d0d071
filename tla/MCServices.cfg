SPECIFICATION MCSpec
CONSTANTS
  g1 = g1  g2 = g2
  Junk = Junk
  Callers <- MCTwo
  Shard <- MCOneKey
  MaxMsgs = 3
  MaxSummaries = 1
  MaxFaults = 2
  SessionKeys = {"a:b", "a_b"}  SessionFile <- MCSameFile  Savers <- MCTwo  MaxVersion = 2  MaxLost = 1
  OldKeys = {1, 2}  MaxOldMsgs = 3  MaxStops = 2
  Channels <- MCTwo  Internal = "cli"  NoChannel = "none"  Generations = {1, 2}
  MaxRecords = 1  MaxEvents = 1  MaxWriteFaults = 1
  MCPServers = {"s1", "s2"}  ToolCallers = {1, 2}  Searchable = TRUE  MaxReloads = 1
  ToolNames = {"n1", "n2"}  Rounds <- MCTwo  ToolTTL = 2  MaxResults = 1  MaxRegistrations = 2  MaxIterations = 2
  Queries = {"q1", "q2", "q3"}  Alike <- MCAlikeQueries  MaxEntries = 2  CacheTtl = 2  MaxClock = 4
  Procs = {1, 2}  Restarts = {1}  Cap = 2  MaxLines = 6  MaxResets = 2
  Requests <- MCTwo  ModelNames = {"a"}  Legacy = "p"  Local = "local-model"  NoModel = "none"
  Server = "s"  MaxAsked = 3
  OpenAI = "openai"  Google = "google"  Flows = {1, 2}  Browser = {2}  Workers <- MCTwo
  MaxIssued = 2  MaxBegun = 3
SYMMETRY MCAlike
INVARIANTS HistoryHolds StatePersists ToolsWork LauncherSound 
PROPERTIES KeepsPromise OnlyForward
CHECK_DEADLOCK FALSE
