SPECIFICATION MCSpec
CONSTANTS
  openai = openai  r1 = r1  r2 = r2  r3 = r3
  Providers <- MCProviders
  Requests <- MCRequests
  ImageCallers <- MCImage
  Chain <- MCChain
  Times <- MCTimes
  Agents = {"main", "other"}
  Main = "main"
  MaxIterations = 1
  Room = 1
  MaxMessages = 2
  MaxReloads = 1
  Rounds = {1, 2}  Keep = 2  Threshold = 3  MaxTurns = 1  MaxRetries = 1  MaxMsgs = 5
  MaxBeside = 1
  Sources = {"AGENTS.md"}
  Skills = {"SKILL.md"}
  MaxClock = 3
  MaxWrites = 4
INVARIANTS ChainSound   
PROPERTIES NeverShortened  EveryMessageHandled
CHECK_DEADLOCK FALSE
