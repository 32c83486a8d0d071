SPECIFICATION RoundsSpec
CONSTANTS
  Agents = {"main", "other"}
  Main = "main"
  MaxIterations = 1
  Room = 1
  MaxMessages = 1
  MaxReloads = 0
  MaxBeside = 0
PROPERTIES ToolSharedByAgents
CHECK_DEADLOCK FALSE
