SPECIFICATION FairSpec
CONSTANTS
  NoChannel = NoChannel
  Channels = {tg}
  Lanes = {"text", "media"}
  MediaSenders = {tg}
  Callers = {g1}
  QueueSize = 1
  MaxRetries = 0
  MaxParts = 1
  MaxMsgs = 2
  MaxStops = 2
  Removable = {tg}
INVARIANT UnregisterDrains
PROPERTIES AllEnds
CHECK_DEADLOCK FALSE
