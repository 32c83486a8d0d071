SPECIFICATION Spec
CONSTANTS
  NoChannel = NoChannel
  Channels = {tg}
  Lanes = {"text"}
  MediaSenders = {}
  Callers = {}
  QueueSize = 1
  MaxRetries = 1
  MaxParts = 1
  MaxMsgs = 2
  MaxStops = 1
  Removable = {}
INVARIANT QueueIsConcurrentSafe
CHECK_DEADLOCK FALSE
