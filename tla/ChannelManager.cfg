SPECIFICATION Spec
CONSTANTS
  NoChannel = NoChannel
  Channels = {tg}
  Lanes = {"text"}
  MediaSenders = {}
  Callers = {}
  QueueSize = 1
  MaxRetries = 1
  MaxParts = 2
  MaxMsgs = 3
  MaxStops = 1
  Removable = {}
INVARIANTS Deliveries BusOrder 
CHECK_DEADLOCK FALSE
