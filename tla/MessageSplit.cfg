SPECIFICATION Spec
CONSTANTS
  Messages <- LongFenceLine
  MaxLen = 20
  Reserve = 6
  LineWindow = 6
  SpaceWindow = 4
  Enough = 3
  MaxText = 60
PROPERTIES Returns
CHECK_DEADLOCK FALSE
