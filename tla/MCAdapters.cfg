SPECIFICATION MCSpec
CONSTANTS
  Posts = {1, 2, 3}
  None = 0
  MaxDials = 3
  Drops = {1, 2, 3}
  Clients = {a, b, c}
  MaxConnections = 1
  s1 = s1
  s2 = s2
SYMMETRY Alike
INVARIANTS  TypingSound SplitSound  ConnectionsSound
CHECK_DEADLOCK FALSE
