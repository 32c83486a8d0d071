SPECIFICATION FairSpec
CONSTANTS
  NumKinds = 2
  Publishers = {p1, p2}
  Consumers = {c1}
  Closers = {x1, x2}
  BufferSize = 1
  MaxCalls = 1
INVARIANTS  StrandedFromInFlight
PROPERTIES LateCallRefused ImplementsContract CloseCompletes
