\* Records of three, four and five words on a ring of eight, the last too big for
\* it; positions pass their 32-bit limit (16) while the ring holds records; the
\* 1 ms timeout may fire at any time.
CONSTANTS
  RingWords = 8
  PosMod = 16
  RecMax = 4
  RpcWords = 3
  FlushWords = 4
  PubEvery = 2
  PutWords = {}
  CopyWords = {4, 5}
  MaxCalls = 4
  Timeouts = TRUE
SPECIFICATION Spec
CHECK_DEADLOCK FALSE
INVARIANTS
  UnreadIntact
  OneFrameInFlight
  VitaGLExclusive
  RpcExact
PROPERTIES
  ImplementsStream
