\* Records of two words on a ring of five, so that most need padding. The timeout
\* never fires: every wait ends by a wake.
CONSTANTS
  RingWords = 5
  PosMod = 10
  RecMax = 2
  RpcWords = 2
  FlushWords = 4
  PubEvery = 2
  PutWords = {2}
  CopyWords = {}
  MaxCalls = 3
  Timeouts = FALSE
SPECIFICATION FairSpec
CHECK_DEADLOCK FALSE
PROPERTIES
  CallReturns
  ImplementsFairStream
