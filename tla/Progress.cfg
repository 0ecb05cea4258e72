\* VoicePool: two channels, two slots, a retire slot, a sound that owns no stream.
\* StreamLoad: two streams, a queue of one job, a decoder for one of them and one spare.
\* LogWriter: a thread that logs and the writer, a buffer of two lines, one fault.
\* Input: an axis that is pushed, flickers and is let go, a button, two fingers.
CONSTANTS
  NPlay = 2
  NRetire = 1
  NSounds = 1
  NSlots = 2
  Restarts = TRUE
  MaxPlays = 3
  MaxGen = 3
  MaxStreams = 0
  NStreams = 2
  MaxJobs = 1
  StreamMax = 1
  Pool = 2
  Chunks = 2
  Loggers = {"game"}
  Writer = "writer"
  BufLines = 2
  MaxLines = 3
  MaxFlushes = 1
  MaxFaults = 1
  Axes = {0}
  Fingers = {"f", "g"}
  QMax = 2
  MaxPad = 3
  MaxFrames = 2
SPECIFICATION Spec
CHECK_DEADLOCK FALSE
INVARIANTS
  LoadsOnLiveStream
  
  OneFingerAtATime
PROPERTIES
  EndsSettle
  ReleaseCompletes
  LogNeverSticks
  SticksCatchUp
