\* A voice finishes, a callback steals its channel to replay another sound, and
\* then its slot is stopped.
CONSTANTS
  NPlay = 2
  NRetire = 1
  NSounds = 1
  NSlots = 2
  Restarts = TRUE
  MaxPlays = 3
  MaxGen = 5
  MaxStreams = 0
SPECIFICATION Spec
PROPERTIES
  StopIsFinal
