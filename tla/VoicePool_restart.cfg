\* HandleChannelEnd replays a looping sound while System::update holds the END
\* of another voice: two channels, both finished, both collected.
CONSTANTS
  NPlay = 2
  NRetire = 1
  NSounds = 1
  NSlots = 2
  Restarts = TRUE
  MaxPlays = 4
  MaxGen = 4
  MaxStreams = 0
SPECIFICATION Spec
INVARIANTS
  EndToItsOwner
