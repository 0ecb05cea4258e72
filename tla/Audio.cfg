\* VoicePool: two channels, two slots, a retire slot, a sound that may own a stream: a
\* callback that replays it steals the channel of a voice whose END is still owed, during
\* a grain or between two.
\* StreamPlay: a track of four frames over a ring of three, fed two at a time, looping or not.
CONSTANTS
  NPlay = 2
  NRetire = 1
  NSounds = 1
  NSlots = 2
  Restarts = TRUE
  MaxPlays = 3
  MaxGen = 4
  MaxStreams = 1
  Length = 4
  MaxEs = 2
  Cap = 3
  Budget = 2
  HeadFrames = 2
  NChans = 2
  MaxTurns = 2
  MaxPos = 6
SPECIFICATION AudioSpec
INVARIANTS
  VoicesAccounted
  
  WindowExact
PROPERTIES
  MixedVoicesOnly
  PlaysExact
  TracksEnd
