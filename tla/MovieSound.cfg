\* Two slots for the players of two movies, queues of three places, buffers of three
\* units; an output frame takes two, so a buffer ends between frames, and one mix is
\* long enough to use up two buffers.
CONSTANTS
  NPlayers = 2
  Caps = {3}
  Frames = 3
  Step = 2
  Lens = {3}
  MaxGen = 2
  MaxBufs = 2
  MaxMovies = 2
  MaxGate = 1
SPECIFICATION FairSpec
CHECK_DEADLOCK FALSE
INVARIANTS
  CallbacksExact
PROPERTIES
  PumpsOpenMovie
  DestroyReturns
