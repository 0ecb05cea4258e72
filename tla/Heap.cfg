\* One segment, with room for three of the smallest blocks or one large and a small;
\* newlib holds one block.  Two assets in a cache of two entries, one
\* larger than a segment.
CONSTANTS
  MaxSegs = 1
  SegSize = 6
  Header = 1
  MinSplit = 2
  MinBytes = 2
  loader = loader
  Game = game
  Threads = {game, loader}
  Sizes <- MCSizes
  NLib = 1
  MaxHeld = 1
  NCache = 2
  NSounds = 1
  Clips <- MCClips
  Keep = 2
  Budget = 7
  MaxLoads = 2
SPECIFICATION FairSpec
INVARIANTS
  BlocksSound
  MixedSamplesStay
  CacheExact
PROPERTIES
  NewReturns
