\* ObbFiles: two archives, one of them empty, over two shared slots; a ring of three bytes
\* for reads of one or two, so that it wraps and runs over what it holds.
\* Settings: two languages, a translation, a mod set; a memo of one place.
\* AssetOpen: two threads, five files in tables of four slots.
CONSTANTS
  a1 = a1
  a2 = a2
  Files = {a1, a2}
  FileSize <- MCFileSize
  RingCap = 3
  NEntries = 2
  Band = {1, 2}
  NShared = 2
  NVirtual = 2
  MaxRange = 2
  MaxRec = 2
  Budget = 2
  Lens = {1, 2}
  Positions = {0}
  MaxSeq = 3
  Langs = {"en", "fr"}
  English = "en"
  Translations = {"tr"}
  Sets = {"set"}
  Bias = "Bias"
  Volume = "Volume"
  Floor = "0.10"
  Other = "1.00"
  MemoN = 1
  MaxStarts = 2
  t1 = t1
  t2 = t2
  Threads = {t1, t2}
  Paths <- MCPaths
  Cacheable <- MCCacheable
  Translated = {"tlk"}
  Bundled = {"vert"}
  Archived = {"tga"}
  InSet = {"tga"}
  MissSlots = 4
  Home <- MCHome
  MaxOpens = 5
  MaxFailures = 1
SPECIFICATION StorageSpec
CHECK_DEADLOCK FALSE
SYMMETRY MCSymmetry
CONSTRAINT MCUndisturbed
INVARIANTS
  ArchivesKept
  
  TablesTellTrue
PROPERTIES
  IdleOnlyWithoutHandles
  ImplementsStdio
