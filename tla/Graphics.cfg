\* GLState: two of everything, one kind of call at a time; GUI viewports past the stack's end.
\* GLTextures: two textures over two tracked units and one past them.
\* GLDraws: a shadowed attribute and one past them, a table of one buffer's highest index.
\* GxmPatcher: a table of four slots, three programs, two of which hash to one place.
\* BootScreen: three rows of which two are shown, pictures of two pixels, one hint, one other thread.
CONSTANTS
  Vals = {v1, v2}
  Progs = {p1, p2}
  None = None
  Mixes = {{"box"}, {"blend"}, {"bind"}, {"prog"}}
  StackMax = 1
  MaxPending = 2
  MaxLinks = 3
  MaxScopes = 2
  Textures = {t1, t2}
  NoTexture = NoTexture
  Units = {u1, u2}
  Beyond = Beyond
  Formats = {"rgba", "other"}
  MaxBinds = 1
  MaxStarved = 1
  Near = {n1}
  Far = {f1}
  Arrays = {a1}
  Buffers = {b1}
  IdxSlots = 1
  Top = 1
  CopyMax = 1
  MaxDraws = 1
  MaxWrites = 1
  Ids = {i1}
  FixedId = fixed
  Shapes = {s1}
  NAddrs = 3
  Slots = 4
  MemoMax = 1
  IdleFrames = 1
  MaxRefs = 2
  MaxFrames = 3
  Owner = game
  Others = {w1}
  Rows = 3
  Visible = 2
  Pixels = 2
  FileMax = 2
  MaxHints = 1
  MinTime = 0
  MaxTime = 3
  Times = {2}
  Default <- MCDefault
  Redraw = 1
  HintTime = 2
  Late = 3
  MaxMenus = 1
SPECIFICATION GraphicsSpec
CHECK_DEADLOCK FALSE
SYMMETRY MCSymmetry
INVARIANTS
  ShadowTransparent
  
  QueuedDrawsExact
  AnswersExact
  ScreenSound
PROPERTIES
  ScopesRestore
  ReleasedIdle
  
