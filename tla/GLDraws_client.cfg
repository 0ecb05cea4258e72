SPECIFICATION Spec
CONSTANTS
  Near = {n1}
  Far = {f1}
  Arrays = {a1}
  Buffers = {b1}
  None = None
  IdxSlots = 1
  Top = 1
  CopyMax = 1
  MaxPending = 1
  MaxWrites = 1
INVARIANTS WaitedDrawsExact
CHECK_DEADLOCK FALSE
