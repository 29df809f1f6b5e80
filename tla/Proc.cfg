CONSTANTS
  idle = idle
  init = init
  a = a
  b = b
  c = c
  disk = disk
  kt_runq = kt_runq
  NULL = NULL
  AnyChild = AnyChild
  Thread = {idle, init, a, b, c}
  WaitQ = {idle, init, a, b, c, disk}
  Device = {disk}
  Blocking = TRUE
  Killing = TRUE
SYMMETRY Sym
SPECIFICATION Spec
CHECK_DEADLOCK FALSE
INVARIANTS
  TypeOK
  QueuesOK
  TreeOK
  NoUseAfterFree
