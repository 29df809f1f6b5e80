CONSTANTS
  idle = idle
  init = init
  a = a
  b = b
  c = c
  disk = disk
  kt_runq = kt_runq
  NULL = NULL
  AnyChild = AnyChild
  Thread = {idle, init, a, b}
  WaitQ = {idle, init, a, b, disk}
  Device = {disk}
  Blocking = FALSE
  Killing = TRUE
SPECIFICATION FairSpec
CHECK_DEADLOCK FALSE
INVARIANTS
  BlocksUntilOneExits
  NoPanic
PROPERTIES
  HaltKills
  WaitpidReturns
