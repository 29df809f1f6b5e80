CONSTANTS
  p1 = p1
  p2 = p2
  o1 = o1
  o2 = o2
  small = small
  large = large
  e1 = e1
  e2 = e2
  e3 = e3
  e4 = e4
  anchor = anchor
  NPages = 9
  MaxOrder = 3
  Allocator = {small, large}
  sa_order <- SlabOrder
  sa_slab_nobjs <- SlabSize
  Null = Null
  Elem = {e1, e2, e3, e4}
  Item = {o1, o2}
  Slot = {1, 2, 3, 4}
  PROC_MAX_COUNT = 3
  arrival = arrival
  tokens = tokens
  server1 = server1
  server2 = server2
  ctrl = ctrl
  File = File
  NULL = NULL
  Absent = Absent
  Low = 1
  High = 5
  Heap = 2
  MaxPages = 5
  Touched = {3}
  mmobj = {o1, o2}
  Unmapped = Unmapped
  num = 2
  bucketDepth = 1
  MaxNeed = 2
  Interrupts = TRUE
  NoThread = NoThread
  Proc = {p1, p2}
  Obj = {1, 2, 3, 4}
  Page = {0}
  Value = {0, 1}
SPECIFICATION PartsSpec
SYMMETRY Sym
CHECK_DEADLOCK FALSE
INVARIANTS
  PartsTypeOK
  RefcountExact
  
  SpaceOK
  HeapOK
  StandsForSequence
  PacketsKept
  NobodyLeftWaiting
PROPERTIES
  CopyOnWrite
  ImplementsMap
  NumbersOK
