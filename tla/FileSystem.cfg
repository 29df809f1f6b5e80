CONSTANTS
  t1 = t1
  t2 = t2
  t3 = t3
  v1 = v1
  v2 = v2
  s1 = s1
  s2 = s2
  f1 = f1
  f2 = f2
  NULL = NULL
  Thread = {t1, t2, t3}
  Vno = {v1, v2}
  PageNo = {0}
  Slot = {s1, s2}
  Frame = {f1, f2}
  None = None
  Proc = {s1, s2}
  Ino = {0, 1, 2}
  Dirent = {1, 2}
  FD = {0, 1}
  FileId = {f1, f2}
  Path <- Paths
SPECIFICATION PartsSpec
SYMMETRY Sym
CHECK_DEADLOCK FALSE
INVARIANTS
  PartsTypeOK
  RefcountExact
  BusyHasOneOwner
  NoLostWrite
  SleepersOK
  FileRefsExact
  InodesStay
PROPERTIES
  DataKept
