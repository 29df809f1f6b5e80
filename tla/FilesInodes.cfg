CONSTANTS
  p1 = p1
  p2 = p2
  f1 = f1
  None = None
  Proc = {p1, p2}
  Ino = {0, 1, 2}
  Dirent = {1}
  FD = {0}
  FileId = {f1}
  Path <- Paths
SPECIFICATION FilesSpec
CHECK_DEADLOCK FALSE
INVARIANT InodesExist
