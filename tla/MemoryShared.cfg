CONSTANTS
  p1 = p1
  p2 = p2
  p3 = p3
  File = File
  NULL = NULL
  Proc = {p1, p2}
  Obj = {1, 2, 3}
  Page = {0}
  Value = {0, 1}
SPECIFICATION Spec
CHECK_DEADLOCK FALSE
INVARIANT CleanPagesFault
