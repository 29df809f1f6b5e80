CONSTANTS
  t1 = t1
  t2 = t2
  t3 = t3
  v1 = v1
  v2 = v2
  s1 = s1
  s2 = s2
  f1 = f1
  f2 = f2
  NULL = NULL
  Thread = {t1, t2, t3}
  Vno = {v1}
  PageNo = {0, 1}
  Slot = {s1, s2}
  Frame = {f1, f2}
SPECIFICATION Spec
SYMMETRY Sym
CHECK_DEADLOCK FALSE
INVARIANT NoStaleFrame
