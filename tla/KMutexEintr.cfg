CONSTANTS
  t1 = t1
  t2 = t2
  t3 = t3
  m1 = m1
  m2 = m2
  disk = disk
  kt_runq = kt_runq
  NULL = NULL
  Thread = {t1, t2, t3}
  Mutex = {m1}
  WaitQ = {m1, disk}
  Killing = TRUE
SPECIFICATION Spec
CHECK_DEADLOCK FALSE
PROPERTY EintrMeansNotHeld
