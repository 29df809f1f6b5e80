CONSTANTS
  t1 = t1
  t2 = t2
  t3 = t3
  keyboard = keyboard
  Thread = {t1, t2, t3}
  arrival = arrival
  tokens = tokens
  server1 = server1
  server2 = server2
  ctrl = ctrl
  NoThread = NoThread
  num = 1
  bucketDepth = 1
  MaxNeed = 2
  Interrupts = FALSE
SPECIFICATION PartsSpec
CHECK_DEADLOCK FALSE
INVARIANTS
  DequeueIsSafe
  IplIsPerThread
  OnePlace
PROPERTIES
  EveryThreadRunsOn
  EmulationEnds
