CONSTANTS
  t1 = t1
  t2 = t2
  t3 = t3
  keyboard = keyboard
  Thread = {t1, t2, t3}
SPECIFICATION Spec
INVARIANT HaltsOnlyWhenIdle
