CONSTANTS
  a = a
  b = b
  t1 = t1
  t2 = t2
  c1 = c1
  c2 = c2
  LongMax = 9
  ManyTimers = 256
  Modes = {a, b}
  Timers = {t1, t2}
  FireDate <- MCFireDate
  Interval <- MCInterval
  Added <- TwoModes
  Callers = {c1}
  Calls = {"add", "remove", "invalidate"}
  Tolerances = {0}
  Early = 0
  MaxTime = 3
  MaxDepth = 2
SPECIFICATION Spec
INVARIANTS ArraysAgreeWithModes CallbackNotReentered NoDrift
PROPERTY OneShotFiresOnce
