CONSTANTS
  a = a
  b = b
  t1 = t1
  t2 = t2
  c1 = c1
  c2 = c2
  LongMax = 9
  ManyTimers = 256
  Modes = {a}
  Timers = {t1, t2}
  FireDate <- MCFireDate
  Interval <- MCInterval
  Added <- OneMode
  Callers = {c1}
  Calls = {}
  Tolerances = {0}
  Early = 1
  MaxTime = 3
  MaxDepth = 1
SPECIFICATION Spec
INVARIANT NextTimerIsArmed
