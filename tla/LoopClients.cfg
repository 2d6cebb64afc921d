CONSTANTS
  t1 = t1
  t2 = t2
  r1 = r1
  m1 = m1
  m2 = m2
  common = common
  s0 = s0
  s1 = s1
  p1 = p1
  o1 = o1
  o2 = o2
  a1 = a1
  a2 = a2
  None = None
  st1 = st1
  st2 = st2
  legacy = legacy
  Threads = {t1, t2}
  Loops = {r1}
  Modes = {m1, m2}
  Owner <- OneOwner
  PortOf <- PortsOf
  Repeats <- RepeatsOf
  Order <- OrderOf
  Addresses = {a1, a2}
  Iterations = 4
  Moments <- BelowFirst
  AsksEarly = FALSE
  MaxLives = 2
  MaxLoops = 4
SPECIFICATION ClientsSpec
INVARIANTS ItemsAgreeWithModes RepliesFindTheirRequest ThreadsHaveTheirLoop  StreamsAreServed TextAgrees
PROPERTY ObserversAreNotReentered
CHECK_DEADLOCK FALSE
