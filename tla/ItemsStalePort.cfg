CONSTANTS
  t1 = t1
  r1 = r1
  s1 = s1
  p1 = p1
  None = None
  Threads = {t1}
  Loops = {r1}
  Modes = {default}
  Sources = {s1}
  Observers = {}
  Owner <- Owners
  PortOf <- PortsOf
  Repeats = {}
  Order = {}
  Common = common
  Default = default
  Forgetful = {s1}
  MaxCalls = 2
  MaxDepth = 1
SPECIFICATION Spec
INVARIANT PortsFindTheirSource
CHECK_DEADLOCK FALSE
