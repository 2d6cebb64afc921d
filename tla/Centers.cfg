CONSTANTS
  n = n
  x = x
  Null = Null
  Kind = "local"
  Threads = {t1, t2}
  Observers = {o1}
  Added <- WildCards
  Removed <- WildCards
  Posted <- OnePost
  Cells = {c1, c2}
  MayFail = FALSE
  MaxDepth = 2
  t1 = t1
  o1 = o1
  None = None
  portThreads = {pt1, pt2}
  ports = {q1, q2}
  machPorts = {mp1, mp2}
  n1 = n1
  n2 = n2
  f1 = f1
  Foreign <- ForeignServices
  checker = checker
  ownPort = ownPort
  a1 = a1
  all1 = all1
  s1 = s1
  k1 = k1
  v1 = v1
SPECIFICATION CentersSpec
SYMMETRY Symmetry
INVARIANTS CentersCountAndReach OtherTasksAgree PreferencesAgree
PROPERTY RemovedIsNotCalledThen
CHECK_DEADLOCK FALSE
