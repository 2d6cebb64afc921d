CONSTANTS
  n = n
  x = x
  Null = Null
  Kind = "local"
  Threads = {t1, t2}
  Observers = {o1}
  Added <- Two
  Removed <- Two
  Posted <- OnePost
  Cells = {c1, c2}
  MayFail = FALSE
  MaxDepth = 1
SPECIFICATION Spec
PROPERTY RemovedIsNotCalled
