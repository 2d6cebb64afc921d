CONSTANTS
  Threads = {t1, t2}
  Main = main
  Objects = {o1, o2}
  OwnPorts = {p}
  ExternalPorts = {x}
  None = None
  MaxHeld = 1
SPECIFICATION FairSpec
INVARIANTS TypeOK ObjectsAgreeWithPorts CallbackIsCalledOnce
PROPERTIES RightsOutliveSources RightsAreGivenBack
CHECK_DEADLOCK FALSE
