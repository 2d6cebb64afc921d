CONSTANTS
  default = default
  other = other
  common = common
  b1 = b1
  b2 = b2
  s1 = s1
  s2 = s2
  p1 = p1
  t1 = t1
  t2 = t2
  Modes = {default, other}
  CommonModes <- MCCommonModes
  Common = common
  Blocks = {b1, b2}
  BlockModes <- MCBlockModes
  Sources0 = {}
  Sources1 = {p1}
  SourceOrder <- MCSourceOrder
  Members <- MCMembers
  Threads = {t1}
  Observed = {}
  IsMain = TRUE
  RunKinds <- Hard
  MaxDepth = 2
SPECIFICATION Spec
CHECK_DEADLOCK FALSE
INVARIANTS TypeOK WakeUpsReachTheSleeper MainQueueIsGuarded
PROPERTIES BlocksAreNeitherLostNorRepeated BlocksRunInOrder
