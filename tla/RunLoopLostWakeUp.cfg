CONSTANTS
  default = default
  other = other
  common = common
  b1 = b1
  b2 = b2
  s1 = s1
  s2 = s2
  p1 = p1
  t1 = t1
  t2 = t2
  Modes = {default}
  CommonModes <- MCCommonModes
  Common = common
  Blocks = {b1}
  BlockModes <- MCBlockModes
  Sources0 = {s1}
  Sources1 = {}
  SourceOrder <- MCSourceOrder
  Members <- MCMembers
  Threads = {t1}
  Observed = {}
  IsMain = FALSE
  RunKinds <- Hard
  MaxDepth = 2
SPECIFICATION Spec
INVARIANT NoWakeUpIsLost
