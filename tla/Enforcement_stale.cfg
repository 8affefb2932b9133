SPECIFICATION Spec
CONSTANTS
  NoScore = NoScore
  NoKey = NoKey
  NoDecision = NoDecision
  Calls = {c1, c2, c3}
  Keys = {bare}
  Traced = {}
  Allowlisted = {}
  Volatile = {bare}
  Decisions <- TwoDenials
  Scores <- LowScore
  FailClosed = TRUE
  TTL = 1
  RpcMax = 1
  MaxNow = 3
SYMMETRY Symmetry
INVARIANTS BoundedStaleness
PROPERTIES JudgedOnce
CHECK_DEADLOCK FALSE
