\* Two requests over a traced, a bare and an allowlisted key; the clock stands.
SPECIFICATION Spec
CONSTANTS
  NoScore = NoScore
  NoKey = NoKey
  NoDecision = NoDecision
  Calls = {c1, c2}
  Keys = {traced, bare, listed}
  Traced = {traced}
  Allowlisted = {listed}
  Volatile = {}
  Decisions <- AllDecisions
  Scores <- BothScores
  FailClosed = FALSE
  TTL = 1
  RpcMax = 1
  MaxNow = 0
SYMMETRY Symmetry
INVARIANTS TypeOK ForwardJustified AuditAgrees
PROPERTIES GateSpec
CHECK_DEADLOCK FALSE
