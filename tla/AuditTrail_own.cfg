\* Two calls at one proxy or at two, in one workflow.
SPECIFICATION TrailLiveSpec
CONSTANTS
  k1 = k1
  k2 = k2
  p1 = p1
  p2 = p2
  NoScore = NoScore
  NoKey = NoKey
  NoDecision = NoDecision
  Calls = {c1, c2}
  Keys = {k1, k2}
  Traced = {k1}
  Allowlisted = {}
  Volatile = {}
  Decisions <- DenyOrQueue
  Scores = {0}
  FailClosed = TRUE
  TTL = 1
  RpcMax = 1
  MaxNow = 0
  Proxies = {p1, p2}
  ProxyOf <- OneEach
  Flows = {f1}
  NoObject = {k2}
  Marked = {k1}
INVARIANTS RecordsOwn BlocksListed
PROPERTIES Answered
CHECK_DEADLOCK FALSE
