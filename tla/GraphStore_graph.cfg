\* One workflow with every edge between its ids; the clock stands.
SPECIFICATION Spec
CONSTANTS
  Graphs <- OneGraph
  Ids <- GraphIds
  Agents <- Agent
  Nodes <- GraphNodes
  Links <- GraphLinks
  Latency <- GraphLatency
  Thresholds = {1, 2}
  TTL = 1
  MaxGap = 1
  MaxNow = 0
  MaxViolations = 3
  DiskFails = FALSE
  Crashes = FALSE
INVARIANTS Acyclic DriftPathsSound
PROPERTIES LogSpec
