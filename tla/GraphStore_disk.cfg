\* Two workflows, a disk that fails, a service that crashes, time passing.
SPECIFICATION LiveSpec
CONSTANTS
  Graphs <- TwoGraphs
  Ids <- DiskIds
  Agents <- Agent
  Nodes <- DiskNodes
  Links <- DiskLinks
  Latency <- DiskLatency
  Thresholds = {1, 2}
  TTL = 1
  MaxGap = 1
  MaxNow = 2
  MaxViolations = 2
  DiskFails = TRUE
  Crashes = TRUE
INVARIANTS TypeOK BlockedReported SummaryExact
PROPERTIES DropsAreFlushed StoredIsFlushed
