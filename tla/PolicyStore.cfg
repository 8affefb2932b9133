\* One policy of three versions, three requests at once, a file that changes under the watcher,
\* restarts.
SPECIFICATION LiveSpec
CONSTANTS
  Names = {p}
  Versions = {v1, v2, v3}
  Handlers = {h1, h2, h3}
  Percentages <- SomePercentages
  Buckets <- SomeBuckets
  MaxEvents = 2
  Crashes = TRUE
  NoPolicy = NoPolicy
  NoRollout = NoRollout
  Idle = Idle
INVARIANTS TypeOK GaugeBalanced CandidateContained FilesApplied
PROPERTIES EditsReachStore
