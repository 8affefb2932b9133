SPECIFICATION StreamSpec
CONSTANTS
  Units <- SomeUnits
  Bodies <- SomeBodies
  ChannelSize = 2
  TaskStatus = TaskStatus
  Lead = Lead
  Trail = Trail
  Replacement = Replacement
  Failure = Failure
INVARIANTS CompleteIsWhole InspectionExact
PROPERTIES LeavingStopsTask
CHECK_DEADLOCK FALSE
