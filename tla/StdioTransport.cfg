SPECIFICATION Spec
CONSTANTS
  MaxLines = 2
  MaxSaid = 2
  PipeSize = 1
INVARIANTS TypeOK LinesWhole LinesKept
PROPERTIES LinesFlow EndsWithBoth
CHECK_DEADLOCK FALSE
