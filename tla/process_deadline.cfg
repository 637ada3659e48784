SPECIFICATION ProcessSpec
CONSTANTS
  StdoutLimit = 2
  MaxWritten = 3
  PipeSize = 2
CHECK_DEADLOCK FALSE
PROPERTIES DeadlineBoundsCaller
