SPECIFICATION Spec
CONSTANTS
  MaxMessages = 3
  Depth = 2
  Modes = {"tasks"}
  Concurrency = 1
  Faults = FALSE
INVARIANTS OneAtATimeInOrder
CHECK_DEADLOCK FALSE
