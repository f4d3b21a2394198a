SPECIFICATION Spec
CONSTANTS
  MaxMessages = 6
  Depth = 3
  Modes = {"inline", "latest", "tasks"}
  Concurrency = 2
  Faults = TRUE
INVARIANTS DeliveredOnce QueueIsNoticed
PROPERTIES NewestIsHeard
CHECK_DEADLOCK FALSE
