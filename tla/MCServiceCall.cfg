SPECIFICATION LiveSpec
CONSTANTS
  p1 = p1 p2 = p2 s1 = s1 s2 = s2 s3 = s3 a1 = a1 NoRequest = NoRequest
  Procs = {p1, p2}
  Sync = {s1, s2, s3}
  Async = {a1}
  CallerOf <- MCCallerOf
  Timed = {s1}
  Depth = 2
  Raises = TRUE
  Ends = {p1, "client", "service"}
INVARIANTS OwnAnswerOnce NothingLeftBehind
PROPERTIES TimedCallsReturn
CHECK_DEADLOCK FALSE
