SPECIFICATION LiveSpec
CONSTANTS
  g1 = g1 a1 = a1 a2 = a2 c1 = c1 f1 = f1
  NoReq = NoReq
  GoalOf <- MCGoalOf
  FeedbackOf <- MCFeedbackOf
  Goals = {g1}
  GoalReqs = {a1, a2}
  CancelReqs = {c1}
  ResultReqs = {}
  Feedbacks = {f1}
  QueueDepth = 1
  ExitingCallbacks = TRUE
INVARIANTS CalledBackOnce NothingForgotten AcceptedGoalsAreKnown
PROPERTIES RequestsEnd
CHECK_DEADLOCK FALSE
