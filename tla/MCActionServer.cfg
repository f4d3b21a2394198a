SPECIFICATION Spec
CONSTANTS
  g1 = g1 g2 = g2 a1 = a1 a2 = a2 a3 = a3 c1 = c1 c2 = c2 r1 = r1 r2 = r2 r3 = r3
  NoReq = NoReq
  GoalOf <- MCGoalOf
  Targets <- MCTargets
  Goals = {g1, g2}
  GoalReqs = {a1, a2}
  CancelReqs = {c2}
  ResultReqs = {r1}
  Deferred = {g2}
  MaxUserCalls = 1
  RaisingCallbacks = TRUE
  VanishingClients = TRUE
INVARIANTS HandlesAgree WaitersAreOpen TasksHaveGoal TopicIsCurrent
PROPERTIES ImplementsProtocol AcceptedGoalEnds ResultRequestAnswered
CHECK_DEADLOCK FALSE
