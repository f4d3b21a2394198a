SPECIFICATION Spec
CONSTANTS
  g1 = g1 g2 = g2 a1 = a1 a2 = a2 a3 = a3 c1 = c1 c2 = c2 r1 = r1 r2 = r2 r3 = r3
  NoReq = NoReq
  GoalOf <- MCGoalOf
  Targets <- MCTargets
  Goals = {g1}
  GoalReqs = {a1}
  CancelReqs = {c1}
  ResultReqs = {r1}
  Deferred = {g1}
  MaxUserCalls = 1
  RaisingCallbacks = FALSE
  VanishingClients = FALSE
INVARIANT QueuedGoalsCanBeCanceled
CHECK_DEADLOCK FALSE
