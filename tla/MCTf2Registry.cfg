SPECIFICATION Spec
CONSTANTS
  w1 = w1 w2 = w2 p1 = p1 p2 = p2 k1 = k1 k2 = k2 t1 = t1 t2 = t2 b1 = b1 b2 = b2
  None = None
  CallerOf <- MCCallerOf
  KeyOf <- MCKeyOf
  Needs <- MCNeeds
  Waits = {w1, w2}
  Callers = {p1, p2}
  Keys = {k1}
  Transforms = {t1, t2}
  Resources = {b1, b2}
  MaxRegistryDeaths = 1
  MaxCleanupDeaths = 0
  CleanupDeaths = {"killed", "crashed"}
SYMMETRY BuffersSymmetry
INVARIANTS AnsweredOnce NobodyForgotten ListsAgree NoLostWakeup
PROPERTIES CanceledIsSilent
CHECK_DEADLOCK FALSE
