SPECIFICATION Spec
CONSTANTS
  o = o p = p q = q i1 = i1 i2 = i2 s1 = s1
  Names = {o, p, q}
  ReadOnly = {o}
  Dynamic = {o, q}
  Values = {i1, i2, s1}
  Types = {"integer", "string"}
  TypeOf <- MCTypeOf
  TextOf <- MCTextOf
  Nil = Nil
  Undeclared = Undeclared
  Lists <- MCLists
  AtomicLists <- MCAtomicLists
  RawLists <- MCRawLists
  PreOutputs <- MCPreOutputs
  Refused <- MCRefused
  ExitingCallbacks = TRUE
INVARIANTS EventsTellState StoredIsSound ToldIsCurrent
PROPERTIES DeclarationsHold ResultsTell
CHECK_DEADLOCK FALSE
