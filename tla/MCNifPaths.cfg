\* A call at a time, every path of it; the doubles have 8 bits, a second 10 parts.
CONSTANTS
  Calls    <- MCCalls
  Profiles <- MCProfiles
  RmwQos   <- MCRmwQos
  NsPerSec = 10
  Mantissa = 8
  Fraction = 12
  UIntMax  = 7
SPECIFICATION CallSpec
INVARIANTS CallIsCareful LeavesNothing NothingUsedLate QosSurvives
CHECK_DEADLOCK FALSE
