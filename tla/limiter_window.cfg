SPECIFICATION FairSpec
CONSTANTS
  Keys = {k1}
  Callers = {c1, c2}
  Stoppers = {s1, s2}
  Burst = 2
  Refill = 2
  InactiveAfter = 6
  MaxDelay = 1
  MaxNow = 7
INVARIANTS
  TypeOK
  WindowBound
PROPERTIES
  RetryAfterSuffices
  ImplementsBucket
  StopReturns
