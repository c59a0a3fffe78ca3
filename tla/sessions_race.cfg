SPECIFICATION Spec
CONSTANTS
  r1 = r1
  r2 = r2
  r3 = r3
  b1 = b1
  b2 = b2
  Users = {u1, u2}
  SessionIds = {s1, s2}
  Browsers = {b1, b2}
  Requests = {r1, r2, r3}
  BrowserOf <- ThreeRequests
  Duration = 2
  Second = 1
  MaxNow = 0
  None = None
SYMMETRY Symmetry
INVARIANTS
  TypeOK
  StaleStaysGuest
  Attributed
  CookieBacked
PROPERTIES
  EndsOnlyOwn
  ImplementsService
