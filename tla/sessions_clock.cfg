SPECIFICATION FairSpec
CONSTANTS
  r1 = r1
  r2 = r2
  r3 = r3
  b1 = b1
  b2 = b2
  Users = {u1}
  SessionIds = {s1, s2}
  Browsers = {b1}
  Requests = {r1, r2}
  BrowserOf <- TwoTabs
  Duration = 3
  Second = 2
  MaxNow = 4
  None = None
INVARIANTS
  CookieNeverOutlivesRow
PROPERTIES
  WriterReleased
