SPECIFICATION Spec
CONSTANTS
  Providers = {github, google}
  Browsers = {b1, b2}
  Requests = {r1, r2}
  States = {s1, s2}
  Lifetime = 1
  MaxNow = 2
  None = None
SYMMETRY Symmetry
INVARIANTS
  TypeOK
PROPERTIES
  AttemptsLast
  ImplementsService
