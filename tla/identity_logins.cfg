SPECIFICATION FairSpec
CONSTANTS
  Requests = {r1, r2}
  Emails = {e1, e2, E2}
  LowerEmails = {e1, e2}
  Bases = {ann}
  Full = {ann}
  Identities = {i1, i2}
  MaxSuffix = 3
  None = None
INVARIANTS
  TypeOK
  OneWayIn
PROPERTIES
  ImplementsService
  EveryRequestEnds
