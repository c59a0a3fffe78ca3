SPECIFICATION FairSpec
CONSTANTS
  Users = {u1}
  Posts = {}
  Comments = {c1}
  Requests = {r1, r2, r3}
  None = None
INVARIANTS
  TypeOK
  SeenIsCurrent
PROPERTIES
  ImplementsService
  EveryRequestEnds
