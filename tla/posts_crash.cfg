SPECIFICATION Spec
CONSTANTS
  Requests = {r1, r2}
  Names = {n1, n2, n3}
  Categories = {c1}
  CategoryIds = {c1, cx}
  None = None
INVARIANTS
  TypeOK
  PicturesPresent
  OrphansExplained
PROPERTIES
  ImplementsService
