SPECIFICATION FairSpec
CONSTANTS
  Servers = {s1, s2}
  None = None
  MaxExits = 3
INVARIANTS
  TypeOK
  SchemaRecorded
  ServedComplete
PROPERTIES
  AccountsKept
  AllServe
