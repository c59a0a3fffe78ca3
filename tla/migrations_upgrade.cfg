SPECIFICATION Spec
CONSTANTS
  Servers = {s1}
  None = None
  MaxExits = 1
PROPERTIES
  RowsKept
