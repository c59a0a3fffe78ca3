SPECIFICATION PagesSpec
CONSTANTS
  Users = {u1, u2}
  Posts = {p1, p2}
  Comments = {c1}
  Categories = {k1, k2}
  CategoryIds = {k1, k2, kx}
  Guest = Guest
  Requests = {r1}
  MaxVotes = 3
INVARIANTS
  PagesTypeOK
PROPERTIES
  ImplementsPages
SYMMETRY Symmetry
