SPECIFICATION Spec
CONSTANTS
  p1 = p1
  p2 = p2
  p3 = p3
  c1 = c1
  c2 = c2
  Machine = {1, 2}
  Configurations <- Orders
  Content = {c1, c2}
  Query <- Pages
  Request = {p1, p2, p3}
  Expiration = 1
  MaxWork = 4
  MaxTime = 1
  NoToken = NoToken
  NoFile = NoFile
CHECK_DEADLOCK FALSE
SYMMETRY Symmetry
INVARIANT FilesShown
