SPECIFICATION Spec
CONSTANTS
  A = A
  B = B
  f1 = f1
  f2 = f2
  f3 = f3
  r1 = r1
  r2 = r2
  g1 = g1
  Machine = {A}
  File = {f1, f2}
  Group = {g1}
  Request = {r1, r2}
  Home <- MCHome
  Size <- MCSize
  Uploads <- Grouped
  Deletions <- Single
  MaxSize = 1
  LifeTime = 0
  Batch = 2
  MaxUploads = 3
  MaxDeletes = 1
  MaxFailures = 1
  MaxTime = 0
  NoFile = NoFile
  NoGroup = NoGroup
INVARIANT TypeOK
INVARIANT FilesMatchRows
INVARIANT SizeKept
INVARIANT GroupEntriesBounded
SYMMETRY Symmetry
CHECK_DEADLOCK FALSE
