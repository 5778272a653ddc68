SPECIFICATION FairSpec
CONSTANTS
  A = A
  B = B
  f1 = f1
  f2 = f2
  f3 = f3
  r1 = r1
  r2 = r2
  g1 = g1
  Machine = {A, B}
  File = {f1, f3}
  Group = {}
  Request = {r1, r2}
  Home <- MCHome
  Size <- MCSize
  Uploads <- Alone
  Deletions <- Pairs
  MaxSize = 1
  LifeTime = 0
  Batch = 2
  MaxUploads = 1
  MaxDeletes = 1
  MaxFailures = 0
  MaxTime = 0
  NoFile = NoFile
  NoGroup = NoGroup
PROPERTY DeletionsAnswered
CHECK_DEADLOCK FALSE
