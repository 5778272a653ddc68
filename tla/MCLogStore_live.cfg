SPECIFICATION FairSpec
CONSTANTS
  A = A
  B = B
  f1 = f1
  f2 = f2
  f3 = f3
  r1 = r1
  r2 = r2
  g1 = g1
  Machine = {A, B}
  File = {f1, f2}
  Group = {}
  Request = {r1, r2}
  Home <- MCHome
  Size <- MCSize
  Uploads <- AtA
  Deletions <- Both
  MaxSize = 2
  LifeTime = 0
  Batch = 1
  MaxUploads = 2
  MaxDeletes = 1
  MaxFailures = 1
  MaxTime = 1
  NoFile = NoFile
  NoGroup = NoGroup
PROPERTY OldLogsGo
PROPERTY DeletionsAtHomeAnswered
CHECK_DEADLOCK FALSE
