SPECIFICATION Spec
CONSTANTS
  Client = {c1, c2}
  c1 = c1
  c2 = c2
  QueueSize = 1
  RoomQueueSize = 1
  MaxDirects = 1
  MaxBroadcasts = 1
  Broadcaster = {c1, c2}
  DirectPair = {}
  IncludeSelf = {c1}
  MayClose = FALSE
  Unsteady = {c2}
  Flaky = {}
  MayBeFar = {c2}
  MaxBehind = 1
  NoMsg = NoMsg
INVARIANT TypeOK
INVARIANT ViewAgrees
PROPERTY ImplementsBroadcast
CHECK_DEADLOCK FALSE
