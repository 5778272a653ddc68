SPECIFICATION Spec
CONSTANTS
  Client = {c1, c2}
  c1 = c1
  c2 = c2
  QueueSize = 1
  RoomQueueSize = 1
  MaxDirects = 1
  MaxBroadcasts = 1
  Broadcaster = {c1}
  DirectPair <- Second
  IncludeSelf = {}
  MayClose = TRUE
  Unsteady = {c2}
  Flaky = {c2}
  MayBeFar = {c2}
  MaxBehind = 0
  NoMsg = NoMsg
INVARIANT CloseTold
CHECK_DEADLOCK FALSE
VIEW Unread
