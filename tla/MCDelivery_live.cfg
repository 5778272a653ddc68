SPECIFICATION FairSpec
CONSTANTS
  Client = {c1, c2}
  c1 = c1
  c2 = c2
  QueueSize = 1
  RoomQueueSize = 1
  MaxDirects = 1
  MaxBroadcasts = 1
  Broadcaster = {c1, c2}
  DirectPair = {}
  IncludeSelf = {}
  MayClose = FALSE
  Unsteady = {c2}
  Flaky = {}
  MayBeFar = {c2}
  MaxBehind = 0
  NoMsg = NoMsg
PROPERTY ForwardsUnlessStuck
PROPERTY SessionEnds
CHECK_DEADLOCK FALSE
