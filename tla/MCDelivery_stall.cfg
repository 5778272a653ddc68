SPECIFICATION FairSpec
CONSTANTS
  Client = {c1, c2}
  c1 = c1
  c2 = c2
  QueueSize = 1
  RoomQueueSize = 1
  MaxDirects = 1
  MaxBroadcasts = 2
  Broadcaster = {c1}
  DirectPair = {}
  IncludeSelf = {}
  MayClose = FALSE
  Unsteady = {c2}
  Flaky = {c2}
  MayBeFar = {}
  MaxBehind = 0
  NoMsg = NoMsg
PROPERTY BroadcastsForwarded
CHECK_DEADLOCK FALSE
