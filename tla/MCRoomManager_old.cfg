SPECIFICATION FairSpec
CONSTANTS
  Address = {a1}
  Room = {r1, r2}
  Connection = {c1}
  Handler = {h1, h2}
  a1 = a1
  r1 = r1
  r2 = r2
  c1 = c1
  h1 = h1
  h2 = h2
  Loop = Loop
  NoRoom = NoRoom
  NoAddress = NoAddress
  NoConnection = NoConnection
  Ops = {"forceCreate"}
  MaxRoomSize = 2
  Minute = 0
  FiveMinutes = 1
  Hour = 2
PROPERTY OldRoomClosed
