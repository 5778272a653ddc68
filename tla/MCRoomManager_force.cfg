SPECIFICATION Spec
CONSTANTS
  Address = {a1, a2}
  Room = {r1, r2}
  Connection = {c1}
  Handler = {h1, h2}
  a1 = a1
  a2 = a2
  r1 = r1
  r2 = r2
  c1 = c1
  h1 = h1
  h2 = h2
  Loop = Loop
  NoRoom = NoRoom
  NoAddress = NoAddress
  NoConnection = NoConnection
  Ops = {"forceCreate", "join", "leave", "remove"}
  MaxRoomSize = 1
  Minute = 0
  FiveMinutes = 0
  Hour = 0
SYMMETRY Symmetry
INVARIANT ClosedNotListed
INVARIANT ClosedNotListening
INVARIANT MembersAgree
INVARIANT RoomOvershoot
