---------------------------- MODULE RoomManager ----------------------------
(***************************************************************************)
(* The rooms of one node: LocalRoomManager, the BasicManager it embeds and *)
(* the localRoom objects it creates (src/room).                            *)
(*                                                                         *)
(* Several request goroutines (Handler) run CreateRoom, JoinRoom,          *)
(* LeaveRoom and RemoveRoom at the same time as the manager's ten-second   *)
(* loop goroutine (Loop).  The code takes a lock for each access to        *)
(* roomsMap or to the connection list of a room, never for an operation as *)
(* a whole: an operation is a sequence of steps, one for each access to    *)
(* shared state, and pc[p] names the access that process p makes next.     *)
(*                                                                         *)
(* A room object is a member of Room, its address a member of Address: two *)
(* objects may carry the same address, and roomsMap knows addresses only.  *)
(* Instants are ages, counted by Tick and capped one above Hour.           *)
(***************************************************************************)
EXTENDS Integers, FiniteSets

CONSTANTS
  Address,      \* room addresses
  Room,         \* the *localRoom objects, a bound on how many get created
  Connection,   \* client connections, each joining the room its URL names
  Handler,      \* goroutines serving requests, a bound on their concurrency
  Loop,         \* the goroutine of BasicManager.start
  NoRoom, NoAddress, NoConnection,
  Ops,          \* the operations that requests ask for
  MaxRoomSize,  \* config.MaxRoomNumber
  Minute, FiveMinutes, Hour   \* the thresholds of ShouldRemove, as ages

\* A "create" comes from POST /room/create and has a generated address; a
\* "forceCreate" comes from a websocket and has the address of its URL.
AllOps == {"create", "forceCreate", "join", "leave", "remove"}

Creates == {"create", "forceCreate"}

ASSUME ProcessAssumption == IsFiniteSet(Handler) /\ Handler # {} /\ Loop \notin Handler

ASSUME NullAssumption ==
  NoRoom \notin Room /\ NoAddress \notin Address /\ NoConnection \notin Connection

ASSUME AddressAssumption == IsFiniteSet(Address)

ASSUME OpsAssumption == Ops \subseteq AllOps

ASSUME TimeAssumption ==
  /\ MaxRoomSize \in Nat /\ Minute \in Nat /\ FiveMinutes \in Nat /\ Hour \in Nat
  /\ Minute <= FiveMinutes /\ FiveMinutes <= Hour

Process == Handler \cup {Loop}

Ages == 0 .. (Hour + 1)

Statuses == {"none", "init", "running", "close"}

ConnStates == {"new", "joining", "joined", "leaving", "left"}

\* The steps of CreateRoom, of JoinRoom, of LeaveRoom and RemoveRoom, of
\* localRoom.Close; loopNext is the body of the loop's range statement.
CloseSteps ==
  {"closeCheck", "closeRecheck", "closeSetStatus", "closeDone", "closeUnlisten", "closeNotify"}

Steps ==
  {"idle", "isFull", "createLookup", "start", "addRoom",
   "joinLookup", "joinCheck", "joinAdd", "joinTell", "joinSetRunning",
   "leaveLookup", "leaveCheck", "leaveRemove", "leaveTell", "leaveShouldRemove",
   "removeLookup", "removeRoom", "loopNext"} \cup CloseSteps

VARIABLES
  roomsMap,     \* BasicManager.roomsMap
  addrOf,       \* Info.Address of each room
  status,       \* StatusMachine.status of each room
  done,         \* TRUE once basicRoom.done is closed
  connections,  \* Info.Connections of each room
  listening,    \* the rooms registered with the event emitter
  createdAge,   \* now - Info.CreatedAt
  activeAge,    \* now - Info.ActiveAt
  pc,           \* the next step of each process
  req,          \* the request each handler serves
  room,         \* the variable room of each process's operation
  loopRooms,    \* the rooms left of the loop's snapshot
  connState,    \* what the session of a connection has asked of the manager
  dest,         \* the room address in the URL of each connection
  crashed       \* a panic left the loop goroutine: the process is dead

roomVars == <<addrOf, status, done, connections, listening, createdAge, activeAge>>
sessionVars == <<connState, dest>>
vars == <<roomsMap, roomVars, pc, req, room, loopRooms, sessionVars, crashed>>

NoRequest == [op |-> "none", addr |-> NoAddress, conn |-> NoConnection]

Request == [op : Ops \cup {"none"}, addr : Address \cup {NoAddress},
            conn : Connection \cup {NoConnection}]

Init ==
  /\ roomsMap = [a \in Address |-> NoRoom]
  /\ addrOf = [r \in Room |-> NoAddress]
  /\ status = [r \in Room |-> "none"]
  /\ done = [r \in Room |-> FALSE]
  /\ connections = [r \in Room |-> {}]
  /\ listening = {}
  /\ createdAge = [r \in Room |-> 0]
  /\ activeAge = [r \in Room |-> 0]
  /\ pc = [p \in Process |-> "idle"]
  /\ req = [h \in Handler |-> NoRequest]
  /\ room = [p \in Process |-> NoRoom]
  /\ loopRooms = {}
  /\ connState = [c \in Connection |-> "new"]
  /\ dest \in [Connection -> Address]
  /\ crashed = FALSE

Listed == {a \in Address : roomsMap[a] # NoRoom}

GoTo(p, step) == pc' = [pc EXCEPT ![p] = step]

\* The operation of process p is over: a handler answers, the loop goes on
\* with its range statement.
Return(p) ==
  /\ GoTo(p, IF p = Loop THEN "loopNext" ELSE "idle")
  /\ room' = [room EXCEPT ![p] = NoRoom]
  /\ req' = IF p = Loop THEN req ELSE [req EXCEPT ![p] = NoRequest]

\* What the session learns when the handler answers.
Answered(h, state) ==
  connState' = [c \in Connection |-> IF c = req[h].conn THEN state ELSE connState[c]]

-----------------------------------------------------------------------------
(* Requests.  Session discipline (serve/socket): a connection joins until  *)
(* one join succeeds and leaves at most once, after that.                  *)

FreeRooms == {r \in Room : status[r] = "none"}

Fresh(a) ==
  /\ \A r \in Room : addrOf[r] # a
  /\ \A h \in Handler : req[h].op \in Creates => req[h].addr # a

Begin(h, op, a, c, step) ==
  /\ ~crashed
  /\ pc[h] = "idle"
  /\ op \in Ops
  /\ req' = [req EXCEPT ![h] = [op |-> op, addr |-> a, conn |-> c]]
  /\ GoTo(h, step)
  /\ UNCHANGED <<roomsMap, roomVars, room, loopRooms, dest, crashed>>

BeginCreate(h, a) ==
  /\ Fresh(a)
  /\ Begin(h, "create", a, NoConnection, "isFull")
  /\ UNCHANGED connState

BeginForceCreate(h, a) ==
  /\ Begin(h, "forceCreate", a, NoConnection, "isFull")
  /\ UNCHANGED connState

BeginJoin(h, c) ==
  /\ connState[c] = "new"
  /\ Begin(h, "join", dest[c], c, "joinLookup")
  /\ connState' = [connState EXCEPT ![c] = "joining"]

BeginLeave(h, c) ==
  /\ connState[c] = "joined"
  /\ Begin(h, "leave", dest[c], c, "leaveLookup")
  /\ connState' = [connState EXCEPT ![c] = "leaving"]

BeginRemove(h, a) ==
  /\ Begin(h, "remove", a, NoConnection, "removeLookup")
  /\ UNCHANGED connState

-----------------------------------------------------------------------------
(* LocalRoomManager.CreateRoom *)

\* Mutant: the capacity check is off by one.
IsFullOffByOne == Cardinality(Listed) > MaxRoomSize

IsFull == Cardinality(Listed) >= MaxRoomSize

CreateIsFull(h) ==
  /\ ~crashed
  /\ pc[h] = "isFull"
  /\ \/ IsFull /\ Return(h)
     \/ ~IsFull /\ GoTo(h, "createLookup") /\ UNCHANGED <<req, room>>
  /\ UNCHANGED <<roomsMap, roomVars, loopRooms, sessionVars, crashed>>

CreateLookup(h) ==
  /\ ~crashed
  /\ pc[h] = "createLookup"
  /\ \/ roomsMap[req[h].addr] # NoRoom /\ Return(h)
     \/ /\ roomsMap[req[h].addr] = NoRoom
        /\ GoTo(h, "start")
        /\ UNCHANGED <<req, room>>
  /\ UNCHANGED <<roomsMap, roomVars, loopRooms, sessionVars, crashed>>

\* NewLocalRoom refuses a secret room without a secret; otherwise Start
\* registers the new room with the event emitter and sends a start message.
\* Bound: when no room object is left every room is refused.
CreateStart(h) ==
  /\ ~crashed
  /\ pc[h] = "start"
  /\ \/ Return(h) /\ UNCHANGED roomVars
     \/ \E r \in FreeRooms :
          /\ addrOf' = [addrOf EXCEPT ![r] = req[h].addr]
          /\ status' = [status EXCEPT ![r] = "init"]
          /\ listening' = listening \cup {r}
          /\ room' = [room EXCEPT ![h] = r]
          /\ GoTo(h, "addRoom")
          /\ UNCHANGED <<done, connections, createdAge, activeAge, req>>
  /\ UNCHANGED <<roomsMap, loopRooms, sessionVars, crashed>>

AddRoom(h) ==
  /\ ~crashed
  /\ pc[h] = "addRoom"
  /\ roomsMap' = [roomsMap EXCEPT ![addrOf[room[h]]] = room[h]]
  /\ Return(h)
  /\ UNCHANGED <<roomVars, loopRooms, sessionVars, crashed>>

-----------------------------------------------------------------------------
(* LocalRoomManager.JoinRoom and localRoom.Join *)

\* getLocalRoom: the room at the address, or an error answer.
JoinLookup(h) ==
  /\ ~crashed
  /\ pc[h] = "joinLookup"
  /\ \/ roomsMap[req[h].addr] = NoRoom /\ Return(h) /\ Answered(h, "new")
     \/ /\ roomsMap[req[h].addr] # NoRoom
        /\ room' = [room EXCEPT ![h] = roomsMap[req[h].addr]]
        /\ GoTo(h, "joinCheck")
        /\ UNCHANGED <<req, connState>>
  /\ UNCHANGED <<roomsMap, roomVars, loopRooms, dest, crashed>>

\* A closed room is answered as not found.
JoinCheck(h) ==
  /\ ~crashed
  /\ pc[h] = "joinCheck"
  /\ \/ status[room[h]] = "close" /\ Return(h) /\ Answered(h, "new")
     \/ /\ status[room[h]] # "close"
        /\ GoTo(h, "joinAdd")
        /\ UNCHANGED <<req, room, connState>>
  /\ UNCHANGED <<roomsMap, roomVars, loopRooms, dest, crashed>>

\* A wrong secret is refused.  Otherwise the connection enters the list.
JoinAdd(h) ==
  /\ ~crashed
  /\ pc[h] = "joinAdd"
  /\ \/ Return(h) /\ Answered(h, "new") /\ UNCHANGED connections
     \/ /\ connections' = [connections EXCEPT ![room[h]] = @ \cup {req[h].conn}]
        /\ GoTo(h, "joinTell")
        /\ UNCHANGED <<req, room, connState>>
  /\ UNCHANGED <<roomsMap, addrOf, status, done, listening, createdAge, activeAge, loopRooms,
                 dest, crashed>>

\* The join message goes to the members; SendMessage refreshes ActiveAt.
JoinTell(h) ==
  /\ ~crashed
  /\ pc[h] = "joinTell"
  /\ activeAge' = [activeAge EXCEPT ![room[h]] = 0]
  /\ GoTo(h, "joinSetRunning")
  /\ UNCHANGED <<roomsMap, addrOf, status, done, connections, listening, createdAge,
                 req, room, loopRooms, sessionVars, crashed>>

JoinSetRunning(h) ==
  /\ ~crashed
  /\ pc[h] = "joinSetRunning"
  /\ status' = [status EXCEPT ![room[h]] = "running"]
  /\ Return(h)
  /\ Answered(h, "joined")
  /\ UNCHANGED <<roomsMap, addrOf, done, connections, listening, createdAge,
                 activeAge, loopRooms, dest, crashed>>

-----------------------------------------------------------------------------
(* localRoom.ShouldRemove *)

NoUseInitRoom(r) == status[r] = "init" /\ connections[r] = {} /\ createdAge[r] > Minute

\* Mutant: an empty room does not get its minute of grace.
NoUserRoomNow(r) == status[r] = "running" /\ connections[r] = {}

NoUserRoom(r) == status[r] = "running" /\ connections[r] = {} /\ activeAge[r] > Minute

NoUseRoom(r) == status[r] = "running" /\ activeAge[r] > FiveMinutes

\* Mutant: the maximum age only counts for a room without activity.
MaxTimeRoomIdle(r) == createdAge[r] > Hour /\ activeAge[r] > Minute

MaxTimeRoom(r) == createdAge[r] > Hour

\* The code takes the time once and then reads status, list and ActiveAt one after
\* another, here in one step.  ActiveAt is only ever set to a later time: a room
\* found empty and too long inactive was so when its list was read.  Left out is
\* the first client of a room that joins and leaves between two of the reads.
ShouldRemove(r) ==
  \/ status[r] = "close"
  \/ NoUseInitRoom(r) \/ NoUserRoom(r) \/ NoUseRoom(r) \/ MaxTimeRoom(r)

-----------------------------------------------------------------------------
(* LocalRoomManager.LeaveRoom and RemoveRoom *)

LeaveLookup(h) ==
  /\ ~crashed
  /\ pc[h] = "leaveLookup"
  /\ \/ roomsMap[req[h].addr] = NoRoom /\ Return(h) /\ Answered(h, "left")
     \/ /\ roomsMap[req[h].addr] # NoRoom
        /\ room' = [room EXCEPT ![h] = roomsMap[req[h].addr]]
        /\ GoTo(h, "leaveCheck")
        /\ UNCHANGED <<req, connState>>
  /\ UNCHANGED <<roomsMap, roomVars, loopRooms, dest, crashed>>

LeaveCheck(h) ==
  /\ ~crashed
  /\ pc[h] = "leaveCheck"
  /\ \/ status[room[h]] = "close" /\ Return(h) /\ Answered(h, "left")
     \/ /\ status[room[h]] # "close"
        /\ GoTo(h, "leaveRemove")
        /\ UNCHANGED <<req, room, connState>>
  /\ UNCHANGED <<roomsMap, roomVars, loopRooms, dest, crashed>>

\* Mutant: LeaveRoom forgets to filter the list.
LeaveRemoveForgets(h) ==
  /\ ~crashed
  /\ pc[h] = "leaveRemove"
  /\ GoTo(h, "leaveTell")
  /\ UNCHANGED <<roomsMap, roomVars, req, room, loopRooms, sessionVars, crashed>>

\* The connection is filtered out of the list: until LeaveTell the room is
\* perhaps empty and has an old ActiveAt.
LeaveRemove(h) ==
  /\ ~crashed
  /\ pc[h] = "leaveRemove"
  /\ connections' = [connections EXCEPT ![room[h]] = @ \ {req[h].conn}]
  /\ GoTo(h, "leaveTell")
  /\ UNCHANGED <<roomsMap, addrOf, status, done, listening, createdAge, activeAge,
                 req, room, loopRooms, sessionVars, crashed>>

\* The leave message goes to those who are left; SendMessage refreshes ActiveAt.
LeaveTell(h) ==
  /\ ~crashed
  /\ pc[h] = "leaveTell"
  /\ activeAge' = [activeAge EXCEPT ![room[h]] = 0]
  /\ GoTo(h, "leaveShouldRemove")
  /\ UNCHANGED <<roomsMap, addrOf, status, done, connections, listening, createdAge,
                 req, room, loopRooms, sessionVars, crashed>>

LeaveShouldRemove(h) ==
  /\ ~crashed
  /\ pc[h] = "leaveShouldRemove"
  /\ \/ ShouldRemove(room[h]) /\ GoTo(h, "removeRoom") /\ UNCHANGED <<req, room, connState>>
     \/ ~ShouldRemove(room[h]) /\ Return(h) /\ Answered(h, "left")
  /\ UNCHANGED <<roomsMap, roomVars, loopRooms, dest, crashed>>

RemoveLookup(h) ==
  /\ ~crashed
  /\ pc[h] = "removeLookup"
  /\ \/ roomsMap[req[h].addr] = NoRoom /\ Return(h)
     \/ /\ roomsMap[req[h].addr] # NoRoom
        /\ room' = [room EXCEPT ![h] = roomsMap[req[h].addr]]
        /\ GoTo(h, "removeRoom")
        /\ UNCHANGED req
  /\ UNCHANGED <<roomsMap, roomVars, loopRooms, sessionVars, crashed>>

\* Mutant: the room is taken out of roomsMap after Close, not before.
RemoveRoomLate(p) ==
  /\ ~crashed
  /\ pc[p] = "removeRoom"
  /\ GoTo(p, "closeCheck")
  /\ UNCHANGED <<roomsMap, roomVars, req, room, loopRooms, sessionVars, crashed>>

\* Mutant: the room is taken out of roomsMap and never closed.
RemoveRoomOnly(p) ==
  /\ ~crashed
  /\ pc[p] = "removeRoom"
  /\ roomsMap' = [roomsMap EXCEPT ![addrOf[room[p]]] = NoRoom]
  /\ Return(p)
  /\ UNCHANGED <<roomVars, loopRooms, sessionVars, crashed>>

\* BasicManager.removeRoom deletes whatever room its address denotes.
RemoveRoom(p) ==
  /\ ~crashed
  /\ pc[p] = "removeRoom"
  /\ roomsMap' = [roomsMap EXCEPT ![addrOf[room[p]]] = NoRoom]
  /\ GoTo(p, "closeCheck")
  /\ UNCHANGED <<roomVars, req, room, loopRooms, sessionVars, crashed>>

-----------------------------------------------------------------------------
(* localRoom.Close, with basicRoom.close between its steps *)

\* The answer of an operation that ends in Close.
CloseReturn(p) ==
  /\ Return(p)
  /\ IF p # Loop /\ req[p].op = "leave" THEN Answered(p, "left") ELSE UNCHANGED connState

CloseCheck(p) ==
  /\ ~crashed
  /\ pc[p] = "closeCheck"
  /\ \/ status[room[p]] = "close" /\ CloseReturn(p)
     \/ status[room[p]] # "close" /\ GoTo(p, "closeRecheck") /\ UNCHANGED <<req, room, connState>>
  /\ UNCHANGED <<roomsMap, roomVars, loopRooms, dest, crashed>>

\* basicRoom.close returns nil on a closed room, and Close goes on.
CloseRecheck(p) ==
  /\ ~crashed
  /\ pc[p] = "closeRecheck"
  /\ GoTo(p, IF status[room[p]] = "close" THEN "closeUnlisten" ELSE "closeSetStatus")
  /\ UNCHANGED <<roomsMap, roomVars, req, room, loopRooms, sessionVars, crashed>>

CloseSetStatus(p) ==
  /\ ~crashed
  /\ pc[p] = "closeSetStatus"
  /\ status' = [status EXCEPT ![room[p]] = "close"]
  /\ GoTo(p, "closeDone")
  /\ UNCHANGED <<roomsMap, addrOf, done, connections, listening, createdAge, activeAge,
                 req, room, loopRooms, sessionVars, crashed>>

\* close(r.done) panics on a closed channel.  net/http recovers the panic of
\* a handler, which ends its request; nothing recovers that of the loop.
CloseDone(p) ==
  /\ ~crashed
  /\ pc[p] = "closeDone"
  /\ \/ /\ ~done[room[p]]
        /\ done' = [done EXCEPT ![room[p]] = TRUE]
        /\ GoTo(p, "closeUnlisten")
        /\ UNCHANGED <<req, room, connState, crashed>>
     \/ /\ done[room[p]]
        /\ CloseReturn(p)
        /\ crashed' = (p = Loop)
        /\ UNCHANGED done
  /\ UNCHANGED <<roomsMap, addrOf, status, connections, listening, createdAge, activeAge,
                 loopRooms, dest>>

\* Mutant: a closed room keeps its registration with the event emitter.
CloseUnlistenForgets(p) ==
  /\ ~crashed
  /\ pc[p] = "closeUnlisten"
  /\ GoTo(p, "closeNotify")
  /\ UNCHANGED <<roomsMap, roomVars, req, room, loopRooms, sessionVars, crashed>>

CloseUnlisten(p) ==
  /\ ~crashed
  /\ pc[p] = "closeUnlisten"
  /\ listening' = listening \ {room[p]}
  /\ GoTo(p, "closeNotify")
  /\ UNCHANGED <<roomsMap, addrOf, status, done, connections, createdAge, activeAge,
                 req, room, loopRooms, sessionVars, crashed>>

\* The close message goes to the members; SendMessage refreshes ActiveAt.
CloseNotify(p) ==
  /\ ~crashed
  /\ pc[p] = "closeNotify"
  /\ activeAge' = [activeAge EXCEPT ![room[p]] = 0]
  /\ CloseReturn(p)
  /\ UNCHANGED <<roomsMap, addrOf, status, done, connections, listening, createdAge,
                 loopRooms, dest, crashed>>

-----------------------------------------------------------------------------
(* BasicManager.loop, the traffic of the room and the clock *)

\* Mutant: the snapshot has an entry for addresses that denote no room.
LoopStartAll ==
  /\ ~crashed
  /\ pc[Loop] = "idle"
  /\ loopRooms' = {roomsMap[a] : a \in Address}
  /\ GoTo(Loop, "loopNext")
  /\ UNCHANGED <<roomsMap, roomVars, req, room, sessionVars, crashed>>

\* A tick of the manager's ticker: the loop takes its snapshot of roomsMap.
LoopStart ==
  /\ ~crashed
  /\ pc[Loop] = "idle"
  /\ loopRooms' = {roomsMap[a] : a \in Listed}
  /\ GoTo(Loop, "loopNext")
  /\ UNCHANGED <<roomsMap, roomVars, req, room, sessionVars, crashed>>

LoopNext ==
  /\ ~crashed
  /\ pc[Loop] = "loopNext"
  /\ \/ /\ loopRooms = {}
        /\ GoTo(Loop, "idle")
        /\ UNCHANGED <<room, loopRooms>>
     \/ \E r \in loopRooms :
          /\ loopRooms' = loopRooms \ {r}
          /\ \/ /\ ShouldRemove(r)
                /\ room' = [room EXCEPT ![Loop] = r]
                /\ GoTo(Loop, "removeRoom")
             \/ ~ShouldRemove(r) /\ UNCHANGED <<room, pc>>
  /\ UNCHANGED <<roomsMap, roomVars, req, sessionVars, crashed>>

\* The goroutine of localRoom.Start sends a message that was emitted to the
\* room's address: SendMessage refreshes ActiveAt.  (A message still queued
\* when done closes may be forwarded too; no room that is open sees that.)
Forward(r) ==
  /\ ~crashed
  /\ status[r] # "none" /\ ~done[r]
  /\ activeAge[r] > 0
  /\ activeAge' = [activeAge EXCEPT ![r] = 0]
  /\ UNCHANGED <<roomsMap, addrOf, status, done, connections, listening, createdAge,
                 pc, req, room, loopRooms, sessionVars, crashed>>

\* Time passes for the rooms that exist, until every one is past Hour: no
\* condition of ShouldRemove can change after that.
Older(age) == IF age > Hour THEN age ELSE age + 1

Tick ==
  /\ ~crashed
  /\ \E r \in Room : status[r] # "none" /\ createdAge[r] <= Hour
  /\ createdAge' = [r \in Room |-> IF status[r] = "none" THEN 0 ELSE Older(createdAge[r])]
  /\ activeAge' = [r \in Room |-> IF status[r] = "none" THEN 0 ELSE Older(activeAge[r])]
  /\ UNCHANGED <<roomsMap, addrOf, status, done, connections, listening,
                 pc, req, room, loopRooms, sessionVars, crashed>>

\* A dead process takes no step; restarting it starts again from Init.
Dead == crashed /\ UNCHANGED vars

-----------------------------------------------------------------------------
Create(h) == CreateIsFull(h) \/ CreateLookup(h) \/ CreateStart(h) \/ AddRoom(h)

Join(h) == JoinLookup(h) \/ JoinCheck(h) \/ JoinAdd(h) \/ JoinTell(h) \/ JoinSetRunning(h)

Leave(h) ==
  LeaveLookup(h) \/ LeaveCheck(h) \/ LeaveRemove(h) \/ LeaveTell(h) \/ LeaveShouldRemove(h)

Close(p) ==
  \/ CloseCheck(p) \/ CloseRecheck(p) \/ CloseSetStatus(p)
  \/ CloseDone(p) \/ CloseUnlisten(p) \/ CloseNotify(p)

Handle(h) ==
  Create(h) \/ Join(h) \/ Leave(h) \/ RemoveLookup(h) \/ RemoveRoom(h) \/ Close(h)

LoopStep == LoopStart \/ LoopNext \/ RemoveRoom(Loop) \/ Close(Loop)

Begins(h) ==
  \/ \E a \in Address : BeginCreate(h, a) \/ BeginForceCreate(h, a) \/ BeginRemove(h, a)
  \/ \E c \in Connection : BeginJoin(h, c) \/ BeginLeave(h, c)

Next ==
  \/ \E h \in Handler : Begins(h) \/ Handle(h)
  \/ LoopStep
  \/ \E r \in Room : Forward(r)
  \/ Tick
  \/ Dead

Spec == Init /\ [][Next]_vars

\* Goroutines are scheduled and time passes; no client has to ask anything.
Fairness ==
  /\ \A h \in Handler : WF_vars(Handle(h))
  /\ WF_vars(LoopStep)
  /\ WF_vars(Tick)

FairSpec == Spec /\ Fairness

-----------------------------------------------------------------------------
(* Properties *)

\* Every variable keeps its type, a busy handler has a request, a process
\* inside an operation on a room has a room that was created.
TypeOK ==
  /\ roomsMap \in [Address -> Room \cup {NoRoom}]
  /\ addrOf \in [Room -> Address \cup {NoAddress}]
  /\ status \in [Room -> Statuses]
  /\ done \in [Room -> BOOLEAN]
  /\ connections \in [Room -> SUBSET Connection]
  /\ listening \in SUBSET Room
  /\ createdAge \in [Room -> Ages]
  /\ activeAge \in [Room -> Ages]
  /\ pc \in [Process -> Steps]
  /\ req \in [Handler -> Request]
  /\ room \in [Process -> Room \cup {NoRoom}]
  /\ loopRooms \in SUBSET Room
  /\ connState \in [Connection -> ConnStates]
  /\ dest \in [Connection -> Address]
  /\ crashed \in BOOLEAN

FreshAddresses == "forceCreate" \notin Ops

\* Process p has decided to close room r and has not finished.
Closing(p, r) == room[p] = r /\ pc[p] \in CloseSteps \cup {"removeRoom"}

\* A lookup never returns a room whose close has begun: LeaveRoom, RemoveRoom
\* and loop take a room out of roomsMap before they close it, and nothing
\* puts it back.
ClosedNotListed ==
  \A a \in Listed :
    LET r == roomsMap[a] IN addrOf[r] = a /\ ~done[r] /\ status[r] \in {"init", "running"}

\* The requests that have passed isFull and not yet added their room.
InFlight == {h \in Handler : pc[h] \in {"createLookup", "start", "addRoom"}}

\* CreateRoom checks isFull and adds the room later.  The "Maximum number of
\* local rooms per instance" of docs/USAGE.md:121 is not kept: requests for
\* different addresses that pass the check together all add their room.  What
\* does hold is that the rooms listed and those to come exceed maxRoomSize by
\* fewer than there are handlers at work at a time.
RoomOvershoot ==
  Cardinality(Listed) + Cardinality(InFlight) <= MaxRoomSize + Cardinality(Handler) - 1

\* A room that is closed and that nobody is closing any more is no listener
\* of the event emitter: its address stops receiving messages.
ClosedNotListening ==
  \A r \in listening : done[r] => \E p \in Process : Closing(p, r)

\* What GetRoomUsers shows of a listed room agrees with the sessions: one
\* that left is no member, whatever room its LeaveRoom found at the address;
\* with generated addresses one that joined is a member until it leaves.
MembersAgree ==
  \A a \in Listed, c \in Connection :
    /\ connState[c] = "left" => c \notin connections[roomsMap[a]]
    /\ (FreshAddresses /\ connState[c] = "joined" /\ dest[c] = a)
          => c \in connections[roomsMap[a]]

\* Unless RemoveRoom is called, a room is only closed when it is more than a
\* minute old, whatever happened between the decision and the close.
YoungRoomSafe ==
  "remove" \in Ops \/ \A p \in Process, r \in Room : Closing(p, r) => createdAge[r] > Minute

\* With generated addresses a room that started is in roomsMap, where the
\* loop finds it, until some process holds it to add it or to close it.
OpenRoomHeld ==
  FreshAddresses =>
    \A r \in Room :
      status[r] # "none" /\ ~done[r] =>
        \/ roomsMap[addrOf[r]] = r
        \/ \E p \in Process : room[p] = r /\ pc[p] = "addRoom"
        \/ \E p \in Process : Closing(p, r)

\* ARCHITECTURE.md:372, "A local room older than one hour is closed".
OldRoomClosed ==
  \A r \in Room : createdAge[r] > Hour ~> (done[r] \/ crashed)

-----------------------------------------------------------------------------
(* Refinement: with generated addresses the manager is a RoomRegistry.     *)

\* The rooms that addRoom put into roomsMap under an address, past or present.
Published(a) ==
  {r \in Room : addrOf[r] = a /\ \A h \in Handler : pc[h] = "addRoom" => room[h] # r}

OneOf(rooms) == IF rooms = {} THEN NoRoom ELSE CHOOSE r \in rooms : TRUE

RoomOf == [a \in Address |-> OneOf(Published(a))]

Retired == {a \in Address : Published(a) # {} /\ roomsMap[a] = NoRoom}

Registry == INSTANCE RoomRegistry WITH roomOf <- RoomOf, retired <- Retired, down <- crashed

\* The concurrent operations on roomsMap keep the promise of RoomRegistry: a
\* generated address denotes one room, once, and is retired in the end.
ImplementsRegistry == Registry!Spec
=============================================================================
