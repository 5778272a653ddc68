------------------------- MODULE RoomManagerProofs -------------------------
(***************************************************************************)
(* Theorems about RoomManager, for every number of addresses, rooms,       *)
(* connections and handlers.  IInv is the inductive invariant: it says     *)
(* which room each step of a process holds and who else may hold it.       *)
(***************************************************************************)
EXTENDS RoomManager, FiniteSetTheorems, TLAPS

-----------------------------------------------------------------------------
(* The inductive invariant *)

HoldSteps ==
  {"addRoom", "joinCheck", "joinAdd", "joinTell", "joinSetRunning", "leaveCheck",
   "leaveRemove", "leaveTell", "leaveShouldRemove", "removeRoom"} \cup CloseSteps

AddressSteps == {"isFull", "createLookup", "start", "joinLookup", "leaveLookup", "removeLookup"}

ConnectionSteps == {"joinLookup", "joinCheck", "joinAdd", "leaveLookup", "leaveCheck", "leaveRemove"}

\* A room that exists: the program has a pointer to it.
Started(r) == r \in Room /\ addrOf[r] \in Address /\ status[r] # "none"

\* Processes and the loop's snapshot hold rooms that were created, as are the
\* rooms whose channel is closed; requests carry the arguments that the steps use.
HoldOK ==
  /\ \A p \in Process : pc[p] \in HoldSteps => Started(room[p])
  /\ \A r \in loopRooms : Started(r)
  /\ \A r \in Room : done[r] => Started(r)

RequestOK ==
  \A h \in Handler :
    /\ pc[h] \in AddressSteps => req[h].addr \in Address
    /\ pc[h] \in ConnectionSteps => req[h].conn \in Connection

\* A room on its way into roomsMap is open and known to its creator only.
PendingOK ==
  \A h \in Handler :
    pc[h] = "addRoom" =>
      /\ status[room[h]] = "init" /\ ~done[room[h]]
      /\ roomsMap[addrOf[room[h]]] # room[h]
      /\ room[h] \notin loopRooms
      /\ \A q \in Process \ {h} : pc[q] \in HoldSteps => room[q] # room[h]

\* A room is closed only after it was taken out of roomsMap.
ClosingOK ==
  \A p \in Process : pc[p] \in CloseSteps => roomsMap[addrOf[room[p]]] # room[p]

IInv == TypeOK /\ HoldOK /\ RequestOK /\ PendingOK /\ ClosingOK /\ ClosedNotListed

LEMMA RequestTypes ==
  /\ NoRequest \in Request
  /\ \A op \in Ops, a \in Address, c \in Connection \cup {NoConnection} :
       [op |-> op, addr |-> a, conn |-> c] \in Request
BY DEF NoRequest, Request

LEMMA InitIInv == Init => IInv
<1>1. Init => TypeOK
  <2> SUFFICES ASSUME Init PROVE TypeOK
    OBVIOUS
  <2>1. done \in [Room -> BOOLEAN] /\ crashed \in BOOLEAN
    BY DEF Init
  <2>2. req \in [Handler -> Request]
    BY RequestTypes DEF Init
  <2> QED
    BY <2>1, <2>2, TimeAssumption DEF Init, TypeOK, Statuses, Ages, Steps, ConnStates
<1>2. Init => HoldOK
  BY ProcessAssumption, NullAssumption, TimeAssumption DEF Init, HoldOK, Process,
     NoRequest, HoldSteps, Started, CloseSteps
<1>3. Init => RequestOK
  BY ProcessAssumption, NullAssumption, TimeAssumption DEF Init, RequestOK, Process,
     NoRequest, AddressSteps, ConnectionSteps
<1>4. Init => PendingOK
  BY ProcessAssumption, NullAssumption, TimeAssumption DEF Init, PendingOK, Process,
     NoRequest, HoldSteps, CloseSteps
<1>5. Init => ClosingOK
  BY ProcessAssumption, NullAssumption, TimeAssumption DEF Init, ClosingOK, Process,
     NoRequest, CloseSteps
<1>6. Init => ClosedNotListed
  BY ProcessAssumption, NullAssumption, TimeAssumption DEF Init, ClosedNotListed, Process,
     NoRequest, Listed
<1> QED BY <1>1, <1>2, <1>3, <1>4, <1>5, <1>6 DEF IInv

-----------------------------------------------------------------------------
(* Types *)

\* A step that moves one process and gives its variables values of their type.
LEMMA ReturnTypes ==
  ASSUME TypeOK, NEW p \in Process, Return(p)
  PROVE  /\ pc' \in [Process -> Steps]
         /\ req' \in [Handler -> Request]
         /\ room' \in [Process -> Room \cup {NoRoom}]
BY RequestTypes, ProcessAssumption DEF TypeOK, Return, GoTo, Steps, Process

LEMMA NextTypeOK == ASSUME IInv, [Next]_vars PROVE TypeOK'
<1> USE DEF IInv
<1>1. ASSUME NEW h \in Handler, Begins(h) PROVE TypeOK'
  BY <1>1, RequestTypes DEF Begins, TypeOK, BeginCreate, BeginForceCreate, BeginRemove,
     BeginJoin, BeginLeave, Statuses, Ages, Process, Steps, ConnStates, Begin, CloseSteps,
     GoTo, roomVars
<1>2. ASSUME NEW p \in Handler, CreateIsFull(p) PROVE TypeOK'
  BY <1>2, ReturnTypes, ProcessAssumption, TimeAssumption DEF CreateIsFull, TypeOK, GoTo,
     roomVars, sessionVars, Statuses, Ages, Process, Steps, ConnStates, CloseSteps
<1>3. ASSUME NEW p \in Handler, CreateLookup(p) PROVE TypeOK'
  BY <1>3, ReturnTypes, ProcessAssumption, TimeAssumption DEF CreateLookup, TypeOK, GoTo,
     roomVars, sessionVars, Statuses, Ages, Process, Steps, ConnStates, CloseSteps
<1>4. ASSUME NEW p \in Handler, CreateStart(p) PROVE TypeOK'
  BY <1>4, ReturnTypes, ProcessAssumption, TimeAssumption DEF CreateStart, TypeOK, HoldOK,
     RequestOK, roomVars, FreeRooms, GoTo, sessionVars, Statuses, Ages, Process, Steps,
     ConnStates, HoldSteps, Started, AddressSteps, ConnectionSteps, CloseSteps
<1>5. ASSUME NEW p \in Handler, AddRoom(p) PROVE TypeOK'
  BY <1>5, ReturnTypes, ProcessAssumption, TimeAssumption DEF AddRoom, TypeOK, HoldOK,
     roomVars, sessionVars, Statuses, Ages, Process, Steps, ConnStates, HoldSteps, Started,
     CloseSteps
<1>6. ASSUME NEW p \in Handler, JoinLookup(p) PROVE TypeOK'
  BY <1>6, ReturnTypes, ProcessAssumption, TimeAssumption DEF JoinLookup, TypeOK,
     RequestOK, Answered, GoTo, roomVars, Statuses, Ages, Process, Steps, ConnStates,
     AddressSteps, ConnectionSteps, CloseSteps
<1>7. ASSUME NEW p \in Handler, JoinCheck(p) PROVE TypeOK'
  BY <1>7, ReturnTypes, ProcessAssumption, TimeAssumption DEF JoinCheck, TypeOK, Answered,
     GoTo, roomVars, Statuses, Ages, Process, Steps, ConnStates, CloseSteps
<1>8. ASSUME NEW p \in Handler, JoinAdd(p) PROVE TypeOK'
  BY <1>8, ReturnTypes, ProcessAssumption, TimeAssumption DEF JoinAdd, Answered, TypeOK, HoldOK,
     RequestOK, GoTo, sessionVars, Statuses, Ages, Process, Steps, ConnStates, HoldSteps,
     Started, AddressSteps, ConnectionSteps, CloseSteps
<1>9. ASSUME NEW p \in Handler, JoinSetRunning(p) PROVE TypeOK'
  BY <1>9, ReturnTypes, ProcessAssumption, TimeAssumption DEF JoinSetRunning, TypeOK,
     HoldOK, Answered, Statuses, Ages, Process, Steps, ConnStates, HoldSteps, Started,
     CloseSteps
<1>10. ASSUME NEW p \in Handler, LeaveLookup(p) PROVE TypeOK'
  BY <1>10, ReturnTypes, ProcessAssumption, TimeAssumption DEF LeaveLookup, TypeOK,
     RequestOK, Answered, GoTo, roomVars, Statuses, Ages, Process, Steps, ConnStates,
     AddressSteps, ConnectionSteps, CloseSteps
<1>11. ASSUME NEW p \in Handler, LeaveCheck(p) PROVE TypeOK'
  BY <1>11, ReturnTypes, ProcessAssumption, TimeAssumption DEF LeaveCheck, TypeOK,
     Answered, GoTo, roomVars, Statuses, Ages, Process, Steps, ConnStates, CloseSteps
<1>12. ASSUME NEW p \in Handler, LeaveRemove(p) PROVE TypeOK'
  BY <1>12, ReturnTypes, ProcessAssumption, TimeAssumption DEF LeaveRemove, TypeOK, HoldOK,
     RequestOK, GoTo, sessionVars, Statuses, Ages, Process, Steps, ConnStates, HoldSteps,
     Started, AddressSteps, ConnectionSteps, CloseSteps
<1>13. ASSUME NEW p \in Handler, LeaveShouldRemove(p) PROVE TypeOK'
  BY <1>13, ReturnTypes, ProcessAssumption, TimeAssumption DEF LeaveShouldRemove, TypeOK,
     GoTo, Answered, roomVars, Statuses, Ages, Process, Steps, ConnStates, CloseSteps
<1>14. ASSUME NEW p \in Handler, RemoveLookup(p) PROVE TypeOK'
  BY <1>14, ReturnTypes, ProcessAssumption, TimeAssumption DEF RemoveLookup, TypeOK,
     RequestOK, GoTo, roomVars, sessionVars, Statuses, Ages, Process, Steps, ConnStates,
     AddressSteps, ConnectionSteps, CloseSteps
<1>15. ASSUME NEW p \in Process, RemoveRoom(p) PROVE TypeOK'
  BY <1>15, ReturnTypes, ProcessAssumption, TimeAssumption DEF RemoveRoom, TypeOK, HoldOK,
     GoTo, roomVars, sessionVars, Statuses, Ages, Process, Steps, ConnStates, HoldSteps,
     Started, CloseSteps
<1>16. ASSUME NEW p \in Process, CloseCheck(p) PROVE TypeOK'
  BY <1>16, ReturnTypes, ProcessAssumption, TimeAssumption DEF CloseCheck, TypeOK,
     CloseReturn, GoTo, roomVars, Statuses, Ages, Process, Steps, ConnStates, Answered,
     CloseSteps
<1>17. ASSUME NEW p \in Process, CloseRecheck(p) PROVE TypeOK'
  BY <1>17, ReturnTypes, ProcessAssumption, TimeAssumption DEF CloseRecheck, TypeOK, GoTo,
     roomVars, sessionVars, Statuses, Ages, Process, Steps, ConnStates, CloseSteps
<1>18. ASSUME NEW p \in Process, CloseSetStatus(p) PROVE TypeOK'
  BY <1>18, ReturnTypes, ProcessAssumption, TimeAssumption DEF CloseSetStatus, TypeOK,
     HoldOK, GoTo, sessionVars, Statuses, Ages, Process, Steps, ConnStates, HoldSteps,
     Started, CloseSteps
<1>19. ASSUME NEW p \in Process, CloseDone(p) PROVE TypeOK'
  <2>1. done' \in [Room -> BOOLEAN] /\ crashed' \in BOOLEAN
    BY <1>19 DEF CloseDone, TypeOK
  <2>2. pc' \in [Process -> Steps] /\ req' \in [Handler -> Request]
        /\ room' \in [Process -> Room \cup {NoRoom}]
    BY <1>19, ReturnTypes DEF CloseDone, CloseReturn, TypeOK, GoTo, Steps, CloseSteps
  <2>3. connState' \in [Connection -> ConnStates]
    BY <1>19 DEF CloseDone, CloseReturn, Answered, TypeOK, ConnStates
  <2> QED BY <1>19, <2>1, <2>2, <2>3 DEF CloseDone, TypeOK
<1>20. ASSUME NEW p \in Process, CloseUnlisten(p) PROVE TypeOK'
  BY <1>20, ReturnTypes, ProcessAssumption, TimeAssumption DEF CloseUnlisten, TypeOK, GoTo,
     sessionVars, Statuses, Ages, Process, Steps, ConnStates, CloseSteps
<1>21. ASSUME NEW p \in Process, CloseNotify(p) PROVE TypeOK'
  BY <1>21, ReturnTypes, ProcessAssumption, TimeAssumption DEF CloseNotify, TypeOK, HoldOK,
     CloseReturn, Statuses, Ages, Process, Steps, ConnStates, HoldSteps, Started, Answered,
     CloseSteps
<1>22. CASE LoopStart
  BY <1>22, ProcessAssumption, TimeAssumption DEF LoopStart, TypeOK, Listed, GoTo,
     roomVars, sessionVars, Statuses, Ages, Process, Steps, ConnStates, CloseSteps
<1>23. CASE LoopNext
  BY <1>23, ProcessAssumption, TimeAssumption DEF LoopNext, TypeOK, GoTo, roomVars,
     sessionVars, Statuses, Ages, Process, Steps, ConnStates, CloseSteps
<1>24. CASE Tick
  BY <1>24, ProcessAssumption, TimeAssumption DEF Tick, TypeOK, Older, sessionVars,
     Statuses, Ages, Process, Steps, ConnStates, CloseSteps
<1>25. ASSUME NEW r \in Room, Forward(r) PROVE TypeOK'
  BY <1>25, TimeAssumption DEF Forward, TypeOK, sessionVars, Statuses, Ages, Process,
     Steps, ConnStates, CloseSteps
<1>26. CASE Dead \/ UNCHANGED vars
  BY <1>26 DEF Dead, vars, roomVars, sessionVars, TypeOK, Statuses, Ages, Process, Steps,
     ConnStates, CloseSteps
<1>27. ASSUME NEW p \in Handler, JoinTell(p) \/ LeaveTell(p) PROVE TypeOK'
  BY <1>27, ReturnTypes, ProcessAssumption, TimeAssumption DEF JoinTell, LeaveTell, TypeOK, HoldOK,
     RequestOK, GoTo, sessionVars, Statuses, Ages, Process, Steps, ConnStates, HoldSteps,
     Started, AddressSteps, ConnectionSteps, CloseSteps
<1> QED
  BY <1>1, <1>2, <1>3, <1>4, <1>5, <1>6, <1>7, <1>8, <1>9, <1>10, <1>11, <1>12, <1>13,
     <1>14, <1>15, <1>16, <1>17, <1>18, <1>19, <1>20, <1>21, <1>22, <1>23, <1>24, <1>25,
     <1>26, <1>27 DEF Next, LoopStep, Handle, Create, Join, Leave, Close, Process

-----------------------------------------------------------------------------
(* Steps that many actions have in common *)

\* Return gives up the room that process p holds.
LEMMA ReturnIInv ==
  ASSUME IInv, TypeOK', NEW p \in Process, Return(p), pc[p] # "addRoom",
         UNCHANGED <<roomsMap, addrOf, status, done, loopRooms>>
  PROVE  IInv'
<1>1. HoldOK'
  BY ProcessAssumption DEF IInv, Return, TypeOK, HoldOK, GoTo, NoRequest, Process,
     HoldSteps, Started, CloseSteps
<1>2. RequestOK'
  BY ProcessAssumption DEF IInv, Return, TypeOK, RequestOK, GoTo, NoRequest, Process,
     AddressSteps, ConnectionSteps
<1>3. PendingOK'
  BY ProcessAssumption DEF IInv, Return, TypeOK, HoldOK, PendingOK, GoTo, NoRequest,
     Process, HoldSteps, Started, CloseSteps
<1>4. ClosingOK'
  BY ProcessAssumption DEF IInv, Return, TypeOK, HoldOK, ClosingOK, PendingOK, GoTo,
     NoRequest, Process, HoldSteps, Started, CloseSteps
<1>5. ClosedNotListed'
  BY ProcessAssumption, NullAssumption DEF IInv, Return, TypeOK, HoldOK, ClosedNotListed,
     ClosingOK, PendingOK, GoTo, NoRequest, Process, HoldSteps, Started, Listed, CloseSteps
<1> QED BY <1>1, <1>2, <1>3, <1>4, <1>5 DEF IInv

\* Process p goes on with the room and the request that it has.
LEMMA AdvanceIInv ==
  ASSUME IInv, TypeOK', NEW p \in Process, NEW step, GoTo(p, step),
         pc[p] # "addRoom", step # "addRoom",
         step \in HoldSteps => pc[p] \in HoldSteps,
         step \in CloseSteps => pc[p] \in CloseSteps,
         step \in AddressSteps => pc[p] \in AddressSteps,
         step \in ConnectionSteps => pc[p] \in ConnectionSteps,
         UNCHANGED <<roomsMap, addrOf, status, done, req, room, loopRooms>>
  PROVE  IInv'
<1>1. HoldOK'
  BY ProcessAssumption DEF IInv, GoTo, TypeOK, HoldOK, Process, HoldSteps, Started,
     CloseSteps
<1>2. RequestOK'
  BY ProcessAssumption DEF IInv, GoTo, TypeOK, RequestOK, Process, AddressSteps,
     ConnectionSteps
<1>3. PendingOK'
  BY ProcessAssumption DEF IInv, GoTo, TypeOK, HoldOK, PendingOK, Process, HoldSteps,
     Started, CloseSteps
<1>4. ClosingOK'
  BY ProcessAssumption DEF IInv, GoTo, TypeOK, HoldOK, ClosingOK, PendingOK, Process,
     HoldSteps, Started, CloseSteps
<1>5. ClosedNotListed'
  BY ProcessAssumption, NullAssumption DEF IInv, GoTo, TypeOK, HoldOK, ClosedNotListed,
     ClosingOK, PendingOK, Process, HoldSteps, Started, Listed, CloseSteps
<1> QED BY <1>1, <1>2, <1>3, <1>4, <1>5 DEF IInv

\* Handler h takes the room that roomsMap lists at address a.
LEMMA TakeIInv ==
  ASSUME IInv, TypeOK', NEW h \in Handler, NEW a \in Address, roomsMap[a] # NoRoom,
         NEW step \in {"joinCheck", "leaveCheck", "removeRoom"}, GoTo(h, step),
         room' = [room EXCEPT ![h] = roomsMap[a]],
         pc[h] # "addRoom",
         step \in ConnectionSteps => pc[h] \in ConnectionSteps,
         UNCHANGED <<roomsMap, addrOf, status, done, req, loopRooms>>
  PROVE  IInv'
<1>1. HoldOK'
  BY ProcessAssumption DEF IInv, GoTo, TypeOK, HoldOK, ClosedNotListed, Process, HoldSteps,
     Started, Listed, CloseSteps
<1>2. RequestOK'
  BY ProcessAssumption DEF IInv, GoTo, TypeOK, RequestOK, Process, AddressSteps,
     ConnectionSteps
<1>3. PendingOK'
  BY ProcessAssumption DEF IInv, GoTo, TypeOK, HoldOK, PendingOK, ClosedNotListed, Process,
     HoldSteps, Started, Listed, CloseSteps
<1>4. ClosingOK'
  BY ProcessAssumption DEF IInv, GoTo, TypeOK, HoldOK, ClosingOK, PendingOK, Process,
     HoldSteps, Started, CloseSteps
<1>5. ClosedNotListed'
  BY ProcessAssumption, NullAssumption DEF IInv, GoTo, TypeOK, HoldOK, ClosedNotListed,
     ClosingOK, PendingOK, Process, HoldSteps, Started, Listed, CloseSteps
<1> QED BY <1>1, <1>2, <1>3, <1>4, <1>5 DEF IInv

\* Nothing that IInv speaks of changes.
LEMMA QuietIInv ==
  ASSUME IInv, TypeOK', UNCHANGED <<roomsMap, addrOf, status, done, pc, req, room, loopRooms>>
  PROVE  IInv'
BY DEF IInv, HoldOK, RequestOK, PendingOK, ClosingOK, ClosedNotListed, Listed, Started

-----------------------------------------------------------------------------
(* The steps that change what is listed, open or held *)

\* A handler takes a request with the arguments that its first step uses.
LEMMA BeginIInv ==
  ASSUME IInv, TypeOK', NEW h \in Handler, NEW op, NEW a \in Address, NEW c,
         NEW step \in AddressSteps, Begin(h, op, a, c, step),
         step \in ConnectionSteps => c \in Connection
  PROVE  IInv'
<1>1. HoldOK'
  BY DEF IInv, Begin, GoTo, roomVars, TypeOK, HoldOK, Process, AddressSteps, HoldSteps,
     Started, CloseSteps
<1>2. RequestOK'
  BY DEF IInv, Begin, GoTo, roomVars, TypeOK, RequestOK, Process
<1>3. PendingOK'
  BY DEF IInv, Begin, GoTo, roomVars, TypeOK, PendingOK, Process, AddressSteps, HoldSteps,
     CloseSteps
<1>4. ClosingOK'
  BY DEF IInv, Begin, GoTo, roomVars, TypeOK, ClosingOK, Process, AddressSteps, CloseSteps
<1>5. ClosedNotListed'
  BY DEF IInv, Begin, roomVars, ClosedNotListed, Listed
<1> QED BY <1>1, <1>2, <1>3, <1>4, <1>5 DEF IInv

\* The new room is unknown to everyone but its creator.
LEMMA CreateStartIInv ==
  ASSUME IInv, TypeOK', NEW h \in Handler, CreateStart(h), ~Return(h)
  PROVE  IInv'
<1>1. PICK r \in FreeRooms :
        /\ addrOf' = [addrOf EXCEPT ![r] = req[h].addr]
        /\ status' = [status EXCEPT ![r] = "init"]
        /\ room' = [room EXCEPT ![h] = r]
        /\ pc' = [pc EXCEPT ![h] = "addRoom"]
        /\ UNCHANGED <<roomsMap, done, loopRooms, req>>
  BY DEF CreateStart, GoTo
<1>2. r \in Room /\ status[r] = "none" /\ ~done[r]
  BY DEF FreeRooms, IInv, HoldOK, Started
<1>3. req[h].addr \in Address
  BY DEF CreateStart, IInv, RequestOK, AddressSteps
<1>4. r \notin loopRooms /\ \A q \in Process : pc[q] \in HoldSteps => room[q] # r
  BY <1>2 DEF IInv, HoldOK, Started
<1>5. \A a \in Address : roomsMap[a] # r
  BY <1>2, NullAssumption DEF IInv, ClosedNotListed, Listed
<1>6. Started(r)' /\ \A q \in Room : Started(q) => Started(q)' /\ q # r
  BY <1>1, <1>2, <1>3 DEF Started, IInv, TypeOK
<1>7. HoldOK'
  BY <1>1, <1>6 DEF IInv, TypeOK, HoldOK, Started, Process
<1>8. RequestOK'
  BY <1>1 DEF IInv, TypeOK, RequestOK, AddressSteps, ConnectionSteps, Process
<1>9. PendingOK'
  BY <1>1, <1>2, <1>4, <1>5, <1>6
     DEF IInv, TypeOK, HoldOK, PendingOK, Process, HoldSteps, Started
<1>10. ClosingOK'
  BY <1>1, <1>4 DEF IInv, TypeOK, HoldOK, ClosingOK, Process, HoldSteps, CloseSteps, Started
<1>11. ClosedNotListed'
  BY <1>1, <1>2, <1>5 DEF IInv, TypeOK, ClosedNotListed, Listed
<1> QED BY <1>7, <1>8, <1>9, <1>10, <1>11 DEF IInv

LEMMA AddRoomIInv ==
  ASSUME IInv, TypeOK', NEW h \in Handler, AddRoom(h)
  PROVE  IInv'
<1>1. HoldOK'
  BY ProcessAssumption DEF IInv, AddRoom, TypeOK, HoldOK, Return, roomVars, sessionVars,
     Process, HoldSteps, Started, GoTo, NoRequest, CloseSteps
<1>2. RequestOK'
  BY ProcessAssumption DEF IInv, AddRoom, TypeOK, RequestOK, Return, roomVars, sessionVars,
     Process, AddressSteps, ConnectionSteps, GoTo, NoRequest
<1>3. PendingOK'
  BY ProcessAssumption DEF IInv, AddRoom, TypeOK, HoldOK, PendingOK, Return, roomVars,
     sessionVars, Process, HoldSteps, Started, GoTo, NoRequest, CloseSteps
<1>4. ClosingOK'
  BY ProcessAssumption DEF IInv, AddRoom, TypeOK, HoldOK, ClosingOK, PendingOK, Return,
     roomVars, sessionVars, Process, HoldSteps, Started, CloseSteps, GoTo, NoRequest
<1>5. ClosedNotListed'
  BY ProcessAssumption, NullAssumption DEF IInv, AddRoom, TypeOK, HoldOK, ClosedNotListed,
     ClosingOK, PendingOK, Return, roomVars, sessionVars, Process, HoldSteps, Started,
     Listed, CloseSteps, GoTo, NoRequest
<1> QED BY <1>1, <1>2, <1>3, <1>4, <1>5 DEF IInv

LEMMA JoinSetRunningIInv ==
  ASSUME IInv, TypeOK', NEW h \in Handler, JoinSetRunning(h)
  PROVE  IInv'
<1>1. HoldOK'
  BY ProcessAssumption DEF IInv, JoinSetRunning, TypeOK, HoldOK, Return, Answered, Process,
     HoldSteps, Started, GoTo, NoRequest, CloseSteps
<1>2. RequestOK'
  BY ProcessAssumption DEF IInv, JoinSetRunning, TypeOK, RequestOK, Return, Answered,
     Process, AddressSteps, ConnectionSteps, GoTo, NoRequest
<1>3. PendingOK'
  BY ProcessAssumption DEF IInv, JoinSetRunning, TypeOK, HoldOK, PendingOK, Return,
     Answered, Process, HoldSteps, Started, GoTo, NoRequest, CloseSteps
<1>4. ClosingOK'
  BY ProcessAssumption DEF IInv, JoinSetRunning, TypeOK, HoldOK, ClosingOK, PendingOK,
     Return, Answered, Process, HoldSteps, Started, CloseSteps, GoTo, NoRequest
<1>5. ClosedNotListed'
  BY ProcessAssumption, NullAssumption DEF IInv, JoinSetRunning, TypeOK, HoldOK,
     ClosedNotListed, ClosingOK, PendingOK, Return, Answered, Process, HoldSteps, Started,
     Listed, CloseSteps, GoTo, NoRequest
<1> QED BY <1>1, <1>2, <1>3, <1>4, <1>5 DEF IInv

LEMMA RemoveRoomIInv ==
  ASSUME IInv, TypeOK', NEW p \in Process, RemoveRoom(p)
  PROVE  IInv'
<1>1. HoldOK'
  BY ProcessAssumption DEF IInv, RemoveRoom, TypeOK, HoldOK, GoTo, roomVars, sessionVars,
     Process, HoldSteps, Started, CloseSteps
<1>2. RequestOK'
  BY ProcessAssumption DEF IInv, RemoveRoom, TypeOK, RequestOK, GoTo, roomVars,
     sessionVars, Process, AddressSteps, ConnectionSteps
<1>3. PendingOK'
  BY ProcessAssumption, NullAssumption DEF IInv, RemoveRoom, TypeOK, HoldOK, PendingOK, GoTo, roomVars,
     sessionVars, Process, HoldSteps, Started, CloseSteps
<1>4. ClosingOK'
  BY ProcessAssumption, NullAssumption DEF IInv, RemoveRoom, TypeOK, HoldOK, ClosingOK, PendingOK,
     ClosedNotListed, GoTo, roomVars, sessionVars, Process, HoldSteps, Started, CloseSteps,
     Listed
<1>5. ClosedNotListed'
  BY ProcessAssumption, NullAssumption DEF IInv, RemoveRoom, TypeOK, HoldOK,
     ClosedNotListed, ClosingOK, PendingOK, GoTo, roomVars, sessionVars, Process,
     HoldSteps, Started, Listed, CloseSteps
<1> QED BY <1>1, <1>2, <1>3, <1>4, <1>5 DEF IInv

LEMMA CloseSetStatusIInv ==
  ASSUME IInv, TypeOK', NEW p \in Process, CloseSetStatus(p)
  PROVE  IInv'
<1>1. HoldOK'
  BY ProcessAssumption DEF IInv, CloseSetStatus, TypeOK, HoldOK, GoTo, sessionVars,
     Process, HoldSteps, Started, CloseSteps
<1>2. RequestOK'
  BY ProcessAssumption DEF IInv, CloseSetStatus, TypeOK, RequestOK, GoTo, sessionVars,
     Process, AddressSteps, ConnectionSteps
<1>3. PendingOK'
  BY ProcessAssumption DEF IInv, CloseSetStatus, TypeOK, HoldOK, PendingOK, GoTo,
     sessionVars, Process, HoldSteps, Started, CloseSteps
<1>4. ClosingOK'
  BY ProcessAssumption DEF IInv, CloseSetStatus, TypeOK, HoldOK, ClosingOK, PendingOK,
     GoTo, sessionVars, Process, HoldSteps, Started, CloseSteps
<1>5. ClosedNotListed'
  BY ProcessAssumption, NullAssumption DEF IInv, CloseSetStatus, TypeOK, HoldOK,
     ClosedNotListed, ClosingOK, PendingOK, GoTo, sessionVars, Process, HoldSteps, Started,
     Listed, CloseSteps
<1> QED BY <1>1, <1>2, <1>3, <1>4, <1>5 DEF IInv

LEMMA CloseDoneIInv ==
  ASSUME IInv, TypeOK', NEW p \in Process, CloseDone(p), ~done[room[p]]
  PROVE  IInv'
<1>1. HoldOK'
  BY ProcessAssumption DEF IInv, CloseDone, TypeOK, HoldOK, GoTo, CloseReturn, Process,
     HoldSteps, Started, Return, Answered, CloseSteps, NoRequest
<1>2. RequestOK'
  BY ProcessAssumption DEF IInv, CloseDone, TypeOK, RequestOK, GoTo, CloseReturn, Process,
     AddressSteps, ConnectionSteps, Return, Answered, NoRequest
<1>3. PendingOK'
  BY ProcessAssumption DEF IInv, CloseDone, TypeOK, HoldOK, PendingOK, GoTo, CloseReturn,
     Process, HoldSteps, Started, Return, Answered, CloseSteps, NoRequest
<1>4. ClosingOK'
  BY ProcessAssumption DEF IInv, CloseDone, TypeOK, HoldOK, ClosingOK, PendingOK, GoTo,
     CloseReturn, Process, HoldSteps, Started, CloseSteps, Return, Answered, NoRequest
<1>5. ClosedNotListed'
  BY ProcessAssumption, NullAssumption DEF IInv, CloseDone, TypeOK, HoldOK,
     ClosedNotListed, ClosingOK, PendingOK, GoTo, CloseReturn, Process, HoldSteps, Started,
     Listed, CloseSteps, Return, Answered, NoRequest
<1> QED BY <1>1, <1>2, <1>3, <1>4, <1>5 DEF IInv

LEMMA LoopStartIInv ==
  ASSUME IInv, TypeOK', LoopStart
  PROVE  IInv'
<1>1. HoldOK'
  BY ProcessAssumption DEF IInv, LoopStart, TypeOK, HoldOK, ClosedNotListed, Listed, GoTo,
     roomVars, sessionVars, Process, HoldSteps, Started, CloseSteps
<1>2. RequestOK'
  BY ProcessAssumption DEF IInv, LoopStart, TypeOK, RequestOK, Listed, GoTo, roomVars,
     sessionVars, Process, AddressSteps, ConnectionSteps
<1>3. PendingOK'
  BY ProcessAssumption DEF IInv, LoopStart, TypeOK, HoldOK, PendingOK, ClosedNotListed,
     Listed, GoTo, roomVars, sessionVars, Process, HoldSteps, Started, CloseSteps
<1>4. ClosingOK'
  BY ProcessAssumption DEF IInv, LoopStart, TypeOK, HoldOK, ClosingOK, PendingOK, Listed,
     GoTo, roomVars, sessionVars, Process, HoldSteps, Started, CloseSteps
<1>5. ClosedNotListed'
  BY ProcessAssumption, NullAssumption DEF IInv, LoopStart, TypeOK, HoldOK,
     ClosedNotListed, ClosingOK, PendingOK, Listed, GoTo, roomVars, sessionVars, Process,
     HoldSteps, Started, CloseSteps
<1> QED BY <1>1, <1>2, <1>3, <1>4, <1>5 DEF IInv

LEMMA LoopNextIInv ==
  ASSUME IInv, TypeOK', LoopNext
  PROVE  IInv'
<1>1. HoldOK'
  BY ProcessAssumption DEF IInv, LoopNext, TypeOK, HoldOK, GoTo, ShouldRemove, roomVars,
     sessionVars, Process, HoldSteps, Started, NoUseInitRoom, NoUserRoom, NoUseRoom,
     MaxTimeRoom, CloseSteps
<1>2. RequestOK'
  BY ProcessAssumption DEF IInv, LoopNext, TypeOK, RequestOK, GoTo, ShouldRemove, roomVars,
     sessionVars, Process, AddressSteps, ConnectionSteps, NoUseInitRoom, NoUserRoom,
     NoUseRoom, MaxTimeRoom
<1>3. PendingOK'
  BY ProcessAssumption DEF IInv, LoopNext, TypeOK, HoldOK, PendingOK, GoTo, ShouldRemove,
     roomVars, sessionVars, Process, HoldSteps, Started, NoUseInitRoom, NoUserRoom,
     NoUseRoom, MaxTimeRoom, CloseSteps
<1>4. ClosingOK'
  BY ProcessAssumption DEF IInv, LoopNext, TypeOK, HoldOK, ClosingOK, PendingOK, GoTo,
     ShouldRemove, roomVars, sessionVars, Process, HoldSteps, Started, CloseSteps,
     NoUseInitRoom, NoUserRoom, NoUseRoom, MaxTimeRoom
<1>5. ClosedNotListed'
  BY ProcessAssumption, NullAssumption DEF IInv, LoopNext, TypeOK, HoldOK, ClosedNotListed,
     ClosingOK, PendingOK, GoTo, ShouldRemove, roomVars, sessionVars, Process, HoldSteps,
     Started, Listed, CloseSteps, NoUseInitRoom, NoUserRoom, NoUseRoom, MaxTimeRoom
<1> QED BY <1>1, <1>2, <1>3, <1>4, <1>5 DEF IInv

-----------------------------------------------------------------------------
(* IInv is inductive *)

LEMMA NextIInv == ASSUME IInv, [Next]_vars PROVE IInv'
<1>0. TypeOK'
  BY NextTypeOK
<1>1. ASSUME NEW h \in Handler, Begins(h) PROVE IInv'
  <2>1. ASSUME NEW a \in Address, BeginCreate(h, a) \/ BeginForceCreate(h, a) PROVE IInv'
    <3>1. "isFull" \in AddressSteps /\ "isFull" \notin ConnectionSteps
      BY DEF AddressSteps, ConnectionSteps
    <3> QED BY <2>1, <3>1, <1>0, BeginIInv DEF BeginCreate, BeginForceCreate
  <2>2. ASSUME NEW a \in Address, BeginRemove(h, a) PROVE IInv'
    <3>1. "removeLookup" \in AddressSteps /\ "removeLookup" \notin ConnectionSteps
      BY DEF AddressSteps, ConnectionSteps
    <3> QED BY <2>2, <3>1, <1>0, BeginIInv DEF BeginRemove
  <2>3. ASSUME NEW c \in Connection, BeginJoin(h, c) \/ BeginLeave(h, c) PROVE IInv'
    <3>1. {"joinLookup", "leaveLookup"} \subseteq AddressSteps /\ dest[c] \in Address
      BY DEF AddressSteps, IInv, TypeOK
    <3> QED BY <2>3, <3>1, <1>0, BeginIInv DEF BeginJoin, BeginLeave
  <2> QED BY <1>1, <2>1, <2>2, <2>3 DEF Begins
<1>2. ASSUME NEW h \in Handler, CreateIsFull(h) PROVE IInv'
  BY <1>2, <1>0, ReturnIInv, AdvanceIInv, ProcessAssumption DEF CreateIsFull, roomVars,
     HoldSteps, CloseSteps, AddressSteps, ConnectionSteps, Process
<1>3. ASSUME NEW h \in Handler, CreateLookup(h) PROVE IInv'
  BY <1>3, <1>0, ReturnIInv, AdvanceIInv, ProcessAssumption DEF CreateLookup, roomVars,
     HoldSteps, CloseSteps, AddressSteps, ConnectionSteps, Process
<1>4. ASSUME NEW h \in Handler, CreateStart(h) PROVE IInv'
  <2>1. CASE Return(h)
    BY <1>4, <2>1, <1>0, ReturnIInv DEF CreateStart, roomVars, Process, Return, GoTo, IInv, TypeOK
  <2>2. CASE ~Return(h)
    BY <1>4, <2>2, <1>0, CreateStartIInv
  <2> QED BY <2>1, <2>2
<1>5. ASSUME NEW h \in Handler, AddRoom(h) PROVE IInv'
  BY <1>5, <1>0, AddRoomIInv
<1>6. ASSUME NEW h \in Handler, JoinLookup(h) PROVE IInv'
  BY <1>6, <1>0, ReturnIInv, TakeIInv DEF JoinLookup, IInv, RequestOK, roomVars, Process,
     AddressSteps, ConnectionSteps
<1>7. ASSUME NEW h \in Handler, LeaveLookup(h) PROVE IInv'
  BY <1>7, <1>0, ReturnIInv, TakeIInv DEF LeaveLookup, IInv, RequestOK, roomVars, Process,
     AddressSteps, ConnectionSteps
<1>8. ASSUME NEW h \in Handler, RemoveLookup(h) PROVE IInv'
  BY <1>8, <1>0, ReturnIInv, TakeIInv DEF RemoveLookup, IInv, RequestOK, roomVars, Process,
     AddressSteps, ConnectionSteps
<1>9. ASSUME NEW h \in Handler, JoinCheck(h) PROVE IInv'
  BY <1>9, <1>0, ReturnIInv, AdvanceIInv, ProcessAssumption DEF JoinCheck, roomVars,
     HoldSteps, CloseSteps, AddressSteps, ConnectionSteps, Process
<1>10. ASSUME NEW h \in Handler, JoinAdd(h) PROVE IInv'
  BY <1>10, <1>0, ReturnIInv, AdvanceIInv, ProcessAssumption DEF JoinAdd, HoldSteps,
     CloseSteps, AddressSteps, ConnectionSteps, Process
<1>11. ASSUME NEW h \in Handler, JoinSetRunning(h) PROVE IInv'
  BY <1>11, <1>0, JoinSetRunningIInv
<1>12. ASSUME NEW h \in Handler, LeaveCheck(h) PROVE IInv'
  BY <1>12, <1>0, ReturnIInv, AdvanceIInv, ProcessAssumption DEF LeaveCheck, roomVars,
     HoldSteps, CloseSteps, AddressSteps, ConnectionSteps, Process
<1>13. ASSUME NEW h \in Handler, LeaveRemove(h) PROVE IInv'
  BY <1>13, <1>0, ReturnIInv, AdvanceIInv, ProcessAssumption DEF LeaveRemove, HoldSteps,
     CloseSteps, AddressSteps, ConnectionSteps, Process
<1>14. ASSUME NEW h \in Handler, LeaveShouldRemove(h) PROVE IInv'
  BY <1>14, <1>0, ReturnIInv, AdvanceIInv, ProcessAssumption DEF LeaveShouldRemove, roomVars,
     HoldSteps, CloseSteps, AddressSteps, ConnectionSteps, Process
<1>15. ASSUME NEW p \in Process, RemoveRoom(p) PROVE IInv'
  BY <1>15, <1>0, RemoveRoomIInv
<1>16. ASSUME NEW p \in Process, CloseCheck(p) PROVE IInv'
  BY <1>16, <1>0, ReturnIInv, AdvanceIInv, ProcessAssumption DEF CloseCheck, CloseReturn,
     roomVars, HoldSteps, CloseSteps, AddressSteps, ConnectionSteps, Process
<1>17. ASSUME NEW p \in Process, CloseRecheck(p) PROVE IInv'
  BY <1>17, <1>0, ReturnIInv, AdvanceIInv, ProcessAssumption DEF CloseRecheck, roomVars,
     HoldSteps, CloseSteps, AddressSteps, ConnectionSteps, Process
<1>18. ASSUME NEW p \in Process, CloseSetStatus(p) PROVE IInv'
  BY <1>18, <1>0, CloseSetStatusIInv
<1>19. ASSUME NEW p \in Process, CloseDone(p) PROVE IInv'
  BY <1>19, <1>0, CloseDoneIInv, ReturnIInv DEF CloseDone, CloseReturn
<1>20. ASSUME NEW p \in Process, CloseUnlisten(p) PROVE IInv'
  BY <1>20, <1>0, ReturnIInv, AdvanceIInv, ProcessAssumption DEF CloseUnlisten, HoldSteps,
     CloseSteps, AddressSteps, ConnectionSteps, Process
<1>21. ASSUME NEW p \in Process, CloseNotify(p) PROVE IInv'
  BY <1>21, <1>0, ReturnIInv, AdvanceIInv, ProcessAssumption DEF CloseNotify, CloseReturn,
     HoldSteps, CloseSteps, AddressSteps, ConnectionSteps, Process
<1>22. CASE LoopStart
  BY <1>22, <1>0, LoopStartIInv
<1>23. CASE LoopNext
  BY <1>23, <1>0, LoopNextIInv
<1>24. CASE Tick \/ Dead \/ UNCHANGED vars \/ \E r \in Room : Forward(r)
  BY <1>24, <1>0, QuietIInv DEF Tick, Dead, vars, roomVars, Forward
<1>25. ASSUME NEW h \in Handler, JoinTell(h) \/ LeaveTell(h) PROVE IInv'
  BY <1>25, <1>0, ReturnIInv, AdvanceIInv, ProcessAssumption DEF JoinTell, LeaveTell, HoldSteps,
     CloseSteps, AddressSteps, ConnectionSteps, Process
<1> QED
  BY <1>1, <1>2, <1>3, <1>4, <1>5, <1>6, <1>7, <1>8, <1>9, <1>10, <1>11, <1>12, <1>13,
     <1>14, <1>15, <1>16, <1>17, <1>18, <1>19, <1>20, <1>21, <1>22, <1>23, <1>24, <1>25 DEF Next,
     LoopStep, Handle, Create, Join, Leave, Close, Process

THEOREM Invariance == Spec => []IInv
<1>1. Init => IInv
  BY InitIInv
<1>2. IInv /\ [Next]_vars => IInv'
  BY NextIInv
<1> QED
  BY <1>1, <1>2, PTL DEF Spec

\* Every variable keeps its type: the steps of CreateRoom, JoinRoom, LeaveRoom,
\* RemoveRoom, Close and loop never work on a room that was not created.
THEOREM TypeCorrectness == Spec => []TypeOK
BY Invariance, PTL DEF IInv

\* For any number of concurrent requests, a room whose close has begun is not
\* in roomsMap: getRoom never hands it to a join.
THEOREM ClosedRoomsAreNotListed == Spec => []ClosedNotListed
BY Invariance, PTL DEF IInv

-----------------------------------------------------------------------------
(* The number of rooms.  A request that has passed isFull holds a place    *)
(* until it adds its room: listed rooms and places together are bounded.   *)

LEMMA PlacesFinite ==
  /\ \A L \in SUBSET Address : IsFiniteSet(L) /\ Cardinality(L) \in Nat
  /\ \A F \in SUBSET Handler :
       /\ IsFiniteSet(F) /\ Cardinality(F) \in Nat
       /\ Cardinality(F) <= Cardinality(Handler)
  /\ Cardinality(Handler) \in Nat \ {0}
<1>1. Cardinality(Handler) \in Nat \ {0}
  BY ProcessAssumption, FS_EmptySet, FS_CardinalityType
<1> QED
  BY <1>1, ProcessAssumption, AddressAssumption, FS_Subset, FS_CardinalityType

LEMMA PlacesTypes ==
  /\ Listed \in SUBSET Address /\ Listed' \in SUBSET Address
  /\ InFlight \in SUBSET Handler /\ InFlight' \in SUBSET Handler
BY DEF Listed, InFlight

\* A process that returns, or goes to a step of another operation, takes no
\* place.
LEMMA MovesShrink ==
  ASSUME TypeOK, NEW p \in Process
  PROVE  /\ Return(p) => InFlight' \subseteq InFlight
         /\ \A step :
              /\ GoTo(p, step)
              /\ step \in {"createLookup", "start", "addRoom"} => p \in InFlight
              => InFlight' \subseteq InFlight
         /\ pc' = pc => InFlight' \subseteq InFlight
         /\ roomsMap' = roomsMap => Listed' \subseteq Listed
BY DEF TypeOK, Return, GoTo, InFlight, Process, Listed

\* Only two steps can raise either number: passing isFull and addRoom.
LEMMA PlacesShrink ==
  ASSUME IInv, [Next]_vars,
         \A h \in Handler : ~AddRoom(h) /\ ~(CreateIsFull(h) /\ ~IsFull)
  PROVE  Listed' \subseteq Listed /\ InFlight' \subseteq InFlight
<1> USE MovesShrink DEF IInv, Process
<1>1. ASSUME NEW h \in Handler, Begins(h) PROVE Listed' \subseteq Listed /\ InFlight' \subseteq InFlight
  BY <1>1 DEF Begins, Begin, BeginCreate, BeginForceCreate, BeginRemove, BeginJoin,
     BeginLeave
<1>2. ASSUME NEW h \in Handler, CreateIsFull(h) PROVE Listed' \subseteq Listed /\ InFlight' \subseteq InFlight
  BY <1>2 DEF CreateIsFull
<1>3. ASSUME NEW h \in Handler, CreateLookup(h) PROVE Listed' \subseteq Listed /\ InFlight' \subseteq InFlight
  BY <1>3 DEF CreateLookup, InFlight
<1>4. ASSUME NEW h \in Handler, CreateStart(h) PROVE Listed' \subseteq Listed /\ InFlight' \subseteq InFlight
  BY <1>4 DEF CreateStart, InFlight
<1>5. ASSUME NEW h \in Handler, JoinLookup(h) PROVE Listed' \subseteq Listed /\ InFlight' \subseteq InFlight
  BY <1>5 DEF JoinLookup
<1>6. ASSUME NEW h \in Handler, JoinCheck(h) PROVE Listed' \subseteq Listed /\ InFlight' \subseteq InFlight
  BY <1>6 DEF JoinCheck
<1>7. ASSUME NEW h \in Handler, JoinAdd(h) PROVE Listed' \subseteq Listed /\ InFlight' \subseteq InFlight
  BY <1>7 DEF JoinAdd
<1>8. ASSUME NEW h \in Handler, JoinSetRunning(h) PROVE Listed' \subseteq Listed /\ InFlight' \subseteq InFlight
  BY <1>8 DEF JoinSetRunning
<1>9. ASSUME NEW h \in Handler, LeaveLookup(h) PROVE Listed' \subseteq Listed /\ InFlight' \subseteq InFlight
  BY <1>9 DEF LeaveLookup
<1>10. ASSUME NEW h \in Handler, LeaveCheck(h) PROVE Listed' \subseteq Listed /\ InFlight' \subseteq InFlight
  BY <1>10 DEF LeaveCheck
<1>11. ASSUME NEW h \in Handler, LeaveRemove(h) PROVE Listed' \subseteq Listed /\ InFlight' \subseteq InFlight
  BY <1>11 DEF LeaveRemove
<1>12. ASSUME NEW h \in Handler, LeaveShouldRemove(h) PROVE Listed' \subseteq Listed /\ InFlight' \subseteq InFlight
  BY <1>12 DEF LeaveShouldRemove
<1>13. ASSUME NEW h \in Handler, RemoveLookup(h) PROVE Listed' \subseteq Listed /\ InFlight' \subseteq InFlight
  BY <1>13 DEF RemoveLookup
<1>14. ASSUME NEW p \in Process, RemoveRoom(p) PROVE Listed' \subseteq Listed /\ InFlight' \subseteq InFlight
  BY <1>14 DEF RemoveRoom, TypeOK, Listed
<1>15. ASSUME NEW p \in Process, CloseCheck(p) PROVE Listed' \subseteq Listed /\ InFlight' \subseteq InFlight
  BY <1>15 DEF CloseCheck, CloseReturn
<1>16. ASSUME NEW p \in Process, CloseRecheck(p) PROVE Listed' \subseteq Listed /\ InFlight' \subseteq InFlight
  BY <1>16 DEF CloseRecheck
<1>17. ASSUME NEW p \in Process, CloseSetStatus(p) PROVE Listed' \subseteq Listed /\ InFlight' \subseteq InFlight
  BY <1>17 DEF CloseSetStatus
<1>18. ASSUME NEW p \in Process, CloseDone(p) PROVE Listed' \subseteq Listed /\ InFlight' \subseteq InFlight
  BY <1>18 DEF CloseDone, CloseReturn
<1>19. ASSUME NEW p \in Process, CloseUnlisten(p) PROVE Listed' \subseteq Listed /\ InFlight' \subseteq InFlight
  BY <1>19 DEF CloseUnlisten
<1>20. ASSUME NEW p \in Process, CloseNotify(p) PROVE Listed' \subseteq Listed /\ InFlight' \subseteq InFlight
  BY <1>20 DEF CloseNotify, CloseReturn
<1>21. CASE LoopStart \/ LoopNext
  BY <1>21, ProcessAssumption DEF LoopStart, LoopNext
<1>22. CASE Tick \/ Dead \/ UNCHANGED vars \/ \E r \in Room : Forward(r)
  BY <1>22 DEF vars, Tick, Dead, Forward
<1>23. ASSUME NEW h \in Handler, JoinTell(h) \/ LeaveTell(h) PROVE Listed' \subseteq Listed /\ InFlight' \subseteq InFlight
  BY <1>23 DEF JoinTell, LeaveTell
<1> QED
  BY <1>1, <1>2, <1>3, <1>4, <1>5, <1>6, <1>7, <1>8, <1>9, <1>10, <1>11,
     <1>12, <1>13, <1>14, <1>15, <1>16, <1>17, <1>18, <1>19, <1>20, <1>21, <1>22, <1>23
     DEF Next, LoopStep, Handle, Create, Join, Leave, Close, Process

LEMMA PlacesNext == ASSUME IInv, RoomOvershoot, [Next]_vars PROVE RoomOvershoot'
<1>1. CASE \E h \in Handler : AddRoom(h)
  <2>1. PICK h \in Handler : AddRoom(h)
    BY <1>1
  <2>2. h \in InFlight /\ InFlight' = InFlight \ {h}
    BY <2>1 DEF AddRoom, Return, GoTo, InFlight, IInv, TypeOK, Process
  <2>3. Cardinality(InFlight') = Cardinality(InFlight) - 1
    BY <2>2, PlacesFinite, PlacesTypes, FS_RemoveElement
  <2>4. Listed' \subseteq Listed \cup {addrOf[room[h]]}
    BY <2>1 DEF AddRoom, Listed, IInv, TypeOK
  <2>5. Cardinality(Listed') <= Cardinality(Listed) + 1
    <3> DEFINE L == Listed \cup {addrOf[room[h]]}
    <3>1. IsFiniteSet(L) /\ Cardinality(L) \in Nat /\ Cardinality(L) <= Cardinality(Listed) + 1
      <4>1. IsFiniteSet(Listed) /\ Cardinality(Listed) \in Nat
        BY PlacesFinite, PlacesTypes
      <4>2. IsFiniteSet(L) /\ Cardinality(L) =
              IF addrOf[room[h]] \in Listed THEN Cardinality(Listed) ELSE Cardinality(Listed) + 1
        BY <4>1, FS_AddElement
      <4> QED
        BY <4>1, <4>2
    <3> QED
      BY <2>4, <3>1, FS_Subset, FS_CardinalityType
  <2> QED
    BY <2>3, <2>5, PlacesFinite, PlacesTypes, TimeAssumption DEF RoomOvershoot
<1>2. CASE \E h \in Handler : CreateIsFull(h) /\ ~IsFull
  <2>1. Cardinality(Listed) < MaxRoomSize /\ Listed' = Listed
    BY <1>2, PlacesFinite, PlacesTypes, TimeAssumption DEF CreateIsFull, IsFull, Listed
  <2> QED
    BY <2>1, PlacesFinite, PlacesTypes, TimeAssumption DEF RoomOvershoot
<1>3. CASE \A h \in Handler : ~AddRoom(h) /\ ~(CreateIsFull(h) /\ ~IsFull)
  <2>1. Cardinality(Listed') <= Cardinality(Listed)
    BY <1>3, PlacesShrink, PlacesFinite, PlacesTypes, FS_Subset
  <2>2. Cardinality(InFlight') <= Cardinality(InFlight)
    BY <1>3, PlacesShrink, PlacesFinite, PlacesTypes, FS_Subset
  <2> QED
    BY <2>1, <2>2, PlacesFinite, PlacesTypes, TimeAssumption DEF RoomOvershoot
<1> QED
  BY <1>1, <1>2, <1>3

\* CreateRoom's check and insertion are apart, so the number of rooms can pass
\* maxRoomSize, but for any number of concurrent requests it stays below
\* maxRoomSize plus that number, the rooms about to be added included.
THEOREM RoomNumberIsBounded == Spec => []RoomOvershoot
<1>1. Init => RoomOvershoot
  <2> SUFFICES ASSUME Init PROVE RoomOvershoot
    OBVIOUS
  <2>1. Listed = {} /\ InFlight = {}
    BY DEF Init, Listed, InFlight, Process
  <2> QED
    BY <2>1, PlacesFinite, FS_EmptySet, TimeAssumption DEF RoomOvershoot
<1>2. IInv /\ RoomOvershoot /\ [Next]_vars => RoomOvershoot'
  BY PlacesNext
<1> QED
  BY <1>1, <1>2, Invariance, PTL DEF Spec
=============================================================================
