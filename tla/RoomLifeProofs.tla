--------------------------- MODULE RoomLifeProofs ---------------------------
(***************************************************************************)
(* Theorems about the life of a room in RoomManager, on top of the         *)
(* inductive invariant IInv of RoomManagerProofs: who still listens, who   *)
(* is closed, who is lost and who is a member, for every number of         *)
(* addresses, rooms, connections and handlers.                             *)
(***************************************************************************)
EXTENDS RoomManagerProofs

-----------------------------------------------------------------------------
(* Listeners.  The process that closed the channel done of a room is the   *)
(* one that takes the room off the event emitter next.                     *)

UnlistenOK ==
  \A r \in listening :
    done[r] => \E p \in Process : room[p] = r /\ pc[p] = "closeUnlisten"

LEMMA NextUnlistenOK ==
  ASSUME IInv, UnlistenOK, [Next]_vars
  PROVE  UnlistenOK'
<1>1. ASSUME NEW h \in Handler, Begins(h) PROVE UnlistenOK'
  BY <1>1, ProcessAssumption DEF Begins, Begin, BeginCreate, BeginForceCreate, BeginRemove,
     BeginJoin, BeginLeave, GoTo, roomVars, sessionVars, IInv, TypeOK, UnlistenOK, Process
<1>2. ASSUME NEW h \in Handler, CreateIsFull(h) \/ CreateLookup(h) PROVE UnlistenOK'
  BY <1>2, ProcessAssumption DEF CreateIsFull, Return, GoTo, CreateLookup, roomVars,
     sessionVars, IInv, TypeOK, UnlistenOK, Process
<1>3. ASSUME NEW h \in Handler, CreateStart(h) PROVE UnlistenOK'
  BY <1>3, ProcessAssumption DEF CreateStart, FreeRooms, Return, GoTo, roomVars, sessionVars,
     IInv, TypeOK, UnlistenOK, Process, HoldOK, Started
<1>4. ASSUME NEW h \in Handler, AddRoom(h) PROVE UnlistenOK'
  BY <1>4, ProcessAssumption DEF AddRoom, Return, GoTo, roomVars, sessionVars, IInv, TypeOK,
     UnlistenOK, Process
<1>5. ASSUME NEW h \in Handler, JoinLookup(h) \/ JoinCheck(h) PROVE UnlistenOK'
  BY <1>5, ProcessAssumption DEF JoinLookup, Return, GoTo, JoinCheck, roomVars, sessionVars,
     IInv, TypeOK, UnlistenOK, Process
<1>6. ASSUME NEW h \in Handler, JoinAdd(h) PROVE UnlistenOK'
  BY <1>6, ProcessAssumption DEF JoinAdd, Return, GoTo, roomVars, sessionVars, IInv, TypeOK,
     UnlistenOK, Process
<1>7. ASSUME NEW h \in Handler, JoinSetRunning(h) PROVE UnlistenOK'
  BY <1>7, ProcessAssumption DEF JoinSetRunning, Return, GoTo, roomVars, sessionVars, IInv,
     TypeOK, UnlistenOK, Process
<1>8. ASSUME NEW h \in Handler, LeaveLookup(h) \/ LeaveCheck(h) PROVE UnlistenOK'
  BY <1>8, ProcessAssumption DEF LeaveLookup, Return, GoTo, LeaveCheck, roomVars, sessionVars,
     IInv, TypeOK, UnlistenOK, Process
<1>9. ASSUME NEW h \in Handler, LeaveRemove(h) PROVE UnlistenOK'
  BY <1>9, ProcessAssumption DEF LeaveRemove, GoTo, roomVars, sessionVars, IInv, TypeOK,
     UnlistenOK, Process
<1>10. ASSUME NEW h \in Handler, LeaveShouldRemove(h) \/ RemoveLookup(h) PROVE UnlistenOK'
  BY <1>10, ProcessAssumption DEF LeaveShouldRemove, Return, GoTo, RemoveLookup, roomVars,
     sessionVars, IInv, TypeOK, UnlistenOK, Process
<1>11. ASSUME NEW p \in Process, RemoveRoom(p) PROVE UnlistenOK'
  BY <1>11, ProcessAssumption DEF RemoveRoom, GoTo, roomVars, sessionVars, IInv, TypeOK,
     UnlistenOK, Process
<1>12. ASSUME NEW p \in Process, CloseCheck(p) \/ CloseRecheck(p) PROVE UnlistenOK'
  BY <1>12, ProcessAssumption DEF CloseCheck, CloseReturn, Return, GoTo, CloseRecheck, roomVars,
     sessionVars, IInv, TypeOK, UnlistenOK, Process
<1>13. ASSUME NEW p \in Process, CloseSetStatus(p) PROVE UnlistenOK'
  BY <1>13, ProcessAssumption DEF CloseSetStatus, GoTo, roomVars, sessionVars, IInv, TypeOK,
     UnlistenOK, Process
<1>14. ASSUME NEW p \in Process, CloseDone(p) PROVE UnlistenOK'
  BY <1>14, ProcessAssumption DEF CloseDone, CloseReturn, Return, GoTo, roomVars, sessionVars,
     IInv, TypeOK, UnlistenOK, Process
<1>15. ASSUME NEW p \in Process, CloseUnlisten(p) \/ CloseNotify(p) PROVE UnlistenOK'
  BY <1>15, ProcessAssumption DEF CloseUnlisten, GoTo, CloseNotify, CloseReturn, Return,
     roomVars, sessionVars, IInv, TypeOK, UnlistenOK, Process
<1>16. CASE LoopStart \/ LoopNext
  BY <1>16, ProcessAssumption DEF LoopStart, GoTo, LoopNext, roomVars, sessionVars, IInv,
     TypeOK, UnlistenOK, Process
<1>17. CASE Tick
  BY <1>17, ProcessAssumption DEF Tick, Older, roomVars, sessionVars, IInv, TypeOK, UnlistenOK,
     Process
<1>18. ASSUME NEW r \in Room, Forward(r) PROVE UnlistenOK'
  BY <1>18, ProcessAssumption DEF Forward, roomVars, sessionVars, IInv, TypeOK, UnlistenOK,
     Process
<1>19. CASE Dead \/ UNCHANGED vars
  BY <1>19, ProcessAssumption DEF Dead, vars, roomVars, sessionVars, IInv, TypeOK, UnlistenOK,
     Process
<1>20. ASSUME NEW h \in Handler, JoinTell(h) \/ LeaveTell(h) PROVE UnlistenOK'
  BY <1>20, ProcessAssumption DEF JoinTell, LeaveTell, GoTo, roomVars, sessionVars, IInv, TypeOK,
     UnlistenOK, Process
<1> QED
  BY <1>1, <1>2, <1>3, <1>4, <1>5, <1>6, <1>7, <1>8, <1>9, <1>10, <1>11, <1>12, <1>13, <1>14,
     <1>15, <1>16, <1>17, <1>18, <1>19, <1>20 DEF Next, LoopStep, Handle, Create, Join, Leave, Close,
     Process

\* A room that is closed and that no process is closing any more receives no
\* messages: its registration with the event emitter never outlives Close.
THEOREM ClosedRoomsAreSilent == Spec => []ClosedNotListening
<1>1. Init => UnlistenOK
  BY DEF Init, UnlistenOK
<1>2. IInv /\ UnlistenOK /\ [Next]_vars => UnlistenOK'
  BY NextUnlistenOK
<1>3. UnlistenOK => ClosedNotListening
  BY DEF UnlistenOK, ClosedNotListening, Closing, CloseSteps
<1> QED
  BY <1>1, <1>2, <1>3, Invariance, PTL DEF Spec

-----------------------------------------------------------------------------
(* Ages.  What ShouldRemove reads may change between the decision and the  *)
(* close, the age of the room only grows.                                  *)

\* A room is never less old than its last message, and when no request asks
\* for a removal the status close is only found on rooms older than a minute.
AgeOK ==
  /\ \A r \in Room : activeAge[r] <= createdAge[r] /\ (status[r] = "none" => createdAge[r] = 0)
  /\ "remove" \notin Ops =>
       /\ \A h \in Handler : pc[h] # "removeLookup"
       /\ \A r \in Room : status[r] = "close" => createdAge[r] > Minute

LEMMA RemovableIsOld ==
  ASSUME IInv, AgeOK, "remove" \notin Ops, NEW r \in Room, ShouldRemove(r)
  PROVE  createdAge[r] > Minute
BY TimeAssumption DEF IInv, TypeOK, Ages, AgeOK, ShouldRemove, NoUseInitRoom, NoUserRoom,
   NoUseRoom, MaxTimeRoom

LEMMA NextAgeOK ==
  ASSUME IInv, AgeOK, YoungRoomSafe, [Next]_vars
  PROVE  AgeOK' /\ YoungRoomSafe'
<1> USE TimeAssumption, OpsAssumption
<1>1. ASSUME NEW h \in Handler, Begins(h) PROVE AgeOK' /\ YoungRoomSafe'
  BY <1>1, ProcessAssumption DEF Begins, Begin, BeginCreate, BeginForceCreate, BeginRemove,
     BeginJoin, BeginLeave, GoTo, roomVars, sessionVars, IInv, TypeOK, Ages, AgeOK,
     YoungRoomSafe, Closing, CloseSteps, Process
<1>2. ASSUME NEW h \in Handler, CreateIsFull(h) \/ CreateLookup(h)
      PROVE AgeOK' /\ YoungRoomSafe'
  BY <1>2, ProcessAssumption DEF CreateIsFull, Return, GoTo, CreateLookup, roomVars,
     sessionVars, IInv, TypeOK, Ages, AgeOK, YoungRoomSafe, Closing, CloseSteps, Process
<1>3. ASSUME NEW h \in Handler, CreateStart(h) PROVE AgeOK' /\ YoungRoomSafe'
  BY <1>3, ProcessAssumption DEF CreateStart, FreeRooms, Return, GoTo, roomVars, sessionVars,
     IInv, TypeOK, Ages, AgeOK, YoungRoomSafe, Closing, CloseSteps, Process, HoldOK, Started,
     HoldSteps
<1>4. ASSUME NEW h \in Handler, AddRoom(h) PROVE AgeOK' /\ YoungRoomSafe'
  BY <1>4, ProcessAssumption DEF AddRoom, Return, GoTo, roomVars, sessionVars, IInv, TypeOK,
     Ages, AgeOK, YoungRoomSafe, Closing, CloseSteps, Process
<1>5. ASSUME NEW h \in Handler, JoinLookup(h) \/ JoinCheck(h) PROVE AgeOK' /\ YoungRoomSafe'
  BY <1>5, ProcessAssumption DEF JoinLookup, Return, GoTo, JoinCheck, roomVars, sessionVars,
     IInv, TypeOK, Ages, AgeOK, YoungRoomSafe, Closing, CloseSteps, Process
<1>6. ASSUME NEW h \in Handler, JoinAdd(h) PROVE AgeOK' /\ YoungRoomSafe'
  BY <1>6, ProcessAssumption DEF JoinAdd, Return, GoTo, roomVars, sessionVars, IInv, TypeOK,
     Ages, AgeOK, YoungRoomSafe, Closing, CloseSteps, Process
<1>7. ASSUME NEW h \in Handler, JoinSetRunning(h) PROVE AgeOK' /\ YoungRoomSafe'
  BY <1>7, ProcessAssumption DEF JoinSetRunning, Return, GoTo, roomVars, sessionVars, IInv,
     TypeOK, Ages, AgeOK, YoungRoomSafe, Closing, CloseSteps, Process
<1>8. ASSUME NEW h \in Handler, LeaveLookup(h) \/ LeaveCheck(h) PROVE AgeOK' /\ YoungRoomSafe'
  BY <1>8, ProcessAssumption DEF LeaveLookup, Return, GoTo, LeaveCheck, roomVars, sessionVars,
     IInv, TypeOK, Ages, AgeOK, YoungRoomSafe, Closing, CloseSteps, Process
<1>9. ASSUME NEW h \in Handler, LeaveRemove(h) PROVE AgeOK' /\ YoungRoomSafe'
  BY <1>9, ProcessAssumption DEF LeaveRemove, GoTo, roomVars, sessionVars, IInv, TypeOK, Ages,
     AgeOK, YoungRoomSafe, Closing, CloseSteps, Process
<1>10. ASSUME NEW h \in Handler, LeaveShouldRemove(h) PROVE AgeOK' /\ YoungRoomSafe'
  <2>1. room[h] \in Room
    BY <1>10 DEF LeaveShouldRemove, IInv, HoldOK, HoldSteps, Started, Process
  <2>2. "remove" \in Ops \/ ~ShouldRemove(room[h]) \/ createdAge[room[h]] > Minute
    BY <2>1, RemovableIsOld
  <2> QED
    BY <1>10, <2>2, ProcessAssumption DEF LeaveShouldRemove, Return, GoTo, roomVars, IInv,
       TypeOK, AgeOK, YoungRoomSafe, Closing, CloseSteps, Process
<1>11. ASSUME NEW h \in Handler, RemoveLookup(h) PROVE AgeOK' /\ YoungRoomSafe'
  BY <1>11, ProcessAssumption DEF RemoveLookup, Return, GoTo, roomVars, sessionVars, IInv,
     TypeOK, Ages, AgeOK, YoungRoomSafe, Closing, CloseSteps, Process
<1>12. ASSUME NEW p \in Process, RemoveRoom(p) PROVE AgeOK' /\ YoungRoomSafe'
  BY <1>12, ProcessAssumption DEF RemoveRoom, GoTo, roomVars, sessionVars, IInv, TypeOK, Ages,
     AgeOK, YoungRoomSafe, Closing, CloseSteps, Process
<1>13. ASSUME NEW p \in Process, CloseCheck(p) \/ CloseRecheck(p) PROVE AgeOK' /\ YoungRoomSafe'
  BY <1>13, ProcessAssumption DEF CloseCheck, CloseReturn, Return, GoTo, CloseRecheck, roomVars,
     sessionVars, IInv, TypeOK, Ages, AgeOK, YoungRoomSafe, Closing, CloseSteps, Process
<1>14. ASSUME NEW p \in Process, CloseSetStatus(p) PROVE AgeOK' /\ YoungRoomSafe'
  BY <1>14, ProcessAssumption DEF CloseSetStatus, GoTo, roomVars, sessionVars, IInv, TypeOK,
     Ages, AgeOK, YoungRoomSafe, Closing, CloseSteps, Process
<1>15. ASSUME NEW p \in Process, CloseDone(p) PROVE AgeOK' /\ YoungRoomSafe'
  BY <1>15, ProcessAssumption DEF CloseDone, CloseReturn, Return, GoTo, roomVars, sessionVars,
     IInv, TypeOK, Ages, AgeOK, YoungRoomSafe, Closing, CloseSteps, Process
<1>16. ASSUME NEW p \in Process, CloseUnlisten(p) \/ CloseNotify(p)
      PROVE AgeOK' /\ YoungRoomSafe'
  BY SMTT(40), <1>16, ProcessAssumption DEF CloseUnlisten, GoTo, CloseNotify, CloseReturn, Return,
     roomVars, sessionVars, IInv, TypeOK, Ages, AgeOK, YoungRoomSafe, Closing, CloseSteps,
     Process
<1>17. CASE LoopStart
  BY <1>17, ProcessAssumption DEF LoopStart, GoTo, roomVars, sessionVars, IInv, TypeOK, Ages,
     AgeOK, YoungRoomSafe, Closing, CloseSteps, Process
<1>18. CASE LoopNext
  <2>1. \A r \in loopRooms : "remove" \in Ops \/ ~ShouldRemove(r) \/ createdAge[r] > Minute
    BY RemovableIsOld DEF IInv, TypeOK
  <2> QED
    BY <1>18, <2>1, ProcessAssumption DEF LoopNext, GoTo, roomVars, IInv, TypeOK, AgeOK,
       YoungRoomSafe, Closing, CloseSteps, Process
<1>19. CASE Tick
  BY <1>19, ProcessAssumption DEF Tick, Older, roomVars, sessionVars, IInv, TypeOK, Ages, AgeOK,
     YoungRoomSafe, Closing, CloseSteps, Process, HoldOK, Started, HoldSteps
<1>20. ASSUME NEW r \in Room, Forward(r) PROVE AgeOK' /\ YoungRoomSafe'
  BY <1>20, ProcessAssumption DEF Forward, roomVars, sessionVars, IInv, TypeOK, Ages, AgeOK,
     YoungRoomSafe, Closing, CloseSteps, Process
<1>21. CASE Dead \/ UNCHANGED vars
  BY <1>21, ProcessAssumption DEF Dead, vars, roomVars, sessionVars, IInv, TypeOK, Ages, AgeOK,
     YoungRoomSafe, Closing, CloseSteps, Process
<1>22. ASSUME NEW h \in Handler, JoinTell(h) \/ LeaveTell(h) PROVE AgeOK' /\ YoungRoomSafe'
  BY <1>22, ProcessAssumption DEF JoinTell, LeaveTell, GoTo, roomVars, sessionVars, IInv, TypeOK, Ages,
     AgeOK, YoungRoomSafe, Closing, CloseSteps, Process
<1> QED
  BY <1>1, <1>2, <1>3, <1>4, <1>5, <1>6, <1>7, <1>8, <1>9, <1>10, <1>11, <1>12, <1>13, <1>14,
     <1>15, <1>16, <1>17, <1>18, <1>19, <1>20, <1>21, <1>22 DEF Next, LoopStep, Handle, Create, Join,
     Leave, Close, Process

\* Unless RemoveRoom is called no room is closed in its first minute, although
\* LeaveRoom and loop decide first and close the room some steps later.
THEOREM YoungRoomsAreSafe == Spec => []YoungRoomSafe
<1>1. Init => AgeOK /\ YoungRoomSafe
  BY TimeAssumption, ProcessAssumption
     DEF Init, AgeOK, YoungRoomSafe, Closing, CloseSteps, Process
<1>2. IInv /\ AgeOK /\ YoungRoomSafe /\ [Next]_vars => AgeOK' /\ YoungRoomSafe'
  BY NextAgeOK
<1> QED
  BY <1>1, <1>2, Invariance, PTL DEF Spec

-----------------------------------------------------------------------------
(* Addresses.  A generated address names one request, then one room.       *)

AddressOK ==
  FreshAddresses =>
    /\ \A h \in Handler :
         pc[h] \in {"isFull", "createLookup", "start"} =>
           /\ req[h].op = "create"
           /\ \A r \in Room : addrOf[r] # req[h].addr
           /\ \A g \in Handler \ {h} : req[g].op \in Creates => req[g].addr # req[h].addr
    /\ \A r1, r2 \in Room : addrOf[r1] \in Address /\ addrOf[r1] = addrOf[r2] => r1 = r2
    /\ \A r \in Room : status[r] = "none" => addrOf[r] = NoAddress

LEMMA NextAddressOK ==
  ASSUME IInv, AddressOK, [Next]_vars
  PROVE  AddressOK'
<1> USE NullAssumption DEF Creates
<1>1. ASSUME NEW h \in Handler, Begins(h) PROVE AddressOK'
  BY <1>1, ProcessAssumption DEF Begins, Begin, BeginCreate, BeginForceCreate, BeginRemove,
     BeginJoin, BeginLeave, GoTo, roomVars, sessionVars, IInv, TypeOK, AddressOK,
     FreshAddresses, NoRequest, Process, Fresh
<1>2. ASSUME NEW h \in Handler, CreateIsFull(h) \/ CreateLookup(h) PROVE AddressOK'
  BY <1>2, ProcessAssumption DEF CreateIsFull, Return, GoTo, CreateLookup, roomVars,
     sessionVars, IInv, TypeOK, AddressOK, FreshAddresses, NoRequest, Process
<1>3. ASSUME NEW h \in Handler, CreateStart(h) PROVE AddressOK'
  BY SMTT(40), <1>3, ProcessAssumption DEF CreateStart, FreeRooms, Return, GoTo, roomVars, sessionVars,
     IInv, TypeOK, AddressOK, FreshAddresses, NoRequest, Process, RequestOK, AddressSteps
<1>4. ASSUME NEW h \in Handler, AddRoom(h) PROVE AddressOK'
  BY <1>4, ProcessAssumption DEF AddRoom, Return, GoTo, roomVars, sessionVars, IInv, TypeOK,
     AddressOK, FreshAddresses, NoRequest, Process
<1>5. ASSUME NEW h \in Handler, JoinLookup(h) \/ JoinCheck(h) PROVE AddressOK'
  BY <1>5, ProcessAssumption DEF JoinLookup, Return, GoTo, JoinCheck, roomVars, sessionVars,
     IInv, TypeOK, AddressOK, FreshAddresses, NoRequest, Process
<1>6. ASSUME NEW h \in Handler, JoinAdd(h) PROVE AddressOK'
  BY <1>6, ProcessAssumption DEF JoinAdd, Return, GoTo, roomVars, sessionVars, IInv, TypeOK,
     AddressOK, FreshAddresses, NoRequest, Process
<1>7. ASSUME NEW h \in Handler, JoinSetRunning(h) PROVE AddressOK'
  BY <1>7, ProcessAssumption DEF JoinSetRunning, Return, GoTo, roomVars, sessionVars, IInv,
     TypeOK, AddressOK, FreshAddresses, NoRequest, Process
<1>8. ASSUME NEW h \in Handler, LeaveLookup(h) \/ LeaveCheck(h) PROVE AddressOK'
  BY <1>8, ProcessAssumption DEF LeaveLookup, Return, GoTo, LeaveCheck, roomVars, sessionVars,
     IInv, TypeOK, AddressOK, FreshAddresses, NoRequest, Process
<1>9. ASSUME NEW h \in Handler, LeaveRemove(h) PROVE AddressOK'
  BY <1>9, ProcessAssumption DEF LeaveRemove, GoTo, roomVars, sessionVars, IInv, TypeOK,
     AddressOK, FreshAddresses, NoRequest, Process
<1>10. ASSUME NEW h \in Handler, LeaveShouldRemove(h) \/ RemoveLookup(h) PROVE AddressOK'
  BY <1>10, ProcessAssumption DEF LeaveShouldRemove, Return, GoTo, RemoveLookup, roomVars,
     sessionVars, IInv, TypeOK, AddressOK, FreshAddresses, NoRequest, Process
<1>11. ASSUME NEW p \in Process, RemoveRoom(p) PROVE AddressOK'
  BY <1>11, ProcessAssumption DEF RemoveRoom, GoTo, roomVars, sessionVars, IInv, TypeOK,
     AddressOK, FreshAddresses, NoRequest, Process
<1>12. ASSUME NEW p \in Process, CloseCheck(p) \/ CloseRecheck(p) PROVE AddressOK'
  BY <1>12, ProcessAssumption DEF CloseCheck, CloseReturn, Return, GoTo, CloseRecheck, roomVars,
     sessionVars, IInv, TypeOK, AddressOK, FreshAddresses, NoRequest, Process
<1>13. ASSUME NEW p \in Process, CloseSetStatus(p) PROVE AddressOK'
  BY <1>13, ProcessAssumption DEF CloseSetStatus, GoTo, roomVars, sessionVars, IInv, TypeOK,
     AddressOK, FreshAddresses, NoRequest, Process
<1>14. ASSUME NEW p \in Process, CloseDone(p) PROVE AddressOK'
  <2>1. /\ UNCHANGED <<addrOf, status>>
        /\ \A h \in Handler : pc'[h] \in {"isFull", "createLookup", "start"} => pc'[h] = pc[h]
        /\ \A h \in Handler : req'[h] = NoRequest \/ req'[h] = req[h]
    BY <1>14 DEF CloseDone, CloseReturn, Return, GoTo, IInv, TypeOK, Process
  <2>2. \A h \in Handler : pc'[h] \in {"isFull", "createLookup", "start"} => req'[h] = req[h]
    BY <1>14, ProcessAssumption DEF CloseDone, CloseReturn, Return, GoTo, IInv, TypeOK, Process
  <2> QED
    BY <2>1, <2>2 DEF AddressOK, FreshAddresses, NoRequest
<1>15. ASSUME NEW p \in Process, CloseUnlisten(p) \/ CloseNotify(p) PROVE AddressOK'
  BY SMTT(40), <1>15, ProcessAssumption DEF CloseUnlisten, GoTo, CloseNotify, CloseReturn, Return,
     roomVars, sessionVars, IInv, TypeOK, AddressOK, FreshAddresses, NoRequest, Process
<1>16. CASE LoopStart \/ LoopNext
  BY <1>16, ProcessAssumption DEF LoopStart, GoTo, LoopNext, roomVars, sessionVars, IInv,
     TypeOK, AddressOK, FreshAddresses, NoRequest, Process
<1>17. CASE Tick
  BY <1>17, ProcessAssumption DEF Tick, Older, roomVars, sessionVars, IInv, TypeOK, AddressOK,
     FreshAddresses, NoRequest, Process
<1>18. ASSUME NEW r \in Room, Forward(r) PROVE AddressOK'
  BY <1>18, ProcessAssumption DEF Forward, roomVars, sessionVars, IInv, TypeOK, AddressOK,
     FreshAddresses, NoRequest, Process
<1>19. CASE Dead \/ UNCHANGED vars
  BY <1>19, ProcessAssumption DEF Dead, vars, roomVars, sessionVars, IInv, TypeOK, AddressOK,
     FreshAddresses, NoRequest, Process
<1>20. ASSUME NEW h \in Handler, JoinTell(h) \/ LeaveTell(h) PROVE AddressOK'
  BY <1>20, ProcessAssumption DEF JoinTell, LeaveTell, GoTo, roomVars, sessionVars, IInv, TypeOK,
     AddressOK, FreshAddresses, NoRequest, Process
<1> QED
  BY <1>1, <1>2, <1>3, <1>4, <1>5, <1>6, <1>7, <1>8, <1>9, <1>10, <1>11, <1>12, <1>13, <1>14,
     <1>15, <1>16, <1>17, <1>18, <1>19, <1>20 DEF Next, LoopStep, Handle, Create, Join, Leave, Close,
     Process

LEMMA UniqueAddresses == Spec => []AddressOK
<1>1. Init => AddressOK
  BY NullAssumption DEF Init, AddressOK, Process
<1>2. IInv /\ AddressOK /\ [Next]_vars => AddressOK'
  BY NextAddressOK
<1> QED
  BY <1>1, <1>2, Invariance, PTL DEF Spec

-----------------------------------------------------------------------------
(* Close.  A Close that finds the room closed by someone else, or passes   *)
(* by close(r.done), leaves a process behind that is about to close done.  *)

AtDone(r) == \E q \in Process : room[q] = r /\ pc[q] = "closeDone"

DoneOK ==
  /\ \A r \in Room : status[r] = "close" /\ ~done[r] => AtDone(r)
  /\ \A p \in Process :
       pc[p] \in {"closeUnlisten", "closeNotify"} /\ ~done[room[p]] => AtDone(room[p])

LEMMA NextDoneOK ==
  ASSUME IInv, DoneOK, [Next]_vars
  PROVE  DoneOK'
<1>1. ASSUME NEW h \in Handler, Begins(h) PROVE DoneOK'
  BY SMTT(40), <1>1, ProcessAssumption DEF Begins, Begin, BeginCreate, BeginForceCreate, BeginRemove,
     BeginJoin, BeginLeave, GoTo, roomVars, sessionVars, IInv, TypeOK, HoldOK, HoldSteps,
     CloseSteps, Started, DoneOK, AtDone, Process
<1>2. ASSUME NEW h \in Handler, CreateIsFull(h) \/ CreateLookup(h) PROVE DoneOK'
  BY <1>2, ProcessAssumption DEF CreateIsFull, Return, GoTo, CreateLookup, roomVars,
     sessionVars, IInv, TypeOK, HoldOK, HoldSteps, CloseSteps, Started, DoneOK, AtDone, Process
<1>3. ASSUME NEW h \in Handler, CreateStart(h) PROVE DoneOK'
  BY SMTT(40), <1>3, ProcessAssumption DEF CreateStart, FreeRooms, Return, GoTo, roomVars, sessionVars,
     IInv, TypeOK, HoldOK, HoldSteps, CloseSteps, Started, DoneOK, AtDone, Process
<1>4. ASSUME NEW h \in Handler, AddRoom(h) PROVE DoneOK'
  BY <1>4, ProcessAssumption DEF AddRoom, Return, GoTo, roomVars, sessionVars, IInv, TypeOK,
     HoldOK, HoldSteps, CloseSteps, Started, DoneOK, AtDone, Process
<1>5. ASSUME NEW h \in Handler, JoinLookup(h) \/ JoinCheck(h) PROVE DoneOK'
  BY <1>5, ProcessAssumption DEF JoinLookup, Return, GoTo, JoinCheck, roomVars, sessionVars,
     IInv, TypeOK, HoldOK, HoldSteps, CloseSteps, Started, DoneOK, AtDone, Process
<1>6. ASSUME NEW h \in Handler, JoinAdd(h) PROVE DoneOK'
  <2>1. \A q \in Process : pc[q] # "joinAdd" => pc'[q] = pc[q] /\ room'[q] = room[q]
    BY <1>6 DEF JoinAdd, Return, GoTo, IInv, TypeOK, Process
  <2>2. \A q \in Process : pc'[q] \in CloseSteps => pc'[q] = pc[q]
    BY <1>6 DEF JoinAdd, Return, GoTo, IInv, TypeOK, Process, CloseSteps
  <2>3. \A r \in Room : AtDone(r) => AtDone(r)'
    BY <2>1 DEF AtDone
  <2>4. UNCHANGED <<status, done>>
    BY <1>6 DEF JoinAdd
  <2>5. \A p \in Process : pc[p] \in {"closeUnlisten", "closeNotify"} => room[p] \in Room
    BY DEF IInv, HoldOK, HoldSteps, CloseSteps, Started
  <2> QED
    BY <2>1, <2>2, <2>3, <2>4, <2>5 DEF DoneOK, CloseSteps
<1>7. ASSUME NEW h \in Handler, JoinSetRunning(h) PROVE DoneOK'
  BY <1>7, ProcessAssumption DEF JoinSetRunning, Return, GoTo, roomVars, sessionVars, IInv,
     TypeOK, HoldOK, HoldSteps, CloseSteps, Started, DoneOK, AtDone, Process
<1>8. ASSUME NEW h \in Handler, LeaveLookup(h) \/ LeaveCheck(h) PROVE DoneOK'
  BY <1>8, ProcessAssumption DEF LeaveLookup, Return, GoTo, LeaveCheck, roomVars, sessionVars,
     IInv, TypeOK, HoldOK, HoldSteps, CloseSteps, Started, DoneOK, AtDone, Process
<1>9. ASSUME NEW h \in Handler, LeaveRemove(h) PROVE DoneOK'
  BY <1>9, ProcessAssumption DEF LeaveRemove, GoTo, roomVars, sessionVars, IInv, TypeOK, HoldOK,
     HoldSteps, CloseSteps, Started, DoneOK, AtDone, Process
<1>10. ASSUME NEW h \in Handler, LeaveShouldRemove(h) \/ RemoveLookup(h) PROVE DoneOK'
  BY <1>10, ProcessAssumption DEF LeaveShouldRemove, Return, GoTo, RemoveLookup, roomVars,
     sessionVars, IInv, TypeOK, HoldOK, HoldSteps, CloseSteps, Started, DoneOK, AtDone, Process
<1>11. ASSUME NEW p \in Process, RemoveRoom(p) PROVE DoneOK'
  BY <1>11, ProcessAssumption DEF RemoveRoom, GoTo, roomVars, sessionVars, IInv, TypeOK, HoldOK,
     HoldSteps, CloseSteps, Started, DoneOK, AtDone, Process
<1>12. ASSUME NEW p \in Process, CloseCheck(p) \/ CloseRecheck(p) PROVE DoneOK'
  BY <1>12, ProcessAssumption DEF CloseCheck, CloseReturn, Return, GoTo, CloseRecheck, roomVars,
     sessionVars, IInv, TypeOK, HoldOK, HoldSteps, CloseSteps, Started, DoneOK, AtDone, Process
<1>13. ASSUME NEW p \in Process, CloseSetStatus(p) PROVE DoneOK'
  BY <1>13, ProcessAssumption DEF CloseSetStatus, GoTo, roomVars, sessionVars, IInv, TypeOK,
     HoldOK, HoldSteps, CloseSteps, Started, DoneOK, AtDone, Process
<1>14. ASSUME NEW p \in Process, CloseDone(p) PROVE DoneOK'
  BY <1>14, ProcessAssumption DEF CloseDone, CloseReturn, Return, GoTo, roomVars, sessionVars,
     IInv, TypeOK, HoldOK, HoldSteps, CloseSteps, Started, DoneOK, AtDone, Process
<1>15. ASSUME NEW p \in Process, CloseUnlisten(p) \/ CloseNotify(p) PROVE DoneOK'
  BY <1>15, ProcessAssumption DEF CloseUnlisten, GoTo, CloseNotify, CloseReturn, Return,
     roomVars, sessionVars, IInv, TypeOK, HoldOK, HoldSteps, CloseSteps, Started, DoneOK,
     AtDone, Process
<1>16. CASE LoopStart \/ LoopNext
  BY <1>16, ProcessAssumption DEF LoopStart, GoTo, LoopNext, roomVars, sessionVars, IInv,
     TypeOK, HoldOK, HoldSteps, CloseSteps, Started, DoneOK, AtDone, Process
<1>17. CASE Tick
  BY <1>17, ProcessAssumption DEF Tick, Older, roomVars, sessionVars, IInv, TypeOK, HoldOK,
     HoldSteps, CloseSteps, Started, DoneOK, AtDone, Process
<1>18. ASSUME NEW r \in Room, Forward(r) PROVE DoneOK'
  BY <1>18, ProcessAssumption DEF Forward, roomVars, sessionVars, IInv, TypeOK, HoldOK,
     HoldSteps, CloseSteps, Started, DoneOK, AtDone, Process
<1>19. CASE Dead \/ UNCHANGED vars
  BY <1>19, ProcessAssumption DEF Dead, vars, roomVars, sessionVars, IInv, TypeOK, HoldOK,
     HoldSteps, CloseSteps, Started, DoneOK, AtDone, Process
<1>20. ASSUME NEW h \in Handler, JoinTell(h) \/ LeaveTell(h) PROVE DoneOK'
  BY <1>20, ProcessAssumption DEF JoinTell, LeaveTell, GoTo, roomVars, sessionVars, IInv, TypeOK, HoldOK,
     HoldSteps, CloseSteps, Started, DoneOK, AtDone, Process
<1> QED
  BY <1>1, <1>2, <1>3, <1>4, <1>5, <1>6, <1>7, <1>8, <1>9, <1>10, <1>11, <1>12, <1>13, <1>14,
     <1>15, <1>16, <1>17, <1>18, <1>19, <1>20 DEF Next, LoopStep, Handle, Create, Join, Leave, Close,
     Process

LEMMA ClosesReachDone == Spec => []DoneOK
<1>1. Init => DoneOK
  BY DEF Init, DoneOK, Process
<1>2. IInv /\ DoneOK /\ [Next]_vars => DoneOK'
  BY NextDoneOK
<1> QED
  BY <1>1, <1>2, Invariance, PTL DEF Spec

LEMMA NextOpenRoomHeld ==
  ASSUME IInv, AddressOK, DoneOK, OpenRoomHeld, FreshAddresses, [Next]_vars
  PROVE  OpenRoomHeld'
<1>1. ASSUME NEW h \in Handler, Begins(h) PROVE OpenRoomHeld'
  BY SMTT(40), <1>1, ProcessAssumption, NullAssumption DEF Begins, Begin, BeginCreate, BeginForceCreate,
     BeginRemove, BeginJoin, BeginLeave, GoTo, roomVars, sessionVars, IInv, TypeOK, HoldOK,
     HoldSteps, CloseSteps, Started, DoneOK, AtDone, OpenRoomHeld, Closing, Process
<1>2. ASSUME NEW h \in Handler, CreateIsFull(h) \/ CreateLookup(h) PROVE OpenRoomHeld'
  BY <1>2, ProcessAssumption, NullAssumption DEF CreateIsFull, Return, GoTo, CreateLookup,
     roomVars, sessionVars, IInv, TypeOK, HoldOK, HoldSteps, CloseSteps, Started, DoneOK,
     AtDone, OpenRoomHeld, Closing, Process
<1>3. ASSUME NEW h \in Handler, CreateStart(h) PROVE OpenRoomHeld'
  BY SMTT(40), <1>3, ProcessAssumption, NullAssumption DEF CreateStart, FreeRooms, Return, GoTo, roomVars,
     sessionVars, IInv, TypeOK, HoldOK, HoldSteps, CloseSteps, Started, DoneOK, AtDone,
     OpenRoomHeld, Closing, Process
<1>4. ASSUME NEW h \in Handler, AddRoom(h) PROVE OpenRoomHeld'
  BY <1>4, ProcessAssumption, NullAssumption DEF AddRoom, Return, GoTo, roomVars, sessionVars,
     IInv, TypeOK, HoldOK, HoldSteps, CloseSteps, Started, DoneOK, AtDone, OpenRoomHeld,
     Closing, Process, AddressOK
<1>5. ASSUME NEW h \in Handler, JoinLookup(h) \/ JoinCheck(h) PROVE OpenRoomHeld'
  BY <1>5, ProcessAssumption, NullAssumption DEF JoinLookup, Return, GoTo, JoinCheck, roomVars,
     sessionVars, IInv, TypeOK, HoldOK, HoldSteps, CloseSteps, Started, DoneOK, AtDone,
     OpenRoomHeld, Closing, Process
<1>6. ASSUME NEW h \in Handler, JoinAdd(h) PROVE OpenRoomHeld'
  BY SMTT(40), <1>6, ProcessAssumption, NullAssumption DEF JoinAdd, Return, GoTo, roomVars, sessionVars,
     IInv, TypeOK, HoldOK, HoldSteps, CloseSteps, Started, DoneOK, AtDone, OpenRoomHeld,
     Closing, Process
<1>7. ASSUME NEW h \in Handler, JoinSetRunning(h) PROVE OpenRoomHeld'
  BY <1>7, ProcessAssumption, NullAssumption DEF JoinSetRunning, Return, GoTo, roomVars,
     sessionVars, IInv, TypeOK, HoldOK, HoldSteps, CloseSteps, Started, DoneOK, AtDone,
     OpenRoomHeld, Closing, Process
<1>8. ASSUME NEW h \in Handler, LeaveLookup(h) \/ LeaveCheck(h) PROVE OpenRoomHeld'
  BY <1>8, ProcessAssumption, NullAssumption DEF LeaveLookup, Return, GoTo, LeaveCheck,
     roomVars, sessionVars, IInv, TypeOK, HoldOK, HoldSteps, CloseSteps, Started, DoneOK,
     AtDone, OpenRoomHeld, Closing, Process
<1>9. ASSUME NEW h \in Handler, LeaveRemove(h) PROVE OpenRoomHeld'
  BY <1>9, ProcessAssumption, NullAssumption DEF LeaveRemove, GoTo, roomVars, sessionVars, IInv,
     TypeOK, HoldOK, HoldSteps, CloseSteps, Started, DoneOK, AtDone, OpenRoomHeld, Closing,
     Process
<1>10. ASSUME NEW h \in Handler, LeaveShouldRemove(h) \/ RemoveLookup(h) PROVE OpenRoomHeld'
  BY <1>10, ProcessAssumption, NullAssumption DEF LeaveShouldRemove, Return, GoTo, RemoveLookup,
     roomVars, sessionVars, IInv, TypeOK, HoldOK, HoldSteps, CloseSteps, Started, DoneOK,
     AtDone, OpenRoomHeld, Closing, Process
<1>11. ASSUME NEW p \in Process, RemoveRoom(p) PROVE OpenRoomHeld'
  BY <1>11, ProcessAssumption, NullAssumption DEF RemoveRoom, GoTo, roomVars, sessionVars, IInv,
     TypeOK, HoldOK, HoldSteps, CloseSteps, Started, DoneOK, AtDone, OpenRoomHeld, Closing,
     Process, AddressOK
<1>12. ASSUME NEW p \in Process, CloseCheck(p) PROVE OpenRoomHeld'
  BY SMTT(40), <1>12, ProcessAssumption, NullAssumption DEF CloseCheck, CloseReturn, Return, GoTo,
     roomVars, sessionVars, IInv, TypeOK, HoldOK, HoldSteps, CloseSteps, Started, DoneOK,
     AtDone, OpenRoomHeld, Closing, Process
<1>13. ASSUME NEW p \in Process, CloseRecheck(p) PROVE OpenRoomHeld'
  BY <1>13, ProcessAssumption, NullAssumption DEF CloseRecheck, GoTo, roomVars, sessionVars,
     IInv, TypeOK, HoldOK, HoldSteps, CloseSteps, Started, DoneOK, AtDone, OpenRoomHeld,
     Closing, Process
<1>14. ASSUME NEW p \in Process, CloseSetStatus(p) PROVE OpenRoomHeld'
  BY <1>14, ProcessAssumption, NullAssumption DEF CloseSetStatus, GoTo, roomVars, sessionVars,
     IInv, TypeOK, HoldOK, HoldSteps, CloseSteps, Started, DoneOK, AtDone, OpenRoomHeld,
     Closing, Process
<1>15. ASSUME NEW p \in Process, CloseDone(p) PROVE OpenRoomHeld'
  BY <1>15, ProcessAssumption, NullAssumption DEF CloseDone, CloseReturn, Return, GoTo,
     roomVars, sessionVars, IInv, TypeOK, HoldOK, HoldSteps, CloseSteps, Started, DoneOK,
     AtDone, OpenRoomHeld, Closing, Process
<1>16. ASSUME NEW p \in Process, CloseUnlisten(p) PROVE OpenRoomHeld'
  BY <1>16, ProcessAssumption, NullAssumption DEF CloseUnlisten, GoTo, roomVars, sessionVars,
     IInv, TypeOK, HoldOK, HoldSteps, CloseSteps, Started, DoneOK, AtDone, OpenRoomHeld,
     Closing, Process
<1>17. ASSUME NEW p \in Process, CloseNotify(p) PROVE OpenRoomHeld'
  BY <1>17, ProcessAssumption, NullAssumption DEF CloseNotify, CloseReturn, Return, GoTo,
     roomVars, sessionVars, IInv, TypeOK, HoldOK, HoldSteps, CloseSteps, Started, DoneOK,
     AtDone, OpenRoomHeld, Closing, Process
<1>18. CASE LoopStart \/ LoopNext
  BY <1>18, ProcessAssumption, NullAssumption DEF LoopStart, GoTo, LoopNext, roomVars,
     sessionVars, IInv, TypeOK, HoldOK, HoldSteps, CloseSteps, Started, DoneOK, AtDone,
     OpenRoomHeld, Closing, Process
<1>19. CASE Tick
  BY <1>19, ProcessAssumption, NullAssumption DEF Tick, Older, roomVars, sessionVars, IInv,
     TypeOK, HoldOK, HoldSteps, CloseSteps, Started, DoneOK, AtDone, OpenRoomHeld, Closing,
     Process
<1>20. ASSUME NEW r \in Room, Forward(r) PROVE OpenRoomHeld'
  BY <1>20, ProcessAssumption, NullAssumption DEF Forward, roomVars, sessionVars, IInv, TypeOK,
     HoldOK, HoldSteps, CloseSteps, Started, DoneOK, AtDone, OpenRoomHeld, Closing, Process
<1>21. CASE Dead \/ UNCHANGED vars
  BY <1>21, ProcessAssumption, NullAssumption DEF Dead, vars, roomVars, sessionVars, IInv,
     TypeOK, HoldOK, HoldSteps, CloseSteps, Started, DoneOK, AtDone, OpenRoomHeld, Closing,
     Process
<1>22. ASSUME NEW h \in Handler, JoinTell(h) \/ LeaveTell(h) PROVE OpenRoomHeld'
  BY <1>22, ProcessAssumption, NullAssumption DEF JoinTell, LeaveTell, GoTo, roomVars, sessionVars, IInv,
     TypeOK, HoldOK, HoldSteps, CloseSteps, Started, DoneOK, AtDone, OpenRoomHeld, Closing,
     Process
<1> QED
  BY <1>1, <1>2, <1>3, <1>4, <1>5, <1>6, <1>7, <1>8, <1>9, <1>10, <1>11, <1>12, <1>13, <1>14,
     <1>15, <1>16, <1>17, <1>18, <1>19, <1>20, <1>21, <1>22 DEF Next, LoopStep, Handle, Create, Join,
     Leave, Close, Process

\* With generated addresses no room is lost: whatever the interleaving of
\* creations, closes and the loop, a room that is open is in roomsMap, where
\* the next round of the loop finds it, or a process is at work on it.
THEOREM OpenRoomsAreHeld == Spec => []OpenRoomHeld
<1>1. Init => OpenRoomHeld
  BY DEF Init, OpenRoomHeld
<1>2. IInv /\ AddressOK /\ DoneOK /\ OpenRoomHeld /\ [Next]_vars => OpenRoomHeld'
  <2>1. CASE FreshAddresses
    BY <2>1, NextOpenRoomHeld
  <2>2. CASE ~FreshAddresses
    BY <2>2 DEF OpenRoomHeld, FreshAddresses
  <2> QED
    BY <2>1, <2>2
<1> QED
  BY <1>1, <1>2, Invariance, UniqueAddresses, ClosesReachDone, PTL DEF Spec

-----------------------------------------------------------------------------
(* Members.  A connection is asked for by one request at a time, and what  *)
(* that request found at its address decides where the connection is.      *)

JoinSteps == {"joinLookup", "joinCheck", "joinAdd", "joinTell", "joinSetRunning"}

LeaveSteps == {"leaveLookup", "leaveCheck", "leaveRemove", "leaveTell", "leaveShouldRemove"}

\* The requests of a session and what it waits for agree.
SessionOK ==
  /\ \A h \in Handler :
       /\ req[h].op \in {"join", "leave"} =>
            /\ req[h].conn \in Connection
            /\ req[h].addr = dest[req[h].conn]
            /\ connState[req[h].conn] = IF req[h].op = "join" THEN "joining" ELSE "leaving"
       /\ req[h].op \notin {"join", "leave"} => req[h].conn = NoConnection
       /\ pc[h] \in JoinSteps => req[h].op = "join"
       /\ pc[h] \in LeaveSteps => req[h].op = "leave"
       /\ pc[h] = "removeLookup" => req[h].op = "remove"
  /\ \A g, h \in Handler : g # h /\ req[g].conn = req[h].conn => req[h].conn = NoConnection

LEMMA NextSessionOK ==
  ASSUME IInv, SessionOK, [Next]_vars
  PROVE  SessionOK'
<1>1. ASSUME NEW h \in Handler, Begins(h) PROVE SessionOK'
  BY <1>1, ProcessAssumption, NullAssumption DEF Begins, Begin, BeginCreate, BeginForceCreate,
     BeginRemove, BeginJoin, BeginLeave, GoTo, roomVars, sessionVars, IInv, TypeOK, SessionOK,
     JoinSteps, LeaveSteps, CloseSteps, Answered, NoRequest, Process
<1>2. ASSUME NEW h \in Handler, CreateIsFull(h) \/ CreateLookup(h) PROVE SessionOK'
  BY <1>2, ProcessAssumption, NullAssumption DEF CreateIsFull, Return, GoTo, CreateLookup,
     roomVars, sessionVars, IInv, TypeOK, SessionOK, JoinSteps, LeaveSteps, CloseSteps,
     Answered, NoRequest, Process
<1>3. ASSUME NEW h \in Handler, CreateStart(h) PROVE SessionOK'
  BY <1>3, ProcessAssumption, NullAssumption DEF CreateStart, FreeRooms, Return, GoTo, roomVars,
     sessionVars, IInv, TypeOK, SessionOK, JoinSteps, LeaveSteps, CloseSteps, Answered,
     NoRequest, Process
<1>4. ASSUME NEW h \in Handler, AddRoom(h) PROVE SessionOK'
  BY <1>4, ProcessAssumption, NullAssumption DEF AddRoom, Return, GoTo, roomVars, sessionVars,
     IInv, TypeOK, SessionOK, JoinSteps, LeaveSteps, CloseSteps, Answered, NoRequest, Process
<1>5. ASSUME NEW h \in Handler, JoinLookup(h) \/ JoinCheck(h) PROVE SessionOK'
  BY <1>5, ProcessAssumption, NullAssumption DEF JoinLookup, Return, GoTo, JoinCheck, roomVars,
     sessionVars, IInv, TypeOK, SessionOK, JoinSteps, LeaveSteps, CloseSteps, Answered,
     NoRequest, Process
<1>6. ASSUME NEW h \in Handler, JoinAdd(h) PROVE SessionOK'
  BY <1>6, ProcessAssumption, NullAssumption DEF JoinAdd, Return, GoTo, roomVars, sessionVars,
     IInv, TypeOK, SessionOK, JoinSteps, LeaveSteps, CloseSteps, Answered, NoRequest, Process
<1>7. ASSUME NEW h \in Handler, JoinSetRunning(h) PROVE SessionOK'
  BY <1>7, ProcessAssumption, NullAssumption DEF JoinSetRunning, Return, GoTo, roomVars,
     sessionVars, IInv, TypeOK, SessionOK, JoinSteps, LeaveSteps, CloseSteps, Answered,
     NoRequest, Process
<1>8. ASSUME NEW h \in Handler, LeaveLookup(h) \/ LeaveCheck(h) PROVE SessionOK'
  BY SMTT(40), <1>8, ProcessAssumption, NullAssumption DEF LeaveLookup, Return, GoTo, LeaveCheck,
     roomVars, sessionVars, IInv, TypeOK, SessionOK, JoinSteps, LeaveSteps, CloseSteps,
     Answered, NoRequest, Process
<1>9. ASSUME NEW h \in Handler, LeaveRemove(h) PROVE SessionOK'
  BY <1>9, ProcessAssumption, NullAssumption DEF LeaveRemove, GoTo, roomVars, sessionVars, IInv,
     TypeOK, SessionOK, JoinSteps, LeaveSteps, CloseSteps, Answered, NoRequest, Process
<1>10. ASSUME NEW h \in Handler, LeaveShouldRemove(h) \/ RemoveLookup(h) PROVE SessionOK'
  BY <1>10, ProcessAssumption, NullAssumption DEF LeaveShouldRemove, Return, GoTo, RemoveLookup,
     roomVars, sessionVars, IInv, TypeOK, SessionOK, JoinSteps, LeaveSteps, CloseSteps,
     Answered, NoRequest, Process
<1>11. ASSUME NEW p \in Process, RemoveRoom(p) PROVE SessionOK'
  BY <1>11, ProcessAssumption, NullAssumption DEF RemoveRoom, GoTo, roomVars, sessionVars, IInv,
     TypeOK, SessionOK, JoinSteps, LeaveSteps, CloseSteps, Answered, NoRequest, Process
<1>12. ASSUME NEW p \in Process, CloseCheck(p) \/ CloseRecheck(p) PROVE SessionOK'
  BY SMTT(40), <1>12, ProcessAssumption, NullAssumption DEF CloseCheck, CloseReturn, Return, GoTo,
     CloseRecheck, roomVars, sessionVars, IInv, TypeOK, SessionOK, JoinSteps, LeaveSteps,
     CloseSteps, Answered, NoRequest, Process
<1>13. ASSUME NEW p \in Process, CloseSetStatus(p) PROVE SessionOK'
  BY <1>13, ProcessAssumption, NullAssumption DEF CloseSetStatus, GoTo, roomVars, sessionVars,
     IInv, TypeOK, SessionOK, JoinSteps, LeaveSteps, CloseSteps, Answered, NoRequest, Process
<1>14. ASSUME NEW p \in Process, CloseDone(p) PROVE SessionOK'
  BY <1>14, ProcessAssumption, NullAssumption DEF CloseDone, CloseReturn, Return, GoTo,
     roomVars, sessionVars, IInv, TypeOK, SessionOK, JoinSteps, LeaveSteps, CloseSteps,
     Answered, NoRequest, Process
<1>15. ASSUME NEW p \in Process, CloseUnlisten(p) \/ CloseNotify(p) PROVE SessionOK'
  BY SMTT(40), <1>15, ProcessAssumption, NullAssumption DEF CloseUnlisten, GoTo, CloseNotify, CloseReturn,
     Return, roomVars, sessionVars, IInv, TypeOK, SessionOK, JoinSteps, LeaveSteps, CloseSteps,
     Answered, NoRequest, Process
<1>16. CASE LoopStart \/ LoopNext
  BY <1>16, ProcessAssumption, NullAssumption DEF LoopStart, GoTo, LoopNext, roomVars,
     sessionVars, IInv, TypeOK, SessionOK, JoinSteps, LeaveSteps, CloseSteps, Answered,
     NoRequest, Process
<1>17. CASE Tick
  BY <1>17, ProcessAssumption, NullAssumption DEF Tick, Older, roomVars, sessionVars, IInv,
     TypeOK, SessionOK, JoinSteps, LeaveSteps, CloseSteps, Answered, NoRequest, Process
<1>18. ASSUME NEW r \in Room, Forward(r) PROVE SessionOK'
  BY <1>18, ProcessAssumption, NullAssumption DEF Forward, roomVars, sessionVars, IInv, TypeOK,
     SessionOK, JoinSteps, LeaveSteps, CloseSteps, Answered, NoRequest, Process
<1>19. CASE Dead \/ UNCHANGED vars
  BY <1>19, ProcessAssumption, NullAssumption DEF Dead, vars, roomVars, sessionVars, IInv,
     TypeOK, SessionOK, JoinSteps, LeaveSteps, CloseSteps, Answered, NoRequest, Process
<1>20. ASSUME NEW h \in Handler, JoinTell(h) \/ LeaveTell(h) PROVE SessionOK'
  BY <1>20, ProcessAssumption, NullAssumption DEF JoinTell, LeaveTell, GoTo, roomVars, sessionVars, IInv,
     TypeOK, SessionOK, JoinSteps, LeaveSteps, CloseSteps, Answered, NoRequest, Process
<1> QED
  BY <1>1, <1>2, <1>3, <1>4, <1>5, <1>6, <1>7, <1>8, <1>9, <1>10, <1>11, <1>12, <1>13, <1>14,
     <1>15, <1>16, <1>17, <1>18, <1>19, <1>20 DEF Next, LoopStep, Handle, Create, Join, Leave, Close,
     Process

LEMMA SessionsAgree == Spec => []SessionOK
<1>1. Init => SessionOK
  BY NullAssumption DEF Init, SessionOK, NoRequest, JoinSteps, LeaveSteps, Process
<1>2. IInv /\ SessionOK /\ [Next]_vars => SessionOK'
  BY NextSessionOK
<1> QED
  BY <1>1, <1>2, Invariance, PTL DEF Spec

\* A connection is only in the list of rooms of its address, and the list of
\* a room that nobody can find yet is empty.
PlaceOK ==
  /\ \A h \in Handler :
       /\ pc[h] \in {"joinCheck", "joinAdd"} => addrOf[room[h]] = req[h].addr
       /\ pc[h] = "addRoom" => connections[room[h]] = {}
  /\ \A r \in Room :
       /\ status[r] = "none" => connections[r] = {}
       /\ \A c \in connections[r] : addrOf[r] = dest[c]

LEMMA NextPlaceOK ==
  ASSUME IInv, SessionOK, PlaceOK, [Next]_vars
  PROVE  PlaceOK'
<1>1. ASSUME NEW h \in Handler, Begins(h) PROVE PlaceOK'
  BY <1>1, ProcessAssumption, NullAssumption DEF Begins, Begin, BeginCreate, BeginForceCreate,
     BeginRemove, BeginJoin, BeginLeave, GoTo, roomVars, sessionVars, IInv, TypeOK, HoldOK,
     Started, HoldSteps, CloseSteps, PlaceOK, Process
<1>2. ASSUME NEW h \in Handler, CreateIsFull(h) \/ CreateLookup(h) PROVE PlaceOK'
  BY <1>2, ProcessAssumption, NullAssumption DEF CreateIsFull, Return, GoTo, CreateLookup,
     roomVars, sessionVars, IInv, TypeOK, HoldOK, Started, HoldSteps, CloseSteps, PlaceOK,
     Process
<1>3. ASSUME NEW h \in Handler, CreateStart(h) PROVE PlaceOK'
  BY <1>3, ProcessAssumption, NullAssumption DEF CreateStart, FreeRooms, Return, GoTo, roomVars,
     sessionVars, IInv, TypeOK, HoldOK, Started, HoldSteps, CloseSteps, PlaceOK, Process,
     RequestOK
<1>4. ASSUME NEW h \in Handler, AddRoom(h) PROVE PlaceOK'
  BY <1>4, ProcessAssumption, NullAssumption DEF AddRoom, Return, GoTo, roomVars, sessionVars,
     IInv, TypeOK, HoldOK, Started, HoldSteps, CloseSteps, PlaceOK, Process
<1>5. ASSUME NEW h \in Handler, JoinLookup(h) PROVE PlaceOK'
  BY <1>5, ProcessAssumption, NullAssumption DEF JoinLookup, Return, GoTo, roomVars,
     sessionVars, IInv, TypeOK, HoldOK, Started, HoldSteps, CloseSteps, PlaceOK, Process,
     ClosedNotListed, Listed, RequestOK, AddressSteps
<1>6. ASSUME NEW h \in Handler, JoinCheck(h) PROVE PlaceOK'
  BY <1>6, ProcessAssumption, NullAssumption DEF JoinCheck, Return, GoTo, roomVars, sessionVars,
     IInv, TypeOK, HoldOK, Started, HoldSteps, CloseSteps, PlaceOK, Process
<1>7. ASSUME NEW h \in Handler, JoinAdd(h) PROVE PlaceOK'
  <2>1. Started(room[h]) /\ addrOf[room[h]] = dest[req[h].conn]
    BY <1>7 DEF JoinAdd, IInv, HoldOK, HoldSteps, PlaceOK, SessionOK, JoinSteps, Process
  <2>2. \A r \in Room : \A c \in connections'[r] : 
          c \in connections[r] \/ (r = room[h] /\ c = req[h].conn)
    BY <1>7 DEF JoinAdd, IInv, TypeOK
  <2>3. \A g \in Handler : pc[g] = "addRoom" => room[g] # room[h]
    BY <1>7 DEF JoinAdd, IInv, PendingOK, HoldSteps, Process
  <2>4. \A g \in Handler :
          /\ pc'[g] \in {"joinCheck", "joinAdd", "addRoom"} => pc'[g] = pc[g] /\ g # h
          /\ g # h => room'[g] = room[g] /\ req'[g] = req[g]
    BY <1>7 DEF JoinAdd, Return, GoTo, IInv, TypeOK, Process
  <2>5. UNCHANGED <<addrOf, status, dest>> /\ connections' \in [Room -> SUBSET Connection]
    BY <1>7, NextTypeOK DEF JoinAdd, TypeOK
  <2>6. \A g \in Handler : pc'[g] = "addRoom" => connections'[room'[g]] = {}
    <3> SUFFICES ASSUME NEW g \in Handler, pc'[g] = "addRoom" PROVE connections'[room'[g]] = {}
      OBVIOUS
    <3>1. room'[g] = room[g] /\ room[g] \in Room /\ room[g] # room[h] /\ connections[room[g]] = {}
      BY <2>3, <2>4 DEF IInv, HoldOK, HoldSteps, Started, PlaceOK, Process
    <3> QED
      BY <2>2, <3>1
  <2> QED
    BY <2>1, <2>2, <2>4, <2>5, <2>6 DEF PlaceOK, Started
<1>8. ASSUME NEW h \in Handler, JoinSetRunning(h) PROVE PlaceOK'
  BY <1>8, ProcessAssumption, NullAssumption DEF JoinSetRunning, Return, GoTo, roomVars,
     sessionVars, IInv, TypeOK, HoldOK, Started, HoldSteps, CloseSteps, PlaceOK, Process
<1>9. ASSUME NEW h \in Handler, LeaveLookup(h) \/ LeaveCheck(h) PROVE PlaceOK'
  BY <1>9, ProcessAssumption, NullAssumption DEF LeaveLookup, Return, GoTo, LeaveCheck,
     roomVars, sessionVars, IInv, TypeOK, HoldOK, Started, HoldSteps, CloseSteps, PlaceOK,
     Process
<1>10. ASSUME NEW h \in Handler, LeaveRemove(h) PROVE PlaceOK'
  BY <1>10, ProcessAssumption, NullAssumption DEF LeaveRemove, GoTo, roomVars, sessionVars,
     IInv, TypeOK, HoldOK, Started, HoldSteps, CloseSteps, PlaceOK, Process
<1>11. ASSUME NEW h \in Handler, LeaveShouldRemove(h) \/ RemoveLookup(h) PROVE PlaceOK'
  BY <1>11, ProcessAssumption, NullAssumption DEF LeaveShouldRemove, Return, GoTo, RemoveLookup,
     roomVars, sessionVars, IInv, TypeOK, HoldOK, Started, HoldSteps, CloseSteps, PlaceOK,
     Process
<1>12. ASSUME NEW p \in Process, RemoveRoom(p) PROVE PlaceOK'
  BY <1>12, ProcessAssumption, NullAssumption DEF RemoveRoom, GoTo, roomVars, sessionVars, IInv,
     TypeOK, HoldOK, Started, HoldSteps, CloseSteps, PlaceOK, Process
<1>13. ASSUME NEW p \in Process, CloseCheck(p) \/ CloseRecheck(p) PROVE PlaceOK'
  BY <1>13, ProcessAssumption, NullAssumption DEF CloseCheck, CloseReturn, Return, GoTo,
     CloseRecheck, roomVars, sessionVars, IInv, TypeOK, HoldOK, Started, HoldSteps, CloseSteps,
     PlaceOK, Process
<1>14. ASSUME NEW p \in Process, CloseSetStatus(p) PROVE PlaceOK'
  BY <1>14, ProcessAssumption, NullAssumption DEF CloseSetStatus, GoTo, roomVars, sessionVars,
     IInv, TypeOK, HoldOK, Started, HoldSteps, CloseSteps, PlaceOK, Process
<1>15. ASSUME NEW p \in Process, CloseDone(p) PROVE PlaceOK'
  BY <1>15, ProcessAssumption, NullAssumption DEF CloseDone, CloseReturn, Return, GoTo,
     roomVars, sessionVars, IInv, TypeOK, HoldOK, Started, HoldSteps, CloseSteps, PlaceOK,
     Process
<1>16. ASSUME NEW p \in Process, CloseUnlisten(p) \/ CloseNotify(p) PROVE PlaceOK'
  BY <1>16, ProcessAssumption, NullAssumption DEF CloseUnlisten, GoTo, CloseNotify, CloseReturn,
     Return, roomVars, sessionVars, IInv, TypeOK, HoldOK, Started, HoldSteps, CloseSteps,
     PlaceOK, Process
<1>17. CASE LoopStart \/ LoopNext
  BY <1>17, ProcessAssumption, NullAssumption DEF LoopStart, GoTo, LoopNext, roomVars,
     sessionVars, IInv, TypeOK, HoldOK, Started, HoldSteps, CloseSteps, PlaceOK, Process
<1>18. CASE Tick
  BY <1>18, ProcessAssumption, NullAssumption DEF Tick, Older, roomVars, sessionVars, IInv,
     TypeOK, HoldOK, Started, HoldSteps, CloseSteps, PlaceOK, Process
<1>19. ASSUME NEW r \in Room, Forward(r) PROVE PlaceOK'
  BY <1>19, ProcessAssumption, NullAssumption DEF Forward, roomVars, sessionVars, IInv, TypeOK,
     HoldOK, Started, HoldSteps, CloseSteps, PlaceOK, Process
<1>20. CASE Dead \/ UNCHANGED vars
  BY <1>20, ProcessAssumption, NullAssumption DEF Dead, vars, roomVars, sessionVars, IInv,
     TypeOK, HoldOK, Started, HoldSteps, CloseSteps, PlaceOK, Process
<1>21. ASSUME NEW h \in Handler, JoinTell(h) \/ LeaveTell(h) PROVE PlaceOK'
  BY <1>21, ProcessAssumption, NullAssumption DEF JoinTell, LeaveTell, GoTo, roomVars, sessionVars,
     IInv, TypeOK, HoldOK, Started, HoldSteps, CloseSteps, PlaceOK, Process
<1> QED
  BY <1>1, <1>2, <1>3, <1>4, <1>5, <1>6, <1>7, <1>8, <1>9, <1>10, <1>11, <1>12, <1>13, <1>14,
     <1>15, <1>16, <1>17, <1>18, <1>19, <1>20, <1>21 DEF Next, LoopStep, Handle, Create, Join, Leave,
     Close, Process

LEMMA PlacesAgree == Spec => []PlaceOK
<1>1. Init => PlaceOK
  BY DEF Init, PlaceOK, Process
<1>2. IInv /\ SessionOK /\ PlaceOK /\ [Next]_vars => PlaceOK'
  BY NextPlaceOK
<1> QED
  BY <1>1, <1>2, Invariance, SessionsAgree, PTL DEF Spec

\* A connection that joined is in the list of some room until it leaves.
JoinedOK ==
  /\ \A h \in Handler : pc[h] \in {"joinTell", "joinSetRunning"} => req[h].conn \in connections[room[h]]
  /\ \A c \in Connection : connState[c] = "joined" => \E r \in Room : c \in connections[r]

LEMMA NextJoinedOK ==
  ASSUME IInv, SessionOK, JoinedOK, [Next]_vars
  PROVE  JoinedOK'
<1>1. ASSUME NEW h \in Handler, Begins(h) PROVE JoinedOK'
  BY <1>1, ProcessAssumption, NullAssumption DEF Begins, Begin, BeginCreate, BeginForceCreate,
     BeginRemove, BeginJoin, BeginLeave, GoTo, roomVars, sessionVars, IInv, TypeOK, HoldOK,
     Started, HoldSteps, CloseSteps, SessionOK, JoinSteps, LeaveSteps, JoinedOK, Answered,
     Process
<1>2. ASSUME NEW h \in Handler, CreateIsFull(h) \/ CreateLookup(h) PROVE JoinedOK'
  BY <1>2, ProcessAssumption, NullAssumption DEF CreateIsFull, Return, GoTo, CreateLookup,
     roomVars, sessionVars, IInv, TypeOK, HoldOK, Started, HoldSteps, CloseSteps, SessionOK,
     JoinSteps, LeaveSteps, JoinedOK, Answered, Process
<1>3. ASSUME NEW h \in Handler, CreateStart(h) PROVE JoinedOK'
  BY <1>3, ProcessAssumption, NullAssumption DEF CreateStart, FreeRooms, Return, GoTo, roomVars,
     sessionVars, IInv, TypeOK, HoldOK, Started, HoldSteps, CloseSteps, SessionOK, JoinSteps,
     LeaveSteps, JoinedOK, Answered, Process
<1>4. ASSUME NEW h \in Handler, AddRoom(h) PROVE JoinedOK'
  BY <1>4, ProcessAssumption, NullAssumption DEF AddRoom, Return, GoTo, roomVars, sessionVars,
     IInv, TypeOK, HoldOK, Started, HoldSteps, CloseSteps, SessionOK, JoinSteps, LeaveSteps,
     JoinedOK, Answered, Process
<1>5. ASSUME NEW h \in Handler, JoinLookup(h) \/ JoinCheck(h) PROVE JoinedOK'
  BY <1>5, ProcessAssumption, NullAssumption DEF JoinLookup, Return, GoTo, JoinCheck, roomVars,
     sessionVars, IInv, TypeOK, HoldOK, Started, HoldSteps, CloseSteps, SessionOK, JoinSteps,
     LeaveSteps, JoinedOK, Answered, Process
<1>6. ASSUME NEW h \in Handler, JoinAdd(h) PROVE JoinedOK'
  BY <1>6, ProcessAssumption, NullAssumption DEF JoinAdd, Return, GoTo, roomVars, sessionVars,
     IInv, TypeOK, HoldOK, Started, HoldSteps, CloseSteps, SessionOK, JoinSteps, LeaveSteps,
     JoinedOK, Answered, Process
<1>7. ASSUME NEW h \in Handler, JoinSetRunning(h) PROVE JoinedOK'
  BY <1>7, ProcessAssumption, NullAssumption DEF JoinSetRunning, Return, GoTo, roomVars,
     sessionVars, IInv, TypeOK, HoldOK, Started, HoldSteps, CloseSteps, SessionOK, JoinSteps,
     LeaveSteps, JoinedOK, Answered, Process
<1>8. ASSUME NEW h \in Handler, LeaveLookup(h) \/ LeaveCheck(h) PROVE JoinedOK'
  BY <1>8, ProcessAssumption, NullAssumption DEF LeaveLookup, Return, GoTo, LeaveCheck,
     roomVars, sessionVars, IInv, TypeOK, HoldOK, Started, HoldSteps, CloseSteps, SessionOK,
     JoinSteps, LeaveSteps, JoinedOK, Answered, Process
<1>9. ASSUME NEW h \in Handler, LeaveRemove(h) PROVE JoinedOK'
  BY <1>9, ProcessAssumption, NullAssumption DEF LeaveRemove, GoTo, roomVars, sessionVars, IInv,
     TypeOK, HoldOK, Started, HoldSteps, CloseSteps, SessionOK, JoinSteps, LeaveSteps, JoinedOK,
     Answered, Process
<1>10. ASSUME NEW h \in Handler, LeaveShouldRemove(h) \/ RemoveLookup(h) PROVE JoinedOK'
  BY <1>10, ProcessAssumption, NullAssumption DEF LeaveShouldRemove, Return, GoTo, RemoveLookup,
     roomVars, sessionVars, IInv, TypeOK, HoldOK, Started, HoldSteps, CloseSteps, SessionOK,
     JoinSteps, LeaveSteps, JoinedOK, Answered, Process
<1>11. ASSUME NEW p \in Process, RemoveRoom(p) PROVE JoinedOK'
  BY <1>11, ProcessAssumption, NullAssumption DEF RemoveRoom, GoTo, roomVars, sessionVars, IInv,
     TypeOK, HoldOK, Started, HoldSteps, CloseSteps, SessionOK, JoinSteps, LeaveSteps, JoinedOK,
     Answered, Process
<1>12. ASSUME NEW p \in Process, CloseCheck(p) \/ CloseRecheck(p) PROVE JoinedOK'
  BY <1>12, ProcessAssumption, NullAssumption DEF CloseCheck, CloseReturn, Return, GoTo,
     CloseRecheck, roomVars, sessionVars, IInv, TypeOK, HoldOK, Started, HoldSteps, CloseSteps,
     SessionOK, JoinSteps, LeaveSteps, JoinedOK, Answered, Process
<1>13. ASSUME NEW p \in Process, CloseSetStatus(p) PROVE JoinedOK'
  BY <1>13, ProcessAssumption, NullAssumption DEF CloseSetStatus, GoTo, roomVars, sessionVars,
     IInv, TypeOK, HoldOK, Started, HoldSteps, CloseSteps, SessionOK, JoinSteps, LeaveSteps,
     JoinedOK, Answered, Process
<1>14. ASSUME NEW p \in Process, CloseDone(p) PROVE JoinedOK'
  BY <1>14, ProcessAssumption, NullAssumption DEF CloseDone, CloseReturn, Return, GoTo,
     roomVars, sessionVars, IInv, TypeOK, HoldOK, Started, HoldSteps, CloseSteps, SessionOK,
     JoinSteps, LeaveSteps, JoinedOK, Answered, Process
<1>15. ASSUME NEW p \in Process, CloseUnlisten(p) \/ CloseNotify(p) PROVE JoinedOK'
  BY <1>15, ProcessAssumption, NullAssumption DEF CloseUnlisten, GoTo, CloseNotify, CloseReturn,
     Return, roomVars, sessionVars, IInv, TypeOK, HoldOK, Started, HoldSteps, CloseSteps,
     SessionOK, JoinSteps, LeaveSteps, JoinedOK, Answered, Process
<1>16. CASE LoopStart \/ LoopNext
  BY <1>16, ProcessAssumption, NullAssumption DEF LoopStart, GoTo, LoopNext, roomVars,
     sessionVars, IInv, TypeOK, HoldOK, Started, HoldSteps, CloseSteps, SessionOK, JoinSteps,
     LeaveSteps, JoinedOK, Answered, Process
<1>17. CASE Tick
  BY <1>17, ProcessAssumption, NullAssumption DEF Tick, Older, roomVars, sessionVars, IInv,
     TypeOK, HoldOK, Started, HoldSteps, CloseSteps, SessionOK, JoinSteps, LeaveSteps, JoinedOK,
     Answered, Process
<1>18. ASSUME NEW r \in Room, Forward(r) PROVE JoinedOK'
  BY <1>18, ProcessAssumption, NullAssumption DEF Forward, roomVars, sessionVars, IInv, TypeOK,
     HoldOK, Started, HoldSteps, CloseSteps, SessionOK, JoinSteps, LeaveSteps, JoinedOK,
     Answered, Process
<1>19. CASE Dead \/ UNCHANGED vars
  BY <1>19, ProcessAssumption, NullAssumption DEF Dead, vars, roomVars, sessionVars, IInv,
     TypeOK, HoldOK, Started, HoldSteps, CloseSteps, SessionOK, JoinSteps, LeaveSteps, JoinedOK,
     Answered, Process
<1>20. ASSUME NEW h \in Handler, JoinTell(h) \/ LeaveTell(h) PROVE JoinedOK'
  BY <1>20, ProcessAssumption, NullAssumption DEF JoinTell, LeaveTell, GoTo, roomVars, sessionVars, IInv,
     TypeOK, HoldOK, Started, HoldSteps, CloseSteps, SessionOK, JoinSteps, LeaveSteps, JoinedOK,
     Answered, Process
<1> QED
  BY <1>1, <1>2, <1>3, <1>4, <1>5, <1>6, <1>7, <1>8, <1>9, <1>10, <1>11, <1>12, <1>13, <1>14,
     <1>15, <1>16, <1>17, <1>18, <1>19, <1>20 DEF Next, LoopStep, Handle, Create, Join, Leave, Close,
     Process

LEMMA JoinsAgree == Spec => []JoinedOK
<1>1. Init => JoinedOK
  BY DEF Init, JoinedOK, Process
<1>2. IInv /\ SessionOK /\ JoinedOK /\ [Next]_vars => JoinedOK'
  BY NextJoinedOK
<1> QED
  BY <1>1, <1>2, Invariance, SessionsAgree, PTL DEF Spec

\* Connection c is a member of no room that a lookup can find.
Gone(c) == \A a \in Listed : c \notin connections[roomsMap[a]]

\* LeaveRoom may work on another room than the one that was joined, then the
\* one that was joined is gone from roomsMap.
LeftOK ==
  /\ \A h \in Handler :
       /\ pc[h] \in {"leaveCheck", "leaveRemove"} =>
            \A a \in Listed : req[h].conn \in connections[roomsMap[a]] => roomsMap[a] = room[h]
       /\ req[h].op = "leave" /\ pc[h] \in CloseSteps \cup {"leaveTell", "leaveShouldRemove", "removeRoom"}
            => Gone(req[h].conn)
  /\ \A c \in Connection : connState[c] = "left" => Gone(c)

LEMMA NextLeftOK ==
  ASSUME IInv, SessionOK, PlaceOK, LeftOK, [Next]_vars
  PROVE  LeftOK'
<1>1. ASSUME NEW h \in Handler, Begins(h) PROVE LeftOK'
  BY <1>1, ProcessAssumption, NullAssumption DEF Begins, Begin, BeginCreate, BeginForceCreate,
     BeginRemove, BeginJoin, BeginLeave, GoTo, roomVars, sessionVars, IInv, TypeOK, HoldOK,
     Started, HoldSteps, CloseSteps, SessionOK, JoinSteps, LeaveSteps, LeftOK, Gone, Listed,
     Answered, Process
<1>2. ASSUME NEW h \in Handler, CreateIsFull(h) \/ CreateLookup(h) PROVE LeftOK'
  BY <1>2, ProcessAssumption, NullAssumption DEF CreateIsFull, Return, GoTo, CreateLookup,
     roomVars, sessionVars, IInv, TypeOK, HoldOK, Started, HoldSteps, CloseSteps, SessionOK,
     JoinSteps, LeaveSteps, LeftOK, Gone, Listed, Answered, Process
<1>3. ASSUME NEW h \in Handler, CreateStart(h) PROVE LeftOK'
  BY <1>3, ProcessAssumption, NullAssumption DEF CreateStart, FreeRooms, Return, GoTo, roomVars,
     sessionVars, IInv, TypeOK, HoldOK, Started, HoldSteps, CloseSteps, SessionOK, JoinSteps,
     LeaveSteps, LeftOK, Gone, Listed, Answered, Process
<1>4. ASSUME NEW h \in Handler, AddRoom(h) PROVE LeftOK'
  BY <1>4, ProcessAssumption, NullAssumption DEF AddRoom, Return, GoTo, roomVars, sessionVars,
     IInv, TypeOK, HoldOK, Started, HoldSteps, CloseSteps, SessionOK, JoinSteps, LeaveSteps,
     LeftOK, Gone, Listed, Answered, Process, PlaceOK
<1>5. ASSUME NEW h \in Handler, JoinLookup(h) \/ JoinCheck(h) PROVE LeftOK'
  BY <1>5, ProcessAssumption, NullAssumption DEF JoinLookup, Return, GoTo, JoinCheck, roomVars,
     sessionVars, IInv, TypeOK, HoldOK, Started, HoldSteps, CloseSteps, SessionOK, JoinSteps,
     LeaveSteps, LeftOK, Gone, Listed, Answered, Process
<1>6. ASSUME NEW h \in Handler, JoinAdd(h) PROVE LeftOK'
  BY SMTT(40), <1>6, ProcessAssumption, NullAssumption DEF JoinAdd, Return, GoTo, roomVars, sessionVars,
     IInv, TypeOK, HoldOK, Started, HoldSteps, CloseSteps, SessionOK, JoinSteps, LeaveSteps,
     LeftOK, Gone, Listed, Answered, Process
<1>7. ASSUME NEW h \in Handler, JoinSetRunning(h) PROVE LeftOK'
  BY <1>7, ProcessAssumption, NullAssumption DEF JoinSetRunning, Return, GoTo, roomVars,
     sessionVars, IInv, TypeOK, HoldOK, Started, HoldSteps, CloseSteps, SessionOK, JoinSteps,
     LeaveSteps, LeftOK, Gone, Listed, Answered, Process
<1>8. ASSUME NEW h \in Handler, LeaveLookup(h) \/ LeaveCheck(h) PROVE LeftOK'
  BY SMTT(40), <1>8, ProcessAssumption, NullAssumption DEF LeaveLookup, Return, GoTo, LeaveCheck,
     roomVars, sessionVars, IInv, TypeOK, HoldOK, Started, HoldSteps, CloseSteps, SessionOK,
     JoinSteps, LeaveSteps, LeftOK, Gone, Listed, Answered, Process, PlaceOK, ClosedNotListed
<1>9. ASSUME NEW h \in Handler, LeaveRemove(h) PROVE LeftOK'
  BY <1>9, ProcessAssumption, NullAssumption DEF LeaveRemove, GoTo, roomVars, sessionVars, IInv,
     TypeOK, HoldOK, Started, HoldSteps, CloseSteps, SessionOK, JoinSteps, LeaveSteps, LeftOK,
     Gone, Listed, Answered, Process
<1>10. ASSUME NEW h \in Handler, LeaveShouldRemove(h) PROVE LeftOK'
  <2>1. Gone(req[h].conn)
    BY <1>10 DEF LeaveShouldRemove, LeftOK, SessionOK, LeaveSteps
  <2>2. UNCHANGED <<roomsMap, connections>> /\ \A c : Gone(c)' = Gone(c)
    BY <1>10 DEF LeaveShouldRemove, roomVars, Gone, Listed
  <2>3. \A g \in Handler : g # h => pc'[g] = pc[g] /\ room'[g] = room[g] /\ req'[g] = req[g]
    BY <1>10 DEF LeaveShouldRemove, Return, GoTo, IInv, TypeOK, Process
  <2>4. \/ pc'[h] = "removeRoom" /\ req'[h] = req[h] /\ connState' = connState
        \/ pc'[h] = "idle" /\ Answered(h, "left")
    BY <1>10, ProcessAssumption DEF LeaveShouldRemove, Return, GoTo, IInv, TypeOK, Process
  <2>5. \A c \in Connection : connState'[c] = "left" => connState[c] = "left" \/ c = req[h].conn
    BY <2>4 DEF Answered
  <2>6. \A g \in Handler :
          /\ pc'[g] \in {"leaveCheck", "leaveRemove"} => g # h
          /\ req'[g].op = "leave" /\ pc'[g] \in CloseSteps \cup {"leaveTell", "leaveShouldRemove", "removeRoom"}
               => g # h \/ req'[g] = req[h]
    BY <2>4 DEF CloseSteps
  <2> HIDE DEF Gone
  <2>7. \A g \in Handler :
          pc'[g] \in {"leaveCheck", "leaveRemove"} =>
            \A a \in Listed' : req'[g].conn \in connections'[roomsMap'[a]] => roomsMap'[a] = room'[g]
    BY <2>2, <2>3, <2>6 DEF LeftOK, Listed
  <2>8. \A g \in Handler :
          req'[g].op = "leave" /\ pc'[g] \in CloseSteps \cup {"leaveTell", "leaveShouldRemove", "removeRoom"}
            => Gone(req'[g].conn)
    BY <2>1, <2>3, <2>6 DEF LeftOK
  <2>9. \A c \in Connection : connState'[c] = "left" => Gone(c)
    BY <2>1, <2>5 DEF LeftOK
  <2> QED
    BY <2>2, <2>7, <2>8, <2>9 DEF LeftOK, Gone, Listed
<1>11. ASSUME NEW h \in Handler, RemoveLookup(h) PROVE LeftOK'
  BY <1>11, ProcessAssumption, NullAssumption DEF RemoveLookup, Return, GoTo, roomVars,
     sessionVars, IInv, TypeOK, HoldOK, Started, HoldSteps, CloseSteps, SessionOK, JoinSteps,
     LeaveSteps, LeftOK, Gone, Listed, Answered, Process
<1>12. ASSUME NEW p \in Process, RemoveRoom(p) PROVE LeftOK'
  BY <1>12, ProcessAssumption, NullAssumption DEF RemoveRoom, GoTo, roomVars, sessionVars, IInv,
     TypeOK, HoldOK, Started, HoldSteps, CloseSteps, SessionOK, JoinSteps, LeaveSteps, LeftOK,
     Gone, Listed, Answered, Process
<1>13. ASSUME NEW p \in Process, CloseCheck(p) \/ CloseRecheck(p) PROVE LeftOK'
  BY SMTT(40), <1>13, ProcessAssumption, NullAssumption DEF CloseCheck, CloseReturn, Return, GoTo,
     CloseRecheck, roomVars, sessionVars, IInv, TypeOK, HoldOK, Started, HoldSteps, CloseSteps,
     SessionOK, JoinSteps, LeaveSteps, LeftOK, Gone, Listed, Answered, Process
<1>14. ASSUME NEW p \in Process, CloseSetStatus(p) PROVE LeftOK'
  BY <1>14, ProcessAssumption, NullAssumption DEF CloseSetStatus, GoTo, roomVars, sessionVars,
     IInv, TypeOK, HoldOK, Started, HoldSteps, CloseSteps, SessionOK, JoinSteps, LeaveSteps,
     LeftOK, Gone, Listed, Answered, Process
<1>15. ASSUME NEW p \in Process, CloseDone(p) PROVE LeftOK'
  BY <1>15, ProcessAssumption, NullAssumption DEF CloseDone, CloseReturn, Return, GoTo,
     roomVars, sessionVars, IInv, TypeOK, HoldOK, Started, HoldSteps, CloseSteps, SessionOK,
     JoinSteps, LeaveSteps, LeftOK, Gone, Listed, Answered, Process
<1>16. ASSUME NEW p \in Process, CloseUnlisten(p) \/ CloseNotify(p) PROVE LeftOK'
  BY <1>16, ProcessAssumption, NullAssumption DEF CloseUnlisten, GoTo, CloseNotify, CloseReturn,
     Return, roomVars, sessionVars, IInv, TypeOK, HoldOK, Started, HoldSteps, CloseSteps,
     SessionOK, JoinSteps, LeaveSteps, LeftOK, Gone, Listed, Answered, Process
<1>17. CASE LoopStart \/ LoopNext
  BY <1>17, ProcessAssumption, NullAssumption DEF LoopStart, GoTo, LoopNext, roomVars,
     sessionVars, IInv, TypeOK, HoldOK, Started, HoldSteps, CloseSteps, SessionOK, JoinSteps,
     LeaveSteps, LeftOK, Gone, Listed, Answered, Process
<1>18. CASE Tick
  BY <1>18, ProcessAssumption, NullAssumption DEF Tick, Older, roomVars, sessionVars, IInv,
     TypeOK, HoldOK, Started, HoldSteps, CloseSteps, SessionOK, JoinSteps, LeaveSteps, LeftOK,
     Gone, Listed, Answered, Process
<1>19. ASSUME NEW r \in Room, Forward(r) PROVE LeftOK'
  BY <1>19, ProcessAssumption, NullAssumption DEF Forward, roomVars, sessionVars, IInv, TypeOK,
     HoldOK, Started, HoldSteps, CloseSteps, SessionOK, JoinSteps, LeaveSteps, LeftOK, Gone,
     Listed, Answered, Process
<1>20. CASE Dead \/ UNCHANGED vars
  BY <1>20, ProcessAssumption, NullAssumption DEF Dead, vars, roomVars, sessionVars, IInv,
     TypeOK, HoldOK, Started, HoldSteps, CloseSteps, SessionOK, JoinSteps, LeaveSteps, LeftOK,
     Gone, Listed, Answered, Process
<1>21. ASSUME NEW h \in Handler, JoinTell(h) \/ LeaveTell(h) PROVE LeftOK'
  BY <1>21, ProcessAssumption, NullAssumption DEF JoinTell, LeaveTell, GoTo, roomVars, sessionVars, IInv,
     TypeOK, HoldOK, Started, HoldSteps, CloseSteps, SessionOK, JoinSteps, LeaveSteps, LeftOK,
     Gone, Listed, Answered, Process
<1> QED
  BY <1>1, <1>2, <1>3, <1>4, <1>5, <1>6, <1>7, <1>8, <1>9, <1>10, <1>11, <1>12, <1>13, <1>14,
     <1>15, <1>16, <1>17, <1>18, <1>19, <1>20, <1>21 DEF Next, LoopStep, Handle, Create, Join, Leave,
     Close, Process

LEMMA LeavesAgree == Spec => []LeftOK
<1>1. Init => LeftOK
  BY DEF Init, LeftOK, CloseSteps, Process
<1>2. IInv /\ SessionOK /\ PlaceOK /\ LeftOK /\ [Next]_vars => LeftOK'
  BY NextLeftOK
<1> QED
  BY <1>1, <1>2, Invariance, SessionsAgree, PlacesAgree, PTL DEF Spec

\* The members of a listed room are the sessions that joined it: for any
\* number of rooms that came and went at an address, a connection that left is
\* in none that can be found, and, with generated addresses, one that joined
\* is in the room its address denotes.
THEOREM MembersAreSessions == Spec => []MembersAgree
<1>1. IInv /\ AddressOK /\ PlaceOK /\ JoinedOK /\ LeftOK => MembersAgree
  BY DEF IInv, TypeOK, AddressOK, PlaceOK, JoinedOK, LeftOK, Gone, MembersAgree,
     ClosedNotListed, Listed
<1> QED
  BY <1>1, Invariance, UniqueAddresses, PlacesAgree, JoinsAgree, LeavesAgree, PTL

-----------------------------------------------------------------------------
(* The refinement mapping to RoomRegistry.  With generated addresses the   *)
(* room manager of a node takes no step that RoomRegistry does not allow:  *)
(* the safety half of ImplementsRegistry, for every value of the constants.*)

LEMMA OneOfSet == OneOf({}) = NoRoom /\ \A r : OneOf({r}) = r
BY DEF OneOf

\* By unique addresses an address has at most one room, in roomsMap or not.
LEMMA OnePublished ==
  ASSUME IInv, AddressOK, FreshAddresses, NEW a \in Address, NEW r \in Published(a)
  PROVE  /\ Published(a) = {r}
         /\ RoomOf[a] = r
         /\ r \in Room /\ addrOf[r] = a
         /\ roomsMap[a] \in {r, NoRoom}
<1>1. r \in Room /\ addrOf[r] = a
  BY DEF Published
<1>2. Published(a) = {r}
  BY <1>1 DEF Published, AddressOK
<1>3. RoomOf[a] = r
  BY <1>2, OneOfSet DEF RoomOf
<1>4. roomsMap[a] \in {r, NoRoom}
  BY <1>1 DEF IInv, TypeOK, ClosedNotListed, Listed, AddressOK
<1> QED
  BY <1>1, <1>2, <1>3, <1>4

LEMMA NonePublished ==
  ASSUME NEW a \in Address, Published(a) = {}
  PROVE  RoomOf[a] = NoRoom /\ a \notin Retired
BY OneOfSet DEF RoomOf, Retired

\* A room in roomsMap is published: its creator is past addRoom.
LEMMA ListedPublished ==
  ASSUME IInv, NEW a \in Listed
  PROVE  roomsMap[a] \in Published(a)
BY DEF IInv, TypeOK, Listed, Published, ClosedNotListed, PendingOK

\* The mapping only depends on roomsMap, on the addresses of the rooms and on
\* the rooms that are about to be added.
LEMMA SamePublished ==
  ASSUME UNCHANGED addrOf,
         \A h \in Handler : (pc'[h] = "addRoom") = (pc[h] = "addRoom"),
         \A h \in Handler : pc[h] = "addRoom" => room'[h] = room[h]
  PROVE  /\ \A a \in Address : Published(a)' = Published(a)
         /\ RoomOf' = RoomOf
         /\ UNCHANGED roomsMap => Retired' = Retired
<1>1. \A a \in Address : Published(a)' = Published(a)
  BY DEF Published
<1> QED
  BY <1>1 DEF RoomOf, Retired

LEMMA Stutters ==
  ASSUME UNCHANGED <<roomsMap, addrOf, crashed>>,
         \A h \in Handler : (pc'[h] = "addRoom") = (pc[h] = "addRoom"),
         \A h \in Handler : pc[h] = "addRoom" => room'[h] = room[h]
  PROVE  UNCHANGED Registry!vars
BY SamePublished DEF Registry!vars

-----------------------------------------------------------------------------
(* The four steps that the registry sees *)

\* The new room has an address, but is not published before addRoom.
LEMMA CreateStartStutters ==
  ASSUME IInv, AddressOK, FreshAddresses, NEW h \in Handler, CreateStart(h)
  PROVE  UNCHANGED Registry!vars
<1>1. CASE Return(h)
  BY <1>1, Stutters DEF CreateStart, Return, GoTo, roomVars, IInv, TypeOK, Process
<1>2. CASE ~Return(h)
  <2>1. PICK r \in FreeRooms :
          /\ addrOf' = [addrOf EXCEPT ![r] = req[h].addr]
          /\ room' = [room EXCEPT ![h] = r]
          /\ pc' = [pc EXCEPT ![h] = "addRoom"]
          /\ UNCHANGED <<roomsMap, crashed>>
    BY <1>2 DEF CreateStart, GoTo
  <2>2. r \in Room /\ addrOf[r] = NoAddress
    BY DEF FreeRooms, AddressOK
  <2>3. pc[h] = "start" /\ \A g \in Handler : pc[g] = "addRoom" => room[g] # r
    BY DEF CreateStart, FreeRooms, IInv, HoldOK, HoldSteps, Started, Process
  <2>4. pc'[h] = "addRoom" /\ room'[h] = r
        /\ \A g \in Handler \ {h} : pc'[g] = pc[g] /\ room'[g] = room[g]
    BY <2>1 DEF IInv, TypeOK, Process
  <2>5. addrOf'[r] = req[h].addr /\ \A q \in Room \ {r} : addrOf'[q] = addrOf[q]
    BY <2>1, <2>2 DEF IInv, TypeOK
  <2>6. \A a \in Address : Published(a)' = Published(a)
    BY <2>2, <2>3, <2>4, <2>5, NullAssumption DEF Published
  <2> QED
    BY <2>1, <2>6 DEF Registry!vars, RoomOf, Retired
<1> QED
  BY <1>1, <1>2

LEMMA AddRoomPublishes ==
  ASSUME IInv, AddressOK, FreshAddresses, NEW h \in Handler, AddRoom(h)
  PROVE  Registry!Next
<1>0. room[h] \in Room /\ addrOf[room[h]] \in Address /\ pc[h] = "addRoom" /\ ~crashed
  BY DEF AddRoom, IInv, HoldOK, HoldSteps, Started, Process
<1>1. PICK r \in Room, a \in Address : r = room[h] /\ a = addrOf[r]
  BY <1>0
<1>2. \A g \in Handler \ {h} : pc[g] = "addRoom" => room[g] # r
  BY <1>0, <1>1 DEF IInv, PendingOK, HoldSteps, Process
<1>3. /\ roomsMap' = [roomsMap EXCEPT ![a] = r]
      /\ pc'[h] # "addRoom"
      /\ \A g \in Handler \ {h} : pc'[g] = pc[g] /\ room'[g] = room[g]
      /\ UNCHANGED <<addrOf, crashed>>
  BY <1>0, <1>1, ProcessAssumption DEF AddRoom, Return, GoTo, roomVars, IInv, TypeOK, Process
<1>4. \A q \in Room : addrOf[q] = a => q = r
  BY <1>1 DEF AddressOK
<1>5. Published(a) = {} /\ \A b \in Address : r \notin Published(b)
  BY <1>0, <1>1, <1>4 DEF Published
<1>6. Published(a)' = {r}
  BY <1>0, <1>1, <1>2, <1>3, <1>4 DEF Published
<1>7. \A b \in Address \ {a} : Published(b)' = Published(b)
  BY <1>1, <1>3, <1>4 DEF Published
<1>8. RoomOf' = [RoomOf EXCEPT ![a] = r]
  <2>1. RoomOf'[a] = r /\ \A b \in Address \ {a} : RoomOf'[b] = RoomOf[b]
    BY <1>1, <1>6, <1>7, OneOfSet DEF RoomOf
  <2>2. RoomOf = [b \in Address |-> RoomOf[b]] /\ RoomOf' = [b \in Address |-> RoomOf'[b]]
    BY DEF RoomOf
  <2> QED
    BY <1>1, <2>1, <2>2
<1>9. Retired' = Retired
  <2>1. roomsMap'[a] = r /\ \A b \in Address \ {a} : roomsMap'[b] = roomsMap[b]
    BY <1>1, <1>3 DEF IInv, TypeOK
  <2> QED
    BY <1>1, <1>5, <1>7, <2>1, NullAssumption DEF Retired
<1>10. RoomOf[a] = NoRoom /\ \A b \in Address : RoomOf[b] # r
  BY <1>1, <1>5, NonePublished, OnePublished, NullAssumption
<1> QED
  BY <1>0, <1>1, <1>3, <1>8, <1>9, <1>10 DEF Registry!Next, Registry!Publish

LEMMA RemoveRoomRetires ==
  ASSUME IInv, AddressOK, FreshAddresses, NEW p \in Process, RemoveRoom(p)
  PROVE  Registry!Next \/ UNCHANGED Registry!vars
<1>0. room[p] \in Room /\ addrOf[room[p]] \in Address /\ ~crashed
  BY DEF RemoveRoom, IInv, HoldOK, HoldSteps, Started
<1>1. PICK a \in Address : a = addrOf[room[p]]
  BY <1>0
<1>2. /\ roomsMap' = [roomsMap EXCEPT ![a] = NoRoom]
      /\ RoomOf' = RoomOf
      /\ \A b \in Address : Published(b)' = Published(b)
      /\ UNCHANGED crashed
  BY <1>1, SamePublished DEF RemoveRoom, GoTo, roomVars, IInv, TypeOK, Process
<1>3. CASE roomsMap[a] = NoRoom
  <2>1. roomsMap' = roomsMap
    BY <1>1, <1>2, <1>3 DEF IInv, TypeOK
  <2> QED
    BY <1>2, <2>1 DEF Registry!vars, Retired
<1>4. CASE roomsMap[a] # NoRoom
  <2>1. a \in Listed
    BY <1>1, <1>4 DEF Listed
  <2>2. Published(a) # {} /\ RoomOf[a] # NoRoom
    <3>1. PICK q : q \in Published(a)
      BY <2>1, ListedPublished
    <3> QED
      BY <1>1, <3>1, OnePublished, NullAssumption
  <2>3. a \notin Retired
    BY <1>4 DEF Retired
  <2>4. roomsMap'[a] = NoRoom /\ \A b \in Address \ {a} : roomsMap'[b] = roomsMap[b]
    BY <1>1, <1>2 DEF IInv, TypeOK
  <2>5. Retired' = Retired \cup {a}
    BY <1>1, <1>2, <2>2, <2>4 DEF Retired
  <2> QED
    BY <1>0, <1>1, <1>2, <2>2, <2>3, <2>5 DEF Registry!Next, Registry!Retire
<1> QED
  BY <1>3, <1>4

\* A panic of the loop takes the node down, its other closes are not seen.
LEMMA CloseDoneGoesDown ==
  ASSUME IInv, NEW p \in Process, CloseDone(p)
  PROVE  Registry!Next \/ UNCHANGED Registry!vars
<1>1. /\ UNCHANGED <<roomsMap, addrOf>> /\ ~crashed
      /\ crashed' = crashed \/ crashed'
  <2>1. CASE p = Loop
    BY <2>1 DEF CloseDone
  <2>2. CASE p # Loop
    BY <2>2 DEF CloseDone, IInv, TypeOK
  <2> QED
    BY <2>1, <2>2
<1>2. /\ \A h \in Handler : (pc'[h] = "addRoom") = (pc[h] = "addRoom")
      /\ \A h \in Handler : pc[h] = "addRoom" => room'[h] = room[h]
  BY ProcessAssumption DEF CloseDone, CloseReturn, Return, GoTo, IInv, TypeOK, Process
<1>3. RoomOf' = RoomOf /\ Retired' = Retired
  BY <1>1, <1>2, SamePublished
<1> QED
  BY <1>1, <1>3 DEF Registry!Next, Registry!GoDown, Registry!vars

-----------------------------------------------------------------------------
(* Step simulation *)

LEMMA NextRegistry ==
  ASSUME IInv, AddressOK, FreshAddresses, [Next]_vars
  PROVE  [Registry!Next]_(Registry!vars)
<1> USE Stutters
<1>1. ASSUME NEW h \in Handler, Begins(h) PROVE [Registry!Next]_(Registry!vars)
  BY <1>1, ProcessAssumption DEF Begins, Begin, BeginCreate, BeginForceCreate, BeginRemove,
     BeginJoin, BeginLeave, GoTo, roomVars, sessionVars, IInv, TypeOK, Process
<1>2. ASSUME NEW h \in Handler, CreateIsFull(h) \/ CreateLookup(h)
      PROVE [Registry!Next]_(Registry!vars)
  BY <1>2, ProcessAssumption DEF CreateIsFull, Return, GoTo, CreateLookup, roomVars,
     sessionVars, IInv, TypeOK, Process
<1>3. ASSUME NEW h \in Handler, CreateStart(h) PROVE [Registry!Next]_(Registry!vars)
  BY <1>3, CreateStartStutters
<1>4. ASSUME NEW h \in Handler, AddRoom(h) PROVE [Registry!Next]_(Registry!vars)
  BY <1>4, AddRoomPublishes
<1>5. ASSUME NEW h \in Handler, JoinLookup(h) \/ JoinCheck(h)
      PROVE [Registry!Next]_(Registry!vars)
  BY <1>5, ProcessAssumption DEF JoinLookup, Return, GoTo, JoinCheck, roomVars, sessionVars,
     IInv, TypeOK, Process
<1>6. ASSUME NEW h \in Handler, JoinAdd(h) PROVE [Registry!Next]_(Registry!vars)
  BY <1>6, ProcessAssumption DEF JoinAdd, Return, GoTo, roomVars, sessionVars, IInv, TypeOK,
     Process
<1>7. ASSUME NEW h \in Handler, JoinSetRunning(h) PROVE [Registry!Next]_(Registry!vars)
  BY <1>7, ProcessAssumption DEF JoinSetRunning, Return, GoTo, roomVars, sessionVars, IInv,
     TypeOK, Process
<1>8. ASSUME NEW h \in Handler, LeaveLookup(h) \/ LeaveCheck(h)
      PROVE [Registry!Next]_(Registry!vars)
  BY <1>8, ProcessAssumption DEF LeaveLookup, Return, GoTo, LeaveCheck, roomVars, sessionVars,
     IInv, TypeOK, Process
<1>9. ASSUME NEW h \in Handler, LeaveRemove(h) PROVE [Registry!Next]_(Registry!vars)
  BY <1>9, ProcessAssumption DEF LeaveRemove, GoTo, roomVars, sessionVars, IInv, TypeOK, Process
<1>10. ASSUME NEW h \in Handler, LeaveShouldRemove(h) \/ RemoveLookup(h)
      PROVE [Registry!Next]_(Registry!vars)
  BY <1>10, ProcessAssumption DEF LeaveShouldRemove, Return, GoTo, RemoveLookup, roomVars,
     sessionVars, IInv, TypeOK, Process
<1>11. ASSUME NEW p \in Process, RemoveRoom(p) PROVE [Registry!Next]_(Registry!vars)
  BY <1>11, RemoveRoomRetires
<1>12. ASSUME NEW p \in Process, CloseCheck(p) \/ CloseRecheck(p)
      PROVE [Registry!Next]_(Registry!vars)
  BY <1>12, ProcessAssumption DEF CloseCheck, CloseReturn, Return, GoTo, CloseRecheck, roomVars,
     sessionVars, IInv, TypeOK, Process
<1>13. ASSUME NEW p \in Process, CloseSetStatus(p) PROVE [Registry!Next]_(Registry!vars)
  BY <1>13, ProcessAssumption DEF CloseSetStatus, GoTo, roomVars, sessionVars, IInv, TypeOK,
     Process
<1>14. ASSUME NEW p \in Process, CloseDone(p) PROVE [Registry!Next]_(Registry!vars)
  BY <1>14, CloseDoneGoesDown
<1>15. ASSUME NEW p \in Process, CloseUnlisten(p) \/ CloseNotify(p)
      PROVE [Registry!Next]_(Registry!vars)
  BY <1>15, ProcessAssumption DEF CloseUnlisten, GoTo, CloseNotify, CloseReturn, Return,
     roomVars, sessionVars, IInv, TypeOK, Process
<1>16. CASE LoopStart \/ LoopNext
  BY <1>16, ProcessAssumption DEF LoopStart, GoTo, LoopNext, roomVars, sessionVars, IInv,
     TypeOK, Process
<1>17. CASE Tick
  BY <1>17, ProcessAssumption DEF Tick, Older, roomVars, sessionVars, IInv, TypeOK, Process
<1>18. ASSUME NEW r \in Room, Forward(r) PROVE [Registry!Next]_(Registry!vars)
  BY <1>18, ProcessAssumption DEF Forward, roomVars, sessionVars, IInv, TypeOK, Process
<1>19. CASE Dead \/ UNCHANGED vars
  BY <1>19, ProcessAssumption DEF Dead, vars, roomVars, sessionVars, IInv, TypeOK, Process
<1>20. ASSUME NEW h \in Handler, JoinTell(h) \/ LeaveTell(h) PROVE [Registry!Next]_(Registry!vars)
  BY <1>20, ProcessAssumption DEF JoinTell, LeaveTell, GoTo, roomVars, sessionVars, IInv, TypeOK, Process
<1> QED
  BY <1>1, <1>2, <1>3, <1>4, <1>5, <1>6, <1>7, <1>8, <1>9, <1>10, <1>11, <1>12, <1>13, <1>14,
     <1>15, <1>16, <1>17, <1>18, <1>19, <1>20 DEF Next, LoopStep, Handle, Create, Join, Leave, Close,
     Process

\* As ImplementsRegistry, without fairness: whatever requests, closes and the
\* loop do together, an address denotes one room for an uninterrupted time,
\* no room is published twice, and a retired address stays retired.
THEOREM ManagerImplementsRegistry ==
  ASSUME FreshAddresses
  PROVE  Spec => Registry!Init /\ [][Registry!Next]_(Registry!vars)
<1>1. Init => Registry!Init
  <2> SUFFICES ASSUME Init PROVE Registry!Init
    OBVIOUS
  <2>1. \A a \in Address : Published(a) = {}
    BY NullAssumption DEF Init, Published
  <2>2. RoomOf = [a \in Address |-> NoRoom] /\ Retired = {}
    BY <2>1, OneOfSet DEF RoomOf, Retired
  <2> QED
    BY <2>2 DEF Init, Registry!Init
<1>2. IInv /\ AddressOK /\ [Next]_vars => [Registry!Next]_(Registry!vars)
  BY NextRegistry
<1> QED
  BY <1>1, <1>2, Invariance, UniqueAddresses, PTL DEF Spec
=============================================================================
