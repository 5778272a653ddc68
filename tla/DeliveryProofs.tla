--------------------------- MODULE DeliveryProofs ---------------------------
(***************************************************************************)
(* Theorems about Delivery, for every number of clients and every size of  *)
(* the queues: the types, with the capacity of the queues, and who is told *)
(* that a room closes.                                                     *)
(***************************************************************************)
EXTENDS Delivery, ListsProofs

-----------------------------------------------------------------------------
(* Lists *)

LEMMA WithoutList ==
  ASSUME NEW S, NEW s \in Seq(S), NEW c
  PROVE  Without(s, c) \in Seq(S) /\ Elements(Without(s, c)) \subseteq Elements(s)
<1>1. CASE c \notin Elements(s)
  BY <1>1 DEF Without
<1>2. CASE c \in Elements(s)
  <2> DEFINE i == CHOOSE j \in DOMAIN s : s[j] = c
             t == [j \in 1 .. Len(s) - 1 |-> IF j < i THEN s[j] ELSE s[j + 1]]
  <2>1. i \in 1 .. Len(s) /\ Without(s, c) = t /\ Len(s) \in Nat
    BY <1>2 DEF Without, Elements
  <2> HIDE DEF i
  <2>2. t \in Seq(S) /\ DOMAIN t = 1 .. Len(s) - 1
    BY <2>1
  <2>3. Elements(t) \subseteq Elements(s)
    BY <2>1, <2>2 DEF Elements
  <2> QED
    BY <2>1, <2>2, <2>3
<1> QED
  BY <1>1, <1>2

-----------------------------------------------------------------------------
(* Types.  A process that has members to tell carries a message, and a     *)
(* reader tells only direct messages: the queue of the room takes those    *)
(* that are broadcasts.                                                    *)

CarryOK ==
  /\ \A p \in Process : todo[p] # <<>> => carry[p] \in Msg
  /\ \A c \in Client : todo[Reader(c)] # <<>> => carry[Reader(c)] \in Directs

LEMMA MsgTypes ==
  /\ \A m \in Msg : m.type = "broadcast" => m \in Broadcasts
  /\ \A m \in Directs : m.type = "message" /\ m # NoMsg
  /\ \A m \in Broadcasts : m.type = "broadcast" /\ m.from \in Client /\ m.includeSelf \in BOOLEAN
  /\ [type |-> "close"] \in Msg
  /\ \A c \in Client : [type |-> "join", who |-> c] \in Msg /\ [type |-> "leave", who |-> c] \in Msg
  /\ \A S \in SUBSET Client : [type |-> "connect", users |-> S] \in Frame
BY NoMsgAssumption DEF Msg, Broadcasts, Directs, Announcements, Frame

LEMMA Processes ==
  /\ Forwarder \in Process /\ Closer \in Process /\ Forwarder # Closer
  /\ \A c \in Client :
       /\ Handler(c) \in Process /\ Reader(c) \in Process
       /\ \A d \in Client : Handler(c) # Reader(d) /\ (c # d => Handler(c) # Handler(d) /\ Reader(c) # Reader(d))
       /\ Handler(c) \notin {Forwarder, Closer} /\ Reader(c) \notin {Forwarder, Closer}
BY DEF Process, Handler, Reader, Forwarder, Closer

\* The parts of TypeOK: what is a set or a state, the lists, the history.
FlagsOK ==
  /\ closing \in Closes /\ forwarding \in BOOLEAN
  /\ listening \subseteq Client /\ rdone \subseteq Client
  /\ session \in [Client -> Sessions]
  /\ cancelled \subseteq Client /\ writing \subseteq Client /\ alive \subseteq Client
  /\ handling \in [Client -> Handling]
  /\ inListen \subseteq Process
  /\ far \subseteq Client /\ dropped \subseteq Client
  /\ untold \subseteq Client /\ late \subseteq Client

ListsOK ==
  /\ members \in Seq(Client)
  /\ todo \in [Process -> Seq(Client)]
  /\ carry \in [Process -> Msg \cup {NoMsg}]
  /\ sent \in [{"broadcast", "message"} \X Client -> Nat]

QueuesOK ==
  /\ roomQueue \in Seq(Broadcasts) /\ Len(roomQueue) <= RoomQueueSize
  /\ queue \in [Client -> Seq(Msg)] /\ \A c \in Client : Len(queue[c]) <= QueueSize
  /\ received \in [Client -> Seq(Frame)]
  /\ lateTells \subseteq Client \X Msg /\ lateUps \subseteq Broadcasts
  /\ published \in [Client -> Nat]
  /\ due \in [Client -> Seq(Broadcasts)]

LEMMA TypeParts == TypeOK <=> FlagsOK /\ ListsOK /\ QueuesOK
BY DEF TypeOK, FlagsOK, ListsOK, QueuesOK

LEMMA InitTypes == Init => TypeOK /\ CarryOK
<1> SUFFICES ASSUME Init PROVE TypeOK /\ CarryOK
  OBVIOUS
<1>1. FlagsOK
  BY DEF Init, FlagsOK, Closes, Sessions, Handling
<1>2. ListsOK
  BY DEF Init, ListsOK
<1>3. QueuesOK
  BY SizeAssumption DEF Init, QueuesOK
<1>4. CarryOK
  BY Processes DEF Init, CarryOK
<1> QED
  BY <1>1, <1>2, <1>3, <1>4, TypeParts

LEMMA NextFlags ==
  ASSUME FlagsOK, ListsOK, [Next]_vars
  PROVE  FlagsOK'
<1>1. ASSUME NEW p \in Process, TellClosed(p) PROVE FlagsOK'
  BY <1>1, TailList, Processes DEF TellClosed, Told, roomVars, remoteVars, socketVars, passVars,
     net, history, FlagsOK, ListsOK, Closes, Sessions, Handling
<1>2. ASSUME NEW p \in Process, TellWait(p) PROVE FlagsOK'
  BY <1>2, TailList, Processes DEF TellWait, roomVars, remoteVars, socketVars, passVars,
     net, history, FlagsOK, ListsOK, Closes, Sessions, Handling
<1>3. ASSUME NEW p \in Process, TellSend(p) PROVE FlagsOK'
  <2>1. Head(todo[p]) \in Client
    BY <1>3, TailList DEF TellSend, Enqueue, ListsOK
  <2>2. listening' \subseteq Client /\ rdone' \subseteq Client
    BY <1>3, <2>1 DEF TellSend, Enqueue, FlagsOK
  <2>3. UNCHANGED <<closing, forwarding, session, cancelled, writing, alive, handling, far, dropped,
                    untold, late>>
    BY <1>3 DEF TellSend, roomVars, socketVars, net, history
  <2>4. inListen' \subseteq Process
    BY <1>3 DEF TellSend, Enqueue, Told, FlagsOK
  <2> QED
    BY <2>2, <2>3, <2>4 DEF FlagsOK
<1>4. ASSUME NEW p \in Process, TellTimeout(p) PROVE FlagsOK'
  BY <1>4, TailList, Processes DEF TellTimeout, Told, roomVars, remoteVars, socketVars,
     passVars, net, history, FlagsOK, ListsOK, Closes, Sessions, Handling
<1>5. CASE ForwardTake
  BY <1>5, TailList, Processes DEF ForwardTake, roomVars, remoteVars, socketVars, passVars,
     net, history, FlagsOK, ListsOK, Closes, Sessions, Handling
<1>6. CASE ForwardReturn \/ RemoveRoom \/ CloseDone
  BY <1>6, TailList, Processes DEF ForwardReturn, RemoveRoom, CloseDone, roomVars, remoteVars,
     socketVars, passVars, net, history, FlagsOK, ListsOK, Closes, Sessions, Handling
<1>7. CASE CloseAnnounce
  BY <1>7, TailList, Processes DEF CloseAnnounce, roomVars, remoteVars, socketVars, passVars,
     net, history, FlagsOK, ListsOK, Closes, Sessions, Handling
<1>8. CASE CloseOver
  BY <1>8, TailList, Processes DEF CloseOver, roomVars, remoteVars, socketVars, passVars,
     net, history, FlagsOK, ListsOK, Closes, Sessions, Handling
<1>9. ASSUME NEW c \in Client, Connect(c) \/ JoinCheck(c) PROVE FlagsOK'
  BY <1>9, TailList, Processes DEF Connect, JoinCheck, Abandoned, roomVars, remoteVars,
     socketVars, passVars, net, history, FlagsOK, ListsOK, Closes, Sessions, Handling
<1>10. ASSUME NEW c \in Client, JoinAdd(c) PROVE FlagsOK'
  BY <1>10, TailList, Processes DEF JoinAdd, roomVars, remoteVars, socketVars, passVars,
     net, history, FlagsOK, ListsOK, Closes, Sessions, Handling
<1>11. ASSUME NEW c \in Client, JoinAnnounce(c) PROVE FlagsOK'
  BY <1>11, TailList, Processes DEF JoinAnnounce, roomVars, remoteVars, socketVars, passVars,
     net, history, FlagsOK, ListsOK, Closes, Sessions, Handling
<1>12. ASSUME NEW c \in Client, JoinOver(c) \/ LeaveOver(c) PROVE FlagsOK'
  BY <1>12, TailList, Processes DEF JoinOver, Answer, LeaveOver, roomVars, remoteVars,
     socketVars, passVars, net, history, FlagsOK, ListsOK, Closes, Sessions, Handling
<1>13. ASSUME NEW c \in Client, JoinTimeout(c) \/ GetUsersFails(c) \/ LeaveTimeout(c) \/ Disconnect(c)
      PROVE FlagsOK'
  BY <1>13, TailList, Processes DEF JoinTimeout, Abandoned, GetUsersFails, LeaveTimeout,
     Disconnect, roomVars, remoteVars, socketVars, passVars, net, history, FlagsOK, ListsOK, Closes,
     Sessions, Handling
<1>14. ASSUME NEW c \in Client, GetUsers(c) PROVE FlagsOK'
  BY <1>14, TailList, Processes DEF GetUsers, roomVars, remoteVars, socketVars, passVars,
     net, history, FlagsOK, ListsOK, Closes, Sessions, Handling
<1>15. ASSUME NEW c \in Client, ReadBroadcast(c, c \in IncludeSelf) PROVE FlagsOK'
  BY <1>15, TailList, Processes DEF ReadBroadcast, Reading, Count, roomVars, remoteVars,
     socketVars, passVars, net, history, FlagsOK, ListsOK, Closes, Sessions, Handling
<1>16. ASSUME NEW c \in Client, NEW d \in Client, ReadDirect(c, d) PROVE FlagsOK'
  BY <1>16, TailList, Processes DEF ReadDirect, Reading, Count, roomVars, remoteVars,
     socketVars, passVars, net, history, FlagsOK, ListsOK, Closes, Sessions, Handling
<1>17. ASSUME NEW c \in Client, ReadOther(c) \/ ReadFails(c) PROVE FlagsOK'
  BY <1>17, TailList, Processes DEF ReadOther, Reading, StartLeave, ReadFails, roomVars,
     remoteVars, socketVars, passVars, net, history, FlagsOK, ListsOK, Closes, Sessions, Handling
<1>18. ASSUME NEW c \in Client, UpClosed(c) \/ UpSend(c) \/ UpCancelled(c) \/ DirectOver(c)
      PROVE FlagsOK'
  <2>1. ReadOver(c)
    BY <1>18 DEF UpClosed, UpSend, UpCancelled, DirectOver
  <2>2. UNCHANGED <<closing, forwarding, listening, rdone, writing, alive, far, dropped, untold, late>>
    BY <1>18 DEF UpClosed, UpSend, UpCancelled, DirectOver, roomVars, remoteVars, net, history
  <2>3. inListen' \subseteq Process
    BY <2>1 DEF ReadOver, FlagsOK
  <2>4. session' \in [Client -> Sessions] /\ cancelled' \subseteq Client /\ handling' \in [Client -> Handling]
    BY <2>1 DEF ReadOver, StartLeave, FlagsOK, Sessions, Handling
  <2> QED
    BY <2>2, <2>3, <2>4 DEF FlagsOK
<1>19. ASSUME NEW c \in Client, UpWait(c) PROVE FlagsOK'
  BY <1>19, TailList, Processes DEF UpWait, roomVars, remoteVars, socketVars, passVars, net, history,
     FlagsOK, ListsOK, Closes, Sessions, Handling
<1>20. ASSUME NEW c \in Client, Write(c) PROVE FlagsOK'
  BY <1>20, TailList, Processes DEF Write, roomVars, remoteVars, socketVars, passVars, net, history,
     FlagsOK, ListsOK, Closes, Sessions, Handling
<1>21. ASSUME NEW c \in Client, WriteReturn(c) PROVE FlagsOK'
  BY <1>21, TailList, Processes DEF WriteReturn, roomVars, remoteVars, socketVars, passVars,
     net, history, FlagsOK, ListsOK, Closes, Sessions, Handling
<1>22. ASSUME NEW c \in Client, LeaveCheck(c) PROVE FlagsOK'
  BY <1>22, TailList, Processes DEF LeaveCheck, Answer, roomVars, remoteVars, socketVars,
     passVars, net, history, FlagsOK, ListsOK, Closes, Sessions, Handling
<1>23. ASSUME NEW c \in Client, LeaveRemove(c) PROVE FlagsOK'
  BY <1>23, TailList, Processes DEF LeaveRemove, roomVars, remoteVars, socketVars, passVars,
     net, history, FlagsOK, ListsOK, Closes, Sessions, Handling
<1>24. ASSUME NEW c \in Client, LeaveAnnounce(c) PROVE FlagsOK'
  BY <1>24, TailList, Processes DEF LeaveAnnounce, roomVars, remoteVars, socketVars, passVars,
     net, history, FlagsOK, ListsOK, Closes, Sessions, Handling
<1>25. ASSUME NEW c \in Client, CloseRemote(c) PROVE FlagsOK'
  BY <1>25, TailList, Processes DEF CloseRemote, Abandoned, roomVars, remoteVars, socketVars,
     passVars, net, history, FlagsOK, ListsOK, Closes, Sessions, Handling
<1>26. CASE UNCHANGED vars
  BY <1>26, TailList, Processes DEF vars, roomVars, remoteVars, socketVars, passVars, net, history,
     FlagsOK, ListsOK, Closes, Sessions, Handling
<1>27. ASSUME NEW c \in Client, LateTell(c) PROVE FlagsOK'
  <2>1. listening' \subseteq Client /\ rdone' \subseteq Client
    BY <1>27 DEF LateTell, Enqueue, FlagsOK
  <2>2. UNCHANGED <<closing, forwarding, session, cancelled, writing, alive, handling, inListen, far,
                    dropped, untold, late>>
    BY <1>27 DEF LateTell, roomVars, socketVars, passVars, history
  <2> QED
    BY <2>1, <2>2 DEF FlagsOK
<1>28. CASE LateUp \/ LateLost
  <2>1. UNCHANGED <<closing, forwarding, listening, rdone, session, cancelled, writing, alive,
                    handling, inListen, far, dropped, untold, late>>
    BY <1>28 DEF LateUp, LateLost, roomVars, remoteVars, socketVars, passVars, history
  <2> QED
    BY <2>1 DEF FlagsOK
<1> QED
  BY <1>1, <1>2, <1>3, <1>4, <1>5, <1>6, <1>7, <1>8, <1>9, <1>10, <1>11, <1>12, <1>13, <1>14,
     <1>15, <1>16, <1>17, <1>18, <1>19, <1>20, <1>21, <1>22, <1>23, <1>24, <1>25, <1>26,
     <1>27, <1>28, Processes DEF Next, Chance, Handle, Serve, Writer, Join, Leave, Pass, Forward, Close,
     Tell

\* A process takes up message m for the members s, or lays it down.
LEMMA PassesOn ==
  ASSUME ListsOK, CarryOK, NEW p \in Process, NEW m \in Msg \cup {NoMsg}, NEW s \in Seq(Client),
         carry' = [carry EXCEPT ![p] = m], todo' = [todo EXCEPT ![p] = s],
         s # <<>> => m \in Msg,
         \A c \in Client : s # <<>> /\ p = Reader(c) => m \in Directs
  PROVE  /\ carry' \in [Process -> Msg \cup {NoMsg}] /\ todo' \in [Process -> Seq(Client)]
         /\ CarryOK'
<1>1. carry' \in [Process -> Msg \cup {NoMsg}] /\ todo' \in [Process -> Seq(Client)]
  BY DEF ListsOK
<1>2. carry'[p] = m /\ todo'[p] = s
  BY DEF ListsOK
<1>3. \A q \in Process : q # p => carry'[q] = carry[q] /\ todo'[q] = todo[q]
  BY DEF ListsOK
<1>4. ASSUME NEW q \in Process PROVE todo'[q] # <<>> => carry'[q] \in Msg
  BY <1>2, <1>3 DEF CarryOK
<1>5. ASSUME NEW c \in Client PROVE todo'[Reader(c)] # <<>> => carry'[Reader(c)] \in Directs
  BY <1>2, <1>3, Processes DEF CarryOK
<1> QED
  BY <1>1, <1>4, <1>5 DEF CarryOK

COROLLARY LaysDown ==
  ASSUME ListsOK, CarryOK, NEW p \in Process, NEW m \in Msg \cup {NoMsg},
         carry' = [carry EXCEPT ![p] = m], todo' = [todo EXCEPT ![p] = <<>>]
  PROVE  /\ carry' \in [Process -> Msg \cup {NoMsg}] /\ todo' \in [Process -> Seq(Client)]
         /\ CarryOK'
<1> DEFINE s == <<>>
<1>1. s \in Seq(Client) /\ s = <<>>
  OBVIOUS
<1>2. todo' = [todo EXCEPT ![p] = s]
  OBVIOUS
<1> HIDE DEF s
<1> QED
  BY <1>1, <1>2, PassesOn

LEMMA NextLists ==
  ASSUME FlagsOK, ListsOK, QueuesOK, CarryOK, [Next]_vars
  PROVE  ListsOK' /\ CarryOK'
<1>1. ASSUME NEW p \in Process, TellClosed(p) PROVE ListsOK' /\ CarryOK'
  BY SMTT(40), <1>1, MsgTypes, Processes, TailList DEF TellClosed, Told, roomVars, remoteVars, socketVars,
     passVars, net, history, ListsOK, CarryOK
<1>2. ASSUME NEW p \in Process, TellWait(p) PROVE ListsOK' /\ CarryOK'
  BY <1>2, MsgTypes, Processes, TailList DEF TellWait, roomVars, remoteVars, socketVars,
     passVars, net, history, ListsOK, CarryOK
<1>3. ASSUME NEW p \in Process, TellSend(p) PROVE ListsOK' /\ CarryOK'
  BY <1>3, MsgTypes, Processes, TailList DEF TellSend, Enqueue, Told, roomVars, remoteVars, socketVars,
     passVars, net, history, ListsOK, CarryOK
<1>4. ASSUME NEW p \in Process, TellTimeout(p) PROVE ListsOK' /\ CarryOK'
  BY <1>4, MsgTypes, Processes, TailList DEF TellTimeout, Told, roomVars, remoteVars,
     socketVars, passVars, net, history, ListsOK, CarryOK
<1>5. CASE ForwardTake
  <2> DEFINE m == Head(roomQueue)
             s == IF m.includeSelf THEN members ELSE Without(members, m.from)
  <2>1. m \in Broadcasts /\ m \in Msg
    BY <1>5, TailList DEF ForwardTake, QueuesOK, Msg
  <2>2. s \in Seq(Client)
    BY <2>1, WithoutList DEF ListsOK
  <2>3. carry' = [carry EXCEPT ![Forwarder] = m] /\ todo' = [todo EXCEPT ![Forwarder] = s]
    BY <1>5 DEF ForwardTake
  <2>4. \A c \in Client : Forwarder # Reader(c)
    BY Processes
  <2> HIDE DEF m, s
  <2>5. carry' \in [Process -> Msg \cup {NoMsg}] /\ todo' \in [Process -> Seq(Client)] /\ CarryOK'
    BY <2>1, <2>2, <2>3, <2>4, Processes, PassesOn
  <2> QED
    BY <1>5, <2>5 DEF ForwardTake, ListsOK
<1>6. CASE ForwardReturn \/ RemoveRoom \/ CloseDone
  BY <1>6, MsgTypes, Processes, TailList DEF ForwardReturn, RemoveRoom, CloseDone, roomVars,
     remoteVars, socketVars, passVars, net, history, ListsOK, CarryOK
<1>7. CASE CloseAnnounce
  BY <1>7, MsgTypes, Processes, TailList DEF CloseAnnounce, roomVars, remoteVars, socketVars,
     passVars, net, history, ListsOK, CarryOK
<1>8. CASE CloseOver
  <2>1. carry' = [carry EXCEPT ![Closer] = NoMsg] /\ todo' = [todo EXCEPT ![Closer] = <<>>]
    BY <1>8 DEF CloseOver, ListsOK
  <2>2. carry' \in [Process -> Msg \cup {NoMsg}] /\ todo' \in [Process -> Seq(Client)] /\ CarryOK'
    BY <2>1, Processes, LaysDown
  <2> QED
    BY <1>8, <2>2 DEF CloseOver, ListsOK
<1>9. ASSUME NEW c \in Client, Connect(c) \/ JoinCheck(c) PROVE ListsOK' /\ CarryOK'
  BY <1>9, MsgTypes, Processes, TailList DEF Connect, JoinCheck, Abandoned, roomVars,
     remoteVars, socketVars, passVars, net, history, ListsOK, CarryOK
<1>10. ASSUME NEW c \in Client, JoinAdd(c) PROVE ListsOK' /\ CarryOK'
  BY <1>10, MsgTypes, Processes, TailList DEF JoinAdd, roomVars, remoteVars, socketVars,
     passVars, net, history, ListsOK, CarryOK
<1>11. ASSUME NEW c \in Client, JoinAnnounce(c) PROVE ListsOK' /\ CarryOK'
  <2> DEFINE m == [type |-> "join", who |-> c]
  <2>1. carry' = [carry EXCEPT ![Handler(c)] = m] /\ todo' = [todo EXCEPT ![Handler(c)] = members]
    BY <1>11 DEF JoinAnnounce
  <2>2. m \in Msg
    BY MsgTypes
  <2> HIDE DEF m
  <2>3. carry' \in [Process -> Msg \cup {NoMsg}] /\ todo' \in [Process -> Seq(Client)] /\ CarryOK'
    BY <2>1, <2>2, Processes, PassesOn DEF ListsOK
  <2> QED
    BY <1>11, <2>3 DEF JoinAnnounce, roomVars, remoteVars, socketVars, passVars, net, history, ListsOK
<1>12. ASSUME NEW c \in Client, JoinOver(c) \/ LeaveOver(c) PROVE ListsOK' /\ CarryOK'
  <2>1. /\ carry' = [carry EXCEPT ![Handler(c)] = NoMsg]
        /\ todo' = [todo EXCEPT ![Handler(c)] = <<>>]
    BY <1>12 DEF JoinOver, LeaveOver, ListsOK
  <2>2. carry' \in [Process -> Msg \cup {NoMsg}] /\ todo' \in [Process -> Seq(Client)] /\ CarryOK'
    BY <2>1, Processes, LaysDown
  <2> QED
    BY <1>12, <2>2 DEF JoinOver, LeaveOver, roomVars, remoteVars, socketVars, passVars, net, history, ListsOK
<1>13. ASSUME NEW c \in Client, JoinTimeout(c) \/ GetUsersFails(c) \/ LeaveTimeout(c) \/ Disconnect(c)
      PROVE ListsOK' /\ CarryOK'
  BY <1>13, MsgTypes, Processes, TailList DEF JoinTimeout, Abandoned, GetUsersFails,
     LeaveTimeout, Disconnect, roomVars, remoteVars, socketVars, passVars, net, history, ListsOK,
     CarryOK
<1>14. ASSUME NEW c \in Client, GetUsers(c) PROVE ListsOK' /\ CarryOK'
  BY <1>14, MsgTypes, Processes, TailList DEF GetUsers, roomVars, remoteVars, socketVars,
     passVars, net, history, ListsOK, CarryOK
<1>15. ASSUME NEW c \in Client, ReadBroadcast(c, c \in IncludeSelf) PROVE ListsOK' /\ CarryOK'
  <2> DEFINE n == sent[<<"broadcast", c>>] + 1
             m == [type |-> "broadcast", from |-> c, n |-> n, includeSelf |-> c \in IncludeSelf]
  <2>1. /\ sent' = [sent EXCEPT ![<<"broadcast", c>>] = n]
        /\ sent[<<"broadcast", c>>] \in Nat /\ sent[<<"broadcast", c>>] < MaxBroadcasts
    BY <1>15 DEF ReadBroadcast, Count, ListsOK
  <2>2. sent' \in [{"broadcast", "message"} \X Client -> Nat] /\ sent'[<<"broadcast", c>>] = n
    BY <2>1 DEF ListsOK
  <2>3. n \in 1 .. MaxBroadcasts
    BY <2>1, SizeAssumption
  <2>4. carry' = [carry EXCEPT ![Reader(c)] = m]
    BY <1>15, <2>2 DEF ReadBroadcast
  <2> HIDE DEF n
  <2>5. m \in Msg
    BY <2>3 DEF Msg, Broadcasts
  <2>6. todo[Reader(c)] = <<>>
    BY <1>15, Processes, NoMsgAssumption DEF ReadBroadcast, Reading, CarryOK
  <2>7. todo' = [todo EXCEPT ![Reader(c)] = <<>>]
    BY <1>15, <2>6 DEF ReadBroadcast, ListsOK
  <2> HIDE DEF m
  <2>8. carry' \in [Process -> Msg \cup {NoMsg}] /\ todo' \in [Process -> Seq(Client)] /\ CarryOK'
    BY <2>4, <2>5, <2>7, Processes, LaysDown
  <2> QED
    BY <1>15, <2>2, <2>8 DEF ReadBroadcast, roomVars, ListsOK
<1>16. ASSUME NEW c \in Client, NEW d \in Client, ReadDirect(c, d) PROVE ListsOK' /\ CarryOK'
  <2> DEFINE n == sent[<<"message", c>>] + 1
             m == [type |-> "message", from |-> c, n |-> n, to |-> d]
  <2>1. /\ sent' = [sent EXCEPT ![<<"message", c>>] = n]
        /\ sent[<<"message", c>>] \in Nat /\ sent[<<"message", c>>] < MaxDirects
    BY <1>16 DEF ReadDirect, Count, ListsOK
  <2>2. sent' \in [{"broadcast", "message"} \X Client -> Nat] /\ sent'[<<"message", c>>] = n
    BY <2>1 DEF ListsOK
  <2>3. n \in 1 .. MaxDirects
    BY <2>1, SizeAssumption
  <2>4. carry' = [carry EXCEPT ![Reader(c)] = m] /\ todo' = [todo EXCEPT ![Reader(c)] = <<d>>]
    BY <1>16, <2>2 DEF ReadDirect
  <2> HIDE DEF n
  <2>5. m \in Msg /\ m \in Directs
    BY <2>3 DEF Msg, Directs
  <2> DEFINE s == <<d>>
  <2>7. s \in Seq(Client) /\ todo' = [todo EXCEPT ![Reader(c)] = s]
    BY <2>4
  <2> HIDE DEF m, s
  <2>6. carry' \in [Process -> Msg \cup {NoMsg}] /\ todo' \in [Process -> Seq(Client)] /\ CarryOK'
    BY <2>4, <2>5, <2>7, Processes, PassesOn
  <2> QED
    BY <1>16, <2>2, <2>6 DEF ReadDirect, roomVars, ListsOK
<1>17. ASSUME NEW c \in Client, ReadOther(c) \/ ReadFails(c) PROVE ListsOK' /\ CarryOK'
  BY <1>17, MsgTypes, Processes, TailList DEF ReadOther, Reading, StartLeave, ReadFails,
     roomVars, remoteVars, socketVars, passVars, net, history, ListsOK, CarryOK
<1>18. ASSUME NEW c \in Client, UpClosed(c) \/ UpSend(c) \/ UpCancelled(c) \/ DirectOver(c)
      PROVE ListsOK' /\ CarryOK'
  <2>1. carry[Reader(c)] \in Directs => carry[Reader(c)].type = "message"
    BY MsgTypes
  <2>2. todo[Reader(c)] = <<>>
    BY <1>18, <2>1, Processes DEF UpClosed, UpSend, UpCancelled, DirectOver, Upward, CarryOK
  <2>3. carry' = [carry EXCEPT ![Reader(c)] = NoMsg] /\ todo' = todo /\ UNCHANGED <<members, sent>>
    BY <1>18 DEF UpClosed, UpSend, UpCancelled, DirectOver, ReadOver, roomVars
  <2>4. todo' = [todo EXCEPT ![Reader(c)] = <<>>]
    BY <2>2, <2>3 DEF ListsOK
  <2>5. carry' \in [Process -> Msg \cup {NoMsg}] /\ todo' \in [Process -> Seq(Client)] /\ CarryOK'
    BY <2>3, <2>4, Processes, LaysDown
  <2> QED
    BY <2>3, <2>5 DEF ListsOK
<1>19. ASSUME NEW c \in Client, UpWait(c) PROVE ListsOK' /\ CarryOK'
  BY <1>19, MsgTypes, Processes, TailList DEF UpWait, roomVars, remoteVars, socketVars,
     passVars, net, history, ListsOK, CarryOK
<1>20. ASSUME NEW c \in Client, Write(c) PROVE ListsOK' /\ CarryOK'
  <2>1. UNCHANGED <<members, todo, carry, sent>>
    BY <1>20 DEF Write, roomVars, passVars
  <2> QED
    BY <2>1 DEF ListsOK, CarryOK
<1>21. ASSUME NEW c \in Client, WriteReturn(c) PROVE ListsOK' /\ CarryOK'
  <2>1. UNCHANGED <<members, todo, carry, sent>>
    BY <1>21 DEF WriteReturn, roomVars, passVars
  <2> QED
    BY <2>1 DEF ListsOK, CarryOK
<1>22. ASSUME NEW c \in Client, LeaveCheck(c) PROVE ListsOK' /\ CarryOK'
  BY <1>22, MsgTypes, Processes, TailList DEF LeaveCheck, Answer, roomVars, remoteVars,
     socketVars, passVars, net, history, ListsOK, CarryOK
<1>23. ASSUME NEW c \in Client, LeaveRemove(c) PROVE ListsOK' /\ CarryOK'
  <2>1. members' = Without(members, c) /\ UNCHANGED <<todo, carry, sent>>
    BY <1>23 DEF LeaveRemove, passVars
  <2>2. members' \in Seq(Client)
    BY <2>1, WithoutList DEF ListsOK
  <2> QED
    BY <2>1, <2>2 DEF ListsOK, CarryOK
<1>24. ASSUME NEW c \in Client, LeaveAnnounce(c) PROVE ListsOK' /\ CarryOK'
  <2> DEFINE m == [type |-> "leave", who |-> c]
  <2>1. carry' = [carry EXCEPT ![Handler(c)] = m] /\ todo' = [todo EXCEPT ![Handler(c)] = members]
    BY <1>24 DEF LeaveAnnounce
  <2>2. m \in Msg
    BY MsgTypes
  <2> HIDE DEF m
  <2>3. carry' \in [Process -> Msg \cup {NoMsg}] /\ todo' \in [Process -> Seq(Client)] /\ CarryOK'
    BY <2>1, <2>2, Processes, PassesOn DEF ListsOK
  <2> QED
    BY <1>24, <2>3 DEF LeaveAnnounce, roomVars, remoteVars, socketVars, passVars, net, history, ListsOK
<1>25. ASSUME NEW c \in Client, CloseRemote(c) PROVE ListsOK' /\ CarryOK'
  BY <1>25, MsgTypes, Processes, TailList DEF CloseRemote, Abandoned, roomVars, remoteVars,
     socketVars, passVars, net, history, ListsOK, CarryOK
<1>26. CASE UNCHANGED vars
  BY <1>26, MsgTypes, Processes, TailList DEF vars, roomVars, remoteVars, socketVars, passVars,
     net, history, ListsOK, CarryOK
<1>27. ASSUME NEW c \in Client, LateTell(c) PROVE ListsOK' /\ CarryOK'
  <2>1. UNCHANGED <<members, todo, carry, sent>>
    BY <1>27 DEF LateTell, roomVars, passVars
  <2> QED
    BY <2>1 DEF ListsOK, CarryOK
<1>28. CASE LateUp \/ LateLost
  <2>1. UNCHANGED <<members, todo, carry, sent>>
    BY <1>28 DEF LateUp, LateLost, roomVars, passVars
  <2> QED
    BY <2>1 DEF ListsOK, CarryOK
<1> QED
  BY <1>1, <1>2, <1>3, <1>4, <1>5, <1>6, <1>7, <1>8, <1>9, <1>10, <1>11, <1>12, <1>13, <1>14,
     <1>15, <1>16, <1>17, <1>18, <1>19, <1>20, <1>21, <1>22, <1>23, <1>24, <1>25, <1>26,
     <1>27, <1>28, Processes DEF Next, Chance, Handle, Serve, Writer, Join, Leave, Pass, Forward, Close,
     Tell

LEMMA NextQueues ==
  ASSUME FlagsOK, ListsOK, QueuesOK, CarryOK, [Next]_vars
  PROVE  QueuesOK'
<1>1. ASSUME NEW p \in Process, TellClosed(p) PROVE QueuesOK'
  BY <1>1, MsgTypes, SizeAssumption DEF TellClosed, Told, roomVars, remoteVars, socketVars,
     passVars, net, history, QueuesOK
<1>2. ASSUME NEW p \in Process, TellWait(p) PROVE QueuesOK'
  BY <1>2, MsgTypes, SizeAssumption DEF TellWait, roomVars, remoteVars, socketVars, passVars,
     net, history, QueuesOK
<1>3. ASSUME NEW p \in Process, TellSend(p) PROVE QueuesOK'
  BY SMTT(40), <1>3, MsgTypes, SizeAssumption DEF TellSend, Enqueue, Told, roomVars, remoteVars, socketVars,
     passVars, net, history, QueuesOK, ListsOK, CarryOK
<1>4. ASSUME NEW p \in Process, TellTimeout(p) PROVE QueuesOK'
  <2>1. Head(todo[p]) \in Client /\ carry[p] \in Msg
    BY <1>4, TailList DEF TellTimeout, ListsOK, CarryOK
  <2>2. lateTells' \subseteq Client \X Msg
    BY <1>4, <2>1 DEF TellTimeout, QueuesOK
  <2>3. UNCHANGED <<roomQueue, queue, received, lateUps, published, due>>
    BY <1>4 DEF TellTimeout, roomVars, remoteVars, socketVars
  <2> QED
    BY <2>2, <2>3 DEF QueuesOK
<1>5. CASE ForwardTake
  <2> DEFINE m == Head(roomQueue)
  <2>1. m \in Broadcasts /\ roomQueue' \in Seq(Broadcasts) /\ Len(roomQueue') <= RoomQueueSize
    BY <1>5, SizeAssumption DEF ForwardTake, QueuesOK
  <2>2. m.from \in Client
    BY <2>1, MsgTypes
  <2>3. /\ published' = [published EXCEPT ![m.from] = @ + 1]
        /\ due' = [c \in Client |->
                     IF c \in Elements(members) /\ (m.from = c => m.includeSelf)
                       THEN Append(due[c], m) ELSE due[c]]
    BY <1>5 DEF ForwardTake
  <2>4. UNCHANGED <<queue, received, lateTells, lateUps>>
    BY <1>5 DEF ForwardTake, remoteVars, socketVars, net
  <2> HIDE DEF m
  <2>5. published' \in [Client -> Nat] /\ due' \in [Client -> Seq(Broadcasts)]
    BY <2>1, <2>2, <2>3 DEF QueuesOK
  <2> QED
    BY <2>1, <2>4, <2>5 DEF QueuesOK
<1>6. CASE ForwardReturn \/ RemoveRoom \/ CloseDone
  BY <1>6, MsgTypes, SizeAssumption DEF ForwardReturn, RemoveRoom, CloseDone, roomVars,
     remoteVars, socketVars, passVars, net, history, QueuesOK
<1>7. CASE CloseAnnounce
  BY <1>7, MsgTypes, SizeAssumption DEF CloseAnnounce, roomVars, remoteVars, socketVars,
     passVars, net, history, QueuesOK
<1>8. CASE CloseOver
  BY <1>8, MsgTypes, SizeAssumption DEF CloseOver, roomVars, remoteVars, socketVars, passVars,
     net, history, QueuesOK
<1>9. ASSUME NEW c \in Client, Connect(c) \/ JoinCheck(c) PROVE QueuesOK'
  BY <1>9, MsgTypes, SizeAssumption DEF Connect, JoinCheck, Abandoned, roomVars, remoteVars,
     socketVars, passVars, net, history, QueuesOK
<1>10. ASSUME NEW c \in Client, JoinAdd(c) PROVE QueuesOK'
  BY <1>10, MsgTypes, SizeAssumption DEF JoinAdd, roomVars, remoteVars, socketVars, passVars,
     net, history, QueuesOK
<1>11. ASSUME NEW c \in Client, JoinAnnounce(c) PROVE QueuesOK'
  BY <1>11, MsgTypes, SizeAssumption DEF JoinAnnounce, roomVars, remoteVars, socketVars,
     passVars, net, history, QueuesOK
<1>12. ASSUME NEW c \in Client, JoinOver(c) \/ LeaveOver(c) PROVE QueuesOK'
  BY <1>12, MsgTypes, SizeAssumption DEF JoinOver, Answer, LeaveOver, roomVars, remoteVars,
     socketVars, passVars, net, history, QueuesOK
<1>13. ASSUME NEW c \in Client, JoinTimeout(c) \/ GetUsersFails(c) \/ LeaveTimeout(c) \/ Disconnect(c)
      PROVE QueuesOK'
  BY <1>13, MsgTypes, SizeAssumption DEF JoinTimeout, Abandoned, GetUsersFails, LeaveTimeout,
     Disconnect, roomVars, remoteVars, socketVars, passVars, net, history, QueuesOK
<1>14. ASSUME NEW c \in Client, GetUsers(c) PROVE QueuesOK'
  <2> DEFINE f == [type |-> "connect", users |-> Elements(members)]
  <2>1. Elements(members) \subseteq Client
    BY DEF ListsOK, Elements
  <2>2. f \in Frame
    BY <2>1, MsgTypes
  <2>3. received' = IF c \in alive THEN [received EXCEPT ![c] = Append(@, f)] ELSE received
    BY <1>14 DEF GetUsers
  <2> HIDE DEF f
  <2>4. received' \in [Client -> Seq(Frame)]
    BY <2>2, <2>3 DEF QueuesOK
  <2>5. UNCHANGED <<roomQueue, queue, lateTells, lateUps, published, due>>
    BY <1>14 DEF GetUsers, roomVars, remoteVars, net, history
  <2> QED
    BY <2>4, <2>5 DEF QueuesOK
<1>15. ASSUME NEW c \in Client, ReadBroadcast(c, c \in IncludeSelf) PROVE QueuesOK'
  BY <1>15, MsgTypes, SizeAssumption DEF ReadBroadcast, Reading, Count, roomVars, remoteVars,
     socketVars, passVars, net, history, QueuesOK
<1>16. ASSUME NEW c \in Client, NEW d \in Client, ReadDirect(c, d) PROVE QueuesOK'
  BY <1>16, MsgTypes, SizeAssumption DEF ReadDirect, Reading, Count, roomVars, remoteVars,
     socketVars, passVars, net, history, QueuesOK
<1>17. ASSUME NEW c \in Client, ReadOther(c) \/ ReadFails(c) PROVE QueuesOK'
  BY <1>17, MsgTypes, SizeAssumption DEF ReadOther, Reading, StartLeave, ReadFails, roomVars,
     remoteVars, socketVars, passVars, net, history, QueuesOK
<1>18. ASSUME NEW c \in Client, UpClosed(c) \/ UpCancelled(c) \/ DirectOver(c) PROVE QueuesOK'
  <2>1. UpCancelled(c) => carry[Reader(c)] \in Broadcasts
    BY Processes, MsgTypes DEF UpCancelled, Upward, ListsOK
  <2>2. lateUps' \subseteq Broadcasts
    BY <1>18, <2>1 DEF UpClosed, UpCancelled, DirectOver, net, QueuesOK
  <2>3. UNCHANGED <<roomQueue, queue, received, lateTells, published, due>>
    BY <1>18 DEF UpClosed, UpCancelled, DirectOver, roomVars, remoteVars, net, history
  <2> QED
    BY <2>2, <2>3 DEF QueuesOK
<1>19. ASSUME NEW c \in Client, UpWait(c) PROVE QueuesOK'
  BY <1>19, MsgTypes, SizeAssumption DEF UpWait, roomVars, remoteVars, socketVars, passVars,
     net, history, QueuesOK
<1>20. ASSUME NEW c \in Client, UpSend(c) PROVE QueuesOK'
  <2> DEFINE m == carry[Reader(c)]
  <2>1. m \in Msg /\ m.type = "broadcast"
    BY <1>20, Processes DEF UpSend, Upward, ListsOK
  <2>2. m \in Broadcasts
    BY <2>1, MsgTypes
  <2>3. roomQueue' = Append(roomQueue, m) /\ Len(roomQueue) < RoomQueueSize
    BY <1>20 DEF UpSend
  <2> HIDE DEF m
  <2>4. roomQueue' \in Seq(Broadcasts) /\ Len(roomQueue') <= RoomQueueSize
    BY <2>2, <2>3, SizeAssumption DEF QueuesOK
  <2>5. UNCHANGED <<queue, received, lateTells, lateUps, published, due>>
    BY <1>20 DEF UpSend, remoteVars, net, history
  <2> QED
    BY <2>4, <2>5 DEF QueuesOK
<1>21. ASSUME NEW c \in Client, Write(c) PROVE QueuesOK'
  BY SMTT(40), <1>21, MsgTypes, SizeAssumption DEF Write, roomVars, remoteVars, socketVars, passVars,
     net, history, QueuesOK, Frame
<1>22. ASSUME NEW c \in Client, WriteReturn(c) PROVE QueuesOK'
  BY <1>22, MsgTypes, SizeAssumption DEF WriteReturn, roomVars, remoteVars, socketVars,
     passVars, net, history, QueuesOK
<1>23. ASSUME NEW c \in Client, LeaveCheck(c) PROVE QueuesOK'
  BY <1>23, MsgTypes, SizeAssumption DEF LeaveCheck, Answer, roomVars, remoteVars, socketVars,
     passVars, net, history, QueuesOK
<1>24. ASSUME NEW c \in Client, LeaveRemove(c) PROVE QueuesOK'
  BY <1>24, MsgTypes, SizeAssumption DEF LeaveRemove, roomVars, remoteVars, socketVars,
     passVars, net, history, QueuesOK
<1>25. ASSUME NEW c \in Client, LeaveAnnounce(c) PROVE QueuesOK'
  BY <1>25, MsgTypes, SizeAssumption DEF LeaveAnnounce, roomVars, remoteVars, socketVars,
     passVars, net, history, QueuesOK
<1>26. ASSUME NEW c \in Client, CloseRemote(c) PROVE QueuesOK'
  BY <1>26, MsgTypes, SizeAssumption DEF CloseRemote, Abandoned, roomVars, remoteVars,
     socketVars, passVars, net, history, QueuesOK
<1>27. CASE UNCHANGED vars
  BY <1>27, MsgTypes, SizeAssumption DEF vars, roomVars, remoteVars, socketVars, passVars,
     net, history, QueuesOK
<1>28. ASSUME NEW c \in Client, LateTell(c) PROVE QueuesOK'
  <2>1. PICK m \in {x[2] : x \in {y \in lateTells : y[1] = c}} :
          Enqueue(c, m) /\ lateTells' = lateTells \ {<<c, m>>}
    BY <1>28 DEF LateTell
  <2>2. m \in Msg
    BY <2>1 DEF QueuesOK
  <2>3. queue' = [queue EXCEPT ![c] = Append(@, m)] /\ Len(queue[c]) < QueueSize
    BY <2>1 DEF Enqueue
  <2>5. queue' \in [Client -> Seq(Msg)] /\ \A d \in Client : Len(queue'[d]) <= QueueSize
    BY <2>2, <2>3, SizeAssumption DEF QueuesOK
  <2>6. lateTells' \subseteq Client \X Msg
    BY <2>1 DEF QueuesOK
  <2>4. UNCHANGED <<roomQueue, received, lateUps, published, due>>
    BY <1>28 DEF LateTell, roomVars, socketVars, history
  <2> QED
    BY <2>4, <2>5, <2>6 DEF QueuesOK
<1>29. CASE LateUp
  <2>1. PICK m \in lateUps : roomQueue' = Append(roomQueue, m) /\ lateUps' = lateUps \ {m}
    BY <1>29 DEF LateUp
  <2>2. Len(roomQueue) < RoomQueueSize /\ m \in Broadcasts
    BY <1>29 DEF LateUp, QueuesOK
  <2>3. roomQueue' \in Seq(Broadcasts) /\ Len(roomQueue') <= RoomQueueSize
    BY <2>1, <2>2, SizeAssumption DEF QueuesOK
  <2>4. UNCHANGED <<queue, received, lateTells, published, due>>
    BY <1>29 DEF LateUp, remoteVars, socketVars, history
  <2> QED
    BY <2>1, <2>3, <2>4 DEF QueuesOK
<1>30. CASE LateLost
  <2>1. lateTells' \subseteq lateTells /\ lateUps' \subseteq lateUps
    BY <1>30 DEF LateLost
  <2>2. UNCHANGED <<roomQueue, queue, received, published, due>>
    BY <1>30 DEF LateLost, roomVars, remoteVars, socketVars, history
  <2> QED
    BY <2>1, <2>2 DEF QueuesOK
<1> QED
  BY <1>1, <1>2, <1>3, <1>4, <1>5, <1>6, <1>7, <1>8, <1>9, <1>10, <1>11, <1>12, <1>13, <1>14,
     <1>15, <1>16, <1>17, <1>18, <1>19, <1>20, <1>21, <1>22, <1>23, <1>24, <1>25, <1>26, <1>27,
     <1>28, <1>29, <1>30, Processes DEF Next, Chance, Handle, Serve, Writer, Join, Leave, Pass, Forward, Close,
     Tell

-----------------------------------------------------------------------------
(* The types hold; with them, who is told of the close.                    *)

\* Whoever lost its registration is closed: a closer that skips it misses nobody.
RegOK ==
  \A c \in Client :
    /\ session[c] # "out" => c \in listening \cup rdone
    /\ session[c] = "out" => carry[Reader(c)] = NoMsg /\ handling[c] = "idle"

\* The closer's message is the close message.
CloseOK ==
  /\ closing # "tell" => todo[Closer] = <<>>
  /\ closing = "tell" => carry[Closer] = [type |-> "close"]

\* Once the close has its addressees a member that is served is one of them,
\* was told, or is one to whom the closer gave up its message.
ToldOK ==
  closing \in {"tell", "over"} =>
    \A c \in Elements(members) \ late :
      session[c] = "serving" => c \in rdone \cup untold \cup Elements(todo[Closer])

ToldInv == RegOK /\ CloseOK /\ ToldOK

\* A step that is not the closer's.
Apart ==
  /\ closing' = closing /\ carry'[Closer] = carry[Closer] /\ todo'[Closer] = todo[Closer]
  /\ closing \in {"tell", "over"} => Elements(members') \subseteq Elements(members) \cup late'
  /\ rdone \subseteq rdone' /\ untold \subseteq untold' /\ late \subseteq late'
  /\ listening \cup rdone \subseteq listening' \cup rdone'
  /\ \A c \in Client :
       /\ session'[c] # "out" => session[c] # "out" \/ c \in listening'
       /\ session'[c] = "out" => session[c] = "out" /\ handling'[c] = handling[c]
                                 /\ carry'[Reader(c)] = carry[Reader(c)]
       /\ session'[c] = "serving" => session[c] = "serving" \/ closing = "no"

LEMMA ApartKeeps ==
  ASSUME ListsOK, ToldInv, Apart
  PROVE  ToldInv'
<1>1. Elements(members) \subseteq Client
  BY DEF ListsOK, Elements
<1>2. RegOK'
  BY DEF ToldInv, RegOK, Apart
<1>3. CloseOK'
  BY DEF ToldInv, CloseOK, Apart
<1>4. ToldOK'
  <2> SUFFICES ASSUME closing \in {"tell", "over"}, NEW c \in Elements(members') \ late',
                      session'[c] = "serving"
               PROVE  c \in rdone' \cup untold' \cup Elements(todo'[Closer])
    BY DEF ToldOK, Apart, Elements
  <2>1. c \in Elements(members) \ late /\ c \in Client
    BY <1>1 DEF Apart
  <2>2. session[c] = "serving"
    BY <2>1 DEF Apart
  <2> QED
    BY <2>1, <2>2 DEF ToldInv, ToldOK, Apart
<1> QED
  BY <1>2, <1>3, <1>4 DEF ToldInv

LEMMA NextTold ==
  ASSUME FlagsOK, ListsOK, CarryOK, ToldInv, [Next]_vars
  PROVE  ToldInv'
<1>1. ASSUME NEW p \in Process, TellClosed(p) PROVE ToldInv'
  <2>1. /\ Head(todo[p]) \in Client
        /\ Elements(todo[p]) = {Head(todo[p])} \cup Elements(Tail(todo[p]))
    BY <1>1, TailList DEF TellClosed, ListsOK
  <2>2. /\ UNCHANGED <<closing, carry, members, rdone, untold, late, session, handling>>
        /\ listening \cup rdone = listening' \cup rdone'
    BY <1>1 DEF TellClosed, roomVars, socketVars, history
  <2>3. CASE p # Closer
    <3>1. todo'[Closer] = todo[Closer]
      BY <1>1, <2>3, Processes DEF TellClosed, Told, ListsOK
    <3>2. Apart
      BY <2>2, <3>1 DEF Apart
    <3> QED
      BY <3>2, ApartKeeps
  <2>4. CASE p = Closer
    <3>1. todo'[Closer] = Tail(todo[Closer])
      BY <1>1, <2>4, Processes DEF TellClosed, Told, ListsOK
    <3>2. RegOK'
      BY <2>2 DEF ToldInv, RegOK
    <3>3. CloseOK'
      BY <1>1, <2>2, <2>4 DEF ToldInv, CloseOK, TellClosed
    <3>4. session[Head(todo[p])] = "serving" => Head(todo[p]) \in rdone
      BY <1>1, <2>1 DEF TellClosed, ToldInv, RegOK
    <3>5. ToldOK'
      <4> SUFFICES ASSUME closing \in {"tell", "over"}, NEW c \in Elements(members) \ late,
                          session[c] = "serving"
                   PROVE  c \in rdone' \cup untold' \cup Elements(todo'[Closer])
        BY <2>2 DEF ToldOK, Elements
      <4>1. c \in rdone \cup untold \cup Elements(todo[Closer])
        BY DEF ToldInv, ToldOK
      <4> QED
        BY <2>1, <2>2, <2>4, <3>1, <3>4, <4>1
    <3> QED
      BY <3>2, <3>3, <3>5 DEF ToldInv
  <2> QED
    BY <2>3, <2>4
<1>2. ASSUME NEW p \in Process, TellWait(p) PROVE ToldInv'
  <2>1. Apart
    BY <1>2 DEF TellWait, roomVars, remoteVars, socketVars, passVars, net, history, Apart, ToldInv,
       RegOK, FlagsOK, ListsOK
  <2> QED
    BY <2>1, ApartKeeps
<1>3. ASSUME NEW p \in Process, TellSend(p) PROVE ToldInv'
  <2>1. /\ Head(todo[p]) \in Client
        /\ Elements(todo[p]) = {Head(todo[p])} \cup Elements(Tail(todo[p]))
    BY <1>3, TailList DEF TellSend, Enqueue, ListsOK
  <2>2. /\ UNCHANGED <<closing, carry, members, untold, late, session, handling>>
        /\ rdone \subseteq rdone' /\ listening \cup rdone \subseteq listening' \cup rdone'
    BY <1>3 DEF TellSend, Enqueue, roomVars, socketVars, history
  <2>3. CASE p # Closer
    <3>1. todo'[Closer] = todo[Closer]
      BY <1>3, <2>3, Processes DEF TellSend, Enqueue, Told, ListsOK
    <3>2. Apart
      BY <2>2, <3>1 DEF Apart
    <3> QED
      BY <3>2, ApartKeeps
  <2>4. CASE p = Closer
    <3>1. todo'[Closer] = Tail(todo[Closer])
      BY <1>3, <2>4, Processes DEF TellSend, Enqueue, Told, ListsOK
    <3>2. RegOK'
      BY <2>2 DEF ToldInv, RegOK
    <3>3. CloseOK'
      BY <1>3, <2>2, <2>4 DEF ToldInv, CloseOK, TellSend
    <3>4. carry[p].type = "close"
      BY <1>3, <2>4 DEF TellSend, Enqueue, ToldInv, CloseOK
    <3>5. Head(todo[p]) \in rdone'
      BY <1>3, <3>4 DEF TellSend, Enqueue
    <3>6. ToldOK'
      <4> SUFFICES ASSUME closing \in {"tell", "over"}, NEW c \in Elements(members) \ late,
                          session[c] = "serving"
                   PROVE  c \in rdone' \cup untold' \cup Elements(todo'[Closer])
        BY <2>2 DEF ToldOK, Elements
      <4>1. c \in rdone \cup untold \cup Elements(todo[Closer])
        BY DEF ToldInv, ToldOK
      <4> QED
        BY <2>1, <2>2, <2>4, <3>1, <3>5, <4>1
    <3> QED
      BY <3>2, <3>3, <3>6 DEF ToldInv
  <2> QED
    BY <2>3, <2>4
<1>4. ASSUME NEW p \in Process, TellTimeout(p) PROVE ToldInv'
  <2>1. /\ Head(todo[p]) \in Client
        /\ Elements(todo[p]) = {Head(todo[p])} \cup Elements(Tail(todo[p]))
    BY <1>4, TailList DEF TellTimeout, ListsOK
  <2>2. /\ UNCHANGED <<closing, carry, members, listening, rdone, late, session, handling>>
        /\ untold \subseteq untold'
    BY <1>4 DEF TellTimeout, roomVars, remoteVars, socketVars
  <2>3. CASE p # Closer
    <3>1. todo'[Closer] = todo[Closer]
      BY <1>4, <2>3, Processes DEF TellTimeout, Told, ListsOK
    <3>2. Apart
      BY <2>2, <3>1 DEF Apart
    <3> QED
      BY <3>2, ApartKeeps
  <2>4. CASE p = Closer
    <3>1. todo'[Closer] = Tail(todo[Closer])
      BY <1>4, <2>4, Processes DEF TellTimeout, Told, ListsOK
    <3>2. RegOK'
      BY <2>2 DEF ToldInv, RegOK
    <3>3. CloseOK'
      BY <1>4, <2>2, <2>4 DEF ToldInv, CloseOK, TellTimeout
    <3>4. Head(todo[p]) \in untold'
      BY <1>4, <2>4 DEF TellTimeout
    <3>5. ToldOK'
      <4> SUFFICES ASSUME closing \in {"tell", "over"}, NEW c \in Elements(members) \ late,
                          session[c] = "serving"
                   PROVE  c \in rdone' \cup untold' \cup Elements(todo'[Closer])
        BY <2>2 DEF ToldOK, Elements
      <4>1. c \in rdone \cup untold \cup Elements(todo[Closer])
        BY DEF ToldInv, ToldOK
      <4> QED
        BY <2>1, <2>2, <2>4, <3>1, <3>4, <4>1
    <3> QED
      BY <3>2, <3>3, <3>5 DEF ToldInv
  <2> QED
    BY <2>3, <2>4
<1>5. CASE ForwardTake
  <2>1. Apart
    BY <1>5, Processes DEF ForwardTake, roomVars, remoteVars, socketVars, passVars, net, history,
       Apart, ToldInv, RegOK, FlagsOK, ListsOK
  <2> QED
    BY <2>1, ApartKeeps
<1>6. CASE ForwardReturn \/ RemoveRoom \/ CloseDone
  <2>1. UNCHANGED <<carry, todo, members, listening, rdone, untold, late, session, handling>>
    BY <1>6 DEF ForwardReturn, RemoveRoom, CloseDone, remoteVars, socketVars, passVars, net, history
  <2>2. closing' = closing \/ {closing, closing'} \subseteq {"no", "removed", "closed"}
    BY <1>6 DEF ForwardReturn, RemoveRoom, CloseDone
  <2> QED
    BY <2>1, <2>2 DEF ToldInv, RegOK, CloseOK, ToldOK, Elements
<1>7. CASE CloseAnnounce
  <2>1. UNCHANGED <<members, listening, rdone, untold, late, session, handling>>
    BY <1>7 DEF CloseAnnounce, remoteVars, socketVars, history
  <2>2. /\ carry'[Closer] = [type |-> "close"] /\ todo'[Closer] = members
        /\ closing' = "tell"
    BY <1>7, Processes DEF CloseAnnounce, ListsOK
  <2>3. handling' = handling /\ \A c \in Client : carry'[Reader(c)] = carry[Reader(c)]
    BY <1>7, Processes DEF CloseAnnounce, ListsOK
  <2> QED
    BY <2>1, <2>2, <2>3 DEF ToldInv, RegOK, CloseOK, ToldOK, Elements
<1>8. CASE CloseOver
  <2>1. UNCHANGED <<members, todo, listening, rdone, untold, late, session, handling>>
    BY <1>8 DEF CloseOver, remoteVars, socketVars, history
  <2>2. closing = "tell" /\ closing' = "over" /\ todo[Closer] = <<>>
    BY <1>8 DEF CloseOver
  <2>3. handling' = handling /\ \A c \in Client : carry'[Reader(c)] = carry[Reader(c)]
    BY <1>8, Processes DEF CloseOver, ListsOK
  <2> QED
    BY <2>1, <2>2, <2>3 DEF ToldInv, RegOK, CloseOK, ToldOK, Elements
<1>9. ASSUME NEW c \in Client, Connect(c) \/ JoinCheck(c) PROVE ToldInv'
  <2>1. Apart
    BY <1>9, Processes DEF Connect, JoinCheck, Abandoned, roomVars, remoteVars, socketVars,
       passVars, net, history, Apart, ToldInv, RegOK, FlagsOK, ListsOK
  <2> QED
    BY <2>1, ApartKeeps
<1>10. ASSUME NEW c \in Client, JoinAdd(c) PROVE ToldInv'
  <2>1. Elements(members') = Elements(members) \cup {c}
    BY <1>10, AppendList DEF JoinAdd, ListsOK
  <2>2. closing \in {"tell", "over"} => c \in late'
    BY <1>10 DEF JoinAdd
  <2>3. UNCHANGED <<closing, carry, todo, listening, rdone, untold, session>> /\ late \subseteq late'
    BY <1>10 DEF JoinAdd, remoteVars, socketVars, passVars
  <2>4. Apart
    BY <1>10, <2>1, <2>2, <2>3 DEF JoinAdd, Apart, ToldInv, RegOK, FlagsOK
  <2> QED
    BY <2>4, ApartKeeps
<1>11. ASSUME NEW c \in Client, JoinAnnounce(c) PROVE ToldInv'
  <2>1. Apart
    BY <1>11, Processes DEF JoinAnnounce, roomVars, remoteVars, socketVars, passVars, net, history,
       Apart, ToldInv, RegOK, FlagsOK, ListsOK
  <2> QED
    BY <2>1, ApartKeeps
<1>12. ASSUME NEW c \in Client, JoinOver(c) \/ LeaveOver(c) PROVE ToldInv'
  <2>1. Apart
    BY <1>12, Processes DEF JoinOver, Answer, LeaveOver, roomVars, remoteVars, socketVars,
       passVars, net, history, Apart, ToldInv, RegOK, FlagsOK, ListsOK
  <2> QED
    BY <2>1, ApartKeeps
<1>13. ASSUME NEW c \in Client, JoinTimeout(c) \/ GetUsersFails(c) \/ LeaveTimeout(c) \/ Disconnect(c)
      PROVE ToldInv'
  <2>1. Apart
    BY <1>13, Processes DEF JoinTimeout, Abandoned, GetUsersFails, LeaveTimeout, Disconnect,
       roomVars, remoteVars, socketVars, passVars, net, history, Apart, ToldInv, RegOK, FlagsOK,
       ListsOK
  <2> QED
    BY <2>1, ApartKeeps
<1>14. ASSUME NEW c \in Client, GetUsers(c) PROVE ToldInv'
  <2>1. Apart
    BY <1>14 DEF GetUsers, Listed, roomVars, remoteVars, socketVars, passVars, net, history, Apart,
       ToldInv, RegOK, FlagsOK, ListsOK
  <2> QED
    BY <2>1, ApartKeeps
<1>15. ASSUME NEW c \in Client, ReadBroadcast(c, c \in IncludeSelf) PROVE ToldInv'
  <2>1. Apart
    BY <1>15, Processes DEF ReadBroadcast, Reading, Count, roomVars, remoteVars, socketVars,
       passVars, net, history, Apart, ToldInv, RegOK, FlagsOK, ListsOK
  <2> QED
    BY <2>1, ApartKeeps
<1>16. ASSUME NEW c \in Client, NEW d \in Client, ReadDirect(c, d) PROVE ToldInv'
  <2>1. Apart
    BY <1>16, Processes DEF ReadDirect, Reading, Count, roomVars, remoteVars, socketVars,
       passVars, net, history, Apart, ToldInv, RegOK, FlagsOK, ListsOK
  <2> QED
    BY <2>1, ApartKeeps
<1>17. ASSUME NEW c \in Client, ReadOther(c) \/ ReadFails(c) PROVE ToldInv'
  <2>1. Apart
    BY <1>17, Processes DEF ReadOther, Reading, StartLeave, ReadFails, roomVars, remoteVars,
       socketVars, passVars, net, history, Apart, ToldInv, RegOK, FlagsOK, ListsOK
  <2> QED
    BY <2>1, ApartKeeps
<1>18. ASSUME NEW c \in Client, UpClosed(c) \/ UpSend(c) \/ UpCancelled(c) \/ DirectOver(c)
      PROVE ToldInv'
  <2>1. ReadOver(c) /\ UNCHANGED <<closing, members, todo, listening, rdone, untold, late>>
    BY <1>18 DEF UpClosed, UpSend, UpCancelled, DirectOver, roomVars, remoteVars, history
  <2>2. carry'[Closer] = carry[Closer]
    BY <2>1, Processes DEF ReadOver, ListsOK
  <2>3. session[c] # "out"
    BY <1>18 DEF UpClosed, UpSend, UpCancelled, DirectOver, Upward, ToldInv, RegOK
  <2>5. /\ session' = session \/ session' = [session EXCEPT ![c] = "leaving"]
        /\ handling' = handling \/ handling' = [handling EXCEPT ![c] = "leaveCheck"]
        /\ \A d \in Client : d # c => carry'[Reader(d)] = carry[Reader(d)]
    BY <2>1, Processes DEF ReadOver, StartLeave, ListsOK
  <2>4. Apart
    BY <2>1, <2>2, <2>3, <2>5 DEF Apart, FlagsOK
  <2> QED
    BY <2>4, ApartKeeps
<1>19. ASSUME NEW c \in Client, UpWait(c) PROVE ToldInv'
  <2>1. Apart
    BY <1>19, Processes DEF UpWait, roomVars, remoteVars, socketVars, passVars, net, history, Apart,
       ToldInv, RegOK, FlagsOK, ListsOK
  <2> QED
    BY <2>1, ApartKeeps
<1>20. ASSUME NEW c \in Client, Write(c) PROVE ToldInv'
  <2>1. Apart
    BY <1>20, Processes DEF Write, roomVars, remoteVars, socketVars, passVars, net, history, Apart,
       ToldInv, RegOK, FlagsOK, ListsOK
  <2> QED
    BY <2>1, ApartKeeps
<1>21. ASSUME NEW c \in Client, WriteReturn(c) PROVE ToldInv'
  <2>1. Apart
    BY <1>21, Processes DEF WriteReturn, roomVars, remoteVars, socketVars, passVars, net, history,
       Apart, ToldInv, RegOK, FlagsOK, ListsOK
  <2> QED
    BY <2>1, ApartKeeps
<1>22. ASSUME NEW c \in Client, LeaveCheck(c) PROVE ToldInv'
  <2>1. Apart
    BY <1>22, Processes DEF LeaveCheck, Answer, roomVars, remoteVars, socketVars, passVars,
       net, history, Apart, ToldInv, RegOK, FlagsOK, ListsOK
  <2> QED
    BY <2>1, ApartKeeps
<1>23. ASSUME NEW c \in Client, LeaveRemove(c) PROVE ToldInv'
  <2>1. Elements(members') \subseteq Elements(members)
    BY <1>23, WithoutList DEF LeaveRemove, ListsOK
  <2>2. UNCHANGED <<closing, carry, todo, listening, rdone, untold, late, session>>
    BY <1>23 DEF LeaveRemove, remoteVars, socketVars, passVars, net, history
  <2>3. Apart
    BY <1>23, <2>1, <2>2 DEF LeaveRemove, Apart, ToldInv, RegOK, FlagsOK
  <2> QED
    BY <2>3, ApartKeeps
<1>24. ASSUME NEW c \in Client, LeaveAnnounce(c) PROVE ToldInv'
  <2>1. Apart
    BY <1>24, Processes DEF LeaveAnnounce, roomVars, remoteVars, socketVars, passVars, net, history,
       Apart, ToldInv, RegOK, FlagsOK, ListsOK
  <2> QED
    BY <2>1, ApartKeeps
<1>25. ASSUME NEW c \in Client, CloseRemote(c) PROVE ToldInv'
  <2>1. Apart
    BY <1>25, Processes DEF CloseRemote, Abandoned, roomVars, remoteVars, socketVars, passVars,
       net, history, Apart, ToldInv, RegOK, FlagsOK, ListsOK
  <2> QED
    BY <2>1, ApartKeeps
<1>26. CASE UNCHANGED vars
  <2>1. Apart
    BY <1>26 DEF vars, roomVars, remoteVars, socketVars, passVars, net, history, Apart, ToldInv,
       RegOK, FlagsOK, ListsOK
  <2> QED
    BY <2>1, ApartKeeps
<1>27. ASSUME NEW c \in Client, LateTell(c) PROVE ToldInv'
  <2>1. /\ UNCHANGED <<closing, carry, todo, members, untold, late, session, handling>>
        /\ rdone \subseteq rdone' /\ listening \cup rdone \subseteq listening' \cup rdone'
    BY <1>27 DEF LateTell, Enqueue, roomVars, socketVars, passVars, history
  <2>2. Apart
    BY <2>1 DEF Apart
  <2> QED
    BY <2>2, ApartKeeps
<1>28. CASE LateUp \/ LateLost
  <2>1. Apart
    BY <1>28 DEF LateUp, LateLost, roomVars, remoteVars, socketVars, passVars, history, Apart
  <2> QED
    BY <2>1, ApartKeeps
<1> QED
  BY <1>1, <1>2, <1>3, <1>4, <1>5, <1>6, <1>7, <1>8, <1>9, <1>10, <1>11, <1>12, <1>13, <1>14,
     <1>15, <1>16, <1>17, <1>18, <1>19, <1>20, <1>21, <1>22, <1>23, <1>24, <1>25, <1>26,
     <1>27, <1>28, Processes DEF Next, Chance, Handle, Serve, Writer, Join, Leave, Pass, Forward, Close,
     Tell

-----------------------------------------------------------------------------
(* Theorems *)

LEMMA Invariance == Spec => [](TypeOK /\ CarryOK /\ ToldInv)
<1>1. Init => TypeOK /\ CarryOK /\ ToldInv
  <2>1. Init => ToldInv
    BY Processes DEF Init, ToldInv, RegOK, CloseOK, ToldOK
  <2> QED
    BY <2>1, InitTypes
<1>2. TypeOK /\ CarryOK /\ ToldInv /\ [Next]_vars => (TypeOK /\ CarryOK /\ ToldInv)'
  <2> SUFFICES ASSUME TypeOK, CarryOK, ToldInv, [Next]_vars
               PROVE  TypeOK' /\ CarryOK' /\ ToldInv'
    OBVIOUS
  <2>1. FlagsOK /\ ListsOK /\ QueuesOK
    BY TypeParts
  <2>2. FlagsOK'
    BY <2>1, NextFlags
  <2>3. ListsOK' /\ CarryOK'
    BY <2>1, NextLists
  <2>4. QueuesOK'
    BY <2>1, NextQueues
  <2>5. ToldInv'
    BY <2>1, NextTold
  <2>6. TypeOK'
    BY <2>2, <2>3, <2>4 DEF TypeOK, FlagsOK, ListsOK, QueuesOK
  <2> QED
    BY <2>3, <2>5, <2>6
<1> QED
  BY <1>1, <1>2, PTL DEF Spec

\* No queue ever holds more than its capacity, whoever puts messages in and
\* whichever wait was given up, and the room's takes broadcasts only.
THEOREM QueuesKeepCapacity == Spec => []TypeOK
BY Invariance, PTL

\* When the close of a room is through, a member that is still served was told,
\* or joined when the close had its addressees already, or is one to whom the
\* closer itself gave up its message.  Nothing that happened before the close,
\* and no call that anybody else gave up, is an excuse.
THEOREM CloseReachesMembers == Spec => []CloseTold
<1>1. ToldInv => CloseTold
  BY DEF ToldInv, CloseOK, ToldOK, CloseTold, Elements
<1> QED
  BY <1>1, Invariance, PTL
=============================================================================
