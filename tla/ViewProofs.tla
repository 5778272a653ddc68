---------------------------- MODULE ViewProofs ----------------------------
(***************************************************************************)
(* ViewAgrees of Delivery, for every number of clients and every size of   *)
(* the queues: whoever is on the list was shown to a client or still is to *)
(* be, and whoever left it likewise.                                       *)
(***************************************************************************)
EXTENDS BroadcastProofs

\* The messages that a handler passes on.
JoinMsg(d) == [type |-> "join", who |-> d]

LeaveMsg(d) == [type |-> "leave", who |-> d]

\* The handler of c's join call has put c on the list.
Added(c) == session[c] # "out" /\ handling[c] \notin {"joinCheck", "joinAdd"}

\* A session that is about to be served.
Starts(c) == session[c] \in {"out", "joining", "users"}

Telling(d) == handling[d] \in {"joinTell", "leaveTell"}

\* Handlers announce what the list says; what they have to tell goes to
\* clients that were put on it.
ListOK ==
  \A d \in Client :
    /\ handling[d] \in {"joinAnnounce", "joinTell"} => d \in Elements(members)
    /\ handling[d] \in {"leaveAnnounce", "leaveTell"} => d \notin Elements(members)
    /\ session[d] \in {"joining", "users", "serving"} /\ Added(d) => d \in Elements(members)

TellsOK ==
  \A d \in Client :
    /\ ~Telling(d) => todo[Handler(d)] = <<>>
    /\ handling[d] = "joinTell" /\ todo[Handler(d)] # <<>> => carry[Handler(d)] = JoinMsg(d)
    /\ handling[d] = "leaveTell" /\ todo[Handler(d)] # <<>> => carry[Handler(d)] = LeaveMsg(d)
    /\ \A c \in Elements(todo[Handler(d)]) : Added(c)

\* The forwarder passes on broadcasts.
ForwardsOK == todo[Forwarder] # <<>> => carry[Forwarder] \in Broadcasts

\* Before a session is served its client was sent nothing; then comes the
\* connect message.
EarlyOK ==
  \A c \in Client :
    /\ Starts(c) => received[c] = <<>> /\ c \notin writing
    /\ session[c] = "serving" /\ c \in alive => received[c] # <<>>

\* A join or leave that is left behind in a call was dropped.
LateOK == \A x \in lateTells : x[2].type # "message" => x[1] \in dropped

News(f) == f.type \in {"join", "leave"}

Reached(c) == Elements(received[c]) \cup Elements(queue[c])

\* A client is told of joins and leaves after it was put on the list; a client
\* whose leave was told does not come back.
NewsOK ==
  \A c \in Client \ dropped : \A f \in Reached(c) :
    /\ News(f) => Added(c)
    /\ f.type = "leave" => Added(f.who) /\ f.who \notin Elements(members)

\* No sign of d comes after its leave.
GoneIn(s, d) == \A i, j \in DOMAIN s : s[i] = LeaveMsg(d) /\ j > i => ~Shows(s[j], d)

OrderOK ==
  \A c \in Client \ dropped : \A d \in Client :
    /\ GoneIn(received[c], d) /\ GoneIn(queue[c], d)
    /\ LeaveMsg(d) \in Elements(received[c]) => \A f \in Elements(queue[c]) : ~Shows(f, d)

\* The session of c, on the list, whose client gets everything.
Follows(c) ==
  /\ session[c] \in {"joining", "users", "serving"} /\ Added(c)
  /\ c \in alive \ (cancelled \cup rdone \cup dropped)

Heard(c, d) == \E f \in Reached(c) : Shows(f, d)

Parted(c, d) == LeaveMsg(d) \in Reached(c)

\* The handler of d has still to tell c that d joined, that d left.
ToHear(c, d) ==
  \/ handling[d] = "joinAnnounce"
  \/ handling[d] = "joinTell" /\ c \in Elements(todo[Handler(d)])

ToPart(c, d) ==
  \/ handling[d] = "leaveAnnounce"
  \/ handling[d] = "leaveTell" /\ c \in Elements(todo[Handler(d)])

KnowsOK ==
  \A c \in Client : Follows(c) =>
    \A d \in Client :
      /\ received[c] # <<>> /\ d \in Elements(members) => Heard(c, d) \/ ToHear(c, d)
      /\ d \notin Elements(members) /\ Heard(c, d) => Parted(c, d) \/ ToPart(c, d)

-----------------------------------------------------------------------------
(* What steps do to a handler and to a session *)

Announcing == {"joinAnnounce", "joinTell", "leaveAnnounce", "leaveTell"}

Keeps(d) == todo'[Handler(d)] = todo[Handler(d)] /\ carry'[Handler(d)] = carry[Handler(d)]

HandlerStep(d) ==
  \/ Keeps(d) /\ handling'[d] = handling[d]
  \/ Keeps(d) /\ handling[d] \notin Announcing /\ handling'[d] \notin Announcing
  \/ Tell(Handler(d))
  \/ JoinAdd(d) \/ JoinAnnounce(d) \/ JoinOver(d)
  \/ LeaveRemove(d) \/ LeaveAnnounce(d) \/ LeaveOver(d)

LEMMA HandlerSteps ==
  ASSUME FlagsOK, ListsOK, RegOK, HandlerOK, ReaderOK, [Next]_vars
  PROVE  \A d \in Client : HandlerStep(d)
<1>1. ASSUME NEW p \in Process, TellClosed(p)
      PROVE  \A d \in Client : HandlerStep(d)
  BY <1>1, Processes DEF TellClosed, Told, roomVars, remoteVars, socketVars, passVars, net,
     history, HandlerStep, Keeps, Announcing, Tell, FlagsOK, ListsOK, RegOK, HandlerOK,
     JoinSteps
<1>2. ASSUME NEW p \in Process, TellWait(p)
      PROVE  \A d \in Client : HandlerStep(d)
  BY <1>2, Processes DEF TellWait, roomVars, remoteVars, socketVars, passVars, net, history,
     HandlerStep, Keeps, Announcing, Tell, FlagsOK, ListsOK, RegOK, HandlerOK, JoinSteps
<1>3. ASSUME NEW p \in Process, TellSend(p)
      PROVE  \A d \in Client : HandlerStep(d)
  BY <1>3, Processes DEF TellSend, Enqueue, Told, roomVars, remoteVars, socketVars, passVars,
     net, history, HandlerStep, Keeps, Announcing, Tell, FlagsOK, ListsOK, RegOK, HandlerOK,
     JoinSteps
<1>4. ASSUME NEW p \in Process, TellTimeout(p)
      PROVE  \A d \in Client : HandlerStep(d)
  BY <1>4, Processes DEF TellTimeout, Told, roomVars, remoteVars, socketVars, passVars, net,
     history, HandlerStep, Keeps, Announcing, Tell, FlagsOK, ListsOK, RegOK, HandlerOK,
     JoinSteps
<1>5. CASE ForwardTake
  BY <1>5, Processes DEF ForwardTake, roomVars, remoteVars, socketVars, passVars, net,
     history, HandlerStep, Keeps, Announcing, Tell, FlagsOK, ListsOK, RegOK, HandlerOK,
     JoinSteps
<1>6. CASE ForwardReturn \/ RemoveRoom \/ CloseDone
  BY <1>6, Processes DEF ForwardReturn, RemoveRoom, CloseDone, roomVars, remoteVars,
     socketVars, passVars, net, history, HandlerStep, Keeps, Announcing, Tell, FlagsOK,
     ListsOK, RegOK, HandlerOK, JoinSteps
<1>7. CASE CloseAnnounce
  BY <1>7, Processes DEF CloseAnnounce, roomVars, remoteVars, socketVars, passVars, net,
     history, HandlerStep, Keeps, Announcing, Tell, FlagsOK, ListsOK, RegOK, HandlerOK,
     JoinSteps
<1>8. CASE CloseOver
  BY <1>8, Processes DEF CloseOver, roomVars, remoteVars, socketVars, passVars, net, history,
     HandlerStep, Keeps, Announcing, Tell, FlagsOK, ListsOK, RegOK, HandlerOK, JoinSteps
<1>9. ASSUME NEW c \in Client, Connect(c)
      PROVE  \A d \in Client : HandlerStep(d)
  BY <1>9, Processes DEF Connect, roomVars, remoteVars, socketVars, passVars, net, history,
     HandlerStep, Keeps, Announcing, Tell, FlagsOK, ListsOK, RegOK, HandlerOK, JoinSteps
<1>10. ASSUME NEW c \in Client, JoinCheck(c)
      PROVE  \A d \in Client : HandlerStep(d)
  BY <1>10, Processes DEF JoinCheck, Abandoned, roomVars, remoteVars, socketVars, passVars,
     net, history, HandlerStep, Keeps, Announcing, Tell, FlagsOK, ListsOK, RegOK, HandlerOK,
     JoinSteps
<1>11. ASSUME NEW c \in Client, JoinAdd(c)
      PROVE  \A d \in Client : HandlerStep(d)
  BY <1>11, Processes DEF JoinAdd, roomVars, remoteVars, socketVars, passVars, net, history,
     HandlerStep, Keeps, Announcing, Tell, FlagsOK, ListsOK, RegOK, HandlerOK, JoinSteps
<1>12. ASSUME NEW c \in Client, JoinAnnounce(c) \/ LeaveAnnounce(c)
      PROVE  \A d \in Client : HandlerStep(d)
  BY <1>12, Processes DEF JoinAnnounce, LeaveAnnounce, roomVars, remoteVars, socketVars,
     passVars, net, history, HandlerStep, Keeps, Announcing, Tell, FlagsOK, ListsOK, RegOK,
     HandlerOK, JoinSteps
<1>13. ASSUME NEW c \in Client, JoinOver(c) \/ LeaveOver(c)
      PROVE  \A d \in Client : HandlerStep(d)
  BY <1>13, Processes DEF JoinOver, Answer, LeaveOver, roomVars, remoteVars, socketVars,
     passVars, net, history, HandlerStep, Keeps, Announcing, Tell, FlagsOK, ListsOK, RegOK,
     HandlerOK, JoinSteps
<1>14. ASSUME NEW c \in Client,
            JoinTimeout(c) \/ GetUsersFails(c) \/ LeaveTimeout(c) \/ Disconnect(c)
      PROVE  \A d \in Client : HandlerStep(d)
  BY <1>14, Processes DEF JoinTimeout, Abandoned, GetUsersFails, LeaveTimeout, Disconnect,
     roomVars, remoteVars, socketVars, passVars, net, history, HandlerStep, Keeps, Announcing,
     Tell, FlagsOK, ListsOK, RegOK, HandlerOK, JoinSteps
<1>15. ASSUME NEW c \in Client, GetUsers(c)
      PROVE  \A d \in Client : HandlerStep(d)
  BY <1>15, Processes DEF GetUsers, roomVars, remoteVars, socketVars, passVars, net, history,
     HandlerStep, Keeps, Announcing, Tell, FlagsOK, ListsOK, RegOK, HandlerOK, JoinSteps
<1>16. ASSUME NEW c \in Client, ReadBroadcast(c, c \in IncludeSelf)
      PROVE  \A d \in Client : HandlerStep(d)
  BY <1>16, Processes DEF ReadBroadcast, Reading, Count, roomVars, remoteVars, socketVars,
     passVars, net, history, HandlerStep, Keeps, Announcing, Tell, FlagsOK, ListsOK, RegOK,
     HandlerOK, JoinSteps
<1>17. ASSUME NEW c \in Client, NEW to \in Client, ReadDirect(c, to)
      PROVE  \A d \in Client : HandlerStep(d)
  BY <1>17, Processes DEF ReadDirect, Reading, Count, roomVars, remoteVars, socketVars,
     passVars, net, history, HandlerStep, Keeps, Announcing, Tell, FlagsOK, ListsOK, RegOK,
     HandlerOK, JoinSteps
<1>18. ASSUME NEW c \in Client, ReadOther(c) \/ ReadFails(c)
      PROVE  \A d \in Client : HandlerStep(d)
  <2>1. session[c] = "serving" /\ handling[c] = "idle"
    BY <1>18 DEF ReadOther, ReadFails, Reading, ReaderOK, HandlerOK, JoinSteps, LeaveSteps, FlagsOK, Handling
  <2>2. \A d \in Client : Keeps(d)
    BY <1>18, Processes DEF ReadOther, ReadFails, Reading, StartLeave, passVars, Keeps, ListsOK
  <2>3. \A d \in Client : handling'[d] = handling[d] \/ (d = c /\ handling'[d] = "leaveCheck")
    BY <1>18 DEF ReadOther, ReadFails, Reading, StartLeave, passVars, FlagsOK
  <2> QED
    BY <2>1, <2>2, <2>3 DEF HandlerStep, Announcing
<1>19. ASSUME NEW c \in Client, UpClosed(c) \/ UpCancelled(c) \/ DirectOver(c)
      PROVE  \A d \in Client : HandlerStep(d)
  <2>1. session[c] = "serving" /\ handling[c] = "idle"
    BY <1>19 DEF UpClosed, UpCancelled, DirectOver, Upward, ReaderOK, HandlerOK, JoinSteps, LeaveSteps, FlagsOK, Handling
  <2>2. \A d \in Client : Keeps(d)
    BY <1>19, Processes DEF UpClosed, UpCancelled, DirectOver, Upward, ReadOver, StartLeave, Keeps, ListsOK
  <2>3. \A d \in Client : handling'[d] = handling[d] \/ (d = c /\ handling'[d] = "leaveCheck")
    BY <1>19 DEF UpClosed, UpCancelled, DirectOver, Upward, ReadOver, StartLeave, FlagsOK
  <2> QED
    BY <2>1, <2>2, <2>3 DEF HandlerStep, Announcing
<1>20. ASSUME NEW c \in Client, UpSend(c)
      PROVE  \A d \in Client : HandlerStep(d)
  <2>1. session[c] = "serving" /\ handling[c] = "idle"
    BY <1>20 DEF UpSend, Upward, ReaderOK, HandlerOK, JoinSteps, LeaveSteps, FlagsOK, Handling
  <2>2. \A d \in Client : Keeps(d)
    BY <1>20, Processes DEF UpSend, Upward, ReadOver, StartLeave, Keeps, ListsOK
  <2>3. \A d \in Client : handling'[d] = handling[d] \/ (d = c /\ handling'[d] = "leaveCheck")
    BY <1>20 DEF UpSend, Upward, ReadOver, StartLeave, FlagsOK
  <2> QED
    BY <2>1, <2>2, <2>3 DEF HandlerStep, Announcing
<1>21. ASSUME NEW c \in Client, UpWait(c)
      PROVE  \A d \in Client : HandlerStep(d)
  BY <1>21, Processes DEF UpWait, roomVars, remoteVars, socketVars, passVars, net, history,
     HandlerStep, Keeps, Announcing, Tell, FlagsOK, ListsOK, RegOK, HandlerOK, JoinSteps
<1>22. ASSUME NEW c \in Client, Write(c)
      PROVE  \A d \in Client : HandlerStep(d)
  BY <1>22, Processes DEF Write, roomVars, remoteVars, socketVars, passVars, net, history,
     HandlerStep, Keeps, Announcing, Tell, FlagsOK, ListsOK, RegOK, HandlerOK, JoinSteps
<1>23. ASSUME NEW c \in Client, WriteReturn(c)
      PROVE  \A d \in Client : HandlerStep(d)
  BY <1>23, Processes DEF WriteReturn, roomVars, remoteVars, socketVars, passVars, net,
     history, HandlerStep, Keeps, Announcing, Tell, FlagsOK, ListsOK, RegOK, HandlerOK,
     JoinSteps
<1>24. ASSUME NEW c \in Client, LeaveCheck(c)
      PROVE  \A d \in Client : HandlerStep(d)
  BY <1>24, Processes DEF LeaveCheck, Answer, roomVars, remoteVars, socketVars, passVars, net,
     history, HandlerStep, Keeps, Announcing, Tell, FlagsOK, ListsOK, RegOK, HandlerOK,
     JoinSteps
<1>25. ASSUME NEW c \in Client, LeaveRemove(c)
      PROVE  \A d \in Client : HandlerStep(d)
  BY <1>25, Processes DEF LeaveRemove, roomVars, remoteVars, socketVars, passVars, net,
     history, HandlerStep, Keeps, Announcing, Tell, FlagsOK, ListsOK, RegOK, HandlerOK,
     JoinSteps
<1>26. ASSUME NEW c \in Client, CloseRemote(c)
      PROVE  \A d \in Client : HandlerStep(d)
  BY <1>26, Processes DEF CloseRemote, Abandoned, roomVars, remoteVars, socketVars, passVars,
     net, history, HandlerStep, Keeps, Announcing, Tell, FlagsOK, ListsOK, RegOK, HandlerOK,
     JoinSteps
<1>27. CASE UNCHANGED vars
  BY <1>27, Processes DEF vars, roomVars, remoteVars, socketVars, passVars, net, history,
     HandlerStep, Keeps, Announcing, Tell, FlagsOK, ListsOK, RegOK, HandlerOK, JoinSteps
<1>28. ASSUME NEW c \in Client, LateTell(c)
      PROVE  \A d \in Client : HandlerStep(d)
  BY <1>28, Processes DEF LateTell, Enqueue, roomVars, remoteVars, socketVars, passVars, net,
     history, HandlerStep, Keeps, Announcing, Tell, FlagsOK, ListsOK, RegOK, HandlerOK,
     JoinSteps
<1>29. CASE LateUp \/ LateLost
  BY <1>29, Processes DEF LateUp, LateLost, roomVars, remoteVars, socketVars, passVars, net,
     history, HandlerStep, Keeps, Announcing, Tell, FlagsOK, ListsOK, RegOK, HandlerOK,
     JoinSteps
<1> QED
  BY <1>1, <1>2, <1>3, <1>4, <1>5, <1>6, <1>7, <1>8, <1>9, <1>10, <1>11, <1>12, <1>13, <1>14,
     <1>15, <1>16, <1>17, <1>18, <1>19, <1>20, <1>21, <1>22, <1>23, <1>24, <1>25, <1>26,
     <1>27, <1>28, <1>29, Processes DEF Next, Chance, Handle, Serve, Writer, Join, Leave,
     Pass, Forward, Close, Tell

\* Nothing takes back that a session is cancelled or that a message was dropped.
Worsens ==
  /\ cancelled \subseteq cancelled'
  /\ dropped' = dropped \/ \E p \in Process : TellTimeout(p)
  /\ \A c \in Client :
       /\ session'[c] = "serving" => session[c] = "serving" \/ GetUsers(c)
       /\ c \in writing' \ writing => GetUsers(c)
       /\ Added(c)' => Added(c) \/ JoinAdd(c) \/ session'[c] = "gone"

LEMMA StepsWorsen ==
  ASSUME FlagsOK, ListsOK, RegOK, HandlerOK, ReaderOK, [Next]_vars
  PROVE  Worsens
<1>1. ASSUME NEW p \in Process, TellClosed(p)
      PROVE  Worsens
  BY <1>1, Processes DEF TellClosed, Told, roomVars, remoteVars, socketVars, passVars, net,
     history, Worsens, Added, FlagsOK, RegOK
<1>2. ASSUME NEW p \in Process, TellWait(p)
      PROVE  Worsens
  BY <1>2, Processes DEF TellWait, roomVars, remoteVars, socketVars, passVars, net, history,
     Worsens, Added, FlagsOK, RegOK
<1>3. ASSUME NEW p \in Process, TellSend(p)
      PROVE  Worsens
  BY <1>3, Processes DEF TellSend, Enqueue, Told, roomVars, remoteVars, socketVars, passVars,
     net, history, Worsens, Added, FlagsOK, RegOK
<1>4. ASSUME NEW p \in Process, TellTimeout(p)
      PROVE  Worsens
  BY <1>4, Processes DEF TellTimeout, Told, roomVars, remoteVars, socketVars, passVars, net,
     history, Worsens, Added, FlagsOK, RegOK
<1>5. CASE ForwardTake
  BY <1>5, Processes DEF ForwardTake, roomVars, remoteVars, socketVars, passVars, net,
     history, Worsens, Added, FlagsOK, RegOK
<1>6. CASE ForwardReturn \/ RemoveRoom \/ CloseDone
  BY <1>6, Processes DEF ForwardReturn, RemoveRoom, CloseDone, roomVars, remoteVars,
     socketVars, passVars, net, history, Worsens, Added, FlagsOK, RegOK
<1>7. CASE CloseAnnounce
  BY <1>7, Processes DEF CloseAnnounce, roomVars, remoteVars, socketVars, passVars, net,
     history, Worsens, Added, FlagsOK, RegOK
<1>8. CASE CloseOver
  BY <1>8, Processes DEF CloseOver, roomVars, remoteVars, socketVars, passVars, net, history,
     Worsens, Added, FlagsOK, RegOK
<1>9. ASSUME NEW c \in Client, Connect(c)
      PROVE  Worsens
  BY <1>9, Processes DEF Connect, roomVars, remoteVars, socketVars, passVars, net, history,
     Worsens, Added, FlagsOK, RegOK
<1>10. ASSUME NEW c \in Client, JoinCheck(c)
      PROVE  Worsens
  BY <1>10, Processes DEF JoinCheck, Abandoned, roomVars, remoteVars, socketVars, passVars,
     net, history, Worsens, Added, FlagsOK, RegOK
<1>11. ASSUME NEW c \in Client, JoinAdd(c)
      PROVE  Worsens
  BY <1>11, Processes DEF JoinAdd, roomVars, remoteVars, socketVars, passVars, net, history,
     Worsens, Added, FlagsOK, RegOK
<1>12. ASSUME NEW c \in Client, JoinAnnounce(c) \/ LeaveAnnounce(c)
      PROVE  Worsens
  BY <1>12, Processes DEF JoinAnnounce, LeaveAnnounce, roomVars, remoteVars, socketVars,
     passVars, net, history, Worsens, Added, FlagsOK, RegOK
<1>13. ASSUME NEW c \in Client, JoinOver(c) \/ LeaveOver(c)
      PROVE  Worsens
  BY <1>13, Processes DEF JoinOver, Answer, LeaveOver, roomVars, remoteVars, socketVars,
     passVars, net, history, Worsens, Added, FlagsOK, RegOK
<1>14. ASSUME NEW c \in Client,
            JoinTimeout(c) \/ GetUsersFails(c) \/ LeaveTimeout(c) \/ Disconnect(c)
      PROVE  Worsens
  BY <1>14, Processes DEF JoinTimeout, Abandoned, GetUsersFails, LeaveTimeout, Disconnect,
     roomVars, remoteVars, socketVars, passVars, net, history, Worsens, Added, FlagsOK, RegOK
<1>15. ASSUME NEW c \in Client, GetUsers(c)
      PROVE  Worsens
  BY <1>15, Processes DEF GetUsers, roomVars, remoteVars, socketVars, passVars, net, history,
     Worsens, Added, FlagsOK, RegOK
<1>16. ASSUME NEW c \in Client, ReadBroadcast(c, c \in IncludeSelf)
      PROVE  Worsens
  BY <1>16, Processes DEF ReadBroadcast, Reading, Count, roomVars, remoteVars, socketVars,
     passVars, net, history, Worsens, Added, FlagsOK, RegOK
<1>17. ASSUME NEW c \in Client, NEW d \in Client, ReadDirect(c, d)
      PROVE  Worsens
  BY <1>17, Processes DEF ReadDirect, Reading, Count, roomVars, remoteVars, socketVars,
     passVars, net, history, Worsens, Added, FlagsOK, RegOK
<1>18. ASSUME NEW c \in Client, ReadOther(c) \/ ReadFails(c)
      PROVE  Worsens
  <2>1. session[c] = "serving" /\ handling[c] = "idle"
    BY <1>18 DEF ReadOther, ReadFails, Reading, ReaderOK, HandlerOK, JoinSteps, LeaveSteps, FlagsOK, Handling
  <2> QED
    BY <1>18, <2>1 DEF ReadOther, ReadFails, Reading, StartLeave, history, Worsens, Added, FlagsOK
<1>19. ASSUME NEW c \in Client, UpClosed(c) \/ UpCancelled(c) \/ DirectOver(c)
      PROVE  Worsens
  <2>1. session[c] = "serving" /\ handling[c] = "idle"
    BY <1>19 DEF UpClosed, UpCancelled, DirectOver, Upward, ReaderOK, HandlerOK, JoinSteps, LeaveSteps, FlagsOK, Handling
  <2> QED
    BY <1>19, <2>1 DEF UpClosed, UpCancelled, DirectOver, Upward, ReadOver, StartLeave, history, Worsens, Added, FlagsOK
<1>20. ASSUME NEW c \in Client, UpSend(c)
      PROVE  Worsens
  <2>1. session[c] = "serving" /\ handling[c] = "idle"
    BY <1>20 DEF UpSend, Upward, ReaderOK, HandlerOK, JoinSteps, LeaveSteps, FlagsOK, Handling
  <2> QED
    BY <1>20, <2>1 DEF UpSend, Upward, ReadOver, StartLeave, history, Worsens, Added, FlagsOK
<1>21. ASSUME NEW c \in Client, UpWait(c)
      PROVE  Worsens
  BY <1>21, Processes DEF UpWait, roomVars, remoteVars, socketVars, passVars, net, history,
     Worsens, Added, FlagsOK, RegOK
<1>22. ASSUME NEW c \in Client, Write(c)
      PROVE  Worsens
  BY <1>22, Processes DEF Write, roomVars, remoteVars, socketVars, passVars, net, history,
     Worsens, Added, FlagsOK, RegOK
<1>23. ASSUME NEW c \in Client, WriteReturn(c)
      PROVE  Worsens
  BY <1>23, Processes DEF WriteReturn, roomVars, remoteVars, socketVars, passVars, net,
     history, Worsens, Added, FlagsOK, RegOK
<1>24. ASSUME NEW c \in Client, LeaveCheck(c)
      PROVE  Worsens
  BY <1>24, Processes DEF LeaveCheck, Answer, roomVars, remoteVars, socketVars, passVars, net,
     history, Worsens, Added, FlagsOK, RegOK
<1>25. ASSUME NEW c \in Client, LeaveRemove(c)
      PROVE  Worsens
  BY <1>25, Processes DEF LeaveRemove, roomVars, remoteVars, socketVars, passVars, net,
     history, Worsens, Added, FlagsOK, RegOK
<1>26. ASSUME NEW c \in Client, CloseRemote(c)
      PROVE  Worsens
  BY <1>26, Processes DEF CloseRemote, Abandoned, roomVars, remoteVars, socketVars, passVars,
     net, history, Worsens, Added, FlagsOK, RegOK
<1>27. CASE UNCHANGED vars
  BY <1>27, Processes DEF vars, roomVars, remoteVars, socketVars, passVars, net, history,
     Worsens, Added, FlagsOK, RegOK
<1>28. ASSUME NEW c \in Client, LateTell(c)
      PROVE  Worsens
  BY <1>28, Processes DEF LateTell, Enqueue, roomVars, remoteVars, socketVars, passVars, net,
     history, Worsens, Added, FlagsOK, RegOK
<1>29. CASE LateUp \/ LateLost
  BY <1>29, Processes DEF LateUp, LateLost, roomVars, remoteVars, socketVars, passVars, net,
     history, Worsens, Added, FlagsOK, RegOK
<1> QED
  BY <1>1, <1>2, <1>3, <1>4, <1>5, <1>6, <1>7, <1>8, <1>9, <1>10, <1>11, <1>12, <1>13, <1>14,
     <1>15, <1>16, <1>17, <1>18, <1>19, <1>20, <1>21, <1>22, <1>23, <1>24, <1>25, <1>26,
     <1>27, <1>28, <1>29, Processes DEF Next, Chance, Handle, Serve, Writer, Join, Leave,
     Pass, Forward, Close, Tell

\* How the list changes.
MembersStep ==
  /\ members' = members \/ \E d \in Client : JoinAdd(d) \/ LeaveRemove(d)
  /\ \A d \in Client :
       /\ JoinAdd(d) => Elements(members') = Elements(members) \cup {d}
       /\ LeaveRemove(d) => Elements(members') = Elements(members) \ {d}

LEMMA MembersSteps ==
  ASSUME ListsOK, EnterOK, Changes
  PROVE  MembersStep
<1>1. ASSUME NEW d \in Client, JoinAdd(d)
      PROVE  Elements(members') = Elements(members) \cup {d}
  BY <1>1, AppendList DEF JoinAdd, ListsOK
<1>2. ASSUME NEW d \in Client, LeaveRemove(d)
      PROVE  Elements(members') = Elements(members) \ {d}
  BY <1>2, OnceWithout DEF LeaveRemove, ListsOK, EnterOK
<1> QED
  BY <1>1, <1>2 DEF Changes, MembersStep

LEMMA AddedStays ==
  ASSUME Onward, NEW c \in Client, Added(c)
  PROVE  Added(c)'
BY DEF Onward, Added

LEMMA MembersAdded ==
  ASSUME ListsOK, EnterOK
  PROVE  \A c \in Elements(members) : c \in Client /\ Added(c)
<1>1. \A c \in Elements(members) : c \in Client
  BY DEF ListsOK, Elements
<1> QED
  BY <1>1 DEF EnterOK, Added

\* Whoever left does not come back.
LEMMA LeftStays ==
  ASSUME FlagsOK, Onward, MembersStep, NEW d \in Client, Added(d), d \notin Elements(members)
  PROVE  Added(d)' /\ d \notin Elements(members')
<1>1. ~JoinAdd(d)
  BY DEF JoinAdd, Added
<1> QED
  BY <1>1, AddedStays DEF MembersStep

-----------------------------------------------------------------------------
(* The list and what handlers tell of it *)

LEMMA NextListOK ==
  ASSUME FlagsOK, HandlerOK, ListOK, Onward, Worsens, MembersStep,
         \A d \in Client : HandlerStep(d)
  PROVE  ListOK'
<1> SUFFICES ASSUME NEW d \in Client
             PROVE  /\ handling'[d] \in {"joinAnnounce", "joinTell"} => d \in Elements(members')
                    /\ handling'[d] \in {"leaveAnnounce", "leaveTell"} => d \notin Elements(members')
                    /\ session'[d] \in {"joining", "users", "serving"} /\ Added(d)'
                         => d \in Elements(members')
  BY DEF ListOK
<1>1. CASE JoinAdd(d)
  <2>1. handling'[d] = "joinAnnounce"
    BY <1>1 DEF JoinAdd, FlagsOK
  <2>2. d \in Elements(members')
    BY <1>1 DEF MembersStep, JoinAdd, LeaveRemove
  <2> QED
    BY <2>1, <2>2
<1>2. CASE LeaveRemove(d)
  <2>1. handling'[d] = "leaveAnnounce" /\ session' = session /\ handling[d] = "leaveRemove"
    BY <1>2 DEF LeaveRemove, socketVars, FlagsOK
  <2>2. d \notin Elements(members')
    BY <1>2 DEF MembersStep, JoinAdd, LeaveRemove
  <2>3. session[d] \in {"leaving", "closing", "gone"}
    BY <2>1 DEF HandlerOK, LeaveSteps
  <2> QED
    BY <2>1, <2>2, <2>3
<1>3. CASE ~JoinAdd(d) /\ ~LeaveRemove(d)
  <2>1. d \in Elements(members') <=> d \in Elements(members)
    BY <1>3 DEF MembersStep
  <2>2. handling'[d] \in {"joinAnnounce", "joinTell"} => d \in Elements(members)
    BY <1>3, Processes DEF HandlerStep, Announcing, Tell, TellClosed, TellWait, TellSend, TellTimeout,
       JoinAnnounce, JoinOver, LeaveAnnounce, LeaveOver, Answer, ListOK, FlagsOK
  <2>3. handling'[d] \in {"leaveAnnounce", "leaveTell"} => d \notin Elements(members)
    BY <1>3, Processes DEF HandlerStep, Announcing, Tell, TellClosed, TellWait, TellSend, TellTimeout,
       JoinAnnounce, JoinOver, LeaveAnnounce, LeaveOver, Answer, ListOK, FlagsOK
  <2>4. ASSUME session'[d] \in {"joining", "users", "serving"}, Added(d)' PROVE d \in Elements(members)
    <3>1. Added(d)
      BY <1>3, <2>4 DEF Worsens
    <3>2. session[d] \in {"joining", "users", "serving"}
      BY <2>4, <3>1 DEF Onward, Added
    <3> QED
      BY <3>1, <3>2 DEF ListOK
  <2> QED
    BY <2>1, <2>2, <2>3, <2>4
<1> QED
  BY <1>1, <1>2, <1>3

\* What may be the business of the handler of d at a step of its own.
Business(d, step, tells, message) ==
  /\ step \notin {"joinTell", "leaveTell"} => tells = <<>>
  /\ step = "joinTell" /\ tells # <<>> => message = JoinMsg(d)
  /\ step = "leaveTell" /\ tells # <<>> => message = LeaveMsg(d)
  /\ \A c \in Elements(tells) : Added(c)

LEMMA NextTells ==
  ASSUME FlagsOK, ListsOK, ListsOK', EnterOK, TellsOK, Onward, \A d \in Client : HandlerStep(d)
  PROVE  TellsOK'
<1>1. ASSUME NEW d \in Client
      PROVE  Business(d, handling'[d], todo'[Handler(d)], carry'[Handler(d)])
  <2>1. Business(d, handling[d], todo[Handler(d)], carry[Handler(d)])
    BY DEF TellsOK, Telling, Business
  <2>2. CASE Keeps(d) /\ handling'[d] = handling[d]
    BY <2>1, <2>2 DEF Keeps
  <2>3. CASE Keeps(d) /\ handling[d] \notin Announcing /\ handling'[d] \notin Announcing
    BY <2>1, <2>3 DEF Keeps, Announcing, Business
  <2>4. CASE Tell(Handler(d))
    <3>1. handling'[d] = handling[d] /\ carry'[Handler(d)] = carry[Handler(d)]
      BY <2>4 DEF Tell, TellClosed, TellWait, TellSend, TellTimeout
    <3>2. \/ todo'[Handler(d)] = todo[Handler(d)]
          \/ todo[Handler(d)] # <<>> /\ todo'[Handler(d)] = Tail(todo[Handler(d)])
      BY <2>4, Processes DEF Tell, TellClosed, TellWait, TellSend, TellTimeout, Told, ListsOK
    <3>3. CASE todo'[Handler(d)] = todo[Handler(d)]
      BY <2>1, <3>1, <3>3
    <3>4. CASE todo[Handler(d)] # <<>> /\ todo'[Handler(d)] = Tail(todo[Handler(d)])
      <4>1. todo[Handler(d)] \in Seq(Client)
        BY Processes DEF ListsOK
      <4>2. Elements(todo'[Handler(d)]) \subseteq Elements(todo[Handler(d)])
        BY <3>4, <4>1, TailList
      <4> QED
        BY <2>1, <3>1, <3>4, <4>2 DEF Business
    <3> QED
      BY <3>2, <3>3, <3>4
  <2>5. CASE JoinAdd(d) \/ LeaveRemove(d)
    <3>1. /\ handling[d] \notin {"joinTell", "leaveTell"} /\ handling'[d] \notin {"joinTell", "leaveTell"}
          /\ todo' = todo /\ carry' = carry
      BY <2>5 DEF JoinAdd, LeaveRemove, passVars, FlagsOK
    <3> QED
      BY <2>1, <3>1 DEF Business
  <2>6. CASE JoinAnnounce(d)
    <3>1. /\ handling'[d] = "joinTell" /\ todo'[Handler(d)] = members
          /\ carry'[Handler(d)] = JoinMsg(d)
      BY <2>6, Processes DEF JoinAnnounce, JoinMsg, FlagsOK, ListsOK
    <3> QED
      BY <3>1, MembersAdded DEF Business
  <2>7. CASE LeaveAnnounce(d)
    <3>1. /\ handling'[d] = "leaveTell" /\ todo'[Handler(d)] = members
          /\ carry'[Handler(d)] = LeaveMsg(d)
      BY <2>7, Processes DEF LeaveAnnounce, LeaveMsg, FlagsOK, ListsOK
    <3> QED
      BY <3>1, MembersAdded DEF Business
  <2>8. CASE JoinOver(d) \/ LeaveOver(d)
    <3>1. todo'[Handler(d)] = <<>>
      BY <2>8 DEF JoinOver, LeaveOver
    <3> QED
      BY <3>1 DEF Business, Elements
  <2> QED
    BY <2>2, <2>3, <2>4, <2>5, <2>6, <2>7, <2>8 DEF HandlerStep
<1>2. ASSUME NEW d \in Client, NEW c \in Elements(todo'[Handler(d)]) PROVE Added(c)'
  <2>1. todo'[Handler(d)] \in Seq(Client)
    BY Processes DEF ListsOK
  <2>2. c \in Client
    BY <2>1 DEF Elements
  <2> QED
    BY <1>1, <2>2, AddedStays DEF Business
<1> QED
  BY <1>1, <1>2 DEF TellsOK, Telling, Business

LEMMA NextForwards ==
  ASSUME ListsOK, QueuesOK, ForwardsOK, Changes
  PROVE  ForwardsOK'
<1>1. CASE ForwardTake
  BY <1>1, TailList, Processes DEF ForwardTake, ForwardsOK, QueuesOK, ListsOK
<1>2. CASE Tell(Forwarder)
  BY <1>2, Processes DEF Tell, TellClosed, TellWait, TellSend, TellTimeout, passVars, ForwardsOK
<1> QED
  BY <1>1, <1>2 DEF Changes, ForwardsOK

\* Whoever passes on news is a handler at work.
Brings(d, m) ==
  \/ handling[d] = "joinTell" /\ m = JoinMsg(d)
  \/ handling[d] = "leaveTell" /\ m = LeaveMsg(d)

LEMMA WhoBrings ==
  ASSUME CarryOK, CloseOK, TellsOK, ForwardsOK, NEW p \in Process, todo[p] # <<>>, News(carry[p])
  PROVE  \E d \in Client : p = Handler(d) /\ Brings(d, carry[p])
<1>1. p # Forwarder
  BY MsgTypes DEF ForwardsOK, News
<1>2. p # Closer
  BY DEF CloseOK, News
<1>3. \A c \in Client : p # Reader(c)
  BY MsgTypes DEF CarryOK, News
<1>4. PICK d \in Client : p = Handler(d)
  BY <1>1, <1>2, <1>3 DEF Process
<1> QED
  BY <1>4 DEF TellsOK, Telling, Brings

-----------------------------------------------------------------------------
(* What a client was sent and what waits for it *)

\* The message m enters the queue of c; if it is news, it is brought by a
\* handler that had c on its list.
Arrives(c, m) ==
  /\ queue'[c] = Append(queue[c], m) /\ received'[c] = received[c]
  /\ m \in Msg
  /\ c \notin dropped /\ News(m)
       => \E d \in Client : Brings(d, m) /\ c \in Elements(todo[Handler(d)])

ReachStep(c) ==
  \/ queue'[c] = queue[c] /\ received'[c] = received[c]
  \/ /\ queue'[c] = queue[c] /\ GetUsers(c) /\ c \in alive
     /\ received'[c] = <<[type |-> "connect", users |-> Elements(members)]>>
  \/ /\ queue[c] # <<>> /\ queue'[c] = Tail(queue[c])
     /\ c \in writing /\ (c \in alive <=> c \in alive')
     /\ received'[c] = IF c \in alive THEN Append(received[c], Head(queue[c])) ELSE received[c]
  \/ \E m : Arrives(c, m)

LEMMA ReachSteps ==
  ASSUME FlagsOK, ListsOK, QueuesOK, CarryOK, CloseOK, TellsOK, ForwardsOK, EarlyOK, LateOK,
         Changes, NEW c \in Client
  PROVE  ReachStep(c)
<1>1. ASSUME NEW e \in Client, GetUsers(e) PROVE ReachStep(c)
  <2>1. queue' = queue
    BY <1>1 DEF GetUsers, remoteVars
  <2>2. CASE c = e /\ c \in alive
    <3>1. received[c] = <<>>
      BY <1>1, <2>2 DEF GetUsers, EarlyOK, Starts
    <3>2. received'[c] = Append(received[c], [type |-> "connect", users |-> Elements(members)])
      BY <1>1, <2>2 DEF GetUsers, QueuesOK
    <3>3. \A x : Append(<<>>, x) = <<x>>
      OBVIOUS
    <3>4. received'[c] = <<[type |-> "connect", users |-> Elements(members)]>>
      BY <3>1, <3>2, <3>3
    <3> QED
      BY <1>1, <2>1, <2>2, <3>4 DEF ReachStep
  <2>3. CASE c # e \/ c \notin alive
    <3>1. received'[c] = received[c]
      BY <1>1, <2>3 DEF GetUsers, QueuesOK
    <3> QED
      BY <2>1, <3>1 DEF ReachStep
  <2> QED
    BY <2>2, <2>3
<1>2. ASSUME NEW e \in Client, Write(e) PROVE ReachStep(c)
  <2>1. CASE c = e
    BY <1>2, <2>1 DEF Write, QueuesOK, ReachStep
  <2>2. CASE c # e
    BY <1>2, <2>2 DEF Write, QueuesOK, ReachStep
  <2> QED
    BY <2>1, <2>2
<1>3. ASSUME NEW p \in Process, TellSend(p) PROVE ReachStep(c)
  <2>1. todo[p] # <<>> /\ received' = received /\ todo[p] \in Seq(Client)
    BY <1>3 DEF TellSend, socketVars, ListsOK
  <2>2. carry[p] \in Msg
    BY <2>1 DEF CarryOK
  <2>3. CASE c = Head(todo[p])
    <3>1. queue'[c] = Append(queue[c], carry[p])
      BY <1>3, <2>3 DEF TellSend, Enqueue, QueuesOK
    <3>2. c \in Elements(todo[p])
      BY <2>1, <2>3, TailList
    <3>3. News(carry[p]) => \E d \in Client : Brings(d, carry[p]) /\ c \in Elements(todo[Handler(d)])
      BY <2>1, <3>2, WhoBrings
    <3> QED
      BY <2>1, <2>2, <3>1, <3>3 DEF ReachStep, Arrives
  <2>4. CASE c # Head(todo[p])
    BY <1>3, <2>1, <2>4 DEF TellSend, Enqueue, QueuesOK, ReachStep
  <2> QED
    BY <2>3, <2>4
<1>4. ASSUME NEW e \in Client, LateTell(e) PROVE ReachStep(c)
  <2>1. PICK m : <<e, m>> \in lateTells /\ Enqueue(e, m)
    <3>1. PICK x \in lateTells : x[1] = e /\ Enqueue(e, x[2])
      BY <1>4 DEF LateTell
    <3>2. x = <<e, x[2]>>
      BY <3>1 DEF QueuesOK
    <3> QED
      BY <3>1, <3>2
  <2>2. m \in Msg /\ received' = received
    BY <1>4, <2>1 DEF LateTell, socketVars, QueuesOK
  <2>3. CASE c = e
    <3>1. queue'[c] = Append(queue[c], m)
      BY <2>1, <2>3 DEF Enqueue, QueuesOK
    <3>2. c \notin dropped => ~News(m)
      <4>1. m.type # "message" => e \in dropped
        BY <2>1 DEF LateOK
      <4> QED
        BY <2>3, <4>1 DEF News
    <3> QED
      BY <2>2, <3>1, <3>2 DEF ReachStep, Arrives
  <2>4. CASE c # e
    BY <2>1, <2>2, <2>4 DEF Enqueue, QueuesOK, ReachStep
  <2> QED
    BY <2>3, <2>4
<1> QED
  BY <1>1, <1>2, <1>3, <1>4 DEF Changes, ReachStep

LEMMA NextEarly ==
  ASSUME FlagsOK, ListsOK, QueuesOK, EarlyOK, Onward, Worsens, \A c \in Client : ReachStep(c)
  PROVE  EarlyOK'
<1> SUFFICES ASSUME NEW c \in Client
             PROVE  /\ Starts(c)' => received'[c] = <<>> /\ c \notin writing'
                    /\ session'[c] = "serving" /\ c \in alive' => received'[c] # <<>>
  BY DEF EarlyOK
<1>1. GetUsers(c) => session'[c] = "serving" /\ session[c] = "users"
  BY DEF GetUsers, FlagsOK
<1>2. ASSUME Starts(c)' PROVE received'[c] = <<>> /\ c \notin writing'
  <2>1. Starts(c) /\ session'[c] # "serving"
    BY <1>2 DEF Starts, Onward
  <2>2. received[c] = <<>> /\ c \notin writing
    BY <2>1 DEF EarlyOK
  <2>3. c \notin writing'
    BY <1>1, <2>1, <2>2 DEF Worsens
  <2>4. received'[c] = received[c]
    BY <1>1, <2>1, <2>2 DEF ReachStep, Arrives
  <2> QED
    BY <2>2, <2>3, <2>4
<1>3. ASSUME session'[c] = "serving", c \in alive' PROVE received'[c] # <<>>
  <2>1. \A s \in Seq(Frame), x \in Frame : Append(s, x) # <<>>
    BY AppendProperties, EmptySeq
  <2>5. received[c] \in Seq(Frame) /\ (queue[c] # <<>> => Head(queue[c]) \in Frame)
    BY TailList DEF QueuesOK, Frame
  <2>6. [type |-> "connect", users |-> Elements(members)] \in Frame
    BY MsgTypes DEF ListsOK, Elements
  <2>2. c \in alive
    BY <1>3 DEF Onward
  <2>3. CASE session[c] = "serving"
    <3>1. received[c] # <<>>
      BY <2>2, <2>3 DEF EarlyOK
    <3> QED
      BY <1>1, <2>1, <2>3, <2>5, <3>1 DEF ReachStep, Arrives
  <2>4. CASE GetUsers(c)
    BY <2>1, <2>2, <2>4, <2>5, <2>6 DEF GetUsers, QueuesOK
  <2> QED
    BY <1>3, <2>3, <2>4 DEF Worsens
<1> QED
  BY <1>2, <1>3

LEMMA NextLate ==
  ASSUME ListsOK, LateOK, Worsens, Changes
  PROVE  LateOK'
<1>1. dropped \subseteq dropped'
  BY DEF Worsens, TellTimeout
<1>2. ASSUME NEW p \in Process, TellTimeout(p)
      PROVE  \A x \in lateTells' \ lateTells : x[2].type # "message" => x[1] \in dropped'
  BY <1>2 DEF TellTimeout
<1> QED
  BY <1>1, <1>2 DEF Changes, LateOK

-----------------------------------------------------------------------------
(* The order of the news *)

LEMMA NoNews ==
  /\ \A S : ~News([type |-> "connect", users |-> S]) /\ [type |-> "connect", users |-> S].type # "leave"
  /\ \A f \in Frame : f.type = "leave" => f.who \in Client /\ f = LeaveMsg(f.who)
  /\ \A d : /\ News(JoinMsg(d)) /\ News(LeaveMsg(d)) /\ JoinMsg(d).type = "join"
             /\ LeaveMsg(d).type = "leave" /\ JoinMsg(d).who = d /\ LeaveMsg(d).who = d
BY DEF News, JoinMsg, LeaveMsg, Frame, Msg, Broadcasts, Directs, Announcements

\* What is brought is true at the time.
LEMMA NewsIsTrue ==
  ASSUME RegOK, ListOK, TellsOK, NEW c \in Client, NEW d \in Client, NEW m, Brings(d, m),
         c \in Elements(todo[Handler(d)])
  PROVE  /\ Added(c) /\ Added(d)
         /\ m.who = d /\ m.type \in {"join", "leave"}
         /\ m.type = "join" => d \in Elements(members)
         /\ m.type = "leave" => d \notin Elements(members)
<1>1. Added(c)
  BY DEF TellsOK
<1>2. handling[d] \in {"joinTell", "leaveTell"}
  BY DEF Brings
<1>3. Added(d)
  BY <1>2 DEF Added, RegOK
<1> QED
  BY <1>1, <1>2, <1>3, NoNews DEF Brings, ListOK

LEMMA ReachedBy ==
  ASSUME QueuesOK, ListsOK, NEW c \in Client, ReachStep(c)
  PROVE  \/ Reached(c)' \subseteq Reached(c)
         \/ /\ GetUsers(c) /\ c \in alive
            /\ Reached(c)' \subseteq Reached(c) \cup {[type |-> "connect", users |-> Elements(members)]}
         \/ \E m : Arrives(c, m) /\ Reached(c)' = Reached(c) \cup {m}
<1>1. queue[c] \in Seq(Frame) /\ queue[c] \in Seq(Msg) /\ received[c] \in Seq(Frame)
  BY DEF QueuesOK, Frame
<1>2. CASE queue'[c] = queue[c] /\ received'[c] = received[c]
  BY <1>2 DEF Reached
<1>3. CASE /\ queue'[c] = queue[c] /\ GetUsers(c) /\ c \in alive
           /\ received'[c] = <<[type |-> "connect", users |-> Elements(members)]>>
  <2>1. \A x : Elements(<<x>>) = {x}
    BY DEF Elements
  <2> QED
    BY <1>3, <2>1 DEF Reached
<1>4. CASE /\ queue[c] # <<>> /\ queue'[c] = Tail(queue[c])
           /\ received'[c] = IF c \in alive THEN Append(received[c], Head(queue[c])) ELSE received[c]
  <2>1. Elements(queue[c]) = {Head(queue[c])} \cup Elements(Tail(queue[c])) /\ Head(queue[c]) \in Frame
    BY <1>1, <1>4, TailList
  <2>2. Elements(Append(received[c], Head(queue[c]))) = Elements(received[c]) \cup {Head(queue[c])}
    BY <1>1, <2>1, AppendList
  <2>3. Elements(received'[c]) \subseteq Elements(received[c]) \cup {Head(queue[c])}
    BY <1>4, <2>2
  <2>4. Elements(queue'[c]) \subseteq Elements(queue[c])
    BY <1>4, <2>1
  <2> QED
    BY <2>1, <2>3, <2>4 DEF Reached
<1>5. ASSUME NEW m, Arrives(c, m) PROVE Reached(c)' = Reached(c) \cup {m}
  BY <1>1, <1>5, AppendList DEF Arrives, Reached
<1> QED
  BY <1>2, <1>3, <1>4, <1>5 DEF ReachStep

LEMMA NextNews ==
  ASSUME FlagsOK, ListsOK, QueuesOK, QueuesOK', RegOK, ListOK, TellsOK, NewsOK, Onward, Worsens,
         MembersStep, \A c \in Client : ReachStep(c)
  PROVE  NewsOK'
<1> SUFFICES ASSUME NEW c \in Client \ dropped', NEW f \in Reached(c)'
             PROVE  /\ News(f) => Added(c)'
                    /\ f.type = "leave" => Added(f.who)' /\ f.who \notin Elements(members')
  BY DEF NewsOK
<1>1. c \notin dropped
  BY DEF Worsens, TellTimeout
<1>2. CASE f \in Reached(c)
  <2>1. /\ News(f) => Added(c)
        /\ f.type = "leave" => Added(f.who) /\ f.who \notin Elements(members)
    BY <1>1, <1>2 DEF NewsOK
  <2>2. f \in Frame
    BY <1>2 DEF Reached, QueuesOK, Elements, Frame
  <2> QED
    BY <2>1, <2>2, NoNews, AddedStays, LeftStays
<1>3. CASE \E S : f = [type |-> "connect", users |-> S]
  BY <1>3, NoNews
<1>4. ASSUME Arrives(c, f), News(f)
      PROVE  /\ News(f) => Added(c)'
             /\ f.type = "leave" => Added(f.who)' /\ f.who \notin Elements(members')
  <2>1. PICK d \in Client : Brings(d, f) /\ c \in Elements(todo[Handler(d)])
    BY <1>1, <1>4 DEF Arrives
  <2>2. Added(c) /\ Added(d) /\ f.who = d /\ (f.type = "leave" => d \notin Elements(members))
    BY <2>1, NewsIsTrue
  <2> QED
    BY <2>2, AddedStays, LeftStays
<1>5. CASE ~News(f)
  BY <1>5 DEF News
<1> QED
  BY <1>2, <1>3, <1>4, <1>5, ReachedBy

LEMMA GoneInTail ==
  ASSUME NEW S, NEW s \in Seq(S), s # <<>>, NEW d, GoneIn(s, d)
  PROVE  GoneIn(Tail(s), d) /\ (Head(s) = LeaveMsg(d) => \A f \in Elements(Tail(s)) : ~Shows(f, d))
<1> DEFINE t == Tail(s)
<1>1. /\ DOMAIN s = 1 .. Len(s) /\ DOMAIN t = 1 .. Len(t) /\ Len(s) \in Nat \ {0}
      /\ Len(t) = Len(s) - 1 /\ Head(s) = s[1]
      /\ \A i \in 1 .. Len(t) : t[i] = s[i + 1]
  BY HeadTailProperties, LenProperties, EmptySeq
<1>2. \A i \in 1 .. Len(t) : i + 1 \in DOMAIN s /\ i + 1 > 1 /\ i \in Int
  BY <1>1
<1>3. 1 \in DOMAIN s
  BY <1>1
<1> HIDE DEF t
<1>4. ASSUME NEW i \in DOMAIN t, NEW j \in DOMAIN t, t[i] = LeaveMsg(d), j > i
      PROVE  ~Shows(t[j], d)
  <2>1. j + 1 > i + 1 /\ s[i + 1] = LeaveMsg(d) /\ t[j] = s[j + 1]
    BY <1>1, <1>2, <1>4
  <2> QED
    BY <1>1, <1>2, <2>1 DEF GoneIn
<1>5. ASSUME Head(s) = LeaveMsg(d), NEW j \in DOMAIN t PROVE ~Shows(t[j], d)
  BY <1>1, <1>2, <1>3, <1>5 DEF GoneIn
<1> QED
  BY <1>4, <1>5 DEF GoneIn, Elements, t

LEMMA GoneInAppend ==
  ASSUME NEW S, NEW s \in Seq(S), NEW x \in S, NEW d, GoneIn(s, d),
         LeaveMsg(d) \in Elements(s) => ~Shows(x, d)
  PROVE  GoneIn(Append(s, x), d)
<1> DEFINE t == Append(s, x)
<1>1. /\ DOMAIN s = 1 .. Len(s) /\ DOMAIN t = 1 .. Len(s) + 1 /\ Len(s) \in Nat
      /\ t[Len(s) + 1] = x /\ \A i \in 1 .. Len(s) : t[i] = s[i]
  BY AppendProperties, LenProperties
<1> HIDE DEF t
<1>2. ASSUME NEW i \in DOMAIN t, NEW j \in DOMAIN t, t[i] = LeaveMsg(d), j > i
      PROVE  ~Shows(t[j], d)
  <2>1. i \in DOMAIN s /\ s[i] = LeaveMsg(d)
    BY <1>1, <1>2
  <2>2. CASE j \in DOMAIN s
    BY <1>1, <1>2, <2>1, <2>2 DEF GoneIn
  <2>3. CASE j = Len(s) + 1
    BY <1>1, <2>1, <2>3 DEF Elements
  <2> QED
    BY <1>1, <2>2, <2>3
<1> QED
  BY <1>2 DEF GoneIn, t

LEMMA NextOrder ==
  ASSUME FlagsOK, ListsOK, QueuesOK, RegOK, ListOK, TellsOK, EarlyOK, NewsOK, OrderOK, Worsens,
         \A c \in Client : ReachStep(c)
  PROVE  OrderOK'
<1> SUFFICES ASSUME NEW c \in Client \ dropped', NEW d \in Client
             PROVE  /\ GoneIn(received'[c], d) /\ GoneIn(queue'[c], d)
                    /\ LeaveMsg(d) \in Elements(received'[c]) =>
                         \A f \in Elements(queue'[c]) : ~Shows(f, d)
  BY DEF OrderOK, GoneIn, Shows
<1>1. c \in Client \ dropped
  BY DEF Worsens, TellTimeout
<1>2. /\ GoneIn(received[c], d) /\ GoneIn(queue[c], d)
      /\ LeaveMsg(d) \in Elements(received[c]) => \A f \in Elements(queue[c]) : ~Shows(f, d)
  BY <1>1 DEF OrderOK
<1>3. queue[c] \in Seq(Frame) /\ queue[c] \in Seq(Msg) /\ received[c] \in Seq(Frame)
  BY DEF QueuesOK, Frame
<1>4. CASE queue'[c] = queue[c] /\ received'[c] = received[c]
  BY <1>2, <1>4
<1>5. CASE /\ queue'[c] = queue[c] /\ GetUsers(c)
           /\ received'[c] = <<[type |-> "connect", users |-> Elements(members)]>>
  <2> DEFINE x == [type |-> "connect", users |-> Elements(members)]
  <2>1. x # LeaveMsg(d) /\ received'[c] = <<x>>
    BY <1>5, NoNews
  <2> HIDE DEF x
  <2>2. Elements(received'[c]) = {x} /\ GoneIn(received'[c], d)
    BY <2>1 DEF Elements, GoneIn
  <2> QED
    BY <1>2, <1>5, <2>1, <2>2
<1>6. CASE /\ queue[c] # <<>> /\ queue'[c] = Tail(queue[c])
           /\ received'[c] = IF c \in alive THEN Append(received[c], Head(queue[c])) ELSE received[c]
  <2>1. /\ Elements(queue[c]) = {Head(queue[c])} \cup Elements(Tail(queue[c]))
        /\ Head(queue[c]) \in Frame
    BY <1>3, <1>6, TailList
  <2>2. /\ GoneIn(Tail(queue[c]), d)
        /\ Head(queue[c]) = LeaveMsg(d) => \A f \in Elements(Tail(queue[c])) : ~Shows(f, d)
    BY <1>2, <1>3, <1>6, GoneInTail
  <2>3. LeaveMsg(d) \in Elements(received[c]) => ~Shows(Head(queue[c]), d)
    BY <1>2, <2>1
  <2>4. GoneIn(Append(received[c], Head(queue[c])), d)
    BY <1>2, <1>3, <2>1, <2>3, GoneInAppend
  <2>5. Elements(Append(received[c], Head(queue[c]))) = Elements(received[c]) \cup {Head(queue[c])}
    BY <1>3, <2>1, AppendList
  <2>6. GoneIn(received'[c], d) /\ Elements(received'[c]) \subseteq Elements(received[c]) \cup {Head(queue[c])}
    BY <1>2, <1>6, <2>4, <2>5
  <2> QED
    BY <1>2, <1>6, <2>1, <2>2, <2>6
<1>7. ASSUME NEW m, Arrives(c, m)
      PROVE  /\ GoneIn(received'[c], d) /\ GoneIn(queue'[c], d)
             /\ LeaveMsg(d) \in Elements(received'[c]) =>
                  \A f \in Elements(queue'[c]) : ~Shows(f, d)
  <2>1. LeaveMsg(d) \in Reached(c) => ~Shows(m, d)
    <3> SUFFICES ASSUME LeaveMsg(d) \in Reached(c), Shows(m, d) PROVE FALSE
      OBVIOUS
    <3>1. d \notin Elements(members)
      BY <1>1, NoNews DEF NewsOK
    <3>2. m.type = "join" /\ m.who = d
      BY <1>7 DEF Arrives, Shows, Msg, Broadcasts, Directs, Announcements
    <3>3. PICK e \in Client : Brings(e, m) /\ c \in Elements(todo[Handler(e)])
      BY <1>1, <1>7, <3>2 DEF Arrives, News
    <3>4. d \in Elements(members)
      BY <3>2, <3>3, NewsIsTrue
    <3> QED
      BY <3>1, <3>4
  <2>2. Elements(Append(queue[c], m)) = Elements(queue[c]) \cup {m} /\ m \in Msg
    BY <1>3, <1>7, AppendList DEF Arrives
  <2>3. GoneIn(Append(queue[c], m), d)
    BY <1>2, <1>3, <2>1, <2>2, GoneInAppend DEF Reached
  <2> QED
    BY <1>2, <1>7, <2>1, <2>2, <2>3 DEF Arrives, Reached
<1> QED
  BY <1>4, <1>5, <1>6, <1>7 DEF ReachStep

-----------------------------------------------------------------------------
(* Who is known and who is still to be *)

\* Nothing that reached a client whose socket is open is lost.
LEMMA ReachedStays ==
  ASSUME QueuesOK, NEW c \in Client, ReachStep(c), EarlyOK, c \in alive'
  PROVE  Reached(c) \subseteq Reached(c)'
<1>1. queue[c] \in Seq(Frame) /\ queue[c] \in Seq(Msg) /\ received[c] \in Seq(Frame)
  BY DEF QueuesOK, Frame
<1>2. CASE queue'[c] = queue[c] /\ received'[c] = received[c]
  BY <1>2 DEF Reached
<1>3. CASE queue'[c] = queue[c] /\ GetUsers(c)
  <2>1. received[c] = <<>>
    BY <1>3 DEF GetUsers, EarlyOK, Starts
  <2> QED
    BY <1>3, <2>1 DEF Reached, Elements
<1>4. CASE /\ queue[c] # <<>> /\ queue'[c] = Tail(queue[c]) /\ (c \in alive <=> c \in alive')
           /\ received'[c] = IF c \in alive THEN Append(received[c], Head(queue[c])) ELSE received[c]
  <2>1. Elements(queue[c]) = {Head(queue[c])} \cup Elements(Tail(queue[c])) /\ Head(queue[c]) \in Frame
    BY <1>1, <1>4, TailList
  <2>2. Elements(Append(received[c], Head(queue[c]))) = Elements(received[c]) \cup {Head(queue[c])}
    BY <1>1, <2>1, AppendList
  <2> QED
    BY <1>4, <2>1, <2>2 DEF Reached
<1>5. ASSUME NEW m, Arrives(c, m) PROVE Reached(c) \subseteq Reached(c)'
  BY <1>1, <1>5, AppendList DEF Arrives, Reached
<1> QED
  BY <1>2, <1>3, <1>4, <1>5 DEF ReachStep

\* What a handler has to tell somebody who follows, it still has to tell after a
\* step, or it has told it.
LEMMA TellingGoesOn ==
  ASSUME FlagsOK, ListsOK, QueuesOK, RegOK, ListOK, TellsOK, NEW c \in Client, NEW d \in Client,
         HandlerStep(d), Follows(c), Follows(c)', NEW a, NEW t, NEW m,
         \/ a = "joinAnnounce" /\ t = "joinTell" /\ m = JoinMsg(d)
         \/ a = "leaveAnnounce" /\ t = "leaveTell" /\ m = LeaveMsg(d),
         \/ handling[d] = a
         \/ handling[d] = t /\ c \in Elements(todo[Handler(d)])
  PROVE  \/ m \in Elements(queue'[c])
         \/ handling'[d] = a
         \/ handling'[d] = t /\ c \in Elements(todo'[Handler(d)])
<1>1. handling[d] \in Announcing
  BY DEF Announcing
<1>2. CASE Keeps(d) /\ handling'[d] = handling[d]
  BY <1>2 DEF Keeps
<1>3. CASE Tell(Handler(d))
  <2> DEFINE p == Handler(d)
  <2>1. p \in Process /\ todo[p] # <<>> /\ handling' = handling /\ todo[p] \in Seq(Client)
    BY <1>3, Processes DEF Tell, TellClosed, TellWait, TellSend, TellTimeout, ListsOK
  <2>2. handling[d] = t /\ c \in Elements(todo[p])
    BY <2>1 DEF TellsOK, Telling
  <2>3. carry[p] = m /\ m.type \in {"join", "leave"} /\ m \in Msg
    <3>1. carry[p] = m
      BY <2>1, <2>2 DEF TellsOK
    <3>2. m.type \in {"join", "leave"}
      BY NoNews
    <3>3. m \in Msg
      BY MsgTypes DEF JoinMsg, LeaveMsg
    <3> QED
      BY <3>1, <3>2, <3>3
  <2>4. Elements(todo[p]) = {Head(todo[p])} \cup Elements(Tail(todo[p]))
    BY <2>1, TailList
  <2> HIDE DEF p
  <2>5. CASE todo'[p] = todo[p]
    BY <2>1, <2>2, <2>5 DEF p
  <2>6. CASE todo'[p] = Tail(todo[p]) /\ c # Head(todo[p])
    BY <2>1, <2>2, <2>4, <2>6 DEF p
  <2>7. CASE c = Head(todo[p]) /\ TellClosed(p)
    <3>1. c \notin listening \ rdone
      BY <2>7 DEF TellClosed
    <3>2. c \in rdone
      BY <3>1 DEF RegOK, Follows
    <3> QED
      BY <3>2 DEF Follows
  <2>8. CASE c = Head(todo[p]) /\ TellTimeout(p)
    <3>1. c \in dropped'
      BY <2>3, <2>8 DEF TellTimeout
    <3> QED
      BY <3>1 DEF Follows
  <2>9. CASE c = Head(todo[p]) /\ TellSend(p)
    <3>1. queue'[c] = Append(queue[c], m)
      BY <2>3, <2>9 DEF TellSend, Enqueue, QueuesOK
    <3>2. Elements(queue'[c]) = Elements(queue[c]) \cup {m}
      BY <2>3, <3>1, AppendList DEF QueuesOK
    <3> QED
      BY <3>2
  <2>10. \/ TellWait(p) /\ todo'[p] = todo[p]
         \/ todo'[p] = Tail(todo[p]) /\ (TellClosed(p) \/ TellSend(p) \/ TellTimeout(p))
    BY <1>3, <2>1 DEF p, Tell, TellClosed, TellWait, TellSend, TellTimeout, Told, ListsOK
  <2> QED
    BY <2>5, <2>6, <2>7, <2>8, <2>9, <2>10
<1>4. CASE JoinAnnounce(d) \/ LeaveAnnounce(d)
  <2>1. c \in Elements(members)
    BY DEF Follows, ListOK
  <2>2. handling[d] = a /\ handling'[d] = t /\ todo'[Handler(d)] = members
    BY <1>4, Processes DEF JoinAnnounce, LeaveAnnounce, FlagsOK, ListsOK
  <2> QED
    BY <2>1, <2>2
<1>5. ~(JoinAdd(d) \/ LeaveRemove(d))
  BY <1>1 DEF JoinAdd, LeaveRemove, Announcing
<1>6. ~(JoinOver(d) \/ LeaveOver(d))
  BY DEF JoinOver, LeaveOver, Elements
<1> QED
  BY <1>1, <1>2, <1>3, <1>4, <1>5, <1>6 DEF HandlerStep

LEMMA WhoFollows ==
  ASSUME Onward, Worsens, NEW c \in Client, Follows(c)'
  PROVE  Follows(c) \/ JoinAdd(c)
<1>1. /\ session'[c] \in {"joining", "users", "serving"} /\ Added(c)'
      /\ c \in alive' \ (cancelled' \cup rdone' \cup dropped')
  BY DEF Follows
<1>2. Added(c) \/ JoinAdd(c)
  BY <1>1 DEF Worsens
<1>3. c \in alive \ (cancelled \cup rdone \cup dropped)
  BY <1>1 DEF Worsens, Onward, TellTimeout
<1>4. Added(c) => session[c] \in {"joining", "users", "serving"}
  BY <1>1 DEF Onward, Added
<1> QED
  BY <1>2, <1>3, <1>4 DEF Follows

Knows(c, d) ==
  /\ received[c] # <<>> /\ d \in Elements(members) => Heard(c, d) \/ ToHear(c, d)
  /\ d \notin Elements(members) /\ Heard(c, d) => Parted(c, d) \/ ToPart(c, d)

LEMMA KnowsStays ==
  ASSUME FlagsOK, ListsOK, QueuesOK, QueuesOK', RegOK, ListOK, TellsOK, EarlyOK, MembersStep,
         NEW c \in Client, NEW d \in Client, HandlerStep(d), ReachStep(c),
         Follows(c), Follows(c)', Knows(c, d)
  PROVE  Knows(c, d)'
<1>1. Reached(c) \subseteq Reached(c)'
  BY ReachedStays DEF Follows
<1>2. Heard(c, d) => Heard(c, d)'
  BY <1>1 DEF Heard, Shows
<1>3. Parted(c, d) => Parted(c, d)'
  BY <1>1 DEF Parted
<1>4. ToHear(c, d) => Heard(c, d)' \/ ToHear(c, d)'
  <2>1. JoinMsg(d) \in Elements(queue'[c]) => Heard(c, d)'
    BY NoNews DEF Heard, Reached, Shows
  <2> QED
    BY <2>1, TellingGoesOn DEF ToHear
<1>5. ToPart(c, d) => Parted(c, d)' \/ ToPart(c, d)'
  <2>1. LeaveMsg(d) \in Elements(queue'[c]) => Parted(c, d)'
    BY DEF Parted, Reached
  <2> QED
    BY <2>1, TellingGoesOn DEF ToPart
<1>6. ASSUME received'[c] # <<>>, d \in Elements(members') PROVE Heard(c, d)' \/ ToHear(c, d)'
  <2>1. CASE received[c] # <<>> /\ d \in Elements(members)
    BY <1>2, <1>4, <2>1 DEF Knows
  <2>2. CASE received[c] = <<>> /\ d \in Elements(members)
    <3>1. c \notin writing
      BY <2>2 DEF EarlyOK, Starts, Follows
    <3>2. received'[c] = <<[type |-> "connect", users |-> Elements(members)]>>
      BY <1>6, <2>2, <3>1 DEF ReachStep, Arrives
    <3>3. [type |-> "connect", users |-> Elements(members)] \in Elements(received'[c])
      BY <3>2 DEF Elements
    <3> QED
      BY <2>2, <3>3 DEF Heard, Reached, Shows
  <2>3. CASE d \notin Elements(members)
    <3>1. JoinAdd(d)
      BY <1>6, <2>3 DEF MembersStep
    <3> QED
      BY <3>1 DEF JoinAdd, ToHear, FlagsOK
  <2> QED
    BY <2>1, <2>2, <2>3
<1>7. ASSUME d \notin Elements(members'), Heard(c, d)' PROVE Parted(c, d)' \/ ToPart(c, d)'
  <2>1. CASE d \in Elements(members)
    <3>1. LeaveRemove(d)
      BY <1>7, <2>1 DEF MembersStep
    <3> QED
      BY <3>1 DEF LeaveRemove, ToPart, FlagsOK
  <2>2. CASE d \notin Elements(members)
    <3>1. PICK f \in Reached(c)' : Shows(f, d)
      BY <1>7 DEF Heard, Shows
    <3>2. f \in Reached(c)
      <4>1. CASE f = [type |-> "connect", users |-> Elements(members)]
        BY <2>2, <3>1, <4>1 DEF Shows
      <4>2. ~Arrives(c, f)
        <5> SUFFICES ASSUME Arrives(c, f) PROVE FALSE
          OBVIOUS
        <5>1. f.type = "join" /\ f.who = d
          BY <3>1 DEF Arrives, Shows, Msg, Broadcasts, Directs, Announcements
        <5>2. PICK e \in Client : Brings(e, f) /\ c \in Elements(todo[Handler(e)])
          BY <5>1 DEF Arrives, News, Follows
        <5> QED
          BY <2>2, <5>1, <5>2, NewsIsTrue
      <4> QED
        BY <3>1, <4>1, <4>2, ReachedBy
    <3>3. Heard(c, d)
      BY <3>1, <3>2 DEF Heard
    <3> QED
      BY <1>3, <1>5, <2>2, <3>3 DEF Knows
  <2> QED
    BY <2>1, <2>2
<1> QED
  BY <1>6, <1>7 DEF Knows

LEMMA NextKnows ==
  ASSUME FlagsOK, ListsOK, QueuesOK, QueuesOK', RegOK, HandlerOK, ListOK, TellsOK, EarlyOK, NewsOK,
         KnowsOK, Onward, Worsens, MembersStep, \A d \in Client : HandlerStep(d) /\ ReachStep(d)
  PROVE  KnowsOK'
<1> SUFFICES ASSUME NEW c \in Client, Follows(c)', NEW d \in Client PROVE Knows(c, d)'
  BY DEF KnowsOK, Knows
<1>1. CASE Follows(c)
  BY <1>1, KnowsStays DEF KnowsOK, Knows
<1>2. CASE JoinAdd(c)
  <2>1. session[c] = "joining"
    <3>1. session'[c] = session[c] /\ handling[c] = "joinAdd"
      BY <1>2 DEF JoinAdd, socketVars
    <3> QED
      BY <3>1 DEF HandlerOK, JoinSteps, Follows
  <2>2. received'[c] = <<>> /\ Reached(c)' = Elements(queue[c]) /\ c \notin dropped
    <3>1. received[c] = <<>> /\ received' = received /\ queue' = queue /\ dropped' = dropped
      BY <1>2, <2>1 DEF JoinAdd, socketVars, remoteVars, EarlyOK, Starts
    <3> QED
      BY <3>1 DEF Reached, Elements, Follows
  <2>3. ~Heard(c, d)'
    <3> SUFFICES ASSUME NEW f \in Elements(queue[c]), Shows(f, d) PROVE FALSE
      BY <2>2 DEF Heard, Shows
    <3>1. f \in Msg
      BY DEF QueuesOK, Elements
    <3>2. f.type = "join"
      BY <3>1 DEF Shows, Msg, Broadcasts, Directs, Announcements
    <3>3. Added(c)
      BY <2>2, <3>2 DEF NewsOK, News, Reached
    <3> QED
      BY <1>2, <3>3 DEF Added, JoinAdd
  <2> QED
    BY <2>2, <2>3 DEF Knows
<1> QED
  BY <1>1, <1>2, WhoFollows

-----------------------------------------------------------------------------
(* The invariant, and what it says when nothing is under way *)

ViewInv ==
  /\ ListOK /\ TellsOK /\ ForwardsOK /\ EarlyOK /\ LateOK
  /\ NewsOK /\ OrderOK /\ KnowsOK

LEMMA InitView == Init => ViewInv
<1> SUFFICES ASSUME Init PROVE ViewInv
  OBVIOUS
<1>1. ListOK /\ TellsOK /\ ForwardsOK
  BY Processes DEF Init, ListOK, Added, TellsOK, Telling, ForwardsOK, Elements
<1>2. EarlyOK /\ LateOK
  BY DEF Init, EarlyOK, Starts, LateOK
<1>3. \A c \in Client : Reached(c) = {}
  BY DEF Init, Reached, Elements
<1>4. NewsOK /\ OrderOK
  BY <1>3 DEF Init, NewsOK, OrderOK, GoneIn, Elements
<1>5. KnowsOK
  BY <1>3 DEF Init, KnowsOK, Heard
<1> QED
  BY <1>1, <1>2, <1>4, <1>5 DEF ViewInv

LEMMA NextView ==
  ASSUME BaseInv, BaseInv', BroadcastInv, ViewInv, [Next]_vars
  PROVE  ViewInv'
<1>1. /\ FlagsOK /\ ListsOK /\ QueuesOK /\ CarryOK /\ RegOK /\ CloseOK /\ ListsOK' /\ QueuesOK'
      /\ ToldInv
  BY TypeParts DEF BaseInv, ToldInv, TypeOK, ListsOK, QueuesOK
<1>2. HandlerOK /\ ReaderOK /\ EnterOK
  BY DEF BroadcastInv
<1>3. /\ ListOK /\ TellsOK /\ ForwardsOK /\ EarlyOK /\ LateOK
      /\ NewsOK /\ OrderOK /\ KnowsOK
  BY DEF ViewInv
<1>4. Onward /\ Changes /\ Worsens
  BY <1>1, <1>2, StepsGoOn, StepsChange, StepsWorsen
<1>5. MembersStep
  BY <1>1, <1>2, <1>4, MembersSteps
<1>6. \A d \in Client : HandlerStep(d)
  BY <1>1, <1>2, HandlerSteps
<1>7. \A c \in Client : ReachStep(c)
  BY <1>1, <1>3, <1>4, ReachSteps
<1>8. ListOK' /\ TellsOK' /\ ForwardsOK'
  BY <1>1, <1>2, <1>3, <1>4, <1>5, <1>6, NextListOK, NextTells, NextForwards
<1>9. EarlyOK' /\ LateOK'
  BY <1>1, <1>3, <1>4, <1>7, NextEarly, NextLate
<1>10. NewsOK' /\ OrderOK'
  BY <1>1, <1>3, <1>4, <1>5, <1>7, NextNews, NextOrder
<1>11. KnowsOK'
  BY <1>1, <1>2, <1>3, <1>4, <1>5, <1>6, <1>7, NextKnows
<1> QED
  BY <1>8, <1>9, <1>10, <1>11 DEF ViewInv

LEMMA ViewInvariance == Spec => [](BaseInv /\ BroadcastInv /\ ViewInv)
<1>1. BaseInv /\ BaseInv' /\ BroadcastInv /\ ViewInv /\ [Next]_vars => ViewInv'
  BY NextView
<1> QED
  BY <1>1, InitView, BroadcastInvariance, PTL DEF Spec

LEMMA QuietAgrees ==
  ASSUME BaseInv, BroadcastInv, ViewInv
  PROVE  ViewAgrees
<1>1. FlagsOK /\ ListsOK /\ QueuesOK
  BY TypeParts DEF BaseInv
<1>2. HandlerOK /\ EarlyOK /\ NewsOK /\ OrderOK /\ KnowsOK
  BY DEF BroadcastInv, ViewInv
<1> SUFFICES ASSUME NEW c \in Client, session[c] = "serving",
                    c \in alive \ (cancelled \cup rdone), Quiet(c), c \notin dropped
             PROVE  View(c) = Elements(members)
  BY DEF ViewAgrees
<1>3. Follows(c) /\ received[c] # <<>>
  BY <1>2 DEF Follows, Added, HandlerOK, JoinSteps, EarlyOK
<1>4. Reached(c) = Elements(received[c]) /\ \A d \in Client : ~ToHear(c, d) /\ ~ToPart(c, d)
  BY DEF Quiet, Reached, Elements, ToHear, ToPart
<1>5. ASSUME NEW d \in Elements(members) PROVE d \in View(c)
  <2>1. d \in Client
    BY <1>1 DEF ListsOK, Elements
  <2>2. Heard(c, d)
    BY <1>2, <1>3, <1>4, <1>5, <2>1 DEF KnowsOK
  <2>3. LeaveMsg(d) \notin Elements(received[c])
    BY <1>2, <1>4, <1>5, NoNews DEF NewsOK
  <2>4. PICK i \in DOMAIN received[c] : Shows(received[c][i], d)
    BY <1>4, <2>2 DEF Heard, Elements
  <2> QED
    BY <2>1, <2>3, <2>4 DEF View, LeaveMsg, Elements
<1>6. ASSUME NEW d \in View(c) PROVE d \in Elements(members)
  <2>1. PICK i \in DOMAIN received[c] :
          /\ Shows(received[c][i], d)
          /\ \A j \in DOMAIN received[c] : j > i => received[c][j] # LeaveMsg(d)
    BY <1>6 DEF View, LeaveMsg
  <2>2. d \in Client /\ Heard(c, d)
    BY <1>4, <1>6, <2>1 DEF View, Heard, Elements
  <2> SUFFICES ASSUME d \notin Elements(members) PROVE FALSE
    OBVIOUS
  <2>3. LeaveMsg(d) \in Elements(received[c])
    BY <1>2, <1>3, <1>4, <2>2 DEF KnowsOK, Parted
  <2>4. PICK k \in DOMAIN received[c] : received[c][k] = LeaveMsg(d)
    BY <2>3 DEF Elements
  <2>5. i \in Nat /\ k \in Nat /\ ~(k > i)
    BY <1>1, <2>1, <2>4 DEF QueuesOK
  <2>6. k # i
    BY <2>1, <2>4 DEF Shows, LeaveMsg
  <2>7. GoneIn(received[c], d)
    BY <1>2, <2>2 DEF OrderOK
  <2> QED
    BY <2>1, <2>4, <2>5, <2>6, <2>7 DEF GoneIn
<1> QED
  BY <1>5, <1>6

\* A client that is served, whose queue is empty and never timed out, knows the
\* members from the frames it got as soon as no join or leave is being told.
THEOREM ViewsAgree == Spec => []ViewAgrees
<1>1. BaseInv /\ BroadcastInv /\ ViewInv => ViewAgrees
  BY QuietAgrees
<1> QED
  BY <1>1, ViewInvariance, PTL
=============================================================================
