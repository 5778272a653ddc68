-------------------------- MODULE BroadcastProofs --------------------------
(***************************************************************************)
(* Delivery implements RoomBroadcast, for every number of clients and      *)
(* every size of the queues: what is due to a client near the room is what *)
(* it received, what waits in its queue, and what the forwarder is about   *)
(* to put there.                                                           *)
(***************************************************************************)
EXTENDS DeliveryProofs

-----------------------------------------------------------------------------
(* Handlers *)

JoinSteps == {"joinCheck", "joinAdd", "joinAnnounce", "joinTell"}

LeaveSteps == {"leaveCheck", "leaveRemove", "leaveAnnounce", "leaveTell"}

\* A handler works for a session that is in the same call or gave it up.
HandlerOK ==
  \A c \in Client :
    /\ handling[c] \in JoinSteps => session[c] \in {"joining", "gone"}
    /\ handling[c] \in LeaveSteps => session[c] \in {"leaving", "closing", "gone"}

LEMMA NextHandler ==
  ASSUME FlagsOK, HandlerOK, [Next]_vars
  PROVE  HandlerOK'
<1>1. ASSUME NEW p \in Process, TellClosed(p)
      PROVE  HandlerOK'
  BY <1>1, Processes DEF TellClosed, Told, roomVars, remoteVars, socketVars, passVars, net,
     history, HandlerOK, JoinSteps, LeaveSteps, FlagsOK
<1>2. ASSUME NEW p \in Process, TellWait(p)
      PROVE  HandlerOK'
  BY <1>2, Processes DEF TellWait, roomVars, remoteVars, socketVars, passVars, net, history,
     HandlerOK, JoinSteps, LeaveSteps, FlagsOK
<1>3. ASSUME NEW p \in Process, TellSend(p)
      PROVE  HandlerOK'
  BY <1>3, Processes DEF TellSend, Enqueue, Told, roomVars, remoteVars, socketVars, passVars,
     net, history, HandlerOK, JoinSteps, LeaveSteps, FlagsOK
<1>4. ASSUME NEW p \in Process, TellTimeout(p)
      PROVE  HandlerOK'
  BY <1>4, Processes DEF TellTimeout, Told, roomVars, remoteVars, socketVars, passVars, net,
     history, HandlerOK, JoinSteps, LeaveSteps, FlagsOK
<1>5. CASE ForwardTake
  BY <1>5, Processes DEF ForwardTake, roomVars, remoteVars, socketVars, passVars, net,
     history, HandlerOK, JoinSteps, LeaveSteps, FlagsOK
<1>6. CASE ForwardReturn \/ RemoveRoom \/ CloseDone
  BY <1>6, Processes DEF ForwardReturn, RemoveRoom, CloseDone, roomVars, remoteVars,
     socketVars, passVars, net, history, HandlerOK, JoinSteps, LeaveSteps, FlagsOK
<1>7. CASE CloseAnnounce
  BY <1>7, Processes DEF CloseAnnounce, roomVars, remoteVars, socketVars, passVars, net,
     history, HandlerOK, JoinSteps, LeaveSteps, FlagsOK
<1>8. CASE CloseOver
  BY <1>8, Processes DEF CloseOver, roomVars, remoteVars, socketVars, passVars, net, history,
     HandlerOK, JoinSteps, LeaveSteps, FlagsOK
<1>9. ASSUME NEW c \in Client, Connect(c)
      PROVE  HandlerOK'
  BY <1>9, Processes DEF Connect, roomVars, remoteVars, socketVars, passVars, net, history,
     HandlerOK, JoinSteps, LeaveSteps, FlagsOK
<1>10. ASSUME NEW c \in Client, JoinCheck(c)
      PROVE  HandlerOK'
  BY <1>10, Processes DEF JoinCheck, Abandoned, roomVars, remoteVars, socketVars, passVars,
     net, history, HandlerOK, JoinSteps, LeaveSteps, FlagsOK
<1>11. ASSUME NEW c \in Client, JoinAdd(c)
      PROVE  HandlerOK'
  BY <1>11, Processes DEF JoinAdd, roomVars, remoteVars, socketVars, passVars, net, history,
     HandlerOK, JoinSteps, LeaveSteps, FlagsOK
<1>12. ASSUME NEW c \in Client, JoinAnnounce(c) \/ LeaveAnnounce(c)
      PROVE  HandlerOK'
  BY <1>12, Processes DEF JoinAnnounce, LeaveAnnounce, roomVars, remoteVars, socketVars,
     passVars, net, history, HandlerOK, JoinSteps, LeaveSteps, FlagsOK
<1>13. ASSUME NEW c \in Client, JoinOver(c) \/ LeaveOver(c)
      PROVE  HandlerOK'
  BY <1>13, Processes DEF JoinOver, Answer, LeaveOver, roomVars, remoteVars, socketVars,
     passVars, net, history, HandlerOK, JoinSteps, LeaveSteps, FlagsOK
<1>14. ASSUME NEW c \in Client,
            JoinTimeout(c) \/ GetUsersFails(c) \/ LeaveTimeout(c) \/ Disconnect(c)
      PROVE  HandlerOK'
  BY <1>14, Processes DEF JoinTimeout, Abandoned, GetUsersFails, LeaveTimeout, Disconnect,
     roomVars, remoteVars, socketVars, passVars, net, history, HandlerOK, JoinSteps,
     LeaveSteps, FlagsOK
<1>15. ASSUME NEW c \in Client, GetUsers(c)
      PROVE  HandlerOK'
  BY <1>15, Processes DEF GetUsers, roomVars, remoteVars, socketVars, passVars, net, history,
     HandlerOK, JoinSteps, LeaveSteps, FlagsOK
<1>16. ASSUME NEW c \in Client, ReadBroadcast(c, c \in IncludeSelf)
      PROVE  HandlerOK'
  BY <1>16, Processes DEF ReadBroadcast, Reading, Count, roomVars, remoteVars, socketVars,
     passVars, net, history, HandlerOK, JoinSteps, LeaveSteps, FlagsOK
<1>17. ASSUME NEW c \in Client, NEW d \in Client, ReadDirect(c, d)
      PROVE  HandlerOK'
  BY <1>17, Processes DEF ReadDirect, Reading, Count, roomVars, remoteVars, socketVars,
     passVars, net, history, HandlerOK, JoinSteps, LeaveSteps, FlagsOK
<1>18. ASSUME NEW c \in Client, ReadOther(c) \/ ReadFails(c)
      PROVE  HandlerOK'
  BY <1>18, Processes DEF ReadOther, Reading, StartLeave, ReadFails, roomVars, remoteVars,
     socketVars, passVars, net, history, HandlerOK, JoinSteps, LeaveSteps, FlagsOK
<1>19. ASSUME NEW c \in Client, UpClosed(c) \/ UpCancelled(c) \/ DirectOver(c)
      PROVE  HandlerOK'
  BY <1>19, Processes DEF UpClosed, UpCancelled, DirectOver, ReadOver, StartLeave, roomVars,
     remoteVars, socketVars, passVars, net, history, HandlerOK, JoinSteps, LeaveSteps, FlagsOK
<1>20. ASSUME NEW c \in Client, UpSend(c)
      PROVE  HandlerOK'
  BY <1>20, Processes DEF UpSend, ReadOver, StartLeave, roomVars, remoteVars, socketVars,
     passVars, net, history, HandlerOK, JoinSteps, LeaveSteps, FlagsOK
<1>21. ASSUME NEW c \in Client, UpWait(c)
      PROVE  HandlerOK'
  BY <1>21, Processes DEF UpWait, roomVars, remoteVars, socketVars, passVars, net, history,
     HandlerOK, JoinSteps, LeaveSteps, FlagsOK
<1>22. ASSUME NEW c \in Client, Write(c)
      PROVE  HandlerOK'
  BY <1>22, Processes DEF Write, roomVars, remoteVars, socketVars, passVars, net, history,
     HandlerOK, JoinSteps, LeaveSteps, FlagsOK
<1>23. ASSUME NEW c \in Client, WriteReturn(c)
      PROVE  HandlerOK'
  BY <1>23, Processes DEF WriteReturn, roomVars, remoteVars, socketVars, passVars, net,
     history, HandlerOK, JoinSteps, LeaveSteps, FlagsOK
<1>24. ASSUME NEW c \in Client, LeaveCheck(c)
      PROVE  HandlerOK'
  BY <1>24, Processes DEF LeaveCheck, Answer, roomVars, remoteVars, socketVars, passVars, net,
     history, HandlerOK, JoinSteps, LeaveSteps, FlagsOK
<1>25. ASSUME NEW c \in Client, LeaveRemove(c)
      PROVE  HandlerOK'
  BY <1>25, Processes DEF LeaveRemove, roomVars, remoteVars, socketVars, passVars, net,
     history, HandlerOK, JoinSteps, LeaveSteps, FlagsOK
<1>26. ASSUME NEW c \in Client, CloseRemote(c)
      PROVE  HandlerOK'
  BY <1>26, Processes DEF CloseRemote, Abandoned, roomVars, remoteVars, socketVars, passVars,
     net, history, HandlerOK, JoinSteps, LeaveSteps, FlagsOK
<1>27. CASE UNCHANGED vars
  BY <1>27, Processes DEF vars, roomVars, remoteVars, socketVars, passVars, net, history,
     HandlerOK, JoinSteps, LeaveSteps, FlagsOK
<1>28. ASSUME NEW c \in Client, LateTell(c)
      PROVE  HandlerOK'
  BY <1>28, Processes DEF LateTell, Enqueue, roomVars, remoteVars, socketVars, passVars, net,
     history, HandlerOK, JoinSteps, LeaveSteps, FlagsOK
<1>29. CASE LateUp \/ LateLost
  BY <1>29, Processes DEF LateUp, LateLost, roomVars, remoteVars, socketVars, passVars, net,
     history, HandlerOK, JoinSteps, LeaveSteps, FlagsOK
<1> QED
  BY <1>1, <1>2, <1>3, <1>4, <1>5, <1>6, <1>7, <1>8, <1>9, <1>10, <1>11, <1>12, <1>13, <1>14,
     <1>15, <1>16, <1>17, <1>18, <1>19, <1>20, <1>21, <1>22, <1>23, <1>24, <1>25, <1>26,
     <1>27, <1>28, <1>29, Processes DEF Next, Chance, Handle, Serve, Writer, Join, Leave,
     Pass, Forward, Close, Tell

-----------------------------------------------------------------------------
(* Readers *)

\* A reader that has read something belongs to a session that is served, and
\* waits for nothing unless it has; its broadcast is the last one counted.
ReaderOK ==
  \A s \in Client :
    /\ carry[Reader(s)] # NoMsg => session[s] = "serving"
    /\ carry[Reader(s)] = NoMsg => Reader(s) \notin inListen
    /\ Upward(s) => /\ carry[Reader(s)].from = s
                    /\ carry[Reader(s)].n = sent[<<"broadcast", s>>]

\* What a step may do to the reader of s: nothing, or let it lay down what it
\* has, which it keeps to itself only when the room or the session is over, or
\* give it something.
Still(s) ==
  /\ carry'[Reader(s)] = carry[Reader(s)]
  /\ sent'[<<"broadcast", s>>] = sent[<<"broadcast", s>>]
  /\ Reader(s) \in inListen' => Reader(s) \in inListen \/ todo[Reader(s)] # <<>> \/ UpWait(s)
  /\ session[s] = "serving" /\ carry[Reader(s)] # NoMsg => session'[s] = "serving"

LaysDownItsOwn(s) ==
  /\ carry'[Reader(s)] = NoMsg /\ Reader(s) \notin inListen'
  /\ sent'[<<"broadcast", s>>] = sent[<<"broadcast", s>>]
  /\ Upward(s) => UpSend(s) \/ RoomDone \/ s \in far \/ session'[s] # "serving"

Reads(s) == ReadBroadcast(s, s \in IncludeSelf) \/ \E d \in Client : ReadDirect(s, d)

LEMMA ReaderSteps ==
  ASSUME FlagsOK, ListsOK, HandlerOK, [Next]_vars
  PROVE  \A s \in Client : Still(s) \/ LaysDownItsOwn(s) \/ Reads(s)
<1>1. ASSUME NEW p \in Process, TellClosed(p)
      PROVE  \A s \in Client : Still(s) \/ LaysDownItsOwn(s) \/ Reads(s)
  BY <1>1, Processes DEF TellClosed, Told, roomVars, remoteVars, socketVars, passVars, net,
     history, Still, LaysDownItsOwn, Reads, FlagsOK, ListsOK, HandlerOK, JoinSteps
<1>2. ASSUME NEW p \in Process, TellWait(p)
      PROVE  \A s \in Client : Still(s) \/ LaysDownItsOwn(s) \/ Reads(s)
  BY <1>2, Processes DEF TellWait, roomVars, remoteVars, socketVars, passVars, net, history,
     Still, LaysDownItsOwn, Reads, FlagsOK, ListsOK, HandlerOK, JoinSteps
<1>3. ASSUME NEW p \in Process, TellSend(p)
      PROVE  \A s \in Client : Still(s) \/ LaysDownItsOwn(s) \/ Reads(s)
  BY <1>3, Processes DEF TellSend, Enqueue, Told, roomVars, remoteVars, socketVars, passVars,
     net, history, Still, LaysDownItsOwn, Reads, FlagsOK, ListsOK, HandlerOK, JoinSteps
<1>4. ASSUME NEW p \in Process, TellTimeout(p)
      PROVE  \A s \in Client : Still(s) \/ LaysDownItsOwn(s) \/ Reads(s)
  BY <1>4, Processes DEF TellTimeout, Told, roomVars, remoteVars, socketVars, passVars, net,
     history, Still, LaysDownItsOwn, Reads, FlagsOK, ListsOK, HandlerOK, JoinSteps
<1>5. CASE ForwardTake
  BY <1>5, Processes DEF ForwardTake, roomVars, remoteVars, socketVars, passVars, net,
     history, Still, LaysDownItsOwn, Reads, FlagsOK, ListsOK, HandlerOK, JoinSteps
<1>6. CASE ForwardReturn \/ RemoveRoom \/ CloseDone
  BY <1>6, Processes DEF ForwardReturn, RemoveRoom, CloseDone, roomVars, remoteVars,
     socketVars, passVars, net, history, Still, LaysDownItsOwn, Reads, FlagsOK, ListsOK,
     HandlerOK, JoinSteps
<1>7. CASE CloseAnnounce
  BY <1>7, Processes DEF CloseAnnounce, roomVars, remoteVars, socketVars, passVars, net,
     history, Still, LaysDownItsOwn, Reads, FlagsOK, ListsOK, HandlerOK, JoinSteps
<1>8. CASE CloseOver
  BY <1>8, Processes DEF CloseOver, roomVars, remoteVars, socketVars, passVars, net, history,
     Still, LaysDownItsOwn, Reads, FlagsOK, ListsOK, HandlerOK, JoinSteps
<1>9. ASSUME NEW c \in Client, Connect(c)
      PROVE  \A s \in Client : Still(s) \/ LaysDownItsOwn(s) \/ Reads(s)
  BY <1>9, Processes DEF Connect, roomVars, remoteVars, socketVars, passVars, net, history,
     Still, LaysDownItsOwn, Reads, FlagsOK, ListsOK, HandlerOK, JoinSteps
<1>10. ASSUME NEW c \in Client, JoinCheck(c)
      PROVE  \A s \in Client : Still(s) \/ LaysDownItsOwn(s) \/ Reads(s)
  BY <1>10, Processes DEF JoinCheck, Abandoned, roomVars, remoteVars, socketVars, passVars,
     net, history, Still, LaysDownItsOwn, Reads, FlagsOK, ListsOK, HandlerOK, JoinSteps
<1>11. ASSUME NEW c \in Client, JoinAdd(c)
      PROVE  \A s \in Client : Still(s) \/ LaysDownItsOwn(s) \/ Reads(s)
  BY <1>11, Processes DEF JoinAdd, roomVars, remoteVars, socketVars, passVars, net, history,
     Still, LaysDownItsOwn, Reads, FlagsOK, ListsOK, HandlerOK, JoinSteps
<1>12. ASSUME NEW c \in Client, JoinAnnounce(c) \/ LeaveAnnounce(c)
      PROVE  \A s \in Client : Still(s) \/ LaysDownItsOwn(s) \/ Reads(s)
  BY <1>12, Processes DEF JoinAnnounce, LeaveAnnounce, roomVars, remoteVars, socketVars,
     passVars, net, history, Still, LaysDownItsOwn, Reads, FlagsOK, ListsOK, HandlerOK,
     JoinSteps
<1>13. ASSUME NEW c \in Client, JoinOver(c) \/ LeaveOver(c)
      PROVE  \A s \in Client : Still(s) \/ LaysDownItsOwn(s) \/ Reads(s)
  <2>1. UNCHANGED <<todo, inListen, sent>>
    BY <1>13 DEF JoinOver, LeaveOver
  <2>2. \A s \in Client : carry'[Reader(s)] = carry[Reader(s)]
    BY <1>13, Processes DEF JoinOver, LeaveOver, ListsOK
  <2>3. \A s \in Client : session[s] = "serving" => session'[s] = "serving"
    BY <1>13 DEF JoinOver, LeaveOver, Answer, FlagsOK
  <2> QED
    BY <2>1, <2>2, <2>3 DEF Still
<1>14. ASSUME NEW c \in Client,
            JoinTimeout(c) \/ GetUsersFails(c) \/ LeaveTimeout(c) \/ Disconnect(c)
      PROVE  \A s \in Client : Still(s) \/ LaysDownItsOwn(s) \/ Reads(s)
  BY <1>14, Processes DEF JoinTimeout, Abandoned, GetUsersFails, LeaveTimeout, Disconnect,
     roomVars, remoteVars, socketVars, passVars, net, history, Still, LaysDownItsOwn, Reads,
     FlagsOK, ListsOK, HandlerOK, JoinSteps
<1>15. ASSUME NEW c \in Client, GetUsers(c)
      PROVE  \A s \in Client : Still(s) \/ LaysDownItsOwn(s) \/ Reads(s)
  BY <1>15, Processes DEF GetUsers, roomVars, remoteVars, socketVars, passVars, net, history,
     Still, LaysDownItsOwn, Reads, FlagsOK, ListsOK, HandlerOK, JoinSteps
<1>16. ASSUME NEW c \in Client, ReadBroadcast(c, c \in IncludeSelf)
      PROVE  \A s \in Client : Still(s) \/ LaysDownItsOwn(s) \/ Reads(s)
  BY <1>16, Processes DEF ReadBroadcast, Reading, Count, roomVars, remoteVars, socketVars,
     passVars, net, history, Still, LaysDownItsOwn, Reads, FlagsOK, ListsOK, HandlerOK,
     JoinSteps
<1>17. ASSUME NEW c \in Client, NEW d \in Client, ReadDirect(c, d)
      PROVE  \A s \in Client : Still(s) \/ LaysDownItsOwn(s) \/ Reads(s)
  BY <1>17, Processes DEF ReadDirect, Reading, Count, roomVars, remoteVars, socketVars,
     passVars, net, history, Still, LaysDownItsOwn, Reads, FlagsOK, ListsOK, HandlerOK,
     JoinSteps
<1>18. ASSUME NEW c \in Client, ReadOther(c) \/ ReadFails(c)
      PROVE  \A s \in Client : Still(s) \/ LaysDownItsOwn(s) \/ Reads(s)
  BY <1>18, Processes DEF ReadOther, Reading, StartLeave, ReadFails, roomVars, remoteVars,
     socketVars, passVars, net, history, Still, LaysDownItsOwn, Reads, FlagsOK, ListsOK,
     HandlerOK, JoinSteps
<1>19. ASSUME NEW c \in Client, UpClosed(c) \/ UpCancelled(c) \/ DirectOver(c)
      PROVE  \A s \in Client : Still(s) \/ LaysDownItsOwn(s) \/ Reads(s)
  <2> SUFFICES ASSUME NEW s \in Client PROVE Still(s) \/ LaysDownItsOwn(s)
    OBVIOUS
  <2>1. CASE s = c
    <3>1. /\ carry'[Reader(s)] = NoMsg /\ Reader(s) \notin inListen'
          /\ sent'[<<"broadcast", s>>] = sent[<<"broadcast", s>>]
      BY <1>19, <2>1, Processes DEF UpClosed, UpCancelled, DirectOver, ReadOver, ListsOK
    <3>2. ASSUME Upward(s) PROVE RoomDone \/ s \in far \/ session'[s] # "serving"
      <4>1. CASE UpClosed(s)
        BY <4>1 DEF UpClosed
      <4>2. CASE UpCancelled(s)
        BY <4>2 DEF UpCancelled, ReadOver, StartLeave, FlagsOK
      <4> QED
        BY <1>19, <2>1, <3>2, <4>1, <4>2 DEF DirectOver, Upward
    <3> QED
      BY <3>1, <3>2 DEF LaysDownItsOwn
  <2>2. CASE s # c
    BY <1>19, <2>2, Processes DEF UpClosed, UpCancelled, DirectOver, ReadOver, StartLeave,
       Still, FlagsOK, ListsOK
  <2> QED
    BY <2>1, <2>2
<1>20. ASSUME NEW c \in Client, UpSend(c)
      PROVE  \A s \in Client : Still(s) \/ LaysDownItsOwn(s) \/ Reads(s)
  <2> SUFFICES ASSUME NEW s \in Client PROVE Still(s) \/ LaysDownItsOwn(s)
    OBVIOUS
  <2>1. CASE s = c
    <3>1. /\ carry'[Reader(s)] = NoMsg /\ Reader(s) \notin inListen'
          /\ sent'[<<"broadcast", s>>] = sent[<<"broadcast", s>>]
      BY <1>20, <2>1, Processes DEF UpSend, ReadOver, ListsOK
    <3> QED
      BY <1>20, <2>1, <3>1 DEF LaysDownItsOwn
  <2>2. CASE s # c
    BY <1>20, <2>2, Processes DEF UpSend, ReadOver, StartLeave, Still, FlagsOK, ListsOK
  <2> QED
    BY <2>1, <2>2
<1>21. ASSUME NEW c \in Client, UpWait(c)
      PROVE  \A s \in Client : Still(s) \/ LaysDownItsOwn(s) \/ Reads(s)
  BY <1>21, Processes DEF UpWait, roomVars, remoteVars, socketVars, passVars, net, history,
     Still, LaysDownItsOwn, Reads, FlagsOK, ListsOK, HandlerOK, JoinSteps
<1>22. ASSUME NEW c \in Client, Write(c)
      PROVE  \A s \in Client : Still(s) \/ LaysDownItsOwn(s) \/ Reads(s)
  BY <1>22, Processes DEF Write, roomVars, remoteVars, socketVars, passVars, net, history,
     Still, LaysDownItsOwn, Reads, FlagsOK, ListsOK, HandlerOK, JoinSteps
<1>23. ASSUME NEW c \in Client, WriteReturn(c)
      PROVE  \A s \in Client : Still(s) \/ LaysDownItsOwn(s) \/ Reads(s)
  BY <1>23, Processes DEF WriteReturn, roomVars, remoteVars, socketVars, passVars, net,
     history, Still, LaysDownItsOwn, Reads, FlagsOK, ListsOK, HandlerOK, JoinSteps
<1>24. ASSUME NEW c \in Client, LeaveCheck(c)
      PROVE  \A s \in Client : Still(s) \/ LaysDownItsOwn(s) \/ Reads(s)
  BY <1>24, Processes DEF LeaveCheck, Answer, roomVars, remoteVars, socketVars, passVars, net,
     history, Still, LaysDownItsOwn, Reads, FlagsOK, ListsOK, HandlerOK, JoinSteps
<1>25. ASSUME NEW c \in Client, LeaveRemove(c)
      PROVE  \A s \in Client : Still(s) \/ LaysDownItsOwn(s) \/ Reads(s)
  BY <1>25, Processes DEF LeaveRemove, roomVars, remoteVars, socketVars, passVars, net,
     history, Still, LaysDownItsOwn, Reads, FlagsOK, ListsOK, HandlerOK, JoinSteps
<1>26. ASSUME NEW c \in Client, CloseRemote(c)
      PROVE  \A s \in Client : Still(s) \/ LaysDownItsOwn(s) \/ Reads(s)
  BY <1>26, Processes DEF CloseRemote, Abandoned, roomVars, remoteVars, socketVars, passVars,
     net, history, Still, LaysDownItsOwn, Reads, FlagsOK, ListsOK, HandlerOK, JoinSteps
<1>27. CASE UNCHANGED vars
  BY <1>27, Processes DEF vars, roomVars, remoteVars, socketVars, passVars, net, history,
     Still, LaysDownItsOwn, Reads, FlagsOK, ListsOK, HandlerOK, JoinSteps
<1>28. ASSUME NEW c \in Client, LateTell(c)
      PROVE  \A s \in Client : Still(s) \/ LaysDownItsOwn(s) \/ Reads(s)
  BY <1>28, Processes DEF LateTell, Enqueue, roomVars, remoteVars, socketVars, passVars, net,
     history, Still, LaysDownItsOwn, Reads, FlagsOK, ListsOK, HandlerOK, JoinSteps
<1>29. CASE LateUp \/ LateLost
  BY <1>29, Processes DEF LateUp, LateLost, roomVars, remoteVars, socketVars, passVars, net,
     history, Still, LaysDownItsOwn, Reads, FlagsOK, ListsOK, HandlerOK, JoinSteps
<1> QED
  BY <1>1, <1>2, <1>3, <1>4, <1>5, <1>6, <1>7, <1>8, <1>9, <1>10, <1>11, <1>12, <1>13, <1>14,
     <1>15, <1>16, <1>17, <1>18, <1>19, <1>20, <1>21, <1>22, <1>23, <1>24, <1>25, <1>26,
     <1>27, <1>28, <1>29, Processes DEF Next, Chance, Handle, Serve, Writer, Join, Leave,
     Pass, Forward, Close, Tell

LEMMA ReadsBroadcast ==
  ASSUME ListsOK, NEW s \in Client, ReadBroadcast(s, s \in IncludeSelf)
  PROVE  /\ ~Upward(s) /\ Upward(s)' /\ session[s] = "serving" /\ session'[s] = "serving"
         /\ carry[Reader(s)] = NoMsg /\ carry'[Reader(s)] # NoMsg
         /\ carry'[Reader(s)].from = s /\ carry'[Reader(s)].n = sent'[<<"broadcast", s>>]
         /\ sent'[<<"broadcast", s>>] = sent[<<"broadcast", s>>] + 1
         /\ inListen' = inListen /\ closing' = closing
<1> DEFINE n == sent'[<<"broadcast", s>>]
           m == [type |-> "broadcast", from |-> s, n |-> n, includeSelf |-> s \in IncludeSelf]
<1>1. /\ carry'[Reader(s)] = m /\ session' = session /\ inListen' = inListen /\ closing' = closing
      /\ session[s] = "serving" /\ carry[Reader(s)] = NoMsg
  BY Processes DEF ReadBroadcast, Reading, socketVars, roomVars, ListsOK
<1>2. n = sent[<<"broadcast", s>>] + 1 /\ n \in 1 .. MaxBroadcasts
  <2>1. sent[<<"broadcast", s>>] \in Nat /\ sent[<<"broadcast", s>>] < MaxBroadcasts
    BY DEF ReadBroadcast, ListsOK
  <2>2. n = sent[<<"broadcast", s>>] + 1
    BY DEF ReadBroadcast, Count, ListsOK
  <2> QED
    BY <2>1, <2>2, SizeAssumption
<1> HIDE DEF n
<1>3. m.from = s /\ m.n = n /\ m.type = "broadcast"
  OBVIOUS
<1>4. m # NoMsg
  <2>1. m \in Msg
    BY <1>2 DEF Msg, Broadcasts
  <2> QED
    BY <2>1, NoMsgAssumption
<1> HIDE DEF m
<1>5. ~Upward(s) /\ Upward(s)'
  BY <1>1, <1>3, <1>4 DEF Upward
<1> QED
  BY <1>1, <1>2, <1>3, <1>4, <1>5 DEF n

LEMMA ReadsDirect ==
  ASSUME ListsOK, NEW s \in Client, NEW d \in Client, ReadDirect(s, d)
  PROVE  /\ ~Upward(s) /\ ~Upward(s)' /\ session[s] = "serving" /\ session'[s] = "serving"
         /\ carry'[Reader(s)] # NoMsg /\ carry'[Reader(s)].type = "message"
         /\ sent'[<<"broadcast", s>>] = sent[<<"broadcast", s>>]
<1> DEFINE n == sent'[<<"message", s>>]
           m == [type |-> "message", from |-> s, n |-> n, to |-> d]
<1>1. /\ carry'[Reader(s)] = m /\ session' = session /\ session[s] = "serving"
      /\ carry[Reader(s)] = NoMsg /\ sent'[<<"broadcast", s>>] = sent[<<"broadcast", s>>]
  BY Processes DEF ReadDirect, Reading, Count, socketVars, ListsOK
<1>2. n \in 1 .. MaxDirects
  <2>1. sent[<<"message", s>>] \in Nat /\ sent[<<"message", s>>] < MaxDirects
    BY DEF ReadDirect, ListsOK
  <2>2. n = sent[<<"message", s>>] + 1
    BY DEF ReadDirect, Count, ListsOK
  <2> QED
    BY <2>1, <2>2, SizeAssumption
<1> HIDE DEF n
<1>3. m.type = "message" /\ m # NoMsg
  BY <1>2, NoMsgAssumption DEF Msg, Directs
<1> HIDE DEF m
<1> QED
  BY <1>1, <1>3 DEF Upward

LEMMA NextReader ==
  ASSUME FlagsOK, ListsOK, CarryOK, HandlerOK, ReaderOK, [Next]_vars
  PROVE  ReaderOK'
<1> SUFFICES ASSUME NEW s \in Client
             PROVE  /\ carry'[Reader(s)] # NoMsg => session'[s] = "serving"
                    /\ carry'[Reader(s)] = NoMsg => Reader(s) \notin inListen'
                    /\ Upward(s)' => /\ carry'[Reader(s)].from = s
                                     /\ carry'[Reader(s)].n = sent'[<<"broadcast", s>>]
  BY DEF ReaderOK
<1>1. CASE Still(s)
  <2>1. carry[Reader(s)] = NoMsg => todo[Reader(s)] = <<>> /\ ~UpWait(s)
    BY Processes, NoMsgAssumption DEF CarryOK, UpWait, Upward
  <2> QED
    BY <1>1, <2>1 DEF Still, ReaderOK, Upward
<1>2. CASE LaysDownItsOwn(s)
  BY <1>2 DEF LaysDownItsOwn, Upward
<1>3. CASE ReadBroadcast(s, s \in IncludeSelf)
  BY <1>3, ReadsBroadcast DEF Upward
<1>4. ASSUME NEW d \in Client, ReadDirect(s, d)
      PROVE  /\ carry'[Reader(s)].type = "message" /\ carry'[Reader(s)] # NoMsg
             /\ session'[s] = "serving"
  BY <1>4, ReadsDirect
<1> QED
  BY <1>1, <1>2, <1>3, <1>4, ReaderSteps DEF Reads, Upward

-----------------------------------------------------------------------------
(* What steps change *)

\* Sessions go on, clients move away only before they join, nothing that is
\* closed opens again.
Onward ==
  /\ far \subseteq far' /\ alive' \subseteq alive /\ rdone \subseteq rdone'
  /\ RoomDone => RoomDone'
  /\ \A c \in Client :
       /\ session'[c] = "out" => session[c] = "out"
       /\ session'[c] \in {"joining", "users"} => session[c] \in {"out", "joining", "users"}
       /\ session'[c] = "serving" => session[c] \in {"users", "serving"}
       /\ handling'[c] \in {"joinCheck", "joinAdd"}
            => session[c] = "out" \/ handling[c] \in {"joinCheck", "joinAdd"}
       /\ c \in far' \ far => session[c] = "out"
       /\ c \in writing' \ writing => session[c] = "users"

\* Who changes which variable.
Changes ==
  /\ members' = members \/ \E c \in Client : JoinAdd(c) \/ LeaveRemove(c)
  /\ far' = far \/ \E c \in Client : Connect(c)
  /\ (due' = due /\ published' = published) \/ ForwardTake
  /\ received' = received \/ \E c \in Client : GetUsers(c) \/ Write(c)
  /\ roomQueue' = roomQueue \/ ForwardTake \/ LateUp \/ \E c \in Client : UpSend(c)
  /\ \/ queue' = queue
     \/ \E p \in Process : TellSend(p)
     \/ \E c \in Client : LateTell(c) \/ Write(c)
  /\ lateTells' \subseteq lateTells \/ \E p \in Process : TellTimeout(p)
  /\ lateUps' \subseteq lateUps \/ \E c \in Client : UpCancelled(c)
  /\ \/ carry'[Forwarder] = carry[Forwarder] /\ todo'[Forwarder] = todo[Forwarder]
        /\ (Forwarder \in inListen' <=> Forwarder \in inListen)
     \/ ForwardTake \/ Tell(Forwarder)

LEMMA StepsGoOn ==
  ASSUME FlagsOK, ListsOK, CarryOK, ToldInv, [Next]_vars
  PROVE  Onward
<1>1. ASSUME NEW p \in Process, TellClosed(p)
      PROVE  Onward
  BY <1>1, Processes, TailList DEF TellClosed, Told, roomVars, remoteVars, socketVars,
     passVars, net, history, Onward, RoomDone, FlagsOK, ListsOK, ToldInv, RegOK
<1>2. ASSUME NEW p \in Process, TellWait(p)
      PROVE  Onward
  BY <1>2, Processes, TailList DEF TellWait, roomVars, remoteVars, socketVars, passVars, net,
     history, Onward, RoomDone, FlagsOK, ListsOK, ToldInv, RegOK
<1>3. ASSUME NEW p \in Process, TellSend(p)
      PROVE  Onward
  BY <1>3, Processes, TailList DEF TellSend, Enqueue, Told, roomVars, remoteVars, socketVars,
     passVars, net, history, Onward, RoomDone, FlagsOK, ListsOK, ToldInv, RegOK
<1>4. ASSUME NEW p \in Process, TellTimeout(p)
      PROVE  Onward
  BY <1>4, Processes, TailList DEF TellTimeout, Told, roomVars, remoteVars, socketVars,
     passVars, net, history, Onward, RoomDone, FlagsOK, ListsOK, ToldInv, RegOK
<1>5. CASE ForwardTake
  BY <1>5, Processes, TailList DEF ForwardTake, roomVars, remoteVars, socketVars, passVars,
     net, history, Onward, RoomDone, FlagsOK, ListsOK, ToldInv, RegOK
<1>6. CASE ForwardReturn \/ RemoveRoom \/ CloseDone
  BY <1>6, Processes, TailList DEF ForwardReturn, RemoveRoom, CloseDone, roomVars, remoteVars,
     socketVars, passVars, net, history, Onward, RoomDone, FlagsOK, ListsOK, ToldInv, RegOK
<1>7. CASE CloseAnnounce
  BY <1>7, Processes, TailList DEF CloseAnnounce, roomVars, remoteVars, socketVars, passVars,
     net, history, Onward, RoomDone, FlagsOK, ListsOK, ToldInv, RegOK
<1>8. CASE CloseOver
  BY <1>8, Processes, TailList DEF CloseOver, roomVars, remoteVars, socketVars, passVars, net,
     history, Onward, RoomDone, FlagsOK, ListsOK, ToldInv, RegOK
<1>9. ASSUME NEW c \in Client, Connect(c)
      PROVE  Onward
  BY <1>9, Processes, TailList DEF Connect, roomVars, remoteVars, socketVars, passVars, net,
     history, Onward, RoomDone, FlagsOK, ListsOK, ToldInv, RegOK
<1>10. ASSUME NEW c \in Client, JoinCheck(c)
      PROVE  Onward
  BY <1>10, Processes, TailList DEF JoinCheck, Abandoned, roomVars, remoteVars, socketVars,
     passVars, net, history, Onward, RoomDone, FlagsOK, ListsOK, ToldInv, RegOK
<1>11. ASSUME NEW c \in Client, JoinAdd(c)
      PROVE  Onward
  BY <1>11, Processes, TailList DEF JoinAdd, roomVars, remoteVars, socketVars, passVars, net,
     history, Onward, RoomDone, FlagsOK, ListsOK, ToldInv, RegOK
<1>12. ASSUME NEW c \in Client, JoinAnnounce(c) \/ LeaveAnnounce(c)
      PROVE  Onward
  BY <1>12, Processes, TailList DEF JoinAnnounce, LeaveAnnounce, roomVars, remoteVars,
     socketVars, passVars, net, history, Onward, RoomDone, FlagsOK, ListsOK, ToldInv, RegOK
<1>13. ASSUME NEW c \in Client, JoinOver(c) \/ LeaveOver(c)
      PROVE  Onward
  BY <1>13, Processes, TailList DEF JoinOver, Answer, LeaveOver, roomVars, remoteVars,
     socketVars, passVars, net, history, Onward, RoomDone, FlagsOK, ListsOK, ToldInv, RegOK
<1>14. ASSUME NEW c \in Client,
            JoinTimeout(c) \/ GetUsersFails(c) \/ LeaveTimeout(c) \/ Disconnect(c)
      PROVE  Onward
  BY <1>14, Processes, TailList DEF JoinTimeout, Abandoned, GetUsersFails, LeaveTimeout,
     Disconnect, roomVars, remoteVars, socketVars, passVars, net, history, Onward, RoomDone,
     FlagsOK, ListsOK, ToldInv, RegOK
<1>15. ASSUME NEW c \in Client, GetUsers(c)
      PROVE  Onward
  BY <1>15, Processes, TailList DEF GetUsers, roomVars, remoteVars, socketVars, passVars, net,
     history, Onward, RoomDone, FlagsOK, ListsOK, ToldInv, RegOK
<1>16. ASSUME NEW c \in Client, ReadBroadcast(c, c \in IncludeSelf)
      PROVE  Onward
  BY <1>16, Processes, TailList DEF ReadBroadcast, Reading, Count, roomVars, remoteVars,
     socketVars, passVars, net, history, Onward, RoomDone, FlagsOK, ListsOK, ToldInv, RegOK
<1>17. ASSUME NEW c \in Client, NEW d \in Client, ReadDirect(c, d)
      PROVE  Onward
  BY <1>17, Processes, TailList DEF ReadDirect, Reading, Count, roomVars, remoteVars,
     socketVars, passVars, net, history, Onward, RoomDone, FlagsOK, ListsOK, ToldInv, RegOK
<1>18. ASSUME NEW c \in Client, ReadOther(c) \/ ReadFails(c)
      PROVE  Onward
  BY <1>18, Processes, TailList DEF ReadOther, Reading, StartLeave, ReadFails, roomVars,
     remoteVars, socketVars, passVars, net, history, Onward, RoomDone, FlagsOK, ListsOK,
     ToldInv, RegOK
<1>19. ASSUME NEW c \in Client, UpClosed(c) \/ UpCancelled(c) \/ DirectOver(c)
      PROVE  Onward
  BY <1>19, Processes, TailList DEF UpClosed, UpCancelled, DirectOver, ReadOver, StartLeave,
     roomVars, remoteVars, socketVars, passVars, net, history, Onward, RoomDone, FlagsOK,
     ListsOK, ToldInv, RegOK
<1>20. ASSUME NEW c \in Client, UpSend(c)
      PROVE  Onward
  BY <1>20, Processes, TailList DEF UpSend, ReadOver, StartLeave, roomVars, remoteVars,
     socketVars, passVars, net, history, Onward, RoomDone, FlagsOK, ListsOK, ToldInv, RegOK
<1>21. ASSUME NEW c \in Client, UpWait(c)
      PROVE  Onward
  BY <1>21, Processes, TailList DEF UpWait, roomVars, remoteVars, socketVars, passVars, net,
     history, Onward, RoomDone, FlagsOK, ListsOK, ToldInv, RegOK
<1>22. ASSUME NEW c \in Client, Write(c)
      PROVE  Onward
  BY <1>22, Processes, TailList DEF Write, roomVars, remoteVars, socketVars, passVars, net,
     history, Onward, RoomDone, FlagsOK, ListsOK, ToldInv, RegOK
<1>23. ASSUME NEW c \in Client, WriteReturn(c)
      PROVE  Onward
  BY <1>23, Processes, TailList DEF WriteReturn, roomVars, remoteVars, socketVars, passVars,
     net, history, Onward, RoomDone, FlagsOK, ListsOK, ToldInv, RegOK
<1>24. ASSUME NEW c \in Client, LeaveCheck(c)
      PROVE  Onward
  BY <1>24, Processes, TailList DEF LeaveCheck, Answer, roomVars, remoteVars, socketVars,
     passVars, net, history, Onward, RoomDone, FlagsOK, ListsOK, ToldInv, RegOK
<1>25. ASSUME NEW c \in Client, LeaveRemove(c)
      PROVE  Onward
  BY <1>25, Processes, TailList DEF LeaveRemove, roomVars, remoteVars, socketVars, passVars,
     net, history, Onward, RoomDone, FlagsOK, ListsOK, ToldInv, RegOK
<1>26. ASSUME NEW c \in Client, CloseRemote(c)
      PROVE  Onward
  BY <1>26, Processes, TailList DEF CloseRemote, Abandoned, roomVars, remoteVars, socketVars,
     passVars, net, history, Onward, RoomDone, FlagsOK, ListsOK, ToldInv, RegOK
<1>27. CASE UNCHANGED vars
  BY <1>27, Processes, TailList DEF vars, roomVars, remoteVars, socketVars, passVars, net,
     history, Onward, RoomDone, FlagsOK, ListsOK, ToldInv, RegOK
<1>28. ASSUME NEW c \in Client, LateTell(c)
      PROVE  Onward
  BY <1>28, Processes, TailList DEF LateTell, Enqueue, roomVars, remoteVars, socketVars,
     passVars, net, history, Onward, RoomDone, FlagsOK, ListsOK, ToldInv, RegOK
<1>29. CASE LateUp \/ LateLost
  BY <1>29, Processes, TailList DEF LateUp, LateLost, roomVars, remoteVars, socketVars,
     passVars, net, history, Onward, RoomDone, FlagsOK, ListsOK, ToldInv, RegOK
<1> QED
  BY <1>1, <1>2, <1>3, <1>4, <1>5, <1>6, <1>7, <1>8, <1>9, <1>10, <1>11, <1>12, <1>13, <1>14,
     <1>15, <1>16, <1>17, <1>18, <1>19, <1>20, <1>21, <1>22, <1>23, <1>24, <1>25, <1>26,
     <1>27, <1>28, <1>29, Processes DEF Next, Chance, Handle, Serve, Writer, Join, Leave,
     Pass, Forward, Close, Tell

LEMMA StepsChange ==
  ASSUME ListsOK, [Next]_vars
  PROVE  Changes
<1>1. ASSUME NEW p \in Process, TellClosed(p)
      PROVE  Changes
  BY <1>1, Processes DEF TellClosed, Told, roomVars, remoteVars, socketVars, passVars, net,
     history, Changes, Tell, ListsOK
<1>2. ASSUME NEW p \in Process, TellWait(p)
      PROVE  Changes
  BY <1>2, Processes DEF TellWait, roomVars, remoteVars, socketVars, passVars, net, history,
     Changes, Tell, ListsOK
<1>3. ASSUME NEW p \in Process, TellSend(p)
      PROVE  Changes
  BY <1>3, Processes DEF TellSend, Enqueue, Told, roomVars, remoteVars, socketVars, passVars,
     net, history, Changes, Tell, ListsOK
<1>4. ASSUME NEW p \in Process, TellTimeout(p)
      PROVE  Changes
  BY <1>4, Processes DEF TellTimeout, Told, roomVars, remoteVars, socketVars, passVars, net,
     history, Changes, Tell, ListsOK
<1>5. CASE ForwardTake
  BY <1>5, Processes DEF ForwardTake, roomVars, remoteVars, socketVars, passVars, net,
     history, Changes, Tell, ListsOK
<1>6. CASE ForwardReturn \/ RemoveRoom \/ CloseDone
  BY <1>6, Processes DEF ForwardReturn, RemoveRoom, CloseDone, roomVars, remoteVars,
     socketVars, passVars, net, history, Changes, Tell, ListsOK
<1>7. CASE CloseAnnounce
  BY <1>7, Processes DEF CloseAnnounce, roomVars, remoteVars, socketVars, passVars, net,
     history, Changes, Tell, ListsOK
<1>8. CASE CloseOver
  BY <1>8, Processes DEF CloseOver, roomVars, remoteVars, socketVars, passVars, net, history,
     Changes, Tell, ListsOK
<1>9. ASSUME NEW c \in Client, Connect(c)
      PROVE  Changes
  BY <1>9, Processes DEF Connect, roomVars, remoteVars, socketVars, passVars, net, history,
     Changes, Tell, ListsOK
<1>10. ASSUME NEW c \in Client, JoinCheck(c)
      PROVE  Changes
  BY <1>10, Processes DEF JoinCheck, Abandoned, roomVars, remoteVars, socketVars, passVars,
     net, history, Changes, Tell, ListsOK
<1>11. ASSUME NEW c \in Client, JoinAdd(c)
      PROVE  Changes
  BY <1>11, Processes DEF JoinAdd, roomVars, remoteVars, socketVars, passVars, net, history,
     Changes, Tell, ListsOK
<1>12. ASSUME NEW c \in Client, JoinAnnounce(c) \/ LeaveAnnounce(c)
      PROVE  Changes
  BY <1>12, Processes DEF JoinAnnounce, LeaveAnnounce, roomVars, remoteVars, socketVars,
     passVars, net, history, Changes, Tell, ListsOK
<1>13. ASSUME NEW c \in Client, JoinOver(c) \/ LeaveOver(c)
      PROVE  Changes
  BY <1>13, Processes DEF JoinOver, Answer, LeaveOver, roomVars, remoteVars, socketVars,
     passVars, net, history, Changes, Tell, ListsOK
<1>14. ASSUME NEW c \in Client,
            JoinTimeout(c) \/ GetUsersFails(c) \/ LeaveTimeout(c) \/ Disconnect(c)
      PROVE  Changes
  BY <1>14, Processes DEF JoinTimeout, Abandoned, GetUsersFails, LeaveTimeout, Disconnect,
     roomVars, remoteVars, socketVars, passVars, net, history, Changes, Tell, ListsOK
<1>15. ASSUME NEW c \in Client, GetUsers(c)
      PROVE  Changes
  BY <1>15, Processes DEF GetUsers, roomVars, remoteVars, socketVars, passVars, net, history,
     Changes, Tell, ListsOK
<1>16. ASSUME NEW c \in Client, ReadBroadcast(c, c \in IncludeSelf)
      PROVE  Changes
  BY <1>16, Processes DEF ReadBroadcast, roomVars, remoteVars, socketVars, passVars, net,
     history, Changes, Tell, ListsOK
<1>17. ASSUME NEW c \in Client, NEW d \in Client, ReadDirect(c, d)
      PROVE  Changes
  BY <1>17, Processes DEF ReadDirect, roomVars, remoteVars, socketVars, passVars, net,
     history, Changes, Tell, ListsOK
<1>18. ASSUME NEW c \in Client, ReadOther(c) \/ ReadFails(c)
      PROVE  Changes
  BY <1>18, Processes DEF ReadOther, Reading, StartLeave, ReadFails, roomVars, remoteVars,
     socketVars, passVars, net, history, Changes, Tell, ListsOK
<1>19. ASSUME NEW c \in Client, UpClosed(c) \/ UpCancelled(c) \/ DirectOver(c)
      PROVE  Changes
  BY <1>19, Processes DEF UpClosed, UpCancelled, DirectOver, ReadOver, StartLeave, roomVars,
     remoteVars, socketVars, passVars, net, history, Changes, Tell, ListsOK
<1>20. ASSUME NEW c \in Client, UpSend(c)
      PROVE  Changes
  BY <1>20, Processes DEF UpSend, ReadOver, StartLeave, roomVars, remoteVars, socketVars,
     passVars, net, history, Changes, Tell, ListsOK
<1>21. ASSUME NEW c \in Client, UpWait(c)
      PROVE  Changes
  BY <1>21, Processes DEF UpWait, roomVars, remoteVars, socketVars, passVars, net, history,
     Changes, Tell, ListsOK
<1>22. ASSUME NEW c \in Client, Write(c)
      PROVE  Changes
  BY <1>22, Processes DEF Write, roomVars, remoteVars, socketVars, passVars, net, history,
     Changes, Tell, ListsOK
<1>23. ASSUME NEW c \in Client, WriteReturn(c)
      PROVE  Changes
  BY <1>23, Processes DEF WriteReturn, roomVars, remoteVars, socketVars, passVars, net,
     history, Changes, Tell, ListsOK
<1>24. ASSUME NEW c \in Client, LeaveCheck(c)
      PROVE  Changes
  BY <1>24, Processes DEF LeaveCheck, Answer, roomVars, remoteVars, socketVars, passVars, net,
     history, Changes, Tell, ListsOK
<1>25. ASSUME NEW c \in Client, LeaveRemove(c)
      PROVE  Changes
  BY <1>25, Processes DEF LeaveRemove, roomVars, remoteVars, socketVars, passVars, net,
     history, Changes, Tell, ListsOK
<1>26. ASSUME NEW c \in Client, CloseRemote(c)
      PROVE  Changes
  BY <1>26, Processes DEF CloseRemote, Abandoned, roomVars, remoteVars, socketVars, passVars,
     net, history, Changes, Tell, ListsOK
<1>27. CASE UNCHANGED vars
  BY <1>27, Processes DEF vars, roomVars, remoteVars, socketVars, passVars, net, history,
     Changes, Tell, ListsOK
<1>28. ASSUME NEW c \in Client, LateTell(c)
      PROVE  Changes
  BY <1>28, Processes DEF LateTell, Enqueue, roomVars, remoteVars, socketVars, passVars, net,
     history, Changes, Tell, ListsOK
<1>29. CASE LateUp \/ LateLost
  BY <1>29, Processes DEF LateUp, LateLost, roomVars, remoteVars, socketVars, passVars, net,
     history, Changes, Tell, ListsOK
<1> QED
  BY <1>1, <1>2, <1>3, <1>4, <1>5, <1>6, <1>7, <1>8, <1>9, <1>10, <1>11, <1>12, <1>13, <1>14,
     <1>15, <1>16, <1>17, <1>18, <1>19, <1>20, <1>21, <1>22, <1>23, <1>24, <1>25, <1>26,
     <1>27, <1>28, <1>29, Processes DEF Next, Chance, Handle, Serve, Writer, Join, Leave,
     Pass, Forward, Close, Tell

-----------------------------------------------------------------------------
(* The list of members *)

\* Without is meant for lists without repetition.
LEMMA OnceWithout ==
  ASSUME NEW S, NEW s \in Seq(S), NEW c, Once(s)
  PROVE  Once(Without(s, c)) /\ Elements(Without(s, c)) = Elements(s) \ {c}
<1>1. CASE c \notin Elements(s)
  BY <1>1 DEF Without
<1>2. CASE c \in Elements(s)
  <2> DEFINE i == CHOOSE j \in DOMAIN s : s[j] = c
             t == [j \in 1 .. Len(s) - 1 |-> IF j < i THEN s[j] ELSE s[j + 1]]
  <2>1. /\ i \in 1 .. Len(s) /\ s[i] = c /\ Without(s, c) = t
        /\ Len(s) \in Nat /\ DOMAIN s = 1 .. Len(s)
    BY <1>2 DEF Without, Elements
  <2> HIDE DEF i
  <2>2. /\ DOMAIN t = 1 .. Len(s) - 1
        /\ \A j \in 1 .. Len(s) - 1 : t[j] = s[IF j < i THEN j ELSE j + 1]
    BY <2>1
  <2>3. \A j \in 1 .. Len(s) - 1 : (IF j < i THEN j ELSE j + 1) \in 1 .. Len(s) \ {i}
    BY <2>1
  <2>4. \A j \in 1 .. Len(s) \ {i} :
          \E k \in 1 .. Len(s) - 1 : j = IF k < i THEN k ELSE k + 1
    <3> SUFFICES ASSUME NEW j \in 1 .. Len(s) \ {i}
                 PROVE  \E k \in 1 .. Len(s) - 1 : j = IF k < i THEN k ELSE k + 1
      OBVIOUS
    <3>1. CASE j < i
      BY <2>1, <3>1
    <3>2. CASE j > i
      <4>1. j - 1 \in 1 .. Len(s) - 1 /\ ~(j - 1 < i) /\ j = (j - 1) + 1
        BY <2>1, <3>2
      <4> QED
        BY <4>1
    <3> QED
      BY <2>1, <3>1, <3>2
  <2>5. \A j \in 1 .. Len(s) : j # i => s[j] # c
    BY <2>1 DEF Once
  <2> HIDE DEF t
  <2>6. Once(t)
    <3> SUFFICES ASSUME NEW j \in 1 .. Len(s) - 1, NEW k \in 1 .. Len(s) - 1, t[j] = t[k]
                 PROVE  j = k
      BY <2>2 DEF Once
    <3>1. (IF j < i THEN j ELSE j + 1) = (IF k < i THEN k ELSE k + 1)
      BY <2>1, <2>2, <2>3 DEF Once
    <3> QED
      BY <2>1, <3>1
  <2>7. Elements(t) = Elements(s) \ {c}
    <3>1. \A x \in Elements(t) : x \in Elements(s) \ {c}
      BY <2>1, <2>2, <2>3, <2>5 DEF Elements
    <3>2. \A x \in Elements(s) \ {c} : x \in Elements(t)
      <4> SUFFICES ASSUME NEW j \in 1 .. Len(s), s[j] # c PROVE s[j] \in Elements(t)
        BY <2>1 DEF Elements
      <4>1. j \in 1 .. Len(s) \ {i}
        BY <2>1
      <4>2. PICK k \in 1 .. Len(s) - 1 : j = IF k < i THEN k ELSE k + 1
        BY <2>4, <4>1
      <4>3. t[k] = s[j] /\ k \in DOMAIN t
        BY <2>2, <4>2
      <4> QED
        BY <4>3 DEF Elements
    <3> QED
      BY <3>1, <3>2
  <2> QED
    BY <2>1, <2>6, <2>7
<1> QED
  BY <1>1, <1>2

\* A client is on the list once, only after its handler put it there; before,
\* nothing is due to it, and before it connects it receives nothing.
EnterOK ==
  /\ Once(members)
  /\ \A c \in Client :
       /\ session[c] = "out" \/ handling[c] \in {"joinCheck", "joinAdd"}
            => c \notin Elements(members) /\ due[c] = <<>>
       /\ session[c] = "out" => received[c] = <<>> /\ c \notin writing

LEMMA NextEnter ==
  ASSUME FlagsOK, ListsOK, QueuesOK, ToldInv, EnterOK, Onward, Changes
  PROVE  EnterOK'
<1>1. ASSUME NEW d \in Client, JoinAdd(d)
      PROVE  /\ members' = Append(members, d) /\ Once(members')
             /\ Elements(members') = Elements(members) \cup {d}
             /\ session'[d] # "out" /\ handling'[d] \notin {"joinCheck", "joinAdd"}
  <2>1. d \notin Elements(members) /\ session[d] # "out"
    BY <1>1 DEF JoinAdd, EnterOK, ToldInv, RegOK
  <2>2. members' = Append(members, d) /\ session' = session /\ handling'[d] = "joinAnnounce"
    BY <1>1 DEF JoinAdd, socketVars, FlagsOK
  <2> QED
    BY <2>1, <2>2, AppendList, OnceAppend DEF EnterOK, ListsOK
<1>2. ASSUME NEW d \in Client, LeaveRemove(d)
      PROVE  Once(members') /\ Elements(members') \subseteq Elements(members)
  BY <1>2, OnceWithout DEF LeaveRemove, EnterOK, ListsOK
<1>3. Once(members')
  BY <1>1, <1>2 DEF Changes, EnterOK
<1>4. ASSUME NEW c \in Client, session'[c] = "out" \/ handling'[c] \in {"joinCheck", "joinAdd"}
      PROVE  c \notin Elements(members') /\ due'[c] = <<>>
  <2>1. c \notin Elements(members) /\ due[c] = <<>>
    BY <1>4 DEF Onward, EnterOK
  <2>2. c \notin Elements(members')
    <3>1. CASE members' = members
      BY <2>1, <3>1
    <3>2. ASSUME NEW d \in Client, JoinAdd(d) PROVE c \notin Elements(members')
      BY <1>1, <1>4, <2>1, <3>2
    <3>3. ASSUME NEW d \in Client, LeaveRemove(d) PROVE c \notin Elements(members')
      BY <1>2, <2>1, <3>3
    <3> QED
      BY <3>1, <3>2, <3>3 DEF Changes
  <2>3. due'[c] = due[c]
    <3>1. CASE ForwardTake
      BY <2>1, <3>1 DEF ForwardTake
    <3> QED
      BY <3>1 DEF Changes
  <2> QED
    BY <2>1, <2>2, <2>3
<1>5. ASSUME NEW c \in Client, session'[c] = "out" PROVE received'[c] = <<>> /\ c \notin writing'
  <2>1. session[c] = "out" /\ received[c] = <<>> /\ c \notin writing
    BY <1>5 DEF Onward, EnterOK
  <2>2. c \notin writing'
    BY <2>1 DEF Onward
  <2>3. ASSUME NEW d \in Client, GetUsers(d) \/ Write(d) PROVE received'[c] = <<>>
    <3>1. c # d
      BY <2>1, <2>3 DEF GetUsers, Write
    <3> QED
      BY <2>1, <2>3, <3>1 DEF GetUsers, Write, QueuesOK
  <2> QED
    BY <2>1, <2>2, <2>3 DEF Changes
<1> QED
  BY <1>3, <1>4, <1>5 DEF EnterOK

-----------------------------------------------------------------------------
(* Who carries broadcasts *)

LEMMA NotBroadcasts ==
  /\ NoMsg \notin Broadcasts /\ [type |-> "close"] \notin Broadcasts
  /\ \A c \in Client : /\ [type |-> "join", who |-> c] \notin Broadcasts
                        /\ [type |-> "leave", who |-> c] \notin Broadcasts
  /\ \A S : [type |-> "connect", users |-> S] \notin Broadcasts
  /\ \A m \in Directs : m \notin Broadcasts
BY NoMsgAssumption DEF Msg, Broadcasts, Directs

\* To the members nobody but the forwarder passes on a broadcast.
OthersOK == carry[Closer] \notin Broadcasts /\ \A c \in Client : carry[Handler(c)] \notin Broadcasts

LEMMA NextOthers ==
  ASSUME ListsOK, OthersOK, [Next]_vars
  PROVE  OthersOK'
<1>1. ASSUME NEW p \in Process, TellClosed(p)
      PROVE  OthersOK'
  BY <1>1, NotBroadcasts, Processes DEF TellClosed, Told, roomVars, remoteVars, socketVars, passVars,
     net, history, OthersOK, ListsOK
<1>2. ASSUME NEW p \in Process, TellWait(p)
      PROVE  OthersOK'
  BY <1>2, NotBroadcasts, Processes DEF TellWait, roomVars, remoteVars, socketVars, passVars, net,
     history, OthersOK, ListsOK
<1>3. ASSUME NEW p \in Process, TellSend(p)
      PROVE  OthersOK'
  BY <1>3, NotBroadcasts, Processes DEF TellSend, Enqueue, Told, roomVars, remoteVars, socketVars,
     passVars, net, history, OthersOK, ListsOK
<1>4. ASSUME NEW p \in Process, TellTimeout(p)
      PROVE  OthersOK'
  BY <1>4, NotBroadcasts, Processes DEF TellTimeout, Told, roomVars, remoteVars, socketVars, passVars,
     net, history, OthersOK, ListsOK
<1>5. CASE ForwardTake
  BY <1>5, NotBroadcasts, Processes DEF ForwardTake, roomVars, remoteVars, socketVars, passVars, net,
     history, OthersOK, ListsOK
<1>6. CASE ForwardReturn \/ RemoveRoom \/ CloseDone
  BY <1>6, NotBroadcasts, Processes DEF ForwardReturn, RemoveRoom, CloseDone, roomVars, remoteVars,
     socketVars, passVars, net, history, OthersOK, ListsOK
<1>7. CASE CloseAnnounce
  BY <1>7, NotBroadcasts, Processes DEF CloseAnnounce, roomVars, remoteVars, socketVars, passVars, net,
     history, OthersOK, ListsOK
<1>8. CASE CloseOver
  BY <1>8, NotBroadcasts, Processes DEF CloseOver, roomVars, remoteVars, socketVars, passVars, net,
     history, OthersOK, ListsOK
<1>9. ASSUME NEW c \in Client, Connect(c)
      PROVE  OthersOK'
  BY <1>9, NotBroadcasts, Processes DEF Connect, roomVars, remoteVars, socketVars, passVars, net,
     history, OthersOK, ListsOK
<1>10. ASSUME NEW c \in Client, JoinCheck(c)
      PROVE  OthersOK'
  BY <1>10, NotBroadcasts, Processes DEF JoinCheck, Abandoned, roomVars, remoteVars, socketVars,
     passVars, net, history, OthersOK, ListsOK
<1>11. ASSUME NEW c \in Client, JoinAdd(c)
      PROVE  OthersOK'
  BY <1>11, NotBroadcasts, Processes DEF JoinAdd, roomVars, remoteVars, socketVars, passVars, net,
     history, OthersOK, ListsOK
<1>12. ASSUME NEW c \in Client, JoinAnnounce(c) \/ LeaveAnnounce(c)
      PROVE  OthersOK'
  BY <1>12, NotBroadcasts, Processes DEF JoinAnnounce, LeaveAnnounce, roomVars, remoteVars, socketVars,
     passVars, net, history, OthersOK, ListsOK
<1>13. ASSUME NEW c \in Client, JoinOver(c) \/ LeaveOver(c)
      PROVE  OthersOK'
  BY <1>13, NotBroadcasts, Processes DEF JoinOver, Answer, LeaveOver, roomVars, remoteVars, socketVars,
     passVars, net, history, OthersOK, ListsOK
<1>14. ASSUME NEW c \in Client,
            JoinTimeout(c) \/ GetUsersFails(c) \/ LeaveTimeout(c) \/ Disconnect(c)
      PROVE  OthersOK'
  BY <1>14, NotBroadcasts, Processes DEF JoinTimeout, Abandoned, GetUsersFails, LeaveTimeout, Disconnect,
     roomVars, remoteVars, socketVars, passVars, net, history, OthersOK, ListsOK
<1>15. ASSUME NEW c \in Client, GetUsers(c)
      PROVE  OthersOK'
  BY <1>15, NotBroadcasts, Processes DEF GetUsers, roomVars, remoteVars, socketVars, passVars, net,
     history, OthersOK, ListsOK
<1>16. ASSUME NEW c \in Client, ReadBroadcast(c, c \in IncludeSelf)
      PROVE  OthersOK'
  BY <1>16, NotBroadcasts, Processes DEF ReadBroadcast, Reading, Count, roomVars, remoteVars, socketVars,
     passVars, net, history, OthersOK, ListsOK
<1>17. ASSUME NEW c \in Client, NEW d \in Client, ReadDirect(c, d)
      PROVE  OthersOK'
  BY <1>17, NotBroadcasts, Processes DEF ReadDirect, Reading, Count, roomVars, remoteVars, socketVars,
     passVars, net, history, OthersOK, ListsOK
<1>18. ASSUME NEW c \in Client, ReadOther(c) \/ ReadFails(c)
      PROVE  OthersOK'
  BY <1>18, NotBroadcasts, Processes DEF ReadOther, Reading, StartLeave, ReadFails, roomVars, remoteVars,
     socketVars, passVars, net, history, OthersOK, ListsOK
<1>19. ASSUME NEW c \in Client, UpClosed(c) \/ UpCancelled(c) \/ DirectOver(c)
      PROVE  OthersOK'
  BY <1>19, NotBroadcasts, Processes DEF UpClosed, UpCancelled, DirectOver, ReadOver, StartLeave,
     roomVars, remoteVars, socketVars, passVars, net, history, OthersOK, ListsOK
<1>20. ASSUME NEW c \in Client, UpSend(c)
      PROVE  OthersOK'
  BY <1>20, NotBroadcasts, Processes DEF UpSend, ReadOver, StartLeave, roomVars, remoteVars, socketVars,
     passVars, net, history, OthersOK, ListsOK
<1>21. ASSUME NEW c \in Client, UpWait(c)
      PROVE  OthersOK'
  BY <1>21, NotBroadcasts, Processes DEF UpWait, roomVars, remoteVars, socketVars, passVars, net,
     history, OthersOK, ListsOK
<1>22. ASSUME NEW c \in Client, Write(c)
      PROVE  OthersOK'
  BY <1>22, NotBroadcasts, Processes DEF Write, roomVars, remoteVars, socketVars, passVars, net, history,
     OthersOK, ListsOK
<1>23. ASSUME NEW c \in Client, WriteReturn(c)
      PROVE  OthersOK'
  BY <1>23, NotBroadcasts, Processes DEF WriteReturn, roomVars, remoteVars, socketVars, passVars, net,
     history, OthersOK, ListsOK
<1>24. ASSUME NEW c \in Client, LeaveCheck(c)
      PROVE  OthersOK'
  BY <1>24, NotBroadcasts, Processes DEF LeaveCheck, Answer, roomVars, remoteVars, socketVars, passVars,
     net, history, OthersOK, ListsOK
<1>25. ASSUME NEW c \in Client, LeaveRemove(c)
      PROVE  OthersOK'
  BY <1>25, NotBroadcasts, Processes DEF LeaveRemove, roomVars, remoteVars, socketVars, passVars, net,
     history, OthersOK, ListsOK
<1>26. ASSUME NEW c \in Client, CloseRemote(c)
      PROVE  OthersOK'
  BY <1>26, NotBroadcasts, Processes DEF CloseRemote, Abandoned, roomVars, remoteVars, socketVars,
     passVars, net, history, OthersOK, ListsOK
<1>27. CASE UNCHANGED vars
  BY <1>27, NotBroadcasts, Processes DEF vars, roomVars, remoteVars, socketVars, passVars, net, history,
     OthersOK, ListsOK
<1>28. ASSUME NEW c \in Client, LateTell(c)
      PROVE  OthersOK'
  BY <1>28, NotBroadcasts, Processes DEF LateTell, Enqueue, roomVars, remoteVars, socketVars, passVars,
     net, history, OthersOK, ListsOK
<1>29. CASE LateUp \/ LateLost
  BY <1>29, NotBroadcasts, Processes DEF LateUp, LateLost, roomVars, remoteVars, socketVars, passVars,
     net, history, OthersOK, ListsOK
<1> QED
  BY <1>1, <1>2, <1>3, <1>4, <1>5, <1>6, <1>7, <1>8, <1>9, <1>10, <1>11, <1>12, <1>13, <1>14,
     <1>15, <1>16, <1>17, <1>18, <1>19, <1>20, <1>21, <1>22, <1>23, <1>24, <1>25, <1>26,
     <1>27, <1>28, <1>29, Processes DEF Next, Chance, Handle, Serve, Writer, Join, Leave,
     Pass, Forward, Close, Tell

LEMMA OnlyForwarder ==
  ASSUME CarryOK, OthersOK, NEW p \in Process, p # Forwarder, todo[p] # <<>>
  PROVE  carry[p] \notin Broadcasts
BY NotBroadcasts, Processes DEF CarryOK, OthersOK, Process

-----------------------------------------------------------------------------
(* What is under way *)

\* The forwarder tells every member once, each of them a client that has
\* connected; calls given up keep no broadcast back from a client near the room.
ForwarderOK ==
  /\ Once(todo[Forwarder])
  /\ \A c \in Elements(todo[Forwarder]) : session[c] # "out"
  /\ Forwarder \in inListen => todo[Forwarder] # <<>>
  /\ \A x \in lateTells : x[1] \in far \/ x[2] \notin Broadcasts

\* Whether the client a message comes from has connected.
Said(m) == m \in Broadcasts => session[m.from] # "out"

\* What the forwarder and clients near the room have was said by somebody.
SaidOK ==
  /\ \A m \in Elements(roomQueue) \cup lateUps : Said(m)
  /\ Said(carry[Forwarder])
  /\ \A c \in Client \ far :
       \A m \in Elements(queue[c]) \cup Elements(received[c]) \cup Elements(due[c]) : Said(m)

\* The forwarder gives up no client near the room.
LEMMA ForwarderCrosses ==
  ASSUME FlagsOK, NEW c, Crosses(Forwarder, c)
  PROVE  c \in far
<1>1. (\E d \in far : Forwarder = Reader(d)) = FALSE
  BY Processes DEF FlagsOK
<1>2. ASSUME c \notin far PROVE FALSE
  <2>1. (c \in far) = FALSE
    BY <1>2
  <2>2. Crosses(Forwarder, c) = FALSE
    BY <1>1, <2>1, Zenon DEF Crosses
  <2> QED
    BY <2>2
<1> QED
  BY <1>2

LEMMA NextForwarder ==
  ASSUME FlagsOK, ListsOK, CarryOK, EnterOK, OthersOK, ForwarderOK, Onward, Changes
  PROVE  ForwarderOK'
<1>1. ASSUME NEW x \in lateTells' PROVE x[1] \in far' \/ x[2] \notin Broadcasts
  <2>1. CASE x \in lateTells
    BY <2>1 DEF ForwarderOK, Onward
  <2>2. ASSUME NEW p \in Process, TellTimeout(p), x \notin lateTells
        PROVE  x[1] \in far' \/ x[2] \notin Broadcasts
    <3>1. todo[p] # <<>> /\ Crosses(p, Head(todo[p])) /\ x = <<Head(todo[p]), carry[p]>>
      BY <1>1, <2>2 DEF TellTimeout
    <3>2. CASE p = Forwarder
      BY <3>1, <3>2, ForwarderCrosses DEF Onward
    <3>3. CASE p # Forwarder
      BY <3>1, <3>3, OnlyForwarder
    <3> QED
      BY <3>2, <3>3
  <2> QED
    BY <1>1, <2>1, <2>2 DEF Changes
<1>2. CASE /\ todo'[Forwarder] = todo[Forwarder]
           /\ Forwarder \in inListen' <=> Forwarder \in inListen
  <2>1. \A c \in Elements(todo[Forwarder]) : c \in Client
    BY Processes DEF ListsOK, Elements
  <2> QED
    BY <1>1, <1>2, <2>1 DEF ForwarderOK, Onward
<1>3. CASE ForwardTake
  <2> DEFINE m == Head(roomQueue)
             s == IF m.includeSelf THEN members ELSE Without(members, m.from)
  <2>1. todo'[Forwarder] = s /\ inListen' = inListen /\ todo[Forwarder] = <<>>
    BY <1>3, Processes DEF ForwardTake, ListsOK
  <2>2. Once(s) /\ Elements(s) \subseteq Elements(members)
    BY OnceWithout DEF ListsOK, EnterOK
  <2>3. \A c \in Elements(members) : c \in Client /\ session[c] # "out"
    BY DEF EnterOK, ListsOK, Elements
  <2> QED
    BY <1>1, <2>1, <2>2, <2>3 DEF ForwarderOK, Onward
<1>4. CASE Tell(Forwarder)
  <2>1. CASE TellWait(Forwarder)
    BY <1>1, <1>2, <2>1 DEF TellWait, passVars, ForwarderOK, Onward, Elements, ListsOK, Process
  <2>2. CASE todo[Forwarder] # <<>> /\ Told(Forwarder)
    <3>1. /\ todo'[Forwarder] = Tail(todo[Forwarder]) /\ Forwarder \notin inListen'
          /\ todo[Forwarder] \in Seq(Client)
      BY <2>2, Processes DEF Told, ListsOK
    <3>2. /\ Elements(todo'[Forwarder]) \subseteq Elements(todo[Forwarder])
          /\ Once(todo'[Forwarder])
      BY <2>2, <3>1, TailList, OnceTail DEF ForwarderOK
    <3>3. \A c \in Elements(todo[Forwarder]) : c \in Client
      BY <3>1 DEF Elements
    <3> QED
      BY <1>1, <3>1, <3>2, <3>3 DEF ForwarderOK, Onward
  <2> QED
    BY <1>4, <2>1, <2>2 DEF Tell, TellClosed, TellSend, TellTimeout
<1> QED
  BY <1>2, <1>3, <1>4 DEF Changes

LEMMA MaybeAppend ==
  ASSUME NEW S, NEW s \in Seq(S), NEW x \in S, NEW t, t = s \/ t = Append(s, x)
  PROVE  \A y \in Elements(t) : y \in Elements(s) \/ y = x
<1>1. CASE t = s
  BY <1>1
<1>2. CASE t = Append(s, x)
  BY <1>2, AppendList
<1> QED
  BY <1>1, <1>2

LEMMA NextSaid ==
  ASSUME FlagsOK, ListsOK, QueuesOK, CarryOK, ReaderOK, EnterOK, OthersOK, ForwarderOK, SaidOK,
         Onward, Changes
  PROVE  SaidOK'
<1> DEFINE Spoken(m) == m \in Broadcasts => session'[m.from] # "out"
<1>1. \A m : Said(m) => Spoken(m)
  BY DEF Said, Onward, Broadcasts
<1>2. \A m : m \notin Broadcasts => Spoken(m)
  OBVIOUS
<1>3. ASSUME NEW s \in Client, Upward(s) PROVE Spoken(carry[Reader(s)])
  <2>1. carry[Reader(s)].from = s /\ session[s] = "serving"
    BY <1>3 DEF ReaderOK, Upward
  <2>2. session'[s] # "out"
    BY <2>1 DEF Onward
  <2> QED
    BY <2>1, <2>2
<1>4. ASSUME NEW p \in Process, todo[p] # <<>> PROVE Spoken(carry[p])
  <2>1. CASE p = Forwarder
    BY <1>1, <2>1 DEF SaidOK
  <2>2. CASE p # Forwarder
    BY <1>4, <2>2, OnlyForwarder
  <2> QED
    BY <2>1, <2>2
<1> HIDE DEF Spoken
<1>5. \A m \in Elements(roomQueue) : Spoken(m)
  BY <1>1 DEF SaidOK
<1>6. \A m \in lateUps : Spoken(m)
  BY <1>1 DEF SaidOK
<1>7. \A m \in Elements(roomQueue') : Spoken(m)
  <2>1. CASE ForwardTake
    <3>1. roomQueue # <<>> /\ roomQueue' = Tail(roomQueue) /\ roomQueue \in Seq(Broadcasts)
      BY <2>1 DEF ForwardTake, QueuesOK
    <3> QED
      BY <1>5, <3>1, TailList
  <2>2. CASE LateUp
    <3>1. PICK m \in lateUps : roomQueue' = Append(roomQueue, m)
      BY <2>2 DEF LateUp
    <3>2. m \in Broadcasts /\ roomQueue \in Seq(Broadcasts)
      BY DEF QueuesOK
    <3> QED
      BY <1>5, <1>6, <3>1, <3>2, AppendList
  <2>3. ASSUME NEW c \in Client, UpSend(c) PROVE \A m \in Elements(roomQueue') : Spoken(m)
    <3>1. /\ roomQueue' = Append(roomQueue, carry[Reader(c)]) /\ Upward(c)
          /\ carry[Reader(c)] \in Broadcasts /\ roomQueue \in Seq(Broadcasts)
      BY <2>3, MsgTypes, Processes DEF UpSend, Upward, QueuesOK, ListsOK
    <3> QED
      BY <1>3, <1>5, <3>1, AppendList
  <2> QED
    BY <1>5, <2>1, <2>2, <2>3 DEF Changes
<1>8. \A m \in lateUps' : Spoken(m)
  <2>1. ASSUME NEW c \in Client, UpCancelled(c) PROVE \A m \in lateUps' : Spoken(m)
    <3>1. Upward(c) /\ lateUps' \subseteq lateUps \cup {carry[Reader(c)]}
      BY <2>1 DEF UpCancelled
    <3> QED
      BY <1>3, <1>6, <3>1
  <2> QED
    BY <1>6, <2>1 DEF Changes
<1>9. Spoken(carry'[Forwarder])
  <2>1. CASE carry'[Forwarder] = carry[Forwarder]
    BY <1>1, <2>1 DEF SaidOK
  <2>2. CASE ForwardTake
    <3>1. carry'[Forwarder] = Head(roomQueue) /\ roomQueue # <<>> /\ roomQueue \in Seq(Broadcasts)
      BY <2>2, Processes DEF ForwardTake, ListsOK, QueuesOK
    <3> QED
      BY <1>5, <3>1, TailList
  <2>3. CASE Tell(Forwarder)
    BY <2>1, <2>3 DEF Tell, TellClosed, TellWait, TellSend, TellTimeout, passVars
  <2> QED
    BY <2>1, <2>2, <2>3 DEF Changes
<1>10. ASSUME NEW c \in Client \ far'
       PROVE  \A m \in Elements(queue'[c]) \cup Elements(received'[c]) \cup Elements(due'[c]) :
                Spoken(m)
  <2>0. c \in Client \ far
    BY DEF Onward
  <2>1. \A m \in Elements(queue[c]) : Spoken(m)
    BY <1>1, <2>0 DEF SaidOK
  <2>2. \A m \in Elements(received[c]) : Spoken(m)
    BY <1>1, <2>0 DEF SaidOK
  <2>3. \A m \in Elements(due[c]) : Spoken(m)
    BY <1>1, <2>0 DEF SaidOK
  <2>4. queue[c] \in Seq(Msg) /\ received[c] \in Seq(Frame) /\ due[c] \in Seq(Broadcasts)
    BY DEF QueuesOK
  <2>5. \A m \in Elements(queue'[c]) : Spoken(m)
    <3>1. ASSUME NEW p \in Process, TellSend(p) PROVE \A m \in Elements(queue'[c]) : Spoken(m)
      <4>1. /\ queue'[c] = queue[c] \/ queue'[c] = Append(queue[c], carry[p])
            /\ todo[p] # <<>> /\ carry[p] \in Msg
        BY <3>1 DEF TellSend, Enqueue, QueuesOK, CarryOK
      <4>2. \A m \in Elements(queue'[c]) : m \in Elements(queue[c]) \/ m = carry[p]
        BY <2>4, <4>1, MaybeAppend
      <4> QED
        BY <1>4, <2>1, <4>1, <4>2
    <3>2. ASSUME NEW d \in Client, LateTell(d) PROVE \A m \in Elements(queue'[c]) : Spoken(m)
      <4>1. PICK m \in {x[2] : x \in {y \in lateTells : y[1] = d}} : Enqueue(d, m)
        BY <3>2 DEF LateTell
      <4>2. \E y \in lateTells : y[1] = d /\ y[2] = m /\ m \in Msg
        BY DEF QueuesOK
      <4>3. CASE d = c
        <5>1. m \in Msg /\ m \notin Broadcasts
          BY <2>0, <4>2, <4>3 DEF ForwarderOK
        <5>2. queue'[c] = Append(queue[c], m)
          BY <4>1, <4>3 DEF Enqueue, QueuesOK
        <5> QED
          BY <1>2, <2>1, <2>4, <5>1, <5>2, AppendList
      <4>4. CASE d # c
        BY <2>1, <4>1, <4>4 DEF Enqueue, QueuesOK
      <4> QED
        BY <4>3, <4>4
    <3>3. ASSUME NEW d \in Client, Write(d) PROVE \A m \in Elements(queue'[c]) : Spoken(m)
      <4>1. queue'[c] = queue[c] \/ (queue[c] # <<>> /\ queue'[c] = Tail(queue[c]))
        BY <3>3 DEF Write, QueuesOK
      <4> QED
        BY <2>1, <2>4, <4>1, TailList
    <3> QED
      BY <2>1, <3>1, <3>2, <3>3 DEF Changes
  <2>6. \A m \in Elements(received'[c]) : Spoken(m)
    <3>1. ASSUME NEW d \in Client, GetUsers(d) PROVE \A m \in Elements(received'[c]) : Spoken(m)
      <4> DEFINE f == [type |-> "connect", users |-> Elements(members)]
      <4>1. f \in Frame /\ f \notin Broadcasts
        BY MsgTypes, NotBroadcasts DEF ListsOK, Elements
      <4> HIDE DEF f
      <4>2. received'[c] = received[c] \/ received'[c] = Append(received[c], f)
        BY <3>1 DEF GetUsers, QueuesOK, f
      <4>3. \A m \in Elements(received'[c]) : m \in Elements(received[c]) \/ m = f
        BY <2>4, <4>1, <4>2, MaybeAppend
      <4> QED
        BY <1>2, <2>2, <4>1, <4>3
    <3>2. ASSUME NEW d \in Client, Write(d) PROVE \A m \in Elements(received'[c]) : Spoken(m)
      <4>1. \/ received'[c] = received[c]
            \/ queue[c] # <<>> /\ received'[c] = Append(received[c], Head(queue[c]))
        BY <3>2 DEF Write, QueuesOK
      <4>2. queue[c] # <<>> => Head(queue[c]) \in Frame /\ Spoken(Head(queue[c]))
        BY <2>1, <2>4, TailList DEF Frame
      <4>3. CASE queue[c] # <<>>
        <5> DEFINE h == Head(queue[c])
        <5>1. h \in Frame /\ (received'[c] = received[c] \/ received'[c] = Append(received[c], h))
          BY <4>1, <4>2, <4>3
        <5> HIDE DEF h
        <5>2. \A m \in Elements(received'[c]) : m \in Elements(received[c]) \/ m = h
          BY <2>4, <5>1, MaybeAppend
        <5> QED
          BY <2>2, <4>2, <4>3, <5>2 DEF h
      <4> QED
        BY <2>2, <4>1, <4>3
    <3> QED
      BY <2>2, <3>1, <3>2 DEF Changes
  <2>7. \A m \in Elements(due'[c]) : Spoken(m)
    <3>1. CASE ForwardTake
      <4>1. /\ due'[c] = due[c] \/ due'[c] = Append(due[c], Head(roomQueue))
            /\ roomQueue # <<>> /\ roomQueue \in Seq(Broadcasts)
        BY <3>1 DEF ForwardTake, QueuesOK
      <4>2. Head(roomQueue) \in Broadcasts /\ Spoken(Head(roomQueue))
        BY <1>5, <4>1, TailList
      <4> DEFINE h == Head(roomQueue)
      <4>3. h \in Broadcasts /\ (due'[c] = due[c] \/ due'[c] = Append(due[c], h))
        BY <4>1, <4>2
      <4> HIDE DEF h
      <4>4. \A m \in Elements(due'[c]) : m \in Elements(due[c]) \/ m = h
        BY <2>4, <4>3, MaybeAppend
      <4> QED
        BY <2>3, <4>2, <4>4 DEF h
    <3> QED
      BY <2>3, <3>1 DEF Changes
  <2> QED
    BY <2>5, <2>6, <2>7
<1> QED
  BY <1>7, <1>8, <1>9, <1>10 DEF SaidOK, Said, Spoken

-----------------------------------------------------------------------------
(* How broadcasts are numbered *)

From(s) == {b \in Broadcasts : b.from = s}

\* The broadcasts of s in the queue of the room, and the number of those that
\* the room has or had, with the one that its reader has.
Line(s) == Only(roomQueue, From(s))

Counted(s) == published[s] + Len(Line(s)) + (IF Upward(s) THEN 1 ELSE 0)

\* Whether a broadcast of s may still get into the queue of the room.
MaySend(s) == session[s] = "serving" /\ (RoomDone => Upward(s) /\ Reader(s) \in inListen)

\* Those of a client near the room get into its queue without a gap, as long as
\* any do: the reader gives one up only when the session or the room is over.
NumberOK ==
  /\ \A m \in lateUps : m.from \in far
  /\ \A s \in Client \ far :
       /\ \A i \in 1 .. Len(Line(s)) : Line(s)[i].n = published[s] + i
       /\ Counted(s) <= sent[<<"broadcast", s>>]
       /\ MaySend(s) => Counted(s) = sent[<<"broadcast", s>>]
       /\ session[s] \in {"out", "joining", "users"} => sent[<<"broadcast", s>>] = 0

LEMMA UpSends ==
  ASSUME ListsOK, ReaderOK, NEW c \in Client, UpSend(c)
  PROVE  /\ carry[Reader(c)] \in Broadcasts /\ carry[Reader(c)].from = c /\ session[c] = "serving"
         /\ carry[Reader(c)].n = sent[<<"broadcast", c>>]
         /\ roomQueue' = Append(roomQueue, carry[Reader(c)]) /\ published' = published
BY MsgTypes, Processes DEF UpSend, Upward, ReaderOK, ListsOK, history

LEMMA LineSteps ==
  ASSUME ListsOK, QueuesOK, ReaderOK, NumberOK, Changes, NEW s \in Client \ far, ~UpSend(s)
  PROVE  \/ Line(s)' = Line(s) /\ published'[s] = published[s]
         \/ Line(s) = <<Head(Line(s))>> \o Line(s)' /\ published'[s] = published[s] + 1
<1> DEFINE F == From(s)
<1>1. Line(s) = Only(roomQueue, F) /\ Line(s)' = Only(roomQueue', F)
  BY DEF Line, From, Broadcasts
<1>2. roomQueue \in Seq(Broadcasts)
  BY DEF QueuesOK
<1>3. CASE ForwardTake
  <2> DEFINE h == Head(roomQueue)
             a == <<h>>
             r == Only(Tail(roomQueue), F)
  <2>1. /\ roomQueue # <<>> /\ roomQueue' = Tail(roomQueue)
        /\ published' = [published EXCEPT ![h.from] = @ + 1] /\ published \in [Client -> Nat]
    BY <1>3 DEF ForwardTake, QueuesOK
  <2>2. h \in Broadcasts /\ Tail(roomQueue) \in Seq(Broadcasts)
    BY <1>2, <2>1, TailList
  <2>3. Only(roomQueue, F) = IF h \in F THEN a \o r ELSE r
    BY <1>2, <2>1, OnlyTail
  <2>4. h \in F <=> h.from = s
    BY <2>2 DEF From
  <2>5. r \in Seq(F) /\ Line(s)' = r
    BY <1>1, <2>1, <2>2, OnlyList
  <2> HIDE DEF F, r, h
  <2>6. CASE h.from = s
    <3>1. Line(s) = a \o r /\ published'[s] = published[s] + 1
      BY <1>1, <2>1, <2>3, <2>4, <2>6
    <3>2. Head(a \o r) = h
      <4>1. h \in F
        BY <2>4, <2>6
      <4> QED
        BY <2>5, <4>1, Prefixed
    <3> QED
      BY <2>5, <3>1, <3>2
  <2>7. CASE h.from # s
    BY <1>1, <2>1, <2>3, <2>4, <2>5, <2>7
  <2> QED
    BY <2>6, <2>7
<1>4. ASSUME NEW m \in Broadcasts, m.from # s, roomQueue' = Append(roomQueue, m)
      PROVE  Line(s)' = Line(s)
  <2>1. m \notin F
    BY <1>4 DEF From
  <2> HIDE DEF F
  <2> QED
    BY <1>1, <1>2, <1>4, <2>1, OnlyAppend
<1>5. CASE ~ForwardTake
  <2>1. published'[s] = published[s]
    BY <1>5 DEF Changes
  <2>2. CASE LateUp
    <3>1. PICK m \in lateUps : roomQueue' = Append(roomQueue, m)
      BY <2>2 DEF LateUp
    <3>2. m \in Broadcasts /\ m.from # s
      BY DEF QueuesOK, NumberOK
    <3> QED
      BY <1>4, <2>1, <3>1, <3>2
  <2>3. ASSUME NEW c \in Client, UpSend(c) PROVE Line(s)' = Line(s)
    <3>1. /\ carry[Reader(c)] \in Broadcasts /\ carry[Reader(c)].from = c
          /\ roomQueue' = Append(roomQueue, carry[Reader(c)])
      BY <2>3, UpSends
    <3>2. c # s
      BY <2>3
    <3> QED
      BY <1>4, <3>1, <3>2
  <2> QED
    BY <1>1, <1>5, <2>1, <2>2, <2>3 DEF Changes
<1> QED
  BY <1>3, <1>5

LEMMA NextNumber ==
  ASSUME FlagsOK, ListsOK, QueuesOK, CarryOK, HandlerOK, ReaderOK, NumberOK, Onward, Changes,
         QueuesOK', [Next]_vars
  PROVE  NumberOK'
<1>1. \A m \in lateUps' : m.from \in far'
  <2>1. \A m \in lateUps : m.from \in far'
    BY DEF NumberOK, Onward
  <2>2. ASSUME NEW c \in Client, UpCancelled(c) PROVE \A m \in lateUps' : m.from \in far'
    <3>1. /\ Upward(c) /\ far' = far
          /\ \/ lateUps' = lateUps
             \/ c \in far /\ lateUps' = lateUps \cup {carry[Reader(c)]}
      BY <2>2 DEF UpCancelled
    <3>2. carry[Reader(c)].from = c
      BY <3>1 DEF ReaderOK
    <3> QED
      BY <2>1, <3>1, <3>2
  <2> QED
    BY <2>1, <2>2 DEF Changes
<1>2. ASSUME NEW s \in Client \ far'
      PROVE  /\ \A i \in 1 .. Len(Line(s)') : Line(s)'[i].n = published'[s] + i
             /\ Counted(s)' <= sent'[<<"broadcast", s>>]
             /\ MaySend(s)' => Counted(s)' = sent'[<<"broadcast", s>>]
             /\ session'[s] \in {"out", "joining", "users"} => sent'[<<"broadcast", s>>] = 0
  <2> DEFINE k == <<"broadcast", s>>
             L == Line(s)
             M == Line(s)'
  <2>1. s \in Client \ far
    BY DEF Onward
  <2>2. /\ \A i \in 1 .. Len(L) : L[i].n = published[s] + i
        /\ Counted(s) <= sent[k] /\ (MaySend(s) => Counted(s) = sent[k])
        /\ session[s] \in {"out", "joining", "users"} => sent[k] = 0
    BY <2>1 DEF NumberOK
  <2>3. L \in Seq(Broadcasts) /\ M \in Seq(Broadcasts)
    <3>1. roomQueue \in Seq(Broadcasts) /\ roomQueue' \in Seq(Broadcasts)
      BY DEF QueuesOK
    <3> QED
      BY <3>1, OnlyList DEF Line
  <2>4. published[s] \in Nat /\ sent[k] \in Nat
    BY DEF QueuesOK, ListsOK
  <2>5. CASE UpSend(s)
    <3> DEFINE m == carry[Reader(s)]
    <3>1. /\ m \in Broadcasts /\ m.from = s /\ session[s] = "serving" /\ m.n = sent[k]
          /\ roomQueue' = Append(roomQueue, m) /\ published' = published
      BY <2>5, UpSends
    <3>2. carry'[Reader(s)] = NoMsg /\ sent' = sent /\ Upward(s)
      BY <2>5, Processes DEF UpSend, ReadOver, ListsOK
    <3>3. M = Append(L, m)
      <4>1. roomQueue \in Seq(Broadcasts) /\ m \in From(s)
        BY <3>1 DEF QueuesOK, From
      <4>2. M = Only(Append(roomQueue, m), From(s))
        BY <3>1 DEF Line, From, Broadcasts
      <4>3. L = Only(roomQueue, From(s))
        BY DEF Line
      <4> HIDE DEF m, L, M
      <4> QED
        BY <3>1, <4>1, <4>2, <4>3, OnlyAppend
    <3>4. Counted(s) = sent[k]
      <4>1. RoomDone => Reader(s) \in inListen
        BY <2>5 DEF UpSend
      <4> QED
        BY <2>2, <3>1, <3>2, <4>1 DEF MaySend
    <3> HIDE DEF m, L, M
    <3>5. sent[k] = published[s] + Len(L) + 1
      BY <3>2, <3>4 DEF Counted, L
    <3>6. /\ Len(M) = Len(L) + 1 /\ M[Len(L) + 1] = m /\ \A i \in 1 .. Len(L) : M[i] = L[i]
          /\ Len(L) \in Nat
      BY <2>3, <3>1, <3>3, AppendProperties, LenProperties
    <3>7. Counted(s)' = sent'[k]
      <4>1. ~Upward(s)'
        BY <3>2 DEF Upward
      <4>2. Counted(s)' = (published'[s] + Len(M)) + 0
        BY <4>1 DEF Counted, M
      <4>3. /\ published'[s] = published[s] /\ sent'[k] = sent[k] /\ Len(M) = Len(L) + 1
            /\ Len(L) \in Nat /\ sent[k] = published[s] + Len(L) + 1
        BY <3>1, <3>2, <3>5, <3>6
      <4>4. published'[s] + Len(M) = sent'[k] /\ sent'[k] \in Nat
        BY <2>4, <4>3
      <4> QED
        BY <4>2, <4>4
    <3>8. \A i \in 1 .. Len(M) : M[i].n = published'[s] + i
      <4>1. \A i \in 1 .. Len(L) : L[i].n = published[s] + i
        BY <2>2 DEF L
      <4>2. m.n = published[s] + (Len(L) + 1)
        <5>1. m.n = (published[s] + Len(L)) + 1
          BY <3>1, <3>5
        <5> QED
          BY <2>4, <3>6, <5>1
      <4>3. published'[s] = published[s]
        BY <3>1
      <4>4. \A i \in 1 .. Len(M) : i \in 1 .. Len(L) \/ i = Len(L) + 1
        BY <3>6
      <4> QED
        BY <3>6, <4>1, <4>2, <4>3, <4>4
    <3>9. session'[s] \notin {"out", "joining", "users"}
      BY <3>1 DEF Onward
    <3>10. sent'[k] \in Nat
      BY <2>4, <3>2
    <3> QED
      BY <3>7, <3>8, <3>9, <3>10 DEF M
  <2>6. CASE ~UpSend(s)
    <3>1. /\ published'[s] + Len(M) = published[s] + Len(L)
          /\ \A i \in 1 .. Len(M) : M[i].n = published'[s] + i
          /\ published'[s] \in Nat
      <4>1. CASE M = L /\ published'[s] = published[s]
        BY <2>2, <2>4, <4>1
      <4>2. CASE L = <<Head(L)>> \o M /\ published'[s] = published[s] + 1
        <5> DEFINE h == Head(L)
        <5>1. L # <<>>
          <6>1. Len(<<h>>) = 1 /\ <<h>> # <<>>
            OBVIOUS
          <6> HIDE DEF L, M
          <6> QED
            BY <2>3, <4>2
        <5>2. h \in Broadcasts /\ Tail(L) \in Seq(Broadcasts)
          BY <2>3, <5>1, TailList
        <5>3. L = <<h>> \o M
          BY <4>2
        <5> HIDE DEF h, L, M
        <5>4. Len(L) = Len(M) + 1 /\ \A i \in 1 .. Len(M) : L[i + 1] = M[i]
          BY <2>3, <5>2, <5>3, Prefixed
        <5>5. Len(L) \in Nat /\ Len(M) \in Nat
          BY <2>3
        <5>6. \A i \in 1 .. Len(M) : M[i].n = published[s] + (i + 1)
          <6> SUFFICES ASSUME NEW i \in 1 .. Len(M) PROVE M[i].n = published[s] + (i + 1)
            OBVIOUS
          <6>1. i + 1 \in 1 .. Len(L) /\ M[i] = L[i + 1]
            BY <5>4, <5>5
          <6>2. \A j \in 1 .. Len(L) : L[j].n = published[s] + j
            BY <2>2 DEF L
          <6> QED
            BY <6>1, <6>2
        <5>7. published'[s] = published[s] + 1
          BY <4>2
        <5> DEFINE a == published[s]
                   b == published'[s]
        <5>8. a \in Nat /\ b = a + 1 /\ Len(L) = Len(M) + 1 /\ Len(M) \in Nat
          BY <2>4, <5>4, <5>5, <5>7
        <5>9. \A i \in 1 .. Len(M) : M[i].n = a + (i + 1)
          BY <5>6
        <5> HIDE DEF a, b
        <5>10. b + Len(M) = a + Len(L) /\ b \in Nat
          BY <5>8
        <5>11. \A i \in 1 .. Len(M) : a + (i + 1) = b + i
          BY <5>8
        <5>12. \A i \in 1 .. Len(M) : M[i].n = b + i
          BY <5>9, <5>11
        <5> QED
          BY <5>10, <5>12 DEF a, b
      <4> QED
        BY <2>1, <2>6, <4>1, <4>2, LineSteps
    <3> DEFINE U == IF Upward(s) THEN 1 ELSE 0
               V == IF Upward(s)' THEN 1 ELSE 0
               T == published[s] + Len(L)
    <3>2. Counted(s) = T + U /\ Counted(s)' = T + V /\ T \in Nat
      <4>1. Counted(s) = published[s] + Len(L) + U
        BY DEF Counted
      <4>2. Counted(s)' = published'[s] + Len(M) + V
        BY DEF Counted
      <4> HIDE DEF L, M, U, V
      <4>3. Len(L) \in Nat
        BY <2>3
      <4> QED
        BY <2>4, <3>1, <4>1, <4>2, <4>3
    <3> HIDE DEF T
    <3>3. session'[s] \in {"out", "joining", "users"} => session[s] \in {"out", "joining", "users"}
      BY DEF Onward
    <3>4. session'[s] = "serving" => session[s] \in {"users", "serving"}
      BY DEF Onward
    <3>5. CASE Still(s)
      <4>1. sent'[k] = sent[k] /\ U = V
        BY <3>5 DEF Still, Upward
      <4>2. ASSUME MaySend(s)', session[s] = "serving" PROVE MaySend(s)
        <5>1. ASSUME RoomDone PROVE Upward(s) /\ Reader(s) \in inListen
          <6>1. RoomDone' /\ Upward(s)' /\ Reader(s) \in inListen'
            BY <4>2, <5>1 DEF MaySend, Onward
          <6>2. Upward(s)
            BY <3>5, <6>1 DEF Still, Upward
          <6>3. todo[Reader(s)] = <<>>
            BY <6>2, MsgTypes DEF CarryOK, Upward
          <6>4. ~UpWait(s)
            BY <5>1 DEF UpWait
          <6> QED
            BY <3>5, <6>1, <6>2, <6>3, <6>4 DEF Still
        <5> QED
          BY <4>2, <5>1 DEF MaySend
      <4>3. MaySend(s)' => session'[s] = "serving"
        BY DEF MaySend
      <4> QED
        BY <2>2, <2>4, <3>1, <3>2, <3>3, <3>4, <4>1, <4>2, <4>3
    <3>6. CASE LaysDownItsOwn(s)
      <4>1. sent'[k] = sent[k] /\ ~Upward(s)'
        BY <3>6 DEF LaysDownItsOwn, Upward
      <4>2. ASSUME MaySend(s)' PROVE session'[s] = "serving" /\ ~RoomDone /\ ~Upward(s)
        <5>1. session'[s] = "serving" /\ ~RoomDone'
          BY <4>1, <4>2 DEF MaySend
        <5>2. ~RoomDone
          BY <5>1 DEF Onward
        <5> QED
          BY <2>1, <2>6, <3>6, <5>1, <5>2 DEF LaysDownItsOwn
      <4>3. ~RoomDone /\ session[s] = "serving" => MaySend(s)
        BY DEF MaySend
      <4> QED
        BY <2>2, <2>4, <3>1, <3>2, <3>3, <3>4, <4>1, <4>2, <4>3
    <3>7. CASE ReadBroadcast(s, s \in IncludeSelf)
      <4>1. /\ sent'[k] = sent[k] + 1 /\ ~Upward(s) /\ Upward(s)'
            /\ session[s] = "serving" /\ session'[s] = "serving"
        BY <3>7, ReadsBroadcast
      <4>2. MaySend(s)' => MaySend(s)
        <5>1. carry[Reader(s)] = NoMsg /\ inListen' = inListen /\ closing' = closing
          BY <3>7, ReadsBroadcast
        <5>2. Reader(s) \notin inListen'
          BY <5>1 DEF ReaderOK
        <5> QED
          BY <4>1, <5>1, <5>2 DEF MaySend, RoomDone
      <4> QED
        BY <2>2, <2>4, <3>1, <3>2, <3>3, <4>1, <4>2
    <3>8. ASSUME NEW d \in Client, ReadDirect(s, d)
          PROVE  /\ Counted(s)' <= sent'[k] /\ (MaySend(s)' => Counted(s)' = sent'[k])
                 /\ session'[s] \in {"out", "joining", "users"} => sent'[k] = 0
      <4>1. /\ sent'[k] = sent[k] /\ ~Upward(s) /\ ~Upward(s)'
            /\ session[s] = "serving" /\ session'[s] = "serving"
        BY <3>8, ReadsDirect
      <4>3. MaySend(s)' => MaySend(s)
        BY <4>1 DEF MaySend, Onward
      <4> QED
        BY <2>2, <2>4, <3>1, <3>2, <3>3, <4>1, <4>3
    <3> QED
      BY <2>1, <3>1, <3>5, <3>6, <3>7, <3>8, ReaderSteps DEF Reads
  <2> QED
    BY <2>5, <2>6
<1> QED
  BY <1>1, <1>2 DEF NumberOK

-----------------------------------------------------------------------------
(* What is due and what is under way *)

\* The broadcasts of clients near the room that client c received or has in its
\* queue, and whether it is to get the one that the forwarder has.
Reaches(c) == Only(received[c], Near) \o Only(queue[c], Near)

Owed(c) ==
  /\ c \in Elements(todo[Forwarder]) /\ carry[Forwarder] \in Near
  /\ c \in rdone => Forwarder \in inListen /\ Head(todo[Forwarder]) = c

Begins(s, t) == Len(s) <= Len(t) /\ \A i \in 1 .. Len(s) : s[i] = t[i]

Promised(c) == Only(due[c], Near)

\* Nothing reaches a client but what is due to it, in that order; nothing is
\* missing until its session ends.
PromiseOK ==
  \A c \in alive \ far :
    /\ Begins(Reaches(c), Promised(c))
    /\ Owed(c) => /\ Len(Promised(c)) > Len(Reaches(c))
                  /\ Promised(c)[Len(Reaches(c)) + 1] = carry[Forwarder]
    /\ c \notin rdone => Len(Promised(c)) = Len(Reaches(c)) + (IF Owed(c) THEN 1 ELSE 0)

\* A client that moves away from the room has not said anything yet.
LEMMA NearStays ==
  ASSUME QueuesOK, SaidOK, Onward, NEW c \in Client \ far'
  PROVE  /\ Only(received[c], Near') = Only(received[c], Near)
         /\ Only(queue[c], Near') = Only(queue[c], Near)
         /\ Only(due[c], Near') = Only(due[c], Near)
         /\ \A m : Said(m) => (m \in Near' <=> m \in Near)
<1> DEFINE N == Near
           M == Near'
<1>1. \A m : Said(m) => (m \in M <=> m \in N)
  BY DEF Near, Said, Onward, Broadcasts
<1>2. c \in Client \ far
  BY DEF Onward
<1>3. received[c] \in Seq(Frame) /\ queue[c] \in Seq(Msg) /\ due[c] \in Seq(Broadcasts)
  BY DEF QueuesOK
<1>4. \A m \in Elements(received[c]) : m \in M <=> m \in N
  BY <1>1, <1>2 DEF SaidOK
<1>5. \A m \in Elements(queue[c]) : m \in M <=> m \in N
  BY <1>1, <1>2 DEF SaidOK
<1>6. \A m \in Elements(due[c]) : m \in M <=> m \in N
  BY <1>1, <1>2 DEF SaidOK
<1> HIDE DEF M, N
<1>7. Only(received[c], M) = Only(received[c], N)
  BY <1>3, <1>4, OnlyAgree
<1>8. Only(queue[c], M) = Only(queue[c], N)
  BY <1>3, <1>5, OnlyAgree
<1>9. Only(due[c], M) = Only(due[c], N)
  BY <1>3, <1>6, OnlyAgree
<1> QED
  BY <1>1, <1>7, <1>8, <1>9 DEF M, N

\* The forwarder puts what it has into the queue of c.
Hands(c) == TellSend(Forwarder) /\ Head(todo[Forwarder]) = c /\ carry[Forwarder] \in Near

LEMMA ReachesSteps ==
  ASSUME FlagsOK, ListsOK, QueuesOK, CarryOK, OthersOK, ForwarderOK, SaidOK, Onward, Changes,
         NEW c \in Client \ far', c \in alive'
  PROVE  Reaches(c)' = IF Hands(c) THEN Append(Reaches(c), carry[Forwarder]) ELSE Reaches(c)
<1> DEFINE N == Near'
           r == received[c]
           q == queue[c]
           R == Only(r, N)
           Q == Only(q, N)
<1>1. r \in Seq(Frame) /\ q \in Seq(Msg) /\ q \in Seq(Frame) /\ c \in alive /\ c \notin far
  BY DEF QueuesOK, Onward, Frame
<1>2. Reaches(c) = R \o Q /\ (carry[Forwarder] \in N <=> carry[Forwarder] \in Near)
  BY NearStays DEF Reaches, SaidOK
<1>3. Reaches(c)' = Only(received'[c], N) \o Only(queue'[c], N)
  BY DEF Reaches
<1>4. R \in Seq(N) /\ Q \in Seq(N)
  BY <1>1, OnlyList
<1>5. ASSUME NEW m \in Msg, queue'[c] = Append(q, m), received'[c] = r
      PROVE  Reaches(c)' = IF m \in N THEN Append(Reaches(c), m) ELSE Reaches(c)
  <2> HIDE DEF N, q, r
  <2>1. Only(queue'[c], N) = IF m \in N THEN Append(Q, m) ELSE Q
    BY <1>1, <1>5, OnlyAppend
  <2> HIDE DEF R, Q
  <2>2. m \in N => R \o Append(Q, m) = Append(R \o Q, m)
    BY <1>4, ConcatAppend
  <2>3. Reaches(c)' = R \o Only(queue'[c], N)
    BY <1>3, <1>5 DEF R
  <2> QED
    BY <1>2, <2>1, <2>2, <2>3
<1>6. ASSUME queue'[c] = q, received'[c] = r PROVE Reaches(c)' = Reaches(c)
  BY <1>2, <1>3, <1>6
<1>7. ASSUME NEW p \in Process, TellSend(p)
      PROVE  /\ received'[c] = r /\ todo[p] # <<>> /\ carry[p] \in Msg
             /\ queue'[c] = IF c = Head(todo[p]) THEN Append(q, carry[p]) ELSE q
  BY <1>7 DEF TellSend, Enqueue, socketVars, CarryOK, QueuesOK
<1>8. ASSUME Hands(c) PROVE Reaches(c)' = Append(Reaches(c), carry[Forwarder])
  <2>1. TellSend(Forwarder) /\ c = Head(todo[Forwarder]) /\ carry[Forwarder] \in N
    BY <1>2, <1>8 DEF Hands
  <2> HIDE DEF N, r, q, R, Q
  <2> QED
    BY <1>5, <1>7, <2>1, Processes
<1>9. ASSUME ~Hands(c) PROVE Reaches(c)' = Reaches(c)
  <2>1. ASSUME NEW p \in Process, TellSend(p) PROVE Reaches(c)' = Reaches(c)
    <3>1. ASSUME c = Head(todo[p]) PROVE carry[p] \notin N
      <4>1. CASE p = Forwarder
        BY <1>2, <1>9, <2>1, <3>1, <4>1 DEF Hands
      <4>2. CASE p # Forwarder
        BY <1>7, <2>1, <4>2, OnlyForwarder DEF Near, Broadcasts
      <4> QED
        BY <4>1, <4>2
    <3> HIDE DEF N, r, q, R, Q
    <3> QED
      BY <1>5, <1>6, <1>7, <2>1, <3>1
  <2>2. ASSUME NEW d \in Client, LateTell(d) PROVE Reaches(c)' = Reaches(c)
    <3>1. PICK m \in {x[2] : x \in {y \in lateTells : y[1] = d}} :
            Enqueue(d, m) /\ received' = received
      BY <2>2 DEF LateTell, socketVars
    <3>2. m \in Msg /\ (d = c => m \notin Broadcasts)
      BY <1>1 DEF QueuesOK, ForwarderOK
    <3>3. queue'[c] = IF d = c THEN Append(q, m) ELSE q
      BY <3>1 DEF Enqueue, QueuesOK
    <3>4. d = c => m \notin N
      BY <3>2 DEF Near, Broadcasts
    <3> HIDE DEF N, r, q, R, Q
    <3> QED
      BY <1>5, <1>6, <3>1, <3>2, <3>3, <3>4 DEF r
  <2>3. ASSUME NEW d \in Client, Write(d) PROVE Reaches(c)' = Reaches(c)
    <3>1. CASE d # c
      BY <1>6, <2>3, <3>1 DEF Write, QueuesOK
    <3>2. CASE d = c
      <4> DEFINE h == Head(q)
                 a == <<h>>
                 t == Tail(q)
                 T == Only(t, N)
      <4>1. q # <<>> /\ queue'[c] = t /\ received'[c] = Append(r, h)
        BY <1>1, <2>3, <3>2 DEF Write, QueuesOK
      <4>2. t \in Seq(Msg) /\ h \in Msg /\ h \in Frame
        BY <1>1, <4>1, TailList DEF Frame
      <4> HIDE DEF r, q, N
      <4>3. Q = IF h \in N THEN a \o T ELSE T
        BY <1>1, <4>1, OnlyTail
      <4>4. Only(Append(r, h), N) = IF h \in N THEN Append(R, h) ELSE R
        BY <1>1, <4>2, OnlyAppend
      <4>5. T \in Seq(N)
        BY <4>2, OnlyList
      <4>6. Reaches(c)' = Only(Append(r, h), N) \o T
        BY <1>3, <4>1
      <4> HIDE DEF R, Q, T, h
      <4>7. ASSUME h \in N PROVE R \o (a \o T) = Append(R, h) \o T
        <5>1. a \in Seq(N) /\ Append(R, h) = R \o a
          BY <1>4, <4>7
        <5> HIDE DEF a
        <5>2. (R \o a) \o T = R \o (a \o T)
          BY <1>4, <4>5, <5>1, ConcatAssociative
        <5> QED
          BY <5>1, <5>2
      <4> QED
        BY <1>2, <4>3, <4>4, <4>6, <4>7
    <3> QED
      BY <3>1, <3>2
  <2>4. ASSUME NEW d \in Client, GetUsers(d) PROVE Reaches(c)' = Reaches(c)
    <3> DEFINE f == [type |-> "connect", users |-> Elements(members)]
    <3>1. f \in Frame /\ f \notin N
      BY MsgTypes, NotBroadcasts DEF ListsOK, Elements, Near
    <3> HIDE DEF f
    <3>2. queue'[c] = q /\ (received'[c] = r \/ received'[c] = Append(r, f))
      BY <2>4 DEF GetUsers, remoteVars, QueuesOK, f
    <3>3. received'[c] = Append(r, f) => Only(received'[c], N) = R
      <4> HIDE DEF N, r, q
      <4>1. Only(Append(r, f), N) = R
        BY <1>1, <3>1, OnlyAppend
      <4> QED
        BY <4>1
    <3> QED
      BY <1>2, <1>3, <1>6, <3>2, <3>3
  <2>5. CASE queue' = queue /\ received' = received
    BY <1>6, <2>5
  <2>6. \/ received' = received
        \/ \E d \in Client : GetUsers(d) \/ Write(d)
    BY DEF Changes
  <2>7. \/ queue' = queue
        \/ \E p \in Process : TellSend(p)
        \/ \E d \in Client : LateTell(d) \/ Write(d)
    BY DEF Changes
  <2> QED
    BY <2>1, <2>2, <2>3, <2>4, <2>5, <2>6, <2>7
<1> QED
  BY <1>8, <1>9

\* Whoever is on the list and wants the first broadcast in the queue of the room.
Chosen(c) ==
  /\ c \in Elements(members)
  /\ Head(roomQueue).from = c => Head(roomQueue).includeSelf
  /\ Head(roomQueue) \in Near

LEMMA Takes ==
  ASSUME FlagsOK, ListsOK, QueuesOK, EnterOK, SaidOK, ForwarderOK, Onward, ForwardTake,
         NEW c \in Client \ far'
  PROVE  /\ ~Owed(c) /\ carry'[Forwarder] = Head(roomQueue)
         /\ Owed(c)' <=> Chosen(c) /\ c \notin rdone'
         /\ Promised(c)' = IF Chosen(c) THEN Append(Promised(c), Head(roomQueue)) ELSE Promised(c)
<1> DEFINE m == Head(roomQueue)
           s == IF m.includeSelf THEN members ELSE Without(members, m.from)
           N == Near'
<1>1. /\ todo[Forwarder] = <<>> /\ roomQueue # <<>> /\ roomQueue \in Seq(Broadcasts)
      /\ carry'[Forwarder] = m /\ todo'[Forwarder] = s /\ inListen' = inListen
      /\ due'[c] = IF c \in Elements(members) /\ (m.from = c => m.includeSelf)
                     THEN Append(due[c], m) ELSE due[c]
  BY Processes DEF ForwardTake, ListsOK, QueuesOK
<1>2. m \in Broadcasts /\ Said(m) /\ m \in Elements(roomQueue)
  BY <1>1, TailList DEF SaidOK
<1>3. m \in N <=> m \in Near
  BY <1>2, NearStays
<1>4. ~Owed(c) /\ Forwarder \notin inListen'
  BY <1>1 DEF Owed, Elements, ForwarderOK
<1>5. c \in Elements(s) <=> c \in Elements(members) /\ (m.from = c => m.includeSelf)
  BY <1>2, OnceWithout DEF ListsOK, EnterOK, Broadcasts
<1>6. Owed(c)' <=> c \in Elements(s) /\ m \in N /\ c \notin rdone'
  BY <1>1, <1>4 DEF Owed
<1>7. Promised(c)' = Only(due'[c], N) /\ Promised(c) = Only(due[c], N)
  BY NearStays DEF Promised
<1>8. Only(Append(due[c], m), N) = IF m \in N THEN Append(Only(due[c], N), m) ELSE Only(due[c], N)
  <2>1. due[c] \in Seq(Broadcasts)
    BY DEF QueuesOK
  <2> HIDE DEF m, N
  <2> QED
    BY <1>2, <2>1, OnlyAppend
<1> QED
  BY <1>1, <1>3, <1>4, <1>5, <1>6, <1>7, <1>8 DEF Chosen

LEMMA Settles ==
  ASSUME FlagsOK, ListsOK, QueuesOK, CarryOK, RegOK, SaidOK, ForwarderOK, Onward, Changes,
         ~ForwardTake, NEW c \in Client \ far'
  PROVE  /\ Promised(c)' = Promised(c)
         /\ Hands(c) => Owed(c) /\ ~Owed(c)'
         /\ ~Hands(c) => /\ Owed(c)' => Owed(c) /\ carry'[Forwarder] = carry[Forwarder]
                         /\ c \notin rdone' => (Owed(c) <=> Owed(c)')
<1> DEFINE F == Forwarder
           d == Head(todo[F])
           P == /\ Hands(c) => Owed(c) /\ ~Owed(c)'
                /\ ~Hands(c) => /\ Owed(c)' => Owed(c) /\ carry'[F] = carry[F]
                                /\ c \notin rdone' => (Owed(c) <=> Owed(c)')
<1>1. Promised(c)' = Promised(c)
  BY NearStays DEF Promised, Changes
<1>2. carry[F] \in Near' <=> carry[F] \in Near
  BY NearStays DEF SaidOK
<1>3. c \notin far /\ rdone \subseteq rdone' /\ F \in Process
  BY Processes DEF Onward
<1>4. CASE /\ carry'[F] = carry[F] /\ todo'[F] = todo[F]
           /\ F \in inListen' <=> F \in inListen
  <2>1. ~Hands(c)
    <3>1. ASSUME Hands(c) PROVE FALSE
      <4>1. todo[F] \in Seq(Client) /\ todo[F] # <<>> /\ todo'[F] = Tail(todo[F])
        BY <1>3, <3>1 DEF Hands, TellSend, Told, ListsOK
      <4> QED
        BY <1>4, <4>1, TailShorter
    <3> QED
      BY <3>1
  <2> QED
    BY <1>1, <1>2, <1>3, <1>4, <2>1 DEF Owed
<1>5. CASE Tell(F)
  <2>1. /\ todo[F] # <<>> /\ todo[F] \in Seq(Client) /\ Once(todo[F]) /\ carry'[F] = carry[F]
        /\ d \in Elements(todo[F])
        /\ Elements(Tail(todo[F])) = Elements(todo[F]) \ {d}
    <3>1. todo[F] # <<>> /\ carry' = carry
      BY <1>5 DEF Tell, TellClosed, TellWait, TellSend, TellTimeout, passVars
    <3> QED
      BY <1>3, <3>1, TailList, OnceTail DEF ListsOK, ForwarderOK
  <2>2. CASE TellWait(F)
    <3>1. /\ todo' = todo /\ rdone' = rdone /\ d \notin rdone /\ F \notin inListen
          /\ F \in inListen'
      BY <2>2 DEF TellWait, passVars, remoteVars
    <3>2. ~Hands(c)
      <4>1. ASSUME Hands(c) PROVE FALSE
        BY <3>1, <4>1 DEF Hands, TellSend, Told
      <4> QED
        BY <4>1
    <3> QED
      BY <1>1, <1>2, <2>1, <3>1, <3>2 DEF Owed
  <2>3. CASE Told(F) /\ d # c
    <3>1. todo'[F] = Tail(todo[F]) /\ F \notin inListen' /\ ~Hands(c)
      BY <1>3, <2>3 DEF Told, ListsOK, Hands
    <3>2. c \in Elements(todo'[F]) <=> c \in Elements(todo[F])
      BY <2>1, <2>3, <3>1
    <3> QED
      BY <1>1, <1>2, <1>3, <2>1, <2>3, <3>1, <3>2 DEF Owed
  <2>4. CASE TellSend(F) /\ d = c
    <3>1. todo'[F] = Tail(todo[F]) /\ (c \in rdone => F \in inListen)
      BY <1>3, <2>4 DEF TellSend, Told, ListsOK
    <3>2. ~Owed(c)'
      BY <2>1, <2>4, <3>1 DEF Owed
    <3> QED
      BY <1>1, <2>1, <2>4, <3>1, <3>2 DEF Owed, Hands
  <2>5. CASE TellClosed(F) /\ d = c
    <3>1. todo'[F] = Tail(todo[F]) /\ F \notin inListen /\ c \notin listening \ rdone
      BY <1>3, <2>5 DEF TellClosed, Told, ListsOK
    <3>2. c \in rdone
      BY <2>1, <2>5, <3>1 DEF RegOK, ForwarderOK
    <3>3. ~Owed(c) /\ ~Owed(c)'
      BY <2>1, <2>5, <3>1, <3>2 DEF Owed
    <3>4. ~Hands(c)
      BY <2>5, <3>1 DEF Hands, TellSend
    <3> QED
      BY <1>1, <2>1, <3>3, <3>4
  <2>6. CASE TellTimeout(F) /\ d = c
    <3>1. ~Crosses(F, c)
      BY <1>3, ForwarderCrosses
    <3> QED
      BY <2>6, <3>1, Processes DEF TellTimeout, FlagsOK
  <2> QED
    BY <1>5, <2>2, <2>3, <2>4, <2>5, <2>6 DEF Tell, TellClosed, TellSend, TellTimeout
<1> QED
  BY <1>4, <1>5 DEF Changes

LEMMA WaysAreLists ==
  ASSUME QueuesOK, NEW c \in Client
  PROVE  Reaches(c) \in Seq(Near) /\ Promised(c) \in Seq(Near)
<1>1. received[c] \in Seq(Frame) /\ queue[c] \in Seq(Msg) /\ due[c] \in Seq(Broadcasts)
  BY DEF QueuesOK
<1>2. /\ Only(received[c], Near) \in Seq(Near) /\ Only(queue[c], Near) \in Seq(Near)
      /\ Only(due[c], Near) \in Seq(Near)
  BY <1>1, OnlyList
<1> QED
  BY <1>2, ConcatProperties DEF Reaches, Promised

LEMMA NextPromise ==
  ASSUME FlagsOK, ListsOK, QueuesOK, CarryOK, RegOK, EnterOK, OthersOK, ForwarderOK, SaidOK,
         PromiseOK, Onward, Changes
  PROVE  PromiseOK'
<1> SUFFICES ASSUME NEW c \in alive' \ far'
             PROVE  /\ Begins(Reaches(c)', Promised(c)')
                    /\ Owed(c)' => /\ Len(Promised(c)') > Len(Reaches(c)')
                                   /\ Promised(c)'[Len(Reaches(c)') + 1] = carry'[Forwarder]
                    /\ c \notin rdone' =>
                         Len(Promised(c)') = Len(Reaches(c)') + (IF Owed(c)' THEN 1 ELSE 0)
  BY DEF PromiseOK, Begins
<1> DEFINE R == Reaches(c)
           D == Promised(c)
           m == carry[Forwarder]
           h == Head(roomQueue)
<1>1. c \in alive \ far /\ c \in Client \ far' /\ c \in Client /\ (c \notin rdone' => c \notin rdone)
  BY DEF Onward, FlagsOK
<1>2. R \in Seq(Near) /\ D \in Seq(Near) /\ Len(R) \in Nat /\ Len(D) \in Nat
  BY <1>1, WaysAreLists
<1>3. /\ Len(R) <= Len(D) /\ \A i \in 1 .. Len(R) : R[i] = D[i]
      /\ Owed(c) => Len(D) > Len(R) /\ D[Len(R) + 1] = m
      /\ c \notin rdone => Len(D) = Len(R) + (IF Owed(c) THEN 1 ELSE 0)
  BY <1>1 DEF PromiseOK, Begins
<1>4. Reaches(c)' = IF Hands(c) THEN Append(R, m) ELSE R
  BY <1>1, ReachesSteps
<1>5. CASE ForwardTake
  <2>1. ~Hands(c)
    BY <1>5 DEF ForwardTake, Hands, TellSend
  <2>2. /\ ~Owed(c) /\ carry'[Forwarder] = h
        /\ Owed(c)' <=> Chosen(c) /\ c \notin rdone'
        /\ Promised(c)' = IF Chosen(c) THEN Append(D, h) ELSE D
    BY <1>1, <1>5, Takes
  <2>3. CASE Chosen(c)
    <3>1. h \in Near
      BY <2>3 DEF Chosen
    <3> DEFINE E == Append(D, h)
    <3> HIDE DEF h, R, D
    <3>2. Len(E) = Len(D) + 1 /\ E[Len(D) + 1] = h /\ \A i \in 1 .. Len(D) : E[i] = D[i]
      BY <1>2, <3>1, AppendProperties
    <3> HIDE DEF E
    <3>3. Promised(c)' = E /\ Reaches(c)' = R
      BY <1>4, <2>1, <2>2, <2>3 DEF E
    <3>4. Begins(R, E)
      BY <1>2, <1>3, <3>2 DEF Begins
    <3>5. Owed(c)' => Len(D) = Len(R)
      BY <1>1, <1>2, <1>3, <2>2
    <3>6. c \notin rdone' => Owed(c)' /\ Len(D) = Len(R)
      BY <1>1, <1>2, <1>3, <2>2, <2>3
    <3>7. Owed(c)' => Len(E) > Len(R) /\ E[Len(R) + 1] = h
      BY <1>2, <3>2, <3>5
    <3>8. c \notin rdone' => Len(E) = Len(R) + 1 /\ Owed(c)'
      BY <1>2, <3>2, <3>6
    <3>9. carry'[Forwarder] = h
      BY <2>2
    <3> QED
      BY <3>3, <3>4, <3>7, <3>8, <3>9
  <2>4. CASE ~Chosen(c)
    <3>1. Promised(c)' = D /\ Reaches(c)' = R /\ ~Owed(c)'
      BY <1>4, <2>1, <2>2, <2>4
    <3> HIDE DEF R, D
    <3> QED
      BY <1>1, <1>2, <1>3, <2>2, <3>1 DEF Begins
  <2> QED
    BY <2>3, <2>4
<1>6. CASE ~ForwardTake
  <2>1. /\ Promised(c)' = D
        /\ Hands(c) => Owed(c) /\ ~Owed(c)'
        /\ ~Hands(c) => /\ Owed(c)' => Owed(c) /\ carry'[Forwarder] = m
                        /\ c \notin rdone' => (Owed(c) <=> Owed(c)')
    BY <1>1, <1>6, Settles
  <2>2. CASE Hands(c)
    <3>1. m \in Near
      BY <2>2 DEF Hands
    <3> DEFINE S == Append(R, m)
    <3> HIDE DEF m, R, D
    <3>2. Len(S) = Len(R) + 1 /\ S[Len(R) + 1] = m /\ \A i \in 1 .. Len(R) : S[i] = R[i]
      BY <1>2, <3>1, AppendProperties
    <3> HIDE DEF S
    <3>3. Promised(c)' = D /\ Reaches(c)' = S /\ ~Owed(c)' /\ Owed(c)
      BY <1>4, <2>1, <2>2 DEF S
    <3>4. Len(D) > Len(R) /\ D[Len(R) + 1] = m
      BY <1>3, <3>3
    <3>5. Begins(S, D)
      BY <1>2, <1>3, <3>2, <3>4 DEF Begins
    <3>6. c \notin rdone' => Len(D) = Len(S)
      BY <1>1, <1>2, <1>3, <3>2, <3>3
    <3> QED
      BY <1>2, <3>2, <3>3, <3>5, <3>6
  <2>3. CASE ~Hands(c)
    <3>1. Promised(c)' = D /\ Reaches(c)' = R
      BY <1>4, <2>1, <2>3
    <3> HIDE DEF R, D
    <3> QED
      BY <1>1, <1>2, <1>3, <2>1, <2>3, <3>1 DEF Begins
  <2> QED
    BY <2>2, <2>3
<1> QED
  BY <1>5, <1>6

-----------------------------------------------------------------------------
(* The invariant of the refinement *)

BroadcastInv ==
  /\ HandlerOK /\ ReaderOK /\ EnterOK /\ OthersOK /\ ForwarderOK /\ SaidOK /\ NumberOK /\ PromiseOK

BaseInv == TypeOK /\ CarryOK /\ ToldInv

LEMMA InitBroadcast == Init => BroadcastInv
<1> SUFFICES ASSUME Init PROVE BroadcastInv
  OBVIOUS
<1>1. \A c \in Client : Reader(c) \in Process /\ Handler(c) \in Process
  BY Processes
<1>2. HandlerOK /\ ReaderOK /\ OthersOK
  BY <1>1, Processes, NotBroadcasts
     DEF Init, HandlerOK, JoinSteps, LeaveSteps, ReaderOK, Upward, OthersOK
<1>3. EnterOK /\ ForwarderOK /\ SaidOK
  BY Processes, NotBroadcasts DEF Init, EnterOK, ForwarderOK, SaidOK, Said, Once, Elements
<1>4. NumberOK
  <2>1. \A s \in Client : Len(Line(s)) = 0 /\ Counted(s) = 0 /\ session[s] = "out"
    <3>1. \A s \in Client : Line(s) = <<>>
      BY OnlyNil DEF Init, Line
    <3>2. \A s \in Client : ~Upward(s) /\ published[s] = 0 /\ session[s] = "out"
      BY <1>1 DEF Init, Upward
    <3> QED
      BY <3>1, <3>2 DEF Counted
  <2>2. lateUps = {} /\ \A s \in Client : sent[<<"broadcast", s>>] = 0
    BY DEF Init
  <2> QED
    BY <2>1, <2>2 DEF NumberOK, MaySend
<1>5. PromiseOK
  <2>1. ASSUME NEW c \in Client
        PROVE  Reaches(c) = <<>> /\ Promised(c) = <<>> /\ ~Owed(c)
    <3>1. Only(received[c], Near) = <<>> /\ Only(queue[c], Near) = <<>> /\ Promised(c) = <<>>
      BY OnlyNil DEF Init, Promised
    <3>2. ~Owed(c)
      BY Processes DEF Init, Owed, Elements
    <3> QED
      BY <3>1, <3>2 DEF Reaches
  <2> QED
    BY <2>1 DEF PromiseOK, Begins, Init
<1> QED
  BY <1>2, <1>3, <1>4, <1>5 DEF BroadcastInv

LEMMA NextBroadcast ==
  ASSUME BaseInv, BaseInv', BroadcastInv, [Next]_vars
  PROVE  BroadcastInv' /\ Onward /\ Changes
<1>1. FlagsOK /\ ListsOK /\ QueuesOK /\ CarryOK /\ ToldInv /\ RegOK /\ QueuesOK'
  BY TypeParts DEF BaseInv, ToldInv, TypeOK, QueuesOK
<1>2. HandlerOK /\ ReaderOK /\ EnterOK /\ OthersOK /\ ForwarderOK /\ SaidOK /\ NumberOK /\ PromiseOK
  BY DEF BroadcastInv
<1>3. Onward /\ Changes
  BY <1>1, StepsGoOn, StepsChange
<1>4. HandlerOK' /\ ReaderOK'
  BY <1>1, <1>2, NextHandler, NextReader
<1>5. EnterOK' /\ OthersOK' /\ ForwarderOK'
  BY <1>1, <1>2, <1>3, NextEnter, NextOthers, NextForwarder
<1>6. SaidOK' /\ NumberOK' /\ PromiseOK'
  BY <1>1, <1>2, <1>3, NextSaid, NextNumber, NextPromise
<1> QED
  BY <1>3, <1>4, <1>5, <1>6 DEF BroadcastInv

LEMMA BroadcastInvariance == Spec => [](BaseInv /\ BroadcastInv)
<1>1. BaseInv /\ BaseInv' /\ BroadcastInv /\ [Next]_vars => BroadcastInv'
  BY NextBroadcast
<1> QED
  BY <1>1, InitBroadcast, Invariance, PTL DEF Spec, BaseInv

-----------------------------------------------------------------------------
(* Step simulation *)

LEMMA OutHasNothing ==
  ASSUME ListsOK, QueuesOK, EnterOK, NumberOK, NEW c \in Client \ far, session[c] = "out"
  PROVE  /\ c \notin Elements(members) /\ published[c] = 0 /\ Promised(c) = <<>>
         /\ Only(received[c], Near) = <<>>
<1>1. c \notin Elements(members) /\ due[c] = <<>> /\ received[c] = <<>>
  BY DEF EnterOK
<1>2. Counted(c) <= 0
  BY DEF NumberOK
<1>3. published[c] \in Nat /\ Len(Line(c)) \in Nat
  <2>1. Line(c) \in Seq(Broadcasts)
    BY OnlyList DEF Line, QueuesOK
  <2> QED
    BY <2>1 DEF QueuesOK
<1>4. published[c] = 0
  BY <1>2, <1>3 DEF Counted
<1> QED
  BY <1>1, <1>4, OnlyNil DEF Promised

\* What the room takes next from a client near it has the next number.
LEMMA NextNumbered ==
  ASSUME QueuesOK, NumberOK, roomQueue # <<>>, Head(roomQueue).from \notin far
  PROVE  Head(roomQueue).n = published[Head(roomQueue).from] + 1
<1> DEFINE m == Head(roomQueue)
           s == m.from
           r == Only(Tail(roomQueue), From(s))
<1>1. m \in Broadcasts /\ Tail(roomQueue) \in Seq(Broadcasts) /\ roomQueue \in Seq(Broadcasts)
  BY TailList DEF QueuesOK
<1>2. s \in Client \ far /\ m \in From(s)
  BY <1>1 DEF Broadcasts, From
<1>3. r \in Seq(From(s))
  BY <1>1, OnlyList
<1>4. Line(s) = <<m>> \o r
  BY <1>1, <1>2, OnlyTail DEF Line
<1> HIDE DEF r, m
<1>5. Len(<<m>> \o r) = Len(r) + 1 /\ (<<m>> \o r)[1] = m /\ Len(r) \in Nat
  BY <1>2, <1>3, Prefixed
<1>6. 1 \in 1 .. Len(Line(s))
  BY <1>4, <1>5
<1>7. Line(s)[1].n = published[s] + 1
  BY <1>2, <1>6 DEF NumberOK
<1> QED
  BY <1>4, <1>5, <1>7 DEF m

\* The variables of RoomBroadcast.
RoomPresent == Elements(members) \ far

RoomPublished == [c \in Client |-> IF c \in far THEN 0 ELSE published[c]]

RoomDue == [c \in Client |-> IF c \in far THEN <<>> ELSE Promised(c)]

RoomGot == [c \in Client |-> IF c \in far THEN <<>> ELSE Only(received[c], Near)]

LEMMA PublishIsNext ==
  ASSUME NEW c \in Client, NEW self \in BOOLEAN, Room!Publish(c, self)
  PROVE  Room!Next
BY DEF Room!Next

LEMMA PublishStep ==
  ASSUME BaseInv, BroadcastInv, Onward, Changes, ForwardTake
  PROVE  [Room!Next]_(Room!vars)
<1> DEFINE m == Head(roomQueue)
           s == m.from
<1>1. /\ FlagsOK /\ ListsOK /\ QueuesOK /\ EnterOK /\ SaidOK /\ ForwarderOK /\ NumberOK
      /\ roomQueue # <<>>
  BY TypeParts DEF BaseInv, BroadcastInv, ForwardTake
<1>2. m \in Broadcasts /\ s \in Client /\ m.includeSelf \in BOOLEAN
  BY <1>1, TailList, MsgTypes DEF QueuesOK
<1>3. /\ far' = far /\ members' = members /\ received' = received
      /\ published' = [published EXCEPT ![s] = @ + 1] /\ published \in [Client -> Nat]
  BY <1>1 DEF ForwardTake, net, socketVars, QueuesOK
<1>4. RoomPresent' = RoomPresent /\ RoomGot' = RoomGot
  BY <1>3 DEF RoomPresent, RoomGot, Near
<1>5. \A c \in Client \ far :
        Promised(c)' = IF Chosen(c) THEN Append(Promised(c), m) ELSE Promised(c)
  BY <1>1, <1>3, Takes
<1>6. CASE s \in far
  <2>1. m \notin Near
    BY <1>6 DEF Near
  <2>2. RoomDue' = RoomDue
    BY <1>3, <1>5, <2>1 DEF RoomDue, Chosen
  <2>3. RoomPublished' = RoomPublished
    BY <1>3, <1>6 DEF RoomPublished
  <2> QED
    BY <1>4, <2>2, <2>3
       DEF Room!vars, RoomPresent, RoomPublished, RoomDue, RoomGot, Promised
<1>7. CASE s \notin far
  <2>1. m.n = published[s] + 1 /\ m \in Near
    BY <1>1, <1>2, <1>7, NextNumbered DEF Near, Broadcasts
  <2>2. RoomPublished' = [RoomPublished EXCEPT ![s] = @ + 1] /\ RoomPublished[s] = published[s]
    BY <1>2, <1>3, <1>7 DEF RoomPublished
  <2>3. m = [type |-> "broadcast", from |-> s, n |-> RoomPublished[s] + 1,
             includeSelf |-> m.includeSelf]
    BY <1>2, <2>1, <2>2 DEF Broadcasts
  <2>4. RoomDue' = [c \in Client |-> IF c \in RoomPresent /\ (s = c => m.includeSelf)
                                       THEN Append(RoomDue[c], m) ELSE RoomDue[c]]
    BY <1>3, <1>5, <2>1 DEF RoomDue, RoomPresent, Chosen
  <2> DEFINE self == m.includeSelf
             k == [type |-> "broadcast", from |-> s, n |-> RoomPublished[s] + 1, includeSelf |-> self]
  <2>5. /\ self \in BOOLEAN /\ s \in Client
        /\ RoomPublished' = [RoomPublished EXCEPT ![s] = @ + 1]
        /\ RoomDue' = [c \in Client |-> IF c \in RoomPresent /\ (k.from = c => k.includeSelf)
                                          THEN Append(RoomDue[c], k) ELSE RoomDue[c]]
    BY <1>2, <2>2, <2>3, <2>4
  <2>6. PICK t \in Client, f \in BOOLEAN : t = s /\ f = self
    BY <2>5
  <2> DEFINE b == [type |-> "broadcast", from |-> t, n |-> RoomPublished[t] + 1, includeSelf |-> f]
  <2>7. /\ RoomPublished' = [RoomPublished EXCEPT ![t] = @ + 1]
        /\ RoomDue' = [c \in Client |-> IF c \in RoomPresent /\ (b.from = c => b.includeSelf)
                                          THEN Append(RoomDue[c], b) ELSE RoomDue[c]]
    BY <2>5, <2>6
  <2>8. Room!Publish(t, f)
    BY <1>4, <2>7
       DEF b, Room!Publish, Room!Wants, RoomPresent, RoomPublished, RoomDue, RoomGot, Promised
  <2> QED
    BY <2>8, PublishIsNext
<1> QED
  BY <1>6, <1>7

\* A client gets the next of what is due to it.
LEMMA DeliverStep ==
  ASSUME BaseInv, BroadcastInv, NEW c \in alive \ far, Write(c), Head(queue[c]) \in Near,
         RoomPublished' = RoomPublished, RoomDue' = RoomDue
  PROVE  Room!Deliver(c)
<1> DEFINE h == Head(queue[c])
           G == Only(received[c], Near)
           T == Only(Tail(queue[c]), Near)
           D == Promised(c)
<1>1. FlagsOK /\ ListsOK /\ QueuesOK /\ PromiseOK /\ c \in Client
  BY TypeParts DEF BaseInv, BroadcastInv, FlagsOK
<1>2. /\ queue[c] # <<>> /\ queue[c] \in Seq(Msg) /\ received[c] \in Seq(Frame)
      /\ received' = [received EXCEPT ![c] = Append(@, h)] /\ received \in [Client -> Seq(Frame)]
      /\ members' = members /\ far' = far
  BY <1>1 DEF Write, QueuesOK, roomVars, net
<1>3. Tail(queue[c]) \in Seq(Msg) /\ h \in Frame
  BY <1>2, TailList DEF Frame
<1>4. G \in Seq(Near) /\ T \in Seq(Near) /\ D \in Seq(Near)
  BY <1>1, <1>2, <1>3, OnlyList, WaysAreLists
<1>5. Reaches(c) = G \o (<<h>> \o T)
  <2>1. Only(queue[c], Near) = <<h>> \o T
    BY <1>2, OnlyTail
  <2> QED
    BY <2>1 DEF Reaches
<1>6. Only(received'[c], Near) = Append(G, h)
  <2>1. received'[c] = Append(received[c], h)
    BY <1>1, <1>2
  <2> HIDE DEF h
  <2>2. Only(Append(received[c], h), Near) = Append(G, h)
    <3>1. h \in Near
      BY DEF h
    <3> QED
      BY <1>2, <1>3, <3>1, OnlyAppend
  <2> QED
    BY <2>1, <2>2
<1>7. Len(Reaches(c)) > Len(G) /\ Reaches(c)[Len(G) + 1] = h /\ Len(G) \in Nat
  <2> DEFINE u == <<h>> \o T
  <2>1. h \in Near
    OBVIOUS
  <2> HIDE DEF h, T, G
  <2>2. u \in Seq(Near) /\ Len(u) = Len(T) + 1 /\ u[1] = h /\ Len(T) \in Nat /\ Len(G) \in Nat
    BY <1>4, <2>1, Prefixed
  <2>3. Reaches(c) = G \o u
    BY <1>5
  <2> HIDE DEF u
  <2>4. /\ Len(G \o u) = Len(G) + Len(u)
        /\ \A i \in 1 .. Len(G) + Len(u) : (G \o u)[i] = IF i <= Len(G) THEN G[i] ELSE u[i - Len(G)]
    BY <1>4, <2>2, ConcatProperties
  <2>5. Len(G) + 1 \in 1 .. Len(G) + Len(u) /\ ~(Len(G) + 1 <= Len(G)) /\ (Len(G) + 1) - Len(G) = 1
    BY <2>2
  <2> QED
    BY <2>2, <2>3, <2>4, <2>5
<1>8. Len(G) < Len(D) /\ D[Len(G) + 1] = h
  <2>1. Begins(Reaches(c), D)
    BY <1>1 DEF PromiseOK
  <2>2. Reaches(c) \in Seq(Near)
    BY <1>1, WaysAreLists
  <2> HIDE DEF D, G, h
  <2>3. Len(D) \in Nat /\ Len(Reaches(c)) \in Nat
    BY <1>4, <2>2
  <2> QED
    BY <1>7, <2>1, <2>3 DEF Begins
<1>9. RoomGot' = [RoomGot EXCEPT ![c] = Append(@, RoomDue[c][Len(@) + 1])]
  <2>1. RoomGot[c] = G /\ RoomDue[c] = D
    BY <1>1 DEF RoomGot, RoomDue
  <2>2. Near' = Near
    BY <1>2 DEF Near
  <2>3. \A d \in Client : RoomGot'[d] = IF d = c THEN Append(G, h) ELSE RoomGot[d]
    <3>1. \A d \in Client : d # c => received'[d] = received[d]
      BY <1>2
    <3> HIDE DEF G, h
    <3> QED
      BY <1>1, <1>2, <1>6, <2>2, <3>1 DEF RoomGot
  <2>4. RoomGot = [d \in Client |-> RoomGot[d]] /\ RoomGot' = [d \in Client |-> RoomGot'[d]]
    BY DEF RoomGot
  <2> HIDE DEF G, h, D
  <2> QED
    BY <1>1, <1>8, <2>1, <2>3, <2>4
<1>10. RoomPresent' = RoomPresent
  BY <1>2 DEF RoomPresent
<1>11. Len(RoomGot[c]) < Len(RoomDue[c])
  BY <1>1, <1>8 DEF RoomGot, RoomDue
<1> QED
  BY <1>9, <1>10, <1>11
     DEF Room!Deliver, RoomPresent, RoomPublished, RoomDue, RoomGot, Promised

LEMMA OtherSteps ==
  ASSUME BaseInv, BaseInv', BroadcastInv, Onward, Changes, ~ForwardTake
  PROVE  [Room!Next]_(Room!vars)
<1>1. /\ FlagsOK /\ ListsOK /\ QueuesOK /\ CarryOK /\ RegOK /\ EnterOK /\ SaidOK /\ ForwarderOK
      /\ NumberOK
  BY TypeParts DEF BaseInv, BroadcastInv, ToldInv
<1>2. ASSUME NEW c \in far' \ far, c \in Client
      PROVE  /\ c \notin Elements(members) /\ published[c] = 0 /\ Promised(c) = <<>>
             /\ Only(received[c], Near) = <<>>
  BY <1>1, <1>2, OutHasNothing DEF Onward
<1>3. far \subseteq far' /\ far' \subseteq Client /\ alive \subseteq Client
  BY DEF Onward, BaseInv, TypeOK
<1>4. RoomPublished' = RoomPublished
  BY <1>2, <1>3 DEF RoomPublished, Changes
<1>5. RoomDue' = RoomDue
  <2>1. \A c \in Client \ far' : Promised(c)' = Promised(c)
    BY <1>1, Settles
  <2> QED
    BY <1>2, <1>3, <2>1 DEF RoomDue
<1>6. ASSUME NEW c \in alive \ far, Write(c), Head(queue[c]) \in Near
      PROVE  [Room!Next]_(Room!vars)
  <2>1. Room!Deliver(c) /\ c \in Client
    BY <1>3, <1>4, <1>5, <1>6, DeliverStep
  <2> QED
    BY <2>1 DEF Room!Next
<1>7. CASE ~\E c \in alive \ far : Write(c) /\ Head(queue[c]) \in Near
  <2>1. ASSUME NEW c \in Client \ far' PROVE Only(received'[c], Near') = Only(received[c], Near)
    <3> DEFINE r == received[c]
               N == Near'
    <3>1. c \notin far /\ r \in Seq(Frame) /\ queue[c] \in Seq(Msg)
      BY <1>1, <1>3 DEF QueuesOK
    <3>2. Only(r, N) = Only(r, Near)
      BY <1>1, NearStays
    <3>3. ASSUME NEW f \in Frame, f \notin N, received'[c] = Append(r, f)
          PROVE  Only(received'[c], N) = Only(r, Near)
      <4> HIDE DEF r, N
      <4>1. Only(Append(r, f), N) = Only(r, N)
        BY <3>1, <3>3, OnlyAppend
      <4> QED
        BY <3>2, <3>3, <4>1
    <3>4. ASSUME NEW d \in Client, GetUsers(d) PROVE Only(received'[c], N) = Only(r, Near)
      <4> DEFINE f == [type |-> "connect", users |-> Elements(members)]
      <4>1. f \in Frame /\ f \notin N
        BY <1>1, MsgTypes, NotBroadcasts DEF ListsOK, Elements, Near
      <4> HIDE DEF f, N
      <4>2. received'[c] = r \/ received'[c] = Append(r, f)
        BY <1>1, <3>4 DEF GetUsers, QueuesOK, f
      <4> QED
        BY <3>2, <3>3, <4>1, <4>2 DEF N
    <3>5. ASSUME NEW d \in Client, Write(d) PROVE Only(received'[c], N) = Only(r, Near)
      <4> DEFINE h == Head(queue[c])
      <4>1. CASE received'[c] = r
        BY <3>2, <4>1
      <4>2. CASE d = c /\ c \in alive
        <5>1. queue[c] # <<>> /\ received'[c] = Append(r, h) /\ h \notin Near
          BY <1>1, <1>7, <3>1, <3>5, <4>2 DEF Write, QueuesOK
        <5>2. h \in Elements(queue[c]) /\ h \in Frame
          BY <3>1, <5>1, TailList DEF Frame
        <5>3. h \notin N
          BY <1>1, <3>1, <5>1, <5>2, NearStays DEF SaidOK
        <5> HIDE DEF h, N, r
        <5> QED
          BY <3>3, <5>1, <5>2, <5>3
      <4> QED
        BY <1>1, <3>5, <4>1, <4>2 DEF Write, QueuesOK
    <3> QED
      BY <3>2, <3>4, <3>5 DEF Changes
  <2>2. RoomGot' = RoomGot
    BY <1>2, <1>3, <2>1 DEF RoomGot
  <2>3. ASSUME NEW c \in Client, JoinAdd(c) PROVE [Room!Next]_(Room!vars)
    <3>1. members' = Append(members, c) /\ far' = far
      BY <2>3 DEF JoinAdd, net
    <3>2. Elements(members') = Elements(members) \cup {c}
      BY <1>1, <3>1, AppendList DEF ListsOK
    <3>3. CASE c \in far
      <4>1. RoomPresent' = RoomPresent
        BY <3>1, <3>2, <3>3 DEF RoomPresent
      <4> QED
        BY <1>4, <1>5, <2>2, <4>1
           DEF Room!vars, RoomPresent, RoomPublished, RoomDue, RoomGot, Promised
    <3>4. CASE c \notin far
      <4>1. RoomPresent' = RoomPresent \cup {c}
        BY <3>1, <3>2, <3>4 DEF RoomPresent
      <4>2. RoomDue[c] = <<>>
        <5>1. due[c] = <<>>
          BY <1>1, <2>3 DEF EnterOK, JoinAdd
        <5> QED
          BY <5>1, OnlyNil DEF RoomDue, Promised
      <4>3. Room!Enter(c)
        BY <1>4, <1>5, <2>2, <4>1, <4>2
           DEF Room!Enter, RoomPresent, RoomPublished, RoomDue, RoomGot, Promised
      <4> QED
        BY <4>3 DEF Room!Next
    <3> QED
      BY <3>3, <3>4
  <2>4. ASSUME NEW c \in Client, LeaveRemove(c) PROVE [Room!Next]_(Room!vars)
    <3>1. members' = Without(members, c) /\ far' = far
      BY <2>4 DEF LeaveRemove, net
    <3>2. Elements(members') = Elements(members) \ {c}
      BY <1>1, <3>1, OnceWithout DEF ListsOK, EnterOK
    <3>3. RoomPresent' = RoomPresent \ {c}
      BY <3>1, <3>2 DEF RoomPresent
    <3>4. Room!Exit(c)
      BY <1>4, <1>5, <2>2, <3>3
         DEF Room!Exit, RoomPresent, RoomPublished, RoomDue, RoomGot, Promised
    <3> QED
      BY <3>4 DEF Room!Next
  <2>5. CASE members' = members
    <3>1. RoomPresent' = RoomPresent
      BY <1>2, <1>3, <2>5 DEF RoomPresent, Elements, ListsOK
    <3> QED
      BY <1>4, <1>5, <2>2, <3>1
         DEF Room!vars, RoomPresent, RoomPublished, RoomDue, RoomGot, Promised
  <2> QED
    BY <2>3, <2>4, <2>5 DEF Changes
<1> QED
  BY <1>6, <1>7

\* Through two queues, a snapshot of the list for every message, sessions that
\* come and go and a close, no member loses, repeats or swaps a broadcast: what
\* a client near the room got is at any time an initial part of what was
\* published, sender by sender without a gap, while it was a member.
THEOREM DeliveryImplementsBroadcast == Spec => ImplementsBroadcast
<1>1. Init => Room!Init
  <2> SUFFICES ASSUME Init PROVE Room!Init
    OBVIOUS
  <2>1. RoomPresent = {} /\ RoomPublished = [c \in Client |-> 0]
    BY DEF Init, RoomPresent, RoomPublished, Elements
  <2>2. RoomDue = [c \in Client |-> <<>>] /\ RoomGot = [c \in Client |-> <<>>]
    BY OnlyNil DEF Init, RoomDue, RoomGot, Promised
  <2> QED
    BY <2>1, <2>2 DEF Room!Init, RoomPresent, RoomPublished, RoomDue, RoomGot, Promised
<1>2. BaseInv /\ BaseInv' /\ BroadcastInv /\ [Next]_vars => [Room!Next]_(Room!vars)
  BY NextBroadcast, PublishStep, OtherSteps
<1> QED
  BY <1>1, <1>2, BroadcastInvariance, PTL DEF Spec, ImplementsBroadcast, Room!Spec
=============================================================================
