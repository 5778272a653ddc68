------------------------------ MODULE Delivery ------------------------------
(***************************************************************************)
(* The way of a message through one room of one node: from a client's      *)
(* socket to the room, from the room to the session of every member        *)
(* (remoteRoom, src/room) and on to its socket (src/serve/socket).         *)
(*                                                                         *)
(* The goroutines: of each session a reader and a writer, and a handler    *)
(* that serves its JoinRoom and LeaveRoom calls; the room's forwarder; the *)
(* closer, whichever goroutine closes the room.  The calls are HTTP calls  *)
(* on a single node too (RemoteRpcRoomManager): the caller may give up     *)
(* while the handler goes on.                                              *)
(*                                                                         *)
(* Every client is one connection: it joins once.  The race of several     *)
(* goroutines over the rooms themselves is in RoomManager; here removal    *)
(* and close of the room are one step each.                                *)
(*                                                                         *)
(* A session may be on another machine than the room.  A message between   *)
(* the two machines travels in a call (RpcEventEmitter) that its sender    *)
(* gives up after four seconds, while the other machine may still carry    *)
(* it out.                                                                 *)
(***************************************************************************)
EXTENDS Integers, Sequences, FiniteSets, Lists

CONSTANTS
  Client,
  QueueSize,      \* capacity of remoteRoom.messages
  RoomQueueSize,  \* capacity of localRoom.messages
  MaxBroadcasts,  \* bound: broadcasts that a client sends
  MaxDirects,     \* bound: direct messages that a client sends
  Broadcaster,    \* bound: the clients that send broadcasts
  DirectPair,     \* bound: the pairs of clients between which direct messages go
  MayClose,       \* bound: whether the room is closed
  IncludeSelf,    \* bound: the clients whose broadcasts say includeSelf
  Unsteady,       \* bound: the clients that disconnect, and for which somebody
                  \* gives up waiting
  Flaky,          \* bound: those of which later calls fail as well
  MayBeFar,       \* bound: the clients that may be on another machine than the room
  MaxBehind,      \* bound: the calls given up that the other machine still has
  NoMsg

ASSUME SizeAssumption ==
  /\ QueueSize \in Nat \ {0} /\ RoomQueueSize \in Nat \ {0}
  /\ MaxBroadcasts \in Nat /\ MaxDirects \in Nat
  /\ MayClose \in BOOLEAN /\ IncludeSelf \subseteq Client
  /\ Broadcaster \subseteq Client /\ Unsteady \subseteq Client /\ Flaky \subseteq Client
  /\ DirectPair \subseteq Client \X Client
  /\ MayBeFar \subseteq Client /\ MaxBehind \in Nat

\* The goroutines that pass messages on.
Handler(c) == <<"handler", c>>
Reader(c) == <<"reader", c>>
Forwarder == <<"forwarder">>
Closer == <<"closer">>

Process == {Forwarder, Closer} \cup {Handler(c) : c \in Client} \cup {Reader(c) : c \in Client}

Broadcasts == [type : {"broadcast"}, from : Client, n : 1 .. MaxBroadcasts, includeSelf : BOOLEAN]

Directs == [type : {"message"}, from : Client, n : 1 .. MaxDirects, to : Client]

Announcements == [type : {"join", "leave"}, who : Client] \cup {[type |-> "close"]}

Msg == Broadcasts \cup Directs \cup Announcements

ASSUME NoMsgAssumption == NoMsg \notin Msg

\* What a socket is sent: the connect message carries the list of users.
Frame == Msg \cup [type : {"connect"}, users : SUBSET Client]

Sessions == {"out", "joining", "users", "serving", "leaving", "closing", "gone"}

Handling ==
  {"idle", "joinCheck", "joinAdd", "joinAnnounce", "joinTell",
   "leaveCheck", "leaveRemove", "leaveAnnounce", "leaveTell"}

Closes == {"no", "removed", "closed", "tell", "over"}

VARIABLES
  members,    \* Info.Connections of the room
  closing,    \* how far the close of the room is; "no": it is in roomsMap
  roomQueue,  \* localRoom.messages
  forwarding, \* FALSE once the forwarder has returned
  listening,  \* the remote rooms registered with the event emitter
  rdone,      \* the remote rooms that are closed
  queue,      \* remoteRoom.messages of each session
  session,    \* where each session is in WebSocket.JoinRoom and serveRoom
  cancelled,  \* the sessions whose cancelCtx is cancelled
  writing,    \* the sessions whose writer goroutine runs
  alive,      \* the clients whose socket is open
  received,   \* what each client was sent over its socket
  handling,   \* the step of the handler that serves a session's call
  carry,      \* the message each process passes on
  todo,       \* the members it has still to tell
  inListen,   \* the processes inside Listen of the first of them
  sent,       \* the number of messages read from each client, by type
  far,        \* the clients whose session is on another machine than the room
  lateTells,  \* messages to members in calls that their senders gave up
  lateUps,    \* broadcasts to the room in such calls
  published, due, dropped, untold, late   \* history, see below

roomVars == <<members, closing, roomQueue, forwarding>>
remoteVars == <<listening, rdone, queue>>
socketVars == <<session, cancelled, writing, alive, received>>
passVars == <<carry, todo, inListen>>
net == <<far, lateTells, lateUps>>
history == <<published, due, dropped, untold, late>>
vars == <<roomVars, remoteVars, socketVars, handling, passVars, sent, net, history>>

Init ==
  /\ members = <<>> /\ closing = "no" /\ roomQueue = <<>> /\ forwarding = TRUE
  /\ listening = {} /\ rdone = {} /\ queue = [c \in Client |-> <<>>]
  /\ session = [c \in Client |-> "out"]
  /\ cancelled = {} /\ writing = {} /\ alive = Client
  /\ received = [c \in Client |-> <<>>]
  /\ handling = [c \in Client |-> "idle"]
  /\ carry = [p \in Process |-> NoMsg]
  /\ todo = [p \in Process |-> <<>>]
  /\ inListen = {}
  /\ sent = [k \in {"broadcast", "message"} \X Client |-> 0]
  /\ far = {} /\ lateTells = {} /\ lateUps = {}
  /\ published = [c \in Client |-> 0]
  /\ due = [c \in Client |-> <<>>]
  /\ dropped = {} /\ untold = {} /\ late = {}

Listed == closing = "no"

RoomDone == closing \in {"closed", "tell", "over"}

\* The list s without client c, who is on it at most once.
Without(s, c) ==
  IF c \notin Elements(s) THEN s
  ELSE LET i == CHOOSE i \in DOMAIN s : s[i] = c
       IN  [j \in 1 .. Len(s) - 1 |-> IF j < i THEN s[j] ELSE s[j + 1]]

-----------------------------------------------------------------------------
(* Telling the members: LocalEventEmitter.EmitLocal and remoteRoom.Listen. *)
(* Process p carries a message and works off a snapshot of the list.       *)

\* Process p is through with the member that is first.
Told(p) ==
  /\ todo' = [todo EXCEPT ![p] = Tail(@)]
  /\ inListen' = inListen \ {p}

\* The message enters the queue; a close message closes the remote room.
Enqueue(c, m) ==
  /\ Len(queue[c]) < QueueSize
  /\ queue' = [queue EXCEPT ![c] = Append(@, m)]
  /\ IF m.type = "close"
       THEN rdone' = rdone \cup {c} /\ listening' = listening \ {c}
       ELSE UNCHANGED <<rdone, listening>>

\* Mutant: only messages of readers are calls that can be given up.
CrossesUpward(p, c) == \E d \in far : p = Reader(d) /\ c \notin far

\* Whether a message of process p to client c goes to another machine: the
\* readers are where their sessions are, all others where the room is.
Crosses(p, c) == (c \in far) # (\E d \in far : p = Reader(d))

CanStray == Cardinality(lateTells) + Cardinality(lateUps) < MaxBehind

\* A closed remote room is skipped, and unregistered.
TellClosed(p) ==
  /\ todo[p] # <<>> /\ p \notin inListen
  /\ Head(todo[p]) \notin listening \ rdone
  /\ listening' = listening \ {Head(todo[p])}
  /\ Told(p)
  /\ UNCHANGED <<roomVars, rdone, queue, socketVars, handling, carry, sent, net, history>>

\* One that is open is listened to.  From then on p looks at its queue only:
\* that the remote room is closed meanwhile does not wake p up.
TellWait(p) ==
  /\ todo[p] # <<>> /\ p \notin inListen
  /\ Head(todo[p]) \in listening \ rdone
  /\ Len(queue[Head(todo[p])]) = QueueSize
  /\ inListen' = inListen \cup {p}
  /\ UNCHANGED <<roomVars, remoteVars, socketVars, handling, carry, todo, sent, net, history>>

\* Mutant: the queue takes a message more than it has room for.
TellSendUnbounded(p) ==
  /\ todo[p] # <<>>
  /\ Head(todo[p]) \in listening \ rdone
  /\ queue' = [queue EXCEPT ![Head(todo[p])] = Append(@, carry[p])]
  /\ Told(p)
  /\ UNCHANGED <<roomVars, listening, rdone, socketVars, handling, carry, sent, net, history>>

\* Mutant: a close message is one like any other.
TellSendOnly(p) ==
  /\ todo[p] # <<>>
  /\ LET c == Head(todo[p]) IN
       /\ p \in inListen \/ c \in listening \ rdone
       /\ Len(queue[c]) < QueueSize
       /\ queue' = [queue EXCEPT ![c] = Append(@, carry[p])]
  /\ Told(p)
  /\ UNCHANGED <<roomVars, listening, rdone, socketVars, handling, carry, sent, net, history>>

TellSend(p) ==
  /\ todo[p] # <<>>
  /\ p \in inListen \/ Head(todo[p]) \in listening \ rdone
  /\ Enqueue(Head(todo[p]), carry[p])
  /\ Told(p)
  /\ UNCHANGED <<roomVars, socketVars, handling, carry, sent, net, history>>

\* Mutant: the forwarder gives up as well and goes on with the next member.
TellTimeoutAll(p) ==
  /\ todo[p] # <<>> /\ p \in inListen
  /\ Told(p)
  /\ UNCHANGED <<roomVars, remoteVars, socketVars, handling, carry, sent, net, history>>

\* Handlers and the closer wait under a timeout of five seconds, a reader
\* until its session is cancelled, the forwarder without end; a call to another
\* machine is given up by any of them, and the message may be left behind in
\* it.  A select whose context is over may drop the message although the queue
\* has room.  dropped records who lost a message of the room so, untold who lost
\* the close message itself.
TellTimeout(p) ==
  /\ todo[p] # <<>>
  /\ p \in inListen \/ Head(todo[p]) \in listening \ rdone
  /\ \/ /\ p = Closer \/ (\E c \in Client : p = Handler(c)) \/ Crosses(p, Head(todo[p]))
        /\ p \in inListen \/ Head(todo[p]) \in Unsteady
     \/ \E c \in cancelled : p = Reader(c)
  /\ \/ UNCHANGED lateTells
     \/ /\ Crosses(p, Head(todo[p])) /\ CanStray
        /\ lateTells' = lateTells \cup {<<Head(todo[p]), carry[p]>>}
  /\ dropped' = IF carry[p].type = "message" THEN dropped ELSE dropped \cup {Head(todo[p])}
  /\ untold' = IF p = Closer THEN untold \cup {Head(todo[p])} ELSE untold
  /\ Told(p)
  /\ UNCHANGED <<roomVars, remoteVars, socketVars, handling, carry, sent, far, lateUps,
                 published, due, late>>

Tell(p) == TellClosed(p) \/ TellWait(p) \/ TellSend(p) \/ TellTimeout(p)

\* What was left behind arrives after all, in whatever order; it may have been
\* waiting in Listen since before the session was closed.
LateTell(c) ==
  \E m \in {x[2] : x \in {y \in lateTells : y[1] = c}} :
    /\ Enqueue(c, m)
    /\ lateTells' = lateTells \ {<<c, m>>}
    /\ UNCHANGED <<roomVars, socketVars, handling, passVars, sent, far, lateUps, history>>

LateUp ==
  /\ Len(roomQueue) < RoomQueueSize
  /\ \E m \in lateUps : roomQueue' = Append(roomQueue, m) /\ lateUps' = lateUps \ {m}
  /\ UNCHANGED <<members, closing, forwarding, remoteVars, socketVars, handling, passVars,
                 sent, far, lateTells, history>>

\* Or it is lost: the machine drops it when its own timeout is over.
LateLost ==
  /\ \/ \E x \in lateTells : lateTells' = lateTells \ {x} /\ UNCHANGED lateUps
     \/ \E m \in lateUps : lateUps' = lateUps \ {m} /\ UNCHANGED lateTells
  /\ UNCHANGED <<roomVars, remoteVars, socketVars, handling, passVars, sent, far, history>>

-----------------------------------------------------------------------------
(* The forwarder of the room, localRoom.Start and broadcastMessage *)

\* The room takes the next broadcast for everyone on the list at this moment.
\* due and published record it.
ForwardTake ==
  /\ forwarding
  /\ todo[Forwarder] = <<>>
  /\ roomQueue # <<>>
  /\ LET m == Head(roomQueue)
         Wants(c) == m.from = c => m.includeSelf
     IN  /\ carry' = [carry EXCEPT ![Forwarder] = m]
         /\ todo' = [todo EXCEPT ![Forwarder] = IF m.includeSelf THEN members
                                                 ELSE Without(members, m.from)]
         /\ published' = [published EXCEPT ![m.from] = @ + 1]
         /\ due' = [c \in Client |->
                      IF c \in Elements(members) /\ Wants(c) THEN Append(due[c], m) ELSE due[c]]
  /\ roomQueue' = Tail(roomQueue)
  /\ UNCHANGED <<members, closing, forwarding, remoteVars, socketVars, handling, inListen,
                 sent, net, dropped, untold, late>>

\* The select takes Done, whatever is still in the queue.
ForwardReturn ==
  /\ forwarding
  /\ todo[Forwarder] = <<>>
  /\ RoomDone
  /\ forwarding' = FALSE
  /\ UNCHANGED <<members, closing, roomQueue, remoteVars, socketVars, handling, passVars,
                 sent, net, history>>

Forward == ForwardTake \/ Tell(Forwarder) \/ ForwardReturn

-----------------------------------------------------------------------------
(* Closing the room: BasicManager.removeRoom, localRoom.Close *)

RemoveRoom ==
  /\ MayClose
  /\ closing = "no"
  /\ closing' = "removed"
  /\ UNCHANGED <<members, roomQueue, forwarding, remoteVars, socketVars, handling, passVars,
                 sent, net, history>>

\* done is closed, the room is no listener any more.
CloseDone ==
  /\ closing = "removed"
  /\ closing' = "closed"
  /\ UNCHANGED <<members, roomQueue, forwarding, remoteVars, socketVars, handling, passVars,
                 sent, net, history>>

CloseAnnounce ==
  /\ closing = "closed"
  /\ closing' = "tell"
  /\ carry' = [carry EXCEPT ![Closer] = [type |-> "close"]]
  /\ todo' = [todo EXCEPT ![Closer] = members]
  /\ UNCHANGED <<members, roomQueue, forwarding, remoteVars, socketVars, handling, inListen,
                 sent, net, history>>

CloseOver ==
  /\ closing = "tell"
  /\ todo[Closer] = <<>>
  /\ closing' = "over"
  /\ carry' = [carry EXCEPT ![Closer] = NoMsg]
  /\ UNCHANGED <<members, roomQueue, forwarding, remoteVars, socketVars, handling, todo,
                 inListen, sent, net, history>>

Close == CloseDone \/ CloseAnnounce \/ Tell(Closer) \/ CloseOver

-----------------------------------------------------------------------------
(* A client joins: RemoteRpcRoomManager.JoinRoom, its handler, and the     *)
(* rest of WebSocket.JoinRoom                                              *)

\* A session that ends early closes its socket and nothing else.
Abandoned(c) == session' = [session EXCEPT ![c] = "gone"] /\ alive' = alive \ {c}

\* GetRoom found the room; the new remoteRoom is registered and JoinRoom called.
\* Whichever machine the client reached is that of the session.
Connect(c) ==
  /\ session[c] = "out" /\ c \in alive
  /\ Listed
  /\ \/ UNCHANGED far
     \/ c \in MayBeFar /\ far' = far \cup {c}
  /\ session' = [session EXCEPT ![c] = "joining"]
  /\ listening' = listening \cup {c}
  /\ handling' = [handling EXCEPT ![c] = "joinCheck"]
  /\ UNCHANGED <<roomVars, rdone, queue, cancelled, writing, alive, received, passVars, sent,
                 lateTells, lateUps, history>>

JoinCheck(c) ==
  /\ handling[c] = "joinCheck"
  /\ \/ /\ Listed
        /\ handling' = [handling EXCEPT ![c] = "joinAdd"]
        /\ UNCHANGED <<session, alive>>
     \/ /\ ~Listed
        /\ handling' = [handling EXCEPT ![c] = "idle"]
        /\ Abandoned(c)
  /\ UNCHANGED <<roomVars, remoteVars, cancelled, writing, received, passVars, sent, net, history>>

\* late records who enters when the close message has its addressees.
JoinAdd(c) ==
  /\ handling[c] = "joinAdd"
  /\ members' = Append(members, c)
  /\ handling' = [handling EXCEPT ![c] = "joinAnnounce"]
  /\ late' = IF closing \in {"tell", "over"} THEN late \cup {c} ELSE late
  /\ UNCHANGED <<closing, roomQueue, forwarding, remoteVars, socketVars, passVars, sent, net,
                 published, due, dropped, untold>>

JoinAnnounce(c) ==
  /\ handling[c] = "joinAnnounce"
  /\ handling' = [handling EXCEPT ![c] = "joinTell"]
  /\ carry' = [carry EXCEPT ![Handler(c)] = [type |-> "join", who |-> c]]
  /\ todo' = [todo EXCEPT ![Handler(c)] = members]
  /\ UNCHANGED <<roomVars, remoteVars, socketVars, inListen, sent, net, history>>

\* The handler answers; nobody may be waiting any more.
Answer(c, waiting, next) ==
  /\ handling' = [handling EXCEPT ![c] = "idle"]
  /\ session' = [session EXCEPT ![c] = IF @ = waiting THEN next ELSE @]

JoinOver(c) ==
  /\ handling[c] = "joinTell"
  /\ todo[Handler(c)] = <<>>
  /\ Answer(c, "joining", "users")
  /\ carry' = [carry EXCEPT ![Handler(c)] = NoMsg]
  /\ UNCHANGED <<roomVars, remoteVars, cancelled, writing, alive, received, todo, inListen,
                 sent, net, history>>

\* JoinRoom gives up after four seconds; the handler goes on.
JoinTimeout(c) ==
  /\ session[c] = "joining"
  /\ Abandoned(c)
  /\ UNCHANGED <<roomVars, remoteVars, cancelled, writing, received, handling, passVars, sent, net,
                 history>>

\* GetRoomUsers, the connect message, the start of serveRoom.
GetUsers(c) ==
  /\ session[c] = "users"
  /\ Listed
  /\ session' = [session EXCEPT ![c] = "serving"]
  /\ writing' = writing \cup {c}
  /\ received' = IF c \in alive
                   THEN [received EXCEPT ![c] =
                           Append(@, [type |-> "connect", users |-> Elements(members)])]
                   ELSE received
  /\ UNCHANGED <<roomVars, remoteVars, cancelled, alive, handling, passVars, sent, net, history>>

\* The room is not found any more, or the call fails.
GetUsersFails(c) ==
  /\ session[c] = "users"
  /\ Abandoned(c)
  /\ UNCHANGED <<roomVars, remoteVars, cancelled, writing, received, handling, passVars, sent, net,
                 history>>

Join(c) == JoinCheck(c) \/ JoinAdd(c) \/ JoinAnnounce(c) \/ JoinOver(c)

-----------------------------------------------------------------------------
(* The session is served: readClientMessage, onRoomMessage, serveRoom *)

\* serveRoom's reader returns: cancel, then the deferred LeaveRoom is called.
StartLeave(c) ==
  /\ session' = [session EXCEPT ![c] = "leaving"]
  /\ cancelled' = cancelled \cup {c}
  /\ handling' = [handling EXCEPT ![c] = "leaveCheck"]

\* The reader is through with a message and looks at its contexts again.
ReadOver(c) ==
  /\ carry' = [carry EXCEPT ![Reader(c)] = NoMsg]
  /\ inListen' = inListen \ {Reader(c)}
  /\ IF c \in cancelled \cup rdone
       THEN StartLeave(c)
       ELSE UNCHANGED <<session, cancelled, handling>>

Reading(c) == session[c] = "serving" /\ carry[Reader(c)] = NoMsg

Count(kind, c) == sent' = [sent EXCEPT ![<<kind, c>>] = @ + 1]

ReadBroadcast(c, self) ==
  /\ Reading(c) /\ c \in alive
  /\ sent[<<"broadcast", c>>] < MaxBroadcasts
  /\ Count("broadcast", c)
  /\ carry' = [carry EXCEPT ![Reader(c)] =
                 [type |-> "broadcast", from |-> c, n |-> sent'[<<"broadcast", c>>],
                  includeSelf |-> self]]
  /\ UNCHANGED <<roomVars, remoteVars, socketVars, handling, todo, inListen, net, history>>

\* A direct message goes to the address it names, past the room.
ReadDirect(c, d) ==
  /\ Reading(c) /\ c \in alive
  /\ sent[<<"message", c>>] < MaxDirects
  /\ Count("message", c)
  /\ carry' = [carry EXCEPT ![Reader(c)] =
                 [type |-> "message", from |-> c, n |-> sent'[<<"message", c>>], to |-> d]]
  /\ todo' = [todo EXCEPT ![Reader(c)] = <<d>>]
  /\ UNCHANGED <<roomVars, remoteVars, socketVars, handling, inListen, net, history>>

\* Any other frame is answered without the room; it matters to a reader whose
\* session is over, which notices that only between two frames.
ReadOther(c) ==
  /\ Reading(c) /\ c \in alive
  /\ c \in cancelled \cup rdone
  /\ StartLeave(c)
  /\ UNCHANGED <<roomVars, remoteVars, writing, alive, received, passVars, sent, net, history>>

\* Mutant: a failed read ends the session only when it is cancelled already.
ReadFailsIfCancelled(c) ==
  /\ Reading(c) /\ c \notin alive /\ c \in cancelled
  /\ StartLeave(c)
  /\ UNCHANGED <<roomVars, remoteVars, writing, alive, received, passVars, sent, net, history>>

ReadFails(c) ==
  /\ Reading(c) /\ c \notin alive
  /\ StartLeave(c)
  /\ UNCHANGED <<roomVars, remoteVars, writing, alive, received, passVars, sent, net, history>>

Upward(c) == carry[Reader(c)] # NoMsg /\ carry[Reader(c)].type = "broadcast"

\* The message goes to the queue of the room, when there is one.
UpClosed(c) ==
  /\ Upward(c) /\ Reader(c) \notin inListen
  /\ RoomDone
  /\ ReadOver(c)
  /\ UNCHANGED <<roomVars, remoteVars, writing, alive, received, todo, sent, net, history>>

UpWait(c) ==
  /\ Upward(c) /\ Reader(c) \notin inListen
  /\ ~RoomDone
  /\ Len(roomQueue) = RoomQueueSize
  /\ inListen' = inListen \cup {Reader(c)}
  /\ UNCHANGED <<roomVars, remoteVars, socketVars, handling, carry, todo, sent, net, history>>

UpSend(c) ==
  /\ Upward(c)
  /\ Reader(c) \in inListen \/ ~RoomDone
  /\ Len(roomQueue) < RoomQueueSize
  /\ roomQueue' = Append(roomQueue, carry[Reader(c)])
  /\ ReadOver(c)
  /\ UNCHANGED <<members, closing, forwarding, remoteVars, writing, alive, received, todo,
                 sent, net, history>>

\* The session is cancelled, or the call to the room's machine given up.
UpCancelled(c) ==
  /\ Upward(c)
  /\ Reader(c) \in inListen \/ ~RoomDone
  /\ \/ c \in cancelled /\ UNCHANGED lateUps
     \/ c \in far /\ UNCHANGED lateUps
     \/ c \in far /\ CanStray /\ lateUps' = lateUps \cup {carry[Reader(c)]}
  /\ ReadOver(c)
  /\ UNCHANGED <<roomVars, remoteVars, writing, alive, received, todo, sent, far,
                 lateTells, history>>

DirectOver(c) ==
  /\ carry[Reader(c)] # NoMsg /\ carry[Reader(c)].type = "message"
  /\ todo[Reader(c)] = <<>>
  /\ ReadOver(c)
  /\ UNCHANGED <<roomVars, remoteVars, writing, alive, received, todo, sent, net, history>>

\* The reader's part in what happens to a message once it was read.
Pass(c) ==
  \/ ReadFails(c) \/ UpClosed(c) \/ UpWait(c) \/ UpSend(c) \/ UpCancelled(c)
  \/ Tell(Reader(c)) \/ DirectOver(c)

\* A write to a dead socket fails and is logged.  When the session is over the
\* select may still take a message from the queue, but only that one.
Write(c) ==
  /\ c \in writing
  /\ queue[c] # <<>>
  /\ queue' = [queue EXCEPT ![c] = Tail(@)]
  /\ received' = IF c \in alive
                   THEN [received EXCEPT ![c] = Append(@, Head(queue[c]))] ELSE received
  /\ IF c \in cancelled \cup rdone
       THEN writing' = writing \ {c} /\ cancelled' = cancelled \cup {c}
       ELSE UNCHANGED <<writing, cancelled>>
  /\ UNCHANGED <<roomVars, listening, rdone, session, alive, handling, passVars, sent, net, history>>

\* The writer returns and cancels the session, whatever is still queued.
WriteReturn(c) ==
  /\ c \in writing
  /\ c \in cancelled \cup rdone
  /\ writing' = writing \ {c}
  /\ cancelled' = cancelled \cup {c}
  /\ UNCHANGED <<roomVars, remoteVars, session, alive, received, handling, passVars, sent, net,
                 history>>

Disconnect(c) ==
  /\ c \in alive /\ session[c] # "out"
  /\ alive' = alive \ {c}
  /\ UNCHANGED <<roomVars, remoteVars, session, cancelled, writing, received, handling,
                 passVars, sent, net, history>>

-----------------------------------------------------------------------------
(* The end of a session: LeaveRoom and its handler, remoteRoom.Close *)

LeaveCheck(c) ==
  /\ handling[c] = "leaveCheck"
  /\ \/ /\ Listed
        /\ handling' = [handling EXCEPT ![c] = "leaveRemove"]
        /\ UNCHANGED session
     \/ ~Listed /\ Answer(c, "leaving", "closing")
  /\ UNCHANGED <<roomVars, remoteVars, cancelled, writing, alive, received, passVars, sent, net,
                 history>>

\* Mutant: the leaving connection stays on the list.
LeaveRemoveForgets(c) ==
  /\ handling[c] = "leaveRemove"
  /\ handling' = [handling EXCEPT ![c] = "leaveAnnounce"]
  /\ UNCHANGED <<roomVars, remoteVars, socketVars, passVars, sent, net, history>>

LeaveRemove(c) ==
  /\ handling[c] = "leaveRemove"
  /\ members' = Without(members, c)
  /\ handling' = [handling EXCEPT ![c] = "leaveAnnounce"]
  /\ UNCHANGED <<closing, roomQueue, forwarding, remoteVars, socketVars, passVars, sent, net,
                 history>>

LeaveAnnounce(c) ==
  /\ handling[c] = "leaveAnnounce"
  /\ handling' = [handling EXCEPT ![c] = "leaveTell"]
  /\ carry' = [carry EXCEPT ![Handler(c)] = [type |-> "leave", who |-> c]]
  /\ todo' = [todo EXCEPT ![Handler(c)] = members]
  /\ UNCHANGED <<roomVars, remoteVars, socketVars, inListen, sent, net, history>>

LeaveOver(c) ==
  /\ handling[c] = "leaveTell"
  /\ todo[Handler(c)] = <<>>
  /\ Answer(c, "leaving", "closing")
  /\ carry' = [carry EXCEPT ![Handler(c)] = NoMsg]
  /\ UNCHANGED <<roomVars, remoteVars, cancelled, writing, alive, received, todo, inListen,
                 sent, net, history>>

\* LeaveRoom gives up, or fails: serveRoom logs it and goes on.
LeaveTimeout(c) ==
  /\ session[c] = "leaving"
  /\ session' = [session EXCEPT ![c] = "closing"]
  /\ UNCHANGED <<roomVars, remoteVars, cancelled, writing, alive, received, handling,
                 passVars, sent, net, history>>

CloseRemote(c) ==
  /\ session[c] = "closing"
  /\ rdone' = rdone \cup {c}
  /\ listening' = listening \ {c}
  /\ Abandoned(c)
  /\ UNCHANGED <<roomVars, queue, cancelled, writing, received, handling, passVars, sent, net,
                 history>>

Leave(c) == LeaveCheck(c) \/ LeaveRemove(c) \/ LeaveAnnounce(c) \/ LeaveOver(c)

-----------------------------------------------------------------------------
\* The goroutines of a client: the handler of its calls, its session, which
\* is the reader while it is served, and its writer.
Handle(c) == Join(c) \/ Leave(c) \/ Tell(Handler(c))

Serve(c) == GetUsers(c) \/ Pass(c) \/ CloseRemote(c)

Writer(c) == Write(c) \/ WriteReturn(c)

\* What clients and the network do of their own accord.
Chance(c) ==
  \/ Connect(c) \/ ReadOther(c)
  \/ c \in Unsteady /\ (Disconnect(c) \/ JoinTimeout(c))
  \/ c \in Flaky /\ (LeaveTimeout(c) \/ GetUsersFails(c))
  \/ c \in Broadcaster /\ ReadBroadcast(c, c \in IncludeSelf)
  \/ \E d \in Client : <<c, d>> \in DirectPair /\ ReadDirect(c, d)

Next ==
  \/ \E c \in Client : Chance(c) \/ Handle(c) \/ Serve(c) \/ Writer(c)
  \/ Forward
  \/ RemoveRoom \/ Close
  \/ LateUp \/ LateLost \/ \E c \in Client : LateTell(c)

Spec == Init /\ [][Next]_vars

\* Goroutines are scheduled, timeouts expire, and clients read what they are
\* sent for as long as their socket is open; nobody has to do anything else.
Fairness ==
  /\ WF_vars(Forward) /\ WF_vars(Close)
  /\ \A c \in Client : WF_vars(Handle(c)) /\ WF_vars(Serve(c)) /\ WF_vars(Writer(c))

FairSpec == Spec /\ Fairness

-----------------------------------------------------------------------------
(* Properties *)

\* Every variable keeps its type; queues keep their capacity.
TypeOK ==
  /\ members \in Seq(Client)
  /\ closing \in Closes
  /\ roomQueue \in Seq(Broadcasts) /\ Len(roomQueue) <= RoomQueueSize
  /\ forwarding \in BOOLEAN
  /\ listening \subseteq Client /\ rdone \subseteq Client
  /\ queue \in [Client -> Seq(Msg)] /\ \A c \in Client : Len(queue[c]) <= QueueSize
  /\ session \in [Client -> Sessions]
  /\ cancelled \subseteq Client /\ writing \subseteq Client /\ alive \subseteq Client
  /\ received \in [Client -> Seq(Frame)]
  /\ handling \in [Client -> Handling]
  /\ carry \in [Process -> Msg \cup {NoMsg}]
  /\ todo \in [Process -> Seq(Client)]
  /\ inListen \subseteq Process
  /\ sent \in [{"broadcast", "message"} \X Client -> Nat]
  /\ far \subseteq Client
  /\ lateTells \subseteq Client \X Msg /\ lateUps \subseteq Broadcasts
  /\ published \in [Client -> Nat]
  /\ due \in [Client -> Seq(Broadcasts)]
  /\ dropped \subseteq Client /\ untold \subseteq Client /\ late \subseteq Client

\* The members as the frames a client got tell them: the users of the connect
\* message and whoever joined since, without whoever left after that.
Shows(f, d) == (f.type = "connect" /\ d \in f.users) \/ (f.type = "join" /\ f.who = d)

View(c) ==
  LET got == received[c] IN
    {d \in Client : \E i \in DOMAIN got :
       /\ Shows(got[i], d)
       /\ \A j \in DOMAIN got : j > i => got[j] # [type |-> "leave", who |-> d]}

Quiet(c) ==
  /\ queue[c] = <<>>
  /\ \A d \in Client : handling[d] \notin {"joinAnnounce", "joinTell", "leaveAnnounce", "leaveTell"}

\* Joins and leaves are announced by goroutines of their own, after the list
\* was changed and to a snapshot of it, while GetRoomUsers reads the list at
\* another time: a client whose queue never timed out still knows the members
\* once the announcements are through.
ViewAgrees ==
  \A c \in Client :
    /\ session[c] = "serving" /\ c \in alive \ (cancelled \cup rdone)
    /\ Quiet(c) /\ c \notin dropped
    => View(c) = Elements(members)

\* After the close, a session that is served although the room is gone joined
\* too late to be told, or the close message to it is one that the closer gave
\* up: the five seconds of localRoom.Close were over, or the call to the
\* session's machine failed.  What the session lost before the close, and to
\* whom else calls were given up, excuses nothing.
CloseTold ==
  closing = "over" =>
    \A c \in Elements(members) :
      session[c] = "serving" => c \in rdone \cup late \cup untold

\* Process p waits for room in a queue that nobody empties: the session's writer
\* has returned, or was never started.  A queue of another machine does not hold
\* it up: the call is given up.
Stuck(p) ==
  /\ p \in inListen /\ todo[p] # <<>>
  /\ LET c == Head(todo[p]) IN
       /\ Len(queue[c]) = QueueSize
       /\ c \notin writing /\ session[c] \in {"serving", "leaving", "closing", "gone"}
       /\ (c \in far) = (p \in {Reader(d) : d \in far})

\* As long as clients read, a broadcast waits for nothing else: the forwarder
\* takes every one, or it is stuck for ever, or the room is closed.
ForwardsUnlessStuck == (roomQueue # <<>>) ~> (roomQueue = <<>> \/ RoomDone \/ Stuck(Forwarder))

\* A session whose client is gone, and what a session that ended leaves behind:
\* no registration with the event emitter, no place on the list of the room.
Dead(c) == session[c] = "serving" /\ c \notin alive

Ended(c) ==
  /\ session[c] = "gone" /\ c \notin listening
  /\ Listed => c \notin Elements(members)

\* When a client's socket is closed its own session ends, leaves the room and
\* gives up its registration, even if its reader waits for the room's queue or
\* for that of another session at that moment: unless the forwarder, or this
\* very reader with a direct message, waits for a queue that nobody empties.
\* (No other client is ever served and dead.)
SessionEnds ==
  \A c \in Unsteady :
    Dead(c) ~> (Ended(c) \/ Stuck(Forwarder) \/ (Stuck(Reader(c)) /\ c \notin cancelled))

\* README.md:36, "Real-time room creation, discovery, broadcast, and direct
\* messaging over WebSocket": a broadcast that the room accepted is sent on.
BroadcastsForwarded == (roomQueue # <<>>) ~> (roomQueue = <<>> \/ RoomDone)

-----------------------------------------------------------------------------
(* Refinement: what clients get is what RoomBroadcast promises. *)

\* The broadcasts of clients on the machine of the room.
Near ==
  [type : {"broadcast"}, from : Client \ far, n : 1 .. MaxBroadcasts, includeSelf : BOOLEAN]

Room == INSTANCE RoomBroadcast WITH
          present <- Elements(members) \ far,
          published <- [c \in Client |-> IF c \in far THEN 0 ELSE published[c]],
          due <- [c \in Client |-> IF c \in far THEN <<>> ELSE Only(due[c], Near)],
          got <- [c \in Client |-> IF c \in far THEN <<>> ELSE Only(received[c], Near)]

\* Through two queues, a snapshot of the list for every message, sessions that
\* come and go and a close, no member loses, repeats or swaps a broadcast:
\* those on the machine of the room of each other, whatever happens to calls
\* from and to another machine meanwhile.
ImplementsBroadcast == Room!Spec
=============================================================================
