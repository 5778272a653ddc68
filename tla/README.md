# A TLA+ model of page-spy-api

page-spy-api relays debug messages between a browser page and its debug
clients. Each connection is a websocket session; the sessions of one page meet
in a *room*. Besides, it stores uploaded debug logs. Several instances
("machines") can form one deployment; they call each other by JSON-RPC over
HTTP.

This directory holds TLA+ modules that model the rooms, the way of the
messages through them within a machine and between machines, the log store, and
the protected log API of several machines; TLC configurations that check them
on small instances; and theorems that TLAPS checks for every value of the
constants. Paths without a directory are in `src/`.

## Inventory

| component | source | state | operations | hard because |
|---|---|---|---|---|
| local room manager | `room/local_manager.go`, `basic_manager.go`, `local_room.go`, `basic_room.go`, `state/status_machine.go` | `roomsMap`; of each room its status, channel `done`, connection list, ages | CreateRoom, JoinRoom, LeaveRoom, RemoveRoom, the ten-second `loop`, Close, ShouldRemove | every access takes a lock of its own, no operation takes one for all of its accesses |
| message delivery | `room/local_room.go`, `room/remote_room.go`, `event/local_event.go` | the room's queue and each session's queue (2000 messages each), the table of listeners | SendMessage, broadcast, Emit, Listen | bounded queues, snapshots of the list, waits with and without a timeout |
| remote event emitter | `event/rpc_event.go`, `event/local_event.go` | none | Emit, as a call to another machine | the sender gives up after 4 s, the receiver may still carry it out |
| websocket session | `serve/socket/socket.go` | the socket, the cancel context, the remoteRoom | JoinRoom, serveRoom's reader and writer, LeaveRoom at the end | two goroutines end each other; each step of joining can fail alone |
| remote room manager and rpc | `room/rpc_*_manager.go`, `rpc/` | none of its own | the room operations as calls | caller and handler have different timeouts (4 s, 5 s); a call that failed may have happened |
| log store | `serve/route/core.go`, `data/`, `storage/file.go` | files, tables `log_data` and `log_groups` | upload, group upload, delete, delete group, cleaning by size and by age | file and row are written in several steps without a transaction |
| deletion across machines | `serve/route/route.go`, `proxy/proxy.go` | none | delete, proxy | a request may change machines |
| periodic tasks | `task/task.go` | tickers | run | one goroutine per task, beside the requests |
| log paging | `data/logs.go` | none | ask every machine, merge, sort, remove duplicates | the key that identifies a row does not survive JSON; machines may be down |
| addresses | `rpc/address.go`, `api/event/event.go` | the list of machines | number the machines, look up | every machine computes the numbers for itself, from its own copy of a list |
| authentication | `serve/middleware/jwt.go`, `auth.go` | the secret | sign, check | created lazily and without a lock, per process |
| room data | `api/room/` | data of the above | parse, format | |
| s3 storage, configuration, middleware, metrics | `storage/s3.go`, `config/`, `container/`, ... | | | input and output only |

How they interact: a session calls the remote room manager, which calls the
machine of the room by RPC, also when that is its own machine; the handler
calls the local room manager. A broadcast goes from the session's reader
through the event emitter into the room's queue; the room's only forwarder
takes it out and emits it to each connection on the list, into the queue of
that session's remoteRoom, which the session's writer empties. Direct messages
go from reader to remoteRoom past the room. When session and room are on different
machines the emission is a call of its own. The uploads and deletions of the
HTTP handlers and the cleaning task share files and tables. A request for a file
of another machine is proxied to it as a whole, and authorised there again; a
list is made of one call to each machine, the own one included.

What makes each part correct, and where it is stated: lookups, members and
listeners of rooms agree and rooms end (`RoomManager`); members get the
broadcasts due to them in order and once, and know each other (`Delivery`);
files and rows agree and old logs go away (`LogStore`); machines number each
other alike, tokens hold, downloads find their file, lists are whole
(`Cluster`). PROJECT.json lists the hazards line by line.

## Modules

| module | models | refines |
|---|---|---|
| `RoomRegistry` | what the room manager promises about addresses | |
| `RoomManager` | the rooms of one node, one action for each access to shared state | `RoomRegistry` |
| `RoomBroadcast` | what a room promises about broadcasts | |
| `Delivery` | sessions, queues, forwarder, announcements, close, of one room, on two machines | `RoomBroadcast` |
| `LogStore` | files, rows, groups, deletion across machines, cleaning | |
| `Addresses` | the numbers of machines, as operators on lists | |
| `LogPages` | page, merge, sort and removal of duplicates, as operators on sequences | |
| `Cluster` | secrets and tokens, lists and downloads over several machines; uses `Addresses` and `LogPages` | |
| `MCRoomManager`, `MCDelivery`, `MCLogStore`, `MCCluster` | instances for TLC: symmetry sets, sizes, homes, lists | |
| `Lists` | who is on a list, and the part of a list that is of interest, for all of the above | |
| `RoomManagerProofs`, `RoomLifeProofs` | theorems about `RoomManager`, the second on top of the first | `RoomRegistry`, proved |
| `DeliveryProofs`, `BroadcastProofs`, `ViewProofs` | theorems about `Delivery`, each on top of the one before | `RoomBroadcast`, proved |
| `LogStoreProofs`, `ClusterProofs` | theorems about `LogStore`; about `Addresses` and `Cluster` | |
| `ListsProofs` | lemmas about the operators of `Lists` | |

An operator that a comment calls `Mutant:` is no part of the model: it is a
wrong variant of the definition below it, which the properties must tell from
the right one (PROJECT.json, "mutants").

### RoomManager

A room object is a member of `Room`, its address a member of `Address`: two
objects may have one address, and `roomsMap` knows addresses only. `pc[p]` is
the next access to shared state of process `p`, a request handler or the
`Loop`; each action is one lock region or one unlocked access of the code, so
TLC takes every interleaving that the locks allow. `status`, `done`,
`connections` and `listening` are the fields of that name (`listening`: the
event emitter's table). Instants are ages that `Tick` advances, capped one
above `Hour`: no condition of `ShouldRemove` changes after that.

Requests follow the discipline of `serve/socket`: a connection joins until one
join succeeds, then leaves at most once. `create` is `POST /room/create` with a
generated address, `forceCreate` is `ForceJoinRoom` with the address of the
client's URL, so that the address is not fresh. Closing the channel `done`
twice panics; in the loop goroutine that ends the process: `crashed`.

### Delivery

Of each session: where it is in `JoinRoom` and `serveRoom` (`session`), whether
its writer runs (`writing`), its queue, and the handler of its calls
(`handling`). The handler's call and the caller's wait are separate, so that
`JoinTimeout` and `LeaveTimeout` leave the handler running. A process that
passes a message on has the message in `carry` and the members it has still to
tell in `todo`; `inListen` says that it has looked at `IsClose` of the first of
them and waits in the `select` of `Listen`. `Tell` is shared by the
forwarder, the closer, the handlers and the readers; what differs is who may
give up (`TellTimeout`): handlers and closer after five seconds, a reader when
its session is cancelled, the forwarder never.

The race over the room's creation and removal is in `RoomManager`; here removal
and close are single steps, each client joins once, and there is one room.
`published`, `due`, `dropped`, `untold` and `late` are history variables that
only properties use (`published` and `due` are the witnesses of the
refinement). `dropped` are the members that lost some message of the room to a
timeout, `untold` those whose close message the closer gave up, `late` those
that came on the list behind it.

`far` are the clients whose session is on the other machine: `Connect` chooses.
The steps of a session are the same there. What differs is a message that
`Crosses` from one machine to the other: its sender, be it the forwarder, may
give up (`TellTimeout`, `UpCancelled`), and the message may stay behind in the
call (`lateTells`, `lateUps`), to arrive out of order (`LateTell`, `LateUp`) or
not at all (`LateLost`). So nothing is promised about order to and from such a
client; the refinement says that the clients near the room notice nothing of
it.

### LogStore

`disk[f]` is `none`, `partial` or `full`: `SaveLog` takes a file that exists,
whole or not, for the one it is to write. `rows` is `log_data`, `groups` is
`log_groups`; a row's `created` is set when it is inserted, in the code a few
queries earlier, so that here the order of `created_at` is that of the ids.
`proc[p]` is what a request or a cleaner does: each step is one file or
database operation. Deletions by request, by group and by the two passes share
the steps of `DeleteFile`; what differs is the list (`todo`), when it is enough
(`Enough`) and what an error does (`Refuse`: a handler answers it, the task
goes on). `Proxy` hands the whole request to the machine of the file at hand.
Each operation of an upload or a deletion can `Fail`, each query of a pass too
(`FailQuery`, which ends the pass), and a machine can `Crash` between any two
steps; a file that was open is unlinked by a concurrent removal (`linked`).
Rows are listed by `Ordered`, in the order of their ids, and `Total`, the sum
of their sizes, is the number of their bytes (`Bytes`). `excess`, the size
pass's running count, is a variable of the code; `missed`, `added` and `mixed`
are history.

### Addresses, LogPages, Cluster

`rpc/address.go` sorts the configured list and calls the address at position i
machine Ai. `MachineAt` and `SelfId` say the same by counting the addresses
below: TLC compares them with `SortSeq` for all lists of up to four addresses
(`SortedAlike` in `MCCluster`), and they can be proved about. An address that
is listed twice takes two positions; `selfMachineId` is then the last of them.

`Sent` is what the JSON of an RPC leaves of a page (`Model.ID` is tagged
`json:"-"`), `Desc` is the set of results an unstable sort may have (the
descending lists with as many of each row), `UniqData` keeps the first row of
each key. `Lists` has no recursive operator but a recursive function
(`Only`), and the modules that use it are proved about.

A request of `Cluster` is a record whose `step` is the next access to shared
state: does the machine have a secret (`CheckSecret`), make one (`InitSecret`),
sign or parse a token, then ask the machines one after the other (`Call`,
`CallFails`, `ListOver`) or find the file (`Proxy`, `FindRow`, `GetLog`).
`ReadTorn` is the data race on the slice of the secret, whose reader may see its
length without its array and panic. A machine may `Crash` and `Restart`: the
secret and the requests it takes part in are gone, tables and files are not.
`Init` chooses the configuration: the order of each machine's list, whether
`jwtSecret` is set, whether the machines share a database. Uploads and deletions
are single steps; theirs are in `LogStore`.

## Runs

Each run asks one question; the properties are explained at their definition.

| run | module, bounds | question and result |
|---|---|---|
| `rooms_live` | RoomManager; 2 addresses, 2 rooms, 1 connection, 2 handlers, generated addresses | do lookups, member lists and the loop agree in every interleaving? `TypeOK`, `ClosedNotListed`, `ClosedNotListening`, `MembersAgree`, `YoungRoomSafe`, `OpenRoomHeld`; every old room is closed (`OldRoomClosed`); it refines `RoomRegistry` (`ImplementsRegistry`) |
| `rooms_force` | 2 addresses, 2 rooms, 2 handlers, limit 1, forced creation and removal | what remains when concurrent creations overwrite each other? `ClosedNotListed`, `ClosedNotListening`, `MembersAgree`; by how much is `maxRoomNumber` exceeded? Two creations of two addresses list two rooms where one is allowed, never more (`RoomOvershoot`) |
| `rooms_old` | 1 address, 2 rooms, forced creation | violation of `OldRoomClosed`, see Findings |
| `delivery_order` | Delivery; 2 clients, queues of 1, each broadcasts, one hears itself; the other is unsteady and may be far, one of its calls may be late | does every member near the room get the broadcasts due to it, in order, once (`ImplementsBroadcast`), and does every member know the others (`ViewAgrees`)? also `TypeOK` |
| `delivery_close` | 2 clients; one broadcasts; the other, perhaps far and with failing calls, sends a direct message, disconnects, leaves; the room closes | is every session told of the close, unless it joined behind the close message or the closer gave up that very message (`CloseTold`)? |
| `delivery_live` | 2 clients that both broadcast, one unsteady and perhaps far, fair | are broadcasts forwarded, and do dead sessions end, leave the list and give up their registration, unless the forwarder is stuck on a queue of its own machine (`ForwardsUnlessStuck`, `SessionEnds`)? |
| `delivery_stall` | 2 clients, one unsteady and with failing calls, 2 broadcasts, fair | violation of `BroadcastsForwarded`, see Findings |
| `logs_store` | LogStore; 1 machine, 2 files, 1 group, 2 requests, 3 uploads, 1 deletion, 1 failure | do files and rows agree (`FilesMatchRows`), does the size pass keep the limit (`SizeKept`), do first uploads that meet leave few group rows (`GroupEntriesBounded`)? also `TypeOK` |
| `logs_live` | 2 machines, 2 files of one of them, passes of 1 row, a deletion of both files at either machine, failures and crashes, fair | do old logs go away (`OldLogsGo`), is a deletion of files of one machine answered (`DeletionsAtHomeAnswered`)? |
| `logs_proxy` | 2 machines, a deletion of one file of each | violation of `DeletionsAnswered`, see Findings |
| `cluster_api` | Cluster; 2 machines, one listed twice and in different orders, 3 requests, 2 contents, page size 2 | do tokens hold (`TokensHold`), are downloads routed (`RoutesHome`) and found (`DownloadsFound`), is a list whole and without repetition (`SecondsShown`, `NoLogTwice`)? also `TypeOK` |
| `cluster_list` | the same | violation of `FilesShown`, see Findings |

Why the bounds are enough. Every race of the room manager is between two
operations on one room, or two rooms under one address: two handlers and the
loop are three processes, and with two rooms an address can be overwritten. Two
addresses let a retired address and a live one exist together. A queue of one
message is full and empty in turn, so that every wait of `Listen` and every
drop happens; the code's 2000 only delays that. In `rooms_force` two addresses
and a limit of one are what an overshoot needs; all thresholds are 0 there, so
that one `Tick` makes a room old. In `delivery_live` both clients send, so that
the one that dies may do so while its reader waits for the full room queue; as
only that one can lack a writer, the exemptions of `SessionEnds` for a stuck
forwarder or reader are not met there by a dead session: they say what the code
permits with more clients and with direct messages. Failing calls are in
`delivery_close` and `delivery_stall`; the theorems about `Delivery` hold with them. In `logs_live` a pass
takes one row and two are old, so that it is cut. Two clients are a sender and a
receiver, a joiner and a witness, a stuck member and a victim. With two files
of different size, and a limit of one, the size pass has to delete one, both or
neither; three uploads give a file two rows (one alone, one in a group). One
failure or crash at any step is the interesting case; the next is a repetition
after the system has come to rest. The thresholds of ages are as small as they
can be in their order (`Minute <= FiveMinutes <= Hour`). `LifeTime = 0` and one
`Tick` make a row old. The bounds that the modules themselves contain are
marked `bound:` at their declaration: `MaxBroadcasts`, `MaxDirects`, `MaxUploads`, `MaxDeletes`,
`MaxFailures`, `MaxTime`, the sets of clients that do something, and `Room` and
`Handler`. `Broadcaster`, `DirectPair`, `IncludeSelf`, `Unsteady`, `Flaky`, `MayBeFar` and
`MayClose` share the behaviours of `Delivery` out among its runs: between them they cover every
action, but a run does not combine all of them. `delivery_close` identifies states that
differ only in what was received and what was due (`VIEW Unread`): no action
reads it, nor does `CloseTold`. `MaxBehind` is 1 in `delivery_order` only: one
late call is enough to overtake, and the other runs are about who is told and
who waits, which a call that is given up shows without it. `Uploads` says which
files are uploaded into which group: for the races on groups, one file is alone
and in the group, one in the group only.

In `Cluster` `MaxWork` bounds requests, uploads and crashes together: four of
them, two uploads and two requests, or a login, its use, an upload and a crash,
are the shortest scenarios that the properties are about. Two machines with one listed twice give positions that differ
from the place in the configured list; a page of two is full and overfull in
turn. Two seconds tell rows of one second from rows of two. Requests and
contents are interchangeable and the run has invariants only, so symmetry is
sound; likewise in `rooms_force` and `logs_store`.

`Delivery`, `LogStore` and `Cluster` may stop when their bounded clients have nothing more
to do, so deadlock is not checked there; in `RoomManager` the loop and the
clock always go on (or `Dead` stutters after a crash), so it is.

Fairness. Goroutines are scheduled: weak fairness of each handler, of the loop
and its clock, of forwarder and closer, of each session's reader (after it has
read something) and writer, of the cleaning task. A timeout expires, or the
message is sent: `TellTimeout` is part of `Tell`. Nothing is assumed of a call
that was given up: it need not arrive, nor be lost. `Cluster` has invariants
only and needs no fairness. Nothing is assumed of
clients: they need not send, join, leave or disconnect. A failing or timed-out
call is never fair. No fairness is strong. That a writer makes progress says
that a client whose socket is open reads what it is sent; a dead socket's
write fails and does not block.

## Findings

* `rooms_old`: of two concurrent forced creations of one address the first room
  is overwritten in `roomsMap` (`room/basic_manager.go:33`) and never closed,
  against `docs/ARCHITECTURE.md:372`.
* `delivery_stall`: the forwarder waits without a timeout for a queue whose
  writer is gone (`room/local_room.go:85`): one abandoned member stops
  broadcasts for all, against `README.md:36`.
* `logs_proxy`: a deletion with file ids of two machines is proxied back and
  forth for ever (`serve/route/route.go:264`), against `docs/USAGE.md:512`.
* `cluster_list`: the pages of a list come through JSON, which drops the primary
  key (`data/logs.go:67`); rows are then identified by their second of creation
  alone, and of the logs of one second one is shown, against
  `docs/ARCHITECTURE.md:272`. `SecondsShown` is what does hold.

Beside these: `maxRoomNumber`, for `docs/USAGE.md:121` the maximum number of
local rooms, is exceeded when creations of different addresses pass `isFull`
together (`room/local_manager.go:88`; `RoomOvershoot` bounds by how much), closing `done` twice can end the process
(`crashed`), `localRoom.Join` overwrites the status of a room that was closed in
between (`room/local_room.go:141`; no other property relies on that status), an
upload takes a file that a failed upload left for the whole one (`mixed` in
`FilesMatchRows`), a remote room is never added to a manager, so that its
`ShouldRemove` is never asked (`room/remote_room.go:147` against
`docs/ARCHITECTURE.md:373`), and first logins that meet may sign with a secret
that is replaced at once (`raced` in `TokensHold`).

## Proofs

Every theorem holds for any number of processes, machines, files and so on,
from the assumptions that the modules name. Each is proved along one inductive
invariant, of which the proof has a lemma for each action or kind of action.
Every invariant of a passing run is stated by a theorem, and so are both
refinements, that of `RoomRegistry` without its fairness.

### Lists

What a recursive function computes for lists of every length needs an
induction. The induction theorems of the library take an operator as a
parameter, which the provers here cannot instantiate; they can use that a set of
natural numbers has a first element (`First`). So `ListsProofs` works with the
set of the lengths at which a statement fails, whose first element is refuted
(`Induction`), or with a set of lists that contains the empty one and
with a list every list that is longer by one (`ListInduction`). From there:
`Only` keeps order, elements and absence of repetitions, `Only` of a
concatenation, an appended or a shortened list is what one expects, and two sets
that agree on a list select the same of it.

### Rooms

Assumed are a finite, nonempty set of handlers without the loop
(`ProcessAssumption`), `NullAssumption`, finitely many addresses, needed to
count (`AddressAssumption`), `OpsAssumption` and `TimeAssumption`.

`RoomManagerProofs`: `TypeCorrectness`, `ClosedRoomsAreNotListed`,
`RoomNumberIsBounded`. `ClosedNotListed` is not inductive. A process about to
close a room must not find it in `roomsMap` again, so `IInv` adds that a room
being closed is not listed (`ClosingOK`); this could only be broken by `AddRoom`
of the same room, so it adds that a room on its way into `roomsMap` is open and
held by its creator alone (`PendingOK`), that processes hold rooms that were
created (`HoldOK`) and that requests carry what their steps use (`RequestOK`).
For the number of rooms, a request that has passed `isFull` takes a place until
it has added its room: listed rooms and places together stay within the bound
(`PlacesBounded`), because `isFull` lets a request in only if there is room for
the listed ones, and all others are fewer than the handlers.

`RoomLifeProofs` adds what each theorem needs to `IInv`.
`ClosedRoomsAreSilent`: whoever closed the channel of a room that still listens
unlistens next (`UnlistenOK`). `YoungRoomsAreSafe`: the status close is only
found on rooms older than a minute, and ages only grow (`AgeOK`).
`OpenRoomsAreHeld`: with generated addresses no two rooms have one address
(`AddressOK`), so no room is overwritten in `roomsMap`, and of the processes
that close a room one is always still to close its channel (`DoneOK`).
`MembersAreSessions`: requests and sessions agree on what is going on
(`SessionOK`), a connection is only on lists of its own address (`PlaceOK`), on
one after it joined (`JoinedOK`), and on none that can be found after it left
(`LeftOK`), although a leave may work on another room than the join.

`ManagerImplementsRegistry`: `Init` implies the initial
predicate of `RoomRegistry` and each step is one of its steps or leaves its
variables alone, under the refinement mapping of `RoomManager` and with
generated addresses (`FreshAddresses`). This is `ImplementsRegistry` without
its fairness.

### Delivery

`QueuesKeepCapacity`: `TypeOK` with the capacities. A reader that is about to
put something into the room's queue has a broadcast, a process with members to
tell has a message (`CarryOK`); what is late has its type too.
`CloseReachesMembers`: `CloseTold`. A session that has begun is registered until
its remote room closes (`RegOK`), the closer tells nothing but the close
(`CloseOK`), and while it does, a member that is served has still to be told, is
closed, is one the closer gave up (`untold`), or came late (`ToldOK`). That a
session lost something else before, or that its calls failed, is no exemption.

`DeliveryImplementsBroadcast` is the whole of `ImplementsBroadcast`
(`RoomBroadcast` promises nothing under fairness). What a client near the room
received and what waits in its queue (`Reaches`) is an initial part of what is
due to it (`Promised`); the one message that may be missing is the one that the
forwarder has for it (`Owed`), and as long as its session reads none other is
(`PromiseOK`). That the steps of `RoomBroadcast` number the broadcasts of a
sender without a gap needs that those in the room's queue are the next ones and
that the reader has the one after them (`NumberOK`). The rest says who can
interfere: handlers and readers belong to sessions in that call or give up
(`HandlerOK`, `ReaderOK`), nothing is due before a client is on the list
(`EnterOK`), nobody but the forwarder passes on broadcasts (`OthersOK`), it tells
each member once and no late call has a broadcast for a near client
(`ForwarderOK`), and clients change machines before they say anything
(`SaidOK`).

`ViewsAgree`: `ViewAgrees`, on top of that invariant. For a client that follows the room
(`Follows`) a member is known from a frame or the handler of the member's join has
still to tell of it, and one that left was told to have left, or its handler has
still to tell (`KnowsOK`). It rests on the list and the announcements agreeing
(`ListOK`, `TellsOK`), on the connect message being the first frame (`EarlyOK`),
on what is late being dropped (`LateOK`), and on no sign of a
client coming after its leave (`NewsOK`, `OrderOK`).

### Logs

`FilesAgreeWithRows`: `FilesMatchRows`. `Sound(f)` says how file and rows may
disagree while requests work on `f`, by how far they are (`Stage`), for files
where no upload met a deletion, failure or crash. `GroupsStayFew`:
`GroupEntriesBounded`. A request comes to insert a row of a group only when
there is no live one; then only the requests that are about to insert count, and
from there an insertion turns one of them into a row (`GroupInv`).

`TypesHold`: `TypeOK`. The lists of files that a deletion works on come from
`Ordered`, which lists each of some rows once because rows have numbers of their
own (`RowsOK`, which `NextId` keeps); a request in the middle of an upload has a
file, at its machine, and a task has files of its own machine before it
(`WorkOK`), so that a task never proxies.

`SizeIsKept`: `SizeKept`. The pass by size compares a sum and a list that were
read at two moments with tables that change. While it works through the list
(`PassOK`, `Pass`) there are a set `X` of rows, a list `e` of some of them and a
set `Y`: `e` are the rows whose files are still before the pass, `X` has every
row that was counted or came since, but for those the pass is through with, and
`Y` those that came after the list was read. Then the bytes of `X` are at most
`MaxSize + added + excess` and the bytes of `Y` at most `added`; the rows of the
machine are all in `X`, and all in `e` or `Y`. A deletion takes the first row off `e` and `X`, and
its bytes off `excess`; what others delete only makes the rows fewer. The pass
ends when `excess` is not positive, and `X` is small enough, or when `e` is empty,
and `Y` is all there is. A pass that fails, or whose list was cut at `Batch`, is
in `missed`.

### Cluster

`MachinesAgree`: lists with the same addresses, each as often, number the
machines alike. `SelfIdHome`: the machine with one's own number is oneself. From
both, whatever machine reads an id finds the machine that wrote it
(`HomeFound`); hence `DownloadsGoHome` (`RoutesHome`). `TokensAreGood`
(`TokensHold`): a token has the configured secret, or that of its machine, as
long as the machine was not restarted and nobody replaced it (`TokenOK`);
requests on their way are at machines that run and have a secret when they read
it (`RequestOK`); once refused, the reason stays (`Refused`).

`TypesHold`: `TypeOK`, together with the above (`Typed`); a request keeps asking
for a file at its home. `LogsFound` (`DownloadsFound`): a file on a machine has
its id and, unless it was removed, a row there (`StoredOK`), and who asks for a
file asks for one that was uploaded (`DownloadOK`). `ListsAreUnique`
(`NoLogTwice`): `UniqData` leaves one row of a key, for every list.
`ListsAreComplete` (`SecondsShown`): the rows there were when a list was begun
have old keys (`BeforeOK`, `RowsOK`), each that is still there is on a machine
not asked yet or has its second among what was collected (`CollectOK`), and no
second is lost when that is sorted and duplicates are removed (`ShownOK`).

### Only model-checked

The liveness properties (`OldRoomClosed`, `ForwardsUnlessStuck`, `SessionEnds`,
`OldLogsGo`, `DeletionsAtHomeAnswered`) and the fairness in
`ImplementsRegistry`: fairness and ENABLED are out of the prover's reach. That
`MachineAt` numbers a sorted list (`SortedAlike`), which compares it with the
recursive `SortSeq` of the community modules.

## Not modelled

* `storage/s3.go`, configuration, wiring, metrics, logging, CORS and cache
  headers: input, output and formatting. What configuration decides is in the
  constants, or in `Init` of `Cluster`. The copy of the SQLite file to S3 is
  listed as a hazard.
* Tags, names and secrets of rooms and logs, `UpdateRoomInfo`,
  `UpdateRoomOption`: no property tells their values apart (a refused secret is
  an error answer in `CreateStart` and `JoinAdd`).
* Lists of groups, which work like lists of logs; the total of a page, the
  filters by tag and time.
* The mode without a password, which lets every request pass; the comparison of
  the password and the format of tokens.
* Finding the own IP address, and the deployment without a list of machines.
* Clocks of machines that differ; a machine of a room that restarts: its rooms
  are gone with it, and its sessions end like any whose calls fail.
* The cleaning of one database by several machines, beyond the deletion of rows
  whose file is on another machine (`DeleteLog` of `Cluster`), and lists of
  machines that change: hazards without a property.
* The time between the reads of `ShouldRemove`; see its comment.

## Plan

What is left, in the order of its worth:

1. The size of a group (`serve/route/core.go:146`) and the tables of a shared
   database in `LogStore`.
2. Ages of remote rooms, and the activity of a room as `Delivery` sees it,
   composed with the loop of `RoomManager`.
3. `MachineAt` against a definition of a sorted list that is not recursive, to
   prove `SortedAlike` for lists of any length.
