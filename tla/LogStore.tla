------------------------------ MODULE LogStore ------------------------------
(***************************************************************************)
(* Debug logs on the machines of a deployment with local storage: the      *)
(* handlers that upload and delete (src/serve/route), CoreApi, the files   *)
(* (src/storage/file.go), the tables of metadata (src/data), and the task  *)
(* that cleans every ten minutes.  A file and its rows are written and     *)
(* removed in several steps without a transaction; requests and the task   *)
(* interleave, fail and crash anywhere.                                    *)
(*                                                                         *)
(* A file id is the machine and the MD5 of the content: uploads of one     *)
(* content to one machine have one id.  An upload is served where it       *)
(* arrives; a deletion is proxied when it meets a file of another machine. *)
(***************************************************************************)
EXTENDS Integers, FiniteSets, Lists, SequencesExt, FiniteSetsExt

CONSTANTS
  Machine,
  File,          \* file ids
  Home,          \* the machine of a file id
  Size,          \* the size of a file
  Group,         \* the groupIds of clients
  MaxSize,       \* maxLogFileSizeOfMB
  LifeTime,      \* maxLogLifeTimeOfHour
  Batch,         \* the rows a pass looks at, a thousand
  Request,       \* bound: the handlers active at a time
  Uploads,       \* bound: the files, and their groups, that clients upload
  Deletions,     \* bound: the lists of file ids that clients delete
  MaxUploads,    \* bound: uploads in all
  MaxDeletes,    \* bound: deletions in all
  MaxFailures,   \* bound: failed file and database operations, and crashes
  MaxTime,       \* bound: the clock
  NoFile, NoGroup

ASSUME HomeAssumption == Home \in [File -> Machine] /\ Size \in [File -> Nat]
ASSUME LimitAssumption == MaxSize \in Nat /\ LifeTime \in Nat /\ Batch \in Nat \ {0}
ASSUME BoundAssumption ==
  /\ Uploads \subseteq File \X (Group \cup {NoGroup}) /\ Deletions \subseteq Seq(File)
  /\ IsFiniteSet(Request)
  /\ MaxUploads \in Nat /\ MaxDeletes \in Nat /\ MaxFailures \in Nat /\ MaxTime \in Nat

Cleaner(m) == <<"clean", m>>
Cleaners == {Cleaner(m) : m \in Machine}
Process == Request \cup Cleaners

ASSUME ProcessAssumption == Machine # {} /\ Request \cap Cleaners = {}

\* Between the first look at a file and the last step that concerns it.
UploadSteps == {"upCreate", "upWrite", "upLookup", "upInsert", "upGroup", "upGroupInsert",
                "upGroupUpdate"}
DeleteSteps == {"delRemove", "delRow"}
Steps == {"idle", "upStat", "delStat", "groupFind", "groupLast", "cleanOldest", "cleanTimeout"}
           \cup UploadSteps \cup DeleteSteps

Kinds == {"none", "upload", "delete", "deleteGroup", "bySize", "byTime"}

VARIABLES
  disk,     \* the file of each id under ./log
  rows,     \* table log_data without deleted rows; their ids count the insertions
  groups,   \* table log_groups; rows refer to its entries
  now,
  proc,     \* what each handler and each task does, see Idle
  linked,   \* the uploads whose open file is still the one in the directory
  excess,   \* deleteSize of CleanFileBySize
  missed,   \* history: the size pass could not delete something, or not all rows fit
  added,    \* history: bytes that came in since the pass counted them
  mixed,    \* history: files whose upload met a deletion, a failure or a crash
  uploads, deletes, failures   \* counters of the bounds

tables == <<rows, groups>>
pass == <<excess, missed, added>>
counters == <<uploads, deletes, failures>>
vars == <<disk, tables, now, proc, linked, pass, mixed, counters>>

\* entry: the entry of groups that FindLogGroup returned, 0 for none;
\* ids: the file ids of a deletion; todo: what is still to be deleted.
Idle(p) ==
  [step |-> "idle", kind |-> "none", file |-> NoFile, group |-> NoGroup, entry |-> 0,
   at |-> IF p \in Cleaners THEN p[2] ELSE CHOOSE m \in Machine : TRUE,
   ids |-> <<>>, todo |-> <<>>]

Init ==
  /\ disk = [f \in File |-> "none"]
  /\ rows = {} /\ groups = <<>>
  /\ now = 0
  /\ proc = [p \in Process |-> Idle(p)]
  /\ linked = {}
  /\ excess = [m \in Machine |-> 0] /\ missed = {} /\ added = [m \in Machine |-> 0]
  /\ mixed = {}
  /\ uploads = 0 /\ deletes = 0 /\ failures = 0

Step(p) == proc[p].step

At(p) == proc[p].at

\* The file a deletion has before it.
Current(p) == Head(proc[p].todo)

Goto(p, s) == proc' = [proc EXCEPT ![p].step = s]

\* A handler answers, a task waits for its ticker.
Finish(p) == proc' = [proc EXCEPT ![p] = Idle(p)]

\* The rows of a machine, and their sizes together.
RowsAt(m) == {r \in rows : Home[r.file] = m}

Bytes(rs) == UNION {{r} \X (1 .. Size[r.file]) : r \in rs}

Total(m) == Cardinality(Bytes(RowsAt(m)))

NextId == IF rows = {} THEN 1 ELSE 1 + Max({r.id : r \in rows})

\* Some of the rows, the oldest first.
Ordered(rs) ==
  LET ids == Only([i \in 1 .. NextId - 1 |-> i], {r.id : r \in rs})
  IN  [k \in DOMAIN ids |-> CHOOSE r \in rs : r.id = ids[k]]

FilesOf(rs) == [i \in DOMAIN rs |-> rs[i].file]

FindLog(f) == \E r \in rows : r.file = f

Old(r) == r.created < now - LifeTime

\* Mutant: a group without logs is not found.
FindLogGroupJoined(m, g) ==
  LET S == {i \in DOMAIN groups : /\ groups[i] = [home |-> m, id |-> g, live |-> TRUE]
                                  /\ \E r \in rows : r.entry = i}
  IN  IF S = {} THEN 0 ELSE CHOOSE i \in S : \A j \in S : i <= j

\* FindLogGroup returns the first entry, with or without logs.
FindLogGroup(m, g) ==
  LET S == {i \in DOMAIN groups : groups[i] = [home |-> m, id |-> g, live |-> TRUE]}
  IN  IF S = {} THEN 0 ELSE CHOOSE i \in S : \A j \in S : i <= j

Uploading(f) == \E p \in Process : Step(p) \in UploadSteps /\ proc[p].file = f
Deleting(f) == \E p \in Process : Step(p) \in DeleteSteps /\ Current(p) = f

\* The file a process is in the middle of.
WorksOn(p) ==
  CASE Step(p) \in UploadSteps -> {proc[p].file}
    [] Step(p) \in DeleteSteps -> {Current(p)}
    [] OTHER -> {}

-----------------------------------------------------------------------------
(* Uploads: CoreApi.CreateFile and CreateLogGroupFile *)

BeginUpload(p, f, g) ==
  /\ Step(p) = "idle" /\ uploads < MaxUploads
  /\ uploads' = uploads + 1
  /\ proc' = [proc EXCEPT ![p] =
                [step |-> "upStat", kind |-> "upload", file |-> f, group |-> g, entry |-> 0,
                 at |-> Home[f], ids |-> <<>>, todo |-> <<>>]]
  /\ UNCHANGED <<disk, tables, now, linked, pass, mixed, deletes, failures>>

\* Where SaveLog returns to.
Saved(p) == IF proc[p].group = NoGroup THEN "upLookup" ELSE "upGroup"

\* A file that exists, whole or not, is taken for this one.
UpStat(p) ==
  /\ Step(p) = "upStat"
  /\ LET f == proc[p].file
     IN  /\ Goto(p, IF disk[f] = "none" THEN "upCreate" ELSE Saved(p))
         /\ mixed' = IF Deleting(f) THEN mixed \cup {f} ELSE mixed
  /\ UNCHANGED <<disk, tables, now, linked, pass, counters>>

UpCreate(p) ==
  /\ Step(p) = "upCreate"
  /\ disk' = [disk EXCEPT ![proc[p].file] = "partial"]
  /\ linked' = linked \cup {p}
  /\ Goto(p, "upWrite")
  /\ UNCHANGED <<tables, now, pass, mixed, counters>>

\* The file may have been removed since; then nobody will find it.
UpWrite(p) ==
  /\ Step(p) = "upWrite"
  /\ disk' = IF p \in linked THEN [disk EXCEPT ![proc[p].file] = "full"] ELSE disk
  /\ linked' = linked \ {p}
  /\ Goto(p, Saved(p))
  /\ UNCHANGED <<tables, now, pass, mixed, counters>>

\* CreateLog looks for a row of the file first.
UpLookup(p) ==
  /\ Step(p) = "upLookup"
  /\ IF FindLog(proc[p].file) THEN Finish(p) ELSE Goto(p, "upInsert")
  /\ UNCHANGED <<disk, tables, now, linked, pass, mixed, counters>>

\* The last step of an upload: a row that belongs to entry e of groups.  The code
\* takes created_at a little earlier, before its lookups (core.go:81, 116); here a
\* row is created when it is inserted, so that created_at has the order of ids.
\* No property tells which of two logs that were uploaded at once is the older.
Insert(p, e) ==
  /\ rows' = rows \cup {[id |-> NextId, file |-> proc[p].file, entry |-> e, created |-> now]}
  /\ added' = [added EXCEPT ![At(p)] = @ + Size[proc[p].file]]
  /\ Finish(p)
  /\ UNCHANGED <<disk, now, linked, excess, missed, mixed, counters>>

UpInsert(p) ==
  /\ Step(p) = "upInsert"
  /\ Insert(p, 0)
  /\ UNCHANGED groups

UpGroup(p) ==
  /\ Step(p) = "upGroup"
  /\ LET e == FindLogGroup(At(p), proc[p].group)
     IN  proc' = [proc EXCEPT ![p].entry = e,
                              ![p].step = IF e = 0 THEN "upGroupInsert" ELSE "upGroupUpdate"]
  /\ UNCHANGED <<disk, tables, now, linked, pass, mixed, counters>>

\* Mutant: the log gets the key of the next group.
UpGroupInsertNext(p) ==
  /\ Step(p) = "upGroupInsert"
  /\ groups' = Append(groups, [home |-> At(p), id |-> proc[p].group, live |-> TRUE])
  /\ Insert(p, Len(groups') + 1)

\* The group and its log are inserted in one transaction.
UpGroupInsert(p) ==
  /\ Step(p) = "upGroupInsert"
  /\ groups' = Append(groups, [home |-> At(p), id |-> proc[p].group, live |-> TRUE])
  /\ Insert(p, Len(groups'))

\* The log is inserted with the key of the group, even if that was deleted.
UpGroupUpdate(p) ==
  /\ Step(p) = "upGroupUpdate"
  /\ Insert(p, proc[p].entry)
  /\ UNCHANGED groups

Upload(p) ==
  \/ UpStat(p) \/ UpCreate(p) \/ UpWrite(p) \/ UpLookup(p) \/ UpInsert(p)
  \/ UpGroup(p) \/ UpGroupInsert(p) \/ UpGroupUpdate(p)

-----------------------------------------------------------------------------
(* Deletions: the loops that call CoreApi.DeleteFile, and DeleteFile *)

BeginDelete(p, m, fs) ==
  /\ Step(p) = "idle" /\ deletes < MaxDeletes
  /\ deletes' = deletes + 1
  /\ proc' = [proc EXCEPT ![p] =
                [step |-> "delStat", kind |-> "delete", file |-> NoFile, group |-> NoGroup,
                 entry |-> 0, at |-> m, ids |-> fs, todo |-> fs]]
  /\ UNCHANGED <<disk, tables, now, linked, pass, mixed, uploads, failures>>

BeginDeleteGroup(p, m, g) ==
  /\ Step(p) = "idle" /\ deletes < MaxDeletes
  /\ deletes' = deletes + 1
  /\ proc' = [proc EXCEPT ![p] =
                [step |-> "groupFind", kind |-> "deleteGroup", file |-> NoFile, group |-> g,
                 entry |-> 0, at |-> m, ids |-> <<>>, todo |-> <<>>]]
  /\ UNCHANGED <<disk, tables, now, linked, pass, mixed, uploads, failures>>

\* DeleteLogGroup: no group, nothing to do.
GroupFind(p) ==
  /\ Step(p) = "groupFind"
  /\ LET e == FindLogGroup(At(p), proc[p].group)
     IN  IF e = 0
           THEN Finish(p)
           ELSE proc' = [proc EXCEPT ![p].step = "delStat",
                           ![p].todo = FilesOf(Ordered({r \in rows : r.entry = e}))]
  /\ UNCHANGED <<disk, tables, now, linked, pass, mixed, counters>>

\* The group is looked up again; that it is gone by now is an error.
GroupLast(p) ==
  /\ Step(p) = "groupLast"
  /\ LET e == FindLogGroup(At(p), proc[p].group)
     IN  groups' = IF e = 0 THEN groups ELSE [groups EXCEPT ![e].live = FALSE]
  /\ Finish(p)
  /\ UNCHANGED <<disk, rows, now, linked, pass, mixed, counters>>

\* Mutant: the size pass takes one byte too many for enough.
EnoughButOne(p) == proc[p].kind = "bySize" /\ excess[At(p)] <= 1

\* CleanFileBySize looks before each file whether enough is deleted.
Enough(p) == proc[p].kind = "bySize" /\ excess[At(p)] <= 0

Over(p) == proc[p].todo = <<>> \/ Enough(p)

\* Mutant: the proxy of the other machine leads back to this one.
ProxySelf(p) ==
  /\ Step(p) = "delStat" /\ ~Over(p)
  /\ Home[Current(p)] # At(p)
  /\ proc' = [proc EXCEPT ![p].todo = proc[p].ids]
  /\ UNCHANGED <<disk, tables, now, linked, pass, mixed, counters>>

\* A file of another machine: that machine gets the whole request.
Proxy(p) ==
  /\ Step(p) = "delStat" /\ ~Over(p)
  /\ Home[Current(p)] # At(p)
  /\ proc' = [proc EXCEPT ![p].at = Home[Current(p)], ![p].todo = proc[p].ids]
  /\ UNCHANGED <<disk, tables, now, linked, pass, mixed, counters>>

DelStat(p) ==
  /\ Step(p) = "delStat" /\ ~Over(p)
  /\ LET f == Current(p)
     IN  /\ Home[f] = At(p)
         /\ Goto(p, IF disk[f] = "none" THEN "delRow" ELSE "delRemove")
         /\ mixed' = IF Uploading(f) THEN mixed \cup {f} ELSE mixed
  /\ UNCHANGED <<disk, tables, now, linked, pass, counters>>

\* What an error does: the task logs it and goes on, a handler answers it.
Refuse(p) ==
  IF p \in Cleaners
    THEN /\ proc' = [proc EXCEPT ![p].step = "delStat", ![p].todo = Tail(@)]
         /\ missed' = missed \cup {At(p)}
    ELSE Finish(p) /\ UNCHANGED missed

DelRemove(p) ==
  /\ Step(p) = "delRemove"
  /\ LET f == Current(p)
     IN  /\ disk[f] # "none"
         /\ disk' = [disk EXCEPT ![f] = "none"]
         /\ linked' = {q \in linked : proc[q].file # f}
  /\ Goto(p, "delRow")
  /\ UNCHANGED <<tables, now, pass, mixed, counters>>

\* Somebody else removed the file after the look at it: an error.
DelRemoveGone(p) ==
  /\ Step(p) = "delRemove"
  /\ disk[Current(p)] = "none"
  /\ Refuse(p)
  /\ UNCHANGED <<disk, tables, now, linked, excess, added, mixed, counters>>

\* Process p is through with a file.
Deleted(p) ==
  /\ excess' = IF proc[p].kind = "bySize"
                 THEN [excess EXCEPT ![At(p)] = @ - Size[Current(p)]] ELSE excess
  /\ proc' = [proc EXCEPT ![p].step = "delStat", ![p].todo = Tail(@)]

\* Mutant: one row of the file is deleted.
DelRowFirst(p) ==
  /\ Step(p) = "delRow"
  /\ LET S == {r \in rows : r.file = Current(p)}
     IN  rows' = rows \ {r \in S : \A q \in S : r.id <= q.id}
  /\ Deleted(p)
  /\ UNCHANGED <<disk, groups, now, linked, missed, added, mixed, counters>>

\* All rows of the file go.
DelRow(p) ==
  /\ Step(p) = "delRow"
  /\ rows' = {r \in rows : r.file # Current(p)}
  /\ Deleted(p)
  /\ UNCHANGED <<disk, groups, now, linked, missed, added, mixed, counters>>

DelOver(p) ==
  /\ Step(p) = "delStat" /\ Over(p)
  /\ CASE proc[p].kind = "deleteGroup" -> Goto(p, "groupLast")
       [] proc[p].kind = "bySize" -> Goto(p, "cleanTimeout")
       [] OTHER -> Finish(p)
  /\ UNCHANGED <<disk, tables, now, linked, pass, mixed, counters>>

Delete(p) ==
  \/ GroupFind(p) \/ Proxy(p) \/ DelStat(p) \/ DelRemove(p) \/ DelRemoveGone(p) \/ DelRow(p)
  \/ DelOver(p) \/ GroupLast(p)

-----------------------------------------------------------------------------
(* The task, CoreApi.CleanFile, once every ten minutes *)

FirstRows(rs) == SubSeq(rs, 1, IF Len(rs) < Batch THEN Len(rs) ELSE Batch)

\* CountLogsSize.  A pass over no rows does nothing and is left out.
CleanCount(m) ==
  LET p == Cleaner(m)  big == Total(m) >= MaxSize IN
    /\ Step(p) = "idle" /\ RowsAt(m) # {}
    /\ proc' = [proc EXCEPT ![p].step = IF big THEN "cleanOldest" ELSE "cleanTimeout",
                            ![p].kind = "bySize"]
    /\ excess' = [excess EXCEPT ![m] = IF big THEN Total(m) - MaxSize ELSE 0]
    /\ missed' = missed \ {m}
    /\ added' = [added EXCEPT ![m] = 0]
    /\ UNCHANGED <<disk, tables, now, linked, mixed, counters>>

\* FindOldestLogs
CleanOldest(m) ==
  LET p == Cleaner(m) IN
    /\ Step(p) = "cleanOldest"
    /\ proc' = [proc EXCEPT ![p].step = "delStat", ![p].todo = FilesOf(FirstRows(Ordered(RowsAt(m))))]
    /\ missed' = IF Cardinality(RowsAt(m)) > Batch THEN missed \cup {m} ELSE missed
    /\ UNCHANGED <<disk, tables, now, linked, excess, added, mixed, counters>>

\* Mutant: logs are too old only when there are too many.
CleanTimeoutIfBig(m) ==
  LET p == Cleaner(m) IN
    /\ Step(p) = "cleanTimeout"
    /\ proc' = [proc EXCEPT ![p].step = "delStat", ![p].kind = "byTime",
                  ![p].todo = IF Total(m) < MaxSize THEN <<>>
                              ELSE FilesOf(FirstRows(Reverse(Ordered({r \in RowsAt(m) : Old(r)}))))]
    /\ UNCHANGED <<disk, tables, now, linked, pass, mixed, counters>>

\* FindTimeoutLogs, the youngest of the old rows first
CleanTimeout(m) ==
  LET p == Cleaner(m) IN
    /\ Step(p) = "cleanTimeout"
    /\ proc' = [proc EXCEPT ![p].step = "delStat", ![p].kind = "byTime",
                  ![p].todo = FilesOf(FirstRows(Reverse(Ordered({r \in RowsAt(m) : Old(r)}))))]
    /\ UNCHANGED <<disk, tables, now, linked, pass, mixed, counters>>

Clean(m) == CleanCount(m) \/ CleanOldest(m) \/ CleanTimeout(m) \/ Delete(Cleaner(m))

-----------------------------------------------------------------------------
(* Time, failures and crashes *)

Tick ==
  /\ now < MaxTime
  /\ now' = now + 1
  /\ UNCHANGED <<disk, tables, proc, linked, pass, mixed, counters>>

\* An operation on a file or a query fails; a file that was created stays.
Fail(p) ==
  /\ failures < MaxFailures
  /\ Step(p) \in UploadSteps \cup DeleteSteps \cup {"groupFind", "groupLast"}
  /\ failures' = failures + 1
  /\ mixed' = mixed \cup WorksOn(p)
  /\ linked' = linked \ {p}
  /\ Refuse(p)
  /\ UNCHANGED <<disk, tables, now, excess, added, uploads, deletes>>

\* A query of the task fails, CountLogsSize, FindOldestLogs or FindTimeoutLogs:
\* its pass is over, CleanFile logs that and goes on to the next.
FailQuery(m) ==
  LET p == Cleaner(m) IN
    /\ failures < MaxFailures
    /\ failures' = failures + 1
    /\ \/ /\ (Step(p) = "idle" /\ RowsAt(m) # {}) \/ Step(p) = "cleanOldest"
          /\ proc' = [proc EXCEPT ![p].step = "cleanTimeout", ![p].kind = "bySize"]
          /\ missed' = missed \cup {m}
       \/ Step(p) = "cleanTimeout" /\ Finish(p) /\ UNCHANGED missed
    /\ UNCHANGED <<disk, tables, now, linked, excess, added, mixed, uploads, deletes>>

\* The server dies and is started again: files and tables are what is left.
Crash(m) ==
  LET dead == {p \in Process : At(p) = m /\ Step(p) # "idle"} IN
    /\ failures < MaxFailures /\ dead # {}
    /\ failures' = failures + 1
    /\ mixed' = mixed \cup UNION {WorksOn(p) : p \in dead}
    /\ linked' = linked \ dead
    /\ proc' = [p \in Process |-> IF p \in dead THEN Idle(p) ELSE proc[p]]
    /\ UNCHANGED <<disk, tables, now, pass, uploads, deletes>>

-----------------------------------------------------------------------------
Begin(p) ==
  \/ \E u \in Uploads : BeginUpload(p, u[1], u[2])
  \/ \E m \in Machine, fs \in Deletions : BeginDelete(p, m, fs)
  \/ \E m \in Machine, g \in Group : BeginDeleteGroup(p, m, g)

Next ==
  \/ \E p \in Request : Begin(p) \/ Upload(p) \/ Delete(p)
  \/ \E m \in Machine : Clean(m) \/ FailQuery(m) \/ Crash(m)
  \/ \E p \in Process : Fail(p)
  \/ Tick

Spec == Init /\ [][Next]_vars

\* Handlers run, and the ticker of the task goes on; no client has to call.
Fairness ==
  /\ \A p \in Request : WF_vars(Upload(p)) /\ WF_vars(Delete(p))
  /\ \A m \in Machine : WF_vars(Clean(m))

FairSpec == Spec /\ Fairness

-----------------------------------------------------------------------------
(* Properties *)

Locals ==
  [step : Steps, kind : Kinds, file : File \cup {NoFile}, group : Group \cup {NoGroup},
   entry : 0 .. Len(groups), at : Machine, ids : Seq(File), todo : Seq(File)]

\* Every variable keeps its type.
TypeOK ==
  /\ disk \in [File -> {"none", "partial", "full"}]
  /\ rows \subseteq [id : Nat, file : File, entry : 0 .. Len(groups), created : 0 .. now]
  /\ groups \in Seq([home : Machine, id : Group, live : BOOLEAN])
  /\ now \in Nat
  /\ proc \in [Process -> Locals]
  /\ linked \subseteq Request /\ mixed \subseteq File /\ missed \subseteq Machine
  /\ excess \in [Machine -> Int] /\ added \in [Machine -> Nat]

\* Without a transaction, and whatever uploads and whatever deletions of a
\* file run at the same time, a file is there, and whole, exactly when it has
\* a row, once no request works on it: unless an upload met a deletion, a
\* failure or a crash.
FilesMatchRows ==
  \A f \in File :
    ~Uploading(f) /\ ~Deleting(f) /\ f \notin mixed => (disk[f] = "full" <=> FindLog(f))

\* The first uploads of a group that meet may each insert an entry for it, and
\* the lists and the deletion of the group see one of them only.  There are
\* never more entries, and entries to come, than requests that can meet, even
\* if the logs of the group, or the group, are deleted meanwhile.
LiveEntries(m, g) == {i \in DOMAIN groups : groups[i] = [home |-> m, id |-> g, live |-> TRUE]}

Inserting(m, g) == {p \in Request : Step(p) = "upGroupInsert" /\ At(p) = m /\ proc[p].group = g}

GroupEntriesBounded ==
  \A m \in Machine, g \in Group :
    Cardinality(LiveEntries(m, g)) + Cardinality(Inserting(m, g)) <= Cardinality(Request)

\* CleanFileBySize brings the machine down to the limit, but for what is
\* uploaded while it runs, although it works on a sum and on a list that are
\* stale by then: concurrent deletions, several rows of a file.  missed says
\* that an operation or a query failed or that there were more rows than a pass looks at.
SizeKept ==
  \A m \in Machine \ missed :
    Step(Cleaner(m)) = "cleanTimeout" => Total(m) <= MaxSize + added[m]

\* A log that is older than maxLogLifeTimeOfHour goes away, although the size
\* pass comes first and deletions may fail.
OldLog(f) == \E r \in rows : r.file = f /\ Old(r)

OldLogsGo == \A f \in File : OldLog(f) ~> ~OldLog(f)

Pending(p) == Step(p) # "idle" /\ proc[p].kind = "delete"

OneHome(p) ==
  \A i, j \in DOMAIN proc[p].ids : Home[proc[p].ids[i]] = Home[proc[p].ids[j]]

\* A deletion of files of one machine is answered, wherever it arrives.
DeletionsAtHomeAnswered == \A p \in Request : (Pending(p) /\ OneHome(p)) ~> ~Pending(p)

\* USAGE.md:512, "Repeat fileId to delete multiple logs": every deletion is
\* answered.
DeletionsAnswered == \A p \in Request : Pending(p) ~> ~Pending(p)
=============================================================================
