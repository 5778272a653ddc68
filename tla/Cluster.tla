------------------------------ MODULE Cluster ------------------------------
(***************************************************************************)
(* The protected log API of a deployment of several machines: the tokens   *)
(* of serve/middleware, the lists that ask every machine (serve/route,     *)
(* rpc, data), and the downloads that are proxied to the machine of a file *)
(* (proxy).  A password is set, so that Auth does not let everything pass. *)
(*                                                                         *)
(* A machine is its RPC address; all use one HTTP port, so that the proxy  *)
(* of an address leads to that machine.  Uploads and deletions are one     *)
(* step each here: their own steps are in LogStore.                        *)
(***************************************************************************)
EXTENDS Addresses, LogPages

CONSTANTS
  Machine,         \* the RPC addresses of the machines that run
  Configurations,  \* the lists that the machines are configured with
  Content,         \* the MD5 sums of logs
  Query,           \* bound: the pages that clients ask for
  Request,         \* bound: the requests, each of them is made once
  Expiration,      \* tokenExpiration
  MaxWork,         \* bound: requests, uploads and crashes in all
  MaxTime,         \* bound: the clock, in seconds
  NoToken, NoFile

ASSUME MachineAssumption == Machine \subseteq Int /\ Machine # {}

\* ARCHITECTURE.md:194, "Every node must use the same list"; a machine that is
\* not in its own list does not start.
ASSUME ConfigurationAssumption ==
  \A c \in Configurations :
    /\ c \in [Machine -> Seq(Int)]
    /\ \A m, n \in Machine : SameList(c[m], c[n])
    /\ \A m \in Machine : Configured(c[m]) = Machine

ASSUME ClusterBounds ==
  /\ Query \subseteq [page : Nat \ {0}, size : Nat \ {0}]
  /\ Expiration \in Nat /\ MaxWork \in Nat /\ MaxTime \in Nat
  /\ NoToken \notin [secret : Nat, by : Machine, expires : Nat]
  /\ NoFile \notin [home : Nat, body : Content]

VARIABLES
  list,        \* config.RpcAddress of each machine
  jwtSecret,   \* TRUE: authConfig.jwtSecret is set, the same everywhere
  shared,      \* TRUE: databaseConfig.mysqlUrl is set, one database for all
  up,          \* the machines that run
  secret,      \* the variable jwtSecret of each machine
  fresh,       \* the next random key
  tokens,      \* the tokens that clients got
  rows,        \* table log_data of each database, in the order of created_at
  lastId,      \* the last primary key of each database
  disk,        \* the files of each machine
  now,
  proc,        \* the requests
  uploads, crashes,
  raced,       \* history: the machines where two requests created a secret
  restarted,   \* history: the machines that were started again
  removed      \* history: the files that were deleted

config == <<list, jwtSecret, shared>>
auth == <<secret, fresh, tokens, raced>>
store == <<rows, lastId, disk, uploads, removed>>
health == <<up, crashes, restarted>>
vars == <<config, auth, store, health, now, proc>>

\* Secrets: none yet, the configured one, or a random key.
NoSecret == 0
ConfiguredSecret == 1

\* hops and before are history: how often the request was proxied, and the
\* rows there were when it began, at the end those of them that still are.
NewRequest ==
  [step |-> "new", kind |-> "none", at |-> CHOOSE m \in Machine : TRUE, via |-> {},
   token |-> NoToken, file |-> NoFile, query |-> [page |-> 1, size |-> 1],
   rest |-> {}, data |-> <<>>, answer |-> "none", hops |-> 0, before |-> {}]

Init ==
  /\ list \in Configurations
  /\ jwtSecret \in BOOLEAN /\ shared \in BOOLEAN
  /\ up = Machine
  /\ secret = [m \in Machine |-> NoSecret] /\ fresh = 2 /\ tokens = {}
  /\ rows = [m \in Machine |-> <<>>] /\ lastId = [m \in Machine |-> 0]
  /\ disk = [m \in Machine |-> {}]
  /\ now = 0
  /\ proc = [p \in Request |-> NewRequest]
  /\ uploads = 0 /\ crashes = 0
  /\ raced = {} /\ restarted = {} /\ removed = {}

Step(p) == proc[p].step

At(p) == proc[p].at

\* Mutant: the list is not sorted.
SelfUnsorted(m) == (CHOOSE i \in DOMAIN list[m] : list[m][i] = m) - 1

Self(m) == SelfId(list[m], m)

\* The database of a machine: its own, or the one of all.
Db(m) == IF shared THEN CHOOSE n \in Machine : TRUE ELSE m

AllRows == UNION {{<<d, rows[d][i]>> : i \in DOMAIN rows[d]} : d \in Machine}

CanWork == Cardinality({p \in Request : Step(p) # "new"}) + uploads + crashes < MaxWork

Goto(p, step) == proc' = [proc EXCEPT ![p].step = step]

\* Of the answers that are errors it matters what was asked, and where.
Answer(p, answer) ==
  proc' = [proc EXCEPT ![p] =
    IF answer \in {"unauthorized", "notFound"}
      THEN [NewRequest EXCEPT !.step = "done", !.answer = answer,
                              !.at = At(p), !.token = proc[p].token, !.file = proc[p].file]
      ELSE [NewRequest EXCEPT !.step = "done", !.answer = answer]]

-----------------------------------------------------------------------------
(* Requests *)

BeginVerify(p, m) ==
  /\ Step(p) = "new" /\ m \in up /\ CanWork
  /\ proc' = [proc EXCEPT ![p] = [@ EXCEPT !.step = "check", !.kind = "verify", !.at = m]]
  /\ UNCHANGED <<config, auth, store, health, now>>

BeginList(p, m, t, q) ==
  /\ Step(p) = "new" /\ m \in up /\ CanWork
  /\ proc' = [proc EXCEPT ![p] = [@ EXCEPT !.step = "check", !.kind = "list", !.at = m,
                                           !.token = t, !.query = q, !.before = AllRows]]
  /\ UNCHANGED <<config, auth, store, health, now>>

BeginDownload(p, m, t, f) ==
  /\ Step(p) = "new" /\ m \in up /\ CanWork
  /\ proc' = [proc EXCEPT ![p] = [@ EXCEPT !.step = "check", !.kind = "download", !.at = m,
                                           !.token = t, !.file = f]]
  /\ UNCHANGED <<config, auth, store, health, now>>

-----------------------------------------------------------------------------
(* The secret: GenerateToken and Auth *)

\* Mutant: GenerateToken does not look whether there is a secret.
CheckSecretLate(p) ==
  /\ Step(p) = "check"
  /\ Goto(p, IF proc[p].kind = "verify" THEN "sign"
             ELSE IF secret[At(p)] = NoSecret THEN "init" ELSE "parse")
  /\ UNCHANGED <<config, auth, store, health, now>>

CheckSecret(p) ==
  /\ Step(p) = "check"
  /\ Goto(p, IF secret[At(p)] = NoSecret THEN "init"
             ELSE IF proc[p].kind = "verify" THEN "sign" ELSE "parse")
  /\ UNCHANGED <<config, auth, store, health, now>>

\* InitJWTSecret.  Whoever found no secret makes one, even if there is one now.
InitSecret(p) ==
  /\ Step(p) = "init"
  /\ secret' = [secret EXCEPT ![At(p)] = IF jwtSecret THEN ConfiguredSecret ELSE fresh]
  /\ fresh' = IF jwtSecret THEN fresh ELSE fresh + 1
  /\ raced' = IF secret[At(p)] = NoSecret THEN raced ELSE raced \cup {At(p)}
  /\ Goto(p, IF proc[p].kind = "verify" THEN "sign" ELSE "parse")
  /\ UNCHANGED <<config, tokens, store, health, now>>

Sign(p) ==
  /\ Step(p) = "sign"
  /\ tokens' = tokens \cup
       {[secret |-> secret[At(p)], by |-> At(p), expires |-> now + Expiration]}
  /\ Answer(p, "token")
  /\ UNCHANGED <<config, secret, fresh, raced, store, health, now>>

Valid(t, m) == t # NoToken /\ t.secret = secret[m] /\ now < t.expires

\* ParseToken; the handler of the route comes next.
Parse(p) ==
  /\ Step(p) = "parse"
  /\ IF ~Valid(proc[p].token, At(p)) THEN Answer(p, "unauthorized")
     ELSE IF proc[p].kind = "list"
       THEN proc' = [proc EXCEPT ![p].step = "call", ![p].rest = MachineIds(list[At(p)])]
       ELSE Goto(p, "route")
  /\ UNCHANGED <<config, auth, store, health, now>>

\* Nothing guards the slice: while another request writes the first secret a
\* reader may see its length without its array, goes on, and panics.  The
\* server closes the connection.
ReadTorn(p) ==
  /\ Step(p) = "check" /\ secret[At(p)] = NoSecret
  /\ \E q \in Request : Step(q) = "init" /\ At(q) = At(p)
  /\ Answer(p, "failed")
  /\ UNCHANGED <<config, auth, store, health, now>>

-----------------------------------------------------------------------------
(* Lists: CallAllClient, one machine after the other in any order *)

Call(p, id) ==
  /\ Step(p) = "call" /\ id \in proc[p].rest
  /\ LET m == MachineAt(list[At(p)], id)
         q == proc[p].query
         page == Sent(FindLogs(rows[Db(m)], q.page, q.size))
     IN  /\ m \in up
         /\ proc' = [proc EXCEPT ![p].rest = @ \ {id}, ![p].data = Merge(@, page)]
  /\ UNCHANGED <<config, auth, store, health, now>>

\* Mutant: the list goes on without a machine that does not answer.
CallSkips(p, id) ==
  /\ Step(p) = "call" /\ id \in proc[p].rest
  /\ proc' = [proc EXCEPT ![p].rest = @ \ {id}]
  /\ UNCHANGED <<config, auth, store, health, now>>

\* A machine that is down, or too slow (any call may be), fails the whole list.
CallFails(p, id) ==
  /\ Step(p) = "call" /\ id \in proc[p].rest
  /\ Answer(p, "failed")
  /\ UNCHANGED <<config, auth, store, health, now>>

\* GetFileList sorts what it got, and removes duplicates.
ListOver(p) ==
  /\ Step(p) = "call" /\ proc[p].rest = {}
  /\ \E sorted \in Desc(proc[p].data) :
       proc' = [proc EXCEPT ![p].step = "done", ![p].answer = "listed",
                            ![p].data = UniqData(sorted),
                            ![p].before = @ \cap AllRows]
  /\ UNCHANGED <<config, auth, store, health, now>>

-----------------------------------------------------------------------------
(* Downloads *)

\* The request goes to the machine of the file and is authorised there again.
\* Bound: hops are counted up to two.
Proxy(p) ==
  /\ Step(p) = "route"
  /\ proc[p].file.home # Self(At(p))
  /\ LET m == MachineAt(list[At(p)], proc[p].file.home)
     IN  IF m \in up
           THEN proc' = [proc EXCEPT ![p].step = "check", ![p].via = @ \cup {At(p)}, ![p].at = m,
                                     ![p].hops = IF @ < 2 THEN @ + 1 ELSE @]
           ELSE Answer(p, "failed")
  /\ UNCHANGED <<config, auth, store, health, now>>

FindLog(d, f) == \E i \in DOMAIN rows[d] : rows[d][i].file = f

\* GetFile: first the row, then the file.
FindRow(p) ==
  /\ Step(p) = "route"
  /\ proc[p].file.home = Self(At(p))
  /\ IF FindLog(Db(At(p)), proc[p].file) THEN Goto(p, "get") ELSE Answer(p, "notFound")
  /\ UNCHANGED <<config, auth, store, health, now>>

GetLog(p) ==
  /\ Step(p) = "get"
  /\ Answer(p, IF proc[p].file \in disk[At(p)] THEN "served" ELSE "notFound")
  /\ UNCHANGED <<config, auth, store, health, now>>

-----------------------------------------------------------------------------
(* Logs come and go *)

\* Mutant: the position in the list as it was configured.
FileIdUnsorted(m, c) == [home |-> SelfUnsorted(m), body |-> c]

\* CreateFileId
FileId(m, c) == [home |-> Self(m), body |-> c]

\* An upload into a group adds a row, another one only if the file has none.
Upload(m, c, group) ==
  LET d == Db(m)  f == FileId(m, c) IN
    /\ m \in up /\ CanWork
    /\ uploads' = uploads + 1
    /\ disk' = [disk EXCEPT ![m] = @ \cup {f}]
    /\ IF group \/ ~FindLog(d, f)
         THEN /\ lastId' = [lastId EXCEPT ![d] = @ + 1]
              /\ rows' = [rows EXCEPT ![d] = Append(@, [id |-> lastId'[d], file |-> f, second |-> now])]
         ELSE UNCHANGED <<lastId, rows>>
    /\ UNCHANGED <<config, auth, removed, health, now, proc>>

\* A client or the cleaning task deletes a log where it is.  In a database for all
\* the task of every machine deletes the rows of any log, and only its own files.
DeleteLog(m, f) ==
  /\ m \in up /\ (f \in disk[m] \/ FindLog(Db(m), f))
  /\ disk' = [disk EXCEPT ![m] = @ \ {f}]
  /\ rows' = [rows EXCEPT ![Db(m)] = Only(@, {r \in Elements(@) : r.file # f})]
  /\ removed' = removed \cup {f}
  /\ UNCHANGED <<config, auth, lastId, uploads, health, now, proc>>

-----------------------------------------------------------------------------
(* Time and failures *)

Tick ==
  /\ now < MaxTime
  /\ now' = now + 1
  /\ UNCHANGED <<config, auth, store, health, proc>>

\* The requests that machine m takes part in.
Served(m) == {p \in Request : Step(p) \notin {"new", "done"} /\ m \in {At(p)} \cup proc[p].via}

\* Tables and files survive, the secret and the requests do not.
Crash(m) ==
  /\ m \in up /\ CanWork
  /\ crashes' = crashes + 1
  /\ up' = up \ {m}
  /\ secret' = [secret EXCEPT ![m] = NoSecret]
  /\ proc' = [p \in Request |-> IF p \in Served(m)
                                  THEN [proc[p] EXCEPT !.step = "done", !.answer = "failed"]
                                  ELSE proc[p]]
  /\ UNCHANGED <<config, fresh, tokens, raced, store, restarted, now>>

Restart(m) ==
  /\ m \notin up
  /\ up' = up \cup {m}
  /\ restarted' = restarted \cup {m}
  /\ UNCHANGED <<config, auth, store, crashes, now, proc>>

-----------------------------------------------------------------------------
\* The files that were uploaded, and that clients can know of.
Known == removed \cup UNION {disk[m] : m \in Machine}

Begin(p) ==
  \E m \in Machine :
    \/ BeginVerify(p, m)
    \/ \E t \in tokens, q \in Query : BeginList(p, m, t, q)
    \/ \E t \in tokens, f \in Known : BeginDownload(p, m, t, f)

Serve(p) ==
  \/ CheckSecret(p) \/ InitSecret(p) \/ Sign(p) \/ Parse(p) \/ ReadTorn(p)
  \/ \E id \in proc[p].rest : Call(p, id) \/ CallFails(p, id)
  \/ ListOver(p)
  \/ Proxy(p) \/ FindRow(p) \/ GetLog(p)

Next ==
  \/ \E p \in Request : Begin(p) \/ Serve(p)
  \/ \E m \in Machine :
       \/ \E c \in Content, group \in BOOLEAN : Upload(m, c, group)
       \/ \E f \in Known : DeleteLog(m, f)
       \/ Crash(m) \/ Restart(m)
  \/ Tick

Spec == Init /\ [][Next]_vars

-----------------------------------------------------------------------------
(* Properties *)

Steps == {"new", "check", "init", "sign", "parse", "call", "route", "get", "done"}

Answers == {"none", "token", "unauthorized", "listed", "served", "notFound", "failed"}

Token == [secret : Nat, by : Machine, expires : Nat]

File == [home : Nat, body : Content]

Row == [id : Nat, file : File, second : Nat]

Locals ==
  [step : Steps, kind : {"none", "verify", "list", "download"}, at : Machine,
   via : SUBSET Machine, token : Token \cup {NoToken}, file : File \cup {NoFile},
   query : [page : Nat \ {0}, size : Nat \ {0}], rest : SUBSET Nat, data : Seq(Row),
   answer : Answers, hops : 0 .. 2, before : SUBSET (Machine \X Row)]

\* Every variable keeps its type; a machine that signs or reads a token has a
\* secret.
TypeOK ==
  /\ list \in Configurations
  /\ jwtSecret \in BOOLEAN /\ shared \in BOOLEAN
  /\ up \subseteq Machine
  /\ secret \in [Machine -> Nat] /\ fresh \in Nat
  /\ tokens \subseteq Token
  /\ rows \in [Machine -> Seq(Row)] /\ lastId \in [Machine -> Nat]
  /\ disk \in [Machine -> SUBSET File]
  /\ now \in Nat
  /\ proc \in [Request -> Locals]
  /\ \A p \in Request : Step(p) \in {"sign", "parse"} => secret[At(p)] # NoSecret
  /\ uploads \in Nat /\ crashes \in Nat
  /\ raced \subseteq Machine /\ restarted \subseteq Machine /\ removed \subseteq File

\* With authConfig.jwtSecret, a token that any machine issued is good on every
\* machine until it expires, also after restarts, and although each process
\* loads the secret lazily, on its own and without a lock.  With a random
\* secret ("temporary random value", USAGE.md:126) it is good where it was
\* issued, unless that machine was restarted or two first requests met.
TokensHold ==
  \A p \in Request : proc[p].answer = "unauthorized" =>
    LET t == proc[p].token IN
      \/ now >= t.expires
      \/ ~jwtSecret /\ (t.by # At(p) \/ At(p) \in raced \cup restarted)

\* A download reaches the machine of its file at the first attempt, from
\* wherever it starts: the machines computed their ids one by one, each from
\* its own copy of the list, in its own order, with duplicates.
RoutesHome ==
  \A p \in Request :
    /\ proc[p].hops <= 1
    /\ proc[p].hops = 1 => proc[p].file.home = Self(At(p))

\* DEVELOPMENT.md:391, "Upload a log on A, then query and download it through
\* B": a log that was uploaded somewhere is found from everywhere, until it is
\* deleted, whether or not the machines share a database.
DownloadsFound ==
  \A p \in Request : proc[p].answer = "notFound" => proc[p].file \in removed

Listed(p) == proc[p].answer = "listed"

\* A row is shown once, however many machines read it from one database or
\* are called twice for being listed twice.
NoLogTwice ==
  \A p \in Request : Listed(p) =>
    \A i, j \in DOMAIN proc[p].data : i # j => proc[p].data[i] # proc[p].data[j]

\* The page of the query can hold every row that there ever was.
Fits(p) == proc[p].query.page = 1 /\ \A d \in Machine : lastId[d] <= proc[p].query.size

\* A list is all or nothing: it has a log of each second in which a log was
\* created that is still there, whatever machine holds it, although pages are
\* read at different times and machines crash; a part is never answered.
SecondsShown ==
  \A p \in Request : Listed(p) /\ Fits(p) =>
    \A row \in proc[p].before : \E i \in DOMAIN proc[p].data : proc[p].data[i].second = row[2].second

\* ARCHITECTURE.md:272, "Log lists are deduplicated by file ID": files that
\* differ are not taken for one.
FilesShown ==
  \A p \in Request : Listed(p) /\ Fits(p) =>
    \A row \in proc[p].before : \E i \in DOMAIN proc[p].data : proc[p].data[i].file = row[2].file
=============================================================================
