--------------------------- MODULE ClusterProofs ---------------------------
(***************************************************************************)
(* Theorems about Addresses, for lists of any length with any duplicates:  *)
(* an id leads to the machine that uses it, and machines whose lists are   *)
(* permutations of each other agree on the ids.  And theorems about        *)
(* Cluster, for any number of machines, whatever the lists of addresses,   *)
(* requests, uploads, deletions and crashes: every property that TLC       *)
(* checks.                                                                 *)
(*                                                                         *)
(* IInv relates every request on its way to the secret of the machine it   *)
(* is at, to the tokens, and to the files that were uploaded.  Typed adds  *)
(* the types.  Found relates the files to the tables, and ListsInv what a  *)
(* list has collected to the machines that are not asked yet.              *)
(***************************************************************************)
EXTENDS Cluster, ListsProofs, FiniteSetTheorems, TLAPS

(* Addresses *)

LEMMA PlacesFinite ==
  ASSUME NEW l \in Seq(Int), NEW a
  PROVE  /\ IsFiniteSet(UpTo(l, a)) /\ Cardinality(UpTo(l, a)) \in Nat
         /\ IsFiniteSet(Below(l, a)) /\ Cardinality(Below(l, a)) \in Nat
<1>1. DOMAIN l = 1 .. Len(l) /\ Len(l) \in Nat
  OBVIOUS
<1>2. IsFiniteSet(DOMAIN l)
  BY <1>1, FS_Interval
<1>3. UpTo(l, a) \in SUBSET DOMAIN l /\ Below(l, a) \in SUBSET DOMAIN l
  BY DEF UpTo, Below
<1> QED
  BY <1>2, <1>3, FS_Subset, FS_CardinalityType

\* A machine uses one of its own positions.
LEMMA SelfHolds ==
  ASSUME NEW l \in Seq(Int), NEW a \in Configured(l)
  PROVE  SelfId(l, a) \in Nat /\ Holds(l, SelfId(l, a), a)
<1>1. PICK i \in DOMAIN l : l[i] = a
  BY DEF Configured
<1>2. a \in Int
  BY <1>1
<1>3. i \in UpTo(l, a) /\ i \notin Below(l, a)
  BY <1>1, <1>2 DEF UpTo, Below
<1>4. Below(l, a) \in SUBSET UpTo(l, a)
  BY <1>2 DEF UpTo, Below
<1>5. Cardinality(Below(l, a)) < Cardinality(UpTo(l, a))
  <2>1. /\ Cardinality(Below(l, a)) <= Cardinality(UpTo(l, a))
        /\ Cardinality(UpTo(l, a)) = Cardinality(Below(l, a)) =>
             UpTo(l, a) = Below(l, a)
    BY <1>4, PlacesFinite, FS_Subset
  <2> QED
    BY <2>1, <1>3, PlacesFinite
<1> QED
  BY <1>5, PlacesFinite DEF SelfId, Holds

\* No position belongs to two addresses.
LEMMA HoldsOnce ==
  ASSUME NEW l \in Seq(Int), NEW id \in Int, NEW a, NEW b,
         Holds(l, id, a), Holds(l, id, b)
  PROVE  a = b
<1>1. a \in Int /\ b \in Int
  BY DEF Holds, Configured
<1>2. ASSUME NEW x \in Int, NEW y \in Int, x < y, Holds(l, id, x), Holds(l, id, y)
      PROVE FALSE
  <2>1. UpTo(l, x) \in SUBSET Below(l, y)
    BY <1>2 DEF UpTo, Below
  <2>2. Cardinality(UpTo(l, x)) <= Cardinality(Below(l, y))
    BY <2>1, PlacesFinite, FS_Subset
  <2> QED
    BY <1>2, <2>2, PlacesFinite DEF Holds
<1> QED
  BY <1>1, <1>2

\* The id that a machine puts into its file ids and room addresses leads to
\* this machine, also when it is listed twice.
THEOREM SelfIdHome ==
  ASSUME NEW l \in Seq(Int), NEW a \in Configured(l)
  PROVE  MachineAt(l, SelfId(l, a)) = a
<1>1. SelfId(l, a) \in Int /\ Holds(l, SelfId(l, a), a)
  BY SelfHolds
<1>2. Holds(l, SelfId(l, a), MachineAt(l, SelfId(l, a)))
  BY <1>1 DEF MachineAt, Holds
<1> QED
  BY <1>1, <1>2, HoldsOnce

-----------------------------------------------------------------------------
(* Lists in another order *)

\* A permutation takes the places with a property to those with it.
LEMMA PermutedPlaces ==
  ASSUME NEW s \in Seq(Int), NEW t \in Seq(Int), SameList(s, t), NEW a
  PROVE  /\ Cardinality(UpTo(s, a)) = Cardinality(UpTo(t, a))
         /\ Cardinality(Below(s, a)) = Cardinality(Below(t, a))
<1>1. PICK f \in [DOMAIN s -> DOMAIN t] :
        /\ \A i, j \in DOMAIN s : f[i] = f[j] => i = j
        /\ \A k \in DOMAIN t : \E i \in DOMAIN s : f[i] = k
        /\ \A i \in DOMAIN s : t[f[i]] = s[i]
  BY DEF SameList
<1>2. ASSUME NEW S \in SUBSET DOMAIN s, NEW T \in SUBSET DOMAIN t, IsFiniteSet(S),
             \A i \in DOMAIN s : i \in S <=> f[i] \in T
      PROVE  Cardinality(S) = Cardinality(T)
  <2> DEFINE g == [i \in S |-> f[i]]
  <2>1. g \in [S -> T]
    BY <1>2
  <2>2. g \in Injection(S, T)
    BY <2>1, <1>1 DEF Injection, IsInjective
  <2>3. g \in Surjection(S, T)
    <3>1. ASSUME NEW k \in T PROVE \E i \in S : g[i] = k
      BY <1>1, <1>2
    <3> QED
      BY <2>1, <3>1 DEF Surjection
  <2>4. ExistsBijection(S, T)
    BY <2>2, <2>3 DEF ExistsBijection, Bijection
  <2> QED
    BY <2>4, <1>2, FS_Bijection
<1>3. \A i \in DOMAIN s : i \in UpTo(s, a) <=> f[i] \in UpTo(t, a)
  BY <1>1 DEF UpTo
<1>4. \A i \in DOMAIN s : i \in Below(s, a) <=> f[i] \in Below(t, a)
  BY <1>1 DEF Below
<1>5. /\ UpTo(s, a) \in SUBSET DOMAIN s /\ UpTo(t, a) \in SUBSET DOMAIN t
      /\ Below(s, a) \in SUBSET DOMAIN s /\ Below(t, a) \in SUBSET DOMAIN t
  BY DEF UpTo, Below
<1>6. Cardinality(UpTo(s, a)) = Cardinality(UpTo(t, a))
  BY <1>2, <1>3, <1>5, PlacesFinite
<1>7. Cardinality(Below(s, a)) = Cardinality(Below(t, a))
  BY <1>2, <1>4, <1>5, PlacesFinite
<1> QED
  BY <1>6, <1>7

LEMMA PermutedConfigured ==
  ASSUME NEW s \in Seq(Int), NEW t \in Seq(Int), SameList(s, t)
  PROVE  Configured(s) = Configured(t)
BY DEF SameList, Configured

\* Machines with the same addresses in any order agree which machine an id
\* means and which id a machine has.
THEOREM MachinesAgree ==
  ASSUME NEW s \in Seq(Int), NEW t \in Seq(Int), SameList(s, t)
  PROVE  /\ \A a : SelfId(s, a) = SelfId(t, a)
         /\ \A id : MachineAt(s, id) = MachineAt(t, id)
<1>1. \A a : SelfId(s, a) = SelfId(t, a)
  BY PermutedPlaces DEF SelfId
<1>2. ASSUME NEW id PROVE MachineAt(s, id) = MachineAt(t, id)
  <2>1. \A a : Holds(s, id, a) <=> Holds(t, id, a)
    BY PermutedPlaces, PermutedConfigured DEF Holds
  <2> QED
    BY <2>1, PermutedConfigured DEF MachineAt
<1> QED
  BY <1>1, <1>2

-----------------------------------------------------------------------------
(* Pages *)

\* A page has rows of the table, the first one of a table that fits all of them.
LEMMA PageRows ==
  ASSUME NEW R, NEW table \in Seq(R), NEW page \in Nat \ {0}, NEW size \in Nat \ {0}
  PROVE  /\ FindLogs(table, page, size) \in Seq(R)
         /\ page = 1 /\ Len(table) <= size =>
              Elements(table) \subseteq Elements(FindLogs(table, page, size))
<1> DEFINE offset == (page - 1) * size
           last == IF Len(table) < offset + size THEN Len(table) ELSE offset + size
           t == Reverse(table)
           n == Len(table)
           found == FindLogs(table, page, size)
<1>1. n \in Nat /\ \A i \in 1 .. n : table[i] \in R /\ n - i + 1 \in 1 .. n
  OBVIOUS
<1>2. t = [i \in 1 .. n |-> table[n - i + 1]]
  BY DEF Reverse
<1>3. offset \in Nat /\ (page = 1 => offset = 0)
  <2>1. \A a, b \in Nat : a * b \in Nat
    OBVIOUS
  <2>2. page - 1 \in Nat /\ \A b \in Nat : 0 * b = 0
    OBVIOUS
  <2> QED
    BY <2>1, <2>2
<1>4. found = SubSeq(t, offset + 1, last)
  BY DEF FindLogs
<1> HIDE DEF t, offset
<1>5. last \in Int /\ last <= n
  BY <1>1, <1>3
<1> HIDE DEF last
<1>6. found = [i \in 1 .. last - offset |-> t[i + offset]]
  BY <1>3, <1>4, <1>5
<1>7. \A i \in 1 .. last - offset : i + offset \in 1 .. n
  BY <1>3, <1>5, <1>1
<1> HIDE DEF found
<1>8. found \in Seq(R)
  <2>1. \A i \in 1 .. last - offset : found[i] \in R
    BY <1>1, <1>2, <1>6, <1>7
  <2>2. CASE last - offset \in Nat
    <3>1. found \in [1 .. last - offset -> R]
      BY <1>6, <2>1
    <3> QED
      BY <2>2, <3>1
  <2>3. CASE last - offset \notin Nat
    <3>1. 1 .. last - offset = 1 .. 0
      BY <1>3, <1>5, <2>3
    <3>2. found \in [1 .. 0 -> R]
      BY <1>6, <2>1, <3>1
    <3> QED
      BY <3>2
  <2> QED
    BY <2>2, <2>3
<1>9. ASSUME page = 1, Len(table) <= size, NEW x \in Elements(table)
      PROVE  x \in Elements(found)
  <2>1. offset = 0 /\ last = n
    BY <1>1, <1>3, <1>9 DEF last
  <2>2. PICK i \in 1 .. n : table[i] = x
    BY <1>1, <1>9 DEF Elements
  <2>3. DOMAIN found = 1 .. n /\ \A j \in 1 .. n : found[j] = t[j]
    BY <1>1, <1>6, <2>1
  <2>4. n - i + 1 \in 1 .. n /\ n - (n - i + 1) + 1 = i
    BY <1>1
  <2>5. t[n - i + 1] = table[i]
    BY <1>2, <2>4
  <2> QED
    BY <2>2, <2>3, <2>4, <2>5 DEF Elements
<1> QED
  BY <1>8, <1>9 DEF found

LEMMA SentRows ==
  ASSUME NEW page \in Seq(Row)
  PROVE  /\ Sent(page) \in Seq(Row) /\ DOMAIN Sent(page) = DOMAIN page
         /\ \A i \in DOMAIN page : Sent(page)[i].second = page[i].second
<1>1. DOMAIN page = 1 .. Len(page) /\ Len(page) \in Nat
  OBVIOUS
<1>2. \A i \in DOMAIN page : /\ [page[i] EXCEPT !.id = 0] \in Row
                             /\ [page[i] EXCEPT !.id = 0].second = page[i].second
  <2>1. \A r \in Row : [r EXCEPT !.id = 0] \in Row /\ [r EXCEPT !.id = 0].second = r.second
    BY DEF Row
  <2>2. \A i \in DOMAIN page : page[i] \in Row
    BY <1>1
  <2> QED
    BY <2>1, <2>2
<1>3. DOMAIN Sent(page) = DOMAIN page /\ \A i \in DOMAIN page : Sent(page)[i] = [page[i] EXCEPT !.id = 0]
  BY DEF Sent
<1>4. Sent(page) \in [1 .. Len(page) -> Row]
  <2>1. \A i \in 1 .. Len(page) : [page[i] EXCEPT !.id = 0] \in Row
    BY <1>1, <1>2
  <2> QED
    BY <1>1, <2>1 DEF Sent
<1>5. Sent(page) \in Seq(Row)
  BY <1>1, <1>4
<1>6. \A i \in DOMAIN page : Sent(page)[i].second = page[i].second
  BY Zenon, <1>2, <1>3
<1> QED
  BY <1>3, <1>5, <1>6

\* Whatever order of the rows sorting results in, it has the same rows.
LEMMA DescRows ==
  ASSUME NEW R, NEW data \in Seq(R), NEW s \in Desc(data)
  PROVE  s \in Seq(R) /\ Elements(s) = Elements(data)
<1>1. s \in [DOMAIN data -> Elements(data)] /\ DOMAIN data = 1 .. Len(data) /\ Len(data) \in Nat
  <2>1. s \in [DOMAIN data -> Elements(data)]
    BY DEF Desc
  <2> QED
    BY <2>1
<1>2. Elements(data) \subseteq R /\ Elements(s) \subseteq Elements(data)
  BY <1>1 DEF Elements
<1>3. ASSUME NEW row \in Elements(data) PROVE row \in Elements(s)
  <2> DEFINE S == {i \in DOMAIN s : s[i] = row}
             D == {i \in DOMAIN data : data[i] = row}
  <2>1. Cardinality(S) = Cardinality(D)
    BY DEF Desc
  <2>2. D # {}
    BY <1>3 DEF Elements
  <2>3. IsFiniteSet(S) /\ IsFiniteSet(D)
    <3>1. IsFiniteSet(DOMAIN data) /\ S \in SUBSET DOMAIN data /\ D \in SUBSET DOMAIN data
      BY <1>1, FS_Interval
    <3> QED
      BY <3>1, FS_Subset
  <2> HIDE DEF S, D
  <2>4. S # {}
    BY <2>1, <2>2, <2>3, FS_EmptySet
  <2> QED
    BY <2>4 DEF S, Elements
<1>4. s \in Seq(R)
  <2>1. s \in [1 .. Len(data) -> R]
    BY <1>1, <1>2
  <2> QED
    BY <1>1, <2>1
<1> QED
  BY <1>2, <1>3, <1>4

\* Every key is kept, by one row.
LEMMA UniqRows ==
  ASSUME NEW R, NEW data \in Seq(R)
  PROVE  /\ UniqData(data) \in Seq(R)
         /\ \A i, j \in DOMAIN UniqData(data) :
              UniqKey(UniqData(data)[i]) = UniqKey(UniqData(data)[j]) => i = j
         /\ \A i \in DOMAIN data :
              \E k \in DOMAIN UniqData(data) : UniqKey(UniqData(data)[k]) = UniqKey(data[i])
<1> DEFINE firsts == {i \in DOMAIN data : \A j \in 1 .. (i - 1) : UniqKey(data[j]) # UniqKey(data[i])}
           places == [i \in DOMAIN data |-> i]
           keep == Only(places, firsts)
           uniq == UniqData(data)
<1>1. DOMAIN data = 1 .. Len(data) /\ Len(data) \in Nat /\ \A i \in DOMAIN data : data[i] \in R
  OBVIOUS
<1>2. /\ places \in Seq(Nat) /\ DOMAIN places = DOMAIN data /\ Once(places)
      /\ Elements(places) = DOMAIN data
  <2>1. places \in [1 .. Len(data) -> Nat]
    BY <1>1
  <2> QED
    BY <1>1, <2>1 DEF Once, Elements
<1>3. uniq = [k \in DOMAIN keep |-> data[keep[k]]]
  BY DEF UniqData
<1>4. firsts \subseteq DOMAIN data
  OBVIOUS
<1> HIDE DEF places, uniq
<1>5. keep \in Seq(Nat) /\ Once(keep) /\ Elements(keep) = firsts
  <2> HIDE DEF firsts
  <2>1. keep \in Seq(Nat) /\ Once(keep) /\ Elements(keep) = Elements(places) \cap firsts
    BY <1>2, OnlyList, OnlyOnce, OnlyElements
  <2> QED
    BY <1>2, <1>4, <2>1
<1>6. \A i, j \in firsts : UniqKey(data[i]) = UniqKey(data[j]) => i = j
  <2> SUFFICES ASSUME NEW i \in firsts, NEW j \in firsts, i < j PROVE UniqKey(data[i]) # UniqKey(data[j])
    BY <1>1
  <2>1. i \in 1 .. (j - 1)
    BY <1>1
  <2> QED
    BY <2>1
<1>7. ASSUME NEW i \in DOMAIN data
      PROVE  \E f \in firsts : UniqKey(data[f]) = UniqKey(data[i])
  <2> DEFINE S == {j \in DOMAIN data : UniqKey(data[j]) = UniqKey(data[i])}
  <2>1. S \in SUBSET Nat /\ S # {}
    BY <1>1
  <2>2. PICK f \in S : \A j \in S : f <= j
    <3> HIDE DEF S
    <3> QED
      BY <2>1, First
  <2>3. ASSUME NEW j \in 1 .. (f - 1) PROVE UniqKey(data[j]) # UniqKey(data[f])
    <3>1. j \in DOMAIN data /\ ~(f <= j)
      BY <1>1, <2>3
    <3>2. j \notin S
      BY <2>2, <3>1
    <3> QED
      BY <3>1, <3>2
  <2> QED
    BY <2>3
<1> HIDE DEF keep
<1>8. \A k \in DOMAIN keep : keep[k] \in firsts /\ keep[k] \in DOMAIN data
  BY <1>4, <1>5 DEF Elements
<1>9. uniq \in Seq(R)
  <2>1. DOMAIN keep = 1 .. Len(keep) /\ Len(keep) \in Nat
    BY <1>5
  <2>2. uniq \in [1 .. Len(keep) -> R]
    BY <1>1, <1>3, <1>8, <2>1
  <2> QED
    BY <2>1, <2>2
<1>10. DOMAIN uniq = DOMAIN keep /\ \A k \in DOMAIN keep : uniq[k] = data[keep[k]]
  BY <1>3
<1>11. ASSUME NEW i \in DOMAIN uniq, NEW j \in DOMAIN uniq, UniqKey(uniq[i]) = UniqKey(uniq[j])
       PROVE  i = j
  <2>1. keep[i] = keep[j]
    BY <1>6, <1>8, <1>10, <1>11
  <2> QED
    BY <1>5, <1>10, <2>1 DEF Once
<1>12. ASSUME NEW i \in DOMAIN data PROVE \E k \in DOMAIN uniq : UniqKey(uniq[k]) = UniqKey(data[i])
  <2>1. PICK f \in firsts : UniqKey(data[f]) = UniqKey(data[i])
    BY <1>7
  <2>2. PICK k \in DOMAIN keep : keep[k] = f
    BY <1>5 DEF Elements
  <2> QED
    BY <1>10, <2>1, <2>2
<1> QED
  BY <1>9, <1>11, <1>12 DEF uniq

-----------------------------------------------------------------------------
(* Cluster *)

Fields == {"step", "kind", "at", "via", "token", "file", "query", "rest", "data", "answer",
           "hops", "before"}

\* What the proofs need of the types.
ShapeOK ==
  /\ list \in Configurations /\ jwtSecret \in BOOLEAN
  /\ up \subseteq Machine
  /\ secret \in [Machine -> Nat] /\ fresh \in Nat /\ fresh > ConfiguredSecret
  /\ disk = [m \in Machine |-> disk[m]]
  /\ now \in Nat
  /\ proc = [p \in Request |-> proc[p]]
  /\ \A p \in Request : proc[p] = [f \in Fields |-> proc[p][f]] /\ At(p) \in Machine

\* A token has the configured secret, or the one that its machine has as long
\* as nothing replaces it.
TokenOK(t) ==
  /\ t # NoToken /\ t.by \in Machine /\ t.secret # NoSecret /\ t.expires \in Nat
  /\ jwtSecret => t.secret = ConfiguredSecret
  /\ ~jwtSecret => \/ t.secret = secret[t.by]
                   \/ t.by \in raced \cup restarted \cup (Machine \ up)

SecretOK ==
  jwtSecret => \A m \in Machine : secret[m] \in {NoSecret, ConfiguredSecret}

\* A machine gave the file its id.
FileOK(f) == \E m \in Machine : f.home = Self(m)

\* Requests on their way are at machines that run; what they were made with
\* exists; those that read the secret find one.
RequestOK(p) ==
  /\ Step(p) \notin {"new", "done"} =>
       /\ At(p) \in up
       /\ proc[p].kind # "verify" => proc[p].token \in tokens
       /\ proc[p].kind = "download" => FileOK(proc[p].file)
       /\ proc[p].kind \in {"verify", "list", "download"}
       /\ proc[p].answer = "none"
  /\ Step(p) \in {"sign", "parse"} => secret[At(p)] # NoSecret
  /\ Step(p) \in {"parse", "call", "route", "get"} => proc[p].kind # "verify"
  /\ Step(p) \in {"route", "get"} => proc[p].kind = "download"
  /\ Step(p) = "new" => proc[p].answer = "none" /\ proc[p].hops = 0

\* Requests that were refused, and requests that were proxied.
Refused(p) ==
  proc[p].answer = "unauthorized" =>
    LET t == proc[p].token IN
      /\ t \in tokens
      /\ \/ now >= t.expires
         \/ ~jwtSecret /\ (t.by # At(p) \/ At(p) \in raced \cup restarted)

Routed(p) ==
  /\ proc[p].hops \in {0, 1}
  /\ proc[p].hops = 1 => proc[p].file.home = Self(At(p))

IInv ==
  /\ ShapeOK /\ SecretOK
  /\ \A t \in tokens : TokenOK(t)
  /\ \A f \in Known : FileOK(f)
  /\ \A p \in Request : RequestOK(p) /\ Refused(p) /\ Routed(p)

-----------------------------------------------------------------------------
(* Ids *)

\* Wherever a file id is read it leads to the machine that gave it.
LEMMA HomeFound ==
  ASSUME list \in Configurations, NEW m \in Machine, NEW n \in Machine
  PROVE  MachineAt(list[n], Self(m)) = m /\ Self(m) = SelfId(list[n], m)
<1>1. /\ list[m] \in Seq(Int) /\ list[n] \in Seq(Int) /\ SameList(list[m], list[n])
      /\ m \in Configured(list[m])
  BY ConfigurationAssumption
<1> QED
  BY <1>1, SelfIdHome, MachinesAgree DEF Self

LEMMA InitIInv == Init => IInv
<1> SUFFICES ASSUME Init PROVE IInv
  OBVIOUS
<1>1. (CHOOSE m \in Machine : TRUE) \in Machine
  BY MachineAssumption
<1>2. \A p \in Request :
        Step(p) = "new" /\ proc[p].answer = "none" /\ proc[p].hops = 0
  BY DEF Init, NewRequest, Step
<1>3. ShapeOK
  <2>1. \A p \in Request : proc[p] = [f \in Fields |-> proc[p][f]] /\ At(p) \in Machine
    BY <1>1 DEF Init, NewRequest, Fields, At
  <2> QED
    BY <2>1 DEF Init, ShapeOK, NoSecret, ConfiguredSecret
<1>4. SecretOK /\ tokens = {} /\ Known = {}
  BY DEF Init, SecretOK, NoSecret, Known
<1>5. \A p \in Request : RequestOK(p) /\ Refused(p) /\ Routed(p)
  BY <1>2 DEF RequestOK, Refused, Routed
<1> QED
  BY <1>3, <1>4, <1>5 DEF IInv

-----------------------------------------------------------------------------
(* Steps of one request *)

\* A step that changes one request only, keeps the rest of IInv if the request
\* is right afterwards.
LEMMA LocalStep ==
  ASSUME IInv, NEW p \in Request, NEW r, proc' = [proc EXCEPT ![p] = r],
         r = [f \in Fields |-> r[f]], r.at \in Machine,
         UNCHANGED <<config, auth, store, health, now>>,
         RequestOK(p)', Refused(p)', Routed(p)'
  PROVE  IInv'
<1>1. proc'[p] = r /\ \A q \in Request \ {p} : proc'[q] = proc[q]
  BY DEF IInv, ShapeOK
<1>2. ShapeOK'
  BY <1>1 DEF IInv, ShapeOK, config, auth, store, health, At
<1>3. SecretOK' /\ \A t \in tokens' : TokenOK(t)'
  BY DEF IInv, SecretOK, TokenOK, config, auth, store, health
<1>4. \A f \in Known' : FileOK(f)'
  BY DEF IInv, Known, FileOK, Self, config, store
<1>5. \A q \in Request \ {p} : RequestOK(q)' /\ Refused(q)' /\ Routed(q)'
  BY <1>1 DEF IInv, RequestOK, Refused, Routed, Step, At, FileOK, Self, config, auth, store, health
<1> QED
  BY <1>2, <1>3, <1>4, <1>5 DEF IInv

\* The request that Answer leaves.
Over(p, answer) ==
  IF answer \in {"unauthorized", "notFound"}
    THEN [NewRequest EXCEPT !.step = "done", !.answer = answer,
                            !.at = At(p), !.token = proc[p].token, !.file = proc[p].file]
    ELSE [NewRequest EXCEPT !.step = "done", !.answer = answer]

LEMMA OverShape ==
  ASSUME ShapeOK, NEW p \in Request, NEW answer
  PROVE  /\ Over(p, answer) = [f \in Fields |-> Over(p, answer)[f]]
         /\ Over(p, answer).at \in Machine
         /\ Over(p, answer).step = "done" /\ Over(p, answer).answer = answer
         /\ Over(p, answer).hops = 0
         /\ answer = "unauthorized" =>
              Over(p, answer).at = At(p) /\ Over(p, answer).token = proc[p].token
<1>1. (CHOOSE m \in Machine : TRUE) \in Machine /\ At(p) \in Machine
  BY MachineAssumption DEF ShapeOK
<1>2. CASE answer \in {"unauthorized", "notFound"}
  BY ZenonT(40), <1>1, <1>2 DEF Over, NewRequest, Fields
<1>3. CASE answer \notin {"unauthorized", "notFound"}
  BY <1>1, <1>3 DEF Over, NewRequest, Fields
<1> QED
  BY <1>2, <1>3

LEMMA AnswerStep ==
  ASSUME IInv, NEW p \in Request, NEW answer, Answer(p, answer),
         UNCHANGED <<config, auth, store, health, now>>,
         answer = "unauthorized" =>
           /\ proc[p].token \in tokens
           /\ \/ now >= proc[p].token.expires
              \/ ~jwtSecret /\ (proc[p].token.by # At(p) \/ At(p) \in raced \cup restarted)
  PROVE  IInv'
<1>1. proc' = [proc EXCEPT ![p] = Over(p, answer)]
  BY DEF Answer, Over
<1>2. proc'[p] = Over(p, answer)
  BY <1>1 DEF IInv, ShapeOK
<1>3. RequestOK(p)'
  BY <1>2, OverShape DEF IInv, RequestOK, Step
<1>4. Refused(p)'
  BY <1>2, OverShape DEF IInv, Refused, At, config, auth, health
<1>5. Routed(p)'
  BY <1>2, OverShape DEF IInv, Routed
<1> QED
  BY <1>1, <1>3, <1>4, <1>5, OverShape, LocalStep DEF IInv

LEMMA BeginIInv == ASSUME IInv, NEW p \in Request, Begin(p) PROVE IInv'
<1>0. Step(p) = "new" => proc[p].answer = "none" /\ proc[p].hops = 0
  BY DEF IInv, RequestOK
<1>1. ASSUME NEW m \in Machine, BeginVerify(p, m) PROVE IInv'
  <2> DEFINE r == [proc[p] EXCEPT !.step = "check", !.kind = "verify", !.at = m]
  <2>1. /\ r = [f \in Fields |-> r[f]] /\ r.at = m /\ r.step = "check" /\ r.kind = "verify"
        /\ r.answer = "none" /\ r.hops = 0
    BY ZenonT(40), <1>0, <1>1 DEF BeginVerify, IInv, ShapeOK, Fields
  <2>2. proc' = [proc EXCEPT ![p] = r]
    BY <1>1 DEF BeginVerify
  <2>3. proc'[p] = r
    BY <2>2 DEF IInv, ShapeOK
  <2> HIDE DEF r
  <2>4. RequestOK(p)' /\ Refused(p)' /\ Routed(p)'
    BY <2>1, <2>3, <1>1 DEF RequestOK, Refused, Routed, Step, At, BeginVerify, health
  <2> QED
    BY <2>1, <2>2, <2>4, <1>1, LocalStep DEF BeginVerify
<1>2. ASSUME NEW m \in Machine, NEW t \in tokens, NEW q \in Query, BeginList(p, m, t, q)
      PROVE  IInv'
  <2> DEFINE v == [[proc[p] EXCEPT !.step = "check"] EXCEPT !.kind = "list"]
             w == [[v EXCEPT !.at = m] EXCEPT !.token = t]
             r == [[w EXCEPT !.query = q] EXCEPT !.before = AllRows]
  <2>1. /\ r = [f \in Fields |-> r[f]] /\ r.at = m /\ r.step = "check" /\ r.kind = "list"
        /\ r.answer = "none" /\ r.hops = 0 /\ r.token = t
    <3>1. proc[p] = [f \in Fields |-> proc[p][f]]
      BY DEF IInv, ShapeOK
    <3>2. /\ v = [f \in Fields |-> v[f]] /\ v.step = "check" /\ v.kind = "list"
          /\ v.answer = "none" /\ v.hops = 0
      BY <3>1, <1>0, <1>2 DEF Fields, BeginList
    <3> HIDE DEF v
    <3>3. /\ w = [f \in Fields |-> w[f]] /\ w.step = "check" /\ w.kind = "list"
          /\ w.answer = "none" /\ w.hops = 0 /\ w.at = m /\ w.token = t
      BY <3>2 DEF Fields
    <3> HIDE DEF w
    <3> QED
      BY <3>3 DEF Fields
  <2>2. proc' = [proc EXCEPT ![p] = r]
    BY <1>2 DEF BeginList
  <2>3. proc'[p] = r
    BY <2>2 DEF IInv, ShapeOK
  <2> HIDE DEF r, v, w
  <2>4. RequestOK(p)' /\ Refused(p)' /\ Routed(p)'
    BY <2>1, <2>3, <1>2 DEF RequestOK, Refused, Routed, Step, At, BeginList, auth, health
  <2> QED
    BY <2>1, <2>2, <2>4, <1>2, LocalStep DEF BeginList
<1>3. ASSUME NEW m \in Machine, NEW t \in tokens, NEW g \in Known, BeginDownload(p, m, t, g)
      PROVE  IInv'
  <2> DEFINE v == [[proc[p] EXCEPT !.step = "check"] EXCEPT !.kind = "download"]
             r == [[[v EXCEPT !.at = m] EXCEPT !.token = t] EXCEPT !.file = g]
  <2>1. /\ r = [f \in Fields |-> r[f]] /\ r.at = m /\ r.step = "check" /\ r.kind = "download"
        /\ r.answer = "none" /\ r.hops = 0 /\ r.token = t /\ r.file = g
    <3>1. proc[p] = [f \in Fields |-> proc[p][f]]
      BY DEF IInv, ShapeOK
    <3>2. /\ v = [f \in Fields |-> v[f]] /\ v.step = "check" /\ v.kind = "download"
          /\ v.answer = "none" /\ v.hops = 0
      BY <3>1, <1>0, <1>3 DEF Fields, BeginDownload
    <3> HIDE DEF v
    <3> QED
      BY <3>2 DEF Fields
  <2>2. proc' = [proc EXCEPT ![p] = r]
    BY <1>3 DEF BeginDownload
  <2>3. proc'[p] = r
    BY <2>2 DEF IInv, ShapeOK
  <2> HIDE DEF r, v
  <2>4. FileOK(g) /\ list' = list
    BY <1>3 DEF IInv, BeginDownload, config
  <2>5. RequestOK(p)' /\ Refused(p)' /\ Routed(p)'
    BY <2>1, <2>3, <2>4, <1>3
       DEF RequestOK, Refused, Routed, Step, At, BeginDownload, FileOK, Self, auth, health
  <2> QED
    BY <2>1, <2>2, <2>5, <1>3, LocalStep DEF BeginDownload
<1> QED
  BY <1>1, <1>2, <1>3 DEF Begin

\* A step that only moves a request on in its program.
LEMMA GotoStep ==
  ASSUME IInv, NEW p \in Request, NEW step, Goto(p, step),
         UNCHANGED <<config, auth, store, health, now>>,
         Step(p) \notin {"new", "done"}, step \notin {"new", "done"},
         step \in {"sign", "parse"} => secret[At(p)] # NoSecret,
         step \in {"parse", "call", "route", "get"} => proc[p].kind # "verify",
         step \in {"route", "get"} => proc[p].kind = "download"
  PROVE  IInv'
<1> DEFINE r == [proc[p] EXCEPT !.step = step]
<1>1. /\ r = [f \in Fields |-> r[f]] /\ r.at = proc[p].at /\ r.step = step
      /\ r.kind = proc[p].kind /\ r.answer = proc[p].answer /\ r.hops = proc[p].hops
      /\ r.token = proc[p].token /\ r.file = proc[p].file
  BY DEF IInv, ShapeOK, Fields
<1>2. proc' = [proc EXCEPT ![p] = r]
  BY DEF Goto
<1>3. proc'[p] = r
  BY <1>2 DEF IInv, ShapeOK
<1> HIDE DEF r
<1>4. r.at \in Machine
  BY <1>1 DEF IInv, ShapeOK, At
<1>5. RequestOK(p)'
  BY <1>1, <1>3 DEF IInv, RequestOK, Step, At, FileOK, Self, config, auth, health
<1>6. Refused(p)'
  BY <1>1, <1>3 DEF IInv, RequestOK, Refused
<1>7. Routed(p)'
  BY <1>1, <1>3 DEF IInv, Routed, At, Self, config
<1> QED
  BY <1>1, <1>2, <1>4, <1>5, <1>6, <1>7, LocalStep

\* The same with the fields that no part of IInv reads.
LEMMA DataStep ==
  ASSUME IInv, NEW p \in Request, NEW r, proc' = [proc EXCEPT ![p] = r],
         r = [f \in Fields |-> r[f]], Step(p) = "call",
         UNCHANGED <<config, auth, store, health, now>>,
         r.at = proc[p].at, r.kind = proc[p].kind, r.token = proc[p].token,
         r.file = proc[p].file, r.hops = proc[p].hops,
         \/ r.step = "call" /\ r.answer = proc[p].answer
         \/ r.step = "done" /\ r.answer = "listed"
  PROVE  IInv'
<1>1. proc'[p] = r
  BY DEF IInv, ShapeOK
<1>2. r.at \in Machine
  BY DEF IInv, ShapeOK, At
<1>3. RequestOK(p)'
  BY <1>1 DEF IInv, RequestOK, Step, At, FileOK, Self, config, auth, health
<1>4. Refused(p)'
  BY <1>1 DEF IInv, RequestOK, Refused
<1>5. Routed(p)'
  BY <1>1 DEF IInv, Routed, At, Self, config
<1> QED
  BY <1>2, <1>3, <1>4, <1>5, LocalStep

LEMMA ListIInv ==
  ASSUME IInv, NEW p \in Request,
         \/ \E id \in proc[p].rest : Call(p, id) \/ CallFails(p, id)
         \/ ListOver(p)
  PROVE  IInv'
<1>1. proc[p] = [f \in Fields |-> proc[p][f]]
  BY DEF IInv, ShapeOK
<1>2. ASSUME NEW id, Call(p, id) PROVE IInv'
  <2> DEFINE m == MachineAt(list[At(p)], id)
             page == Sent(FindLogs(rows[Db(m)], proc[p].query.page, proc[p].query.size))
             r == [[proc[p] EXCEPT !.rest = proc[p].rest \ {id}] EXCEPT !.data = Merge(proc[p].data, page)]
  <2>1. proc' = [proc EXCEPT ![p] = r]
    BY <1>1, <1>2 DEF Call, Fields, IInv, ShapeOK
  <2> HIDE DEF page
  <2>2. /\ r = [f \in Fields |-> r[f]]
        /\ r.at = proc[p].at /\ r.kind = proc[p].kind /\ r.token = proc[p].token
        /\ r.file = proc[p].file /\ r.hops = proc[p].hops
        /\ r.step = proc[p].step /\ r.answer = proc[p].answer
    BY <1>1 DEF Fields
  <2> HIDE DEF r
  <2>3. Step(p) = "call" /\ UNCHANGED <<config, auth, store, health, now>>
    BY <1>2 DEF Call
  <2> QED
    BY <2>1, <2>2, <2>3, DataStep DEF Step
<1>3. ASSUME NEW id, CallFails(p, id) PROVE IInv'
  BY <1>3, AnswerStep DEF CallFails
<1>4. ASSUME ListOver(p) PROVE IInv'
  <2>1. PICK sorted \in Desc(proc[p].data) :
          proc' = [proc EXCEPT ![p].step = "done", ![p].answer = "listed",
                               ![p].data = UniqData(sorted),
                               ![p].before = @ \cap AllRows]
    BY <1>4 DEF ListOver
  <2> DEFINE d == UniqData(sorted)
             b == proc[p].before \cap AllRows
             v == [[proc[p] EXCEPT !.step = "done"] EXCEPT !.answer = "listed"]
             r == [[v EXCEPT !.data = d] EXCEPT !.before = b]
  <2> HIDE DEF d
  <2>2. proc' = [proc EXCEPT ![p] = r]
    BY <1>1, <2>1 DEF Fields, IInv, ShapeOK, d
  <2> HIDE DEF b
  <2>3. /\ r = [f \in Fields |-> r[f]]
        /\ r.at = proc[p].at /\ r.kind = proc[p].kind /\ r.token = proc[p].token
        /\ r.file = proc[p].file /\ r.hops = proc[p].hops
        /\ r.step = "done" /\ r.answer = "listed"
    <3>1. /\ v = [f \in Fields |-> v[f]]
          /\ v.at = proc[p].at /\ v.kind = proc[p].kind /\ v.token = proc[p].token
          /\ v.file = proc[p].file /\ v.hops = proc[p].hops
          /\ v.step = "done" /\ v.answer = "listed"
      BY <1>1 DEF Fields
    <3> HIDE DEF v
    <3> QED
      BY <3>1 DEF Fields
  <2> HIDE DEF r
  <2>4. Step(p) = "call" /\ UNCHANGED <<config, auth, store, health, now>>
    BY <1>4 DEF ListOver
  <2> QED
    BY <2>2, <2>3, <2>4, DataStep
<1> QED
  BY <1>2, <1>3, <1>4

\* A refused request has a token that is over, or that the machine it is at
\* did not sign with the secret it has.
LEMMA ParseIInv == ASSUME IInv, NEW p \in Request, Parse(p) PROVE IInv'
<1> DEFINE t == proc[p].token
<1>1. /\ Step(p) = "parse" /\ UNCHANGED <<config, auth, store, health, now>>
      /\ At(p) \in up /\ t \in tokens /\ TokenOK(t)
      /\ proc[p].kind \in {"list", "download"} /\ secret[At(p)] # NoSecret
  BY DEF Parse, IInv, RequestOK
<1>2. CASE ~Valid(t, At(p))
  <2>1. t # NoToken /\ t.expires \in Nat /\ now \in Nat
    BY <1>1 DEF TokenOK, IInv, ShapeOK
  <2>2. t.secret # secret[At(p)] \/ now >= t.expires
    BY <1>2, <2>1 DEF Valid
  <2>3. ASSUME t.secret # secret[At(p)]
        PROVE  ~jwtSecret /\ (t.by # At(p) \/ At(p) \in raced \cup restarted)
    <3>1. jwtSecret => secret[At(p)] = ConfiguredSecret
      BY <1>1 DEF IInv, SecretOK, ShapeOK
    <3>2. jwtSecret \in BOOLEAN
      BY DEF IInv, ShapeOK
    <3> QED
      BY <1>1, <2>3, <3>1, <3>2 DEF TokenOK
  <2>4. Answer(p, "unauthorized")
    BY <1>2 DEF Parse
  <2> QED
    BY <1>1, <2>2, <2>3, <2>4, AnswerStep
<1>3. CASE Valid(t, At(p)) /\ proc[p].kind = "list"
  <2> DEFINE ids == MachineIds(list[At(p)])
             r == [[proc[p] EXCEPT !.step = "call"] EXCEPT !.rest = ids]
  <2>1. proc[p] = [f \in Fields |-> proc[p][f]] /\ proc = [q \in Request |-> proc[q]]
    BY DEF IInv, ShapeOK
  <2>2. proc' = [proc EXCEPT ![p].step = "call", ![p].rest = ids]
    BY <1>3 DEF Parse
  <2> HIDE DEF ids
  <2>3. proc' = [proc EXCEPT ![p] = r]
    BY <2>1, <2>2 DEF Fields
  <2>4. /\ r = [f \in Fields |-> r[f]]
        /\ r.at = proc[p].at /\ r.kind = proc[p].kind /\ r.token = proc[p].token
        /\ r.file = proc[p].file /\ r.hops = proc[p].hops
        /\ r.step = "call" /\ r.answer = proc[p].answer
    BY <2>1 DEF Fields
  <2>5. proc'[p] = r
    BY <2>1, <2>3
  <2> HIDE DEF r
  <2>6. r.at \in Machine
    BY <2>4 DEF IInv, ShapeOK, At
  <2>7. RequestOK(p)'
    BY <1>1, <1>3, <2>4, <2>5
       DEF IInv, RequestOK, Step, At, FileOK, Self, config, auth, health
  <2>8. Refused(p)'
    BY <1>1, <2>4, <2>5 DEF IInv, RequestOK, Refused
  <2>9. Routed(p)'
    BY <1>1, <2>4, <2>5 DEF IInv, Routed, At, Self, config
  <2> QED
    BY <1>1, <2>3, <2>4, <2>6, <2>7, <2>8, <2>9, LocalStep
<1>4. CASE Valid(t, At(p)) /\ proc[p].kind # "list"
  <2>1. Goto(p, "route")
    BY <1>4 DEF Parse
  <2> QED
    BY <1>1, <1>4, <2>1, GotoStep
<1> QED
  BY <1>2, <1>3, <1>4

\* A proxied request arrives at the machine that gave the file its id.
LEMMA ProxyIInv == ASSUME IInv, NEW p \in Request, Proxy(p) PROVE IInv'
<1> DEFINE m == MachineAt(list[At(p)], proc[p].file.home)
<1>1. /\ Step(p) = "route" /\ proc[p].file.home # Self(At(p))
      /\ UNCHANGED <<config, auth, store, health, now>>
  BY DEF Proxy
<1>2. /\ At(p) \in Machine /\ list \in Configurations
      /\ proc[p].kind = "download" /\ FileOK(proc[p].file) /\ proc[p].hops = 0
      /\ proc[p].token \in tokens /\ proc[p].answer = "none"
  BY <1>1 DEF IInv, ShapeOK, RequestOK, Routed
<1>3. m \in Machine /\ proc[p].file.home = Self(m)
  BY <1>2, HomeFound DEF FileOK
<1> HIDE DEF m
<1>4. CASE m \notin up
  <2>1. Answer(p, "failed")
    BY <1>4 DEF Proxy, m
  <2> QED
    BY <1>1, <2>1, AnswerStep
<1>5. CASE m \in up
  <2> DEFINE via == proc[p].via \cup {At(p)}
             v == [[proc[p] EXCEPT !.step = "check"] EXCEPT !.via = via]
             r == [[v EXCEPT !.at = m] EXCEPT !.hops = 1]
  <2>1. proc[p] = [f \in Fields |-> proc[p][f]] /\ proc = [q \in Request |-> proc[q]]
    BY DEF IInv, ShapeOK
  <2>2. proc' = [proc EXCEPT ![p].step = "check", ![p].via = @ \cup {At(p)}, ![p].at = m,
                             ![p].hops = IF @ < 2 THEN @ + 1 ELSE @]
    BY <1>5 DEF Proxy, m
  <2>3. proc' = [proc EXCEPT ![p] = r]
    <3> DEFINE f == [proc EXCEPT ![p].step = "check", ![p].via = @ \cup {At(p)}]
    <3>1. f = [proc EXCEPT ![p] = v]
      BY <2>1 DEF Fields
    <3>2. proc' = [f EXCEPT ![p].at = m, ![p].hops = IF @ < 2 THEN @ + 1 ELSE @]
      BY <2>2
    <3> HIDE DEF f, via
    <3>3. v = [x \in Fields |-> v[x]] /\ v.hops = 0
      BY <2>1, <1>2 DEF Fields
    <3> HIDE DEF v
    <3>4. f = [q \in Request |-> f[q]] /\ f[p] = v
      BY <2>1, <3>1
    <3>5. proc' = [f EXCEPT ![p] = r]
      <4> DEFINE w == [v EXCEPT !.at = m]
                 g == [f EXCEPT ![p].at = m]
      <4>1. g = [f EXCEPT ![p] = w] /\ g = [q \in Request |-> g[q]] /\ g[p] = w
        BY <3>4
      <4>2. w.hops = 0
        BY <3>3 DEF Fields
      <4>3. proc' = [g EXCEPT ![p].hops = IF @ < 2 THEN @ + 1 ELSE @]
        BY <3>2
      <4> HIDE DEF w, g
      <4>4. proc' = [g EXCEPT ![p] = [w EXCEPT !.hops = 1]]
        <5> DEFINE h == IF g[p].hops < 2 THEN g[p].hops + 1 ELSE g[p].hops
        <5>1. h = 1
          BY <4>1, <4>2
        <5>2. proc' = [g EXCEPT ![p].hops = h]
          BY <4>3
        <5> HIDE DEF h
        <5> QED
          BY <4>1, <5>1, <5>2
      <4>5. r = [w EXCEPT !.hops = 1]
        BY DEF w
      <4> HIDE DEF r
      <4> QED
        BY <4>1, <4>4, <4>5, <3>4
    <3> HIDE DEF r
    <3> QED
      BY <2>1, <3>1, <3>5
  <2> HIDE DEF via
  <2>4. /\ r = [f \in Fields |-> r[f]]
        /\ r.at = m /\ r.kind = proc[p].kind /\ r.token = proc[p].token
        /\ r.file = proc[p].file /\ r.hops = 1
        /\ r.step = "check" /\ r.answer = proc[p].answer
    <3>1. /\ v = [f \in Fields |-> v[f]]
          /\ v.kind = proc[p].kind /\ v.token = proc[p].token
          /\ v.file = proc[p].file /\ v.step = "check" /\ v.answer = proc[p].answer
      BY <2>1 DEF Fields
    <3> HIDE DEF v
    <3> QED
      BY <3>1 DEF Fields
  <2>5. proc'[p] = r
    BY <2>1, <2>3
  <2> HIDE DEF r
  <2>6. RequestOK(p)'
    BY <1>1, <1>2, <1>5, <2>4, <2>5 DEF RequestOK, Step, At, FileOK, Self, config, auth, health
  <2>7. Refused(p)'
    BY <1>2, <2>4, <2>5 DEF Refused
  <2>8. Routed(p)'
    BY <1>1, <1>3, <2>4, <2>5 DEF Routed, At, Self, config
  <2> QED
    BY <1>1, <1>3, <2>3, <2>4, <2>6, <2>7, <2>8, LocalStep
<1> QED
  BY <1>4, <1>5

-----------------------------------------------------------------------------
(* Steps that change the secret and the tokens *)

\* A secret is replaced while tokens of the old one are on their way: the
\* machine is counted among those where requests raced.
LEMMA InitSecretIInv == ASSUME IInv, NEW p \in Request, InitSecret(p) PROVE IInv'
<1> DEFINE step == IF proc[p].kind = "verify" THEN "sign" ELSE "parse"
           r == [proc[p] EXCEPT !.step = step]
<1>1. /\ Step(p) = "init" /\ proc' = [proc EXCEPT ![p] = r]
      /\ secret' = [secret EXCEPT ![At(p)] = IF jwtSecret THEN ConfiguredSecret ELSE fresh]
      /\ fresh' \in Nat /\ fresh' > ConfiguredSecret
      /\ UNCHANGED <<config, tokens, store, health, now>>
      /\ raced' = IF secret[At(p)] = NoSecret THEN raced ELSE raced \cup {At(p)}
  BY DEF InitSecret, Goto, IInv, ShapeOK, ConfiguredSecret
<1>2. /\ r = [f \in Fields |-> r[f]] /\ r.at = proc[p].at /\ r.step = step
      /\ r.kind = proc[p].kind /\ r.answer = proc[p].answer /\ r.hops = proc[p].hops
      /\ r.token = proc[p].token /\ r.file = proc[p].file
  BY DEF IInv, ShapeOK, Fields
<1>3. proc'[p] = r /\ \A q \in Request \ {p} : proc'[q] = proc[q]
  BY <1>1 DEF IInv, ShapeOK
<1> HIDE DEF r
<1>4. At(p) \in Machine /\ secret'[At(p)] \in Nat \ {NoSecret}
  BY <1>1 DEF IInv, ShapeOK, ConfiguredSecret, NoSecret
<1>5. \A m \in Machine \ {At(p)} : secret'[m] = secret[m]
  BY <1>1 DEF IInv, ShapeOK
<1>6. ShapeOK'
  <2>1. secret' \in [Machine -> Nat]
    BY <1>1, <1>4 DEF IInv, ShapeOK
  <2>2. /\ proc' = [q \in Request |-> proc'[q]]
        /\ \A q \in Request : proc'[q] = [f \in Fields |-> proc'[q][f]] /\ At(q)' \in Machine
    BY <1>1, <1>2, <1>3 DEF IInv, ShapeOK, At
  <2> QED
    BY <1>1, <2>1, <2>2 DEF IInv, ShapeOK, config, store, health
<1>7. SecretOK'
  BY <1>1, <1>5, <1>4 DEF IInv, ShapeOK, SecretOK, config, ConfiguredSecret
<1>8. ASSUME NEW t \in tokens' PROVE TokenOK(t)'
  <2>1. TokenOK(t)
    BY <1>1 DEF IInv
  <2>2. t.by = At(p) /\ ~jwtSecret => t.by \in raced' \cup restarted \cup (Machine \ up)
    BY <1>1, <2>1 DEF TokenOK
  <2> QED
    BY <1>1, <1>5, <2>1, <2>2 DEF TokenOK, config, health
<1>9. \A f \in Known' : FileOK(f)'
  BY <1>1 DEF IInv, Known, FileOK, Self, config, store
<1>10. ASSUME NEW q \in Request PROVE RequestOK(q)' /\ Refused(q)' /\ Routed(q)'
  <2>1. RequestOK(q) /\ Refused(q) /\ Routed(q) /\ At(q) \in Machine
    BY DEF IInv, ShapeOK
  <2>2. At(q)' = At(q)
    BY <1>2, <1>3 DEF At
  <2>3. secret[At(q)] # NoSecret => secret'[At(q)] # NoSecret
    BY <1>4, <1>5, <2>1
  <2>4. Refused(q)'
    BY <1>1, <1>2, <1>3, <2>1, <2>2 DEF Refused, config, health
  <2>5. Routed(q)'
    BY <1>1, <1>2, <1>3, <2>1, <2>2 DEF Routed, Self, config
  <2>6. FileOK(proc[q].file) => FileOK(proc[q].file)'
    <3>1. proc'[q].file = proc[q].file /\ list' = list
      BY <1>1, <1>2, <1>3 DEF config
    <3> QED
      BY <3>1 DEF FileOK, Self
  <2>7. ASSUME q = p PROVE RequestOK(q)'
    BY <1>1, <1>2, <1>3, <1>4, <2>1, <2>2, <2>6, <2>7 DEF RequestOK, Step, health
  <2>8. ASSUME q # p PROVE RequestOK(q)'
    BY <1>1, <1>3, <2>1, <2>2, <2>3, <2>6, <2>8 DEF RequestOK, Step, health
  <2> QED
    BY <2>4, <2>5, <2>7, <2>8
<1> QED
  BY <1>6, <1>7, <1>8, <1>9, <1>10 DEF IInv

LEMMA SignIInv == ASSUME IInv, NEW p \in Request, Sign(p) PROVE IInv'
<1> DEFINE new == [secret |-> secret[At(p)], by |-> At(p), expires |-> now + Expiration]
           r == Over(p, "token")
<1>1. /\ Step(p) = "sign" /\ tokens' = tokens \cup {new}
      /\ UNCHANGED <<config, secret, fresh, raced, store, health, now>>
  BY DEF Sign
<1>2. proc' = [proc EXCEPT ![p] = r]
  BY DEF Sign, Answer, Over
<1>3. /\ r = [f \in Fields |-> r[f]] /\ r.at \in Machine
      /\ r.step = "done" /\ r.answer = "token" /\ r.hops = 0
  BY OverShape DEF IInv
<1>4. proc'[p] = r /\ \A q \in Request \ {p} : proc'[q] = proc[q]
  BY <1>2 DEF IInv, ShapeOK
<1> HIDE DEF r
<1>5. ShapeOK'
  BY <1>1, <1>2, <1>3, <1>4 DEF IInv, ShapeOK, At, config, store, health
<1>6. SecretOK'
  BY <1>1 DEF IInv, SecretOK, config
<1>7. ASSUME NEW t \in tokens' PROVE TokenOK(t)'
  <2>1. CASE t \in tokens
    BY <1>1, <2>1 DEF IInv, TokenOK, config, health
  <2>2. CASE t = new
    <3>1. /\ At(p) \in Machine /\ secret[At(p)] \in Nat \ {NoSecret}
          /\ now + Expiration \in Nat
      BY <1>1, ClusterBounds DEF IInv, ShapeOK, RequestOK
    <3>2. new \in [secret : Nat, by : Machine, expires : Nat]
      BY <3>1
    <3>3. t # NoToken
      BY <3>2, <2>2, ClusterBounds
    <3>4. jwtSecret => secret[At(p)] = ConfiguredSecret
      BY <3>1 DEF IInv, SecretOK
    <3> QED
      BY <1>1, <2>2, <3>1, <3>3, <3>4 DEF TokenOK, config, health
  <2> QED
    BY <1>1, <2>1, <2>2
<1>8. \A f \in Known' : FileOK(f)'
  BY <1>1 DEF IInv, Known, FileOK, Self, config, store
<1>9. RequestOK(p)' /\ Refused(p)' /\ Routed(p)'
  BY <1>3, <1>4 DEF RequestOK, Refused, Routed, Step
<1>10. \A q \in Request \ {p} : RequestOK(q)' /\ Refused(q)' /\ Routed(q)'
  BY <1>1, <1>4 DEF IInv, RequestOK, Refused, Routed, Step, At, FileOK, Self, config, health
<1> QED
  BY <1>5, <1>6, <1>7, <1>8, <1>9, <1>10 DEF IInv

LEMMA ServeIInv == ASSUME IInv, NEW p \in Request, Serve(p) PROVE IInv'
<1>1. ASSUME CheckSecret(p) PROVE IInv'
  <2> DEFINE step == IF secret[At(p)] = NoSecret THEN "init"
                     ELSE IF proc[p].kind = "verify" THEN "sign" ELSE "parse"
  <2>1. Step(p) = "check" /\ Goto(p, step) /\ UNCHANGED <<config, auth, store, health, now>>
    BY <1>1 DEF CheckSecret
  <2> QED
    BY <2>1, GotoStep
<1>2. ASSUME ReadTorn(p) PROVE IInv'
  BY <1>2, AnswerStep DEF ReadTorn
<1>3. ASSUME FindRow(p) PROVE IInv'
  <2>1. Step(p) = "route" /\ UNCHANGED <<config, auth, store, health, now>>
        /\ (Goto(p, "get") \/ Answer(p, "notFound"))
    BY <1>3 DEF FindRow
  <2>2. proc[p].kind = "download"
    BY <2>1 DEF IInv, RequestOK
  <2> QED
    BY <2>1, <2>2, GotoStep, AnswerStep
<1>4. ASSUME GetLog(p) PROVE IInv'
  <2> DEFINE answer == IF proc[p].file \in disk[At(p)] THEN "served" ELSE "notFound"
  <2>1. Answer(p, answer) /\ UNCHANGED <<config, auth, store, health, now>>
    BY <1>4 DEF GetLog
  <2> QED
    BY <2>1, AnswerStep
<1> QED
  BY <1>1, <1>2, <1>3, <1>4, InitSecretIInv, SignIInv, ParseIInv, ListIInv, ProxyIInv DEF Serve

-----------------------------------------------------------------------------
(* Logs, time and failures *)

\* Steps of the store: every new file has the id of its machine.
LEMMA StoreStep ==
  ASSUME IInv, disk' = [m \in Machine |-> disk'[m]],
         UNCHANGED <<config, auth, health, now, proc>>,
         \A f \in Known' : f \in Known \/ \E m \in Machine : f.home = Self(m)
  PROVE  IInv'
<1>1. ShapeOK'
  BY DEF IInv, ShapeOK, config, auth, health, At
<1>2. SecretOK' /\ \A t \in tokens' : TokenOK(t)'
  BY DEF IInv, SecretOK, TokenOK, config, auth, health
<1>3. \A f \in Known' : FileOK(f)'
  BY DEF IInv, FileOK, Self, config
<1>4. \A q \in Request : RequestOK(q)' /\ Refused(q)' /\ Routed(q)'
  BY DEF IInv, RequestOK, Refused, Routed, Step, At, FileOK, Self, config, auth, health
<1> QED
  BY <1>1, <1>2, <1>3, <1>4 DEF IInv

LEMMA LogsIInv ==
  ASSUME IInv, NEW m \in Machine,
         \/ \E c \in Content, group \in BOOLEAN : Upload(m, c, group)
         \/ \E f \in Known : DeleteLog(m, f)
  PROVE  IInv'
<1>0. disk = [n \in Machine |-> disk[n]]
  BY DEF IInv, ShapeOK
<1>1. ASSUME NEW c \in Content, NEW group \in BOOLEAN, Upload(m, c, group) PROVE IInv'
  <2>1. /\ disk' = [disk EXCEPT ![m] = @ \cup {FileId(m, c)}]
        /\ UNCHANGED <<config, auth, removed, health, now, proc>>
    BY <1>1 DEF Upload
  <2>2. FileId(m, c).home = Self(m)
    BY DEF FileId
  <2>3. disk' = [n \in Machine |-> disk'[n]]
    BY <1>0, <2>1
  <2>4. \A f \in Known' : f \in Known \/ f = FileId(m, c)
    BY <1>0, <2>1 DEF Known
  <2> QED
    BY <2>1, <2>2, <2>3, <2>4, StoreStep
<1>2. ASSUME NEW f \in Known, DeleteLog(m, f) PROVE IInv'
  <2>1. /\ disk' = [disk EXCEPT ![m] = @ \ {f}] /\ removed' = removed \cup {f}
        /\ UNCHANGED <<config, auth, health, now, proc>>
    BY <1>2 DEF DeleteLog
  <2>2. disk' = [n \in Machine |-> disk'[n]]
    BY <1>0, <2>1
  <2>3. \A g \in Known' : g \in Known
    BY <1>0, <2>1, <1>2 DEF Known
  <2> QED
    BY <2>1, <2>2, <2>3, StoreStep
<1> QED
  BY <1>1, <1>2

LEMMA TickIInv == ASSUME IInv, Tick PROVE IInv'
<1>1. now \in Nat /\ now' = now + 1 /\ UNCHANGED <<config, auth, store, health, proc>>
  BY DEF Tick, IInv, ShapeOK
<1>2. ShapeOK'
  BY <1>1 DEF IInv, ShapeOK, config, auth, store, health, At
<1>3. SecretOK' /\ \A t \in tokens' : TokenOK(t)'
  BY <1>1 DEF IInv, SecretOK, TokenOK, config, auth, health
<1>4. \A f \in Known' : FileOK(f)'
  BY <1>1 DEF IInv, Known, FileOK, Self, config, store
<1>5. ASSUME NEW q \in Request PROVE RequestOK(q)' /\ Refused(q)' /\ Routed(q)'
  <2>1. RequestOK(q)' /\ Routed(q)'
    BY <1>1 DEF IInv, RequestOK, Routed, Step, At, FileOK, Self, config, auth, health
  <2>2. proc[q].answer = "unauthorized" =>
          (now >= proc[q].token.expires => now' >= proc[q].token.expires)
    BY <1>1 DEF IInv, Refused, TokenOK
  <2>3. Refused(q)'
    BY <1>1, <2>2 DEF IInv, Refused, At, config, auth, health
  <2> QED
    BY <2>1, <2>3
<1> QED
  BY <1>2, <1>3, <1>4, <1>5 DEF IInv

\* What a crash leaves of a request it kills.
LEMMA Killed ==
  ASSUME IInv, NEW q \in Request
  PROVE  LET r == [proc[q] EXCEPT !.step = "done", !.answer = "failed"] IN
         /\ r = [f \in Fields |-> r[f]] /\ r.at = proc[q].at
         /\ r.step = "done" /\ r.answer = "failed"
         /\ r.hops = proc[q].hops /\ r.file = proc[q].file
<1>1. proc[q] = [f \in Fields |-> proc[q][f]]
  BY DEF IInv, ShapeOK
<1> QED
  BY <1>1 DEF Fields

\* The secret of the machine is gone: nobody is left there who counts on it,
\* and its tokens are those of a machine that is down.
LEMMA CrashIInv == ASSUME IInv, NEW m \in Machine, Crash(m) PROVE IInv'
<1>1. /\ m \in up /\ up' = up \ {m} /\ secret' = [secret EXCEPT ![m] = NoSecret]
      /\ UNCHANGED <<config, fresh, tokens, raced, store, restarted, now>>
  BY DEF Crash
<1> DEFINE kill(q) == [proc[q] EXCEPT !.step = "done", !.answer = "failed"]
<1>2. proc' = [q \in Request |-> IF q \in Served(m) THEN kill(q) ELSE proc[q]]
  BY DEF Crash
<1>3. \A q \in Request :
        /\ kill(q) = [f \in Fields |-> kill(q)[f]] /\ kill(q).at = proc[q].at
        /\ kill(q).step = "done" /\ kill(q).answer = "failed"
        /\ kill(q).hops = proc[q].hops /\ kill(q).file = proc[q].file
  BY Killed
<1> HIDE DEF kill
<1>4. \A n \in Machine \ {m} : secret'[n] = secret[n]
  BY <1>1 DEF IInv, ShapeOK
<1>5. secret' \in [Machine -> Nat] /\ secret'[m] = NoSecret
  BY <1>1 DEF IInv, ShapeOK, NoSecret
<1>6. ShapeOK'
  <2>1. /\ proc' = [q \in Request |-> proc'[q]]
        /\ \A q \in Request : proc'[q] = [f \in Fields |-> proc'[q][f]] /\ At(q)' \in Machine
    BY <1>2, <1>3 DEF IInv, ShapeOK, At
  <2> QED
    BY <1>1, <1>5, <2>1 DEF IInv, ShapeOK, config, store
<1>7. SecretOK'
  BY <1>1, <1>4, <1>5 DEF IInv, SecretOK, config
<1>8. \A t \in tokens' : TokenOK(t)'
  BY <1>1, <1>4, <1>5 DEF IInv, TokenOK, config
<1>9. \A f \in Known' : FileOK(f)'
  BY <1>1 DEF IInv, Known, FileOK, Self, config, store
<1>10. ASSUME NEW q \in Request, q \in Served(m)
       PROVE  RequestOK(q)' /\ Refused(q)' /\ Routed(q)'
  <2>1. proc'[q] = kill(q)
    BY <1>2, <1>10
  <2>2. Routed(q)'
    BY <1>1, <1>3, <2>1 DEF IInv, Routed, At, Self, config
  <2> QED
    BY <1>3, <2>1, <2>2 DEF RequestOK, Refused, Step
<1>11. ASSUME NEW q \in Request, q \notin Served(m)
       PROVE  RequestOK(q)' /\ Refused(q)' /\ Routed(q)'
  <2>1. proc'[q] = proc[q] /\ At(q) \in Machine
    BY <1>2, <1>11 DEF IInv, ShapeOK
  <2>2. Step(q) \notin {"new", "done"} => At(q) # m
    BY <1>11 DEF Served
  <2>3. RequestOK(q)'
    BY <1>1, <1>4, <2>1, <2>2 DEF IInv, RequestOK, Step, At, FileOK, Self, config
  <2>4. Refused(q)' /\ Routed(q)'
    BY <1>1, <2>1 DEF IInv, Refused, Routed, At, Self, config
  <2> QED
    BY <2>3, <2>4
<1> QED
  BY <1>6, <1>7, <1>8, <1>9, <1>10, <1>11 DEF IInv

LEMMA RestartIInv == ASSUME IInv, NEW m \in Machine, Restart(m) PROVE IInv'
<1>1. /\ up' = up \cup {m} /\ restarted' = restarted \cup {m}
      /\ UNCHANGED <<config, auth, store, crashes, now, proc>>
  BY DEF Restart
<1>2. ShapeOK'
  BY <1>1 DEF IInv, ShapeOK, config, auth, store, At
<1>3. SecretOK' /\ \A t \in tokens' : TokenOK(t)'
  BY <1>1 DEF IInv, SecretOK, TokenOK, config, auth
<1>4. \A f \in Known' : FileOK(f)'
  BY <1>1 DEF IInv, Known, FileOK, Self, config, store
<1>5. \A q \in Request : RequestOK(q)' /\ Refused(q)' /\ Routed(q)'
  BY <1>1 DEF IInv, RequestOK, Refused, Routed, Step, At, FileOK, Self, config, auth
<1> QED
  BY <1>2, <1>3, <1>4, <1>5 DEF IInv

LEMMA NextIInv == ASSUME IInv, [Next]_vars PROVE IInv'
<1>1. CASE UNCHANGED vars
  <2>1. /\ UNCHANGED <<config, auth, store, health, now, proc>>
        /\ disk' = disk /\ removed' = removed
    BY <1>1 DEF vars, store
  <2>2. disk' = [m \in Machine |-> disk'[m]] /\ Known' = Known
    BY <2>1 DEF IInv, ShapeOK, Known
  <2> QED
    BY <2>1, <2>2, StoreStep
<1>2. CASE Next
  <2>1. ASSUME NEW p \in Request, Begin(p) \/ Serve(p) PROVE IInv'
    BY <2>1, BeginIInv, ServeIInv
  <2>2. ASSUME NEW m \in Machine,
               \/ \E c \in Content, group \in BOOLEAN : Upload(m, c, group)
               \/ \E f \in Known : DeleteLog(m, f)
        PROVE  IInv'
    BY <2>2, LogsIInv
  <2>3. ASSUME NEW m \in Machine, Crash(m) \/ Restart(m) PROVE IInv'
    BY <2>3, CrashIInv, RestartIInv
  <2> QED
    BY <1>2, <2>1, <2>2, <2>3, TickIInv DEF Next
<1> QED
  BY <1>1, <1>2

-----------------------------------------------------------------------------
THEOREM Invariance == Spec => []IInv
<1>1. IInv /\ [Next]_vars => IInv'
  BY NextIInv
<1> QED
  BY InitIInv, <1>1, PTL DEF Spec

\* On any number of machines a token is refused only when it is over, or when
\* the secret is random and the token from elsewhere or from a secret that a
\* restart or a race replaced (jwt.go, auth.go).
THEOREM TokensAreGood == Spec => []TokensHold
<1>1. IInv => TokensHold
  BY DEF IInv, Refused, TokensHold
<1> QED
  BY <1>1, Invariance, PTL

\* With any lists of addresses that are permutations of each other a download
\* is proxied at most once, to the machine of its file (address.go, proxy.go).
THEOREM DownloadsGoHome == Spec => []RoutesHome
<1>1. IInv => RoutesHome
  BY DEF IInv, Routed, RoutesHome
<1> QED
  BY <1>1, Invariance, PTL

-----------------------------------------------------------------------------
(* How a request goes on, in the terms of what lists and downloads need *)

Carries(p) ==
  /\ proc'[p].kind = proc[p].kind /\ proc'[p].file = proc[p].file
  /\ proc'[p].query = proc[p].query /\ proc'[p].before = proc[p].before
  /\ proc'[p].answer = proc[p].answer

Began(p) ==
  /\ Step(p) = "new" /\ Step(p)' = "check" /\ proc'[p].answer = "none"
  /\ proc'[p].kind = "download" => proc'[p].file \in Known
  /\ proc'[p].before = proc[p].before \/ proc'[p].before = AllRows

Moved(p) ==
  /\ Step(p) \notin {"new", "call", "done"} /\ Step(p)' \notin {"new", "call", "done"}
  /\ Carries(p)
  /\ Step(p)' = "get" => proc[p].file.home = Self(At(p)) /\ At(p)' = At(p)

Asked(p) ==
  /\ Step(p) = "parse" /\ Step(p)' = "call" /\ Carries(p) /\ At(p)' = At(p)
  /\ proc'[p].rest = MachineIds(list[At(p)])

Called(p, id) ==
  LET q == proc[p].query
      table == rows[Db(MachineAt(list[At(p)], id))]
  IN  /\ Step(p) = "call" /\ Step(p)' = "call" /\ Carries(p) /\ At(p)' = At(p)
      /\ id \in proc[p].rest /\ proc'[p].rest = proc[p].rest \ {id}
      /\ MachineAt(list[At(p)], id) \in Machine
      /\ proc'[p].data = proc[p].data \o Sent(FindLogs(table, q.page, q.size))

Merged(p) ==
  /\ Step(p) = "call" /\ proc[p].rest = {} /\ Step(p)' = "done"
  /\ proc'[p].answer = "listed" /\ proc'[p].query = proc[p].query
  /\ proc'[p].before = proc[p].before \cap AllRows
  /\ \E sorted \in Desc(proc[p].data) : proc'[p].data = UniqData(sorted)

Ended(p) ==
  /\ Step(p) \notin {"new", "done"} /\ Step(p)' = "done"
  /\ proc'[p].answer \notin {"none", "listed"}
  /\ proc'[p].before \subseteq proc[p].before
  /\ proc'[p].answer = "notFound" =>
       /\ proc'[p].file = proc[p].file /\ proc[p].file.home = Self(At(p))
       /\ \/ Step(p) = "route" /\ ~FindLog(Db(At(p)), proc[p].file)
          \/ Step(p) = "get" /\ proc[p].file \notin disk[At(p)]

Turns(p) ==
  /\ proc'[p] \in Locals
  /\ \/ Began(p) \/ Moved(p) \/ Asked(p) \/ Merged(p) \/ Ended(p)
     \/ \E id \in proc[p].rest : Called(p, id)

\* Only request p is changed, to r.
Becomes(p, r) == proc' = [proc EXCEPT ![p] = r]

LEMMA NewRequestLocal == NewRequest \in Locals
<1>1. (CHOOSE m \in Machine : TRUE) \in Machine
  BY MachineAssumption
<1> QED
  BY <1>1 DEF NewRequest, Locals, Steps, Answers

\* The fields that a step sets one by one.
LEMMA SetTwice ==
  ASSUME NEW D, NEW f, f = [q \in D |-> f[q]], NEW p \in D, NEW v, NEW w
  PROVE  /\ [f EXCEPT ![p] = v][p] = v
         /\ [[f EXCEPT ![p] = v] EXCEPT ![p] = w] = [f EXCEPT ![p] = w]
OBVIOUS

LEMMA BecomesLocal ==
  ASSUME proc \in [Request -> Locals], NEW p \in Request, NEW r \in Locals, Becomes(p, r)
  PROVE  /\ proc' \in [Request -> Locals] /\ proc'[p] = r
         /\ \A q \in Request \ {p} : proc'[q] = proc[q]
BY DEF Becomes

LEMMA OverLocal ==
  ASSUME TypeOK, NEW p \in Request, NEW answer \in Answers
  PROVE  /\ Over(p, answer) \in Locals /\ Over(p, answer).step = "done"
         /\ Over(p, answer).answer = answer /\ Over(p, answer).before = {}
         /\ answer = "notFound" => Over(p, answer).file = proc[p].file
<1>1. proc[p] \in Locals
  BY DEF TypeOK
<1>2. NewRequest \in Locals /\ NewRequest.before = {}
  BY NewRequestLocal DEF NewRequest
<1> HIDE DEF NewRequest
<1> DEFINE n == NewRequest
           at == At(p)
           token == proc[p].token
           file == proc[p].file
           v == [[n EXCEPT !.step = "done"] EXCEPT !.answer = answer]
           w == [[[v EXCEPT !.at = at] EXCEPT !.token = token] EXCEPT !.file = file]
<1>3. at \in Machine /\ token \in Token \cup {NoToken} /\ file \in File \cup {NoFile}
  BY <1>1 DEF Locals, At
<1>4. v \in Locals /\ v.step = "done" /\ v.answer = answer /\ v.before = {}
  BY <1>2 DEF Locals, Steps
<1> HIDE DEF v, at, token, file
<1>5. w \in Locals /\ w.step = "done" /\ w.answer = answer /\ w.before = {} /\ w.file = file
  BY <1>3, <1>4 DEF Locals
<1>6. Over(p, answer) = v \/ Over(p, answer) = w
  BY DEF Over, v, at, token, file
<1>7. answer = "notFound" => Over(p, answer) = w
  BY DEF Over, v, at, token, file
<1> HIDE DEF w
<1> QED
  BY <1>4, <1>5, <1>6, <1>7 DEF file

\* A request that is answered with an error or a token.
LEMMA AnswerTurns ==
  ASSUME TypeOK, NEW p \in Request, NEW answer \in Answers \ {"none", "listed"}, Answer(p, answer),
         Step(p) \notin {"new", "done"},
         answer = "notFound" =>
           /\ proc[p].file.home = Self(At(p))
           /\ \/ Step(p) = "route" /\ ~FindLog(Db(At(p)), proc[p].file)
              \/ Step(p) = "get" /\ proc[p].file \notin disk[At(p)]
  PROVE  Becomes(p, proc'[p]) /\ Turns(p)
<1>1. Becomes(p, Over(p, answer))
  BY DEF Answer, Becomes, Over
<1>2. Over(p, answer) \in Locals /\ proc'[p] = Over(p, answer)
  BY <1>1, OverLocal, BecomesLocal DEF TypeOK
<1>3. Ended(p)
  BY <1>2, OverLocal DEF Ended, Step
<1> QED
  BY <1>1, <1>2, <1>3 DEF Turns

LEMMA GotoTurns ==
  ASSUME TypeOK, NEW p \in Request, NEW step \in Steps \ {"new", "call", "done"}, Goto(p, step),
         Step(p) \notin {"new", "call", "done"},
         step = "get" => proc[p].file.home = Self(At(p))
  PROVE  Becomes(p, proc'[p]) /\ Turns(p)
<1> DEFINE r == [proc[p] EXCEPT !.step = step]
<1>1. proc[p] \in Locals
  BY DEF TypeOK
<1>2. /\ r \in Locals /\ r.step = step /\ r.at = proc[p].at /\ r.kind = proc[p].kind
      /\ r.file = proc[p].file /\ r.query = proc[p].query /\ r.before = proc[p].before
      /\ r.answer = proc[p].answer
  BY <1>1 DEF Locals
<1>3. Becomes(p, r)
  BY DEF Goto, Becomes
<1> HIDE DEF r
<1>4. proc'[p] = r
  BY <1>2, <1>3, BecomesLocal DEF TypeOK
<1>5. Moved(p)
  BY <1>2, <1>4 DEF Moved, Carries, Step, At
<1> QED
  BY <1>2, <1>3, <1>4, <1>5 DEF Turns

LEMMA BeginTurns ==
  ASSUME IInv, TypeOK, NEW p \in Request, Begin(p)
  PROVE  Becomes(p, proc'[p]) /\ Turns(p)
<1>1. proc[p] \in Locals
  BY DEF TypeOK
<1>2. ASSUME NEW m \in Machine, BeginVerify(p, m) PROVE Becomes(p, proc'[p]) /\ Turns(p)
  <2> DEFINE r == [[[proc[p] EXCEPT !.step = "check"] EXCEPT !.kind = "verify"] EXCEPT !.at = m]
  <2>1. /\ r \in Locals /\ r.step = "check" /\ r.kind = "verify"
        /\ r.before = proc[p].before /\ r.answer = proc[p].answer
    BY <1>1 DEF Locals, Steps
  <2>2. Becomes(p, r)
    BY <1>2 DEF BeginVerify, Becomes
  <2>3. Step(p) = "new" /\ proc[p].answer = "none"
    BY <1>2 DEF BeginVerify, IInv, RequestOK
  <2> HIDE DEF r
  <2>4. proc'[p] = r
    BY <2>1, <2>2, BecomesLocal DEF TypeOK
  <2>5. Began(p)
    BY <2>1, <2>3, <2>4 DEF Began, Step
  <2> QED
    BY <2>1, <2>2, <2>4, <2>5 DEF Turns
<1>3. ASSUME NEW m \in Machine, NEW t \in tokens, NEW q \in Query, BeginList(p, m, t, q)
      PROVE  Becomes(p, proc'[p]) /\ Turns(p)
  <2> DEFINE all == AllRows
             v == [[[proc[p] EXCEPT !.step = "check"] EXCEPT !.kind = "list"] EXCEPT !.at = m]
             r == [[[v EXCEPT !.token = t] EXCEPT !.query = q] EXCEPT !.before = all]
  <2>1. t \in Token /\ q \in [page : Nat \ {0}, size : Nat \ {0}] /\ all \in SUBSET (Machine \X Row)
    <3>1. \A d \in Machine : rows[d] \in Seq(Row)
      BY DEF TypeOK
    <3>2. \A d \in Machine : \A i \in DOMAIN rows[d] : rows[d][i] \in Row
      BY <3>1
    <3> QED
      BY <3>2, ClusterBounds DEF TypeOK, AllRows
  <2>2. /\ v \in Locals /\ v.step = "check" /\ v.kind = "list" /\ v.answer = proc[p].answer
    BY <1>1 DEF Locals, Steps
  <2>3. Becomes(p, r)
    BY <1>3 DEF BeginList, Becomes
  <2> HIDE DEF v, all
  <2>4. r \in Locals /\ r.step = "check" /\ r.kind = "list" /\ r.before = all /\ r.answer = proc[p].answer
    BY <2>1, <2>2 DEF Locals
  <2>5. Step(p) = "new" /\ proc[p].answer = "none"
    BY <1>3 DEF BeginList, IInv, RequestOK
  <2> HIDE DEF r
  <2>6. proc'[p] = r
    BY <2>3, <2>4, BecomesLocal DEF TypeOK
  <2>7. Began(p)
    BY <2>4, <2>5, <2>6 DEF Began, Step, all
  <2> QED
    BY <2>3, <2>4, <2>6, <2>7 DEF Turns
<1>4. ASSUME NEW m \in Machine, NEW t \in tokens, NEW g \in Known, BeginDownload(p, m, t, g)
      PROVE  Becomes(p, proc'[p]) /\ Turns(p)
  <2> DEFINE v == [[[proc[p] EXCEPT !.step = "check"] EXCEPT !.kind = "download"] EXCEPT !.at = m]
             r == [[v EXCEPT !.token = t] EXCEPT !.file = g]
  <2>1. t \in Token /\ g \in File
    BY DEF TypeOK, Known
  <2>2. /\ v \in Locals /\ v.step = "check" /\ v.kind = "download"
        /\ v.before = proc[p].before /\ v.answer = proc[p].answer
    BY <1>1 DEF Locals, Steps
  <2>3. Becomes(p, r)
    BY <1>4 DEF BeginDownload, Becomes
  <2> HIDE DEF v
  <2>4. /\ r \in Locals /\ r.step = "check" /\ r.kind = "download" /\ r.file = g
        /\ r.before = proc[p].before /\ r.answer = proc[p].answer
    BY <2>1, <2>2 DEF Locals
  <2>5. Step(p) = "new" /\ proc[p].answer = "none"
    BY <1>4 DEF BeginDownload, IInv, RequestOK
  <2> HIDE DEF r
  <2>6. proc'[p] = r
    BY <2>3, <2>4, BecomesLocal DEF TypeOK
  <2>7. Began(p)
    BY <2>4, <2>5, <2>6 DEF Began, Step
  <2> QED
    BY <2>3, <2>4, <2>6, <2>7 DEF Turns
<1> QED
  BY <1>2, <1>3, <1>4 DEF Begin

LEMMA ParseTurns ==
  ASSUME IInv, TypeOK, NEW p \in Request, Parse(p)
  PROVE  Becomes(p, proc'[p]) /\ Turns(p)
<1>1. proc[p] \in Locals /\ proc = [q \in Request |-> proc[q]]
  BY DEF TypeOK
<1>2. Step(p) = "parse"
  BY DEF Parse
<1>3. CASE Answer(p, "unauthorized")
  BY <1>2, <1>3, AnswerTurns DEF Answers
<1>4. CASE Goto(p, "route")
  BY <1>2, <1>4, GotoTurns DEF Steps
<1>5. CASE proc' = [proc EXCEPT ![p].step = "call", ![p].rest = MachineIds(list[At(p)])]
  <2> DEFINE ids == MachineIds(list[At(p)])
             v == [proc[p] EXCEPT !.step = "call"]
             r == [v EXCEPT !.rest = ids]
             f == [proc EXCEPT ![p] = v]
  <2>1. ids \in SUBSET Nat
    BY DEF MachineIds
  <2>2. f[p] = v /\ [f EXCEPT ![p] = r] = [proc EXCEPT ![p] = r]
    BY <1>1, SetTwice
  <2>3. proc' = [f EXCEPT ![p].rest = ids]
    BY <1>5
  <2> HIDE DEF f
  <2>4. Becomes(p, r)
    BY <2>2, <2>3 DEF Becomes
  <2> HIDE DEF ids
  <2>5. /\ r \in Locals /\ r.step = "call" /\ r.rest = ids /\ r.at = proc[p].at
        /\ r.kind = proc[p].kind /\ r.file = proc[p].file /\ r.query = proc[p].query
        /\ r.before = proc[p].before /\ r.answer = proc[p].answer
    BY <1>1, <2>1 DEF Locals, Steps
  <2> HIDE DEF r
  <2>6. proc'[p] = r
    BY <2>4, <2>5, BecomesLocal DEF TypeOK
  <2>7. Asked(p)
    BY <1>2, <2>5, <2>6 DEF Asked, Carries, Step, At, ids
  <2> QED
    BY <2>4, <2>5, <2>6, <2>7 DEF Turns
<1> QED
  BY <1>3, <1>4, <1>5 DEF Parse

LEMMA DbMachine == ASSUME NEW m \in Machine PROVE Db(m) \in Machine
<1>1. (CHOOSE n \in Machine : TRUE) \in Machine
  BY MachineAssumption
<1> QED
  BY <1>1 DEF Db

LEMMA CallTurns ==
  ASSUME TypeOK, NEW p \in Request, NEW id \in proc[p].rest, Call(p, id)
  PROVE  Becomes(p, proc'[p]) /\ Turns(p)
<1> DEFINE m == MachineAt(list[At(p)], id)
           q == proc[p].query
           page == Sent(FindLogs(rows[Db(m)], q.page, q.size))
           rest == proc[p].rest \ {id}
           data == proc[p].data \o page
           v == [proc[p] EXCEPT !.rest = rest]
           r == [v EXCEPT !.data = data]
           f == [proc EXCEPT ![p] = v]
<1>1. proc[p] \in Locals /\ proc = [x \in Request |-> proc[x]]
  BY DEF TypeOK
<1>2. /\ m \in up /\ Step(p) = "call"
      /\ proc' = [proc EXCEPT ![p].rest = @ \ {id}, ![p].data = Merge(@, page)]
  BY DEF Call
<1>3. page \in Seq(Row)
  <2>1. m \in Machine /\ q.page \in Nat \ {0} /\ q.size \in Nat \ {0}
    BY <1>1, <1>2 DEF TypeOK, Locals
  <2> HIDE DEF m, q
  <2>2. rows[Db(m)] \in Seq(Row)
    BY <2>1, DbMachine DEF TypeOK
  <2> QED
    BY <2>1, <2>2, PageRows, SentRows
<1> HIDE DEF page
<1>4. rest \in SUBSET Nat /\ data \in Seq(Row)
  BY <1>1, <1>3 DEF Locals
<1>5. Becomes(p, r)
  <2>1. f[p] = v /\ [f EXCEPT ![p] = r] = [proc EXCEPT ![p] = r]
    BY <1>1, SetTwice
  <2>2. v.data = proc[p].data
    BY <1>1 DEF Locals
  <2>3. proc' = [f EXCEPT ![p].data = Merge(@, page)]
    BY <1>2
  <2> HIDE DEF f
  <2>4. Merge(f[p].data, page) = data
    BY <2>1, <2>2 DEF Merge
  <2>5. proc' = [f EXCEPT ![p].data = data]
    BY <2>3, <2>4
  <2> QED
    BY <2>1, <2>5 DEF Becomes
<1> HIDE DEF rest, data
<1>6. /\ r \in Locals /\ r.step = proc[p].step /\ r.rest = rest /\ r.data = data
      /\ r.at = proc[p].at
      /\ r.kind = proc[p].kind /\ r.file = proc[p].file /\ r.query = proc[p].query
      /\ r.before = proc[p].before /\ r.answer = proc[p].answer
  BY <1>1, <1>4 DEF Locals
<1> HIDE DEF r
<1>7. proc'[p] = r
  BY <1>5, <1>6, BecomesLocal DEF TypeOK
<1>8. Called(p, id)
  BY <1>2, <1>6, <1>7 DEF TypeOK, Called, Carries, Step, At, rest, data, page
<1> QED
  BY <1>5, <1>6, <1>7, <1>8 DEF Turns

LEMMA ListOverTurns ==
  ASSUME TypeOK, NEW p \in Request, ListOver(p)
  PROVE  Becomes(p, proc'[p]) /\ Turns(p)
<1>1. proc[p] \in Locals /\ proc = [x \in Request |-> proc[x]]
  BY DEF TypeOK
<1>2. PICK sorted \in Desc(proc[p].data) :
        proc' = [proc EXCEPT ![p].step = "done", ![p].answer = "listed",
                             ![p].data = UniqData(sorted), ![p].before = @ \cap AllRows]
  BY DEF ListOver
<1> DEFINE data == UniqData(sorted)
           before == proc[p].before \cap AllRows
           v == [[proc[p] EXCEPT !.step = "done"] EXCEPT !.answer = "listed"]
           w == [v EXCEPT !.data = data]
           r == [w EXCEPT !.before = before]
           f == [proc EXCEPT ![p].step = "done", ![p].answer = "listed"]
           g == [f EXCEPT ![p].data = data]
<1>3. data \in Seq(Row) /\ before \in SUBSET (Machine \X Row)
  <2>1. proc[p].data \in Seq(Row) /\ proc[p].before \in SUBSET (Machine \X Row)
    BY <1>1 DEF Locals
  <2>2. sorted \in Seq(Row)
    BY <2>1, DescRows
  <2> QED
    BY <2>1, <2>2, UniqRows
<1>4. Becomes(p, r)
  <2>0. proc' = [g EXCEPT ![p].before = @ \cap AllRows]
    BY <1>2
  <2> HIDE DEF data
  <2>1. f = [proc EXCEPT ![p] = v] /\ f[p] = v
    <3> DEFINE e == [proc EXCEPT ![p].step = "done"]
               u == [proc[p] EXCEPT !.step = "done"]
    <3>1. e = [proc EXCEPT ![p] = u] /\ e[p] = u
      BY <1>1, SetTwice
    <3>2. f = [e EXCEPT ![p].answer = "listed"]
      OBVIOUS
    <3> HIDE DEF e
    <3>3. f = [e EXCEPT ![p] = v]
      BY <3>1, <3>2
    <3> QED
      BY <1>1, <3>1, <3>3, SetTwice
  <2> HIDE DEF f
  <2>2. g = [proc EXCEPT ![p] = w] /\ g[p] = w
    <3>1. g = [f EXCEPT ![p] = w]
      BY <2>1
    <3> HIDE DEF g, w, v
    <3> QED
      BY <1>1, <2>1, <3>1, SetTwice
  <2> HIDE DEF g
  <2>3. w.before = proc[p].before
    <3>1. v \in Locals /\ v.before = proc[p].before
      BY <1>1 DEF Locals, Steps, Answers
    <3> HIDE DEF v
    <3> QED
      BY <1>3, <3>1 DEF Locals
  <2> HIDE DEF w
  <2>4. proc' = [g EXCEPT ![p] = r]
    BY <2>0, <2>2, <2>3
  <2> HIDE DEF r
  <2> QED
    BY <1>1, <2>2, <2>4, SetTwice DEF Becomes
<1> HIDE DEF data, before
<1>5. /\ v \in Locals /\ v.step = "done" /\ v.answer = "listed" /\ v.query = proc[p].query
  BY <1>1 DEF Locals, Steps, Answers
<1> HIDE DEF v
<1>6. /\ r \in Locals /\ r.step = "done" /\ r.answer = "listed" /\ r.query = proc[p].query
      /\ r.data = data /\ r.before = before
  BY <1>3, <1>5 DEF Locals
<1> HIDE DEF r
<1>7. proc'[p] = r
  BY <1>4, <1>6, BecomesLocal DEF TypeOK
<1>8. Merged(p)
  BY <1>6, <1>7 DEF Merged, ListOver, Step, data, before
<1> QED
  BY <1>4, <1>6, <1>7, <1>8 DEF Turns

LEMMA ProxyTurns ==
  ASSUME IInv, TypeOK, NEW p \in Request, Proxy(p)
  PROVE  Becomes(p, proc'[p]) /\ Turns(p)
<1> DEFINE m == MachineAt(list[At(p)], proc[p].file.home)
           via == proc[p].via \cup {At(p)}
           v == [[proc[p] EXCEPT !.step = "check"] EXCEPT !.via = via]
           w == [v EXCEPT !.at = m]
           r == [w EXCEPT !.hops = 1]
<1>1. /\ proc[p] \in Locals /\ proc = [x \in Request |-> proc[x]] /\ Step(p) = "route"
      /\ proc[p].hops = 0 /\ up \subseteq Machine /\ At(p) \in Machine
  <2>1. Step(p) = "route"
    BY DEF Proxy
  <2>2. proc[p].hops = 0
    BY <2>1 DEF Proxy, IInv, Routed
  <2> QED
    BY <2>1, <2>2 DEF TypeOK, IInv, ShapeOK
<1>2. CASE Answer(p, "failed")
  BY <1>1, <1>2, AnswerTurns DEF Answers
<1>3. CASE m \in up /\ proc' = [proc EXCEPT ![p].step = "check", ![p].via = @ \cup {At(p)},
                                            ![p].at = m, ![p].hops = IF @ < 2 THEN @ + 1 ELSE @]
  <2> DEFINE d == [proc EXCEPT ![p].step = "check"]
             u == [proc[p] EXCEPT !.step = "check"]
             e == [d EXCEPT ![p].via = @ \cup {At(p)}]
             f == [e EXCEPT ![p].at = m]
  <2>0. proc' = [f EXCEPT ![p].hops = IF @ < 2 THEN @ + 1 ELSE @]
    BY <1>3
  <2>1. via \in SUBSET Machine /\ m \in Machine
    BY <1>1, <1>3 DEF Locals
  <2> HIDE DEF m
  <2>2. /\ u \in Locals /\ u.via = proc[p].via /\ u.hops = 0
        /\ v \in Locals /\ v.hops = 0 /\ v.step = "check" /\ v.kind = proc[p].kind
        /\ v.file = proc[p].file /\ v.query = proc[p].query
        /\ v.before = proc[p].before /\ v.answer = proc[p].answer
    BY <1>1, <2>1 DEF Locals, Steps
  <2>3. d = [proc EXCEPT ![p] = u] /\ d[p] = u
    BY <1>1, SetTwice
  <2> HIDE DEF d
  <2>4. e = [proc EXCEPT ![p] = v] /\ e[p] = v
    <3>1. e = [d EXCEPT ![p] = v]
      BY <2>2, <2>3
    <3> HIDE DEF e, v, u
    <3> QED
      BY <1>1, <2>3, <3>1, SetTwice
  <2> HIDE DEF e
  <2>5. f = [proc EXCEPT ![p] = w] /\ f[p] = w
    <3>1. f = [e EXCEPT ![p] = w]
      BY <2>4
    <3> HIDE DEF f, w, v
    <3> QED
      BY <1>1, <2>4, <3>1, SetTwice
  <2> HIDE DEF f, v
  <2>6. /\ w \in Locals /\ w.hops = 0 /\ w.step = "check" /\ w.kind = proc[p].kind
        /\ w.file = proc[p].file /\ w.query = proc[p].query
        /\ w.before = proc[p].before /\ w.answer = proc[p].answer
    BY <2>1, <2>2 DEF Locals
  <2> HIDE DEF w
  <2>7. Becomes(p, r)
    <3> DEFINE h == IF f[p].hops < 2 THEN f[p].hops + 1 ELSE f[p].hops
    <3>1. h = 1
      BY <2>5, <2>6
    <3>2. proc' = [f EXCEPT ![p].hops = h]
      BY <2>0
    <3> HIDE DEF h
    <3>3. proc' = [f EXCEPT ![p] = r]
      BY <2>5, <3>1, <3>2
    <3> HIDE DEF r
    <3> QED
      BY <1>1, <2>5, <3>3, SetTwice DEF Becomes
  <2>8. /\ r \in Locals /\ r.step = "check" /\ r.kind = proc[p].kind
        /\ r.file = proc[p].file /\ r.query = proc[p].query
        /\ r.before = proc[p].before /\ r.answer = proc[p].answer
    BY <2>6 DEF Locals
  <2> HIDE DEF r
  <2>9. proc'[p] = r
    BY <2>7, <2>8, BecomesLocal DEF TypeOK
  <2>10. Moved(p)
    BY <1>1, <2>8, <2>9 DEF Moved, Carries, Step
  <2> QED
    BY <2>7, <2>8, <2>9, <2>10 DEF Turns
<1> QED
  BY <1>2, <1>3 DEF Proxy

\* A file is looked for where it came from.
AtHome(p) == Step(p) = "get" => proc[p].file.home = Self(At(p))

LEMMA ServeTurns ==
  ASSUME IInv, TypeOK, NEW p \in Request, AtHome(p), Serve(p)
  PROVE  Becomes(p, proc'[p]) /\ Turns(p) /\ UNCHANGED <<config, store>>
<1>1. ASSUME CheckSecret(p) PROVE Becomes(p, proc'[p]) /\ Turns(p)
  <2> DEFINE step == IF secret[At(p)] = NoSecret THEN "init"
                     ELSE IF proc[p].kind = "verify" THEN "sign" ELSE "parse"
  <2>1. Step(p) = "check" /\ Goto(p, step)
    BY <1>1 DEF CheckSecret
  <2>2. step \in Steps \ {"new", "call", "done"} /\ step # "get"
    BY DEF Steps
  <2> HIDE DEF step
  <2> QED
    BY <2>1, <2>2, GotoTurns
<1>2. ASSUME InitSecret(p) PROVE Becomes(p, proc'[p]) /\ Turns(p)
  <2> DEFINE step == IF proc[p].kind = "verify" THEN "sign" ELSE "parse"
  <2>1. Step(p) = "init" /\ Goto(p, step)
    BY <1>2 DEF InitSecret
  <2>2. step \in Steps \ {"new", "call", "done"} /\ step # "get"
    BY DEF Steps
  <2> HIDE DEF step
  <2> QED
    BY <2>1, <2>2, GotoTurns
<1>3. ASSUME Sign(p) \/ ReadTorn(p) \/ \E id : CallFails(p, id)
      PROVE  Becomes(p, proc'[p]) /\ Turns(p)
  <2>1. Step(p) \in {"sign", "check", "call"} /\ (Answer(p, "token") \/ Answer(p, "failed"))
    BY <1>3 DEF Sign, ReadTorn, CallFails
  <2> QED
    BY <2>1, AnswerTurns DEF Answers
<1>4. ASSUME FindRow(p) PROVE Becomes(p, proc'[p]) /\ Turns(p)
  <2>1. Step(p) = "route" /\ proc[p].file.home = Self(At(p))
    BY <1>4 DEF FindRow
  <2>2. CASE FindLog(Db(At(p)), proc[p].file)
    BY <1>4, <2>1, <2>2, GotoTurns DEF FindRow, Steps
  <2>3. CASE ~FindLog(Db(At(p)), proc[p].file)
    BY <1>4, <2>1, <2>3, AnswerTurns DEF FindRow, Answers
  <2> QED
    BY <2>2, <2>3
<1>5. ASSUME GetLog(p) PROVE Becomes(p, proc'[p]) /\ Turns(p)
  <2>1. Step(p) = "get" /\ proc[p].file.home = Self(At(p))
    BY <1>5 DEF GetLog, AtHome
  <2>2. CASE proc[p].file \in disk[At(p)]
    BY <1>5, <2>1, <2>2, AnswerTurns DEF GetLog, Answers
  <2>3. CASE proc[p].file \notin disk[At(p)]
    BY <1>5, <2>1, <2>3, AnswerTurns DEF GetLog, Answers
  <2> QED
    BY <2>2, <2>3
<1>6. UNCHANGED <<config, store>>
  BY DEF Serve, CheckSecret, InitSecret, Sign, Parse, ReadTorn, Call, CallFails, ListOver, Proxy,
     FindRow, GetLog
<1> QED
  BY <1>1, <1>2, <1>3, <1>4, <1>5, <1>6, ParseTurns, CallTurns, ListOverTurns, ProxyTurns DEF Serve

LEMMA CrashTurns ==
  ASSUME TypeOK, NEW m \in Machine, Crash(m)
  PROVE  proc' \in [Request -> Locals] /\ \A q \in Request : proc'[q] = proc[q] \/ Turns(q)
<1> DEFINE kill(q) == [[proc[q] EXCEPT !.step = "done"] EXCEPT !.answer = "failed"]
<1>1. proc' = [q \in Request |-> IF q \in Served(m) THEN kill(q) ELSE proc[q]]
  BY DEF Crash
<1>2. ASSUME NEW q \in Request
      PROVE  /\ kill(q) \in Locals /\ kill(q).step = "done" /\ kill(q).answer = "failed"
             /\ kill(q).before = proc[q].before
  <2>1. proc[q] \in Locals
    BY DEF TypeOK
  <2> QED
    BY <2>1 DEF Locals, Steps, Answers
<1>3. \A q \in Request : proc[q] \in Locals
  BY DEF TypeOK
<1> HIDE DEF kill
<1>4. proc' \in [Request -> Locals]
  BY <1>1, <1>2, <1>3
<1>5. ASSUME NEW q \in Request, q \in Served(m) PROVE Turns(q)
  <2>1. proc'[q] = kill(q) /\ Step(q) \notin {"new", "done"}
    BY <1>1, <1>5 DEF Served
  <2>2. Ended(q)
    BY <1>2, <2>1 DEF Ended, Step
  <2> QED
    BY <1>2, <2>1, <2>2 DEF Turns
<1>6. \A q \in Request : q \notin Served(m) => proc'[q] = proc[q]
  BY <1>1
<1> QED
  BY <1>4, <1>5, <1>6

\* The tables and the files change alone.
Logs ==
  \E m \in Machine :
    \/ \E c \in Content, group \in BOOLEAN : Upload(m, c, group)
    \/ \E f \in Known : DeleteLog(m, f)

LEMMA NextTurns ==
  ASSUME IInv, TypeOK, \A p \in Request : AtHome(p), [Next]_vars
  PROVE  /\ proc' \in [Request -> Locals] /\ \A q \in Request : proc'[q] = proc[q] \/ Turns(q)
         /\ UNCHANGED config
         /\ UNCHANGED store \/ (Logs /\ proc' = proc)
<1>0. proc \in [Request -> Locals]
  BY DEF TypeOK
<1>1. CASE UNCHANGED vars
  BY <1>0, <1>1 DEF vars
<1>2. ASSUME NEW p \in Request, Begin(p) \/ Serve(p)
      PROVE  /\ proc' \in [Request -> Locals] /\ \A q \in Request : proc'[q] = proc[q] \/ Turns(q)
             /\ UNCHANGED <<config, store>>
  <2>1. Becomes(p, proc'[p]) /\ Turns(p)
    BY <1>2, BeginTurns, ServeTurns
  <2>2. proc'[p] \in Locals
    BY <2>1 DEF Turns
  <2>3. proc' \in [Request -> Locals] /\ \A q \in Request \ {p} : proc'[q] = proc[q]
    BY <1>0, <2>1, <2>2, BecomesLocal
  <2>4. UNCHANGED <<config, store>>
    BY <1>2, ServeTurns DEF Begin, BeginVerify, BeginList, BeginDownload
  <2> QED
    BY <2>1, <2>3, <2>4
<1>3. CASE Logs
  BY <1>0, <1>3 DEF Logs, Upload, DeleteLog
<1>4. ASSUME NEW m \in Machine, Crash(m) \/ Restart(m)
      PROVE  /\ proc' \in [Request -> Locals] /\ \A q \in Request : proc'[q] = proc[q] \/ Turns(q)
             /\ UNCHANGED <<config, store>>
  BY <1>0, <1>4, CrashTurns DEF Crash, Restart
<1>5. CASE Tick
  BY <1>0, <1>5 DEF Tick
<1> QED
  BY <1>1, <1>2, <1>3, <1>4, <1>5 DEF Next, Logs

-----------------------------------------------------------------------------
(* Types *)

LEMMA LogsTypes ==
  ASSUME IInv, TypeOK, Logs
  PROVE  /\ rows' \in [Machine -> Seq(Row)] /\ lastId' \in [Machine -> Nat]
         /\ disk' \in [Machine -> SUBSET File] /\ uploads' \in Nat /\ removed' \subseteq File
<1>0. /\ rows \in [Machine -> Seq(Row)] /\ lastId \in [Machine -> Nat] /\ now \in Nat
      /\ disk \in [Machine -> SUBSET File] /\ uploads \in Nat /\ removed \subseteq File
  BY DEF TypeOK
<1>1. ASSUME NEW m \in Machine, NEW c \in Content, NEW group \in BOOLEAN, Upload(m, c, group)
      PROVE  /\ rows' \in [Machine -> Seq(Row)] /\ lastId' \in [Machine -> Nat]
             /\ disk' \in [Machine -> SUBSET File] /\ uploads' \in Nat /\ removed' \subseteq File
  <2> DEFINE d == Db(m)
             f == FileId(m, c)
             id == lastId[d] + 1
             row == [id |-> id, file |-> f, second |-> now]
  <2>1. d \in Machine
    BY DbMachine
  <2>2. f \in File
    <3>1. list[m] \in Seq(Int) /\ m \in Configured(list[m])
      BY ConfigurationAssumption DEF TypeOK
    <3>2. Self(m) \in Nat
      BY <3>1, SelfHolds DEF Self
    <3> QED
      BY <3>2 DEF FileId, File
  <2>3. /\ uploads' = uploads + 1 /\ disk' = [disk EXCEPT ![m] = @ \cup {f}] /\ removed' = removed
        /\ \/ /\ lastId' = [lastId EXCEPT ![d] = @ + 1]
              /\ rows' = [rows EXCEPT ![d] = Append(@, [id |-> lastId'[d], file |-> f, second |-> now])]
           \/ lastId' = lastId /\ rows' = rows
    BY <1>1 DEF Upload
  <2> HIDE DEF d, f
  <2>4. disk' \in [Machine -> SUBSET File] /\ uploads' \in Nat /\ removed' \subseteq File
    BY <1>0, <2>2, <2>3
  <2>5. row \in Row
    BY <1>0, <2>1, <2>2 DEF Row
  <2>6. CASE lastId' = [lastId EXCEPT ![d] = @ + 1]
             /\ rows' = [rows EXCEPT ![d] = Append(@, [id |-> lastId'[d], file |-> f, second |-> now])]
    <3>0. id \in Nat
      BY <1>0, <2>1
    <3>1. lastId' \in [Machine -> Nat] /\ lastId'[d] = id
      <4>1. lastId' = [lastId EXCEPT ![d] = id]
        BY <2>6
      <4> HIDE DEF id
      <4> QED
        BY <1>0, <2>1, <3>0, <4>1
    <3>2. rows' = [rows EXCEPT ![d] = Append(@, row)]
      BY <2>6, <3>1
    <3> HIDE DEF row
    <3>3. Append(rows[d], row) \in Seq(Row)
      BY <1>0, <2>1, <2>5
    <3> QED
      BY <1>0, <2>1, <2>4, <3>1, <3>2, <3>3
  <2> QED
    BY <1>0, <2>3, <2>4, <2>6
<1>2. ASSUME NEW m \in Machine, NEW f \in Known, DeleteLog(m, f)
      PROVE  /\ rows' \in [Machine -> Seq(Row)] /\ lastId' \in [Machine -> Nat]
             /\ disk' \in [Machine -> SUBSET File] /\ uploads' \in Nat /\ removed' \subseteq File
  <2> DEFINE d == Db(m)
             left == Only(rows[d], {r \in Elements(rows[d]) : r.file # f})
  <2>1. d \in Machine
    BY DbMachine
  <2>2. left \in Seq(Row)
    <3> HIDE DEF d
    <3>1. rows[d] \in Seq(Row)
      BY <1>0, <2>1
    <3> QED
      BY <3>1, OnlyList
  <2>3. /\ rows' = [rows EXCEPT ![d] = left] /\ disk' = [disk EXCEPT ![m] = @ \ {f}]
        /\ removed' = removed \cup {f} /\ lastId' = lastId /\ uploads' = uploads
    BY <1>2 DEF DeleteLog
  <2>4. f \in File
    BY <1>0, <1>2 DEF Known
  <2> HIDE DEF d, left
  <2> QED
    BY <1>0, <2>1, <2>2, <2>3, <2>4
<1> QED
  BY <1>1, <1>2 DEF Logs

LEMMA TypesKept ==
  ASSUME IInv, TypeOK, \A p \in Request : AtHome(p), [Next]_vars
  PROVE  TypeOK' /\ \A p \in Request : AtHome(p)'
<1>1. IInv'
  BY NextIInv
<1>2. /\ proc' \in [Request -> Locals] /\ \A q \in Request : proc'[q] = proc[q] \/ Turns(q)
      /\ UNCHANGED config
      /\ UNCHANGED store \/ Logs
  BY NextTurns
<1>3. /\ rows' \in [Machine -> Seq(Row)] /\ lastId' \in [Machine -> Nat]
      /\ disk' \in [Machine -> SUBSET File] /\ uploads' \in Nat /\ removed' \subseteq File
  BY <1>2, LogsTypes DEF TypeOK, store
<1>4. tokens' \subseteq Token /\ crashes' \in Nat /\ raced' \subseteq Machine /\ restarted' \subseteq Machine
  <2>0. /\ tokens \subseteq Token /\ crashes \in Nat /\ raced \subseteq Machine
        /\ restarted \subseteq Machine
    BY DEF TypeOK
  <2>1. CASE UNCHANGED <<auth, health>>
    BY <2>0, <2>1 DEF auth, health
  <2>2. ASSUME NEW p \in Request, Begin(p) \/ Serve(p)
        PROVE  tokens' \subseteq Token /\ raced' \subseteq Machine /\ UNCHANGED health
    <3>1. At(p) \in Machine
      BY DEF IInv, ShapeOK
    <3>2. CASE Sign(p)
      <4>1. secret[At(p)] \in Nat /\ now + Expiration \in Nat
        BY <3>1, ClusterBounds DEF TypeOK
      <4>2. [secret |-> secret[At(p)], by |-> At(p), expires |-> now + Expiration] \in Token
        BY <3>1, <4>1 DEF Token
      <4> QED
        BY <2>0, <3>2, <4>2 DEF Sign
    <3>3. CASE InitSecret(p)
      BY <2>0, <3>1, <3>3 DEF InitSecret
    <3>4. CASE UNCHANGED <<auth, health>>
      BY <2>0, <3>4 DEF auth
    <3> QED
      BY <2>2, <3>2, <3>3, <3>4 DEF Begin, BeginVerify, BeginList, BeginDownload, Serve, CheckSecret,
         Parse, ReadTorn, Call, CallFails, ListOver, Proxy, FindRow, GetLog
  <2>3. CASE Logs \/ Tick
    BY <2>1, <2>3 DEF Logs, Upload, DeleteLog, Tick
  <2>4. ASSUME NEW m \in Machine, Crash(m) \/ Restart(m)
        PROVE  crashes' \in Nat /\ restarted' \subseteq Machine /\ UNCHANGED <<tokens, raced>>
    <3>1. CASE Crash(m)
      <4>1. crashes' = crashes + 1 /\ UNCHANGED <<tokens, raced, restarted>>
        BY <3>1 DEF Crash
      <4> QED
        BY <2>0, <4>1
    <3>2. CASE Restart(m)
      BY <2>0, <3>2 DEF Restart, auth
    <3> QED
      BY <2>4, <3>1, <3>2
  <2>5. CASE UNCHANGED vars
    BY <2>1, <2>5 DEF vars
  <2>6. ASSUME NEW p \in Request, Begin(p) \/ Serve(p)
        PROVE  /\ tokens' \subseteq Token /\ crashes' \in Nat
               /\ raced' \subseteq Machine /\ restarted' \subseteq Machine
    BY <2>0, <2>2, <2>6 DEF health
  <2>7. ASSUME NEW m \in Machine, Crash(m) \/ Restart(m)
        PROVE  /\ tokens' \subseteq Token /\ crashes' \in Nat
               /\ raced' \subseteq Machine /\ restarted' \subseteq Machine
    BY <2>0, <2>4, <2>7
  <2> QED
    BY <2>3, <2>5, <2>6, <2>7 DEF Next, Logs
<1>5. ASSUME NEW p \in Request PROVE AtHome(p)'
  <2>1. proc'[p] = proc[p] \/ (Moved(p) /\ Step(p)' = "get") \/ Step(p)' # "get"
    BY <1>2 DEF Turns, Began, Asked, Merged, Ended, Called
  <2>2. list' = list
    BY <1>2 DEF config
  <2>3. CASE proc'[p] = proc[p]
    BY <2>2, <2>3 DEF AtHome, Step, At, Self
  <2>4. CASE Moved(p) /\ Step(p)' = "get"
    <3>1. proc'[p].file = proc[p].file /\ At(p)' = At(p) /\ proc[p].file.home = Self(At(p))
      BY <2>4 DEF Moved, Carries
    <3> QED
      BY <2>2, <3>1 DEF AtHome, Self
  <2> QED
    BY <2>1, <2>3, <2>4 DEF AtHome
<1>6. ShapeOK' /\ \A p \in Request : Step(p)' \in {"sign", "parse"} => (secret[At(p)] # NoSecret)'
  BY <1>1 DEF IInv, RequestOK
<1>7. shared' \in BOOLEAN
  BY <1>2 DEF TypeOK, config
<1> QED
  BY <1>2, <1>3, <1>4, <1>5, <1>6, <1>7 DEF TypeOK, ShapeOK

Typed == IInv /\ TypeOK /\ \A p \in Request : AtHome(p)

LEMMA InitTyped == Init => Typed
<1> SUFFICES ASSUME Init PROVE Typed
  OBVIOUS
<1>1. IInv
  BY InitIInv
<1>2. proc = [p \in Request |-> NewRequest] /\ proc \in [Request -> Locals]
  BY NewRequestLocal DEF Init
<1>3. \A p \in Request : Step(p) = "new"
  BY <1>2 DEF NewRequest, Step
<1>4. <<>> \in Seq(Row)
  OBVIOUS
<1>5. TypeOK
  BY <1>2, <1>3, <1>4 DEF TypeOK, Init, NoSecret
<1> QED
  BY <1>1, <1>3, <1>5 DEF Typed, AtHome

LEMMA TypedStep == Typed /\ [Next]_vars => Typed'
BY NextIInv, TypesKept DEF Typed

\* Every variable of the log API keeps its type, and who signs or reads a token
\* has a secret, on any number of machines (auth.go, jwt.go, core.go).
THEOREM TypesHold == Spec => []TypeOK
<1>1. Typed => TypeOK
  BY DEF Typed
<1> QED
  BY <1>1, InitTyped, TypedStep, PTL DEF Spec

-----------------------------------------------------------------------------
(* Downloads *)

\* A file that is on a machine has its id, and a row.
StoredOK ==
  \A m \in Machine : \A f \in disk[m] :
    f.home = Self(m) /\ (f \in removed \/ FindLog(Db(m), f))

\* Nothing is asked for that was not uploaded, and nothing is missing that was
\* not removed.
DownloadOK(p) ==
  /\ Step(p) \notin {"new", "done"} /\ proc[p].kind = "download" => proc[p].file \in Known
  /\ proc[p].answer = "notFound" => proc[p].file \in removed

Found == StoredOK /\ \A p \in Request : DownloadOK(p)

\* What an upload and a deletion do to the table of their machine.
Adds(m, c) ==
  LET d == Db(m)  f == FileId(m, c) IN
  /\ disk' = [disk EXCEPT ![m] = @ \cup {f}] /\ removed' = removed
  /\ \/ FindLog(d, f) /\ rows' = rows /\ lastId' = lastId
     \/ /\ lastId'[d] = lastId[d] + 1
        /\ Len(rows'[d]) = Len(rows[d]) + 1
        /\ Elements(rows'[d]) =
             Elements(rows[d]) \cup {[id |-> lastId[d] + 1, file |-> f, second |-> now]}
        /\ \A e \in Machine \ {d} : rows'[e] = rows[e] /\ lastId'[e] = lastId[e]

Drops(m, f) ==
  LET d == Db(m) IN
  /\ disk' = [disk EXCEPT ![m] = @ \ {f}] /\ removed' = removed \cup {f}
  /\ lastId' = lastId
  /\ Len(rows'[d]) <= Len(rows[d])
  /\ Elements(rows'[d]) = {r \in Elements(rows[d]) : r.file # f}
  /\ \A e \in Machine \ {d} : rows'[e] = rows[e]

LEMMA LogsTables ==
  ASSUME Typed, Logs
  PROVE  \E m \in Machine : (\E c \in Content : Adds(m, c)) \/ \E f : Drops(m, f)
<1>0. /\ rows \in [Machine -> Seq(Row)] /\ lastId \in [Machine -> Nat] /\ now \in Nat
      /\ rows' \in [Machine -> Seq(Row)]
  BY LogsTypes DEF Typed, TypeOK
<1>1. ASSUME NEW m \in Machine, NEW c \in Content, NEW group \in BOOLEAN, Upload(m, c, group)
      PROVE  Adds(m, c)
  <2> DEFINE d == Db(m)
             f == FileId(m, c)
             row == [id |-> lastId[d] + 1, file |-> f, second |-> now]
  <2>1. d \in Machine
    BY DbMachine
  <2>2. /\ disk' = [disk EXCEPT ![m] = @ \cup {f}] /\ removed' = removed
        /\ \/ /\ lastId' = [lastId EXCEPT ![d] = @ + 1]
              /\ rows' = [rows EXCEPT ![d] = Append(@, [id |-> lastId'[d], file |-> f, second |-> now])]
           \/ FindLog(d, f) /\ lastId' = lastId /\ rows' = rows
    BY <1>1 DEF Upload
  <2> HIDE DEF d, f
  <2>3. CASE lastId' = [lastId EXCEPT ![d] = @ + 1]
             /\ rows' = [rows EXCEPT ![d] = Append(@, [id |-> lastId'[d], file |-> f, second |-> now])]
    <3>1. lastId'[d] = lastId[d] + 1 /\ \A e \in Machine \ {d} : lastId'[e] = lastId[e]
      BY <1>0, <2>1, <2>3
    <3>2. rows' = [rows EXCEPT ![d] = Append(@, row)]
      BY <2>3, <3>1
    <3> DEFINE t == rows[d]
               u == rows'[d]
    <3>3. u = Append(t, row) /\ \A e \in Machine \ {d} : rows'[e] = rows[e]
      BY <1>0, <2>1, <3>2
    <3>4. t \in Seq(Row) /\ u \in Seq(Row)
      BY <1>0, <2>1
    <3> HIDE DEF t, u, row
    <3>5. row \in Row
      <4>1. Len(t) + 1 \in DOMAIN Append(t, row) /\ Append(t, row)[Len(t) + 1] = row
        BY <3>4
      <4> QED
        BY <3>3, <3>4, <4>1
    <3>6. Elements(u) = Elements(t) \cup {row} /\ Len(u) = Len(t) + 1
      BY <3>3, <3>4, <3>5, AppendList, AppendProperties
    <3> QED
      BY <2>2, <3>1, <3>3, <3>6 DEF Adds, t, u, row, d, f
  <2> QED
    BY <2>2, <2>3 DEF Adds, d, f
<1>2. ASSUME NEW m \in Machine, NEW f \in Known, DeleteLog(m, f) PROVE Drops(m, f)
  <2> DEFINE d == Db(m)
             t == rows[d]
             S == {r \in Elements(t) : r.file # f}
             left == Only(t, S)
  <2>1. d \in Machine
    BY DbMachine
  <2>2. t \in Seq(Row)
    BY <1>0, <2>1
  <2>3. /\ rows' = [rows EXCEPT ![d] = left] /\ disk' = [disk EXCEPT ![m] = @ \ {f}]
        /\ removed' = removed \cup {f} /\ lastId' = lastId
    BY <1>2 DEF DeleteLog
  <2> HIDE DEF d, left
  <2>4. rows'[d] = left /\ \A e \in Machine \ {d} : rows'[e] = rows[e]
    BY <1>0, <2>1, <2>3
  <2>5. Elements(left) = S /\ Len(left) <= Len(t)
    <3>1. S \subseteq Elements(t)
      OBVIOUS
    <3> HIDE DEF S, t
    <3>2. Elements(Only(t, S)) = Elements(t) \cap S /\ Len(Only(t, S)) <= Len(t)
      BY <2>2, OnlyElements, OnlyShorter
    <3> QED
      BY <3>1, <3>2 DEF left
  <2> QED
    BY <2>3, <2>4, <2>5 DEF Drops, d
<1> QED
  BY <1>1, <1>2 DEF Logs

LEMMA FindsElement ==
  \A d, f : FindLog(d, f) <=> \E r \in Elements(rows[d]) : r.file = f
BY DEF FindLog, Elements

LEMMA StoredStep ==
  ASSUME Typed, StoredOK, [Next]_vars
  PROVE  /\ StoredOK'
         /\ \A f \in Known : f \in Known'
         /\ removed \subseteq removed'
<1>1. UNCHANGED config /\ (UNCHANGED store \/ Logs)
  BY NextTurns DEF Typed
<1>2. \A m \in Machine : Self(m)' = Self(m) /\ Db(m)' = Db(m) /\ Db(m) \in Machine
  BY <1>1, DbMachine DEF config, Self, Db
<1>3. disk \in [Machine -> SUBSET File]
  BY DEF Typed, TypeOK
<1>4. CASE UNCHANGED store
  BY <1>2, <1>4 DEF store, StoredOK, FindLog, Known
<1>5. ASSUME NEW m \in Machine, NEW c \in Content, Adds(m, c)
      PROVE  StoredOK' /\ (\A f \in Known : f \in Known') /\ removed \subseteq removed'
  <2> DEFINE d == Db(m)
             f == FileId(m, c)
  <2>1. disk' = [disk EXCEPT ![m] = @ \cup {f}] /\ removed' = removed
    BY <1>5 DEF Adds
  <2>2. ASSUME NEW e \in Machine, NEW r \in Elements(rows[e])
        PROVE  r \in Elements(rows'[e])
    BY <1>5 DEF Adds
  <2>3. \E r \in Elements(rows'[d]) : r.file = f
    <3>1. CASE FindLog(d, f)
      BY <1>2, <2>2, <3>1, FindsElement
    <3>2. CASE ~FindLog(d, f)
      <4> DEFINE row == [id |-> lastId[d] + 1, file |-> f, second |-> now]
      <4>1. row \in Elements(rows'[d])
        BY <1>5, <3>2 DEF Adds
      <4>2. row.file = f
        OBVIOUS
      <4> QED
        BY <4>1, <4>2
    <3> QED
      BY <3>1, <3>2
  <2>4. f.home = Self(m)
    BY DEF FileId
  <2> HIDE DEF d, f
  <2>5. ASSUME NEW n \in Machine, NEW g \in disk'[n]
        PROVE  g.home = Self(n) /\ (g \in removed' \/ \E r \in Elements(rows'[Db(n)]) : r.file = g)
    <3>1. CASE g \in disk[n]
      <4>1. g.home = Self(n) /\ (g \in removed \/ \E r \in Elements(rows[Db(n)]) : r.file = g)
        BY <3>1, FindsElement DEF StoredOK
      <4> QED
        BY <1>2, <2>1, <2>2, <4>1
    <3>2. CASE g \notin disk[n]
      <4>1. n = m /\ g = f
        BY <1>3, <2>1, <3>2
      <4> QED
        BY <2>3, <2>4, <4>1 DEF d
    <3> QED
      BY <3>1, <3>2
  <2>6. StoredOK'
    <3>1. ASSUME NEW n \in Machine, NEW g \in disk'[n]
          PROVE  g.home = Self(n)' /\ (g \in removed' \/ FindLog(Db(n), g)')
      BY <1>2, <2>5 DEF FindLog, Elements
    <3> QED
      BY <3>1 DEF StoredOK
  <2> QED
    BY <1>3, <2>1, <2>6 DEF Known
<1>6. ASSUME NEW m \in Machine, NEW f, Drops(m, f)
      PROVE  StoredOK' /\ (\A g \in Known : g \in Known') /\ removed \subseteq removed'
  <2>1. disk' = [disk EXCEPT ![m] = @ \ {f}] /\ removed' = removed \cup {f}
    BY <1>6 DEF Drops
  <2>2. ASSUME NEW e \in Machine, NEW r \in Elements(rows[e]), r.file # f
        PROVE  r \in Elements(rows'[e])
    BY <1>6, <2>2 DEF Drops
  <2>3. ASSUME NEW n \in Machine, NEW g \in disk'[n]
        PROVE  g.home = Self(n) /\ (g \in removed' \/ \E r \in Elements(rows'[Db(n)]) : r.file = g)
    <3>1. g \in disk[n]
      BY <1>3, <2>1
    <3>2. g.home = Self(n) /\ (g \in removed \/ \E r \in Elements(rows[Db(n)]) : r.file = g)
      BY <3>1, FindsElement DEF StoredOK
    <3> QED
      BY <1>2, <2>1, <2>2, <3>2
  <2>4. StoredOK'
    <3>1. ASSUME NEW n \in Machine, NEW g \in disk'[n]
          PROVE  g.home = Self(n)' /\ (g \in removed' \/ FindLog(Db(n), g)')
      BY <1>2, <2>3 DEF FindLog, Elements
    <3> QED
      BY <3>1 DEF StoredOK
  <2> QED
    BY <1>3, <2>1, <2>4 DEF Known
<1> QED
  BY <1>1, <1>4, <1>5, <1>6, LogsTables

LEMMA FoundStep == Typed /\ Found /\ [Next]_vars => Found'
<1> SUFFICES ASSUME Typed, Found, [Next]_vars PROVE Found'
  OBVIOUS
<1>1. /\ StoredOK' /\ (\A f \in Known : f \in Known') /\ removed \subseteq removed'
  BY StoredStep DEF Found
<1>2. ASSUME NEW p \in Request PROVE DownloadOK(p)'
  <2>0. DownloadOK(p)
    BY DEF Found
  <2>1. CASE proc'[p] = proc[p]
    BY <1>1, <2>0, <2>1 DEF DownloadOK, Step
  <2>2. CASE Began(p)
    BY <1>1, <2>2 DEF DownloadOK, Began
  <2>3. CASE Moved(p) \/ Asked(p) \/ \E id : Called(p, id)
    <3>1. Carries(p) /\ Step(p) \notin {"new", "done"}
      BY <2>3 DEF Moved, Asked, Called
    <3> QED
      BY <1>1, <2>0, <3>1 DEF DownloadOK, Carries
  <2>4. CASE Merged(p)
    BY <2>4 DEF DownloadOK, Merged
  <2>5. CASE Ended(p)
    <3>1. Step(p)' = "done"
      BY <2>5 DEF Ended
    <3>2. ASSUME proc'[p].answer = "notFound" PROVE proc'[p].file \in removed'
      <4> DEFINE f == proc[p].file
      <4>1. /\ proc'[p].file = f /\ f.home = Self(At(p)) /\ Step(p) \in {"route", "get"}
            /\ ~FindLog(Db(At(p)), f) \/ f \notin disk[At(p)]
        BY <2>5, <3>2 DEF Ended
      <4>2. f \in Known /\ At(p) \in Machine /\ list \in Configurations
        BY <2>0, <4>1 DEF DownloadOK, Typed, IInv, RequestOK, ShapeOK
      <4>3. ASSUME NEW m \in Machine, f \in disk[m] PROVE m = At(p)
        <5>1. Self(m) = Self(At(p))
          BY <4>1, <4>3 DEF Found, StoredOK
        <5>2. MachineAt(list[m], Self(m)) = m /\ MachineAt(list[m], Self(At(p))) = At(p)
          BY <4>2, HomeFound
        <5> QED
          BY <5>1, <5>2
      <4>4. f \in removed
        BY <4>1, <4>2, <4>3 DEF Known, Found, StoredOK
      <4> QED
        BY <1>1, <4>1, <4>4
    <3> QED
      BY <3>1, <3>2 DEF DownloadOK
  <2>6. proc'[p] = proc[p] \/ Turns(p)
    BY NextTurns DEF Typed
  <2> QED
    BY <2>1, <2>2, <2>3, <2>4, <2>5, <2>6 DEF Turns
<1> QED
  BY <1>1, <1>2 DEF Found

\* A log that was uploaded is found from every machine until it is deleted,
\* however the machines order their lists and whether or not they share a
\* database: the proxy, the row and the file lead to one place (proxy.go,
\* files.go, address.go).
THEOREM LogsFound == Spec => []DownloadsFound
<1>1. Init => Typed /\ Found
  <2> SUFFICES ASSUME Init PROVE Typed /\ Found
    OBVIOUS
  <2>1. \A p \in Request : Step(p) = "new" /\ proc[p].answer = "none"
    BY DEF Init, NewRequest, Step
  <2>2. StoredOK
    BY DEF Init, StoredOK
  <2> QED
    BY <2>1, <2>2, InitTyped DEF Found, DownloadOK
<1>2. Typed /\ Found /\ [Next]_vars => (Typed /\ Found)'
  BY TypedStep, FoundStep
<1>3. Found => DownloadsFound
  BY DEF Found, DownloadOK, DownloadsFound
<1> QED
  BY <1>1, <1>2, <1>3, PTL DEF Spec

-----------------------------------------------------------------------------
(* Lists *)

\* What is shown is without duplicates.
OnceShown(p) ==
  Listed(p) => \A i, j \in DOMAIN proc[p].data : i # j => proc[p].data[i] # proc[p].data[j]

LEMMA OnceShownStep ==
  ASSUME Typed, NEW p \in Request, OnceShown(p), [Next]_vars
  PROVE  OnceShown(p)'
<1>1. CASE proc'[p] = proc[p]
  BY <1>1 DEF OnceShown, Listed
<1>2. CASE Began(p) \/ Ended(p)
  BY <1>2 DEF OnceShown, Listed, Began, Ended
<1>3. CASE Moved(p) \/ Asked(p) \/ \E id : Called(p, id)
  <2>1. Carries(p) /\ Step(p) \notin {"new", "done"}
    BY <1>3 DEF Moved, Asked, Called
  <2>2. proc'[p].answer = "none"
    BY <2>1 DEF Carries, Typed, IInv, RequestOK
  <2> QED
    BY <2>2 DEF OnceShown, Listed
<1>4. CASE Merged(p)
  <2>1. PICK sorted \in Desc(proc[p].data) : proc'[p].data = UniqData(sorted)
    BY <1>4 DEF Merged
  <2>2. proc[p].data \in Seq(Row)
    BY DEF Typed, TypeOK, Locals
  <2>3. sorted \in Seq(Row)
    BY <2>2, DescRows
  <2>4. \A i, j \in DOMAIN UniqData(sorted) :
          UniqKey(UniqData(sorted)[i]) = UniqKey(UniqData(sorted)[j]) => i = j
    BY <2>3, UniqRows
  <2> QED
    BY <2>1, <2>4 DEF OnceShown
<1>5. proc'[p] = proc[p] \/ Turns(p)
  BY NextTurns DEF Typed
<1> QED
  BY <1>1, <1>2, <1>3, <1>4, <1>5 DEF Turns

\* However many machines read a row from one database, and however often a
\* machine is on the list that is called, a list shows the row once (logs.go).
THEOREM ListsAreUnique == Spec => []NoLogTwice
<1> DEFINE Inv == Typed /\ \A p \in Request : OnceShown(p)
<1>1. Init => Inv
  <2> SUFFICES ASSUME Init PROVE Inv
    OBVIOUS
  <2>1. \A p \in Request : proc[p].answer = "none"
    BY DEF Init, NewRequest
  <2> QED
    BY <2>1, InitTyped DEF OnceShown, Listed
<1>2. Inv /\ [Next]_vars => Inv'
  BY TypedStep, OnceShownStep
<1>3. Inv => NoLogTwice
  BY DEF OnceShown, NoLogTwice
<1> QED
  BY <1>1, <1>2, <1>3, PTL DEF Spec

\* The tables: keys grow, and rows are only in the databases of machines.
RowsOK ==
  \A d \in Machine :
    /\ Len(rows[d]) <= lastId[d]
    /\ \A r \in Elements(rows[d]) : r.id <= lastId[d]
    /\ Elements(rows[d]) # {} => \E n \in Machine : d = Db(n)

\* The rows there were when a request began have old keys.
BeforeOK(p) == \A x \in proc[p].before : x[2].id <= lastId[x[1]]

\* A row that was there and still is, is shown or will be asked for.
Seen(p, x) == \E i \in DOMAIN proc[p].data : proc[p].data[i].second = x[2].second

Pending(p, x) == \E id \in proc[p].rest : x[1] = Db(MachineAt(list[At(p)], id))

CollectOK(p) ==
  Step(p) = "call" /\ Fits(p) => \A x \in proc[p].before \cap AllRows : Pending(p, x) \/ Seen(p, x)

ShownOK(p) == Listed(p) /\ Fits(p) => \A x \in proc[p].before : Seen(p, x)

ListsInv == RowsOK /\ \A p \in Request : BeforeOK(p) /\ CollectOK(p) /\ ShownOK(p)

LEMMA RowsOfAll ==
  \A x : x \in AllRows <=> \E d \in Machine : \E r \in Elements(rows[d]) : x = <<d, r>>
<1>1. \A d : {<<d, rows[d][i]>> : i \in DOMAIN rows[d]} = {<<d, r>> : r \in Elements(rows[d])}
  BY DEF Elements
<1> QED
  BY <1>1 DEF AllRows

\* New rows have new keys.
LEMMA TablesStep ==
  ASSUME Typed, RowsOK, [Next]_vars
  PROVE  /\ RowsOK'
         /\ \A d \in Machine : lastId[d] \in Nat /\ lastId'[d] \in Nat /\ lastId[d] <= lastId'[d]
         /\ \A x \in AllRows' : x[1] \in Machine /\ (x[2].id <= lastId[x[1]] => x \in AllRows)
<1>1. UNCHANGED config /\ (UNCHANGED store \/ Logs)
  BY NextTurns DEF Typed
<1>2. \A m \in Machine : Db(m)' = Db(m) /\ Db(m) \in Machine
  BY <1>1, DbMachine DEF config, Db
<1>3. /\ \A d \in Machine : /\ rows[d] \in Seq(Row) /\ lastId[d] \in Nat
                            /\ rows'[d] \in Seq(Row) /\ lastId'[d] \in Nat
      /\ now \in Nat
  <2>1. TypeOK /\ TypeOK'
    BY TypedStep DEF Typed
  <2> QED
    BY <2>1 DEF TypeOK
<1>4. \A d \in Machine : Len(rows[d]) \in Nat /\ Len(rows'[d]) \in Nat
  BY <1>3
<1>5. \A x : x \in AllRows' <=> \E d \in Machine : \E r \in Elements(rows'[d]) : x = <<d, r>>
  <2>1. \A d : {<<d, rows'[d][i]>> : i \in DOMAIN rows'[d]} = {<<d, r>> : r \in Elements(rows'[d])}
    BY DEF Elements
  <2> QED
    BY <2>1 DEF AllRows
<1> DEFINE Aged(d) == /\ Len(rows'[d]) <= lastId'[d] /\ lastId[d] <= lastId'[d]
                      /\ \A r \in Elements(rows'[d]) :
                           r.id <= lastId'[d] /\ (r.id <= lastId[d] => r \in Elements(rows[d]))
                      /\ Elements(rows'[d]) # {} => \E n \in Machine : d = Db(n)
<1>6. ASSUME NEW d \in Machine, rows'[d] = rows[d], lastId'[d] = lastId[d] PROVE Aged(d)
  <2>1. lastId[d] <= lastId'[d]
    BY <1>3, <1>6
  <2>2. /\ Len(rows[d]) <= lastId[d] /\ \A r \in Elements(rows[d]) : r.id <= lastId[d]
        /\ Elements(rows[d]) # {} => \E n \in Machine : d = Db(n)
    BY DEF RowsOK
  <2> QED
    BY <1>6, <2>1, <2>2
<1>7. ASSUME NEW m \in Machine, NEW c \in Content, Adds(m, c), NEW e \in Machine
      PROVE  Aged(e)
  <2> DEFINE d == Db(m)
             row == [id |-> lastId[d] + 1, file |-> FileId(m, c), second |-> now]
  <2>1. CASE rows'[e] = rows[e] /\ lastId'[e] = lastId[e]
    BY <1>6, <2>1
  <2>2. CASE /\ e = d /\ lastId'[d] = lastId[d] + 1
             /\ Len(rows'[d]) = Len(rows[d]) + 1
             /\ Elements(rows'[d]) = Elements(rows[d]) \cup {row}
    <3>1. row.id = lastId[d] + 1
      OBVIOUS
    <3> HIDE DEF row
    <3>2. lastId[d] \in Nat /\ Len(rows[d]) \in Nat
      BY <1>2, <1>3, <1>4
    <3>3. Len(rows[d]) <= lastId[d] /\ \A r \in Elements(rows[d]) : r \in Row /\ r.id <= lastId[d]
      <4>1. d \in Machine /\ rows[d] \in Seq(Row)
        BY <1>2, <1>3
      <4>2. \A r \in Elements(rows[d]) : r \in Row
        BY <4>1 DEF Elements
      <4> QED
        BY <4>1, <4>2 DEF RowsOK
    <3>4. e = Db(m)
      BY <2>2
    <3> HIDE DEF d
    <3>5. \A r \in Elements(rows'[d]) : r \in Elements(rows[d]) \/ r.id = lastId[d] + 1
      BY <2>2, <3>1
    <3>6. Len(rows'[e]) <= lastId'[e] /\ lastId[e] <= lastId'[e]
      BY <2>2, <3>2, <3>3
    <3>7. ASSUME NEW r \in Elements(rows'[e])
          PROVE  r.id <= lastId'[e] /\ (r.id <= lastId[e] => r \in Elements(rows[e]))
      <4>1. CASE r \in Elements(rows[d])
        <5>1. r.id \in Nat /\ r.id <= lastId[d]
          BY <3>3, <4>1 DEF Row
        <5> QED
          BY <2>2, <3>2, <4>1, <5>1
      <4>2. CASE r.id = lastId[d] + 1
        BY <2>2, <3>2, <4>2
      <4> QED
        BY <2>2, <3>5, <3>7, <4>1, <4>2
    <3> QED
      BY <3>4, <3>6, <3>7
  <2> QED
    BY <1>7, <2>1, <2>2 DEF Adds
<1>8. ASSUME NEW m \in Machine, NEW f, Drops(m, f), NEW e \in Machine
      PROVE  Aged(e)
  <2> DEFINE d == Db(m)
  <2>1. CASE e # d
    BY <1>6, <1>8, <2>1 DEF Drops
  <2>2. CASE e = d
    <3>1. /\ Len(rows'[e]) <= Len(rows[e]) /\ lastId'[e] = lastId[e] /\ Len(rows[e]) <= lastId[e]
          /\ Elements(rows'[e]) \subseteq Elements(rows[e])
          /\ \A r \in Elements(rows[e]) : r.id <= lastId[e]
          /\ Elements(rows[e]) # {} => \E n \in Machine : e = Db(n)
      BY <1>8, <2>2 DEF Drops, RowsOK
    <3>2. lastId[e] \in Nat /\ Len(rows[e]) \in Nat /\ Len(rows'[e]) \in Nat
      BY <1>3, <1>4
    <3>3. Len(rows'[e]) <= lastId'[e] /\ lastId[e] <= lastId'[e]
      BY <3>1, <3>2
    <3> QED
      BY <3>1, <3>3
  <2> QED
    BY <2>1, <2>2
<1>9. \A d \in Machine : Aged(d)
  <2>1. CASE UNCHANGED store
    BY <1>6, <2>1 DEF store
  <2> QED
    BY <1>1, <1>7, <1>8, <2>1, LogsTables
<1>10. RowsOK'
  BY <1>2, <1>9 DEF RowsOK
<1>11. ASSUME NEW x \in AllRows'
       PROVE  x[1] \in Machine /\ (x[2].id <= lastId[x[1]] => x \in AllRows)
  <2>1. PICK d \in Machine : \E r \in Elements(rows'[d]) : x = <<d, r>>
    BY <1>5
  <2>2. PICK r \in Elements(rows'[d]) : x = <<d, r>>
    BY <2>1
  <2>3. r.id <= lastId[d] => r \in Elements(rows[d])
    BY <1>9
  <2> QED
    BY <2>2, <2>3, RowsOfAll
<1> QED
  BY <1>3, <1>9, <1>10, <1>11

\* The ids that are asked for are those of all machines.
LEMMA EveryoneAsked ==
  ASSUME list \in Configurations, NEW n \in Machine, NEW m \in Machine
  PROVE  Self(n) \in MachineIds(list[m]) /\ MachineAt(list[m], Self(n)) = n
<1>1. /\ list[m] \in Seq(Int) /\ list[n] \in Seq(Int) /\ SameList(list[n], list[m])
      /\ n \in Configured(list[m])
  BY ConfigurationAssumption
<1> DEFINE l == list[m]
<1>2. Self(n) = SelfId(l, n)
  BY <1>1, MachinesAgree DEF Self
<1>3. SelfId(l, n) \in Nat
  BY <1>1, SelfHolds
<1>4. Cardinality(UpTo(l, n)) <= Len(l) /\ Cardinality(UpTo(l, n)) \in Nat /\ Len(l) \in Nat
  <2>1. DOMAIN l = 1 .. Len(l) /\ Len(l) \in Nat
    BY <1>1
  <2> HIDE DEF l
  <2>2. IsFiniteSet(1 .. Len(l)) /\ Cardinality(1 .. Len(l)) = Len(l)
    <3> DEFINE k == Len(l)
    <3>1. k \in Int /\ 1 \in Int /\ k >= 0
      BY <2>1
    <3> HIDE DEF k
    <3>2. /\ IsFiniteSet(1 .. k)
          /\ Cardinality(1 .. k) = IF 1 > k THEN 0 ELSE k - 1 + 1
      BY <3>1, FS_Interval
    <3> QED
      BY <3>1, <3>2 DEF k
  <2>3. UpTo(l, n) \in SUBSET (1 .. Len(l))
    BY <2>1 DEF UpTo
  <2> QED
    BY <2>1, <2>2, <2>3, FS_Subset, FS_CardinalityType
<1>5. SelfId(l, n) <= Len(l) - 1
  BY <1>4 DEF SelfId
<1> QED
  BY <1>2, <1>3, <1>4, <1>5, HomeFound DEF MachineIds

\* A call has what the machine has, when the page is large enough.
LEMMA CallSees ==
  ASSUME Typed, RowsOK, NEW p \in Request, NEW id \in proc[p].rest, Called(p, id), Fits(p)
  PROVE  /\ \A x : Seen(p, x) => Seen(p, x)'
         /\ \A x \in AllRows : x[1] = Db(MachineAt(list[At(p)], id)) => Seen(p, x)'
<1> DEFINE d == Db(MachineAt(list[At(p)], id))
           q == proc[p].query
           found == FindLogs(rows[d], q.page, q.size)
           page == Sent(found)
           data == proc[p].data
           new == proc'[p].data
<1>1. d \in Machine
  BY DbMachine DEF Called
<1>2. new = data \o page
  BY DEF Called
<1> HIDE DEF d
<1>3. rows[d] \in Seq(Row) /\ data \in Seq(Row) /\ q.page \in Nat \ {0} /\ q.size \in Nat \ {0}
      /\ lastId[d] \in Nat
  BY <1>1 DEF Typed, TypeOK, Locals
<1>4. q.page = 1 /\ Len(rows[d]) <= q.size
  <2>1. q.page = 1 /\ lastId[d] <= q.size /\ Len(rows[d]) <= lastId[d] /\ Len(rows[d]) \in Nat
    BY <1>1, <1>3 DEF Fits, RowsOK
  <2> QED
    BY <1>3, <2>1
<1> HIDE DEF q, data
<1>5. found \in Seq(Row) /\ Elements(rows[d]) \subseteq Elements(found)
  BY <1>3, <1>4, PageRows
<1> HIDE DEF found
<1>6. /\ page \in Seq(Row) /\ DOMAIN page = DOMAIN found
      /\ \A i \in DOMAIN found : page[i].second = found[i].second
  BY <1>5, SentRows
<1> HIDE DEF page, new
<1>7. /\ DOMAIN new = 1 .. Len(data) + Len(page) /\ Len(data) \in Nat /\ Len(page) \in Nat
      /\ DOMAIN data = 1 .. Len(data) /\ DOMAIN page = 1 .. Len(page)
      /\ \A i \in 1 .. Len(data) : new[i] = data[i]
      /\ \A i \in 1 .. Len(page) : new[Len(data) + i] = page[i]
  <2>1. /\ Len(new) = Len(data) + Len(page)
        /\ \A i \in 1 .. Len(data) + Len(page) :
             new[i] = IF i <= Len(data) THEN data[i] ELSE page[i - Len(data)]
        /\ new \in Seq(Row)
    BY <1>2, <1>3, <1>6, ConcatProperties
  <2>2. Len(data) \in Nat /\ Len(page) \in Nat
        /\ DOMAIN data = 1 .. Len(data) /\ DOMAIN page = 1 .. Len(page) /\ DOMAIN new = 1 .. Len(new)
    BY <1>3, <1>6, <2>1
  <2>3. ASSUME NEW i \in 1 .. Len(data) PROVE new[i] = data[i]
    BY <2>1, <2>2
  <2>4. ASSUME NEW i \in 1 .. Len(page) PROVE new[Len(data) + i] = page[i]
    <3>1. Len(data) + i \in 1 .. Len(data) + Len(page) /\ ~(Len(data) + i <= Len(data))
          /\ (Len(data) + i) - Len(data) = i
      BY <2>2
    <3> QED
      BY <2>1, <3>1
  <2> QED
    BY <2>1, <2>2, <2>3, <2>4
<1>8. ASSUME NEW x, Seen(p, x) PROVE Seen(p, x)'
  <2>1. PICK i \in DOMAIN data : data[i].second = x[2].second
    BY <1>8 DEF Seen, data
  <2>2. i \in DOMAIN new /\ new[i] = data[i]
    BY <1>7
  <2> QED
    BY <2>1, <2>2 DEF Seen, new
<1>9. ASSUME NEW x \in AllRows, x[1] = d PROVE Seen(p, x)'
  <2>1. x[2] \in Elements(rows[d])
    BY <1>9, RowsOfAll
  <2>2. PICK i \in DOMAIN found : found[i] = x[2]
    BY <1>5, <2>1 DEF Elements
  <2>3. page[i].second = x[2].second /\ i \in 1 .. Len(page)
    BY <1>6, <1>7, <2>2
  <2>4. Len(data) + i \in DOMAIN new /\ new[Len(data) + i] = page[i]
    BY <1>7, <2>3
  <2> QED
    BY <2>3, <2>4 DEF Seen, new
<1> QED
  BY <1>8, <1>9 DEF d

\* Sorting and removing duplicates leave a row of each second.
LEMMA MergeSees ==
  ASSUME Typed, NEW p \in Request, Merged(p), NEW x, Seen(p, x)
  PROVE  Seen(p, x)'
<1> DEFINE data == proc[p].data
<1>1. PICK sorted \in Desc(data) : proc'[p].data = UniqData(sorted)
  BY DEF Merged
<1>2. data \in Seq(Row)
  BY DEF Typed, TypeOK, Locals
<1>3. PICK i \in DOMAIN data : data[i].second = x[2].second
  BY DEF Seen
<1>4. data[i] \in Elements(data)
  BY DEF Elements
<1> HIDE DEF data
<1>5. sorted \in Seq(Row) /\ Elements(sorted) = Elements(data)
  BY <1>2, DescRows
<1>6. PICK j \in DOMAIN sorted : sorted[j] = data[i]
  BY <1>4, <1>5 DEF Elements
<1>7. PICK k \in DOMAIN UniqData(sorted) : UniqKey(UniqData(sorted)[k]) = UniqKey(sorted[j])
  BY <1>5, UniqRows
<1>8. UniqData(sorted)[k].second = x[2].second
  BY <1>3, <1>6, <1>7 DEF UniqKey
<1> QED
  BY <1>1, <1>8 DEF Seen

LEMMA ListsStep == Typed /\ ListsInv /\ [Next]_vars => ListsInv'
<1> SUFFICES ASSUME Typed, ListsInv, [Next]_vars PROVE ListsInv'
  OBVIOUS
<1>1. /\ RowsOK /\ RowsOK'
      /\ \A d \in Machine : lastId[d] \in Nat /\ lastId'[d] \in Nat /\ lastId[d] <= lastId'[d]
      /\ \A x \in AllRows' : x[1] \in Machine /\ (x[2].id <= lastId[x[1]] => x \in AllRows)
  BY TablesStep DEF ListsInv
<1>2. /\ \A q \in Request : proc'[q] = proc[q] \/ Turns(q)
      /\ list' = list /\ shared' = shared
      /\ UNCHANGED store \/ proc' = proc
  BY NextTurns DEF Typed, config
<1>3. list \in Configurations /\ \A p \in Request : At(p) \in Machine
  BY DEF Typed, IInv, ShapeOK
<1>4. \A p \in Request : proc[p] \in Locals /\ proc'[p] \in Locals
  <2>1. TypeOK /\ TypeOK'
    BY TypedStep DEF Typed
  <2> QED
    BY <2>1 DEF TypeOK
<1>5. ASSUME NEW p \in Request
      PROVE  BeforeOK(p)' /\ CollectOK(p)' /\ ShownOK(p)'
  <2>0. BeforeOK(p) /\ CollectOK(p) /\ ShownOK(p)
    BY DEF ListsInv
  <2>1. /\ proc[p].before \in SUBSET (Machine \X Row) /\ proc'[p].before \in SUBSET (Machine \X Row)
        /\ proc[p].query.size \in Nat
    BY <1>4 DEF Locals
  <2>2. proc'[p].query = proc[p].query /\ Fits(p)' => Fits(p)
    <3> SUFFICES ASSUME proc'[p].query = proc[p].query, Fits(p)', NEW d \in Machine
                 PROVE  lastId[d] <= proc[p].query.size /\ proc[p].query.page = 1
      BY DEF Fits
    <3>1. lastId'[d] <= proc[p].query.size /\ proc[p].query.page = 1
      BY DEF Fits
    <3> QED
      BY <1>1, <2>1, <3>1
  <2>3. \A x \in proc[p].before : x[1] \in Machine /\ x[2].id \in Nat /\ x[2].id <= lastId[x[1]]
    BY <2>0, <2>1 DEF BeforeOK, Row
  <2>4. \A x \in proc[p].before : x \in AllRows' => x \in AllRows
    BY <1>1, <2>3
  <2>5. ASSUME proc'[p].before \subseteq proc[p].before \cup AllRows PROVE BeforeOK(p)'
    <3> SUFFICES ASSUME NEW x \in proc'[p].before PROVE x[2].id <= lastId'[x[1]]
      BY DEF BeforeOK
    <3>1. x[1] \in Machine /\ x[2].id \in Nat
      BY <2>1 DEF Row
    <3>2. x[2].id <= lastId[x[1]]
      <4>1. CASE x \in AllRows
        BY <1>1, <4>1, RowsOfAll DEF RowsOK
      <4> QED
        BY <2>3, <2>5, <4>1
    <3> QED
      BY <1>1, <3>1, <3>2
  <2>6. CASE proc'[p] = proc[p]
    <3>1. BeforeOK(p)'
      BY <2>5, <2>6
    <3>2. CollectOK(p)'
      <4> SUFFICES ASSUME Step(p) = "call", Fits(p), NEW x \in proc[p].before \cap AllRows'
                   PROVE  Pending(p, x)' \/ Seen(p, x)'
        BY <2>2, <2>6 DEF CollectOK, Step
      <4>1. Pending(p, x) \/ Seen(p, x)
        BY <2>0, <2>4 DEF CollectOK
      <4> QED
        BY <1>2, <2>6, <4>1 DEF Pending, Seen, At, Db
    <3>3. ShownOK(p)'
      BY <2>0, <2>2, <2>6 DEF ShownOK, Listed, Seen
    <3> QED
      BY <3>1, <3>2, <3>3
  <2>7. CASE Began(p) \/ Ended(p)
    <3>1. BeforeOK(p)'
      BY <2>5, <2>7 DEF Began, Ended
    <3> QED
      BY <2>7, <3>1 DEF Began, Ended, CollectOK, ShownOK, Listed
  <2>8. ASSUME Carries(p), Step(p) \notin {"new", "done"} PROVE BeforeOK(p)' /\ ShownOK(p)'
    <3>1. proc'[p].answer = "none" /\ proc'[p].before = proc[p].before
      BY <2>8 DEF Carries, Typed, IInv, RequestOK
    <3> QED
      BY <2>5, <3>1 DEF ShownOK, Listed
  <2>9. CASE Moved(p)
    BY <2>8, <2>9 DEF Moved, CollectOK
  <2>10. CASE Asked(p)
    <3>1. /\ proc'[p].before = proc[p].before /\ At(p)' = At(p)
          /\ proc'[p].rest = MachineIds(list[At(p)])
      BY <2>10 DEF Asked, Carries
    <3>2. CollectOK(p)'
      <4> SUFFICES ASSUME NEW x \in proc[p].before \cap AllRows' PROVE Pending(p, x)'
        BY <3>1 DEF CollectOK
      <4>1. x[1] \in Machine /\ Elements(rows[x[1]]) # {}
        BY <2>4, RowsOfAll
      <4>2. PICK n \in Machine : x[1] = Db(n)
        BY <1>1, <4>1 DEF RowsOK
      <4>3. Self(n) \in MachineIds(list[At(p)]) /\ MachineAt(list[At(p)], Self(n)) = n
        BY <1>3, EveryoneAsked
      <4> QED
        BY <1>2, <3>1, <4>2, <4>3 DEF Pending, Db
    <3> QED
      BY <2>8, <2>10, <3>2 DEF Asked
  <2>11. ASSUME NEW id \in proc[p].rest, Called(p, id)
         PROVE  BeforeOK(p)' /\ CollectOK(p)' /\ ShownOK(p)'
    <3>1. /\ Carries(p) /\ Step(p) = "call" /\ At(p)' = At(p) /\ proc'[p].rest = proc[p].rest \ {id}
      BY <2>11 DEF Called
    <3>2. CollectOK(p)'
      <4> SUFFICES ASSUME Fits(p)', NEW x \in proc[p].before \cap AllRows'
                   PROVE  Pending(p, x)' \/ Seen(p, x)'
        BY <3>1 DEF CollectOK, Carries
      <4>1. Fits(p) /\ x \in AllRows
        BY <2>2, <2>4, <3>1 DEF Carries
      <4>2. Pending(p, x) \/ Seen(p, x)
        BY <2>0, <3>1, <4>1 DEF CollectOK
      <4>3. CASE Pending(p, x)
        <5>1. PICK i \in proc[p].rest : x[1] = Db(MachineAt(list[At(p)], i))
          BY <4>3 DEF Pending
        <5>2. CASE i = id
          BY <1>1, <2>11, <4>1, <5>1, <5>2, CallSees
        <5>3. CASE i # id
          BY <1>2, <3>1, <5>1, <5>3 DEF Pending, Db
        <5> QED
          BY <5>2, <5>3
      <4> QED
        BY <1>1, <2>11, <4>1, <4>2, <4>3, CallSees
    <3> QED
      BY <2>8, <3>1, <3>2
  <2>12. CASE Merged(p)
    <3>1. BeforeOK(p)' /\ CollectOK(p)'
      BY <2>5, <2>12 DEF Merged, CollectOK
    <3>2. ShownOK(p)'
      <4> SUFFICES ASSUME Fits(p)', NEW x \in proc[p].before \cap AllRows
                   PROVE  Seen(p, x)'
        BY <2>12 DEF ShownOK, Merged
      <4>1. Fits(p) /\ Step(p) = "call" /\ proc[p].rest = {}
        BY <2>2, <2>12 DEF Merged
      <4>2. Seen(p, x)
        BY <2>0, <4>1 DEF CollectOK, Pending
      <4> QED
        BY <2>12, <4>2, MergeSees
    <3> QED
      BY <3>1, <3>2
  <2> QED
    BY <1>2, <2>6, <2>7, <2>9, <2>10, <2>11, <2>12 DEF Turns
<1> QED
  BY <1>1, <1>5 DEF ListsInv

\* A list is all or nothing: it shows a log of each second of the logs there
\* were and are, from every machine, if the page that was asked for can hold
\* the tables, whatever is uploaded, deleted or started again meanwhile
\* (CallAllClient, Page.Merge, Page.UniqData).
THEOREM ListsAreComplete == Spec => []SecondsShown
<1>1. Init => Typed /\ ListsInv
  <2> SUFFICES ASSUME Init PROVE Typed /\ ListsInv
    OBVIOUS
  <2>1. \A p \in Request : Step(p) = "new" /\ proc[p].answer = "none" /\ proc[p].before = {}
    BY DEF Init, NewRequest, Step
  <2>2. \A d \in Machine : rows[d] = <<>> /\ lastId[d] = 0
    BY DEF Init
  <2>3. Elements(<<>>) = {} /\ Len(<<>>) <= 0
    BY DEF Elements
  <2>4. RowsOK
    BY <2>2, <2>3 DEF RowsOK
  <2> QED
    BY <2>1, <2>4, InitTyped DEF ListsInv, BeforeOK, CollectOK, ShownOK, Listed
<1>2. Typed /\ ListsInv /\ [Next]_vars => (Typed /\ ListsInv)'
  BY TypedStep, ListsStep
<1>3. ListsInv => SecondsShown
  BY DEF ListsInv, ShownOK, Seen, SecondsShown
<1> QED
  BY <1>1, <1>2, <1>3, PTL DEF Spec
=============================================================================
