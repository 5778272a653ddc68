------------------------------ MODULE LogPages ------------------------------
(***************************************************************************)
(* Pages of logs (src/data/logs.go, FindLogs of src/data/db.go): each      *)
(* machine reads a page of its table, the one that was asked merges the    *)
(* pages of all, sorts what it has and removes what it takes for           *)
(* duplicates.                                                             *)
(*                                                                         *)
(* A row is [id, file, second]: the primary key, the file id, and created  *)
(* at as Unix() shows it.                                                  *)
(***************************************************************************)
EXTENDS Lists, FiniteSets, SequencesExt

\* FindLogs: the latest rows first, one page of them.  table is in the order
\* of created_at.
FindLogs(table, page, size) ==
  LET offset == (page - 1) * size
      last == IF Len(table) < offset + size THEN Len(table) ELSE offset + size
  IN  SubSeq(Reverse(table), offset + 1, last)

\* What the JSON of an RPC leaves of a page: Model.ID is tagged json:"-", so
\* that the caller decodes a zero.
Sent(page) == [i \in DOMAIN page |-> [page[i] EXCEPT !.id = 0]]

\* Page.Merge
Merge(data, page) == data \o page

\* Page.Desc: sort.Slice is not stable, every descending order of the same rows
\* may result.
Desc(data) ==
  LET places(s, row) == {i \in DOMAIN s : s[i] = row} IN
  {s \in [DOMAIN data -> Elements(data)] :
     /\ \A i, j \in DOMAIN s : i < j => s[i].second >= s[j].second
     /\ \A row \in Elements(data) : Cardinality(places(s, row)) = Cardinality(places(data, row))}

\* Model.GetUniqKey
UniqKey(row) == <<row.id, row.second>>

\* Mutant: nothing is removed.
UniqDataAll(data) == data

\* Page.UniqData keeps the first row of each key.
UniqData(data) ==
  LET firsts == {i \in DOMAIN data : \A j \in 1 .. (i - 1) : UniqKey(data[j]) # UniqKey(data[i])}
      keep == Only([i \in DOMAIN data |-> i], firsts)
  IN  [k \in DOMAIN keep |-> data[keep[k]]]
=============================================================================
