--------------------------- MODULE LogStoreProofs ---------------------------
(***************************************************************************)
(* Theorems about LogStore, for every number of machines, files, groups    *)
(* and requests: the files and their rows agree, a group has a bounded     *)
(* number of entries, the types hold, and a pass by size keeps the limit.  *)
(***************************************************************************)
EXTENDS LogStore, ListsProofs, FiniteSetTheorems

Fields == {"step", "kind", "file", "group", "entry", "at", "ids", "todo"}

\* Every process has a record of these fields, every file one of three states.
ShapeOK ==
  /\ disk \in [File -> {"none", "partial", "full"}]
  /\ proc = [p \in Process |-> proc[p]]
  /\ \A p \in Process : proc[p] = [x \in Fields |-> proc[p][x]]

\* How far p is with file f.
Stage(p, f) ==
  IF (Step(p) \in UploadSteps /\ proc[p].file = f) \/ (Step(p) \in DeleteSteps /\ Current(p) = f)
    THEN Step(p) ELSE "idle"

\* While a file is uploaded it is not deleted, and the other way round; what
\* disk and rows say of it depends on how far the requests are.
Sound(f) ==
  /\ \A p, q \in Process : ~(Stage(p, f) \in UploadSteps /\ Stage(q, f) \in DeleteSteps)
  /\ \A p \in Process :
       /\ Stage(p, f) = "upWrite" => p \in linked
       /\ Stage(p, f) \in UploadSteps /\ disk[f] = "none" => Stage(p, f) = "upCreate"
       /\ Stage(p, f) = "delRow" => disk[f] = "none"
  /\ disk[f] = "partial" => \E p \in Process : Stage(p, f) = "upWrite"
  /\ disk[f] = "none" /\ FindLog(f) => \E p \in Process : Stage(p, f) = "delRow"
  /\ disk[f] # "none" /\ ~FindLog(f) => \E p \in Process : Stage(p, f) \in UploadSteps

SoundOK == \A f \in File \ mixed : Sound(f)

-----------------------------------------------------------------------------
(* Steps of one process *)

LEMMA Distinct ==
  /\ "idle" \notin UploadSteps \cup DeleteSteps /\ "upStat" \notin UploadSteps \cup DeleteSteps
  /\ "delStat" \notin UploadSteps \cup DeleteSteps
  /\ "cleanOldest" \notin UploadSteps \cup DeleteSteps
  /\ "cleanTimeout" \notin UploadSteps \cup DeleteSteps
  /\ "groupFind" \notin UploadSteps \cup DeleteSteps /\ "groupLast" \notin UploadSteps \cup DeleteSteps
  /\ UploadSteps \cap DeleteSteps = {}
  /\ {"upCreate", "upWrite", "upLookup", "upInsert", "upGroup", "upGroupInsert", "upGroupUpdate"}
       = UploadSteps
  /\ DeleteSteps = {"delRemove", "delRow"}
  /\ \A p \in Process : Saved(p) \in {"upLookup", "upGroup"}
BY DEF UploadSteps, DeleteSteps, Saved

LEMMA Stages ==
  ASSUME NEW f
  PROVE  /\ Uploading(f) <=> \E p \in Process : Stage(p, f) \in UploadSteps
         /\ Deleting(f) <=> \E p \in Process : Stage(p, f) \in DeleteSteps
BY Distinct DEF Uploading, Deleting, Stage

LEMMA IdleShape ==
  ASSUME NEW p
  PROVE  Idle(p).step = "idle" /\ Idle(p) = [x \in Fields |-> Idle(p)[x]]
<1> DEFINE a == IF p \in Cleaners THEN p[2] ELSE CHOOSE m \in Machine : TRUE
<1>1. Idle(p) = [step |-> "idle", kind |-> "none", file |-> NoFile, group |-> NoGroup,
                 entry |-> 0, at |-> a, ids |-> <<>>, todo |-> <<>>]
  BY DEF Idle
<1> HIDE DEF a
<1> QED
  BY <1>1 DEF Fields

\* Process p goes on with record r; the others stay where they are.
LEMMA OneProcess ==
  ASSUME ShapeOK, NEW p \in Process, NEW r, r = [x \in Fields |-> r[x]],
         proc' = [proc EXCEPT ![p] = r], disk' \in [File -> {"none", "partial", "full"}]
  PROVE  /\ ShapeOK' /\ proc'[p] = r
         /\ \A q \in Process : q # p => proc'[q] = proc[q]
         /\ \A q \in Process : \A f : q # p => Stage(q, f)' = Stage(q, f)
<1>1. proc'[p] = r /\ \A q \in Process : q # p => proc'[q] = proc[q]
  BY DEF ShapeOK
<1>2. proc' = [q \in Process |-> proc'[q]]
  BY DEF ShapeOK
<1>3. \A q \in Process : proc'[q] = [x \in Fields |-> proc'[q][x]]
  BY <1>1 DEF ShapeOK
<1>4. \A q \in Process : \A f : q # p => Stage(q, f)' = Stage(q, f)
  BY <1>1 DEF Stage, Step, Current
<1> QED
  BY <1>1, <1>2, <1>3, <1>4 DEF ShapeOK

\* The record after the update of its step.
LEMMA StepUpdated ==
  ASSUME ShapeOK, NEW p \in Process, NEW s, NEW r, r = [proc[p] EXCEPT !.step = s]
  PROVE  /\ r = [x \in Fields |-> r[x]] /\ r.step = s
         /\ \A x \in Fields \ {"step"} : r[x] = proc[p][x]
<1>1. proc[p] = [x \in Fields |-> proc[p][x]]
  BY DEF ShapeOK
<1> QED
  BY <1>1 DEF Fields

LEMMA Going ==
  ASSUME ShapeOK, NEW p \in Process, NEW s, Goto(p, s),
         disk' \in [File -> {"none", "partial", "full"}]
  PROVE  /\ ShapeOK' /\ Step(p)' = s
         /\ \A x \in Fields \ {"step"} : proc'[p][x] = proc[p][x]
         /\ \A q \in Process : q # p => proc'[q] = proc[q]
         /\ \A q \in Process : \A f : q # p => Stage(q, f)' = Stage(q, f)
         /\ \A f : Stage(p, f)' =
              IF \/ s \in UploadSteps /\ proc[p].file = f
                 \/ s \in DeleteSteps /\ Head(proc[p].todo) = f THEN s ELSE "idle"
<1> DEFINE r == [proc[p] EXCEPT !.step = s]
<1>1. /\ r = [x \in Fields |-> r[x]] /\ r.step = s
      /\ \A x \in Fields \ {"step"} : r[x] = proc[p][x]
  BY StepUpdated
<1>2. proc' = [proc EXCEPT ![p] = r]
  BY DEF Goto
<1> HIDE DEF r
<1>3. ShapeOK' /\ proc'[p] = r
  BY <1>1, <1>2, OneProcess
<1>4. proc'[p].file = proc[p].file /\ proc'[p].todo = proc[p].todo
  BY <1>1, <1>3 DEF Fields
<1>5. /\ \A q \in Process : q # p => proc'[q] = proc[q]
      /\ \A q \in Process : \A f : q # p => Stage(q, f)' = Stage(q, f)
  BY <1>1, <1>2, OneProcess
<1> QED
  BY <1>1, <1>3, <1>4, <1>5 DEF Stage, Step, Current

LEMMA Finishing ==
  ASSUME ShapeOK, NEW p \in Process, Finish(p),
         disk' \in [File -> {"none", "partial", "full"}]
  PROVE  /\ ShapeOK' /\ Step(p)' = "idle"
         /\ \A q \in Process : q # p => proc'[q] = proc[q]
         /\ \A q \in Process : \A f : q # p => Stage(q, f)' = Stage(q, f)
         /\ \A f : Stage(p, f)' = "idle"
<1> DEFINE r == Idle(p)
<1>1. r.step = "idle" /\ r = [x \in Fields |-> r[x]] /\ proc' = [proc EXCEPT ![p] = r]
  BY IdleShape DEF Finish
<1> HIDE DEF r
<1>2. /\ ShapeOK' /\ proc'[p] = r
      /\ \A q \in Process : q # p => proc'[q] = proc[q]
      /\ \A q \in Process : \A f : q # p => Stage(q, f)' = Stage(q, f)
  BY <1>1, OneProcess
<1> QED
  BY <1>1, <1>2, Distinct DEF Stage, Step

-----------------------------------------------------------------------------
(* What a step does to a file *)

\* The step is none of file f's.
Apart(f) ==
  /\ disk'[f] = disk[f] /\ FindLog(f)' = FindLog(f)
  /\ \A q \in Process : Stage(q, f)' = Stage(q, f)
  /\ \A q \in linked : Stage(q, f) = "upWrite" => q \in linked'

LEMMA ApartSound ==
  ASSUME NEW f, Sound(f), Apart(f)
  PROVE  Sound(f)'
BY DEF Sound, Apart

LEMMA UpStatSound ==
  ASSUME ShapeOK, SoundOK, NEW p \in Process, UpStat(p)
  PROVE  ShapeOK' /\ SoundOK'
<1> DEFINE g == proc[p].file
           s == IF disk[g] = "none" THEN "upCreate" ELSE Saved(p)
<1>0. /\ Step(p) = "upStat" /\ Goto(p, s) /\ UNCHANGED <<disk, rows, linked>>
      /\ mixed' = IF Deleting(g) THEN mixed \cup {g} ELSE mixed
  BY DEF UpStat, tables
<1>1. /\ ShapeOK' /\ \A q \in Process : \A f : q # p => Stage(q, f)' = Stage(q, f)
      /\ \A f : Stage(p, f)' = IF g = f THEN s ELSE "idle"
  <2>1. s \in UploadSteps \ DeleteSteps
    BY Distinct
  <2> QED
    BY <1>0, <2>1, Going DEF ShapeOK
<1>2. SUFFICES ASSUME NEW f \in File \ mixed' PROVE Sound(f)'
  BY <1>1 DEF SoundOK
<1>3. f \in File \ mixed /\ Sound(f) /\ Stage(p, f) = "idle" /\ FindLog(f)' = FindLog(f)
  BY <1>0, Distinct DEF SoundOK, Stage, FindLog
<1>4. CASE f # g
  <2>1. Apart(f)
    BY <1>0, <1>1, <1>3, <1>4 DEF Apart
  <2> QED
    BY <1>3, <2>1, ApartSound
<1>5. CASE f = g
  <2>1. \A q \in Process : Stage(q, f) \notin DeleteSteps
    BY <1>0, <1>5, Stages
  <2>2. s \in {"upCreate", "upLookup", "upGroup"} /\ (s = "upCreate" <=> disk[f] = "none")
    BY <1>5, Distinct
  <2>3. Stage(p, f)' = s
    BY <1>1, <1>5
  <2> HIDE DEF s, g
  <2> QED
    BY <1>0, <1>1, <1>3, <2>1, <2>2, <2>3, Distinct DEF Sound
<1> QED
  BY <1>4, <1>5

LEMMA UpCreateSound ==
  ASSUME ShapeOK, SoundOK, NEW p \in Process, UpCreate(p)
  PROVE  ShapeOK' /\ SoundOK'
<1> DEFINE g == proc[p].file
<1>0. /\ Step(p) = "upCreate" /\ Goto(p, "upWrite") /\ UNCHANGED <<rows, mixed>>
      /\ disk' = [disk EXCEPT ![g] = "partial"] /\ linked' = linked \cup {p}
  BY DEF UpCreate, tables
<1>1. /\ ShapeOK' /\ \A q \in Process : \A f : q # p => Stage(q, f)' = Stage(q, f)
      /\ \A f : Stage(p, f)' = IF g = f THEN "upWrite" ELSE "idle"
  <2>1. disk' \in [File -> {"none", "partial", "full"}]
    BY <1>0 DEF ShapeOK
  <2>2. "upWrite" \in UploadSteps \ DeleteSteps
    BY Distinct
  <2> QED
    BY <1>0, <2>1, <2>2, Going
<1>2. SUFFICES ASSUME NEW f \in File \ mixed' PROVE Sound(f)'
  BY <1>1 DEF SoundOK
<1>3. /\ f \in File \ mixed /\ Sound(f) /\ FindLog(f)' = FindLog(f)
      /\ Stage(p, f) = IF g = f THEN "upCreate" ELSE "idle"
  BY <1>0, Distinct DEF SoundOK, Stage, FindLog
<1>4. CASE f # g
  <2>1. Apart(f)
    BY <1>0, <1>1, <1>3, <1>4 DEF Apart, ShapeOK
  <2> QED
    BY <1>3, <2>1, ApartSound
<1>5. CASE f = g
  <2>1. disk'[f] = "partial"
    BY <1>0, <1>5 DEF ShapeOK
  <2> HIDE DEF g
  <2> QED
    BY <1>0, <1>1, <1>3, <1>5, <2>1, Distinct DEF Sound
<1> QED
  BY <1>4, <1>5

LEMMA UpWriteSound ==
  ASSUME ShapeOK, SoundOK, NEW p \in Process, UpWrite(p)
  PROVE  ShapeOK' /\ SoundOK'
<1> DEFINE g == proc[p].file
           s == Saved(p)
<1>0. /\ Step(p) = "upWrite" /\ Goto(p, s) /\ UNCHANGED <<rows, mixed>>
      /\ disk' = IF p \in linked THEN [disk EXCEPT ![g] = "full"] ELSE disk
      /\ linked' = linked \ {p}
  BY DEF UpWrite, tables
<1>1. /\ ShapeOK' /\ \A q \in Process : \A f : q # p => Stage(q, f)' = Stage(q, f)
      /\ \A f : Stage(p, f)' = IF g = f THEN s ELSE "idle"
  <2>1. disk' \in [File -> {"none", "partial", "full"}]
    BY <1>0 DEF ShapeOK
  <2>2. s \in UploadSteps \ DeleteSteps
    BY Distinct
  <2> QED
    BY <1>0, <2>1, <2>2, Going
<1>2. SUFFICES ASSUME NEW f \in File \ mixed' PROVE Sound(f)'
  BY <1>1 DEF SoundOK
<1>3. /\ f \in File \ mixed /\ Sound(f) /\ FindLog(f)' = FindLog(f)
      /\ Stage(p, f) = IF g = f THEN "upWrite" ELSE "idle"
  BY <1>0, Distinct DEF SoundOK, Stage, FindLog
<1>4. CASE f # g
  <2>1. Apart(f)
    BY <1>0, <1>1, <1>3, <1>4 DEF Apart, ShapeOK
  <2> QED
    BY <1>3, <2>1, ApartSound
<1>5. CASE f = g
  <2>1. p \in linked
    BY <1>3, <1>5 DEF Sound
  <2>2. disk'[f] = "full"
    BY <1>0, <1>5, <2>1 DEF ShapeOK
  <2>3. s \in {"upLookup", "upGroup"}
    BY Distinct
  <2> HIDE DEF g, s
  <2> QED
    BY <1>0, <1>1, <1>3, <1>5, <2>2, <2>3, Distinct DEF Sound
<1> QED
  BY <1>4, <1>5

LEMMA UpLookupSound ==
  ASSUME ShapeOK, SoundOK, NEW p \in Process, UpLookup(p)
  PROVE  ShapeOK' /\ SoundOK'
<1> DEFINE g == proc[p].file
<1>0. /\ Step(p) = "upLookup" /\ UNCHANGED <<disk, rows, linked, mixed>>
      /\ IF FindLog(g) THEN Finish(p) ELSE Goto(p, "upInsert")
  BY DEF UpLookup, tables
<1>1. /\ ShapeOK' /\ \A q \in Process : \A f : q # p => Stage(q, f)' = Stage(q, f)
      /\ \A f : Stage(p, f)' = IF g = f /\ ~FindLog(g) THEN "upInsert" ELSE "idle"
  <2>1. disk' \in [File -> {"none", "partial", "full"}]
    BY <1>0 DEF ShapeOK
  <2>2. "upInsert" \in UploadSteps \ DeleteSteps
    BY Distinct
  <2>3. CASE FindLog(g)
    BY <1>0, <2>1, <2>3, Finishing
  <2>4. CASE ~FindLog(g)
    BY <1>0, <2>1, <2>2, <2>4, Going
  <2> QED
    BY <2>3, <2>4
<1>2. SUFFICES ASSUME NEW f \in File \ mixed' PROVE Sound(f)'
  BY <1>1 DEF SoundOK
<1>3. /\ f \in File \ mixed /\ Sound(f) /\ FindLog(f)' = FindLog(f)
      /\ Stage(p, f) = IF g = f THEN "upLookup" ELSE "idle"
  BY <1>0, Distinct DEF SoundOK, Stage, FindLog
<1>4. CASE f # g
  <2>1. Apart(f)
    BY <1>0, <1>1, <1>3, <1>4 DEF Apart
  <2> QED
    BY <1>3, <2>1, ApartSound
<1>5. CASE f = g
  <2> HIDE DEF g
  <2> QED
    BY <1>0, <1>1, <1>3, <1>5, Distinct DEF Sound
<1> QED
  BY <1>4, <1>5

LEMMA InsertSound ==
  ASSUME ShapeOK, SoundOK, NEW p \in Process, NEW e, Insert(p, e),
         Step(p) \in {"upInsert", "upGroupInsert", "upGroupUpdate"}
  PROVE  ShapeOK' /\ SoundOK'
<1> DEFINE g == proc[p].file
           r == [id |-> NextId, file |-> g, entry |-> e, created |-> now]
<1>0. /\ Finish(p) /\ UNCHANGED <<disk, linked, mixed>>
      /\ rows' = rows \cup {r} /\ r.file = g
  BY DEF Insert
<1> HIDE DEF r
<1>1. /\ ShapeOK' /\ \A q \in Process : \A f : q # p => Stage(q, f)' = Stage(q, f)
      /\ \A f : Stage(p, f)' = "idle"
  <2>1. disk' \in [File -> {"none", "partial", "full"}]
    BY <1>0 DEF ShapeOK
  <2> QED
    BY <1>0, <2>1, Finishing
<1>2. SUFFICES ASSUME NEW f \in File \ mixed' PROVE Sound(f)'
  BY <1>1 DEF SoundOK
<1>3. /\ f \in File \ mixed /\ Sound(f)
      /\ Stage(p, f) = IF g = f THEN Step(p) ELSE "idle"
  BY <1>0, Distinct DEF SoundOK, Stage
<1>4. CASE f # g
  <2>1. FindLog(f)' = FindLog(f)
    BY <1>0, <1>4 DEF FindLog
  <2>2. Apart(f)
    BY <1>0, <1>1, <1>3, <1>4, <2>1 DEF Apart
  <2> QED
    BY <1>3, <2>2, ApartSound
<1>5. CASE f = g
  <2>1. FindLog(f)'
    BY <1>0, <1>5 DEF FindLog
  <2> HIDE DEF g
  <2> QED
    BY <1>0, <1>1, <1>3, <1>5, <2>1, Distinct DEF Sound
<1> QED
  BY <1>4, <1>5

LEMMA UpGroupSound ==
  ASSUME ShapeOK, SoundOK, NEW p \in Process, UpGroup(p)
  PROVE  ShapeOK' /\ SoundOK'
<1> DEFINE g == proc[p].file
           e == FindLogGroup(At(p), proc[p].group)
           s == IF e = 0 THEN "upGroupInsert" ELSE "upGroupUpdate"
           r == [proc[p] EXCEPT !.entry = e, !.step = s]
<1>0. /\ Step(p) = "upGroup" /\ UNCHANGED <<disk, rows, linked, mixed>>
      /\ proc' = [proc EXCEPT ![p].entry = e, ![p].step = s]
  BY DEF UpGroup, tables
<1> HIDE DEF e
<1>6. s \in UploadSteps \ DeleteSteps /\ s # "upWrite"
  BY Distinct
<1> HIDE DEF s
<1>7. r = [x \in Fields |-> r[x]] /\ r.step = s /\ r.file = g
  <2>1. proc[p] = [x \in Fields |-> proc[p][x]]
    BY DEF ShapeOK
  <2> QED
    BY <2>1 DEF Fields
<1>8. proc' = [proc EXCEPT ![p] = r]
  BY <1>0
<1> HIDE DEF r
<1>1. /\ ShapeOK' /\ \A q \in Process : \A f : q # p => Stage(q, f)' = Stage(q, f)
      /\ \A f : Stage(p, f)' = IF g = f THEN s ELSE "idle"
  <2>1. disk' \in [File -> {"none", "partial", "full"}]
    BY <1>0 DEF ShapeOK
  <2>2. /\ ShapeOK' /\ \A q \in Process : \A f : q # p => Stage(q, f)' = Stage(q, f)
        /\ proc'[p] = r
    BY <2>1, <1>7, <1>8, OneProcess
  <2> QED
    BY <1>6, <1>7, <2>2 DEF Stage, Step
<1>2. SUFFICES ASSUME NEW f \in File \ mixed' PROVE Sound(f)'
  BY <1>1 DEF SoundOK
<1>3. /\ f \in File \ mixed /\ Sound(f) /\ FindLog(f)' = FindLog(f)
      /\ Stage(p, f) = IF g = f THEN "upGroup" ELSE "idle"
  BY <1>0, Distinct DEF SoundOK, Stage, FindLog
<1>4. CASE f # g
  <2>1. Apart(f)
    BY <1>0, <1>1, <1>3, <1>4 DEF Apart
  <2> QED
    BY <1>3, <2>1, ApartSound
<1>5. CASE f = g
  <2> HIDE DEF g
  <2> QED
    BY <1>0, <1>1, <1>3, <1>5, <1>6, Distinct DEF Sound
<1> QED
  BY <1>4, <1>5

-----------------------------------------------------------------------------
(* Deletions *)

LEMMA DelStatSound ==
  ASSUME ShapeOK, SoundOK, NEW p \in Process, DelStat(p)
  PROVE  ShapeOK' /\ SoundOK'
<1> DEFINE g == Current(p)
           s == IF disk[g] = "none" THEN "delRow" ELSE "delRemove"
<1>0. /\ Step(p) = "delStat" /\ Goto(p, s) /\ UNCHANGED <<disk, rows, linked>>
      /\ mixed' = IF Uploading(g) THEN mixed \cup {g} ELSE mixed
  BY DEF DelStat, tables
<1>1. /\ ShapeOK' /\ \A q \in Process : \A f : q # p => Stage(q, f)' = Stage(q, f)
      /\ \A f : Stage(p, f)' = IF g = f THEN s ELSE "idle"
  <2>1. disk' \in [File -> {"none", "partial", "full"}]
    BY <1>0 DEF ShapeOK
  <2>2. s \in DeleteSteps \ UploadSteps
    BY Distinct
  <2> QED
    BY <1>0, <2>1, <2>2, Going DEF Current
<1>2. SUFFICES ASSUME NEW f \in File \ mixed' PROVE Sound(f)'
  BY <1>1 DEF SoundOK
<1>3. f \in File \ mixed /\ Sound(f) /\ Stage(p, f) = "idle" /\ FindLog(f)' = FindLog(f)
  BY <1>0, Distinct DEF SoundOK, Stage, FindLog
<1>4. CASE f # g
  <2>1. Apart(f)
    BY <1>0, <1>1, <1>3, <1>4 DEF Apart
  <2> QED
    BY <1>3, <2>1, ApartSound
<1>5. CASE f = g
  <2>1. \A q \in Process : Stage(q, f) \notin UploadSteps
    BY <1>0, <1>5, Stages
  <2>2. s \in {"delRow", "delRemove"} /\ (s = "delRow" <=> disk[f] = "none")
    BY <1>5
  <2>3. Stage(p, f)' = s
    BY <1>1, <1>5
  <2> HIDE DEF s, g
  <2> QED
    BY <1>0, <1>1, <1>3, <2>1, <2>2, <2>3, Distinct DEF Sound
<1> QED
  BY <1>4, <1>5

LEMMA DelRemoveSound ==
  ASSUME ShapeOK, SoundOK, NEW p \in Process, DelRemove(p)
  PROVE  ShapeOK' /\ SoundOK'
<1> DEFINE g == Current(p)
<1>0. /\ Step(p) = "delRemove" /\ Goto(p, "delRow") /\ UNCHANGED <<rows, mixed>>
      /\ disk' = [disk EXCEPT ![g] = "none"] /\ linked' = {q \in linked : proc[q].file # g}
  BY DEF DelRemove, tables
<1>1. /\ ShapeOK' /\ \A q \in Process : \A f : q # p => Stage(q, f)' = Stage(q, f)
      /\ \A f : Stage(p, f)' = IF g = f THEN "delRow" ELSE "idle"
  <2>1. disk' \in [File -> {"none", "partial", "full"}]
    BY <1>0 DEF ShapeOK
  <2>2. "delRow" \in DeleteSteps \ UploadSteps
    BY Distinct
  <2> QED
    BY <1>0, <2>1, <2>2, Going DEF Current
<1>2. SUFFICES ASSUME NEW f \in File \ mixed' PROVE Sound(f)'
  BY <1>1 DEF SoundOK
<1>3. /\ f \in File \ mixed /\ Sound(f) /\ FindLog(f)' = FindLog(f)
      /\ Stage(p, f) = IF g = f THEN "delRemove" ELSE "idle"
  BY <1>0, Distinct DEF SoundOK, Stage, FindLog
<1>4. CASE f # g
  <2>1. \A q \in linked : Stage(q, f) = "upWrite" => proc[q].file = f
    BY Distinct DEF Stage
  <2>2. Apart(f)
    <3>1. disk'[f] = disk[f]
      BY <1>0, <1>4 DEF ShapeOK
    <3>2. \A q \in linked : Stage(q, f) = "upWrite" => q \in linked'
      BY <1>0, <1>4, <2>1
    <3>3. \A q \in Process : Stage(q, f)' = Stage(q, f)
      BY <1>1, <1>3, <1>4
    <3> QED
      BY <1>3, <3>1, <3>2, <3>3 DEF Apart
  <2> QED
    BY <1>3, <2>2, ApartSound
<1>5. CASE f = g
  <2>1. disk'[f] = "none"
    BY <1>0, <1>5 DEF ShapeOK
  <2>2. \A q \in Process : Stage(q, f) \notin UploadSteps
    BY <1>3, <1>5, Distinct DEF Sound
  <2> HIDE DEF g
  <2> QED
    BY <1>0, <1>1, <1>3, <1>5, <2>1, <2>2, Distinct DEF Sound
<1> QED
  BY <1>4, <1>5

\* The task goes on with the next file, a handler answers.
LEMMA Refusing ==
  ASSUME ShapeOK, NEW p \in Process, Refuse(p),
         disk' \in [File -> {"none", "partial", "full"}]
  PROVE  /\ ShapeOK'
         /\ \A q \in Process : q # p => proc'[q] = proc[q]
         /\ \A q \in Process : \A f : q # p => Stage(q, f)' = Stage(q, f)
         /\ \A f : Stage(p, f)' = "idle"
         /\ Step(p)' \in {"idle", "delStat"}
<1>1. CASE p \notin Cleaners
  BY <1>1, Finishing DEF Refuse
<1>2. CASE p \in Cleaners
  <2> DEFINE t == Tail(proc[p].todo)
             r == [proc[p] EXCEPT !.step = "delStat", !.todo = t]
  <2>1. proc' = [proc EXCEPT ![p] = r]
    <3>1. proc' = [proc EXCEPT ![p].step = "delStat", ![p].todo = Tail(@)]
      BY <1>2 DEF Refuse
    <3>2. proc[p] = [x \in Fields |-> proc[p][x]]
      BY DEF ShapeOK
    <3> QED
      BY <3>1, <3>2 DEF Fields
  <2> HIDE DEF t
  <2>2. r = [x \in Fields |-> r[x]] /\ r.step = "delStat"
    <3>1. proc[p] = [x \in Fields |-> proc[p][x]]
      BY DEF ShapeOK
    <3> QED
      BY <3>1 DEF Fields
  <2> HIDE DEF r
  <2> QED
    BY <2>1, <2>2, OneProcess, Distinct DEF Stage, Step
<1> QED
  BY <1>1, <1>2

LEMMA DelRemoveGoneSound ==
  ASSUME ShapeOK, SoundOK, NEW p \in Process, DelRemoveGone(p)
  PROVE  ShapeOK' /\ SoundOK'
<1> DEFINE g == Current(p)
<1>0. /\ Step(p) = "delRemove" /\ Refuse(p) /\ UNCHANGED <<disk, rows, linked, mixed>>
      /\ disk[g] = "none"
  BY DEF DelRemoveGone, tables
<1>1. /\ ShapeOK' /\ \A q \in Process : \A f : q # p => Stage(q, f)' = Stage(q, f)
      /\ \A f : Stage(p, f)' = "idle"
  <2>1. disk' \in [File -> {"none", "partial", "full"}]
    BY <1>0 DEF ShapeOK
  <2> QED
    BY <1>0, <2>1, Refusing
<1>2. SUFFICES ASSUME NEW f \in File \ mixed' PROVE Sound(f)'
  BY <1>1 DEF SoundOK
<1>3. /\ f \in File \ mixed /\ Sound(f) /\ FindLog(f)' = FindLog(f)
      /\ Stage(p, f) = IF g = f THEN "delRemove" ELSE "idle"
  BY <1>0, Distinct DEF SoundOK, Stage, FindLog
<1>4. CASE f # g
  <2>1. Apart(f)
    BY <1>0, <1>1, <1>3, <1>4 DEF Apart
  <2> QED
    BY <1>3, <2>1, ApartSound
<1>5. CASE f = g
  <2> HIDE DEF g
  <2> QED
    BY <1>0, <1>1, <1>3, <1>5, Distinct DEF Sound
<1> QED
  BY <1>4, <1>5

LEMMA DelRowSound ==
  ASSUME ShapeOK, SoundOK, NEW p \in Process, DelRow(p)
  PROVE  ShapeOK' /\ SoundOK'
<1> DEFINE g == Current(p)
           t == Tail(proc[p].todo)
           r == [proc[p] EXCEPT !.step = "delStat", !.todo = t]
<1>0. /\ Step(p) = "delRow" /\ UNCHANGED <<disk, linked, mixed>>
      /\ rows' = {q \in rows : q.file # g}
      /\ proc' = [proc EXCEPT ![p].step = "delStat", ![p].todo = Tail(@)]
  BY DEF DelRow, Deleted
<1>1. /\ ShapeOK' /\ \A q \in Process : \A f : q # p => Stage(q, f)' = Stage(q, f)
      /\ \A f : Stage(p, f)' = "idle"
  <2>1. proc' = [proc EXCEPT ![p] = r]
    <3>1. proc[p] = [x \in Fields |-> proc[p][x]]
      BY DEF ShapeOK
    <3> QED
      BY <1>0, <3>1 DEF Fields
  <2> HIDE DEF t
  <2>2. r = [x \in Fields |-> r[x]] /\ r.step = "delStat"
    <3>1. proc[p] = [x \in Fields |-> proc[p][x]]
      BY DEF ShapeOK
    <3> QED
      BY <3>1 DEF Fields
  <2> HIDE DEF r
  <2>3. disk' \in [File -> {"none", "partial", "full"}]
    BY <1>0 DEF ShapeOK
  <2> QED
    BY <2>1, <2>2, <2>3, OneProcess, Distinct DEF Stage, Step
<1>2. SUFFICES ASSUME NEW f \in File \ mixed' PROVE Sound(f)'
  BY <1>1 DEF SoundOK
<1>3. /\ f \in File \ mixed /\ Sound(f)
      /\ Stage(p, f) = IF g = f THEN "delRow" ELSE "idle"
  BY <1>0, Distinct DEF SoundOK, Stage
<1>4. CASE f # g
  <2>1. FindLog(f)' = FindLog(f)
    BY <1>0, <1>4 DEF FindLog
  <2>2. Apart(f)
    BY <1>0, <1>1, <1>3, <1>4, <2>1 DEF Apart
  <2> QED
    BY <1>3, <2>2, ApartSound
<1>5. CASE f = g
  <2>1. ~FindLog(f)'
    BY <1>0, <1>5 DEF FindLog
  <2> HIDE DEF g
  <2> QED
    BY <1>0, <1>1, <1>3, <1>5, <2>1, Distinct DEF Sound
<1> QED
  BY <1>4, <1>5

-----------------------------------------------------------------------------
(* Steps that are no file's *)

LEMMA OutsideSound ==
  ASSUME ShapeOK, SoundOK, NEW p \in Process, NEW r, r = [x \in Fields |-> r[x]],
         proc' = [proc EXCEPT ![p] = r], UNCHANGED <<disk, rows, linked, mixed>>,
         Step(p) \notin UploadSteps \cup DeleteSteps, r.step \notin UploadSteps \cup DeleteSteps
  PROVE  ShapeOK' /\ SoundOK'
<1>1. /\ ShapeOK' /\ \A q \in Process : \A f : q # p => Stage(q, f)' = Stage(q, f)
      /\ proc'[p] = r
  <2>1. disk' \in [File -> {"none", "partial", "full"}]
    BY DEF ShapeOK
  <2> QED
    BY <2>1, OneProcess
<1>2. SUFFICES ASSUME NEW f \in File \ mixed' PROVE Sound(f)'
  BY <1>1 DEF SoundOK
<1>3. Stage(p, f) = "idle" /\ Stage(p, f)' = "idle" /\ FindLog(f)' = FindLog(f)
  BY <1>1 DEF Stage, Step, FindLog
<1>4. Sound(f) /\ Apart(f)
  BY <1>1, <1>3 DEF Apart, SoundOK
<1> QED
  BY <1>4, ApartSound

COROLLARY OutsideGoto ==
  ASSUME ShapeOK, SoundOK, NEW p \in Process, NEW s, Goto(p, s) \/ Finish(p),
         UNCHANGED <<disk, rows, linked, mixed>>,
         Step(p) \notin UploadSteps \cup DeleteSteps, s \notin UploadSteps \cup DeleteSteps
  PROVE  ShapeOK' /\ SoundOK'
<1>1. CASE Goto(p, s)
  <2> DEFINE r == [proc[p] EXCEPT !.step = s]
  <2>1. r = [x \in Fields |-> r[x]] /\ r.step = s
    BY StepUpdated
  <2>2. proc' = [proc EXCEPT ![p] = r]
    BY <1>1 DEF Goto
  <2> HIDE DEF r
  <2> QED
    BY <2>1, <2>2, OutsideSound
<1>2. CASE Finish(p)
  <2> DEFINE r == Idle(p)
  <2>1. r.step = "idle" /\ r = [x \in Fields |-> r[x]] /\ proc' = [proc EXCEPT ![p] = r]
    BY <1>2, IdleShape DEF Finish
  <2> HIDE DEF r
  <2> QED
    BY <2>1, OutsideSound, Distinct
<1> QED
  BY <1>1, <1>2

LEMMA BeginSound ==
  ASSUME ShapeOK, SoundOK, NEW p \in Process, Begin(p)
  PROVE  ShapeOK' /\ SoundOK'
<1>0. Step(p) = "idle" /\ UNCHANGED <<disk, rows, linked, mixed>>
  BY DEF Begin, BeginUpload, BeginDelete, BeginDeleteGroup, tables
<1>1. ASSUME NEW f, NEW g, BeginUpload(p, f, g) PROVE ShapeOK' /\ SoundOK'
  <2> DEFINE r == [step |-> "upStat", kind |-> "upload", file |-> f, group |-> g, entry |-> 0,
                   at |-> Home[f], ids |-> <<>>, todo |-> <<>>]
  <2>1. proc' = [proc EXCEPT ![p] = r] /\ r = [x \in Fields |-> r[x]] /\ r.step = "upStat"
    BY <1>1 DEF BeginUpload, Fields
  <2> HIDE DEF r
  <2> QED
    BY <1>0, <2>1, OutsideSound, Distinct
<1>2. ASSUME NEW m, NEW fs, BeginDelete(p, m, fs) PROVE ShapeOK' /\ SoundOK'
  <2> DEFINE r == [step |-> "delStat", kind |-> "delete", file |-> NoFile, group |-> NoGroup,
                   entry |-> 0, at |-> m, ids |-> fs, todo |-> fs]
  <2>1. proc' = [proc EXCEPT ![p] = r] /\ r = [x \in Fields |-> r[x]] /\ r.step = "delStat"
    BY <1>2 DEF BeginDelete, Fields
  <2> HIDE DEF r
  <2> QED
    BY <1>0, <2>1, OutsideSound, Distinct
<1>3. ASSUME NEW m, NEW g, BeginDeleteGroup(p, m, g) PROVE ShapeOK' /\ SoundOK'
  <2> DEFINE r == [step |-> "groupFind", kind |-> "deleteGroup", file |-> NoFile, group |-> g,
                   entry |-> 0, at |-> m, ids |-> <<>>, todo |-> <<>>]
  <2>1. proc' = [proc EXCEPT ![p] = r] /\ r = [x \in Fields |-> r[x]] /\ r.step = "groupFind"
    BY <1>3 DEF BeginDeleteGroup, Fields
  <2> HIDE DEF r
  <2> QED
    BY <1>0, <2>1, OutsideSound, Distinct
<1> QED
  BY <1>1, <1>2, <1>3 DEF Begin

\* The way of a deletion from file to file.
LEMMA WaySound ==
  ASSUME ShapeOK, SoundOK, NEW p \in Process,
         GroupFind(p) \/ GroupLast(p) \/ Proxy(p) \/ DelOver(p)
  PROVE  ShapeOK' /\ SoundOK'
<1>0. UNCHANGED <<disk, rows, linked, mixed>> /\ Step(p) \in {"groupFind", "groupLast", "delStat"}
  BY DEF GroupFind, GroupLast, Proxy, DelOver, tables
<1>1. proc[p] = [x \in Fields |-> proc[p][x]]
  BY DEF ShapeOK
<1>2. CASE GroupFind(p)
  <2> DEFINE e == FindLogGroup(At(p), proc[p].group)
             t == FilesOf(Ordered({r \in rows : r.entry = e}))
             r == [proc[p] EXCEPT !.step = "delStat", !.todo = t]
  <2>1. e = 0 => Finish(p)
    BY <1>2 DEF GroupFind
  <2>2. e # 0 => proc' = [proc EXCEPT ![p] = r]
    BY <1>1, <1>2 DEF GroupFind, Fields
  <2> HIDE DEF e, t
  <2>3. r = [x \in Fields |-> r[x]] /\ r.step = "delStat"
    BY <1>1 DEF Fields
  <2> HIDE DEF r
  <2> QED
    BY <1>0, <2>1, <2>2, <2>3, OutsideSound, OutsideGoto, Distinct
<1>3. CASE GroupLast(p)
  BY <1>0, <1>3, OutsideGoto, Distinct DEF GroupLast
<1>4. CASE Proxy(p)
  <2> DEFINE r == [proc[p] EXCEPT !.at = Home[Current(p)], !.todo = proc[p].ids]
  <2>1. r = [x \in Fields |-> r[x]] /\ r.step = Step(p)
    BY <1>1 DEF Fields, Step
  <2>2. proc' = [proc EXCEPT ![p] = r]
    BY <1>1, <1>4 DEF Proxy, Fields
  <2> HIDE DEF r
  <2> QED
    BY <1>0, <2>1, <2>2, OutsideSound, Distinct
<1>5. CASE DelOver(p)
  <2>1. Goto(p, "groupLast") \/ Goto(p, "cleanTimeout") \/ Finish(p)
    BY <1>5 DEF DelOver
  <2> QED
    BY <1>0, <2>1, OutsideGoto, Distinct
<1> QED
  BY <1>2, <1>3, <1>4, <1>5

\* The steps of the task between its deletions.
LEMMA CleanSound ==
  ASSUME ShapeOK, SoundOK, NEW m \in Machine, CleanCount(m) \/ CleanOldest(m) \/ CleanTimeout(m)
  PROVE  ShapeOK' /\ SoundOK'
<1> DEFINE p == Cleaner(m)
<1>0. /\ p \in Process /\ UNCHANGED <<disk, rows, linked, mixed>>
      /\ Step(p) \in {"idle", "cleanOldest", "cleanTimeout"}
  BY DEF CleanCount, CleanOldest, CleanTimeout, tables, Process, Cleaners
<1> HIDE DEF p
<1>1. proc[p] = [x \in Fields |-> proc[p][x]]
  BY <1>0 DEF ShapeOK
<1>2. CASE CleanCount(m)
  <2>1. PICK s \in {"cleanOldest", "cleanTimeout"} :
          proc' = [proc EXCEPT ![p].step = s, ![p].kind = "bySize"]
    BY <1>2 DEF CleanCount, p
  <2> DEFINE r == [proc[p] EXCEPT !.step = s, !.kind = "bySize"]
  <2>2. r = [x \in Fields |-> r[x]] /\ r.step = s
    BY <1>1 DEF Fields
  <2>3. proc' = [proc EXCEPT ![p] = r]
    BY <1>1, <2>1 DEF Fields
  <2> HIDE DEF r
  <2> QED
    BY <1>0, <2>2, <2>3, OutsideSound, Distinct
<1>3. CASE CleanOldest(m)
  <2> DEFINE t == FilesOf(FirstRows(Ordered(RowsAt(m))))
             r == [proc[p] EXCEPT !.step = "delStat", !.todo = t]
  <2>1. proc' = [proc EXCEPT ![p].step = "delStat", ![p].todo = t]
    BY <1>3 DEF CleanOldest, p
  <2> HIDE DEF t
  <2>2. r = [x \in Fields |-> r[x]] /\ r.step = "delStat"
    BY <1>1 DEF Fields
  <2>3. proc' = [proc EXCEPT ![p] = r]
    BY <1>1, <2>1 DEF Fields
  <2> HIDE DEF r
  <2> QED
    BY <1>0, <2>2, <2>3, OutsideSound, Distinct
<1>4. CASE CleanTimeout(m)
  <2> DEFINE t == FilesOf(FirstRows(Reverse(Ordered({r \in RowsAt(m) : Old(r)}))))
             v == [proc[p] EXCEPT !.step = "delStat", !.kind = "byTime"]
             r == [v EXCEPT !.todo = t]
  <2>1. proc' = [proc EXCEPT ![p].step = "delStat", ![p].kind = "byTime", ![p].todo = t]
    BY <1>4 DEF CleanTimeout, p
  <2> HIDE DEF t
  <2>2. v = [x \in Fields |-> v[x]] /\ v.step = "delStat"
    BY <1>1 DEF Fields
  <2>3. proc' = [proc EXCEPT ![p] = r]
    BY <1>1, <2>1 DEF Fields
  <2> HIDE DEF v
  <2>4. r = [x \in Fields |-> r[x]] /\ r.step = "delStat"
    BY <2>2 DEF Fields
  <2> HIDE DEF r
  <2> QED
    BY <1>0, <2>3, <2>4, OutsideSound, Distinct
<1> QED
  BY <1>2, <1>3, <1>4

-----------------------------------------------------------------------------
(* Failures *)

LEMMA FailSound ==
  ASSUME ShapeOK, SoundOK, NEW p \in Process, Fail(p)
  PROVE  ShapeOK' /\ SoundOK'
<1>0. /\ Refuse(p) /\ UNCHANGED <<disk, rows>>
      /\ mixed' = mixed \cup WorksOn(p) /\ linked' = linked \ {p}
  BY Distinct DEF Fail, tables
<1>1. /\ ShapeOK' /\ \A q \in Process : \A f : q # p => Stage(q, f)' = Stage(q, f)
      /\ \A f : Stage(p, f)' = "idle"
  <2>1. disk' \in [File -> {"none", "partial", "full"}]
    BY <1>0 DEF ShapeOK
  <2> QED
    BY <1>0, <2>1, Refusing
<1>2. SUFFICES ASSUME NEW f \in File \ mixed' PROVE Sound(f)'
  BY <1>1 DEF SoundOK
<1>3. f \in File \ mixed /\ Sound(f) /\ Stage(p, f) = "idle" /\ FindLog(f)' = FindLog(f)
  BY <1>0, Distinct DEF SoundOK, Stage, FindLog, WorksOn
<1>4. Apart(f)
  BY <1>0, <1>1, <1>3 DEF Apart
<1> QED
  BY <1>3, <1>4, ApartSound

\* A failed query of the task of m.
Stops(m, c) ==
  \/ /\ Step(c) \in {"idle", "cleanOldest"} /\ missed' = missed \cup {m}
     /\ proc' = [proc EXCEPT ![c].step = "cleanTimeout", ![c].kind = "bySize"]
  \/ Step(c) = "cleanTimeout" /\ Finish(c) /\ missed' = missed

LEMMA QueryStops ==
  ASSUME NEW m \in Machine, FailQuery(m)
  PROVE  /\ Stops(m, Cleaner(m))
         /\ UNCHANGED <<disk, rows, groups, now, linked, excess, added, mixed>>
BY DEF FailQuery, Stops, tables

LEMMA FailQuerySound ==
  ASSUME ShapeOK, SoundOK, NEW m \in Machine, FailQuery(m)
  PROVE  ShapeOK' /\ SoundOK'
<1>0. PICK p \in Process : Stops(m, p) /\ UNCHANGED <<disk, rows, linked, mixed>>
  BY QueryStops DEF Process, Cleaners
<1>1. CASE Finish(p)
  BY <1>0, <1>1, OutsideGoto, Distinct DEF Stops
<1>2. CASE ~Finish(p)
  <2> DEFINE r == [proc[p] EXCEPT !.step = "cleanTimeout", !.kind = "bySize"]
  <2>1. proc[p] = [x \in Fields |-> proc[p][x]]
    BY <1>0 DEF ShapeOK
  <2>2. r = [x \in Fields |-> r[x]] /\ r.step = "cleanTimeout"
    BY <2>1 DEF Fields
  <2>3. proc' = [proc EXCEPT ![p] = r]
    BY <1>0, <1>2, <2>1 DEF Fields, Stops
  <2> HIDE DEF r
  <2> QED
    BY <1>0, <1>2, <2>2, <2>3, OutsideSound, Distinct DEF Stops
<1> QED
  BY <1>1, <1>2

LEMMA CrashSound ==
  ASSUME ShapeOK, SoundOK, NEW m \in Machine, Crash(m)
  PROVE  ShapeOK' /\ SoundOK'
<1> DEFINE dead == {p \in Process : At(p) = m /\ Step(p) # "idle"}
<1>0. /\ UNCHANGED <<disk, rows>> /\ linked' = linked \ dead
      /\ mixed' = mixed \cup UNION {WorksOn(p) : p \in dead}
      /\ proc' = [p \in Process |-> IF p \in dead THEN Idle(p) ELSE proc[p]]
  BY DEF Crash, tables
<1>1. ShapeOK'
  BY <1>0, IdleShape DEF ShapeOK
<1>2. SUFFICES ASSUME NEW f \in File \ mixed' PROVE Sound(f)'
  BY <1>1 DEF SoundOK
<1>3. f \in File \ mixed /\ Sound(f) /\ FindLog(f)' = FindLog(f)
  BY <1>0 DEF SoundOK, FindLog
<1>4. \A p \in dead : Stage(p, f) = "idle"
  BY <1>0, Distinct DEF Stage, WorksOn
<1>5. \A p \in dead : Stage(p, f)' = "idle"
  BY <1>0, IdleShape, Distinct DEF Stage, Step
<1>6. \A p \in Process \ dead : Stage(p, f)' = Stage(p, f)
  BY <1>0 DEF Stage, Step, Current
<1> HIDE DEF dead
<1>7. Apart(f)
  BY <1>0, <1>3, <1>4, <1>5, <1>6 DEF Apart
<1> QED
  BY <1>3, <1>7, ApartSound

-----------------------------------------------------------------------------
(* Theorems *)

LEMMA NextSound ==
  ASSUME ShapeOK, SoundOK, [Next]_vars
  PROVE  ShapeOK' /\ SoundOK'
<1>1. \A p \in Request : p \in Process
  BY DEF Process
<1>2. \A m \in Machine : Cleaner(m) \in Process
  BY DEF Process, Cleaners
<1>3. ASSUME NEW p \in Process, Upload(p) PROVE ShapeOK' /\ SoundOK'
  <2>1. CASE UpInsert(p) \/ UpGroupInsert(p) \/ UpGroupUpdate(p)
    BY <2>1, InsertSound DEF UpInsert, UpGroupInsert, UpGroupUpdate
  <2> QED
    BY <1>3, <2>1, UpStatSound, UpCreateSound, UpWriteSound, UpLookupSound, UpGroupSound
    DEF Upload
<1>4. ASSUME NEW p \in Process, Delete(p) PROVE ShapeOK' /\ SoundOK'
  BY <1>4, DelStatSound, DelRemoveSound, DelRemoveGoneSound, DelRowSound, WaySound DEF Delete
<1>5. CASE Tick \/ UNCHANGED vars
  <2>1. UNCHANGED <<disk, rows, proc, linked, mixed>>
    BY <1>5 DEF Tick, vars, tables
  <2>2. ShapeOK'
    BY <2>1 DEF ShapeOK
  <2>3. \A f, p : Stage(p, f)' = Stage(p, f) /\ FindLog(f)' = FindLog(f)
    BY <2>1 DEF Stage, Step, Current, FindLog
  <2>4. \A f : Apart(f)
    BY <2>1, <2>3 DEF Apart
  <2> QED
    BY <2>1, <2>2, <2>4, ApartSound DEF SoundOK
<1>6. ASSUME NEW m \in Machine, Clean(m) \/ FailQuery(m) \/ Crash(m) PROVE ShapeOK' /\ SoundOK'
  BY <1>2, <1>4, <1>6, CleanSound, FailQuerySound, CrashSound DEF Clean
<1> QED
  BY <1>1, <1>3, <1>4, <1>5, <1>6, BeginSound, FailSound DEF Next

LEMMA InitSound ==
  ASSUME Init
  PROVE  ShapeOK /\ SoundOK
<1>1. ShapeOK
  BY IdleShape DEF Init, ShapeOK
<1>2. \A p \in Process : \A f : Stage(p, f) = "idle"
  BY IdleShape, Distinct DEF Init, Stage, Step
<1>3. \A f \in File : disk[f] = "none" /\ ~FindLog(f)
  BY DEF Init, FindLog
<1> QED
  BY <1>1, <1>2, <1>3, Distinct DEF SoundOK, Sound

\* Whatever uploads and deletions of a file run at the same time: when they are
\* through, the file is there, and whole, exactly when it has a row, unless an
\* upload met a deletion, a failure or a crash.
THEOREM FilesAgreeWithRows == Spec => []FilesMatchRows
<1>1. Init => ShapeOK /\ SoundOK
  BY InitSound
<1>2. ShapeOK /\ SoundOK /\ [Next]_vars => (ShapeOK /\ SoundOK)'
  BY NextSound
<1>3. ShapeOK /\ SoundOK => FilesMatchRows
  <2> SUFFICES ASSUME ShapeOK, SoundOK, NEW f \in File \ mixed, ~Uploading(f), ~Deleting(f)
               PROVE  disk[f] = "full" <=> FindLog(f)
    BY DEF FilesMatchRows
  <2>1. Sound(f) /\ disk[f] \in {"none", "partial", "full"}
    BY DEF SoundOK, ShapeOK
  <2>2. \A p \in Process : Stage(p, f) \notin UploadSteps \cup DeleteSteps
    BY Stages
  <2> QED
    BY <2>1, <2>2, Distinct DEF Sound
<1> QED
  BY <1>1, <1>2, <1>3, PTL DEF Spec

-----------------------------------------------------------------------------
(* Entries of a group *)

Entry == [home : Machine, id : Group, live : BOOLEAN]

GroupSteps == {"upGroup", "upGroupInsert", "upGroupUpdate"}

AskSteps == UploadSteps \cup {"upStat"}

\* An upload that comes to the groups has one, and a machine.
AskOK ==
  \A p \in Process :
    /\ Step(p) \in AskSteps => At(p) \in Machine /\ proc[p].group \in Group \cup {NoGroup}
    /\ Step(p) \in GroupSteps => proc[p].group \in Group

GroupInv == groups \in Seq(Entry) /\ AskOK /\ GroupEntriesBounded

\* Process p does not come to the groups.
Keeps(p) ==
  /\ Step(p)' \in AskSteps =>
       /\ Step(p) \in AskSteps
       /\ At(p)' = At(p) /\ proc'[p].group = proc[p].group
       /\ Step(p)' \in GroupSteps => Step(p) \in GroupSteps \/ proc[p].group # NoGroup
  /\ Step(p)' = "upGroupInsert" => Step(p) = "upGroupInsert"

LEMMA StayKeeps ==
  ASSUME NEW p, proc'[p] = proc[p]
  PROVE  Keeps(p)
BY DEF Keeps, Step, At

LEMMA KeepsAsk ==
  ASSUME AskOK, \A p \in Process : Keeps(p)
  PROVE  AskOK'
<1> SUFFICES ASSUME NEW p \in Process
             PROVE  /\ Step(p)' \in AskSteps =>
                         At(p)' \in Machine /\ proc'[p].group \in Group \cup {NoGroup}
                    /\ Step(p)' \in GroupSteps => proc'[p].group \in Group
  BY DEF AskOK
<1>1. GroupSteps \subseteq AskSteps
  BY DEF GroupSteps, AskSteps, UploadSteps
<1> QED
  BY <1>1 DEF AskOK, Keeps

LEMMA EntriesFinite ==
  ASSUME groups \in Seq(Entry), NEW m, NEW g
  PROVE  /\ IsFiniteSet(LiveEntries(m, g)) /\ Cardinality(LiveEntries(m, g)) \in Nat
         /\ IsFiniteSet(Inserting(m, g)) /\ Cardinality(Inserting(m, g)) \in Nat
         /\ Cardinality(Inserting(m, g)) <= Cardinality(Request) /\ Cardinality(Request) \in Nat
<1>1. IsFiniteSet(1 .. Len(groups)) /\ LiveEntries(m, g) \subseteq 1 .. Len(groups)
  BY FS_Interval DEF LiveEntries
<1>2. Inserting(m, g) \subseteq Request /\ IsFiniteSet(Request)
  BY BoundAssumption DEF Inserting
<1> QED
  BY <1>1, <1>2, FS_Subset, FS_CardinalityType

\* Entries and inserts to come get fewer.
LEMMA FewerKeeps ==
  ASSUME GroupInv, groups' \in Seq(Entry), AskOK',
         \A m \in Machine, g \in Group :
           /\ LiveEntries(m, g)' \subseteq LiveEntries(m, g)
           /\ Inserting(m, g)' \subseteq Inserting(m, g)
  PROVE  GroupInv'
<1> SUFFICES ASSUME NEW m \in Machine, NEW g \in Group
             PROVE  Cardinality(LiveEntries(m, g)') + Cardinality(Inserting(m, g)')
                      <= Cardinality(Request)
  BY DEF GroupInv, GroupEntriesBounded
<1>1. /\ Cardinality(LiveEntries(m, g)') <= Cardinality(LiveEntries(m, g))
      /\ Cardinality(LiveEntries(m, g)') \in Nat /\ Cardinality(LiveEntries(m, g)) \in Nat
  BY EntriesFinite, FS_Subset, FS_CardinalityType DEF GroupInv
<1>2. /\ Cardinality(Inserting(m, g)') <= Cardinality(Inserting(m, g))
      /\ Cardinality(Inserting(m, g)') \in Nat /\ Cardinality(Inserting(m, g)) \in Nat
  BY EntriesFinite, FS_Subset, FS_CardinalityType DEF GroupInv
<1>3. Cardinality(LiveEntries(m, g)) + Cardinality(Inserting(m, g)) <= Cardinality(Request)
  BY DEF GroupInv, GroupEntriesBounded
<1>4. Cardinality(Request) \in Nat
  BY BoundAssumption, FS_CardinalityType
<1> QED
  BY <1>1, <1>2, <1>3, <1>4

LEMMA QuietKeeps ==
  ASSUME GroupInv, groups' = groups, \A p \in Process : Keeps(p)
  PROVE  GroupInv'
<1>1. AskOK' /\ groups' \in Seq(Entry)
  BY KeepsAsk DEF GroupInv
<1>2. \A m, g : LiveEntries(m, g)' \subseteq LiveEntries(m, g)
  BY DEF LiveEntries
<1>3. \A m, g : Inserting(m, g)' \subseteq Inserting(m, g)
  <2> SUFFICES ASSUME NEW m, NEW g, NEW p \in Request, Step(p)' = "upGroupInsert", At(p)' = m,
                      proc'[p].group = g
               PROVE  Step(p) = "upGroupInsert" /\ At(p) = m /\ proc[p].group = g
    BY DEF Inserting
  <2>1. p \in Process /\ "upGroupInsert" \in AskSteps
    BY DEF Process, AskSteps, UploadSteps
  <2> QED
    BY <2>1 DEF Keeps
<1> QED
  BY <1>1, <1>2, <1>3, FewerKeeps

\* A process that goes where no upload is.
COROLLARY AwayKeeps ==
  ASSUME GroupInv, groups' = groups, NEW p \in Process, Step(p)' \notin AskSteps,
         \A q \in Process : q # p => proc'[q] = proc[q]
  PROVE  GroupInv'
<1>1. Keeps(p)
  BY DEF Keeps, AskSteps, UploadSteps
<1>2. \A q \in Process : Keeps(q)
  BY <1>1, StayKeeps
<1> QED
  BY <1>2, QuietKeeps

COROLLARY GotoKeeps ==
  ASSUME ShapeOK, GroupInv, groups' = groups, NEW p \in Process, NEW s, Goto(p, s),
         Step(p) \in AskSteps, s # "upGroupInsert",
         s \in GroupSteps => Step(p) \in GroupSteps \/ proc[p].group # NoGroup
  PROVE  GroupInv'
<1> DEFINE r == [proc[p] EXCEPT !.step = s]
<1>1. r.step = s /\ r.at = proc[p].at /\ r.group = proc[p].group
  BY StepUpdated DEF Fields
<1>2. proc'[p] = r /\ \A q \in Process : q # p => proc'[q] = proc[q]
  BY DEF Goto, ShapeOK
<1> HIDE DEF r
<1>3. Keeps(p)
  BY <1>1, <1>2 DEF Keeps, Step, At
<1>4. \A q \in Process : Keeps(q)
  BY <1>2, <1>3, StayKeeps
<1> QED
  BY <1>4, QuietKeeps

\* Steps that go where no upload is.
LEMMA Away ==
  ASSUME ShapeOK, NEW p \in Process,
         \/ Finish(p)
         \/ \E s : s \notin AskSteps /\ (Goto(p, s) \/ \E t : proc' = [proc EXCEPT ![p].step = s, ![p].todo = t])
         \/ Refuse(p) \/ Deleted(p)
  PROVE  Step(p)' \notin AskSteps /\ \A q \in Process : q # p => proc'[q] = proc[q]
<1>0. {"idle", "delStat"} \cap AskSteps = {}
  BY DEF AskSteps, UploadSteps
<1>1. proc[p] = [x \in Fields |-> proc[p][x]] /\ proc = [q \in Process |-> proc[q]]
  BY DEF ShapeOK
<1>2. CASE Finish(p)
  BY <1>0, <1>1, <1>2, IdleShape DEF Finish, Step
<1>3. ASSUME NEW s, s \notin AskSteps, Goto(p, s)
      PROVE  Step(p)' \notin AskSteps /\ \A q \in Process : q # p => proc'[q] = proc[q]
  BY <1>1, <1>3 DEF Goto, Step, Fields
<1>4. ASSUME NEW s, s \notin AskSteps, NEW t, proc' = [proc EXCEPT ![p].step = s, ![p].todo = t]
      PROVE  Step(p)' \notin AskSteps /\ \A q \in Process : q # p => proc'[q] = proc[q]
  <2>1. proc'[p].step = s /\ \A q \in Process : q # p => proc'[q] = proc[q]
    BY <1>1, <1>4 DEF Fields
  <2> QED
    BY <1>4, <2>1 DEF Step
<1>5. ASSUME proc' = [proc EXCEPT ![p].step = "delStat", ![p].todo = Tail(@)]
      PROVE  Step(p)' \notin AskSteps /\ \A q \in Process : q # p => proc'[q] = proc[q]
  <2>1. proc'[p].step = "delStat" /\ \A q \in Process : q # p => proc'[q] = proc[q]
    BY <1>1, <1>5 DEF Fields
  <2> QED
    BY <1>0, <2>1 DEF Step
<1> QED
  BY <1>2, <1>3, <1>4, <1>5 DEF Refuse, Deleted

LEMMA BeginGroups ==
  ASSUME ShapeOK, GroupInv, NEW p \in Process, Begin(p)
  PROVE  GroupInv'
<1>0. groups' = groups /\ proc = [q \in Process |-> proc[q]]
  BY DEF Begin, BeginUpload, BeginDelete, BeginDeleteGroup, tables, ShapeOK
<1>1. ASSUME NEW u \in Uploads, BeginUpload(p, u[1], u[2]) PROVE GroupInv'
  <2>1. u[1] \in File /\ u[2] \in Group \cup {NoGroup}
    BY BoundAssumption
  <2>2. Home[u[1]] \in Machine
    BY <2>1, HomeAssumption
  <2> DEFINE f == u[1]
             g == u[2]
             r == [step |-> "upStat", kind |-> "upload", file |-> f, group |-> g, entry |-> 0,
                   at |-> Home[f], ids |-> <<>>, todo |-> <<>>]
  <2>3. proc' = [proc EXCEPT ![p] = r]
    BY <1>1 DEF BeginUpload
  <2>4. r.step = "upStat" /\ r.at \in Machine /\ r.group \in Group \cup {NoGroup}
    BY <2>1, <2>2
  <2> HIDE DEF f, g, r
  <2>5. proc'[p] = r /\ \A q \in Process : q # p => proc'[q] = proc[q]
    BY <1>0, <2>3
  <2>6. AskOK'
    <3>1. "upStat" \notin GroupSteps
      BY DEF GroupSteps
    <3> QED
      BY <2>4, <2>5, <3>1 DEF GroupInv, AskOK, Step, At
  <2>7. \A m, g_1 : LiveEntries(m, g_1)' \subseteq LiveEntries(m, g_1)
    BY <1>0 DEF LiveEntries
  <2>8. \A m, g_1 : Inserting(m, g_1)' \subseteq Inserting(m, g_1)
    BY <2>4, <2>5 DEF Inserting, Step, At, Process
  <2> QED
    BY <1>0, <2>6, <2>7, <2>8, FewerKeeps DEF GroupInv
<1>2. ASSUME NEW m, NEW fs, BeginDelete(p, m, fs) PROVE GroupInv'
  <2> DEFINE r == [step |-> "delStat", kind |-> "delete", file |-> NoFile, group |-> NoGroup,
                   entry |-> 0, at |-> m, ids |-> fs, todo |-> fs]
  <2>1. proc' = [proc EXCEPT ![p] = r] /\ r.step = "delStat"
    BY <1>2 DEF BeginDelete
  <2> HIDE DEF r
  <2>2. Step(p)' \notin AskSteps /\ \A q \in Process : q # p => proc'[q] = proc[q]
    BY <1>0, <2>1 DEF Step, AskSteps, UploadSteps
  <2> QED
    BY <1>0, <2>2, AwayKeeps
<1>3. ASSUME NEW m, NEW g, BeginDeleteGroup(p, m, g) PROVE GroupInv'
  <2> DEFINE r == [step |-> "groupFind", kind |-> "deleteGroup", file |-> NoFile, group |-> g,
                   entry |-> 0, at |-> m, ids |-> <<>>, todo |-> <<>>]
  <2>1. proc' = [proc EXCEPT ![p] = r] /\ r.step = "groupFind"
    BY <1>3 DEF BeginDeleteGroup
  <2> HIDE DEF r
  <2>2. Step(p)' \notin AskSteps /\ \A q \in Process : q # p => proc'[q] = proc[q]
    BY <1>0, <2>1 DEF Step, AskSteps, UploadSteps
  <2> QED
    BY <1>0, <2>2, AwayKeeps
<1> QED
  BY <1>1, <1>2, <1>3 DEF Begin

\* Steps of an upload up to the groups.
LEMMA UploadGroups ==
  ASSUME ShapeOK, GroupInv, NEW p \in Process,
         UpStat(p) \/ UpCreate(p) \/ UpWrite(p) \/ UpLookup(p) \/ UpInsert(p) \/ UpGroupUpdate(p)
  PROVE  GroupInv'
<1>0. groups' = groups /\ Step(p) \in AskSteps
  BY DEF UpStat, UpCreate, UpWrite, UpLookup, UpInsert, UpGroupUpdate, Insert, tables, AskSteps,
     UploadSteps
<1>1. Saved(p) # "upGroupInsert" /\ (Saved(p) \in GroupSteps => proc[p].group # NoGroup)
  BY DEF Saved, GroupSteps
<1>2. CASE UpStat(p)
  <2>1. Goto(p, "upCreate") \/ Goto(p, Saved(p))
    BY <1>2 DEF UpStat
  <2>2. "upCreate" \notin GroupSteps
    BY DEF GroupSteps
  <2> QED
    BY <1>0, <1>1, <2>1, <2>2, GotoKeeps
<1>3. CASE UpCreate(p)
  BY <1>0, <1>3, GotoKeeps DEF UpCreate, GroupSteps
<1>4. CASE UpWrite(p)
  BY <1>0, <1>1, <1>4, GotoKeeps DEF UpWrite
<1>5. CASE UpLookup(p) \/ UpInsert(p) \/ UpGroupUpdate(p)
  <2>1. Finish(p) \/ Goto(p, "upInsert")
    BY <1>5 DEF UpLookup, UpInsert, UpGroupUpdate, Insert
  <2>2. "upInsert" \notin GroupSteps
    BY DEF GroupSteps
  <2> QED
    BY <1>0, <2>1, <2>2, GotoKeeps, Away, AwayKeeps
<1> QED
  BY <1>2, <1>3, <1>4, <1>5

\* No entry is found: there is none.
LEMMA NotFound ==
  ASSUME groups \in Seq(Entry), NEW m, NEW g, FindLogGroup(m, g) = 0
  PROVE  LiveEntries(m, g) = {}
<1> SUFFICES ASSUME LiveEntries(m, g) # {} PROVE FALSE
  OBVIOUS
<1> DEFINE S == LiveEntries(m, g)
<1>1. S \in SUBSET Nat /\ 0 \notin S
  BY DEF LiveEntries
<1>2. FindLogGroup(m, g) = CHOOSE i \in S : \A j \in S : i <= j
  BY DEF FindLogGroup, LiveEntries
<1> HIDE DEF S
<1>3. \E i \in S : \A j \in S : i <= j
  BY <1>1, First DEF S
<1>4. (CHOOSE i \in S : \A j \in S : i <= j) \in S
  BY <1>3
<1> QED
  BY <1>1, <1>2, <1>4

LEMMA UpGroupGroups ==
  ASSUME ShapeOK, GroupInv, NEW p \in Process, UpGroup(p)
  PROVE  GroupInv'
<1> DEFINE m == At(p)
           g == proc[p].group
           e == FindLogGroup(m, g)
           s == IF e = 0 THEN "upGroupInsert" ELSE "upGroupUpdate"
<1>0. /\ Step(p) = "upGroup" /\ groups' = groups
      /\ proc' = [proc EXCEPT ![p].entry = e, ![p].step = s]
  BY DEF UpGroup, tables
<1> HIDE DEF e
<1>1. proc[p] = [x \in Fields |-> proc[p][x]] /\ proc = [q \in Process |-> proc[q]]
  BY DEF ShapeOK
<1>2. /\ proc'[p].step = s /\ proc'[p].at = m /\ proc'[p].group = g
      /\ \A q \in Process : q # p => proc'[q] = proc[q]
  <2> HIDE DEF s
  <2> QED
    BY <1>0, <1>1 DEF Fields, At
<1>3. m \in Machine /\ g \in Group
  BY <1>0 DEF GroupInv, AskOK, AskSteps, GroupSteps, UploadSteps
<1>4. AskOK'
  BY <1>2, <1>3 DEF GroupInv, AskOK, Step, At
<1>5. CASE e # 0
  <2>1. Keeps(p)
    BY <1>0, <1>2, <1>5 DEF Keeps, Step, At, AskSteps, UploadSteps, GroupSteps
  <2> QED
    BY <1>0, <1>2, <2>1, StayKeeps, QuietKeeps
<1>6. CASE e = 0
  <2> SUFFICES ASSUME NEW m_1 \in Machine, NEW g_1 \in Group
               PROVE  Cardinality(LiveEntries(m_1, g_1)') + Cardinality(Inserting(m_1, g_1)')
                        <= Cardinality(Request)
    BY <1>0, <1>4 DEF GroupInv, GroupEntriesBounded
  <2>1. LiveEntries(m_1, g_1)' = LiveEntries(m_1, g_1)
    BY <1>0 DEF LiveEntries
  <2>2. CASE m_1 = m /\ g_1 = g
    <3>1. LiveEntries(m_1, g_1) = {}
      BY <1>6, <2>2, NotFound DEF GroupInv, e
    <3>2. Inserting(m_1, g_1)' \subseteq Request /\ IsFiniteSet(Request)
      BY BoundAssumption DEF Inserting
    <3>3. /\ Cardinality(Inserting(m_1, g_1)') <= Cardinality(Request)
          /\ Cardinality(Inserting(m_1, g_1)') \in Nat /\ Cardinality(Request) \in Nat
      BY <3>2, FS_Subset, FS_CardinalityType
    <3> QED
      BY <2>1, <3>1, <3>3, FS_EmptySet
  <2>3. CASE ~(m_1 = m /\ g_1 = g)
    <3>1. Inserting(m_1, g_1)' = Inserting(m_1, g_1)
      BY <1>0, <1>2, <2>3 DEF Inserting, Step, At, Process
    <3> QED
      BY <2>1, <3>1 DEF GroupInv, GroupEntriesBounded
  <2> QED
    BY <2>2, <2>3
<1> QED
  BY <1>5, <1>6

LEMMA UpGroupInsertGroups ==
  ASSUME ShapeOK, GroupInv, NEW p \in Request, UpGroupInsert(p)
  PROVE  GroupInv'
<1> DEFINE m == At(p)
           g == proc[p].group
           x == [home |-> m, id |-> g, live |-> TRUE]
<1>0. Step(p) = "upGroupInsert" /\ groups' = Append(groups, x) /\ Finish(p) /\ p \in Process
  BY DEF UpGroupInsert, Insert, Process
<1>1. m \in Machine /\ g \in Group
  BY <1>0 DEF GroupInv, AskOK, AskSteps, GroupSteps, UploadSteps
<1>2. x \in Entry
  BY <1>1 DEF Entry
<1>3. /\ groups' \in Seq(Entry) /\ Len(groups) \in Nat /\ DOMAIN groups = 1 .. Len(groups)
      /\ DOMAIN groups' = 1 .. Len(groups) + 1
      /\ \A i \in 1 .. Len(groups) + 1 :
           groups'[i] = IF i = Len(groups) + 1 THEN x ELSE groups[i]
  BY <1>0, <1>2 DEF GroupInv
<1>4. /\ Step(p)' = "idle" /\ \A q \in Process : q # p => proc'[q] = proc[q]
  <2>1. proc' = [proc EXCEPT ![p] = Idle(p)] /\ Idle(p).step = "idle"
    BY <1>0, IdleShape DEF Finish
  <2> QED
    BY <1>0, <2>1 DEF ShapeOK, Step
<1>5. AskOK'
  <2>1. Keeps(p)
    BY <1>4 DEF Keeps, AskSteps, UploadSteps
  <2> QED
    BY <1>4, <2>1, StayKeeps, KeepsAsk DEF GroupInv
<1> SUFFICES ASSUME NEW m_1 \in Machine, NEW g_1 \in Group
             PROVE  Cardinality(LiveEntries(m_1, g_1)') + Cardinality(Inserting(m_1, g_1)')
                      <= Cardinality(Request)
  BY <1>3, <1>5 DEF GroupInv, GroupEntriesBounded
<1>6. Cardinality(LiveEntries(m_1, g_1)) + Cardinality(Inserting(m_1, g_1)) <= Cardinality(Request)
  BY DEF GroupInv, GroupEntriesBounded
<1>7. CASE m_1 = m /\ g_1 = g
  <2>1. LiveEntries(m_1, g_1)' = LiveEntries(m_1, g_1) \cup {Len(groups) + 1}
    <3> DEFINE y == [home |-> m_1, id |-> g_1, live |-> TRUE]
    <3>1. x = y
      BY <1>7
    <3>2. /\ LiveEntries(m_1, g_1) = {i \in DOMAIN groups : groups[i] = y}
          /\ LiveEntries(m_1, g_1)' = {i \in DOMAIN groups' : groups'[i] = y}
      BY DEF LiveEntries
    <3> HIDE DEF x, y
    <3> QED
      BY <1>3, <3>1, <3>2
  <2>2. Len(groups) + 1 \notin LiveEntries(m_1, g_1)
    BY <1>3 DEF LiveEntries
  <2>3. Inserting(m_1, g_1)' = Inserting(m_1, g_1) \ {p} /\ p \in Inserting(m_1, g_1)
    BY <1>0, <1>4, <1>7 DEF Inserting, Step, At, Process
  <2>4. Cardinality(LiveEntries(m_1, g_1)') = Cardinality(LiveEntries(m_1, g_1)) + 1
    BY <2>1, <2>2, EntriesFinite, FS_AddElement DEF GroupInv
  <2>5. Cardinality(Inserting(m_1, g_1)') = Cardinality(Inserting(m_1, g_1)) - 1
    BY <2>3, EntriesFinite, FS_RemoveElement DEF GroupInv
  <2> QED
    BY <1>6, <2>4, <2>5, EntriesFinite DEF GroupInv
<1>8. CASE ~(m_1 = m /\ g_1 = g)
  <2>1. LiveEntries(m_1, g_1)' = LiveEntries(m_1, g_1)
    <3>1. x # [home |-> m_1, id |-> g_1, live |-> TRUE]
      BY <1>8
    <3> HIDE DEF x
    <3> QED
      BY <1>3, <3>1 DEF LiveEntries
  <2>2. Inserting(m_1, g_1)' = Inserting(m_1, g_1)
    BY <1>0, <1>4, <1>8 DEF Inserting, Step, At, Process
  <2> QED
    BY <1>6, <2>1, <2>2
<1> QED
  BY <1>7, <1>8

LEMMA DeleteGroups ==
  ASSUME ShapeOK, GroupInv, NEW p \in Process, Delete(p)
  PROVE  GroupInv'
<1>0. {"delStat", "delRow", "delRemove", "groupLast", "cleanTimeout", "groupFind"} \cap AskSteps = {}
  BY DEF AskSteps, UploadSteps
<1>1. CASE GroupFind(p)
  <2>1. groups' = groups
    BY <1>1 DEF GroupFind, tables
  <2>2. Finish(p) \/ \E t : proc' = [proc EXCEPT ![p].step = "delStat", ![p].todo = t]
    BY <1>1 DEF GroupFind
  <2> QED
    BY <1>0, <2>1, <2>2, Away, AwayKeeps
<1>2. CASE Proxy(p)
  <2>1. groups' = groups /\ Step(p) = "delStat"
    BY <1>2 DEF Proxy, tables
  <2>2. proc[p] = [x \in Fields |-> proc[p][x]] /\ proc = [q \in Process |-> proc[q]]
    BY DEF ShapeOK
  <2>3. proc'[p].step = proc[p].step /\ \A q \in Process : q # p => proc'[q] = proc[q]
    BY <1>2, <2>2 DEF Proxy, Fields
  <2>4. Step(p)' \notin AskSteps
    BY <1>0, <2>1, <2>3 DEF Step
  <2> QED
    BY <2>1, <2>3, <2>4, AwayKeeps
<1>3. CASE DelStat(p)
  <2>1. groups' = groups /\ (Goto(p, "delRow") \/ Goto(p, "delRemove"))
    BY <1>3 DEF DelStat, tables
  <2> QED
    BY <1>0, <2>1, Away, AwayKeeps
<1>4. CASE DelRemove(p)
  <2>1. groups' = groups /\ Goto(p, "delRow")
    BY <1>4 DEF DelRemove, tables
  <2> QED
    BY <1>0, <2>1, Away, AwayKeeps
<1>5. CASE DelRemoveGone(p) \/ DelRow(p)
  <2>1. groups' = groups /\ (Refuse(p) \/ Deleted(p))
    BY <1>5 DEF DelRemoveGone, DelRow, tables
  <2> QED
    BY <2>1, Away, AwayKeeps
<1>6. CASE DelOver(p)
  <2>1. groups' = groups /\ (Goto(p, "groupLast") \/ Goto(p, "cleanTimeout") \/ Finish(p))
    BY <1>6 DEF DelOver, tables
  <2> QED
    BY <1>0, <2>1, Away, AwayKeeps
<1>7. CASE GroupLast(p)
  <2> DEFINE e == FindLogGroup(At(p), proc[p].group)
  <2>1. groups' = (IF e = 0 THEN groups ELSE [groups EXCEPT ![e].live = FALSE]) /\ Finish(p)
    BY <1>7 DEF GroupLast
  <2> HIDE DEF e
  <2>2. Step(p)' \notin AskSteps /\ \A q \in Process : q # p => proc'[q] = proc[q]
    BY <2>1, Away
  <2>3. Keeps(p)
    BY <2>2 DEF Keeps, AskSteps, UploadSteps
  <2>4. AskOK'
    BY <2>2, <2>3, StayKeeps, KeepsAsk DEF GroupInv
  <2>5. /\ groups' \in Seq(Entry) /\ DOMAIN groups' = DOMAIN groups
        /\ \A i \in DOMAIN groups : groups'[i] = groups[i] \/ groups'[i].live = FALSE
    <3>1. CASE groups' = groups
      BY <3>1 DEF GroupInv
    <3>2. CASE groups' # groups
      <4> DEFINE y == [groups[e] EXCEPT !.live = FALSE]
      <4>1. groups' = [groups EXCEPT ![e] = y]
        BY <2>1, <3>2
      <4>2. groups \in Seq(Entry)
        BY DEF GroupInv
      <4>3. e \in DOMAIN groups => y \in Entry /\ y.live = FALSE
        <5> SUFFICES ASSUME e \in DOMAIN groups PROVE y \in Entry /\ y.live = FALSE
          OBVIOUS
        <5> DEFINE z == groups[e]
        <5>1. z \in Entry
          BY <4>2
        <5> HIDE DEF z
        <5>2. [z EXCEPT !.live = FALSE] \in Entry /\ [z EXCEPT !.live = FALSE].live = FALSE
          BY <5>1 DEF Entry
        <5> QED
          BY <5>2 DEF z
      <4> HIDE DEF y
      <4>4. groups' \in Seq(Entry) /\ DOMAIN groups' = DOMAIN groups
        <5>1. groups \in [1 .. Len(groups) -> Entry] /\ Len(groups) \in Nat
          BY <4>2
        <5>2. groups' \in [1 .. Len(groups) -> Entry]
          BY <4>1, <4>3, <5>1
        <5> QED
          BY <5>1, <5>2
      <4>5. \A i \in DOMAIN groups : groups'[i] = groups[i] \/ groups'[i].live = FALSE
        BY <4>1, <4>3
      <4> QED
        BY <4>4, <4>5
    <3> QED
      BY <3>1, <3>2
  <2>7. \A m, g : LiveEntries(m, g)' \subseteq LiveEntries(m, g)
    BY <2>5 DEF LiveEntries
  <2>8. \A m, g : Inserting(m, g)' \subseteq Inserting(m, g)
    BY <2>2, <2>3 DEF Inserting, Step, At, Process, AskSteps, UploadSteps
  <2> QED
    BY <2>4, <2>5, <2>7, <2>8, FewerKeeps
<1> QED
  BY <1>1, <1>2, <1>3, <1>4, <1>5, <1>6, <1>7 DEF Delete

LEMMA CleanGroups ==
  ASSUME ShapeOK, GroupInv, NEW m \in Machine, CleanCount(m) \/ CleanOldest(m) \/ CleanTimeout(m)
  PROVE  GroupInv'
<1> DEFINE p == Cleaner(m)
<1>0. p \in Process /\ groups' = groups
  BY DEF CleanCount, CleanOldest, CleanTimeout, tables, Process, Cleaners
<1>1. proc[p] = [x \in Fields |-> proc[p][x]] /\ proc = [q \in Process |-> proc[q]]
  BY <1>0 DEF ShapeOK
<1>2. {"cleanOldest", "cleanTimeout", "delStat"} \cap AskSteps = {}
  BY DEF AskSteps, UploadSteps
<1>3. \E s \in {"cleanOldest", "cleanTimeout", "delStat"} :
        \/ \E k : proc' = [proc EXCEPT ![p].step = s, ![p].kind = k]
        \/ \E t : proc' = [proc EXCEPT ![p].step = s, ![p].todo = t]
        \/ \E k, t : proc' = [proc EXCEPT ![p].step = s, ![p].kind = k, ![p].todo = t]
  BY DEF CleanCount, CleanOldest, CleanTimeout
<1> HIDE DEF p
<1>4. PICK s \in {"cleanOldest", "cleanTimeout", "delStat"} :
        proc'[p].step = s /\ \A q \in Process : q # p => proc'[q] = proc[q]
  BY ZenonT(40), <1>0, <1>1, <1>3 DEF Fields
<1>5. Step(p)' \notin AskSteps
  BY <1>2, <1>4 DEF Step
<1> QED
  BY <1>0, <1>4, <1>5, AwayKeeps

LEMMA FailGroups ==
  ASSUME ShapeOK, GroupInv, NEW p \in Process, Fail(p)
  PROVE  GroupInv'
<1>1. groups' = groups /\ Refuse(p)
  BY DEF Fail, tables
<1> QED
  BY <1>1, Away, AwayKeeps

LEMMA FailQueryGroups ==
  ASSUME ShapeOK, GroupInv, NEW m \in Machine, FailQuery(m)
  PROVE  GroupInv'
<1>0. PICK p \in Process : Stops(m, p) /\ groups' = groups
  BY QueryStops DEF Process, Cleaners
<1>1. CASE Finish(p)
  BY <1>0, <1>1, Away, AwayKeeps
<1>2. CASE ~Finish(p)
  <2>1. proc[p] = [x \in Fields |-> proc[p][x]] /\ proc = [q \in Process |-> proc[q]]
    BY DEF ShapeOK
  <2>2. proc'[p].step = "cleanTimeout" /\ \A q \in Process : q # p => proc'[q] = proc[q]
    BY <1>0, <1>2, <2>1 DEF Fields, Stops
  <2>3. Step(p)' \notin AskSteps
    BY <2>2 DEF Step, AskSteps, UploadSteps
  <2> QED
    BY <1>0, <2>2, <2>3, AwayKeeps
<1> QED
  BY <1>1, <1>2

LEMMA CrashGroups ==
  ASSUME ShapeOK, GroupInv, NEW m \in Machine, Crash(m)
  PROVE  GroupInv'
<1> DEFINE dead == {p \in Process : At(p) = m /\ Step(p) # "idle"}
<1>0. groups' = groups /\ proc' = [p \in Process |-> IF p \in dead THEN Idle(p) ELSE proc[p]]
  BY DEF Crash, tables
<1> HIDE DEF dead
<1>1. ASSUME NEW p \in Process PROVE Keeps(p)
  <2>1. CASE p \in dead
    <3>1. Step(p)' = "idle"
      BY <1>0, <2>1, IdleShape DEF Step
    <3> QED
      BY <3>1 DEF Keeps, AskSteps, UploadSteps
  <2>2. CASE p \notin dead
    BY <1>0, <2>2, StayKeeps
  <2> QED
    BY <2>1, <2>2
<1> QED
  BY <1>0, <1>1, QuietKeeps

LEMMA GroupInvariance == Spec => [](ShapeOK /\ SoundOK /\ GroupInv)
<1>1. Init => ShapeOK /\ SoundOK /\ GroupInv
  <2> SUFFICES ASSUME Init PROVE ShapeOK /\ SoundOK /\ GroupInv
    OBVIOUS
  <2>1. ShapeOK /\ SoundOK
    BY InitSound
  <2>2. \A p \in Process : Step(p) = "idle"
    BY IdleShape DEF Init, Step
  <2>3. AskOK
    BY <2>2 DEF AskOK, AskSteps, GroupSteps, UploadSteps
  <2>4. groups \in Seq(Entry)
    BY DEF Init
  <2>5. GroupEntriesBounded
    <3> SUFFICES ASSUME NEW m \in Machine, NEW g \in Group
                 PROVE  Cardinality(LiveEntries(m, g)) + Cardinality(Inserting(m, g))
                          <= Cardinality(Request)
      BY DEF GroupEntriesBounded
    <3>1. LiveEntries(m, g) = {} /\ Inserting(m, g) = {}
      BY <2>2 DEF Init, LiveEntries, Inserting, Process
    <3> QED
      BY <2>4, <3>1, EntriesFinite, FS_EmptySet
  <2> QED
    BY <2>1, <2>3, <2>4, <2>5 DEF GroupInv
<1>2. ShapeOK /\ SoundOK /\ GroupInv /\ [Next]_vars => (ShapeOK /\ SoundOK /\ GroupInv)'
  <2> SUFFICES ASSUME ShapeOK, SoundOK, GroupInv, [Next]_vars PROVE GroupInv'
    BY NextSound
  <2>1. \A p \in Request : p \in Process
    BY DEF Process
  <2>2. \A m \in Machine : Cleaner(m) \in Process
    BY DEF Process, Cleaners
  <2>3. ASSUME NEW p \in Request, Upload(p) PROVE GroupInv'
    BY <2>1, <2>3, UploadGroups, UpGroupGroups, UpGroupInsertGroups DEF Upload
  <2>4. ASSUME NEW m \in Machine, Clean(m) PROVE GroupInv'
    BY <2>2, <2>4, CleanGroups, DeleteGroups DEF Clean
  <2>5. CASE Tick \/ UNCHANGED vars
    <3>1. groups' = groups /\ proc' = proc
      BY <2>5 DEF Tick, vars, tables
    <3> QED
      BY <3>1, StayKeeps, QuietKeeps
  <2> QED
    BY <2>1, <2>3, <2>4, <2>5, BeginGroups, DeleteGroups, FailGroups, FailQueryGroups, CrashGroups
    DEF Next
<1> QED
  BY <1>1, <1>2, PTL DEF Spec

\* Uploads of one group that meet insert no more entries for it than there are
\* requests, although each looked for an entry before it inserted one, and
\* although deletions of the group look for it twice.
THEOREM GroupsStayFew == Spec => []GroupEntriesBounded
<1>1. GroupInv => GroupEntriesBounded
  BY DEF GroupInv
<1> QED
  BY <1>1, GroupInvariance, PTL

-----------------------------------------------------------------------------
(* Lists of rows *)

\* A set of numbers that has a bound has a largest one.
LEMMA Largest ==
  ASSUME NEW S \in SUBSET Nat, S # {}, NEW b \in Nat, \A x \in S : x <= b
  PROVE  Max(S) \in S /\ \A x \in S : x <= Max(S)
<1> DEFINE B == {n \in Nat : \A x \in S : x <= n}
<1>1. PICK n \in B : \A k \in B : n <= k
  <2>1. b \in B /\ B \in SUBSET Nat
    OBVIOUS
  <2> HIDE DEF B
  <2> QED
    BY <2>1, First
<1>2. n \in Nat /\ \A x \in S : x \in Nat /\ x <= n
  OBVIOUS
<1>3. n \in S
  <2>1. SUFFICES ASSUME n \notin S PROVE FALSE
    OBVIOUS
  <2>2. \A x \in S : x <= n - 1
    BY <1>2, <2>1
  <2>3. n - 1 \in Nat
    <3>1. PICK x \in S : TRUE
      OBVIOUS
    <3>2. x \in Nat /\ x <= n - 1
      BY <1>2, <2>2
    <3> QED
      BY <1>2, <3>2
  <2>4. n - 1 \in B
    BY <2>2, <2>3
  <2> HIDE DEF B
  <2> QED
    BY <1>1, <1>2, <2>4
<1>4. \E x \in S : \A y \in S : x >= y
  BY <1>2, <1>3
<1>5. Max(S) \in S /\ \A y \in S : Max(S) >= y
  BY <1>4 DEF Max
<1> QED
  BY <1>2, <1>5

\* Rows have numbers of their own, and there are finitely many of them.
RowsOK ==
  /\ IsFiniteSet(rows)
  /\ \A r \in rows : r.id \in Nat \ {0}
  /\ \A r, q \in rows : r.id = q.id => r = q
  /\ \E b \in Nat : \A r \in rows : r.id <= b

LEMMA NextIdIsNew ==
  ASSUME RowsOK
  PROVE  NextId \in Nat \ {0} /\ \A r \in rows : r.id < NextId
<1> DEFINE S == {r.id : r \in rows}
<1>1. CASE rows = {}
  BY <1>1 DEF NextId
<1>2. CASE rows # {}
  <2>1. PICK b \in Nat : \A r \in rows : r.id <= b
    BY DEF RowsOK
  <2>2. S \in SUBSET Nat /\ S # {} /\ \A x \in S : x <= b
    BY <1>2, <2>1 DEF RowsOK
  <2>3. NextId = 1 + Max(S) /\ \A r \in rows : r.id \in S
    BY <1>2 DEF NextId
  <2> HIDE DEF S
  <2>4. Max(S) \in S /\ \A x \in S : x <= Max(S)
    BY <2>2, Largest
  <2>5. \A r \in rows : r.id <= Max(S)
    BY <2>3, <2>4
  <2>6. Max(S) \in Nat
    BY <2>2, <2>4
  <2> DEFINE x == Max(S)
  <2> HIDE DEF x
  <2>7. x \in Nat /\ NextId = 1 + x /\ \A r \in rows : r.id \in Nat /\ r.id <= x
    BY <2>3, <2>5, <2>6 DEF x, RowsOK
  <2> QED
    BY <2>7
<1> QED
  BY <1>1, <1>2

\* Ordered lists each of the rows once.
LEMMA OrderedLists ==
  ASSUME RowsOK, NEW rs, rs \subseteq rows
  PROVE  /\ Ordered(rs) \in Seq(rs) /\ Elements(Ordered(rs)) = rs
         /\ Once(Ordered(rs))
<1> DEFINE N == NextId - 1
           s == [i \in 1 .. N |-> i]
           S == {r.id : r \in rs}
           ids == Only(s, S)
           o == [k \in DOMAIN ids |-> CHOOSE r \in rs : r.id = ids[k]]
<1>1. NextId \in Nat \ {0} /\ \A r \in rows : r.id < NextId
  BY NextIdIsNew
<1>2. \A r \in rs : r \in rows /\ r.id \in S /\ r.id \in Nat \ {0}
  BY DEF RowsOK
<1>3. \A x \in S : \E r \in rs : r.id = x
  OBVIOUS
<1>4. Ordered(rs) = o
  BY DEF Ordered
<1>5. N \in Nat
  BY <1>1
<1>6. S \subseteq 1 .. N
  BY <1>1, <1>2, <1>3
<1> HIDE DEF N, S
<1>7. s \in Seq(Nat) /\ Elements(s) = 1 .. N /\ Once(s)
  BY <1>5 DEF Elements, Once
<1> HIDE DEF s
<1>8. ids \in Seq(S) /\ Elements(ids) = S /\ Once(ids)
  <2>1. ids \in Seq(S)
    BY <1>7, OnlyList
  <2>2. Elements(ids) = Elements(s) \cap S
    BY <1>7, OnlyElements
  <2>3. Once(ids)
    BY <1>7, OnlyOnce
  <2> QED
    BY <1>6, <1>7, <2>1, <2>2, <2>3
<1> HIDE DEF ids
<1>9. \A k \in DOMAIN ids : o[k] \in rs /\ o[k].id = ids[k]
  <2> SUFFICES ASSUME NEW k \in DOMAIN ids PROVE o[k] \in rs /\ o[k].id = ids[k]
    OBVIOUS
  <2>1. ids[k] \in S
    BY <1>8 DEF Elements
  <2> QED
    BY <1>3, <2>1
<1>10. DOMAIN o = DOMAIN ids /\ DOMAIN ids = 1 .. Len(ids) /\ Len(ids) \in Nat
  BY <1>8
<1>11. o \in Seq(rs)
  BY <1>9, <1>10
<1> HIDE DEF o
<1>12. rs \subseteq Elements(o)
  <2> SUFFICES ASSUME NEW r \in rs PROVE r \in Elements(o)
    OBVIOUS
  <2>1. PICK k \in DOMAIN ids : ids[k] = r.id
    BY <1>2, <1>8 DEF Elements
  <2>2. o[k] = r
    BY <1>2, <1>9, <2>1 DEF RowsOK
  <2> QED
    BY <1>10, <2>2 DEF Elements
<1>13. Elements(o) \subseteq rs
  BY <1>9, <1>10 DEF Elements
<1>14. Once(o)
  BY <1>8, <1>9, <1>10 DEF Once
<1> QED
  BY <1>4, <1>11, <1>12, <1>13, <1>14

FilesAt(m) == {f \in File : Home[f] = m}

LEMMA FilesOfList ==
  ASSUME NEW S, NEW T, NEW t \in Seq(S), \A r \in S : r.file \in T
  PROVE  FilesOf(t) \in Seq(T) /\ Len(FilesOf(t)) = Len(t)
<1>1. DOMAIN t = 1 .. Len(t) /\ Len(t) \in Nat /\ \A i \in 1 .. Len(t) : t[i] \in S
  OBVIOUS
<1> DEFINE u == [i \in 1 .. Len(t) |-> t[i].file]
<1>2. FilesOf(t) = u
  BY <1>1 DEF FilesOf
<1>3. u \in Seq(T) /\ Len(u) = Len(t)
  BY <1>1
<1> QED
  BY <1>2, <1>3

LEMMA FirstRowsList ==
  ASSUME NEW S, NEW t \in Seq(S)
  PROVE  /\ FirstRows(t) \in Seq(S)
         /\ Len(t) <= Batch => FirstRows(t) = t
<1> DEFINE n == IF Len(t) < Batch THEN Len(t) ELSE Batch
<1>1. Batch \in Nat /\ Len(t) \in Nat /\ \A i \in 1 .. Len(t) : t[i] \in S
  BY LimitAssumption
<1>2. n \in Nat /\ n <= Len(t) /\ (Len(t) <= Batch => n = Len(t))
  BY <1>1
<1>3. FirstRows(t) = SubSeq(t, 1, n)
  BY DEF FirstRows
<1> HIDE DEF n
<1>4. \A i \in 1 .. n : t[i] \in S
  BY <1>1, <1>2
<1>5. SubSeq(t, 1, n) \in Seq(S)
  BY <1>2, <1>4, SubSeqProperties
<1> QED
  BY <1>2, <1>3, <1>5, SubSeqFull

LEMMA ReverseList ==
  ASSUME NEW S, NEW t \in Seq(S)
  PROVE  Reverse(t) \in Seq(S)
<1>1. Len(t) \in Nat /\ \A i \in 1 .. Len(t) : t[i] \in S
  OBVIOUS
<1>2. \A i \in 1 .. Len(t) : (Len(t) - i) + 1 \in 1 .. Len(t)
  BY <1>1
<1>3. \A i \in 1 .. Len(t) : t[(Len(t) - i) + 1] \in S
  BY <1>1, <1>2
<1> DEFINE u == [i \in 1 .. Len(t) |-> t[(Len(t) - i) + 1]]
<1>4. Reverse(t) = u
  BY DEF Reverse
<1>5. u \in Seq(S)
  BY <1>1, <1>3
<1> QED
  BY <1>4, <1>5

-----------------------------------------------------------------------------
(* The size of a set of rows *)

LEMMA BytesOne ==
  ASSUME NEW r, r.file \in File
  PROVE  IsFiniteSet({r} \X (1 .. Size[r.file])) /\ Cardinality({r} \X (1 .. Size[r.file])) = Size[r.file]
<1> DEFINE n == Size[r.file]
           S == {r}
           T == 1 .. n
<1>1. n \in Nat
  BY HomeAssumption
<1> HIDE DEF n
<1>2. IsFiniteSet(T) /\ Cardinality(T) = n
  BY <1>1, FS_Interval
<1>3. IsFiniteSet(S) /\ Cardinality(S) = 1
  BY FS_Singleton
<1> HIDE DEF S, T
<1>4. IsFiniteSet(S \X T) /\ Cardinality(S \X T) = 1 * n
  BY <1>2, <1>3, FS_Product
<1> QED
  BY <1>1, <1>4 DEF S, T, n

LEMMA BytesFinite ==
  ASSUME NEW rs, IsFiniteSet(rs), \A r \in rs : r.file \in File
  PROVE  IsFiniteSet(Bytes(rs)) /\ Cardinality(Bytes(rs)) \in Nat
<1> DEFINE b(r) == {r} \X (1 .. Size[r.file])
           g == [r \in rs |-> b(r)]
           S == {b(r) : r \in rs}
<1>1. g \in Surjection(rs, S)
  BY DEF Surjection
<1>2. IsFiniteSet(S)
  BY <1>1, FS_Surjection
<1>3. \A T \in S : IsFiniteSet(T)
  BY BytesOne
<1>4. Bytes(rs) = UNION S
  BY DEF Bytes
<1> HIDE DEF S
<1>5. IsFiniteSet(Bytes(rs))
  BY <1>2, <1>3, <1>4, FS_UNION
<1> QED
  BY <1>5, FS_CardinalityType

LEMMA BytesFewer ==
  ASSUME NEW rs, IsFiniteSet(rs), \A r \in rs : r.file \in File, NEW qs, qs \subseteq rs
  PROVE  /\ IsFiniteSet(qs) /\ Cardinality(Bytes(qs)) \in Nat
         /\ Cardinality(Bytes(qs)) <= Cardinality(Bytes(rs))
<1>1. Bytes(qs) \subseteq Bytes(rs)
  BY DEF Bytes
<1>2. IsFiniteSet(qs)
  BY FS_Subset
<1> QED
  BY <1>1, <1>2, BytesFinite, FS_Subset

\* A row adds its size, or nothing if it is there already.
LEMMA BytesMore ==
  ASSUME NEW rs, IsFiniteSet(rs), \A r \in rs : r.file \in File, NEW r, r.file \in File
  PROVE  /\ IsFiniteSet(rs \cup {r})
         /\ Cardinality(Bytes(rs \cup {r})) \in Nat
         /\ Cardinality(Bytes(rs \cup {r})) <= Cardinality(Bytes(rs)) + Size[r.file]
         /\ r \notin rs => Cardinality(Bytes(rs \cup {r})) = Cardinality(Bytes(rs)) + Size[r.file]
<1> DEFINE A == Bytes(rs)
           B == {r} \X (1 .. Size[r.file])
<1>1. Bytes(rs \cup {r}) = A \cup B
  BY DEF Bytes
<1>2. IsFiniteSet(A) /\ Cardinality(A) \in Nat
  BY BytesFinite
<1>3. IsFiniteSet(B) /\ Cardinality(B) = Size[r.file] /\ Size[r.file] \in Nat
  BY BytesOne, HomeAssumption
<1>4. r \notin rs => A \cap B = {}
  BY DEF Bytes
<1> HIDE DEF A, B
<1>5. /\ IsFiniteSet(A \cup B)
      /\ Cardinality(A \cup B) = Cardinality(A) + Cardinality(B) - Cardinality(A \cap B)
  BY <1>2, <1>3, FS_Union
<1>6. Cardinality(A \cap B) \in Nat /\ (A \cap B = {} => Cardinality(A \cap B) = 0)
  BY <1>2, FS_Intersection, FS_CardinalityType, FS_EmptySet
<1>7. Cardinality(A \cup B) \in Nat
  BY <1>5, FS_CardinalityType
<1>8. IsFiniteSet(rs \cup {r})
  BY FS_AddElement
<1>9. Bytes(rs) = A
  BY DEF A
<1> DEFINE a == Cardinality(A)
           c == Cardinality(A \cap B)
           d == Cardinality(A \cup B)
           n == Size[r.file]
<1>10. a \in Nat /\ c \in Nat /\ n \in Nat /\ d \in Nat /\ d = a + n - c /\ (r \notin rs => c = 0)
  BY <1>2, <1>3, <1>4, <1>5, <1>6, <1>7
<1>11. Cardinality(Bytes(rs \cup {r})) = d /\ Cardinality(Bytes(rs)) = a
  BY <1>1, <1>9
<1> HIDE DEF a, c, d, n
<1>12. d <= a + n /\ (r \notin rs => d = a + n)
  BY <1>10
<1> QED
  BY <1>8, <1>10, <1>11, <1>12 DEF n

-----------------------------------------------------------------------------
(* What processes work on *)

LocalsOf(n) ==
  [step : Steps, kind : Kinds, file : File \cup {NoFile}, group : Group \cup {NoGroup},
   entry : 0 .. n, at : Machine, ids : Seq(File), todo : Seq(File)]

CleanSteps == {"idle", "cleanOldest", "cleanTimeout", "delStat"} \cup DeleteSteps

\* What the record r of process p says while the table has n groups: an upload
\* has a file and is at its machine, a deletion has a file before it, and a
\* task deletes files of its own machine.
RecordOK(p, r, n) ==
  /\ r \in LocalsOf(n)
  /\ r.step \in AskSteps => p \in Request /\ r.file \in File /\ r.at = Home[r.file]
  /\ r.step \in DeleteSteps => r.todo # <<>>
  /\ p \in Request => r.kind # "bySize"
  /\ p \in Cleaners =>
       /\ r.step \in CleanSteps /\ r.kind \in {"none", "bySize", "byTime"}
       /\ r.at = p[2] /\ r.todo \in Seq(FilesAt(p[2]))
       /\ r.step \in {"cleanOldest", "cleanTimeout"} => r.kind = "bySize"

WorkOK ==
  /\ proc = [p \in Process |-> proc[p]]
  /\ \A p \in Process : RecordOK(p, proc[p], Len(groups))

LEMMA StepNames ==
  /\ AskSteps \subseteq Steps /\ DeleteSteps \subseteq Steps /\ UploadSteps \subseteq AskSteps
  /\ {"idle", "upStat", "delStat", "groupFind", "groupLast", "cleanOldest", "cleanTimeout"} \subseteq Steps
  /\ CleanSteps \cap AskSteps = {} /\ DeleteSteps \subseteq CleanSteps
  /\ DeleteSteps \cap AskSteps = {}
  /\ {"groupFind", "groupLast"} \cap (CleanSteps \cup AskSteps) = {}
  /\ {"cleanOldest", "cleanTimeout", "delStat", "idle"} \cap (AskSteps \cup DeleteSteps) = {}
  /\ "upStat" \in AskSteps
BY DEF AskSteps, DeleteSteps, UploadSteps, Steps, CleanSteps

LEMMA CleanerNames ==
  /\ \A p \in Process : p \in Request <=> p \notin Cleaners
  /\ \A m \in Machine : Cleaner(m) \in Cleaners /\ Cleaner(m) \in Process /\ Cleaner(m)[2] = m
  /\ \A p \in Cleaners : p[2] \in Machine /\ p = Cleaner(p[2])
  /\ Request \subseteq Process
BY ProcessAssumption DEF Process, Cleaners, Cleaner

LEMMA MoreLocals ==
  ASSUME NEW n \in Nat, NEW k \in Nat, n <= k, NEW p, NEW r, RecordOK(p, r, n)
  PROVE  RecordOK(p, r, k)
<1>1. 0 .. n \subseteq 0 .. k
  OBVIOUS
<1>2. r \in LocalsOf(k)
  BY <1>1 DEF RecordOK, LocalsOf
<1> QED
  BY <1>2 DEF RecordOK

\* A step of process p.
LEMMA WorkStep ==
  ASSUME WorkOK, Len(groups) \in Nat, Len(groups)' \in Nat, Len(groups) <= Len(groups)',
         NEW p \in Process, NEW r, RecordOK(p, r, Len(groups)'), proc' = [proc EXCEPT ![p] = r]
  PROVE  WorkOK' /\ proc'[p] = r /\ \A q \in Process : q # p => proc'[q] = proc[q]
<1>1. proc' = [q \in Process |-> proc'[q]]
  BY DEF WorkOK
<1>2. proc'[p] = r /\ \A q \in Process : q # p => proc'[q] = proc[q]
  BY DEF WorkOK
<1>3. \A q \in Process : RecordOK(q, proc'[q], Len(groups)')
  BY <1>2, MoreLocals DEF WorkOK
<1> QED
  BY <1>1, <1>2, <1>3 DEF WorkOK

LEMMA IdleOK ==
  ASSUME NEW p \in Process, NEW n \in Nat
  PROVE  RecordOK(p, Idle(p), n)
<1> DEFINE a == IF p \in Cleaners THEN p[2] ELSE CHOOSE m \in Machine : TRUE
<1>1. a \in Machine /\ (p \in Cleaners => a = p[2])
  BY CleanerNames, ProcessAssumption
<1>2. Idle(p) = [step |-> "idle", kind |-> "none", file |-> NoFile, group |-> NoGroup,
                 entry |-> 0, at |-> a, ids |-> <<>>, todo |-> <<>>]
  BY DEF Idle
<1> HIDE DEF a
<1>3. \A S : <<>> \in Seq(S)
  BY EmptySeq
<1>4. Idle(p) \in LocalsOf(n)
  BY <1>1, <1>2, <1>3, StepNames DEF LocalsOf, Kinds
<1>5. "idle" \notin AskSteps \cup DeleteSteps /\ "idle" \in CleanSteps
  BY StepNames DEF CleanSteps
<1>6. p \in Cleaners => Idle(p).todo \in Seq(FilesAt(p[2]))
  BY <1>2, <1>3
<1> QED
  BY <1>1, <1>2, <1>4, <1>5, <1>6 DEF RecordOK

\* The next step of the same piece of work.
LEMMA StepOK ==
  ASSUME NEW p \in Process, NEW n \in Nat, NEW r, RecordOK(p, r, n), NEW s \in Steps,
         s \in AskSteps => r.step \in AskSteps,
         s \in DeleteSteps => r.todo # <<>>,
         p \in Cleaners => s \in CleanSteps,
         s \in {"cleanOldest", "cleanTimeout"} => r.kind = "bySize"
  PROVE  RecordOK(p, [r EXCEPT !.step = s], n)
<1> DEFINE t == [r EXCEPT !.step = s]
<1>1. r \in LocalsOf(n)
  BY DEF RecordOK
<1>2. t \in LocalsOf(n) /\ t.step = s /\ t.kind = r.kind /\ t.file = r.file /\ t.at = r.at /\ t.todo = r.todo
  BY <1>1 DEF LocalsOf
<1> HIDE DEF t
<1>3. RecordOK(p, t, n)
  BY <1>2 DEF RecordOK
<1> QED
  BY <1>3 DEF t

\* A new list to delete.
LEMMA TodoOK ==
  ASSUME NEW p \in Process, NEW n \in Nat, NEW r, RecordOK(p, r, n), NEW t \in Seq(File),
         p \in Cleaners => t \in Seq(FilesAt(p[2]))
  PROVE  RecordOK(p, [r EXCEPT !.step = "delStat", !.todo = t], n)
<1> DEFINE u == [r EXCEPT !.step = "delStat", !.todo = t]
<1>1. r \in LocalsOf(n) /\ "delStat" \in Steps \ (AskSteps \cup DeleteSteps) /\ "delStat" \in CleanSteps
  BY StepNames DEF RecordOK, CleanSteps
<1>2. u \in LocalsOf(n) /\ u.step = "delStat" /\ u.kind = r.kind /\ u.at = r.at /\ u.todo = t
  BY <1>1 DEF LocalsOf
<1> HIDE DEF u
<1>3. RecordOK(p, u, n)
  BY <1>1, <1>2 DEF RecordOK
<1> QED
  BY <1>3 DEF u

\* What is left after the file at hand.
LEMMA RestOK ==
  ASSUME NEW p \in Process, NEW n \in Nat, NEW r, RecordOK(p, r, n), r.todo # <<>>
  PROVE  /\ Tail(r.todo) \in Seq(File) /\ Head(r.todo) \in File
         /\ p \in Cleaners => Tail(r.todo) \in Seq(FilesAt(p[2])) /\ Head(r.todo) \in FilesAt(p[2])
<1>1. r.todo \in Seq(File) /\ (p \in Cleaners => r.todo \in Seq(FilesAt(p[2])))
  BY DEF RecordOK, LocalsOf
<1> QED
  BY <1>1, HeadTailProperties

-----------------------------------------------------------------------------
(* The steps keep what processes work on *)

LEMMA GroupsNumber ==
  ASSUME groups \in Seq(Entry)
  PROVE  Len(groups) \in Nat /\ DOMAIN groups = 1 .. Len(groups)
OBVIOUS

\* A step that leaves the groups alone.
LEMMA WorkHere ==
  ASSUME WorkOK, groups \in Seq(Entry), Len(groups)' = Len(groups),
         NEW p \in Process, NEW r, RecordOK(p, r, Len(groups)), proc' = [proc EXCEPT ![p] = r]
  PROVE  WorkOK' /\ proc'[p] = r /\ \A q \in Process : q # p => proc'[q] = proc[q]
<1> DEFINE n == Len(groups)
<1>1. n \in Nat /\ Len(groups)' = n
  BY GroupsNumber
<1>2. n <= n
  BY <1>1
<1> HIDE DEF n
<1> QED
  BY <1>1, <1>2, WorkStep DEF n

LEMMA WorkGoto ==
  ASSUME WorkOK, groups \in Seq(Entry), Len(groups)' = Len(groups),
         NEW p \in Process, NEW s \in Steps, Goto(p, s),
         s \in AskSteps => Step(p) \in AskSteps,
         s \in DeleteSteps => proc[p].todo # <<>>,
         p \in Cleaners => s \in CleanSteps,
         s \in {"cleanOldest", "cleanTimeout"} => proc[p].kind = "bySize"
  PROVE  WorkOK'
<1> DEFINE r == [proc[p] EXCEPT !.step = s]
<1>1. proc' = [proc EXCEPT ![p] = r]
  BY DEF Goto
<1>2. RecordOK(p, r, Len(groups))
  BY StepOK, GroupsNumber DEF WorkOK, Step
<1> HIDE DEF r
<1> QED
  BY <1>1, <1>2, WorkHere

LEMMA WorkFinish ==
  ASSUME WorkOK, Len(groups) \in Nat, Len(groups)' \in Nat, Len(groups) <= Len(groups)',
         NEW p \in Process, Finish(p)
  PROVE  WorkOK'
<1> DEFINE r == Idle(p)
<1>1. proc' = [proc EXCEPT ![p] = r]
  BY DEF Finish
<1>2. RecordOK(p, r, Len(groups)')
  BY IdleOK
<1> HIDE DEF r
<1> QED
  BY <1>1, <1>2, WorkStep

LEMMA WorkTodo ==
  ASSUME WorkOK, groups \in Seq(Entry), Len(groups)' = Len(groups),
         NEW p \in Process, NEW t \in Seq(File), p \in Cleaners => t \in Seq(FilesAt(p[2])),
         proc' = [proc EXCEPT ![p].step = "delStat", ![p].todo = t]
  PROVE  WorkOK'
<1> DEFINE r == [proc[p] EXCEPT !.step = "delStat", !.todo = t]
<1>1. proc' = [proc EXCEPT ![p] = r]
  BY DEF WorkOK, RecordOK, LocalsOf
<1>2. RecordOK(p, r, Len(groups))
  BY TodoOK, GroupsNumber DEF WorkOK
<1> HIDE DEF r
<1> QED
  BY <1>1, <1>2, WorkHere

LEMMA WorkRefuse ==
  ASSUME WorkOK, groups \in Seq(Entry), Len(groups)' = Len(groups),
         NEW p \in Process, Refuse(p),
         Step(p) \in AskSteps \cup DeleteSteps \cup {"groupFind", "groupLast"}
  PROVE  WorkOK'
<1>1. RecordOK(p, proc[p], Len(groups)) /\ Len(groups) \in Nat
  BY GroupsNumber DEF WorkOK
<1>2. CASE p \in Cleaners
  <2>1. proc[p].todo # <<>>
    BY <1>1, <1>2, StepNames DEF RecordOK, Step
  <2> DEFINE t == Tail(proc[p].todo)
  <2>2. t \in Seq(File) /\ (p \in Cleaners => t \in Seq(FilesAt(p[2])))
    BY <1>1, <2>1, RestOK
  <2>3. proc' = [proc EXCEPT ![p].step = "delStat", ![p].todo = t]
    BY <1>2 DEF Refuse
  <2> HIDE DEF t
  <2> QED
    BY <2>2, <2>3, WorkTodo
<1>3. CASE p \notin Cleaners
  BY <1>1, <1>3, WorkFinish DEF Refuse
<1> QED
  BY <1>2, <1>3

LEMMA WorkBegin ==
  ASSUME WorkOK, groups \in Seq(Entry), NEW p \in Request, Begin(p)
  PROVE  WorkOK'
<1> DEFINE n == Len(groups)
<1>0. p \in Process /\ p \notin Cleaners /\ n \in Nat /\ <<>> \in Seq(File)
  BY CleanerNames, GroupsNumber, EmptySeq
<1>1. Len(groups)' = n
  BY DEF Begin, BeginUpload, BeginDelete, BeginDeleteGroup, tables
<1> HIDE DEF n
<1>2. ASSUME NEW u \in Uploads, BeginUpload(p, u[1], u[2]) PROVE WorkOK'
  <2> DEFINE f == u[1]
             g == u[2]
             r == [step |-> "upStat", kind |-> "upload", file |-> f, group |-> g, entry |-> 0,
                   at |-> Home[f], ids |-> <<>>, todo |-> <<>>]
  <2>1. f \in File /\ g \in Group \cup {NoGroup}
    BY BoundAssumption
  <2>2. proc' = [proc EXCEPT ![p] = r]
    BY <1>2 DEF BeginUpload
  <2> HIDE DEF f, g
  <2>3. Home[f] \in Machine
    BY <2>1, HomeAssumption
  <2>4. r \in LocalsOf(n)
    BY <1>0, <2>1, <2>3, StepNames DEF LocalsOf, Kinds
  <2>5. r.step = "upStat" /\ r.kind = "upload" /\ r.file = f /\ r.at = Home[f]
    OBVIOUS
  <2> HIDE DEF r
  <2>6. RecordOK(p, r, n)
    BY <1>0, <2>1, <2>4, <2>5, StepNames DEF RecordOK
  <2> QED
    BY <1>0, <1>1, <2>2, <2>6, WorkHere DEF n
<1>3. ASSUME NEW m \in Machine, NEW fs \in Deletions, BeginDelete(p, m, fs) PROVE WorkOK'
  <2> DEFINE r == [step |-> "delStat", kind |-> "delete", file |-> NoFile, group |-> NoGroup,
                   entry |-> 0, at |-> m, ids |-> fs, todo |-> fs]
  <2>1. fs \in Seq(File)
    BY BoundAssumption
  <2>2. proc' = [proc EXCEPT ![p] = r]
    BY <1>3 DEF BeginDelete
  <2>3. r \in LocalsOf(n)
    BY <1>0, <2>1, StepNames DEF LocalsOf, Kinds
  <2>4. r.step = "delStat" /\ r.kind = "delete"
    OBVIOUS
  <2> HIDE DEF r
  <2>5. RecordOK(p, r, n)
    BY <1>0, <2>3, <2>4, StepNames DEF RecordOK
  <2> QED
    BY <1>0, <1>1, <2>2, <2>5, WorkHere DEF n
<1>4. ASSUME NEW m \in Machine, NEW g \in Group, BeginDeleteGroup(p, m, g) PROVE WorkOK'
  <2> DEFINE r == [step |-> "groupFind", kind |-> "deleteGroup", file |-> NoFile, group |-> g,
                   entry |-> 0, at |-> m, ids |-> <<>>, todo |-> <<>>]
  <2>1. proc' = [proc EXCEPT ![p] = r]
    BY <1>4 DEF BeginDeleteGroup
  <2>2. r \in LocalsOf(n)
    BY <1>0, StepNames DEF LocalsOf, Kinds
  <2>3. r.step = "groupFind" /\ r.kind = "deleteGroup" /\ "groupFind" \notin AskSteps \cup DeleteSteps
    BY StepNames
  <2> HIDE DEF r
  <2>4. RecordOK(p, r, n)
    BY <1>0, <2>2, <2>3 DEF RecordOK
  <2> QED
    BY <1>0, <1>1, <2>1, <2>4, WorkHere DEF n
<1> QED
  BY <1>2, <1>3, <1>4 DEF Begin

\* FindLogGroup finds an entry of the table, or none.
LEMMA FindLogGroupIn ==
  ASSUME groups \in Seq(Entry), NEW m, NEW g
  PROVE  FindLogGroup(m, g) \in 0 .. Len(groups)
<1> DEFINE S == LiveEntries(m, g)
<1>1. S \in SUBSET Nat /\ S \subseteq 1 .. Len(groups) /\ Len(groups) \in Nat
  BY DEF LiveEntries
<1>2. FindLogGroup(m, g) = IF S = {} THEN 0 ELSE CHOOSE i \in S : \A j \in S : i <= j
  BY DEF FindLogGroup, LiveEntries
<1> HIDE DEF S
<1>3. CASE S = {}
  <2>1. FindLogGroup(m, g) = 0
    BY <1>2, <1>3
  <2> QED
    BY <1>1, <2>1
<1>4. CASE S # {}
  <2>1. \E i \in S : \A j \in S : i <= j
    BY <1>1, <1>4, First
  <2>2. (CHOOSE i \in S : \A j \in S : i <= j) \in S
    BY <2>1
  <2>3. FindLogGroup(m, g) \in S
    BY <1>2, <1>4, <2>2
  <2>4. FindLogGroup(m, g) \in 1 .. Len(groups)
    BY <1>1, <2>3
  <2> DEFINE e == FindLogGroup(m, g)
             n == Len(groups)
  <2>5. e \in 1 .. n /\ n \in Nat
    BY <1>1, <2>4
  <2> HIDE DEF e, n
  <2>6. e \in 0 .. n
    BY <2>5
  <2> QED
    BY <2>6 DEF e, n
<1> QED
  BY <1>3, <1>4

LEMMA WorkUpload ==
  ASSUME WorkOK, groups \in Seq(Entry), groups' \in Seq(Entry), NEW p \in Request, Upload(p)
  PROVE  WorkOK'
<1>0. p \in Process /\ p \notin Cleaners /\ Len(groups) \in Nat /\ Len(groups)' \in Nat
  BY CleanerNames
<1>1. ASSUME UpStat(p) \/ UpCreate(p) \/ UpWrite(p) PROVE WorkOK'
  <2>1. PICK s \in UploadSteps : Goto(p, s) /\ Step(p) \in AskSteps /\ groups' = groups
    BY <1>1 DEF UpStat, UpCreate, UpWrite, Saved, tables, AskSteps, UploadSteps
  <2>2. s \in Steps /\ s \in AskSteps /\ s \notin DeleteSteps /\ s \notin {"cleanOldest", "cleanTimeout"}
    BY StepNames
  <2> QED
    BY <1>0, <2>1, <2>2, WorkGoto
<1>2. ASSUME UpLookup(p) PROVE WorkOK'
  <2>1. groups' = groups /\ (Finish(p) \/ (Goto(p, "upInsert") /\ Step(p) \in AskSteps))
    BY <1>2 DEF UpLookup, tables, AskSteps, UploadSteps
  <2>2. /\ "upInsert" \in Steps /\ "upInsert" \in AskSteps /\ "upInsert" \notin DeleteSteps
        /\ "upInsert" \notin {"cleanOldest", "cleanTimeout"}
    BY DEF AskSteps, UploadSteps, DeleteSteps, Steps
  <2>3. Len(groups)' = Len(groups) /\ Len(groups) <= Len(groups)
    BY <1>0, <2>1
  <2>4. CASE Finish(p)
    BY <1>0, <2>3, <2>4, WorkFinish
  <2>5. CASE Goto(p, "upInsert") /\ Step(p) \in AskSteps
    BY <1>0, <2>2, <2>3, <2>5, WorkGoto
  <2> QED
    BY <2>1, <2>4, <2>5
<1>3. ASSUME UpGroup(p) PROVE WorkOK'
  <2> DEFINE e == FindLogGroup(At(p), proc[p].group)
             s == IF e = 0 THEN "upGroupInsert" ELSE "upGroupUpdate"
             n == Len(groups)
             q == [proc[p] EXCEPT !.entry = e]
             r == [q EXCEPT !.step = s]
  <2>1. e \in 0 .. n /\ groups' = groups
    BY <1>3, FindLogGroupIn DEF UpGroup, tables
  <2>2. Step(p) \in AskSteps /\ proc' = [proc EXCEPT ![p].entry = e, ![p].step = s]
    BY <1>3 DEF UpGroup, AskSteps, UploadSteps
  <2>3. /\ s \in Steps /\ s \in AskSteps /\ s \notin DeleteSteps
        /\ s \notin {"cleanOldest", "cleanTimeout"}
    BY DEF AskSteps, UploadSteps, DeleteSteps, Steps
  <2> HIDE DEF e, s
  <2>4. RecordOK(p, proc[p], n)
    BY <1>0 DEF WorkOK
  <2>5. RecordOK(p, q, n)
    <3>1. q \in LocalsOf(n) /\ \A x \in Fields \ {"entry"} : q[x] = proc[p][x]
      BY <2>1, <2>4 DEF RecordOK, LocalsOf, Fields
    <3> HIDE DEF q
    <3> QED
      BY <2>4, <3>1 DEF RecordOK, Fields
  <2>6. q.step = Step(p)
    BY <2>4 DEF RecordOK, LocalsOf, Step
  <2>7. proc' = [proc EXCEPT ![p] = r]
    BY <2>2, <2>4 DEF RecordOK, LocalsOf, WorkOK
  <2> HIDE DEF q
  <2>8. RecordOK(p, r, n)
    BY <1>0, <2>2, <2>3, <2>5, <2>6, StepOK
  <2> HIDE DEF r
  <2> QED
    BY <1>0, <2>1, <2>7, <2>8, WorkHere DEF n
<1>4. ASSUME UpInsert(p) \/ UpGroupUpdate(p) PROVE WorkOK'
  <2>1. Finish(p) /\ groups' = groups
    BY <1>4 DEF UpInsert, UpGroupUpdate, Insert
  <2>2. Len(groups)' = Len(groups) /\ Len(groups) <= Len(groups)
    BY <1>0, <2>1
  <2> QED
    BY <1>0, <2>1, <2>2, WorkFinish
<1>5. ASSUME UpGroupInsert(p) PROVE WorkOK'
  <2> DEFINE e == [home |-> At(p), id |-> proc[p].group, live |-> TRUE]
  <2>1. Finish(p) /\ groups' = Append(groups, e)
    BY <1>5 DEF UpGroupInsert, Insert
  <2> HIDE DEF e
  <2>2. Len(groups') = Len(groups) + 1
    BY <2>1
  <2>3. Len(groups) <= Len(groups)'
    BY <1>0, <2>2
  <2> QED
    BY <1>0, <2>1, <2>3, WorkFinish
<1> QED
  BY <1>1, <1>2, <1>3, <1>4, <1>5 DEF Upload

\* The files of some rows; of rows of m, they are files of m.
LEMMA FilesOfRows ==
  ASSUME RowsOK, \A r \in rows : r.file \in File, NEW rs, rs \subseteq rows
  PROVE  /\ FilesOf(Ordered(rs)) \in Seq(File)
         /\ FilesOf(FirstRows(Ordered(rs))) \in Seq(File)
         /\ FilesOf(FirstRows(Reverse(Ordered(rs)))) \in Seq(File)
         /\ \A m : (\A r \in rs : Home[r.file] = m) =>
              /\ FilesOf(FirstRows(Ordered(rs))) \in Seq(FilesAt(m))
              /\ FilesOf(FirstRows(Reverse(Ordered(rs)))) \in Seq(FilesAt(m))
<1> DEFINE o == Ordered(rs)
           a == FirstRows(o)
           b == FirstRows(Reverse(o))
<1>1. o \in Seq(rs)
  BY OrderedLists
<1> HIDE DEF o
<1>2. a \in Seq(rs) /\ b \in Seq(rs)
  BY <1>1, ReverseList, FirstRowsList
<1> HIDE DEF a, b
<1>3. FilesOf(o) \in Seq(File) /\ FilesOf(a) \in Seq(File) /\ FilesOf(b) \in Seq(File)
  BY <1>1, <1>2, FilesOfList
<1>4. ASSUME NEW m, \A r \in rs : Home[r.file] = m
      PROVE  FilesOf(a) \in Seq(FilesAt(m)) /\ FilesOf(b) \in Seq(FilesAt(m))
  <2>1. \A r \in rs : r.file \in FilesAt(m)
    BY <1>4 DEF FilesAt
  <2> QED
    BY <1>2, <2>1, FilesOfList
<1> QED
  BY <1>3, <1>4 DEF o, a, b

LEMMA WorkDelete ==
  ASSUME WorkOK, RowsOK, \A r \in rows : r.file \in File, groups \in Seq(Entry),
         groups' \in Seq(Entry), NEW p \in Process, Delete(p)
  PROVE  WorkOK'
<1>0. Len(groups) \in Nat /\ Len(groups)' \in Nat /\ RecordOK(p, proc[p], Len(groups))
  BY DEF WorkOK
<1>1. CASE GroupFind(p)
  <2> DEFINE e == FindLogGroup(At(p), proc[p].group)
             t == FilesOf(Ordered({r \in rows : r.entry = e}))
  <2>1. p \notin Cleaners
    BY <1>0, <1>1, StepNames DEF GroupFind, RecordOK, Step
  <2>2. Len(groups)' = Len(groups) /\ Len(groups) <= Len(groups)
    BY <1>0, <1>1 DEF GroupFind, tables
  <2>3. t \in Seq(File)
    BY FilesOfRows
  <2>4. Finish(p) \/ proc' = [proc EXCEPT ![p].step = "delStat", ![p].todo = t]
    BY <1>1 DEF GroupFind
  <2> HIDE DEF t
  <2> QED
    BY <1>0, <2>1, <2>2, <2>3, <2>4, WorkFinish, WorkTodo
<1>2. CASE GroupLast(p)
  <2> DEFINE e == FindLogGroup(At(p), proc[p].group)
  <2>1. Finish(p) /\ groups' = IF e = 0 THEN groups ELSE [groups EXCEPT ![e].live = FALSE]
    BY <1>2 DEF GroupLast
  <2> HIDE DEF e
  <2>2. Len(groups)' = Len(groups)
    BY <2>1
  <2>3. Len(groups) <= Len(groups)'
    BY <1>0, <2>2
  <2> QED
    BY <1>0, <2>1, <2>3, WorkFinish
<1>3. CASE Proxy(p)
  <2> DEFINE h == Home[Current(p)]
             r == [proc[p] EXCEPT !.at = h, !.todo = proc[p].ids]
  <2>1. /\ proc[p].todo # <<>> /\ h # At(p) /\ Step(p) = "delStat"
        /\ proc' = [proc EXCEPT ![p].at = h, ![p].todo = proc[p].ids]
        /\ Len(groups)' = Len(groups)
    BY <1>3 DEF Proxy, Over, tables
  <2>2. Current(p) \in File /\ (p \in Cleaners => Current(p) \in FilesAt(p[2]))
    BY <1>0, <2>1, RestOK DEF Current
  <2>3. p \notin Cleaners /\ h \in Machine
    BY <1>0, <2>1, <2>2, HomeAssumption DEF FilesAt, RecordOK, At
  <2> HIDE DEF h
  <2>4. r \in LocalsOf(Len(groups)) /\ r.step = "delStat" /\ r.kind = proc[p].kind
    BY <1>0, <2>1, <2>3 DEF RecordOK, LocalsOf, Step
  <2>5. proc' = [proc EXCEPT ![p] = r]
    BY <1>0, <2>1 DEF RecordOK, LocalsOf, WorkOK
  <2> HIDE DEF r
  <2>6. RecordOK(p, r, Len(groups))
    BY <1>0, <2>3, <2>4, StepNames DEF RecordOK
  <2> QED
    BY <2>1, <2>5, <2>6, WorkHere
<1>4. CASE DelStat(p)
  <2>1. /\ proc[p].todo # <<>> /\ Len(groups)' = Len(groups)
        /\ Goto(p, "delRow") \/ Goto(p, "delRemove")
    BY <1>4 DEF DelStat, Over, tables
  <2>2. \A s \in DeleteSteps : s \in Steps /\ s \notin AskSteps /\ s \in CleanSteps /\ s \notin {"cleanOldest", "cleanTimeout"}
    BY StepNames
  <2>3. "delRow" \in DeleteSteps /\ "delRemove" \in DeleteSteps
    BY DEF DeleteSteps
  <2> QED
    BY <2>1, <2>2, <2>3, WorkGoto
<1>5. CASE DelRemove(p)
  <2>1. /\ Step(p) = "delRemove" /\ Len(groups)' = Len(groups) /\ Goto(p, "delRow")
    BY <1>5 DEF DelRemove, tables
  <2>2. "delRow" \in DeleteSteps /\ "delRemove" \in DeleteSteps
    BY DEF DeleteSteps
  <2>3. proc[p].todo # <<>>
    BY <1>0, <2>1, <2>2 DEF RecordOK, Step
  <2>4. "delRow" \in Steps /\ "delRow" \notin AskSteps /\ "delRow" \in CleanSteps
    BY <2>2, StepNames
  <2> QED
    BY <2>1, <2>3, <2>4, WorkGoto
<1>6. CASE DelRemoveGone(p)
  <2>1. /\ Step(p) \in DeleteSteps /\ Len(groups)' = Len(groups) /\ Refuse(p)
    BY <1>6 DEF DelRemoveGone, tables, DeleteSteps
  <2> QED
    BY <2>1, WorkRefuse
<1>7. CASE DelRow(p)
  <2> DEFINE t == Tail(proc[p].todo)
  <2>1. /\ Step(p) \in DeleteSteps /\ Len(groups)' = Len(groups)
        /\ proc' = [proc EXCEPT ![p].step = "delStat", ![p].todo = t]
    BY <1>7 DEF DelRow, Deleted, DeleteSteps
  <2>2. t \in Seq(File) /\ (p \in Cleaners => t \in Seq(FilesAt(p[2])))
    BY <1>0, <2>1, RestOK DEF RecordOK, Step
  <2> HIDE DEF t
  <2> QED
    BY <2>1, <2>2, WorkTodo
<1>8. CASE DelOver(p)
  <2>0. Len(groups)' = Len(groups) /\ Len(groups) <= Len(groups)
    BY <1>0, <1>8 DEF DelOver, tables
  <2>1. CASE proc[p].kind = "deleteGroup"
    <3>1. Goto(p, "groupLast") /\ p \notin Cleaners
      BY <1>0, <1>8, <2>1 DEF DelOver, RecordOK
    <3>2. "groupLast" \in Steps /\ "groupLast" \notin AskSteps \cup DeleteSteps
      BY StepNames
    <3> QED
      BY <2>0, <3>1, <3>2, WorkGoto
  <2>2. CASE proc[p].kind = "bySize"
    <3>1. Goto(p, "cleanTimeout")
      BY <1>8, <2>2 DEF DelOver
    <3>2. "cleanTimeout" \in Steps /\ "cleanTimeout" \notin AskSteps \cup DeleteSteps /\ "cleanTimeout" \in CleanSteps
      BY StepNames DEF CleanSteps
    <3> QED
      BY <2>0, <2>2, <3>1, <3>2, WorkGoto
  <2>3. CASE proc[p].kind \notin {"deleteGroup", "bySize"}
    <3>1. Finish(p)
      BY <1>8, <2>3 DEF DelOver
    <3> QED
      BY <1>0, <2>0, <3>1, WorkFinish
  <2> QED
    BY <2>1, <2>2, <2>3
<1> QED
  BY <1>1, <1>2, <1>3, <1>4, <1>5, <1>6, <1>7, <1>8 DEF Delete

LEMMA WorkClean ==
  ASSUME WorkOK, RowsOK, \A r \in rows : r.file \in File, groups \in Seq(Entry),
         NEW m \in Machine, CleanCount(m) \/ CleanOldest(m) \/ CleanTimeout(m)
  PROVE  WorkOK'
<1> DEFINE p == Cleaner(m)
           n == Len(groups)
<1>0. /\ p \in Process /\ p \in Cleaners /\ p[2] = m /\ Len(groups)' = Len(groups) /\ n \in Nat
      /\ RecordOK(p, proc[p], n)
  BY CleanerNames DEF WorkOK, CleanCount, CleanOldest, CleanTimeout, tables
<1>r. \A r \in RowsAt(m) : r \in rows /\ Home[r.file] = m
  BY DEF RowsAt
<1>1. CASE CleanCount(m)
  <2>1. PICK s \in {"cleanOldest", "cleanTimeout"} : proc' = [proc EXCEPT ![p].step = s, ![p].kind = "bySize"]
    BY <1>1 DEF CleanCount
  <2> HIDE DEF p
  <2> DEFINE q == [proc[p] EXCEPT !.kind = "bySize"]
             r == [q EXCEPT !.step = s]
  <2>2. q \in LocalsOf(n) /\ \A x \in Fields \ {"kind"} : q[x] = proc[p][x]
    BY <1>0 DEF RecordOK, LocalsOf, Kinds, Fields
  <2>3. q.kind = "bySize"
    BY <1>0 DEF RecordOK, LocalsOf
  <2>4. proc' = [proc EXCEPT ![p] = r]
    BY <1>0, <2>1 DEF RecordOK, LocalsOf, WorkOK
  <2> HIDE DEF q
  <2>5. p \notin Request
    BY <1>0, CleanerNames
  <2>6. RecordOK(p, q, n)
    BY <1>0, <2>2, <2>3, <2>5 DEF RecordOK, Fields
  <2>7. s \in Steps /\ s \notin AskSteps \cup DeleteSteps /\ s \in CleanSteps
    BY StepNames DEF CleanSteps
  <2>8. RecordOK(p, r, n)
    BY <1>0, <2>3, <2>6, <2>7, StepOK
  <2> HIDE DEF r
  <2> QED
    BY <1>0, <2>4, <2>8, WorkHere DEF n
<1>2. CASE CleanOldest(m)
  <2> DEFINE t == FilesOf(FirstRows(Ordered(RowsAt(m))))
  <2>1. t \in Seq(File) /\ t \in Seq(FilesAt(m))
    BY <1>r, FilesOfRows
  <2>2. proc' = [proc EXCEPT ![p].step = "delStat", ![p].todo = t]
    BY <1>2 DEF CleanOldest
  <2> HIDE DEF t, p
  <2> QED
    BY <1>0, <2>1, <2>2, WorkTodo
<1>3. CASE CleanTimeout(m)
  <2> DEFINE t == FilesOf(FirstRows(Reverse(Ordered({w \in RowsAt(m) : Old(w)}))))
             q == [proc[p] EXCEPT !.kind = "byTime"]
             v == [proc[p] EXCEPT !.step = "delStat", !.kind = "byTime"]
             r == [v EXCEPT !.todo = t]
  <2>0. {w \in RowsAt(m) : Old(w)} \subseteq RowsAt(m)
    OBVIOUS
  <2>1. t \in Seq(File) /\ t \in Seq(FilesAt(m))
    BY <1>r, <2>0, FilesOfRows
  <2>2. proc' = [proc EXCEPT ![p].step = "delStat", ![p].kind = "byTime", ![p].todo = t]
    BY <1>3 DEF CleanTimeout
  <2> HIDE DEF t, p
  <2>3. "delStat" \in Steps \ (AskSteps \cup DeleteSteps) /\ "delStat" \in CleanSteps
    BY StepNames DEF CleanSteps
  <2>4. /\ v \in LocalsOf(n) /\ v.step = "delStat" /\ v.kind = "byTime"
        /\ \A x \in Fields \ {"step", "kind"} : v[x] = proc[p][x]
    BY <1>0, <2>3 DEF RecordOK, LocalsOf, Kinds, Fields
  <2>5. proc' = [proc EXCEPT ![p] = r]
    BY <1>0, <2>2 DEF RecordOK, LocalsOf, WorkOK
  <2> HIDE DEF v
  <2>6. /\ r \in LocalsOf(n) /\ r.step = "delStat" /\ r.kind = "byTime" /\ r.todo = t
        /\ r.at = proc[p].at
    BY <2>1, <2>4 DEF LocalsOf, Fields
  <2> HIDE DEF r
  <2>7. RecordOK(p, r, n)
    BY <1>0, <2>1, <2>3, <2>6 DEF RecordOK
  <2> QED
    BY <1>0, <2>5, <2>7, WorkHere DEF n
<1> QED
  BY <1>1, <1>2, <1>3

LEMMA WorkFailQuery ==
  ASSUME WorkOK, groups \in Seq(Entry), NEW m \in Machine, FailQuery(m)
  PROVE  WorkOK'
<1> DEFINE n == Len(groups)
<1>0. PICK p \in Process : p \in Cleaners /\ Stops(m, p) /\ Len(groups)' = n
  BY QueryStops, CleanerNames
<1>1. RecordOK(p, proc[p], n) /\ n \in Nat
  BY GroupsNumber DEF WorkOK
<1>2. CASE Finish(p)
  BY <1>0, <1>1, <1>2, WorkFinish
<1>3. CASE ~Finish(p)
  <2> DEFINE q == [proc[p] EXCEPT !.kind = "bySize"]
             r == [q EXCEPT !.step = "cleanTimeout"]
  <2>1. q \in LocalsOf(n) /\ q.kind = "bySize" /\ \A x \in Fields \ {"kind"} : q[x] = proc[p][x]
    BY <1>1 DEF RecordOK, LocalsOf, Kinds, Fields
  <2>2. proc' = [proc EXCEPT ![p] = r]
    BY <1>0, <1>1, <1>3 DEF RecordOK, LocalsOf, WorkOK, Stops
  <2> HIDE DEF q
  <2>3. RecordOK(p, q, n)
    BY <1>0, <1>1, <2>1, CleanerNames DEF RecordOK, Fields
  <2>4. "cleanTimeout" \in Steps \ (AskSteps \cup DeleteSteps) /\ "cleanTimeout" \in CleanSteps
    BY StepNames DEF CleanSteps
  <2>5. RecordOK(p, r, n)
    BY <1>1, <2>1, <2>3, <2>4, StepOK
  <2> HIDE DEF r
  <2> QED
    BY <1>0, <2>2, <2>5, WorkHere DEF n
<1> QED
  BY <1>2, <1>3

LEMMA WorkCrash ==
  ASSUME WorkOK, groups \in Seq(Entry), NEW m \in Machine, Crash(m)
  PROVE  WorkOK'
<1> DEFINE dead == {p \in Process : At(p) = m /\ Step(p) # "idle"}
<1>1. /\ proc' = [p \in Process |-> IF p \in dead THEN Idle(p) ELSE proc[p]]
      /\ Len(groups)' = Len(groups)
  BY DEF Crash, tables
<1> HIDE DEF dead
<1>2. \A p \in Process : RecordOK(p, proc'[p], Len(groups))
  BY <1>1, IdleOK, GroupsNumber DEF WorkOK
<1> QED
  BY <1>1, <1>2 DEF WorkOK

LEMMA WorkNext ==
  ASSUME WorkOK, RowsOK, \A r \in rows : r.file \in File, groups \in Seq(Entry),
         groups' \in Seq(Entry), [Next]_vars
  PROVE  WorkOK'
<1>1. ASSUME NEW p \in Request, Begin(p) \/ Upload(p) \/ Delete(p) PROVE WorkOK'
  BY <1>1, WorkBegin, WorkUpload, WorkDelete, CleanerNames
<1>2. ASSUME NEW m \in Machine, Clean(m) \/ FailQuery(m) \/ Crash(m) PROVE WorkOK'
  BY <1>2, WorkClean, WorkDelete, WorkFailQuery, WorkCrash, CleanerNames DEF Clean
<1>3. ASSUME NEW p \in Process, Fail(p) PROVE WorkOK'
  <2>1. /\ Refuse(p) /\ Len(groups)' = Len(groups)
        /\ Step(p) \in AskSteps \cup DeleteSteps \cup {"groupFind", "groupLast"}
    BY <1>3 DEF Fail, tables, AskSteps, UploadSteps
  <2> QED
    BY <2>1, WorkRefuse
<1>4. CASE Tick \/ UNCHANGED vars
  BY <1>4 DEF Tick, vars, tables, WorkOK
<1> QED
  BY <1>1, <1>2, <1>3, <1>4 DEF Next

-----------------------------------------------------------------------------
(* The types of files, tables and the task *)

RowOf(n, t) == [id : Nat, file : File, entry : 0 .. n, created : 0 .. t]

\* The types of all but rows, groups and proc.
PlainOK ==
  /\ disk \in [File -> {"none", "partial", "full"}]
  /\ now \in Nat
  /\ linked \subseteq Request /\ mixed \subseteq File /\ missed \subseteq Machine
  /\ excess \in [Machine -> Int] /\ added \in [Machine -> Nat]

TypeInv ==
  /\ groups \in Seq(Entry) /\ WorkOK /\ RowsOK /\ PlainOK
  /\ rows \subseteq RowOf(Len(groups), now)

LEMMA RowFiles ==
  ASSUME TypeInv
  PROVE  \A r \in rows : r.file \in File
BY DEF TypeInv, RowOf

LEMMA TotalNat ==
  ASSUME TypeInv, NEW m
  PROVE  /\ Total(m) \in Nat /\ RowsAt(m) \subseteq rows /\ IsFiniteSet(RowsAt(m))
         /\ \A r \in RowsAt(m) : r.file \in File
<1>1. RowsAt(m) \subseteq rows
  BY DEF RowsAt
<1>2. IsFiniteSet(rows)
  BY DEF TypeInv, RowsOK
<1>3. IsFiniteSet(RowsAt(m))
  BY <1>1, <1>2, FS_Subset
<1>4. \A r \in RowsAt(m) : r.file \in File
  BY <1>1, RowFiles
<1> QED
  BY <1>1, <1>3, <1>4, BytesFinite DEF Total

\* What a process works on is a file, in its own place.
LEMMA WorkFiles ==
  ASSUME TypeInv, NEW p \in Process
  PROVE  /\ At(p) \in Machine /\ WorksOn(p) \subseteq File
         /\ Step(p) \in AskSteps => p \in Request /\ proc[p].file \in File /\ At(p) = Home[proc[p].file]
         /\ Step(p) \in DeleteSteps \/ proc[p].todo # <<>> => Current(p) \in File
<1>1. RecordOK(p, proc[p], Len(groups))
  BY DEF TypeInv, WorkOK
<1>2. At(p) \in Machine
  BY <1>1 DEF RecordOK, LocalsOf, At
<1>3. Step(p) \in AskSteps => p \in Request /\ proc[p].file \in File /\ At(p) = Home[proc[p].file]
  BY <1>1 DEF RecordOK, Step, At
<1>4. Step(p) \in DeleteSteps \/ proc[p].todo # <<>> => Current(p) \in File
  <2>1. Step(p) \in DeleteSteps => proc[p].todo # <<>>
    BY <1>1 DEF RecordOK, Step
  <2>2. proc[p].todo \in Seq(File)
    BY <1>1 DEF RecordOK, LocalsOf
  <2> QED
    BY <2>1, <2>2, HeadTailProperties DEF Current
<1>5. WorksOn(p) \subseteq File
  BY <1>3, <1>4, StepNames DEF WorksOn
<1> QED
  BY <1>2, <1>3, <1>4, <1>5

\* A row is added at the end of an upload, or rows go.
RowAdded(p, r) ==
  /\ p \in Request /\ Step(p) \in {"upInsert", "upGroupInsert", "upGroupUpdate"}
  /\ r.id = NextId /\ r.file = proc[p].file /\ r.created = now
  /\ r \in [id : Nat, file : File, entry : Nat, created : Nat]
  /\ rows' = rows \cup {r}
  /\ added' = [added EXCEPT ![At(p)] = @ + Size[proc[p].file]]
  /\ Finish(p) /\ UNCHANGED <<disk, now, linked, excess, missed, mixed>>
  /\ \/ groups' = groups /\ r.entry \in 0 .. Len(groups)
     \/ Len(groups') = Len(groups) + 1 /\ r.entry = Len(groups')

LEMMA RowIsAdded ==
  ASSUME TypeInv, NEW p \in Request, UpInsert(p) \/ UpGroupInsert(p) \/ UpGroupUpdate(p)
  PROVE  \E r : RowAdded(p, r)
<1>0. Step(p) \in {"upInsert", "upGroupInsert", "upGroupUpdate"}
  BY DEF UpInsert, UpGroupInsert, UpGroupUpdate
<1>1. proc[p].file \in File /\ NextId \in Nat /\ now \in Nat /\ Len(groups) \in Nat
  BY <1>0, WorkFiles, CleanerNames, NextIdIsNew DEF AskSteps, UploadSteps, TypeInv, PlainOK
<1>2. proc[p].entry \in 0 .. Len(groups)
  BY CleanerNames DEF TypeInv, WorkOK, RecordOK, LocalsOf
<1>3. ASSUME NEW e \in Nat, Insert(p, e),
             \/ groups' = groups /\ e \in 0 .. Len(groups)
             \/ Len(groups') = Len(groups) + 1 /\ e = Len(groups')
      PROVE  \E r : RowAdded(p, r)
  <2> DEFINE r == [id |-> NextId, file |-> proc[p].file, entry |-> e, created |-> now]
  <2>1. /\ rows' = rows \cup {r} /\ Finish(p) /\ UNCHANGED <<disk, now, linked, excess, missed, mixed>>
        /\ added' = [added EXCEPT ![At(p)] = @ + Size[proc[p].file]]
    BY <1>3 DEF Insert
  <2>2. /\ r.id = NextId /\ r.file = proc[p].file /\ r.created = now /\ r.entry = e
        /\ r \in [id : Nat, file : File, entry : Nat, created : Nat]
    BY <1>1, <1>3
  <2> HIDE DEF r
  <2>3. RowAdded(p, r)
    BY <1>0, <1>3, <2>1, <2>2 DEF RowAdded
  <2> QED
    BY <2>3
<1>4. CASE UpInsert(p)
  BY <1>1, <1>3, <1>4 DEF UpInsert
<1>5. CASE UpGroupUpdate(p)
  BY <1>1, <1>2, <1>3, <1>5 DEF UpGroupUpdate
<1>6. CASE UpGroupInsert(p)
  <2> DEFINE e == [home |-> At(p), id |-> proc[p].group, live |-> TRUE]
             k == Len(groups')
  <2>1. groups' = Append(groups, e) /\ Insert(p, k)
    BY <1>6 DEF UpGroupInsert
  <2> HIDE DEF e
  <2>2. k = Len(groups) + 1
    BY <2>1 DEF TypeInv
  <2>3. k \in Nat
    BY <1>1, <2>2
  <2> QED
    BY <1>3, <2>1, <2>2, <2>3
<1> QED
  BY <1>4, <1>5, <1>6

LEMMA RowsFewer ==
  ASSUME RowsOK, rows' \subseteq rows
  PROVE  RowsOK'
<1>1. IsFiniteSet(rows')
  BY FS_Subset DEF RowsOK
<1> QED
  BY <1>1 DEF RowsOK

LEMMA RowsMore ==
  ASSUME RowsOK, NEW r, r.id = NextId, rows' = rows \cup {r}
  PROVE  RowsOK' /\ r \notin rows
<1>1. NextId \in Nat \ {0} /\ \A q \in rows : q.id < NextId /\ q.id \in Nat \ {0}
  BY NextIdIsNew DEF RowsOK
<1> DEFINE n == NextId
<1>2. n \in Nat \ {0} /\ r.id = n /\ \A q \in rows : q.id < n /\ q.id \in Nat \ {0}
  BY <1>1
<1> HIDE DEF n
<1>3. IsFiniteSet(rows')
  BY FS_AddElement DEF RowsOK
<1>4. r \notin rows
  BY <1>2
<1>5. \A q \in rows' : q.id \in Nat \ {0} /\ q.id <= n
  BY <1>2
<1>6. \A q, s \in rows' : q.id = s.id => q = s
  BY <1>2 DEF RowsOK
<1> QED
  BY <1>2, <1>3, <1>4, <1>5, <1>6 DEF RowsOK

\* The other steps leave the table of rows alone, or take rows away.
LEMMA RowsTurn ==
  ASSUME TypeInv, [Next]_vars
  PROVE  \/ \E p \in Request : \E r : RowAdded(p, r)
         \/ /\ rows' \subseteq rows
            /\ Len(groups)' = Len(groups) /\ (now' = now \/ now' = now + 1)
<1>0. groups \in Seq(Entry)
  BY DEF TypeInv
<1>1. ASSUME NEW p \in Process, Delete(p) PROVE rows' \subseteq rows /\ Len(groups)' = Len(groups) /\ now' = now
  <2>1. rows' \subseteq rows /\ now' = now
    BY <1>1 DEF Delete, GroupFind, Proxy, DelStat, DelRemove, DelRemoveGone, DelRow, DelOver,
       GroupLast, tables
  <2>2. CASE GroupLast(p)
    <3> DEFINE e == FindLogGroup(At(p), proc[p].group)
    <3>1. groups' = IF e = 0 THEN groups ELSE [groups EXCEPT ![e].live = FALSE]
      BY <2>2 DEF GroupLast
    <3> HIDE DEF e
    <3>2. Len(groups') = Len(groups)
      BY <1>0, <3>1
    <3> QED
      BY <2>1, <3>2
  <2>3. CASE ~GroupLast(p)
    BY <1>1, <2>1, <2>3 DEF Delete, GroupFind, Proxy, DelStat, DelRemove, DelRemoveGone, DelRow,
       DelOver, tables
  <2> QED
    BY <2>2, <2>3
<1>2. ASSUME NEW p \in Request, Upload(p), ~(UpInsert(p) \/ UpGroupInsert(p) \/ UpGroupUpdate(p))
      PROVE  rows' \subseteq rows /\ Len(groups)' = Len(groups) /\ now' = now
  BY <1>2 DEF Upload, UpStat, UpCreate, UpWrite, UpLookup, UpGroup, tables
<1>3. ASSUME NEW p \in Request, Begin(p)
      PROVE  rows' \subseteq rows /\ Len(groups)' = Len(groups) /\ now' = now
  BY <1>3 DEF Begin, BeginUpload, BeginDelete, BeginDeleteGroup, tables
<1>4. ASSUME NEW m \in Machine, CleanCount(m) \/ CleanOldest(m) \/ CleanTimeout(m) \/ Crash(m)
      PROVE  rows' \subseteq rows /\ Len(groups)' = Len(groups) /\ now' = now
  BY <1>4 DEF CleanCount, CleanOldest, CleanTimeout, Crash, tables
<1>5. ASSUME NEW p \in Process, Fail(p)
      PROVE  rows' \subseteq rows /\ Len(groups)' = Len(groups) /\ now' = now
  BY <1>5 DEF Fail, tables
<1>6. ASSUME NEW m \in Machine, FailQuery(m)
      PROVE  rows' \subseteq rows /\ Len(groups)' = Len(groups) /\ now' = now
  BY <1>6, QueryStops
<1>7. CASE Tick \/ UNCHANGED vars
  BY <1>7 DEF Tick, vars, tables
<1> QED
  BY <1>1, <1>2, <1>3, <1>4, <1>5, <1>6, <1>7, RowIsAdded, CleanerNames DEF Next, Clean

LEMMA PlainNext ==
  ASSUME TypeInv, [Next]_vars
  PROVE  PlainOK'
<1>0. PlainOK /\ Size \in [File -> Nat]
  BY HomeAssumption DEF TypeInv
<1>1. ASSUME NEW p \in Process, Refuse(p) PROVE missed' \subseteq Machine
  BY <1>0, <1>1, WorkFiles DEF Refuse, PlainOK
<1>2. ASSUME NEW p \in Request, Begin(p) PROVE PlainOK'
  BY <1>0, <1>2 DEF Begin, BeginUpload, BeginDelete, BeginDeleteGroup, PlainOK, pass
<1>3. ASSUME NEW p \in Request, Upload(p) PROVE PlainOK'
  <2>1. p \in Process
    BY CleanerNames
  <2>2. CASE UpStat(p)
    <3>1. proc[p].file \in File
      BY <2>1, <2>2, WorkFiles DEF UpStat, AskSteps
    <3> QED
      BY <1>0, <2>2, <3>1 DEF UpStat, PlainOK, pass
  <2>3. CASE UpCreate(p) \/ UpWrite(p)
    BY <1>0, <2>3 DEF UpCreate, UpWrite, PlainOK, pass
  <2>4. CASE UpLookup(p) \/ UpGroup(p)
    BY <1>0, <2>4 DEF UpLookup, UpGroup, PlainOK, pass
  <2>5. CASE UpInsert(p) \/ UpGroupInsert(p) \/ UpGroupUpdate(p)
    <3>1. PICK r : RowAdded(p, r)
      BY <2>5, RowIsAdded
    <3>2. proc[p].file \in File
      BY <2>1, <3>1, WorkFiles DEF RowAdded, AskSteps, UploadSteps
    <3>3. Size[proc[p].file] \in Nat
      BY <1>0, <3>2
    <3> DEFINE a == At(p)
               s == Size[proc[p].file]
    <3>4. added' = [added EXCEPT ![a] = @ + s] /\ a \in Machine /\ s \in Nat
      BY <2>1, <3>1, <3>3, WorkFiles DEF RowAdded
    <3> HIDE DEF a, s
    <3>5. added' \in [Machine -> Nat]
      BY <1>0, <3>4 DEF PlainOK
    <3> QED
      BY <1>0, <3>1, <3>5 DEF RowAdded, PlainOK
  <2> QED
    BY <1>3, <2>2, <2>3, <2>4, <2>5 DEF Upload
<1>4. ASSUME NEW p \in Process, Delete(p) PROVE PlainOK'
  <2>1. CASE GroupFind(p) \/ Proxy(p) \/ DelOver(p) \/ GroupLast(p)
    BY <1>0, <2>1 DEF GroupFind, Proxy, DelOver, GroupLast, PlainOK, pass
  <2>2. CASE DelStat(p)
    <3>1. Current(p) \in File
      BY <2>2, WorkFiles DEF DelStat, Over
    <3> QED
      BY <1>0, <2>2, <3>1 DEF DelStat, PlainOK, pass
  <2>3. CASE DelRemove(p)
    BY <1>0, <2>3 DEF DelRemove, PlainOK, pass
  <2>4. CASE DelRemoveGone(p)
    BY <1>0, <1>1, <2>4 DEF DelRemoveGone, PlainOK
  <2>5. CASE DelRow(p)
    <3>1. Current(p) \in File
      BY <2>5, WorkFiles DEF DelRow, DeleteSteps
    <3>2. Size[Current(p)] \in Nat
      BY <1>0, <3>1
    <3> DEFINE a == At(p)
               s == Size[Current(p)]
    <3>3. (excess' = [excess EXCEPT ![a] = @ - s] \/ excess' = excess) /\ a \in Machine /\ s \in Nat
      BY <2>5, <3>2, WorkFiles DEF DelRow, Deleted
    <3> HIDE DEF a, s
    <3>4. excess' \in [Machine -> Int]
      BY <1>0, <3>3 DEF PlainOK
    <3> QED
      BY <1>0, <2>5, <3>4 DEF DelRow, PlainOK
  <2> QED
    BY <1>4, <2>1, <2>2, <2>3, <2>4, <2>5 DEF Delete
<1>5. ASSUME NEW m \in Machine, CleanCount(m) PROVE PlainOK'
  <2>1. Total(m) \in Nat /\ MaxSize \in Nat
    BY TotalNat, LimitAssumption
  <2> DEFINE x == IF Total(m) >= MaxSize THEN Total(m) - MaxSize ELSE 0
  <2>2. x \in Int
    BY <2>1
  <2>3. excess' = [excess EXCEPT ![m] = x]
    BY <1>5 DEF CleanCount
  <2> HIDE DEF x
  <2> QED
    BY <1>0, <1>5, <2>2, <2>3 DEF CleanCount, PlainOK
<1>6. ASSUME NEW m \in Machine, CleanOldest(m) \/ CleanTimeout(m) PROVE PlainOK'
  BY <1>0, <1>6 DEF CleanOldest, CleanTimeout, PlainOK, pass
<1>7. ASSUME NEW p \in Process, Fail(p) PROVE PlainOK'
  BY <1>0, <1>1, <1>7, WorkFiles DEF Fail, PlainOK
<1>8. ASSUME NEW m \in Machine, Crash(m) PROVE PlainOK'
  BY <1>0, <1>8, WorkFiles DEF Crash, PlainOK, pass
<1>9. ASSUME NEW m \in Machine, FailQuery(m) PROVE PlainOK'
  BY <1>0, <1>9, QueryStops DEF Stops, PlainOK
<1>10. CASE Tick \/ UNCHANGED vars
  BY <1>0, <1>10 DEF Tick, vars, PlainOK, pass
<1> QED
  BY <1>2, <1>3, <1>4, <1>5, <1>6, <1>7, <1>8, <1>9, <1>10, CleanerNames DEF Next, Clean

LEMMA TypeNext ==
  ASSUME TypeInv, groups' \in Seq(Entry), [Next]_vars
  PROVE  TypeInv'
<1>1. PlainOK' /\ WorkOK'
  BY PlainNext, WorkNext, RowFiles DEF TypeInv
<1>2. CASE \E p \in Request : \E r : RowAdded(p, r)
  <2>0. PICK p \in Request : \E r : RowAdded(p, r)
    BY <1>2
  <2>1. PICK r : RowAdded(p, r)
    BY <2>0
  <2>2. RowsOK'
    BY <2>1, RowsMore DEF RowAdded, TypeInv
  <2> DEFINE n == Len(groups)
             k == Len(groups')
  <2>3. n \in Nat /\ k \in Nat /\ now \in Nat /\ now' = now
    BY <2>1 DEF TypeInv, PlainOK, RowAdded
  <2>4. n <= k /\ r.entry \in 0 .. k /\ r.created = now
    <3>1. groups' = groups => k = n
      OBVIOUS
    <3>2. (k = n /\ r.entry \in 0 .. n) \/ (k = n + 1 /\ r.entry = k)
      BY <2>1, <3>1 DEF RowAdded
    <3> HIDE DEF n, k
    <3> QED
      BY <2>1, <2>3, <3>2 DEF RowAdded
  <2> HIDE DEF n, k
  <2>5. r \in RowOf(k, now)
    BY <2>1, <2>3, <2>4 DEF RowAdded, RowOf
  <2>6. 0 .. n \subseteq 0 .. k
    BY <2>3, <2>4
  <2>7. RowOf(n, now) \subseteq RowOf(k, now)
    BY <2>6 DEF RowOf
  <2>8. rows \subseteq RowOf(n, now) /\ rows' = rows \cup {r}
    BY <2>1 DEF TypeInv, n, RowAdded
  <2>9. rows' \subseteq RowOf(k, now')
    BY <2>3, <2>5, <2>7, <2>8
  <2> QED
    BY <1>1, <2>2, <2>9 DEF TypeInv, k
<1>3. CASE rows' \subseteq rows /\ Len(groups)' = Len(groups) /\ (now' = now \/ now' = now + 1)
  <2>1. RowsOK'
    BY <1>3, RowsFewer DEF TypeInv
  <2> DEFINE n == Len(groups)
  <2>2. now \in Nat /\ Len(groups)' = n /\ rows \subseteq RowOf(n, now)
    BY <1>3 DEF TypeInv, PlainOK
  <2> HIDE DEF n
  <2>3. 0 .. now \subseteq 0 .. now'
    BY <1>3, <2>2
  <2>4. RowOf(n, now) \subseteq RowOf(n, now')
    BY <2>3 DEF RowOf
  <2>5. rows' \subseteq RowOf(n, now')
    BY <1>3, <2>2, <2>4
  <2> QED
    BY <1>1, <2>1, <2>2, <2>5 DEF TypeInv
<1> QED
  BY <1>2, <1>3, RowsTurn

LEMMA TypeInit ==
  ASSUME Init
  PROVE  TypeInv
<1>1. groups = <<>> /\ rows = {} /\ Len(groups) = 0
  BY DEF Init
<1>2. groups \in Seq(Entry)
  BY <1>1, EmptySeq
<1>3. WorkOK
  BY <1>1, IdleOK DEF Init, WorkOK
<1>4. RowsOK
  BY <1>1, FS_EmptySet DEF RowsOK
<1>5. PlainOK
  BY DEF Init, PlainOK
<1> QED
  BY <1>1, <1>2, <1>3, <1>4, <1>5 DEF TypeInv

LEMMA TypeInvTyped ==
  ASSUME TypeInv
  PROVE  TypeOK
<1>1. Locals = LocalsOf(Len(groups))
  BY DEF Locals, LocalsOf
<1>2. proc \in [Process -> Locals]
  BY <1>1 DEF TypeInv, WorkOK, RecordOK
<1> QED
  BY <1>2 DEF TypeInv, PlainOK, TypeOK, RowOf, Entry

-----------------------------------------------------------------------------
(* The pass by size.  X has every row that was counted, and of each row    *)
(* that came since, but for those that the pass is through with; e are     *)
(* those of the list that are still before the pass; Y has the rows that   *)
(* came after the list was read.                                           *)

Pass(m, X, Y, e) ==
  /\ IsFiniteSet(X) /\ IsFiniteSet(Y) /\ \A r \in X \cup Y : r.file \in File
  /\ e \in Seq(X) /\ Once(e) /\ proc[Cleaner(m)].todo = FilesOf(e)
  /\ RowsAt(m) \subseteq X /\ RowsAt(m) \subseteq Elements(e) \cup Y
  /\ Cardinality(Bytes(X)) <= MaxSize + added[m] + excess[m]
  /\ Cardinality(Bytes(Y)) <= added[m]

PassSteps == {"delStat"} \cup DeleteSteps

PassOK(m) ==
  m \notin missed =>
    /\ Step(Cleaner(m)) = "cleanOldest" => Total(m) <= MaxSize + added[m] + excess[m]
    /\ Step(Cleaner(m)) \in PassSteps /\ proc[Cleaner(m)].kind = "bySize" =>
         \E X, Y, e : Pass(m, X, Y, e)
    /\ Step(Cleaner(m)) = "cleanTimeout" => Total(m) <= MaxSize + added[m]

LEMMA Numbers ==
  ASSUME TypeInv, NEW m \in Machine
  PROVE  /\ MaxSize \in Nat /\ added[m] \in Nat /\ excess[m] \in Int /\ Total(m) \in Nat
         /\ Total(m) = Cardinality(Bytes(RowsAt(m)))
BY TotalNat, LimitAssumption DEF TypeInv, PlainOK, Total

\* Rows of m go, the pass stands where it stood.
LEMMA PassStays ==
  ASSUME TypeInv, NEW m \in Machine, PassOK(m), RowsAt(m)' \subseteq RowsAt(m),
         added'[m] = added[m], excess'[m] = excess[m], m \in missed => m \in missed',
         proc'[Cleaner(m)].todo = proc[Cleaner(m)].todo, proc'[Cleaner(m)].kind = proc[Cleaner(m)].kind,
         \/ Step(Cleaner(m))' = Step(Cleaner(m))
         \/ Step(Cleaner(m))' \in PassSteps /\ Step(Cleaner(m)) \in PassSteps
  PROVE  PassOK(m)'
<1> DEFINE c == Cleaner(m)
           t == proc[c].todo
<1>1. Total(m)' <= Total(m)
  <2>1. Cardinality(Bytes(RowsAt(m)')) <= Cardinality(Bytes(RowsAt(m)))
    BY TotalNat, BytesFewer
  <2> QED
    BY <2>1 DEF Total
<1>2. Total(m)' \in Nat
  <2>1. Cardinality(Bytes(RowsAt(m)')) \in Nat
    BY TotalNat, BytesFewer
  <2> QED
    BY <2>1 DEF Total
<1>3. MaxSize \in Nat /\ added[m] \in Nat /\ excess[m] \in Int /\ Total(m) \in Nat
  BY Numbers
<1>4. PICK k \in Nat, n \in Nat : k = Total(m)' /\ n = Total(m) /\ k <= n
  BY <1>1, <1>2, <1>3
<1>5. SUFFICES ASSUME m \notin missed'
      PROVE  /\ Step(c)' = "cleanOldest" => k <= MaxSize + added'[m] + excess'[m]
             /\ Step(c)' \in PassSteps /\ proc'[c].kind = "bySize" =>
                  \E X, Y, e : Pass(m, X, Y, e)'
             /\ Step(c)' = "cleanTimeout" => k <= MaxSize + added'[m]
  BY <1>4 DEF PassOK
<1>6. m \notin missed
  BY <1>5
<1>7. ASSUME Step(c)' = "cleanOldest" PROVE k <= MaxSize + added'[m] + excess'[m]
  <2>1. Step(c) = "cleanOldest"
    BY <1>7, StepNames DEF PassSteps
  <2>2. n <= MaxSize + added[m] + excess[m]
    BY <1>4, <1>6, <2>1 DEF PassOK
  <2> QED
    BY <1>3, <1>4, <2>2
<1>8. ASSUME Step(c)' = "cleanTimeout" PROVE k <= MaxSize + added'[m]
  <2>1. Step(c) = "cleanTimeout"
    BY <1>8, StepNames DEF PassSteps
  <2>2. n <= MaxSize + added[m]
    BY <1>4, <1>6, <2>1 DEF PassOK
  <2> QED
    BY <1>3, <1>4, <2>2
<1>9. ASSUME Step(c)' \in PassSteps, proc'[c].kind = "bySize"
      PROVE  \E X, Y, e : Pass(m, X, Y, e)'
  <2>1. Step(c) \in PassSteps /\ proc[c].kind = "bySize"
    BY <1>9
  <2>2. PICK X, Y, e : Pass(m, X, Y, e)
    BY <1>6, <2>1 DEF PassOK
  <2>3. t' = t
    OBVIOUS
  <2> HIDE DEF t
  <2>4. Pass(m, X, Y, e)'
    BY <2>2, <2>3 DEF Pass
  <2> QED
    BY <2>4 DEF t
<1> QED
  BY <1>7, <1>8, <1>9

\* A row comes: of m, or of another machine.
LEMMA PassAdds ==
  ASSUME TypeInv, NEW m \in Machine, PassOK(m), NEW p \in Request, NEW r, RowAdded(p, r)
  PROVE  PassOK(m)'
<1> DEFINE c == Cleaner(m)
           t == proc[c].todo
           R == RowsAt(m)
           f == proc[p].file
<1>1. /\ p \in Process /\ p # c /\ f \in File /\ At(p) = Home[f] /\ r.file = f
      /\ rows' = rows \cup {r} /\ excess' = excess /\ missed' = missed
      /\ added' = [added EXCEPT ![Home[f]] = @ + Size[f]]
  BY CleanerNames, WorkFiles DEF RowAdded, AskSteps, UploadSteps
<1>2. proc'[c] = proc[c]
  BY <1>1, CleanerNames DEF RowAdded, Finish, TypeInv, WorkOK
<1>3. CASE Home[f] # m
  <2>1. RowsAt(m)' \subseteq RowsAt(m)
    BY <1>1, <1>3 DEF RowsAt
  <2>2. added'[m] = added[m]
    BY <1>1, <1>3 DEF TypeInv, PlainOK
  <2> QED
    BY <1>1, <1>2, <2>1, <2>2, PassStays DEF Step
<1>4. CASE Home[f] = m
  <2> DEFINE a == added[m]
             x == excess[m]
             s == Size[f]
  <2>1. RowsAt(m)' = R \cup {r}
    BY <1>1, <1>4 DEF RowsAt
  <2>2. /\ a \in Nat /\ x \in Int /\ s \in Nat /\ MaxSize \in Nat
        /\ added'[m] = a + s /\ excess'[m] = x
    BY <1>1, <1>4, Numbers, HomeAssumption DEF TypeInv, PlainOK
  <2>3. PICK k \in Nat, n \in Nat : k = Total(m)' /\ n = Total(m) /\ k <= n + s
    <3>1. /\ Cardinality(Bytes(R \cup {r})) \in Nat
          /\ Cardinality(Bytes(R \cup {r})) <= Cardinality(Bytes(R)) + Size[r.file]
      BY <1>1, TotalNat, BytesMore
    <3> QED
      BY <1>1, <2>1, <3>1, Numbers DEF Total
  <2>4. SUFFICES ASSUME m \notin missed
        PROVE  /\ Step(c) = "cleanOldest" => k <= MaxSize + (a + s) + x
               /\ Step(c) \in PassSteps /\ proc[c].kind = "bySize" =>
                    \E X, Y, e : Pass(m, X, Y, e)'
               /\ Step(c) = "cleanTimeout" => k <= MaxSize + (a + s)
    BY <1>1, <1>2, <2>2, <2>3 DEF PassOK, Step
  <2>5. ASSUME Step(c) = "cleanOldest" PROVE k <= MaxSize + (a + s) + x
    <3>1. n <= MaxSize + a + x
      BY <2>3, <2>4, <2>5 DEF PassOK
    <3> HIDE DEF a, s, x
    <3> QED
      BY <2>2, <2>3, <3>1
  <2>6. ASSUME Step(c) = "cleanTimeout" PROVE k <= MaxSize + (a + s)
    <3>1. n <= MaxSize + a
      BY <2>3, <2>4, <2>6 DEF PassOK
    <3> HIDE DEF a, s, x
    <3> QED
      BY <2>2, <2>3, <3>1
  <2>7. ASSUME Step(c) \in PassSteps, proc[c].kind = "bySize"
        PROVE  \E X, Y, e : Pass(m, X, Y, e)'
    <3>1. PICK X, Y, e : Pass(m, X, Y, e)
      BY <2>4, <2>7 DEF PassOK
    <3> DEFINE V == X \cup {r}
               W == Y \cup {r}
    <3>2. /\ IsFiniteSet(X) /\ IsFiniteSet(Y)
          /\ (\A q \in X : q.file \in File) /\ (\A q \in Y : q.file \in File)
      BY <3>1 DEF Pass
    <3>3. /\ Cardinality(Bytes(X)) \in Nat /\ Cardinality(Bytes(V)) \in Nat /\ IsFiniteSet(V)
          /\ Cardinality(Bytes(V)) <= Cardinality(Bytes(X)) + s
      BY <1>1, <3>2, BytesMore, BytesFinite
    <3>4. /\ Cardinality(Bytes(Y)) \in Nat /\ Cardinality(Bytes(W)) \in Nat /\ IsFiniteSet(W)
          /\ Cardinality(Bytes(W)) <= Cardinality(Bytes(Y)) + s
      BY <1>1, <3>2, BytesMore, BytesFinite
    <3>5. Cardinality(Bytes(X)) <= MaxSize + a + x /\ Cardinality(Bytes(Y)) <= a
      BY <3>1 DEF Pass
    <3>6. Cardinality(Bytes(V)) <= MaxSize + (a + s) + x /\ Cardinality(Bytes(W)) <= a + s
      <4> HIDE DEF a, s, x, V, W
      <4> QED
        BY <2>2, <3>3, <3>4, <3>5
    <3>7. \A q \in V \cup W : q.file \in File
      BY <1>1, <3>2
    <3>8. e \in Seq(V) /\ Once(e) /\ t = FilesOf(e)
      <4>1. e \in Seq(X) /\ Once(e) /\ t = FilesOf(e)
        BY <3>1 DEF Pass
      <4> HIDE DEF t
      <4> QED
        BY <4>1
    <3>9. RowsAt(m)' \subseteq V /\ RowsAt(m)' \subseteq Elements(e) \cup W
      BY <2>1, <3>1 DEF Pass
    <3>10. proc'[c].todo = FilesOf(e)
      BY <1>2, <3>8
    <3> HIDE DEF t, V, W
    <3>11. Pass(m, V, W, e)'
      BY <2>2, <3>3, <3>4, <3>6, <3>7, <3>8, <3>9, <3>10 DEF Pass
    <3> QED
      BY <3>11
  <2> QED
    BY <2>5, <2>6, <2>7
<1> QED
  BY <1>3, <1>4

LEMMA OnceLength ==
  ASSUME NEW S, NEW s \in Seq(S), Once(s)
  PROVE  Len(s) = Cardinality(Elements(s)) /\ IsFiniteSet(Elements(s))
<1> DEFINE T == Elements(s)
           n == Len(s)
<1>0. n \in Nat /\ DOMAIN s = 1 .. n /\ s \in [1 .. n -> T]
  BY DEF Elements
<1>1. s \in Bijection(1 .. n, T)
  <2>1. \A i, j \in 1 .. n : s[i] = s[j] => i = j
    BY <1>0 DEF Once
  <2>2. \A x \in T : \E i \in 1 .. n : s[i] = x
    BY <1>0 DEF Elements
  <2> HIDE DEF n, T
  <2> QED
    BY <1>0, <2>1, <2>2 DEF Bijection, Injection, Surjection, IsInjective
<1>2. ExistsBijection(1 .. n, T)
  BY <1>1 DEF ExistsBijection
<1> HIDE DEF n, T
<1>3. Cardinality(T) = n /\ IsFiniteSet(T)
  BY <1>0, <1>2, FS_CountingElements, FS_NatBijection
<1> QED
  BY <1>3 DEF n, T

\* The pass reads its list.
LEMMA PassBegins ==
  ASSUME TypeInv, NEW m \in Machine, PassOK(m), CleanOldest(m)
  PROVE  PassOK(m)'
<1> DEFINE c == Cleaner(m)
           R == RowsAt(m)
           o == Ordered(R)
<1>1. /\ Step(c) = "cleanOldest" /\ UNCHANGED <<rows, excess, added>>
      /\ missed' = IF Cardinality(R) > Batch THEN missed \cup {m} ELSE missed
      /\ proc' = [proc EXCEPT ![c].step = "delStat", ![c].todo = FilesOf(FirstRows(o))]
  BY DEF CleanOldest, tables
<1>2. SUFFICES ASSUME m \notin missed' PROVE \E X, Y, e : Pass(m, X, Y, e)'
  <2>1. Step(c)' = "delStat"
    BY <1>1, CleanerNames DEF TypeInv, WorkOK, RecordOK, LocalsOf, Step
  <2>2. Step(c)' \notin {"cleanOldest", "cleanTimeout"}
    BY <2>1
  <2> QED
    BY <2>2 DEF PassOK
<1>3. m \notin missed /\ ~(Cardinality(R) > Batch)
  BY <1>1, <1>2
<1>4. R \subseteq rows /\ IsFiniteSet(R) /\ \A r \in R : r.file \in File
  BY TotalNat
<1>5. o \in Seq(R) /\ Elements(o) = R /\ Once(o)
  BY <1>4, OrderedLists DEF TypeInv
<1> HIDE DEF o
<1>6. Len(o) = Cardinality(R)
  BY <1>5, OnceLength
<1>7. Len(o) <= Batch
  <2>1. Cardinality(R) \in Nat /\ Batch \in Nat
    BY <1>4, FS_CardinalityType, LimitAssumption
  <2> QED
    BY <1>3, <1>6, <2>1
<1>8. FirstRows(o) = o
  BY <1>5, <1>7, FirstRowsList
<1>9. proc'[c].todo = FilesOf(o)
  <2> DEFINE t == FilesOf(FirstRows(o))
  <2>1. proc' = [proc EXCEPT ![c].step = "delStat", ![c].todo = t]
    BY <1>1
  <2> HIDE DEF t
  <2>2. proc'[c].todo = t
    BY <2>1, CleanerNames DEF TypeInv, WorkOK, RecordOK, LocalsOf
  <2> QED
    BY <1>8, <2>2 DEF t
<1>10. Cardinality(Bytes(R)) <= MaxSize + added[m] + excess[m]
  BY <1>1, <1>3 DEF PassOK, Total
<1>11. Cardinality(Bytes({})) = 0 /\ added[m] \in Nat
  BY FS_EmptySet, Numbers DEF Bytes
<1>12. R' = R /\ added' = added /\ excess' = excess
  BY <1>1 DEF RowsAt
<1> HIDE DEF R
<1>13. PICK A, l : A = R /\ l = o
  OBVIOUS
<1>14. RowsAt(m)' = A
  BY <1>12, <1>13 DEF R
<1>15. Pass(m, A, {}, l)'
  BY <1>4, <1>5, <1>9, <1>10, <1>11, <1>12, <1>13, <1>14, FS_EmptySet DEF Pass
<1> QED
  BY <1>15

\* The pass is through with a file.
LEMMA PassDeletes ==
  ASSUME TypeInv, NEW m \in Machine, PassOK(m), DelRow(Cleaner(m))
  PROVE  PassOK(m)'
<1> DEFINE c == Cleaner(m)
           t == proc[c].todo
           f == Head(t)
<1>0. c \in Process /\ c \in Cleaners /\ c[2] = m /\ RecordOK(c, proc[c], Len(groups))
  BY CleanerNames DEF TypeInv, WorkOK
<1>1. At(c) = m /\ Step(c) \in PassSteps /\ t # <<>> /\ Step(c) = "delRow"
  BY <1>0 DEF DelRow, PassSteps, DeleteSteps, RecordOK, At, Step
<1>2. /\ rows' = {r \in rows : r.file # f} /\ added' = added /\ missed' = missed
      /\ proc' = [proc EXCEPT ![c].step = "delStat", ![c].todo = Tail(t)]
      /\ proc[c].kind = "bySize" => excess' = [excess EXCEPT ![m] = @ - Size[f]]
  BY <1>1 DEF DelRow, Deleted, Current
<1>3. Step(c)' = "delStat" /\ proc'[c].todo = Tail(t) /\ proc'[c].kind = proc[c].kind
  <2> DEFINE u == Tail(t)
  <2>1. proc' = [proc EXCEPT ![c].step = "delStat", ![c].todo = u]
    BY <1>2
  <2> HIDE DEF u
  <2> QED
    BY <1>0, <2>1 DEF TypeInv, WorkOK, RecordOK, LocalsOf, Step, u
<1>4. SUFFICES ASSUME m \notin missed, proc[c].kind = "bySize"
      PROVE  \E X, Y, e : Pass(m, X, Y, e)'
  BY <1>2, <1>3 DEF PassOK
<1>5. PICK X, Y, e : Pass(m, X, Y, e)
  BY <1>1, <1>4 DEF PassOK
<1> DEFINE x == e[1]
           Z == X \ {x}
<1>6. /\ IsFiniteSet(X) /\ IsFiniteSet(Y) /\ (\A r \in X : r.file \in File)
      /\ (\A r \in Y : r.file \in File) /\ e \in Seq(X) /\ Once(e) /\ t = FilesOf(e)
  BY <1>5 DEF Pass
<1>7. e # <<>> /\ Len(e) \in Nat \ {0} /\ x \in X /\ x.file = f
  <2>1. Len(t) \in Nat \ {0} /\ f = t[1]
    <3>1. t \in Seq(File)
      BY <1>0 DEF RecordOK, LocalsOf
    <3> HIDE DEF t
    <3> QED
      BY <1>1, <3>1, EmptySeq, HeadTailProperties
  <2>2. Len(e) = Len(t) /\ \A i \in DOMAIN e : t[i] = e[i].file
    <3>1. Len(FilesOf(e)) = Len(e)
      BY <1>6, FilesOfList
    <3> QED
      BY <1>6, <3>1 DEF FilesOf
  <2>3. 1 \in DOMAIN e /\ DOMAIN e = 1 .. Len(e)
    BY <1>6, <2>1, <2>2
  <2>4. e[1] \in X
    BY <1>6, <2>1, <2>2, ElementOfSeq
  <2> QED
    BY <1>6, <2>1, <2>2, <2>3, <2>4, EmptySeq
<1> DEFINE d == Tail(e)
<1>8. /\ d \in Seq(X) /\ Once(d) /\ Head(e) \notin Elements(d) /\ Len(d) = Len(e) - 1
      /\ Elements(e) = {Head(e)} \cup Elements(d) /\ \A i \in 1 .. Len(d) : d[i] = e[i + 1]
  BY <1>6, <1>7, OnceTail, TailList, HeadTailProperties
<1>9. Head(e) = x
  BY <1>6, <1>7
<1>10. Tail(t) = FilesOf(d)
  <2> DEFINE u == Tail(t)
             v == FilesOf(d)
  <2>1. t \in Seq(File) /\ t # <<>> /\ Len(t) = Len(e)
    BY <1>1, <1>6, FilesOfList
  <2>2. \A i \in 1 .. Len(e) : t[i] = e[i].file
    BY <1>6 DEF FilesOf
  <2> HIDE DEF t
  <2>3. u \in Seq(File) /\ Len(u) = Len(t) - 1 /\ \A i \in 1 .. Len(u) : u[i] = t[i + 1]
    BY <2>1, HeadTailProperties
  <2> HIDE DEF d
  <2>4. v \in Seq(File) /\ Len(v) = Len(d) /\ DOMAIN d = 1 .. Len(d)
    <3>1. d \in Seq(X) /\ \A r \in X : r.file \in File
      BY <1>6, <1>8 DEF d
    <3>2. FilesOf(d) \in Seq(File) /\ Len(FilesOf(d)) = Len(d)
      BY <3>1, FilesOfList
    <3> QED
      BY <3>1, <3>2
  <2>5. \A i \in 1 .. Len(d) : v[i] = d[i].file
    BY <2>4 DEF FilesOf
  <2> HIDE DEF u, v
  <2>6. Len(u) = Len(v) /\ Len(v) \in Nat
    BY <1>8, <2>1, <2>3, <2>4
  <2>7. \A i \in 1 .. Len(v) : u[i] = v[i]
    <3> SUFFICES ASSUME NEW i \in 1 .. Len(v) PROVE u[i] = v[i]
      OBVIOUS
    <3>1. i \in 1 .. Len(u) /\ i \in 1 .. Len(d) /\ i + 1 \in 1 .. Len(e)
      BY <1>7, <1>8, <2>4, <2>6
    <3>2. u[i] = t[i + 1] /\ t[i + 1] = e[i + 1].file /\ v[i] = d[i].file /\ d[i] = e[i + 1]
      BY <1>8, <2>2, <2>3, <2>5, <3>1
    <3> QED
      BY <3>2
  <2>8. u = v
    BY <2>3, <2>4, <2>6, <2>7, SeqEqual
  <2> QED
    BY <2>8 DEF u, v
<1>11. d \in Seq(Z) /\ IsFiniteSet(Z)
  <2>1. \A i \in 1 .. Len(d) : d[i] \in Z
    <3> SUFFICES ASSUME NEW i \in 1 .. Len(d) PROVE d[i] \in Z
      OBVIOUS
    <3>0. d \in Seq(X) /\ i \in 1 .. Len(d)
      BY <1>8
    <3> HIDE DEF d
    <3>1. d[i] \in X /\ d[i] \in Elements(d)
      BY <1>8, <3>0 DEF Elements
    <3> QED
      BY <1>8, <1>9, <3>1
  <2> HIDE DEF d, Z
  <2>2. d \in Seq(Z)
    BY <1>8, <2>1
  <2> QED
    BY <1>6, <2>2, FS_Subset DEF Z
<1>12. RowsAt(m)' \subseteq Z /\ RowsAt(m)' \subseteq Elements(d) \cup Y
  <2>1. \A r \in RowsAt(m)' : r \in RowsAt(m) /\ r # x
    BY <1>2, <1>7 DEF RowsAt
  <2>2. RowsAt(m) \subseteq X /\ RowsAt(m) \subseteq Elements(e) \cup Y
    BY <1>5 DEF Pass
  <2> QED
    BY <1>8, <1>9, <2>1, <2>2
<1>13. Cardinality(Bytes(Z)) <= MaxSize + added'[m] + excess'[m]
  <2> DEFINE a == added[m]
             y == excess[m]
             s == Size[f]
             k == Cardinality(Bytes(X))
             n == Cardinality(Bytes(Z))
  <2>1. \A r \in Z : r.file \in File
    BY <1>6
  <2>2. Z \cup {x} = X /\ x \notin Z
    BY <1>7
  <2> HIDE DEF Z
  <2>3. k = n + s /\ k \in Nat /\ n \in Nat /\ s \in Nat
    BY <1>6, <1>7, <1>11, <2>1, <2>2, BytesMore, BytesFinite, HomeAssumption
  <2>4. a \in Nat /\ y \in Int /\ MaxSize \in Nat /\ added'[m] = a /\ excess'[m] = y - s
    BY <1>2, <1>4, Numbers DEF TypeInv, PlainOK
  <2>5. k <= MaxSize + a + y
    BY <1>5 DEF Pass
  <2> HIDE DEF a, y, s, k, n
  <2>6. n <= MaxSize + a + (y - s)
    BY <2>3, <2>4, <2>5
  <2> QED
    BY <2>4, <2>6 DEF n
<1>14. Cardinality(Bytes(Y)) <= added'[m]
  BY <1>2, <1>5 DEF Pass
<1>15. proc'[c].todo = FilesOf(d)
  BY <1>3, <1>10
<1>16. \A r \in Z \cup Y : r.file \in File
  BY <1>6
<1> HIDE DEF t, d, Z
<1>17. Pass(m, Z, Y, d)'
  BY <1>6, <1>8, <1>11, <1>12, <1>13, <1>14, <1>15, <1>16 DEF Pass
<1> QED
  BY <1>17

\* The pass ends: everything that it listed is gone, or enough.
LEMMA PassEnds ==
  ASSUME TypeInv, NEW m \in Machine, PassOK(m), DelOver(Cleaner(m))
  PROVE  PassOK(m)'
<1> DEFINE c == Cleaner(m)
           t == proc[c].todo
<1>0. c \in Process /\ c \in Cleaners /\ c[2] = m /\ RecordOK(c, proc[c], Len(groups))
  BY CleanerNames DEF TypeInv, WorkOK
<1>1. /\ Step(c) = "delStat" /\ Over(c) /\ UNCHANGED <<rows, excess, added, missed>> /\ At(c) = m
      /\ Step(c) \in PassSteps
  BY <1>0 DEF DelOver, tables, pass, PassSteps, RecordOK, At
<1>2. CASE proc[c].kind = "bySize"
  <2>1. Goto(c, "cleanTimeout")
    BY <1>1, <1>2 DEF DelOver
  <2>2. Step(c)' = "cleanTimeout"
    BY <1>0, <2>1 DEF Goto, TypeInv, WorkOK, RecordOK, LocalsOf, Step
  <2>3. Total(m)' = Total(m)
    BY <1>1 DEF Total, RowsAt
  <2>4. SUFFICES ASSUME m \notin missed PROVE Total(m) <= MaxSize + added[m]
    BY <1>1, <2>2, <2>3 DEF PassOK, PassSteps, DeleteSteps
  <2>5. PICK X, Y, e : Pass(m, X, Y, e)
    BY <1>1, <1>2, <2>4 DEF PassOK
  <2>6. /\ IsFiniteSet(X) /\ IsFiniteSet(Y) /\ (\A r \in X : r.file \in File)
        /\ (\A r \in Y : r.file \in File) /\ e \in Seq(X) /\ t = FilesOf(e)
        /\ RowsAt(m) \subseteq X /\ RowsAt(m) \subseteq Elements(e) \cup Y
        /\ Cardinality(Bytes(X)) <= MaxSize + added[m] + excess[m]
        /\ Cardinality(Bytes(Y)) <= added[m]
    BY <2>5 DEF Pass
  <2> DEFINE a == added[m]
             x == excess[m]
             n == Total(m)
  <2>7. a \in Nat /\ x \in Int /\ MaxSize \in Nat /\ n \in Nat
    BY Numbers
  <2>8. CASE t = <<>>
    <3>1. Len(e) = 0
      BY <2>6, <2>8, FilesOfList, EmptySeq
    <3>2. Elements(e) = {}
      BY <2>6, <3>1 DEF Elements
    <3>3. n <= Cardinality(Bytes(Y)) /\ Cardinality(Bytes(Y)) \in Nat
      BY <2>6, <3>2, BytesFewer, BytesFinite DEF Total
    <3> DEFINE k == Cardinality(Bytes(Y))
    <3>4. k \in Nat /\ n <= k /\ k <= a
      BY <2>6, <3>3
    <3> HIDE DEF k, n, a
    <3>5. n <= MaxSize + a
      BY <2>7, <3>4
    <3> QED
      BY <3>5 DEF n, a
  <2>9. CASE Enough(c)
    <3>1. x <= 0
      BY <1>1, <2>9 DEF Enough
    <3> DEFINE k == Cardinality(Bytes(X))
    <3>2. k \in Nat /\ n <= k /\ k <= MaxSize + a + x
      BY <2>6, BytesFewer, BytesFinite DEF Total
    <3> HIDE DEF k, n, a, x
    <3>3. n <= MaxSize + a
      BY <2>7, <3>1, <3>2
    <3> QED
      BY <3>3 DEF n, a
  <2> QED
    BY <1>1, <2>8, <2>9 DEF Over
<1>3. CASE proc[c].kind # "bySize"
  <2>1. Step(c)' = "idle"
    <3>1. Finish(c)
      BY <1>0, <1>1, <1>3 DEF DelOver, RecordOK
    <3> QED
      BY <1>0, <3>1, IdleShape DEF Finish, TypeInv, WorkOK, Step
  <2>2. "idle" \notin PassSteps \cup {"cleanOldest", "cleanTimeout"}
    BY StepNames DEF PassSteps
  <2> QED
    BY <2>1, <2>2 DEF PassOK
<1> QED
  BY <1>2, <1>3

\* A step that leaves the task and the history of m alone.
LEMMA PassAway ==
  ASSUME TypeInv, NEW m \in Machine, PassOK(m), rows' \subseteq rows,
         proc'[Cleaner(m)] = proc[Cleaner(m)], added'[m] = added[m], excess'[m] = excess[m],
         m \in missed => m \in missed'
  PROVE  PassOK(m)'
<1>1. RowsAt(m)' \subseteq RowsAt(m)
  BY DEF RowsAt
<1> QED
  BY <1>1, PassStays DEF Step

\* Nor does the step of a process move another one.
LEMMA OneMoves ==
  ASSUME TypeInv, NEW p \in Process, NEW q \in Process, q # p,
         Begin(p) \/ Upload(p) \/ Delete(p) \/ Fail(p)
  PROVE  proc'[q] = proc[q]
<1>1. proc = [x \in Process |-> proc[x]]
  BY DEF TypeInv, WorkOK
<1>2. ASSUME NEW s, Goto(p, s) PROVE proc'[q] = proc[q]
  BY <1>1, <1>2 DEF Goto
<1>3. ASSUME Finish(p) \/ Refuse(p) \/ Deleted(p) PROVE proc'[q] = proc[q]
  BY <1>1, <1>3 DEF Finish, Refuse, Deleted
<1>4. CASE Begin(p)
  BY <1>1, <1>4 DEF Begin, BeginUpload, BeginDelete, BeginDeleteGroup
<1>5. CASE Upload(p)
  <2>1. CASE UpStat(p) \/ UpCreate(p) \/ UpWrite(p) \/ UpLookup(p)
    BY <1>2, <1>3, <2>1 DEF UpStat, UpCreate, UpWrite, UpLookup
  <2>2. CASE UpInsert(p) \/ UpGroupInsert(p) \/ UpGroupUpdate(p)
    BY <1>3, <2>2 DEF UpInsert, UpGroupInsert, UpGroupUpdate, Insert
  <2>3. CASE UpGroup(p)
    <3>1. PICK e, s : proc' = [proc EXCEPT ![p].entry = e, ![p].step = s]
      BY <2>3 DEF UpGroup
    <3> QED
      BY <1>1, <3>1
  <2> QED
    BY <1>5, <2>1, <2>2, <2>3 DEF Upload
<1>6. CASE Delete(p)
  <2>1. CASE GroupFind(p)
    <3>1. Finish(p) \/ \E t : proc' = [proc EXCEPT ![p].step = "delStat", ![p].todo = t]
      BY <2>1 DEF GroupFind
    <3> QED
      BY <1>1, <1>3, <3>1
  <2>2. CASE Proxy(p)
    <3>1. PICK a, t : proc' = [proc EXCEPT ![p].at = a, ![p].todo = t]
      BY <2>2 DEF Proxy
    <3> QED
      BY <1>1, <3>1
  <2>3. CASE DelStat(p) \/ DelRemove(p) \/ DelOver(p)
    BY <1>2, <1>3, <2>3 DEF DelStat, DelRemove, DelOver
  <2>4. CASE DelRemoveGone(p) \/ DelRow(p) \/ GroupLast(p)
    BY <1>3, <2>4 DEF DelRemoveGone, DelRow, GroupLast
  <2> QED
    BY <1>6, <2>1, <2>2, <2>3, <2>4 DEF Delete
<1>7. CASE Fail(p)
  BY <1>3, <1>7 DEF Fail
<1> QED
  BY <1>4, <1>5, <1>6, <1>7

\* Others delete too, and fail; the pass of m does not count that.
LEMMA PassOther ==
  ASSUME TypeInv, NEW m \in Machine, PassOK(m), NEW p \in Process, p # Cleaner(m),
         \/ p \in Request /\ (Begin(p) \/ Upload(p)) /\ rows' \subseteq rows
              /\ ~(UpInsert(p) \/ UpGroupInsert(p) \/ UpGroupUpdate(p))
         \/ Delete(p) \/ Fail(p)
  PROVE  PassOK(m)'
<1>1. proc'[Cleaner(m)] = proc[Cleaner(m)]
  BY OneMoves, CleanerNames
<1>2. RecordOK(p, proc[p], Len(groups))
  BY DEF TypeInv, WorkOK
<1>3. p \in Cleaners => At(p) # m
  BY <1>2, CleanerNames DEF RecordOK, At
<1>4. p \notin Cleaners => proc[p].kind # "bySize"
  BY <1>2, CleanerNames DEF RecordOK
<1>5. ASSUME Refuse(p) PROVE m \in missed => m \in missed'
  BY <1>5 DEF Refuse
<1>6. excess = [x \in Machine |-> excess[x]]
  BY DEF TypeInv, PlainOK
<1>7. CASE p \in Request /\ Begin(p)
  <2>1. rows' = rows /\ added' = added /\ excess' = excess /\ missed' = missed
    BY <1>7 DEF Begin, BeginUpload, BeginDelete, BeginDeleteGroup, tables, pass
  <2> QED
    BY <1>1, <2>1, PassAway
<1>8. CASE p \in Request /\ Upload(p) /\ ~(UpInsert(p) \/ UpGroupInsert(p) \/ UpGroupUpdate(p))
  <2>1. rows' = rows /\ added' = added /\ excess' = excess /\ missed' = missed
    BY <1>8 DEF Upload, UpStat, UpCreate, UpWrite, UpLookup, UpGroup, tables, pass
  <2> QED
    BY <1>1, <2>1, PassAway
<1>9. CASE Fail(p)
  <2>1. rows' = rows /\ added' = added /\ excess' = excess /\ Refuse(p)
    BY <1>9 DEF Fail, tables
  <2> QED
    BY <1>1, <1>5, <2>1, PassAway
<1>10. CASE Delete(p)
  <2>1. CASE DelRow(p)
    <3>1. rows' \subseteq rows /\ added' = added /\ missed' = missed /\ Deleted(p)
      BY <2>1 DEF DelRow
    <3> DEFINE a == At(p)
               s == Size[Current(p)]
    <3>2. excess' = excess \/ (proc[p].kind = "bySize" /\ excess' = [excess EXCEPT ![a] = @ - s])
      BY <3>1 DEF Deleted
    <3>3. proc[p].kind = "bySize" => a # m
      BY <1>3, <1>4
    <3> HIDE DEF a, s
    <3>4. excess'[m] = excess[m]
      BY <1>6, <3>2, <3>3
    <3> QED
      BY <1>1, <3>1, <3>4, PassAway
  <2>2. CASE DelRemoveGone(p)
    <3>1. rows' = rows /\ added' = added /\ excess' = excess /\ Refuse(p)
      BY <2>2 DEF DelRemoveGone, tables
    <3> QED
      BY <1>1, <1>5, <3>1, PassAway
  <2>3. CASE ~(DelRow(p) \/ DelRemoveGone(p))
    <3>1. rows' = rows /\ added' = added /\ excess' = excess /\ missed' = missed
      BY <1>10, <2>3 DEF Delete, GroupFind, Proxy, DelStat, DelRemove, DelOver, GroupLast, tables, pass
    <3> QED
      BY <1>1, <3>1, PassAway
  <2> QED
    BY <2>1, <2>2, <2>3
<1> QED
  BY <1>7, <1>8, <1>9, <1>10

\* The task goes through its list.
LEMMA PassGoes ==
  ASSUME TypeInv, NEW m \in Machine, PassOK(m), Delete(Cleaner(m)) \/ Fail(Cleaner(m))
  PROVE  PassOK(m)'
<1> DEFINE c == Cleaner(m)
<1>0. c \in Process /\ c \in Cleaners /\ c[2] = m /\ RecordOK(c, proc[c], Len(groups))
  BY CleanerNames DEF TypeInv, WorkOK
<1>1. At(c) = m /\ Step(c) \in CleanSteps
  BY <1>0 DEF RecordOK, At, Step
<1>2. proc = [q \in Process |-> proc[q]]
  BY DEF TypeInv, WorkOK
<1>3. proc[c] \in LocalsOf(Len(groups))
  BY <1>0 DEF RecordOK
<1>4. ASSUME Refuse(c) PROVE PassOK(m)'
  <2>1. m \in missed'
    BY <1>0, <1>1, <1>4 DEF Refuse
  <2> QED
    BY <2>1 DEF PassOK
<1>5. ASSUME NEW s \in DeleteSteps, Goto(c, s), Step(c) \in PassSteps, rows' = rows, UNCHANGED pass
      PROVE  PassOK(m)'
  <2>1. proc' = [proc EXCEPT ![c].step = s]
    BY <1>5 DEF Goto
  <2>2. proc'[c].step = s /\ proc'[c].todo = proc[c].todo /\ proc'[c].kind = proc[c].kind
    BY <1>0, <1>2, <1>3, <2>1 DEF LocalsOf
  <2>3. Step(c)' \in PassSteps /\ RowsAt(m)' = RowsAt(m)
    BY <1>5, <2>2 DEF Step, PassSteps, RowsAt
  <2>4. added' = added /\ excess' = excess /\ missed' = missed
    BY <1>5 DEF pass
  <2> QED
    BY <1>5, <2>2, <2>3, <2>4, PassStays
<1>6. CASE Fail(c)
  BY <1>4, <1>6 DEF Fail
<1>7. CASE DelRemoveGone(c)
  BY <1>4, <1>7 DEF DelRemoveGone
<1>8. CASE DelStat(c)
  <2>1. PICK s \in DeleteSteps : Goto(c, s)
    BY <1>8 DEF DelStat, DeleteSteps
  <2>2. Step(c) \in PassSteps /\ rows' = rows /\ UNCHANGED pass
    BY <1>8 DEF DelStat, PassSteps, tables
  <2> QED
    BY <1>5, <2>1, <2>2
<1>9. CASE DelRemove(c)
  <2>1. Step(c) \in PassSteps /\ rows' = rows /\ UNCHANGED pass /\ Goto(c, "delRow")
    BY <1>9 DEF DelRemove, PassSteps, DeleteSteps, tables
  <2>2. "delRow" \in DeleteSteps
    BY DEF DeleteSteps
  <2> QED
    BY <1>5, <2>1, <2>2
<1>10. CASE GroupFind(c) \/ GroupLast(c)
  BY <1>1, <1>10, StepNames DEF GroupFind, GroupLast
<1>11. CASE Proxy(c)
  <2>1. proc[c].todo # <<>> /\ Home[Head(proc[c].todo)] # At(c)
    BY <1>11 DEF Proxy, Over, Current
  <2>2. Head(proc[c].todo) \in FilesAt(m)
    BY <1>0, <2>1, RestOK, GroupsNumber DEF TypeInv
  <2> QED
    BY <1>1, <2>1, <2>2 DEF FilesAt
<1> QED
  BY <1>6, <1>7, <1>8, <1>9, <1>10, <1>11, PassDeletes, PassEnds DEF Delete

\* The task counts, and takes what is old.
LEMMA PassCounts ==
  ASSUME TypeInv, NEW m \in Machine, CleanCount(m) \/ CleanTimeout(m)
  PROVE  PassOK(m)'
<1> DEFINE c == Cleaner(m)
<1>0. c \in Process /\ proc[c] \in LocalsOf(Len(groups)) /\ proc = [q \in Process |-> proc[q]]
  BY CleanerNames DEF TypeInv, WorkOK, RecordOK
<1>1. CASE CleanCount(m)
  <2> DEFINE n == Total(m)
             s == IF n >= MaxSize THEN "cleanOldest" ELSE "cleanTimeout"
             x == IF n >= MaxSize THEN n - MaxSize ELSE 0
  <2>1. /\ proc' = [proc EXCEPT ![c].step = s, ![c].kind = "bySize"]
        /\ excess' = [excess EXCEPT ![m] = x] /\ added' = [added EXCEPT ![m] = 0] /\ rows' = rows
    BY <1>1 DEF CleanCount, tables
  <2>2. Total(m)' = n
    BY <2>1 DEF Total, RowsAt
  <2>3. n \in Nat /\ MaxSize \in Nat
    BY Numbers
  <2> HIDE DEF n
  <2>4. s = "cleanOldest" => n <= MaxSize + 0 + x
    BY <2>3
  <2>5. s = "cleanTimeout" => n <= MaxSize + 0
    BY <2>3
  <2>6. s \notin PassSteps
    BY DEF PassSteps, DeleteSteps
  <2> HIDE DEF s, x
  <2>7. excess'[m] = x /\ added'[m] = 0
    BY <2>1 DEF TypeInv, PlainOK
  <2>8. Step(c)' = s
    BY <1>0, <2>1 DEF LocalsOf, Step
  <2>9. PICK k, a, y, z : k = Total(m)' /\ a = added'[m] /\ y = excess'[m] /\ z = Step(c)'
    OBVIOUS
  <2>10. /\ z = "cleanOldest" => k <= MaxSize + a + y
         /\ z = "cleanTimeout" => k <= MaxSize + a
         /\ z \notin PassSteps
    BY <2>2, <2>4, <2>5, <2>6, <2>7, <2>8, <2>9
  <2> QED
    BY <2>9, <2>10 DEF PassOK
<1>2. CASE CleanTimeout(m)
  <2>1. PICK t : proc' = [proc EXCEPT ![c].step = "delStat", ![c].kind = "byTime", ![c].todo = t]
    BY <1>2 DEF CleanTimeout
  <2>2. Step(c)' = "delStat" /\ proc'[c].kind = "byTime"
    BY <1>0, <2>1 DEF LocalsOf, Step
  <2> QED
    BY <2>2 DEF PassOK
<1> QED
  BY <1>1, <1>2

\* A pass whose query failed claims nothing, the pass by time ends.
LEMMA PassFailQuery ==
  ASSUME TypeInv, NEW m \in Machine, PassOK(m), NEW n \in Machine, FailQuery(n)
  PROVE  PassOK(m)'
<1>0. /\ Cleaner(m) \in Process /\ Cleaner(n) \in Process /\ (Cleaner(n) = Cleaner(m) => n = m)
      /\ proc = [x \in Process |-> proc[x]]
  BY CleanerNames DEF TypeInv, WorkOK
<1>1. Stops(n, Cleaner(n)) /\ rows' = rows /\ added' = added /\ excess' = excess
  BY QueryStops
<1>2. PICK p \in Process, c \in Process : p = Cleaner(n) /\ c = Cleaner(m) /\ (p = c => n = m)
  BY <1>0
<1>3. CASE p # c
  <2>1. proc'[c] = proc[c] /\ (m \in missed => m \in missed')
    BY <1>0, <1>1, <1>2, <1>3 DEF Stops, Finish
  <2> QED
    BY <1>1, <1>2, <2>1, PassAway
<1>4. CASE p = c /\ Finish(p)
  <2>1. Step(c)' = "idle"
    BY <1>0, <1>4, IdleShape DEF Finish, Step
  <2>2. "idle" \notin PassSteps
    BY DEF PassSteps, DeleteSteps
  <2> QED
    BY <1>2, <2>1, <2>2 DEF PassOK
<1>5. CASE p = c /\ ~Finish(p)
  <2>1. m \in missed'
    BY <1>1, <1>2, <1>5 DEF Stops
  <2> QED
    BY <2>1 DEF PassOK
<1> QED
  BY <1>3, <1>4, <1>5

LEMMA PassNext ==
  ASSUME TypeInv, NEW m \in Machine, PassOK(m), [Next]_vars
  PROVE  PassOK(m)'
<1> DEFINE c == Cleaner(m)
<1>0. c \in Process /\ c \notin Request /\ Request \subseteq Process
  BY CleanerNames
<1>1. ASSUME NEW p \in Request, Begin(p) \/ Upload(p) \/ Delete(p) PROVE PassOK(m)'
  <2>1. CASE Begin(p)
    <3>1. rows' = rows
      BY <2>1 DEF Begin, BeginUpload, BeginDelete, BeginDeleteGroup, tables
    <3>2. ~(UpInsert(p) \/ UpGroupInsert(p) \/ UpGroupUpdate(p))
      BY <2>1 DEF Begin, BeginUpload, BeginDelete, BeginDeleteGroup, UpInsert, UpGroupInsert,
         UpGroupUpdate
    <3> QED
      BY <1>0, <2>1, <3>1, <3>2, PassOther
  <2>2. CASE UpInsert(p) \/ UpGroupInsert(p) \/ UpGroupUpdate(p)
    BY <2>2, RowIsAdded, PassAdds
  <2>3. CASE Upload(p) /\ ~(UpInsert(p) \/ UpGroupInsert(p) \/ UpGroupUpdate(p))
    <3>1. rows' = rows
      BY <2>3 DEF Upload, UpStat, UpCreate, UpWrite, UpLookup, UpGroup, tables
    <3> QED
      BY <1>0, <2>3, <3>1, PassOther
  <2>4. CASE Delete(p)
    BY <1>0, <2>4, PassOther
  <2> QED
    BY <1>1, <2>1, <2>2, <2>3, <2>4
<1>2. ASSUME NEW n \in Machine, Clean(n) PROVE PassOK(m)'
  <2>1. CASE n = m
    BY <1>2, <2>1, PassCounts, PassBegins, PassGoes DEF Clean
  <2>2. CASE n # m
    <3>1. Cleaner(n) # c /\ Cleaner(n) \in Process
      BY <2>2, CleanerNames
    <3>2. CASE Delete(Cleaner(n))
      BY <3>1, <3>2, PassOther
    <3>3. CASE CleanCount(n) \/ CleanOldest(n) \/ CleanTimeout(n)
      <4>1. /\ rows' = rows /\ (m \in missed => m \in missed')
            /\ excess' = excess \/ \E x : excess' = [excess EXCEPT ![n] = x]
            /\ added' = added \/ \E x : added' = [added EXCEPT ![n] = x]
        BY <2>2, <3>3 DEF CleanCount, CleanOldest, CleanTimeout, tables, pass
      <4>2. excess'[m] = excess[m] /\ added'[m] = added[m]
        BY <2>2, <4>1 DEF TypeInv, PlainOK
      <4> DEFINE q == Cleaner(n)
      <4>3. \/ \E s, k : proc' = [proc EXCEPT ![q].step = s, ![q].kind = k]
            \/ \E s, t : proc' = [proc EXCEPT ![q].step = s, ![q].todo = t]
            \/ \E s, k, t : proc' = [proc EXCEPT ![q].step = s, ![q].kind = k, ![q].todo = t]
        <5>1. CASE CleanCount(n)
          <6> DEFINE s == IF Total(n) >= MaxSize THEN "cleanOldest" ELSE "cleanTimeout"
          <6>1. proc' = [proc EXCEPT ![q].step = s, ![q].kind = "bySize"]
            BY <5>1 DEF CleanCount
          <6> HIDE DEF s, q
          <6> QED
            BY <6>1
        <5>2. CASE CleanOldest(n)
          <6> DEFINE t == FilesOf(FirstRows(Ordered(RowsAt(n))))
          <6>1. proc' = [proc EXCEPT ![q].step = "delStat", ![q].todo = t]
            BY <5>2 DEF CleanOldest
          <6> HIDE DEF t, q
          <6> QED
            BY <6>1
        <5>3. CASE CleanTimeout(n)
          <6> DEFINE t == FilesOf(FirstRows(Reverse(Ordered({r \in RowsAt(n) : Old(r)}))))
          <6>1. proc' = [proc EXCEPT ![q].step = "delStat", ![q].kind = "byTime", ![q].todo = t]
            BY <5>3 DEF CleanTimeout
          <6> HIDE DEF t, q
          <6> QED
            BY <6>1
        <5> QED
          BY <3>3, <5>1, <5>2, <5>3
      <4> HIDE DEF q
      <4>4. proc'[c] = proc[c]
        BY <1>0, <3>1, <4>3 DEF TypeInv, WorkOK, q
      <4> QED
        BY <4>1, <4>2, <4>4, PassAway
    <3> QED
      BY <1>2, <3>2, <3>3 DEF Clean
  <2> QED
    BY <2>1, <2>2
<1>3. ASSUME NEW n \in Machine, Crash(n) PROVE PassOK(m)'
  <2> DEFINE dead == {p \in Process : At(p) = n /\ Step(p) # "idle"}
  <2>1. /\ proc' = [p \in Process |-> IF p \in dead THEN Idle(p) ELSE proc[p]]
        /\ rows' = rows /\ added' = added /\ excess' = excess /\ missed' = missed
    BY <1>3 DEF Crash, tables, pass
  <2> HIDE DEF dead
  <2>2. CASE c \in dead
    <3>1. Step(c)' = "idle"
      BY <1>0, <2>1, <2>2, IdleShape DEF Step
    <3>2. "idle" \notin PassSteps
      BY DEF PassSteps, DeleteSteps
    <3> QED
      BY <3>1, <3>2 DEF PassOK
  <2>3. CASE c \notin dead
    BY <1>0, <2>1, <2>3, PassAway
  <2> QED
    BY <2>2, <2>3
<1>4. ASSUME NEW p \in Process, Fail(p) PROVE PassOK(m)'
  <2>1. CASE p = c
    BY <1>4, <2>1, PassGoes
  <2>2. CASE p # c
    BY <1>4, <2>2, PassOther
  <2> QED
    BY <2>1, <2>2
<1>5. CASE Tick \/ UNCHANGED vars
  <2>1. rows' = rows /\ proc' = proc /\ added' = added /\ excess' = excess /\ missed' = missed
    BY <1>5 DEF Tick, vars, tables, pass
  <2> QED
    BY <2>1, PassAway
<1> QED
  BY <1>1, <1>2, <1>3, <1>4, <1>5, PassFailQuery DEF Next

LEMMA PassInit ==
  ASSUME Init, NEW m \in Machine
  PROVE  PassOK(m)
<1>1. Step(Cleaner(m)) = "idle"
  BY CleanerNames, IdleShape DEF Init, Step
<1>2. "idle" \notin PassSteps
  BY DEF PassSteps, DeleteSteps
<1> QED
  BY <1>1, <1>2 DEF PassOK

-----------------------------------------------------------------------------
LEMMA TypeInvariance == Spec => []TypeInv
<1>1. Init => TypeInv
  BY TypeInit
<1>2. (ShapeOK /\ SoundOK /\ GroupInv)' /\ TypeInv /\ [Next]_vars => TypeInv'
  BY TypeNext DEF GroupInv
<1> QED
  BY <1>1, <1>2, GroupInvariance, PTL DEF Spec

\* Every variable keeps its type; above all, no row and no handler refers to an
\* entry that the table of groups does not have, whatever requests and the task
\* do beside each other (core.go, db.go).
THEOREM TypesHold == Spec => []TypeOK
<1>1. TypeInv => TypeOK
  BY TypeInvTyped
<1> QED
  BY <1>1, TypeInvariance, PTL

AllPassOK == \A m \in Machine : PassOK(m)

\* A pass of CleanFileBySize that failed at nothing leaves no more than the
\* limit and what was uploaded meanwhile, whatever is uploaded and deleted beside
\* it, and although its sum and its list are stale by then.
THEOREM SizeIsKept == Spec => []SizeKept
<1>1. Init => AllPassOK
  BY PassInit DEF AllPassOK
<1>2. TypeInv /\ AllPassOK /\ [Next]_vars => AllPassOK'
  BY PassNext DEF AllPassOK
<1>3. AllPassOK => SizeKept
  BY DEF AllPassOK, PassOK, SizeKept
<1> QED
  BY <1>1, <1>2, <1>3, TypeInvariance, PTL DEF Spec
=============================================================================
