------------------------ MODULE WebdavArchiveProofs ------------------------
(***************************************************************************)
(* Proofs about WebdavArchive: for any rows, recordings, configurations,   *)
(* callers and bounds, and through any changes, failures and crashes, what *)
(* a cleanup deletes is on the remote, and a file renamed aside can be     *)
(* told what it is.                                                        *)
(***************************************************************************)
EXTENDS WebdavArchive, TLAPS

(* Types *)

PathsOf(k) == IF k \in RowIDs THEN {<<k, k>>} ELSE {k} \X CallIDs
Items == [key : Keys, sum : Contents \cup {0}, path : Paths]
Checks == [copy : Copies, sum : Contents]
RowTable == [RowIDs -> [st : RowStates, content : Contents]]
Uploading == {"put", "verify", "upsert"}
Archiving == {"next"} \cup Uploading
PCs == {"idle", "listSMS", "listStaged", "recover", "collect", "stage", "check", "restore",
        "discard"} \cup Archiving

Ops == {"idle", "archive", "preview", "cleanup"}
SettingsType == Configs \cup {None}
TodoType == SUBSET Items
ItemType == Items \cup Checks \cup {None}
SnapType == (SUBSET Recordings) \cup RowTable \cup {None}
PreviewType == Previews \cup {None}
MineType == SUBSET Copies
LeftType == SUBSET (Copies \cup (Recordings \X Contents))

Jobs ==
  [op : Ops, pc : PCs, settings : SettingsType, phase : {0, 1, 2}, todo : TodoType, item : ItemType,
   snap : SnapType, preview : PreviewType, mine : MineType, left : LeftType]

\* What each stage keeps in the fields of its operation.
Fields(j) ==
  /\ j.pc # "idle" => j.settings \in Configs
  /\ j.pc \in Uploading => j.item \in Items
  /\ j.pc = "check" => j.item \in Checks
  /\ j.pc = "recover" => j.left \subseteq Copies
  /\ j.pc = "collect" => j.snap \in RowTable
  /\ j.pc \in {"stage", "check"} => j.left \subseteq Recordings \X Contents /\ j.preview \in Previews
  /\ \A x \in j.todo : x.path \in PathsOf(x.key)
  /\ j.pc \in Uploading => j.item.path \in PathsOf(j.item.key)

WorldTypes ==
  /\ rows \in RowTable
  /\ files \in [Recordings -> Contents \cup {0}]
  /\ latest \in [Recordings -> Contents \cup {0}]
  /\ staged \subseteq Copies
  /\ ledger \in [Keys -> [sum : Contents, path : Paths] \cup {None}]
  /\ \A k \in Keys : ledger[k] # None =>
        ledger[k] \in [sum : Contents, path : Paths] /\ ledger[k].path \in PathsOf(k)
  /\ remote \in [Paths -> Contents \cup {0}]

JobTypes == job \in [Actors -> Jobs] /\ \A a \in Actors : Fields(job[a])

ManagerTypes ==
  /\ config \in Configs
  /\ lastError \in Recordings \cup {None}
  /\ token \in [Actors -> Previews \cup {None}]
  /\ want \in {"archive", "preview", "cleanup"}

\* The manager's flag: one operation at a time.
Exclusive ==
  /\ \A a \in Actors : job[a].pc # "idle" => running
  /\ \A a, b \in Actors : job[a].pc # "idle" /\ job[b].pc # "idle" => a = b

(* Rows: the ledger is never ahead of the row, and what it says of the row's present content is true of the remote. *)

RowOK(r) ==
  /\ rows[r].st = "absent" => rows[r].content = 1
  /\ ledger[r] # None => /\ ledger[r].sum <= rows[r].content
                         /\ ledger[r].sum = rows[r].content => remote[<<r, r>>] = rows[r].content
  /\ rows[r].st = "purged" => ledger[r] # None /\ ledger[r].sum = rows[r].content

RowInv == \A r \in RowIDs : RowOK(r)

(* Recordings *)

Live(n) == \E r \in CallIDs : RecordingName[r] = n /\ rows[r].st \notin {"absent", "purged"}

\* A recording no row ever named does not exist and was never archived.
UnknownOK(n) ==
  (\A r \in CallIDs : RecordingName[r] = n => rows[r].st = "absent") => latest[n] = 0 /\ ledger[n] = None

\* The file under its name is the newest; one removed for good is nowhere.
FileOK(n) ==
  /\ files[n] # 0 => files[n] = latest[n]
  /\ latest[n] = 0 => \A copy \in staged : copy.name # n

Safe(n) ==
  latest[n] # 0 => \/ files[n] = latest[n]
                   \/ [name |-> n, content |-> latest[n]] \in staged
                   \/ Archived(n, latest[n])

\* The ledger is never ahead of the recording, and true of its newest content.
EntryOK(n) ==
  ledger[n] # None /\ latest[n] # 0 =>
    /\ ledger[n].sum <= latest[n]
    /\ ledger[n].sum = latest[n] => remote[ledger[n].path] = latest[n]

RecordingInv == \A n \in Recordings : UnknownOK(n) /\ FileOK(n) /\ Safe(n) /\ EntryOK(n)

CopyOK(copy) ==
  /\ files[copy.name] # 0 \/ copy.content = latest[copy.name]
  /\ Archived(copy.name, copy.content) \/ Live(copy.name)

CopyInv == \A copy \in staged : CopyOK(copy)

(* The operation in progress *)

ItemOK(x) ==
  /\ x.key \in RowIDs =>
        /\ x.sum # 0 /\ x.sum <= rows[x.key].content
        /\ ledger[x.key] # None => ledger[x.key].sum <= x.sum
  /\ x.key \in Recordings => Live(x.key)

ArchiveAt(a) ==
  /\ job[a].pc \in Archiving =>
       /\ \A x \in job[a].todo : ItemOK(x)
       /\ \A x, y \in job[a].todo : x.key = y.key /\ x.key \in RowIDs => x = y
  /\ job[a].pc \in Uploading =>
       /\ ItemOK(job[a].item) /\ job[a].item.sum # 0
       /\ \A x \in job[a].todo : x.key \in RowIDs => x.key # job[a].item.key
       /\ job[a].item.key \in Recordings =>
            \/ latest[job[a].item.key] = 0
            \/ files[job[a].item.key] # 0 /\ job[a].item.sum <= latest[job[a].item.key]
  /\ job[a].pc = "verify" =>
       /\ job[a].item.key \in Recordings
       /\ \/ latest[job[a].item.key] = 0
          \/ /\ job[a].item.sum <= remote[job[a].item.path]
             /\ remote[job[a].item.path] <= latest[job[a].item.key]
  /\ job[a].pc = "upsert" => remote[job[a].item.path] = job[a].item.sum

ArchiveInv == \A a \in Actors : ArchiveAt(a)

Aside == {"stage", "check", "restore", "discard"}

CleanupAt(a) ==
  /\ job[a].pc = "listStaged" => job[a].mine = {}
  /\ job[a].pc = "recover" => job[a].mine = {} /\ job[a].left = IF TouchesCalls(a) THEN staged ELSE {}
  /\ job[a].pc = "collect" =>
       /\ job[a].mine = {} /\ (TouchesCalls(a) => staged = {})
       /\ \A r \in RowIDs : rows[r].st \in {"absent", "purged"} => job[a].snap[r].st \in {"absent", "purged"}
  /\ job[a].pc \in Aside =>
       \A copy \in job[a].mine :
         copy \in staged /\ files[copy.name] = 0 /\ Archived(copy.name, copy.content)
  /\ job[a].pc \in {"stage", "check"} =>
       /\ \A entry \in job[a].preview.rows : Archived(entry[1], entry[2])
       /\ ~TouchesCalls(a) => job[a].left = {} /\ \A entry \in job[a].preview.rows : entry[1] \in SmsIDs
       /\ \A entry \in job[a].left : Archived(entry[1], entry[2]) /\ Live(entry[1])
  /\ job[a].pc = "stage" /\ TouchesCalls(a) => staged = job[a].mine
  /\ job[a].pc = "check" =>
       /\ TouchesCalls(a)
       /\ staged = job[a].mine \cup {job[a].item.copy}
       /\ \A copy \in job[a].mine : copy.name # job[a].item.copy.name
       /\ files[job[a].item.copy.name] = 0
       /\ Archived(job[a].item.copy.name, job[a].item.sum)

CleanupInv == \A a \in Actors : CleanupAt(a)

ArchiveOK ==
  /\ WorldTypes /\ JobTypes /\ ManagerTypes /\ Exclusive
  /\ RowInv /\ RecordingInv /\ CopyInv /\ ArchiveInv /\ CleanupInv

-----------------------------------------------------------------------------
(* Steps that leave database, disk and remote alone *)

Quiet ==
  \/ \E a \in Actors : \/ Begins(a)
                       \/ ListSMS(a) \/ ListCalls(a) \/ NextItem(a) \/ SkipItem(a) \/ VerifyFile(a)
                       \/ RunDone(a) \/ RunFails(a)
                       \/ ListStaged(a) \/ ReadRows(a) \/ Collect(a) \/ PreviewFails(a)
  \/ ScheduledRefused
  \/ \E c \in Configs : Configure(c)
  \/ Crash
  \/ UNCHANGED vars

\* A quiet step changes nothing that outlives the process.
LEMMA QuietKeepsWorld == ASSUME Quiet PROVE UNCHANGED world
BY Zenon DEF Quiet, Begins, RunNow, PreviewCleanup, Cleanup, BeginExclusive, ListSMS, ListCalls, NextItem,
       SkipItem, VerifyFile, RunDone, RunFails, ListStaged, ReadRows, Collect, PreviewFails,
       ScheduledRefused, Configure, Elsewhere, Crash, vars, world, disk

\* Every step is a quiet one or one of twelve that touch database, disk or remote.
LEMMA StepKinds ==
  ASSUME [Next]_vars
  PROVE  \/ Quiet
         \/ \E a \in Actors : \/ Upload(a) \/ UploadFails(a) \/ UpsertObject(a)
                              \/ RecoverStaged(a) \/ StageRename(a) \/ StageCheck(a)
                              \/ Restore(a) \/ DeleteRecords(a) \/ Discard(a)
         \/ \E r \in RowIDs : NewRow(r) \/ RowChanges(r)
         \/ \E n \in Recordings : FileChanges(n)
BY Zenon DEF Next, Quiet, Begins, ArchiveStep, CleanupStep, Environment

-----------------------------------------------------------------------------
(* Types are kept *)

\* Every file of a key's path is a path of the remote.
LEMMA PathFacts ==
  /\ \A k \in Keys : PathsOf(k) \subseteq Paths
  /\ \A r \in RowIDs : r \notin Recordings /\ PathsOf(r) = {<<r, r>>}
  /\ \A n \in Recordings : n \notin RowIDs /\ PathsOf(n) = {n} \X CallIDs
  /\ Recordings \subseteq Keys /\ RowIDs \subseteq Keys /\ CallIDs \subseteq RowIDs
BY RowAssumption DEF PathsOf, Paths, Keys, CallIDs

\* The database, the disk and the remote keep their types.
LEMMA WorldTypesStep ==
  ASSUME WorldTypes, JobTypes, ArchiveInv, [Next]_vars
  PROVE  WorldTypes'
<1> USE RowAssumption, BoundAssumption, PathFacts
<1>1. CASE Quiet
  BY <1>1, QuietKeepsWorld DEF WorldTypes, world
<1>2. ASSUME NEW a \in Actors, Upload(a) PROVE WorldTypes'
  <2>1. job[a].item \in Items /\ Sent(job[a].item) \in Contents \cup {0}
    BY <1>2 DEF Upload, JobTypes, Fields, Uploading, Items, Keys, Sent, WorldTypes
  <2> QED BY <2>1, <1>2 DEF Upload, WorldTypes, Items, db, disk
<1>3. ASSUME NEW a \in Actors, UploadFails(a) PROVE WorldTypes'
  <2>1. job[a].item \in Items /\ Sent(job[a].item) \in Contents \cup {0}
    BY <1>3 DEF UploadFails, JobTypes, Fields, Uploading, Items, Keys, Sent, WorldTypes
  <2> QED BY <2>1, <1>3 DEF UploadFails, WorldTypes, Items, db, disk
<1>4. ASSUME NEW a \in Actors, UpsertObject(a) PROVE WorldTypes'
  <2>1. job[a].item \in Items /\ job[a].item.path \in PathsOf(job[a].item.key) /\ job[a].item.sum # 0
    BY <1>4 DEF UpsertObject, JobTypes, Fields, Uploading, ArchiveInv, ArchiveAt
  <2> QED BY <2>1, <1>4 DEF UpsertObject, WorldTypes, Items, disk
<1>5. ASSUME NEW a \in Actors, RecoverStaged(a) PROVE WorldTypes'
  <2>1. job[a].left \subseteq Copies
    BY <1>5 DEF RecoverStaged, JobTypes, Fields
  <2>2. PICK entry \in job[a].left :
          \/ UNCHANGED <<files, staged>>
          \/ /\ staged' = staged \ {entry}
             /\ files' = [files EXCEPT ![entry.name] = entry.content] \/ files' = files
    BY <1>5 DEF RecoverStaged
  <2>3. entry.name \in Recordings /\ entry.content \in Contents
    BY <2>1 DEF Copies
  <2> QED BY <2>2, <2>3, <1>5 DEF RecoverStaged, WorldTypes, db
<1>6. ASSUME NEW a \in Actors, StageRename(a) PROVE WorldTypes'
  <2>1. job[a].left \subseteq Recordings \X Contents
    BY <1>6 DEF StageRename, JobTypes, Fields
  <2> QED BY <2>1, <1>6 DEF StageRename, WorldTypes, Copies, db
<1>7. ASSUME NEW a \in Actors, StageCheck(a) PROVE WorldTypes'
  <2>1. job[a].item.copy \in Copies
    BY <1>7 DEF StageCheck, JobTypes, Fields, Checks
  <2> QED BY <2>1, <1>7 DEF StageCheck, PutBack, WorldTypes, Copies, db
<1>8. ASSUME NEW a \in Actors, Restore(a) PROVE WorldTypes'
  <2>1. job[a].mine \subseteq Copies
    BY DEF JobTypes, Jobs, MineType
  <2>2. UNCHANGED <<files, staged>> \/ \E copy \in job[a].mine : PutBack(copy)
    BY <1>8 DEF Restore
  <2>3. UNCHANGED <<rows, ledger, latest, remote>>
    BY <1>8 DEF Restore, db
  <2>4. ASSUME NEW copy \in job[a].mine, PutBack(copy) PROVE WorldTypes'
    <3>1. copy.name \in Recordings /\ copy.content \in Contents
      BY <2>1 DEF Copies
    <3> QED BY <2>3, <2>4, <3>1 DEF PutBack, WorldTypes
  <2> QED BY <2>2, <2>3, <2>4 DEF WorldTypes
<1>9. ASSUME NEW a \in Actors, DeleteRecords(a) PROVE WorldTypes'
  BY <1>9, SMTT(30) DEF DeleteRecords, PurgedRows, WorldTypes, RowTable, RowStates, disk
<1>10. ASSUME NEW a \in Actors, Discard(a) PROVE WorldTypes'
  BY <1>10, ZenonT(40) DEF Discard, WorldTypes, db
<1>11. ASSUME NEW r \in RowIDs, NewRow(r) PROVE WorldTypes'
  BY <1>11 DEF NewRow, WorldTypes, RowTable, RowStates, Contents, Elsewhere, CallIDs
<1>12. ASSUME NEW r \in RowIDs, RowChanges(r) PROVE WorldTypes'
  BY <1>12 DEF RowChanges, WorldTypes, RowTable, RowStates, Contents, Elsewhere, disk
<1>13. ASSUME NEW n \in Recordings, FileChanges(n) PROVE WorldTypes'
  BY <1>13 DEF FileChanges, WorldTypes, Contents, Elsewhere
<1> QED BY StepKinds, <1>1, <1>2, <1>3, <1>4, <1>5, <1>6, <1>7, <1>8, <1>9, <1>10, <1>11, <1>12, <1>13

\* An operation that takes over a well-formed record leaves all of them well-formed.
LEMMA JobUpdate ==
  ASSUME JobTypes, NEW a \in Actors, NEW j, job' = [job EXCEPT ![a] = j], j \in Jobs, Fields(j)
  PROVE  JobTypes'
BY DEF JobTypes

\* An actor with no operation has a well-formed record, and so has one that begins.
LEMMA IdleJob ==
  /\ Idle \in Jobs /\ Fields(Idle)
  /\ \A op \in {"archive", "preview", "cleanup"}, pc \in {"listSMS", "listStaged"} :
        config \in Configs => Begin(op, pc) \in Jobs /\ Fields(Begin(op, pc))
<1>0. /\ {"idle", "listSMS", "listStaged"} \subseteq PCs
      /\ {"idle", "archive", "preview", "cleanup"} \subseteq Ops
      /\ None \in SettingsType /\ (config \in Configs => config \in SettingsType)
      /\ {} \in TodoType /\ None \in ItemType /\ None \in SnapType /\ None \in PreviewType
      /\ {} \in MineType /\ {} \in LeftType
  BY DEF PCs, Ops, SettingsType, TodoType, ItemType, SnapType, PreviewType, MineType, LeftType
<1>1. Idle \in Jobs
  BY <1>0 DEF Idle, Jobs
<1>2. Fields(Idle)
  BY DEF Idle, Fields, Uploading
<1>3. ASSUME NEW op \in {"archive", "preview", "cleanup"}, NEW pc \in {"listSMS", "listStaged"}, config \in Configs
      PROVE  Begin(op, pc) \in Jobs /\ Fields(Begin(op, pc))
  <2>1. Begin(op, pc) = [op |-> op, pc |-> pc, settings |-> config, phase |-> 0, todo |-> {},
                         item |-> None, snap |-> None, preview |-> None, mine |-> {}, left |-> {}]
    <3>1. Begin(op, pc) = [Idle EXCEPT !.op = op, !.pc = pc, !.settings = config]
      BY DEF Begin
    <3> QED BY <3>1 DEF Idle
  <2>2. Begin(op, pc) \in Jobs
    BY <1>0, <1>3, <2>1 DEF Jobs
  <2>3. Fields(Begin(op, pc))
    BY <1>3, <2>1 DEF Fields, Uploading
  <2> QED BY <2>2, <2>3
<1> QED BY <1>1, <1>2, <1>3

\* Leaving an operation.
LEMMA LeaveJob ==
  ASSUME JobTypes, NEW a \in Actors, job' = [job EXCEPT ![a] = Idle]
  PROVE  JobTypes'
BY IdleJob, JobUpdate

\* Taking the next item, archiving it and recording it keep the operations' types.
LEMMA ArchiveTypesStep ==
  ASSUME JobTypes, WorldTypes, ManagerTypes, NEW a \in Actors, ArchiveStep(a)
  PROVE  JobTypes'
<1> USE RowAssumption, PathFacts
<1>0. job[a] \in Jobs /\ Fields(job[a])
  BY DEF JobTypes
<1>1. CASE job' = [job EXCEPT ![a] = Idle]
  BY <1>1, LeaveJob
<1>2. CASE ListSMS(a)
  <2> DEFINE T == IF job[a].settings.sms THEN RowItems({r \in SmsIDs : OnFile(r)}) ELSE {}
             j == [job[a] EXCEPT !.pc = "next", !.phase = 1, !.todo = T]
  <2>1. T \in TodoType /\ \A x \in T : x.path \in PathsOf(x.key)
    BY DEF TodoType, RowItems, RowItem, Items, Paths, Keys, WorldTypes, RowTable
  <2> HIDE DEF T
  <2>2. j \in Jobs /\ Fields(j)
    BY <1>0, <1>2, <2>1 DEF ListSMS, Jobs, PCs, Archiving, Fields, Uploading
  <2>3. job' = [job EXCEPT ![a] = j]
    BY <1>2 DEF ListSMS, T
  <2> HIDE DEF j
  <2> QED BY <2>2, <2>3, JobUpdate
<1>3. CASE ListCalls(a)
  <2> DEFINE S == IF job[a].settings.calls THEN RowItems({r \in CallIDs : OnFile(r)}) ELSE {}
             T == IF job[a].settings.recordings THEN RecordingItems ELSE {}
             j == [job[a] EXCEPT !.phase = 2, !.todo = S \cup T]
  <2>1. S \in TodoType /\ \A x \in S : x.path \in PathsOf(x.key)
    BY DEF TodoType, RowItems, RowItem, Items, Paths, Keys, WorldTypes, RowTable
  <2>2. T \in TodoType /\ \A x \in T : x.path \in PathsOf(x.key)
    <3>1. ASSUME NEW x \in RecordingItems PROVE x \in Items /\ x.path \in PathsOf(x.key)
      <4>1. PICK r \in CallIDs : RecordingName[r] # None
                   /\ x = [key |-> RecordingName[r], sum |-> 0, path |-> <<RecordingName[r], r>>]
        BY <3>1 DEF RecordingItems
      <4>2. RecordingName[r] \in Recordings
        BY <4>1 DEF CallIDs
      <4>3. <<RecordingName[r], r>> \in PathsOf(RecordingName[r]) /\ PathsOf(RecordingName[r]) \subseteq Paths
        BY <4>2 DEF PathsOf, Paths
      <4>4. RecordingName[r] \in Keys
        BY <4>2
      <4> QED BY <4>1, <4>3, <4>4 DEF Items
    <3> QED BY <3>1 DEF TodoType
  <2> HIDE DEF S, T
  <2>3. j \in Jobs /\ Fields(j)
    <3>1. S \cup T \in TodoType
      BY <2>1, <2>2 DEF TodoType
    <3> QED BY <1>0, <1>3, <2>1, <2>2, <3>1 DEF ListCalls, Jobs, Fields, Uploading
  <2>4. job' = [job EXCEPT ![a] = j]
    BY <1>3 DEF ListCalls, S, T
  <2> HIDE DEF j
  <2> QED BY <2>3, <2>4, JobUpdate
<1>4. CASE NextItem(a)
  <2> DEFINE Fresh(i) == IF i.key \in Recordings THEN [i EXCEPT !.sum = files[i.key]] ELSE i
             Taken(i) == [job[a] EXCEPT !.pc = "put", !.item = Fresh(i), !.todo = @ \ {i}]
  <2>1. PICK item \in job[a].todo :
          job' = [job EXCEPT ![a] = Idle] \/ job' = [job EXCEPT ![a] = Taken(item)]
    BY <1>4, Zenon DEF NextItem, FinishRun, Leave
  <2> DEFINE fresh == Fresh(item)
             j == Taken(item)
  <2>2. item \in Items /\ item.path \in PathsOf(item.key)
    BY <1>0 DEF Jobs, TodoType, Fields
  <2>3. fresh \in Items /\ fresh.path = item.path /\ fresh.key = item.key
    BY <2>2 DEF Items, WorldTypes
  <2> HIDE DEF Fresh
  <2>4. j \in Jobs /\ Fields(j)
    <3>1. fresh \in ItemType /\ job[a].todo \ {item} \in TodoType
      BY <1>0, <2>3 DEF ItemType, TodoType, Jobs
    <3>2. "put" \in PCs /\ j \in Jobs
      BY <1>0, <3>1 DEF Jobs, PCs, Archiving, Uploading
    <3>3. j.pc = "put" /\ j.item = fresh /\ j.todo = job[a].todo \ {item} /\ j.settings = job[a].settings
      BY <1>0 DEF Jobs
    <3>4. Fields(j)
      BY <1>0, <1>4, <2>2, <2>3, <3>3 DEF NextItem, Fields, Uploading
    <3> QED BY <3>2, <3>4
  <2>5. job' = [job EXCEPT ![a] = Idle] \/ job' = [job EXCEPT ![a] = j]
    BY <2>1
  <2> HIDE DEF Taken, j
  <2> QED BY <1>1, <2>4, <2>5, JobUpdate
<1>5. CASE SkipItem(a) \/ UpsertObject(a)
  <2> DEFINE j == [job[a] EXCEPT !.pc = "next", !.item = None]
  <2>1. job' = [job EXCEPT ![a] = j]
    BY <1>5 DEF SkipItem, UpsertObject
  <2>2. None \in ItemType /\ "next" \in PCs
    BY DEF ItemType, PCs, Archiving
  <2>3. j \in Jobs /\ Fields(j)
    BY <1>0, <1>5, <2>2 DEF Jobs, Fields, Uploading, SkipItem, UpsertObject
  <2> HIDE DEF j
  <2> QED BY <2>1, <2>3, JobUpdate
<1>6. CASE Upload(a) \/ VerifyFile(a)
  <2>1. \/ job' = [job EXCEPT ![a] = Idle]
        \/ \E p \in {"verify", "upsert"} : job' = [job EXCEPT ![a].pc = p]
    BY <1>6 DEF Upload, VerifyFile, Goto, FinishRun, Leave
  <2>2. ASSUME NEW p \in {"verify", "upsert"}, job' = [job EXCEPT ![a].pc = p] PROVE JobTypes'
    <3> DEFINE j == [job[a] EXCEPT !.pc = p]
    <3>1. p \in PCs
      BY <2>2 DEF PCs, Archiving, Uploading
    <3>2. j \in Jobs /\ Fields(j)
      BY <1>0, <1>6, <3>1 DEF Jobs, Fields, Uploading, Upload, VerifyFile
    <3>3. job' = [job EXCEPT ![a] = j]
      BY <2>2
    <3> HIDE DEF j
    <3> QED BY <3>2, <3>3, JobUpdate
  <2> QED BY <1>1, <2>1, <2>2
<1>7. CASE UploadFails(a) \/ RunDone(a) \/ RunFails(a)
  BY <1>1, <1>7 DEF UploadFails, RunDone, RunFails, FinishRun, Leave
<1> QED BY <1>2, <1>3, <1>4, <1>5, <1>6, <1>7 DEF ArchiveStep

\* A preview is a set of rows and a set of recordings with contents.
LEMMA PreviewType1 ==
  ASSUME WorldTypes, NEW s, NEW snap \in RowTable
  PROVE  Preview(s, snap) \in Previews
<1>1. Preview(s, snap).rows \subseteq RowIDs \X Contents
  BY DEF Preview, RowTable
<1>2. Preview(s, snap).recordings \subseteq Recordings \X Contents
  BY RowAssumption DEF Preview, WorldTypes, CallIDs
<1>3. Preview(s, snap) = [rows |-> Preview(s, snap).rows, recordings |-> Preview(s, snap).recordings]
  BY DEF Preview
<1> QED BY <1>1, <1>2, <1>3 DEF Previews

\* The stages of preview and cleanup keep the operations' types.
LEMMA CleanupTypesStep ==
  ASSUME JobTypes, WorldTypes, NEW a \in Actors, CleanupStep(a)
  PROVE  JobTypes'
<1> USE RowAssumption, PathFacts
<1>0. job[a] \in Jobs /\ Fields(job[a])
  BY DEF JobTypes
<1>1. CASE job' = [job EXCEPT ![a] = Idle]
  BY <1>1, LeaveJob
<1>2. CASE ListStaged(a)
  <2> DEFINE L == IF TouchesCalls(a) THEN staged ELSE {}
             j == [job[a] EXCEPT !.pc = "recover", !.snap = Referenced, !.left = L]
  <2>1. L \in LeftType /\ L \subseteq Copies /\ Referenced \in SnapType /\ "recover" \in PCs
    BY DEF LeftType, SnapType, Referenced, CallIDs, WorldTypes, PCs
  <2>2. job' = [job EXCEPT ![a] = j]
    BY <1>2 DEF ListStaged
  <2> HIDE DEF L
  <2>3. j \in Jobs /\ Fields(j)
    BY <1>0, <1>2, <2>1 DEF ListStaged, Jobs, Fields, Uploading
  <2> HIDE DEF j
  <2> QED BY <2>2, <2>3, JobUpdate
<1>3. CASE RecoverStaged(a)
  <2>1. PICK entry \in job[a].left : \/ job' = [job EXCEPT ![a] = Idle]
                                     \/ job' = [job EXCEPT ![a].left = @ \ {entry}]
    BY <1>3 DEF RecoverStaged, FinishCleanup, Leave
  <2> DEFINE j == [job[a] EXCEPT !.left = @ \ {entry}]
  <2>2. job[a].left \ {entry} \in LeftType
    BY <1>0 DEF Jobs, LeftType
  <2>3. j \in Jobs /\ Fields(j)
    BY <1>0, <1>3, <2>2 DEF RecoverStaged, Jobs, Fields, Uploading
  <2>4. job' = [job EXCEPT ![a] = Idle] \/ job' = [job EXCEPT ![a] = j]
    BY <2>1
  <2> HIDE DEF j
  <2> QED BY <1>1, <2>3, <2>4, JobUpdate
<1>4. CASE ReadRows(a)
  <2> DEFINE j == [job[a] EXCEPT !.pc = "collect", !.snap = rows]
  <2>1. job' = [job EXCEPT ![a] = j]
    BY <1>4 DEF ReadRows
  <2>2. rows \in RowTable /\ rows \in SnapType /\ "collect" \in PCs
    BY DEF WorldTypes, SnapType, PCs
  <2>3. j \in Jobs /\ Fields(j)
    BY <1>0, <1>4, <2>2 DEF ReadRows, Jobs, Fields, Uploading
  <2> HIDE DEF j
  <2> QED BY <2>1, <2>3, JobUpdate
<1>5. CASE Collect(a)
  <2> DEFINE p == Preview(job[a].settings, job[a].snap)
             j == [job[a] EXCEPT !.pc = "stage", !.preview = p, !.left = p.recordings, !.snap = None]
  <2>1. job' = [job EXCEPT ![a] = Idle] \/ job' = [job EXCEPT ![a] = j]
    BY <1>5 DEF Collect, FinishPreview, FinishCleanup, Leave
  <2>2. p \in Previews
    BY <1>0, <1>5, PreviewType1 DEF Collect, Fields
  <2> HIDE DEF p
  <2>3. p \in PreviewType /\ p.recordings \in LeftType /\ None \in SnapType /\ "stage" \in PCs
    BY <2>2 DEF PreviewType, LeftType, Previews, SnapType, PCs
  <2>4. j \in Jobs /\ Fields(j)
    <3>1. j \in Jobs
      BY <1>0, <2>3 DEF Jobs
    <3>2. p.recordings \subseteq Recordings \X Contents
      BY <2>2 DEF Previews
    <3>3. Fields(j)
      BY <1>0, <1>5, <2>2, <3>2 DEF Collect, Jobs, Fields, Uploading
    <3> QED BY <3>1, <3>3
  <2> HIDE DEF j
  <2> QED BY <1>1, <2>1, <2>4, JobUpdate
<1>6. CASE StageRename(a)
  <2> DEFINE Copy(e) == [name |-> e[1], content |-> files[e[1]]]
             Passed(e) == [job[a] EXCEPT !.left = @ \ {e}]
             Moved(e) == [job[a] EXCEPT !.left = @ \ {e}, !.pc = "check", !.item = [copy |-> Copy(e), sum |-> e[2]]]
  <2>1. PICK e \in job[a].left : \/ job' = [job EXCEPT ![a] = Passed(e)]
                                 \/ files[e[1]] # 0 /\ job' = [job EXCEPT ![a] = Moved(e)]
    BY <1>6, Zenon DEF StageRename
  <2>2. e[1] \in Recordings /\ e[2] \in Contents
    BY <1>0, <1>6 DEF StageRename, Fields
  <2>3. files[e[1]] # 0 => [copy |-> Copy(e), sum |-> e[2]] \in Checks
    BY <2>2 DEF Checks, Copies, WorldTypes
  <2> HIDE DEF Copy
  <2>4. job[a].left \ {e} \in LeftType /\ "check" \in PCs
    BY <1>0 DEF LeftType, Jobs, PCs
  <2>5. Passed(e) \in Jobs /\ Fields(Passed(e))
    BY <1>0, <1>6, <2>4 DEF StageRename, Jobs, Fields, Uploading
  <2>6. ASSUME files[e[1]] # 0 PROVE Moved(e) \in Jobs /\ Fields(Moved(e))
    <3>1. [copy |-> Copy(e), sum |-> e[2]] \in ItemType
      BY <2>3, <2>6 DEF ItemType
    <3>2. Moved(e) \in Jobs
      BY <1>0, <2>4, <3>1 DEF Jobs
    <3>3. Fields(Moved(e))
      BY <1>0, <1>6, <2>3, <2>6 DEF StageRename, Jobs, Fields, Uploading
    <3> QED BY <3>2, <3>3
  <2> HIDE DEF Passed, Moved
  <2> QED BY <2>1, <2>5, <2>6, JobUpdate
<1>7. CASE StageCheck(a)
  <2> DEFINE Kept == [job[a] EXCEPT !.pc = "stage", !.mine = @ \cup {job[a].item.copy}, !.item = None]
             Gone == [job[a] EXCEPT !.pc = "restore", !.item = None]
  <2>1. job' = [job EXCEPT ![a] = Kept] \/ job' = [job EXCEPT ![a] = Gone]
    BY <1>7 DEF StageCheck
  <2>2. /\ job[a].mine \cup {job[a].item.copy} \in MineType /\ None \in ItemType
        /\ "stage" \in PCs /\ "restore" \in PCs
    BY <1>0, <1>7 DEF StageCheck, Fields, Checks, Jobs, MineType, ItemType, PCs
  <2>3. Kept \in Jobs /\ Fields(Kept)
    BY <1>0, <1>7, <2>2 DEF StageCheck, Jobs, Fields, Uploading
  <2>4. Gone \in Jobs /\ Fields(Gone)
    BY <1>0, <1>7, <2>2 DEF StageCheck, Jobs, Fields, Uploading
  <2> HIDE DEF Kept, Gone
  <2> QED BY <2>1, <2>3, <2>4, JobUpdate
<1>8. CASE Restore(a) \/ Discard(a)
  <2> DEFINE Less(c) == [job[a] EXCEPT !.mine = @ \ {c}]
  <2>1. job' = [job EXCEPT ![a] = Idle] \/ \E c : job' = [job EXCEPT ![a] = Less(c)]
    BY <1>8 DEF Restore, Discard, FinishCleanup, Leave
  <2>2. ASSUME NEW c PROVE Less(c) \in Jobs /\ Fields(Less(c))
    <3>1. job[a].mine \ {c} \in MineType
      BY <1>0 DEF Jobs, MineType
    <3> QED BY <1>0, <1>8, <3>1 DEF Restore, Discard, Jobs, Fields, Uploading
  <2> HIDE DEF Less
  <2> QED BY <1>1, <2>1, <2>2, JobUpdate
<1>9. CASE DeleteRecords(a)
  <2> DEFINE At(p) == [job[a] EXCEPT !.pc = p]
  <2>1. PICK p \in {"discard", "restore"} : job' = [job EXCEPT ![a] = At(p)]
    BY <1>9 DEF DeleteRecords, Goto
  <2>2. p \in PCs
    BY DEF PCs
  <2>3. At(p) \in Jobs /\ Fields(At(p))
    BY <1>0, <1>9, <2>2 DEF DeleteRecords, Jobs, Fields, Uploading
  <2> HIDE DEF At
  <2> QED BY <2>1, <2>3, JobUpdate
<1>10. CASE PreviewFails(a)
  BY <1>1, <1>10 DEF PreviewFails, FinishCleanup, Leave
<1> QED BY <1>2, <1>3, <1>4, <1>5, <1>6, <1>7, <1>8, <1>9, <1>10 DEF CleanupStep

\* Every step keeps the operations' types.
LEMMA JobTypesStep ==
  ASSUME JobTypes, WorldTypes, ManagerTypes, [Next]_vars
  PROVE  JobTypes'
<1>1. ASSUME NEW a \in Actors, Begins(a) PROVE JobTypes'
  <2>1. PICK op \in {"archive", "preview", "cleanup"}, pc \in {"listSMS", "listStaged"} :
          job' = [job EXCEPT ![a] = Begin(op, pc)]
    BY <1>1 DEF Begins, RunNow, PreviewCleanup, Cleanup, BeginExclusive
  <2> QED BY <2>1, IdleJob, JobUpdate DEF ManagerTypes
<1>2. CASE Crash
  BY <1>2, IdleJob DEF Crash, JobTypes
<1>3. CASE UNCHANGED job
  BY <1>3 DEF JobTypes
<1>4. ScheduledRefused \/ (\E r \in RowIDs : NewRow(r) \/ RowChanges(r))
      \/ (\E n \in Recordings : FileChanges(n)) \/ (\E c \in Configs : Configure(c)) \/ UNCHANGED vars
      => UNCHANGED job
  BY DEF ScheduledRefused, NewRow, RowChanges, FileChanges, Configure, Elsewhere, vars
<1> QED BY <1>1, <1>2, <1>3, <1>4, ArchiveTypesStep, CleanupTypesStep, Zenon DEF Next, Environment

\* The manager's own fields keep their types.
LEMMA ManagerTypesStep ==
  ASSUME ManagerTypes, JobTypes, WorldTypes, [Next]_vars
  PROVE  ManagerTypes'
<1> USE DEF ManagerTypes
<1>0. \A op : \A ok \in BOOLEAN : NextScheduled(op, ok) \in {"archive", "preview", "cleanup"}
  BY DEF NextScheduled
<1>1. ASSUME NEW a \in Actors, NEW ok \in BOOLEAN, Leave(a, ok), UNCHANGED config,
             lastError' \in Recordings \cup {None}
      PROVE  ManagerTypes'
  <2>1. want' \in {"archive", "preview", "cleanup"}
    BY <1>0, <1>1 DEF Leave
  <2>2. token' \in [Actors -> Previews \cup {None}]
    BY <1>1 DEF Leave
  <2> QED BY <1>1, <2>1, <2>2
<1>2. ASSUME NEW a \in Actors, NEW e, FinishRun(a, e), UNCHANGED config PROVE ManagerTypes'
  <2>1. (e = None) \in BOOLEAN
    OBVIOUS
  <2> QED BY <1>1, <1>2, <2>1 DEF FinishRun
<1>3. ASSUME NEW a \in Actors, NEW ok \in BOOLEAN, FinishCleanup(a, ok), UNCHANGED config PROVE ManagerTypes'
  BY <1>1, <1>3 DEF FinishCleanup
<1>4. ASSUME Stay, UNCHANGED config PROVE ManagerTypes'
  BY <1>4 DEF Stay
<1>5. ASSUME NEW a \in Actors, Begins(a) PROVE ManagerTypes'
  BY <1>5 DEF Begins, RunNow, PreviewCleanup, Cleanup, BeginExclusive
<1>6. ASSUME NEW a \in Actors, ArchiveStep(a) PROVE ManagerTypes'
  <2>1. UNCHANGED config /\ (Stay \/ \E e : FinishRun(a, e))
    BY <1>6, Zenon DEF ArchiveStep, ListSMS, ListCalls, NextItem, SkipItem, Upload, UploadFails, VerifyFile, UpsertObject,
       RunDone, RunFails
  <2> QED BY <1>2, <1>4, <2>1
<1>7. ASSUME NEW a \in Actors, Collect(a) PROVE ManagerTypes'
  <2> DEFINE p == Preview(job[a].settings, job[a].snap)
  <2>1. p \in Previews
    BY <1>7, PreviewType1 DEF Collect, JobTypes, Fields
  <2>2. UNCHANGED config /\ (FinishPreview(a, p) \/ FinishCleanup(a, FALSE) \/ Stay)
    BY <1>7 DEF Collect
  <2> HIDE DEF p
  <2>3. ASSUME FinishPreview(a, p) PROVE ManagerTypes'
    <3>1. want' \in {"archive", "preview", "cleanup"}
      BY <1>0, <2>3 DEF FinishPreview
    <3>2. token' \in [Actors -> Previews \cup {None}]
      BY <2>1, <2>3 DEF FinishPreview
    <3> QED BY <2>2, <2>3, <3>1, <3>2 DEF FinishPreview
  <2> QED BY <1>3, <1>4, <2>2, <2>3
<1>8. ASSUME NEW a \in Actors, CleanupStep(a), ~Collect(a) PROVE ManagerTypes'
  <2>1. UNCHANGED config /\ (Stay \/ FinishCleanup(a, FALSE) \/ FinishCleanup(a, TRUE))
    BY <1>8, Zenon DEF CleanupStep, ListStaged, RecoverStaged, ReadRows, PreviewFails, StageRename, StageCheck,
       Restore, DeleteRecords, Discard
  <2> QED BY <1>3, <1>4, <2>1
<1>9. ASSUME ScheduledRefused \/ Environment \/ UNCHANGED vars PROVE ManagerTypes'
  BY <1>9 DEF ScheduledRefused, Environment, NewRow, RowChanges, FileChanges, Configure, Crash, Elsewhere, vars
<1> QED BY <1>5, <1>6, <1>7, <1>8, <1>9 DEF Next

\* One operation at a time: an actor starts one only while the flag is down, and puts
\* the flag down when it ends.
LEMMA ExclusiveStep ==
  ASSUME Exclusive, JobTypes, [Next]_vars
  PROVE  Exclusive'
<1>0. Idle.pc = "idle"
  BY DEF Idle
<1>1. ASSUME NEW a \in Actors, Begins(a) PROVE Exclusive'
  <2>1. /\ ~running /\ running'
        /\ \E j : job' = [job EXCEPT ![a] = j]
    BY <1>1 DEF Begins, RunNow, PreviewCleanup, Cleanup, BeginExclusive
  <2> QED BY <2>1 DEF Exclusive, JobTypes
<1>2. ASSUME NEW a \in Actors, job[a].pc # "idle",
             \/ running' = FALSE /\ job' = [job EXCEPT ![a] = Idle]
             \/ running' = running /\ \E j : job' = [job EXCEPT ![a] = j]
      PROVE  Exclusive'
  <2>1. \A b \in Actors \ {a} : job'[b].pc = "idle"
    BY <1>2 DEF Exclusive, JobTypes
  <2>2. job'[a].pc # "idle" => running'
    <3>1. CASE running' = FALSE /\ job' = [job EXCEPT ![a] = Idle]
      BY <1>0, <3>1 DEF JobTypes
    <3>2. CASE running' = running
      BY <1>2, <3>2 DEF Exclusive
    <3> QED BY <1>2, <3>1, <3>2
  <2> QED BY <2>1, <2>2 DEF Exclusive
<1>3. ASSUME NEW a \in Actors, ArchiveStep(a) PROVE Exclusive'
  <2>1. job[a].pc # "idle"
    BY <1>3, Zenon DEF ArchiveStep, ListSMS, ListCalls, NextItem, SkipItem, Upload, UploadFails, VerifyFile, UpsertObject,
       RunDone, RunFails
  <2>2. \/ running' = FALSE /\ job' = [job EXCEPT ![a] = Idle]
        \/ running' = running /\ \E j : job' = [job EXCEPT ![a] = j]
    BY <1>3, Zenon DEF ArchiveStep, ListSMS, ListCalls, NextItem, SkipItem, Upload, UploadFails, VerifyFile, UpsertObject,
       RunDone, RunFails, FinishRun, Leave, Goto, Stay
  <2> QED BY <1>2, <2>1, <2>2
<1>4. ASSUME NEW a \in Actors, CleanupStep(a) PROVE Exclusive'
  <2>1. job[a].pc # "idle"
    BY <1>4, Zenon DEF CleanupStep, ListStaged, RecoverStaged, ReadRows, Collect, PreviewFails, StageRename, StageCheck,
       Restore, DeleteRecords, Discard
  <2>2. \/ running' = FALSE /\ job' = [job EXCEPT ![a] = Idle]
        \/ running' = running /\ \E j : job' = [job EXCEPT ![a] = j]
    BY <1>4, Zenon DEF CleanupStep, ListStaged, RecoverStaged, ReadRows, Collect, PreviewFails, StageRename, StageCheck,
       Restore, DeleteRecords, Discard, FinishCleanup, FinishPreview, Leave, Goto, Stay
  <2> QED BY <1>2, <2>1, <2>2
<1>5. CASE Crash
  BY <1>0, <1>5 DEF Crash, Exclusive
<1>6. CASE UNCHANGED <<job, running>>
  BY <1>6 DEF Exclusive
<1>7. ScheduledRefused \/ (\E r \in RowIDs : NewRow(r) \/ RowChanges(r))
      \/ (\E n \in Recordings : FileChanges(n)) \/ (\E c \in Configs : Configure(c)) \/ UNCHANGED vars
      => UNCHANGED <<job, running>>
  BY DEF ScheduledRefused, NewRow, RowChanges, FileChanges, Configure, Elsewhere, vars
<1> QED BY <1>1, <1>3, <1>4, <1>5, <1>6, <1>7, Zenon DEF Next, Environment

-----------------------------------------------------------------------------
(* Rows *)

\* What a ledger entry and an item in transit are made of.
LEMMA RowFacts ==
  ASSUME WorldTypes, JobTypes
  PROVE  /\ \A r \in RowIDs : rows[r].content \in Nat /\ (ledger[r] # None => ledger[r].sum \in Nat)
         /\ \A n \in Recordings : files[n] \in Nat /\ latest[n] \in Nat
         /\ \A n \in Recordings : ledger[n] # None =>
               ledger[n].sum \in Nat \ {0} /\ ledger[n].path \in {n} \X CallIDs
         /\ \A p \in Paths : remote[p] \in Nat
         /\ \A copy \in staged : copy.name \in Recordings /\ copy.content \in Nat \ {0}
         /\ \A a \in Actors : job[a].pc \in Uploading =>
               /\ job[a].item.key \in Keys /\ job[a].item.sum \in Nat
               /\ job[a].item.path \in Paths /\ job[a].item.path \in PathsOf(job[a].item.key)
<1> USE BoundAssumption, PathFacts
<1>1. Contents \subseteq Nat \ {0} /\ Contents \cup {0} \subseteq Nat
  BY DEF Contents
<1>2. \A r \in RowIDs : rows[r].content \in Nat /\ (ledger[r] # None => ledger[r].sum \in Nat)
  BY <1>1 DEF WorldTypes, RowTable
<1>3. \A n \in Recordings : files[n] \in Nat /\ latest[n] \in Nat
  BY <1>1 DEF WorldTypes
<1>4. \A n \in Recordings : ledger[n] # None =>
               ledger[n].sum \in Nat \ {0} /\ ledger[n].path \in {n} \X CallIDs
  BY <1>1 DEF WorldTypes
<1>5. \A p \in Paths : remote[p] \in Nat
  BY <1>1 DEF WorldTypes
<1>6. \A copy \in staged : copy.name \in Recordings /\ copy.content \in Nat \ {0}
  BY <1>1 DEF WorldTypes, Copies
<1>7. \A a \in Actors : job[a].pc \in Uploading =>
               /\ job[a].item.key \in Keys /\ job[a].item.sum \in Nat
               /\ job[a].item.path \in Paths /\ job[a].item.path \in PathsOf(job[a].item.key)
  <2> SUFFICES ASSUME NEW a \in Actors, job[a].pc \in Uploading
               PROVE  /\ job[a].item.key \in Keys /\ job[a].item.sum \in Nat
                      /\ job[a].item.path \in Paths /\ job[a].item.path \in PathsOf(job[a].item.key)
    OBVIOUS
  <2>1. job[a].item \in Items /\ job[a].item.path \in PathsOf(job[a].item.key)
    BY DEF JobTypes, Fields
  <2> QED BY <1>1, <2>1 DEF Items
<1> QED BY <1>2, <1>3, <1>4, <1>5, <1>6, <1>7

\* Uploading an item leaves every row as its ledger entry says.
LEMMA RowUpload ==
  ASSUME WorldTypes, JobTypes, RowInv, ArchiveInv, NEW a \in Actors, job[a].pc = "put",
         remote' = [remote EXCEPT ![job[a].item.path] = Sent(job[a].item)],
         UNCHANGED <<rows, ledger>>
  PROVE  RowInv'
<1> USE RowFacts, PathFacts
<1> DEFINE item == job[a].item
<1>1. item.key \in Keys /\ item.path \in PathsOf(item.key) /\ item.path \in Paths /\ ItemOK(item) /\ item.sum \in Nat
  BY DEF Uploading, ArchiveInv, ArchiveAt
<1>2. SUFFICES ASSUME NEW r \in RowIDs, ledger[r] # None, ledger[r].sum = rows[r].content
               PROVE  remote'[<<r, r>>] = rows[r].content
  BY Zenon DEF RowInv, RowOK
<1>3. <<r, r>> \in Paths /\ remote[<<r, r>>] = rows[r].content
  BY <1>2 DEF RowInv, RowOK, Paths
<1>4. CASE item.key \in Recordings
  <2>1. item.path # <<r, r>>
    BY <1>1, <1>4
  <2> QED BY <1>3, <2>1 DEF WorldTypes
<1>5. CASE item.key \in RowIDs
  <2>1. item.path = <<item.key, item.key>> /\ Sent(item) = item.sum
    BY <1>1, <1>5 DEF Sent
  <2>2. CASE item.key = r
    <3>1. item.sum = rows[r].content
      BY <1>1, <1>2, <2>2 DEF ItemOK
    <3> QED BY <1>3, <2>1, <2>2, <3>1 DEF WorldTypes
  <2>3. CASE item.key # r
    BY <1>3, <2>1, <2>3 DEF WorldTypes
  <2> QED BY <2>2, <2>3
<1> QED BY <1>1, <1>4, <1>5 DEF Keys

\* No step breaks what the ledger says of the rows, and only archived rows are deleted.
LEMMA RowStep ==
  ASSUME WorldTypes, JobTypes, RowInv, ArchiveInv, CleanupInv, [Next]_vars
  PROVE  RowInv'
<1> USE RowFacts, PathFacts
<1>1. CASE UNCHANGED <<rows, ledger, remote>>
  BY <1>1, Zenon DEF RowInv, RowOK
<1>2. ASSUME NEW a \in Actors, Upload(a) \/ UploadFails(a) PROVE RowInv'
  <2>1. job[a].pc = "put" /\ UNCHANGED <<rows, ledger>>
        /\ (UNCHANGED remote \/ remote' = [remote EXCEPT ![job[a].item.path] = Sent(job[a].item)])
    BY <1>2 DEF Upload, UploadFails, db
  <2> QED BY <1>1, <2>1, RowUpload
<1>3. ASSUME NEW a \in Actors, UpsertObject(a) PROVE RowInv'
  <2> DEFINE item == job[a].item
  <2>1. /\ item.key \in Keys /\ item.path \in PathsOf(item.key) /\ ItemOK(item) /\ item.sum \in Nat
        /\ remote[item.path] = item.sum
    BY <1>3 DEF UpsertObject, Uploading, ArchiveInv, ArchiveAt
  <2>2. ledger' = [ledger EXCEPT ![item.key] = [sum |-> item.sum, path |-> item.path]] /\ UNCHANGED <<rows, remote>>
    BY <1>3 DEF UpsertObject
  <2> HIDE DEF item
  <2>3. ASSUME NEW r \in RowIDs, r # item.key PROVE ledger'[r] = ledger[r]
    BY <2>2, <2>3 DEF WorldTypes, Keys
  <2>4. ASSUME NEW r \in RowIDs, r = item.key
        PROVE  /\ ledger'[r] = [sum |-> item.sum, path |-> item.path]
               /\ item.sum <= rows[r].content /\ remote[<<r, r>>] = item.sum
               /\ rows[r].st = "purged" => item.sum = rows[r].content
    <3>1. ledger'[r] = [sum |-> item.sum, path |-> item.path]
      BY <2>2, <2>4 DEF WorldTypes, Keys
    <3>2. item.sum <= rows[r].content /\ remote[<<r, r>>] = item.sum
      BY <2>1, <2>4 DEF ItemOK
    <3>3. rows[r].st = "purged" => item.sum = rows[r].content
      BY <2>1, <2>4, <3>2 DEF ItemOK, RowInv, RowOK
    <3> QED BY <3>1, <3>2, <3>3
  <2>5. ASSUME NEW r \in RowIDs PROVE RowOK(r)'
    <3>1. CASE r # item.key
      BY <2>2, <2>3, <3>1 DEF RowInv, RowOK
    <3>2. CASE r = item.key
      <4>1. [sum |-> item.sum, path |-> item.path] # None
        BY <1>3, <2>1, NoneAssumption DEF UpsertObject, JobTypes, Fields, Uploading, Items, ArchiveInv, ArchiveAt, item, Contents
      <4> QED BY <2>1, <2>2, <2>4, <3>2, <4>1 DEF RowInv, RowOK
    <3> QED BY <3>1, <3>2
  <2> QED BY <2>5 DEF RowInv
<1>4. ASSUME NEW a \in Actors, DeleteRecords(a) PROVE RowInv'
  <2>1. CASE UNCHANGED rows
    BY <1>1, <1>4, <2>1 DEF DeleteRecords
  <2>2. CASE StillAsPreviewed(job[a].preview) /\ rows' = PurgedRows(job[a].preview)
    <3>1. UNCHANGED <<ledger, remote>>
      BY <1>4 DEF DeleteRecords
    <3>2. \A e \in job[a].preview.rows : Archived(e[1], e[2]) /\ e[1] \in RowIDs
      BY <1>4 DEF DeleteRecords, CleanupInv, CleanupAt, JobTypes, Fields, Previews
    <3>3. ASSUME NEW r \in RowIDs
          PROVE  /\ rows'[r].content = rows[r].content
                 /\ rows'[r].st = rows[r].st \/ (rows'[r].st = "purged" /\ Archived(r, rows[r].content))
      <4>1. CASE \E e \in job[a].preview.rows : e[1] = r
        BY <2>2, <3>2, <4>1 DEF StillAsPreviewed, PurgedRows, WorldTypes, RowTable
      <4>2. CASE ~ \E e \in job[a].preview.rows : e[1] = r
        BY <2>2, <4>2 DEF PurgedRows
      <4> QED BY <4>1, <4>2
    <3>4. ASSUME NEW r \in RowIDs PROVE RowOK(r)'
      <4>1. CASE rows'[r].st = rows[r].st
        BY <3>1, <3>3, <4>1 DEF RowInv, RowOK
      <4>2. CASE rows'[r].st = "purged" /\ Archived(r, rows[r].content)
        BY <3>1, <3>3, <4>2 DEF RowInv, RowOK, Archived
      <4> QED BY <3>3, <4>1, <4>2
    <3> QED BY <3>4 DEF RowInv
  <2> QED BY <1>4, <2>1, <2>2 DEF DeleteRecords
<1>5. ASSUME NEW r \in RowIDs, NewRow(r) PROVE RowInv'
  <2>1. UNCHANGED <<ledger, remote>> /\ rows[r].st = "absent"
        /\ rows' = [rows EXCEPT ![r] = [st |-> "current", content |-> 1]]
    BY <1>5 DEF NewRow, Elsewhere
  <2>2. ASSUME NEW q \in RowIDs PROVE RowOK(q)'
    <3>1. CASE q = r
      <4>1. rows'[r].st = "current" /\ rows'[r].content = 1 /\ rows[r].content = 1
        <5>1. rows'[r] = [st |-> "current", content |-> 1]
          BY <2>1 DEF WorldTypes, RowTable
        <5>2. rows[r].content = 1
          BY <2>1 DEF RowInv, RowOK
        <5> QED BY <5>1, <5>2
      <4> QED BY <2>1, <3>1, <4>1 DEF RowInv, RowOK
    <3>2. CASE q # r
      BY <2>1, <3>2 DEF RowInv, RowOK, WorldTypes, RowTable
    <3> QED BY <3>1, <3>2
  <2> QED BY <2>2 DEF RowInv
<1>6. ASSUME NEW r \in RowIDs, RowChanges(r) PROVE RowInv'
  <2>1. /\ UNCHANGED <<ledger, remote>> /\ OnFile(r)
        /\ \A q \in RowIDs \ {r} : rows'[q] = rows[q]
        /\ \/ rows'[r].st = rows[r].st /\ rows'[r].content = rows[r].content + 1
           \/ rows'[r].st \in {"old", "deleted"} /\ rows'[r].content = rows[r].content
    BY <1>6 DEF RowChanges, Elsewhere, WorldTypes, RowTable
  <2>2. ASSUME NEW q \in RowIDs PROVE RowOK(q)'
    <3>1. CASE q = r
      BY <2>1, <3>1 DEF RowInv, RowOK, OnFile
    <3>2. CASE q # r
      BY <2>1, <3>2 DEF RowInv, RowOK
    <3> QED BY <3>1, <3>2
  <2> QED BY <2>2 DEF RowInv
<1>7. ASSUME \/ Quiet
             \/ \E a \in Actors : RecoverStaged(a) \/ StageRename(a) \/ StageCheck(a) \/ Restore(a) \/ Discard(a)
             \/ \E n \in Recordings : FileChanges(n)
      PROVE  UNCHANGED <<rows, ledger, remote>>
  BY <1>7, QuietKeepsWorld, Zenon DEF RecoverStaged, StageRename, StageCheck, Restore, Discard, FileChanges, Elsewhere, db, world
<1> QED BY <1>1, <1>2, <1>3, <1>4, <1>5, <1>6, <1>7, StepKinds

-----------------------------------------------------------------------------
(* Recordings: the moves of a file *)

\* A renamed file goes back under its name, where there is none.
LEMMA MoveBack ==
  ASSUME WorldTypes, JobTypes, RecordingInv, CopyInv, NEW c \in staged, files[c.name] = 0,
         staged' = staged \ {c}, files' = [files EXCEPT ![c.name] = c.content],
         UNCHANGED <<rows, latest, ledger, remote>>
  PROVE  RecordingInv' /\ CopyInv'
<1> USE RowFacts
<1>1. c.name \in Recordings /\ c.content = latest[c.name] /\ c.content # 0
  BY DEF CopyInv, CopyOK
<1>2. files'[c.name] = c.content /\ \A n \in Recordings \ {c.name} : files'[n] = files[n]
  BY <1>1 DEF WorldTypes
<1>3. ASSUME NEW n \in Recordings PROVE (UnknownOK(n) /\ FileOK(n) /\ Safe(n) /\ EntryOK(n))'
  <2>1. UnknownOK(n)' /\ EntryOK(n)'
    BY DEF RecordingInv, UnknownOK, EntryOK
  <2>2. FileOK(n)'
    BY <1>1, <1>2 DEF RecordingInv, FileOK
  <2>3. Safe(n)'
    <3>1. CASE n = c.name
      BY <1>1, <1>2, <3>1 DEF Safe
    <3>2. CASE n # c.name
      <4>1. [name |-> n, content |-> latest[n]] # c
        BY <3>2
      <4> QED BY <1>2, <3>2, <4>1 DEF RecordingInv, Safe, Archived
    <3> QED BY <3>1, <3>2
  <2> QED BY <2>1, <2>2, <2>3
<1>4. ASSUME NEW copy \in staged' PROVE CopyOK(copy)'
  BY <1>1, <1>2 DEF CopyInv, CopyOK, Archived, Live
<1> QED BY <1>3, <1>4 DEF RecordingInv, CopyInv

\* A renamed file that is archived goes away.
LEMMA MoveAway ==
  ASSUME WorldTypes, JobTypes, RecordingInv, CopyInv, NEW c \in staged, Archived(c.name, c.content),
         staged' = staged \ {c}, UNCHANGED <<rows, files, latest, ledger, remote>>
  PROVE  RecordingInv' /\ CopyInv'
<1>1. ASSUME NEW n \in Recordings PROVE (UnknownOK(n) /\ FileOK(n) /\ Safe(n) /\ EntryOK(n))'
  <2>1. UnknownOK(n)' /\ EntryOK(n)' /\ FileOK(n)'
    BY DEF RecordingInv, UnknownOK, EntryOK, FileOK
  <2>2. Safe(n)'
    <3>1. CASE [name |-> n, content |-> latest[n]] = c
      <4>1. c.name = n /\ c.content = latest[n]
        BY <3>1
      <4> QED BY <4>1 DEF Safe, Archived
    <3>2. CASE [name |-> n, content |-> latest[n]] # c
      BY <3>2 DEF RecordingInv, Safe, Archived
    <3> QED BY <3>1, <3>2
  <2> QED BY <2>1, <2>2
<1>2. ASSUME NEW copy \in staged' PROVE CopyOK(copy)'
  BY DEF CopyInv, CopyOK, Archived, Live
<1> QED BY <1>1, <1>2 DEF RecordingInv, CopyInv

\* A file that some row names is renamed aside.
LEMMA MoveAside ==
  ASSUME WorldTypes, JobTypes, RecordingInv, CopyInv, NEW n \in Recordings, files[n] # 0, Live(n),
         \A copy \in staged : copy.name # n,
         staged' = staged \cup {[name |-> n, content |-> files[n]]}, files' = [files EXCEPT ![n] = 0],
         UNCHANGED <<rows, latest, ledger, remote>>
  PROVE  RecordingInv' /\ CopyInv'
<1> USE RowFacts
<1>1. files[n] = latest[n]
  BY DEF RecordingInv, FileOK
<1>2. files'[n] = 0 /\ \A m \in Recordings \ {n} : files'[m] = files[m]
  BY DEF WorldTypes
<1>3. ASSUME NEW m \in Recordings PROVE (UnknownOK(m) /\ FileOK(m) /\ Safe(m) /\ EntryOK(m))'
  <2>1. UnknownOK(m)' /\ EntryOK(m)'
    BY DEF RecordingInv, UnknownOK, EntryOK
  <2>2. FileOK(m)'
    BY <1>1, <1>2 DEF RecordingInv, FileOK
  <2>3. Safe(m)'
    BY <1>1, <1>2 DEF RecordingInv, Safe, Archived
  <2> QED BY <2>1, <2>2, <2>3
<1>4. ASSUME NEW copy \in staged' PROVE CopyOK(copy)'
  <2>1. CASE copy \in staged
    <3>1. copy.name \in Recordings \ {n}
      BY <2>1
    <3> QED BY <1>2, <2>1, <3>1 DEF CopyInv, CopyOK, Archived, Live
  <2>2. CASE copy = [name |-> n, content |-> files[n]]
    <3>1. copy.name = n /\ copy.content = latest[n]
      BY <1>1, <2>2
    <3> QED BY <3>1 DEF CopyOK, Live
  <2> QED BY <2>1, <2>2
<1> QED BY <1>3, <1>4 DEF RecordingInv, CopyInv

(* Recordings: the steps *)

\* Uploading an item leaves the ledger true of every recording.
LEMMA RecordingUpload ==
  ASSUME WorldTypes, JobTypes, RecordingInv, CopyInv, NEW a \in Actors, job[a].pc = "put",
         Sent(job[a].item) # 0, remote' = [remote EXCEPT ![job[a].item.path] = Sent(job[a].item)],
         UNCHANGED <<rows, files, staged, latest, ledger>>
  PROVE  RecordingInv' /\ CopyInv'
<1> USE RowFacts, PathFacts
<1> DEFINE item == job[a].item
<1>1. item.key \in Keys /\ item.path \in PathsOf(item.key) /\ item.path \in Paths
  BY DEF Uploading
<1>2. CopyInv' /\ \A n \in Recordings : (UnknownOK(n) /\ FileOK(n) /\ Safe(n))'
  BY DEF CopyInv, CopyOK, Archived, Live, RecordingInv, UnknownOK, FileOK, Safe
<1>3. ASSUME NEW n \in Recordings PROVE EntryOK(n)'
  <2> SUFFICES ASSUME ledger[n] # None, latest[n] # 0, ledger[n].sum = latest[n]
               PROVE  remote'[ledger[n].path] = latest[n]
    BY DEF RecordingInv, EntryOK
  <2>1. ledger[n].path \in Paths /\ remote[ledger[n].path] = latest[n]
    BY DEF RecordingInv, EntryOK
  <2>2. CASE item.key = n
    <3>1. Sent(item) = latest[n]
      BY <2>2 DEF Sent, RecordingInv, FileOK
    <3> QED BY <2>1, <3>1 DEF WorldTypes
  <2>3. CASE item.key # n
    <3>1. item.path # ledger[n].path
      BY <1>1, <2>3 DEF Keys
    <3> QED BY <2>1, <3>1 DEF WorldTypes
  <2> QED BY <2>2, <2>3
<1> QED BY <1>2, <1>3 DEF RecordingInv

\* Recording an uploaded item in the ledger loses no recording and strands no file.
LEMMA RecordingUpsert ==
  ASSUME WorldTypes, JobTypes, RecordingInv, CopyInv, ArchiveInv, NEW a \in Actors, UpsertObject(a)
  PROVE  RecordingInv' /\ CopyInv'
<1> USE RowFacts, PathFacts
<1> DEFINE item == job[a].item
<1>1. /\ item.key \in Keys /\ item.path \in PathsOf(item.key) /\ ItemOK(item) /\ item.sum \in Nat /\ item.sum # 0
      /\ remote[item.path] = item.sum
      /\ item.key \in Recordings =>
            latest[item.key] = 0 \/ (files[item.key] # 0 /\ item.sum <= latest[item.key])
  BY DEF UpsertObject, Uploading, ArchiveInv, ArchiveAt
<1>2. /\ ledger' = [ledger EXCEPT ![item.key] = [sum |-> item.sum, path |-> item.path]]
      /\ UNCHANGED <<rows, files, staged, latest, remote>>
  BY DEF UpsertObject, disk
<1> HIDE DEF item
<1>3. \A n \in Recordings : n # item.key => ledger'[n] = ledger[n]
  BY <1>1, <1>2 DEF WorldTypes
<1>4. ASSUME NEW n \in Recordings, n = item.key
      PROVE  ledger'[n].sum = item.sum /\ ledger'[n].path = item.path /\ Live(n)
  <2>1. ledger'[n] = [sum |-> item.sum, path |-> item.path]
    BY <1>1, <1>2, <1>4 DEF WorldTypes
  <2> QED BY <1>1, <1>4, <2>1 DEF ItemOK
<1>5. ASSUME NEW n \in Recordings PROVE (UnknownOK(n) /\ FileOK(n) /\ Safe(n) /\ EntryOK(n))'
  <2>1. CASE n # item.key
    BY <1>2, <1>3, <2>1 DEF RecordingInv, UnknownOK, FileOK, Safe, EntryOK, Archived
  <2>2. CASE n = item.key
    <3>1. UnknownOK(n)'
      BY <1>2, <1>4, <2>2 DEF UnknownOK, Live
    <3>2. FileOK(n)' /\ Safe(n)'
      BY <1>1, <1>2, <2>2 DEF RecordingInv, FileOK, Safe
    <3>3. EntryOK(n)'
      BY <1>1, <1>2, <1>4, <2>2 DEF EntryOK
    <3> QED BY <3>1, <3>2, <3>3
  <2> QED BY <2>1, <2>2
<1>6. ASSUME NEW copy \in staged' PROVE CopyOK(copy)'
  <2>1. copy \in staged /\ copy.name \in Recordings
    BY <1>2
  <2>2. CASE copy.name # item.key
    BY <1>2, <1>3, <2>1, <2>2 DEF CopyInv, CopyOK, Archived, Live
  <2>3. CASE copy.name = item.key
    BY <1>2, <1>4, <2>1, <2>3 DEF CopyInv, CopyOK, Live
  <2> QED BY <2>2, <2>3
<1> QED BY <1>5, <1>6 DEF RecordingInv, CopyInv

\* The cleanup's transaction deletes no row that a file aside still needs.
LEMMA RecordingDelete ==
  ASSUME WorldTypes, JobTypes, RecordingInv, CopyInv, CleanupInv, NEW a \in Actors, DeleteRecords(a)
  PROVE  RecordingInv' /\ CopyInv'
<1> USE RowFacts, PathFacts
<1>1. UNCHANGED <<files, staged, latest, ledger, remote>> /\ job[a].pc = "stage"
  BY DEF DeleteRecords, disk
<1>2. CASE UNCHANGED rows
  BY <1>1, <1>2 DEF RecordingInv, UnknownOK, FileOK, Safe, EntryOK, CopyInv, CopyOK, Archived, Live
<1>3. CASE StillAsPreviewed(job[a].preview) /\ rows' = PurgedRows(job[a].preview)
  <2>1. ASSUME NEW r \in RowIDs
        PROVE  \/ rows'[r] = rows[r]
               \/ /\ OnFile(r) /\ rows'[r].st = "purged"
                  /\ \E entry \in job[a].preview.rows : entry[1] = r
    BY <1>3 DEF StillAsPreviewed, PurgedRows, WorldTypes, RowTable
  <2>2. \A r \in RowIDs : rows'[r].st = "absent" <=> rows[r].st = "absent"
    BY <2>1 DEF OnFile
  <2>3. RecordingInv'
    BY <1>1, <2>2 DEF RecordingInv, UnknownOK, FileOK, Safe, EntryOK, Archived
  <2>4. ASSUME NEW copy \in staged' PROVE CopyOK(copy)'
    <3>1. CASE TouchesCalls(a)
      <4>1. Archived(copy.name, copy.content)
        BY <1>1, <3>1 DEF CleanupInv, CleanupAt, Aside
      <4> QED BY <1>1, <4>1 DEF CopyInv, CopyOK, Archived
    <3>2. CASE ~TouchesCalls(a)
      <4>1. \A r \in CallIDs : rows'[r] = rows[r]
        BY <1>1, <2>1, <3>2 DEF CleanupInv, CleanupAt, CallIDs
      <4> QED BY <1>1, <4>1 DEF CopyInv, CopyOK, Archived, Live
    <3> QED BY <3>1, <3>2
  <2> QED BY <2>3, <2>4 DEF CopyInv
<1> QED BY <1>2, <1>3 DEF DeleteRecords

\* A new row finds its recording published, or shares it with an older row.
LEMMA RecordingNewRow ==
  ASSUME WorldTypes, JobTypes, RecordingInv, CopyInv, NEW r \in RowIDs, NewRow(r)
  PROVE  RecordingInv' /\ CopyInv'
<1> USE RowFacts, PathFacts
<1>1. /\ UNCHANGED <<staged, ledger, remote>> /\ rows[r].st = "absent"
      /\ rows' = [rows EXCEPT ![r] = [st |-> "current", content |-> 1]]
  BY DEF NewRow, Elsewhere
<1>2. rows'[r].st = "current" /\ \A q \in RowIDs \ {r} : rows'[q] = rows[q]
  <2>1. rows'[r] = [st |-> "current", content |-> 1] /\ \A q \in RowIDs \ {r} : rows'[q] = rows[q]
    BY <1>1 DEF WorldTypes, RowTable
  <2> QED BY <2>1
<1>3. \A n \in Recordings : Live(n) => Live(n)'
  BY <1>1, <1>2 DEF Live, CallIDs
<1>4. \A n \in Recordings : UnknownOK(n)' \/ latest'[n] # latest[n]
  BY <1>1, <1>2 DEF RecordingInv, UnknownOK, CallIDs
<1>5. CASE UNCHANGED <<files, latest>>
  BY <1>1, <1>3, <1>4, <1>5 DEF RecordingInv, FileOK, Safe, EntryOK, CopyInv, CopyOK, Archived
<1>6. CASE ~ UNCHANGED <<files, latest>>
  <2> DEFINE n == RecordingName[r]
  <2>1. /\ r \in CallIDs /\ n # None
        /\ \A q \in CallIDs : RecordingName[q] = n => rows[q].st = "absent"
        /\ files' = [files EXCEPT ![n] = 1] /\ latest' = [latest EXCEPT ![n] = 1]
    BY <1>6 DEF NewRow
  <2>2. n \in Recordings
    BY <2>1, RowAssumption DEF CallIDs
  <2> HIDE DEF n
  <2>3. latest[n] = 0 /\ ledger[n] = None /\ \A copy \in staged : copy.name # n
    BY <2>1, <2>2 DEF RecordingInv, UnknownOK, FileOK
  <2>4. /\ files'[n] = 1 /\ latest'[n] = 1
        /\ \A m \in Recordings \ {n} : files'[m] = files[m] /\ latest'[m] = latest[m]
    BY <2>1, <2>2 DEF WorldTypes
  <2>5. ASSUME NEW m \in Recordings PROVE (UnknownOK(m) /\ FileOK(m) /\ Safe(m) /\ EntryOK(m))'
    <3>1. CASE m = n
      <4>1. UnknownOK(m)'
        BY <1>2, <2>1, <3>1 DEF UnknownOK, n
      <4> QED BY <1>1, <2>3, <2>4, <3>1, <4>1 DEF FileOK, Safe, EntryOK
    <3>2. CASE m # n
      BY <1>1, <1>4, <2>4, <3>2 DEF RecordingInv, FileOK, Safe, EntryOK, Archived
    <3> QED BY <3>1, <3>2
  <2>6. ASSUME NEW copy \in staged' PROVE CopyOK(copy)'
    <3>1. copy \in staged /\ copy.name \in Recordings \ {n}
      BY <1>1, <2>3
    <3> QED BY <1>1, <1>3, <2>4, <3>1 DEF CopyInv, CopyOK, Archived
  <2> QED BY <2>5, <2>6 DEF RecordingInv, CopyInv
<1> QED BY <1>5, <1>6

\* A row that is updated, ages or is deleted by the user still names its recording.
LEMMA RecordingRowChanges ==
  ASSUME WorldTypes, RecordingInv, CopyInv, NEW r \in RowIDs, RowChanges(r)
  PROVE  RecordingInv' /\ CopyInv'
<1>1. UNCHANGED <<files, staged, latest, ledger, remote>>
  BY DEF RowChanges, Elsewhere, disk
<1>2. \A q \in RowIDs : \/ rows'[q] = rows[q]
                        \/ {rows[q].st, rows'[q].st} \cap {"absent", "purged"} = {}
  BY DEF RowChanges, OnFile, WorldTypes, RowTable
<1>3. \A q \in CallIDs : /\ rows'[q].st = "absent" <=> rows[q].st = "absent"
                         /\ rows'[q].st = "purged" <=> rows[q].st = "purged"
  BY <1>2 DEF CallIDs
<1> QED BY <1>1, <1>3 DEF RecordingInv, UnknownOK, FileOK, Safe, EntryOK, CopyInv, CopyOK, Archived, Live

\* A recording rewritten, removed for good or put back from outside.
LEMMA RecordingFileChanges ==
  ASSUME WorldTypes, JobTypes, RecordingInv, CopyInv, NEW n \in Recordings, FileChanges(n)
  PROVE  RecordingInv' /\ CopyInv'
<1> USE RowFacts
<1>1. UNCHANGED <<rows, staged, ledger, remote>>
  BY DEF FileChanges, Elsewhere
<1>2. \A m \in Recordings \ {n} : files'[m] = files[m] /\ latest'[m] = latest[m]
  BY DEF FileChanges, WorldTypes
<1>3. \/ files[n] # 0 /\ latest'[n] = latest[n] + 1 /\ files'[n] = latest[n] + 1
      \/ files[n] = 0 /\ latest[n] # 0 /\ files'[n] = latest[n] /\ latest'[n] = latest[n]
      \/ files[n] # 0 /\ (\A copy \in staged : copy.name # n) /\ files'[n] = 0 /\ latest'[n] = 0
  BY DEF FileChanges, WorldTypes
<1>4. \A m \in Recordings : Live(m)' <=> Live(m)
  BY <1>1 DEF Live
<1>5. ASSUME NEW m \in Recordings PROVE (UnknownOK(m) /\ FileOK(m) /\ Safe(m) /\ EntryOK(m))'
  <2>1. CASE m # n
    BY <1>1, <1>2, <2>1 DEF RecordingInv, UnknownOK, FileOK, Safe, EntryOK, Archived
  <2>2. CASE m = n
    <3>1. UnknownOK(n)'
      BY <1>1, <1>3 DEF RecordingInv, UnknownOK, FileOK
    <3>2. FileOK(n)'
      BY <1>1, <1>3 DEF RecordingInv, FileOK
    <3>3. Safe(n)'
      BY <1>1, <1>3 DEF Safe
    <3>4. EntryOK(n)'
      BY <1>1, <1>3 DEF RecordingInv, FileOK, EntryOK
    <3> QED BY <2>2, <3>1, <3>2, <3>3, <3>4
  <2> QED BY <2>1, <2>2
<1>6. ASSUME NEW copy \in staged' PROVE CopyOK(copy)'
  <2>1. copy \in staged /\ copy.name \in Recordings
    BY <1>1
  <2>2. CASE copy.name # n
    BY <1>1, <1>2, <1>4, <2>1, <2>2 DEF CopyInv, CopyOK, Archived
  <2>3. CASE copy.name = n
    BY <1>1, <1>3, <1>4, <2>1, <2>3 DEF CopyInv, CopyOK, Archived
  <2> QED BY <2>2, <2>3
<1> QED BY <1>5, <1>6 DEF RecordingInv, CopyInv

\* No step loses a recording, makes the ledger untrue or strands a file.
LEMMA RecordingStep ==
  ASSUME WorldTypes, JobTypes, RecordingInv, CopyInv, ArchiveInv, CleanupInv, [Next]_vars
  PROVE  RecordingInv' /\ CopyInv'
<1> USE RowFacts
<1>1. CASE UNCHANGED world
  BY <1>1 DEF RecordingInv, UnknownOK, FileOK, Safe, EntryOK, CopyInv, CopyOK, Archived, Live, world
<1>2. ASSUME NEW a \in Actors, Upload(a) \/ UploadFails(a) PROVE RecordingInv' /\ CopyInv'
  <2>1. job[a].pc = "put" /\ UNCHANGED <<rows, files, staged, latest, ledger>>
        /\ (UNCHANGED remote \/ /\ Sent(job[a].item) # 0
                                /\ remote' = [remote EXCEPT ![job[a].item.path] = Sent(job[a].item)])
    BY <1>2 DEF Upload, UploadFails, db, disk
  <2> QED BY <1>1, <2>1, RecordingUpload DEF world
<1>3. ASSUME NEW a \in Actors, RecoverStaged(a) PROVE RecordingInv' /\ CopyInv'
  <2>1. PICK entry \in job[a].left :
          \/ UNCHANGED <<files, staged>>
          \/ /\ staged' = staged \ {entry}
             /\ \/ files[entry.name] = 0 /\ files' = [files EXCEPT ![entry.name] = entry.content]
                \/ Archived(entry.name, entry.content) /\ UNCHANGED files
    BY <1>3 DEF RecoverStaged
  <2>2. entry \in staged /\ UNCHANGED <<rows, latest, ledger, remote>>
    BY <1>3 DEF RecoverStaged, CleanupInv, CleanupAt, db
  <2> QED BY <1>1, <2>1, <2>2, MoveBack, MoveAway DEF world
<1>4. ASSUME NEW a \in Actors, StageRename(a) PROVE RecordingInv' /\ CopyInv'
  <2>1. PICK entry \in job[a].left :
          \/ UNCHANGED <<files, staged>>
          \/ /\ files[entry[1]] # 0
             /\ files' = [files EXCEPT ![entry[1]] = 0]
             /\ staged' = staged \cup {[name |-> entry[1], content |-> files[entry[1]]]}
    BY <1>4 DEF StageRename
  <2>2. job[a].pc = "stage" /\ UNCHANGED <<rows, latest, ledger, remote>>
    BY <1>4 DEF StageRename, db
  <2>3. Live(entry[1]) /\ staged = job[a].mine /\ \A copy \in staged : files[copy.name] = 0
    BY <2>2 DEF CleanupInv, CleanupAt, Aside
  <2>4. entry[1] \in Recordings
    BY <2>2 DEF JobTypes, Fields
  <2> QED BY <1>1, <2>1, <2>2, <2>3, <2>4, MoveAside DEF world
<1>5. ASSUME NEW a \in Actors, StageCheck(a) PROVE RecordingInv' /\ CopyInv'
  <2> DEFINE copy == job[a].item.copy
  <2>1. /\ UNCHANGED <<files, staged>> \/ (staged' = staged \ {copy} /\ files' = [files EXCEPT ![copy.name] = copy.content])
        /\ UNCHANGED <<rows, latest, ledger, remote>> /\ job[a].pc = "check"
    BY <1>5 DEF StageCheck, PutBack, db
  <2>2. copy \in staged /\ files[copy.name] = 0
    BY <2>1 DEF CleanupInv, CleanupAt
  <2> HIDE DEF copy
  <2> QED BY <1>1, <2>1, <2>2, MoveBack DEF world
<1>6. ASSUME NEW a \in Actors, Restore(a) PROVE RecordingInv' /\ CopyInv'
  <2>1. UNCHANGED <<rows, latest, ledger, remote>> /\ job[a].pc = "restore"
    BY <1>6 DEF Restore, db
  <2>2. UNCHANGED <<files, staged>>
        \/ \E c \in job[a].mine : staged' = staged \ {c} /\ files' = [files EXCEPT ![c.name] = c.content]
    BY <1>6 DEF Restore, PutBack
  <2>3. \A c \in job[a].mine : c \in staged /\ files[c.name] = 0
    BY <2>1 DEF CleanupInv, CleanupAt, Aside
  <2> QED BY <1>1, <2>1, <2>2, <2>3, MoveBack DEF world
<1>7. ASSUME NEW a \in Actors, Discard(a) PROVE RecordingInv' /\ CopyInv'
  <2>1. UNCHANGED <<rows, files, latest, ledger, remote>> /\ job[a].pc = "discard"
    BY <1>7 DEF Discard, db
  <2>2. UNCHANGED staged \/ \E c \in job[a].mine : staged' = staged \ {c}
    BY <1>7 DEF Discard
  <2>3. \A c \in job[a].mine : c \in staged /\ Archived(c.name, c.content)
    BY <2>1 DEF CleanupInv, CleanupAt, Aside
  <2> QED BY <1>1, <2>1, <2>2, <2>3, MoveAway DEF world
<1> QED BY <1>1, <1>2, <1>3, <1>4, <1>5, <1>6, <1>7, StepKinds, QuietKeepsWorld, RecordingUpsert, RecordingDelete,
       RecordingNewRow, RecordingRowChanges, RecordingFileChanges

-----------------------------------------------------------------------------
(* The archive run in progress *)

\* While one actor has an operation the others have none.
LEMMA OthersIdle ==
  ASSUME Exclusive, JobTypes, NEW a \in Actors, job[a].pc # "idle", NEW j, job' = [job EXCEPT ![a] = j]
  PROVE  job'[a] = j /\ \A b \in Actors \ {a} : job'[b] = job[b] /\ job[b].pc = "idle"
BY DEF Exclusive, JobTypes

\* An operation outside the archive run has nothing to keep.
LEMMA ArchiveElsewhere ==
  ASSUME NEW a \in Actors, job'[a].pc \notin Archiving
  PROVE  ArchiveAt(a)'
BY DEF ArchiveAt, Archiving, Uploading

\* So what has to be shown of the operations is what the one that moved has to keep.
LEMMA ArchiveOnly ==
  ASSUME Exclusive, JobTypes, NEW a \in Actors, job[a].pc # "idle", NEW j, job' = [job EXCEPT ![a] = j],
         ArchiveAt(a)'
  PROVE  ArchiveInv'
<1>1. ASSUME NEW b \in Actors, b # a PROVE ArchiveAt(b)'
  <2>1. job'[b] = job[b] /\ job[b].pc = "idle"
    BY <1>1 DEF JobTypes, Exclusive
  <2>2. job'[b].pc = "idle"
    BY <2>1
  <2> QED BY <2>2, ArchiveElsewhere DEF Archiving, Uploading
<1> QED BY <1>1 DEF ArchiveInv

\* The steps of the archive run itself.
LEMMA ArchiveRunStep ==
  ASSUME WorldTypes, JobTypes, Exclusive, RowInv, RecordingInv, ArchiveInv, NEW a \in Actors, ArchiveStep(a)
  PROVE  ArchiveInv'
<1> USE RowFacts, PathFacts
<1>0. job[a] \in Jobs /\ Fields(job[a]) /\ ArchiveAt(a) /\ Idle.pc = "idle"
  BY DEF JobTypes, ArchiveInv, Idle
<1>1. CASE job[a].pc # "idle" /\ job' = [job EXCEPT ![a] = Idle]
  <2>1. job'[a].pc = "idle"
    BY <1>0, <1>1, OthersIdle, ZenonT(40)
  <2>2. ArchiveAt(a)'
    BY <2>1, ArchiveElsewhere DEF Archiving, Uploading
  <2> QED BY <1>1, <2>2, ArchiveOnly
<1>2. CASE ListSMS(a)
  <2> DEFINE T == IF job[a].settings.sms THEN RowItems({r \in SmsIDs : OnFile(r)}) ELSE {}
             j == [job[a] EXCEPT !.pc = "next", !.phase = 1, !.todo = T]
  <2>1. job' = [job EXCEPT ![a] = j] /\ UNCHANGED world /\ job[a].pc # "idle"
    BY <1>2 DEF ListSMS
  <2>2. \A x \in T : \E r \in RowIDs : x = RowItem(r)
    BY RowAssumption DEF RowItems
  <2> HIDE DEF T
  <2>3. j.pc = "next" /\ j.todo = T
    BY <1>0 DEF Jobs
  <2> HIDE DEF j
  <2>4. job'[a] = j
    BY <2>1, OthersIdle
  <2>5. \A x \in T : ItemOK(x)'
    BY <2>1, <2>2 DEF RowItem, ItemOK, RowInv, RowOK, WorldTypes, RowTable, Contents, world
  <2>6. \A x, y \in T : x.key = y.key => x = y
    BY <2>2 DEF RowItem
  <2>7. ArchiveAt(a)'
    BY <2>3, <2>4, <2>5, <2>6 DEF ArchiveAt, Archiving, Uploading
  <2> QED BY <2>1, <2>7, ArchiveOnly
<1>3. CASE ListCalls(a)
  <2> DEFINE S == IF job[a].settings.calls THEN RowItems({r \in CallIDs : OnFile(r)}) ELSE {}
             T == IF job[a].settings.recordings THEN RecordingItems ELSE {}
             j == [job[a] EXCEPT !.phase = 2, !.todo = S \cup T]
  <2>1. job' = [job EXCEPT ![a] = j] /\ UNCHANGED world /\ job[a].pc = "next"
    BY <1>3 DEF ListCalls
  <2>2. \A x \in S : \E r \in RowIDs : x = RowItem(r)
    BY DEF RowItems, CallIDs
  <2>3. \A x \in T : x.key \in Recordings /\ Live(x.key)
    <3> SUFFICES ASSUME NEW x \in RecordingItems PROVE x.key \in Recordings /\ Live(x.key)
      OBVIOUS
    <3>1. PICK r \in CallIDs : OnFile(r) /\ RecordingName[r] # None /\ x.key = RecordingName[r]
      BY DEF RecordingItems
    <3>2. RecordingName[r] \in Recordings
      BY <3>1, RowAssumption DEF CallIDs
    <3> QED BY <3>1, <3>2 DEF Live, OnFile
  <2> HIDE DEF S, T
  <2>4. j.pc = "next" /\ j.todo = S \cup T
    BY <1>0, <2>1 DEF Jobs
  <2> HIDE DEF j
  <2>5. job'[a] = j
    BY <2>1, OthersIdle
  <2>6. \A x \in S : ItemOK(x)' /\ x.key \in RowIDs
    BY <2>1, <2>2 DEF RowItem, ItemOK, RowInv, RowOK, WorldTypes, RowTable, Contents, world
  <2>7. \A x \in T : ItemOK(x)' /\ x.key \notin RowIDs
    BY <2>1, <2>3 DEF ItemOK, Live, world
  <2>8. \A x, y \in S : x.key = y.key => x = y
    BY <2>2 DEF RowItem
  <2>9. ArchiveAt(a)'
    BY <2>4, <2>5, <2>6, <2>7, <2>8 DEF ArchiveAt, Archiving, Uploading
  <2> QED BY <2>1, <2>9, ArchiveOnly
<1>4. CASE NextItem(a)
  <2> DEFINE Fresh(i) == IF i.key \in Recordings THEN [i EXCEPT !.sum = files[i.key]] ELSE i
             Taken(i) == [job[a] EXCEPT !.pc = "put", !.item = Fresh(i), !.todo = @ \ {i}]
  <2>1. PICK item \in job[a].todo :
          job' = [job EXCEPT ![a] = Idle] \/ (Fresh(item).sum # 0 /\ job' = [job EXCEPT ![a] = Taken(item)])
    BY <1>4, Zenon DEF NextItem, FinishRun, Leave
  <2>2. job[a].pc = "next" /\ UNCHANGED world
    BY <1>4 DEF NextItem
  <2>3. CASE job' = [job EXCEPT ![a] = Idle]
    BY <1>1, <2>2, <2>3
  <2>4. CASE Fresh(item).sum # 0 /\ job' = [job EXCEPT ![a] = Taken(item)]
    <3> DEFINE j == Taken(item)
    <3> PICK fresh : fresh = Fresh(item)
      OBVIOUS
    <3>1. item \in Items
      BY <1>0 DEF Jobs, TodoType
    <3>2. /\ fresh.key = item.key
          /\ item.key \in Recordings => fresh.sum = files[item.key]
          /\ item.key \notin Recordings => fresh = item
      BY <3>1 DEF Items
    <3>3. fresh.sum # 0
      BY <2>4
    <3> HIDE DEF Fresh
    <3>4. j.pc = "put" /\ j.item = fresh /\ j.todo = job[a].todo \ {item}
      BY <1>0 DEF Jobs
    <3>5. job' = [job EXCEPT ![a] = j] /\ job[a].pc # "idle"
      BY <2>2, <2>4
    <3> HIDE DEF Taken, j
    <3>6. job'[a] = j
      BY <3>5, OthersIdle
    <3>7. /\ \A x \in job[a].todo : ItemOK(x)
          /\ \A x, y \in job[a].todo : x.key = y.key /\ x.key \in RowIDs => x = y
      BY <1>0, <2>2 DEF ArchiveAt, Archiving
    <3>8. ItemOK(fresh)
      BY <3>2, <3>7 DEF ItemOK
    <3>9. item.key \in Recordings => latest[item.key] = 0 \/ (files[item.key] # 0 /\ fresh.sum <= latest[item.key])
      BY <3>2, <3>3 DEF RecordingInv, FileOK
    <3>10. \A x : ItemOK(x) => ItemOK(x)'
      BY <2>2 DEF ItemOK, Live, world
    <3>11. ArchiveAt(a)'
      <4>1. \A x \in j.todo : ItemOK(x)' /\ (x.key \in RowIDs => x.key # fresh.key)
        BY <3>2, <3>4, <3>7, <3>10
      <4>2. \A x, y \in j.todo : x.key = y.key /\ x.key \in RowIDs => x = y
        BY <3>4, <3>7
      <4>3. ItemOK(fresh)'
        BY <3>8, <3>10
      <4>4. fresh.key \in Recordings => latest'[fresh.key] = 0 \/ (files'[fresh.key] # 0 /\ fresh.sum <= latest'[fresh.key])
        BY <2>2, <3>2, <3>9 DEF world
      <4> QED BY <3>3, <3>4, <3>6, <4>1, <4>2, <4>3, <4>4 DEF ArchiveAt
    <3> QED BY <3>5, <3>11, ArchiveOnly
  <2> QED BY <2>1, <2>3, <2>4
<1>5. CASE SkipItem(a)
  <2> DEFINE j == [job[a] EXCEPT !.pc = "next", !.item = None]
  <2>1. job' = [job EXCEPT ![a] = j] /\ UNCHANGED world /\ job[a].pc = "put"
    BY <1>5 DEF SkipItem
  <2>2. j.pc = "next" /\ j.todo = job[a].todo
    BY <1>0 DEF Jobs
  <2> HIDE DEF j
  <2>3. job'[a] = j
    BY <2>1, OthersIdle
  <2>4. ArchiveAt(a)'
    BY <1>0, <2>1, <2>2, <2>3 DEF ArchiveAt, ItemOK, Live, world, Archiving, Uploading
  <2> QED BY <2>1, <2>4, ArchiveOnly
<1> PICK item : item = job[a].item
  OBVIOUS
<1>6. CASE Upload(a)
  <2> DEFINE j == [job[a] EXCEPT !.pc = IF item.key \in Recordings THEN "verify" ELSE "upsert"]
  <2>1. /\ job' = [job EXCEPT ![a] = j] /\ UNCHANGED <<rows, ledger, files, staged, latest>> /\ job[a].pc = "put"
        /\ remote' = [remote EXCEPT ![item.path] = Sent(item)] /\ Sent(item) # 0
    BY <1>6 DEF Upload, Goto, db, disk
  <2>2. j.pc = (IF item.key \in Recordings THEN "verify" ELSE "upsert") /\ j.todo = job[a].todo /\ j.item = item
    BY <1>0 DEF Jobs
  <2> HIDE DEF j
  <2>3. job'[a] = j
    BY <2>1, OthersIdle
  <2>4. item.path \in Paths /\ item.sum \in Nat
    BY <2>1 DEF Uploading
  <2>5. remote'[item.path] = Sent(item)
    BY <2>1, <2>4 DEF WorldTypes
  <2>6. item.key \in Recordings => latest[item.key] = 0 \/ (item.sum <= Sent(item) /\ Sent(item) <= latest[item.key])
    BY <1>0, <2>1 DEF ArchiveAt, Uploading, Sent, RecordingInv, FileOK
  <2>7. item.key \notin Recordings => Sent(item) = item.sum
    BY DEF Sent
  <2>8. ArchiveAt(a)'
    <3>1. /\ \A x \in j.todo : ItemOK(x)' /\ (x.key \in RowIDs => x.key # item.key)
          /\ \A x, y \in j.todo : x.key = y.key /\ x.key \in RowIDs => x = y
          /\ ItemOK(item)' /\ item.sum # 0
          /\ item.key \in Recordings => latest'[item.key] = 0 \/ (files'[item.key] # 0 /\ item.sum <= latest'[item.key])
      BY <1>0, <2>1, <2>2 DEF ArchiveAt, ItemOK, Live, Archiving, Uploading
    <3> QED BY <2>1, <2>2, <2>3, <2>5, <2>6, <2>7, <3>1 DEF ArchiveAt
  <2> QED BY <2>1, <2>8, ArchiveOnly
<1>7. CASE VerifyFile(a)
  <2>1. CASE job' = [job EXCEPT ![a] = Idle]
    BY <1>1, <1>7, <2>1 DEF VerifyFile
  <2>2. CASE files[item.key] = item.sum /\ job' = [job EXCEPT ![a].pc = "upsert"]
    <3> DEFINE j == [job[a] EXCEPT !.pc = "upsert"]
    <3>1. job' = [job EXCEPT ![a] = j] /\ UNCHANGED world /\ job[a].pc = "verify"
      BY <1>7, <2>2 DEF VerifyFile
    <3>2. j.pc = "upsert" /\ j.todo = job[a].todo /\ j.item = item
      BY <1>0 DEF Jobs
    <3> HIDE DEF j
    <3>3. job'[a] = j
      BY <3>1, OthersIdle
    <3>4. item.path \in Paths /\ item.sum \in Nat
      BY <3>1 DEF Uploading
    <3>5. remote[item.path] = item.sum
      <4>1. item.key \in Recordings /\ item.sum # 0
        BY <1>0, <3>1 DEF ArchiveAt, Uploading
      <4>2. latest[item.key] = item.sum
        BY <2>2, <4>1 DEF RecordingInv, FileOK
      <4>3. item.sum <= remote[item.path] /\ remote[item.path] <= item.sum
        BY <1>0, <3>1, <4>1, <4>2 DEF ArchiveAt
      <4>4. remote[item.path] \in Nat
        BY <3>4
      <4> QED BY <3>4, <4>3, <4>4
    <3>6. ArchiveAt(a)'
      <4>1. /\ \A x \in j.todo : ItemOK(x)' /\ (x.key \in RowIDs => x.key # item.key)
            /\ \A x, y \in j.todo : x.key = y.key /\ x.key \in RowIDs => x = y
            /\ ItemOK(item)' /\ item.sum # 0
            /\ item.key \in Recordings => latest'[item.key] = 0 \/ (files'[item.key] # 0 /\ item.sum <= latest'[item.key])
        BY <1>0, <3>1, <3>2 DEF ArchiveAt, ItemOK, Live, Archiving, Uploading, world
      <4> QED BY <3>1, <3>2, <3>3, <3>5, <4>1 DEF ArchiveAt, world
    <3> QED BY <3>1, <3>6, ArchiveOnly
  <2> QED BY <1>7, <2>1, <2>2 DEF VerifyFile, Goto, FinishRun, Leave
<1>8. CASE UpsertObject(a)
  <2> DEFINE j == [job[a] EXCEPT !.pc = "next", !.item = None]
  <2>1. /\ job' = [job EXCEPT ![a] = j] /\ UNCHANGED <<rows, files, staged, latest, remote>> /\ job[a].pc = "upsert"
        /\ ledger' = [ledger EXCEPT ![item.key] = [sum |-> item.sum, path |-> item.path]]
    BY <1>8 DEF UpsertObject, disk
  <2>2. j.pc = "next" /\ j.todo = job[a].todo
    BY <1>0 DEF Jobs
  <2> HIDE DEF j
  <2>3. job'[a] = j
    BY <2>1, OthersIdle
  <2>4. \A x \in job[a].todo : ItemOK(x) /\ (x.key \in RowIDs => x.key # item.key)
    BY <1>0, <2>1 DEF ArchiveAt, Archiving, Uploading
  <2>5. item.key \in Keys
    BY <2>1 DEF Uploading
  <2>6. \A r \in RowIDs : r # item.key => ledger'[r] = ledger[r]
    BY <2>1, <2>5 DEF WorldTypes
  <2>7. \A x \in job[a].todo : ItemOK(x)'
    BY <2>1, <2>4, <2>6 DEF ItemOK, Live
  <2>8. ArchiveAt(a)'
    BY <1>0, <2>1, <2>2, <2>3, <2>7 DEF ArchiveAt, Archiving, Uploading
  <2> QED BY <2>1, <2>8, ArchiveOnly
<1>9. CASE UploadFails(a) \/ RunDone(a) \/ RunFails(a)
  BY <1>1, <1>9 DEF UploadFails, RunDone, RunFails, FinishRun, Leave
<1> QED BY <1>2, <1>3, <1>4, <1>5, <1>6, <1>7, <1>8, <1>9 DEF ArchiveStep

\* What changes outside leaves the items of a run as good as they were.
LEMMA ArchiveOutside ==
  ASSUME WorldTypes, JobTypes, Exclusive, RowInv, RecordingInv, ArchiveInv,
         \/ \E r \in RowIDs : NewRow(r) \/ RowChanges(r)
         \/ \E n \in Recordings : FileChanges(n)
  PROVE  ArchiveInv'
<1> USE RowFacts, PathFacts
<1>1. UNCHANGED <<ledger, remote, job, running>>
  BY DEF NewRow, RowChanges, FileChanges, Elsewhere
<1>2. \A r \in RowIDs : rows[r].content <= rows'[r].content
  <2>1. ASSUME NEW r \in RowIDs, NewRow(r) PROVE \A q \in RowIDs : rows[q].content <= rows'[q].content
    <3>1. \A q \in RowIDs : IF q = r THEN rows'[q] = [st |-> "current", content |-> 1] ELSE rows'[q] = rows[q]
      BY <2>1 DEF NewRow, WorldTypes, RowTable
    <3>2. rows[r].content = 1
      BY <2>1 DEF NewRow, RowInv, RowOK
    <3> QED BY <3>1, <3>2
  <2>2. ASSUME NEW r \in RowIDs, RowChanges(r) PROVE \A q \in RowIDs : rows[q].content <= rows'[q].content
    <3>1. \A q \in RowIDs : rows'[q].content \in {rows[q].content, rows[q].content + 1}
      BY <2>2 DEF RowChanges, WorldTypes, RowTable
    <3> QED BY <3>1
  <2>3. ASSUME NEW n \in Recordings, FileChanges(n) PROVE UNCHANGED rows
    BY <2>3 DEF FileChanges
  <2> QED BY <2>1, <2>2, <2>3
<1>3. \A r \in RowIDs : rows[r].st \notin {"absent", "purged"} => rows'[r].st \notin {"absent", "purged"}
  <2>1. ASSUME NEW r \in RowIDs, NewRow(r)
        PROVE  \A q \in RowIDs : rows[q].st \notin {"absent", "purged"} => rows'[q].st \notin {"absent", "purged"}
    BY <2>1 DEF NewRow, WorldTypes, RowTable
  <2>2. ASSUME NEW r \in RowIDs, RowChanges(r)
        PROVE  \A q \in RowIDs : rows[q].st \notin {"absent", "purged"} => rows'[q].st \notin {"absent", "purged"}
    BY <2>2 DEF RowChanges, WorldTypes, RowTable
  <2>3. ASSUME NEW n \in Recordings, FileChanges(n) PROVE UNCHANGED rows
    BY <2>3 DEF FileChanges
  <2> QED BY <2>1, <2>2, <2>3
<1>4. ASSUME NEW n \in Recordings, Live(n), running
      PROVE  \/ latest'[n] = 0
             \/ files'[n] = 0 /\ files[n] = 0 /\ latest'[n] = latest[n]
             \/ files'[n] # 0 /\ files[n] # 0 /\ latest[n] <= latest'[n]
  <2>1. ASSUME NEW r \in RowIDs, NewRow(r) PROVE files'[n] = files[n] /\ latest'[n] = latest[n]
    BY <1>4, <2>1, RowAssumption DEF NewRow, Live, WorldTypes
  <2>2. ASSUME NEW r \in RowIDs, RowChanges(r) PROVE files'[n] = files[n] /\ latest'[n] = latest[n]
    BY <2>2 DEF RowChanges, disk
  <2>3. ASSUME NEW m \in Recordings, FileChanges(m), m # n PROVE files'[n] = files[n] /\ latest'[n] = latest[n]
    BY <2>3 DEF FileChanges, WorldTypes
  <2>4. ASSUME FileChanges(n)
        PROVE  latest'[n] = 0 \/ (files'[n] # 0 /\ files[n] # 0 /\ latest[n] <= latest'[n])
    BY <1>4, <2>4 DEF FileChanges, WorldTypes
  <2> QED BY <2>1, <2>2, <2>3, <2>4
<1>5. \A x : ItemOK(x) /\ x.sum \in Nat => ItemOK(x)'
  <2>0. WorldTypes'
    BY WorldTypesStep DEF Next, Environment
  <2>1. \A r \in RowIDs : rows'[r].content \in Nat
    BY <2>0, BoundAssumption DEF WorldTypes, RowTable, Contents
  <2> SUFFICES ASSUME NEW x, ItemOK(x), x.sum \in Nat PROVE ItemOK(x)'
    OBVIOUS
  <2>2. x.key \in Recordings => Live(x.key)'
    BY <1>3 DEF ItemOK, Live
  <2>3. x.key \in RowIDs => x.sum <= rows'[x.key].content
    BY <1>2, <2>1 DEF ItemOK
  <2> QED BY <1>1, <2>2, <2>3 DEF ItemOK
<1>6. ASSUME NEW a \in Actors PROVE ArchiveAt(a)'
  <2>1. CASE job[a].pc \notin Archiving
    BY <1>1, <2>1, ArchiveElsewhere
  <2>2. CASE job[a].pc \in Archiving
    <3>1. running /\ ArchiveAt(a)
      BY <2>2 DEF Exclusive, ArchiveInv, Archiving, Uploading
    <3>2. \A x \in job[a].todo : x.sum \in Nat
      BY BoundAssumption DEF JobTypes, Jobs, TodoType, Items, Contents
    <3>3. (\A x \in job[a].todo : ItemOK(x)') /\ (job[a].pc \in Uploading => ItemOK(job[a].item)')
      <4>1. \A x \in job[a].todo : ItemOK(x)'
        BY <1>5, <2>2, <3>1, <3>2 DEF ArchiveAt
      <4>2. ASSUME job[a].pc \in Uploading PROVE ItemOK(job[a].item)'
        <5> PICK i : i = job[a].item
          OBVIOUS
        <5>1. ItemOK(i) /\ i.sum \in Nat
          BY <3>1, <4>2 DEF ArchiveAt
        <5>2. ItemOK(i)'
          BY <1>5, <5>1
        <5> QED BY <1>1, <5>2
      <4> QED BY <4>1, <4>2
    <3>4. ASSUME job[a].pc \in Uploading, job[a].item.key \in Recordings
          PROVE  LET n == job[a].item.key
                 IN  \/ latest'[n] = 0
                     \/ latest[n] # 0 /\ files'[n] # 0 /\ latest[n] <= latest'[n] /\ job[a].item.sum <= latest'[n]
      <4> DEFINE n == job[a].item.key
      <4>1. Live(n) /\ (latest[n] = 0 \/ (files[n] # 0 /\ job[a].item.sum <= latest[n]))
        BY <3>1, <3>4 DEF ArchiveAt, ItemOK
      <4>2. latest[n] \in Nat /\ job[a].item.sum \in Nat /\ latest'[n] \in Nat
        <5>1. WorldTypes'
          BY WorldTypesStep DEF Next, Environment
        <5>2. latest'[n] \in Nat
          BY <3>4, <5>1, BoundAssumption, SMTT(30) DEF WorldTypes, Contents
        <5> QED BY <3>4, <5>2
      <4>3. latest[n] = 0 => files[n] = 0
        BY <3>4 DEF RecordingInv, FileOK
      <4> QED BY <1>4, <3>1, <3>4, <4>1, <4>2, <4>3
    <3>5. job[a].pc = "verify" =>
             \/ latest'[job[a].item.key] = 0
             \/ /\ job[a].item.sum <= remote[job[a].item.path]
                /\ remote[job[a].item.path] <= latest'[job[a].item.key]
      <4> SUFFICES ASSUME job[a].pc = "verify", latest'[job[a].item.key] # 0
                   PROVE  /\ job[a].item.sum <= remote[job[a].item.path]
                          /\ remote[job[a].item.path] <= latest'[job[a].item.key]
        OBVIOUS
      <4>1. /\ job[a].item.key \in Recordings
            /\ \/ latest[job[a].item.key] = 0
               \/ /\ job[a].item.sum <= remote[job[a].item.path]
                  /\ remote[job[a].item.path] <= latest[job[a].item.key]
        BY <3>1 DEF ArchiveAt
      <4>2. latest[job[a].item.key] # 0 /\ latest[job[a].item.key] <= latest'[job[a].item.key]
        BY <3>4, <4>1 DEF Uploading
      <4>3. latest[job[a].item.key] \in Nat /\ remote[job[a].item.path] \in Nat
        BY <4>1 DEF Uploading
      <4>4. latest'[job[a].item.key] \in Nat
        <5>1. WorldTypes'
          BY WorldTypesStep DEF Next, Environment
        <5> QED BY <4>1, <5>1, BoundAssumption DEF WorldTypes, Contents
      <4> QED BY <4>1, <4>2, <4>3, <4>4
    <3> QED BY <1>1, <3>1, <3>3, <3>4, <3>5 DEF ArchiveAt
  <2> QED BY <2>1, <2>2
<1> QED BY <1>6 DEF ArchiveInv

\* Every step keeps the archive run's bookkeeping.
LEMMA ArchiveInvStep ==
  ASSUME WorldTypes, JobTypes, Exclusive, RowInv, RecordingInv, ArchiveInv, [Next]_vars
  PROVE  ArchiveInv'
<1>0. Idle.pc = "idle"
  BY DEF Idle
<1>1. ASSUME NEW a \in Actors, Begins(a) PROVE ArchiveInv'
  <2>1. PICK op \in {"archive", "preview", "cleanup"}, pc \in {"listSMS", "listStaged"} :
          job' = [job EXCEPT ![a] = Begin(op, pc)]
    BY <1>1 DEF Begins, RunNow, PreviewCleanup, Cleanup, BeginExclusive
  <2>2. ~running
    BY <1>1 DEF Begins, RunNow, PreviewCleanup, Cleanup, BeginExclusive
  <2>3. Begin(op, pc).pc = pc
    BY DEF Begin, Idle
  <2>4. ASSUME NEW b \in Actors PROVE job'[b].pc \notin Archiving
    <3>1. CASE b = a
      BY <2>1, <2>3, <3>1 DEF JobTypes, Archiving, Uploading
    <3>2. CASE b # a
      BY <2>1, <2>2, <3>2 DEF JobTypes, Exclusive, Archiving, Uploading
    <3> QED BY <3>1, <3>2
  <2> QED BY <2>4, ArchiveElsewhere DEF ArchiveInv
<1>2. ASSUME NEW a \in Actors, CleanupStep(a) PROVE ArchiveInv'
  <2>1. job[a].pc \notin Archiving /\ job[a].pc # "idle"
    BY <1>2, Zenon DEF CleanupStep, ListStaged, RecoverStaged, ReadRows, Collect, PreviewFails, StageRename, StageCheck,
       Restore, DeleteRecords, Discard, Archiving, Uploading
  <2>2. job[a] \in Jobs
    BY DEF JobTypes
  <2>3. \E j : job' = [job EXCEPT ![a] = j]
    BY <1>2, Zenon DEF CleanupStep, ListStaged, RecoverStaged, ReadRows, Collect, PreviewFails, StageRename, StageCheck,
       Restore, DeleteRecords, Discard, FinishCleanup, FinishPreview, Leave, Goto
  <2>4. job'[a].pc \notin Archiving
    <3> USE <1>0, <2>1, <2>2 DEF JobTypes, Jobs, FinishCleanup, FinishPreview, Leave, Goto, Archiving, Uploading
    <3>1. CASE ListStaged(a)
      <4>1. \E l, s : job' = [job EXCEPT ![a] = [job[a] EXCEPT !.pc = "recover", !.snap = s, !.left = l]]
        BY <3>1, Zenon DEF ListStaged
      <4> QED BY <4>1
    <3>8. CASE ReadRows(a)
      BY <3>8 DEF ReadRows
    <3>9. CASE PreviewFails(a)
      BY <3>9 DEF PreviewFails
    <3>6. CASE Collect(a)
      <4>1. \/ job' = [job EXCEPT ![a] = Idle]
            \/ \E p, l : job' = [job EXCEPT ![a] = [job[a] EXCEPT !.pc = "stage", !.preview = p, !.left = l, !.snap = None]]
        BY <3>6, ZenonT(40) DEF Collect
      <4> QED BY <4>1, ZenonT(40)
    <3>2. CASE RecoverStaged(a)
      BY <3>2, ZenonT(40) DEF RecoverStaged
    <3>3. CASE StageRename(a)
      <4>1. \/ \E l : job' = [job EXCEPT ![a].left = l]
            \/ \E l, i : job' = [job EXCEPT ![a] = [job[a] EXCEPT !.left = l, !.pc = "check", !.item = i]]
        BY <3>3, Zenon DEF StageRename
      <4> QED BY <4>1, ZenonT(40)
    <3>7. CASE StageCheck(a)
      <4>1. \/ \E m : job' = [job EXCEPT ![a] = [job[a] EXCEPT !.pc = "stage", !.mine = m, !.item = None]]
            \/ job' = [job EXCEPT ![a] = [job[a] EXCEPT !.pc = "restore", !.item = None]]
        BY <3>7, Zenon DEF StageCheck
      <4> QED BY <4>1, ZenonT(40)
    <3>4. CASE Restore(a) \/ Discard(a)
      BY <3>4 DEF Restore, Discard
    <3>5. CASE DeleteRecords(a)
      BY <3>5 DEF DeleteRecords
    <3> QED BY <1>2, <3>1, <3>2, <3>3, <3>4, <3>5, <3>6, <3>7, <3>8, <3>9 DEF CleanupStep
  <2>5. ArchiveAt(a)'
    BY <2>4, ArchiveElsewhere
  <2> QED BY <2>1, <2>3, <2>5, ArchiveOnly
<1>3. CASE Crash
  <2>1. \A b \in Actors : job'[b].pc = "idle"
    BY <1>0, <1>3 DEF Crash
  <2> QED BY <2>1, ArchiveElsewhere DEF ArchiveInv, Archiving, Uploading
<1>4. CASE ScheduledRefused \/ (\E c \in Configs : Configure(c)) \/ UNCHANGED vars
  <2>1. UNCHANGED <<world, job>>
    BY <1>4 DEF ScheduledRefused, Configure, Elsewhere, vars, world, disk
  <2> QED BY <2>1 DEF ArchiveInv, ArchiveAt, ItemOK, Live, world
<1> QED BY <1>1, <1>2, <1>3, <1>4, ArchiveRunStep, ArchiveOutside, Zenon DEF Next, Environment

-----------------------------------------------------------------------------
(* The cleanup in progress *)

Cleaning == {"listStaged", "recover", "collect"} \cup Aside

\* An operation outside preview and cleanup has nothing to keep.
LEMMA CleanupElsewhere ==
  ASSUME NEW a \in Actors, job'[a].pc \notin Cleaning
  PROVE  CleanupAt(a)'
BY DEF CleanupAt, Cleaning, Aside

\* What has to be shown of the operations is what the one that moved has to keep.
LEMMA CleanupOnly ==
  ASSUME Exclusive, JobTypes, NEW a \in Actors, job[a].pc # "idle", NEW j, job' = [job EXCEPT ![a] = j],
         CleanupAt(a)'
  PROVE  CleanupInv'
<1>1. ASSUME NEW b \in Actors, b # a PROVE CleanupAt(b)'
  <2>1. job'[b] = job[b] /\ job[b].pc = "idle"
    BY <1>1 DEF JobTypes, Exclusive
  <2>2. job'[b].pc = "idle"
    BY <2>1
  <2> QED BY <2>2, CleanupElsewhere DEF Cleaning, Aside
<1> QED BY <1>1 DEF CleanupInv

\* The steps of preview and recovery.
LEMMA CleanupPreviewStep ==
  ASSUME WorldTypes, JobTypes, Exclusive, CleanupInv, NEW a \in Actors,
         ListStaged(a) \/ RecoverStaged(a) \/ ReadRows(a) \/ Collect(a) \/ PreviewFails(a)
  PROVE  CleanupInv'
<1>0. job[a] \in Jobs /\ Fields(job[a]) /\ CleanupAt(a) /\ Idle.pc = "idle"
  BY DEF JobTypes, CleanupInv, Idle
<1>1. CASE job[a].pc # "idle" /\ job' = [job EXCEPT ![a] = Idle]
  <2>1. job'[a].pc = "idle"
    BY <1>0, <1>1, OthersIdle
  <2>2. CleanupAt(a)'
    BY <2>1, CleanupElsewhere DEF Cleaning, Aside
  <2> QED BY <1>1, <2>2, CleanupOnly
<1>2. CASE ListStaged(a)
  <2> DEFINE j == [job[a] EXCEPT !.pc = "recover", !.snap = Referenced, !.left = IF TouchesCalls(a) THEN staged ELSE {}]
  <2>1. job' = [job EXCEPT ![a] = j] /\ UNCHANGED staged /\ job[a].pc = "listStaged"
    BY <1>2 DEF ListStaged, world
  <2>2. /\ j.pc = "recover" /\ j.left = (IF TouchesCalls(a) THEN staged ELSE {})
        /\ j.mine = job[a].mine /\ j.settings = job[a].settings
    BY <1>0 DEF Jobs
  <2> HIDE DEF j
  <2>3. job'[a] = j
    BY <2>1, OthersIdle
  <2>4. TouchesCalls(a)' <=> TouchesCalls(a)
    BY <2>2, <2>3 DEF TouchesCalls
  <2>5. CleanupAt(a)'
    BY <1>0, <2>1, <2>2, <2>3, <2>4 DEF CleanupAt, Aside
  <2> QED BY <2>1, <2>5, CleanupOnly
<1>3. CASE RecoverStaged(a)
  <2>1. PICK e \in job[a].left : \/ job' = [job EXCEPT ![a] = Idle]
                                 \/ job' = [job EXCEPT ![a].left = @ \ {e}] /\ staged' = staged \ {e}
    BY <1>3 DEF RecoverStaged, FinishCleanup, Leave
  <2>2. job[a].pc = "recover"
    BY <1>3 DEF RecoverStaged
  <2>3. CASE job' = [job EXCEPT ![a].left = @ \ {e}] /\ staged' = staged \ {e}
    <3> DEFINE j == [job[a] EXCEPT !.left = @ \ {e}]
    <3>1. job' = [job EXCEPT ![a] = j]
      BY <2>3
    <3>2. j.pc = "recover" /\ j.left = job[a].left \ {e} /\ j.mine = job[a].mine /\ j.settings = job[a].settings
      BY <1>0, <2>2 DEF Jobs
    <3> HIDE DEF j
    <3>3. job'[a] = j
      BY <2>2, <3>1, OthersIdle
    <3>4. TouchesCalls(a)' <=> TouchesCalls(a)
      BY <3>2, <3>3 DEF TouchesCalls
    <3>5. CleanupAt(a)'
      BY <1>0, <2>2, <2>3, <3>2, <3>3, <3>4 DEF CleanupAt, Aside
    <3> QED BY <2>2, <3>1, <3>5, CleanupOnly
  <2> QED BY <1>1, <2>1, <2>2, <2>3
<1>4. CASE ReadRows(a)
  <2> DEFINE j == [job[a] EXCEPT !.pc = "collect", !.snap = rows]
  <2>1. job' = [job EXCEPT ![a] = j] /\ UNCHANGED <<staged, rows>> /\ job[a].pc = "recover" /\ job[a].left = {}
    BY <1>4 DEF ReadRows, world
  <2>2. j.pc = "collect" /\ j.snap = rows /\ j.mine = job[a].mine /\ j.settings = job[a].settings
    BY <1>0 DEF Jobs
  <2> HIDE DEF j
  <2>3. job'[a] = j
    BY <2>1, OthersIdle
  <2>4. TouchesCalls(a)' <=> TouchesCalls(a)
    BY <2>2, <2>3 DEF TouchesCalls
  <2>5. CleanupAt(a)'
    BY <1>0, <2>1, <2>2, <2>3, <2>4 DEF CleanupAt, Aside
  <2> QED BY <2>1, <2>5, CleanupOnly
<1>5. CASE Collect(a)
  <2> DEFINE q == Preview(job[a].settings, job[a].snap)
             Next1(p) == [job[a] EXCEPT !.pc = "stage", !.preview = p, !.left = p.recordings, !.snap = None]
  <2>1. /\ job' = [job EXCEPT ![a] = Idle] \/ job' = [job EXCEPT ![a] = Next1(q)]
        /\ job[a].pc = "collect" /\ UNCHANGED world
    BY <1>5 DEF Collect, FinishPreview, FinishCleanup, Leave
  <2>2. \A e \in q.rows : /\ Archived(e[1], e[2])
                          /\ e[1] \in RowIDs /\ (e[1] \notin SmsIDs => job[a].settings.calls)
    BY DEF Preview
  <2>3. \A e \in q.recordings : Archived(e[1], e[2]) /\ job[a].settings.recordings
    BY DEF Preview
  <2>4. \A e \in q.recordings : Live(e[1])
    <3> SUFFICES ASSUME NEW e \in q.recordings PROVE Live(e[1])
      OBVIOUS
    <3>1. PICK r \in RowIDs \ SmsIDs : job[a].snap[r].st = "old" /\ e[1] = RecordingName[r]
      BY DEF Preview
    <3>2. rows[r].st \notin {"absent", "purged"}
      BY <1>0, <2>1, <3>1 DEF CleanupAt
    <3> QED BY <3>1, <3>2 DEF Live, CallIDs
  <2>5. CASE job' = [job EXCEPT ![a] = Next1(q)]
    <3> PICK p : p = q
      OBVIOUS
    <3> DEFINE j == Next1(p)
    <3>1. job' = [job EXCEPT ![a] = j]
      BY <2>5
    <3>2. /\ j.pc = "stage" /\ j.preview = p /\ j.left = p.recordings
          /\ j.mine = job[a].mine /\ j.settings = job[a].settings
      BY <1>0 DEF Jobs
    <3> HIDE DEF Next1, j, q
    <3>3. job'[a] = j
      BY <2>1, <3>1, OthersIdle
    <3>4. TouchesCalls(a)' <=> TouchesCalls(a)
      BY <3>2, <3>3 DEF TouchesCalls
    <3>5. job[a].mine = {} /\ (TouchesCalls(a) => staged = {})
      BY <1>0, <2>1 DEF CleanupAt
    <3>6. ~TouchesCalls(a) => p.recordings = {} /\ \A e \in p.rows : e[1] \in SmsIDs
      BY <2>2, <2>3 DEF TouchesCalls
    <3>7. /\ \A e \in p.rows : Archived(e[1], e[2])'
          /\ \A e \in p.recordings : Archived(e[1], e[2])' /\ Live(e[1])'
      BY <2>1, <2>2, <2>3, <2>4 DEF Archived, Live, world
    <3>8. CleanupAt(a)'
      BY <2>1, <3>2, <3>3, <3>4, <3>5, <3>6, <3>7 DEF CleanupAt, Aside, world
    <3> QED BY <2>1, <3>1, <3>8, CleanupOnly
  <2> QED BY <1>1, <2>1, <2>5
<1>6. CASE PreviewFails(a)
  BY <1>1, <1>6 DEF PreviewFails, FinishCleanup, Leave
<1> QED BY <1>2, <1>3, <1>4, <1>5, <1>6

\* The steps of the cleanup proper.
LEMMA CleanupFilesStep ==
  ASSUME WorldTypes, JobTypes, Exclusive, CopyInv, CleanupInv, NEW a \in Actors,
         StageRename(a) \/ StageCheck(a) \/ Restore(a) \/ DeleteRecords(a) \/ Discard(a)
  PROVE  CleanupInv'
<1> USE RowFacts
<1>0. job[a] \in Jobs /\ Fields(job[a]) /\ CleanupAt(a) /\ Idle.pc = "idle" /\ job[a].pc # "idle"
  BY Zenon DEF JobTypes, CleanupInv, Idle, StageRename, StageCheck, Restore, DeleteRecords, Discard
<1>1. CASE job' = [job EXCEPT ![a] = Idle]
  <2>1. job'[a].pc = "idle"
    BY <1>0, <1>1, OthersIdle
  <2>2. CleanupAt(a)'
    BY <2>1, CleanupElsewhere DEF Cleaning, Aside
  <2> QED BY <1>0, <1>1, <2>2, CleanupOnly
<1>2. UNCHANGED ledger
  BY Zenon DEF StageRename, StageCheck, Restore, DeleteRecords, Discard, db
<1>3. CASE StageRename(a)
  <2> DEFINE Passed(e) == [job[a] EXCEPT !.left = @ \ {e}]
             Moved(e, c) == [job[a] EXCEPT !.left = @ \ {e}, !.pc = "check", !.item = [copy |-> c, sum |-> e[2]]]
  <2>1. PICK e \in job[a].left :
          \/ UNCHANGED <<files, staged>> /\ job' = [job EXCEPT ![a] = Passed(e)]
          \/ LET c == [name |-> e[1], content |-> files[e[1]]]
             IN  /\ files[e[1]] # 0 /\ files' = [files EXCEPT ![e[1]] = 0] /\ staged' = staged \cup {c}
                 /\ job' = [job EXCEPT ![a] = Moved(e, c)]
    BY <1>3, Zenon DEF StageRename
  <2>2. job[a].pc = "stage" /\ UNCHANGED rows
    BY <1>3, Zenon DEF StageRename, db
  <2>3. /\ \A copy \in job[a].mine : copy \in staged /\ files[copy.name] = 0 /\ Archived(copy.name, copy.content)
        /\ \A entry \in job[a].preview.rows : Archived(entry[1], entry[2])
        /\ ~TouchesCalls(a) => job[a].left = {} /\ \A entry \in job[a].preview.rows : entry[1] \in SmsIDs
        /\ \A entry \in job[a].left : Archived(entry[1], entry[2]) /\ Live(entry[1])
        /\ TouchesCalls(a) => staged = job[a].mine
    BY <1>0, <2>2 DEF CleanupAt, Aside
  <2>4. \A k : \A s : (Archived(k, s) => Archived(k, s)') /\ (Live(k) => Live(k)')
    BY <1>2, <2>2 DEF Archived, Live
  <2>5. CASE UNCHANGED <<files, staged>> /\ job' = [job EXCEPT ![a] = Passed(e)]
    <3> DEFINE j == Passed(e)
    <3>1. /\ j.pc = "stage" /\ j.left = job[a].left \ {e} /\ j.mine = job[a].mine
          /\ j.settings = job[a].settings /\ j.preview = job[a].preview
      BY <1>0, <2>2 DEF Jobs
    <3>2. job' = [job EXCEPT ![a] = j]
      BY <2>5
    <3> HIDE DEF j, Passed, Moved
    <3>3. job'[a] = j
      BY <1>0, <3>2, OthersIdle
    <3>4. TouchesCalls(a)' <=> TouchesCalls(a)
      BY <3>1, <3>3 DEF TouchesCalls
    <3>5. CleanupAt(a)'
      BY <2>3, <2>4, <2>5, <3>1, <3>3, <3>4 DEF CleanupAt, Aside
    <3> QED BY <1>0, <3>2, <3>5, CleanupOnly
  <2>6. ASSUME NEW c, c = [name |-> e[1], content |-> files[e[1]]], files[e[1]] # 0,
               files' = [files EXCEPT ![e[1]] = 0], staged' = staged \cup {c},
               job' = [job EXCEPT ![a] = Moved(e, c)]
        PROVE  CleanupInv'
    <3> DEFINE j == Moved(e, c)
    <3>1. /\ j.pc = "check" /\ j.left = job[a].left \ {e} /\ j.mine = job[a].mine
          /\ j.settings = job[a].settings /\ j.preview = job[a].preview
          /\ j.item = [copy |-> c, sum |-> e[2]]
      BY <1>0, <2>2 DEF Jobs
    <3>2. job' = [job EXCEPT ![a] = j] /\ j.item.copy = c /\ j.item.sum = e[2]
      BY <2>6, <3>1
    <3> HIDE DEF j, Passed, Moved
    <3>3. job'[a] = j
      BY <1>0, <3>2, OthersIdle
    <3>4. TouchesCalls(a)' <=> TouchesCalls(a)
      BY <3>1, <3>3 DEF TouchesCalls
    <3>5. TouchesCalls(a) /\ staged = job[a].mine /\ c.name = e[1] /\ Archived(e[1], e[2])
      BY <2>3, <2>6
    <3>6. e[1] \in Recordings
      BY <1>0, <2>2 DEF Fields
    <3>7. files'[c.name] = 0 /\ \A n \in Recordings : files[n] = 0 => files'[n] = 0
      BY <2>6, <3>5, <3>6 DEF WorldTypes
    <3>8. \A copy \in job[a].mine : copy.name # c.name /\ copy \in staged' /\ files'[copy.name] = 0
      BY <2>3, <2>6, <3>5, <3>7
    <3>9. CleanupAt(a)'
      BY <2>3, <2>4, <2>6, <3>1, <3>2, <3>3, <3>4, <3>5, <3>7, <3>8 DEF CleanupAt, Aside
    <3> QED BY <1>0, <3>2, <3>9, CleanupOnly
  <2> QED BY <2>1, <2>5, <2>6, Zenon
<1>4. CASE StageCheck(a)
  <2> PICK copy : copy = job[a].item.copy
    OBVIOUS
  <2> DEFINE Kept == [job[a] EXCEPT !.pc = "stage", !.mine = @ \cup {copy}, !.item = None]
             Gone == [job[a] EXCEPT !.pc = "restore", !.item = None]
  <2>1. /\ job[a].pc = "check" /\ UNCHANGED rows
        /\ \/ copy.content = job[a].item.sum /\ job' = [job EXCEPT ![a] = Kept] /\ UNCHANGED <<files, staged>>
           \/ job' = [job EXCEPT ![a] = Gone] /\ PutBack(copy)
    BY <1>4 DEF StageCheck, db
  <2>2. /\ \A c \in job[a].mine : c \in staged /\ files[c.name] = 0 /\ Archived(c.name, c.content)
        /\ \A entry \in job[a].preview.rows : Archived(entry[1], entry[2])
        /\ ~TouchesCalls(a) => job[a].left = {} /\ \A entry \in job[a].preview.rows : entry[1] \in SmsIDs
        /\ \A entry \in job[a].left : Archived(entry[1], entry[2]) /\ Live(entry[1])
        /\ TouchesCalls(a) /\ staged = job[a].mine \cup {copy}
        /\ \A c \in job[a].mine : c.name # copy.name
        /\ files[copy.name] = 0 /\ Archived(copy.name, job[a].item.sum)
    BY <1>0, <2>1 DEF CleanupAt, Aside
  <2>3. \A k : \A s : (Archived(k, s) => Archived(k, s)') /\ (Live(k) => Live(k)')
    BY <1>2, <2>1 DEF Archived, Live
  <2>4. CASE copy.content = job[a].item.sum /\ job' = [job EXCEPT ![a] = Kept] /\ UNCHANGED <<files, staged>>
    <3> DEFINE j == Kept
    <3>1. /\ j.pc = "stage" /\ j.left = job[a].left /\ j.mine = job[a].mine \cup {copy}
          /\ j.settings = job[a].settings /\ j.preview = job[a].preview
      BY <1>0, <2>1 DEF Jobs
    <3>2. job' = [job EXCEPT ![a] = j]
      BY <2>4
    <3> HIDE DEF j, Kept, Gone
    <3>3. job'[a] = j
      BY <1>0, <3>2, OthersIdle
    <3>4. TouchesCalls(a)' <=> TouchesCalls(a)
      BY <3>1, <3>3 DEF TouchesCalls
    <3>5. CleanupAt(a)'
      BY <2>2, <2>3, <2>4, <3>1, <3>3, <3>4 DEF CleanupAt, Aside
    <3> QED BY <1>0, <3>2, <3>5, CleanupOnly
  <2>5. CASE job' = [job EXCEPT ![a] = Gone] /\ PutBack(copy)
    <3> DEFINE j == Gone
    <3>1. j.pc = "restore" /\ j.mine = job[a].mine
      BY <1>0, <2>1 DEF Jobs
    <3>2. job' = [job EXCEPT ![a] = j]
      BY <2>5
    <3> HIDE DEF j, Kept, Gone
    <3>3. job'[a] = j
      BY <1>0, <3>2, OthersIdle
    <3>4. \A c \in job[a].mine : c \in staged' /\ files'[c.name] = 0
      BY <2>2, <2>5 DEF PutBack, WorldTypes
    <3>5. CleanupAt(a)'
      BY <2>2, <2>3, <3>1, <3>3, <3>4 DEF CleanupAt, Aside
    <3> QED BY <1>0, <3>2, <3>5, CleanupOnly
  <2> QED BY <2>1, <2>4, <2>5
<1>5. CASE Restore(a) \/ Discard(a)
  <2> DEFINE Less(c) == [job[a] EXCEPT !.mine = @ \ {c}]
  <2>1. /\ job[a].pc \in {"restore", "discard"} /\ UNCHANGED rows
        /\ \/ job' = [job EXCEPT ![a] = Idle]
           \/ \E c \in job[a].mine : /\ job' = [job EXCEPT ![a] = Less(c)]
                                     /\ PutBack(c) \/ (staged' = staged \ {c} /\ UNCHANGED files)
    BY <1>5 DEF Restore, Discard, FinishCleanup, Leave, db
  <2>2. \A c \in job[a].mine : c \in staged /\ files[c.name] = 0 /\ Archived(c.name, c.content)
    BY <1>0, <2>1 DEF CleanupAt, Aside
  <2>3. \A k : \A s : (Archived(k, s) => Archived(k, s)')
    BY <1>2 DEF Archived
  <2>4. ASSUME NEW c \in job[a].mine, job' = [job EXCEPT ![a] = Less(c)],
               PutBack(c) \/ (staged' = staged \ {c} /\ UNCHANGED files)
        PROVE  CleanupInv'
    <3> DEFINE j == Less(c)
    <3>1. j.pc = job[a].pc /\ j.mine = job[a].mine \ {c}
      BY <1>0 DEF Jobs
    <3>2. job' = [job EXCEPT ![a] = j]
      BY <2>4
    <3> HIDE DEF j, Less
    <3>3. job'[a] = j
      BY <1>0, <3>2, OthersIdle
    <3>4. ASSUME NEW d \in job[a].mine, d # c PROVE d.name # c.name
      <4>1. c \in Copies /\ d \in Copies /\ c.content = latest[c.name] /\ d.content = latest[d.name]
        BY <2>2, <3>4 DEF WorldTypes, CopyInv, CopyOK
      <4> QED BY <3>4, <4>1 DEF Copies
    <3>5. \A d \in j.mine : d \in staged' /\ files'[d.name] = 0
      BY <2>2, <2>4, <3>1, <3>4 DEF PutBack, WorldTypes
    <3>6. CleanupAt(a)'
      BY <2>1, <2>2, <2>3, <3>1, <3>3, <3>5 DEF CleanupAt, Aside
    <3> QED BY <1>0, <3>2, <3>6, CleanupOnly
  <2> QED BY <1>1, <2>1, <2>4
<1>6. CASE DeleteRecords(a)
  <2> DEFINE At(p) == [job[a] EXCEPT !.pc = p]
  <2>1. PICK p \in {"discard", "restore"} : job' = [job EXCEPT ![a] = At(p)]
    BY <1>6 DEF DeleteRecords, Goto
  <2>2. job[a].pc = "stage" /\ UNCHANGED <<files, staged>>
    BY <1>6 DEF DeleteRecords, disk
  <2> DEFINE j == At(p)
  <2>3. j.pc = p /\ j.mine = job[a].mine /\ job' = [job EXCEPT ![a] = j]
    BY <1>0, <2>1 DEF Jobs
  <2> HIDE DEF j, At
  <2>4. job'[a] = j
    BY <1>0, <2>3, OthersIdle
  <2>5. CleanupAt(a)'
    BY <1>0, <1>2, <2>1, <2>2, <2>3, <2>4 DEF CleanupAt, Aside, Archived
  <2> QED BY <1>0, <2>3, <2>5, CleanupOnly
<1> QED BY <1>3, <1>4, <1>5, <1>6

\* What changes outside leaves the files a cleanup has aside, and their rows, as they were.
LEMMA CleanupOutside ==
  ASSUME WorldTypes, JobTypes, Exclusive, RecordingInv, CleanupInv,
         \/ \E r \in RowIDs : NewRow(r) \/ RowChanges(r)
         \/ \E n \in Recordings : FileChanges(n)
  PROVE  CleanupInv'
<1> USE RowFacts
<1>1. UNCHANGED <<ledger, staged, job, running>>
  BY DEF NewRow, RowChanges, FileChanges, Elsewhere, disk
<1>2. \A r \in RowIDs : rows'[r].st \in {"absent", "purged"} => rows'[r].st = rows[r].st
  <2>1. ASSUME NEW r \in RowIDs, NewRow(r)
        PROVE  \A q \in RowIDs : rows'[q].st \in {"absent", "purged"} => rows'[q].st = rows[q].st
    BY <2>1 DEF NewRow, WorldTypes, RowTable
  <2>2. ASSUME NEW r \in RowIDs, RowChanges(r)
        PROVE  \A q \in RowIDs : rows'[q].st \in {"absent", "purged"} => rows'[q].st = rows[q].st
    BY <2>2 DEF RowChanges, WorldTypes, RowTable
  <2>3. ASSUME NEW n \in Recordings, FileChanges(n) PROVE UNCHANGED rows
    BY <2>3 DEF FileChanges
  <2> QED BY <2>1, <2>2, <2>3
<1>3. \A n : Live(n) => Live(n)'
  BY <1>2 DEF Live, CallIDs
<1>4. \A k : \A s : Archived(k, s) => Archived(k, s)'
  BY <1>1 DEF Archived
<1>5. ASSUME NEW copy \in staged, files[copy.name] = 0, running PROVE files'[copy.name] = 0
  <2> DEFINE n == copy.name
  <2>0. n \in Recordings /\ latest[n] # 0
    BY DEF RecordingInv, FileOK
  <2>1. ASSUME NEW r \in RowIDs, NewRow(r) PROVE files'[n] = 0
    <3>1. CASE UNCHANGED files
      BY <1>5, <3>1
    <3>2. CASE ~ UNCHANGED files
      <4>1. /\ \A q \in CallIDs : RecordingName[q] = RecordingName[r] => rows[q].st = "absent"
            /\ files' = [files EXCEPT ![RecordingName[r]] = 1]
        BY <2>1, <3>2 DEF NewRow
      <4>2. n # RecordingName[r]
        BY <2>0, <4>1 DEF RecordingInv, UnknownOK
      <4> QED BY <1>5, <2>0, <4>1, <4>2 DEF WorldTypes
    <3> QED BY <3>1, <3>2
  <2>2. ASSUME NEW r \in RowIDs, RowChanges(r) PROVE files'[n] = 0
    BY <1>5, <2>2 DEF RowChanges, disk
  <2>3. ASSUME NEW m \in Recordings, FileChanges(m) PROVE files'[n] = 0
    BY <1>5, <2>0, <2>3 DEF FileChanges, WorldTypes
  <2> QED BY <2>1, <2>2, <2>3
<1>6. ASSUME NEW a \in Actors PROVE CleanupAt(a)'
  <2>1. CASE job[a].pc \notin Cleaning
    BY <1>1, <2>1, CleanupElsewhere
  <2>2. CASE job[a].pc \in Cleaning
    <3>1. running /\ CleanupAt(a) /\ (TouchesCalls(a)' <=> TouchesCalls(a))
      BY <1>1, <2>2 DEF Exclusive, CleanupInv, Cleaning, Aside, TouchesCalls
    <3>2. job[a].pc = "check" => job[a].item.copy \in staged /\ files[job[a].item.copy.name] = 0
      BY <3>1 DEF CleanupAt
    <3>3. job[a].pc = "check" => files'[job[a].item.copy.name] = 0
      BY <1>5, <3>1, <3>2
    <3>4. job[a].pc \in Aside => \A copy \in job[a].mine : files'[copy.name] = 0
      BY <1>5, <3>1 DEF CleanupAt
    <3> QED BY <1>1, <1>2, <1>3, <1>4, <3>1, <3>3, <3>4 DEF CleanupAt, Aside
  <2> QED BY <2>1, <2>2
<1> QED BY <1>6 DEF CleanupInv

\* Every step keeps the bookkeeping of preview and cleanup.
LEMMA CleanupInvStep ==
  ASSUME WorldTypes, JobTypes, Exclusive, RecordingInv, CopyInv, CleanupInv, [Next]_vars
  PROVE  CleanupInv'
<1>0. Idle.pc = "idle"
  BY DEF Idle
<1>1. ASSUME NEW a \in Actors, Begins(a) PROVE CleanupInv'
  <2>1. PICK op \in {"archive", "preview", "cleanup"}, pc \in {"listSMS", "listStaged"} :
          job' = [job EXCEPT ![a] = Begin(op, pc)]
    BY <1>1 DEF Begins, RunNow, PreviewCleanup, Cleanup, BeginExclusive
  <2>2. ~running
    BY <1>1 DEF Begins, RunNow, PreviewCleanup, Cleanup, BeginExclusive
  <2>3. Begin(op, pc).pc = pc /\ Begin(op, pc).mine = {}
    BY DEF Begin, Idle
  <2>4. ASSUME NEW b \in Actors PROVE CleanupAt(b)'
    <3>1. CASE b = a
      <4>1. job'[b] = Begin(op, pc)
        BY <2>1, <3>1 DEF JobTypes
      <4> QED BY <2>3, <4>1 DEF CleanupAt, Aside
    <3>2. CASE b # a
      <4>1. job'[b] = job[b] /\ job[b].pc = "idle"
        BY <2>1, <2>2, <3>2 DEF JobTypes, Exclusive
      <4> QED BY <4>1 DEF CleanupAt, Aside
    <3> QED BY <3>1, <3>2
  <2> QED BY <2>4 DEF CleanupInv
<1>2. ASSUME NEW a \in Actors, ArchiveStep(a) PROVE CleanupInv'
  <2>1. job[a].pc \notin Cleaning /\ job[a].pc # "idle"
    BY <1>2, Zenon DEF ArchiveStep, ListSMS, ListCalls, NextItem, SkipItem, Upload, UploadFails, VerifyFile, UpsertObject,
       RunDone, RunFails, Cleaning, Aside
  <2>2. job[a] \in Jobs
    BY DEF JobTypes
  <2>3. \E j : job' = [job EXCEPT ![a] = j]
    BY <1>2, Zenon DEF ArchiveStep, ListSMS, ListCalls, NextItem, SkipItem, Upload, UploadFails, VerifyFile, UpsertObject,
       RunDone, RunFails, FinishRun, Leave, Goto
  <2>4. job'[a].pc \notin Cleaning
    <3> USE <1>0, <2>1, <2>2 DEF JobTypes, Jobs, FinishRun, Leave, Goto, Cleaning, Aside
    <3>1. CASE ListSMS(a)
      <4>1. \E t : job' = [job EXCEPT ![a] = [job[a] EXCEPT !.pc = "next", !.phase = 1, !.todo = t]]
        BY <3>1, Zenon DEF ListSMS
      <4> QED BY <4>1
    <3>2. CASE ListCalls(a)
      <4>1. \E t : job' = [job EXCEPT ![a] = [job[a] EXCEPT !.phase = 2, !.todo = t]]
        BY <3>2, Zenon DEF ListCalls
      <4> QED BY <4>1
    <3>3. CASE NextItem(a)
      <4>1. \/ job' = [job EXCEPT ![a] = Idle]
            \/ \E i, t : job' = [job EXCEPT ![a] = [job[a] EXCEPT !.pc = "put", !.item = i, !.todo = t]]
        BY <3>3, Zenon DEF NextItem
      <4> QED BY <4>1, ZenonT(40)
    <3>4. CASE SkipItem(a) \/ UpsertObject(a)
      BY <3>4, ZenonT(40) DEF SkipItem, UpsertObject
    <3>5. CASE Upload(a) \/ VerifyFile(a)
      BY <3>5 DEF Upload, VerifyFile
    <3>6. CASE UploadFails(a) \/ RunDone(a) \/ RunFails(a)
      BY <3>6 DEF UploadFails, RunDone, RunFails
    <3> QED BY <1>2, <3>1, <3>2, <3>3, <3>4, <3>5, <3>6 DEF ArchiveStep
  <2>5. CleanupAt(a)'
    BY <2>4, CleanupElsewhere
  <2> QED BY <2>1, <2>3, <2>5, CleanupOnly
<1>3. CASE Crash
  <2>1. \A b \in Actors : job'[b].pc = "idle"
    BY <1>0, <1>3 DEF Crash
  <2> QED BY <2>1, CleanupElsewhere DEF CleanupInv, Cleaning, Aside
<1>4. CASE ScheduledRefused \/ (\E c \in Configs : Configure(c)) \/ UNCHANGED vars
  <2>1. UNCHANGED <<world, job>>
    BY <1>4 DEF ScheduledRefused, Configure, Elsewhere, vars, world, disk
  <2> QED BY <2>1 DEF CleanupInv, CleanupAt, TouchesCalls, Archived, Live, world
<1> QED BY <1>1, <1>2, <1>3, <1>4, CleanupPreviewStep, CleanupFilesStep, CleanupOutside, Zenon
       DEF Next, Environment, CleanupStep

-----------------------------------------------------------------------------
(* The theorems *)

\* Before anything happened there is nothing to keep.
LEMMA ArchiveInit == Init => ArchiveOK
<1> SUFFICES ASSUME Init PROVE ArchiveOK
  OBVIOUS
<1> USE BoundAssumption, RowAssumption, PathFacts
<1>1. 1 \in Contents
  BY DEF Contents
<1>2. PICK S \in InitialRows : rows = [r \in RowIDs |-> [st |-> IF r \in S THEN "old" ELSE "absent", content |-> 1]]
  BY DEF Init
<1>3. rows \in RowTable
  BY <1>1, <1>2 DEF RowTable, RowStates
<1>4. latest \in [Recordings -> Contents \cup {0}] /\ files = latest
  BY <1>1 DEF Init
<1>5. WorldTypes
  BY <1>3, <1>4 DEF Init, WorldTypes
<1>6. JobTypes
  BY IdleJob DEF Init, JobTypes
<1>7. ManagerTypes
  BY DEF Init, ManagerTypes
<1>8. \A a \in Actors : job[a].pc = "idle"
  BY DEF Init, Idle
<1>9. Exclusive /\ ArchiveInv /\ CleanupInv
  BY <1>8 DEF Exclusive, ArchiveInv, ArchiveAt, CleanupInv, CleanupAt, Archiving, Uploading, Aside
<1>10. RowInv
  BY <1>2 DEF Init, RowInv, RowOK
<1>11. RecordingInv /\ CopyInv
  <2>1. ASSUME NEW n \in Recordings PROVE UnknownOK(n) /\ FileOK(n) /\ Safe(n) /\ EntryOK(n)
    <3>1. UnknownOK(n)
      BY DEF Init, UnknownOK, OnFile
    <3> QED BY <1>4, <3>1 DEF Init, FileOK, Safe, EntryOK
  <2> QED BY <2>1 DEF Init, RecordingInv, CopyInv
<1> QED BY <1>5, <1>6, <1>7, <1>9, <1>10, <1>11 DEF ArchiveOK

\* The inductive invariant: types, one operation at a time, what the ledger says, where
\* the newest content of every recording is, and what the operation in progress relies on.
THEOREM ArchiveInvariant == Spec => []ArchiveOK
<1>1. ArchiveOK /\ [Next]_vars => ArchiveOK'
  BY WorldTypesStep, JobTypesStep, ManagerTypesStep, ExclusiveStep, RowStep, RecordingStep, ArchiveInvStep,
     CleanupInvStep DEF ArchiveOK
<1> QED BY <1>1, ArchiveInit, PTL DEF Spec

\* The database, the disk, the remote and the manager's fields keep their types.
THEOREM ArchiveTypeOK == Spec => []TypeOK
<1>1. Spec => [](running \in BOOLEAN)
  <2>1. Init => running \in BOOLEAN
    BY DEF Init
  <2>2. ASSUME running \in BOOLEAN, [Next]_vars PROVE (running \in BOOLEAN)'
    <3>1. ASSUME NEW a \in Actors, Begins(a) PROVE running' = TRUE
      BY <3>1 DEF Begins, RunNow, PreviewCleanup, Cleanup, BeginExclusive
    <3>2. ASSUME NEW a \in Actors, ArchiveStep(a) PROVE running' = running \/ running' = FALSE
      BY <3>2, Zenon DEF ArchiveStep, ListSMS, ListCalls, NextItem, SkipItem, Upload, UploadFails, VerifyFile, UpsertObject,
         RunDone, RunFails, FinishRun, Leave, Stay
    <3>3. ASSUME NEW a \in Actors, CleanupStep(a) PROVE running' = running \/ running' = FALSE
      BY <3>3, Zenon DEF CleanupStep, ListStaged, RecoverStaged, ReadRows, Collect, PreviewFails, StageRename, StageCheck,
         Restore, DeleteRecords, Discard, FinishCleanup, FinishPreview, Leave, Stay
    <3>4. ASSUME ScheduledRefused \/ Environment \/ UNCHANGED vars PROVE running' = running \/ running' = FALSE
      BY <3>4 DEF ScheduledRefused, Environment, NewRow, RowChanges, FileChanges, Configure, Elsewhere, Crash, vars
    <3> QED BY <2>2, <3>1, <3>2, <3>3, <3>4, Zenon DEF Next
  <2> QED BY <2>1, <2>2, PTL DEF Spec
<1>2. ArchiveOK /\ running \in BOOLEAN => TypeOK
  BY DEF ArchiveOK, WorldTypes, JobTypes, ManagerTypes, TypeOK, RowTable, Jobs, MineType
<1> QED BY <1>1, <1>2, ArchiveInvariant, PTL

\* A row deleted by a cleanup is on the remote with the content it had: the transaction of
\* DeleteRecords deletes only rows whose ledger entry matches, and such entries are true.
THEOREM ArchiveRowSurvives == Spec => []RowSurvives
<1>1. ArchiveOK => RowSurvives
  BY DEF ArchiveOK, RowInv, RowOK, RowSurvives
<1> QED BY <1>1, ArchiveInvariant, PTL

\* The newest content of every recording is under its name, aside, or on the remote,
\* wherever a crash, a rewrite or a failed step of stageRecordingFiles comes between.
THEOREM ArchiveRecordingSurvives == Spec => []RecordingSurvives
<1>1. ArchiveOK => RecordingSurvives
  <2> SUFFICES ASSUME ArchiveOK, NEW n \in Recordings, latest[n] # 0, Archived(n, latest[n])
               PROVE  \E r \in CallIDs : remote[<<n, r>>] = latest[n]
    BY DEF ArchiveOK, RecordingInv, Safe, RecordingSurvives
  <2>1. ledger[n].path \in {n} \X CallIDs /\ remote[ledger[n].path] = latest[n]
    BY RowFacts DEF ArchiveOK, RecordingInv, EntryOK, Archived
  <2> QED BY <2>1
<1> QED BY <1>1, ArchiveInvariant, PTL

\* A ledger entry that matches the present content is true of the remote, also after an
\* upload that reported an error or a recording that was rewritten while it was sent.
THEOREM ArchiveLedgerHonest == Spec => []LedgerHonest
<1>1. ArchiveOK => LedgerHonest
  <2> SUFFICES ASSUME ArchiveOK PROVE LedgerHonest
    OBVIOUS
  <2>1. ASSUME NEW r \in RowIDs, Archived(r, rows[r].content) PROVE remote[ledger[r].path] = rows[r].content
    <3>1. ledger[r].path = <<r, r>>
      BY <2>1, PathFacts DEF ArchiveOK, WorldTypes, Archived
    <3> QED BY <2>1, <3>1 DEF ArchiveOK, RowInv, RowOK, Archived
  <2>2. ASSUME NEW n \in Recordings, Archived(n, latest[n]) PROVE remote[ledger[n].path] = latest[n]
    <3>1. latest[n] # 0
      BY <2>2, RowFacts DEF ArchiveOK, Archived
    <3> QED BY <2>2, <3>1 DEF ArchiveOK, RecordingInv, EntryOK, Archived
  <2> QED BY <2>1, <2>2 DEF LedgerHonest
<1> QED BY <1>1, ArchiveInvariant, PTL

\* A file that a crash or an error left aside is archived or named by a row no cleanup
\* deleted, so recoverStagedRecording can tell what to do with it.
THEOREM ArchiveStagedRecoverable == Spec => []StagedRecoverable
<1>1. ArchiveOK => StagedRecoverable
  BY DEF ArchiveOK, CopyInv, CopyOK, Live, StagedRecoverable
<1> QED BY <1>1, ArchiveInvariant, PTL

=============================================================================
