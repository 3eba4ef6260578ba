--------------------------- MODULE WebdavArchive ---------------------------
(***************************************************************************)
(* The WebDAV archive: internal/webdavarchive/{manager,service,cleanup,    *)
(* cleanup_files,cleanup_token,database_store}.go.                         *)
(*                                                                         *)
(* An archive run uploads every SMS, call row and recording whose content  *)
(* the ledger does not know yet.  A cleanup deletes what is past its       *)
(* retention and known to the ledger: it renames the recordings aside,     *)
(* deletes the rows in one transaction and then removes the renamed files. *)
(* The process may crash between any two of these steps, rows and files    *)
(* change under the operation, and the remote, the database and the file   *)
(* system may fail.                                                        *)
(*                                                                         *)
(* A content (and its checksum) is a number that grows with every change:  *)
(* no row of the database returns to an earlier content.                   *)
(***************************************************************************)
EXTENDS Naturals

CONSTANTS Loop,          \* the scheduler's goroutine (Manager.loop)
          ApiCallers,    \* HTTP handlers calling the manager
          RowIDs,        \* ids of SMS and call rows, in "id asc" order
          SmsIDs,        \* those of RowIDs that are SMS
          Recordings,    \* names of recording files
          RecordingName, \* the recording a call row names, or None
          Configs,       \* content settings the user may choose
          InitialRows,   \* sets of rows the database may start with
          MaxContent,    \* bound: contents a row or recording goes through
          MaxEvents,     \* bound: changes made from outside, crashes included
          None

ASSUME RowAssumption ==
    /\ RowIDs \subseteq Nat
    /\ SmsIDs \subseteq RowIDs
    /\ InitialRows \subseteq SUBSET RowIDs
    /\ RecordingName \in [RowIDs \ SmsIDs -> Recordings \cup {None}]
    /\ RowIDs \cap Recordings = {}
    /\ None \notin RowIDs \cup Recordings \cup {Loop} \cup ApiCallers

ASSUME BoundAssumption == MaxContent \in Nat \ {0} /\ MaxEvents \in Nat

ASSUME ConfigAssumption ==
    Configs \subseteq [sms : BOOLEAN, calls : BOOLEAN, recordings : BOOLEAN, auto : BOOLEAN]

Actors == {Loop} \cup ApiCallers
Keys == RowIDs \cup Recordings
CallIDs == RowIDs \ SmsIDs

\* datedRemotePath: an object is filed by its key and the month of a row.
Paths == {<<r, r>> : r \in RowIDs} \cup (Recordings \X CallIDs)

ASSUME NoneAssumption == \A s \in 1 .. MaxContent, p \in Paths : [sum |-> s, path |-> p] # None

VARIABLES
    rows,      \* database rows: [st, content]
    files,     \* content of the file under its own name, 0 when there is none
    staged,    \* files renamed aside: set of [name, content]
    latest,    \* the newest content the recording ever had
    ledger,    \* archive_objects: per key [sum, path], or None
    remote,    \* content stored under <<key, row whose month is in the path>>
    config,    \* Manager.config
    running,   \* Manager.status.Running
    lastError, \* Manager.status.LastError: the missing recording it names, or None
    token,     \* per actor, the preview its token stands for, or None
    want,      \* what runScheduled does next
    job,       \* per actor, the operation it is in
    events     \* outside changes so far

db == <<rows, ledger>>
disk == <<files, staged, latest>>
world == <<rows, files, staged, latest, ledger, remote>>
vars == <<world, config, running, lastError, token, want, job, events>>

RowStates == {"absent", "current", "old", "purged", "deleted"}
OnFile(r) == rows[r].st \in {"current", "old"}

Idle == [op |-> "idle", pc |-> "idle", settings |-> None, phase |-> 0, todo |-> {},
         item |-> None, snap |-> None, preview |-> None, mine |-> {}, left |-> {}]

Begin(op, pc) ==
    [Idle EXCEPT !.op = op, !.pc = pc, !.settings = config]

(* ---------------------------------------------------------------------- *)
(* Manager: one operation at a time                                        *)
(* ---------------------------------------------------------------------- *)

\* beginExclusive: refuse while another operation runs, else take the flag and
\* copy the configuration.  The scheduler asks in the order of runScheduled;
\* an HTTP handler asks for anything.
BeginExclusive(a, op, pc) ==
    /\ job[a].pc = "idle"
    /\ a = Loop => want = op
    /\ ~running
    /\ running' = TRUE
    /\ job' = [job EXCEPT ![a] = Begin(op, pc)]
    /\ UNCHANGED <<world, config, lastError, token, want, events>>

RunNow(a) == BeginExclusive(a, "archive", "listSMS")

PreviewCleanup(a) == BeginExclusive(a, "preview", "listStaged")

Cleanup(a) == token[a] # None /\ BeginExclusive(a, "cleanup", "listStaged")

\* ErrRunInProgress sends runScheduled back to waiting.
ScheduledRefused ==
    /\ job[Loop].pc = "idle" /\ running /\ want # "archive"
    /\ want' = "archive"
    /\ token' = [token EXCEPT ![Loop] = None]
    /\ UNCHANGED <<world, config, running, lastError, job, events>>

\* runScheduled: a successful run is followed, if AutoCleanup, by a preview and
\* a successful preview by the cleanup it allows; anything else ends the round.
NextScheduled(op, ok) ==
    CASE ok /\ op = "archive" /\ config.auto -> "preview"
      [] ok /\ op = "preview" -> "cleanup"
      [] OTHER -> "archive"

\* The scheduler's token does not outlive its round; a browser keeps its own.
Leave(a, ok) ==
    /\ running' = FALSE
    /\ job' = [job EXCEPT ![a] = Idle]
    /\ token' = [token EXCEPT ![a] = IF a = Loop THEN None ELSE @]
    /\ want' = IF a = Loop THEN NextScheduled(job[a].op, ok) ELSE want

\* finishRun reports the error; finishCleanup leaves the archive's status alone.
FinishRun(a, error) ==
    Leave(a, error = None) /\ lastError' = IF error \in Recordings THEN error ELSE None
FinishCleanup(a, ok) == Leave(a, ok) /\ UNCHANGED lastError

\* PreviewCleanup returns the preview and, in it, its token.
FinishPreview(a, preview) ==
    /\ running' = FALSE
    /\ job' = [job EXCEPT ![a] = Idle]
    /\ token' = [token EXCEPT ![a] = preview]
    /\ want' = IF a = Loop THEN NextScheduled("preview", TRUE) ELSE want
    /\ UNCHANGED lastError

Goto(a, pc) == job' = [job EXCEPT ![a].pc = pc]
Stay == UNCHANGED <<running, lastError, token, want>>

(* ---------------------------------------------------------------------- *)
(* Service.Run: archive what the ledger does not know                      *)
(* ---------------------------------------------------------------------- *)

RowItem(r) == [key |-> r, sum |-> rows[r].content, path |-> <<r, r>>]
RowItems(S) == {RowItem(r) : r \in S}

\* archiveRecordings: one item per distinct name, filed under the month of the
\* first row that names it; its checksum is taken when its turn comes.
RecordingItems ==
    LET First == {r \in CallIDs : /\ OnFile(r) /\ RecordingName[r] # None
                                  /\ \A q \in CallIDs : OnFile(q) /\ RecordingName[q] = RecordingName[r] => r <= q}
    IN  {[key |-> RecordingName[r], sum |-> 0, path |-> <<RecordingName[r], r>>] : r \in First}

\* The lists are read "id asc"; recordings come after the rows that name them.
Precedes(x, y) ==
    \/ x.key \notin Recordings /\ y.key \in Recordings
    \/ (x.key \in Recordings <=> y.key \in Recordings) /\ x.path[2] < y.path[2]

ListSMS(a) ==
    /\ job[a].pc = "listSMS"
    /\ job' = [job EXCEPT ![a] = [job[a] EXCEPT !.pc = "next", !.phase = 1,
                                                !.todo = IF job[a].settings.sms
                                                         THEN RowItems({r \in SmsIDs : OnFile(r)}) ELSE {}]]
    /\ Stay /\ UNCHANGED <<world, config, events>>

ListCalls(a) ==
    /\ job[a].pc = "next" /\ job[a].phase = 1 /\ job[a].todo = {}
    /\ job' = [job EXCEPT ![a] = [job[a] EXCEPT !.phase = 2,
                                                !.todo = (IF job[a].settings.calls
                                                          THEN RowItems({r \in CallIDs : OnFile(r)}) ELSE {})
                                                         \cup (IF job[a].settings.recordings
                                                               THEN RecordingItems ELSE {})]]
    /\ Stay /\ UNCHANGED <<world, config, events>>

\* The first of the list becomes the item; recordingItem hashes the file, and a
\* missing file fails the whole run.
NextItem(a) ==
    /\ job[a].pc = "next"
    /\ \E item \in job[a].todo :
        /\ \A other \in job[a].todo \ {item} : Precedes(item, other)
        /\ LET fresh == IF item.key \in Recordings THEN [item EXCEPT !.sum = files[item.key]] ELSE item
           IN  IF fresh.sum = 0
               THEN FinishRun(a, item.key)
               ELSE /\ job' = [job EXCEPT ![a] = [job[a] EXCEPT !.pc = "put", !.item = fresh, !.todo = @ \ {item}]]
                    /\ Stay
    /\ UNCHANGED <<world, config, events>>

\* archiveItem: the ledger already has this content at this path.
Unchanged(item) ==
    ledger[item.key] # None /\ ledger[item.key].sum = item.sum /\ ledger[item.key].path = item.path

SkipItem(a) ==
    /\ job[a].pc = "put" /\ Unchanged(job[a].item)
    /\ job' = [job EXCEPT ![a] = [job[a] EXCEPT !.pc = "next", !.item = None]]
    /\ Stay /\ UNCHANGED <<world, config, events>>

\* What a Put sends: the encoded row, or the file as it is now.
Sent(item) == IF item.key \in Recordings THEN files[item.key] ELSE item.sum

Upload(a) ==
    /\ job[a].pc = "put" /\ ~Unchanged(job[a].item) /\ Sent(job[a].item) # 0
    /\ remote' = [remote EXCEPT ![job[a].item.path] = Sent(job[a].item)]
    /\ Goto(a, IF job[a].item.key \in Recordings THEN "verify" ELSE "upsert")
    /\ Stay /\ UNCHANGED <<db, disk, config, events>>

\* mutant: an upload error is logged and the item recorded all the same.
UploadErrorIgnored(a) ==
    /\ job[a].pc = "put" /\ ~Unchanged(job[a].item)
    /\ Goto(a, "upsert")
    /\ Stay /\ UNCHANGED <<world, config, events>>

\* A Put that reports an error: the file could not be opened, the server did not
\* store the object, or it did and the answer was lost.
UploadFails(a) ==
    /\ job[a].pc = "put" /\ ~Unchanged(job[a].item)
    /\ \/ UNCHANGED remote
       \/ /\ Sent(job[a].item) # 0
          /\ remote' = [remote EXCEPT ![job[a].item.path] = Sent(job[a].item)]
    /\ FinishRun(a, "failed")
    /\ UNCHANGED <<db, disk, config, events>>

\* verifyFileUnchanged: the recording is hashed again after its upload.
VerifyFile(a) ==
    /\ job[a].pc = "verify"
    /\ IF files[job[a].item.key] = job[a].item.sum
       THEN Goto(a, "upsert") /\ Stay
       ELSE FinishRun(a, "failed")
    /\ UNCHANGED <<world, config, events>>

UpsertObject(a) ==
    /\ job[a].pc = "upsert"
    /\ ledger' = [ledger EXCEPT ![job[a].item.key] = [sum |-> job[a].item.sum, path |-> job[a].item.path]]
    /\ job' = [job EXCEPT ![a] = [job[a] EXCEPT !.pc = "next", !.item = None]]
    /\ Stay /\ UNCHANGED <<rows, disk, remote, config, events>>

\* The run is through, or the database failed it at one of its reads or writes.
RunDone(a) ==
    /\ job[a].pc = "next" /\ job[a].phase = 2 /\ job[a].todo = {}
    /\ FinishRun(a, None)
    /\ UNCHANGED <<world, config, events>>

RunFails(a) ==
    /\ job[a].pc \in {"listSMS", "next", "put", "upsert"}
    /\ FinishRun(a, "failed")
    /\ UNCHANGED <<world, config, events>>

(* ---------------------------------------------------------------------- *)
(* PreviewCleanup: recover what a crash left, then collect                 *)
(* ---------------------------------------------------------------------- *)

TouchesCalls(a) == job[a].settings.calls \/ job[a].settings.recordings

Referenced == {RecordingName[r] : r \in {q \in CallIDs : OnFile(q)}} \ {None}

\* listStagedRecordings and the names the call rows still hold.
ListStaged(a) ==
    /\ job[a].pc = "listStaged"
    /\ job' = [job EXCEPT ![a] = [job[a] EXCEPT !.pc = "recover", !.snap = Referenced,
                                                !.left = IF TouchesCalls(a) THEN staged ELSE {}]]
    /\ Stay /\ UNCHANGED <<world, config, events>>

Archived(n, sum) == ledger[n] # None /\ ledger[n].sum = sum

\* recoverStagedRecording: a file some call still names goes back, one that is
\* archived and named by nobody goes away, everything else stops the operation.
RecoverStaged(a) ==
    /\ job[a].pc = "recover"
    /\ \E entry \in job[a].left :
        LET named == entry.name \in job[a].snap
        IN  IF (IF named THEN files[entry.name] = 0 ELSE Archived(entry.name, entry.content))
            THEN /\ staged' = staged \ {entry}
                 /\ files' = IF named THEN [files EXCEPT ![entry.name] = entry.content] ELSE files
                 /\ job' = [job EXCEPT ![a].left = @ \ {entry}]
                 /\ Stay
            ELSE FinishCleanup(a, FALSE) /\ UNCHANGED <<files, staged>>
    /\ UNCHANGED <<latest, db, remote, config, events>>

\* ListSMS and ListCalls: the rows the preview is computed from.
ReadRows(a) ==
    /\ job[a].pc = "recover" /\ job[a].left = {}
    /\ job' = [job EXCEPT ![a] = [job[a] EXCEPT !.pc = "collect", !.snap = rows]]
    /\ Stay /\ UNCHANGED <<world, config, events>>

\* cleanupRecording: the row's recording is no obstacle to deleting the row.
RecordingSafe(s, r) ==
    \/ RecordingName[r] = None
    \/ /\ s.recordings
       /\ IF files[RecordingName[r]] = 0
          THEN ledger[RecordingName[r]] # None
          ELSE Archived(RecordingName[r], files[RecordingName[r]])

\* collectCleanupSMS and collectCleanupCalls over the rows in snap.
Preview(s, snap) ==
    LET past == {r \in RowIDs : snap[r].st = "old"}
        currentNames == {RecordingName[r] : r \in {q \in CallIDs : snap[q].st = "current"}}
        eligible(r) == /\ Archived(r, snap[r].content)
                       /\ IF r \in SmsIDs THEN s.sms ELSE s.calls /\ RecordingSafe(s, r)
        removable(n) == /\ s.recordings /\ n \notin currentNames
                        /\ files[n] # 0 /\ Archived(n, files[n])
    IN  [rows |-> {<<r, snap[r].content>> : r \in {q \in past : eligible(q)}},
         recordings |-> {<<n, files[n]>> :
                          n \in {m \in {RecordingName[r] : r \in past \ SmsIDs} \ {None} : removable(m)}}]

\* The end of a preview hands its token out; Cleanup compares it with the one
\* the user confirmed and goes on to the files.
Collect(a) ==
    /\ job[a].pc = "collect"
    /\ LET preview == Preview(job[a].settings, job[a].snap)
       IN  IF job[a].op = "preview"
           THEN FinishPreview(a, preview)
           ELSE IF token[a] = preview
                THEN /\ job' = [job EXCEPT ![a] = [job[a] EXCEPT !.pc = "stage", !.preview = preview,
                                                                 !.left = preview.recordings, !.snap = None]]
                     /\ Stay
                ELSE FinishCleanup(a, FALSE)
    /\ UNCHANGED <<world, config, events>>

\* A database or directory read of the preview fails.
PreviewFails(a) ==
    /\ job[a].pc \in {"listStaged", "recover", "collect"}
    /\ FinishCleanup(a, FALSE)
    /\ UNCHANGED <<world, config, events>>

(* ---------------------------------------------------------------------- *)
(* Cleanup: stage the files, delete the rows, discard the files            *)
(* ---------------------------------------------------------------------- *)

\* stageRecordingFile, the rename; a file that is gone is passed over.
StageRename(a) ==
    /\ job[a].pc = "stage"
    /\ \E entry \in job[a].left :
        LET n == entry[1]
            copy == [name |-> n, content |-> files[n]]
        IN  IF files[n] = 0
            THEN job' = [job EXCEPT ![a].left = @ \ {entry}] /\ UNCHANGED <<files, staged>>
            ELSE /\ files' = [files EXCEPT ![n] = 0]
                 /\ staged' = staged \cup {copy}
                 /\ job' = [job EXCEPT ![a] = [job[a] EXCEPT !.left = @ \ {entry}, !.pc = "check",
                                                             !.item = [copy |-> copy, sum |-> entry[2]]]]
    /\ Stay /\ UNCHANGED <<latest, db, remote, config, events>>

\* The rename back, which replaces a file that came up meanwhile, or its failure.
PutBack(copy) ==
    \/ /\ staged' = staged \ {copy}
       /\ files' = [files EXCEPT ![copy.name] = copy.content]
    \/ UNCHANGED <<files, staged>>

\* mutant: the renamed file is not hashed again.
StageUnchecked(a) ==
    /\ job[a].pc = "check"
    /\ job' = [job EXCEPT ![a] = [job[a] EXCEPT !.pc = "stage", !.mine = @ \cup {job[a].item.copy}, !.item = None]]
    /\ Stay /\ UNCHANGED <<world, config, events>>

\* stageRecordingFile, the hash of the renamed file against the preview: a
\* changed one goes back at once, and so do those staged before it.
StageCheck(a) ==
    /\ job[a].pc = "check"
    /\ LET copy == job[a].item.copy
       IN  IF copy.content = job[a].item.sum
           THEN /\ job' = [job EXCEPT ![a] = [job[a] EXCEPT !.pc = "stage", !.mine = @ \cup {copy}, !.item = None]]
                /\ UNCHANGED <<files, staged>>
           ELSE /\ job' = [job EXCEPT ![a] = [job[a] EXCEPT !.pc = "restore", !.item = None]]
                /\ PutBack(copy)
    /\ Stay /\ UNCHANGED <<latest, db, remote, config, events>>

\* restoreStagedRecordings, one rename at a time.
Restore(a) ==
    /\ job[a].pc = "restore"
    /\ IF job[a].mine = {}
       THEN FinishCleanup(a, FALSE) /\ UNCHANGED <<files, staged>>
       ELSE \E copy \in job[a].mine :
                /\ PutBack(copy)
                /\ job' = [job EXCEPT ![a].mine = @ \ {copy}]
                /\ Stay
    /\ UNCHANGED <<latest, db, remote, config, events>>

\* mutant: the transaction checks that the rows exist, not what they hold.
StillThere(preview) == \A entry \in preview.rows : OnFile(entry[1])

\* validateSMSDeleteChecksums and validateCallDeleteChecksums, inside the
\* transaction that deletes.
StillAsPreviewed(preview) ==
    \A entry \in preview.rows : OnFile(entry[1]) /\ rows[entry[1]].content = entry[2]

PurgedRows(preview) ==
    [r \in RowIDs |-> IF \E entry \in preview.rows : entry[1] = r
                      THEN [rows[r] EXCEPT !.st = "purged"] ELSE rows[r]]

DeleteRecords(a) ==
    /\ job[a].pc = "stage" /\ job[a].left = {}
    /\ \/ /\ StillAsPreviewed(job[a].preview)
          /\ rows' = PurgedRows(job[a].preview)
          /\ Goto(a, "discard")
       \/ /\ UNCHANGED rows           \* refused or failed: rolled back
          /\ Goto(a, "restore")
    /\ Stay /\ UNCHANGED <<disk, ledger, remote, config, events>>

\* discardStagedRecordings, one removal at a time; the first error ends it.
Discard(a) ==
    /\ job[a].pc = "discard"
    /\ IF job[a].mine = {}
       THEN FinishCleanup(a, TRUE) /\ UNCHANGED staged
       ELSE \/ \E copy \in job[a].mine :
                  /\ staged' = staged \ {copy}
                  /\ job' = [job EXCEPT ![a].mine = @ \ {copy}]
                  /\ Stay
            \/ FinishCleanup(a, FALSE) /\ UNCHANGED staged
    /\ UNCHANGED <<files, latest, db, remote, config, events>>

(* ---------------------------------------------------------------------- *)
(* Everything else that happens meanwhile                                  *)
(* ---------------------------------------------------------------------- *)

Event == events < MaxEvents /\ events' = events + 1
Elsewhere == UNCHANGED <<ledger, remote, running, lastError, token, want, job>>

\* A message arrives or a call is recorded: its recording is published first.
NewRow(r) ==
    /\ rows[r].st = "absent" /\ Event
    /\ rows' = [rows EXCEPT ![r] = [st |-> "current", content |-> 1]]
    /\ IF /\ r \in CallIDs /\ RecordingName[r] # None
          /\ \A q \in CallIDs : RecordingName[q] = RecordingName[r] => rows[q].st = "absent"
       THEN /\ files' = [files EXCEPT ![RecordingName[r]] = 1]
            /\ latest' = [latest EXCEPT ![RecordingName[r]] = 1]
       ELSE UNCHANGED <<files, latest>>
    /\ UNCHANGED <<staged, config>> /\ Elsewhere

\* A row is updated (a message read or completed, a call closed), ages past the
\* retention, or is deleted by the user.
RowChanges(r) ==
    /\ OnFile(r) /\ Event
    /\ \/ /\ rows[r].content < MaxContent
          /\ rows' = [rows EXCEPT ![r].content = @ + 1]
       \/ rows[r].st = "current" /\ rows' = [rows EXCEPT ![r].st = "old"]
       \/ rows' = [rows EXCEPT ![r].st = "deleted"]
    /\ UNCHANGED <<disk, config>> /\ Elsewhere

\* A recording is rewritten in place, removed for good by the operator, or put back
\* by him while no operation runs (the names carry the call's time: nothing else
\* creates them).
FileChanges(n) ==
    /\ Event
    /\ \/ /\ files[n] # 0 /\ latest[n] < MaxContent
          /\ latest' = [latest EXCEPT ![n] = @ + 1]
          /\ files' = [files EXCEPT ![n] = latest[n] + 1]
       \/ /\ files[n] = 0 /\ latest[n] # 0 /\ ~running
          /\ files' = [files EXCEPT ![n] = latest[n]]
          /\ UNCHANGED latest
       \/ /\ files[n] # 0 /\ \A copy \in staged : copy.name # n
          /\ files' = [files EXCEPT ![n] = 0]
          /\ latest' = [latest EXCEPT ![n] = 0]
    /\ UNCHANGED <<rows, staged, config>> /\ Elsewhere

Configure(c) ==
    /\ c # config /\ Event
    /\ config' = c
    /\ UNCHANGED <<rows, disk>> /\ Elsewhere

\* The process dies and starts again: the database, the disk, the remote and the
\* browser's token stay.
Crash ==
    /\ running /\ Event
    /\ running' = FALSE
    /\ lastError' = None
    /\ want' = "archive"
    /\ job' = [a \in Actors |-> Idle]
    /\ token' = [token EXCEPT ![Loop] = None]
    /\ UNCHANGED <<world, config>>

(* ---------------------------------------------------------------------- *)

Init ==
    /\ \E S \in InitialRows :
          rows = [r \in RowIDs |-> [st |-> IF r \in S THEN "old" ELSE "absent", content |-> 1]]
    /\ latest = [n \in Recordings |->
                   IF \E r \in CallIDs : RecordingName[r] = n /\ OnFile(r) THEN 1 ELSE 0]
    /\ files = latest
    /\ staged = {}
    /\ ledger = [k \in Keys |-> None]
    /\ remote = [p \in Paths |-> 0]
    /\ config \in Configs
    /\ running = FALSE
    /\ lastError = None
    /\ token = [a \in Actors |-> None]
    /\ want = "archive"
    /\ job = [a \in Actors |-> Idle]
    /\ events = 0

Begins(a) == RunNow(a) \/ PreviewCleanup(a) \/ Cleanup(a)

ArchiveStep(a) ==
    \/ ListSMS(a) \/ ListCalls(a) \/ NextItem(a) \/ SkipItem(a) \/ Upload(a) \/ UploadFails(a)
    \/ VerifyFile(a) \/ UpsertObject(a) \/ RunDone(a) \/ RunFails(a)

CleanupStep(a) ==
    \/ ListStaged(a) \/ RecoverStaged(a) \/ ReadRows(a) \/ Collect(a) \/ PreviewFails(a)
    \/ StageRename(a) \/ StageCheck(a) \/ Restore(a) \/ DeleteRecords(a) \/ Discard(a)

Environment ==
    \/ \E r \in RowIDs : NewRow(r) \/ RowChanges(r)
    \/ \E n \in Recordings : FileChanges(n)
    \/ \E c \in Configs : Configure(c)
    \/ Crash

Next ==
    \/ \E a \in Actors : Begins(a) \/ ArchiveStep(a) \/ CleanupStep(a)
    \/ ScheduledRefused
    \/ Environment

Spec == Init /\ [][Next]_vars

(* ---------------------------------------------------------------------- *)
(* Properties                                                              *)
(* ---------------------------------------------------------------------- *)

Contents == 1 .. MaxContent
Previews == [rows : SUBSET (RowIDs \X Contents), recordings : SUBSET (Recordings \X Contents)]
Copies == [name : Recordings, content : Contents]

\* The type invariant: the database, the disk, the remote and the manager's state
\* hold values of their types.
TypeOK ==
    /\ rows \in [RowIDs -> [st : RowStates, content : Contents]]
    /\ files \in [Recordings -> Contents \cup {0}]
    /\ latest \in [Recordings -> Contents \cup {0}]
    /\ staged \subseteq Copies
    /\ \A k \in Keys : ledger[k] = None \/ ledger[k] \in [sum : Contents, path : Paths]
    /\ remote \in [Paths -> Contents \cup {0}]
    /\ config \in Configs /\ running \in BOOLEAN
    /\ lastError \in Recordings \cup {None}
    /\ \A a \in Actors : token[a] = None \/ token[a] \in Previews
    /\ want \in {"archive", "preview", "cleanup"}
    /\ \A a \in Actors : job[a].mine \subseteq Copies

\* Whatever changed, failed or crashed on the way, a row that DeleteRecords deleted
\* is on the remote with exactly the content it had when it was deleted.
RowSurvives ==
    \A r \in RowIDs : rows[r].st = "purged" => remote[<<r, r>>] = rows[r].content

\* The newest content of every recording is under its name, renamed aside, or on
\* the remote: no crash between rename, delete and removal, and no rewrite during
\* an upload, loses it.
RecordingSurvives ==
    \A n \in Recordings : latest[n] # 0 =>
        \/ files[n] = latest[n]
        \/ [name |-> n, content |-> latest[n]] \in staged
        \/ \E r \in CallIDs : remote[<<n, r>>] = latest[n]

\* A ledger entry that matches what is local now tells the truth about the remote:
\* cleanup trusts the ledger and never asks the server.
LedgerHonest ==
    /\ \A r \in RowIDs : Archived(r, rows[r].content) => remote[ledger[r].path] = rows[r].content
    /\ \A n \in Recordings : Archived(n, latest[n]) => remote[ledger[n].path] = latest[n]

\* With no operation running, a file a crash or an error left aside can be told what
\* it is: archived, or still named by a row unless the user deleted that row.  A
\* cleanup never strands a file by deleting the row that names it.
StagedRecoverable ==
    ~running => \A copy \in staged :
        \/ Archived(copy.name, copy.content)
        \/ \E r \in CallIDs : RecordingName[r] = copy.name /\ rows[r].st # "purged"

=============================================================================
