----------------------------- MODULE MbnService -----------------------------
(***************************************************************************)
(* The MBN profile service of one modem: internal/mbn/*.go and the device  *)
(* session behind it, internal/device/mbn*.go.                             *)
(*                                                                         *)
(* An operation reads the modem's profile, stops the services, writes the  *)
(* new choice, reboots the modem, waits for the same modem with the same   *)
(* SIM and reads back.  Every stage is saved before it starts, so that a   *)
(* process that died in the middle finds out at its next start that a      *)
(* write is unconfirmed; it then never writes by itself for that modem and *)
(* SIM until an operation of the user has verified a profile.              *)
(*                                                                         *)
(* Around the operation the SIM changes, the modem drops commands, the     *)
(* database refuses to save, the process is stopped or crashes, the user   *)
(* cancels and changes policies, and the automatic policy wants to write.  *)
(* Asset files, versions and capabilities are reduced to the profile a     *)
(* request would add; model and firmware do not change.                    *)
(***************************************************************************)
EXTENDS Naturals, Sequences, FiniteSets, SequencesExt

CONSTANTS Sims, Profiles,
          FirstSim,      \* the SIM that is in the modem at the start
          FirstProfile,  \* the profile that is in force at the start
          Requests,      \* requests the user may make, by name
          Offered,       \* bound: the requests that may become the i-th operation
          PolicyKeys,    \* SIMs a policy may be saved for; None stands for the modem
          PolicyChoices, \* policies the user may save
          Installed,     \* profiles the modem starts with
          MaxOps,        \* bound: operations accepted
          MaxFaults,     \* bound: faults and outside changes together
          None

RequestKinds == {"apply", "import", "delete", "trial", "restore"}

Target == [auto : {TRUE}, profile : {None}] \cup [auto : {FALSE}, profile : Profiles]

Owners == [sim : Sims, gen : Nat]

\* validateRequest: what a request of each kind must name; the rest of it has its type.
validateRequest(r) ==
    /\ r.kind \in RequestKinds
    /\ r.kind = "apply" => r.target # None
    /\ r.kind = "import" => r.adds # None
    /\ r.kind = "delete" => r.target # None /\ ~r.target.auto
    /\ r.kind = "trial" => r.candidates # <<>>
    /\ r.target \in Target \cup {None}
    /\ r.adds \in Profiles \cup {None}
    /\ r.replacement \in Profiles \cup {None}
    /\ r.candidates \in Seq(Profiles)
    /\ r.restore \in Nat

ASSUME RequestAssumption == \A name \in DOMAIN Requests : validateRequest(Requests[name])

ASSUME ModemAssumption == FirstSim \in Sims /\ Installed \subseteq Profiles /\ FirstProfile \in Installed

ASSUME NoneAssumption == None \notin Owners

ASSUME PolicyAssumption ==
    /\ PolicyKeys \subseteq Sims \cup {None}
    /\ \A c \in PolicyChoices : c = None \/ (c.target \in Target /\ c.import \in BOOLEAN)

ASSUME BoundAssumption ==
    /\ MaxOps \in Nat /\ MaxFaults \in Nat
    /\ Offered \in [1..MaxOps -> SUBSET DOMAIN Requests]

VARIABLES
    process,   \* "up", "stopping" (its context is cancelled) or "down"
    session,   \* policySessionID: the process by number
    ops,       \* mbn_operations, in the order they were accepted
    policies,  \* mbn_policies: per key [choice, version]
    overrides, \* Service.overrides: per SIM the choice of this session, or None
    active,    \* Service.active: the operation in progress, 0 when there is none
    run,       \* the goroutine of the operation
    recon,     \* an automatic policy check, with its shared hold on the device
    modem,     \* what the modem has stored and runs
    owner,     \* identity of the worker: [sim, gen]
    epoch,     \* policyTransition.switchEpoch
    ready,     \* the worker is there and its identity is known
    dirty,     \* per SIM, the operation whose write nothing has confirmed, or 0
    lost,      \* operations whose last save failed
    faults

service == <<session, policies, overrides, active>>
device == <<modem, owner, epoch, ready>>
vars == <<process, service, ops, run, recon, device, dirty, lost, faults>>

Running(op) == op.status \in {"queued", "running", "cancelling"}
RecoveryKind(kind) == kind \in {"apply", "restore", "trial"}

NoRun == [op |-> 0, pc |-> "idle", then |-> "none", phase |-> "main", stage |-> "queued",
          original |-> None, current |-> None, errs |-> {}, left |-> <<>>,
          open |-> FALSE, owner |-> None, epoch |-> 0, target |-> None]
NoRecon == [pc |-> "idle", owner |-> None, policy |-> None, request |-> None]

Request == ops[run.op].request
At(pc) == process # "down" /\ run.pc = pc

(* ---------------------------------------------------------------------- *)
(* The modem                                                               *)
(* ---------------------------------------------------------------------- *)

\* inspect: the list tells which profile is selected and which runs.
Snapshot(o) == [owner |-> o, auto |-> modem.auto, installed |-> modem.installed,
                selected |-> modem.selected, activated |-> modem.activated]

InUse(snap) == {snap.selected, snap.activated}

ActiveChoice(snap) == IF snap.auto THEN [auto |-> TRUE, profile |-> None]
                      ELSE [auto |-> FALSE, profile |-> snap.activated]

\* apply: the target is in force when AutoSel agrees and a fixed profile is
\* both selected and activated.
InForce(target, snap) ==
    snap.auto = target.auto /\ (target.auto \/ InUse(snap) = {target.profile})

\* validateApply: AutoSel can always be chosen, a profile only if it is listed.
CanApply(target, snap) == target.auto \/ target.profile \in snap.installed

\* A reboot activates what is selected; under AutoSel the SIM decides.
Rebooted == {[modem EXCEPT !.selected = p, !.activated = p] :
                p \in IF modem.auto THEN modem.installed ELSE {modem.selected}}

(* ---------------------------------------------------------------------- *)
(* Errors and checkpoints                                                  *)
(* ---------------------------------------------------------------------- *)

\* Something fails: by itself, or because the process is being stopped.
Fails(e) ==
    \/ process = "stopping" /\ e = "cancel" /\ UNCHANGED faults
    \/ process = "up" /\ faults < MaxFaults /\ e = "other" /\ faults' = faults + 1

\* Where an error leads.  Between candidates it stops the trial, which restores;
\* during one it is recorded with the candidate; a restore that failed puts its
\* stage back; everything else ends the operation.
Raise(r, errs) ==
    CASE r.phase = "loop" -> [r EXCEPT !.errs = errs, !.phase = "main", !.pc = "restore"]
      [] r.phase = "trial" -> [r EXCEPT !.errs = errs, !.pc = "candidate"]
      [] r.phase = "restore" -> [r EXCEPT !.errs = @ \cup errs, !.stage = "restoring", !.pc = "close"]
      [] OTHER -> [r EXCEPT !.errs = @ \cup errs, !.pc = "close"]

\* What a save writes; CancelRequested is read back from the store first.
Saved(r, stage) ==
    [ops[r.op] EXCEPT !.stage = stage, !.original = r.original, !.current = r.current,
                      !.status = IF ops[r.op].cancel THEN "cancelling" ELSE "running"]

\* checkpoint: save the stage before the work it announces.  A failed read
\* leaves the stage of the running operation alone, a failed save does not.
Checkpoint(r, stage, next) ==
    \/ /\ process = "up"
       /\ ops' = [ops EXCEPT ![r.op] = Saved(r, stage)]
       /\ run' = [r EXCEPT !.stage = stage, !.pc = next]
       /\ UNCHANGED faults
    \/ \E e \in {"cancel", "other"}, s \in {stage, r.stage} :
          /\ Fails(e)
          /\ run' = Raise([r EXCEPT !.stage = s], {e})
          /\ UNCHANGED ops

\* cancelled: a checkpoint that also looks at the user's request.
CheckCancelled ==
    /\ At("cancelled")
    /\ \/ /\ ~ops[run.op].cancel
          /\ Checkpoint(run, run.stage, run.then)
       \/ /\ process = "up" /\ ops[run.op].cancel
          /\ ops' = [ops EXCEPT ![run.op] = Saved(run, run.stage)]
          /\ run' = Raise(run, {"cancel"})
          /\ UNCHANGED faults
    /\ UNCHANGED <<process, service, recon, device, dirty, lost>>

Later(r, pc) == [r EXCEPT !.pc = "cancelled", !.then = pc]

(* ---------------------------------------------------------------------- *)
(* The device session                                                      *)
(* ---------------------------------------------------------------------- *)

\* validateLocked: the worker, its identity and the switch epoch are still the
\* ones the session was opened with.
Valid == ready /\ owner = run.owner /\ epoch = run.epoch

\* Execute: a command that reads.
Read(r) ==
    /\ \/ Valid /\ process = "up" /\ run' = r /\ UNCHANGED faults
       \/ Valid /\ \E e \in {"cancel", "other"} : Fails(e) /\ run' = Raise(run, {e})
       \/ ~Valid /\ run' = Raise(run, {"owner"}) /\ UNCHANGED faults
    /\ UNCHANGED <<modem, dirty>>

\* Execute: a command that writes.  It may be obeyed, be acknowledged and do
\* nothing, or go unanswered after it was or was not obeyed.
Write(obeyed, r) ==
    \/ /\ Valid
       /\ dirty' = [dirty EXCEPT ![owner.sim] = run.op]
       /\ \/ process = "up" /\ modem' \in obeyed /\ run' = r /\ UNCHANGED faults
          \/ /\ process = "up" /\ faults < MaxFaults /\ faults' = faults + 1
             /\ run' = r /\ UNCHANGED modem
          \/ \E e \in {"cancel", "other"} :
                Fails(e) /\ run' = Raise(run, {e}) /\ modem' \in obeyed \cup {modem}
    \/ ~Valid /\ run' = Raise(run, {"owner"}) /\ UNCHANGED <<modem, dirty, faults>>

\* mutant: ordinary operations do not take the device's lock.
DeviceUnshared == FALSE

\* AcquireDeviceOperation: a policy check is on its way.
DeviceShared == recon.pc # "idle"

\* Gateway.Open waits, until the operation's deadline, for everyone who shares
\* the device, and needs a worker whose identity is known.
Open ==
    /\ At("open")
    /\ \/ /\ process = "up" /\ ~DeviceShared /\ ready
          /\ run' = [run EXCEPT !.open = TRUE, !.owner = owner, !.epoch = epoch, !.pc = "inspect"]
          /\ UNCHANGED faults
       \/ process = "up" /\ (DeviceShared \/ ~ready) /\ run' = Raise(run, {"other"}) /\ UNCHANGED faults
       \/ \E e \in {"cancel", "other"} : Fails(e) /\ run' = Raise(run, {e})
    /\ UNCHANGED <<process, service, ops, recon, device, dirty, lost>>

\* Reboot sends CFUN=1,1; once it is answered the worker goes away.
Reboot ==
    /\ At("reboot")
    /\ \/ /\ Valid /\ process = "up"
          /\ modem' \in Rebooted /\ ready' = FALSE
          /\ run' = [run EXCEPT !.pc = "reenumerate"]
          /\ UNCHANGED faults
       \/ /\ Valid
          /\ \E e \in {"cancel", "other"} : Fails(e) /\ run' = Raise(run, {e})
          /\ \/ UNCHANGED <<modem, ready>>
             \/ modem' \in Rebooted /\ ready' = FALSE
       \/ ~Valid /\ run' = Raise(run, {"owner"}) /\ UNCHANGED <<modem, ready, faults>>
    /\ UNCHANGED <<process, service, ops, recon, owner, epoch, dirty, lost>>

\* mutant: whatever worker appears is taken for the modem's.
AdoptAnyWorker ==
    /\ At("reenumerate") /\ process = "up" /\ ready
    /\ run' = [run EXCEPT !.owner = owner, !.epoch = epoch, !.pc = run.then]
    /\ UNCHANGED <<process, service, ops, recon, device, dirty, lost, faults>>

\* Reboot then polls for the new worker; it must show the same SIM and no
\* switch may have begun.
AdoptWorker ==
    /\ At("reenumerate") /\ process = "up" /\ ready
    /\ run' = IF owner.sim = run.owner.sim /\ epoch = run.epoch
              THEN [run EXCEPT !.owner = owner, !.pc = run.then]
              ELSE Raise(run, {"owner"})
    /\ UNCHANGED <<process, service, ops, recon, device, dirty, lost, faults>>

\* The deadline passes, or the process is being stopped.
RebootTimeout ==
    /\ At("reenumerate") /\ (process = "stopping" \/ ~ready)
    /\ run' = Raise(run, {IF process = "stopping" THEN "cancel" ELSE "other"})
    /\ UNCHANGED <<process, service, ops, recon, device, dirty, lost, faults>>

(* ---------------------------------------------------------------------- *)
(* The operation                                                           *)
(* ---------------------------------------------------------------------- *)

Begin ==
    /\ At("begin")
    /\ Checkpoint(run, "reading_original", "open")
    /\ UNCHANGED <<process, service, recon, device, dirty, lost>>

\* run: the owner the operation was accepted for must still be there.
ReadOriginal ==
    /\ At("inspect")
    /\ Read(IF run.owner = ops[run.op].owner
            THEN [run EXCEPT !.original = Snapshot(run.owner), !.pc = "save"]
            ELSE Raise([run EXCEPT !.original = Snapshot(run.owner)], {"owner"}))
    /\ UNCHANGED <<process, service, ops, recon, owner, epoch, ready, lost>>

SaveOriginal ==
    /\ At("save")
    /\ Checkpoint([run EXCEPT !.then = "preflight"], "original_saved", "cancelled")
    /\ UNCHANGED <<process, service, recon, device, dirty, lost>>

\* validateDelete: no fixed policy may name the profile, and one in use needs a
\* replacement that is listed.
CanDelete(snap) ==
    LET name == Request.target.profile IN
    /\ name \in snap.installed
    /\ \A k \in PolicyKeys : policies[k].choice # None => policies[k].choice.target.profile # name
    /\ name \in InUse(snap) => /\ Request.replacement # name
                              /\ Request.replacement \in snap.installed

\* preflight: refuse before the services are stopped.
Accepted ==
    LET snap == run.original IN
    CASE Request.kind = "apply" -> CanApply(Request.target, snap) \/ Request.adds # None
      [] Request.kind = "trial" -> /\ snap.auto \/ snap.activated # None
                                   /\ ToSet(Request.candidates) \subseteq snap.installed
      [] Request.kind = "delete" -> CanDelete(snap)
      [] Request.kind = "restore" ->
            LET saved == ops[Request.restore].original IN
            saved # None /\ saved.owner.sim = run.owner.sim /\ CanApply(ActiveChoice(saved), snap)
      [] OTHER -> TRUE

Preflight ==
    /\ At("preflight")
    /\ \/ Accepted /\ Checkpoint(run, "preparing", "prepare")
       \/ ~Accepted /\ run' = Raise(run, {"other"}) /\ UNCHANGED <<ops, faults>>
    /\ UNCHANGED <<process, service, recon, device, dirty, lost>>

Applying(r, target, phase) == [r EXCEPT !.target = target, !.phase = phase, !.pc = "apply"]

\* perform: what each kind of request does first.
FirstStep ==
    CASE Request.kind = "apply" ->
            IF ~CanApply(Request.target, run.original) /\ Request.adds # None
            THEN [run EXCEPT !.pc = "upload"]
            ELSE Applying(run, Request.target, "main")
      [] Request.kind = "import" -> [run EXCEPT !.pc = "upload"]
      [] Request.kind = "trial" -> Later([run EXCEPT !.left = Request.candidates, !.phase = "loop"], "next")
      [] Request.kind = "restore" -> [run EXCEPT !.pc = "restore"]
      [] Request.kind = "delete" ->
            IF Request.target.profile \in InUse(run.original)
            THEN Applying(run, [auto |-> FALSE, profile |-> Request.replacement], "delete")
            ELSE Later(run, "deleting")

\* Prepare stops software IMS, voice and data; any of them may refuse.
Prepare ==
    /\ At("prepare")
    /\ Read(FirstStep)
    /\ UNCHANGED <<process, service, ops, recon, owner, epoch, ready, lost>>

\* keepSessionChoice: what was verified becomes the choice of this session, for
\* the identity it was read under.
Choice(snap) == [target |-> ActiveChoice(snap), gen |-> snap.owner.gen]
Keep(snap) == overrides' = [overrides EXCEPT ![snap.owner.sim] = Choice(snap)]

\* What follows a profile that was found in force.
ApplyDone(r) ==
    CASE r.phase = "trial" -> [r EXCEPT !.pc = "observe"]
      [] r.phase = "delete" -> Later([r EXCEPT !.phase = "main"], "deleting")
      [] r.phase = "restore" -> [r EXCEPT !.stage = "restored", !.pc = "close"]
      [] OTHER -> [r EXCEPT !.pc = "close"]

\* The modem's answer shows the target in force.
Confirmed(r) ==
    /\ run' = ApplyDone(r)
    /\ IF r.phase \in {"main", "restore"} THEN Keep(r.current) ELSE UNCHANGED overrides
    /\ dirty' = [dirty EXCEPT ![owner.sim] = 0]
    /\ UNCHANGED <<modem, faults>>

Found == [run EXCEPT !.current = Snapshot(run.owner)]

\* apply: look before writing; nothing is written when the target is in force.
ApplyInspect ==
    /\ At("apply")
    /\ \/ Valid /\ process = "up" /\ InForce(run.target, Snapshot(owner)) /\ Confirmed(Found)
       \/ /\ ~(Valid /\ process = "up" /\ InForce(run.target, Snapshot(owner)))
          /\ Read(IF CanApply(run.target, Snapshot(owner)) THEN [run EXCEPT !.pc = "applying"]
                  ELSE Raise(run, {"other"}))
          /\ UNCHANGED overrides
    /\ UNCHANGED <<process, session, policies, active, ops, recon, owner, epoch, ready, lost>>

SaveApplying ==
    /\ At("applying")
    /\ Checkpoint(run, "applying", "autosel")
    /\ UNCHANGED <<process, service, recon, device, dirty, lost>>

WriteAutoSel ==
    /\ At("autosel")
    /\ Write({[modem EXCEPT !.auto = run.target.auto]},
             [run EXCEPT !.pc = IF run.target.auto THEN "waiting" ELSE "select"])
    /\ UNCHANGED <<process, service, ops, recon, owner, epoch, ready, lost>>

WriteSelect ==
    /\ At("select")
    /\ Write({[modem EXCEPT !.selected = run.target.profile]}, [run EXCEPT !.pc = "waiting"])
    /\ UNCHANGED <<process, service, ops, recon, owner, epoch, ready, lost>>

SaveWaiting ==
    /\ At("waiting")
    /\ Checkpoint([run EXCEPT !.then = "verifying"], "waiting_reboot", "reboot")
    /\ UNCHANGED <<process, service, recon, device, dirty, lost>>

SaveVerifying ==
    /\ At("verifying")
    /\ Checkpoint(run, "verifying", "readback")
    /\ UNCHANGED <<process, service, recon, device, dirty, lost>>

\* mutant: the modem's OK is believed.
ReadBackUnchecked ==
    /\ At("readback")
    /\ Valid /\ process = "up" /\ Confirmed(Found)
    /\ UNCHANGED <<process, session, policies, active, ops, recon, owner, epoch, ready, lost>>

\* apply: only what the modem shows after its reboot counts.
ReadBack ==
    /\ At("readback")
    /\ \/ Valid /\ process = "up" /\ InForce(run.target, Snapshot(owner)) /\ Confirmed(Found)
       \/ /\ ~(Valid /\ process = "up" /\ InForce(run.target, Snapshot(owner)))
          /\ Read(Raise(Found, {"other"}))
          /\ UNCHANGED overrides
    /\ UNCHANGED <<process, session, policies, active, ops, recon, owner, epoch, ready, lost>>

\* importFile: the upload goes to the modem's RAM and may be repeated.
SaveUploading ==
    /\ At("upload")
    /\ Checkpoint([run EXCEPT !.then = "importing"], "uploading_to_modem", "uploading")
    /\ UNCHANGED <<process, service, recon, device, dirty, lost>>

Upload ==
    /\ At("uploading")
    /\ Read([run EXCEPT !.pc = "cancelled"])
    /\ UNCHANGED <<process, service, ops, recon, owner, epoch, ready, lost>>

SaveImporting ==
    /\ At("importing")
    /\ Checkpoint(run, "importing", "add")
    /\ UNCHANGED <<process, service, recon, device, dirty, lost>>

WriteAdd ==
    /\ At("add")
    /\ Write({[modem EXCEPT !.installed = @ \cup {Request.adds}]}, [run EXCEPT !.pc = "added"])
    /\ UNCHANGED <<process, service, ops, recon, owner, epoch, ready, lost>>

\* Only a profile that was not there before shows that the file was added; an
\* apply goes on with its profile.
ReadAdded ==
    LET shown == Valid /\ process = "up" /\ modem.installed \ run.original.installed # {} IN
    /\ At("added")
    /\ \/ /\ shown
          /\ run' = IF Request.kind = "apply" THEN Applying(Found, Request.target, "main")
                    ELSE [Found EXCEPT !.pc = "close"]
          /\ dirty' = [dirty EXCEPT ![owner.sim] = 0]
          /\ UNCHANGED <<modem, faults>>
       \/ ~shown /\ Read(Raise(Found, {"other"}))
    /\ UNCHANGED <<process, service, ops, recon, owner, epoch, ready, lost>>

\* deleteProfile, once the profile is not in use.
SaveDeleting ==
    /\ At("deleting")
    /\ Checkpoint([run EXCEPT !.then = "deleted"], "deleting", "delete")
    /\ UNCHANGED <<process, service, recon, device, dirty, lost>>

WriteDelete ==
    /\ At("delete")
    /\ Write({[modem EXCEPT !.installed = @ \ {Request.target.profile}]}, [run EXCEPT !.pc = "reboot"])
    /\ UNCHANGED <<process, service, ops, recon, owner, epoch, ready, lost>>

ReadDeleted ==
    LET gone == Valid /\ process = "up" /\ Request.target.profile \notin modem.installed IN
    /\ At("deleted")
    /\ \/ gone /\ Confirmed([Found EXCEPT !.phase = "main"])
       \/ ~gone /\ Read(Raise(Found, {"other"})) /\ UNCHANGED overrides
    /\ UNCHANGED <<process, session, policies, active, ops, recon, owner, epoch, ready, lost>>

(* ---------------------------------------------------------------------- *)
(* Trial and restore                                                       *)
(* ---------------------------------------------------------------------- *)

\* trial: the next candidate, or none is left.
NextCandidate ==
    /\ At("next")
    /\ run' = Applying([run EXCEPT !.left = Tail(@), !.errs = {}],
                       [auto |-> FALSE, profile |-> Head(run.left)], "trial")
    /\ UNCHANGED <<process, service, ops, recon, device, dirty, lost, faults>>

\* observe: save the stage, then look for a cancel and poll the registration
\* until it is stable, the deadline passes or something ends the trial; rounds
\* that change nothing are one round that takes its time.
SaveObserving ==
    /\ At("observe")
    /\ Checkpoint([run EXCEPT !.then = "poll"], "observing_registration", "cancelled")
    /\ UNCHANGED <<process, service, recon, device, dirty, lost>>

Observe ==
    /\ At("poll")
    /\ \/ Read([run EXCEPT !.pc = "candidate"])
       \/ /\ Valid /\ process = "up" /\ run' = Raise(run, {"goal"})
          /\ UNCHANGED <<modem, dirty, faults>>
    /\ UNCHANGED <<process, service, ops, recon, owner, epoch, ready, lost>>

\* Only a missed goal lets the next candidate be tried; every other failure,
\* and the last one, restores the profile the trial began with.
AfterCandidate(r) ==
    CASE r.errs = {} -> [r EXCEPT !.pc = "close"]
      [] r.errs = {"goal"} /\ r.left # <<>> -> Later([r EXCEPT !.phase = "loop"], "next")
      [] OTHER -> [r EXCEPT !.pc = "restore"]

\* The result is saved; if that fails the trial returns as it is.
CandidateComplete ==
    LET after == [AfterCandidate([run EXCEPT !.phase = "main"]) EXCEPT !.stage = "candidate_complete"] IN
    /\ At("candidate")
    /\ \/ /\ process = "up"
          /\ ops' = [ops EXCEPT ![run.op] = Saved(run, "candidate_complete")]
          /\ run' = after
          /\ IF run.errs = {} THEN Keep(run.current) ELSE UNCHANGED overrides
          /\ UNCHANGED faults
       \/ /\ \E e \in {"cancel", "other"}, s \in {"candidate_complete", run.stage} :
                Fails(e) /\ run' = [run EXCEPT !.errs = {e}, !.stage = s, !.pc = "close"]
          /\ UNCHANGED <<ops, overrides>>
    /\ UNCHANGED <<process, session, policies, active, recon, device, dirty, lost>>

RestoreTarget == ActiveChoice(IF Request.kind = "restore" THEN ops[Request.restore].original ELSE run.original)

SaveRestoring ==
    /\ At("restore")
    /\ Checkpoint(run, "restoring", "restoring")
    /\ UNCHANGED <<process, service, recon, device, dirty, lost>>

Restore ==
    /\ At("restoring")
    /\ run' = Applying(run, RestoreTarget, "restore")
    /\ UNCHANGED <<process, service, ops, recon, device, dirty, lost, faults>>

(* ---------------------------------------------------------------------- *)
(* The end                                                                 *)
(* ---------------------------------------------------------------------- *)

\* Close gives the device back.  After a success, or a restore, Resume applies
\* the card's policy again, which needs the same worker and SIM.
CloseSession ==
    /\ At("close")
    /\ IF run.open /\ (run.errs = {} \/ run.stage = "restored") /\ process = "up"
       THEN \/ /\ ready /\ owner.sim = run.owner.sim
               /\ run' = [run EXCEPT !.open = FALSE, !.pc = "end"]
               /\ UNCHANGED faults
            \/ /\ ~(ready /\ owner = run.owner)
               /\ run' = [run EXCEPT !.open = FALSE, !.stage = "resuming", !.errs = @ \cup {"owner"}, !.pc = "end"]
               /\ UNCHANGED faults
            \/ /\ Fails("other")
               /\ run' = [run EXCEPT !.open = FALSE, !.stage = "resuming", !.errs = @ \cup {"other"}, !.pc = "end"]
       ELSE run' = [run EXCEPT !.open = FALSE, !.pc = "end"] /\ UNCHANGED faults
    /\ UNCHANGED <<process, service, ops, recon, device, dirty, lost>>

\* Stages in which the modem may be somewhere between two profiles.
Unconfirmed == {"restoring", "resuming", "waiting_reboot", "applying", "preparing",
                "verifying", "deleting", "importing"}

\* mutant: only a lost owner needs attention.
OutcomeOwnerOnly(r) ==
    CASE r.errs = {} -> "succeeded"
      [] "owner" \in r.errs -> "needs_attention"
      [] "cancel" \in r.errs /\ "owner" \notin r.errs -> "cancelled"
      [] OTHER -> "failed"

Uncertain(r) == "owner" \in r.errs \/ r.stage \in Unconfirmed

Outcome(r) ==
    CASE r.errs = {} -> "succeeded"
      [] r.errs # {} /\ Uncertain(r) -> "needs_attention"
      [] "cancel" \in r.errs /\ ~Uncertain(r) -> "cancelled"
      [] OTHER -> "failed"

\* The result is saved with a context of its own; CancelRequested is not read
\* again.  A failed save is only logged.
SaveResult ==
    /\ At("end")
    /\ \/ /\ ops' = [ops EXCEPT ![run.op] =
                [Saved(run, run.stage) EXCEPT !.status = Outcome(run)]]
          /\ UNCHANGED <<lost, faults>>
       \/ /\ faults < MaxFaults /\ faults' = faults + 1
          /\ lost' = lost \cup {run.op}
          /\ UNCHANGED ops
    /\ run' = [run EXCEPT !.pc = "leave"]
    /\ UNCHANGED <<process, service, recon, device, dirty>>

Leave ==
    /\ At("leave")
    /\ run' = NoRun
    /\ active' = 0
    /\ UNCHANGED <<process, session, policies, overrides, ops, recon, device, dirty, lost, faults>>

(* ---------------------------------------------------------------------- *)
(* Accepting operations                                                    *)
(* ---------------------------------------------------------------------- *)

SameCard(op) == op.owner.sim = owner.sim

\* verifiedRecovery: an operation that ended by reading back a profile in force.
Verified(op) ==
    /\ op.status = "succeeded" \/ (op.status \in {"failed", "cancelled"} /\ op.stage = "restored")
    /\ RecoveryKind(op.request.kind)
    /\ op.current # None /\ op.current.owner.sim = owner.sim
    /\ op.current.auto \/ op.current.selected = op.current.activated

Resolved == UNION {op.recoveryOf : op \in {o \in ToSet(ops) : SameCard(o) /\ Verified(o)}}

\* pendingPolicyRecovery: by modem and SIM, whichever process left them.
PendingRecovery ==
    {i \in DOMAIN ops : SameCard(ops[i]) /\ ops[i].status = "needs_attention" /\ i \notin Resolved}

CardBusy == \E op \in ToSet(ops) : SameCard(op) /\ Running(op)

\* recoveryForStart: an automatic write needs a settled past; what the user
\* applies, restores or tries is recorded as the recovery of what is pending.
MayStart(request, auto) ==
    /\ auto \/ RecoveryKind(request.kind) => ~CardBusy
    /\ auto => PendingRecovery = {}

NewOperation(key, request, auto) ==
    [key |-> key, request |-> request, policy |-> auto, owner |-> owner,
     recoveryOf |-> IF RecoveryKind(request.kind) THEN PendingRecovery ELSE {},
     original |-> None, current |-> None, status |-> "queued", stage |-> "queued", cancel |-> FALSE]

\* mutant: a repeated request is carried out again.
EnqueueAgain(key, request, auto, expected) ==
    /\ process = "up" /\ active = 0 /\ ready /\ Len(ops) < MaxOps
    /\ expected # None => expected = owner
    /\ MayStart(request, auto)
    /\ ops' = Append(ops, NewOperation(key, request, auto))
    /\ active' = Len(ops) + 1
    /\ run' = [NoRun EXCEPT !.op = Len(ops) + 1, !.pc = "begin"]

\* start, under mu: a known key is answered from the store, a busy device
\* refused, and the owner must be the one the caller saw.
Enqueue(key, request, auto, expected) ==
    /\ process = "up" /\ active = 0 /\ ready /\ Len(ops) < MaxOps
    /\ \A op \in ToSet(ops) : op.key # key
    /\ expected # None => expected = owner
    /\ MayStart(request, auto)
    /\ ops' = Append(ops, NewOperation(key, request, auto))
    /\ active' = Len(ops) + 1
    /\ run' = [NoRun EXCEPT !.op = Len(ops) + 1, !.pc = "begin"]

UserKey(name) == <<name, 0, None, 0, 0>>

Start(name) ==
    /\ Len(ops) < MaxOps /\ name \in Offered[Len(ops) + 1]
    /\ Requests[name].kind = "restore" => Requests[name].restore \in DOMAIN ops
    /\ Enqueue(UserKey(name), Requests[name], FALSE, None)
    /\ UNCHANGED <<process, session, policies, overrides, recon, device, dirty, lost, faults>>

Cancel(i) ==
    /\ process = "up" /\ i \in DOMAIN ops /\ Running(ops[i]) /\ ~ops[i].cancel
    /\ ops' = [ops EXCEPT ![i].cancel = TRUE, ![i].status = "cancelling"]
    /\ UNCHANGED <<process, service, run, recon, device, dirty, lost, faults>>

(* ---------------------------------------------------------------------- *)
(* Policies                                                                *)
(* ---------------------------------------------------------------------- *)

\* SavePolicy drops the session's choice for the same SIM.
SavePolicy(key, choice) ==
    /\ process = "up" /\ faults < MaxFaults /\ faults' = faults + 1
    /\ policies' = [policies EXCEPT ![key] = [choice |-> choice, version |-> @.version + 1]]
    /\ overrides' = IF key = None THEN overrides ELSE [overrides EXCEPT ![key] = None]
    /\ UNCHANGED <<process, session, active, ops, run, recon, device, dirty, lost>>

Current(o) == IF overrides[o.sim] # None /\ overrides[o.sim].gen = o.gen THEN overrides[o.sim] ELSE None

Stored(key) == IF key \in PolicyKeys THEN policies[key] ELSE [choice |-> None, version |-> 0]

\* EffectivePolicy: the session's choice, else the SIM's, else the modem's.
EffectivePolicy(o) ==
    LET saved == IF Stored(o.sim).choice # None THEN Stored(o.sim) ELSE Stored(None) IN
    IF Current(o) # None THEN [target |-> Current(o).target, import |-> FALSE, version |-> 0]
    ELSE IF saved.choice = None THEN None
    ELSE [target |-> saved.choice.target, import |-> saved.choice.import, version |-> saved.version]

\* resolveAndApplyPolicy shares the device from before the policy is read until
\* the operation is accepted; a choice of an earlier generation is dropped.
BeginReconcile ==
    /\ process = "up" /\ recon.pc = "idle" /\ ready /\ ~run.open
    /\ EffectivePolicy(owner) # None /\ active = 0
    /\ overrides' = [overrides EXCEPT ![owner.sim] = Current(owner)]
    /\ recon' = [NoRecon EXCEPT !.pc = "inspect", !.owner = owner, !.policy = EffectivePolicy(owner)]
    /\ UNCHANGED <<process, session, policies, active, ops, run, device, dirty, lost, faults>>

AutoRequest(policy, snap) ==
    [kind |-> "apply", target |-> policy.target, replacement |-> None, candidates |-> <<>>, restore |-> 0,
     adds |-> IF policy.import /\ ~CanApply(policy.target, snap) THEN policy.target.profile ELSE None]

\* Reconcile: nothing to do when the policy is in force, or when it names a
\* profile that may not be imported.
ReconcileInspect ==
    LET snap == Snapshot(owner) IN
    /\ process = "up" /\ recon.pc = "inspect"
    /\ recon' = IF /\ active = 0 /\ ready /\ owner = recon.owner
                   /\ ~InForce(recon.policy.target, snap)
                   /\ CanApply(recon.policy.target, snap) \/ recon.policy.import
                THEN [recon EXCEPT !.pc = "start", !.request = AutoRequest(recon.policy, snap)]
                ELSE NoRecon
    /\ UNCHANGED <<process, service, ops, run, device, dirty, lost, faults>>

PolicyKey == <<"policy", session, recon.owner.sim, recon.owner.gen, recon.policy.version>>

ReconcileStart ==
    /\ process = "up" /\ recon.pc = "start"
    /\ Enqueue(PolicyKey, recon.request, TRUE, recon.owner)
    /\ recon' = NoRecon
    /\ UNCHANGED <<process, session, policies, overrides, device, dirty, lost, faults>>

ReconcileRefused ==
    /\ process = "up" /\ recon.pc = "start"
    /\ recon' = NoRecon
    /\ UNCHANGED <<process, service, ops, run, device, dirty, lost, faults>>

(* ---------------------------------------------------------------------- *)
(* Outside the service                                                     *)
(* ---------------------------------------------------------------------- *)

\* The modem comes back from its reboot as a new worker.
Reenumerate ==
    /\ process = "up" /\ ~ready
    /\ ready' = TRUE
    /\ owner' = [owner EXCEPT !.gen = @ + 1]
    /\ UNCHANGED <<process, service, ops, run, recon, modem, epoch, dirty, lost, faults>>

\* Another SIM is inserted, or an eSIM profile is switched.
SimChanges(sim, switched) ==
    /\ process = "up" /\ faults < MaxFaults /\ faults' = faults + 1 /\ sim # owner.sim
    /\ owner' = [sim |-> sim, gen |-> owner.gen + 1]
    /\ epoch' = IF switched THEN epoch + 1 ELSE epoch
    /\ UNCHANGED <<process, service, ops, run, recon, modem, ready, dirty, lost>>

\* Shutdown cancels the context and does not wait for the operation.
Shutdown ==
    /\ process = "up" /\ faults < MaxFaults /\ faults' = faults + 1
    /\ process' = "stopping"
    /\ UNCHANGED <<service, ops, run, recon, device, dirty, lost>>

Crash ==
    /\ \/ process = "stopping" /\ UNCHANGED faults
       \/ process = "up" /\ faults < MaxFaults /\ faults' = faults + 1
    /\ process' = "down"
    /\ run' = NoRun /\ recon' = NoRecon /\ active' = 0
    /\ overrides' = [s \in Sims |-> None]
    /\ UNCHANGED <<session, policies, ops, device, dirty, lost>>

\* mutant: the new process leaves the history as it finds it.
RecoverUnmarked ==
    /\ process = "down"
    /\ process' = "up" /\ session' = session + 1
    /\ ready' = TRUE /\ owner' = [owner EXCEPT !.gen = 1]
    /\ UNCHANGED <<policies, overrides, active, ops, run, recon, modem, epoch, dirty, lost, faults>>

\* The next process marks what was running, before it talks to any modem;
\* generations start again.
Recover ==
    /\ process = "down"
    /\ process' = "up" /\ session' = session + 1
    /\ ops' = [i \in DOMAIN ops |->
                  IF Running(ops[i]) THEN [ops[i] EXCEPT !.status = "needs_attention"] ELSE ops[i]]
    /\ ready' = TRUE /\ owner' = [owner EXCEPT !.gen = 1]
    /\ UNCHANGED <<policies, overrides, active, run, recon, modem, epoch, dirty, lost, faults>>

Init ==
    /\ process = "up" /\ session = 1
    /\ ops = <<>>
    /\ policies \in [PolicyKeys -> [choice : PolicyChoices, version : {1}]]
    /\ overrides = [s \in Sims |-> None]
    /\ active = 0 /\ run = NoRun /\ recon = NoRecon
    /\ modem = [auto |-> FALSE, selected |-> FirstProfile, activated |-> FirstProfile, installed |-> Installed]
    /\ owner = [sim |-> FirstSim, gen |-> 1] /\ epoch = 0 /\ ready = TRUE
    /\ dirty = [s \in Sims |-> 0]
    /\ lost = {} /\ faults = 0

RunStep ==
    \/ Begin \/ Open \/ ReadOriginal \/ SaveOriginal \/ CheckCancelled \/ Preflight \/ Prepare
    \/ ApplyInspect \/ SaveApplying \/ WriteAutoSel \/ WriteSelect \/ SaveWaiting
    \/ Reboot \/ AdoptWorker \/ RebootTimeout \/ SaveVerifying \/ ReadBack
    \/ SaveUploading \/ Upload \/ SaveImporting \/ WriteAdd \/ ReadAdded
    \/ SaveDeleting \/ WriteDelete \/ ReadDeleted
    \/ NextCandidate \/ SaveObserving \/ Observe \/ CandidateComplete
    \/ SaveRestoring \/ Restore \/ CloseSession \/ SaveResult \/ Leave

ReconcileStep == ReconcileInspect \/ ReconcileStart \/ ReconcileRefused

Next ==
    \/ RunStep \/ BeginReconcile \/ ReconcileStep \/ Reenumerate
    \/ \E name \in DOMAIN Requests : Start(name)
    \/ \E i \in 1..MaxOps : Cancel(i)
    \/ \E key \in PolicyKeys, choice \in PolicyChoices : SavePolicy(key, choice)
    \/ \E sim \in Sims, switched \in BOOLEAN : SimChanges(sim, switched)
    \/ Shutdown \/ Crash \/ Recover

Spec == Init /\ [][Next]_vars

(* ---------------------------------------------------------------------- *)
(* Properties                                                              *)
(* ---------------------------------------------------------------------- *)

Snapshots == [owner : Owners, auto : BOOLEAN, installed : SUBSET Profiles,
              selected : Profiles, activated : Profiles]
Statuses == {"queued", "running", "cancelling", "succeeded", "failed", "cancelled", "needs_attention"}

\* Every variable keeps its type (the tables of internal/mbn/types.go and the
\* session of internal/device/mbn.go).
TypeOK ==
    /\ process \in {"up", "stopping", "down"} /\ session \in Nat
    /\ \A op \in ToSet(ops) :
          /\ op.status \in Statuses /\ op.owner \in Owners
          /\ op.original \in Snapshots \cup {None} /\ op.current \in Snapshots \cup {None}
          /\ op.recoveryOf \subseteq DOMAIN ops /\ op.policy \in BOOLEAN /\ op.cancel \in BOOLEAN
    /\ \A s \in Sims : overrides[s] = None \/ (overrides[s].target \in Target /\ overrides[s].gen \in Nat)
    /\ active \in 0..Len(ops) /\ run.op \in 0..Len(ops)
    /\ run.errs \subseteq {"owner", "cancel", "goal", "other"}
    /\ modem.selected \in Profiles /\ modem.activated \in Profiles /\ modem.installed \subseteq Profiles
    /\ owner \in Owners /\ epoch \in Nat /\ dirty \in [Sims -> 0..Len(ops)] /\ lost \subseteq DOMAIN ops

\* An operation the store shows as running is the one its goroutine works on,
\* unless the process is down or could not save its end: the page never waits
\* for an operation nobody carries out (Service.Recover, Service.run).
RunningIsBacked ==
    process # "down" =>
        \A i \in DOMAIN ops : Running(ops[i]) => i \in lost \/ (active = i /\ run.op = i)

Accepting == Len(ops') > Len(ops)
Newest == ops'[Len(ops')]

\* An automatic write is never queued for a modem and SIM whose last write
\* nothing confirmed, whatever failed or crashed since (recoveryForStart).  The
\* one stage that is not marked is a trial's candidate_complete.
NoBlindRewrite ==
    [][Accepting /\ Newest.policy =>
         LET i == dirty[owner.sim] IN i = 0 \/ ops[i].stage = "candidate_complete"]_vars

\* Ends(i): operation i gets its result in this step.
Ends(i) == Running(ops[i]) /\ ~Running(ops'[i]) /\ process # "down"

\* What the modem shows once operation i has reached its aim, or has put back
\* what it found.
Achieved(op) ==
    LET now == Snapshot(owner) IN
    CASE op.stage = "restored" /\ op.request.kind = "trial" -> InForce(ActiveChoice(op.original), now)
      [] op.request.kind = "restore" -> InForce(ActiveChoice(ops[op.request.restore].original), now)
      [] op.request.kind = "apply" -> InForce(op.request.target, now)
      [] op.stage # "restored" /\ op.request.kind = "trial" ->
            \E p \in ToSet(op.request.candidates) : InForce([auto |-> FALSE, profile |-> p], now)
      [] op.request.kind = "delete" -> op.request.target.profile \notin now.installed
      [] OTHER -> now.installed \ op.original.installed # {}

\* A success, or a trial that says it restored, is what the modem really shows
\* at that moment, whatever commands it dropped (Service.apply reads back after
\* the reboot, Service.trial restores).
VerifiedEnding ==
    [][\A i \in DOMAIN ops :
         Ends(i) /\ (ops'[i].status = "succeeded" \/ ops'[i].stage = "restored") => Achieved(ops'[i])]_vars

\* The operation changes the modem only while the SIM it was accepted for is in
\* it, through reboots and SIM changes (validateLocked, Reboot).
RightCard == [][modem' # modem => owner.sim = ops[run.op].owner.sim]_vars

\* The automatic policy never replaces what the user chose in this session for
\* the identity that is there (keepSessionChoice, Reconcile).
ChoiceKept ==
    [][Accepting /\ Newest.policy /\ Current(owner) # None =>
         Newest.request.target = Current(owner).target]_vars

JobState(i) == CASE ~Running(ops[i]) -> ops[i].status
                 [] Running(ops[i]) /\ i \in lost -> "lost"
                 [] OTHER -> "running"

Jobs == INSTANCE MbnJobs WITH
    jobs <- [i \in DOMAIN ops |-> [key |-> ops[i].key, state |-> JobState(i)]]

\* Each request is carried out at most once, one at a time, and its result is
\* final, across repeats, cancels, crashes and restarts (Service.start).
ImplementsJobs == Jobs!Spec

=============================================================================
