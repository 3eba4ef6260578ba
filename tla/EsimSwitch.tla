----------------------------- MODULE EsimSwitch -----------------------------
(***************************************************************************)
(* Switching the eSIM profile of one device.  esim.Manager.SwitchProfile    *)
(* runs the card commands under opMu and the device's transition lock; the  *)
(* pool's callbacks take a snapshot before, tear VoWiFi down, and restore    *)
(* identity, policy, VoWiFi and radio afterwards in a goroutine that holds   *)
(* no lock.  Tokens tell a superseded goroutine to stop.  Beside it run the  *)
(* delayed identity retries, live identity reads, VoWiFi recovery, policy    *)
(* projection, the two-minute guard and the replacement of the worker.       *)
(*                                                                         *)
(* ICCID and IMSI are one value, the data connection follows the radio, and  *)
(* carriers whose radio must stay off are left out.  A card policy is        *)
(* reduced to whether it enables WiFi calling, which needs the radio off.    *)
(***************************************************************************)
EXTENDS Integers

CONSTANTS
    Switches,   \* calls of SwitchProfile, numbered as they take the lock
    Profiles,   \* profiles on the card
    Configs,    \* settings of the device and of its card policies
    None,
    MaxFaults   \* bound on failures and on events from outside the switch

ASSUME SwitchAssumption ==
    /\ Switches \subseteq Nat
    /\ None \notin Profiles
    /\ Configs \subseteq [cycle : BOOLEAN, vowifi : SUBSET Profiles]
    /\ MaxFaults \in Nat

\* What esimSwitchContext keeps of the time before a switch, and who a policy
\* task is for.
Contexts == [token : Nat, before : Profiles \cup {None}, flight : BOOLEAN, target : Profiles,
             gen : Nat]
Owners == [iccid : Profiles, gen : Nat, epoch : Nat, worker : Nat]

ASSUME NoneAssumption == None \notin Switches \cup Contexts \cup Owners

VARIABLES
    config,   \* [cycle: ESIMSwitch.RadioCycle, vowifi: profiles whose policy enables it]
    card,     \* the profile that is enabled on the card
    shown,    \* the profile the modem reports; it lags behind the card
    id,       \* Worker.state.Identity
    radio,    \* operating mode of the modem
    vowifi,   \* "down", "recovered", or "restored" by a switch
    policy,   \* the profile whose policy is projected on the worker, or None
    current,  \* Pool.switchContexts/switchTokens/switchingDevices, or None; the
              \* phase, which is only reported, is left out
    seq,      \* Pool.switchSeq
    epoch,    \* policyTransition.switchEpoch
    lock,     \* opMu and the transition lease of the switch that holds them
    worker,   \* generation of the device's worker
    sw,       \* the calls and the goroutines they leave behind
    retry,    \* schedulePostSwitchIdentityRefreshes, per switch
    live,     \* a live identity read: what it read and has not written, or None
    task,     \* the owner a policy task from elsewhere has captured, or None
    faults,
    spoiled   \* what has gone wrong so far: see the properties

host == <<vowifi, policy>>
modem == <<card, shown, radio>>
pool == <<current, seq, epoch, lock, worker>>
vars == <<config, modem, id, host, pool, sw, retry, live, task, faults, spoiled>>

Idle == [pc |-> "idle", token |-> 0, snap |-> None, read |-> None, gate |-> "ok",
         then |-> "none", owner |-> None, worker |-> 0, degraded |-> FALSE]
NoRetry == [pc |-> "none", read |-> None]

(* ---------------------------------------------------------------------- *)
(* Bookkeeping of the pool                                                 *)
(* ---------------------------------------------------------------------- *)

\* isLatestSwitchToken
Latest(s) == current # None /\ current.token = sw[s].token

\* esimSwitchOwnerCurrent
OwnerCurrent(s) == sw[s].worker = worker

\* The checks between the stages of handleESIMSwitchAfter.
Proceeds(s) == Latest(s) /\ OwnerCurrent(s)

\* mutant: whichever switch ends takes the mark with it.
ClearedAny(s) == None

\* clearESIMSwitchIfToken
Cleared(s) == IF Latest(s) THEN None ELSE current

\* updateESIMSwitchIdentityGeneration
WithGeneration(s, gen) == IF Latest(s) THEN [current EXCEPT !.gen = gen] ELSE current

(* ---------------------------------------------------------------------- *)
(* Identity of the worker                                                  *)
(* ---------------------------------------------------------------------- *)

\* beginSIMIdentityTransitionLocked
Transition(target) == [iccid |-> None, phase |-> "transitioning", target |-> target, gen |-> id.gen + 1]

\* EnsureSIMIdentityTransition: a transition to the same target goes on.
Ensured(target) ==
    IF id.phase # "ready" /\ id.target = target THEN id ELSE Transition(target)

\* MarkSIMIdentityDegraded leaves everything else as it is.
Degraded == [id EXCEPT !.phase = "degraded"]

Published(iccid) == [id EXCEPT !.iccid = iccid, !.phase = "ready", !.target = None]

\* restoreSIMIdentityAfterTransitionFailure
Restored(iccid) ==
    [id EXCEPT !.iccid = iccid, !.target = None, !.phase = IF iccid # None THEN "ready" ELSE "degraded"]

\* SIMIdentityConvergenceMatches
ConvergenceMatches(snap) == id.gen = snap.gen /\ id.phase # "ready" /\ id.target = snap.target

\* mutant: what the modem shows is believed, whatever the target is.
LiveIdentityAny(target) == {shown, None}

\* refreshPostSwitchIdentityWithPolling: polls until the modem shows the target;
\* the deadline may pass first, or the card may stay unreadable.
LiveIdentity(target) == (IF shown = target THEN {target} ELSE {}) \cup {None}

(* ---------------------------------------------------------------------- *)
(* The call: card commands under opMu and the transition lock              *)
(* ---------------------------------------------------------------------- *)

Fault == faults < MaxFaults /\ faults' = faults + 1
Spoil(what) == spoiled' = spoiled \cup {what}

\* Goroutines of earlier switches that may still act, reads under way, and a
\* modem that has not noticed the profile of an earlier switch.
Overlap(s) ==
    IF \/ \E o \in Switches \ {s} : sw[o].pc \notin {"idle", "done"} \/ retry[o].pc \in {"checked", "read"}
       \/ live # None \/ shown # card
    THEN {"overlap"} ELSE {}

\* SwitchProfile takes opMu and the lease, which refuses a replaced worker; what
\* fails before the first callback leaves no trace.  captureESIMSwitchContext
\* then reads what is to be restored, before the mark is set.
Start(s, target) ==
    /\ lock = None /\ sw[s].pc = "idle" /\ \A o \in Switches : o < s => sw[o].pc # "idle"
    /\ lock' = s
    /\ epoch' = epoch + 1
    /\ sw' = [sw EXCEPT ![s] = [Idle EXCEPT !.pc = "begin", !.worker = worker,
                  !.snap = [token |-> 0, before |-> id.iccid, flight |-> radio # "online",
                            target |-> target, gen |-> 0]]]
    /\ spoiled' = spoiled \cup Overlap(s)
    /\ UNCHANGED <<config, modem, id, host, current, seq, worker, retry, live, task, faults>>

\* beginESIMSwitchForWorkerLocked gives the newest token to this switch, and
\* handleESIMSwitchBeforeSnapshot takes the old identity away.
Begin(s) ==
    /\ sw[s].pc = "begin"
    /\ seq' = seq + 1
    /\ id' = Transition(sw[s].snap.target)
    /\ current' = [sw[s].snap EXCEPT !.token = seq + 1, !.gen = id'.gen]
    /\ sw' = [sw EXCEPT ![s] = [sw[s] EXCEPT !.token = seq + 1, !.pc = "teardown"]]
    /\ spoiled' = spoiled \cup Overlap(s)
    /\ UNCHANGED <<config, modem, host, epoch, lock, worker, retry, live, task, faults>>

\* SwitchBegin stops VoWiFi and cancels a SwitchEnd that is under way.
Teardown(s) ==
    /\ sw[s].pc = "teardown"
    /\ vowifi' = "down"
    /\ sw' = [o \in Switches |->
                IF o = s THEN [sw[s] EXCEPT !.pc = "lower"]
                ELSE IF sw[o].pc = "ending" THEN [sw[o] EXCEPT !.gate = "canceled"] ELSE sw[o]]
    /\ UNCHANGED <<config, modem, id, policy, pool, retry, live, task, faults, spoiled>>

\* releaseRadioBeforeSwitch; a failure is only logged.
Lower(s) ==
    /\ sw[s].pc = "lower"
    /\ \/ radio' = (IF config.cycle THEN "low" ELSE radio) /\ UNCHANGED <<faults, spoiled>>
       \/ config.cycle /\ Fault /\ Spoil("radio") /\ UNCHANGED radio
    /\ sw' = [sw EXCEPT ![s].pc = "barrier"]
    /\ UNCHANGED <<config, card, shown, id, host, pool, retry, live, task>>

\* beginSwitchAPDUBarrier, which gives up with the caller's context.
Barrier(s) ==
    /\ sw[s].pc = "barrier"
    /\ \/ sw' = [sw EXCEPT ![s].pc = "enable"] /\ UNCHANGED faults
       \/ Fault /\ sw' = [sw EXCEPT ![s].pc = "abort"]
    /\ UNCHANGED <<config, modem, id, host, pool, retry, live, task, spoiled>>

\* EnableProfile with its retries.  Once it is accepted the barrier, the lease and
\* opMu are given back and the rest is asynchronous.  It may be refused, and a
\* failure may be reported although the card obeyed.
Enable(s) ==
    /\ sw[s].pc = "enable"
    /\ \/ /\ card' = sw[s].snap.target
          /\ lock' = None
          /\ sw' = [sw EXCEPT ![s].pc = "after"]
          /\ UNCHANGED <<faults, spoiled>>
       \/ /\ Fault
          /\ sw' = [sw EXCEPT ![s].pc = "abort"]
          /\ UNCHANGED <<card, lock, spoiled>>
       \/ /\ Fault /\ Spoil("unanswered")
          /\ card' = sw[s].snap.target
          /\ sw' = [sw EXCEPT ![s].pc = "abort"]
          /\ UNCHANGED lock
    /\ UNCHANGED <<config, shown, radio, id, host, current, seq, epoch, worker, retry, live, task>>

\* mutant: an error path that forgets to give the locks back.
AbortHolding(s) ==
    /\ sw[s].pc = "abort"
    /\ sw' = [sw EXCEPT ![s].pc = "failed"]
    /\ UNCHANGED <<config, modem, id, host, pool, retry, live, task, faults, spoiled>>

\* The deferred function of a failed call gives the locks back before it calls
\* onSwitchFailed.
Abort(s) ==
    /\ sw[s].pc = "abort"
    /\ lock' = None
    /\ sw' = [sw EXCEPT ![s].pc = "failed"]
    /\ UNCHANGED <<config, modem, id, host, current, seq, epoch, worker, retry, live, task, faults, spoiled>>

(* ---------------------------------------------------------------------- *)
(* After a failure                                                         *)
(* ---------------------------------------------------------------------- *)

\* finishESIMSwitchForFailure: only the current switch restores anything.
OnFailed(s) ==
    /\ sw[s].pc = "failed"
    /\ current' = IF OwnerCurrent(s) THEN Cleared(s) ELSE current
    /\ sw' = [sw EXCEPT ![s].pc = IF Proceeds(s) THEN "undo" ELSE "done"]
    /\ UNCHANGED <<config, modem, id, host, seq, epoch, lock, worker, retry, live, task, faults, spoiled>>

\* handleESIMSwitchFailed: the identity of the snapshot, then its radio.
UndoIdentity(s) ==
    /\ sw[s].pc = "undo"
    /\ id' = IF OwnerCurrent(s) THEN Restored(sw[s].snap.before) ELSE id
    /\ sw' = [sw EXCEPT ![s].pc = "undoradio"]
    /\ UNCHANGED <<config, modem, host, pool, retry, live, task, faults, spoiled>>

\* mutant: the radio is taken to be online already.
SnapshotRadioKept(snap, cycleDone) == IF snap.flight THEN "off" ELSE radio

\* restoreRadioDataForSwitchSnapshot
SnapshotRadio(snap, cycleDone) ==
    CASE snap.flight -> "off"
      [] ~snap.flight /\ ~cycleDone -> "online"
      [] OTHER -> radio

\* The command to the modem may fail.
SetRadio(mode) ==
    \/ radio' = mode /\ UNCHANGED <<faults, spoiled>>
    \/ mode # radio /\ Fault /\ Spoil("radio") /\ UNCHANGED radio

UndoRadio(s) ==
    /\ sw[s].pc = "undoradio"
    /\ SetRadio(SnapshotRadio(sw[s].snap, FALSE))
    /\ sw' = [sw EXCEPT ![s].pc = "done"]
    /\ UNCHANGED <<config, card, shown, id, host, pool, retry, live, task>>

(* ---------------------------------------------------------------------- *)
(* handleESIMSwitchAfter                                                   *)
(* ---------------------------------------------------------------------- *)

\* What is left of a goroutine that has ended.
Finished(s) == [Idle EXCEPT !.pc = "done", !.token = sw[s].token, !.snap = sw[s].snap,
                            !.worker = sw[s].worker, !.degraded = sw[s].degraded]

\* The deferred clear of every way out.
Stopped(s) == current' = Cleared(s) /\ sw' = [sw EXCEPT ![s] = Finished(s)]

\* The hook: a replaced worker or a newer switch ends it at once.
After(s) ==
    /\ sw[s].pc = "after"
    /\ IF Proceeds(s)
       THEN /\ id' = Ensured(sw[s].snap.target)
            /\ current' = WithGeneration(s, id'.gen)
            /\ sw' = [sw EXCEPT ![s] = [sw[s] EXCEPT !.pc = "core", !.snap = [sw[s].snap EXCEPT !.gen = id'.gen]]]
       ELSE sw' = [sw EXCEPT ![s].pc = "done"] /\ UNCHANGED <<id, current>>
    /\ UNCHANGED <<config, modem, host, seq, epoch, lock, worker, retry, live, task, faults, spoiled>>

\* waitPostSwitchCoreReady; a time-out is not an error.
CoreReady(s) ==
    /\ sw[s].pc = "core"
    /\ IF Proceeds(s) THEN sw' = [sw EXCEPT ![s].pc = "converge"] /\ UNCHANGED current ELSE Stopped(s)
    /\ UNCHANGED <<config, modem, id, host, seq, epoch, lock, worker, retry, live, task, faults, spoiled>>

\* runPostSwitchConvergence: ready when the modem shows the target, degraded
\* after too many attempts or a failed reload.
Converge(s) ==
    /\ sw[s].pc = "converge"
    /\ \/ /\ shown = sw[s].snap.target
          /\ sw' = [sw EXCEPT ![s] = [sw[s] EXCEPT !.pc = "policy", !.then = "online"]]
          /\ UNCHANGED <<current, retry>>
       \/ /\ OwnerCurrent(s)
          /\ retry' = [retry EXCEPT ![s].pc = "scheduled"]
          /\ sw' = [sw EXCEPT ![s] = [sw[s] EXCEPT !.pc = "connect", !.gate = "err", !.degraded = TRUE]]
          /\ UNCHANGED current
       \/ ~OwnerCurrent(s) /\ Stopped(s) /\ UNCHANGED retry
    /\ UNCHANGED <<config, modem, id, host, seq, epoch, lock, worker, live, task, faults, spoiled>>

\* bringRadioOnlineAfterSwitch, only with RadioCycle.
Online(s) ==
    /\ sw[s].pc = "online"
    /\ IF OwnerCurrent(s) THEN SetRadio(IF config.cycle THEN "online" ELSE radio)
       ELSE UNCHANGED <<radio, faults, spoiled>>
    /\ IF OwnerCurrent(s) /\ (config.cycle => Latest(s))
       THEN sw' = [sw EXCEPT ![s].pc = "identity"] /\ UNCHANGED current
       ELSE Stopped(s)
    /\ UNCHANGED <<config, card, shown, id, host, seq, epoch, lock, worker, retry, live, task>>

\* refreshPostSwitchIdentity reads for up to ten seconds and then writes.
ReadIdentity(s) ==
    /\ sw[s].pc = "identity"
    /\ id' = IF OwnerCurrent(s) THEN Ensured(sw[s].snap.target) ELSE id
    /\ \E v \in LiveIdentity(sw[s].snap.target) :
          sw' = [sw EXCEPT ![s] = [sw[s] EXCEPT !.read = v, !.pc = "publish"]]
    /\ UNCHANGED <<config, modem, host, pool, retry, live, task, faults, spoiled>>

Publish(s) ==
    /\ sw[s].pc = "publish"
    /\ id' = IF ~OwnerCurrent(s) THEN id ELSE IF sw[s].read # None THEN Published(sw[s].read) ELSE Degraded
    /\ IF Proceeds(s)
       THEN sw' = [sw EXCEPT ![s].pc = "runtime"] /\ UNCHANGED current
       ELSE Stopped(s)
    /\ UNCHANGED <<config, modem, host, seq, epoch, lock, worker, retry, live, task, faults, spoiled>>

\* refreshPostSwitchRuntime; without an identity only connectivity is restored.
Runtime(s) ==
    /\ sw[s].pc = "runtime"
    /\ IF ~Proceeds(s) THEN Stopped(s) /\ UNCHANGED retry
       ELSE IF sw[s].read # None
       THEN sw' = [sw EXCEPT ![s] = [sw[s] EXCEPT !.pc = "policy", !.then = "auth"]] /\ UNCHANGED <<current, retry>>
       ELSE /\ retry' = [retry EXCEPT ![s].pc = "scheduled"]
            /\ sw' = [sw EXCEPT ![s] = [sw[s] EXCEPT !.pc = "connect", !.gate = "err"]]
            /\ UNCHANGED current
    /\ UNCHANGED <<config, modem, id, host, seq, epoch, lock, worker, live, task, faults, spoiled>>

\* capturePolicyOwner
Owner == [iccid |-> id.iccid, gen |-> id.gen, epoch |-> epoch, worker |-> worker]

\* mutant: only the worker is compared.
ValidOwnerAny(owner) == owner.worker = worker

\* mutant: nothing is projected while the mark is set.
ValidOwnerIdle(owner) == owner = Owner /\ current = None

\* validatePolicyOwner: during a switch only the confirmed target counts.
ValidOwner(owner) ==
    /\ owner = Owner
    /\ current # None => id.phase = "ready" /\ current.gen = id.gen /\ current.target = owner.iccid

\* resolveAndApplyPolicy, first half: who the policy is for.
Captured == IF id.iccid # None /\ ValidOwner(Owner) THEN Owner ELSE None

\* The second half takes the transition lock again and projects the policy.  An
\* MBN check that is pending or fails leaves out the radio of a policy without
\* WiFi calling, as a failing command does.
Projected(owner) ==
    IF owner # None /\ ValidOwner(owner)
    THEN /\ policy' = owner.iccid
         /\ IF owner.iccid \in config.vowifi
            THEN SetRadio("off") /\ UNCHANGED vowifi
            ELSE SetRadio("online") /\ vowifi' = "down"
    ELSE UNCHANGED <<policy, vowifi, radio, faults, spoiled>>

\* It gives up before the worker has the policy: an MBN operation, the resolver,
\* a call that cannot be hung up, a teardown or the carrier's check fails.  VoWiFi
\* may have been stopped by then, and the radio brought back or not.
Refused(owner, marks) ==
    /\ owner # None /\ ValidOwner(owner) /\ Fault
    /\ UNCHANGED policy
    /\ \/ UNCHANGED <<vowifi, radio>> /\ spoiled' = spoiled \cup marks
       \/ /\ vowifi # "down" /\ vowifi' = "down"
          /\ \/ /\ owner.iccid \notin config.vowifi
                /\ radio' = "online" /\ spoiled' = spoiled \cup marks
             \/ UNCHANGED radio /\ spoiled' = spoiled \cup marks \cup {"radio"}

CapturePolicy(s) ==
    /\ sw[s].pc = "policy" /\ lock = None
    /\ sw' = [sw EXCEPT ![s] = [sw[s] EXCEPT !.owner = IF OwnerCurrent(s) THEN Captured ELSE None,
                                             !.pc = "project"]]
    /\ UNCHANGED <<config, modem, id, host, pool, retry, live, task, faults, spoiled>>

\* The last projection of a switch is the one its VoWiFi goes by.
Marks(s) == IF sw[s].then = "auth" THEN {"refused"} ELSE {}

\* handleESIMSwitchAfter ignores the result.
Project(s) ==
    /\ sw[s].pc = "project" /\ lock = None
    /\ Projected(sw[s].owner) \/ Refused(sw[s].owner, Marks(s))
    /\ sw' = [sw EXCEPT ![s] = [sw[s] EXCEPT !.pc = sw[s].then, !.owner = None]]
    /\ UNCHANGED <<config, card, shown, id, pool, retry, live, task>>

\* Retries are scheduled, then waitPostSwitchSIMAuthReady opens the gate or not.
Auth(s) ==
    /\ sw[s].pc = "auth"
    /\ retry' = [retry EXCEPT ![s].pc = "scheduled"]
    /\ IF Proceeds(s)
       THEN /\ UNCHANGED current
            /\ \/ sw' = [sw EXCEPT ![s].pc = "connect"] /\ UNCHANGED faults
               \/ /\ policy \in config.vowifi /\ Fault
                  /\ sw' = [sw EXCEPT ![s] = [sw[s] EXCEPT !.pc = "connect", !.gate = "err"]]
       ELSE Stopped(s) /\ UNCHANGED faults
    /\ UNCHANGED <<config, modem, id, host, seq, epoch, lock, worker, live, task, spoiled>>

\* restorePostSwitchConnectivity up to SwitchEnd.  The token is not looked at
\* again.
Connect(s) ==
    /\ sw[s].pc = "connect"
    /\ sw' = [sw EXCEPT ![s].pc =
                IF policy \in config.vowifi /\ sw[s].gate = "ok" THEN "ending" ELSE "radio"]
    /\ UNCHANGED <<config, modem, id, host, pool, retry, live, task, faults, spoiled>>

\* SwitchEnd starts VoWiFi, which turns the radio off, fails or is cancelled.
SwitchEnd(s) ==
    /\ sw[s].pc = "ending"
    /\ \/ /\ sw[s].gate = "ok"
          /\ vowifi' = "restored" /\ radio' = "off"
          /\ Stopped(s)
          /\ UNCHANGED faults
       \/ /\ IF sw[s].gate = "ok" THEN Fault ELSE UNCHANGED faults
          /\ sw' = [sw EXCEPT ![s].pc = "radio"]
          /\ UNCHANGED <<vowifi, radio, current>>
    /\ UNCHANGED <<config, card, shown, id, policy, seq, epoch, lock, worker, retry, live, task, spoiled>>

\* The radio of the snapshot; with RadioCycle it is taken to be online already.
RestoreRadio(s) ==
    /\ sw[s].pc = "radio"
    /\ IF OwnerCurrent(s) THEN SetRadio(SnapshotRadio(sw[s].snap, config.cycle))
       ELSE UNCHANGED <<radio, faults, spoiled>>
    /\ Stopped(s)
    /\ UNCHANGED <<config, card, shown, id, host, seq, epoch, lock, worker, retry, live, task>>

(* ---------------------------------------------------------------------- *)
(* Delayed identity retries                                                *)
(* ---------------------------------------------------------------------- *)

\* The generation is compared when the timer fires, and not again.
RetryCheck(s) ==
    /\ retry[s].pc = "scheduled"
    /\ retry' = [retry EXCEPT ![s].pc =
                   IF OwnerCurrent(s) /\ ConvergenceMatches(sw[s].snap) THEN "checked" ELSE "none"]
    /\ UNCHANGED <<config, modem, id, host, pool, sw, live, task, faults, spoiled>>

RetryRead(s) ==
    /\ retry[s].pc = "checked"
    /\ id' = IF OwnerCurrent(s) THEN Ensured(sw[s].snap.target) ELSE id
    /\ \E v \in LiveIdentity(sw[s].snap.target) : retry' = [retry EXCEPT ![s] = [pc |-> "read", read |-> v]]
    /\ UNCHANGED <<config, modem, host, pool, sw, live, task, faults, spoiled>>

RetryPublish(s) ==
    /\ retry[s].pc = "read"
    /\ id' = IF ~OwnerCurrent(s) THEN id ELSE IF retry[s].read # None THEN Published(retry[s].read) ELSE Degraded
    /\ retry' = [retry EXCEPT ![s] = NoRetry]
    /\ UNCHANGED <<config, modem, host, pool, sw, live, task, faults, spoiled>>

(* ---------------------------------------------------------------------- *)
(* Everything else that acts on the device                                 *)
(* ---------------------------------------------------------------------- *)

\* The modem notices the profile that is enabled.
Settle ==
    /\ shown # card
    /\ shown' = card
    /\ spoiled' = IF live # None THEN spoiled \cup {"torn"} ELSE spoiled
    /\ UNCHANGED <<config, card, radio, id, host, pool, sw, retry, live, task, faults>>

\* refreshIdentityLive, from a status page, a prewarm or a recovery: it reads ...
LiveRead ==
    /\ live = None /\ Fault
    /\ live' = shown
    /\ UNCHANGED <<config, modem, id, host, pool, sw, retry, task, spoiled>>

\* ... and writes, unless a switch waits for another card.
LiveWrite ==
    /\ live # None
    /\ IF id.phase # "ready" /\ id.target \notin {None, live}
       THEN UNCHANGED <<id, spoiled>>
       ELSE /\ id' = [iccid |-> live, phase |-> "ready", target |-> None,
                      gen |-> IF id.iccid \notin {None, live} THEN id.gen + 1 ELSE id.gen]
            /\ spoiled' = IF current # None THEN spoiled \cup {"live"} ELSE spoiled
    /\ live' = None
    /\ UNCHANGED <<config, modem, host, pool, sw, retry, task, faults>>

\* resolveAndApplyPolicy from anywhere else: a changed setting, a SIM event.
TaskCapture ==
    /\ task = None /\ lock = None /\ Captured # None /\ Fault
    /\ task' = Captured
    /\ UNCHANGED <<config, modem, id, host, pool, sw, retry, live, spoiled>>

TaskProject ==
    /\ task # None /\ lock = None
    /\ Projected(task) \/ Refused(task, {})
    /\ task' = None
    /\ UNCHANGED <<config, card, shown, id, pool, sw, retry, live>>

\* mutant: a switch under way does not matter.
RecoverAny ==
    /\ vowifi = "down" /\ id.iccid \in config.vowifi
    /\ vowifi' = "recovered" /\ radio' = "off"
    /\ UNCHANGED <<config, card, shown, id, policy, pool, sw, retry, live, task, faults, spoiled>>

\* The recovery of a wanted VoWiFi: the policy of the identity shown allows it.
Recover ==
    /\ vowifi = "down" /\ id.iccid \in config.vowifi /\ current = None
    /\ vowifi' = "recovered" /\ radio' = "off"
    /\ UNCHANGED <<config, card, shown, id, policy, pool, sw, retry, live, task, faults, spoiled>>

\* No goroutine is left that would take the mark away.
Orphaned == \A s \in Switches : sw[s].token = current.token => sw[s].pc = "done"

\* The guard of beginESIMSwitchForWorkerLocked, two minutes after the snapshot.
Guard ==
    /\ current # None
    /\ IF Orphaned THEN UNCHANGED <<faults, spoiled>> ELSE Fault /\ Spoil("guard")
    /\ current' = None
    /\ UNCHANGED <<config, modem, id, host, seq, epoch, lock, worker, sw, retry, live, task>>

\* RemoveWorker and the worker's return; AbandonDevice also drops the mark.
ReplaceWorker(abandon) ==
    /\ lock = None /\ Fault /\ Spoil("replaced")
    /\ worker' = worker + 1
    /\ current' = IF abandon THEN None ELSE current
    /\ epoch' = IF abandon \/ current = None THEN epoch + 1 ELSE epoch
    /\ id' = [iccid |-> shown, phase |-> "ready", target |-> None, gen |-> 0]
    /\ policy' = None /\ vowifi' = "down"
    /\ live' = None
    /\ UNCHANGED <<config, modem, seq, lock, sw, retry, task>>

(* ---------------------------------------------------------------------- *)
(* Specification                                                           *)
(* ---------------------------------------------------------------------- *)

Init ==
    /\ config \in Configs
    /\ card \in Profiles
    /\ shown = card /\ policy = card
    /\ id = [iccid |-> card, phase |-> "ready", target |-> None, gen |-> 0]
    /\ vowifi = "down"
    /\ radio = IF card \in config.vowifi THEN "off" ELSE "online"
    /\ current = None /\ seq = 0 /\ epoch = 0 /\ lock = None /\ worker = 0
    /\ sw = [s \in Switches |-> Idle]
    /\ retry = [s \in Switches |-> NoRetry]
    /\ live = None /\ task = None /\ faults = 0 /\ spoiled = {}

\* The steps of a call and of the goroutine it leaves behind.
Step(s) ==
    \/ Begin(s) \/ Teardown(s) \/ Lower(s)
    \/ Barrier(s) \/ Enable(s) \/ Abort(s)
    \/ OnFailed(s) \/ UndoIdentity(s) \/ UndoRadio(s)
    \/ After(s) \/ CoreReady(s) \/ Converge(s) \/ CapturePolicy(s) \/ Project(s)
    \/ Online(s) \/ ReadIdentity(s) \/ Publish(s) \/ Runtime(s)
    \/ Auth(s) \/ Connect(s) \/ SwitchEnd(s) \/ RestoreRadio(s)

Retry(s) == RetryCheck(s) \/ RetryRead(s) \/ RetryPublish(s)

Over == \A s \in Switches : sw[s].pc \in {"idle", "done"}
Quiet == Over /\ lock = None /\ task = None

\* Nothing is left to do.
Rest == Quiet /\ current = None /\ UNCHANGED vars

Next ==
    \/ \E s \in Switches : (\E target \in Profiles : Start(s, target)) \/ Step(s) \/ Retry(s)
    \/ Settle \/ LiveRead \/ LiveWrite \/ TaskCapture \/ TaskProject
    \/ Recover \/ Guard \/ \E abandon \in BOOLEAN : ReplaceWorker(abandon)
    \/ Rest

Spec == Init /\ [][Next]_vars

(* ---------------------------------------------------------------------- *)
(* Properties                                                              *)
(* ---------------------------------------------------------------------- *)

Stages == {"idle", "begin", "teardown", "lower", "barrier", "enable", "abort", "failed", "undo",
           "undoradio", "after", "core", "converge", "policy", "project", "online", "identity",
           "publish", "runtime", "auth", "connect", "ending", "radio", "done"}

Identities == [iccid : Profiles \cup {None}, phase : {"ready", "transitioning", "degraded"},
               target : Profiles \cup {None}, gen : Nat]
Calls == [pc : Stages, token : Nat, snap : Contexts \cup {None}, read : Profiles \cup {None},
          gate : {"ok", "err", "canceled"}, then : {"none", "online", "auth"},
          owner : Owners \cup {None}, worker : Nat, degraded : BOOLEAN]
Retries == [pc : {"none", "scheduled", "checked", "read"}, read : Profiles \cup {None}]

\* The type of every variable.
TypeOK ==
    /\ config \in Configs
    /\ card \in Profiles /\ shown \in Profiles
    /\ radio \in {"online", "low", "off"}
    /\ id \in Identities
    /\ vowifi \in {"down", "recovered", "restored"} /\ policy \in Profiles \cup {None}
    /\ current \in Contexts \cup {None}
    /\ seq \in Nat /\ epoch \in Nat /\ worker \in Nat
    /\ lock \in Switches \cup {None}
    /\ sw \in [Switches -> Calls]
    /\ retry \in [Switches -> Retries]
    /\ live \in Profiles \cup {None} /\ task \in Owners \cup {None}
    /\ faults \in 0..MaxFaults
    /\ spoiled \subseteq {"overlap", "radio", "unanswered", "guard", "live", "torn", "refused", "replaced"}

\* None of these has happened: "overlap" a switch began before the last one was
\* all over, "radio" a command to the modem failed or a teardown stopped before
\* it, "unanswered" the card obeyed a call that reported a failure, "guard" the
\* guard fired under a running switch, "live" a live read published during a
\* switch, "torn" the modem noticed the new profile under a live read, "refused"
\* the last projection of a switch gave up, "replaced" the worker was replaced.
Without(what) == spoiled \cap what = {}

\* The mark that a switch is running, which keeps VoWiFi recovery, SIM events and
\* policies away, is taken off by that switch, by the guard or with the worker,
\* never by the goroutine of an earlier switch.
MarkKept ==
    [][current # None =>
        \/ current' # None /\ current'.token \in {current.token, seq'}
        \/ worker' # worker \/ Orphaned \/ "guard" \in spoiled'
        \/ \E s \in Switches : /\ sw[s].token = current.token
                               /\ sw[s].pc # sw'[s].pc /\ sw'[s].pc \in {"undo", "done"}]_vars

\* An identity that is shown as ready is the card's, whatever was read from the
\* modem before it noticed the new profile.
IdentityHonest ==
    Without({"overlap", "unanswered", "torn", "replaced"}) /\ id.phase = "ready" => id.iccid = card

\* VoWiFi, which talks to the card, is down while the profile is changed: the
\* recovery of a wanted VoWiFi does not bring it back in between.
QuietCard ==
    \A s \in Switches : Without({"overlap", "guard"}) /\ sw[s].pc = "enable" => vowifi = "down"

\* A policy task that passes the check is for the card, however long ago and
\* under whatever switch its owner was captured.
PolicyFitsCard ==
    \A owner \in {task} \cup {sw[s].owner : s \in Switches} :
        /\ Without({"overlap", "unanswered", "torn", "replaced"})
        /\ owner # None /\ lock = None /\ ValidOwner(owner)
        => owner.iccid = card

\* A switch that confirmed its target has projected the target's policy before it
\* decides on VoWiFi, unless resolveAndApplyPolicy itself gave up: no task, guard
\* or recovery beside it takes the owner's validity away.  A live read that was torn may undo the target's identity,
\* but only once the guard has taken the mark away as well.
PolicyProjected ==
    \A s \in Switches :
        /\ Without({"overlap", "live", "refused", "replaced"}) /\ ~({"torn", "guard"} \subseteq spoiled)
        /\ sw[s].pc = "auth"
        => policy = sw[s].snap.target

\* The same when a live read finds the target first, as
\* TestPolicyAcceptsConfirmedESIMTarget says of validatePolicyOwner.
ConfirmedTargetApplied ==
    \A s \in Switches : Without({"overlap", "torn", "refused", "replaced"}) /\ sw[s].pc = "auth"
                            => policy = sw[s].snap.target

\* Once everything is quiet a device that was online before its last switch is
\* online, failures and degraded switches included, unless WiFi calling has the
\* radio or the SIM did not converge under RadioCycle.
RadioRestored ==
    \A s \in Switches :
        /\ Quiet /\ Without({"overlap", "radio", "guard", "replaced"})
        /\ vowifi = "down" /\ policy \notin config.vowifi
        /\ sw[s].token = seq /\ seq > 0 /\ ~sw[s].snap.flight
        /\ ~(config.cycle /\ sw[s].degraded)
        => radio = "online"

\* When the last goroutine is over, by whatever way out, the locks have been given
\* back and the mark is gone; only a worker replaced under it leaves the mark to
\* the guard.
NothingLeft == Over => lock = None /\ (Without({"replaced"}) => current = None)
=============================================================================
