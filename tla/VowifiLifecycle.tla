-------------------------- MODULE VowifiLifecycle --------------------------
(***************************************************************************)
(* The VoWiFi host of one device, internal/vowifihost: the lifecycle       *)
(* controller that serialises and preempts commands, the runtime store     *)
(* with its epochs, the multi-step start and teardown of a runtime, the    *)
(* release of a failed runtime, and the desired-state recovery slot.       *)
(*                                                                         *)
(* A task is one call: a lifecycle command, a scheduled recovery           *)
(* ("desired"), or a teardown on reconnect, which takes no runMu.  An      *)
(* action is what a task does under one hold of generationMu, stateLock or *)
(* the store's mutex, or one call to the modem; everything between two     *)
(* actions can interleave.  A runtime instance is named by the task that   *)
(* started it.  Every task is called at most once; a behaviour has one of  *)
(* the mixes of calls that Mixes lists.                                    *)
(***************************************************************************)
EXTENDS Naturals, FiniteSets

CONSTANTS
  Tasks,         \* the calls that may be made, each once
  Mixes,         \* which call each task is: the mixes of calls to consider
  None           \* nobody, or no instance

VARIABLES
  kind,          \* the mix of calls of this behaviour: kind[t] is which call t is
  generation, invalidation, runCancel, runMu,  \* deviceLifecycle
  epoch, starting, instance,                   \* runtimeSlot
  inFlight,      \* desiredRecoverState.inFlight
  switching,     \* Adapter.IsSwitching: an eSIM switch is under way
  live,          \* the runtimes that exist on the modem
  released,      \* where releaseFailedRuntime is, for each instance
  pc, result,    \* where each task is, and what it returned
  inv, gen, ep,  \* the invalidation, generation and epoch it works under
  canceled,      \* its run context is canceled
  target         \* the instance it is stopping

control == <<kind, generation, invalidation, runCancel>>
slot    == <<epoch, starting, instance>>
locals  == <<inv, gen, ep, target>>
others  == <<inFlight, switching, released>>
vars    == <<control, runMu, slot, others, live, pc, result, locals, canceled>>

Kinds == {"enable", "disable", "restart", "recover", "switchBegin", "switchEnd",
          "desired", "reconnect", "none"}

ASSUME LifecycleAssumption == Mixes \subseteq [Tasks -> Kinds] /\ None \notin Tasks

Preempting(t)  == kind[t] \in {"switchBegin", "restart"}
Recovering(t)  == kind[t] \in {"recover", "desired"}
Invalidating(t) == kind[t] \in {"disable", "restart", "reconnect"}

Init ==
  /\ kind \in Mixes
  /\ generation = 0 /\ invalidation = 0 /\ runCancel = None /\ runMu = None
  /\ epoch = 0 /\ starting = FALSE /\ instance = None
  /\ inFlight = FALSE /\ switching = FALSE
  /\ live = {} /\ released = [t \in Tasks |-> "no"]
  /\ pc = [t \in Tasks |-> "idle"] /\ result = [t \in Tasks |-> "none"]
  /\ inv = [t \in Tasks |-> 0] /\ gen = [t \in Tasks |-> 0] /\ ep = [t \in Tasks |-> 0]
  /\ canceled = [t \in Tasks |-> FALSE] /\ target = [t \in Tasks |-> None]

at(t, label)    == pc[t] = label
goto(t, label)  == pc' = [pc EXCEPT ![t] = label]

\* runCtx of whoever has installed its cancel function.
cancelRun == canceled' = [t \in Tasks |-> canceled[t] \/ t = runCancel]

\* The deferred calls of Submit run in reverse order: Submit clears its run before it
\* unlocks runMu, submitPreempting unlocks first.  A reconnect is no command.
unwind(t) ==
  IF kind[t] = "reconnect" THEN "returned"
  ELSE IF Preempting(t) THEN "unlock" ELSE "clear"

finish(t, r) ==
  /\ result' = [result EXCEPT ![t] = r]
  /\ goto(t, unwind(t))

stale(t) == gen[t] # 0 /\ generation # 0 /\ gen[t] # generation

-----------------------------------------------------------------------------
(* Invalidation *)

\* mutant: the running command is not canceled
InvalidateUncanceled ==
  /\ generation' = generation + 1 /\ invalidation' = invalidation + 1
  /\ inFlight' = FALSE
  /\ epoch' = epoch + 1 /\ starting' = FALSE
  /\ UNCHANGED canceled

\* Under one hold of stateLock: LifecycleController.Invalidate,
\* ClearDesiredRecoverState and Store.Invalidate.
InvalidateRuntime ==
  /\ generation' = generation + 1 /\ invalidation' = invalidation + 1
  /\ cancelRun
  /\ inFlight' = FALSE
  /\ epoch' = epoch + 1 /\ starting' = FALSE

\* Disable, Restart and TeardownForReconnect invalidate before anything else.
Invalidate(t) ==
  /\ at(t, "idle") /\ Invalidating(t)
  /\ InvalidateRuntime
  /\ inv' = [inv EXCEPT ![t] = invalidation + 1]
  /\ goto(t, IF kind[t] = "reconnect" THEN "stop" ELSE "capture")
  /\ UNCHANGED <<kind, runCancel, runMu, instance, switching, released, live, result,
                 gen, ep, target>>

\* ScheduleDesiredRecover: take the recovery slot under the current generation.
ScheduleDesiredRecover(t) ==
  /\ at(t, "idle") /\ kind[t] = "desired"
  /\ instance = None /\ ~starting /\ ~inFlight
  /\ inFlight' = TRUE
  /\ generation' = IF generation = 0 THEN 1 ELSE generation
  /\ gen' = [gen EXCEPT ![t] = generation']
  /\ goto(t, "capture")
  /\ UNCHANGED <<kind, invalidation, runCancel, runMu, slot, switching, released, live,
                 result, inv, ep, target, canceled>>

-----------------------------------------------------------------------------
(* LifecycleController.Submit *)

\* beginESIMSwitch marks the device before SwitchBegin is submitted, and a switch
\* ends only after it began.
mayCapture(t) ==
  \/ at(t, "capture")
  \/ /\ at(t, "idle") /\ ~Invalidating(t) /\ kind[t] \notin {"desired", "none"}
     /\ kind[t] = "switchEnd" =>
          \E s \in Tasks : kind[s] = "switchBegin" /\ at(s, "done")

Capture(t) ==
  /\ mayCapture(t)
  /\ inv' = [inv EXCEPT ![t] = invalidation]
  /\ switching' = (switching \/ kind[t] = "switchBegin")
  /\ goto(t, IF Preempting(t) THEN "bind" ELSE "lock")
  /\ UNCHANGED <<control, runMu, slot, inFlight, released, live, result, gen, ep,
                 target, canceled>>

Lock(t) ==
  /\ at(t, "lock") /\ runMu = None
  /\ runMu' = t
  /\ goto(t, "check")
  /\ UNCHANGED <<control, slot, others, live, result, locals, canceled>>

Check(t) ==
  /\ at(t, "check")
  /\ \/ invalidation # inv[t] /\ finish(t, "canceled")
     \/ /\ invalidation = inv[t]
        /\ stale(t) \/ (kind[t] = "enable" /\ instance # None)
        /\ finish(t, "skipped")
     \/ /\ invalidation = inv[t] /\ ~stale(t)
        /\ kind[t] = "enable" => instance = None
        /\ goto(t, "bind") /\ UNCHANGED result
  /\ UNCHANGED <<control, runMu, slot, others, live, locals, canceled>>

install(t) ==
  /\ runCancel' = t
  /\ IF gen[t] = 0
     THEN generation' = generation + 1 /\ gen' = [gen EXCEPT ![t] = generation + 1]
     ELSE UNCHANGED <<generation, gen>>
  /\ IF Preempting(t)
     THEN invalidation' = invalidation + 1 /\ cancelRun /\ goto(t, "wait")
     ELSE UNCHANGED <<invalidation, canceled>> /\ goto(t, "run")

\* bindCommandRun: check ownership, allocate the generation and install cancellation
\* together.  A retired command gets a canceled context, and takes runMu all the same.
bindCommandRun(t) ==
  /\ at(t, "bind")
  /\ \/ /\ invalidation # inv[t] \/ stale(t)
        /\ canceled' = [canceled EXCEPT ![t] = TRUE]
        /\ goto(t, IF Preempting(t) THEN "wait" ELSE "run")
        /\ UNCHANGED <<control, gen>>
     \/ /\ invalidation = inv[t] /\ ~stale(t)
        /\ install(t)
  /\ UNCHANGED <<kind, runMu, slot, others, live, result, inv, ep, target>>

\* mutant: a preempting command that was canceled while it waited is never let in
LockPreemptingLive(t) ==
  /\ at(t, "wait") /\ runMu = None /\ ~canceled[t]
  /\ runMu' = t
  /\ goto(t, "run")
  /\ UNCHANGED <<control, slot, others, live, result, locals, canceled>>

\* A preempting command owns the hardware only once the previous one has unwound.
LockPreempting(t) ==
  /\ at(t, "wait") /\ runMu = None
  /\ runMu' = t
  /\ goto(t, "run")
  /\ UNCHANGED <<control, slot, others, live, result, locals, canceled>>

\* Disable was invalidated by its caller; an internal teardown retires the epoch itself.
firstStep(t) ==
  IF kind[t] \in {"enable", "switchEnd"} THEN "enable"
  ELSE IF kind[t] = "disable" THEN "stop" ELSE "invalidate"

\* runLifecycleCommand, unless the run context is already canceled: a recovery does
\* nothing while a runtime is active or starting, a restart fails without a worker,
\* and TeardownForSwitch clears the recovery slot first.
Dispatch(t) ==
  /\ at(t, "run")
  /\ \/ canceled[t] /\ finish(t, "canceled") /\ UNCHANGED inFlight
     \/ /\ ~canceled[t] /\ Recovering(t) /\ (instance # None \/ starting)
        /\ finish(t, "ok") /\ UNCHANGED inFlight
     \/ ~canceled[t] /\ kind[t] = "restart" /\ finish(t, "noWorker") /\ UNCHANGED inFlight
     \/ /\ ~canceled[t]
        /\ Recovering(t) => instance = None /\ ~starting
        /\ goto(t, firstStep(t))
        /\ inFlight' = (inFlight /\ kind[t] # "switchBegin")
        /\ UNCHANGED result
  /\ UNCHANGED <<control, runMu, slot, switching, released, live, locals, canceled>>

-----------------------------------------------------------------------------
(* TeardownSession *)

\* invalidateRuntimeState: retire the epoch without canceling the own command.
InvalidateState(t) ==
  /\ at(t, "invalidate")
  /\ epoch' = epoch + 1 /\ starting' = FALSE
  /\ goto(t, "stop")
  /\ UNCHANGED <<control, runMu, instance, others, live, result, locals, canceled>>

afterTeardown(t) == IF kind[t] = "restart" \/ Recovering(t) THEN "enable" ELSE "stopped"

StopInstance(t) ==
  /\ at(t, "stop")
  /\ target' = [target EXCEPT ![t] = instance]
  /\ goto(t, IF instance = None THEN afterTeardown(t) ELSE "stopping")
  /\ UNCHANGED <<control, runMu, slot, others, live, result, inv, gen, ep, canceled>>

InstanceStopped(t) ==
  /\ at(t, "stopping")
  /\ live' = live \ {target[t]}
  /\ goto(t, "delete")
  /\ UNCHANGED <<control, runMu, slot, others, result, locals, canceled>>

DeleteInstance(t) ==
  /\ at(t, "delete")
  /\ IF instance = target[t] THEN instance' = None /\ starting' = FALSE
     ELSE UNCHANGED <<instance, starting>>
  /\ goto(t, afterTeardown(t))
  /\ UNCHANGED <<control, runMu, epoch, others, live, result, locals, canceled>>

Stopped(t) ==
  /\ at(t, "stopped")
  /\ finish(t, "ok")
  /\ UNCHANGED <<control, runMu, slot, others, live, locals, canceled>>

-----------------------------------------------------------------------------
(* enableWhenReady, enableRuntime and StartRuntime *)

\* WaitQMICoreReady or WaitWorkerReady fails, the context is done, or the device is
\* switching cards.
EnableRefused(t) ==
  /\ at(t, "enable")
  /\ kind[t] \notin {"enable", "switchEnd"} \/ (switching /\ kind[t] # "switchEnd")
  /\ finish(t, "failed")
  /\ UNCHANGED <<control, runMu, slot, others, live, locals, canceled>>

\* mutant: nobody asks whether the card is being switched
EnableReadySwitching(t) ==
  /\ at(t, "enable")
  /\ goto(t, "begin")
  /\ UNCHANGED <<control, runMu, slot, others, live, result, locals, canceled>>

EnableReady(t) ==
  /\ at(t, "enable")
  /\ switching => kind[t] = "switchEnd"
  /\ goto(t, "begin")
  /\ UNCHANGED <<control, runMu, slot, others, live, result, locals, canceled>>

claimStart(t) ==
  /\ starting' = TRUE /\ epoch' = epoch + 1
  /\ ep' = [ep EXCEPT ![t] = epoch + 1]
  /\ goto(t, "prepare")
  /\ UNCHANGED result

beginRuntimeStart(t) ==
  /\ at(t, "begin")
  /\ \/ /\ canceled[t] \/ instance # None \/ starting
        /\ finish(t, IF canceled[t] THEN "canceled"
                     ELSE IF instance # None THEN "ok" ELSE "failed")
        /\ UNCHANGED <<epoch, starting, ep>>
     \/ ~canceled[t] /\ instance = None /\ ~starting /\ claimStart(t)
  /\ UNCHANGED <<control, runMu, instance, others, live, inv, gen, target, canceled>>

shouldRun(t) == ~canceled[t] /\ epoch = ep[t]

\* PrepareStart may fail; a retired start goes no further.
Prepare(t) ==
  /\ at(t, "prepare")
  /\ \/ goto(t, "fail")
     \/ shouldRun(t) /\ goto(t, "launch")
  /\ UNCHANGED <<control, runMu, slot, others, live, result, locals, canceled>>

\* BeforeStart and runtimehost.Start: from here on the runtime exists.
Launch(t) ==
  /\ at(t, "launch")
  /\ \/ ~shouldRun(t) /\ goto(t, "fail") /\ UNCHANGED live
     \/ shouldRun(t) /\ goto(t, "launching") /\ live' = live \cup {t}
  /\ UNCHANGED <<control, runMu, slot, others, result, locals, canceled>>

LaunchReturns(t) ==
  /\ at(t, "launching")
  /\ \/ goto(t, "fail") /\ live' = live \ {t}
     \/ canceled[t] /\ goto(t, "drop") /\ UNCHANGED live
     \/ ~canceled[t] /\ goto(t, "claim") /\ UNCHANGED live
  /\ UNCHANGED <<control, runMu, slot, others, result, locals, canceled>>

\* mutant: the store does not compare epochs
ClaimAnyEpoch(t) ==
  /\ at(t, "claim")
  /\ \/ /\ instance = None
        /\ instance' = t /\ starting' = FALSE
        /\ finish(t, "ok")
     \/ /\ instance # None
        /\ goto(t, "drop")
        /\ UNCHANGED <<instance, starting, result>>
  /\ UNCHANGED <<control, runMu, epoch, others, live, locals, canceled>>

ClaimStarted(t) ==
  /\ at(t, "claim")
  /\ \/ /\ epoch = ep[t] /\ instance = None
        /\ instance' = t /\ starting' = FALSE
        /\ finish(t, "ok")
     \/ /\ epoch # ep[t] \/ instance # None
        /\ goto(t, "drop")
        /\ UNCHANGED <<instance, starting, result>>
  /\ UNCHANGED <<control, runMu, epoch, others, live, locals, canceled>>

\* mutant: a start result that came too late is forgotten
DropForgotten(t) ==
  /\ at(t, "drop")
  /\ finish(t, "stale")
  /\ UNCHANGED <<control, runMu, slot, others, live, locals, canceled>>

\* The start came too late: stop the own instance.  FailStart is not called.
Drop(t) ==
  /\ at(t, "drop")
  /\ live' = live \ {t}
  /\ finish(t, "stale")
  /\ UNCHANGED <<control, runMu, slot, others, locals, canceled>>

\* mutant: the claim of a failed start is kept
FailStartKept(t) ==
  /\ at(t, "fail")
  /\ finish(t, IF canceled[t] THEN "canceled" ELSE "failed")
  /\ UNCHANGED <<control, runMu, slot, others, live, locals, canceled>>

FailStart(t) ==
  /\ at(t, "fail")
  /\ starting' = (starting /\ epoch # ep[t])
  /\ finish(t, IF canceled[t] THEN "canceled" ELSE "failed")
  /\ UNCHANGED <<control, runMu, epoch, instance, others, live, locals, canceled>>

-----------------------------------------------------------------------------
(* Unwinding and reporting *)

ClearRun(t) ==
  /\ at(t, "clear")
  /\ runCancel' = IF runCancel = t THEN None ELSE runCancel
  /\ goto(t, IF runMu = t THEN "unlock" ELSE "returned")
  /\ UNCHANGED <<kind, generation, invalidation, runMu, slot, others, live, result, locals,
                 canceled>>

Unlock(t) ==
  /\ at(t, "unlock")
  /\ runMu' = None
  /\ goto(t, IF runCancel = t THEN "clear" ELSE "returned")
  /\ UNCHANGED <<control, slot, others, live, result, locals, canceled>>

\* Submit has returned; a scheduled recovery reports its result (which frees the
\* slot) if its generation is still current, and the end of a switch ends it.
Return(t) ==
  /\ at(t, "returned")
  /\ inFlight' = (inFlight /\ ~(kind[t] = "desired" /\ generation = gen[t]))
  /\ switching' = (switching /\ kind[t] # "switchEnd")
  /\ goto(t, "done")
  /\ UNCHANGED <<control, runMu, slot, released, live, result, locals, canceled>>

-----------------------------------------------------------------------------
(* A runtime fails on its own *)

\* runtimeStateObserver: a terminal state of the current instance.
RuntimeFails(i) ==
  /\ instance = i /\ epoch = ep[i] /\ released[i] = "no"
  /\ released' = [released EXCEPT ![i] = "failed"]
  /\ UNCHANGED <<control, runMu, slot, inFlight, switching, live, pc, result, locals, canceled>>

\* releaseFailedRuntime, under stateLock: only the current instance is taken out.
releaseFailedRuntime(i) ==
  /\ released[i] = "failed"
  /\ \/ /\ instance = i
        /\ InvalidateRuntime
        /\ instance' = None
        /\ released' = [released EXCEPT ![i] = "stopping"]
     \/ /\ instance # i
        /\ released' = [released EXCEPT ![i] = "done"]
        /\ UNCHANGED <<generation, invalidation, slot, inFlight, canceled>>
  /\ UNCHANGED <<kind, runCancel, runMu, switching, live, pc, result, locals>>

FailedRuntimeStopped(i) ==
  /\ released[i] = "stopping"
  /\ live' = live \ {i}
  /\ released' = [released EXCEPT ![i] = "done"]
  /\ UNCHANGED <<control, runMu, slot, inFlight, switching, pc, result, locals, canceled>>

-----------------------------------------------------------------------------
submitStep(t) ==
  \/ Capture(t) \/ Lock(t) \/ Check(t) \/ bindCommandRun(t) \/ LockPreempting(t)
  \/ Dispatch(t) \/ ClearRun(t) \/ Unlock(t) \/ Return(t)

runStep(t) ==
  \/ InvalidateState(t) \/ StopInstance(t) \/ InstanceStopped(t) \/ DeleteInstance(t)
  \/ Stopped(t) \/ EnableRefused(t) \/ EnableReady(t) \/ beginRuntimeStart(t)
  \/ Prepare(t) \/ Launch(t) \/ LaunchReturns(t) \/ ClaimStarted(t) \/ Drop(t)
  \/ FailStart(t)

releaseStep(i) == releaseFailedRuntime(i) \/ FailedRuntimeStopped(i)

Next ==
  \E t \in Tasks :
    \/ Invalidate(t) \/ ScheduleDesiredRecover(t)
    \/ submitStep(t) \/ runStep(t)
    \/ RuntimeFails(t) \/ releaseStep(t)

Spec == Init /\ [][Next]_vars

\* A call that was made goes on: calls to the modem end (they carry deadlines),
\* mutexes are handed over, and goroutines are scheduled.
FairSpec ==
  /\ Spec
  /\ \A t \in Tasks :
       /\ WF_vars(~at(t, "idle") /\ (submitStep(t) \/ runStep(t)))
       /\ WF_vars(releaseStep(t))

-----------------------------------------------------------------------------
(* Properties *)

Labels ==
  {"idle", "capture", "lock", "check", "bind", "wait", "run", "invalidate", "stop",
   "stopping", "delete", "stopped", "enable", "begin", "prepare", "launch",
   "launching", "claim", "drop", "fail", "clear", "unlock", "returned", "done"}

\* Every variable has its type; the runtime slot of the store holds a runtime whose
\* start returned success, and runMu is only held by a command.
TypeOK ==
  /\ kind \in [Tasks -> Kinds]
  /\ {generation, invalidation, epoch} \subseteq Nat
  /\ {runCancel, runMu, instance} \subseteq Tasks \cup {None}
  /\ {starting, inFlight, switching} \subseteq BOOLEAN
  /\ live \subseteq Tasks
  /\ released \in [Tasks -> {"no", "failed", "stopping", "done"}]
  /\ pc \in [Tasks -> Labels]
  /\ result \in [Tasks -> {"none", "ok", "skipped", "canceled", "failed", "stale", "noWorker"}]
  /\ {inv, gen, ep} \subseteq [Tasks -> Nat]
  /\ canceled \in [Tasks -> BOOLEAN]
  /\ target \in [Tasks -> Tasks \cup {None}]
  /\ instance # None => result[instance] = "ok"
  /\ runMu # None => pc[runMu] \notin {"idle", "capture", "lock", "wait", "returned", "done"}

\* Somebody will stop runtime i, or it can be found in the store.
accounted(i) ==
  \/ instance = i
  \/ pc[i] \in {"launching", "claim", "drop"}
  \/ released[i] = "stopping"
  \/ \E t \in Tasks : at(t, "stopping") /\ target[t] = i

\* No interleaving of starts, teardowns and failures leaves a runtime that runs on the
\* modem while nobody holds it: StartRuntime stops an instance it may not claim, and
\* DeleteInstance only follows Stop.
NoOrphan == \A i \in live : accounted(i)

\* The first invalidation version that is after the boundary which d drew.
boundary(d) == IF kind[d] = "switchBegin" THEN inv[d] + 1 ELSE inv[d]

\* Once Disable, SwitchBegin or TeardownForReconnect has returned, the runtime in the
\* store was asked for after that call: no start that was running or queued when the
\* device was taken away may install its runtime afterwards.
OwnershipBoundary ==
  \A d \in Tasks :
    /\ kind[d] \in {"disable", "switchBegin", "reconnect"}
    /\ at(d, "done") /\ result[d] = "ok"
    /\ instance # None
    => inv[instance] >= boundary(d)

\* From the return of SwitchBegin to SwitchEnd the card belongs to the eSIM switch: no
\* runtime that could use it exists, whatever else was asked for in the meantime.
\* (SwitchBegin does not wait for a failed runtime that is still being stopped.)
CardReleased ==
  \A s, e \in Tasks :
    /\ kind[s] = "switchBegin" /\ at(s, "done") /\ result[s] = "ok"
    /\ kind[e] = "switchEnd" /\ at(e, "idle")
    => \A i \in live : released[i] = "stopping"

\* The command that owns the hardware has a canceled context as soon as somebody else
\* has drawn an ownership boundary after it was submitted: Invalidate and a preempting
\* command reach whoever is running, so that a Disable or a card switch never waits for
\* a start that nobody told to give up.
InvalidationCancels ==
  \A t \in Tasks :
    /\ runMu = t /\ pc[t] \notin {"lock", "check", "bind", "clear", "unlock"}
    /\ invalidation > IF Preempting(t) THEN inv[t] + 1 ELSE inv[t]
    => canceled[t]

\* The part of it that no mix of calls breaks: a command that takes turns is always
\* reached, although preempting commands, who wait for runMu beside it, share its one
\* runCancel slot.
OrdinaryCanceled ==
  \A t \in Tasks :
    /\ runMu = t /\ pc[t] \notin {"lock", "check", "bind", "clear", "unlock"}
    /\ ~Preempting(t) /\ invalidation > inv[t]
    => canceled[t]

\* The "starting" mark of the slot always has a start behind it that will take it
\* away, or a preempting command that will: a mark left behind would refuse every
\* later Enable and make every Recover do nothing.  (Without a worker nothing can be
\* started at all, and removing the worker disables the device.)
StartingHasOwner ==
  starting =>
    \E t \in Tasks :
      \/ ep[t] = epoch /\ pc[t] \in {"prepare", "launch", "launching", "claim", "fail"}
      \/ Preempting(t) /\ ~canceled[t] /\ pc[t] \in {"wait", "run", "invalidate"}
      \/ result[t] = "noWorker"

\* Every call that was made returns: preemption and invalidation never leave a command
\* waiting for runMu for ever.  A task makes one call, so nobody is on the way again
\* and again.
EveryCallReturns == []<>(\A t \in Tasks : at(t, "idle") \/ at(t, "done"))
=============================================================================
