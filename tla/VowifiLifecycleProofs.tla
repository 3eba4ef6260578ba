----------------------- MODULE VowifiLifecycleProofs -----------------------
(***************************************************************************)
(* What the lifecycle guarantees for any set of calls and any mix of       *)
(* kinds: no runtime is lost, no "starting" mark is left behind, the card  *)
(* is free while a switch has it, and, without Restart, no start survives  *)
(* the call that takes the device away.                                    *)
(*                                                                         *)
(* NoOrphan is not inductive: DeleteInstance takes an instance out of the  *)
(* store, which loses nobody only because that instance has been stopped   *)
(* and cannot be launched again.  The strengthening says so: a runtime     *)
(* that is in the store or that somebody is stopping belongs to a call     *)
(* which is past its start (Unwound), and one that somebody is about to    *)
(* delete is no longer live.                                               *)
(*                                                                         *)
(* The others rest on runMu: Mutex says who holds it, and everything that  *)
(* must not happen between two steps of its holder follows.  Each layer of *)
(* the invariant has one lemma, with one step for each action.             *)
(***************************************************************************)
EXTENDS VowifiLifecycle, TLAPS

Unwound == {"clear", "unlock", "returned", "done"}

\* The variables that say where the calls and the runtimes are keep their types.
Shape ==
  /\ pc \in [Tasks -> Labels]
  /\ target \in [Tasks -> Tasks \cup {None}]
  /\ released \in [Tasks -> {"no", "failed", "stopping", "done"}]
  /\ instance \in Tasks \cup {None}
  /\ live \subseteq Tasks

\* A runtime that is being stopped or deleted was started by a call that has unwound.
TargetsUnwound ==
  \A t \in Tasks :
    pc[t] \in {"stopping", "delete"} => target[t] \in Tasks /\ pc[target[t]] \in Unwound

\* DeleteInstance follows Stop.
DeletedIsStopped == \A t \in Tasks : pc[t] = "delete" => target[t] \notin live

\* The runtime in the store was started by a call that has unwound.
InstanceUnwound == instance # None => pc[instance] \in Unwound

HeldInv == Shape /\ NoOrphan /\ TargetsUnwound /\ DeletedIsStopped /\ InstanceUnwound

(***************************************************************************)
(* A step in which one call moves on outside the phases that handle a      *)
(* runtime, and no runtime is touched, keeps the invariant.                *)
(***************************************************************************)
Walk ==
  Labels \ {"launching", "claim", "drop", "stopping", "delete"}

\* What such a step of call t does: only its label changes, and only forwards.
walks(t) ==
  /\ \E l \in Walk : pc' = [pc EXCEPT ![t] = l] /\ (pc[t] \in Unwound => l \in Unwound)
  /\ pc[t] \in Walk
  /\ UNCHANGED <<target, released, instance, live>>

\* A step that only walks on keeps the invariant behind NoOrphan.
LEMMA WalkKeepsInv ==
  ASSUME HeldInv, NEW t \in Tasks, walks(t), LifecycleAssumption
  PROVE  HeldInv'
<1> USE DEF HeldInv
<1>1. PICK l \in Walk : pc' = [pc EXCEPT ![t] = l] /\ (pc[t] \in Unwound => l \in Unwound)
  BY DEF walks
<1>2. Shape'
  BY <1>1 DEF walks, Shape, Walk
<1>3. NoOrphan'
  BY <1>1 DEF walks, Shape, NoOrphan, accounted, at, Walk
<1>4. TargetsUnwound'
  BY <1>1 DEF walks, Shape, TargetsUnwound, Walk, Unwound
<1>5. DeletedIsStopped'
  BY <1>1 DEF walks, Shape, DeletedIsStopped, Walk
<1>6. InstanceUnwound'
  BY <1>1 DEF walks, Shape, InstanceUnwound, LifecycleAssumption
<1> QED BY <1>2, <1>3, <1>4, <1>5, <1>6

\* The steps that touch neither runtimes nor the store's slot only walk on.
LEMMA StepsThatWalk ==
  ASSUME HeldInv, NEW t \in Tasks, LifecycleAssumption,
         \/ Invalidate(t) \/ ScheduleDesiredRecover(t)
         \/ Capture(t) \/ Lock(t) \/ Check(t) \/ bindCommandRun(t) \/ LockPreempting(t)
         \/ Dispatch(t) \/ ClearRun(t) \/ Unlock(t) \/ Return(t)
         \/ InvalidateState(t) \/ Stopped(t) \/ EnableRefused(t) \/ EnableReady(t)
         \/ beginRuntimeStart(t) \/ Prepare(t) \/ FailStart(t)
  PROVE  walks(t)
<1> USE DEF HeldInv, Shape, walks, at, goto, Walk, Labels, Unwound, slot, others, locals, control
<1>1. CASE Invalidate(t)
  BY <1>1 DEF Invalidate, InvalidateRuntime
<1>2. CASE ScheduleDesiredRecover(t)
  BY <1>2 DEF ScheduleDesiredRecover
<1>3. CASE Capture(t)
  BY <1>3 DEF Capture, mayCapture
<1>4. CASE Lock(t) \/ LockPreempting(t)
  BY <1>4 DEF Lock, LockPreempting
<1>5. CASE Check(t)
  BY <1>5 DEF Check, finish, unwind
<1>6. CASE bindCommandRun(t)
  BY <1>6 DEF bindCommandRun, install
<1>7. CASE Dispatch(t)
  BY <1>7 DEF Dispatch, finish, unwind, firstStep
<1>8. CASE ClearRun(t) \/ Unlock(t) \/ Return(t)
  BY <1>8 DEF ClearRun, Unlock, Return
<1>9. CASE InvalidateState(t) \/ Stopped(t)
  BY <1>9 DEF InvalidateState, Stopped, finish, unwind
<1>10. CASE EnableRefused(t) \/ EnableReady(t)
  BY <1>10 DEF EnableRefused, EnableReady, finish, unwind
<1>11. CASE beginRuntimeStart(t)
  BY <1>11 DEF beginRuntimeStart, claimStart, finish, unwind
<1>12. CASE Prepare(t) \/ FailStart(t)
  BY <1>12 DEF Prepare, FailStart, finish, unwind
<1> QED BY <1>1, <1>2, <1>3, <1>4, <1>5, <1>6, <1>7, <1>8, <1>9, <1>10, <1>11, <1>12

\* The steps that start, stop, store or delete a runtime keep that invariant.
LEMMA StepsThatHandle ==
  ASSUME HeldInv, NEW t \in Tasks, LifecycleAssumption,
         \/ StopInstance(t) \/ InstanceStopped(t) \/ DeleteInstance(t)
         \/ Launch(t) \/ LaunchReturns(t) \/ ClaimStarted(t) \/ Drop(t)
         \/ RuntimeFails(t) \/ releaseFailedRuntime(t) \/ FailedRuntimeStopped(t)
  PROVE  HeldInv'
<1> USE DEF HeldInv, Shape, at, goto, slot, others, locals, control
<1>1. CASE StopInstance(t)
  <2>1. Shape'
    BY <1>1 DEF StopInstance, afterTeardown, InstanceUnwound, LifecycleAssumption, Labels, Unwound
  <2>2. NoOrphan'
    BY <1>1 DEF StopInstance, afterTeardown, InstanceUnwound, LifecycleAssumption, NoOrphan, accounted
  <2>3. TargetsUnwound'
    BY <1>1 DEF StopInstance, afterTeardown, InstanceUnwound, LifecycleAssumption, TargetsUnwound, Unwound
  <2>4. DeletedIsStopped'
    BY <1>1 DEF StopInstance, afterTeardown, InstanceUnwound, LifecycleAssumption, DeletedIsStopped, TargetsUnwound, Unwound
  <2>5. InstanceUnwound'
    BY <1>1 DEF StopInstance, afterTeardown, InstanceUnwound, LifecycleAssumption, InstanceUnwound, Unwound
  <2> QED BY <2>1, <2>2, <2>3, <2>4, <2>5
<1>2. CASE InstanceStopped(t)
  <2>1. Shape'
    BY <1>2 DEF InstanceStopped, LifecycleAssumption, Labels, Unwound
  <2>2. NoOrphan'
    BY <1>2 DEF InstanceStopped, LifecycleAssumption, NoOrphan, accounted
  <2>3. TargetsUnwound'
    BY <1>2 DEF InstanceStopped, LifecycleAssumption, TargetsUnwound, Unwound
  <2>4. DeletedIsStopped'
    BY <1>2 DEF InstanceStopped, LifecycleAssumption, DeletedIsStopped, TargetsUnwound, Unwound
  <2>5. InstanceUnwound'
    BY <1>2 DEF InstanceStopped, LifecycleAssumption, InstanceUnwound, Unwound
  <2> QED BY <2>1, <2>2, <2>3, <2>4, <2>5
<1>3. CASE DeleteInstance(t)
  <2>1. Shape'
    BY <1>3 DEF DeleteInstance, afterTeardown, DeletedIsStopped, LifecycleAssumption, Labels, Unwound
  <2>2. NoOrphan'
    BY <1>3 DEF DeleteInstance, afterTeardown, DeletedIsStopped, LifecycleAssumption, NoOrphan, accounted
  <2>3. TargetsUnwound'
    BY <1>3 DEF DeleteInstance, afterTeardown, DeletedIsStopped, LifecycleAssumption, TargetsUnwound, Unwound
  <2>4. DeletedIsStopped'
    BY <1>3 DEF DeleteInstance, afterTeardown, DeletedIsStopped, LifecycleAssumption, DeletedIsStopped, TargetsUnwound, Unwound
  <2>5. InstanceUnwound'
    BY <1>3 DEF DeleteInstance, afterTeardown, DeletedIsStopped, LifecycleAssumption, InstanceUnwound, Unwound
  <2> QED BY <2>1, <2>2, <2>3, <2>4, <2>5
<1>4. CASE Launch(t)
  <2>1. Shape'
    BY <1>4 DEF Launch, shouldRun, LifecycleAssumption, Labels, Unwound
  <2>2. NoOrphan'
    BY <1>4 DEF Launch, shouldRun, LifecycleAssumption, NoOrphan, accounted
  <2>3. TargetsUnwound'
    BY <1>4 DEF Launch, shouldRun, LifecycleAssumption, TargetsUnwound, Unwound
  <2>4. DeletedIsStopped'
    BY <1>4 DEF Launch, shouldRun, LifecycleAssumption, DeletedIsStopped, TargetsUnwound, Unwound
  <2>5. InstanceUnwound'
    BY <1>4 DEF Launch, shouldRun, LifecycleAssumption, InstanceUnwound, Unwound
  <2> QED BY <2>1, <2>2, <2>3, <2>4, <2>5
<1>5. CASE LaunchReturns(t)
  <2>1. Shape'
    BY <1>5 DEF LaunchReturns, LifecycleAssumption, Labels, Unwound
  <2>2. NoOrphan'
    BY <1>5 DEF LaunchReturns, LifecycleAssumption, NoOrphan, accounted
  <2>3. TargetsUnwound'
    BY <1>5 DEF LaunchReturns, LifecycleAssumption, TargetsUnwound, Unwound
  <2>4. DeletedIsStopped'
    BY <1>5 DEF LaunchReturns, LifecycleAssumption, DeletedIsStopped, TargetsUnwound, Unwound
  <2>5. InstanceUnwound'
    BY <1>5 DEF LaunchReturns, LifecycleAssumption, InstanceUnwound, Unwound
  <2> QED BY <2>1, <2>2, <2>3, <2>4, <2>5
<1>6. CASE ClaimStarted(t)
  <2>1. Shape'
    BY <1>6 DEF ClaimStarted, finish, unwind, LifecycleAssumption, Labels, Unwound
  <2>2. NoOrphan'
    BY <1>6 DEF ClaimStarted, finish, unwind, LifecycleAssumption, NoOrphan, accounted
  <2>3. TargetsUnwound'
    BY <1>6 DEF ClaimStarted, finish, unwind, LifecycleAssumption, TargetsUnwound, Unwound
  <2>4. DeletedIsStopped'
    BY <1>6 DEF ClaimStarted, finish, unwind, LifecycleAssumption, DeletedIsStopped, TargetsUnwound, Unwound
  <2>5. InstanceUnwound'
    BY <1>6 DEF ClaimStarted, finish, unwind, LifecycleAssumption, InstanceUnwound, Unwound
  <2> QED BY <2>1, <2>2, <2>3, <2>4, <2>5
<1>7. CASE Drop(t)
  <2>1. Shape'
    BY <1>7 DEF Drop, finish, unwind, LifecycleAssumption, Labels, Unwound
  <2>2. NoOrphan'
    BY <1>7 DEF Drop, finish, unwind, LifecycleAssumption, NoOrphan, accounted
  <2>3. TargetsUnwound'
    BY <1>7 DEF Drop, finish, unwind, LifecycleAssumption, TargetsUnwound, Unwound
  <2>4. DeletedIsStopped'
    BY <1>7 DEF Drop, finish, unwind, LifecycleAssumption, DeletedIsStopped, TargetsUnwound, Unwound
  <2>5. InstanceUnwound'
    BY <1>7 DEF Drop, finish, unwind, LifecycleAssumption, InstanceUnwound, Unwound
  <2> QED BY <2>1, <2>2, <2>3, <2>4, <2>5
<1>8. CASE RuntimeFails(t)
  <2>1. Shape'
    BY <1>8 DEF RuntimeFails, LifecycleAssumption, Labels, Unwound
  <2>2. NoOrphan'
    BY <1>8 DEF RuntimeFails, LifecycleAssumption, NoOrphan, accounted
  <2>3. TargetsUnwound'
    BY <1>8 DEF RuntimeFails, LifecycleAssumption, TargetsUnwound, Unwound
  <2>4. DeletedIsStopped'
    BY <1>8 DEF RuntimeFails, LifecycleAssumption, DeletedIsStopped, TargetsUnwound, Unwound
  <2>5. InstanceUnwound'
    BY <1>8 DEF RuntimeFails, LifecycleAssumption, InstanceUnwound, Unwound
  <2> QED BY <2>1, <2>2, <2>3, <2>4, <2>5
<1>9. CASE releaseFailedRuntime(t)
  <2>1. Shape'
    BY <1>9 DEF releaseFailedRuntime, InvalidateRuntime, LifecycleAssumption, Labels, Unwound
  <2>2. NoOrphan'
    BY <1>9 DEF releaseFailedRuntime, InvalidateRuntime, LifecycleAssumption, NoOrphan, accounted
  <2>3. TargetsUnwound'
    BY <1>9 DEF releaseFailedRuntime, InvalidateRuntime, LifecycleAssumption, TargetsUnwound, Unwound
  <2>4. DeletedIsStopped'
    BY <1>9 DEF releaseFailedRuntime, InvalidateRuntime, LifecycleAssumption, DeletedIsStopped, TargetsUnwound, Unwound
  <2>5. InstanceUnwound'
    BY <1>9 DEF releaseFailedRuntime, InvalidateRuntime, LifecycleAssumption, InstanceUnwound, Unwound
  <2> QED BY <2>1, <2>2, <2>3, <2>4, <2>5
<1>10. CASE FailedRuntimeStopped(t)
  <2>1. Shape'
    BY <1>10 DEF FailedRuntimeStopped, LifecycleAssumption, Labels, Unwound
  <2>2. NoOrphan'
    BY <1>10 DEF FailedRuntimeStopped, LifecycleAssumption, NoOrphan, accounted
  <2>3. TargetsUnwound'
    BY <1>10 DEF FailedRuntimeStopped, LifecycleAssumption, TargetsUnwound, Unwound
  <2>4. DeletedIsStopped'
    BY <1>10 DEF FailedRuntimeStopped, LifecycleAssumption, DeletedIsStopped, TargetsUnwound, Unwound
  <2>5. InstanceUnwound'
    BY <1>10 DEF FailedRuntimeStopped, LifecycleAssumption, InstanceUnwound, Unwound
  <2> QED BY <2>1, <2>2, <2>3, <2>4, <2>5
<1> QED BY <1>1, <1>2, <1>3, <1>4, <1>5, <1>6, <1>7, <1>8, <1>9, <1>10

(***************************************************************************)
(* The strengthened invariant holds of the lifecycle, for any set of calls *)
(* and any assignment of kinds to them.                                    *)
(***************************************************************************)
THEOREM LifecycleInvariant == Spec => []HeldInv
<1>1. Init => HeldInv
  BY LifecycleAssumption
     DEF Init, HeldInv, Shape, Labels, NoOrphan, TargetsUnwound, DeletedIsStopped, InstanceUnwound
<1>2. HeldInv /\ [Next]_vars => HeldInv'
  <2> SUFFICES ASSUME HeldInv, [Next]_vars PROVE HeldInv'
    OBVIOUS
  <2>1. CASE UNCHANGED vars
    BY <2>1 DEF vars, control, slot, locals, others, HeldInv, Shape, NoOrphan, accounted, at,
                TargetsUnwound, DeletedIsStopped, InstanceUnwound
  <2>2. ASSUME NEW t \in Tasks,
               \/ Invalidate(t) \/ ScheduleDesiredRecover(t)
               \/ submitStep(t) \/ runStep(t)
               \/ RuntimeFails(t) \/ releaseStep(t)
        PROVE  HeldInv'
    BY <2>2, StepsThatWalk, StepsThatHandle, WalkKeepsInv, LifecycleAssumption
       DEF submitStep, runStep, releaseStep
  <2> QED BY <2>1, <2>2 DEF Next
<1> QED BY <1>1, <1>2, PTL DEF Spec

(***************************************************************************)
(* Whatever calls interleave and wherever starts are canceled, retired or  *)
(* fail, every runtime on the modem is in the store or somebody is about   *)
(* to stop it.                                                             *)
(***************************************************************************)
THEOREM LifecycleNoOrphan == Spec => []NoOrphan
BY LifecycleInvariant, PTL DEF HeldInv

-----------------------------------------------------------------------------
(* Types and the run lock *)

\* Every variable has its type.
Types ==
  /\ kind \in [Tasks -> Kinds]
  /\ generation \in Nat /\ invalidation \in Nat /\ epoch \in Nat
  /\ runCancel \in Tasks \cup {None} /\ runMu \in Tasks \cup {None}
  /\ result \in [Tasks -> {"none", "ok", "skipped", "canceled", "failed", "stale", "noWorker"}]
  /\ inv \in [Tasks -> Nat] /\ gen \in [Tasks -> Nat] /\ ep \in [Tasks -> Nat]
  /\ DOMAIN canceled = Tasks
  /\ Shape

Booleans ==
  /\ starting \in BOOLEAN /\ inFlight \in BOOLEAN /\ switching \in BOOLEAN
  /\ canceled \in [Tasks -> BOOLEAN]

\* What call t does next, or what becomes of its runtime.
step(t) ==
  \/ Invalidate(t) \/ ScheduleDesiredRecover(t)
  \/ submitStep(t) \/ runStep(t)
  \/ RuntimeFails(t) \/ releaseStep(t)

\* Every step keeps the types.
LEMMA StepTypes ==
  ASSUME Types, NEW t \in Tasks, step(t)
  PROVE  Types'
<1> USE LifecycleAssumption
        DEF Types, Shape, at, goto, finish, unwind, control, slot, others, locals, Labels,
            InvalidateRuntime, Kinds, LifecycleAssumption
<1>0. cancelRun => DOMAIN canceled' = Tasks
  BY DEF cancelRun
<1>1. CASE Invalidate(t)
  BY <1>0, <1>1 DEF Invalidate
<1>11. CASE ScheduleDesiredRecover(t)
  BY <1>11 DEF ScheduleDesiredRecover
<1>12. CASE Capture(t)
  BY <1>12 DEF Capture
<1>2. CASE Lock(t) \/ LockPreempting(t) \/ Check(t)
  BY <1>2 DEF Lock, LockPreempting, Check
<1>3. CASE bindCommandRun(t)
  BY <1>0, <1>3 DEF bindCommandRun, install
<1>4. CASE Dispatch(t)
  BY <1>4 DEF Dispatch, firstStep
<1>5. CASE ClearRun(t) \/ Unlock(t) \/ Return(t)
  BY <1>5 DEF ClearRun, Unlock, Return
<1>6. CASE InvalidateState(t) \/ InstanceStopped(t) \/ Stopped(t)
  BY <1>6 DEF InvalidateState, InstanceStopped, Stopped
<1>13. CASE StopInstance(t)
  BY <1>13 DEF StopInstance, afterTeardown
<1>14. CASE DeleteInstance(t)
  BY <1>14 DEF DeleteInstance, afterTeardown
<1>7. CASE EnableRefused(t) \/ EnableReady(t)
  BY <1>7 DEF EnableRefused, EnableReady
<1>15. CASE beginRuntimeStart(t)
  BY <1>15 DEF beginRuntimeStart, claimStart
<1>8. CASE Prepare(t) \/ Launch(t) \/ LaunchReturns(t)
  BY <1>8 DEF Prepare, Launch, LaunchReturns
<1>9. CASE ClaimStarted(t) \/ Drop(t) \/ FailStart(t)
  BY <1>9 DEF ClaimStarted, Drop, FailStart
<1>10. CASE RuntimeFails(t) \/ releaseFailedRuntime(t) \/ FailedRuntimeStopped(t)
  BY <1>0, <1>10 DEF RuntimeFails, releaseFailedRuntime, FailedRuntimeStopped
<1> QED BY <1>1, <1>2, <1>3, <1>4, <1>5, <1>6, <1>7, <1>8, <1>9, <1>10, <1>11, <1>12, <1>13, <1>14, <1>15
       DEF step, submitStep, runStep, releaseStep

\* Every step keeps the flags of a task Boolean.
LEMMA StepBooleans ==
  ASSUME Booleans, NEW t \in Tasks, step(t)
  PROVE  Booleans'
<1> USE DEF Booleans, control, slot, others, locals, InvalidateRuntime
<1>0. cancelRun => canceled' \in [Tasks -> BOOLEAN]
  BY DEF cancelRun
<1>1. CASE Invalidate(t)
  BY <1>0, <1>1 DEF Invalidate
<1>11. CASE ScheduleDesiredRecover(t)
  BY <1>11 DEF ScheduleDesiredRecover
<1>12. CASE Capture(t)
  BY <1>12 DEF Capture
<1>2. CASE Lock(t) \/ LockPreempting(t) \/ Check(t)
  BY <1>2 DEF Lock, LockPreempting, Check
<1>3. CASE bindCommandRun(t)
  BY <1>0, <1>3 DEF bindCommandRun, install
<1>4. CASE Dispatch(t)
  BY <1>4 DEF Dispatch, firstStep
<1>5. CASE ClearRun(t) \/ Unlock(t) \/ Return(t)
  BY <1>5 DEF ClearRun, Unlock, Return
<1>6. CASE InvalidateState(t) \/ InstanceStopped(t) \/ Stopped(t)
  BY <1>6 DEF InvalidateState, InstanceStopped, Stopped
<1>13. CASE StopInstance(t)
  BY <1>13 DEF StopInstance, afterTeardown
<1>14. CASE DeleteInstance(t)
  BY <1>14 DEF DeleteInstance, afterTeardown
<1>7. CASE EnableRefused(t) \/ EnableReady(t)
  BY <1>7 DEF EnableRefused, EnableReady
<1>15. CASE beginRuntimeStart(t)
  BY <1>15 DEF beginRuntimeStart, claimStart
<1>8. CASE Prepare(t) \/ Launch(t) \/ LaunchReturns(t)
  BY <1>8 DEF Prepare, Launch, LaunchReturns
<1>9. CASE ClaimStarted(t) \/ Drop(t) \/ FailStart(t)
  BY <1>9 DEF ClaimStarted, Drop, FailStart
<1>10. CASE RuntimeFails(t) \/ releaseFailedRuntime(t) \/ FailedRuntimeStopped(t)
  BY <1>0, <1>10 DEF RuntimeFails, releaseFailedRuntime, FailedRuntimeStopped
<1> QED BY <1>1, <1>2, <1>3, <1>4, <1>5, <1>6, <1>7, <1>8, <1>9, <1>10, <1>11, <1>12, <1>13, <1>14, <1>15
       DEF step, submitStep, runStep, releaseStep

\* Where a call holds runMu.  A preempting command unlocks before it clears its run.
InLock == {"check", "run", "invalidate", "stop", "stopping", "delete", "stopped", "enable",
           "begin", "prepare", "launch", "launching", "claim", "drop", "fail", "unlock"}

inLock(t) ==
  /\ kind[t] # "reconnect"
  /\ pc[t] \in InLock \/ (pc[t] \in {"bind", "clear"} /\ ~Preempting(t))

\* runMu is held by the one command that is past its lock and before its unlock.
Mutex == \A t \in Tasks : inLock(t) <=> runMu = t

\* A teardown on reconnect stops what it finds and nothing else.
ReconnectWalks ==
  \A t \in Tasks : kind[t] = "reconnect" =>
    pc[t] \in {"idle", "stop", "stopping", "delete", "stopped", "returned", "done"}

\* The calls that take the device away.
Draws(d) == kind[d] \in {"disable", "switchBegin", "reconnect"}

\* Submit and submitPreempting take and give back the lock and the run in their own
\* order, and who takes the device away starts nothing.
Lanes ==
  \A t \in Tasks :
    /\ Preempting(t) => pc[t] \notin {"lock", "check"}
    /\ ~Preempting(t) => pc[t] # "wait" /\ (pc[t] = "unlock" => runCancel # t)
    /\ Draws(t) => pc[t] \notin {"enable", "begin", "prepare", "launch", "launching", "claim",
                                 "drop", "fail"}

\* Every step keeps at most one command inside runMu, and each call in its lane.
LEMMA StepMutex ==
  ASSUME Types, Mutex, ReconnectWalks, Lanes, NEW t \in Tasks, step(t)
  PROVE  Mutex' /\ ReconnectWalks' /\ Lanes'
<1> USE LifecycleAssumption
        DEF Types, Shape, at, goto, finish, unwind, control, slot, others, locals, Labels,
            LifecycleAssumption, Mutex, ReconnectWalks, Lanes,
            Draws, inLock, InLock, Preempting, Recovering, Invalidating
<1>1. CASE Invalidate(t)
  BY <1>1 DEF Invalidate, InvalidateRuntime, cancelRun
<1>2. CASE ScheduleDesiredRecover(t)
  BY <1>2 DEF ScheduleDesiredRecover
<1>3. CASE Capture(t)
  BY <1>3 DEF Capture, mayCapture
<1>4. CASE Lock(t)
  BY <1>4 DEF Lock
<1>5. CASE LockPreempting(t)
  BY <1>5 DEF LockPreempting
<1>6. CASE Check(t)
  BY <1>6 DEF Check
<1>7. CASE bindCommandRun(t)
  BY <1>7 DEF bindCommandRun, install, cancelRun
<1>8. CASE Dispatch(t)
  BY <1>8 DEF Dispatch, firstStep
<1>9. CASE ClearRun(t)
  BY <1>9 DEF ClearRun
<1>10. CASE Unlock(t)
  BY <1>10 DEF Unlock
<1>11. CASE Return(t)
  BY <1>11 DEF Return
<1>12. CASE InvalidateState(t)
  BY <1>12 DEF InvalidateState
<1>13. CASE StopInstance(t)
  BY <1>13 DEF StopInstance, afterTeardown
<1>14. CASE InstanceStopped(t)
  BY <1>14 DEF InstanceStopped
<1>15. CASE DeleteInstance(t)
  BY <1>15 DEF DeleteInstance, afterTeardown
<1>16. CASE Stopped(t)
  BY <1>16 DEF Stopped
<1>17. CASE EnableRefused(t)
  BY <1>17 DEF EnableRefused
<1>18. CASE EnableReady(t)
  BY <1>18 DEF EnableReady
<1>19. CASE beginRuntimeStart(t)
  BY <1>19 DEF beginRuntimeStart, claimStart
<1>20. CASE Prepare(t)
  BY <1>20 DEF Prepare
<1>21. CASE Launch(t)
  BY <1>21 DEF Launch
<1>22. CASE LaunchReturns(t)
  BY <1>22 DEF LaunchReturns
<1>23. CASE ClaimStarted(t)
  BY <1>23 DEF ClaimStarted
<1>24. CASE Drop(t)
  BY <1>24 DEF Drop
<1>25. CASE FailStart(t)
  BY <1>25 DEF FailStart
<1>26. CASE RuntimeFails(t)
  BY <1>26 DEF RuntimeFails
<1>27. CASE releaseFailedRuntime(t)
  BY <1>27 DEF releaseFailedRuntime, InvalidateRuntime, cancelRun
<1>28. CASE FailedRuntimeStopped(t)
  BY <1>28 DEF FailedRuntimeStopped
<1> QED BY <1>1, <1>2, <1>3, <1>4, <1>5, <1>6, <1>7, <1>8, <1>9, <1>10, <1>11, <1>12,
           <1>13, <1>14, <1>15, <1>16, <1>17, <1>18, <1>19, <1>20, <1>21, <1>22, <1>23,
           <1>24, <1>25, <1>26, <1>27, <1>28
       DEF step, submitStep, runStep, releaseStep
-----------------------------------------------------------------------------
(* Fresh and finished calls *)

\* A call is not canceled, and has no run to cancel, before it binds its run.
EarlyIsFresh ==
  \A t \in Tasks :
    pc[t] \in {"idle", "capture", "lock", "check", "bind"} => ~canceled[t] /\ runCancel # t

\* A call has a result once it unwinds; the runtime in the store was started with success.
FinishedUnwinds ==
  /\ \A t \in Tasks : result[t] # "none" => pc[t] \in Unwound
  /\ instance # None => result[instance] = "ok"

\* cancelRun cancels exactly the command that bound its run.
LEMMA CancelRun ==
  ASSUME cancelRun
  PROVE  \A s \in Tasks : canceled'[s] <=> (canceled[s] \/ s = runCancel)
BY DEF cancelRun

\* Every step keeps a call uncanceled until it binds its run, and a result with a call
\* that unwinds.
LEMMA StepFinished ==
  ASSUME Types, InstanceUnwound, EarlyIsFresh, FinishedUnwinds, NEW t \in Tasks, step(t)
  PROVE  EarlyIsFresh' /\ FinishedUnwinds'
<1> USE LifecycleAssumption
        DEF Types, Shape, at, goto, finish, unwind, control, slot, others, locals, Labels,
            LifecycleAssumption, EarlyIsFresh, FinishedUnwinds, InstanceUnwound, Unwound
<1>1. CASE Invalidate(t)
  BY <1>1, CancelRun DEF Invalidate, InvalidateRuntime
<1>2. CASE ScheduleDesiredRecover(t)
  BY <1>2 DEF ScheduleDesiredRecover
<1>3. CASE Capture(t)
  BY <1>3 DEF Capture, mayCapture
<1>4. CASE Lock(t)
  BY <1>4 DEF Lock
<1>5. CASE LockPreempting(t)
  BY <1>5 DEF LockPreempting
<1>6. CASE Check(t)
  BY <1>6 DEF Check
<1>7. CASE bindCommandRun(t)
  <2>1. CASE canceled' = [canceled EXCEPT ![t] = TRUE] /\ UNCHANGED <<control, gen>>
    <3>1. \A s \in Tasks : s # t => canceled'[s] = canceled[s]
      BY <2>1
    <3>2. pc'[t] \in {"wait", "run"} /\ \A s \in Tasks : s # t => pc'[s] = pc[s]
      BY <1>7, <2>1 DEF bindCommandRun, install
    <3>3. UNCHANGED <<result, instance, runCancel>>
      BY <1>7, <2>1 DEF bindCommandRun
    <3>4. EarlyIsFresh'
      BY <3>1, <3>2, <3>3
    <3> QED BY <1>7, <3>2, <3>3, <3>4 DEF bindCommandRun
  <2>2. CASE install(t)
    BY <1>7, <2>2, CancelRun DEF bindCommandRun, install
  <2> QED BY <1>7, <2>1, <2>2 DEF bindCommandRun
<1>8. CASE Dispatch(t)
  BY <1>8 DEF Dispatch, firstStep
<1>9. CASE ClearRun(t)
  BY <1>9 DEF ClearRun
<1>10. CASE Unlock(t)
  BY <1>10 DEF Unlock
<1>11. CASE Return(t)
  BY <1>11 DEF Return
<1>12. CASE InvalidateState(t)
  BY <1>12 DEF InvalidateState
<1>13. CASE StopInstance(t)
  BY <1>13 DEF StopInstance, afterTeardown
<1>14. CASE InstanceStopped(t)
  BY <1>14 DEF InstanceStopped
<1>15. CASE DeleteInstance(t)
  BY <1>15 DEF DeleteInstance, afterTeardown
<1>16. CASE Stopped(t)
  BY <1>16 DEF Stopped
<1>17. CASE EnableRefused(t)
  BY <1>17 DEF EnableRefused
<1>18. CASE EnableReady(t)
  BY <1>18 DEF EnableReady
<1>19. CASE beginRuntimeStart(t)
  BY <1>19 DEF beginRuntimeStart, claimStart
<1>20. CASE Prepare(t)
  BY <1>20 DEF Prepare
<1>21. CASE Launch(t)
  BY <1>21 DEF Launch
<1>22. CASE LaunchReturns(t)
  BY <1>22 DEF LaunchReturns
<1>23. CASE ClaimStarted(t)
  BY <1>23 DEF ClaimStarted
<1>24. CASE Drop(t)
  BY <1>24 DEF Drop
<1>25. CASE FailStart(t)
  BY <1>25 DEF FailStart
<1>26. CASE RuntimeFails(t)
  BY <1>26 DEF RuntimeFails
<1>27. CASE releaseFailedRuntime(t)
  BY <1>27, CancelRun DEF releaseFailedRuntime, InvalidateRuntime
<1>28. CASE FailedRuntimeStopped(t)
  BY <1>28 DEF FailedRuntimeStopped
<1> QED BY <1>1, <1>2, <1>3, <1>4, <1>5, <1>6, <1>7, <1>8, <1>9, <1>10, <1>11, <1>12,
           <1>13, <1>14, <1>15, <1>16, <1>17, <1>18, <1>19, <1>20, <1>21, <1>22, <1>23,
           <1>24, <1>25, <1>26, <1>27, <1>28
       DEF step, submitStep, runStep, releaseStep

-----------------------------------------------------------------------------
(* The starting mark *)

Starting == {"prepare", "launch", "launching", "claim", "fail"}

\* Every start has its own epoch, and a start is only marked while nothing runs.
Epochs ==
  /\ \A t \in Tasks : ep[t] <= epoch
  /\ \A s, t \in Tasks : ep[s] = ep[t] => s = t \/ ep[s] = 0
  /\ \A t \in Tasks : pc[t] \in Starting => ep[t] # 0
  /\ starting => instance = None

\* StartingHasOwner, and the start behind the mark has not been canceled: a canceled
\* one leaves the mark to the command that canceled it.
MarkOwned ==
  starting => \E t \in Tasks :
    \/ ep[t] = epoch /\ pc[t] \in Starting /\ ~canceled[t]
    \/ Preempting(t) /\ ~canceled[t] /\ pc[t] \in {"wait", "run", "invalidate"}
    \/ result[t] = "noWorker"

\* Every step keeps the epochs of the starts apart.
LEMMA StepEpochs ==
  ASSUME Types, Epochs, NEW t \in Tasks, step(t)
  PROVE  Epochs'
<1> USE LifecycleAssumption
        DEF Types, Shape, at, goto, finish, unwind, control, slot, others, locals, Labels,
            LifecycleAssumption, Epochs, Starting
<1>1. CASE Invalidate(t)
  BY <1>1 DEF Invalidate, InvalidateRuntime, cancelRun
<1>2. CASE ScheduleDesiredRecover(t)
  BY <1>2 DEF ScheduleDesiredRecover
<1>3. CASE Capture(t)
  BY <1>3 DEF Capture, mayCapture
<1>4. CASE Lock(t)
  BY <1>4 DEF Lock
<1>5. CASE LockPreempting(t)
  BY <1>5 DEF LockPreempting
<1>6. CASE Check(t)
  BY <1>6 DEF Check
<1>7. CASE bindCommandRun(t)
  BY <1>7 DEF bindCommandRun, install, cancelRun
<1>8. CASE Dispatch(t)
  BY <1>8 DEF Dispatch, firstStep
<1>9. CASE ClearRun(t)
  BY <1>9 DEF ClearRun
<1>10. CASE Unlock(t)
  BY <1>10 DEF Unlock
<1>11. CASE Return(t)
  BY <1>11 DEF Return
<1>12. CASE InvalidateState(t)
  BY <1>12 DEF InvalidateState
<1>13. CASE StopInstance(t)
  BY <1>13 DEF StopInstance, afterTeardown
<1>14. CASE InstanceStopped(t)
  BY <1>14 DEF InstanceStopped
<1>15. CASE DeleteInstance(t)
  BY <1>15 DEF DeleteInstance, afterTeardown
<1>16. CASE Stopped(t)
  BY <1>16 DEF Stopped
<1>17. CASE EnableRefused(t)
  BY <1>17 DEF EnableRefused
<1>18. CASE EnableReady(t)
  BY <1>18 DEF EnableReady
<1>19. CASE beginRuntimeStart(t)
  BY <1>19 DEF beginRuntimeStart, claimStart
<1>20. CASE Prepare(t)
  BY <1>20 DEF Prepare
<1>21. CASE Launch(t)
  BY <1>21 DEF Launch
<1>22. CASE LaunchReturns(t)
  BY <1>22 DEF LaunchReturns
<1>23. CASE ClaimStarted(t)
  BY <1>23 DEF ClaimStarted
<1>24. CASE Drop(t)
  BY <1>24 DEF Drop
<1>25. CASE FailStart(t)
  BY <1>25 DEF FailStart
<1>26. CASE RuntimeFails(t)
  BY <1>26 DEF RuntimeFails
<1>27. CASE releaseFailedRuntime(t)
  BY <1>27 DEF releaseFailedRuntime, InvalidateRuntime, cancelRun
<1>28. CASE FailedRuntimeStopped(t)
  BY <1>28 DEF FailedRuntimeStopped
<1> QED BY <1>1, <1>2, <1>3, <1>4, <1>5, <1>6, <1>7, <1>8, <1>9, <1>10, <1>11, <1>12,
           <1>13, <1>14, <1>15, <1>16, <1>17, <1>18, <1>19, <1>20, <1>21, <1>22, <1>23,
           <1>24, <1>25, <1>26, <1>27, <1>28
       DEF step, submitStep, runStep, releaseStep

\* Every step keeps a start at work behind the starting mark.
LEMMA StepMarkOwned ==
  ASSUME Types, EarlyIsFresh, FinishedUnwinds, Epochs, MarkOwned, NEW t \in Tasks, step(t)
  PROVE  MarkOwned'
<1> USE LifecycleAssumption
        DEF Types, Shape, at, goto, finish, unwind, control, slot, others, locals, Labels,
            LifecycleAssumption, EarlyIsFresh, FinishedUnwinds, Epochs, MarkOwned, Starting, Unwound,
            Preempting, Recovering, Invalidating
<1>1. CASE Invalidate(t)
  BY <1>1 DEF Invalidate, InvalidateRuntime, cancelRun
<1>2. CASE ScheduleDesiredRecover(t)
  BY <1>2 DEF ScheduleDesiredRecover
<1>3. CASE Capture(t)
  BY <1>3 DEF Capture, mayCapture
<1>4. CASE Lock(t)
  BY <1>4 DEF Lock
<1>5. CASE LockPreempting(t)
  BY <1>5 DEF LockPreempting
<1>6. CASE Check(t)
  BY <1>6 DEF Check
<1>7. CASE bindCommandRun(t)
  <2>1. /\ pc[t] = "bind" /\ ~canceled[t] /\ runCancel # t
        /\ UNCHANGED <<kind, epoch, starting, instance, ep, result>>
    BY <1>7 DEF bindCommandRun
\* A preempting command has not been canceled and will recover or stop the start.
  <2>2. CASE install(t) /\ Preempting(t)
    <3>1. pc'[t] = "wait" /\ ~canceled'[t] /\ kind'[t] = kind[t]
      BY <2>1, <2>2 DEF install, cancelRun
    <3> QED BY <2>2, <3>1
\* The others do not touch the owner.
  <2>3. CASE ~(install(t) /\ Preempting(t))
    <3>1. \A s \in Tasks : s # t => canceled'[s] = canceled[s] /\ pc'[s] = pc[s]
      BY <1>7, <2>3 DEF bindCommandRun, install
    <3> QED BY <2>1, <3>1
  <2> QED BY <2>2, <2>3
<1>8. CASE Dispatch(t)
  BY <1>8 DEF Dispatch, firstStep
<1>9. CASE ClearRun(t)
  BY <1>9 DEF ClearRun
<1>10. CASE Unlock(t)
  BY <1>10 DEF Unlock
<1>11. CASE Return(t)
  BY <1>11 DEF Return
<1>12. CASE InvalidateState(t)
  BY <1>12 DEF InvalidateState
<1>13. CASE StopInstance(t)
  BY <1>13 DEF StopInstance, afterTeardown
<1>14. CASE InstanceStopped(t)
  BY <1>14 DEF InstanceStopped
<1>15. CASE DeleteInstance(t)
  BY <1>15 DEF DeleteInstance, afterTeardown
<1>16. CASE Stopped(t)
  BY <1>16 DEF Stopped
<1>17. CASE EnableRefused(t)
  BY <1>17 DEF EnableRefused
<1>18. CASE EnableReady(t)
  BY <1>18 DEF EnableReady
<1>19. CASE beginRuntimeStart(t)
  <2>1. CASE claimStart(t) /\ ~canceled[t]
    <3>1. ep'[t] = epoch' /\ pc'[t] = "prepare" /\ ~canceled'[t]
      BY <1>19, <2>1 DEF beginRuntimeStart, claimStart
    <3> QED BY <3>1
  <2>2. CASE UNCHANGED <<epoch, starting, ep>> /\ pc' = [pc EXCEPT ![t] = unwind(t)]
             /\ UNCHANGED <<kind, canceled>> /\ result' = [result EXCEPT ![t] = result'[t]]
    BY <1>19, <2>2 DEF beginRuntimeStart
  <2> QED BY <1>19, <2>1, <2>2, ZenonT(40) DEF beginRuntimeStart
<1>20. CASE Prepare(t)
  BY <1>20 DEF Prepare
<1>21. CASE Launch(t)
  BY <1>21 DEF Launch
<1>22. CASE LaunchReturns(t)
  BY <1>22 DEF LaunchReturns
<1>23. CASE ClaimStarted(t)
  BY <1>23 DEF ClaimStarted
<1>24. CASE Drop(t)
  BY <1>24 DEF Drop
<1>25. CASE FailStart(t)
  BY <1>25 DEF FailStart
<1>26. CASE RuntimeFails(t)
  BY <1>26 DEF RuntimeFails
<1>27. CASE releaseFailedRuntime(t)
  BY <1>27, ZenonT(40) DEF releaseFailedRuntime, InvalidateRuntime, cancelRun
<1>28. CASE FailedRuntimeStopped(t)
  BY <1>28 DEF FailedRuntimeStopped
<1> QED BY <1>1, <1>2, <1>3, <1>4, <1>5, <1>6, <1>7, <1>8, <1>9, <1>10, <1>11, <1>12,
           <1>13, <1>14, <1>15, <1>16, <1>17, <1>18, <1>19, <1>20, <1>21, <1>22, <1>23,
           <1>24, <1>25, <1>26, <1>27, <1>28
       DEF step, submitStep, runStep, releaseStep

-----------------------------------------------------------------------------
(* Ownership boundaries, where no Restart is among the calls *)

NoRestart == \A t \in Tasks : kind[t] # "restart"

\* Nobody works under a version that does not exist yet, and a SwitchBegin that may
\* still succeed has advanced the version when it bound its run.
Versions ==
  \A t \in Tasks :
    /\ inv[t] <= invalidation
    /\ /\ kind[t] = "switchBegin"
       /\ \/ pc[t] \in {"wait", "run"} /\ ~canceled[t]
          \/ pc[t] \in {"invalidate", "stop", "stopping", "delete", "stopped"}
          \/ result[t] = "ok"
       => inv[t] < invalidation

\* Every step keeps the versions of the calls behind the device's.
LEMMA StepVersions ==
  ASSUME Types, Lanes, EarlyIsFresh, FinishedUnwinds, NoRestart, Versions,
         NEW t \in Tasks, step(t)
  PROVE  Versions'
<1> USE LifecycleAssumption
        DEF Types, Shape, at, goto, finish, unwind, control, slot, others, locals, Labels,
            LifecycleAssumption, EarlyIsFresh, FinishedUnwinds, Unwound, NoRestart, Versions,
            Lanes, Draws, Preempting, Recovering, Invalidating
<1>1. CASE Invalidate(t)
  BY <1>1 DEF Invalidate, InvalidateRuntime, cancelRun
<1>2. CASE ScheduleDesiredRecover(t)
  BY <1>2 DEF ScheduleDesiredRecover
<1>3. CASE Capture(t)
  BY <1>3 DEF Capture, mayCapture
<1>4. CASE Lock(t)
  BY <1>4 DEF Lock
<1>5. CASE LockPreempting(t)
  BY <1>5 DEF LockPreempting
<1>6. CASE Check(t)
  BY <1>6 DEF Check
<1>7. CASE bindCommandRun(t)
  BY <1>7 DEF bindCommandRun, install, cancelRun
<1>8. CASE Dispatch(t)
  BY <1>8 DEF Dispatch, firstStep
<1>9. CASE ClearRun(t)
  BY <1>9 DEF ClearRun
<1>10. CASE Unlock(t)
  BY <1>10 DEF Unlock
<1>11. CASE Return(t)
  BY <1>11 DEF Return
<1>12. CASE InvalidateState(t)
  BY <1>12 DEF InvalidateState
<1>13. CASE StopInstance(t)
  BY <1>13 DEF StopInstance, afterTeardown
<1>14. CASE InstanceStopped(t)
  BY <1>14 DEF InstanceStopped
<1>15. CASE DeleteInstance(t)
  BY <1>15 DEF DeleteInstance, afterTeardown
<1>16. CASE Stopped(t)
  BY <1>16 DEF Stopped
<1>17. CASE EnableRefused(t)
  BY <1>17 DEF EnableRefused
<1>18. CASE EnableReady(t)
  BY <1>18 DEF EnableReady
<1>19. CASE beginRuntimeStart(t)
  BY <1>19 DEF beginRuntimeStart, claimStart
<1>20. CASE Prepare(t)
  BY <1>20 DEF Prepare
<1>21. CASE Launch(t)
  BY <1>21 DEF Launch
<1>22. CASE LaunchReturns(t)
  BY <1>22 DEF LaunchReturns
<1>23. CASE ClaimStarted(t)
  BY <1>23 DEF ClaimStarted
<1>24. CASE Drop(t)
  BY <1>24 DEF Drop
<1>25. CASE FailStart(t)
  BY <1>25 DEF FailStart
<1>26. CASE RuntimeFails(t)
  BY <1>26 DEF RuntimeFails
<1>27. CASE releaseFailedRuntime(t)
  BY <1>27 DEF releaseFailedRuntime, InvalidateRuntime, cancelRun
<1>28. CASE FailedRuntimeStopped(t)
  BY <1>28 DEF FailedRuntimeStopped
<1> QED BY <1>1, <1>2, <1>3, <1>4, <1>5, <1>6, <1>7, <1>8, <1>9, <1>10, <1>11, <1>12,
           <1>13, <1>14, <1>15, <1>16, <1>17, <1>18, <1>19, <1>20, <1>21, <1>22, <1>23,
           <1>24, <1>25, <1>26, <1>27, <1>28
       DEF step, submitStep, runStep, releaseStep

\* A command that runs and starts runtimes can be canceled, and is, as soon as the
\* version it was submitted under is no longer the current one.
Reached ==
  \A t \in Tasks :
    /\ kind[t] \notin {"reconnect", "switchBegin"}
    /\ pc[t] \in {"run", "invalidate", "stop", "stopping", "delete", "enable", "begin"}
    /\ ~canceled[t]
    => runCancel = t /\ inv[t] = invalidation

\* Every step keeps a running command within reach of its cancelation.
LEMMA StepReached ==
  ASSUME Types, Mutex, ReconnectWalks, Lanes, NoRestart, Reached, NEW t \in Tasks, step(t)
  PROVE  Reached'
<1> USE LifecycleAssumption
        DEF Types, Shape, at, goto, finish, unwind, control, slot, others, locals, Labels,
            LifecycleAssumption, Mutex, inLock, InLock, Lanes, Draws, NoRestart,
            Reached, Preempting, Recovering, Invalidating
<1>1. CASE Invalidate(t)
  BY <1>1, CancelRun DEF Invalidate, InvalidateRuntime
<1>2. CASE ScheduleDesiredRecover(t)
  BY <1>2 DEF ScheduleDesiredRecover
<1>3. CASE Capture(t)
  BY <1>3 DEF Capture, mayCapture
<1>4. CASE Lock(t)
  BY <1>4 DEF Lock
<1>5. CASE LockPreempting(t)
  BY <1>5 DEF LockPreempting
<1>6. CASE Check(t)
  BY <1>6 DEF Check
<1>7. CASE bindCommandRun(t)
  <2>1. CASE canceled' = [canceled EXCEPT ![t] = TRUE] /\ UNCHANGED <<control, gen>>
    <3>1. canceled'[t] /\ \A s \in Tasks : s # t => canceled'[s] = canceled[s]
      BY <2>1
    <3>2. \A s \in Tasks : s # t => pc'[s] = pc[s]
      BY <1>7 DEF bindCommandRun, install
    <3> QED BY <1>7, <2>1, <3>1, <3>2 DEF bindCommandRun
  <2>2. CASE install(t) /\ invalidation = inv[t] /\ Preempting(t)
    <3>1. \A s \in Tasks : ~canceled'[s] => ~canceled[s] /\ s # runCancel
      BY <2>2, CancelRun DEF install
    <3>2. kind' = kind /\ pc' = [pc EXCEPT ![t] = "wait"]
      BY <1>7, <2>2 DEF bindCommandRun, install
    <3> QED BY <3>1, <3>2
  <2>3. CASE install(t) /\ invalidation = inv[t] /\ ~Preempting(t)
    <3>1. runMu = t
      BY <1>7, <2>3 DEF bindCommandRun, ReconnectWalks
    <3>2. \A s \in Tasks : s # t => ~inLock(s)
      BY <3>1
    <3>3. /\ kind' = kind /\ inv' = inv /\ invalidation' = invalidation
          /\ runCancel' = t /\ pc' = [pc EXCEPT ![t] = "run"]
      BY <1>7, <2>3 DEF bindCommandRun, install
    <3> QED BY <2>3, <3>2, <3>3
  <2> QED BY <1>7, <2>1, <2>2, <2>3 DEF bindCommandRun
<1>8. CASE Dispatch(t)
  BY <1>8 DEF Dispatch, firstStep
<1>9. CASE ClearRun(t)
  BY <1>9 DEF ClearRun
<1>10. CASE Unlock(t)
  BY <1>10 DEF Unlock
<1>11. CASE Return(t)
  BY <1>11 DEF Return
<1>12. CASE InvalidateState(t)
  BY <1>12 DEF InvalidateState
<1>13. CASE StopInstance(t)
  BY <1>13 DEF StopInstance, afterTeardown
<1>14. CASE InstanceStopped(t)
  BY <1>14 DEF InstanceStopped
<1>15. CASE DeleteInstance(t)
  BY <1>15 DEF DeleteInstance, afterTeardown
<1>16. CASE Stopped(t)
  BY <1>16 DEF Stopped
<1>17. CASE EnableRefused(t)
  BY <1>17 DEF EnableRefused
<1>18. CASE EnableReady(t)
  BY <1>18 DEF EnableReady
<1>19. CASE beginRuntimeStart(t)
  BY <1>19 DEF beginRuntimeStart, claimStart
<1>20. CASE Prepare(t)
  BY <1>20 DEF Prepare
<1>21. CASE Launch(t)
  BY <1>21 DEF Launch
<1>22. CASE LaunchReturns(t)
  BY <1>22 DEF LaunchReturns
<1>23. CASE ClaimStarted(t)
  BY <1>23 DEF ClaimStarted
<1>24. CASE Drop(t)
  BY <1>24 DEF Drop
<1>25. CASE FailStart(t)
  BY <1>25 DEF FailStart
<1>26. CASE RuntimeFails(t)
  BY <1>26 DEF RuntimeFails
<1>27. CASE releaseFailedRuntime(t)
  BY <1>27, CancelRun DEF releaseFailedRuntime, InvalidateRuntime
<1>28. CASE FailedRuntimeStopped(t)
  BY <1>28 DEF FailedRuntimeStopped
<1> QED BY <1>1, <1>2, <1>3, <1>4, <1>5, <1>6, <1>7, <1>8, <1>9, <1>10, <1>11, <1>12,
           <1>13, <1>14, <1>15, <1>16, <1>17, <1>18, <1>19, <1>20, <1>21, <1>22, <1>23,
           <1>24, <1>25, <1>26, <1>27, <1>28
       DEF step, submitStep, runStep, releaseStep

\* The boundary of d is drawn: it succeeded, or it is a reconnect under way.
Drawn(d) == Draws(d) /\ (result[d] = "ok" \/ (kind[d] = "reconnect" /\ pc[d] # "idle"))

\* A start that the store would still accept was submitted after every drawn boundary.
StartsAreLate ==
  \A d, s \in Tasks : Drawn(d) /\ pc[s] \in Starting /\ ep[s] = epoch => inv[s] >= boundary(d)

\* Every step keeps the starts that overlap a teardown later than its boundary.
LEMMA StepLate ==
  ASSUME Types, Mutex, ReconnectWalks, Lanes, FinishedUnwinds, Epochs, NoRestart, Versions, Reached,
         StartsAreLate, NEW t \in Tasks, step(t)
  PROVE  StartsAreLate'
<1> USE LifecycleAssumption
        DEF Types, Shape, at, goto, finish, unwind, control, slot, others, locals, Labels,
            LifecycleAssumption, Mutex, inLock, InLock, ReconnectWalks, Lanes,
            FinishedUnwinds, Unwound, Epochs, Starting, NoRestart, Versions, Reached,
            StartsAreLate, Drawn, Draws, boundary, Preempting, Recovering, Invalidating
<1>1. CASE Invalidate(t)
  BY <1>1 DEF Invalidate, InvalidateRuntime, cancelRun
<1>2. CASE ScheduleDesiredRecover(t)
  BY <1>2 DEF ScheduleDesiredRecover
<1>3. CASE Capture(t)
  BY <1>3 DEF Capture, mayCapture
<1>4. CASE Lock(t)
  BY <1>4 DEF Lock
<1>5. CASE LockPreempting(t)
  BY <1>5 DEF LockPreempting
<1>6. CASE Check(t)
  BY <1>6 DEF Check
<1>7. CASE bindCommandRun(t)
  BY <1>7 DEF bindCommandRun, install, cancelRun
<1>8. CASE Dispatch(t)
  BY <1>8 DEF Dispatch, firstStep
<1>9. CASE ClearRun(t)
  BY <1>9 DEF ClearRun
<1>10. CASE Unlock(t)
  BY <1>10 DEF Unlock
<1>11. CASE Return(t)
  BY <1>11 DEF Return
<1>12. CASE InvalidateState(t)
  BY <1>12 DEF InvalidateState
<1>13. CASE StopInstance(t)
  BY <1>13 DEF StopInstance, afterTeardown
<1>14. CASE InstanceStopped(t)
  BY <1>14 DEF InstanceStopped
<1>15. CASE DeleteInstance(t)
  BY <1>15 DEF DeleteInstance, afterTeardown
<1>16. CASE Stopped(t)
  BY <1>16 DEF Stopped
<1>17. CASE EnableRefused(t)
  BY <1>17 DEF EnableRefused
<1>18. CASE EnableReady(t)
  BY <1>18 DEF EnableReady
<1>19. CASE beginRuntimeStart(t)
  BY <1>19 DEF beginRuntimeStart, claimStart
<1>20. CASE Prepare(t)
  BY <1>20 DEF Prepare
<1>21. CASE Launch(t)
  BY <1>21 DEF Launch
<1>22. CASE LaunchReturns(t)
  BY <1>22 DEF LaunchReturns
<1>23. CASE ClaimStarted(t)
  BY <1>23 DEF ClaimStarted
<1>24. CASE Drop(t)
  BY <1>24 DEF Drop
<1>25. CASE FailStart(t)
  BY <1>25 DEF FailStart
<1>26. CASE RuntimeFails(t)
  BY <1>26 DEF RuntimeFails
<1>27. CASE releaseFailedRuntime(t)
  BY <1>27 DEF releaseFailedRuntime, InvalidateRuntime, cancelRun
<1>28. CASE FailedRuntimeStopped(t)
  BY <1>28 DEF FailedRuntimeStopped
<1> QED BY <1>1, <1>2, <1>3, <1>4, <1>5, <1>6, <1>7, <1>8, <1>9, <1>10, <1>11, <1>12,
           <1>13, <1>14, <1>15, <1>16, <1>17, <1>18, <1>19, <1>20, <1>21, <1>22, <1>23,
           <1>24, <1>25, <1>26, <1>27, <1>28
       DEF step, submitStep, runStep, releaseStep

\* What a teardown leaves in the store was submitted after its boundary.
LeavesLate ==
  \A d \in Tasks : Draws(d) /\ instance # None =>
    /\ pc[d] \in {"stopping", "delete"} =>
         instance = target[d] \/ (kind[d] = "reconnect" /\ inv[instance] >= inv[d])
    /\ pc[d] = "stopped" => kind[d] = "reconnect" /\ inv[instance] >= inv[d]
    /\ result[d] = "ok" => inv[instance] >= boundary(d)

\* Every step keeps what a teardown leaves in the store later than its boundary.
LEMMA StepLeaves ==
  ASSUME Types, InstanceUnwound, Mutex, ReconnectWalks, Lanes, FinishedUnwinds, Epochs, NoRestart,
         StartsAreLate, LeavesLate, NEW t \in Tasks, step(t)
  PROVE  LeavesLate'
<1> USE LifecycleAssumption
        DEF Types, Shape, at, goto, finish, unwind, control, slot, others, locals, Labels,
            LifecycleAssumption, InstanceUnwound, Unwound, Mutex, inLock, InLock,
            ReconnectWalks, Lanes, FinishedUnwinds, Epochs, Starting, NoRestart,
            StartsAreLate, LeavesLate, Drawn, Draws, boundary, Preempting, Recovering, Invalidating
<1>1. CASE Invalidate(t)
  BY <1>1 DEF Invalidate, InvalidateRuntime, cancelRun
<1>2. CASE ScheduleDesiredRecover(t)
  BY <1>2 DEF ScheduleDesiredRecover
<1>3. CASE Capture(t)
  BY <1>3 DEF Capture, mayCapture
<1>4. CASE Lock(t)
  BY <1>4 DEF Lock
<1>5. CASE LockPreempting(t)
  BY <1>5 DEF LockPreempting
<1>6. CASE Check(t)
  BY <1>6 DEF Check
<1>7. CASE bindCommandRun(t)
  BY <1>7 DEF bindCommandRun, install, cancelRun
<1>8. CASE Dispatch(t)
  BY <1>8 DEF Dispatch, firstStep
<1>9. CASE ClearRun(t)
  BY <1>9 DEF ClearRun
<1>10. CASE Unlock(t)
  BY <1>10 DEF Unlock
<1>11. CASE Return(t)
  BY <1>11 DEF Return
<1>12. CASE InvalidateState(t)
  BY <1>12 DEF InvalidateState
<1>13. CASE StopInstance(t)
  BY <1>13 DEF StopInstance, afterTeardown
<1>14. CASE InstanceStopped(t)
  BY <1>14 DEF InstanceStopped
<1>15. CASE DeleteInstance(t)
  BY <1>15 DEF DeleteInstance, afterTeardown
<1>16. CASE Stopped(t)
  BY <1>16 DEF Stopped
<1>17. CASE EnableRefused(t)
  BY <1>17 DEF EnableRefused
<1>18. CASE EnableReady(t)
  BY <1>18 DEF EnableReady
<1>19. CASE beginRuntimeStart(t)
  BY <1>19 DEF beginRuntimeStart, claimStart
<1>20. CASE Prepare(t)
  BY <1>20 DEF Prepare
<1>21. CASE Launch(t)
  BY <1>21 DEF Launch
<1>22. CASE LaunchReturns(t)
  BY <1>22 DEF LaunchReturns
<1>23. CASE ClaimStarted(t)
  BY <1>23 DEF ClaimStarted
<1>24. CASE Drop(t)
  BY <1>24 DEF Drop
<1>25. CASE FailStart(t)
  BY <1>25 DEF FailStart
<1>26. CASE RuntimeFails(t)
  BY <1>26 DEF RuntimeFails
<1>27. CASE releaseFailedRuntime(t)
  BY <1>27 DEF releaseFailedRuntime, InvalidateRuntime, cancelRun
<1>28. CASE FailedRuntimeStopped(t)
  BY <1>28 DEF FailedRuntimeStopped
<1> QED BY <1>1, <1>2, <1>3, <1>4, <1>5, <1>6, <1>7, <1>8, <1>9, <1>10, <1>11, <1>12,
           <1>13, <1>14, <1>15, <1>16, <1>17, <1>18, <1>19, <1>20, <1>21, <1>22, <1>23,
           <1>24, <1>25, <1>26, <1>27, <1>28
       DEF step, submitStep, runStep, releaseStep

-----------------------------------------------------------------------------
(* Cancelation of the commands that take turns *)

Bound == {"wait", "run", "invalidate", "stop", "stopping", "delete", "stopped", "enable", "begin",
          "prepare", "launch", "launching", "claim", "drop", "fail"}

\* A command that takes turns, whose run has begun and has not been canceled, can be,
\* and no boundary has been drawn since it was submitted: the preempting command that
\* takes the slot from it cancels it.  (One that waits for runMu can lose the slot to
\* a queued one, which cancels nobody: see vowifi_restart.)
Watched ==
  \A t \in Tasks :
    /\ kind[t] # "reconnect" /\ ~Preempting(t) /\ pc[t] \in Bound /\ ~canceled[t]
    => runCancel = t /\ invalidation = inv[t]

\* Every step keeps a running command within reach of its cancelation.
LEMMA StepWatched ==
  ASSUME Types, Mutex, ReconnectWalks, Lanes, EarlyIsFresh, Watched, NEW t \in Tasks, step(t)
  PROVE  Watched'
<1> USE LifecycleAssumption
        DEF Types, Shape, at, goto, finish, unwind, control, slot, others, locals, Labels,
            LifecycleAssumption, Mutex, inLock, InLock, Lanes, Draws, ReconnectWalks,
            Watched, Bound, Preempting, Recovering, Invalidating
<1>1. CASE Invalidate(t)
  BY <1>1, CancelRun DEF Invalidate, InvalidateRuntime
<1>2. CASE ScheduleDesiredRecover(t)
  BY <1>2 DEF ScheduleDesiredRecover
<1>3. CASE Capture(t)
  BY <1>3 DEF Capture, mayCapture
<1>4. CASE Lock(t)
  BY <1>4 DEF Lock
<1>5. CASE LockPreempting(t)
  BY <1>5 DEF LockPreempting
<1>6. CASE Check(t)
  BY <1>6 DEF Check
<1>7. CASE bindCommandRun(t)
  <2>0. kind' = kind /\ ~canceled[t] /\ runCancel # t
    BY <1>7 DEF bindCommandRun, install, EarlyIsFresh
  <2>1. CASE canceled' = [canceled EXCEPT ![t] = TRUE] /\ UNCHANGED <<control, gen>>
    <3>1. canceled'[t] /\ \A s \in Tasks : s # t => canceled'[s] = canceled[s]
      BY <2>1
    <3>2. \A s \in Tasks : s # t => pc'[s] = pc[s]
      BY <1>7 DEF bindCommandRun, install
    <3> QED BY <1>7, <2>0, <2>1, <3>1, <3>2 DEF bindCommandRun
  <2>2. CASE install(t) /\ invalidation = inv[t] /\ Preempting(t)
    <3>1. \A s \in Tasks : ~canceled'[s] => ~canceled[s] /\ s # runCancel
      BY <2>2, CancelRun DEF install
    <3>2. /\ pc' = [pc EXCEPT ![t] = "wait"] /\ runCancel' = t /\ inv' = inv
          /\ invalidation' = inv[t] + 1
      BY <1>7, <2>2 DEF bindCommandRun, install
    <3>3. ASSUME NEW s \in Tasks, s # t, kind[s] # "reconnect", ~Preempting(s), pc[s] \in Bound
          PROVE  canceled'[s]
      BY <3>1, <3>3
    <3> QED BY <2>0, <2>2, <3>2, <3>3
  <2>3. CASE install(t) /\ invalidation = inv[t] /\ ~Preempting(t)
    <3>1. runMu = t
      BY <1>7, <2>0, <2>3 DEF bindCommandRun
    <3>2. \A s \in Tasks : s # t /\ ~Preempting(s) => ~inLock(s) /\ pc[s] # "wait"
      BY <3>1
    <3>3. /\ kind' = kind /\ inv' = inv /\ invalidation' = invalidation
          /\ runCancel' = t /\ pc' = [pc EXCEPT ![t] = "run"]
      BY <1>7, <2>3 DEF bindCommandRun, install
    <3> QED BY <2>0, <2>3, <3>1, <3>2, <3>3
  <2> QED BY <1>7, <2>1, <2>2, <2>3 DEF bindCommandRun
<1>8. CASE Dispatch(t)
  BY <1>8 DEF Dispatch, firstStep
<1>9. CASE ClearRun(t)
  BY <1>9 DEF ClearRun
<1>10. CASE Unlock(t)
  BY <1>10 DEF Unlock
<1>11. CASE Return(t)
  BY <1>11 DEF Return
<1>12. CASE InvalidateState(t)
  BY <1>12 DEF InvalidateState
<1>13. CASE StopInstance(t)
  BY <1>13 DEF StopInstance, afterTeardown
<1>14. CASE InstanceStopped(t)
  BY <1>14 DEF InstanceStopped
<1>15. CASE DeleteInstance(t)
  BY <1>15 DEF DeleteInstance, afterTeardown
<1>16. CASE Stopped(t)
  BY <1>16 DEF Stopped
<1>17. CASE EnableRefused(t)
  BY <1>17 DEF EnableRefused
<1>18. CASE EnableReady(t)
  BY <1>18 DEF EnableReady
<1>19. CASE beginRuntimeStart(t)
  BY <1>19 DEF beginRuntimeStart, claimStart
<1>20. CASE Prepare(t)
  BY <1>20 DEF Prepare
<1>21. CASE Launch(t)
  BY <1>21 DEF Launch
<1>22. CASE LaunchReturns(t)
  BY <1>22 DEF LaunchReturns
<1>23. CASE ClaimStarted(t)
  BY <1>23 DEF ClaimStarted
<1>24. CASE Drop(t)
  BY <1>24 DEF Drop
<1>25. CASE FailStart(t)
  BY <1>25 DEF FailStart
<1>26. CASE RuntimeFails(t)
  BY <1>26 DEF RuntimeFails
<1>27. CASE releaseFailedRuntime(t)
  BY <1>27, CancelRun DEF releaseFailedRuntime, InvalidateRuntime
<1>28. CASE FailedRuntimeStopped(t)
  BY <1>28 DEF FailedRuntimeStopped
<1> QED BY <1>1, <1>2, <1>3, <1>4, <1>5, <1>6, <1>7, <1>8, <1>9, <1>10, <1>11, <1>12,
           <1>13, <1>14, <1>15, <1>16, <1>17, <1>18, <1>19, <1>20, <1>21, <1>22, <1>23,
           <1>24, <1>25, <1>26, <1>27, <1>28
       DEF step, submitStep, runStep, releaseStep

-----------------------------------------------------------------------------
(* The card during an eSIM switch *)

NoSwitchEnded == \A e \in Tasks : kind[e] = "switchEnd" => pc[e] = "idle"

\* A runtime that somebody is stopping can still be found, or a release stops it too.
StoppingIsHeld ==
  \A t \in Tasks : pc[t] = "stopping" /\ target[t] \in live =>
    instance = target[t] \/ released[target[t]] = "stopping"

\* The device is marked from the first step of SwitchBegin on, and once SwitchBegin has
\* torn the session down the store is empty.
SwitchMarked ==
  \A s \in Tasks : kind[s] = "switchBegin" =>
    /\ pc[s] # "idle" /\ NoSwitchEnded => switching
    /\ pc[s] \in {"stopping", "delete"} => instance \in {None, target[s]}
    /\ pc[s] = "stopped" => instance = None

\* Every step keeps the switch marked and its runtimes on their way out.
LEMMA StepSwitchMarked ==
  ASSUME Types, HeldInv, Mutex, ReconnectWalks, Lanes, FinishedUnwinds, StoppingIsHeld, SwitchMarked,
         NEW t \in Tasks, step(t)
  PROVE  StoppingIsHeld' /\ SwitchMarked'
<1> USE LifecycleAssumption
        DEF Types, Shape, at, goto, finish, unwind, control, slot, others, locals, Labels,
            LifecycleAssumption, HeldInv, NoOrphan, accounted, InstanceUnwound,
            TargetsUnwound, DeletedIsStopped, Unwound, Mutex, inLock, InLock, ReconnectWalks, Lanes,
            FinishedUnwinds, Draws, StoppingIsHeld, SwitchMarked, NoSwitchEnded, Preempting, Recovering, Invalidating
<1>1. CASE Invalidate(t)
  BY <1>1 DEF Invalidate, InvalidateRuntime, cancelRun
<1>2. CASE ScheduleDesiredRecover(t)
  BY <1>2 DEF ScheduleDesiredRecover
<1>3. CASE Capture(t)
  <2>1. switching \/ kind[t] = "switchBegin" => switching'
    BY <1>3 DEF Capture
  <2>2. /\ pc[t] \in {"idle", "capture"} /\ pc' = [pc EXCEPT ![t] = pc'[t]]
        /\ pc'[t] \in {"bind", "lock"} /\ UNCHANGED <<kind, instance, target, live, released>>
    BY <1>3 DEF Capture, mayCapture
  <2> QED BY <2>1, <2>2
<1>4. CASE Lock(t)
  BY <1>4 DEF Lock
<1>5. CASE LockPreempting(t)
  BY <1>5 DEF LockPreempting
<1>6. CASE Check(t)
  BY <1>6 DEF Check
<1>7. CASE bindCommandRun(t)
  BY <1>7 DEF bindCommandRun, install, cancelRun
<1>8. CASE Dispatch(t)
  BY <1>8 DEF Dispatch, firstStep
<1>9. CASE ClearRun(t)
  BY <1>9 DEF ClearRun
<1>10. CASE Unlock(t)
  BY <1>10 DEF Unlock
<1>11. CASE Return(t)
  <2>1. switching /\ kind[t] # "switchEnd" => switching'
    BY <1>11 DEF Return
  <2>2. /\ pc[t] = "returned" /\ pc' = [pc EXCEPT ![t] = "done"]
        /\ UNCHANGED <<kind, instance, target, live, released>>
    BY <1>11 DEF Return
  <2> QED BY <2>1, <2>2
<1>12. CASE InvalidateState(t)
  BY <1>12 DEF InvalidateState
<1>13. CASE StopInstance(t)
  BY <1>13 DEF StopInstance, afterTeardown
<1>14. CASE InstanceStopped(t)
  BY <1>14 DEF InstanceStopped
<1>15. CASE DeleteInstance(t)
  BY <1>15 DEF DeleteInstance, afterTeardown
<1>16. CASE Stopped(t)
  BY <1>16 DEF Stopped
<1>17. CASE EnableRefused(t)
  BY <1>17 DEF EnableRefused
<1>18. CASE EnableReady(t)
  BY <1>18 DEF EnableReady
<1>19. CASE beginRuntimeStart(t)
  BY <1>19 DEF beginRuntimeStart, claimStart
<1>20. CASE Prepare(t)
  BY <1>20 DEF Prepare
<1>21. CASE Launch(t)
  BY <1>21 DEF Launch
<1>22. CASE LaunchReturns(t)
  BY <1>22 DEF LaunchReturns
<1>23. CASE ClaimStarted(t)
  BY <1>23 DEF ClaimStarted
<1>24. CASE Drop(t)
  BY <1>24 DEF Drop
<1>25. CASE FailStart(t)
  BY <1>25 DEF FailStart
<1>26. CASE RuntimeFails(t)
  BY <1>26 DEF RuntimeFails
<1>27. CASE releaseFailedRuntime(t)
  BY <1>27 DEF releaseFailedRuntime, InvalidateRuntime, cancelRun
<1>28. CASE FailedRuntimeStopped(t)
  BY <1>28 DEF FailedRuntimeStopped
<1> QED BY <1>1, <1>2, <1>3, <1>4, <1>5, <1>6, <1>7, <1>8, <1>9, <1>10, <1>11, <1>12,
           <1>13, <1>14, <1>15, <1>16, <1>17, <1>18, <1>19, <1>20, <1>21, <1>22, <1>23,
           <1>24, <1>25, <1>26, <1>27, <1>28
       DEF step, submitStep, runStep, releaseStep

\* Nothing runs that could use the card, and nobody is about to start anything.
Quiet ==
  /\ instance = None
  /\ \A t \in Tasks : pc[t] \notin {"begin", "prepare", "launch", "launching", "claim", "drop"}
  /\ \A i \in live : released[i] = "stopping"

CardQuiet ==
  \A s \in Tasks : kind[s] = "switchBegin" /\ result[s] = "ok" /\ NoSwitchEnded => Quiet

\* Every step keeps the card quiet between SwitchBegin and SwitchEnd.
LEMMA StepCardQuiet ==
  ASSUME Types, HeldInv, Mutex, ReconnectWalks, Lanes, FinishedUnwinds, StoppingIsHeld, SwitchMarked,
         CardQuiet, NEW t \in Tasks, step(t)
  PROVE  CardQuiet'
<1> USE LifecycleAssumption
        DEF Types, Shape, at, goto, finish, unwind, control, slot, others, locals, Labels,
            LifecycleAssumption, HeldInv, NoOrphan, accounted, InstanceUnwound,
            Unwound, Mutex, inLock, InLock, ReconnectWalks, Lanes, FinishedUnwinds, Draws,
            StoppingIsHeld, SwitchMarked, NoSwitchEnded, CardQuiet, Quiet, Preempting, Recovering, Invalidating
<1>1. CASE Invalidate(t)
  BY <1>1 DEF Invalidate, InvalidateRuntime, cancelRun
<1>2. CASE ScheduleDesiredRecover(t)
  BY <1>2 DEF ScheduleDesiredRecover
<1>3. CASE Capture(t)
  BY <1>3 DEF Capture, mayCapture
<1>4. CASE Lock(t)
  BY <1>4 DEF Lock
<1>5. CASE LockPreempting(t)
  BY <1>5 DEF LockPreempting
<1>6. CASE Check(t)
  BY <1>6 DEF Check
<1>7. CASE bindCommandRun(t)
  BY <1>7 DEF bindCommandRun, install, cancelRun
<1>8. CASE Dispatch(t)
  BY <1>8 DEF Dispatch, firstStep
<1>9. CASE ClearRun(t)
  BY <1>9 DEF ClearRun
<1>10. CASE Unlock(t)
  BY <1>10 DEF Unlock
<1>11. CASE Return(t)
  BY <1>11 DEF Return
<1>12. CASE InvalidateState(t)
  BY <1>12 DEF InvalidateState
<1>13. CASE StopInstance(t)
  BY <1>13 DEF StopInstance, afterTeardown
<1>14. CASE InstanceStopped(t)
  BY <1>14 DEF InstanceStopped
<1>15. CASE DeleteInstance(t)
  BY <1>15 DEF DeleteInstance, afterTeardown
<1>16. CASE Stopped(t)
  BY <1>16 DEF Stopped
<1>17. CASE EnableRefused(t)
  BY <1>17 DEF EnableRefused
<1>18. CASE EnableReady(t)
  BY <1>18 DEF EnableReady
<1>19. CASE beginRuntimeStart(t)
  BY <1>19 DEF beginRuntimeStart, claimStart
<1>20. CASE Prepare(t)
  BY <1>20 DEF Prepare
<1>21. CASE Launch(t)
  BY <1>21 DEF Launch
<1>22. CASE LaunchReturns(t)
  BY <1>22 DEF LaunchReturns
<1>23. CASE ClaimStarted(t)
  BY <1>23 DEF ClaimStarted
<1>24. CASE Drop(t)
  BY <1>24 DEF Drop
<1>25. CASE FailStart(t)
  BY <1>25 DEF FailStart
<1>26. CASE RuntimeFails(t)
  BY <1>26 DEF RuntimeFails
<1>27. CASE releaseFailedRuntime(t)
  BY <1>27 DEF releaseFailedRuntime, InvalidateRuntime, cancelRun
<1>28. CASE FailedRuntimeStopped(t)
  BY <1>28 DEF FailedRuntimeStopped
<1> QED BY <1>1, <1>2, <1>3, <1>4, <1>5, <1>6, <1>7, <1>8, <1>9, <1>10, <1>11, <1>12,
           <1>13, <1>14, <1>15, <1>16, <1>17, <1>18, <1>19, <1>20, <1>21, <1>22, <1>23,
           <1>24, <1>25, <1>26, <1>27, <1>28
       DEF step, submitStep, runStep, releaseStep

-----------------------------------------------------------------------------
(* The theorems *)

LifecycleInv ==
  /\ Types /\ Booleans /\ Mutex /\ ReconnectWalks /\ Lanes /\ EarlyIsFresh /\ FinishedUnwinds
  /\ Epochs /\ MarkOwned /\ StoppingIsHeld /\ SwitchMarked /\ CardQuiet

OwnershipInv == NoRestart /\ Versions /\ Reached /\ StartsAreLate /\ LeavesLate

\* Both inductive invariants hold in every reachable state.
LEMMA LifecycleSteps == Spec => [](HeldInv /\ LifecycleInv)
<1>1. Init => LifecycleInv
  <2> SUFFICES ASSUME Init PROVE LifecycleInv
    OBVIOUS
  <2> USE LifecycleAssumption DEF Init, LifecycleAssumption
  <2>1. Types
    BY DEF Types, Shape, Labels
  <2>2. Booleans
    BY DEF Booleans
  <2>3. Mutex /\ ReconnectWalks /\ Lanes /\ EarlyIsFresh /\ FinishedUnwinds
    BY DEF Mutex, inLock, InLock, ReconnectWalks, Lanes, Draws, EarlyIsFresh, FinishedUnwinds
  <2>4. Epochs /\ MarkOwned
    BY DEF Epochs, Starting, MarkOwned
  <2>5. StoppingIsHeld /\ SwitchMarked /\ CardQuiet
    BY DEF StoppingIsHeld, SwitchMarked, CardQuiet
  <2> QED BY <2>1, <2>2, <2>3, <2>4, <2>5 DEF LifecycleInv
<1>2. HeldInv /\ LifecycleInv /\ [Next]_vars => LifecycleInv'
  <2> SUFFICES ASSUME HeldInv, LifecycleInv, [Next]_vars PROVE LifecycleInv'
    OBVIOUS
  <2>1. ASSUME NEW t \in Tasks, step(t) PROVE LifecycleInv'
    BY <2>1, StepTypes, StepBooleans, StepMutex, StepFinished, StepEpochs, StepMarkOwned,
       StepSwitchMarked, StepCardQuiet DEF LifecycleInv, HeldInv
  <2>2. CASE UNCHANGED vars
    <3> USE <2>2 DEF LifecycleInv, vars, control, slot, locals, others
    <3>1. Types' /\ Booleans'
      BY DEF Types, Shape, Booleans
    <3>2. Mutex' /\ ReconnectWalks' /\ Lanes' /\ EarlyIsFresh' /\ FinishedUnwinds'
      BY DEF Mutex, inLock, Preempting, ReconnectWalks, Lanes, Draws, EarlyIsFresh, FinishedUnwinds
    <3>3. Epochs' /\ MarkOwned'
      BY DEF Epochs, MarkOwned, Preempting
    <3>4. StoppingIsHeld' /\ SwitchMarked' /\ CardQuiet'
      BY DEF StoppingIsHeld, SwitchMarked, CardQuiet, NoSwitchEnded, Quiet
    <3> QED BY <3>1, <3>2, <3>3, <3>4
  <2> QED BY <2>1, <2>2 DEF Next, step
<1> QED BY <1>1, <1>2, LifecycleInvariant, PTL DEF Spec

\* Every variable of the host keeps its type, the store holds only runtimes whose start
\* succeeded, and runMu is only held by a command on its way.
THEOREM LifecycleTypeOK == Spec => []TypeOK
<1>1. LifecycleInv => TypeOK
  <2> SUFFICES ASSUME LifecycleInv PROVE TypeOK
    OBVIOUS
  <2>1. {starting, inFlight, switching} \subseteq BOOLEAN /\ canceled \in [Tasks -> BOOLEAN]
    BY DEF LifecycleInv, Booleans
  <2>2. runMu # None => pc[runMu] \notin {"idle", "capture", "lock", "wait", "returned", "done"}
    BY DEF LifecycleInv, Types, Mutex, inLock, InLock
  <2>3. instance # None => result[instance] = "ok"
    BY DEF LifecycleInv, FinishedUnwinds
  <2>4. {inv, gen, ep} \subseteq [Tasks -> Nat] /\ {generation, invalidation, epoch} \subseteq Nat
    BY DEF LifecycleInv, Types
  <2> QED BY <2>1, <2>2, <2>3, <2>4 DEF LifecycleInv, Types, Shape, TypeOK
<1> QED BY <1>1, LifecycleSteps, PTL

\* A "starting" mark is never left behind: whoever set it will take it away, or a
\* preempting command that has not been canceled will.
THEOREM LifecycleStartingHasOwner == Spec => []StartingHasOwner
<1>1. LifecycleInv => StartingHasOwner
  BY DEF LifecycleInv, MarkOwned, StartingHasOwner, Starting
<1> QED BY <1>1, LifecycleSteps, PTL

\* A task stays the call it is.
LEMMA KindFixed == [Next]_vars => kind' = kind
<1> USE DEF vars, control
<1>1. ASSUME NEW t \in Tasks, step(t) PROVE kind' = kind
  BY <1>1 DEF step, submitStep, runStep, releaseStep, Invalidate, ScheduleDesiredRecover, Capture,
       Lock, Check, bindCommandRun, install, LockPreempting, Dispatch, ClearRun, Unlock, Return,
       InvalidateState, StopInstance, InstanceStopped, DeleteInstance, Stopped, EnableRefused,
       EnableReady, beginRuntimeStart, Prepare, Launch, LaunchReturns, ClaimStarted, Drop,
       FailStart, RuntimeFails, releaseFailedRuntime, FailedRuntimeStopped
<1> QED BY <1>1 DEF Next, step

\* From the return of SwitchBegin to SwitchEnd nothing that could use the card exists,
\* whatever other calls are made, if there is one SwitchEnd to wait for.
THEOREM LifecycleCardReleased ==
  ASSUME \A m \in Mixes : \A d, e \in Tasks : m[d] = "switchEnd" /\ m[e] = "switchEnd" => d = e
  PROVE  Spec => []CardReleased
<1> DEFINE OneSwitchEnd == \A d, e \in Tasks : kind[d] = "switchEnd" /\ kind[e] = "switchEnd" => d = e
<1>1. Init => OneSwitchEnd
  BY DEF Init
<1>2. OneSwitchEnd /\ [Next]_vars => OneSwitchEnd'
  BY KindFixed
<1>3. LifecycleInv /\ OneSwitchEnd => CardReleased
  BY DEF LifecycleInv, CardQuiet, Quiet, NoSwitchEnded, CardReleased, at
<1> QED BY <1>1, <1>2, <1>3, LifecycleSteps, PTL DEF Spec

\* Where no Restart is among the calls, a runtime in the store was asked for after every
\* Disable, SwitchBegin and TeardownForReconnect that has returned.  (A Restart that another
\* command overtook while it waited for runMu can no longer be canceled: then this fails.)
THEOREM LifecycleOwnershipBoundary ==
  ASSUME \A m \in Mixes : \A t \in Tasks : m[t] # "restart"
  PROVE  Spec => []OwnershipBoundary
<1>1. Init => OwnershipInv
  BY LifecycleAssumption DEF Init, OwnershipInv, NoRestart, Versions, Reached, StartsAreLate, Starting, LeavesLate,
         Drawn, LifecycleAssumption
<1>2. HeldInv /\ LifecycleInv /\ OwnershipInv /\ [Next]_vars => OwnershipInv'
  <2> SUFFICES ASSUME HeldInv, LifecycleInv, OwnershipInv, [Next]_vars PROVE OwnershipInv'
    OBVIOUS
  <2>1. NoRestart'
    BY KindFixed DEF OwnershipInv, NoRestart
  <2>2. ASSUME NEW t \in Tasks, step(t) PROVE OwnershipInv'
    BY <2>1, <2>2, StepVersions, StepReached, StepLate, StepLeaves
       DEF OwnershipInv, LifecycleInv, HeldInv
  <2>3. CASE UNCHANGED vars
    BY <2>1, <2>3 DEF vars, control, slot, locals, others, OwnershipInv, Versions, Reached,
                      StartsAreLate, LeavesLate, Drawn, Draws, boundary
  <2> QED BY <2>2, <2>3 DEF Next, step
<1>3. OwnershipInv => OwnershipBoundary
  BY DEF OwnershipInv, LeavesLate, Draws, OwnershipBoundary
<1> QED BY <1>1, <1>2, <1>3, LifecycleSteps, PTL DEF Spec

\* In every mix of calls, the command that owns the hardware and takes turns has been told
\* to give up as soon as anybody has drawn a boundary since it was submitted, whichever
\* preempting commands contend with it for the runCancel slot of the device.
THEOREM LifecycleOrdinaryCanceled == Spec => []OrdinaryCanceled
<1>1. Init => Watched
  BY DEF Init, Watched, Bound
<1>2. HeldInv /\ LifecycleInv /\ Watched /\ [Next]_vars => Watched'
  <2> SUFFICES ASSUME HeldInv, LifecycleInv, Watched, [Next]_vars PROVE Watched'
    OBVIOUS
  <2>1. ASSUME NEW t \in Tasks, step(t) PROVE Watched'
    BY <2>1, StepWatched DEF LifecycleInv
  <2>2. CASE UNCHANGED vars
    BY <2>2 DEF vars, control, slot, locals, others, Watched, Preempting
  <2> QED BY <2>1, <2>2 DEF Next, step
<1>3. LifecycleInv /\ Watched => OrdinaryCanceled
  <2> SUFFICES ASSUME LifecycleInv, Watched, NEW t \in Tasks, runMu = t,
                      pc[t] \notin {"lock", "check", "bind", "clear", "unlock"},
                      ~Preempting(t), invalidation > inv[t], ~canceled[t]
               PROVE  FALSE
    BY DEF OrdinaryCanceled
  <2>1. kind[t] # "reconnect" /\ pc[t] \in Bound
    BY DEF LifecycleInv, Mutex, inLock, InLock, Bound
  <2>2. invalidation \in Nat /\ inv[t] \in Nat
    BY DEF LifecycleInv, Types
  <2> QED BY <2>1, <2>2 DEF Watched
<1> QED BY <1>1, <1>2, <1>3, LifecycleSteps, PTL DEF Spec
=============================================================================
