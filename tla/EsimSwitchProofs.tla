-------------------------- MODULE EsimSwitchProofs --------------------------
(***************************************************************************)
(* Proofs about EsimSwitch, for any number of switches, profiles, settings  *)
(* and failures.                                                            *)
(***************************************************************************)
EXTENDS EsimSwitch, TLAPS

(* ---------------------------------------------------------------------- *)
(* Types                                                                   *)
(* ---------------------------------------------------------------------- *)

\* A call that has started has its snapshot, and a policy is applied on the way to
\* one of two stages.
CallOK(s) ==
    /\ sw[s].pc # "idle" => sw[s].snap \in Contexts
    /\ sw[s].pc \in {"policy", "project"} => sw[s].then \in {"online", "auth"}
    /\ retry[s].pc # "none" => sw[s].pc # "idle"

Typed == TypeOK /\ \A s \in Switches : CallOK(s)

(* ---------------------------------------------------------------------- *)
(* What a step does to the calls                                           *)
(* ---------------------------------------------------------------------- *)

\* A call is as before, but for the gate, on which no property depends.
Alike(o) ==
    /\ sw'[o].pc = sw[o].pc /\ sw'[o].token = sw[o].token /\ sw'[o].snap = sw[o].snap
    /\ sw'[o].read = sw[o].read /\ sw'[o].then = sw[o].then /\ sw'[o].owner = sw[o].owner
    /\ sw'[o].worker = sw[o].worker /\ sw'[o].degraded = sw[o].degraded

\* Only the call s moves, to stage p.
Moves(s, p) ==
    /\ sw' \in [Switches -> Calls]
    /\ sw'[s].pc = p
    /\ \A o \in Switches \ {s} : Alike(o)

\* The move changes the token, the snapshot and the worker of the call in no way.
Keeps(s) ==
    /\ sw'[s].token = sw[s].token /\ sw'[s].snap = sw[s].snap /\ sw'[s].worker = sw[s].worker

\* The move changes nothing but the stage.
Advances(s, p) ==
    /\ Moves(s, p) /\ Keeps(s)
    /\ sw'[s].read = sw[s].read /\ sw'[s].then = sw[s].then /\ sw'[s].owner = sw[s].owner
    /\ sw'[s].degraded = sw[s].degraded

\* The goroutine ends.
Ends(s) == Moves(s, "done") /\ Keeps(s) /\ sw'[s].degraded = sw[s].degraded

\* The mark is left alone, or cleared by the goroutine as it ends.
Stays(s, p) == Advances(s, p) /\ current' = current
Leaves(s) == Ends(s) /\ current' = Cleared(s)

\* Storing a new stage in a call.
LEMMA AdvanceShape ==
    ASSUME sw \in [Switches -> Calls], NEW s \in Switches, NEW p \in Stages,
           sw' = [sw EXCEPT ![s].pc = p]
    PROVE  Advances(s, p)
<1>1. [sw[s] EXCEPT !.pc = p] \in Calls
  BY DEF Calls
<1>2. sw' = [sw EXCEPT ![s] = [sw[s] EXCEPT !.pc = p]]
  OBVIOUS
<1>3. sw' \in [Switches -> Calls] /\ sw'[s] = [sw[s] EXCEPT !.pc = p]
  BY <1>1, <1>2
<1>4. \A o \in Switches \ {s} : Alike(o)
  BY <1>2 DEF Alike
<1> QED BY <1>3, <1>4 DEF Advances, Moves, Keeps, Calls

\* Storing a new call.
LEMMA UpdateShape ==
    ASSUME sw \in [Switches -> Calls], NEW s \in Switches, NEW c \in Calls,
           sw' = [sw EXCEPT ![s] = c]
    PROVE  Moves(s, c.pc) /\ sw'[s] = c
<1>1. sw' \in [Switches -> Calls] /\ sw'[s] = c
  OBVIOUS
<1>2. \A o \in Switches \ {s} : Alike(o)
  BY DEF Alike
<1> QED BY <1>1, <1>2 DEF Moves

\* What Stopped leaves of a goroutine.
LEMMA StoppedShape ==
    ASSUME sw \in [Switches -> Calls], NEW s \in Switches, Stopped(s)
    PROVE  Leaves(s)
<1>1. /\ Finished(s) \in Calls /\ Finished(s).pc = "done"
      /\ Finished(s).token = sw[s].token /\ Finished(s).snap = sw[s].snap
      /\ Finished(s).worker = sw[s].worker /\ Finished(s).degraded = sw[s].degraded
  BY DEF Finished, Idle, Calls, Stages
<1> HIDE DEF Finished
<1>2. Moves(s, "done") /\ sw'[s] = Finished(s)
  BY <1>1, UpdateShape DEF Stopped
<1> QED BY <1>1, <1>2 DEF Leaves, Ends, Keeps, Stopped

\* The steps that only change the stage.
LEMMA StageShapes ==
    ASSUME sw \in [Switches -> Calls], NEW s \in Switches
    PROVE  /\ Lower(s) => Advances(s, "barrier")
           /\ Barrier(s) => Advances(s, "enable") \/ Advances(s, "abort")
           /\ Enable(s) => Advances(s, "after") \/ Advances(s, "abort")
           /\ Abort(s) => Advances(s, "failed")
           /\ OnFailed(s) => Advances(s, "undo") \/ Advances(s, "done")
           /\ UndoIdentity(s) => Advances(s, "undoradio")
           /\ UndoRadio(s) => Advances(s, "done")
           /\ Connect(s) => Advances(s, "ending") \/ Advances(s, "radio")
<1>1. ASSUME Lower(s) PROVE Advances(s, "barrier")
  BY <1>1, AdvanceShape DEF Lower, Stages
<1>2. ASSUME Barrier(s) PROVE Advances(s, "enable") \/ Advances(s, "abort")
  BY <1>2, AdvanceShape DEF Barrier, Stages
<1>3. ASSUME Enable(s) PROVE Advances(s, "after") \/ Advances(s, "abort")
  BY <1>3, AdvanceShape DEF Enable, Stages
<1>4. ASSUME Abort(s) PROVE Advances(s, "failed")
  BY <1>4, AdvanceShape DEF Abort, Stages
<1>5. ASSUME OnFailed(s) PROVE Advances(s, "undo") \/ Advances(s, "done")
  BY <1>5, AdvanceShape DEF OnFailed, Stages
<1>6. ASSUME UndoIdentity(s) PROVE Advances(s, "undoradio")
  BY <1>6, AdvanceShape DEF UndoIdentity, Stages
<1>7. ASSUME UndoRadio(s) PROVE Advances(s, "done")
  BY <1>7, AdvanceShape DEF UndoRadio, Stages
<1>8. ASSUME Connect(s) PROVE Advances(s, "ending") \/ Advances(s, "radio")
  BY <1>8, AdvanceShape DEF Connect, Stages
<1> QED BY <1>1, <1>2, <1>3, <1>4, <1>5, <1>6, <1>7, <1>8

\* The steps that change the stage or end the goroutine.
LEMMA StopShapes ==
    ASSUME sw \in [Switches -> Calls], NEW s \in Switches
    PROVE  /\ CoreReady(s) => Stays(s, "converge") \/ Leaves(s)
           /\ Online(s) => Stays(s, "identity") \/ Leaves(s)
           /\ Publish(s) => Stays(s, "runtime") \/ Leaves(s)
           /\ SwitchEnd(s) => Stays(s, "radio") \/ Leaves(s)
           /\ RestoreRadio(s) => Leaves(s)
<1>1. ASSUME CoreReady(s) PROVE Stays(s, "converge") \/ Leaves(s)
  BY <1>1, AdvanceShape, StoppedShape DEF Stays, CoreReady, Stages
<1>2. ASSUME Online(s) PROVE Stays(s, "identity") \/ Leaves(s)
  BY <1>2, AdvanceShape, StoppedShape DEF Stays, Online, Stages
<1>3. ASSUME Publish(s) PROVE Stays(s, "runtime") \/ Leaves(s)
  BY <1>3, AdvanceShape, StoppedShape DEF Stays, Publish, Stages
<1>4. ASSUME SwitchEnd(s) PROVE Stays(s, "radio") \/ Leaves(s)
  BY <1>4, AdvanceShape, StoppedShape DEF Stays, SwitchEnd, Stages
<1>5. ASSUME RestoreRadio(s) PROVE Leaves(s)
  BY <1>5, AdvanceShape, StoppedShape DEF Stays, RestoreRadio, Stages
<1> QED BY <1>1, <1>2, <1>3, <1>4, <1>5

\* The call moves on; what others lose is their gate.
LEMMA TeardownShape ==
    ASSUME sw \in [Switches -> Calls], NEW s \in Switches, Teardown(s)
    PROVE  Advances(s, "lower")
<1>1. \A c \in Calls : /\ [c EXCEPT !.gate = "canceled"] \in Calls
                       /\ [c EXCEPT !.pc = "lower"] \in Calls
  BY DEF Calls, Stages
<1>2. \A o \in Switches : sw'[o] \in {sw[o], [sw[o] EXCEPT !.gate = "canceled"], [sw[o] EXCEPT !.pc = "lower"]}
  BY DEF Teardown
<1>3. sw' \in [Switches -> Calls]
  BY <1>1, <1>2 DEF Teardown
<1>4. sw'[s] = [sw[s] EXCEPT !.pc = "lower"]
  BY DEF Teardown
<1>5. \A o \in Switches \ {s} : sw'[o] \in {sw[o], [sw[o] EXCEPT !.gate = "canceled"]}
  BY DEF Teardown
<1>6. \A o \in Switches \ {s} : Alike(o)
  BY <1>5 DEF Alike, Calls
<1> QED BY <1>3, <1>4, <1>6 DEF Advances, Moves, Keeps, Calls

\* What a call that has just begun looks like.
Started(s, target) ==
    /\ Moves(s, "begin")
    /\ sw'[s].token = 0 /\ sw'[s].worker = worker /\ ~sw'[s].degraded
    /\ sw'[s].snap = [token |-> 0, before |-> id.iccid, flight |-> radio # "online",
                      target |-> target, gen |-> 0]

\* Begin gives the call its token.
LEMMA BeginShape ==
    ASSUME sw \in [Switches -> Calls], NEW s \in Switches, Begin(s), seq \in Nat
    PROVE  Moves(s, "teardown") /\ sw'[s].token = seq + 1 /\ sw'[s].snap = sw[s].snap /\ sw'[s].worker = sw[s].worker
<1> DEFINE c == [sw[s] EXCEPT !.token = seq + 1, !.pc = "teardown"]
<1>0. \A b \in Calls, n \in Nat : [b EXCEPT !.token = n, !.pc = "teardown"] \in Calls
  BY ZenonT(40) DEF Calls, Stages
<1>1. c \in Calls /\ c.pc = "teardown" /\ c.token = seq + 1 /\ c.snap = sw[s].snap /\ c.worker = sw[s].worker
  <2>1. PICK b \in Calls, n \in Nat : b = sw[s] /\ n = seq + 1
    OBVIOUS
  <2>2. c = [b EXCEPT !.token = n, !.pc = "teardown"]
    BY <2>1
  <2>3. c \in Calls
    BY <1>0, <2>2
  <2> QED BY <2>1, <2>3 DEF Calls
<1>2. sw' = [sw EXCEPT ![s] = c]
  BY DEF Begin
<1> HIDE DEF c
<1>3. Moves(s, c.pc) /\ sw'[s] = c
  BY <1>1, <1>2, UpdateShape
<1> QED BY <1>1, <1>3 DEF Keeps, Moves, Advances, Started, Begin

\* Start fills the call in.
LEMMA StartShape ==
    ASSUME sw \in [Switches -> Calls], NEW s \in Switches, NEW target \in Profiles, Start(s, target),
           id \in Identities, worker \in Nat
    PROVE  Started(s, target)
<1> DEFINE c == [Idle EXCEPT !.pc = "begin", !.worker = worker,
                  !.snap = [token |-> 0, before |-> id.iccid, flight |-> radio # "online",
                            target |-> target, gen |-> 0]]
<1>1. c \in Calls /\ c.pc = "begin" /\ c.token = 0 /\ c.worker = worker /\ ~c.degraded
      /\ c.snap = [token |-> 0, before |-> id.iccid, flight |-> radio # "online",
                   target |-> target, gen |-> 0]
  BY DEF Calls, Stages, Idle, Contexts, Identities
<1>2. sw' = [sw EXCEPT ![s] = c]
  BY DEF Start
<1> HIDE DEF c
<1>3. Moves(s, c.pc) /\ sw'[s] = c
  BY <1>1, <1>2, UpdateShape
<1> QED BY <1>1, <1>3 DEF Keeps, Moves, Advances, Started, Start

\* The identities that a switch writes are identities.
LEMMA IdentityTypes ==
    ASSUME id \in Identities
    PROVE  /\ \A t \in Profiles : Transition(t) \in Identities /\ Ensured(t) \in Identities
           /\ Degraded \in Identities
           /\ \A t \in Profiles : Published(t) \in Identities
           /\ \A t \in Profiles \cup {None} : Restored(t) \in Identities
<1>1. \A t \in Profiles : Transition(t) \in Identities
  BY DEF Transition, Identities
<1>2. \A t \in Profiles : Ensured(t) \in Identities
  BY <1>1 DEF Ensured
<1>3. Degraded \in Identities
  BY DEF Degraded, Identities
<1>4. \A t \in Profiles : Published(t) \in Identities
  BY DEF Published, Identities
<1>5. \A t \in Profiles \cup {None} : Restored(t) \in Identities
  BY DEF Restored, Identities
<1> QED BY <1>1, <1>2, <1>3, <1>4, <1>5

\* The hook ends the call or gives its snapshot the generation of the identity.
LEMMA AfterShape ==
    ASSUME sw \in [Switches -> Calls], NEW s \in Switches, After(s),
           id \in Identities, sw[s].snap \in Contexts
    PROVE  \/ ~Proceeds(s) /\ Stays(s, "done") /\ id' = id
           \/ /\ Proceeds(s) /\ Moves(s, "core")
              /\ sw'[s].token = sw[s].token /\ sw'[s].worker = sw[s].worker
              /\ sw'[s].degraded = sw[s].degraded
              /\ sw'[s].snap \in Contexts
              /\ sw'[s].snap.target = sw[s].snap.target /\ sw'[s].snap.before = sw[s].snap.before
              /\ sw'[s].snap.flight = sw[s].snap.flight /\ sw'[s].snap.gen = id'.gen
<1>1. CASE ~Proceeds(s)
  <2>1. Advances(s, "done")
    BY <1>1, AdvanceShape DEF After, Stages
  <2> QED BY <1>1, <2>1 DEF After, Stays
<1>2. CASE Proceeds(s)
  <2>1. id' \in Identities
    <3>1. sw[s].snap.target \in Profiles
      BY DEF Contexts
    <3> QED BY <1>2, <3>1, IdentityTypes DEF After
  <2>2. PICK g \in Nat, k \in Contexts, b \in Calls : g = id'.gen /\ k = sw[s].snap /\ b = sw[s]
    BY <2>1 DEF Identities
  <2>3. PICK c : c = [b EXCEPT !.pc = "core", !.snap = [k EXCEPT !.gen = g]]
    OBVIOUS
  <2>4. [k EXCEPT !.gen = g] \in Contexts
    BY DEF Contexts
  <2>5. c \in Calls /\ c.pc = "core" /\ c.token = b.token /\ c.worker = b.worker
        /\ c.degraded = b.degraded /\ c.snap = [k EXCEPT !.gen = g]
    BY <2>3, <2>4 DEF Calls, Stages
  <2>6. sw' = [sw EXCEPT ![s] = c]
    BY <1>2, <2>2, <2>3 DEF After
  <2>7. Moves(s, c.pc) /\ sw'[s] = c
    BY <2>5, <2>6, UpdateShape
  <2>8. c.snap.target = k.target /\ c.snap.before = k.before /\ c.snap.flight = k.flight /\ c.snap.gen = g
    BY <2>5 DEF Contexts
  <2> QED BY <1>2, <2>2, <2>4, <2>5, <2>7, <2>8
<1> QED BY <1>1, <1>2

\* Convergence ends in one of three ways.
LEMMA ConvergeShape ==
    ASSUME sw \in [Switches -> Calls], NEW s \in Switches, Converge(s)
    PROVE  \/ /\ Moves(s, "policy") /\ Keeps(s) /\ sw'[s].then = "online"
              /\ sw'[s].degraded = sw[s].degraded /\ current' = current /\ retry' = retry
           \/ /\ Moves(s, "connect") /\ Keeps(s) /\ sw'[s].degraded /\ current' = current
              /\ retry' = [retry EXCEPT ![s].pc = "scheduled"]
           \/ ~OwnerCurrent(s) /\ Leaves(s) /\ retry' = retry
<1>0. sw[s] \in Calls
  OBVIOUS
<1>1. CASE sw' = [sw EXCEPT ![s] = [sw[s] EXCEPT !.pc = "policy", !.then = "online"]] /\ UNCHANGED <<current, retry>>
  <2>1. PICK c : c = [sw[s] EXCEPT !.pc = "policy", !.then = "online"]
    OBVIOUS
  <2>2. c \in Calls /\ c.pc = "policy" /\ c.then = "online" /\ c.token = sw[s].token
        /\ c.snap = sw[s].snap /\ c.worker = sw[s].worker /\ c.degraded = sw[s].degraded
    BY <1>0, <2>1 DEF Calls, Stages
  <2>3. Moves(s, c.pc) /\ sw'[s] = c
    BY <1>1, <2>1, <2>2, UpdateShape
  <2> QED BY <1>1, <2>2, <2>3 DEF Keeps
<1>2. CASE /\ sw' = [sw EXCEPT ![s] = [sw[s] EXCEPT !.pc = "connect", !.gate = "err", !.degraded = TRUE]]
           /\ UNCHANGED current /\ retry' = [retry EXCEPT ![s].pc = "scheduled"]
  <2>1. PICK c : c = [sw[s] EXCEPT !.pc = "connect", !.gate = "err", !.degraded = TRUE]
    OBVIOUS
  <2>2. c \in Calls /\ c.pc = "connect" /\ c.degraded = TRUE /\ c.token = sw[s].token
        /\ c.snap = sw[s].snap /\ c.worker = sw[s].worker
    BY <1>0, <2>1 DEF Calls, Stages
  <2>3. Moves(s, c.pc) /\ sw'[s] = c
    BY <1>2, <2>1, <2>2, UpdateShape
  <2> QED BY <1>2, <2>2, <2>3 DEF Keeps
<1>3. CASE ~OwnerCurrent(s) /\ Stopped(s) /\ UNCHANGED retry
  BY <1>3, StoppedShape
<1> QED BY <1>1, <1>2, <1>3 DEF Converge

\* The live identity is read for the stage that publishes it.
LEMMA ReadIdentityShape ==
    ASSUME sw \in [Switches -> Calls], NEW s \in Switches, ReadIdentity(s), sw[s].snap \in Contexts
    PROVE  /\ Moves(s, "publish") /\ Keeps(s) /\ sw'[s].degraded = sw[s].degraded
           /\ sw'[s].read # None => sw'[s].read = sw[s].snap.target /\ shown = sw[s].snap.target
<1>0. sw[s] \in Calls
  OBVIOUS
<1>1. PICK v \in LiveIdentity(sw[s].snap.target) :
          sw' = [sw EXCEPT ![s] = [sw[s] EXCEPT !.read = v, !.pc = "publish"]]
  BY DEF ReadIdentity
<1>2. v \in Profiles \cup {None} /\ (v # None => v = sw[s].snap.target /\ shown = sw[s].snap.target)
  BY DEF LiveIdentity, Contexts
<1>3. PICK c : c = [sw[s] EXCEPT !.read = v, !.pc = "publish"]
  OBVIOUS
<1>4. c \in Calls /\ c.pc = "publish" /\ c.read = v /\ c.token = sw[s].token
      /\ c.snap = sw[s].snap /\ c.worker = sw[s].worker /\ c.degraded = sw[s].degraded
  BY <1>0, <1>2, <1>3 DEF Calls, Stages
<1>5. Moves(s, c.pc) /\ sw'[s] = c
  BY <1>1, <1>3, <1>4, UpdateShape
<1> QED BY <1>2, <1>4, <1>5 DEF Keeps

\* The owner that is captured is an owner.
LEMMA CapturedType ==
    ASSUME id \in Identities, epoch \in Nat, worker \in Nat
    PROVE  Captured \in Owners \cup {None}
BY DEF Captured, Owner, Owners, Identities

\* The owner is captured for the stage that projects the policy.
LEMMA CapturePolicyShape ==
    ASSUME sw \in [Switches -> Calls], NEW s \in Switches, CapturePolicy(s),
           id \in Identities, epoch \in Nat, worker \in Nat
    PROVE  /\ Moves(s, "project") /\ Keeps(s) /\ sw'[s].degraded = sw[s].degraded
           /\ sw'[s].then = sw[s].then
           /\ sw'[s].owner = IF OwnerCurrent(s) THEN Captured ELSE None
<1>0. sw[s] \in Calls
  OBVIOUS
<1>1. PICK w \in Owners \cup {None} : w = IF OwnerCurrent(s) THEN Captured ELSE None
  BY CapturedType
<1>2. PICK c : c = [sw[s] EXCEPT !.owner = w, !.pc = "project"]
  OBVIOUS
<1>3. sw' = [sw EXCEPT ![s] = c]
  BY <1>1, <1>2 DEF CapturePolicy
<1>4. c \in Calls /\ c.pc = "project" /\ c.owner = w /\ c.then = sw[s].then /\ c.token = sw[s].token
      /\ c.snap = sw[s].snap /\ c.worker = sw[s].worker /\ c.degraded = sw[s].degraded
  BY <1>0, <1>2 DEF Calls, Stages
<1>5. Moves(s, c.pc) /\ sw'[s] = c
  BY <1>3, <1>4, UpdateShape
<1> QED BY <1>1, <1>4, <1>5 DEF Keeps

\* After the policy the call goes on where it wanted to.
LEMMA ProjectShape ==
    ASSUME sw \in [Switches -> Calls], NEW s \in Switches, Project(s), sw[s].then \in {"online", "auth"}
    PROVE  Moves(s, sw[s].then) /\ Keeps(s) /\ sw'[s].degraded = sw[s].degraded
<1>0. sw[s] \in Calls
  OBVIOUS
<1>1. PICK p \in {"online", "auth"} : p = sw[s].then
  OBVIOUS
<1>2. PICK c : c = [sw[s] EXCEPT !.pc = p, !.owner = None]
  OBVIOUS
<1>3. sw' = [sw EXCEPT ![s] = c]
  BY <1>1, <1>2 DEF Project
<1>4. c \in Calls /\ c.pc = p /\ c.token = sw[s].token
      /\ c.snap = sw[s].snap /\ c.worker = sw[s].worker /\ c.degraded = sw[s].degraded
  BY <1>0, <1>2 DEF Calls, Stages
<1>5. Moves(s, c.pc) /\ sw'[s] = c
  BY <1>3, <1>4, UpdateShape
<1> QED BY <1>1, <1>4, <1>5 DEF Keeps

\* Going on to connectivity with the gate shut.
LEMMA ConnectShape ==
    ASSUME sw \in [Switches -> Calls], NEW s \in Switches,
           sw' = [sw EXCEPT ![s] = [sw[s] EXCEPT !.pc = "connect", !.gate = "err"]]
    PROVE  Moves(s, "connect") /\ Keeps(s) /\ sw'[s].degraded = sw[s].degraded
<1>0. sw[s] \in Calls
  OBVIOUS
<1>1. PICK c : c = [sw[s] EXCEPT !.pc = "connect", !.gate = "err"]
  OBVIOUS
<1>2. c \in Calls /\ c.pc = "connect" /\ c.token = sw[s].token
      /\ c.snap = sw[s].snap /\ c.worker = sw[s].worker /\ c.degraded = sw[s].degraded
  BY <1>0, <1>1 DEF Calls, Stages
<1>3. Moves(s, c.pc) /\ sw'[s] = c
  BY <1>1, <1>2, UpdateShape
<1> QED BY <1>2, <1>3 DEF Keeps

\* With an identity the policy comes next, without one connectivity.
LEMMA RuntimeShape ==
    ASSUME sw \in [Switches -> Calls], NEW s \in Switches, Runtime(s)
    PROVE  \/ ~Proceeds(s) /\ Leaves(s) /\ retry' = retry
           \/ /\ Proceeds(s) /\ sw[s].read # None
              /\ Moves(s, "policy") /\ Keeps(s) /\ sw'[s].then = "auth"
              /\ sw'[s].degraded = sw[s].degraded /\ current' = current /\ retry' = retry
           \/ /\ Proceeds(s) /\ sw[s].read = None
              /\ Moves(s, "connect") /\ Keeps(s)
              /\ sw'[s].degraded = sw[s].degraded /\ current' = current
              /\ retry' = [retry EXCEPT ![s].pc = "scheduled"]
<1>0. sw[s] \in Calls
  OBVIOUS
<1>1. CASE ~Proceeds(s)
  BY <1>1, StoppedShape DEF Runtime
<1>2. CASE Proceeds(s) /\ sw[s].read # None
  <2>1. PICK c : c = [sw[s] EXCEPT !.pc = "policy", !.then = "auth"]
    OBVIOUS
  <2>2. c \in Calls /\ c.pc = "policy" /\ c.then = "auth" /\ c.token = sw[s].token
        /\ c.snap = sw[s].snap /\ c.worker = sw[s].worker /\ c.degraded = sw[s].degraded
    BY <1>0, <2>1 DEF Calls, Stages
  <2>3. sw' = [sw EXCEPT ![s] = c]
    BY <1>2, <2>1 DEF Runtime
  <2>4. Moves(s, c.pc) /\ sw'[s] = c
    BY <2>2, <2>3, UpdateShape
  <2> QED BY <1>2, <2>2, <2>4 DEF Keeps, Runtime
<1>3. CASE Proceeds(s) /\ sw[s].read = None
  <2>1. Moves(s, "connect") /\ Keeps(s) /\ sw'[s].degraded = sw[s].degraded
    BY <1>3, ConnectShape DEF Runtime
  <2> QED BY <1>3, <2>1 DEF Runtime
<1> QED BY <1>1, <1>2, <1>3

\* The retries are scheduled, whatever becomes of the goroutine.
LEMMA AuthShape ==
    ASSUME sw \in [Switches -> Calls], NEW s \in Switches, Auth(s)
    PROVE  /\ retry' = [retry EXCEPT ![s].pc = "scheduled"]
           /\ \/ /\ Proceeds(s) /\ Moves(s, "connect") /\ Keeps(s)
                 /\ sw'[s].degraded = sw[s].degraded /\ current' = current
              \/ ~Proceeds(s) /\ Leaves(s)
<1>1. CASE ~Proceeds(s)
  BY <1>1, StoppedShape DEF Auth
<1>2. CASE Proceeds(s)
  <2>1. CASE sw' = [sw EXCEPT ![s].pc = "connect"]
    BY <1>2, <2>1, AdvanceShape DEF Auth, Stages, Advances
  <2>2. CASE sw' = [sw EXCEPT ![s] = [sw[s] EXCEPT !.pc = "connect", !.gate = "err"]]
    BY <1>2, <2>2, ConnectShape DEF Auth
  <2> QED BY <1>2, <2>1, <2>2 DEF Auth
<1> QED BY <1>1, <1>2

(* ---------------------------------------------------------------------- *)
(* Type correctness                                                        *)
(* ---------------------------------------------------------------------- *)

\* Everything but the calls.
RestTypes ==
    /\ config \in Configs
    /\ card \in Profiles /\ shown \in Profiles
    /\ radio \in {"online", "low", "off"}
    /\ id \in Identities
    /\ vowifi \in {"down", "recovered", "restored"} /\ policy \in Profiles \cup {None}
    /\ current \in Contexts \cup {None}
    /\ seq \in Nat /\ epoch \in Nat /\ worker \in Nat
    /\ lock \in Switches \cup {None}
    /\ retry \in [Switches -> Retries]
    /\ live \in Profiles \cup {None} /\ task \in Owners \cup {None}
    /\ faults \in 0..MaxFaults
    /\ spoiled \subseteq {"overlap", "radio", "unanswered", "guard", "live", "torn", "refused", "replaced"}

\* A step of a call keeps the type of the calls.
LEMMA StepCalls ==
    ASSUME Typed, NEW s \in Switches, Step(s)
    PROVE  sw' \in [Switches -> Calls] /\ \A o \in Switches : CallOK(o)'
<1> SUFFICES ASSUME NEW o \in Switches PROVE sw' \in [Switches -> Calls] /\ CallOK(o)'
  OBVIOUS
<1>0. /\ sw \in [Switches -> Calls] /\ sw[s] \in Calls /\ CallOK(s) /\ CallOK(o)
      /\ id \in Identities /\ seq \in Nat /\ epoch \in Nat /\ worker \in Nat
      /\ retry \in [Switches -> Retries]
  BY DEF Typed, TypeOK
<1>1. CASE Begin(s)
  BY <1>0, <1>1, BeginShape DEF Begin, CallOK, Advances, Stays, Leaves, Ends, Moves, Keeps, Alike
<1>2. CASE Teardown(s)
  BY <1>0, <1>2, TeardownShape DEF Teardown, CallOK, Advances, Stays, Leaves, Ends, Moves, Keeps, Alike
<1>3. CASE Lower(s)
  BY <1>0, <1>3, StageShapes DEF Lower, CallOK, Advances, Stays, Leaves, Ends, Moves, Keeps, Alike
<1>4. CASE Barrier(s)
  BY <1>0, <1>4, StageShapes DEF Barrier, CallOK, Advances, Stays, Leaves, Ends, Moves, Keeps, Alike
<1>5. CASE Enable(s)
  BY <1>0, <1>5, StageShapes, SMTT(30) DEF Enable, CallOK, Advances, Stays, Leaves, Ends, Moves, Keeps, Alike
<1>6. CASE Abort(s)
  BY <1>0, <1>6, StageShapes DEF Abort, CallOK, Advances, Stays, Leaves, Ends, Moves, Keeps, Alike
<1>7. CASE OnFailed(s)
  BY <1>0, <1>7, StageShapes DEF OnFailed, CallOK, Advances, Stays, Leaves, Ends, Moves, Keeps, Alike
<1>8. CASE UndoIdentity(s)
  BY <1>0, <1>8, StageShapes DEF UndoIdentity, CallOK, Advances, Stays, Leaves, Ends, Moves, Keeps, Alike
<1>9. CASE UndoRadio(s)
  BY <1>0, <1>9, StageShapes DEF UndoRadio, CallOK, Advances, Stays, Leaves, Ends, Moves, Keeps, Alike
<1>10. CASE After(s)
  BY <1>0, <1>10, AfterShape DEF After, CallOK, Advances, Stays, Leaves, Ends, Moves, Keeps, Alike
<1>11. CASE CoreReady(s)
  BY <1>0, <1>11, StopShapes DEF CoreReady, CallOK, Advances, Stays, Leaves, Ends, Moves, Keeps, Alike
<1>12. CASE Converge(s)
  BY <1>0, <1>12, ConvergeShape DEF Converge, CallOK, Advances, Stays, Leaves, Ends, Moves, Keeps, Alike
<1>13. CASE CapturePolicy(s)
  BY <1>0, <1>13, CapturePolicyShape DEF CapturePolicy, CallOK, Advances, Stays, Leaves, Ends, Moves, Keeps, Alike
<1>14. CASE Project(s)
  BY <1>0, <1>14, ProjectShape DEF Project, CallOK, Advances, Stays, Leaves, Ends, Moves, Keeps, Alike
<1>15. CASE Online(s)
  BY <1>0, <1>15, StopShapes DEF Online, CallOK, Advances, Stays, Leaves, Ends, Moves, Keeps, Alike
<1>16. CASE ReadIdentity(s)
  BY <1>0, <1>16, ReadIdentityShape DEF ReadIdentity, CallOK, Advances, Stays, Leaves, Ends, Moves, Keeps, Alike
<1>17. CASE Publish(s)
  BY <1>0, <1>17, StopShapes DEF Publish, CallOK, Advances, Stays, Leaves, Ends, Moves, Keeps, Alike
<1>18. CASE Runtime(s)
  BY <1>0, <1>18, RuntimeShape, ZenonT(40) DEF Runtime, CallOK, Advances, Stays, Leaves, Ends, Moves, Keeps, Alike
<1>19. CASE Auth(s)
  BY <1>0, <1>19, AuthShape DEF Auth, CallOK, Advances, Stays, Leaves, Ends, Moves, Keeps, Alike
<1>20. CASE Connect(s)
  BY <1>0, <1>20, StageShapes, ZenonT(40) DEF Connect, CallOK, Advances, Stays, Leaves, Ends, Moves, Keeps, Alike
<1>21. CASE SwitchEnd(s)
  BY <1>0, <1>21, StopShapes DEF SwitchEnd, CallOK, Advances, Stays, Leaves, Ends, Moves, Keeps, Alike
<1>22. CASE RestoreRadio(s)
  BY <1>0, <1>22, StopShapes DEF RestoreRadio, CallOK, Advances, Stays, Leaves, Ends, Moves, Keeps, Alike
<1> QED BY <1>1, <1>2, <1>3, <1>4, <1>5, <1>6, <1>7, <1>8, <1>9, <1>10, <1>11, <1>12, <1>13, <1>14, <1>15, <1>16, <1>17, <1>18, <1>19, <1>20, <1>21, <1>22 DEF Step

\* A failure is counted up to the bound.
LEMMA FaultType ==
    ASSUME faults \in 0..MaxFaults, Fault PROVE faults' \in 0..MaxFaults
BY SwitchAssumption DEF Fault

\* A command to the radio leaves a mode behind, and perhaps a mark of the failure.
LEMMA SetRadioType ==
    ASSUME RestTypes, NEW mode \in {"online", "low", "off"}, SetRadio(mode)
    PROVE  /\ radio' \in {"online", "low", "off"} /\ faults' \in 0..MaxFaults
           /\ spoiled' \in {spoiled, spoiled \cup {"radio"}}
<1>1. CASE radio' = mode /\ UNCHANGED <<faults, spoiled>>
  BY <1>1 DEF RestTypes
<1>2. CASE Fault /\ Spoil("radio") /\ UNCHANGED radio
  BY <1>2, FaultType DEF RestTypes, Spoil
<1> QED BY <1>1, <1>2 DEF SetRadio

\* A projected policy.
LEMMA ProjectedType ==
    ASSUME RestTypes, NEW owner \in Owners \cup {None}, Projected(owner)
    PROVE  /\ radio' \in {"online", "low", "off"} /\ faults' \in 0..MaxFaults
           /\ spoiled' \in {spoiled, spoiled \cup {"radio"}}
           /\ policy' \in Profiles \cup {None} /\ vowifi' \in {vowifi, "down"}
<1>1. CASE owner # None /\ ValidOwner(owner)
  <2>1. policy' \in Profiles
    BY <1>1 DEF Projected, Owners
  <2>2. (SetRadio("off") /\ vowifi' = vowifi) \/ (SetRadio("online") /\ vowifi' = "down")
    BY <1>1 DEF Projected
  <2> QED BY <2>1, <2>2, SetRadioType
<1>2. CASE ~(owner # None /\ ValidOwner(owner))
  BY <1>2 DEF Projected, RestTypes
<1> QED BY <1>1, <1>2

\* A policy that is given up on.
LEMMA RefusedType ==
    ASSUME RestTypes, NEW owner, NEW marks \in SUBSET {"refused"}, Refused(owner, marks)
    PROVE  /\ radio' \in {"online", "low", "off"} /\ faults' \in 0..MaxFaults
           /\ spoiled \subseteq spoiled' /\ spoiled' \subseteq spoiled \cup {"radio", "refused"}
           /\ policy' \in Profiles \cup {None} /\ vowifi' \in {vowifi, "down"}
BY FaultType DEF Refused, RestTypes

\* The other values that steps store.
LEMMA StoredTypes ==
    ASSUME RestTypes, NEW s \in Switches
    PROVE  /\ Cleared(s) \in Contexts \cup {None}
           /\ \A g \in Nat : WithGeneration(s, g) \in Contexts \cup {None}
           /\ [retry EXCEPT ![s].pc = "scheduled"] \in [Switches -> Retries]
           /\ Overlap(s) \subseteq {"overlap"}
<1>1. Cleared(s) \in Contexts \cup {None}
  BY DEF Cleared, RestTypes
<1>2. \A g \in Nat : WithGeneration(s, g) \in Contexts \cup {None}
  <2> SUFFICES ASSUME NEW g \in Nat PROVE WithGeneration(s, g) \in Contexts \cup {None}
    OBVIOUS
  <2>1. CASE Latest(s)
    <3>1. PICK k \in Contexts : k = current
      BY <2>1 DEF Latest, RestTypes
    <3>2. [k EXCEPT !.gen = g] \in Contexts
      BY DEF Contexts
    <3> QED BY <2>1, <3>1, <3>2 DEF WithGeneration
  <2> QED BY <2>1 DEF WithGeneration, RestTypes
<1>3. [retry EXCEPT ![s].pc = "scheduled"] \in [Switches -> Retries]
  BY DEF RestTypes, Retries
<1>4. Overlap(s) \subseteq {"overlap"}
  BY DEF Overlap
<1> QED BY <1>1, <1>2, <1>3, <1>4

\* A step of a call keeps the other types.
LEMMA StepRest ==
    ASSUME Typed, NEW s \in Switches, Step(s) PROVE RestTypes'
<1>0. /\ RestTypes /\ sw[s] \in Calls /\ CallOK(s)
      /\ sw[s].pc # "idle" => sw[s].snap \in Contexts /\ sw[s].snap.target \in Profiles
                              /\ sw[s].snap.before \in Profiles \cup {None}
      /\ sw[s].read \in Profiles \cup {None} /\ sw[s].owner \in Owners \cup {None}
  BY DEF Typed, TypeOK, RestTypes, CallOK, Contexts, Calls
<1>1. CASE Begin(s)
  <2>1. id' \in Identities
    BY <1>0, <1>1, IdentityTypes DEF Begin, RestTypes
  <2>2. PICK g \in Nat, n \in Nat, k \in Contexts : g = id'.gen /\ n = seq + 1 /\ k = sw[s].snap
    BY <1>0, <1>1, <2>1 DEF Begin, RestTypes, Identities
  <2>3. [k EXCEPT !.token = n, !.gen = g] \in Contexts
    BY DEF Contexts
  <2>4. current' \in Contexts /\ seq' \in Nat
    BY <1>1, <2>2, <2>3 DEF Begin
  <2> QED BY <1>0, <1>1, <2>1, <2>4, StoredTypes DEF Begin, RestTypes, modem, host, pool
<1>2. CASE Teardown(s)
  BY <1>0, <1>2 DEF Teardown, RestTypes, modem, host, pool
<1>3. CASE Lower(s)
  BY <1>0, <1>3, FaultType DEF Lower, RestTypes, modem, host, pool, Spoil
<1>4. CASE Barrier(s)
  BY <1>0, <1>4, FaultType DEF Barrier, RestTypes, modem, host, pool
<1>5. CASE Enable(s)
  BY <1>0, <1>5, FaultType DEF Enable, RestTypes, modem, host, pool, Spoil
<1>6. CASE Abort(s)
  BY <1>0, <1>6 DEF Abort, RestTypes, modem, host, pool
<1>7. CASE OnFailed(s)
  BY <1>0, <1>7, StoredTypes DEF OnFailed, RestTypes, modem, host, pool
<1>8. CASE UndoIdentity(s)
  BY <1>0, <1>8, IdentityTypes DEF UndoIdentity, RestTypes, modem, host, pool
<1>9. CASE UndoRadio(s)
  <2>1. SnapshotRadio(sw[s].snap, FALSE) \in {"online", "low", "off"}
    BY <1>0 DEF SnapshotRadio, RestTypes
  <2> QED BY <1>0, <1>9, <2>1, SetRadioType DEF UndoRadio, RestTypes, modem, host, pool
<1>10. CASE After(s)
  <2>1. id' \in Identities /\ id'.gen \in Nat
    BY <1>0, <1>10, IdentityTypes DEF After, RestTypes, Identities
  <2>2. current' \in Contexts \cup {None}
    <3>1. PICK g \in Nat : g = id'.gen
      BY <2>1
    <3>2. WithGeneration(s, g) \in Contexts \cup {None}
      BY <1>0, StoredTypes
    <3> QED BY <1>0, <1>10, <3>1, <3>2 DEF After, RestTypes
  <2> QED BY <1>0, <1>10, <2>1, <2>2 DEF After, RestTypes, modem, host, pool
<1>11. CASE CoreReady(s)
  BY <1>0, <1>11, StoredTypes DEF CoreReady, RestTypes, modem, host, pool, Stopped
<1>12. CASE Converge(s)
  <2>1. current' \in {current, Cleared(s)} /\ retry' \in {retry, [retry EXCEPT ![s].pc = "scheduled"]}
    BY <1>12 DEF Converge, Stopped
  <2> QED BY <1>0, <1>12, <2>1, StoredTypes, ZenonT(40) DEF Converge, RestTypes, modem, host
<1>13. CASE CapturePolicy(s)
  BY <1>0, <1>13 DEF CapturePolicy, RestTypes, modem, host, pool
<1>14. CASE Project(s)
  <2>1. CASE Projected(sw[s].owner)
    BY <1>0, <1>14, <2>1, ProjectedType DEF Project, RestTypes, modem, host, pool
  <2>2. CASE Refused(sw[s].owner, Marks(s))
    <3>1. Marks(s) \in SUBSET {"refused"}
      BY DEF Marks
    <3> QED BY <1>0, <1>14, <2>2, <3>1, RefusedType DEF Project, RestTypes, modem, host, pool
  <2> QED BY <1>14, <2>1, <2>2 DEF Project
<1>15. CASE Online(s)
  BY <1>0, <1>15, SetRadioType, StoredTypes DEF Online, RestTypes, modem, host, pool, Stopped
<1>16. CASE ReadIdentity(s)
  BY <1>0, <1>16, IdentityTypes DEF ReadIdentity, RestTypes, modem, host, pool
<1>17. CASE Publish(s)
  BY <1>0, <1>17, IdentityTypes, StoredTypes DEF Publish, RestTypes, modem, host, pool, Stopped
<1>18. CASE Runtime(s)
  BY <1>0, <1>18, StoredTypes, ZenonT(40) DEF Runtime, RestTypes, modem, host, pool, Stopped
<1>19. CASE Auth(s)
  BY <1>0, <1>19, StoredTypes, FaultType DEF Auth, RestTypes, modem, host, pool, Stopped
<1>20. CASE Connect(s)
  BY <1>0, <1>20 DEF Connect, RestTypes, modem, host, pool
<1>21. CASE SwitchEnd(s)
  BY <1>0, <1>21, StoredTypes, FaultType DEF SwitchEnd, RestTypes, modem, host, pool, Stopped
<1>22. CASE RestoreRadio(s)
  <2>1. SnapshotRadio(sw[s].snap, config.cycle) \in {"online", "low", "off"}
    BY <1>0 DEF SnapshotRadio, RestTypes
  <2> QED BY <1>0, <1>22, <2>1, SetRadioType, StoredTypes DEF RestoreRadio, RestTypes, modem, host, pool, Stopped
<1> QED BY <1>1, <1>2, <1>3, <1>4, <1>5, <1>6, <1>7, <1>8, <1>9, <1>10, <1>11, <1>12, <1>13, <1>14, <1>15, <1>16, <1>17, <1>18, <1>19, <1>20, <1>21, <1>22 DEF Step

\* Starting a call keeps the types.
LEMMA StartTyped ==
    ASSUME Typed, NEW s \in Switches, NEW target \in Profiles, Start(s, target) PROVE Typed'
<1>0. RestTypes /\ sw \in [Switches -> Calls] /\ id \in Identities /\ worker \in Nat
      /\ retry \in [Switches -> Retries] /\ radio \in {"online", "low", "off"}
  BY DEF Typed, TypeOK, RestTypes
<1>1. Started(s, target)
  BY <1>0, StartShape
<1>2. RestTypes'
  <2>1. spoiled' \subseteq spoiled \cup {"overlap"}
    BY <1>0, StoredTypes DEF Start
  <2>2. lock' = s /\ epoch' = epoch + 1 /\ faults' = faults
        /\ UNCHANGED <<config, modem, id, host, current, seq, worker, retry, live, task>>
    BY DEF Start
  <2> QED BY <1>0, <2>1, <2>2 DEF RestTypes, modem, host
<1>3. sw'[s].snap \in Contexts
  BY <1>0, <1>1 DEF Started, Contexts, Identities
<1>4. ASSUME NEW o \in Switches PROVE CallOK(o)'
  <2>1. CASE o = s
    BY <1>1, <1>3, <2>1 DEF Started, Moves, CallOK
  <2>2. CASE o # s
    BY <1>1, <2>2 DEF Started, Moves, Alike, CallOK, Start, Typed
  <2> QED BY <2>1, <2>2
<1> QED BY <1>1, <1>2, <1>4 DEF Typed, TypeOK, RestTypes, Started, Moves

\* So do the retries of a call.
LEMMA RetryTyped ==
    ASSUME Typed, NEW s \in Switches, Retry(s) PROVE Typed'
<1>0. RestTypes /\ sw' = sw /\ sw \in [Switches -> Calls]
      /\ retry \in [Switches -> Retries] /\ retry[s] \in Retries /\ retry[s].pc # "none" /\ CallOK(s)
  BY DEF Typed, TypeOK, RestTypes, Retry, RetryCheck, RetryRead, RetryPublish
<1>1. sw[s].snap \in Contexts /\ sw[s].snap.target \in Profiles
  BY <1>0 DEF CallOK, Contexts
<1>2. RestTypes'
  <2>1. CASE RetryCheck(s)
    BY <1>0, <2>1 DEF RetryCheck, RestTypes, Retries, modem, host, pool
  <2>2. CASE RetryRead(s)
    <3>1. id' \in Identities
      BY <1>0, <1>1, <2>2, IdentityTypes DEF RetryRead, RestTypes
    <3>2. PICK v \in LiveIdentity(sw[s].snap.target) : retry' = [retry EXCEPT ![s] = [pc |-> "read", read |-> v]]
      BY <2>2 DEF RetryRead
    <3>3. v \in Profiles \cup {None}
      BY <1>1 DEF LiveIdentity
    <3>4. retry' \in [Switches -> Retries]
      BY <1>0, <3>2, <3>3 DEF Retries
    <3> QED BY <1>0, <2>2, <3>1, <3>4 DEF RetryRead, RestTypes, modem, host, pool
  <2>3. CASE RetryPublish(s)
    <3>1. id' \in Identities
      BY <1>0, <2>3, IdentityTypes DEF RetryPublish, RestTypes, Retries
    <3>2. retry' \in [Switches -> Retries]
      BY <1>0, <2>3 DEF RetryPublish, Retries, NoRetry
    <3> QED BY <1>0, <2>3, <3>1, <3>2 DEF RetryPublish, RestTypes, modem, host, pool
  <2> QED BY <2>1, <2>2, <2>3 DEF Retry
<1>3. ASSUME NEW o \in Switches PROVE CallOK(o)'
  <2>1. CASE o = s
    BY <1>0, <2>1 DEF CallOK
  <2>2. CASE o # s
    <3>1. retry'[o] = retry[o]
      BY <1>0, <2>2 DEF Retry, RetryCheck, RetryRead, RetryPublish
    <3> QED BY <1>0, <3>1 DEF CallOK, Typed
  <2> QED BY <2>1, <2>2
<1> QED BY <1>0, <1>2, <1>3 DEF Typed, TypeOK, RestTypes

\* What happens beside the calls.
Outside ==
    \/ Settle \/ LiveRead \/ LiveWrite \/ TaskCapture \/ TaskProject
    \/ Recover \/ Guard \/ \E abandon \in BOOLEAN : ReplaceWorker(abandon)

\* It leaves calls and retries alone and keeps the types.
LEMMA OutsideTyped ==
    ASSUME Typed, Outside PROVE Typed' /\ sw' = sw /\ retry' = retry
<1>0. RestTypes
  BY DEF Typed, TypeOK, RestTypes
<1>1. sw' = sw /\ retry' = retry
  BY DEF Outside, Settle, LiveRead, LiveWrite, TaskCapture, TaskProject, Recover, Guard, ReplaceWorker
<1>2. RestTypes'
  <2>1. CASE Settle
    BY <1>0, <2>1 DEF Settle, RestTypes, host, pool
  <2>2. CASE LiveRead
    BY <1>0, <2>2, FaultType DEF LiveRead, RestTypes, modem, host, pool
  <2>3. CASE LiveWrite
    <3>1. id' \in Identities
      BY <1>0, <2>3 DEF LiveWrite, RestTypes, Identities
    <3> QED BY <1>0, <2>3, <3>1 DEF LiveWrite, RestTypes, modem, host, pool
  <2>4. CASE TaskCapture
    BY <1>0, <2>4, FaultType, CapturedType DEF TaskCapture, RestTypes, modem, host, pool
  <2>5. CASE TaskProject
    <3>1. CASE Projected(task)
      BY <1>0, <2>5, <3>1, ProjectedType DEF TaskProject, RestTypes, pool
    <3>2. CASE Refused(task, {})
      BY <1>0, <2>5, <3>2, RefusedType DEF TaskProject, RestTypes, pool
    <3> QED BY <2>5, <3>1, <3>2 DEF TaskProject
  <2>6. CASE Recover
    BY <1>0, <2>6 DEF Recover, RestTypes, pool
  <2>7. CASE Guard
    BY <1>0, <2>7, FaultType DEF Guard, RestTypes, modem, host, Spoil
  <2>8. ASSUME NEW abandon \in BOOLEAN, ReplaceWorker(abandon) PROVE RestTypes'
    <3>1. id' \in Identities
      BY <1>0, <2>8 DEF ReplaceWorker, RestTypes, Identities
    <3> QED BY <1>0, <2>8, <3>1, FaultType DEF ReplaceWorker, RestTypes, modem, Spoil
  <2> QED BY <2>1, <2>2, <2>3, <2>4, <2>5, <2>6, <2>7, <2>8 DEF Outside
<1>3. ASSUME NEW o \in Switches PROVE CallOK(o)'
  BY <1>1 DEF Typed, CallOK
<1> QED BY <1>1, <1>2, <1>3 DEF Typed, TypeOK, RestTypes

\* A step is one of a call, of its retries, from outside, or none at all.
LEMMA NextCases ==
    ASSUME [Next]_vars
    PROVE  \/ \E s \in Switches : \/ \E target \in Profiles : Start(s, target)
                                  \/ Step(s)
                                  \/ Retry(s)
           \/ Outside
           \/ UNCHANGED vars
BY DEF Next, Outside, Rest

\* The types hold before the first switch.
LEMMA TypedInit == Init => Typed
<1> SUFFICES ASSUME Init PROVE Typed
  OBVIOUS
<1>1. Idle \in Calls /\ NoRetry \in Retries
  BY DEF Idle, NoRetry, Calls, Retries, Stages
<1>2. RestTypes
  BY <1>1, SwitchAssumption DEF Init, RestTypes, Identities
<1>3. sw \in [Switches -> Calls] /\ \A o \in Switches : CallOK(o)
  BY <1>1 DEF Init, CallOK, Idle, NoRetry
<1> QED BY <1>2, <1>3 DEF Typed, TypeOK, RestTypes

\* Every step keeps the types.
LEMMA TypedNext == Typed /\ [Next]_vars => Typed'
<1> SUFFICES ASSUME Typed, [Next]_vars PROVE Typed'
  OBVIOUS
<1>1. ASSUME NEW s \in Switches, Step(s) PROVE Typed'
  BY <1>1, StepCalls, StepRest DEF Typed, TypeOK, RestTypes
<1>2. ASSUME UNCHANGED vars PROVE Typed'
  BY <1>2 DEF vars, modem, host, pool, Typed, TypeOK, CallOK
<1> QED BY <1>1, <1>2, NextCases, StartTyped, RetryTyped, OutsideTyped

\* Every variable keeps its type.
THEOREM EsimTypeOK == Spec => []TypeOK
<1>1. Typed => TypeOK
  BY DEF Typed
<1> QED BY <1>1, TypedInit, TypedNext, PTL DEF Spec

(* ---------------------------------------------------------------------- *)
(* The locks and the tokens                                                *)
(* ---------------------------------------------------------------------- *)

\* Stages under opMu, those of the goroutine after an accepted switch, those whose
\* switch may have the mark, and all in which something is still to be done.
Holding == {"begin", "teardown", "lower", "barrier", "enable", "abort"}
Later == {"after", "core", "converge", "policy", "project", "online", "identity",
          "publish", "runtime", "auth", "connect", "ending", "radio"}
Marked == {"teardown", "lower", "barrier", "enable", "abort", "failed"} \cup Later
Active == Holding \cup Later \cup {"failed", "undo", "undoradio"}

\* Exactly the call whose card commands run has the locks.
LockAt(s) == sw[s].pc \in Holding <=> lock = s

\* Tokens are given in order and to one call each; retries come after the switch.
TokenAt(s) ==
    /\ sw[s].token <= seq
    /\ sw[s].pc \in {"idle", "begin"} <=> sw[s].token = 0
    /\ retry[s].pc # "none" => sw[s].pc \in Later \cup {"done"}
Distinct ==
    \A s, o \in Switches : sw[o].token = sw[s].token /\ sw[s].token # 0 => o = s
MarkToken == current # None => current.token \in 1..seq

\* Facts about types that most steps below need.
Facts(s) ==
    /\ sw \in [Switches -> Calls] /\ sw[s] \in Calls /\ retry \in [Switches -> Retries]
    /\ id \in Identities /\ seq \in Nat /\ epoch \in Nat /\ worker \in Nat
    /\ sw[s].pc # "idle" => sw[s].snap \in Contexts
    /\ sw[s].pc \in {"policy", "project"} => sw[s].then \in {"online", "auth"}
    /\ \A o \in Switches : sw[o].token \in Nat

\* The types of one call, in the form the leaves below use.
LEMMA TypedFacts == ASSUME Typed, NEW s \in Switches PROVE Facts(s)
BY DEF Typed, TypeOK, CallOK, Facts, Calls

\* The order of the stages.
Flow(p, q) ==
    \/ p = "begin" /\ q \in {"teardown"}
    \/ p = "teardown" /\ q \in {"lower"}
    \/ p = "lower" /\ q \in {"barrier"}
    \/ p = "barrier" /\ q \in {"enable", "abort"}
    \/ p = "enable" /\ q \in {"after", "abort"}
    \/ p = "abort" /\ q \in {"failed"}
    \/ p = "failed" /\ q \in {"undo", "done"}
    \/ p = "undo" /\ q \in {"undoradio"}
    \/ p = "undoradio" /\ q \in {"done"}
    \/ p = "after" /\ q \in {"core", "done"}
    \/ p = "core" /\ q \in {"converge", "done"}
    \/ p = "converge" /\ q \in {"policy", "connect", "done"}
    \/ p = "policy" /\ q \in {"project"}
    \/ p = "project" /\ q \in {"online", "auth"}
    \/ p = "online" /\ q \in {"identity", "done"}
    \/ p = "identity" /\ q \in {"publish"}
    \/ p = "publish" /\ q \in {"runtime", "done"}
    \/ p = "runtime" /\ q \in {"policy", "connect", "done"}
    \/ p = "auth" /\ q \in {"connect", "done"}
    \/ p = "connect" /\ q \in {"ending", "radio"}
    \/ p = "ending" /\ q \in {"radio", "done"}
    \/ p = "radio" /\ q \in {"done"}

\* What every step of a call does to the calls.
LEMMA StepFlow ==
    ASSUME Typed, NEW s \in Switches, Step(s)
    PROVE  /\ Flow(sw[s].pc, sw'[s].pc)
           /\ \A o \in Switches \ {s} : Alike(o)
           /\ sw'[s].worker = sw[s].worker
           /\ IF sw[s].pc = "begin" THEN sw'[s].token = seq + 1 /\ seq' = seq + 1
                                    ELSE sw'[s].token = sw[s].token /\ seq' = seq
           /\ sw[s].pc # "after" => sw'[s].snap = sw[s].snap
           /\ sw'[s].snap \in Contexts
           /\ sw'[s].snap.target = sw[s].snap.target /\ sw'[s].snap.before = sw[s].snap.before
           /\ sw'[s].snap.flight = sw[s].snap.flight
<1>0. Facts(s)
  BY TypedFacts
<1>1. CASE Begin(s)
  BY <1>0, <1>1, BeginShape DEF Begin, Facts, Flow, pool, Advances, Stays, Leaves, Ends, Moves, Keeps, Alike
<1>2. CASE Teardown(s)
  BY <1>0, <1>2, TeardownShape DEF Teardown, Facts, Flow, pool, Advances, Stays, Leaves, Ends, Moves, Keeps, Alike
<1>3. CASE Lower(s)
  BY <1>0, <1>3, StageShapes DEF Lower, Facts, Flow, pool, Advances, Stays, Leaves, Ends, Moves, Keeps, Alike
<1>4. CASE Barrier(s)
  BY <1>0, <1>4, StageShapes DEF Barrier, Facts, Flow, pool, Advances, Stays, Leaves, Ends, Moves, Keeps, Alike
<1>5. CASE Enable(s)
  BY <1>0, <1>5, StageShapes DEF Enable, Facts, Flow, pool, Advances, Stays, Leaves, Ends, Moves, Keeps, Alike
<1>6. CASE Abort(s)
  BY <1>0, <1>6, StageShapes DEF Abort, Facts, Flow, pool, Advances, Stays, Leaves, Ends, Moves, Keeps, Alike
<1>7. CASE OnFailed(s)
  BY <1>0, <1>7, StageShapes DEF OnFailed, Facts, Flow, pool, Advances, Stays, Leaves, Ends, Moves, Keeps, Alike
<1>8. CASE UndoIdentity(s)
  BY <1>0, <1>8, StageShapes DEF UndoIdentity, Facts, Flow, pool, Advances, Stays, Leaves, Ends, Moves, Keeps, Alike
<1>9. CASE UndoRadio(s)
  BY <1>0, <1>9, StageShapes DEF UndoRadio, Facts, Flow, pool, Advances, Stays, Leaves, Ends, Moves, Keeps, Alike
<1>10. CASE After(s)
  BY <1>0, <1>10, AfterShape DEF After, Facts, Flow, pool, Advances, Stays, Leaves, Ends, Moves, Keeps, Alike
<1>11. CASE CoreReady(s)
  BY <1>0, <1>11, StopShapes DEF CoreReady, Facts, Flow, pool, Advances, Stays, Leaves, Ends, Moves, Keeps, Alike
<1>12. CASE Converge(s)
  BY <1>0, <1>12, ConvergeShape DEF Converge, Facts, Flow, pool, Advances, Stays, Leaves, Ends, Moves, Keeps, Alike
<1>13. CASE CapturePolicy(s)
  BY <1>0, <1>13, CapturePolicyShape DEF CapturePolicy, Facts, Flow, pool, Advances, Stays, Leaves, Ends, Moves, Keeps, Alike
<1>14. CASE Project(s)
  BY <1>0, <1>14, ProjectShape DEF Project, Facts, Flow, pool, Advances, Stays, Leaves, Ends, Moves, Keeps, Alike
<1>15. CASE Online(s)
  BY <1>0, <1>15, StopShapes DEF Online, Facts, Flow, pool, Advances, Stays, Leaves, Ends, Moves, Keeps, Alike
<1>16. CASE ReadIdentity(s)
  BY <1>0, <1>16, ReadIdentityShape DEF ReadIdentity, Facts, Flow, pool, Advances, Stays, Leaves, Ends, Moves, Keeps, Alike
<1>17. CASE Publish(s)
  BY <1>0, <1>17, StopShapes DEF Publish, Facts, Flow, pool, Advances, Stays, Leaves, Ends, Moves, Keeps, Alike
<1>18. CASE Runtime(s)
  BY <1>0, <1>18, RuntimeShape DEF Runtime, Facts, Flow, pool, Advances, Stays, Leaves, Ends, Moves, Keeps, Alike
<1>19. CASE Auth(s)
  BY <1>0, <1>19, AuthShape DEF Auth, Facts, Flow, pool, Advances, Stays, Leaves, Ends, Moves, Keeps, Alike
<1>20. CASE Connect(s)
  BY <1>0, <1>20, StageShapes DEF Connect, Facts, Flow, pool, Advances, Stays, Leaves, Ends, Moves, Keeps, Alike
<1>21. CASE SwitchEnd(s)
  BY <1>0, <1>21, StopShapes DEF SwitchEnd, Facts, Flow, pool, Advances, Stays, Leaves, Ends, Moves, Keeps, Alike
<1>22. CASE RestoreRadio(s)
  BY <1>0, <1>22, StopShapes DEF RestoreRadio, Facts, Flow, pool, Advances, Stays, Leaves, Ends, Moves, Keeps, Alike
<1> QED BY <1>1, <1>2, <1>3, <1>4, <1>5, <1>6, <1>7, <1>8, <1>9, <1>10, <1>11, <1>12, <1>13, <1>14, <1>15, <1>16, <1>17, <1>18, <1>19, <1>20, <1>21, <1>22 DEF Step

\* What every step of a call does to the locks, the retries and what is shared.
LEMMA StepShared ==
    ASSUME Typed, NEW s \in Switches, Step(s)
    PROVE  /\ lock' = IF sw[s].pc = "abort" \/ sw'[s].pc = "after" THEN None ELSE lock
           /\ UNCHANGED <<config, shown, epoch, worker, live, task>>
           /\ \A o \in Switches \ {s} : retry'[o] = retry[o]
           /\ \/ retry'[s] = retry[s]
              \/ retry'[s].pc = "scheduled" /\ sw[s].pc \in {"converge", "runtime", "auth"}
                 /\ sw'[s].pc \in {"connect", "done"}
<1>0. Facts(s)
  BY TypedFacts
<1>1. CASE Begin(s)
  BY <1>0, <1>1, BeginShape DEF Begin, Facts, modem, pool, Advances, Stays, Leaves, Ends, Moves, Keeps, Alike
<1>2. CASE Teardown(s)
  BY <1>0, <1>2, TeardownShape DEF Teardown, Facts, modem, pool, Advances, Stays, Leaves, Ends, Moves, Keeps, Alike
<1>3. CASE Lower(s)
  BY <1>0, <1>3, StageShapes DEF Lower, Facts, modem, pool, Advances, Stays, Leaves, Ends, Moves, Keeps, Alike
<1>4. CASE Barrier(s)
  BY <1>0, <1>4, StageShapes DEF Barrier, Facts, modem, pool, Advances, Stays, Leaves, Ends, Moves, Keeps, Alike
<1>5. CASE Enable(s)
  <2>1. (lock' = None /\ sw'[s].pc = "after") \/ (lock' = lock /\ sw'[s].pc = "abort")
    BY <1>0, <1>5 DEF Enable, Facts, Calls
  <2> QED BY <1>5, <2>1 DEF Enable
<1>6. CASE Abort(s)
  BY <1>0, <1>6, StageShapes DEF Abort, Facts, modem, pool, Advances, Stays, Leaves, Ends, Moves, Keeps, Alike
<1>7. CASE OnFailed(s)
  BY <1>0, <1>7, StageShapes DEF OnFailed, Facts, modem, pool, Advances, Stays, Leaves, Ends, Moves, Keeps, Alike
<1>8. CASE UndoIdentity(s)
  BY <1>0, <1>8, StageShapes DEF UndoIdentity, Facts, modem, pool, Advances, Stays, Leaves, Ends, Moves, Keeps, Alike
<1>9. CASE UndoRadio(s)
  BY <1>0, <1>9, StageShapes DEF UndoRadio, Facts, modem, pool, Advances, Stays, Leaves, Ends, Moves, Keeps, Alike
<1>10. CASE After(s)
  BY <1>0, <1>10, AfterShape DEF After, Facts, modem, pool, Advances, Stays, Leaves, Ends, Moves, Keeps, Alike
<1>11. CASE CoreReady(s)
  BY <1>0, <1>11, StopShapes DEF CoreReady, Facts, modem, pool, Advances, Stays, Leaves, Ends, Moves, Keeps, Alike
<1>12. CASE Converge(s)
  BY <1>0, <1>12, ConvergeShape, ZenonT(40) DEF Converge, Facts, modem, pool, Advances, Stays, Leaves, Ends, Moves, Keeps, Alike, Retries
<1>13. CASE CapturePolicy(s)
  BY <1>0, <1>13, CapturePolicyShape DEF CapturePolicy, Facts, modem, pool, Advances, Stays, Leaves, Ends, Moves, Keeps, Alike
<1>14. CASE Project(s)
  BY <1>0, <1>14, ProjectShape DEF Project, Facts, modem, pool, Advances, Stays, Leaves, Ends, Moves, Keeps, Alike
<1>15. CASE Online(s)
  BY <1>0, <1>15, StopShapes DEF Online, Facts, modem, pool, Advances, Stays, Leaves, Ends, Moves, Keeps, Alike
<1>16. CASE ReadIdentity(s)
  BY <1>0, <1>16, ReadIdentityShape DEF ReadIdentity, Facts, modem, pool, Advances, Stays, Leaves, Ends, Moves, Keeps, Alike
<1>17. CASE Publish(s)
  BY <1>0, <1>17, StopShapes DEF Publish, Facts, modem, pool, Advances, Stays, Leaves, Ends, Moves, Keeps, Alike
<1>18. CASE Runtime(s)
  <2>1. sw'[s].pc \in {"policy", "connect", "done"}
        /\ (retry' = retry \/ (retry' = [retry EXCEPT ![s].pc = "scheduled"] /\ sw'[s].pc = "connect"))
    BY <1>0, <1>18, RuntimeShape DEF Facts, Leaves, Ends, Moves
  <2>2. retry[s] \in Retries
    BY <1>0 DEF Facts
  <2> QED BY <1>0, <1>18, <2>1, <2>2 DEF Runtime, Facts, modem, Retries
<1>19. CASE Auth(s)
  BY <1>0, <1>19, AuthShape, ZenonT(40) DEF Auth, Facts, modem, pool, Advances, Stays, Leaves, Ends, Moves, Keeps, Alike, Retries
<1>20. CASE Connect(s)
  BY <1>0, <1>20, StageShapes DEF Connect, Facts, modem, pool, Advances, Stays, Leaves, Ends, Moves, Keeps, Alike
<1>21. CASE SwitchEnd(s)
  BY <1>0, <1>21, StopShapes DEF SwitchEnd, Facts, modem, pool, Advances, Stays, Leaves, Ends, Moves, Keeps, Alike
<1>22. CASE RestoreRadio(s)
  BY <1>0, <1>22, StopShapes DEF RestoreRadio, Facts, modem, pool, Advances, Stays, Leaves, Ends, Moves, Keeps, Alike
<1> QED BY <1>1, <1>2, <1>3, <1>4, <1>5, <1>6, <1>7, <1>8, <1>9, <1>10, <1>11, <1>12, <1>13, <1>14, <1>15, <1>16, <1>17, <1>18, <1>19, <1>20, <1>21, <1>22 DEF Step

\* What every step of a call does to the mark.
LEMMA StepMark ==
    ASSUME Typed, NEW s \in Switches, Step(s)
    PROVE  /\ sw[s].pc = "begin" =>
                /\ current' \in Contexts /\ current'.token = seq + 1
                /\ current'.target = sw[s].snap.target /\ current'.gen = id'.gen
           /\ sw[s].pc # "begin" =>
                \/ current' = current
                \/ /\ Latest(s) /\ sw'[s].pc = "core" /\ current' \in Contexts
                   /\ current'.token = current.token /\ current'.target = current.target
                   /\ current'.gen = id'.gen
                \/ Latest(s) /\ current' = None /\ sw'[s].pc \in {"undo", "done"}
           /\ sw'[s].pc \in {"undo", "done"} /\ sw[s].pc # "undoradio" /\ Proceeds(s) => current' = None
<1>0. Facts(s) /\ current \in Contexts \cup {None}
  BY TypedFacts DEF Typed, TypeOK
<1>1. CASE Begin(s)
  <2>1. PICK k \in Contexts, n \in Nat, g \in Nat : k = sw[s].snap /\ n = seq + 1 /\ g = id'.gen
    <3>1. id' \in Identities
      BY <1>0, <1>1, IdentityTypes DEF Begin, Facts, Contexts
    <3> QED BY <1>0, <1>1, <3>1 DEF Begin, Facts, Identities
  <2>2. PICK c : c = [k EXCEPT !.token = n, !.gen = g]
    OBVIOUS
  <2>3. c \in Contexts /\ c.token = n /\ c.target = k.target /\ c.gen = g
    BY <2>2 DEF Contexts
  <2>4. current' = c
    BY <1>1, <2>1, <2>2 DEF Begin
  <2>5. sw'[s].pc = "teardown" /\ sw[s].pc = "begin"
    BY <1>0, <1>1, BeginShape DEF Begin, Facts, Moves
  <2> QED BY <2>1, <2>3, <2>4, <2>5
<1>2. CASE Teardown(s)
  BY <1>0, <1>2, TeardownShape DEF Teardown, Facts, pool, Cleared, Proceeds, Advances, Stays, Leaves, Ends, Moves, Keeps, Alike
<1>3. CASE Lower(s)
  BY <1>0, <1>3, StageShapes DEF Lower, Facts, pool, Cleared, Proceeds, Advances, Stays, Leaves, Ends, Moves, Keeps, Alike
<1>4. CASE Barrier(s)
  BY <1>0, <1>4, StageShapes DEF Barrier, Facts, pool, Cleared, Proceeds, Advances, Stays, Leaves, Ends, Moves, Keeps, Alike
<1>5. CASE Enable(s)
  BY <1>0, <1>5, StageShapes DEF Enable, Facts, pool, Cleared, Proceeds, Advances, Stays, Leaves, Ends, Moves, Keeps, Alike
<1>6. CASE Abort(s)
  BY <1>0, <1>6, StageShapes DEF Abort, Facts, pool, Cleared, Proceeds, Advances, Stays, Leaves, Ends, Moves, Keeps, Alike
<1>7. CASE OnFailed(s)
  BY <1>0, <1>7, StageShapes DEF OnFailed, Facts, pool, Cleared, Proceeds, Advances, Stays, Leaves, Ends, Moves, Keeps, Alike
<1>8. CASE UndoIdentity(s)
  BY <1>0, <1>8, StageShapes DEF UndoIdentity, Facts, pool, Cleared, Proceeds, Advances, Stays, Leaves, Ends, Moves, Keeps, Alike
<1>9. CASE UndoRadio(s)
  BY <1>0, <1>9, StageShapes DEF UndoRadio, Facts, pool, Cleared, Proceeds, Advances, Stays, Leaves, Ends, Moves, Keeps, Alike
<1>10. CASE After(s)
  <2>1. CASE ~Proceeds(s)
    <3>1. sw[s].pc = "after" /\ current' = current
      BY <1>10, <2>1 DEF After
    <3> QED BY <2>1, <3>1
  <2>2. CASE Proceeds(s)
    <3>1. PICK k \in Contexts, g \in Nat : k = current /\ g = id'.gen
      <4>1. id' \in Identities
        BY <1>0, <1>10, <2>2, IdentityTypes DEF After, Facts, Contexts
      <4> QED BY <1>0, <2>2, <4>1 DEF Proceeds, Latest, Identities
    <3>2. PICK c : c = [k EXCEPT !.gen = g]
      OBVIOUS
    <3>3. c \in Contexts /\ c.token = k.token /\ c.target = k.target /\ c.gen = g
      BY <3>2 DEF Contexts
    <3>4. current' = c
      BY <1>10, <2>2, <3>1, <3>2 DEF After, WithGeneration, Proceeds
    <3>5. sw'[s].pc = "core" /\ sw[s].pc = "after"
      BY <1>0, <1>10, <2>2, AfterShape DEF After, Facts, Moves
    <3> QED BY <2>2, <3>1, <3>3, <3>4, <3>5 DEF Proceeds
  <2> QED BY <2>1, <2>2
<1>11. CASE CoreReady(s)
  BY <1>0, <1>11, StopShapes DEF CoreReady, Facts, pool, Cleared, Proceeds, Advances, Stays, Leaves, Ends, Moves, Keeps, Alike
<1>12. CASE Converge(s)
  BY <1>0, <1>12, ConvergeShape DEF Converge, Facts, pool, Cleared, Proceeds, Advances, Stays, Leaves, Ends, Moves, Keeps, Alike
<1>13. CASE CapturePolicy(s)
  BY <1>0, <1>13, CapturePolicyShape DEF CapturePolicy, Facts, pool, Cleared, Proceeds, Advances, Stays, Leaves, Ends, Moves, Keeps, Alike
<1>14. CASE Project(s)
  BY <1>0, <1>14, ProjectShape DEF Project, Facts, pool, Cleared, Proceeds, Advances, Stays, Leaves, Ends, Moves, Keeps, Alike
<1>15. CASE Online(s)
  BY <1>0, <1>15, StopShapes DEF Online, Facts, pool, Cleared, Proceeds, Advances, Stays, Leaves, Ends, Moves, Keeps, Alike
<1>16. CASE ReadIdentity(s)
  BY <1>0, <1>16, ReadIdentityShape DEF ReadIdentity, Facts, pool, Cleared, Proceeds, Advances, Stays, Leaves, Ends, Moves, Keeps, Alike
<1>17. CASE Publish(s)
  BY <1>0, <1>17, StopShapes DEF Publish, Facts, pool, Cleared, Proceeds, Advances, Stays, Leaves, Ends, Moves, Keeps, Alike
<1>18. CASE Runtime(s)
  BY <1>0, <1>18, RuntimeShape DEF Runtime, Facts, pool, Cleared, Proceeds, Advances, Stays, Leaves, Ends, Moves, Keeps, Alike
<1>19. CASE Auth(s)
  BY <1>0, <1>19, AuthShape DEF Auth, Facts, pool, Cleared, Proceeds, Advances, Stays, Leaves, Ends, Moves, Keeps, Alike
<1>20. CASE Connect(s)
  BY <1>0, <1>20, StageShapes DEF Connect, Facts, pool, Cleared, Proceeds, Advances, Stays, Leaves, Ends, Moves, Keeps, Alike
<1>21. CASE SwitchEnd(s)
  BY <1>0, <1>21, StopShapes DEF SwitchEnd, Facts, pool, Cleared, Proceeds, Advances, Stays, Leaves, Ends, Moves, Keeps, Alike
<1>22. CASE RestoreRadio(s)
  BY <1>0, <1>22, StopShapes DEF RestoreRadio, Facts, pool, Cleared, Proceeds, Advances, Stays, Leaves, Ends, Moves, Keeps, Alike
<1> QED BY <1>1, <1>2, <1>3, <1>4, <1>5, <1>6, <1>7, <1>8, <1>9, <1>10, <1>11, <1>12, <1>13, <1>14, <1>15, <1>16, <1>17, <1>18, <1>19, <1>20, <1>21, <1>22 DEF Step

\* What a step of a call may add to what has gone wrong.
LEMMA StepSpoils ==
    ASSUME NEW s \in Switches, Step(s)
    PROVE  /\ spoiled \subseteq spoiled'
           /\ spoiled' \subseteq spoiled \cup {"overlap", "radio", "refused", "unanswered"}
           /\ sw[s].pc = "begin" => spoiled' = spoiled \cup Overlap(s)
           /\ sw[s].pc # "begin" => spoiled' \subseteq spoiled \cup {"radio", "refused", "unanswered"}
           /\ sw[s].pc # "enable" => spoiled' \subseteq spoiled \cup {"radio", "refused", "overlap"}
<1>1. CASE Begin(s)
  BY <1>1 DEF Begin, Spoil, Overlap
<1>2. CASE Teardown(s)
  BY <1>2 DEF Teardown, Spoil
<1>3. CASE Lower(s)
  BY <1>3 DEF Lower, Spoil
<1>4. CASE Barrier(s)
  BY <1>4 DEF Barrier, Spoil
<1>5. CASE Enable(s)
  BY <1>5 DEF Enable, Spoil
<1>6. CASE Abort(s)
  BY <1>6 DEF Abort, Spoil
<1>7. CASE OnFailed(s)
  BY <1>7 DEF OnFailed, Spoil
<1>8. CASE UndoIdentity(s)
  BY <1>8 DEF UndoIdentity, Spoil
<1>9. CASE UndoRadio(s)
  BY <1>9 DEF UndoRadio, Spoil, SetRadio
<1>10. CASE After(s)
  BY <1>10 DEF After, Spoil
<1>11. CASE CoreReady(s)
  BY <1>11 DEF CoreReady, Spoil
<1>12. CASE Converge(s)
  BY <1>12 DEF Converge, Spoil
<1>13. CASE CapturePolicy(s)
  BY <1>13 DEF CapturePolicy, Spoil
<1>14. CASE Project(s)
  BY <1>14 DEF Project, Spoil, Projected, Refused, Marks, SetRadio
<1>15. CASE Online(s)
  BY <1>15 DEF Online, Spoil, SetRadio
<1>16. CASE ReadIdentity(s)
  BY <1>16 DEF ReadIdentity, Spoil
<1>17. CASE Publish(s)
  BY <1>17 DEF Publish, Spoil
<1>18. CASE Runtime(s)
  BY <1>18 DEF Runtime, Spoil
<1>19. CASE Auth(s)
  BY <1>19 DEF Auth, Spoil
<1>20. CASE Connect(s)
  BY <1>20 DEF Connect, Spoil
<1>21. CASE SwitchEnd(s)
  BY <1>21 DEF SwitchEnd, Spoil
<1>22. CASE RestoreRadio(s)
  BY <1>22 DEF RestoreRadio, Spoil, SetRadio
<1> QED BY <1>1, <1>2, <1>3, <1>4, <1>5, <1>6, <1>7, <1>8, <1>9, <1>10, <1>11, <1>12, <1>13, <1>14, <1>15, <1>16, <1>17, <1>18, <1>19, <1>20, <1>21, <1>22 DEF Step

\* What starting a call, a retry and the world outside do to what is shared.
LEMMA StartFlow ==
    ASSUME Typed, NEW s \in Switches, NEW target \in Profiles, Start(s, target)
    PROVE  /\ sw[s].pc = "idle" /\ lock = None /\ lock' = s
           /\ Started(s, target)
           /\ UNCHANGED <<config, card, shown, radio, id, vowifi, policy, current, seq, worker, retry, live, task>>
           /\ spoiled' = spoiled \cup Overlap(s)
BY TypedFacts, StartShape DEF Facts, Start, modem, host

\* A delayed retry changes its own entry and the worker's identity only.
LEMMA RetryFlow ==
    ASSUME Typed, NEW s \in Switches, Retry(s)
    PROVE  /\ UNCHANGED <<config, card, shown, radio, vowifi, policy, current, seq, epoch, lock, worker, sw, live, task, spoiled>>
           /\ \A o \in Switches \ {s} : retry'[o] = retry[o]
           /\ retry[s].pc # "none"
<1>0. retry \in [Switches -> Retries]
  BY DEF Typed, TypeOK
<1>1. CASE RetryCheck(s)
  BY <1>0, <1>1 DEF RetryCheck, modem, host, pool
<1>2. CASE RetryRead(s)
  BY <1>0, <1>2 DEF RetryRead, modem, host, pool
<1>3. CASE RetryPublish(s)
  BY <1>0, <1>3 DEF RetryPublish, modem, host, pool
<1> QED BY <1>1, <1>2, <1>3 DEF Retry

\* What happens outside the calls leaves calls, retries and locks alone, and at most
\* clears the mark.
LEMMA OutsideFlow ==
    ASSUME Outside
    PROVE  /\ UNCHANGED <<config, card, seq, lock, sw, retry>>
           /\ spoiled \subseteq spoiled'
           /\ spoiled' \subseteq spoiled \cup {"torn", "live", "radio", "guard", "replaced"}
           /\ current' = current \/ current' = None
           /\ worker' # worker => "replaced" \in spoiled' /\ lock = None
<1>1. CASE Settle
  BY <1>1 DEF Settle, host, pool
<1>2. CASE LiveRead
  BY <1>2 DEF LiveRead, modem, host, pool
<1>3. CASE LiveWrite
  BY <1>3 DEF LiveWrite, modem, host, pool
<1>4. CASE TaskCapture
  BY <1>4 DEF TaskCapture, modem, host, pool
<1>5. CASE TaskProject
  BY <1>5 DEF TaskProject, pool, Projected, Refused, SetRadio, Spoil
<1>6. CASE Recover
  BY <1>6 DEF Recover, pool
<1>7. CASE Guard
  BY <1>7 DEF Guard, modem, host, Spoil
<1>8. ASSUME NEW abandon \in BOOLEAN, ReplaceWorker(abandon)
      PROVE /\ UNCHANGED <<config, card, seq, lock, sw, retry>>
            /\ spoiled \subseteq spoiled'
            /\ spoiled' \subseteq spoiled \cup {"torn", "live", "radio", "guard", "replaced"}
            /\ current' = current \/ current' = None
            /\ worker' # worker => "replaced" \in spoiled' /\ lock = None
  BY <1>8 DEF ReplaceWorker, modem, Spoil
<1> QED BY <1>1, <1>2, <1>3, <1>4, <1>5, <1>6, <1>7, <1>8 DEF Outside

Booked ==
    /\ \A s \in Switches : LockAt(s)
    /\ \A s \in Switches : TokenAt(s)
    /\ Distinct
    /\ MarkToken

\* Locks and tokens stay in order.
LEMMA BookedInit == Init => Booked
BY NoneAssumption DEF Init, Booked, LockAt, TokenAt, Distinct, MarkToken, Holding, Idle, NoRetry

\* A step of a call keeps locks and tokens accounted for.
LEMMA StepBooked ==
    ASSUME Typed, Booked, NEW s \in Switches, Step(s) PROVE Booked'
<1>0. Facts(s) /\ LockAt(s) /\ TokenAt(s) /\ s # None /\ lock \in Switches \cup {None}
      /\ current \in Contexts \cup {None}
  BY TypedFacts, NoneAssumption DEF Booked, Typed, TypeOK
<1>1. ASSUME NEW o \in Switches PROVE LockAt(o)'
  <2>1. CASE o = s
    BY <1>0, <2>1, StepFlow, StepShared DEF LockAt, Holding, Flow
  <2>2. CASE o # s
    <3>1. LockAt(o) /\ Alike(o) /\ o # None
      BY <2>2, StepFlow, NoneAssumption DEF Booked
    <3> QED BY <1>0, <2>2, <3>1, StepFlow, StepShared DEF LockAt, Alike, Holding, Flow
  <2> QED BY <2>1, <2>2
<1>2. ASSUME NEW o \in Switches PROVE TokenAt(o)'
  <2>1. CASE o = s
    <3>1. sw'[s].token <= seq' /\ (sw'[s].pc \in {"idle", "begin"} <=> sw'[s].token = 0)
      BY <1>0, StepFlow DEF TokenAt, Flow, Facts
    <3>2. retry'[s].pc # "none" => sw'[s].pc \in Later \cup {"done"}
      BY <1>0, StepFlow, StepShared DEF TokenAt, Flow, Later
    <3> QED BY <2>1, <3>1, <3>2 DEF TokenAt
  <2>2. CASE o # s
    <3>1. TokenAt(o) /\ Alike(o) /\ retry'[o] = retry[o] /\ sw[o].token \in Nat /\ seq' >= seq
      BY <1>0, <2>2, StepFlow, StepShared DEF Booked, Facts
    <3> QED BY <1>0, <3>1, StepFlow DEF TokenAt, Alike, Facts
  <2> QED BY <2>1, <2>2
<1>3. Distinct'
  <2> SUFFICES ASSUME NEW o \in Switches, NEW u \in Switches,
                      sw'[o].token = sw'[u].token, sw'[u].token # 0
               PROVE  o = u
    BY DEF Distinct
  <2>1. sw[o].token <= seq /\ sw[u].token <= seq /\ sw[o].token \in Nat /\ sw[u].token \in Nat /\ seq \in Nat
    BY <1>0 DEF Booked, TokenAt, Facts
  <2>2. \A x \in Switches : sw'[x].token = IF x = s /\ sw[s].pc = "begin" THEN seq + 1 ELSE sw[x].token
    BY StepFlow DEF Alike
  <2> QED BY <2>1, <2>2 DEF Booked, Distinct
<1>4. MarkToken'
  <2>1. seq \in Nat /\ (current # None => current.token \in 1..seq)
    BY <1>0 DEF Facts, Booked, MarkToken
  <2>2. CASE sw[s].pc = "begin"
    BY <2>1, <2>2, StepFlow, StepMark DEF MarkToken
  <2>3. CASE sw[s].pc # "begin"
    <3>1. current' = None \/ (current # None /\ current'.token = current.token)
      BY <2>3, StepMark DEF Latest
    <3>2. seq' = seq
      BY <2>3, StepFlow
    <3> QED BY <2>1, <3>1, <3>2 DEF MarkToken
  <2> QED BY <2>2, <2>3
<1> QED BY <1>1, <1>2, <1>3, <1>4 DEF Booked

\* A new call of SwitchProfile takes a free lock and a token nobody has.
LEMMA StartBooked ==
    ASSUME Typed, Booked, NEW s \in Switches, NEW target \in Profiles, Start(s, target) PROVE Booked'
<1>0. Facts(s) /\ LockAt(s) /\ TokenAt(s)
  BY TypedFacts DEF Booked
<1>1. ASSUME NEW o \in Switches PROVE LockAt(o)' /\ TokenAt(o)' /\ sw'[o].token = sw[o].token
  <2>1. CASE o = s
    <3>1. sw'[s].pc = "begin" /\ sw'[s].token = 0 /\ sw[s].pc = "idle" /\ lock' = s
          /\ retry' = retry /\ seq' = seq
      BY StartFlow DEF Started, Moves
    <3>2. sw[s].token = 0 /\ retry[s].pc = "none" /\ seq \in Nat
      BY <1>0, <3>1 DEF TokenAt, Facts, Later
    <3> QED BY <2>1, <3>1, <3>2 DEF LockAt, TokenAt, Holding
  <2>2. CASE o # s
    <3>1. LockAt(o) /\ TokenAt(o) /\ Alike(o) /\ o # None
      BY <2>2, StartFlow, NoneAssumption DEF Booked, Started, Moves
    <3> QED BY <1>0, <2>2, <3>1, StartFlow DEF LockAt, TokenAt, Alike, Holding
  <2> QED BY <2>1, <2>2
<1>2. Distinct' /\ MarkToken'
  BY <1>1, StartFlow DEF Booked, Distinct, MarkToken
<1> QED BY <1>1, <1>2 DEF Booked

\* Retries, live reads, policy tasks, the guard and faults keep locks and tokens
\* accounted for.
LEMMA RestBooked ==
    ASSUME Typed, Booked, Outside \/ UNCHANGED vars \/ \E s \in Switches : Retry(s) PROVE Booked'
<1>0. retry \in [Switches -> Retries]
  BY DEF Typed, TypeOK
<1>1. sw' = sw /\ seq' = seq /\ lock' = lock /\ (current' = current \/ current' = None)
      /\ \A o \in Switches : retry'[o].pc # "none" => retry[o].pc # "none"
  BY <1>0, RetryFlow, OutsideFlow DEF vars, pool, Retries
<1> QED BY <1>1 DEF Booked, LockAt, TokenAt, Distinct, MarkToken

\* Every step keeps locks and tokens accounted for.
LEMMA BookedNext == Typed /\ Booked /\ [Next]_vars => Booked'
BY NextCases, StepBooked, StartBooked, RestBooked

(* ---------------------------------------------------------------------- *)
(* The mark                                                                *)
(* ---------------------------------------------------------------------- *)

\* Without an overlap one switch at most is under way, and it is the latest.
LoneAt(s) ==
    "overlap" \notin spoiled =>
        /\ sw[s].pc \in Active => \A o \in Switches \ {s} : sw[o].pc \in {"idle", "done"}
        /\ sw[s].pc \in Active \ {"begin"} => sw[s].token = seq

\* The worker of a call is there as long as none was replaced.
OwnerAt(s) == "replaced" \notin spoiled /\ sw[s].pc # "idle" => sw[s].worker = worker

\* The mark is that of the call with the locks, which only the guard can take from
\* it, and that of the goroutine it leaves behind.
HeldAt(s) == "guard" \notin spoiled /\ sw[s].pc \in Marked \cap Holding => Latest(s)
KeptAt(s) == Without({"overlap", "guard", "replaced"}) /\ sw[s].pc \in Marked => Latest(s)

\* Who has the mark has set it.
AimAt(s) == Latest(s) => current.target = sw[s].snap.target

\* Nothing starts VoWiFi again under the mark.
DownAt(s) ==
    Without({"overlap", "guard"}) /\ sw[s].pc \in {"lower", "barrier", "enable"} => vowifi = "down"

\* A mark has an owner that will take it away.
MarkOwned ==
    "replaced" \notin spoiled /\ current # None =>
        \E s \in Switches : sw[s].pc \in Marked /\ sw[s].token = current.token

\* A call that does not overlap.
LEMMA NoOverlap ==
    ASSUME NEW s \in Switches, "overlap" \notin Overlap(s)
    PROVE  /\ \A o \in Switches \ {s} : /\ sw[o].pc \in {"idle", "done"}
                                        /\ retry[o].pc \notin {"checked", "read"}
           /\ live = None /\ shown = card
BY DEF Overlap

\* What takes the mark away from outside.
LEMMA OutsideMark ==
    ASSUME Typed, Outside, current' # current
    PROVE  /\ current' = None
           /\ \/ Orphaned
              \/ "guard" \in spoiled'
              \/ "replaced" \in spoiled' /\ worker' # worker /\ lock = None
<1>0. worker \in Nat
  BY DEF Typed, TypeOK
<1>1. CASE Guard
  BY <1>1 DEF Guard, Spoil
<1>2. ASSUME NEW abandon \in BOOLEAN, ReplaceWorker(abandon)
      PROVE  current' = None /\ "replaced" \in spoiled' /\ worker' # worker /\ lock = None
  BY <1>0, <1>2 DEF ReplaceWorker, Spoil
<1>3. Guard \/ \E abandon \in BOOLEAN : ReplaceWorker(abandon)
  BY DEF Outside, Settle, LiveRead, LiveWrite, TaskCapture, TaskProject, Recover, pool
<1> QED BY <1>1, <1>2, <1>3

\* The mark that a switch is running is taken off by that switch, by the guard or
\* with the worker, never by the goroutine of an earlier switch.
THEOREM EsimMarkKept == Spec => MarkKept
<1>1. ASSUME Typed, [Next]_vars
      PROVE  [current # None =>
                \/ current' # None /\ current'.token \in {current.token, seq'}
                \/ worker' # worker \/ Orphaned \/ "guard" \in spoiled'
                \/ \E s \in Switches : /\ sw[s].token = current.token
                                       /\ sw[s].pc # sw'[s].pc /\ sw'[s].pc \in {"undo", "done"}]_vars
  <2> SUFFICES ASSUME current # None, current' # current
               PROVE  \/ current' # None /\ current'.token \in {current.token, seq'}
                      \/ worker' # worker \/ Orphaned \/ "guard" \in spoiled'
                      \/ \E s \in Switches : /\ sw[s].token = current.token
                                             /\ sw[s].pc # sw'[s].pc /\ sw'[s].pc \in {"undo", "done"}
    OBVIOUS
  <2>1. ASSUME NEW s \in Switches, Step(s), sw[s].pc = "begin"
        PROVE  current' # None /\ current'.token = seq'
    BY <1>1, <2>1, StepFlow, StepMark, NoneAssumption
  <2>2. ASSUME NEW s \in Switches, Step(s), sw[s].pc # "begin"
        PROVE  \/ current' # None /\ current'.token = current.token
               \/ sw[s].token = current.token /\ sw[s].pc # sw'[s].pc /\ sw'[s].pc \in {"undo", "done"}
    <3>1. CASE current' \in Contexts /\ current'.token = current.token
      BY <3>1, NoneAssumption
    <3>2. CASE Latest(s) /\ current' = None /\ sw'[s].pc \in {"undo", "done"}
      BY <1>1, <2>2, <3>2, StepFlow DEF Latest, Flow
    <3> QED BY <1>1, <2>2, <3>1, <3>2, StepMark
  <2>3. ASSUME NEW s \in Switches, NEW target \in Profiles, Start(s, target) PROVE FALSE
    BY <1>1, <2>3, StartFlow
  <2>4. ASSUME NEW s \in Switches, Retry(s) PROVE FALSE
    BY <1>1, <2>4, RetryFlow
  <2>5. ASSUME UNCHANGED vars PROVE FALSE
    BY <2>5 DEF vars, pool
  <2> QED BY <1>1, <2>1, <2>2, <2>3, <2>4, <2>5, NextCases, OutsideMark
<1> QED BY <1>1, TypedInit, TypedNext, PTL DEF Spec, MarkKept

MarkOK ==
    /\ \A s \in Switches : LoneAt(s)
    /\ \A s \in Switches : OwnerAt(s)
    /\ \A s \in Switches : HeldAt(s)
    /\ \A s \in Switches : KeptAt(s)
    /\ \A s \in Switches : AimAt(s)
    /\ \A s \in Switches : DownAt(s)
    /\ MarkOwned

\* No switch is marked at the start.
LEMMA MarkInit == Init => MarkOK
BY DEF Init, MarkOK, LoneAt, OwnerAt, HeldAt, KeptAt, AimAt, DownAt, MarkOwned, Latest, Idle,
       Holding, Later, Marked, Active

\* A step of a call keeps the mark, its owner and the held-off runtime together.
LEMMA StepMarkOK ==
    ASSUME Typed, Booked, MarkOK, NEW s \in Switches, Step(s) PROVE MarkOK'
<1>0. Facts(s) /\ LockAt(s) /\ TokenAt(s) /\ s # None
      /\ current \in Contexts \cup {None} /\ (current # None => current.token \in 1..seq)
  BY TypedFacts, NoneAssumption DEF Booked, Typed, TypeOK, MarkToken
<1>a. sw[s].pc \in Active
  BY StepFlow DEF Flow, Active, Holding, Later
<1>b. \A o \in Switches \ {s} : Latest(o) => ~Latest(s) /\ sw[o].token # 0 /\ sw[o].token # seq + 1
  BY <1>0 DEF Latest, Booked, Distinct, Facts, TokenAt
<1>c. spoiled \subseteq spoiled'
  BY StepSpoils
<1>1. ASSUME NEW o \in Switches PROVE LoneAt(o)'
  <2> SUFFICES ASSUME "overlap" \notin spoiled'
               PROVE  /\ sw'[o].pc \in Active => \A u \in Switches \ {o} : sw'[u].pc \in {"idle", "done"}
                      /\ sw'[o].pc \in Active \ {"begin"} => sw'[o].token = seq'
    BY DEF LoneAt
  <2>1. \A u \in Switches \ {s} : sw[u].pc \in {"idle", "done"} /\ sw'[u].pc \in {"idle", "done"}
    BY <1>a, <1>c, StepFlow DEF MarkOK, LoneAt, Alike
  <2>2. sw'[s].pc \in Active \ {"begin"} => sw'[s].token = seq'
    BY <1>a, <1>c, StepFlow DEF MarkOK, LoneAt
  <2> QED BY <2>1, <2>2 DEF Active, Holding, Later
<1>2. ASSUME NEW o \in Switches PROVE OwnerAt(o)'
  BY <1>a, <1>c, StepFlow, StepShared DEF MarkOK, OwnerAt, Alike, Active, Holding, Later
<1>3. ASSUME NEW o \in Switches PROVE HeldAt(o)'
  <2> SUFFICES ASSUME "guard" \notin spoiled', sw'[o].pc \in Marked \cap Holding PROVE Latest(o)'
    BY DEF HeldAt
  <2>1. CASE o = s /\ sw[s].pc = "begin"
    BY <2>1, StepFlow, StepMark, NoneAssumption DEF Latest
  <2>2. CASE o = s /\ sw[s].pc # "begin"
    <3>1. sw[s].pc \in Marked \cap Holding /\ sw'[s].pc \notin {"undo", "done", "core"}
          /\ sw'[s].token = sw[s].token
      BY <2>2, StepFlow DEF Flow, Marked, Holding, Later
    <3>2. Latest(s)
      BY <1>c, <3>1 DEF MarkOK, HeldAt
    <3> QED BY <2>2, <3>1, <3>2, StepMark DEF Latest
  <2>3. CASE o # s
    <3>1. sw[o].pc \in Holding /\ lock = o /\ Latest(o) /\ Alike(o)
      BY <1>c, <2>3, StepFlow DEF Alike, Booked, LockAt, MarkOK, HeldAt
    <3>2. sw[s].pc # "begin"
      BY <1>0, <2>3, <3>1 DEF LockAt, Holding
    <3>3. ~Latest(s)
      BY <1>b, <2>3, <3>1
    <3> QED BY <2>3, <3>1, <3>2, <3>3, StepMark DEF Latest, Alike
  <2> QED BY <2>1, <2>2, <2>3
<1>4. ASSUME NEW o \in Switches PROVE KeptAt(o)'
  <2> SUFFICES ASSUME Without({"overlap", "guard", "replaced"})', sw'[o].pc \in Marked PROVE Latest(o)'
    BY DEF KeptAt
  <2>0. Without({"overlap", "guard", "replaced"})
    BY <1>c DEF Without
  <2>1. CASE o = s /\ sw[s].pc = "begin"
    BY <2>1, StepFlow, StepMark, NoneAssumption DEF Latest
  <2>2. CASE o = s /\ sw[s].pc # "begin"
    <3>1. sw[s].pc \in Marked /\ sw'[s].pc \notin {"undo", "done"} /\ sw'[s].token = sw[s].token
      BY <2>2, StepFlow DEF Flow, Marked, Later
    <3>2. Latest(s)
      BY <2>0, <3>1 DEF MarkOK, KeptAt
    <3> QED BY <2>2, <3>1, <3>2, StepMark, NoneAssumption DEF Latest
  <2>3. CASE o # s
    BY <1>a, <2>0, <2>3, StepFlow DEF MarkOK, LoneAt, Alike, Without, Marked, Later
  <2> QED BY <2>1, <2>2, <2>3
<1>5. ASSUME NEW o \in Switches PROVE AimAt(o)'
  <2> SUFFICES ASSUME Latest(o)' PROVE current'.target = sw'[o].snap.target
    BY DEF AimAt
  <2>1. CASE sw[s].pc = "begin"
    <3>1. o = s
      BY <1>0, <2>1, StepFlow, StepMark DEF Latest, Alike, Booked, TokenAt, Facts
    <3> QED BY <2>1, <3>1, StepFlow, StepMark
  <2>2. CASE sw[s].pc # "begin"
    <3>1. current # None /\ current'.token = current.token /\ current'.target = current.target
      BY <2>2, StepMark DEF Latest
    <3>2. sw'[o].token = sw[o].token /\ sw'[o].snap.target = sw[o].snap.target
      BY <2>2, StepFlow DEF Alike
    <3> QED BY <3>1, <3>2 DEF Latest, MarkOK, AimAt
  <2> QED BY <2>1, <2>2
<1>7. MarkOwned'
  <2> SUFFICES ASSUME "replaced" \notin spoiled', current' # None
               PROVE  \E u \in Switches : sw'[u].pc \in Marked /\ sw'[u].token = current'.token
    BY DEF MarkOwned
  <2>1. CASE sw[s].pc = "begin"
    <3>1. sw'[s].pc \in Marked /\ sw'[s].token = current'.token
      BY <2>1, StepFlow, StepMark DEF Flow, Marked
    <3> QED BY <3>1
  <2>2. CASE sw[s].pc # "begin"
    <3>1. current # None /\ current'.token = current.token
      BY <2>2, StepMark DEF Latest
    <3>2. PICK u \in Switches : sw[u].pc \in Marked /\ sw[u].token = current.token
      BY <1>c, <3>1 DEF MarkOK, MarkOwned
    <3>3. CASE u # s
      BY <3>1, <3>2, <3>3, StepFlow DEF Alike
    <3>4. CASE u = s
      <4>1. Proceeds(s) /\ sw'[s].token = sw[s].token
        BY <1>a, <1>c, <2>2, <3>1, <3>2, <3>4, StepFlow DEF Proceeds, Latest, OwnerCurrent, MarkOK, OwnerAt, Marked, Later
      <4>2. sw'[s].pc \in Marked
        BY <3>2, <3>4, <4>1, StepFlow, StepMark DEF Flow, Marked, Later
      <4> QED BY <3>1, <3>2, <3>4, <4>1, <4>2
    <3> QED BY <3>3, <3>4
  <2> QED BY <2>1, <2>2
<1>6. ASSUME NEW o \in Switches PROVE DownAt(o)'
  <2> SUFFICES ASSUME Without({"overlap", "guard"})', sw'[o].pc \in {"lower", "barrier", "enable"}
               PROVE  vowifi' = "down"
    BY DEF DownAt
  <2>0. Without({"overlap", "guard"})
    BY <1>c DEF Without
  <2>1. o = s
    BY <1>a, <2>0, StepFlow DEF MarkOK, LoneAt, Alike, Without
  <2>2. sw[s].pc \in {"teardown", "lower", "barrier"}
    BY <2>1, StepFlow DEF Flow
  <2>3. Teardown(s) \/ Lower(s) \/ Barrier(s)
    BY <2>2 DEF Step, Begin, Enable, Abort, OnFailed, UndoIdentity, UndoRadio, After, CoreReady, Converge,
       CapturePolicy, Project, Online, ReadIdentity, Publish, Runtime, Auth, Connect, SwitchEnd, RestoreRadio
  <2> QED BY <2>0, <2>1, <2>3 DEF Teardown, Lower, Barrier, MarkOK, DownAt, host
<1> QED BY <1>1, <1>2, <1>3, <1>4, <1>5, <1>6, <1>7 DEF MarkOK

\* A new call of SwitchProfile keeps them together.
LEMMA StartMarkOK ==
    ASSUME Typed, Booked, MarkOK, NEW s \in Switches, NEW target \in Profiles, Start(s, target)
    PROVE  MarkOK'
<1>0. Facts(s) /\ TokenAt(s) /\ s # None /\ (current # None => current.token \in 1..seq)
  BY TypedFacts, NoneAssumption DEF Booked, MarkToken
<1>a. /\ spoiled \subseteq spoiled' /\ current' = current /\ vowifi' = vowifi /\ worker' = worker /\ seq' = seq
      /\ sw[s].pc = "idle" /\ sw'[s].pc = "begin" /\ sw'[s].worker = worker /\ sw'[s].token = 0
      /\ \A o \in Switches \ {s} : Alike(o)
  BY StartFlow DEF Started, Moves
<1>b. ~Latest(s)'
  BY <1>0, <1>a DEF Latest, Facts
<1>1. ASSUME NEW o \in Switches PROVE LoneAt(o)'
  <2> SUFFICES ASSUME "overlap" \notin spoiled'
               PROVE  /\ sw'[o].pc \in Active => \A u \in Switches \ {o} : sw'[u].pc \in {"idle", "done"}
                      /\ sw'[o].pc \in Active \ {"begin"} => sw'[o].token = seq'
    BY DEF LoneAt
  <2>1. \A u \in Switches \ {s} : sw'[u].pc \in {"idle", "done"}
    BY <1>a, StartFlow, NoOverlap DEF Alike
  <2> QED BY <1>a, <2>1 DEF Active, Holding, Later
<1>2. ASSUME NEW o \in Switches PROVE OwnerAt(o)'
  BY <1>a DEF MarkOK, OwnerAt, Alike
<1>3. ASSUME NEW o \in Switches PROVE HeldAt(o)' /\ KeptAt(o)' /\ AimAt(o)' /\ DownAt(o)'
  <2>1. CASE o = s
    BY <1>a, <1>b, <2>1 DEF HeldAt, KeptAt, AimAt, DownAt, Marked, Later
  <2>2. CASE o # s
    BY <1>a, <2>2 DEF HeldAt, KeptAt, AimAt, DownAt, MarkOK, Alike, Latest, Without
  <2> QED BY <2>1, <2>2
<1>4. MarkOwned'
  <2> SUFFICES ASSUME "replaced" \notin spoiled', current' # None
               PROVE  \E u \in Switches : sw'[u].pc \in Marked /\ sw'[u].token = current'.token
    BY DEF MarkOwned
  <2>1. PICK u \in Switches : sw[u].pc \in Marked /\ sw[u].token = current.token
    BY <1>a DEF MarkOK, MarkOwned
  <2>2. u # s
    BY <1>a, <2>1 DEF Marked, Later
  <2> QED BY <1>a, <2>1, <2>2 DEF Alike
<1> QED BY <1>1, <1>2, <1>3, <1>4 DEF MarkOK

\* A step that touches neither calls nor mark keeps them together.
LEMMA StillMarkOK ==
    ASSUME Typed, MarkOK, UNCHANGED vars \/ \E s \in Switches : Retry(s) PROVE MarkOK'
<1>1. UNCHANGED <<sw, seq, current, worker, vowifi, spoiled>>
  BY RetryFlow DEF vars, pool, host
<1> QED BY <1>1 DEF MarkOK, LoneAt, OwnerAt, HeldAt, KeptAt, AimAt, DownAt, MarkOwned, Latest, Without

\* The guard, a replaced worker and the others outside the calls keep them together.
LEMMA OutsideMarkOK ==
    ASSUME Typed, Booked, MarkOK, Outside PROVE MarkOK'
<1>a. /\ sw' = sw /\ seq' = seq /\ lock' = lock /\ spoiled \subseteq spoiled'
      /\ current' = current \/ current' = None
      /\ worker' # worker => "replaced" \in spoiled' /\ lock = None
  BY OutsideFlow
<1>b. ASSUME current' # current, NEW s \in Switches, Latest(s), sw[s].pc \in Marked
      PROVE  "guard" \in spoiled' \/ ("replaced" \in spoiled' /\ lock = None)
  BY <1>b, OutsideMark DEF Orphaned, Latest, Marked, Later
<1>1. ASSUME NEW o \in Switches PROVE LoneAt(o)' /\ OwnerAt(o)'
  BY <1>a DEF MarkOK, LoneAt, OwnerAt
<1>2. ASSUME NEW o \in Switches PROVE HeldAt(o)'
  <2> SUFFICES ASSUME "guard" \notin spoiled', sw[o].pc \in Marked \cap Holding PROVE Latest(o)'
    BY <1>a DEF HeldAt
  <2>1. Latest(o) /\ lock = o /\ o # None
    BY <1>a, NoneAssumption DEF MarkOK, HeldAt, Booked, LockAt
  <2> QED BY <1>a, <1>b, <2>1 DEF Latest
<1>3. ASSUME NEW o \in Switches PROVE KeptAt(o)'
  <2> SUFFICES ASSUME Without({"overlap", "guard", "replaced"})', sw[o].pc \in Marked PROVE Latest(o)'
    BY <1>a DEF KeptAt
  <2>1. Latest(o)
    BY <1>a DEF MarkOK, KeptAt, Without
  <2> QED BY <1>a, <1>b, <2>1 DEF Latest, Without
<1>4. ASSUME NEW o \in Switches PROVE AimAt(o)'
  BY <1>a DEF MarkOK, AimAt, Latest
<1>5. ASSUME NEW o \in Switches PROVE DownAt(o)'
  <2> SUFFICES ASSUME Without({"overlap", "guard"})', sw[o].pc \in {"lower", "barrier", "enable"}
               PROVE  vowifi' = "down"
    BY <1>a DEF DownAt
  <2>1. vowifi = "down" /\ Latest(o)
    BY <1>a DEF MarkOK, DownAt, HeldAt, Without, Marked, Holding
  <2>2. ~Recover
    BY <2>1 DEF Recover, Latest
  <2> QED BY <2>1, <2>2 DEF Outside, Settle, LiveRead, LiveWrite, TaskCapture, TaskProject, Projected, Refused, Guard,
                            ReplaceWorker, host
<1>6. MarkOwned'
  BY <1>a DEF MarkOK, MarkOwned
<1> QED BY <1>1, <1>2, <1>3, <1>4, <1>5, <1>6 DEF MarkOK

\* Every step keeps mark, owner and held-off runtime together.
LEMMA MarkNext == Typed /\ Booked /\ MarkOK /\ [Next]_vars => MarkOK'
BY NextCases, StepMarkOK, StartMarkOK, StillMarkOK, OutsideMarkOK

\* What the theorems below start from.
LEMMA MarkInvariant == Spec => [](Typed /\ Booked /\ MarkOK)
BY TypedInit, BookedInit, MarkInit, TypedNext, BookedNext, MarkNext, PTL DEF Spec

\* VoWiFi is down while the profile is changed: the recovery of a wanted VoWiFi
\* finds the mark, which only the guard could have taken away.
THEOREM EsimQuietCard == Spec => []QuietCard
<1>1. MarkOK => QuietCard
  BY DEF MarkOK, DownAt, QuietCard
<1> QED BY <1>1, MarkInvariant, PTL

\* When the last goroutine is over, by whatever way out, the locks have been given
\* back and the mark is gone.
THEOREM EsimNothingLeft == Spec => []NothingLeft
<1>1. ASSUME Typed, Booked, MarkOK PROVE NothingLeft
  <2> SUFFICES ASSUME Over PROVE lock = None /\ (Without({"replaced"}) => current = None)
    BY DEF NothingLeft
  <2>1. lock = None
    BY <1>1 DEF Typed, TypeOK, Booked, LockAt, Over, Holding
  <2>2. ASSUME Without({"replaced"}) PROVE current = None
    BY <1>1, <2>2 DEF MarkOK, MarkOwned, Without, Over, Marked, Later
  <2> QED BY <2>1, <2>2
<1> QED BY <1>1, MarkInvariant, PTL

(* ---------------------------------------------------------------------- *)
(* The identity                                                            *)
(* ---------------------------------------------------------------------- *)

\* The identities that a switch writes, field by field.
LEMMA IdentityFields ==
    ASSUME id \in Identities
    PROVE  /\ \A t \in Profiles : /\ Transition(t).iccid = None /\ Transition(t).phase = "transitioning"
                                  /\ Transition(t).target = t /\ Transition(t).gen = id.gen + 1
           /\ \A t \in Profiles : \/ Ensured(t) = id /\ id.phase # "ready" /\ id.target = t
                                  \/ Ensured(t) = Transition(t) /\ ~(id.phase # "ready" /\ id.target = t)
           /\ /\ Degraded.iccid = id.iccid /\ Degraded.phase = "degraded"
              /\ Degraded.target = id.target /\ Degraded.gen = id.gen
           /\ \A t \in Profiles : /\ Published(t).iccid = t /\ Published(t).phase = "ready"
                                  /\ Published(t).target = None /\ Published(t).gen = id.gen
           /\ \A t \in Profiles \cup {None} :
                 /\ Restored(t).iccid = t /\ Restored(t).target = None /\ Restored(t).gen = id.gen
                 /\ Restored(t).phase = IF t # None THEN "ready" ELSE "degraded"
BY DEF Transition, Ensured, Degraded, Published, Restored, Identities

\* What every step of a call does to the identity and the card.
LEMMA StepIdentity ==
    ASSUME Typed, NEW s \in Switches, Step(s)
    PROVE  /\ sw[s].pc = "begin" => id' = Transition(sw[s].snap.target)
           /\ sw[s].pc = "undo" => id' = IF OwnerCurrent(s) THEN Restored(sw[s].snap.before) ELSE id
           /\ sw[s].pc = "after" => id' = IF Proceeds(s) THEN Ensured(sw[s].snap.target) ELSE id
           /\ sw[s].pc = "identity" => id' = IF OwnerCurrent(s) THEN Ensured(sw[s].snap.target) ELSE id
           /\ sw[s].pc = "publish" =>
                id' = IF ~OwnerCurrent(s) THEN id
                      ELSE IF sw[s].read # None THEN Published(sw[s].read) ELSE Degraded
           /\ sw[s].pc \notin {"begin", "undo", "after", "identity", "publish"} => id' = id
           /\ sw[s].pc # "enable" => card' = card
           /\ sw[s].pc = "enable" => /\ sw'[s].pc = "after" => card' = sw[s].snap.target
                                     /\ sw'[s].pc = "abort" => card' = card \/ "unanswered" \in spoiled'
<1>0. Facts(s)
  BY TypedFacts
<1>1. CASE Begin(s)
  BY <1>1 DEF Begin, modem
<1>2. CASE Teardown(s)
  BY <1>2 DEF Teardown, modem
<1>3. CASE Lower(s)
  BY <1>3 DEF Lower, modem
<1>4. CASE Barrier(s)
  BY <1>4 DEF Barrier, modem
<1>5. CASE Enable(s)
  <2>1. \/ card' = sw[s].snap.target /\ sw' = [sw EXCEPT ![s].pc = "after"]
        \/ card' = card /\ sw' = [sw EXCEPT ![s].pc = "abort"]
        \/ "unanswered" \in spoiled' /\ sw' = [sw EXCEPT ![s].pc = "abort"]
    BY <1>5 DEF Enable, Spoil
  <2>2. \/ card' = sw[s].snap.target /\ sw'[s].pc = "after"
        \/ card' = card /\ sw'[s].pc = "abort"
        \/ "unanswered" \in spoiled' /\ sw'[s].pc = "abort"
    BY <1>0, <2>1 DEF Facts, Calls
  <2> QED BY <1>5, <2>2 DEF Enable
<1>6. CASE Abort(s)
  BY <1>6 DEF Abort, modem
<1>7. CASE OnFailed(s)
  BY <1>7 DEF OnFailed, modem
<1>8. CASE UndoIdentity(s)
  BY <1>8 DEF UndoIdentity, modem
<1>9. CASE UndoRadio(s)
  BY <1>9 DEF UndoRadio, modem
<1>10. CASE After(s)
  BY <1>10 DEF After, modem
<1>11. CASE CoreReady(s)
  BY <1>11 DEF CoreReady, modem
<1>12. CASE Converge(s)
  BY <1>12 DEF Converge, modem
<1>13. CASE CapturePolicy(s)
  BY <1>13 DEF CapturePolicy, modem
<1>14. CASE Project(s)
  BY <1>14 DEF Project, modem
<1>15. CASE Online(s)
  BY <1>15 DEF Online, modem
<1>16. CASE ReadIdentity(s)
  BY <1>16 DEF ReadIdentity, modem
<1>17. CASE Publish(s)
  BY <1>17 DEF Publish, modem
<1>18. CASE Runtime(s)
  BY <1>18 DEF Runtime, modem
<1>19. CASE Auth(s)
  BY <1>19 DEF Auth, modem
<1>20. CASE Connect(s)
  BY <1>20 DEF Connect, modem
<1>21. CASE SwitchEnd(s)
  BY <1>21 DEF SwitchEnd, modem
<1>22. CASE RestoreRadio(s)
  BY <1>22 DEF RestoreRadio, modem
<1> QED BY <1>1, <1>2, <1>3, <1>4, <1>5, <1>6, <1>7, <1>8, <1>9, <1>10, <1>11, <1>12, <1>13, <1>14, <1>15, <1>16, <1>17, <1>18, <1>19, <1>20, <1>21, <1>22 DEF Step

\* What the retries of a call do to the identity.
LEMMA RetryIdentity ==
    ASSUME Typed, NEW s \in Switches, Retry(s)
    PROVE  \/ /\ retry[s].pc = "scheduled" /\ id' = id
              /\ \/ retry'[s].pc = "none"
                 \/ retry'[s].pc = "checked" /\ ConvergenceMatches(sw[s].snap)
           \/ /\ retry[s].pc = "checked" /\ retry'[s].pc = "read"
              /\ id' = id \/ id' = Ensured(sw[s].snap.target)
              /\ retry'[s].read # None => retry'[s].read = sw[s].snap.target /\ shown = sw[s].snap.target
           \/ /\ retry[s].pc = "read" /\ retry'[s].pc = "none"
              /\ \/ id' = id
                 \/ retry[s].read # None /\ id' = Published(retry[s].read)
                 \/ id' = Degraded
<1>0. retry \in [Switches -> Retries] /\ retry[s] \in Retries
  BY DEF Typed, TypeOK
<1>1. CASE RetryCheck(s)
  <2>1. PICK p \in {"checked", "none"} : /\ retry' = [retry EXCEPT ![s].pc = p]
                                         /\ p = "checked" => ConvergenceMatches(sw[s].snap)
    BY <1>1 DEF RetryCheck
  <2>2. retry'[s].pc = p
    BY <1>0, <2>1 DEF Retries
  <2> QED BY <1>1, <2>1, <2>2 DEF RetryCheck
<1>2. CASE RetryRead(s)
  <2>1. PICK v \in LiveIdentity(sw[s].snap.target) : retry' = [retry EXCEPT ![s] = [pc |-> "read", read |-> v]]
    BY <1>2 DEF RetryRead
  <2>2. retry'[s].pc = "read" /\ retry'[s].read = v
    BY <1>0, <2>1
  <2>3. v # None => v = sw[s].snap.target /\ shown = sw[s].snap.target
    BY DEF LiveIdentity
  <2> QED BY <1>2, <2>2, <2>3 DEF RetryRead
<1>3. CASE RetryPublish(s)
  <2>1. retry'[s].pc = "none"
    BY <1>0, <1>3 DEF RetryPublish, NoRetry
  <2> QED BY <1>3, <2>1 DEF RetryPublish
<1> QED BY <1>1, <1>2, <1>3 DEF Retry

\* The generation of the identity says which switch a snapshot is from; retries
\* that passed the check are those of the latest switch.
GenAt(s) ==
    Without({"overlap", "replaced"}) =>
        /\ sw[s].pc = "begin" => sw[s].snap.gen = 0
        /\ sw[s].token > 0 => /\ sw[s].snap.gen <= id.gen
                              /\ sw[s].token < seq => sw[s].snap.gen < id.gen
        /\ retry[s].pc \in {"checked", "read"} => sw[s].token = seq

\* After an accepted switch the card has the target, and what was read is read
\* from this card.
TargetAt(s) ==
    "overlap" \notin spoiled =>
        /\ sw[s].pc \in Later => sw[s].snap.target = card
        /\ sw[s].pc = "publish" /\ sw[s].read # None => sw[s].read = card /\ shown = card
        /\ retry[s].pc # "none" /\ sw[s].token = seq => sw[s].snap.target = card

Aimed == \A s \in Switches : GenAt(s) /\ TargetAt(s)

\* Generations only grow, unless the worker is replaced.
LEMMA GenGrows ==
    ASSUME Typed, [Next]_vars, "replaced" \notin spoiled'
    PROVE  id.gen \in Nat /\ id'.gen \in Nat /\ id'.gen >= id.gen
<1>0. id \in Identities /\ id' \in Identities
  BY TypedNext DEF Typed, TypeOK
<1>1. id.gen \in Nat /\ id'.gen \in Nat
  BY <1>0 DEF Identities
<1>2. ASSUME NEW s \in Switches, Step(s) PROVE id'.gen >= id.gen
  <2>1. sw[s].pc # "idle" => sw[s].snap.target \in Profiles /\ sw[s].snap.before \in Profiles \cup {None}
    BY TypedFacts DEF Facts, Contexts
  <2>2. sw[s].read \in Profiles \cup {None}
    BY DEF Typed, TypeOK, Calls
  <2> QED BY <1>0, <1>1, <1>2, <2>1, <2>2, StepIdentity, IdentityFields
<1>3. ASSUME NEW s \in Switches, Retry(s) PROVE id'.gen >= id.gen
  <2>1. sw[s].snap.target \in Profiles /\ retry[s].read \in Profiles \cup {None}
    BY <1>3, RetryFlow DEF Typed, TypeOK, CallOK, Contexts, Retries
  <2> QED BY <1>0, <1>1, <1>3, <2>1, RetryIdentity, IdentityFields
<1>4. ASSUME Outside PROVE id'.gen >= id.gen
  <2>1. \A abandon \in BOOLEAN : ~ReplaceWorker(abandon)
    BY DEF ReplaceWorker, Spoil
  <2>2. id' = id \/ id' = [iccid |-> live, phase |-> "ready", target |-> None,
                           gen |-> IF id.iccid \notin {None, live} THEN id.gen + 1 ELSE id.gen]
    BY <1>4, <2>1 DEF Outside, Settle, LiveRead, LiveWrite, TaskCapture, TaskProject, Recover, Guard
  <2> QED BY <1>1, <2>2
<1>5. ASSUME NEW s \in Switches, NEW target \in Profiles, Start(s, target) PROVE id'.gen >= id.gen
  BY <1>1, <1>5, StartFlow
<1>6. ASSUME UNCHANGED vars PROVE id'.gen >= id.gen
  BY <1>1, <1>6 DEF vars
<1> QED BY <1>1, <1>2, <1>3, <1>4, <1>5, <1>6, NextCases

\* Generations and targets agree at the start.
LEMMA AimedInit == Init => Aimed
<1> SUFFICES ASSUME Init, NEW s \in Switches PROVE GenAt(s) /\ TargetAt(s)
  BY DEF Aimed
<1>1. sw[s].pc = "idle" /\ sw[s].token = 0 /\ retry[s].pc = "none"
  BY DEF Init, Idle, NoRetry
<1> QED BY <1>1 DEF GenAt, TargetAt, Later

\* A step of a call keeps its generation and its target those of the worker's identity.
LEMMA StepAimed ==
    ASSUME Typed, Booked, MarkOK, Aimed, NEW s \in Switches, Step(s), [Next]_vars PROVE Aimed'
<1>0. Facts(s) /\ TokenAt(s) /\ LoneAt(s) /\ GenAt(s) /\ TargetAt(s) /\ spoiled \subseteq spoiled'
  BY TypedFacts, StepSpoils DEF Booked, MarkOK, Aimed
<1>a. sw[s].pc \in Active
  BY StepFlow DEF Flow, Active, Holding, Later
<1>b. /\ sw[s].pc # "begin" => sw'[s].snap.gen = sw[s].snap.gen \/ (sw'[s].snap.gen = id'.gen /\ sw[s].pc = "after")
      /\ sw[s].pc = "begin" => sw'[s].snap.gen = sw[s].snap.gen
  <2>1. sw[s].pc = "after" => After(s)
    BY DEF Step, Begin, Teardown, Lower, Barrier, Enable, Abort, OnFailed, UndoIdentity, UndoRadio, CoreReady, Converge,
       CapturePolicy, Project, Online, ReadIdentity, Publish, Runtime, Auth, Connect, SwitchEnd, RestoreRadio
  <2> QED BY <1>0, <2>1, StepFlow, AfterShape DEF Facts, Stays, Advances, Keeps
<1>1. ASSUME NEW o \in Switches PROVE GenAt(o)'
  <2> SUFFICES ASSUME Without({"overlap", "replaced"})'
               PROVE  /\ sw'[o].pc = "begin" => sw'[o].snap.gen = 0
                      /\ sw'[o].token > 0 => /\ sw'[o].snap.gen <= id'.gen
                                             /\ sw'[o].token < seq' => sw'[o].snap.gen < id'.gen
                      /\ retry'[o].pc \in {"checked", "read"} => sw'[o].token = seq'
    BY DEF GenAt
  <2>0. Without({"overlap", "replaced"}) /\ "overlap" \notin spoiled /\ "overlap" \notin spoiled' /\ "replaced" \notin spoiled'
    BY <1>0 DEF Without
  <2>1. id.gen \in Nat /\ id'.gen \in Nat /\ id'.gen >= id.gen
    BY <2>0, GenGrows
  <2>2. sw[s].pc = "begin" => id'.gen = id.gen + 1
    <3>1. sw[s].pc = "begin" => sw[s].snap.target \in Profiles
      BY <1>0 DEF Facts, Contexts
    <3> QED BY <1>0, <3>1, StepIdentity, IdentityFields DEF Facts
  <2>3. CASE o = s
    <3>1. sw'[s].pc # "begin"
      BY StepFlow DEF Flow
    <3>2. sw[s].pc = "begin" => sw'[s].snap.gen = 0 /\ sw'[s].token = seq' /\ seq' \in Nat /\ retry'[s].pc = "none"
      BY <1>0, <1>b, <2>0, StepFlow, StepShared DEF GenAt, TokenAt, Facts, Later
    <3>3. sw[s].pc # "begin" => /\ sw'[s].token = sw[s].token /\ seq' = seq /\ sw[s].token = seq /\ sw[s].token > 0
                                /\ sw[s].snap.gen <= id.gen
      BY <1>0, <1>a, <2>0, StepFlow DEF LoneAt, TokenAt, Facts, GenAt, Active, Holding, Later
    <3>4. sw[s].pc # "begin" => sw'[s].snap.gen <= id'.gen
      <4>1. sw[s].pc # "begin" => sw[s].snap.gen \in Nat
        BY <1>0, <1>a DEF Facts, Contexts, Active, Holding, Later
      <4> QED BY <1>b, <2>1, <3>3, <4>1
    <3>5. seq \in Nat
      BY <1>0 DEF Facts
    <3> QED BY <2>1, <2>3, <3>1, <3>2, <3>3, <3>4, <3>5
  <2>4. CASE o # s
    <3>1. Alike(o) /\ retry'[o] = retry[o] /\ GenAt(o) /\ sw[o].token \in Nat /\ sw[o].token <= seq /\ seq \in Nat
      BY <1>0, <2>4, StepFlow, StepShared DEF Aimed, Booked, TokenAt, Facts
    <3>2. sw[o].pc \in {"idle", "done"} /\ (sw[o].token > 0 => sw[o].snap.gen \in Nat)
      BY <1>0, <1>a, <2>0, <2>4 DEF LoneAt, Booked, TokenAt, Typed, CallOK, Contexts, Facts
    <3>3. CASE sw[s].pc = "begin"
      <4>1. retry[o].pc \notin {"checked", "read"}
        BY <2>0, <2>4, <3>3, StepSpoils, NoOverlap
      <4> QED BY <2>0, <2>1, <2>2, <3>1, <3>2, <3>3, <4>1 DEF Alike, GenAt
    <3>4. CASE sw[s].pc # "begin"
      <4>1. seq' = seq
        BY <3>4, StepFlow
      <4> QED BY <2>0, <2>1, <3>1, <3>2, <4>1 DEF Alike, GenAt
    <3> QED BY <3>3, <3>4
  <2> QED BY <2>3, <2>4
<1>2. ASSUME NEW o \in Switches PROVE TargetAt(o)'
  <2> SUFFICES ASSUME "overlap" \notin spoiled'
               PROVE  /\ sw'[o].pc \in Later => sw'[o].snap.target = card'
                      /\ sw'[o].pc = "publish" /\ sw'[o].read # None => sw'[o].read = card' /\ shown' = card'
                      /\ retry'[o].pc # "none" /\ sw'[o].token = seq' => sw'[o].snap.target = card'
    BY DEF TargetAt
  <2>0. "overlap" \notin spoiled /\ shown' = shown
    BY <1>0, StepShared
  <2>1. CASE o = s
    <3>1. sw'[s].snap.target = sw[s].snap.target
      BY StepFlow
    <3>2. sw[s].pc \in Later => sw[s].snap.target = card /\ card' = card
      BY <1>0, <2>0, StepIdentity DEF TargetAt, Later
    <3>3. sw'[s].pc \in Later => sw[s].pc \in Later \/ (sw[s].pc = "enable" /\ sw'[s].pc = "after")
      BY StepFlow DEF Flow, Later
    <3>4. sw'[s].pc \in Later => sw'[s].snap.target = card'
      BY <3>1, <3>2, <3>3, StepIdentity
    <3>5. sw'[s].pc = "publish" /\ sw'[s].read # None => sw'[s].read = card' /\ shown' = card'
      <4> SUFFICES ASSUME sw'[s].pc = "publish", sw'[s].read # None PROVE sw'[s].read = card' /\ shown' = card'
        OBVIOUS
      <4>1. sw[s].pc = "identity"
        BY StepFlow DEF Flow
      <4>2. ReadIdentity(s)
        BY <4>1 DEF Step, Begin, Teardown, Lower, Barrier, Enable, Abort, OnFailed, UndoIdentity, UndoRadio, After, CoreReady,
           Converge, CapturePolicy, Project, Online, Publish, Runtime, Auth, Connect, SwitchEnd, RestoreRadio
      <4>3. sw'[s].read = sw[s].snap.target /\ shown = sw[s].snap.target
        BY <1>0, <4>1, <4>2, ReadIdentityShape DEF Facts
      <4> QED BY <2>0, <3>2, <4>1, <4>3 DEF Later
    <3>6. retry'[s].pc # "none" /\ sw'[s].token = seq' => sw'[s].snap.target = card'
      <4> SUFFICES ASSUME retry'[s].pc # "none", sw'[s].token = seq' PROVE sw'[s].snap.target = card'
        OBVIOUS
      <4>1. CASE sw[s].pc \in Later
        BY <3>1, <3>2, <4>1
      <4>2. CASE sw[s].pc \notin Later
        <5>1. retry[s].pc # "none"
          BY <4>2, StepShared DEF Later
        <5>2. sw[s].pc = "done"
          BY <1>0, <4>2, <5>1 DEF TokenAt
        <5> QED BY <5>2, StepFlow DEF Flow
      <4> QED BY <4>1, <4>2
    <3> QED BY <2>1, <3>4, <3>5, <3>6
  <2>2. CASE o # s
    <3>1. Alike(o) /\ retry'[o] = retry[o] /\ TargetAt(o) /\ TokenAt(o) /\ sw[o].token \in Nat /\ seq \in Nat
      BY <1>0, <2>2, StepFlow, StepShared DEF Aimed, Booked, Facts
    <3>2. sw[o].pc \in {"idle", "done"}
      BY <1>0, <1>a, <2>0, <2>2 DEF LoneAt
    <3>3. ASSUME retry[o].pc # "none", sw[o].token = seq' PROVE sw[o].snap.target = card'
      <4>1. sw[s].pc # "begin" /\ seq' = seq
        BY <3>1, <3>3, StepFlow DEF TokenAt
      <4>2. sw[s].token = seq
        BY <1>0, <1>a, <2>0, <4>1 DEF LoneAt
      <4>3. sw[o].token # 0
        BY <3>1, <3>2, <3>3 DEF TokenAt, Later
      <4>4. o = s
        BY <3>3, <4>1, <4>2, <4>3 DEF Booked, Distinct
      <4> QED BY <2>2, <4>4
    <3> QED BY <3>1, <3>2, <3>3 DEF Alike, Later
  <2> QED BY <2>1, <2>2
<1> QED BY <1>1, <1>2 DEF Aimed

\* A new call of SwitchProfile keeps generations and targets in order.
LEMMA StartAimed ==
    ASSUME Typed, Booked, Aimed, NEW s \in Switches, NEW target \in Profiles, Start(s, target) PROVE Aimed'
<1>0. Facts(s) /\ TokenAt(s) /\ spoiled \subseteq spoiled'
      /\ UNCHANGED <<card, shown, id, seq, retry>> /\ sw[s].pc = "idle"
  BY TypedFacts, StartFlow DEF Booked
<1>1. sw'[s].pc = "begin" /\ sw'[s].token = 0 /\ sw'[s].snap.gen = 0 /\ \A o \in Switches \ {s} : Alike(o)
  <2>1. Started(s, target)
    BY StartFlow
  <2>2. sw'[s].snap = [token |-> 0, before |-> id.iccid, flight |-> radio # "online", target |-> target, gen |-> 0]
    BY <2>1 DEF Started
  <2>a. PICK f \in BOOLEAN : f = (radio # "online")
    OBVIOUS
  <2>b. sw'[s].snap = [token |-> 0, before |-> id.iccid, flight |-> f, target |-> target, gen |-> 0]
    BY <2>2, <2>a
  <2>3. sw'[s].snap.gen = 0
    BY <2>b
  <2> QED BY <2>1, <2>3 DEF Started, Moves
<1>2. retry[s].pc = "none"
  BY <1>0 DEF TokenAt, Later
<1>3. ASSUME NEW o \in Switches PROVE GenAt(o)' /\ TargetAt(o)'
  <2>1. CASE o = s
    BY <1>0, <1>1, <1>2, <2>1 DEF GenAt, TargetAt, Later
  <2>2. CASE o # s
    BY <1>0, <1>1, <2>2 DEF GenAt, TargetAt, Aimed, Alike, Without
  <2> QED BY <2>1, <2>2
<1> QED BY <1>3 DEF Aimed

\* A delayed retry keeps generations and targets in order.
LEMMA RetryAimed ==
    ASSUME Typed, Booked, Aimed, NEW s \in Switches, Retry(s), [Next]_vars PROVE Aimed'
<1>0. UNCHANGED <<card, shown, seq, sw, spoiled>> /\ Facts(s) /\ TokenAt(s) /\ GenAt(s) /\ TargetAt(s)
      /\ retry[s].pc # "none" /\ \A o \in Switches \ {s} : retry'[o] = retry[o]
  BY RetryFlow, TypedFacts DEF Booked, Aimed
<1>1. ASSUME NEW o \in Switches PROVE GenAt(o)'
  <2> SUFFICES ASSUME Without({"overlap", "replaced"})
               PROVE  /\ sw[o].pc = "begin" => sw[o].snap.gen = 0
                      /\ sw[o].token > 0 => /\ sw[o].snap.gen <= id'.gen
                                            /\ sw[o].token < seq => sw[o].snap.gen < id'.gen
                      /\ retry'[o].pc \in {"checked", "read"} => sw[o].token = seq
    BY <1>0 DEF GenAt, Without
  <2>1. id.gen \in Nat /\ id'.gen \in Nat /\ id'.gen >= id.gen
    BY <1>0, GenGrows DEF Without
  <2>2. GenAt(o) /\ sw[o].token \in Nat /\ sw[o].token <= seq /\ seq \in Nat /\ (sw[o].token > 0 => sw[o].snap.gen \in Nat)
    BY <1>0 DEF Aimed, Booked, TokenAt, Facts, Typed, CallOK, Contexts
  <2>3. retry'[o].pc \in {"checked", "read"} => sw[o].token = seq
    <3>1. CASE o = s
      <4>1. sw[s].token > 0
        BY <1>0 DEF TokenAt, Later, Facts
      <4>2. ConvergenceMatches(sw[s].snap) => sw[s].token = seq
        BY <1>0, <2>1, <2>2, <3>1, <4>1 DEF ConvergenceMatches, GenAt
      <4> QED BY <1>0, <3>1, <4>2, RetryIdentity DEF GenAt
    <3>2. CASE o # s
      BY <1>0, <2>2, <3>2 DEF GenAt
    <3> QED BY <3>1, <3>2
  <2> QED BY <2>1, <2>2, <2>3 DEF GenAt
<1>2. ASSUME NEW o \in Switches PROVE TargetAt(o)'
  BY <1>0 DEF TargetAt, Aimed
<1> QED BY <1>1, <1>2 DEF Aimed

\* Steps outside the calls keep generations and targets in order.
LEMMA OutsideAimed ==
    ASSUME Typed, Booked, Aimed, Outside \/ UNCHANGED vars, [Next]_vars PROVE Aimed'
<1>0. UNCHANGED <<card, seq, sw, retry>> /\ spoiled \subseteq spoiled'
  BY OutsideFlow DEF vars, modem, pool
<1>1. ASSUME NEW o \in Switches PROVE GenAt(o)'
  <2> SUFFICES ASSUME Without({"overlap", "replaced"})'
               PROVE  /\ sw[o].pc = "begin" => sw[o].snap.gen = 0
                      /\ sw[o].token > 0 => /\ sw[o].snap.gen <= id'.gen
                                            /\ sw[o].token < seq => sw[o].snap.gen < id'.gen
                      /\ retry[o].pc \in {"checked", "read"} => sw[o].token = seq
    BY <1>0 DEF GenAt
  <2>0. Without({"overlap", "replaced"}) /\ "replaced" \notin spoiled'
    BY <1>0 DEF Without
  <2>1. id.gen \in Nat /\ id'.gen \in Nat /\ id'.gen >= id.gen
    BY <2>0, GenGrows
  <2>2. GenAt(o) /\ sw[o].token \in Nat /\ seq \in Nat /\ (sw[o].token > 0 => sw[o].snap.gen \in Nat)
    BY TypedFacts DEF Aimed, Booked, TokenAt, Facts, Typed, CallOK, Contexts
  <2> QED BY <2>0, <2>1, <2>2 DEF GenAt
<1>2. shown' = shown \/ shown' = card
  BY DEF Outside, Settle, LiveRead, LiveWrite, TaskCapture, TaskProject, Recover, Guard, ReplaceWorker, modem, vars
<1>3. ASSUME NEW o \in Switches PROVE TargetAt(o)'
  BY <1>0, <1>2 DEF TargetAt, Aimed
<1> QED BY <1>1, <1>3 DEF Aimed

\* Every step keeps generations and targets in order.
LEMMA AimedNext == Typed /\ Booked /\ MarkOK /\ Aimed /\ [Next]_vars => Aimed'
BY NextCases, StepAimed, StartAimed, RetryAimed, OutsideAimed

\* A snapshot keeps the identity that was shown.
LEMMA StartSnapshot ==
    ASSUME Typed, NEW s \in Switches, NEW target \in Profiles, Start(s, target)
    PROVE  sw'[s].snap.before = id.iccid
<1>1. Started(s, target)
  BY StartFlow
<1>2. PICK f \in BOOLEAN : f = (radio # "online")
  OBVIOUS
<1>3. sw'[s].snap = [token |-> 0, before |-> id.iccid, flight |-> f, target |-> target, gen |-> 0]
  BY <1>1, <1>2 DEF Started
<1> QED BY <1>3

\* Nothing has happened that could give the worker another card's identity.
Clean == Without({"overlap", "unanswered", "torn", "replaced"})

\* A live read that is not torn is what the modem shows.
LiveFresh == "torn" \notin spoiled => live \in {None, shown}

\* The identity is the card's or empty, and as long as the modem shows another
\* card, the identity waits for the right one.
CardId ==
    Clean => /\ id.iccid \in {None, card}
             /\ id.phase = "ready" => id.iccid = card
             /\ shown # card => id.phase # "ready" /\ id.target = card

\* Up to the switch the modem shows the card and the snapshot has its identity;
\* the identity waits for the target, unless the card has it already; and what
\* a retry has read is the card's.
IdAt(s) ==
    Clean =>
        /\ sw[s].pc \in Holding \cup {"failed", "undo"} =>
              shown = card /\ sw[s].snap.before \in {None, card}
        /\ sw[s].pc \in {"teardown", "lower", "barrier", "enable"} =>
              \/ id.phase # "ready" /\ id.target = sw[s].snap.target /\ id.iccid = None
              \/ sw[s].snap.target = card
        /\ retry[s].pc = "read" /\ retry[s].read # None => retry[s].read = card /\ shown = card

Known == LiveFresh /\ CardId /\ \A s \in Switches : IdAt(s)

\* The identity is the card's at the start.
LEMMA KnownInit == Init => Known
<1> SUFFICES ASSUME Init PROVE Known
  OBVIOUS
<1>1. LiveFresh /\ CardId
  BY DEF Init, LiveFresh, CardId
<1>2. ASSUME NEW s \in Switches PROVE IdAt(s)
  <2>1. sw[s].pc = "idle" /\ retry[s].pc = "none"
    BY DEF Init, Idle, NoRetry
  <2> QED BY <2>1 DEF IdAt, Holding
<1> QED BY <1>1, <1>2 DEF Known

\* A step of a call keeps what is known of the card's identity.
LEMMA StepKnown ==
    ASSUME Typed, Booked, MarkOK, Aimed, Known, NEW s \in Switches, Step(s) PROVE Known'
<1>0. Facts(s) /\ TokenAt(s) /\ LoneAt(s) /\ GenAt(s) /\ TargetAt(s) /\ IdAt(s) /\ spoiled \subseteq spoiled'
      /\ shown' = shown /\ live' = live /\ id \in Identities
      /\ sw'[s].snap.target = sw[s].snap.target /\ sw'[s].snap.before = sw[s].snap.before
  BY TypedFacts, StepSpoils, StepShared, StepFlow DEF Booked, MarkOK, Aimed, Known, Facts
<1>a. sw[s].pc \in Active
  BY StepFlow DEF Flow, Active, Holding, Later
<1>b. sw[s].snap.target \in Profiles /\ sw[s].snap.before \in Profiles \cup {None} /\ sw[s].read \in Profiles \cup {None}
  BY <1>0, <1>a DEF Facts, Contexts, Active, Holding, Later, Calls
<1>1. LiveFresh'
  BY <1>0 DEF Known, LiveFresh
<1>2. ASSUME Clean'
      PROVE  /\ Clean /\ "overlap" \notin spoiled /\ Without({"overlap", "replaced"})
             /\ "unanswered" \notin spoiled'
  BY <1>0, <1>2 DEF Clean, Without
<1>3. ASSUME Clean'
      PROVE  /\ id'.iccid \in {None, card'} /\ (id'.phase = "ready" => id'.iccid = card')
             /\ shown # card' => id'.phase # "ready" /\ id'.target = card'
  <2>0. /\ id.iccid \in {None, card} /\ (id.phase = "ready" => id.iccid = card)
        /\ shown # card => id.phase # "ready" /\ id.target = card
    BY <1>2, <1>3 DEF Known, CardId
  <2>1. CASE sw[s].pc = "begin"
    BY <1>0, <1>2, <1>3, <1>b, <2>1, StepIdentity, IdentityFields DEF IdAt, Holding
  <2>2. CASE sw[s].pc = "undo"
    BY <1>0, <1>2, <1>3, <1>b, <2>0, <2>2, StepIdentity, IdentityFields DEF IdAt
  <2>3. CASE sw[s].pc \in {"after", "identity"}
    <3>1. sw[s].snap.target = card /\ card' = card
      BY <1>0, <1>2, <1>3, <2>3, StepIdentity DEF TargetAt, Later
    <3>2. id' = id \/ id' = Transition(card)
      BY <1>0, <1>b, <2>3, <3>1, StepIdentity, IdentityFields
    <3> QED BY <1>0, <1>b, <2>0, <3>1, <3>2, IdentityFields
  <2>4. CASE sw[s].pc = "publish"
    <3>1. card' = card /\ (sw[s].read # None => sw[s].read = card /\ shown = card)
      BY <1>0, <1>2, <1>3, <2>4, StepIdentity DEF TargetAt
    <3>2. id' = id \/ id' = Degraded \/ (sw[s].read # None /\ id' = Published(sw[s].read))
      BY <2>4, StepIdentity
    <3> QED BY <1>0, <1>b, <2>0, <3>1, <3>2, IdentityFields
  <2>5. CASE sw[s].pc = "enable"
    <3>1. id' = id /\ sw'[s].pc \in {"after", "abort"}
      BY <2>5, StepIdentity, StepFlow DEF Flow
    <3>2. card' = card \/ card' = sw[s].snap.target
      BY <1>2, <1>3, <2>5, <3>1, StepIdentity
    <3>3. \/ id.phase # "ready" /\ id.target = sw[s].snap.target /\ id.iccid = None
          \/ sw[s].snap.target = card
      BY <1>0, <1>2, <1>3, <2>5 DEF IdAt
    <3> QED BY <2>0, <3>1, <3>2, <3>3
  <2>6. CASE sw[s].pc \notin {"begin", "undo", "after", "identity", "publish", "enable"}
    BY <2>0, <2>6, StepIdentity
  <2> QED BY <2>1, <2>2, <2>3, <2>4, <2>5, <2>6
<1>4. ASSUME NEW o \in Switches PROVE IdAt(o)'
  <2> SUFFICES ASSUME Clean'
               PROVE  /\ sw'[o].pc \in Holding \cup {"failed", "undo"} =>
                            shown' = card' /\ sw'[o].snap.before \in {None, card'}
                      /\ sw'[o].pc \in {"teardown", "lower", "barrier", "enable"} =>
                            \/ id'.phase # "ready" /\ id'.target = sw'[o].snap.target /\ id'.iccid = None
                            \/ sw'[o].snap.target = card'
                      /\ retry'[o].pc = "read" /\ retry'[o].read # None => retry'[o].read = card' /\ shown' = card'
    BY DEF IdAt
  <2>1. CASE o = s
    <3>1. ASSUME sw'[s].pc \in Holding \cup {"failed", "undo"}
          PROVE  shown' = card' /\ sw'[s].snap.before \in {None, card'}
      <4>1. sw[s].pc \in Holding \cup {"failed", "undo"} /\ sw'[s].pc # "after"
        BY <3>1, StepFlow DEF Flow, Holding
      <4>2. card' = card
        BY <1>2, <4>1, StepIdentity, StepFlow DEF Flow
      <4> QED BY <1>0, <1>2, <4>1, <4>2 DEF IdAt
    <3>2. ASSUME sw'[s].pc \in {"teardown", "lower", "barrier", "enable"}
          PROVE  \/ id'.phase # "ready" /\ id'.target = sw'[s].snap.target /\ id'.iccid = None
                 \/ sw'[s].snap.target = card'
      <4>1. sw[s].pc \in {"begin", "teardown", "lower", "barrier"}
        BY <3>2, StepFlow DEF Flow
      <4>2. CASE sw[s].pc = "begin"
        BY <1>0, <1>b, <4>2, StepIdentity, IdentityFields
      <4>3. CASE sw[s].pc # "begin"
        BY <1>0, <1>2, <4>1, <4>3, StepIdentity DEF IdAt
      <4> QED BY <4>2, <4>3
    <3>3. ASSUME retry'[s].pc = "read", retry'[s].read # None PROVE retry'[s].read = card' /\ shown' = card'
      <4>1. retry'[s] = retry[s]
        BY <3>3, StepShared
      <4>2. card' = card
        BY <1>0, <3>3, <4>1, StepIdentity DEF TokenAt, Later
      <4> QED BY <1>0, <1>2, <3>3, <4>1, <4>2 DEF IdAt
    <3> QED BY <2>1, <3>1, <3>2, <3>3
  <2>2. CASE o # s
    <3>1. Alike(o) /\ retry'[o] = retry[o] /\ IdAt(o) /\ TokenAt(o) /\ GenAt(o)
      BY <2>2, StepFlow, StepShared DEF Known, Booked, Aimed
    <3>2. sw[o].pc \in {"idle", "done"}
      BY <1>0, <1>2, <1>a, <2>2 DEF LoneAt
    <3>3. ASSUME retry[o].pc = "read", retry[o].read # None PROVE retry[o].read = card' /\ shown' = card'
      <4>1. sw[o].token = seq /\ sw[o].token # 0
        BY <1>2, <3>1, <3>2, <3>3 DEF GenAt, TokenAt, Later
      <4>2. sw[s].pc # "enable"
        <5>1. sw[s].pc = "enable" => sw[s].token = seq
          BY <1>0, <1>2, <1>a DEF LoneAt
        <5> QED BY <2>2, <4>1, <5>1 DEF Booked, Distinct
      <4> QED BY <1>0, <1>2, <3>1, <3>3, <4>2, StepIdentity DEF IdAt
    <3> QED BY <3>1, <3>2, <3>3 DEF Alike, Holding
  <2> QED BY <2>1, <2>2
<1>5. CardId'
  BY <1>0, <1>3 DEF CardId
<1> QED BY <1>1, <1>4, <1>5 DEF Known

\* A new call of SwitchProfile keeps what is known of the card's identity.
LEMMA StartKnown ==
    ASSUME Typed, Booked, Known, NEW s \in Switches, NEW target \in Profiles, Start(s, target) PROVE Known'
<1>0. /\ spoiled \subseteq spoiled' /\ spoiled' = spoiled \cup Overlap(s)
      /\ UNCHANGED <<card, shown, id, retry, live>> /\ sw[s].pc = "idle" /\ TokenAt(s)
      /\ sw'[s].snap.before = id.iccid
  BY StartFlow, StartSnapshot DEF Booked
<1>1. sw'[s].pc = "begin" /\ \A o \in Switches \ {s} : Alike(o)
  BY StartFlow DEF Started, Moves
<1>2. LiveFresh' /\ CardId'
  BY <1>0 DEF Known, LiveFresh, CardId, Clean, Without
<1>3. ASSUME NEW o \in Switches PROVE IdAt(o)'
  <2>1. CASE o = s
    <3> SUFFICES ASSUME Clean' PROVE shown = card /\ id.iccid \in {None, card} /\ retry[s].pc = "none"
      BY <1>0, <1>1, <2>1 DEF IdAt
    <3>1. Clean /\ "overlap" \notin Overlap(s)
      BY <1>0 DEF Clean, Without
    <3> QED BY <1>0, <3>1, NoOverlap DEF Known, CardId, TokenAt, Later
  <2>2. CASE o # s
    BY <1>0, <1>1, <2>2 DEF IdAt, Known, Alike, Clean, Without
  <2> QED BY <2>1, <2>2
<1> QED BY <1>2, <1>3 DEF Known

\* A delayed retry publishes nothing older than what is known.
LEMMA RetryKnown ==
    ASSUME Typed, Booked, MarkOK, Aimed, Known, NEW s \in Switches, Retry(s) PROVE Known'
<1>0. /\ UNCHANGED <<card, shown, sw, live, spoiled>> /\ retry[s].pc # "none"
      /\ \A o \in Switches \ {s} : retry'[o] = retry[o]
      /\ TokenAt(s) /\ GenAt(s) /\ TargetAt(s) /\ IdAt(s) /\ id \in Identities
  BY RetryFlow DEF Booked, Aimed, Known, Typed, TypeOK
<1>1. sw[s].snap.target \in Profiles /\ retry[s].read \in Profiles \cup {None}
  BY <1>0 DEF Typed, TypeOK, CallOK, Contexts, Retries
<1>2. LiveFresh'
  BY <1>0 DEF Known, LiveFresh
<1>3. ASSUME Clean
      PROVE  /\ id.iccid \in {None, card} /\ (id.phase = "ready" => id.iccid = card)
             /\ shown # card => id.phase # "ready" /\ id.target = card
             /\ "overlap" \notin spoiled /\ Without({"overlap", "replaced"})
  BY <1>3 DEF Known, CardId, Clean, Without
<1>4. ASSUME Clean, retry[s].pc \in {"checked", "read"}
      PROVE  sw[s].token = seq /\ sw[s].token # 0 /\ sw[s].snap.target = card
  BY <1>0, <1>3, <1>4 DEF GenAt, TargetAt, TokenAt, Later
<1>5. ASSUME Clean
      PROVE  /\ id'.iccid \in {None, card} /\ (id'.phase = "ready" => id'.iccid = card)
             /\ shown # card => id'.phase # "ready" /\ id'.target = card
  <2>1. CASE id' = id
    BY <1>3, <1>5, <2>1
  <2>2. CASE retry[s].pc = "checked" /\ id' = Ensured(sw[s].snap.target)
    <3>1. id' = id \/ id' = Transition(card)
      BY <1>0, <1>1, <1>4, <1>5, <2>2, IdentityFields
    <3> QED BY <1>0, <1>1, <1>3, <1>4, <1>5, <2>2, <3>1, IdentityFields
  <2>3. CASE retry[s].pc = "read" /\ retry[s].read # None /\ id' = Published(retry[s].read)
    <3>1. retry[s].read = card /\ shown = card
      BY <1>0, <1>5, <2>3 DEF IdAt
    <3> QED BY <1>0, <1>1, <2>3, <3>1, IdentityFields
  <2>4. CASE id' = Degraded
    BY <1>0, <1>3, <1>5, <2>4, IdentityFields
  <2> QED BY <2>1, <2>2, <2>3, <2>4, RetryIdentity
<1>6. ASSUME NEW o \in Switches PROVE IdAt(o)'
  <2> SUFFICES ASSUME Clean
               PROVE  /\ sw[o].pc \in Holding \cup {"failed", "undo"} =>
                            shown = card /\ sw[o].snap.before \in {None, card}
                      /\ sw[o].pc \in {"teardown", "lower", "barrier", "enable"} =>
                            \/ id'.phase # "ready" /\ id'.target = sw[o].snap.target /\ id'.iccid = None
                            \/ sw[o].snap.target = card
                      /\ retry'[o].pc = "read" /\ retry'[o].read # None => retry'[o].read = card /\ shown = card
    BY <1>0 DEF IdAt, Clean, Without
  <2>0. IdAt(o)
    BY DEF Known
  <2>1. ASSUME sw[o].pc \in {"teardown", "lower", "barrier", "enable"}
        PROVE  id' = id
    <3>1. sw[o].token = seq
      BY <1>3, <2>1 DEF MarkOK, LoneAt, Active, Holding
    <3>2. o # s
      BY <1>0, <2>1 DEF TokenAt, Later
    <3>3. retry[s].pc \notin {"checked", "read"}
      BY <1>4, <3>1, <3>2 DEF Booked, Distinct
    <3> QED BY <3>3, RetryIdentity
  <2>2. ASSUME retry'[o].pc = "read", retry'[o].read # None PROVE retry'[o].read = card /\ shown = card
    <3>1. CASE o = s
      BY <1>4, <2>2, <3>1, RetryIdentity
    <3>2. CASE o # s
      BY <1>0, <2>0, <2>2, <3>2 DEF IdAt
    <3> QED BY <3>1, <3>2
  <2> QED BY <2>0, <2>1, <2>2 DEF IdAt
<1>7. CardId'
  BY <1>0, <1>5 DEF CardId, Clean, Without
<1> QED BY <1>2, <1>6, <1>7 DEF Known

\* Live reads, replaced workers and the modem's own changes keep what is known.
LEMMA OutsideKnown ==
    ASSUME Typed, Known, Outside PROVE Known'
<1>0. UNCHANGED <<card, sw, retry>> /\ spoiled \subseteq spoiled'
  BY OutsideFlow
<1>1. CASE Settle
  <2>1. shown' = card /\ shown # card /\ id' = id /\ live' = live /\ (live # None => "torn" \in spoiled')
    BY <1>1 DEF Settle
  <2> QED BY <1>0, <2>1 DEF Known, LiveFresh, CardId, IdAt, Clean, Without
<1>2. CASE LiveWrite
  <2>0. shown' = shown /\ live' = None /\ live # None
    BY <1>2 DEF LiveWrite, modem
  <2>1. CASE id' = id
    BY <1>0, <2>0, <2>1 DEF Known, LiveFresh, CardId, IdAt, Clean, Without
  <2>2. CASE id' # id
    <3>1. /\ ~(id.phase # "ready" /\ id.target \notin {None, live})
          /\ id'.iccid = live /\ id'.phase = "ready"
      BY <1>2, <2>2 DEF LiveWrite
    <3>2. ASSUME Clean PROVE shown = card /\ live = card
      <4>1. live = shown
        BY <2>0, <3>2 DEF Known, LiveFresh, Clean, Without
      <4>2. card # None
        BY SwitchAssumption DEF Typed, TypeOK
      <4> QED BY <3>1, <3>2, <4>1, <4>2 DEF Known, CardId
    <3>3. LiveFresh' /\ CardId'
      BY <1>0, <2>0, <3>1, <3>2 DEF LiveFresh, CardId, Clean, Without
    <3>4. ASSUME NEW o \in Switches PROVE IdAt(o)'
      <4> SUFFICES ASSUME Clean, sw[o].pc \in {"teardown", "lower", "barrier", "enable"}
                   PROVE  sw[o].snap.target = card
        BY <1>0, <2>0 DEF Known, IdAt, Clean, Without
      <4>1. sw[o].snap.target # None
        BY SwitchAssumption DEF Typed, CallOK, Contexts
      <4> QED BY <3>1, <3>2, <4>1 DEF Known, IdAt
    <3> QED BY <3>3, <3>4 DEF Known
  <2> QED BY <2>1, <2>2
<1>3. CASE LiveRead \/ TaskCapture \/ TaskProject \/ Recover \/ Guard
  <2>1. shown' = shown /\ id' = id /\ (live' = live \/ live' = shown)
    BY <1>3 DEF LiveRead, TaskCapture, TaskProject, Recover, Guard, modem
  <2> QED BY <1>0, <2>1 DEF Known, LiveFresh, CardId, IdAt, Clean, Without
<1>4. ASSUME NEW abandon \in BOOLEAN, ReplaceWorker(abandon) PROVE Known'
  <2>1. "replaced" \in spoiled' /\ live' = None
    BY <1>4 DEF ReplaceWorker, Spoil
  <2> QED BY <2>1 DEF Known, LiveFresh, CardId, IdAt, Clean, Without
<1> QED BY <1>1, <1>2, <1>3, <1>4 DEF Outside

\* Every step keeps what is known of the card's identity.
LEMMA KnownNext == Typed /\ Booked /\ MarkOK /\ Aimed /\ Known /\ [Next]_vars => Known'
<1>1. ASSUME Known, UNCHANGED vars PROVE Known'
  BY <1>1 DEF vars, modem, pool, Known, LiveFresh, CardId, IdAt, Clean, Without
<1> QED BY <1>1, NextCases, StepKnown, StartKnown, RetryKnown, OutsideKnown

\* The invariant of the identity.
LEMMA KnownInvariant == Spec => [](Typed /\ Known)
BY TypedInit, BookedInit, MarkInit, AimedInit, KnownInit,
   TypedNext, BookedNext, MarkNext, AimedNext, KnownNext, PTL DEF Spec

\* An identity that is shown as ready is the card's, whatever was read from the
\* modem before it noticed the new profile.
THEOREM EsimIdentityHonest == Spec => []IdentityHonest
<1>1. Known => IdentityHonest
  BY DEF Known, CardId, Clean, IdentityHonest
<1> QED BY <1>1, KnownInvariant, PTL

\* A policy task that passes the check is for the card, however long ago and under
\* whatever switch its owner was captured.
THEOREM EsimPolicyFitsCard == Spec => []PolicyFitsCard
<1>1. ASSUME Typed, Known PROVE PolicyFitsCard
  <2> SUFFICES ASSUME NEW owner \in {task} \cup {sw[s].owner : s \in Switches},
                      Clean, owner # None, ValidOwner(owner)
               PROVE  owner.iccid = card
    BY DEF PolicyFitsCard, Clean
  <2>1. owner \in Owners
    BY <1>1 DEF Typed, TypeOK, Calls
  <2>2. owner.iccid \in Profiles /\ owner.iccid # None
    BY <2>1, SwitchAssumption DEF Owners
  <2>3. owner.iccid = id.iccid
    BY DEF ValidOwner, Owner
  <2> QED BY <1>1, <2>2, <2>3 DEF Known, CardId
<1> QED BY <1>1, KnownInvariant, PTL

(* ---------------------------------------------------------------------- *)
(* Policy and radio                                                        *)
(* ---------------------------------------------------------------------- *)

\* What every step of a call does to policy, VoWiFi and radio.
LEMMA StepHost ==
    ASSUME Typed, NEW s \in Switches, Step(s)
    PROVE  /\ sw[s].pc # "project" => policy' = policy
           /\ sw[s].pc = "project" => Projected(sw[s].owner) \/ Refused(sw[s].owner, Marks(s))
           /\ sw[s].pc \notin {"teardown", "project", "ending"} => vowifi' = vowifi
           /\ sw[s].pc \notin {"lower", "undoradio", "project", "online", "ending", "radio"} => radio' = radio
           /\ sw[s].pc = "undoradio" => SetRadio(SnapshotRadio(sw[s].snap, FALSE))
           /\ sw[s].pc = "online" /\ OwnerCurrent(s) /\ config.cycle => SetRadio("online")
           /\ sw[s].pc = "radio" /\ OwnerCurrent(s) => SetRadio(SnapshotRadio(sw[s].snap, config.cycle))
           /\ sw[s].pc = "ending" => /\ sw'[s].pc = "done" => vowifi' = "restored"
                                     /\ sw'[s].pc = "radio" => vowifi' = vowifi /\ radio' = radio
<1>0. Facts(s)
  BY TypedFacts
<1>1. CASE Begin(s)
  BY <1>1 DEF Begin, modem, host
<1>2. CASE Teardown(s)
  BY <1>2 DEF Teardown, modem, host
<1>3. CASE Lower(s)
  BY <1>3 DEF Lower, modem, host
<1>4. CASE Barrier(s)
  BY <1>4 DEF Barrier, modem, host
<1>5. CASE Enable(s)
  BY <1>5 DEF Enable, modem, host
<1>6. CASE Abort(s)
  BY <1>6 DEF Abort, modem, host
<1>7. CASE OnFailed(s)
  BY <1>7 DEF OnFailed, modem, host
<1>8. CASE UndoIdentity(s)
  BY <1>8 DEF UndoIdentity, modem, host
<1>9. CASE UndoRadio(s)
  BY <1>9 DEF UndoRadio, modem, host
<1>10. CASE After(s)
  BY <1>10 DEF After, modem, host
<1>11. CASE CoreReady(s)
  BY <1>11 DEF CoreReady, modem, host
<1>12. CASE Converge(s)
  BY <1>12 DEF Converge, modem, host
<1>13. CASE CapturePolicy(s)
  BY <1>13 DEF CapturePolicy, modem, host
<1>14. CASE Project(s)
  BY <1>14 DEF Project, modem, host
<1>15. CASE Online(s)
  BY <1>15 DEF Online, modem, host
<1>16. CASE ReadIdentity(s)
  BY <1>16 DEF ReadIdentity, modem, host
<1>17. CASE Publish(s)
  BY <1>17 DEF Publish, modem, host
<1>18. CASE Runtime(s)
  BY <1>18 DEF Runtime, modem, host
<1>19. CASE Auth(s)
  BY <1>19 DEF Auth, modem, host
<1>20. CASE Connect(s)
  BY <1>20 DEF Connect, modem, host
<1>21. CASE SwitchEnd(s)
  <2>1. \/ vowifi' = "restored" /\ sw'[s].pc = "done"
        \/ vowifi' = vowifi /\ radio' = radio /\ sw'[s].pc = "radio"
    <3>1. CASE vowifi' = "restored" /\ Stopped(s)
      BY <1>0, <3>1, StoppedShape DEF Facts, Leaves, Ends, Moves
    <3>2. CASE sw' = [sw EXCEPT ![s].pc = "radio"] /\ UNCHANGED <<vowifi, radio, current>>
      BY <1>0, <3>2, AdvanceShape DEF Facts, Advances, Moves, Stages
    <3> QED BY <1>21, <3>1, <3>2 DEF SwitchEnd
  <2> QED BY <1>21, <2>1 DEF SwitchEnd
<1>22. CASE RestoreRadio(s)
  BY <1>22 DEF RestoreRadio, modem, host
<1> QED BY <1>1, <1>2, <1>3, <1>4, <1>5, <1>6, <1>7, <1>8, <1>9, <1>10, <1>11, <1>12, <1>13, <1>14, <1>15, <1>16, <1>17, <1>18, <1>19, <1>20, <1>21, <1>22 DEF Step

\* Which way a goroutine goes that is the latest and whose worker is there.
LEMMA StepGoesOn ==
    ASSUME Typed, NEW s \in Switches, Step(s)
    PROVE  /\ Proceeds(s) /\ sw'[s].pc = "done" => sw[s].pc \in {"undoradio", "radio", "ending"}
           /\ sw'[s].pc = "runtime" => Proceeds(s) /\ sw'[s].read = sw[s].read
           /\ sw[s].pc = "runtime" /\ sw'[s].pc = "policy" => sw[s].read # None
           /\ sw'[s].pc = "policy" => sw'[s].then = IF sw[s].pc = "runtime" THEN "auth" ELSE "online"
           /\ sw'[s].pc = "project" => /\ sw'[s].then = sw[s].then
                                       /\ sw'[s].owner = IF OwnerCurrent(s) THEN Captured ELSE None
           /\ sw[s].pc = "project" => sw'[s].pc = sw[s].then
           /\ sw'[s].pc = "connect" => \/ sw[s].pc = "converge" /\ sw'[s].degraded
                                       \/ sw[s].pc \in {"runtime", "auth"}
           /\ sw[s].pc # "converge" /\ sw[s].pc # "begin" => sw'[s].degraded = sw[s].degraded
<1>0. Facts(s)
  BY TypedFacts
<1>1. CASE Begin(s)
  BY <1>0, <1>1, BeginShape DEF Begin, Facts, Proceeds, Advances, Stays, Leaves, Ends, Moves, Keeps, Alike
<1>2. CASE Teardown(s)
  BY <1>0, <1>2, TeardownShape DEF Teardown, Facts, Proceeds, Advances, Stays, Leaves, Ends, Moves, Keeps, Alike
<1>3. CASE Lower(s)
  BY <1>0, <1>3, StageShapes DEF Lower, Facts, Proceeds, Advances, Stays, Leaves, Ends, Moves, Keeps, Alike
<1>4. CASE Barrier(s)
  BY <1>0, <1>4, StageShapes DEF Barrier, Facts, Proceeds, Advances, Stays, Leaves, Ends, Moves, Keeps, Alike
<1>5. CASE Enable(s)
  BY <1>0, <1>5, StageShapes DEF Enable, Facts, Proceeds, Advances, Stays, Leaves, Ends, Moves, Keeps, Alike
<1>6. CASE Abort(s)
  BY <1>0, <1>6, StageShapes DEF Abort, Facts, Proceeds, Advances, Stays, Leaves, Ends, Moves, Keeps, Alike
<1>7. CASE OnFailed(s)
  <2>1. PICK p \in {"undo", "done"} : p = IF Proceeds(s) THEN "undo" ELSE "done"
    OBVIOUS
  <2>2. Advances(s, p) /\ sw[s].pc = "failed"
    BY <1>0, <1>7, <2>1, AdvanceShape DEF OnFailed, Facts, Stages
  <2> QED BY <2>1, <2>2 DEF Advances, Moves
<1>8. CASE UndoIdentity(s)
  BY <1>0, <1>8, StageShapes DEF UndoIdentity, Facts, Proceeds, Advances, Stays, Leaves, Ends, Moves, Keeps, Alike
<1>9. CASE UndoRadio(s)
  BY <1>0, <1>9, StageShapes DEF UndoRadio, Facts, Proceeds, Advances, Stays, Leaves, Ends, Moves, Keeps, Alike
<1>10. CASE After(s)
  BY <1>0, <1>10, AfterShape DEF After, Facts, Proceeds, Advances, Stays, Leaves, Ends, Moves, Keeps, Alike
<1>11. CASE CoreReady(s)
  <2>1. CASE sw' = [sw EXCEPT ![s].pc = "converge"]
    <3>1. Advances(s, "converge")
      BY <1>0, <2>1, AdvanceShape DEF Facts, Stages
    <3>2. "converge" = "runtime" => Proceeds(s)
      BY <1>0, <1>11, <3>1, StoppedShape DEF CoreReady, Facts, Leaves, Ends, Advances, Moves
    <3> QED BY <1>11, <3>1, <3>2 DEF CoreReady, Advances, Moves
  <2>2. CASE ~Proceeds(s) /\ Stopped(s)
    BY <1>0, <1>11, <2>2, StoppedShape DEF CoreReady, Facts, Leaves, Ends, Moves
  <2> QED BY <1>11, <2>1, <2>2 DEF CoreReady, Proceeds
<1>12. CASE Converge(s)
  BY <1>0, <1>12, ConvergeShape DEF Converge, Facts, Proceeds, Advances, Stays, Leaves, Ends, Moves, Keeps, Alike
<1>13. CASE CapturePolicy(s)
  BY <1>0, <1>13, CapturePolicyShape DEF CapturePolicy, Facts, Proceeds, Advances, Stays, Leaves, Ends, Moves, Keeps, Alike
<1>14. CASE Project(s)
  BY <1>0, <1>14, ProjectShape DEF Project, Facts, Proceeds, Advances, Stays, Leaves, Ends, Moves, Keeps, Alike
<1>15. CASE Online(s)
  <2>1. CASE sw' = [sw EXCEPT ![s].pc = "identity"]
    <3>1. Advances(s, "identity")
      BY <1>0, <2>1, AdvanceShape DEF Facts, Stages
    <3>2. "identity" = "runtime" => Proceeds(s)
      BY <1>0, <1>15, <3>1, StoppedShape DEF Online, Facts, Leaves, Ends, Advances, Moves
    <3> QED BY <1>15, <3>1, <3>2 DEF Online, Advances, Moves
  <2>2. CASE ~Proceeds(s) /\ Stopped(s)
    BY <1>0, <1>15, <2>2, StoppedShape DEF Online, Facts, Leaves, Ends, Moves
  <2> QED BY <1>15, <2>1, <2>2 DEF Online, Proceeds
<1>16. CASE ReadIdentity(s)
  BY <1>0, <1>16, ReadIdentityShape DEF ReadIdentity, Facts, Proceeds, Advances, Stays, Leaves, Ends, Moves, Keeps, Alike
<1>17. CASE Publish(s)
  <2>1. CASE sw' = [sw EXCEPT ![s].pc = "runtime"]
    <3>1. Advances(s, "runtime")
      BY <1>0, <2>1, AdvanceShape DEF Facts, Stages
    <3>2. "runtime" = "runtime" => Proceeds(s)
      BY <1>0, <1>17, <3>1, StoppedShape DEF Publish, Facts, Leaves, Ends, Advances, Moves
    <3> QED BY <1>17, <3>1, <3>2 DEF Publish, Advances, Moves
  <2>2. CASE ~Proceeds(s) /\ Stopped(s)
    BY <1>0, <1>17, <2>2, StoppedShape DEF Publish, Facts, Leaves, Ends, Moves
  <2> QED BY <1>17, <2>1, <2>2 DEF Publish, Proceeds
<1>18. CASE Runtime(s)
  BY <1>0, <1>18, RuntimeShape DEF Runtime, Facts, Proceeds, Advances, Stays, Leaves, Ends, Moves, Keeps, Alike
<1>19. CASE Auth(s)
  BY <1>0, <1>19, AuthShape DEF Auth, Facts, Proceeds, Advances, Stays, Leaves, Ends, Moves, Keeps, Alike
<1>20. CASE Connect(s)
  BY <1>0, <1>20, StageShapes DEF Connect, Facts, Proceeds, Advances, Stays, Leaves, Ends, Moves, Keeps, Alike
<1>21. CASE SwitchEnd(s)
  BY <1>0, <1>21, StopShapes DEF SwitchEnd, Facts, Proceeds, Advances, Stays, Leaves, Ends, Moves, Keeps, Alike
<1>22. CASE RestoreRadio(s)
  BY <1>0, <1>22, StopShapes DEF RestoreRadio, Facts, Proceeds, Advances, Stays, Leaves, Ends, Moves, Keeps, Alike
<1> QED BY <1>1, <1>2, <1>3, <1>4, <1>5, <1>6, <1>7, <1>8, <1>9, <1>10, <1>11, <1>12, <1>13, <1>14, <1>15, <1>16, <1>17, <1>18, <1>19, <1>20, <1>21, <1>22 DEF Step

\* A device is tuned when it is online unless WiFi calling has the radio.
Tuned == vowifi = "down" /\ policy \notin config.vowifi => radio = "online"

\* The stages after bringRadioOnlineAfterSwitch.
PastOnline(s) ==
    \/ sw[s].pc \in {"identity", "publish", "runtime", "auth", "connect", "ending", "radio"}
    \/ sw[s].pc \in {"policy", "project"} /\ sw[s].then = "auth"

\* RadioCycle brings the radio back before the identity is read; the others bring
\* it back at the end.
RadioAt(s) ==
    Without({"overlap", "radio", "guard", "replaced"}) /\ sw[s].token = seq /\ sw[s].token # 0 =>
        /\ PastOnline(s) /\ config.cycle /\ ~sw[s].degraded => Tuned
        /\ sw[s].pc = "done" /\ ~sw[s].snap.flight /\ ~(config.cycle /\ sw[s].degraded) => Tuned

RadioOK == \A s \in Switches : RadioAt(s)

\* No call has a radio to bring back at the start.
LEMMA RadioInit == Init => RadioOK
BY DEF Init, RadioOK, RadioAt, Idle

\* A command that does not fail sets the mode, and a projected policy fits the radio.
LEMMA RadioSet ==
    ASSUME "radio" \notin spoiled'
    PROVE  /\ \A mode : SetRadio(mode) => radio' = mode
           /\ \A owner : config' = config /\ Projected(owner) =>
                 Tuned' \/ UNCHANGED <<policy, vowifi, radio>>
           /\ \A owner, marks : config' = config /\ Refused(owner, marks) =>
                 Tuned' \/ UNCHANGED <<policy, vowifi, radio>>
<1>1. \A mode : SetRadio(mode) => radio' = mode
  BY DEF SetRadio, Spoil
<1>2. \A owner, marks : Refused(owner, marks) => Tuned' \/ UNCHANGED <<policy, vowifi, radio>>
  BY DEF Refused, Tuned
<1> QED BY <1>1, <1>2 DEF Projected, Tuned

\* A step of a call keeps the radio where the stage of that call needs it.
LEMMA StepRadio ==
    ASSUME Typed, Booked, MarkOK, RadioOK, NEW s \in Switches, Step(s) PROVE RadioOK'
<1> SUFFICES ASSUME NEW o \in Switches, Without({"overlap", "radio", "guard", "replaced"})',
                    sw'[o].token = seq', sw'[o].token # 0
             PROVE  /\ PastOnline(o)' /\ config'.cycle /\ ~sw'[o].degraded => Tuned'
                    /\ sw'[o].pc = "done" /\ ~sw'[o].snap.flight /\ ~(config'.cycle /\ sw'[o].degraded) => Tuned'
  BY DEF RadioOK, RadioAt
<1>0. /\ Facts(s) /\ TokenAt(s) /\ LoneAt(s) /\ spoiled \subseteq spoiled' /\ config' = config
      /\ "radio" \notin spoiled' /\ "overlap" \notin spoiled
      /\ Without({"overlap", "radio", "guard", "replaced"}) /\ Without({"overlap", "guard", "replaced"})
      /\ "replaced" \notin spoiled
  BY TypedFacts, StepSpoils, StepShared DEF Booked, MarkOK, Without
<1>a. sw[s].pc \in Active
  BY StepFlow DEF Flow, Active, Holding, Later
<1>1. CASE o # s
  <2>1. Alike(o) /\ sw[o].token <= seq /\ sw[o].token \in Nat /\ seq \in Nat
    BY <1>0, <1>1, StepFlow DEF Booked, TokenAt, Facts
  <2>2. sw[s].pc # "begin"
    BY <2>1, StepFlow DEF Alike
  <2>3. sw[s].token = seq /\ seq' = seq
    BY <1>0, <1>a, <2>2, StepFlow DEF LoneAt
  <2> QED BY <1>1, <2>1, <2>3 DEF Alike, Booked, Distinct
<1>2. CASE o = s
  <2>1. CASE sw[s].pc = "begin"
    BY <1>2, <2>1, StepFlow DEF Flow, PastOnline
  <2>2. CASE sw[s].pc # "begin"
    <3>0. sw[s].token = seq /\ sw[s].token # 0 /\ OwnerCurrent(s)
      BY <1>0, <1>2, <1>a, <2>2, StepFlow DEF MarkOK, OwnerAt, OwnerCurrent, Active, Holding, Later, LoneAt
    <3>1. ASSUME PastOnline(s), config.cycle, ~sw[s].degraded PROVE Tuned
      BY <1>0, <3>0, <3>1 DEF RadioOK, RadioAt
    <3>2. ASSUME PastOnline(s)', config.cycle, ~sw'[s].degraded PROVE Tuned'
      <4>1. CASE sw[s].pc = "online"
        <5>1. radio' = "online"
          BY <1>0, <3>0, <3>2, <4>1, StepHost, RadioSet
        <5> QED BY <5>1 DEF Tuned
      <4>2. CASE sw[s].pc # "online"
        <5>1. PastOnline(s) /\ ~sw[s].degraded /\ sw'[s].pc # "done" /\ sw[s].pc \notin {"radio", "undoradio"}
          BY <2>2, <3>2, <4>2, StepFlow, StepGoesOn DEF Flow, PastOnline
        <5>2. Tuned
          BY <3>1, <3>2, <5>1
        <5>3. CASE sw[s].pc = "project"
          BY <1>0, <5>2, <5>3, StepHost, RadioSet DEF Tuned
        <5>4. CASE sw[s].pc # "project"
          <6>1. UNCHANGED <<vowifi, policy, radio>>
            BY <4>2, <5>1, <5>4, StepHost, StepFlow DEF Flow, PastOnline
          <6> QED BY <1>0, <5>2, <6>1 DEF Tuned
        <5> QED BY <5>3, <5>4
      <4> QED BY <4>1, <4>2
    <3>3. ASSUME sw'[s].pc = "done", ~sw'[s].snap.flight, ~(config.cycle /\ sw'[s].degraded) PROVE Tuned'
      <4>1. sw[s].pc \in {"undoradio", "radio", "ending"}
        <5>1. CASE sw[s].pc \in Marked
          <6>1. Proceeds(s)
            BY <1>0, <3>0, <5>1 DEF MarkOK, KeptAt, Proceeds
          <6> QED BY <3>3, <6>1, StepGoesOn
        <5>2. CASE sw[s].pc \notin Marked
          BY <3>3, <5>2, StepFlow DEF Flow, Marked, Later
        <5> QED BY <5>1, <5>2
      <4>2. ~sw[s].snap.flight /\ ~(config.cycle /\ sw[s].degraded)
        BY <2>2, <3>3, <4>1, StepFlow, StepGoesOn
      <4>3. CASE sw[s].pc = "undoradio"
        <5>1. SnapshotRadio(sw[s].snap, FALSE) = "online"
          BY <4>2 DEF SnapshotRadio
        <5>2. radio' = "online"
          BY <1>0, <4>3, <5>1, StepHost, RadioSet
        <5> QED BY <5>2 DEF Tuned
      <4>4. CASE sw[s].pc = "ending"
        BY <3>3, <4>4, StepHost DEF Tuned
      <4>5. CASE sw[s].pc = "radio"
        <5>1. radio' = SnapshotRadio(sw[s].snap, config.cycle)
          BY <1>0, <3>0, <4>5, StepHost, RadioSet
        <5>2. CASE ~config.cycle
          BY <4>2, <5>1, <5>2 DEF SnapshotRadio, Tuned
        <5>3. CASE config.cycle
          <6>1. radio' = radio /\ policy' = policy /\ vowifi' = vowifi
            BY <4>2, <4>5, <5>1, <5>3, StepHost DEF SnapshotRadio
          <6>2. Tuned
            BY <3>1, <4>2, <4>5, <5>3 DEF PastOnline
          <6> QED BY <1>0, <6>1, <6>2 DEF Tuned
        <5> QED BY <5>2, <5>3
      <4> QED BY <4>1, <4>3, <4>4, <4>5
    <3> QED BY <1>0, <1>2, <3>2, <3>3
  <2> QED BY <2>1, <2>2
<1> QED BY <1>1, <1>2

\* A new call of SwitchProfile takes the radio as it finds it.
LEMMA StartRadio ==
    ASSUME Typed, Booked, RadioOK, NEW s \in Switches, NEW target \in Profiles, Start(s, target) PROVE RadioOK'
<1>0. /\ spoiled \subseteq spoiled' /\ UNCHANGED <<config, radio, vowifi, policy, seq>>
      /\ sw'[s].token = 0 /\ \A o \in Switches \ {s} : Alike(o)
  BY StartFlow DEF Started, Moves
<1>1. ASSUME NEW o \in Switches PROVE RadioAt(o)'
  <2>1. CASE o = s
    BY <1>0, <2>1 DEF RadioAt
  <2>2. CASE o # s
    BY <1>0, <2>2 DEF RadioOK, RadioAt, Alike, Without, PastOnline, Tuned
  <2> QED BY <2>1, <2>2
<1> QED BY <1>1 DEF RadioOK

\* Steps outside the calls leave the radio where each call needs it.
LEMMA OutsideRadio ==
    ASSUME Typed, RadioOK, Outside PROVE RadioOK'
<1> SUFFICES ASSUME NEW o \in Switches, Without({"overlap", "radio", "guard", "replaced"})',
                    sw[o].token = seq, sw[o].token # 0
             PROVE  /\ PastOnline(o) /\ config.cycle /\ ~sw[o].degraded => Tuned'
                    /\ sw[o].pc = "done" /\ ~sw[o].snap.flight /\ ~(config.cycle /\ sw[o].degraded) => Tuned'
  BY OutsideFlow DEF RadioOK, RadioAt, PastOnline
<1>0. /\ spoiled \subseteq spoiled' /\ UNCHANGED <<config, sw, seq>>
      /\ Without({"overlap", "radio", "guard", "replaced"}) /\ "radio" \notin spoiled' /\ "replaced" \notin spoiled'
  BY OutsideFlow DEF Without
<1>1. /\ PastOnline(o) /\ config.cycle /\ ~sw[o].degraded => Tuned
      /\ sw[o].pc = "done" /\ ~sw[o].snap.flight /\ ~(config.cycle /\ sw[o].degraded) => Tuned
  BY <1>0 DEF RadioOK, RadioAt
<1>2. Tuned' \/ UNCHANGED <<policy, vowifi, radio>>
  <2>1. CASE TaskProject
    BY <1>0, <2>1, RadioSet DEF TaskProject
  <2>2. CASE Recover
    BY <2>2 DEF Recover, Tuned
  <2>3. CASE Settle \/ LiveRead \/ LiveWrite \/ TaskCapture \/ Guard
    BY <2>3 DEF Settle, LiveRead, LiveWrite, TaskCapture, Guard, modem, host
  <2>4. \A abandon \in BOOLEAN : ~ReplaceWorker(abandon)
    BY <1>0 DEF ReplaceWorker, Spoil
  <2> QED BY <2>1, <2>2, <2>3, <2>4 DEF Outside
<1> QED BY <1>0, <1>1, <1>2 DEF Tuned

\* Every step leaves the radio where each call needs it.
LEMMA RadioNext == Typed /\ Booked /\ MarkOK /\ RadioOK /\ [Next]_vars => RadioOK'
<1>1. ASSUME Typed, RadioOK, UNCHANGED vars \/ \E s \in Switches : Retry(s) PROVE RadioOK'
  <2>1. UNCHANGED <<config, sw, seq, spoiled, policy, vowifi, radio>>
    BY <1>1, RetryFlow DEF vars, modem, host, pool
  <2> QED BY <1>1, <2>1 DEF RadioOK, RadioAt, Without, PastOnline, Tuned
<1> QED BY <1>1, NextCases, StepRadio, StartRadio, OutsideRadio

\* Once everything is quiet a device that was online before its last switch is
\* online, failures and degraded switches included, unless WiFi calling has the
\* radio or the SIM did not converge under RadioCycle.
THEOREM EsimRadioRestored == Spec => []RadioRestored
<1>1. ASSUME Typed, Booked, RadioOK PROVE RadioRestored
  <2> SUFFICES ASSUME NEW s \in Switches, Quiet, Without({"overlap", "radio", "guard", "replaced"}),
                      vowifi = "down", policy \notin config.vowifi,
                      sw[s].token = seq, seq > 0, ~sw[s].snap.flight,
                      ~(config.cycle /\ sw[s].degraded)
               PROVE  radio = "online"
    BY DEF RadioRestored
  <2>1. sw[s].token # 0 /\ TokenAt(s)
    BY <1>1 DEF Booked, Typed, TypeOK
  <2>2. sw[s].pc = "done"
    BY <2>1 DEF Quiet, Over, TokenAt
  <2> QED BY <1>1, <2>1, <2>2 DEF RadioOK, RadioAt, Tuned
<1> QED BY <1>1, TypedInit, BookedInit, MarkInit, RadioInit, TypedNext, BookedNext, MarkNext, RadioNext, PTL DEF Spec

\* Until its restoration nothing of a switch is retried.
Early == {"after", "core", "converge", "policy", "project", "online", "identity", "publish", "runtime", "auth"}
FirstTry == \A s \in Switches : sw[s].pc \in Early => retry[s].pc = "none"

\* Nothing is retried at the start.
LEMMA FirstTryInit == Init => FirstTry
BY DEF Init, FirstTry, Idle, Early

\* Every step keeps a switch without retries until its restoration.
LEMMA FirstTryNext == Typed /\ Booked /\ FirstTry /\ [Next]_vars => FirstTry'
<1> SUFFICES ASSUME Typed, Booked, FirstTry, [Next]_vars PROVE FirstTry'
  OBVIOUS
<1>1. ASSUME NEW s \in Switches, Step(s) PROVE FirstTry'
  <2> SUFFICES ASSUME NEW o \in Switches, sw'[o].pc \in Early PROVE retry'[o].pc = "none"
    BY DEF FirstTry
  <2>1. CASE o = s
    <3>1. retry'[s] = retry[s] /\ (sw[s].pc \in Early \/ sw[s].pc = "enable")
      BY <1>1, <2>1, StepFlow, StepShared DEF Flow, Early
    <3> QED BY <2>1, <3>1 DEF FirstTry, Booked, TokenAt, Later
  <2>2. CASE o # s
    BY <1>1, <2>2, StepFlow, StepShared DEF Alike, FirstTry
  <2> QED BY <2>1, <2>2
<1>2. ASSUME NEW s \in Switches, NEW target \in Profiles, Start(s, target) PROVE FirstTry'
  BY <1>2, StartFlow DEF Started, Moves, Alike, FirstTry, Early
<1>3. ASSUME NEW s \in Switches, Retry(s) PROVE FirstTry'
  BY <1>3, RetryFlow DEF FirstTry
<1>4. ASSUME Outside \/ UNCHANGED vars PROVE FirstTry'
  BY <1>4, OutsideFlow DEF FirstTry, vars
<1> QED BY <1>1, <1>2, <1>3, <1>4, NextCases

\* The switch has published its target and goes for the policy.
OnTarget(s) ==
    \/ sw[s].pc = "runtime" /\ sw[s].read # None
    \/ sw[s].pc \in {"policy", "project"} /\ sw[s].then = "auth"
    \/ sw[s].pc = "auth"

\* The hook has run, and the target is not published yet.
Waiting(s) ==
    \/ sw[s].pc \in {"core", "converge", "online", "identity", "publish"}
    \/ sw[s].pc \in {"policy", "project"} /\ sw[s].then = "online"

Steady == Without({"overlap", "live", "refused", "replaced"}) /\ ~({"torn", "guard"} \subseteq spoiled)

\* Under the mark the identity waits for the target in the generation of the mark;
\* then it is the target, whoever reads it again, and the owner that is captured
\* stays valid until its policy is projected.
PolicyAt(s) ==
    Steady =>
        /\ Waiting(s) /\ Latest(s) =>
              id.phase # "ready" /\ id.target = sw[s].snap.target /\ id.gen = current.gen
        /\ OnTarget(s) => /\ id.phase = "ready" /\ id.iccid = sw[s].snap.target /\ shown = card
                          /\ Latest(s) => id.gen = current.gen
        /\ OnTarget(s) /\ sw[s].pc = "project" => sw[s].owner = Owner
        /\ sw[s].pc = "auth" => policy = sw[s].snap.target

PolicyOK == \A s \in Switches : PolicyAt(s)

\* Alone, a switch under way has the only mark there can be.
LEMMA LoneMark ==
    ASSUME Typed, MarkOK, Without({"overlap", "live", "replaced"}), NEW s \in Switches, sw[s].pc \in Active
    PROVE  current # None => Latest(s)
<1>1. "overlap" \notin spoiled /\ "replaced" \notin spoiled
  BY DEF Without
<1>2. ASSUME current # None PROVE Latest(s)
  <2>1. PICK u \in Switches : sw[u].pc \in Marked /\ sw[u].token = current.token
    BY <1>1, <1>2 DEF MarkOK, MarkOwned
  <2>2. u = s
    BY <1>1, <2>1 DEF MarkOK, LoneAt, Marked, Later
  <2> QED BY <1>2, <2>1, <2>2 DEF Latest
<1> QED BY <1>2

\* On target, the policy is captured and passes the check.
LEMMA OnTargetOwner ==
    ASSUME Typed, MarkOK, PolicyOK, Steady, NEW s \in Switches, OnTarget(s)
    PROVE  Captured = Owner /\ ValidOwner(Owner) /\ Owner # None /\ OwnerCurrent(s)
<1>1. sw[s].pc \in Active /\ sw[s].pc # "idle"
  BY DEF OnTarget, Active, Later
<1>2. current # None => Latest(s)
  BY <1>1, LoneMark DEF Steady, Without
<1>3. /\ id.phase = "ready" /\ id.iccid = sw[s].snap.target
      /\ Latest(s) => id.gen = current.gen /\ current.target = sw[s].snap.target
  BY DEF PolicyOK, PolicyAt, MarkOK, AimAt
<1>4. sw[s].snap.target \in Profiles
  BY <1>1 DEF Typed, CallOK, Contexts
<1>5. Owner \in Owners /\ Owner.iccid = id.iccid
  BY <1>3, <1>4 DEF Owner, Owners, Typed, TypeOK, Identities
<1>6. ValidOwner(Owner)
  BY <1>2, <1>3, <1>5 DEF ValidOwner
<1>7. id.iccid # None
  BY <1>3, <1>4, SwitchAssumption
<1>8. OwnerCurrent(s)
  BY <1>1 DEF Steady, Without, MarkOK, OwnerAt, OwnerCurrent
<1> QED BY <1>5, <1>6, <1>7, <1>8, NoneAssumption DEF Captured

\* No call has projected a policy at the start.
LEMMA PolicyInit == Init => PolicyOK
BY DEF Init, PolicyOK, PolicyAt, Idle, OnTarget, Waiting

\* A step of a call keeps the projected policy the target's.
LEMMA StepPolicy ==
    ASSUME Typed, Booked, MarkOK, Aimed, FirstTry, PolicyOK, NEW s \in Switches, Step(s) PROVE PolicyOK'
<1> SUFFICES ASSUME NEW o \in Switches, Steady'
             PROVE  /\ Waiting(o)' /\ Latest(o)' =>
                          id'.phase # "ready" /\ id'.target = sw'[o].snap.target /\ id'.gen = current'.gen
                    /\ OnTarget(o)' => /\ id'.phase = "ready" /\ id'.iccid = sw'[o].snap.target /\ shown' = card'
                                       /\ Latest(o)' => id'.gen = current'.gen
                    /\ OnTarget(o)' /\ sw'[o].pc = "project" => sw'[o].owner = Owner'
                    /\ sw'[o].pc = "auth" => policy' = sw'[o].snap.target
  BY DEF PolicyOK, PolicyAt
<1>0. /\ Facts(s) /\ LoneAt(s) /\ TargetAt(s) /\ PolicyAt(s) /\ Steady /\ "overlap" \notin spoiled
      /\ shown' = shown /\ epoch' = epoch /\ worker' = worker
      /\ sw'[s].snap.target = sw[s].snap.target
  BY TypedFacts, StepSpoils, StepShared, StepFlow DEF MarkOK, Aimed, PolicyOK, Steady, Without
<1>a. sw[s].pc \in Active
  BY StepFlow DEF Flow, Active, Holding, Later
<1>b. sw[s].snap.target \in Profiles /\ sw[s].read \in Profiles \cup {None} /\ id \in Identities
      /\ (sw[s].pc \in {"policy", "project"} => sw[s].then \in {"online", "auth"})
  BY <1>0, <1>a DEF Facts, Contexts, Active, Holding, Later, Calls
<1>1. CASE o # s
  <2>1. Alike(o) /\ sw[o].pc \in {"idle", "done"}
    BY <1>0, <1>1, <1>a, StepFlow DEF LoneAt
  <2> QED BY <2>1 DEF Alike, Waiting, OnTarget
<1>2. CASE o = s
  <2>1. ASSUME Waiting(s)', Latest(s)'
        PROVE  id'.phase # "ready" /\ id'.target = sw[s].snap.target /\ id'.gen = current'.gen
    <3>1. CASE sw'[s].pc = "core"
      <4>1. sw[s].pc = "after"
        BY <3>1, StepFlow DEF Flow
      <4>2. Proceeds(s)
        <5>1. After(s)
          BY <4>1 DEF Step, Begin, Teardown, Lower, Barrier, Enable, Abort, OnFailed, UndoIdentity, UndoRadio, CoreReady,
             Converge, CapturePolicy, Project, Online, ReadIdentity, Publish, Runtime, Auth, Connect, SwitchEnd, RestoreRadio
        <5> QED BY <1>0, <3>1, <4>1, <5>1, AfterShape DEF Facts, Stays, Advances, Moves
      <4>3. current'.gen = id'.gen
        <5>1. After(s)
          BY <4>1 DEF Step, Begin, Teardown, Lower, Barrier, Enable, Abort, OnFailed, UndoIdentity, UndoRadio, CoreReady,
             Converge, CapturePolicy, Project, Online, ReadIdentity, Publish, Runtime, Auth, Connect, SwitchEnd, RestoreRadio
        <5>2. current \in Contexts /\ current' = [current EXCEPT !.gen = id'.gen]
          BY <4>2, <5>1 DEF After, WithGeneration, Proceeds, Latest, Typed, TypeOK
        <5> QED BY <5>2 DEF Contexts
      <4>4. id' = Ensured(sw[s].snap.target)
        BY <4>1, <4>2, StepIdentity
      <4> QED BY <1>b, <4>3, <4>4, IdentityFields
    <3>2. CASE sw'[s].pc # "core"
      <4>1. Waiting(s)
        BY <1>b, <2>1, <3>2, StepFlow, StepGoesOn DEF Flow, Waiting
      <4>2. current' = current /\ sw'[s].token = sw[s].token
        BY <2>1, <3>2, <4>1, StepMark, StepFlow DEF Waiting, Latest
      <4>3. id.phase # "ready" /\ id.target = sw[s].snap.target /\ id.gen = current.gen
        BY <1>0, <2>1, <4>1, <4>2 DEF PolicyAt, Latest
      <4>4. sw[s].pc # "publish"
        BY <2>1, StepFlow DEF Flow, Waiting
      <4>5. id' = id
        BY <1>b, <4>1, <4>3, <4>4, StepIdentity, IdentityFields DEF Waiting
      <4> QED BY <4>2, <4>3, <4>5
    <3> QED BY <3>1, <3>2
  <2>2. ASSUME OnTarget(s)'
        PROVE  /\ id'.phase = "ready" /\ id'.iccid = sw[s].snap.target /\ shown' = card'
               /\ Latest(s)' => id'.gen = current'.gen
    <3>1. CASE sw'[s].pc = "runtime"
      <4>1. sw[s].pc = "publish"
        BY <3>1, StepFlow DEF Flow
      <4>2. Proceeds(s) /\ sw[s].read # None
        BY <2>2, <3>1, StepGoesOn DEF OnTarget
      <4>3. sw[s].read = card /\ shown = card /\ sw[s].snap.target = card /\ card' = card
        BY <1>0, <4>1, <4>2, StepIdentity DEF TargetAt, Later
      <4>4. id' = Published(sw[s].read)
        BY <4>1, <4>2, StepIdentity DEF Proceeds
      <4>5. id.gen = current.gen
        BY <1>0, <4>1, <4>2 DEF PolicyAt, Waiting, Proceeds
      <4>6. Latest(s)' => current' = current
        BY <4>1, <3>1, StepMark DEF Latest
      <4> QED BY <1>0, <1>b, <4>2, <4>3, <4>4, <4>5, <4>6, IdentityFields
    <3>2. CASE sw'[s].pc # "runtime"
      <4>1. OnTarget(s) /\ sw[s].pc # "auth" /\ sw[s].pc \in {"runtime", "policy", "project"}
        BY <1>b, <2>2, <3>2, StepFlow, StepGoesOn DEF Flow, OnTarget
      <4>2. id' = id /\ card' = card
        BY <4>1, StepIdentity
      <4>3. Latest(s)' => current' = current /\ Latest(s)
        BY <2>2, <4>1, StepMark, StepFlow DEF Latest, OnTarget
      <4> QED BY <1>0, <4>1, <4>2, <4>3 DEF PolicyAt
    <3> QED BY <3>1, <3>2
  <2>3. ASSUME OnTarget(s)', sw'[s].pc = "project" PROVE sw'[s].owner = Owner'
    <3>1. sw[s].pc = "policy" /\ OnTarget(s)
      BY <2>3, StepFlow, StepGoesOn DEF Flow, OnTarget
    <3>2. sw'[s].owner = Owner
      BY <1>0, <2>3, <3>1, StepGoesOn, OnTargetOwner
    <3>3. id' = id
      BY <3>1, StepIdentity
    <3> QED BY <1>0, <3>2, <3>3 DEF Owner
  <2>4. ASSUME sw'[s].pc = "auth" PROVE policy' = sw[s].snap.target
    <3>1. sw[s].pc = "project" /\ OnTarget(s)
      BY <2>4, StepFlow, StepGoesOn DEF Flow, OnTarget
    <3>2. sw[s].owner = Owner /\ id.iccid = sw[s].snap.target
      BY <1>0, <3>1 DEF PolicyAt
    <3>3. Projected(Owner)
      <4>1. Projected(Owner) \/ Refused(Owner, Marks(s))
        BY <3>1, <3>2, StepHost
      <4>2. Marks(s) = {"refused"} /\ "refused" \notin spoiled'
        BY <3>1 DEF Marks, OnTarget, Steady, Without
      <4> QED BY <4>1, <4>2 DEF Refused
    <3>4. policy' = Owner.iccid
      BY <1>0, <3>1, <3>3, OnTargetOwner DEF Projected
    <3> QED BY <3>2, <3>4 DEF Owner
  <2> QED BY <1>0, <1>2, <2>1, <2>2, <2>3, <2>4
<1> QED BY <1>1, <1>2

\* The others leave a switch that is waiting or on target alone.
LEMMA OthersPolicy ==
    ASSUME Typed, Booked, MarkOK, Aimed, FirstTry, PolicyOK,
           NEW s \in Switches, Retry(s) \/ \E target \in Profiles : Start(s, target)
    PROVE  PolicyOK'
<1> SUFFICES ASSUME NEW o \in Switches, Steady', sw'[o].pc \in Early PROVE PolicyAt(o)'
  BY DEF PolicyOK, PolicyAt, Waiting, OnTarget, Early
<1>1. CASE Retry(s)
  <2>0. /\ UNCHANGED <<card, shown, policy, current, epoch, worker, sw, spoiled>> /\ retry[s].pc # "none" /\ Steady
        /\ "overlap" \notin spoiled /\ Without({"overlap", "replaced"})
    BY <1>1, RetryFlow DEF Steady, Without
  <2>1. o # s /\ sw[o].token = seq /\ sw[o].token # 0
    <3>1. sw[o].pc \in Active /\ sw[o].pc # "begin" /\ sw[o].pc \notin {"idle", "begin"}
      BY <2>0 DEF Early, Active, Later
    <3> QED BY <2>0, <3>1 DEF FirstTry, MarkOK, LoneAt, Booked, TokenAt
  <2>2. retry[s].pc \notin {"checked", "read"}
    BY <2>0, <2>1 DEF Aimed, GenAt, Booked, Distinct
  <2>3. id' = id
    BY <1>1, <2>2, RetryIdentity
  <2> QED BY <2>0, <2>3 DEF PolicyOK, PolicyAt, Waiting, OnTarget, Latest, Owner, Steady, Without
<1>2. ASSUME NEW target \in Profiles, Start(s, target) PROVE PolicyAt(o)'
  <2>1. o # s /\ sw[o].pc \in Early
    BY <1>2, StartFlow DEF Started, Moves, Alike, Early
  <2>2. sw[o].pc \in {"idle", "done"}
    BY <1>2, <2>1, StartFlow, NoOverlap DEF Steady, Without
  <2> QED BY <2>1, <2>2 DEF Early
<1> QED BY <1>1, <1>2

\* Steps outside the calls keep the projected policy the target's.
LEMMA OutsidePolicy ==
    ASSUME Typed, Booked, MarkOK, Aimed, Known, PolicyOK, Outside PROVE PolicyOK'
<1> SUFFICES ASSUME NEW o \in Switches, Steady', sw'[o].pc \in Early PROVE PolicyAt(o)'
  BY DEF PolicyOK, PolicyAt, Waiting, OnTarget, Early
<1>0. /\ UNCHANGED <<card, sw>> /\ spoiled \subseteq spoiled' /\ Steady /\ "replaced" \notin spoiled'
      /\ "overlap" \notin spoiled /\ PolicyAt(o) /\ TargetAt(o)
      /\ current' = current \/ current' = None
  BY OutsideFlow DEF Steady, Without, PolicyOK, Aimed
<1>1. worker' = worker /\ \A abandon \in BOOLEAN : ~ReplaceWorker(abandon)
  BY <1>0, OutsideFlow DEF ReplaceWorker, Spoil
<1>2. Latest(o)' => Latest(o) /\ current' = current
  BY <1>0 DEF Latest
<1>3. epoch' = epoch
  BY <1>1 DEF Outside, Settle, LiveRead, LiveWrite, TaskCapture, TaskProject, Recover, Guard, pool
<1>4. sw[o].snap.target = card /\ sw[o].pc \in Active /\ sw[o].pc \in Marked
  BY <1>0 DEF TargetAt, Early, Later, Active, Marked
<1>5. CASE LiveWrite
  <2>0. shown' = shown /\ policy' = policy /\ current' = current
    BY <1>5 DEF LiveWrite, modem, host, pool
  <2>1. CASE id' = id
    BY <1>0, <1>1, <1>2, <1>3, <2>0, <2>1 DEF PolicyAt, Waiting, OnTarget, Owner, Steady
  <2>2. CASE id' # id
    <3>1. current = None
      BY <1>0, <1>5, <2>2 DEF LiveWrite, Steady, Without
    <3>2. "guard" \in spoiled /\ "torn" \notin spoiled
      <4>1. ~Latest(o)
        BY <3>1 DEF Latest
      <4> QED BY <1>0, <1>4, <4>1 DEF MarkOK, KeptAt, Steady, Without
    <3>3. live = shown /\ live # None
      BY <1>5, <3>2 DEF LiveWrite, Known, LiveFresh
    <3>4. ~Latest(o)'
      BY <2>0, <3>1 DEF Latest
    <3>5. ASSUME OnTarget(o) PROVE id'.phase = "ready" /\ id'.iccid = card /\ shown = card /\ Owner' = Owner
      <4>1. id.iccid = card /\ shown = card
        BY <1>0, <1>4, <3>5 DEF PolicyAt
      <4>2. id' = [iccid |-> live, phase |-> "ready", target |-> None,
                   gen |-> IF id.iccid \notin {None, live} THEN id.gen + 1 ELSE id.gen]
        BY <1>5, <2>2 DEF LiveWrite
      <4>3. id'.iccid = card /\ id'.phase = "ready" /\ id'.gen = id.gen
        BY <3>3, <4>1, <4>2
      <4> QED BY <1>1, <1>3, <4>1, <4>3 DEF Owner
    <3> QED BY <1>0, <1>4, <2>0, <3>4, <3>5 DEF PolicyAt, Waiting, OnTarget
  <2> QED BY <2>1, <2>2
<1>6. CASE TaskProject
  <2>0. UNCHANGED <<shown, id>>
    BY <1>6 DEF TaskProject
  <2>1. policy' = policy \/ policy' = id.iccid
    BY <1>6 DEF TaskProject, Projected, Refused, ValidOwner, Owner
  <2> QED BY <1>0, <1>1, <1>2, <1>3, <2>0, <2>1 DEF PolicyAt, Waiting, OnTarget, Owner, Steady
<1>7. CASE Settle \/ LiveRead \/ TaskCapture \/ Recover \/ Guard
  <2>0. id' = id /\ policy' = policy /\ (shown' = shown \/ shown' = card)
    BY <1>7 DEF Settle, LiveRead, TaskCapture, Recover, Guard, modem, host
  <2> QED BY <1>0, <1>1, <1>2, <1>3, <2>0 DEF PolicyAt, Waiting, OnTarget, Owner, Steady
<1> QED BY <1>1, <1>5, <1>6, <1>7 DEF Outside

\* Every step keeps the projected policy the target's.
LEMMA PolicyNext ==
    Typed /\ Booked /\ MarkOK /\ Aimed /\ Known /\ FirstTry /\ PolicyOK /\ [Next]_vars => PolicyOK'
<1>1. ASSUME PolicyOK, UNCHANGED vars PROVE PolicyOK'
  BY <1>1 DEF vars, modem, pool, host, PolicyOK, PolicyAt, Waiting, OnTarget, Owner, Steady, Without, Latest
<1> QED BY <1>1, NextCases, StepPolicy, OthersPolicy, OutsidePolicy

\* A switch that confirmed its target has projected the target's policy before it
\* decides on VoWiFi, unless resolveAndApplyPolicy itself gave up: no task, guard or
\* recovery beside it takes the owner's validity away.
THEOREM EsimPolicyProjected == Spec => []PolicyProjected
<1>1. PolicyOK => PolicyProjected
  BY DEF PolicyOK, PolicyAt, Steady, PolicyProjected
<1> QED BY <1>1, TypedInit, BookedInit, MarkInit, AimedInit, KnownInit, FirstTryInit, PolicyInit,
           TypedNext, BookedNext, MarkNext, AimedNext, KnownNext, FirstTryNext, PolicyNext, PTL DEF Spec

=============================================================================
