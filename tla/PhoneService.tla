---------------------------- MODULE PhoneService ----------------------------
(***************************************************************************)
(* The phone service: calls of one device, the browser sessions that carry   *)
(* their audio, and the call history.  Events and incoming calls reach it on *)
(* two goroutines of their own; HTTP requests, the auto answer and the timers *)
(* run beside them.  mu is held for one step at a time and never across a     *)
(* call of the voice gateway, so every step here is one locked section, or    *)
(* one gateway call, of one goroutine.                                       *)
(*                                                                         *)
(* A session's lease is its ID: both are drawn together and never reused.     *)
(* The session that the auto answer makes for a call goes by the call's ID.   *)
(* All browsers belong to one owner.  A call that is over has one status,     *)
(* "over": which of the terminal ones it is changes nothing here.            *)
(***************************************************************************)
EXTENDS Integers, Sequences, FiniteSets, Functions

CONSTANTS
    Calls,      \* call IDs
    Media,      \* sessions of browsers
    Clients,    \* goroutines that serve HTTP requests
    None,
    Scenes      \* what there is and may happen, see SceneType

\* Bounds: how many calls and sessions there are, whether one of them is in use already,
\* whether the device answers by itself, how many HTTP requests come and how many things
\* go wrong.
SceneType == [calls : 0 .. Cardinality(Calls), media : 0 .. Cardinality(Media),
              talking : BOOLEAN, auto : BOOLEAN, ops : Nat, faults : Nat]

Active == {"calling", "ringing", "waiting", "connected"}   \* activeCallStatus
Alive == {"offered", "dialing", "alerting", "up"}

ASSUME PhoneAssumption ==
    /\ Calls \cap Media = {} /\ Calls \cap Clients = {}
    /\ None \notin Calls \cup Media \cup Clients \cup Active \cup {"", "in", "out"}
    /\ {"", "ev", "in"} \cap (Calls \cup Clients) = {}
    /\ Scenes \subseteq SceneType

VARIABLES
    net,      \* what the gateway knows of each call
    queue,    \* call events on their way to the event goroutine
    rings,    \* incoming calls on their way to theirs
    unheard,  \* calls of whose end the service is not told, or not before they are finalized
    call,     \* every activeCall; reg says whether Service.calls holds it
    device,   \* Service.deviceCalls of the device: None, "" or a call
    waiting,  \* Service.deviceWaiting
    med,      \* sessions with mediaCalls, mediaReservations, pendingMediaDrops
    early,    \* Service.pendingEvents
    seen,     \* Service.terminalSeen
    auto,     \* whether Service.autoAnswer enables the device
    fired,    \* timers that have fired and whose callback has not run
    rows,     \* status of each call in the history, or None
    deleted,  \* Service.deletedRecords
    pc,       \* what each goroutine has still to do
    ops, faults   \* requests and failures that may still come

gateway == <<net, queue, rings, unheard>>
slots == <<device, waiting>>
inbox == <<early, seen>>
timers == <<auto, fired>>
history == <<rows, deleted>>
bounds == <<ops, faults>>
vars == <<gateway, call, slots, med, inbox, timers, history, pc, bounds>>

Sessions == Media \cup Calls
Threads == Clients \cup {"ev", "in"} \cup Calls   \* a call stands for its auto answer

Steps == {"resume", "refuse", "busy", "bridge", "drop", "close", "final", "record", "snap", "write",
          "auto", "leave", "device", "dial", "dialed", "undo", "attach", "answer", "adopt", "assign",
          "usurp", "hangup", "report", "reach", "swap", "unlink"}

\* go is the steps a goroutine has still to take; before it leaves, or ends, it
\* dispatches the events of todo.
Idle == [go |-> <<>>, c |-> None, m |-> None, again |-> FALSE,
         claim |-> FALSE, lease |-> None, row |-> None, todo |-> <<>>]

\* dtimer is the session whose loss disconnectTimer stands for; again tells the
\* second activeCall of a call from the first.
NoCall == [reg |-> FALSE, dir |-> None, status |-> None, media |-> None, lease |-> None,
           pending |-> FALSE, dtimer |-> None, armed |-> FALSE, atimer |-> FALSE,
           rec |-> "none", done |-> FALSE, again |-> FALSE]

Closed == [sess |-> "gone", bound |-> None, held |-> None, drop |-> "none"]

\* newOutboundCall, newIncomingCall
NewCall(c, dir, status) ==
    [NoCall EXCEPT !.reg = TRUE, !.dir = dir, !.status = status, !.again = call[c] # NoCall]

Live(c) == call[c].reg /\ call[c].status \in Active

\* Goroutine t has the object that there is of its call, in Service.calls or not.
Current(t) == call[pc[t].c].again = pc[t].again
Same(t) == call[pc[t].c].reg /\ Current(t)

At(t, step) == pc[t].go # <<>> /\ Head(pc[t].go) = step
Becomes(t, p) ==
    pc' = [pc EXCEPT ![t] = IF p.go = <<>> /\ p.todo = <<>> THEN Idle ELSE p]
Goto(t, go) == Becomes(t, [pc[t] EXCEPT !.go = go])
Then(t) == Goto(t, Tail(pc[t].go))
Return(t) == Goto(t, <<"leave">>)

Fault == faults > 0 /\ faults' = faults - 1
Op == ops > 0 /\ ops' = ops - 1

(* ---------------------------------------------------------------------- *)
(* The voice gateway                                                       *)
(* ---------------------------------------------------------------------- *)

Event(k, c) == [kind |-> k, call |-> c]

\* enqueue: a channel that is full loses what comes, here what is in lost.
Sent(k, c, lost) == IF k \in lost THEN <<>> ELSE <<Event(k, c)>>
Loses(lost) == IF lost = {} THEN UNCHANGED faults ELSE Fault
Says(k, c) == \E lost \in SUBSET {k} : queue' = queue \o Sent(k, c, lost) /\ Loses(lost)

\* A call ends: one terminal event, then CallFinalized, which native VoLTE sends only
\* after a call that was connected.  Either may get lost on its way.  Nor is there a
\* terminal event of a call that is not the active one when the IMS agent stops, or any
\* event when native VoLTE has lost its voice session.  An agent that stops while somebody
\* else ends the call finalizes it first.
Ended(c) ==
    /\ net' = [net EXCEPT ![c] = "gone"]
    /\ \/ \E lost \in SUBSET {"Ended", "Finalized"} :
            /\ queue' = queue \o Sent("Ended", c, lost) \o Sent("Finalized", c, lost)
            /\ unheard' = IF "Ended" \in lost THEN unheard \cup {c} ELSE unheard
            /\ Loses(IF net[c] = "up" THEN lost ELSE lost \ {"Finalized"})
       \/ /\ queue' = queue \o <<Event("Finalized", c), Event("Ended", c)>>
          /\ unheard' = unheard \cup {c} /\ Fault

\* HangupCall and RejectIncomingCall end a call, succeed for one that the gateway no
\* longer has, or fail.
EndsCall(c) == \/ net[c] \in Alive /\ Ended(c)
               \/ net[c] = "gone" /\ UNCHANGED <<net, queue, unheard, faults>>
EndFails(c, ends) == /\ IF net[c] \in ends THEN Fault ELSE UNCHANGED faults
                     /\ UNCHANGED <<net, queue, unheard>>
HangupFails(c) == EndFails(c, Alive)

\* The IMS agent rejects only what has not been answered.
RejectFails(c) == EndFails(c, {"offered"})

\* An incoming call: a second one is announced as an event too.
NetOffer(c) ==
    /\ net[c] = "none" /\ net' = [net EXCEPT ![c] = "offered"]
    /\ \E lost \in SUBSET {"Incoming", "Waiting", "Ringing"} :
         /\ rings' = IF "Incoming" \in lost THEN rings ELSE Append(rings, c)
         /\ queue' = queue \o (IF \E d \in Calls : net[d] = "up" THEN Sent("Waiting", c, lost) ELSE <<>>)
                           \o Sent("Ringing", c, lost)
         /\ Loses(lost)
    /\ UNCHANGED <<unheard, call, slots, med, inbox, timers, history, pc, ops>>

\* The gateway refuses a call by itself.
NetBusy(c) ==
    /\ net[c] = "none" /\ \E d \in Calls : net[d] \in Alive
    /\ net' = [net EXCEPT ![c] = "gone"]
    /\ Says("Busy", c)
    /\ UNCHANGED <<rings, unheard, call, slots, med, inbox, timers, history, pc, ops>>

\* The callee's phone rings; the callee answers.
NetProgress(c) ==
    /\ \/ net[c] = "dialing" /\ net' = [net EXCEPT ![c] = "alerting"] /\ Says("Ringing", c)
       \/ net[c] \in {"dialing", "alerting"} /\ net' = [net EXCEPT ![c] = "up"] /\ Says("Answered", c)
    /\ UNCHANGED <<rings, unheard, call, slots, med, inbox, timers, history, pc, ops>>

NetEnd(c) ==
    /\ net[c] \in Alive /\ Ended(c)
    /\ UNCHANGED <<rings, call, slots, med, inbox, timers, history, pc, ops>>

(* ---------------------------------------------------------------------- *)
(* Browser sessions                                                        *)
(* ---------------------------------------------------------------------- *)

Present(m) == med[m].sess \in {"up", "down"}

\* reserveMedia; the timer of a session that lost its connection is paused.
Reservable(m) == Present(m) /\ med[m].bound = None /\ med[m].held = None
Reserve(m, t) ==
    [med EXCEPT ![m].held = t, ![m].drop = IF @ = "armed" THEN "paused" ELSE @]

\* releaseMediaReservation, resumeUnboundMediaDropLocked
Released(m, t) ==
    IF m = None \/ med[m].held # t THEN med
    ELSE [med EXCEPT ![m].held = None,
                     ![m].drop = IF @ = "paused" /\ Present(m) THEN "armed" ELSE @]

\* bindMediaLocked
Bindable(m, t) == med[m].held = t /\ Present(m)
Unheld(m, t) == IF med[m].held = t THEN [med EXCEPT ![m].held = None] ELSE med
Bound(m, c) == [med EXCEPT ![m].held = None, ![m].bound = c, ![m].drop = "none"]

\* mutant: what happened to the session before it was bound is forgotten.
ResumeNever(m) == <<>>

\* A connection lost before the session was bound is taken up again afterwards.
Resume(m) == IF med[m].drop # "none" THEN <<"resume">> ELSE <<>>

Callback(do, c, m) == [do |-> do, c |-> c, m |-> m]

\* scheduleDisconnectHangup of a session that a call has
Disconnected(m) ==
    LET c == IF m = None THEN None ELSE med[m].bound
    IN  IF c # None /\ Live(c) /\ call[c].media = m /\ call[c].dtimer = None
        THEN [call EXCEPT ![c].dtimer = m, ![c].armed = TRUE] ELSE call

\* ... and of one that no call has; its connection is now in state sess.
ScheduleDrop(m, sess) ==
    /\ call' = Disconnected(m)
    /\ med' = [med EXCEPT ![m].sess = sess,
                          ![m].drop = IF med[m].bound # None \/ ~Present(m) \/ @ # "none" THEN @
                                      ELSE IF med[m].held = None THEN "armed" ELSE "paused"]

\* media.Remove; the connection that is closed reports its state as well, which is of
\* interest when a call has taken the session meanwhile.
Removed(m) == IF m = None THEN med ELSE [med EXCEPT ![m].sess = "gone"]

\* resumePendingMediaDrop
ResumeDrop(t) ==
    /\ At(t, "resume") /\ ScheduleDrop(pc[t].m, med[pc[t].m].sess) /\ Then(t)
    /\ UNCHANGED <<gateway, slots, inbox, timers, history, bounds>>

CancelMedia(m) ==
    /\ Reservable(m)
    /\ med' = [med EXCEPT ![m] = Closed]
    /\ UNCHANGED <<gateway, call, slots, inbox, timers, history, pc, bounds>>

\* handleMediaState: the browser's connection breaks ...
MediaDown(m) ==
    /\ med[m].sess = "up" /\ Fault /\ ScheduleDrop(m, "down")
    /\ UNCHANGED <<gateway, slots, inbox, timers, history, pc, ops>>

\* ... and comes back: cancelDisconnectTimer.
MediaUp(m) ==
    /\ med[m].sess = "down"
    /\ med' = [med EXCEPT ![m].sess = "up", ![m].drop = "none"]
    /\ LET c == med[m].bound
       IN  call' = IF c # None /\ call[c].reg
                   THEN [call EXCEPT ![c].dtimer = None, ![c].armed = FALSE] ELSE call
    /\ UNCHANGED <<gateway, slots, inbox, timers, history, pc, bounds>>

\* expireUnboundMedia
ExpireUnbound(m) ==
    /\ med[m].drop = "armed" /\ med[m].bound = None /\ med[m].held = None
    /\ med' = [med EXCEPT ![m] = Closed]
    /\ UNCHANGED <<gateway, call, slots, inbox, timers, history, pc, bounds>>

\* The recovery grace of a bound session is over: the callback starts ...
DisconnectFires(c) ==
    /\ call[c].armed
    /\ call' = [call EXCEPT ![c].armed = FALSE]
    /\ fired' = fired \cup {Callback("expire", c, call[c].dtimer)}
    /\ UNCHANGED <<gateway, slots, med, inbox, auto, history, pc, bounds>>

\* ... finds out whether the call has moved to another session ...
\* expireDisconnectedMedia
ExpireDisconnected(f) ==
    /\ f.do = "expire"
    /\ fired' = (fired \ {f}) \cup
                  (IF Live(f.c) /\ call[f.c].media = f.m THEN {Callback("hangup", f.c, None)} ELSE {})
    /\ UNCHANGED <<gateway, call, slots, med, inbox, auto, history, pc, bounds>>

\* ... and hangs up.
HangupExpired(f) ==
    /\ f.do = "hangup" /\ fired' = fired \ {f}
    /\ EndsCall(f.c) \/ HangupFails(f.c)
    /\ UNCHANGED <<rings, call, slots, med, inbox, auto, history, pc, ops>>

(* ---------------------------------------------------------------------- *)
(* Events and incoming calls                                               *)
(* ---------------------------------------------------------------------- *)

\* earlyCallEvent
EarlyKinds == {"Ended", "Ringing", "Answered", "Finalized"}

\* handleCallEvent: an event of a call that is not known yet may be put aside.
\* bufferPendingCallEvent
Receive ==
    /\ pc["ev"] = Idle /\ queue # <<>> /\ queue' = Tail(queue)
    /\ LET k == Head(queue).kind
           c == Head(queue).call
       IN  IF k # "Busy" /\ ~call[c].reg /\ (device = "" \/ k \in EarlyKinds)
           THEN early' = [early EXCEPT ![c] = Append(@, k)] /\ UNCHANGED pc
           ELSE Becomes("ev", [Idle EXCEPT !.c = c, !.todo = <<k>>]) /\ UNCHANGED early
    /\ UNCHANGED <<net, rings, unheard, call, slots, med, seen, timers, history, bounds>>

\* The subscription of incoming calls.
Ring ==
    /\ pc["in"] = Idle /\ rings # <<>> /\ rings' = Tail(rings)
    /\ Becomes("in", [Idle EXCEPT !.c = Head(rings), !.todo = <<"Incoming">>])
    /\ UNCHANGED <<net, queue, unheard, call, slots, med, inbox, timers, history, bounds>>

\* dispatchCallEvent takes the next event of goroutine t ...
Dispatches(t, kinds) ==
    /\ pc[t].go \in {<<>>, <<"leave">>}
    /\ pc[t].todo # <<>> /\ Head(pc[t].todo) \in kinds

\* ... which the steps, with a record to save and a session, then deal with.
Handled(t, steps, row, media) ==
    Becomes(t, [pc[t] EXCEPT !.todo = Tail(@), !.go = steps \o @, !.row = row, !.m = media])
Ignored(t) == Handled(t, <<>>, None, pc[t].m)

\* takePendingLocked: whether the call is over already
AlreadyEnded(c) == c \in seen \/ "Ended" \in Range(early[c])

\* mutant: the events put aside are taken and not replayed.
RegistersSilent(t, c, status, steps) ==
    /\ call' = [call EXCEPT ![c] = NewCall(c, "in", status)]
    /\ early' = [early EXCEPT ![c] = <<>>]
    /\ Becomes(t, [pc[t] EXCEPT !.todo = Tail(@),
                                !.go = (IF AlreadyEnded(c) THEN <<>> ELSE steps) \o @])

\* A new call enters Service.calls; its early events are replayed by the same
\* goroutine once the call has been saved and announced.
Registers(t, c, status, steps) ==
    /\ call' = [call EXCEPT ![c] = NewCall(c, "in", status)]
    /\ early' = [early EXCEPT ![c] = <<>>]
    /\ Becomes(t, [pc[t] EXCEPT !.todo = early[c] \o Tail(@),
                                !.go = (IF AlreadyEnded(c) THEN <<>> ELSE steps) \o @])

MayWait == device \in Calls /\ call[device].status = "connected" /\ waiting = None

\* handleIncoming, also by way of handleCallWaiting
HandleIncoming(t) ==
    LET c == pc[t].c
    IN  /\ Dispatches(t, {"Incoming", "Waiting"})
        /\ \/ /\ call[c].reg
              /\ Ignored(t) /\ UNCHANGED <<call, slots, early>>
           \/ /\ ~call[c].reg /\ device = None
              /\ Registers(t, c, "ringing", <<"snap", "write", "auto">>)
              /\ device' = c /\ UNCHANGED waiting
           \/ /\ ~call[c].reg /\ MayWait
              /\ Registers(t, c, "waiting", <<"snap", "write">>)
              /\ waiting' = c /\ UNCHANGED device
           \/ /\ ~call[c].reg /\ device # None /\ ~MayWait
              /\ Handled(t, <<"refuse", "busy">>, None, None) /\ UNCHANGED <<call, slots, early>>
        /\ UNCHANGED <<gateway, med, seen, timers, history, bounds>>

\* recordBusyResult, of a call refused here or by the gateway
RecordBusy(t) ==
    LET c == pc[t].c
        save == IF c \in seen THEN <<>> ELSE <<"write">>
    IN  /\ \/ /\ At(t, "busy")
              /\ Becomes(t, [pc[t] EXCEPT !.go = save \o Tail(@), !.row = "over"])
           \/ /\ Dispatches(t, {"Busy"})
              /\ Handled(t, save, "over", None)
        /\ seen' = seen \cup {c}
        /\ UNCHANGED <<gateway, call, slots, med, early, timers, history, bounds>>

\* updateRinging
UpdateRinging(t) ==
    LET c == pc[t].c
    IN  /\ Dispatches(t, {"Ringing"})
        /\ IF Live(c) /\ call[c].status \notin {"connected", "waiting"}
           THEN /\ call' = [call EXCEPT ![c].status = "ringing"]
                /\ Handled(t, <<"write">>, "ringing", pc[t].m)
           ELSE Ignored(t) /\ UNCHANGED call
        /\ UNCHANGED <<gateway, slots, med, inbox, timers, history, bounds>>

\* updateAnswered
UpdateAnswered(t) ==
    LET c == pc[t].c
    IN  /\ Dispatches(t, {"Answered"})
        /\ IF Live(c) /\ call[c].status # "connected"
           THEN /\ call' = [call EXCEPT ![c].status = "connected"]
                /\ Handled(t, (IF call[c].dir = "out" THEN <<"bridge">> ELSE <<>>)
                                \o <<"snap", "write">>, None, call[c].media)
           ELSE Ignored(t) /\ UNCHANGED call
        /\ UNCHANGED <<gateway, slots, med, inbox, timers, history, bounds>>

\* attachOutboundMedia; a call without a usable session is hung up by
\* failMediaAttachment.
Bridge(t) ==
    LET p == pc[t]
        usable == Present(p.m) /\ net[p.c] # "gone"
    IN  /\ At(t, "bridge")
        /\ \/ /\ usable /\ UNCHANGED faults
              /\ Goto(t, <<"record">> \o Tail(p.go))
           \/ /\ IF usable THEN Fault ELSE UNCHANGED faults
              /\ Goto(t, (IF Live(p.c) THEN <<"drop">> ELSE <<>>) \o Tail(p.go))
        /\ UNCHANGED <<gateway, call, slots, med, inbox, timers, history, ops>>

\* HangupCall where its outcome is only logged
Drop(t) ==
    /\ At(t, "drop") /\ Then(t)
    /\ EndsCall(pc[t].c) \/ HangupFails(pc[t].c)
    /\ UNCHANGED <<rings, call, slots, med, inbox, timers, history, ops>>

\* mutant: the place of the waiting call is forgotten.
LeavesDeviceOnly(c) == device' = (IF device = c THEN None ELSE device) /\ UNCHANGED waiting

LeavesDevice(c) ==
    /\ device' = IF device = c THEN None ELSE device
    /\ waiting' = IF waiting = c THEN None ELSE waiting

\* finishCall under mu: the call leaves its device and its session.
FinishCall(t) ==
    LET c == pc[t].c
    IN  /\ Dispatches(t, {"Ended"})
        /\ \/ /\ ~call[c].reg
              /\ early' = [early EXCEPT ![c] = Append(@, "Ended")]
              /\ seen' = seen \cup {c}
              /\ Ignored(t) /\ UNCHANGED <<call, slots, med>>
           \/ /\ call[c].reg /\ ~Live(c)
              /\ Ignored(t) /\ UNCHANGED <<call, slots, med, inbox>>
           \/ /\ Live(c)
              /\ call' = [call EXCEPT ![c].status = "over", ![c].armed = FALSE, ![c].atimer = FALSE]
              /\ LeavesDevice(c)
              /\ med' = IF call[c].media = None THEN med
                        ELSE [med EXCEPT ![call[c].media].bound = None,
                                         ![call[c].media].drop = "none"]
              /\ seen' = seen \cup {c}
              /\ Handled(t, <<"close", "final">>, None, call[c].media)
              /\ UNCHANGED early
        /\ UNCHANGED <<gateway, timers, history, bounds>>

\* mutant: a call without a session has nothing to wait for.
CloseCallEarly(t) ==
    LET p == pc[t]
    IN  /\ At(t, "close")
        /\ call' = [Disconnected(p.m) EXCEPT ![p.c].rec = IF @ = "open" THEN "closed" ELSE @]
        /\ med' = Removed(p.m)
        /\ Becomes(t, [p EXCEPT !.go = IF p.m = None THEN Tail(Tail(@)) ELSE Tail(@),
                                !.row = "over", !.m = None])
        /\ UNCHANGED <<gateway, slots, inbox, timers, history, bounds>>

\* The rest of finishCall: the recording is closed, the session removed, the
\* record saved, and finalizeRecording let go.
CloseCall(t) ==
    LET p == pc[t]
    IN  /\ At(t, "close")
        /\ call' = [Disconnected(p.m) EXCEPT ![p.c].rec = IF @ = "open" THEN "closed" ELSE @]
        /\ med' = Removed(p.m)
        /\ Becomes(t, [p EXCEPT !.go = Tail(@), !.row = "over", !.m = None])
        /\ UNCHANGED <<gateway, slots, inbox, timers, history, bounds>>

\* mutant: nobody looks whether the call has ended before the recording is opened.
StartRecordingLate(t) ==
    LET c == pc[t].c
    IN  /\ At(t, "record") /\ Then(t)
        /\ call' = IF call[c].rec = "none" /\ Current(t)
                   THEN [call EXCEPT ![c].rec = "open"] ELSE call
        /\ UNCHANGED <<gateway, slots, med, inbox, timers, history, bounds>>

\* startMixedRecording: the first session of a call opens the recording, which is
\* closed at once when the call has ended meanwhile.
StartRecording(t) ==
    LET c == pc[t].c
        over == call[c].status \notin Active
    IN  /\ At(t, "record")
        /\ \/ /\ call[c].rec # "none" \/ ~Current(t)
              /\ Then(t) /\ UNCHANGED <<call, faults>>
           \/ /\ call[c].rec = "none" /\ Current(t) /\ ~over
              /\ call' = [call EXCEPT ![c].rec = "open"]
              /\ Then(t) /\ UNCHANGED faults
           \/ /\ call[c].rec = "none" /\ Current(t)
              /\ IF over THEN UNCHANGED faults ELSE Fault
              /\ call' = [call EXCEPT ![c].rec = "closed"]
              /\ Becomes(t, [pc[t] EXCEPT !.go = <<"write">> \o Tail(@), !.row = call[c].status])
        /\ UNCHANGED <<gateway, slots, med, inbox, timers, history, ops>>

\* A copy of the call's record is taken under mu ...
Snapshot(t) ==
    /\ At(t, "snap")
    /\ Becomes(t, [pc[t] EXCEPT !.go = Tail(@), !.row = call[pc[t].c].status])
    /\ UNCHANGED <<gateway, call, slots, med, inbox, timers, history, bounds>>

\* ... and saved without it, whatever has happened to the call meanwhile.
\* persist
Persist(t) ==
    LET p == pc[t]
    IN  /\ At(t, "write") \/ At(t, "final")
        /\ rows' = IF p.c \in deleted THEN rows ELSE [rows EXCEPT ![p.c] = p.row]
        /\ call' = IF At(t, "final") THEN [call EXCEPT ![p.c].done = TRUE] ELSE call
        /\ Becomes(t, [p EXCEPT !.go = Tail(@), !.row = None])
        /\ UNCHANGED <<gateway, slots, med, inbox, timers, deleted, bounds>>

\* finalizeRecording waits for finishCall, converts the recording and forgets the
\* call; nobody can see its lease, its timer or a claim on it any more.
FinalizeRecording(t) ==
    LET c == pc[t].c
    IN  /\ Dispatches(t, {"Finalized"})
        /\ IF ~call[c].reg
           THEN Ignored(t) /\ UNCHANGED call
           ELSE /\ call[c].done
                /\ call' = [call EXCEPT ![c].reg = FALSE, ![c].lease = None, ![c].dtimer = None,
                                        ![c].pending = FALSE]
                /\ Handled(t, <<"write">>, "over", None)
        /\ UNCHANGED <<gateway, slots, med, inbox, timers, history, bounds>>

(* ---------------------------------------------------------------------- *)
(* The auto answer                                                         *)
(* ---------------------------------------------------------------------- *)

\* scheduleAutoAnswer
ScheduleAutoAnswer(t) ==
    LET c == pc[t].c
    IN  /\ At(t, "auto") /\ Then(t)
        /\ call' = [call EXCEPT ![c].atimer = @ \/ (auto /\ call[c].status = "ringing")]
        /\ UNCHANGED <<gateway, slots, med, inbox, timers, history, bounds>>

\* ConfigureAutoAnswerDevice, rescheduleAutoAnswerDeviceLocked and
\* RemoveAutoAnswerDevice: the timers of ringing calls are set or stopped.
ConfigureAutoAnswer(on) ==
    /\ Op /\ auto' = on
    /\ call' = [c \in Calls |->
                  IF call[c].reg
                  THEN [call[c] EXCEPT !.atimer = on /\ call[c].dir = "in" /\ call[c].status = "ringing"]
                  ELSE call[c]]
    /\ UNCHANGED <<gateway, slots, med, inbox, fired, history, pc, faults>>

AutoAnswerFires(c) ==
    /\ call[c].atimer
    /\ call' = [call EXCEPT ![c].atimer = FALSE]
    /\ fired' = fired \cup {Callback("answer", c, None)}
    /\ UNCHANGED <<gateway, slots, med, inbox, auto, history, pc, bounds>>

\* claimAutoAnswer, in a goroutine of its own.  A call may be claimed again before its
\* Answered event arrives: that session is of no use, as the gateway does not answer twice.
ClaimAutoAnswer(c) ==
    /\ Callback("answer", c, None) \in fired /\ pc[c] = Idle
    /\ fired' = fired \ {Callback("answer", c, None)}
    /\ IF call[c].reg /\ call[c].status = "ringing" /\ ~call[c].pending /\ auto
       THEN /\ call' = [call EXCEPT ![c].pending = TRUE, ![c].atimer = FALSE]
            /\ med' = [med EXCEPT ![c].sess = "up"]
            /\ Becomes(c, [Idle EXCEPT !.go = <<"answer", "adopt", "record", "leave">>,
                             !.c = c, !.m = IF Present(c) THEN None ELSE c, !.again = call[c].again, !.claim = TRUE])
       ELSE UNCHANGED <<call, med, pc>>
    /\ UNCHANGED <<gateway, slots, inbox, auto, history, bounds>>

\* answerWithHeadlessMedia once the gateway has answered: a call that ended
\* meanwhile is hung up.
Adopt(c) ==
    /\ At(c, "adopt")
    /\ \/ /\ Same(c) /\ Live(c)
          /\ call' = [call EXCEPT ![c].pending = FALSE, ![c].media = c]
          /\ med' = [med EXCEPT ![c].bound = c]
          /\ Becomes(c, [pc[c] EXCEPT !.go = Tail(@), !.claim = FALSE])
       \/ /\ ~(Same(c) /\ Live(c))
          /\ med' = Removed(c)
          /\ Goto(c, <<"drop", "leave">>) /\ UNCHANGED call
    /\ UNCHANGED <<gateway, slots, inbox, timers, history, bounds>>

\* The prompt cannot be played: failMediaAttachment.
PromptFails(c) ==
    /\ pc[c] = Idle /\ med[c].sess = "up" /\ Live(c) /\ Fault
    /\ fired' = fired \cup {Callback("hangup", c, None)}
    /\ UNCHANGED <<gateway, call, slots, med, inbox, auto, history, pc, ops>>

(* ---------------------------------------------------------------------- *)
(* Requests of browsers                                                    *)
(* ---------------------------------------------------------------------- *)

Begins(t, go, c, m, claim, lease) ==
    /\ pc[t] = Idle /\ Op
    /\ Becomes(t, [Idle EXCEPT !.go = go, !.c = c, !.m = m, !.claim = claim, !.lease = lease,
                               !.again = claim /\ call[c].again])

\* The deferred releaseMediaReservation and releaseIncomingClaim;
\* releaseAutoAnswerClaim
Leave(t) ==
    LET p == pc[t]
    IN  /\ p.go = <<"leave">> /\ p.todo = <<>>
        /\ pc' = [pc EXCEPT ![t] = Idle]
        /\ med' = Released(p.m, t)
        /\ call' = IF p.claim /\ Same(t) THEN [call EXCEPT ![p.c].pending = FALSE] ELSE call
        /\ UNCHANGED <<gateway, slots, inbox, timers, history, bounds>>

\* StartCall reserves a session, then the device, then dials.
StartCall(t, m) ==
    /\ Reservable(m) /\ med' = Reserve(m, t)
    /\ Begins(t, <<"device", "dial", "dialed", "leave">>, None, m, FALSE, None)
    /\ UNCHANGED <<gateway, call, slots, inbox, timers, history, faults>>

\* reserveDevice
ReserveDevice(t) ==
    /\ At(t, "device")
    /\ IF device = None THEN device' = "" /\ Then(t) ELSE Return(t) /\ UNCHANGED device
    /\ UNCHANGED <<gateway, call, waiting, med, inbox, timers, history, bounds>>

\* releaseDeviceReservation
FreeDevice == device' = IF device = "" THEN None ELSE device

\* BeginCall: events of the call may arrive before it returns.
Dial(t) ==
    /\ At(t, "dial")
    /\ \/ \E c \in Calls :
            /\ net[c] = "none" /\ net' = [net EXCEPT ![c] = "dialing"]
            /\ Becomes(t, [pc[t] EXCEPT !.go = Tail(@), !.c = c])
            /\ UNCHANGED faults
       \/ /\ IF \E c \in Calls : net[c] = "none" THEN Fault ELSE UNCHANGED faults
          /\ Goto(t, <<"undo", "leave">>) /\ UNCHANGED net
    /\ UNCHANGED <<queue, rings, unheard, call, slots, med, inbox, timers, history, ops>>

\* BeginCall has returned: the call is entered, or hung up for want of a session.
Dialed(t) ==
    LET p == pc[t]
    IN  /\ At(t, "dialed")
        /\ early' = [early EXCEPT ![p.c] = <<>>]
        /\ \/ /\ Bindable(p.m, t)
              /\ med' = Bound(p.m, p.c)
              /\ call' = [call EXCEPT ![p.c] = [NewCall(p.c, "out", "calling") EXCEPT
                                                  !.media = p.m, !.lease = p.m]]
              /\ device' = p.c
              /\ Becomes(t, [p EXCEPT !.go = Resume(p.m) \o <<"snap", "write">> \o Tail(@),
                                      !.todo = early[p.c]])
           \/ /\ ~Bindable(p.m, t)
              /\ med' = Unheld(p.m, t) /\ Goto(t, <<"undo", "drop", "leave">>)
              /\ UNCHANGED <<call, device>>
        /\ UNCHANGED <<gateway, waiting, seen, timers, history, bounds>>

\* No call came of it: the device is freed.
Undo(t) ==
    /\ At(t, "undo") /\ FreeDevice /\ Then(t)
    /\ UNCHANGED <<gateway, call, waiting, med, inbox, timers, history, bounds>>

\* claimIncoming: the session is reserved and the call claimed.
ClaimIncoming(t, m, c, go) ==
    /\ Reservable(m) /\ Live(c) /\ call[c].dir = "in" /\ ~call[c].pending
    /\ call[c].lease \in {None, m}
    /\ Begins(t, go, c, m, TRUE, None)
    /\ med' = Reserve(m, t)
    /\ call' = [call EXCEPT ![c].pending = TRUE, ![c].atimer = FALSE]
    /\ UNCHANGED <<gateway, slots, inbox, timers, history, faults>>

Answer(t, m, c) == ClaimIncoming(t, m, c, <<"attach", "answer", "assign", "record", "leave">>)
Reject(t, m, c) == ClaimIncoming(t, m, c, <<"usurp", "refuse", "report", "leave">>)

\* Answer: a caller whose codec the session cannot take is turned away.
Attach(t) ==
    /\ At(t, "attach")
    /\ \/ Then(t) /\ UNCHANGED <<net, queue, unheard, faults>>
       \/ Return(t) /\ (EndsCall(pc[t].c) \/ RejectFails(pc[t].c))
    /\ UNCHANGED <<rings, call, slots, med, inbox, timers, history, ops>>

\* AnswerIncomingCall, for Answer and for the auto answer.  It answers a call that
\* still rings.  The auto answer removes its session when that fails, and hangs up
\* when the endpoint of the answered call is unusable; Answer just returns.
AnswerCall(t) ==
    LET p == pc[t]
        discard == med' = IF t \in Calls THEN Removed(p.m) ELSE med
    IN  /\ At(t, "answer")
        /\ \/ /\ net[p.c] = "offered"
              /\ net' = [net EXCEPT ![p.c] = "up"]
              /\ \/ Then(t) /\ UNCHANGED med /\ Says("Answered", p.c)
                 \/ /\ Goto(t, IF t \in Calls THEN <<"drop", "leave">> ELSE <<"leave">>)
                    /\ discard /\ Fault /\ queue' = Append(queue, Event("Answered", p.c))
           \/ /\ IF net[p.c] = "offered" THEN Fault ELSE UNCHANGED faults
              /\ discard /\ Return(t) /\ UNCHANGED <<net, queue>>
        /\ UNCHANGED <<rings, unheard, call, slots, inbox, timers, history, ops>>

\* The session takes the call: assignControl, and Reject before it asks the gateway.
Takes(t, may, otherwise) ==
    LET p == pc[t]
    IN  /\ \/ /\ may /\ Bindable(p.m, t)
              /\ med' = Bound(p.m, p.c)
              /\ call' = [call EXCEPT ![p.c].media = p.m, ![p.c].lease = p.m]
              /\ Goto(t, Resume(p.m) \o Tail(p.go))
           \/ /\ ~(may /\ Bindable(p.m, t))
              /\ med' = IF may THEN Unheld(p.m, t) ELSE med
              /\ Goto(t, otherwise) /\ UNCHANGED call
        /\ UNCHANGED <<gateway, slots, inbox, timers, history, bounds>>

Assign(t) == At(t, "assign") /\ Takes(t, Live(pc[t].c), <<"drop", "leave">>)
Usurp(t) == At(t, "usurp") /\ Takes(t, Same(t) /\ Live(pc[t].c), <<"leave">>)

\* RejectIncomingCall, for Reject and for an incoming call of a busy device
Refuse(t) ==
    /\ At(t, "refuse")
    /\ \/ EndsCall(pc[t].c) /\ Then(t)
       \/ RejectFails(pc[t].c) /\ IF pc[t].claim THEN Return(t) ELSE Then(t)
    /\ UNCHANGED <<rings, call, slots, med, inbox, timers, history, ops>>

\* Hangup by the browser whose lease the call has
Hangup(t, c) ==
    /\ Live(c) /\ call[c].lease # None
    /\ Begins(t, <<"hangup", "report", "leave">>, c, None, FALSE, None)
    /\ UNCHANGED <<gateway, call, slots, med, inbox, timers, history, faults>>

HangupCall(t) ==
    /\ At(t, "hangup")
    /\ \/ EndsCall(pc[t].c) /\ Then(t)
       \/ HangupFails(pc[t].c) /\ Return(t)
    /\ UNCHANGED <<rings, call, slots, med, inbox, timers, history, ops>>

\* Reject and Hangup finish the call themselves: the gateway may have succeeded without
\* a word of it.
Report(t) ==
    /\ At(t, "report")
    /\ Becomes(t, [pc[t] EXCEPT !.go = Tail(@), !.todo = <<"Ended">>])
    /\ UNCHANGED <<gateway, call, slots, med, inbox, timers, history, bounds>>

\* RefreshMedia: another session takes the call over, with the lease of the call
\* or, None standing for Takeover, without.
RefreshMedia(t, m, c) ==
    /\ Reservable(m) /\ Live(c) /\ med' = Reserve(m, t)
    /\ \E lease \in {None, call[c].lease} :
           Begins(t, <<"reach", "swap", "leave">>, c, m, FALSE, lease)
    /\ UNCHANGED <<gateway, call, slots, inbox, timers, history, faults>>

\* attachCurrentMedia: the far end of a call that was dialled is known once it rings.
Reach(t) ==
    LET c == pc[t].c
        known == call[c].reg /\ (call[c].dir = "in" \/ net[c] \in {"alerting", "up"})
    IN  /\ At(t, "reach")
        /\ \/ known /\ Then(t) /\ UNCHANGED faults
           \/ Return(t) /\ IF known THEN Fault ELSE UNCHANGED faults
        /\ UNCHANGED <<gateway, call, slots, med, inbox, timers, history, ops>>

\* The call may have ended or moved while the session was attached.
Swap(t) ==
    LET p == pc[t]
        old == call[p.c].media
        granted == Live(p.c) /\ p.lease \in {None, call[p.c].lease}
    IN  /\ At(t, "swap")
        /\ \/ /\ granted /\ Bindable(p.m, t)
              /\ med' = IF old = None THEN Bound(p.m, p.c)
                        ELSE [Bound(p.m, p.c) EXCEPT ![old].bound = None, ![old].drop = "none"]
              /\ call' = [call EXCEPT ![p.c].media = p.m, ![p.c].lease = p.m,
                                      ![p.c].dtimer = None, ![p.c].armed = FALSE]
              /\ Becomes(t, [p EXCEPT !.lease = old, !.again = call[p.c].again, !.go =
                               (IF call[p.c].status = "connected" THEN <<"record">> ELSE <<>>)
                                 \o Resume(p.m) \o <<"unlink">> \o Tail(@)])
           \/ /\ ~(granted /\ Bindable(p.m, t))
              /\ med' = IF granted THEN Unheld(p.m, t) ELSE med
              /\ Return(t) /\ UNCHANGED call
        /\ UNCHANGED <<gateway, slots, inbox, timers, history, bounds>>

\* The session the call had before is removed.
Unlink(t) ==
    /\ At(t, "unlink") /\ Then(t)
    /\ call' = Disconnected(pc[t].lease) /\ med' = Removed(pc[t].lease)
    /\ UNCHANGED <<gateway, slots, inbox, timers, history, bounds>>

\* DeleteHistory refuses calls in progress.
DeleteHistory(c) ==
    /\ rows[c] = "over" /\ Op
    /\ rows' = [rows EXCEPT ![c] = None]
    /\ deleted' = deleted \cup {c}
    /\ UNCHANGED <<gateway, call, slots, med, inbox, timers, pc, faults>>

(* ---------------------------------------------------------------------- *)
(* Restart                                                                 *)
(* ---------------------------------------------------------------------- *)

\* AbandonIncomplete
Abandoned(status) == IF status \in Active \ {"waiting"} THEN "over" ELSE status

\* The process dies and starts again: the calls and sessions of the old one are
\* gone, NewService closes the history of calls it left open.
Restart ==
    /\ Fault
    /\ net' = [c \in Calls |-> IF net[c] = "none" THEN "none" ELSE "gone"]
    /\ queue' = <<>> /\ rings' = <<>> /\ unheard' = {}
    /\ call' = [c \in Calls |-> NoCall]
    /\ device' = None /\ waiting' = None
    /\ med' = [m \in Sessions |-> Closed]
    /\ early' = [c \in Calls |-> <<>>] /\ seen' = {} /\ fired' = {}
    /\ rows' = [c \in Calls |-> Abandoned(rows[c])]
    /\ deleted' = {}
    /\ pc' = [t \in Threads |-> Idle]
    /\ UNCHANGED <<auto, ops>>

\* The calls of earlier are gone and the sessions have been made by CreateMedia; there may
\* be a call c that a browser has dialled and whose callee has answered.
Init ==
    /\ \E s \in Scenes : \E cs \in SUBSET Calls, ms \in SUBSET Media :
         /\ Cardinality(cs) = s.calls /\ Cardinality(ms) = s.media
         /\ \E c \in IF s.talking THEN cs ELSE {None}, m \in IF s.talking THEN ms ELSE {None} :
              /\ net = [d \in Calls |-> IF d \notin cs THEN "gone" ELSE IF d = c THEN "up" ELSE "none"]
              /\ call = [d \in Calls |->
                           IF d # c THEN NoCall
                           ELSE [NoCall EXCEPT !.reg = TRUE, !.dir = "out", !.status = "connected",
                                               !.media = m, !.lease = m, !.rec = "open"]]
              /\ med = [n \in Sessions |->
                          [Closed EXCEPT !.sess = IF n \in ms THEN "up" ELSE "gone",
                                         !.bound = IF n = m THEN c ELSE None]]
              /\ device = c
              /\ rows = [d \in Calls |-> IF d = c THEN "connected" ELSE None]
         /\ auto = s.auto /\ ops = s.ops /\ faults = s.faults
    /\ queue = <<>> /\ rings = <<>> /\ unheard = {} /\ waiting = None
    /\ early = [c \in Calls |-> <<>>] /\ seen = {} /\ fired = {} /\ deleted = {}
    /\ pc = [t \in Threads |-> Idle]

Step(t) ==
    \/ ResumeDrop(t) \/ HandleIncoming(t) \/ RecordBusy(t) \/ UpdateRinging(t)
    \/ UpdateAnswered(t) \/ Bridge(t) \/ Drop(t) \/ FinishCall(t) \/ CloseCall(t)
    \/ StartRecording(t) \/ Snapshot(t) \/ Persist(t) \/ FinalizeRecording(t)
    \/ ScheduleAutoAnswer(t) \/ Leave(t) \/ ReserveDevice(t) \/ Dial(t) \/ Dialed(t) \/ Undo(t)
    \/ Attach(t) \/ AnswerCall(t) \/ Assign(t) \/ Usurp(t) \/ Refuse(t)
    \/ HangupCall(t) \/ Report(t) \/ Reach(t) \/ Swap(t) \/ Unlink(t)

Timers ==
    \/ \E m \in Media : ExpireUnbound(m)
    \/ \E c \in Calls : DisconnectFires(c) \/ AutoAnswerFires(c) \/ ClaimAutoAnswer(c) \/ Adopt(c)
    \/ \E f \in fired : ExpireDisconnected(f) \/ HangupExpired(f)

Requests ==
    \/ \E m \in Media : CancelMedia(m)
    \/ \E t \in Clients, m \in Media : StartCall(t, m)
    \/ \E t \in Clients, m \in Media, c \in Calls :
           Answer(t, m, c) \/ Reject(t, m, c) \/ RefreshMedia(t, m, c)
    \/ \E t \in Clients, c \in Calls : Hangup(t, c)
    \/ \E c \in Calls : DeleteHistory(c)
    \/ \E on \in BOOLEAN : ConfigureAutoAnswer(on)

Environment ==
    \/ \E c \in Calls : NetOffer(c) \/ NetBusy(c) \/ NetProgress(c) \/ NetEnd(c) \/ PromptFails(c)
    \/ \E m \in Media : MediaDown(m) \/ MediaUp(m)
    \/ Restart

Next == Receive \/ Ring \/ (\E t \in Threads : Step(t)) \/ Timers \/ Requests \/ Environment

Spec == Init /\ [][Next]_vars

(* ---------------------------------------------------------------------- *)
(* Properties                                                              *)
(* ---------------------------------------------------------------------- *)

\* The type of every variable.
TypeOK ==
    LET orNone(S) == S \cup {None}
        kinds == {"Waiting", "Ringing", "Busy", "Answered", "Ended", "Finalized"}
    IN  /\ net \in [Calls -> Alive \cup {"none", "gone"}]
        /\ queue \in Seq([kind : kinds, call : Calls]) /\ rings \in Seq(Calls) /\ unheard \subseteq Calls
        /\ call \in [Calls -> [reg : BOOLEAN, dir : orNone({"in", "out"}), status : orNone(Active \cup {"over"}),
                               media : orNone(Sessions), lease : orNone(Media), pending : BOOLEAN,
                               dtimer : orNone(Sessions), armed : BOOLEAN, atimer : BOOLEAN,
                               rec : {"none", "open", "closed"}, done : BOOLEAN, again : BOOLEAN]]
        /\ device \in orNone(Calls \cup {""}) /\ waiting \in orNone(Calls)
        /\ med \in [Sessions -> [sess : {"up", "down", "gone"}, bound : orNone(Calls),
                                 held : orNone(Threads), drop : {"none", "armed", "paused"}]]
        /\ early \in [Calls -> Seq(kinds)] /\ seen \subseteq Calls /\ auto \in BOOLEAN
        /\ fired \subseteq [do : {"expire", "hangup", "answer"}, c : Calls, m : orNone(Sessions)]
        /\ rows \in [Calls -> orNone(Active \cup {"over"})] /\ deleted \subseteq Calls
        /\ pc \in [Threads -> [go : Seq(Steps), c : orNone(Calls), m : orNone(Sessions), again : BOOLEAN,
                               claim : BOOLEAN, lease : orNone(Sessions), row : orNone(Active \cup {"over"}),
                               todo : Seq(kinds \cup {"Incoming"})]]
        /\ ops \in Nat /\ faults \in Nat

\* The end of call c is still on its way to the service.
EndPending(c) ==
    \/ \E i \in DOMAIN queue : queue[i] = Event("Ended", c)
    \/ "Ended" \in Range(early[c])
    \/ \E t \in Threads : pc[t].c = c /\ "Ended" \in Range(pc[t].todo)

\* A call in progress is one that the gateway has, or whose end is on its way to the
\* service: in whatever order, and however late, incoming calls and events come, and
\* whichever of the others get lost, handleIncoming, bufferPendingCallEvent and StartCall
\* leave no call that nothing will end.  Two exceptions are what the code does.  A call of
\* whose end the service is not told (in time) stays until a browser hangs it up.  And a call
\* announced twice may be announced the second time when it has been finalized:
\* handleIncoming enters it again and, since terminalSeen has it, waits for nothing.
NoGhost ==
    \A c \in Calls : Live(c) /\ net[c] = "gone" => EndPending(c) \/ call[c].again \/ c \in unheard

\* The device is taken by a call in progress or by a request that is dialling, its
\* waiting place by a call in progress, and every call in progress has one of the
\* two: no way out of StartCall, handleIncoming or finishCall leaves the device
\* engaged, or lets a third call in.
SlotsHonest ==
    /\ device \in Calls => Live(device)
    /\ device = "" => \E t \in Clients : At(t, "dial") \/ At(t, "dialed") \/ At(t, "undo")
    /\ waiting \in Calls => Live(waiting)
    /\ \A c \in Calls : Live(c) => c \in {device, waiting}

\* The call of session m has got another session without m being let go: Answer, Reject
\* and the auto answer do not look whether RefreshMedia was there before them.
Displaced(m) == m # None /\ med[m].bound # None /\ call[med[m].bound].media # m

\* No session is left that neither a call, nor a browser, nor a timer has.
NoStray ==
    \A m \in Sessions : Present(m) /\ (\A t \in Threads : pc[t] = Idle) =>
        \/ med[m].bound # None /\ (Live(med[m].bound) \/ Displaced(m))
        \/ m \in Media /\ med[m].bound = None /\ (med[m].sess = "up" \/ med[m].drop = "armed")

\* A goroutine will see to it that the loss of session m is noticed.
Attended(m) ==
    \E t \in Threads : \/ pc[t].m = m /\ Range(pc[t].go) \cap {"resume", "close"} # {}
                       \/ pc[t].lease = m /\ "unlink" \in Range(pc[t].go)

\* Call c still has a session that was displaced.
Unsettled(c) == \E m \in Sessions : med[m].bound = c /\ Displaced(m)

\* The call whose session is lost or removed has its timer set, or about to be.
DropNoticed ==
    \A c \in Calls : Live(c) /\ call[c].media # None /\ med[call[c].media].sess # "up" =>
        call[c].dtimer = call[c].media \/ Attended(call[c].media) \/ Unsettled(c)

\* Every browser session is accounted for, whatever its connection does before, while
\* and after a call takes it (media_reservation.go, recovery.go): none outlives its use,
\* and a call that loses its browser, or whose session is removed by a goroutine that let
\* it go earlier, is on its way to be hung up.  The exception is a session that was
\* displaced: it stays, its timer keeps others from being set, and when its connection
\* comes back that stops the timer of the session which has the call.
SessionsAccounted == NoStray /\ DropNoticed

\* The goroutine that waits for terminalDone in finalizeRecording, and with it every
\* later event of every device, waits for another one that is at work on the end of
\* that call, never for itself or for nobody.  The exception is what the code does: a
\* call that is finalized and of whose end the service has not been told before holds
\* everything up until a browser hangs it up.
NoDeadWait ==
    \A t \in Threads :
        Dispatches(t, {"Finalized"}) /\ call[pc[t].c].reg /\ ~call[pc[t].c].done /\ pc[t].c \notin unheard =>
            \E u \in Threads \ {t} : /\ pc[u].c = pc[t].c
                                     /\ "Ended" \in Range(pc[u].todo) \/ "final" \in Range(pc[u].go)

\* A recording is converted when it is closed: however Hangup, the events and the start
\* of the recording overlap, finalizeRecording never reads a file that is still written.
RecordingClosed == \A c \in Calls : ~call[c].reg => call[c].rec # "open"
=============================================================================
