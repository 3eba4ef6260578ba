--------------------------- MODULE PhoneInvariant ---------------------------
(***************************************************************************)
(* The inductive invariants of PhoneService that PhoneServiceProofs proves, *)
(* and the kinds of steps its lemmas tell apart.                           *)
(*                                                                         *)
(* IInv rests on what a goroutine still has to do: who dials has the device,*)
(* and one goroutine only ends a call, which cannot be finalized before.   *)
(* LastInv follows the two last events of a call, unless the service is not *)
(* told of its end, on their way from the gateway through the queue, the   *)
(* events put aside and the lists of the goroutines.  SessInv follows each *)
(* session from who reserved or made it to the call that has it and to the *)
(* goroutine that removes it.                                              *)
(***************************************************************************)
EXTENDS PhoneService

-----------------------------------------------------------------------------
(* Types *)

OrNone(S) == S \cup {None}
Kinds == {"Waiting", "Ringing", "Busy", "Answered", "Ended", "Finalized"}
Statuses == OrNone(Active \cup {"over"})

CallRecords ==
    [reg : BOOLEAN, dir : OrNone({"in", "out"}), status : Statuses,
     media : OrNone(Sessions), lease : OrNone(Media), pending : BOOLEAN,
     dtimer : OrNone(Sessions), armed : BOOLEAN, atimer : BOOLEAN,
     rec : {"none", "open", "closed"}, done : BOOLEAN, again : BOOLEAN]
SessionRecords ==
    [sess : {"up", "down", "gone"}, bound : OrNone(Calls), held : OrNone(Threads),
     drop : {"none", "armed", "paused"}]
Locals ==
    [go : Seq(Steps), c : OrNone(Calls), m : OrNone(Sessions), again : BOOLEAN,
     claim : BOOLEAN, lease : OrNone(Sessions), row : Statuses, todo : Seq(Kinds \cup {"Incoming"})]
Callbacks == [do : {"expire", "hangup", "answer"}, c : Calls, m : OrNone(Sessions)]

(* What a goroutine may still have to do: dial, take a call with a session, end a call, *)
(* or steps that may come in any order.                                                 *)
DialLists == {<<"device", "dial", "dialed", "leave">>, <<"dial", "dialed", "leave">>, <<"dialed", "leave">>,
              <<"undo", "leave">>, <<"undo", "drop", "leave">>}
ClaimLists == {<<"attach", "answer", "assign", "record", "leave">>, <<"answer", "assign", "record", "leave">>,
               <<"assign", "record", "leave">>, <<"usurp", "refuse", "report", "leave">>,
               <<"reach", "swap", "leave">>, <<"swap", "leave">>}
EndLists == {<<"close", "final">>, <<"close", "final", "leave">>, <<"final">>, <<"final", "leave">>}
Plain == Steps \ {"device", "dial", "dialed", "undo", "attach", "assign", "usurp", "reach", "swap",
                  "close", "final"}

Shape(p, t) ==
  /\ p \in Locals
  /\ \/ p.go \in DialLists /\ t \in Clients /\ p.m \in Media /\ p.todo = <<>>
     \/ p.go \in ClaimLists /\ t \in Clients /\ p.m \in Media
     \/ p.go \in EndLists \cup Seq(Plain)
  /\ p.c = None => /\ p.todo = <<>> /\ ~p.claim
                   /\ p.go \in {<<"device", "dial", "dialed", "leave">>, <<"dial", "dialed", "leave">>,
                                <<"undo", "leave">>, <<"leave">>, <<>>}

Typed ==
  /\ net \in [Calls -> Alive \cup {"none", "gone"}]
  /\ queue \in Seq([kind : Kinds, call : Calls]) /\ rings \in Seq(Calls) /\ unheard \subseteq Calls
  /\ call \in [Calls -> CallRecords]
  /\ device \in OrNone(Calls \cup {""}) /\ waiting \in OrNone(Calls)
  /\ med \in [Sessions -> SessionRecords]
  /\ early \in [Calls -> Seq(Kinds)] /\ seen \subseteq Calls /\ auto \in BOOLEAN
  /\ fired \subseteq Callbacks
  /\ rows \in [Calls -> Statuses] /\ deleted \subseteq Calls
  /\ ops \in Nat /\ faults \in Nat
Shaped == DOMAIN pc = Threads /\ pc = [t \in Threads |-> pc[t]] /\ \A t \in Threads : Shape(pc[t], t)

-----------------------------------------------------------------------------
(* The device *)

Reserving(t) == At(t, "dial") \/ At(t, "dialed") \/ At(t, "undo")

\* SlotsHonest, and the request that has the device is the only one.
SlotInv ==
  /\ device \in Calls => Live(device)
  /\ waiting \in Calls => Live(waiting)
  /\ \A c \in Calls : Live(c) => c \in {device, waiting}
  /\ \A t \in Threads : Reserving(t) => device = ""
  /\ \A t, u \in Threads : Reserving(t) /\ Reserving(u) => t = u
  /\ device = "" => \E t \in Threads : Reserving(t)

-----------------------------------------------------------------------------
(* The end of a call *)

Ending(t) == pc[t].go \in EndLists

\* One goroutine ends a call; until it is done the call is not finalized, and it closes
\* the recording first.
EndInv ==
  /\ \A t \in Threads : Ending(t) =>
        call[pc[t].c].reg /\ call[pc[t].c].status = "over" /\ ~call[pc[t].c].done
  /\ \A t, u \in Threads : Ending(t) /\ Ending(u) /\ pc[t].c = pc[u].c => t = u
  /\ \A c \in Calls :
       /\ call[c].done => ~Live(c) /\ call[c].rec # "open"
       /\ ~call[c].reg => call[c].status \notin Active /\ call[c].rec # "open"
       /\ call[c].reg => call[c].status \in Active \cup {"over"}
       /\ call[c].rec = "open" /\ ~Live(c) => \E t \in Threads : pc[t].c = c /\ At(t, "close")
       /\ call[c].reg /\ ~Live(c) /\ ~call[c].done => \E t \in Threads : pc[t].c = c /\ Ending(t)

-----------------------------------------------------------------------------
(* A call that is dialled *)

Announces == {"Incoming", "Waiting"}

\* Nothing that could enter call c as an incoming one is under way.
Unannounced(c) ==
  /\ \A i \in DOMAIN rings : rings[i] # c
  /\ \A i \in DOMAIN queue : queue[i] # Event("Waiting", c)
  /\ \A i \in DOMAIN early[c] : early[c][i] # "Waiting"
  /\ \A t \in Threads : pc[t].c = c => \A i \in DOMAIN pc[t].todo : pc[t].todo[i] \notin Announces

\* A call that is dialled is the gateway's, and not known here before BeginCall has returned.
FreshInv ==
  /\ \A t \in Threads : At(t, "dialed") => net[pc[t].c] # "none"
  /\ \A c \in Calls :
       net[c] = "none" \/ (\E t \in Threads : At(t, "dialed") /\ pc[t].c = c)
       => net[c] # "offered" /\ Unannounced(c) /\ ~call[c].reg

IInv == Typed /\ Shaped /\ SlotInv /\ EndInv /\ FreshInv

-----------------------------------------------------------------------------
(* What a goroutine does next, and steps that change nothing of what IInv speaks of *)

\* A goroutine that neither has the device nor ends a call.
Quiet(p) == p.go \in ClaimLists \cup Seq(Plain) \cup {<<"device", "dial", "dialed", "leave">>}

\* What the gateway has to say at the end of a call.
Last == {"Ended", "Finalized"}

\* From p to q a goroutine hears of nothing new, or reports that its call is over, and
\* drops no event of the end of a call.
Hears(p, q) ==
  \/ q.c = p.c /\ q.todo = p.todo
  \/ q.c = p.c /\ p.todo # <<>> /\ Head(p.todo) \notin Last /\ q.todo = Tail(p.todo)
  \/ q.c = p.c /\ q.todo = <<"Ended">>
  \/ q.todo = <<>> /\ \A i \in DOMAIN p.todo : p.todo[i] \notin Last

\* A goroutine goes on: from p to q it stays quiet and hears of nothing new.
GoesOn(p, q) ==
  \/ q = p
  \/ Quiet(p) /\ Quiet(q) /\ Hears(p, q)

\* What the service is told of the end of call c; nothing that it can take for the end makes
\* the call one of whose end it is not told.
Word(c) ==
  \/ /\ unheard' = unheard
     /\ queue' \in {Append(queue, Event("Ended", c)), queue \o <<Event("Ended", c), Event("Finalized", c)>>}
  \/ /\ unheard' = unheard \cup {c}
     /\ queue' \in {queue, Append(queue, Event("Finalized", c)), queue \o <<Event("Finalized", c), Event("Ended", c)>>}

\* The gateway's part: what it says is of calls that are known to it.
Heard ==
  /\ \A c \in Calls : net'[c] \in {"none", "offered"} => net'[c] = net[c]
  /\ \/ /\ queue' = queue \/ \E c \in Calls, k \in Kinds \ ({"Waiting"} \cup Last) : queue' = Append(queue, Event(k, c))
        /\ \A c \in Calls : net[c] = "gone" => net'[c] = "gone"
        /\ \A c \in Calls : net'[c] = "gone" => net[c] \in {"none", "gone"}
        /\ unheard' = unheard
     \/ \E c \in Calls : net[c] \in Alive /\ net' = [net EXCEPT ![c] = "gone"] /\ Word(c)
GatewayTypes ==
  /\ net' \in [Calls -> Alive \cup {"none", "gone"}]
  /\ queue' \in Seq([kind : Kinds, call : Calls]) /\ unheard' \subseteq Calls /\ faults' \in Nat

\* Calls that are registered, over or done stay so, and a recording is opened during a call.
Kept ==
  \A c \in Calls :
    /\ call'[c].reg = call[c].reg /\ call'[c].done = call[c].done
    /\ call'[c].dir = call[c].dir /\ call'[c].again = call[c].again
    /\ call'[c].status = call[c].status \/ (call[c].status \in Active /\ call'[c].status \in Active)
    /\ call'[c].rec \in {call[c].rec, "closed"} \/ call[c].status \in Active

\* A step that neither gives the device away nor ends a call nor announces one.
Calm ==
  /\ UNCHANGED <<device, waiting, rings, early>>
  /\ Heard /\ Kept
  /\ \A t \in Threads : GoesOn(pc[t], pc'[t])

\* The calls keep what matters.
CallsKept == call' \in [Calls -> CallRecords] /\ Kept

Calmly == Typed' /\ Shaped' /\ Calm

\* Nobody comes to have the device, or gives it up.
SameHolders ==
  /\ UNCHANGED <<device, waiting>>
  /\ \A t \in Threads : /\ Reserving(t)' <=> Reserving(t)
                        /\ At(t, "dialed")' <=> At(t, "dialed")
                        /\ Reserving(t) => pc'[t] = pc[t]

\* Nobody comes to end a call, or has ended it.
SameEnders ==
  \A t \in Threads : /\ Ending(t)' <=> Ending(t)
                     /\ At(t, "close")' <=> At(t, "close")
                     /\ Ending(t) => pc'[t] = pc[t]

\* What could enter call c, as an incoming one or as one that is dialled, is under way.
MayCome(c) == ~Unannounced(c) \/ \E t \in Threads : At(t, "dialed") /\ pc[t].c = c

\* No call comes into that that the gateway no longer has.
NoNewcomer == \A c \in Calls : MayCome(c)' => MayCome(c) \/ net'[c] # "gone"

\* What may still be announced does not become more.
Silent ==
  /\ \A c \in Calls : net'[c] \in {"none", "offered"} => net'[c] = net[c]
  /\ \A c \in Calls : Unannounced(c) => Unannounced(c)'

\* Nothing is under way, and the calls that are known are not gone.
Still ==
  /\ queue = <<>> /\ rings = <<>> /\ \A c \in Calls : early[c] = <<>>
  /\ \A t \in Threads : pc[t].todo = <<>> /\ ~At(t, "dialed")
  /\ \A c \in Calls : /\ call[c].reg <=> call[c].dir # None
                      /\ net[c] = "gone" => ~call[c].reg

\* A goroutine's step in which the device is taken or given back, a call comes, or ends.
Stirring(t) ==
  \/ HandleIncoming(t) \/ FinishCall(t) \/ CloseCall(t) \/ (Persist(t) /\ At(t, "final"))
  \/ FinalizeRecording(t) \/ ReserveDevice(t) \/ Dial(t) \/ Dialed(t) \/ Undo(t)

-----------------------------------------------------------------------------
(* Lists in which something occurs, once, or only after something else *)

Has(s, x) == \E i \in DOMAIN s : s[i] = x
Once(s, x) == \A i, j \in DOMAIN s : s[i] = x /\ s[j] = x => i = j

\* Every y comes after an x.
Led(s, x, y) == \A i \in DOMAIN s : s[i] = y => \E j \in DOMAIN s : j < i /\ s[j] = x

-----------------------------------------------------------------------------
(* The end of a call, on its way from the gateway to the goroutine that waits for it *)

End(c) == Event("Ended", c)
Fin(c) == Event("Finalized", c)

\* Goroutine t has still to dispatch k of call c.
Due(c, t, k) == pc[t].c = c /\ Has(pc[t].todo, k)

\* The end of call c has not been dispatched yet.
OnWay(c) ==
  \/ Has(queue, End(c))
  \/ Has(early[c], "Ended")
  \/ \E t \in Threads : Due(c, t, "Ended")

\* The end of a call that is gone is on its way, if the call is in progress or may become so.
GhostOf(c) ==
  /\ call[c].reg => call[c].dir # None
  /\ net[c] = "gone" /\ Live(c) /\ ~call[c].again => OnWay(c)
  /\ net[c] = "gone" /\ call[c].dir = None /\ MayCome(c) => OnWay(c)

\* CallFinalized is somewhere once at most.
OneFin(c) ==
  /\ Once(queue, Fin(c)) /\ Once(early[c], "Finalized")
  /\ \A t \in Threads : pc[t].c = c => Once(pc[t].todo, "Finalized")
  /\ Has(queue, Fin(c)) => ~Has(early[c], "Finalized") /\ \A t \in Threads : ~Due(c, t, "Finalized")
  /\ Has(early[c], "Finalized") => ~call[c].reg
  /\ \A t \in Threads : Due(c, t, "Finalized") =>
        call[c].reg /\ \A u \in Threads : Due(c, u, "Finalized") => u = t

\* It is of a call that is gone, and was not dealt with before.
GoneFin(c) ==
  /\ \/ Has(queue, Fin(c)) \/ Has(early[c], "Finalized") \/ \E t \in Threads : Due(c, t, "Finalized")
     => net[c] = "gone"
  /\ ~call[c].reg /\ call[c].dir # None =>
        net[c] = "gone" /\ ~Has(queue, Fin(c)) /\ ~Has(early[c], "Finalized")

\* It never comes before the end, unless another goroutine has that already.
LedFin(c) ==
  /\ Has(queue, Fin(c)) /\ ~Led(queue, End(c), Fin(c)) =>
        /\ Live(c) => \E t \in Threads : Due(c, t, "Ended")
        /\ ~call[c].reg /\ MayCome(c) => Has(early[c], "Ended")
  /\ MayCome(c) => Led(early[c], "Ended", "Finalized")
  /\ Live(c) => \A t \in Threads : Due(c, t, "Finalized") =>
        \/ Led(pc[t].todo, "Ended", "Finalized")
        \/ \E u \in Threads \ {t} : Due(c, u, "Ended")

LastOf(c) == c \in unheard \/ (GhostOf(c) /\ OneFin(c) /\ GoneFin(c) /\ LedFin(c))
LastInv == \A c \in Calls : LastOf(c)

\* From p to q a goroutine hears of no end, and forgets none.
Told(p, q) ==
  /\ Has(q.todo, "Finalized") =>
        /\ q.c = p.c /\ Has(p.todo, "Finalized")
        /\ Once(p.todo, "Finalized") => Once(q.todo, "Finalized")
        /\ Led(p.todo, "Ended", "Finalized") => Led(q.todo, "Ended", "Finalized")
  /\ Has(p.todo, "Ended") => q.c = p.c /\ Has(q.todo, "Ended")

\* From list q to list r no x goes, no y comes, and y is where it was.
Alike(q, r, x, y) ==
  /\ Has(q, x) => Has(r, x)
  /\ Has(r, y) => Has(q, y)
  /\ Once(q, y) => Once(r, y)
  /\ Led(q, x, y) => Led(r, x, y)

\* The gateway says nothing of the end of call c, or ends it, unless the service is not told.
NewsOf(c) ==
  \/ c \in unheard'
  \/ /\ c \notin unheard
     /\ \/ /\ net[c] = "gone" => net'[c] = "gone"
           /\ net'[c] = "gone" => net[c] \in {"none", "gone"}
           /\ Alike(queue, queue', End(c), Fin(c))
        \/ /\ net[c] \in Alive /\ net'[c] = "gone" /\ Has(queue', End(c))
           /\ ~Has(queue, Fin(c)) => Once(queue', Fin(c)) /\ Led(queue', End(c), Fin(c))

\* The calls are as they were, as far as their ends go.
SameCalls ==
  \A c \in Calls : /\ call'[c].reg = call[c].reg /\ call'[c].dir = call[c].dir
                   /\ call'[c].again = call[c].again /\ (Live(c)' <=> Live(c))

-----------------------------------------------------------------------------
(* What the goroutines do about the sessions *)

\* Steps at which a session is seen to, and steps after which the rest of a list may be
\* left out.
Attention == {"close", "unlink", "resume"}
Droppers == {"answer", "adopt", "refuse", "hangup"}
Ordered(s) == \A i, j \in DOMAIN s : i < j /\ s[i] \in Droppers => s[j] \notin Attention
Careless(s) == \A a \in Attention : ~Has(s, a)

\* What an auto answer may still have to do, and a goroutine that has a session reserved.
AutoLists == {<<>>, <<"leave">>, <<"record", "leave">>, <<"write", "leave">>, <<"drop", "leave">>,
              <<"answer", "adopt", "record", "leave">>, <<"adopt", "record", "leave">>}
HoldLists == DialLists \cup ClaimLists \cup {<<"drop", "leave">>, <<"leave">>}

Answering(p) == p.go = <<"answer", "adopt", "record", "leave">>
Adopting(p) == p.go = <<"adopt", "record", "leave">>

\* Session x is to be removed, or looked after; it is reserved.
Cleans(p, x) == (p.m = x /\ Has(p.go, "close")) \/ (p.lease = x /\ Has(p.go, "unlink"))
Sees(p, x) == Cleans(p, x) \/ (p.m = x /\ Has(p.go, "resume"))
Holds(p, x) == p.m = x /\ p.go \in HoldLists /\ p.todo = <<>>

\* After a step at which the rest of a list may be left out nothing needs seeing to, and an
\* auto answer keeps to its lists.
Fits(t, p) ==
  /\ Ordered(p.go)
  /\ t \in Calls => p.go \in AutoLists /\ p.todo = <<>> /\ (Answering(p) \/ Adopting(p) => p.c = t)

\* From p to q goroutine t forgets no session, but for those it has reserved, or none.
Tends(t, p, q) ==
  /\ Fits(t, q)
  /\ \A x \in Sessions : (Cleans(q, x) <=> Cleans(p, x)) /\ (Sees(p, x) => Sees(q, x))
  /\ t \in Calls => /\ Answering(q) <=> Answering(p)
                    /\ Adopting(q) <=> Adopting(p)
                    /\ Answering(p) \/ Adopting(p) => q.m = p.m
Follows(t, p, q) == Tends(t, p, q) /\ \A x \in Sessions : Holds(p, x) => Holds(q, x)

\* What a list still holds of the sessions is in order; a step forgets none of it.
ThreadInv == \A t \in Threads : Fits(t, pc[t])
Unforgotten == \A t \in Threads : Follows(t, pc[t], pc'[t])

-----------------------------------------------------------------------------
(* Every session is accounted for *)

Cleaned(x) == \E t \in Threads : Cleans(pc[t], x)
Seen(x) == \E t \in Threads : Sees(pc[t], x)

\* The gateway cannot be asked to answer call c any more.
Known(c) == net[c] \notin {"none", "offered"}

\* A session that is reserved is that of a request under way, and no call has it.
HeldInv ==
  \A m \in Sessions, t \in Threads : med[m].held = t /\ t # None =>
     m \in Media /\ t \in Clients /\ med[m].bound = None /\ Holds(pc[t], m)

\* A call in progress has its session and that of its timer; no other call has one.
BoundInv ==
  \A c \in Calls, m \in Sessions :
    /\ Live(c) /\ m \in {call[c].media, call[c].dtimer} => med[m].bound = c
    /\ med[m].bound = c /\ call[c].media = m => Live(c)

\* The loss of a session is noticed, whether a call has it or not.
LostInv ==
  /\ \A m \in Media :
       /\ med[m].drop = "paused" /\ Present(m) => med[m].held # None
       /\ med[m].sess = "down" /\ med[m].bound = None => med[m].drop # "none" \/ Seen(m)
  /\ \A c \in Calls, m \in Sessions :
       Live(c) /\ call[c].media = m /\ med[m].sess # "up" =>
         call[c].dtimer = m \/ Unsettled(c) \/ Seen(m)

\* The session that the auto answer makes for call c: the goroutine that made it has it
\* until the call has, which happens once, and it is removed when the call lets it go.
Own(c) ==
  /\ med[c].sess # "down"
  /\ med[c].bound # None => med[c].sess = "up"
  /\ Cleaned(c) => med[c].bound = None
  /\ med[c].bound # None \/ Cleaned(c) => Known(c) /\ ~Adopting(pc[c])
  /\ Answering(pc[c]) => IF pc[c].m = c THEN med[c].bound = None ELSE pc[c].m = None /\ Known(c)
  /\ Adopting(pc[c]) => pc[c].m = c /\ med[c].sess = "up"
  /\ Answering(pc[c]) /\ pc[c].m = c /\ ~Known(c) => med[c].sess = "up"
  /\ Present(c) => Known(c) \/ (Answering(pc[c]) /\ pc[c].m = c)
  /\ Present(c) /\ med[c].bound = None =>
       ((Answering(pc[c]) \/ Adopting(pc[c])) /\ pc[c].m = c) \/ Cleaned(c)
OwnInv == \A c \in Calls : Own(c)

SessInv == ThreadInv /\ HeldInv /\ BoundInv /\ LostInv /\ OwnInv

\* No call gets or loses a session, and none begins or ends.
CallsStay ==
  \A c \in Calls : /\ call'[c].media = call[c].media /\ (Live(c)' <=> Live(c))
                   /\ Live(c) => call'[c].dtimer = call[c].dtimer
KnownStay == \A c \in Calls : Known(c) => Known(c)'

\* From p to q goroutine t forgets at most session x.
FollowsBut(t, p, q, x) ==
  /\ Fits(t, q)
  /\ \A y \in Sessions \ {x} : (Cleans(q, y) <=> Cleans(p, y)) /\ (Sees(p, y) => Sees(q, y))
  /\ Cleans(q, x) => Cleans(p, x)
  /\ \A y \in Sessions : Holds(p, y) => Holds(q, y)
  /\ t \in Calls => /\ Answering(q) <=> Answering(p)
                    /\ Adopting(q) <=> Adopting(p)
                    /\ Answering(p) \/ Adopting(p) => q.m = p.m

\* Steps that concern no session.
Simple == {"refuse", "busy", "bridge", "drop", "final", "record", "snap", "write", "auto", "hangup", "report"}
=============================================================================
