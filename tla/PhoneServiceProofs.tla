-------------------------- MODULE PhoneServiceProofs --------------------------
(***************************************************************************)
(* Proofs about PhoneService, for any calls, sessions, clients and scenes:  *)
(* the device and its waiting place are given back, no recording is         *)
(* converted while it is open, every session is accounted for, and calls    *)
(* whose end the gateway tells of stay neither in progress nor waited for.  *)
(***************************************************************************)
EXTENDS PhoneInvariant, TLAPS

-----------------------------------------------------------------------------
(* What a goroutine does next *)

\* Lists of steps have the type they should.
LEMMA ListTypes ==
  /\ DialLists \subseteq Seq(Steps) /\ ClaimLists \subseteq Seq(Steps) /\ EndLists \subseteq Seq(Steps)
  /\ Seq(Plain) \subseteq Seq(Steps) /\ Plain \subseteq Steps
  /\ <<>> \in Seq(Plain) /\ <<"leave">> \in Seq(Plain)
<1>1. Plain \subseteq Steps
  BY DEF Plain
<1>2. Seq(Plain) \subseteq Seq(Steps)
  BY <1>1
<1>3. DialLists \subseteq Seq(Steps)
  BY DEF DialLists, Steps
<1>4. ClaimLists \subseteq Seq(Steps)
  BY DEF ClaimLists, Steps
<1>5. EndLists \subseteq Seq(Steps)
  BY DEF EndLists, Steps
<1>6. <<>> \in Seq(Plain) /\ <<"leave">> \in Seq(Plain)
  BY DEF Plain, Steps
<1> QED BY <1>1, <1>2, <1>3, <1>4, <1>5, <1>6

\* What is left of a list.
LEMMA Rests ==
  /\ Tail(<<"attach", "answer", "assign", "record", "leave">>) = <<"answer", "assign", "record", "leave">>
  /\ Tail(<<"answer", "assign", "record", "leave">>) = <<"assign", "record", "leave">>
  /\ Tail(<<"assign", "record", "leave">>) = <<"record", "leave">>
  /\ Tail(<<"usurp", "refuse", "report", "leave">>) = <<"refuse", "report", "leave">>
  /\ Tail(<<"reach", "swap", "leave">>) = <<"swap", "leave">>
  /\ Tail(<<"swap", "leave">>) = <<"leave">>
  /\ Tail(<<"device", "dial", "dialed", "leave">>) = <<"dial", "dialed", "leave">>
  /\ Tail(<<"dialed", "leave">>) = <<"leave">> /\ Tail(<<"undo", "leave">>) = <<"leave">>
  /\ Tail(<<"undo", "drop", "leave">>) = <<"drop", "leave">>
  /\ Tail(<<"close", "final">>) = <<"final">> /\ Tail(<<"close", "final", "leave">>) = <<"final", "leave">>
  /\ Tail(<<"final">>) = <<>> /\ Tail(<<"final", "leave">>) = <<"leave">>
OBVIOUS

\* Steps that come one at a time are plain.
LEMMA PlainOnes ==
  /\ {<<"record">>, <<"unlink">>, <<"write">>, <<"drop">>, <<"bridge">>} \subseteq Seq(Plain)
  /\ {<<"record", "leave">>, <<"snap", "write">>, <<"drop", "leave">>, <<"refuse", "busy">>} \subseteq Seq(Plain)
  /\ {<<"refuse", "report", "leave">>, <<"snap", "write", "auto">>} \subseteq Seq(Plain)
  /\ <<"answer", "adopt", "record", "leave">> \in Seq(Plain)
BY DEF Plain, Steps

\* The step that comes next tells what is to come after it, or is one of the plain ones.
LEMMA Places ==
  ASSUME NEW p, NEW t, Shape(p, t), p.go # <<>>
  PROVE  /\ p.go \in Seq(Plain) => Head(p.go) \in Plain /\ Tail(p.go) \in Seq(Plain)
         /\ p.go \in DialLists => Head(p.go) \in {"device", "dial", "dialed", "undo"}
         /\ p.go \in ClaimLists => Head(p.go) \in {"attach", "answer", "assign", "usurp", "reach", "swap"}
         /\ p.go \in EndLists => Head(p.go) \in {"close", "final"}
<1>1. p.go \in Seq(Plain) => Head(p.go) \in Plain /\ Tail(p.go) \in Seq(Plain)
  OBVIOUS
<1>2. p.go \in DialLists => Head(p.go) \in {"device", "dial", "dialed", "undo"}
  BY DEF DialLists
<1>3. p.go \in ClaimLists => Head(p.go) \in {"attach", "answer", "assign", "usurp", "reach", "swap"}
  BY DEF ClaimLists
<1>4. p.go \in EndLists => Head(p.go) \in {"close", "final"}
  BY DEF EndLists
<1> QED BY <1>1, <1>2, <1>3, <1>4

\* A quiet goroutine is neither about to use the device nor about to end a call.
LEMMA QuietIs ==
  ASSUME NEW p, NEW t, Shape(p, t), Quiet(p)
  PROVE  /\ p.go \notin EndLists
         /\ p.go # <<>> => Head(p.go) \notin {"dial", "dialed", "undo", "close", "final"}
<1>1. CASE p.go = <<>>
  BY <1>1 DEF EndLists
<1>2. CASE p.go = <<"device", "dial", "dialed", "leave">>
  BY <1>2 DEF EndLists
<1>3. CASE p.go # <<>> /\ p.go \in ClaimLists \cup Seq(Plain)
  <2>1. Head(p.go) \notin {"dial", "dialed", "undo", "close", "final"}
    BY <1>3, Places DEF Plain
  <2>2. p.go \notin EndLists
    BY <1>3, <2>1, Places
  <2> QED BY <2>1, <2>2
<1> QED BY <1>1, <1>2, <1>3 DEF Quiet

\* The heads that tell the list.
LEMMA Lists ==
  ASSUME NEW p, NEW t, Shape(p, t), p.go # <<>>
  PROVE  /\ Head(p.go) = "device" => p.go = <<"device", "dial", "dialed", "leave">>
         /\ Head(p.go) = "dial" => p.go = <<"dial", "dialed", "leave">>
         /\ Head(p.go) = "dialed" => p.go = <<"dialed", "leave">>
         /\ Head(p.go) = "undo" => p.go \in {<<"undo", "leave">>, <<"undo", "drop", "leave">>}
         /\ Head(p.go) = "attach" => p.go = <<"attach", "answer", "assign", "record", "leave">>
         /\ Head(p.go) = "assign" => p.go = <<"assign", "record", "leave">>
         /\ Head(p.go) = "usurp" => p.go = <<"usurp", "refuse", "report", "leave">>
         /\ Head(p.go) = "reach" => p.go = <<"reach", "swap", "leave">>
         /\ Head(p.go) = "swap" => p.go = <<"swap", "leave">>
         /\ Head(p.go) = "close" => p.go \in {<<"close", "final">>, <<"close", "final", "leave">>}
         /\ Head(p.go) = "final" => p.go \in {<<"final">>, <<"final", "leave">>}
         /\ Head(p.go) = "answer" => p.go = <<"answer", "assign", "record", "leave">> \/ p.go \in Seq(Plain)
         /\ Head(p.go) \in Plain \ {"answer"} => p.go \in Seq(Plain)
<1>1. CASE p.go \in DialLists
  BY <1>1 DEF DialLists, Plain
<1>2. CASE p.go \in ClaimLists
  BY <1>2 DEF ClaimLists, Plain
<1>3. CASE p.go \in EndLists
  BY <1>3 DEF EndLists, Plain
<1>4. CASE p.go \in Seq(Plain)
  <2>1. Head(p.go) \in Plain
    BY <1>4, Places
  <2> QED BY <1>4, <2>1 DEF Plain
<1> QED BY <1>1, <1>2, <1>3, <1>4 DEF Shape

\* Everybody but a quiet goroutine that waits or leaves has a call.
LEMMA HasCall ==
  ASSUME NEW p, NEW t, Shape(p, t),
         p.todo # <<>> \/ p.claim
         \/ (p.go # <<>> /\ Head(p.go) \notin {"device", "dial", "undo", "leave"})
         \/ (p.go # <<>> /\ Head(p.go) = "undo" /\ p.go # <<"undo", "leave">>)
  PROVE  p.c \in Calls
<1>1. p.c \in OrNone(Calls)
  BY DEF Shape, Locals
<1>2. p.c # None
  BY DEF Shape
<1> QED BY <1>1, <1>2 DEF OrNone

\* Nobody who waits is anything but quiet.
LEMMA IdleShape == \A t \in Threads : Shape(Idle, t) /\ Quiet(Idle)
<1>1. Idle \in Locals
  BY ListTypes DEF Idle, Locals, OrNone, Statuses
<1>2. Idle.go \in Seq(Plain) /\ Idle.todo = <<>> /\ Idle.claim = FALSE /\ Idle.go = <<>>
  BY ListTypes DEF Idle
<1> QED BY <1>1, <1>2 DEF Shape, Quiet

\* A list without more than its head.
LEMMA LastOne ==
  ASSUME NEW S, NEW s \in Seq(S), s # <<>>, Tail(s) = <<>>, NEW X, Head(s) \notin X
  PROVE  \A i \in DOMAIN s : s[i] \notin X
<1>1. Len(Tail(s)) = Len(s) - 1 /\ DOMAIN s = 1 .. Len(s) /\ Len(s) \in Nat /\ s[1] = Head(s)
  OBVIOUS
<1>2. Len(Tail(s)) = 0
  <2>1. Len(<<>>) = 0
    OBVIOUS
  <2> QED BY <2>1, Zenon
<1>3. \A i \in DOMAIN s : i = 1
  BY <1>1, <1>2
<1> QED BY <1>1, <1>3

\* One goroutine becomes p.
LEMMA Becoming ==
  ASSUME Shaped, NEW t \in Threads, NEW p, Shape(p, t), Becomes(t, p)
  PROVE  /\ Shaped' /\ \A u \in Threads : u # t => pc'[u] = pc[u]
         /\ pc'[t] = (IF p.go = <<>> /\ p.todo = <<>> THEN Idle ELSE p)
         /\ GoesOn(pc[t], p) => \A u \in Threads : GoesOn(pc[u], pc'[u])
<1>1. DOMAIN pc = Threads /\ \A u \in Threads : Shape(pc[u], u)
  BY DEF Shaped
<1>2. /\ pc' = [pc EXCEPT ![t] = IF p.go = <<>> /\ p.todo = <<>> THEN Idle ELSE p]
  BY DEF Becomes
<1>3. /\ \A u \in Threads : u # t => pc'[u] = pc[u]
      /\ pc'[t] = (IF p.go = <<>> /\ p.todo = <<>> THEN Idle ELSE p)
      /\ DOMAIN pc' = Threads /\ pc' = [u \in Threads |-> pc'[u]]
  BY <1>1, <1>2
<1>4. Shape(pc'[t], t)
  BY <1>3, IdleShape
<1>5. Shaped'
  BY <1>1, <1>3, <1>4 DEF Shaped
<1>6. ASSUME GoesOn(pc[t], p) PROVE GoesOn(pc[t], pc'[t])
  <2>1. CASE p.go = <<>> /\ p.todo = <<>>
    <3>1. pc'[t] = Idle /\ Idle.todo = <<>> /\ Quiet(Idle)
      BY <1>3, <2>1, IdleShape DEF Idle
    <3>2. Quiet(p)
      BY <2>1, ListTypes DEF Quiet
    <3>3. Quiet(pc[t])
      BY <1>6, <3>2 DEF GoesOn
    <3>4. pc[t].todo \in Seq(Kinds \cup {"Incoming"})
      BY <1>1 DEF Shape, Locals
    <3>5. \A i \in DOMAIN pc[t].todo : pc[t].todo[i] \notin Last
      <4>1. CASE pc[t].todo = <<>>
        BY <4>1
      <4>2. CASE pc[t].todo # <<>>
        <5>1. \/ \A i \in DOMAIN pc[t].todo : pc[t].todo[i] \notin Last
              \/ Head(pc[t].todo) \notin Last /\ Tail(pc[t].todo) = <<>>
          BY <1>6, <2>1, <4>2 DEF GoesOn, Hears
        <5> QED BY <3>4, <4>2, <5>1, LastOne
      <4> QED BY <4>1, <4>2
    <3> QED BY <3>1, <3>3, <3>5 DEF GoesOn, Hears
  <2>2. CASE ~(p.go = <<>> /\ p.todo = <<>>)
    BY <1>3, <1>6, <2>2
  <2> QED BY <2>1, <2>2
<1>7. \A u \in Threads : u # t => GoesOn(pc[u], pc'[u])
  BY <1>3 DEF GoesOn
<1> QED BY <1>3, <1>5, <1>6, <1>7
-----------------------------------------------------------------------------
(* Steps that change nothing of what the invariant speaks of *)

\* A call of the gateway that ends or refuses a call, or fails to.
LEMMA Outcome ==
  ASSUME Typed, NEW c \in Calls, EndsCall(c) \/ HangupFails(c) \/ RejectFails(c)
  PROVE  GatewayTypes /\ Heard
<1>1. /\ net \in [Calls -> Alive \cup {"none", "gone"}]
      /\ queue \in Seq([kind : Kinds, call : Calls]) /\ faults \in Nat
  BY DEF Typed
<1>2. CASE net[c] \in Alive /\ Ended(c)
  <2>1. End(c) \in [kind : Kinds, call : Calls] /\ Fin(c) \in [kind : Kinds, call : Calls]
    BY DEF Event, End, Fin, Kinds
  <2>2. /\ queue \o <<>> = queue /\ queue \o <<End(c)>> = Append(queue, End(c)) /\ queue \o <<Fin(c)>> = Append(queue, Fin(c))
        /\ Append(queue, End(c)) \in Seq([kind : Kinds, call : Calls])
        /\ Append(queue, Fin(c)) \in Seq([kind : Kinds, call : Calls])
    BY <1>1, <2>1
  <2>3. /\ Append(queue, End(c)) \o <<Fin(c)>> = queue \o <<End(c), Fin(c)>>
        /\ queue \o <<End(c), Fin(c)>> \in Seq([kind : Kinds, call : Calls])
        /\ queue \o <<Fin(c), End(c)>> \in Seq([kind : Kinds, call : Calls])
    BY <1>1, <2>1
  <2>4. Append(queue, End(c)) \o <<>> = Append(queue, End(c))
    BY <2>2
  <2>5. \A lost : /\ Sent("Ended", c, lost) = IF "Ended" \in lost THEN <<>> ELSE <<End(c)>>
                  /\ Sent("Finalized", c, lost) = IF "Finalized" \in lost THEN <<>> ELSE <<Fin(c)>>
    BY DEF Sent, End, Fin
  <2>6. Word(c)
    <3>1. CASE queue' = queue \o <<Fin(c), End(c)>> /\ unheard' = unheard \cup {c}
      BY <3>1 DEF Word, End, Fin
    <3>2. ASSUME NEW lost, queue' = queue \o Sent("Ended", c, lost) \o Sent("Finalized", c, lost),
                 unheard' = IF "Ended" \in lost THEN unheard \cup {c} ELSE unheard
          PROVE  Word(c)
      <4>1. CASE "Ended" \in lost
        BY <2>2, <2>5, <3>2, <4>1 DEF Word, End, Fin
      <4>2. CASE "Ended" \notin lost
        BY <2>2, <2>3, <2>4, <2>5, <3>2, <4>2 DEF Word, End, Fin
      <4> QED BY <4>1, <4>2
    <3> QED BY <1>2, <3>1, <3>2 DEF Ended, End, Fin
  <2>7. queue' \in Seq([kind : Kinds, call : Calls]) /\ unheard' \subseteq unheard \cup {c}
    BY <1>1, <2>2, <2>3, <2>6 DEF Word, End, Fin
  <2>8. net' = [net EXCEPT ![c] = "gone"] /\ faults' \in Nat
    BY <1>1, <1>2 DEF Ended, Loses, Fault
  <2> QED BY <1>1, <1>2, <2>6, <2>7, <2>8 DEF GatewayTypes, Heard, Typed
<1>3. CASE UNCHANGED <<net, queue, unheard>> /\ (UNCHANGED faults \/ Fault)
  <2>1. faults' \in Nat
    BY <1>1, <1>3 DEF Fault
  <2> QED BY <1>1, <1>3, <2>1 DEF GatewayTypes, Heard, Typed
<1> QED BY <1>2, <1>3 DEF EndsCall, EndFails, HangupFails, RejectFails

\* The gateway says something of a call, or it gets lost.
LEMMA Saying ==
  ASSUME Typed, NEW k \in Kinds, NEW c \in Calls, Says(k, c)
  PROVE  (queue' = queue \/ queue' = Append(queue, Event(k, c))) /\ faults' \in Nat
<1>1. queue \in Seq([kind : Kinds, call : Calls]) /\ faults \in Nat /\ Event(k, c) \in [kind : Kinds, call : Calls]
  BY DEF Typed, Event
<1>2. queue \o <<>> = queue /\ queue \o <<Event(k, c)>> = Append(queue, Event(k, c))
  BY <1>1
<1> QED BY <1>1, <1>2 DEF Says, Sent, Loses, Fault

\* A goroutine with a call and plain steps to take has a shape, and is quiet.
LEMMA PlainShape ==
  ASSUME NEW q \in Locals, NEW t, q.go \in Seq(Plain), q.c \in Calls
  PROVE  Shape(q, t) /\ Quiet(q)
BY PhoneAssumption DEF PhoneAssumption, Shape, Quiet

\* A goroutine that goes on to plain steps.
LEMMA Proceeds ==
  ASSUME Shaped, NEW t \in Threads, Quiet(pc[t]), pc[t].c \in Calls, NEW g \in Seq(Plain), Goto(t, g)
  PROVE  Shaped' /\ \A u \in Threads : GoesOn(pc[u], pc'[u])
<1> DEFINE q == [pc[t] EXCEPT !.go = g]
<1>1. pc[t] \in Locals
  BY DEF Shaped, Shape
<1>2. q \in Locals /\ q.go = g /\ q.c = pc[t].c /\ q.todo = pc[t].todo
  BY <1>1, ListTypes DEF Locals
<1>3. Becomes(t, q)
  BY DEF Goto
<1> HIDE DEF q
<1>4. Shape(q, t) /\ Quiet(q)
  BY <1>2, PlainShape
<1>5. GoesOn(pc[t], q)
  BY <1>2, <1>4 DEF GoesOn, Hears
<1> QED BY <1>3, <1>4, <1>5, Becoming

\* A goroutine at a plain step.
LEMMA AtPlain ==
  ASSUME Shaped, NEW t \in Threads, NEW x \in Plain \ {"answer", "leave"}, At(t, x)
  PROVE  /\ Quiet(pc[t]) /\ pc[t].c \in Calls /\ pc[t] \in Locals /\ Shape(pc[t], t)
         /\ pc[t].go \in Seq(Plain) /\ Tail(pc[t].go) \in Seq(Plain)
<1>1. Shape(pc[t], t) /\ pc[t].go # <<>> /\ Head(pc[t].go) = x
  BY DEF Shaped, At
<1>2. pc[t].go \in Seq(Plain)
  BY <1>1, Lists
<1>3. Head(pc[t].go) \notin {"device", "dial", "undo", "leave"}
  BY <1>1 DEF Plain
<1>4. pc[t].c \in Calls
  BY <1>1, <1>3, HasCall
<1>5. Tail(pc[t].go) \in Seq(Plain)
  BY <1>1, <1>2, Places
<1> QED BY <1>1, <1>2, <1>4, <1>5 DEF Quiet, Shape

\* It goes on with the rest, or leaves.
LEMMA PlainThen ==
  ASSUME Shaped, NEW t \in Threads, NEW x \in Plain \ {"answer", "leave"}, At(t, x), Then(t) \/ Return(t)
  PROVE  Shaped' /\ \A u \in Threads : GoesOn(pc[u], pc'[u])
<1>1. Quiet(pc[t]) /\ pc[t].c \in Calls /\ Tail(pc[t].go) \in Seq(Plain) /\ <<"leave">> \in Seq(Plain)
  BY AtPlain, ListTypes
<1> QED BY <1>1, Proceeds DEF Then, Return

\* A goroutine about to dispatch an event has a call and nothing to do but leave.
LEMMA AtEvent ==
  ASSUME Shaped, NEW t \in Threads, NEW kinds, Dispatches(t, kinds)
  PROVE  /\ pc[t].c \in Calls /\ pc[t] \in Locals /\ Shape(pc[t], t) /\ Quiet(pc[t])
         /\ pc[t].go \in {<<>>, <<"leave">>} /\ pc[t].go \in Seq(Plain)
         /\ pc[t].todo \in Seq(Kinds \cup {"Incoming"}) /\ pc[t].todo # <<>>
         /\ Head(pc[t].todo) \in kinds /\ pc[t].todo # <<>>
<1>1. Shape(pc[t], t) /\ pc[t].todo # <<>> /\ pc[t].go \in {<<>>, <<"leave">>} /\ Head(pc[t].todo) \in kinds
  BY DEF Dispatches, Shaped
<1>2. pc[t] \in Locals /\ pc[t].todo \in Seq(Kinds \cup {"Incoming"})
  BY <1>1 DEF Shape, Locals
<1>3. pc[t].c \in Calls
  BY <1>1, HasCall
<1>4. pc[t].go \in Seq(Plain)
  BY <1>1, ListTypes
<1> QED BY <1>1, <1>2, <1>3, <1>4 DEF Quiet

\* It deals with the event in plain steps.
LEMMA Handling ==
  ASSUME Shaped, NEW t \in Threads, NEW kinds, Dispatches(t, kinds), NEW steps \in Seq(Plain),
         NEW row \in Statuses, NEW media \in OrNone(Sessions), Handled(t, steps, row, media)
  PROVE  /\ Shaped' /\ Quiet(pc[t]) /\ Quiet(pc'[t]) /\ \A u \in Threads : u # t => pc'[u] = pc[u]
         /\ pc'[t].todo = Tail(pc[t].todo) /\ (pc'[t].todo # <<>> => pc'[t].c = pc[t].c)
<1> DEFINE q == [pc[t] EXCEPT !.todo = Tail(@), !.go = steps \o @, !.row = row, !.m = media]
<1>1. /\ pc[t].c \in Calls /\ pc[t] \in Locals /\ Quiet(pc[t]) /\ pc[t].go \in Seq(Plain)
      /\ pc[t].todo \in Seq(Kinds \cup {"Incoming"}) /\ pc[t].todo # <<>>
  BY AtEvent
<1>2. steps \o pc[t].go \in Seq(Plain)
  BY <1>1
<1>3. Tail(pc[t].todo) \in Seq(Kinds \cup {"Incoming"})
  BY <1>1
<1>4. q \in Locals /\ q.go \in Seq(Plain) /\ q.c = pc[t].c /\ q.todo = Tail(pc[t].todo)
  BY <1>1, <1>2, <1>3, ListTypes DEF Locals
<1>5. Becomes(t, q)
  BY DEF Handled
<1> HIDE DEF q
<1>6. Shape(q, t) /\ Quiet(q)
  BY <1>1, <1>4, PlainShape
<1>7. /\ Shaped' /\ \A u \in Threads : u # t => pc'[u] = pc[u]
      /\ pc'[t] = (IF q.go = <<>> /\ q.todo = <<>> THEN Idle ELSE q)
  BY <1>5, <1>6, Becoming
<1>8. Quiet(Idle) /\ Idle.todo = <<>>
  BY IdleShape DEF Idle
<1> QED BY <1>1, <1>4, <1>6, <1>7, <1>8

\* Nothing is missed when the event is not one of the end of a call.
LEMMA PlainHandled ==
  ASSUME Shaped, NEW t \in Threads, NEW kinds, kinds \cap Last = {}, Dispatches(t, kinds),
         NEW steps \in Seq(Plain), NEW row \in Statuses, NEW media \in OrNone(Sessions),
         Handled(t, steps, row, media)
  PROVE  Shaped' /\ \A u \in Threads : GoesOn(pc[u], pc'[u])
<1>1. /\ Shaped' /\ Quiet(pc[t]) /\ Quiet(pc'[t]) /\ \A u \in Threads : u # t => pc'[u] = pc[u]
      /\ pc'[t].todo = Tail(pc[t].todo) /\ (pc'[t].todo # <<>> => pc'[t].c = pc[t].c)
  BY Handling
<1>2. /\ pc[t].todo \in Seq(Kinds \cup {"Incoming"}) /\ pc[t].todo # <<>> /\ Head(pc[t].todo) \in kinds
  BY AtEvent
<1>3. Head(pc[t].todo) \notin Last
  BY <1>2
<1>4. Tail(pc[t].todo) = <<>> => \A i \in DOMAIN pc[t].todo : pc[t].todo[i] \notin Last
  BY <1>2, <1>3, LastOne
<1>5. Hears(pc[t], pc'[t])
  BY <1>1, <1>2, <1>3, <1>4 DEF Hears
<1> QED BY <1>1, <1>5 DEF GoesOn
-----------------------------------------------------------------------------
(* Steps of the gateway, the browsers' connections and the timers *)

\* A step that leaves the gateway alone.
LEMMA NoWord ==
  ASSUME Typed, UNCHANGED <<net, queue, unheard>>, faults' \in Nat
  PROVE  GatewayTypes /\ Heard
BY DEF Typed, GatewayTypes, Heard

\* No goroutine does anything.
LEMMA NobodyMoves ==
  ASSUME Shaped, UNCHANGED pc
  PROVE  Shaped' /\ \A t \in Threads : GoesOn(pc[t], pc'[t])
BY DEF Shaped, GoesOn

\* One call changes, and is no more and no less in progress, or done, than before.
LEMMA OneCall ==
  ASSUME Typed, NEW c \in Calls, NEW r \in CallRecords, call' = [call EXCEPT ![c] = r],
         r.reg = call[c].reg, r.done = call[c].done, r.dir = call[c].dir, r.again = call[c].again,
         r.status = call[c].status \/ (call[c].status \in Active /\ r.status \in Active),
         r.rec \in {call[c].rec, "closed"} \/ call[c].status \in Active
  PROVE  CallsKept
<1>1. call \in [Calls -> CallRecords]
  BY DEF Typed
<1>2. call' \in [Calls -> CallRecords]
  BY <1>1
<1>3. \A d \in Calls : call'[d] = (IF d = c THEN r ELSE call[d])
  BY <1>1
<1> QED BY <1>2, <1>3 DEF CallsKept, Kept

\* No call changes.
LEMMA NoCallMoves ==
  ASSUME Typed, UNCHANGED call
  PROVE  CallsKept
BY DEF Typed, CallsKept, Kept

\* What scheduleDisconnectHangup sets is the timer.
LEMMA DisconnectedKeeps ==
  ASSUME Typed, NEW m \in OrNone(Sessions)
  PROVE  /\ Disconnected(m) \in [Calls -> CallRecords]
         /\ \A c \in Calls : /\ Disconnected(m)[c].reg = call[c].reg
                             /\ Disconnected(m)[c].done = call[c].done
                             /\ Disconnected(m)[c].dir = call[c].dir
                             /\ Disconnected(m)[c].again = call[c].again
                             /\ Disconnected(m)[c].status = call[c].status
                             /\ Disconnected(m)[c].rec = call[c].rec
<1>1. call \in [Calls -> CallRecords] /\ med \in [Sessions -> SessionRecords]
  BY DEF Typed
<1>2. CASE Disconnected(m) = call
  BY <1>1, <1>2
<1>3. CASE Disconnected(m) # call
  <2>1. m # None /\ m \in Sessions
    BY <1>3 DEF Disconnected, OrNone
  <2> DEFINE d == med[m].bound
  <2>2. d # None /\ d \in Calls /\ Disconnected(m) = [call EXCEPT ![d].dtimer = m, ![d].armed = TRUE]
    BY <1>1, <1>3, <2>1 DEF Disconnected, SessionRecords, OrNone
  <2> HIDE DEF d
  <2>3. /\ call[d] \in CallRecords
        /\ [call[d] EXCEPT !.dtimer = m, !.armed = TRUE] \in CallRecords
    <3>1. call[d] \in CallRecords
      BY <1>1, <2>2
    <3>2. \A r \in CallRecords : [r EXCEPT !.dtimer = m, !.armed = TRUE] \in CallRecords
      BY <2>1 DEF CallRecords, OrNone
    <3> QED BY <3>1, <3>2
  <2> QED BY <1>1, <2>2, <2>3 DEF CallRecords
<1> QED BY <1>2, <1>3

\* The steps on sessions.
LEMMA MediaTypes ==
  ASSUME Typed, NEW m \in Sessions, NEW t \in Threads
  PROVE  /\ Reserve(m, t) \in [Sessions -> SessionRecords] /\ Unheld(m, t) \in [Sessions -> SessionRecords]
         /\ \A c \in Calls : Bound(m, c) \in [Sessions -> SessionRecords]
         /\ Closed \in SessionRecords
<1>1. med \in [Sessions -> SessionRecords] /\ med[m] \in SessionRecords
  BY DEF Typed
<1>2. \A d \in {"none", "armed", "paused"} : [med[m] EXCEPT !.held = t, !.drop = d] \in SessionRecords
  BY <1>1 DEF SessionRecords, OrNone
<1>3. Reserve(m, t) \in [Sessions -> SessionRecords]
  <2>1. med[m].drop \in {"none", "armed", "paused"}
    BY <1>1 DEF SessionRecords
  <2> QED BY <1>1, <1>2, <2>1 DEF Reserve
<1>4. Unheld(m, t) \in [Sessions -> SessionRecords]
  BY <1>1 DEF Unheld, SessionRecords, OrNone
<1>5. \A c \in Calls : Bound(m, c) \in [Sessions -> SessionRecords]
  BY <1>1 DEF Bound, SessionRecords, OrNone
<1>6. Closed \in SessionRecords
  BY DEF Closed, SessionRecords, OrNone
<1> QED BY <1>3, <1>4, <1>5, <1>6

\* A session that is removed, or let go, has its type.
LEMMA RemovedTypes ==
  ASSUME Typed, NEW m \in OrNone(Sessions), NEW t
  PROVE  Removed(m) \in [Sessions -> SessionRecords] /\ Released(m, t) \in [Sessions -> SessionRecords]
<1>1. med \in [Sessions -> SessionRecords]
  BY DEF Typed
<1>2. Removed(m) \in [Sessions -> SessionRecords]
  BY <1>1 DEF Removed, SessionRecords, OrNone
<1>3. CASE Released(m, t) = med
  BY <1>1, <1>2, <1>3
<1>4. CASE Released(m, t) # med
  <2>1. m \in Sessions
    BY <1>4 DEF Released, OrNone
  <2>2. med[m] \in SessionRecords /\ med[m].drop \in {"none", "armed", "paused"}
    BY <1>1, <2>1 DEF SessionRecords
  <2>3. \A d \in {"none", "armed", "paused"} : [med[m] EXCEPT !.held = None, !.drop = d] \in SessionRecords
    BY <2>2 DEF SessionRecords, OrNone
  <2>4. PICK d \in {"none", "armed", "paused"} :
           Released(m, t) = [med EXCEPT ![m] = [med[m] EXCEPT !.held = None, !.drop = d]]
    BY <1>1, <1>4, <2>1, <2>2 DEF Released
  <2> QED BY <1>1, <1>2, <2>1, <2>3, <2>4
<1> QED BY <1>3, <1>4

\* The loss of a connection leaves the calls as they are, but for their timers.
LEMMA ScheduleDropTypes ==
  ASSUME Typed, NEW m \in Sessions, NEW s \in {"up", "down", "gone"}, ScheduleDrop(m, s)
  PROVE  CallsKept /\ med' \in [Sessions -> SessionRecords]
<1>1. call' = Disconnected(m)
  BY DEF ScheduleDrop
<1>2. CallsKept
  BY <1>1, DisconnectedKeeps DEF CallsKept, Kept, OrNone
<1>3. med \in [Sessions -> SessionRecords] /\ med[m].drop \in {"none", "armed", "paused"}
  BY DEF Typed, SessionRecords
<1>4. PICK x \in {"none", "armed", "paused"} : med' = [med EXCEPT ![m] = [med[m] EXCEPT !.sess = s, !.drop = x]]
  BY <1>3 DEF ScheduleDrop
<1>5. \A d \in {"none", "armed", "paused"} : [med[m] EXCEPT !.sess = s, !.drop = d] \in SessionRecords
  BY <1>3 DEF SessionRecords
<1> QED BY <1>2, <1>3, <1>4, <1>5

\* What makes a step calm.
LEMMA Calming ==
  ASSUME Typed, GatewayTypes, Heard, CallsKept, UNCHANGED <<rings, slots, early>>,
         Shaped', \A t \in Threads : GoesOn(pc[t], pc'[t]),
         med' \in [Sessions -> SessionRecords] \/ UNCHANGED med,
         fired' \subseteq Callbacks \/ UNCHANGED fired, seen' \subseteq Calls \/ UNCHANGED seen,
         auto' \in BOOLEAN \/ UNCHANGED auto,
         (rows' \in [Calls -> Statuses] /\ deleted' \subseteq Calls) \/ UNCHANGED history,
         ops' \in Nat \/ UNCHANGED ops
  PROVE  Calmly
<1>1. /\ device' = device /\ waiting' = waiting /\ rings' = rings /\ early' = early
  BY DEF slots
<1>2. rows' \in [Calls -> Statuses] /\ deleted' \subseteq Calls
  BY DEF Typed, history
<1>3. /\ med' \in [Sessions -> SessionRecords] /\ fired' \subseteq Callbacks /\ seen' \subseteq Calls
      /\ auto' \in BOOLEAN /\ ops' \in Nat
  BY DEF Typed
<1>4. call' \in [Calls -> CallRecords] /\ Kept
  BY DEF CallsKept
<1>5. Typed'
  BY <1>1, <1>2, <1>3, <1>4 DEF Typed, GatewayTypes
<1> QED BY <1>1, <1>4, <1>5 DEF Calmly, Calm

\* Steps of the gateway.
LEMMA CalmGateway ==
  ASSUME Typed, Shaped, NEW c \in Calls, NetBusy(c) \/ NetProgress(c) \/ NetEnd(c)
  PROVE  Calmly
<1>1. UNCHANGED <<rings, call, slots, med, early, fired, seen, auto, history, pc, ops>>
  BY DEF NetBusy, NetProgress, NetEnd, inbox, timers
<1>2. GatewayTypes /\ Heard
  <2>1. /\ net \in [Calls -> Alive \cup {"none", "gone"}]
        /\ queue \in Seq([kind : Kinds, call : Calls]) /\ unheard \subseteq Calls
    BY DEF Typed
  <2>2. CASE NetEnd(c)
    <3>1. EndsCall(c)
      BY <2>2 DEF NetEnd, EndsCall
    <3> QED BY <3>1, Outcome
  <2>3. CASE NetBusy(c) \/ NetProgress(c)
    <3>1. PICK k \in {"Busy", "Ringing", "Answered"}, n \in {"gone", "alerting", "up"} :
             /\ net' = [net EXCEPT ![c] = n] /\ Says(k, c) /\ unheard' = unheard
             /\ net[c] # "gone" /\ (n = "gone" => net[c] = "none")
      BY <2>3 DEF NetBusy, NetProgress
    <3>2. Event(k, c) \in [kind : Kinds, call : Calls] /\ k \in Kinds \ ({"Waiting"} \cup Last)
      BY DEF Event, Kinds, Last
    <3>5. (queue' = queue \/ queue' = Append(queue, Event(k, c))) /\ faults' \in Nat
      BY <3>1, <3>2, Saying
    <3>3. GatewayTypes
      <4>1. Append(queue, Event(k, c)) \in Seq([kind : Kinds, call : Calls])
        BY <2>1, <3>2
      <4>2. net' \in [Calls -> Alive \cup {"none", "gone"}]
        BY <2>1, <3>1 DEF Alive
      <4> QED BY <2>1, <3>1, <3>5, <4>1, <4>2 DEF GatewayTypes
    <3>4. \A d \in Calls : /\ net'[d] \in {"none", "offered"} => net'[d] = net[d]
                           /\ net[d] = "gone" => net'[d] = "gone"
                           /\ net'[d] = "gone" => net[d] \in {"none", "gone"}
      BY <2>1, <3>1
    <3> QED BY <3>1, <3>2, <3>3, <3>4, <3>5 DEF Heard
  <2> QED BY <2>2, <2>3
<1> QED BY <1>1, <1>2, NoCallMoves, NobodyMoves, Calming

\* A fault, or none, leaves a number of them.
LEMMA Bounded ==
  ASSUME Typed
  PROVE  (Fault \/ UNCHANGED faults => faults' \in Nat) /\ (Op => ops' \in Nat)
<1>1. faults \in Nat /\ ops \in Nat
  BY DEF Typed
<1> QED BY <1>1 DEF Fault, Op

\* Connections of browsers.
LEMMA CalmMedia ==
  ASSUME Typed, Shaped, NEW m \in Media, MediaDown(m) \/ MediaUp(m) \/ CancelMedia(m) \/ ExpireUnbound(m)
  PROVE  Calmly
<1>1. UNCHANGED <<net, queue, unheard, rings, slots, early, fired, seen, auto, history, pc, ops>> /\ m \in Sessions
  BY DEF MediaDown, MediaUp, CancelMedia, ExpireUnbound, inbox, timers, bounds, gateway, Sessions
<1>2. faults' \in Nat
  BY Bounded DEF MediaDown, MediaUp, CancelMedia, ExpireUnbound, bounds
<1>3. med \in [Sessions -> SessionRecords] /\ Closed \in SessionRecords
  BY <1>1, MediaTypes DEF Typed, Closed, SessionRecords, OrNone
<1>4. CallsKept /\ med' \in [Sessions -> SessionRecords]
  <2>1. CASE MediaDown(m)
    BY <1>1, <2>1, ScheduleDropTypes DEF MediaDown
  <2>2. CASE MediaUp(m)
    <3> DEFINE d == med[m].bound
    <3>1. med' \in [Sessions -> SessionRecords]
      BY <1>1, <1>3, <2>2 DEF MediaUp, SessionRecords
    <3>2. CASE call' = call
      BY <3>1, <3>2, NoCallMoves
    <3>3. CASE call' # call
      <4>1. d \in Calls /\ call' = [call EXCEPT ![d].dtimer = None, ![d].armed = FALSE]
        BY <1>1, <1>3, <2>2, <3>3 DEF MediaUp, SessionRecords, OrNone
      <4> HIDE DEF d
      <4>2. \A r \in CallRecords : [r EXCEPT !.dtimer = None, !.armed = FALSE] \in CallRecords
        BY DEF CallRecords, OrNone
      <4>3. call \in [Calls -> CallRecords]
        BY DEF Typed
      <4>4. call[d] \in CallRecords
        BY <4>1, <4>3
      <4>5. PICK r \in CallRecords : r = [call[d] EXCEPT !.dtimer = None, !.armed = FALSE]
        BY <4>2, <4>4
      <4>6. /\ r.reg = call[d].reg /\ r.done = call[d].done
            /\ r.dir = call[d].dir /\ r.again = call[d].again
            /\ r.status = call[d].status
            /\ r.rec = call[d].rec
        BY <4>4, <4>5 DEF CallRecords
      <4>7. call' = [call EXCEPT ![d] = r]
        BY <4>1, <4>3, <4>5
      <4> QED BY <3>1, <4>1, <4>6, <4>7, OneCall
    <3> QED BY <3>2, <3>3
  <2>3. CASE CancelMedia(m) \/ ExpireUnbound(m)
    BY <1>1, <1>3, <2>3, NoCallMoves DEF CancelMedia, ExpireUnbound
  <2> QED BY <2>1, <2>2, <2>3
<1> QED BY <1>1, <1>2, <1>4, NoWord, NobodyMoves, Calming

\* The timers, and the prompt.
LEMMA CalmTimers ==
  ASSUME Typed, Shaped, NEW c \in Calls, DisconnectFires(c) \/ AutoAnswerFires(c) \/ PromptFails(c)
  PROVE  Calmly
<1>1. UNCHANGED <<net, queue, unheard, rings, slots, early, med, seen, auto, history, pc, ops>>
  BY DEF DisconnectFires, AutoAnswerFires, PromptFails, inbox, bounds, gateway
<1>2. faults' \in Nat
  BY Bounded DEF DisconnectFires, AutoAnswerFires, PromptFails, bounds
<1>3. call \in [Calls -> CallRecords] /\ call[c] \in CallRecords /\ fired \subseteq Callbacks
  BY DEF Typed
<1>4. fired' \subseteq Callbacks
  <2>1. call[c].dtimer \in OrNone(Sessions) /\ None \in OrNone(Sessions)
    BY <1>3 DEF CallRecords, OrNone
  <2>2. \A x \in {"expire", "hangup", "answer"}, n \in OrNone(Sessions) : Callback(x, c, n) \in Callbacks
    BY DEF Callback, Callbacks
  <2> QED BY <1>3, <2>1, <2>2 DEF DisconnectFires, AutoAnswerFires, PromptFails
<1>5. CallsKept
  <2>1. CASE DisconnectFires(c)
    <3>1. [call[c] EXCEPT !.armed = FALSE] \in CallRecords
      BY <1>3 DEF CallRecords
    <3> QED BY <1>3, <2>1, <3>1 DEF DisconnectFires, CallsKept, Kept, CallRecords
  <2>2. CASE AutoAnswerFires(c)
    <3>1. [call[c] EXCEPT !.atimer = FALSE] \in CallRecords
      BY <1>3 DEF CallRecords
    <3> QED BY <1>3, <2>2, <3>1 DEF AutoAnswerFires, CallsKept, Kept, CallRecords
  <2>3. CASE PromptFails(c)
    BY <2>3, NoCallMoves DEF PromptFails
  <2> QED BY <2>1, <2>2, <2>3
<1> QED BY <1>1, <1>2, <1>4, <1>5, NoWord, NobodyMoves, Calming

\* Callbacks of the timers.
LEMMA CalmCallbacks ==
  ASSUME Typed, Shaped, NEW f \in fired, ExpireDisconnected(f) \/ HangupExpired(f)
  PROVE  Calmly
<1>1. UNCHANGED <<rings, slots, early, call, med, seen, auto, history, pc, ops>>
  BY DEF ExpireDisconnected, HangupExpired, inbox, bounds, gateway
<1>2. fired \subseteq Callbacks /\ f \in Callbacks /\ f.c \in Calls
  BY DEF Typed, Callbacks
<1>3. fired' \subseteq Callbacks
  <2>1. Callback("hangup", f.c, None) \in Callbacks
    BY <1>2 DEF Callback, Callbacks, OrNone
  <2> QED BY <1>2, <2>1 DEF ExpireDisconnected, HangupExpired
<1>4. GatewayTypes /\ Heard
  <2>1. CASE ExpireDisconnected(f)
    BY <2>1, NoWord, Bounded DEF ExpireDisconnected, gateway, bounds
  <2>2. CASE HangupExpired(f)
    BY <1>2, <2>2, Outcome DEF HangupExpired
  <2> QED BY <2>1, <2>2
<1> QED BY <1>1, <1>3, <1>4, NoCallMoves, NobodyMoves, Calming
-----------------------------------------------------------------------------
(* Requests *)

\* A goroutine begins with what it has to do for a request.
LEMMA Beginning ==
  ASSUME Typed, Shaped, NEW t \in Clients, NEW go, NEW c \in OrNone(Calls), NEW m \in OrNone(Sessions),
         NEW claim \in BOOLEAN, NEW lease \in OrNone(Sessions),
         Begins(t, go, c, m, claim, lease),
         \/ go = <<"device", "dial", "dialed", "leave">> /\ m \in Media /\ c = None /\ ~claim
         \/ go \in ClaimLists /\ m \in Media /\ c \in Calls
         \/ go \in Seq(Plain) /\ c \in Calls
  PROVE  Shaped' /\ (\A u \in Threads : GoesOn(pc[u], pc'[u])) /\ ops' \in Nat
<1> DEFINE q == [Idle EXCEPT !.go = go, !.c = c, !.m = m, !.claim = claim, !.lease = lease,
                             !.again = claim /\ call[c].again]
<1>1. pc[t] = Idle /\ Op /\ Becomes(t, q) /\ t \in Threads
  BY DEF Begins, Threads
<1>2. go \in Seq(Steps)
  BY ListTypes DEF DialLists
<1>3. (claim /\ call[c].again) \in BOOLEAN
  BY Zenon
<1>4. /\ q.go = go /\ q.c = c /\ q.m = m /\ q.claim = claim /\ q.todo = <<>>
      /\ q \in Locals
  <2>1. Idle \in Locals /\ Idle.todo = <<>>
    BY <1>1, IdleShape DEF Shape, Idle
  <2>2. PICK a \in BOOLEAN : a = (claim /\ call[c].again)
    BY <1>3
  <2>3. q = [Idle EXCEPT !.go = go, !.c = c, !.m = m, !.claim = claim, !.lease = lease, !.again = a]
    BY <2>2, Zenon
  <2> QED BY <1>2, <2>1, <2>3 DEF Locals
<1> HIDE DEF q
<1>5. Shape(q, t) /\ Quiet(q)
  <2>1. c # None => c \in Calls
    BY DEF OrNone
  <2>2. c \in Calls => c # None
    BY PhoneAssumption DEF PhoneAssumption
  <2> QED BY <1>4, <2>1, <2>2 DEF Shape, Quiet, DialLists
<1>6. GoesOn(pc[t], q)
  <2>1. Idle.todo = <<>>
    BY DEF Idle
  <2>2. Quiet(pc[t]) /\ pc[t].todo = <<>>
    BY <1>1, <2>1, IdleShape
  <2> QED BY <1>4, <1>5, <2>2 DEF GoesOn, Hears
<1> QED BY <1>1, <1>5, <1>6, Becoming, Bounded

\* Requests that take a session for a call, or for a call to come.
LEMMA CalmClaims ==
  ASSUME Typed, Shaped, NEW t \in Clients, NEW m \in Media, NEW c \in Calls,
         Answer(t, m, c) \/ Reject(t, m, c) \/ RefreshMedia(t, m, c)
  PROVE  Calmly
<1>1. /\ UNCHANGED <<net, queue, unheard, rings, slots, early, seen, auto, fired, history, faults>>
      /\ med' = Reserve(m, t) /\ m \in Sessions /\ t \in Threads /\ m \in OrNone(Sessions)
  BY DEF Answer, Reject, RefreshMedia, ClaimIncoming, inbox, timers, gateway, Sessions, Threads,
         OrNone
<1>2. med' \in [Sessions -> SessionRecords]
  BY <1>1, MediaTypes
<1>3. call \in [Calls -> CallRecords] /\ call[c] \in CallRecords /\ faults' \in Nat
  BY <1>1 DEF Typed
<1>4. CallsKept
  <2>1. CASE UNCHANGED call
    BY <2>1, NoCallMoves
  <2>2. CASE call' = [call EXCEPT ![c].pending = TRUE, ![c].atimer = FALSE]
    <3>1. PICK r \in CallRecords : r = [call[c] EXCEPT !.pending = TRUE, !.atimer = FALSE]
      BY <1>3 DEF CallRecords
    <3>2. /\ r.reg = call[c].reg /\ r.done = call[c].done
          /\ r.dir = call[c].dir /\ r.again = call[c].again
          /\ r.status = call[c].status
          /\ r.rec = call[c].rec
      BY <1>3, <3>1 DEF CallRecords
    <3>3. call' = [call EXCEPT ![c] = r]
      BY <1>3, <2>2, <3>1
    <3> QED BY <3>2, <3>3, OneCall
  <2> QED BY <2>1, <2>2 DEF Answer, Reject, RefreshMedia, ClaimIncoming
<1>5. Shaped' /\ (\A u \in Threads : GoesOn(pc[u], pc'[u])) /\ ops' \in Nat
  <2>1. CASE Answer(t, m, c) \/ Reject(t, m, c)
    <3>1. PICK go \in ClaimLists : Begins(t, go, c, m, TRUE, None)
      BY <2>1 DEF Answer, Reject, ClaimIncoming, ClaimLists
    <3>2. c \in OrNone(Calls) /\ None \in OrNone(Sessions)
      BY DEF OrNone
    <3> QED BY <1>1, <3>1, <3>2, Beginning
  <2>2. CASE RefreshMedia(t, m, c)
    <3>1. PICK lease \in {None, call[c].lease} :
             Begins(t, <<"reach", "swap", "leave">>, c, m, FALSE, lease)
      BY <2>2 DEF RefreshMedia
    <3>2. lease \in OrNone(Sessions) /\ c \in OrNone(Calls)
      BY <1>3, <3>1 DEF CallRecords, OrNone, Sessions
    <3>3. <<"reach", "swap", "leave">> \in ClaimLists
      BY DEF ClaimLists
    <3> QED BY <1>1, <3>1, <3>2, <3>3, Beginning
  <2> QED BY <2>1, <2>2
<1> QED BY <1>1, <1>2, <1>3, <1>4, <1>5, NoWord, Calming

\* A browser dials: its session is reserved.
LEMMA CalmStart ==
  ASSUME Typed, Shaped, NEW t \in Clients, NEW m \in Media, StartCall(t, m)
  PROVE  Calmly
<1>1. /\ UNCHANGED <<net, queue, unheard, rings, slots, early, seen, auto, fired, history, faults, call>>
      /\ med' = Reserve(m, t) /\ m \in Sessions /\ t \in Threads /\ m \in OrNone(Sessions)
  BY DEF StartCall, inbox, timers, gateway, Sessions, Threads, OrNone
<1>2. med' \in [Sessions -> SessionRecords]
  BY <1>1, MediaTypes
<1>3. faults' \in Nat
  BY <1>1 DEF Typed
<1>4. Shaped' /\ (\A u \in Threads : GoesOn(pc[u], pc'[u])) /\ ops' \in Nat
  <2>1. Begins(t, <<"device", "dial", "dialed", "leave">>, None, m, FALSE, None)
    BY DEF StartCall
  <2>2. None \in OrNone(Calls) /\ None \in OrNone(Sessions)
    BY DEF OrNone
  <2> QED BY <1>1, <2>1, <2>2, Beginning
<1> QED BY <1>1, <1>2, <1>3, <1>4, NoWord, NoCallMoves, Calming

\* Requests that take none.
LEMMA CalmHangup ==
  ASSUME Typed, Shaped, NEW t \in Clients, NEW c \in Calls, Hangup(t, c)
  PROVE  Calmly
<1>1. /\ UNCHANGED <<net, queue, unheard, rings, slots, early, seen, auto, fired, history, faults, call, med>>
      /\ Begins(t, <<"hangup", "report", "leave">>, c, None, FALSE, None)
  BY DEF Hangup, inbox, timers, gateway
<1>2. <<"hangup", "report", "leave">> \in Seq(Plain) /\ c \in OrNone(Calls) /\ None \in OrNone(Sessions)
  BY DEF Plain, Steps, OrNone
<1>3. Shaped' /\ (\A u \in Threads : GoesOn(pc[u], pc'[u])) /\ ops' \in Nat
  BY <1>1, <1>2, Beginning
<1>4. faults' \in Nat
  BY <1>1 DEF Typed
<1> QED BY <1>1, <1>3, <1>4, NoWord, NoCallMoves, Calming

\* The history and the setting of the auto answer.
LEMMA CalmSettings ==
  ASSUME Typed, Shaped, (\E c \in Calls : DeleteHistory(c)) \/ (\E on \in BOOLEAN : ConfigureAutoAnswer(on))
  PROVE  Calmly
<1>1. /\ UNCHANGED <<net, queue, unheard, rings, slots, early, seen, fired, faults, med, pc>> /\ Op
  BY DEF DeleteHistory, ConfigureAutoAnswer, inbox, timers, gateway
<1>2. faults' \in Nat /\ ops' \in Nat
  BY <1>1, Bounded DEF Typed
<1>3. CASE \E c \in Calls : DeleteHistory(c)
  <2>1. rows' \in [Calls -> Statuses] /\ deleted' \subseteq Calls
    BY <1>3 DEF DeleteHistory, Typed, Statuses, OrNone
  <2>2. UNCHANGED <<call, auto>>
    BY <1>3 DEF DeleteHistory, timers
  <2> QED BY <1>1, <1>2, <2>1, <2>2, NoWord, NoCallMoves, NobodyMoves, Calming
<1>4. CASE \E on \in BOOLEAN : ConfigureAutoAnswer(on)
  <2>1. auto' \in BOOLEAN /\ UNCHANGED history
    BY <1>4 DEF ConfigureAutoAnswer
  <2>2. PICK on \in BOOLEAN :
          call' = [c \in Calls |->
                     IF call[c].reg
                     THEN [call[c] EXCEPT !.atimer = on /\ call[c].dir = "in" /\ call[c].status = "ringing"]
                     ELSE call[c]]
    BY <1>4 DEF ConfigureAutoAnswer
  <2>3. \A c \in Calls : /\ call'[c] \in CallRecords /\ call'[c].reg = call[c].reg
                         /\ call'[c].done = call[c].done /\ call'[c].status = call[c].status
                         /\ call'[c].rec = call[c].rec
                         /\ call'[c].dir = call[c].dir /\ call'[c].again = call[c].again
    <3>1. SUFFICES ASSUME NEW c \in Calls
                   PROVE  /\ call'[c] \in CallRecords /\ call'[c].reg = call[c].reg
                          /\ call'[c].done = call[c].done /\ call'[c].status = call[c].status
                          /\ call'[c].rec = call[c].rec
                          /\ call'[c].dir = call[c].dir /\ call'[c].again = call[c].again
      OBVIOUS
    <3>2. call[c] \in CallRecords
      BY DEF Typed
    <3>3. PICK a \in BOOLEAN : a = (on /\ call[c].dir = "in" /\ call[c].status = "ringing")
      BY Zenon
    <3>4. call'[c] = IF call[c].reg THEN [call[c] EXCEPT !.atimer = a] ELSE call[c]
      BY <2>2, <3>3, Zenon
    <3> QED BY <3>2, <3>4 DEF CallRecords
  <2>4. CallsKept
    BY <2>2, <2>3 DEF CallsKept, Kept
  <2> QED BY <1>1, <1>2, <2>1, <2>4, NoWord, NobodyMoves, Calming
<1> QED BY <1>3, <1>4
-----------------------------------------------------------------------------
(* Steps of a goroutine that may come in any order *)

\* A goroutine that goes on to plain steps, about the same call.
LEMMA Plainly ==
  ASSUME Shaped, NEW t \in Threads, Quiet(pc[t]), pc[t].c \in Calls, NEW q \in Locals,
         q.go \in Seq(Plain), q.c = pc[t].c, q.todo = <<"Ended">> \/ q.todo = pc[t].todo,
         Becomes(t, q)
  PROVE  Shaped' /\ \A u \in Threads : GoesOn(pc[u], pc'[u])
<1>1. Shape(q, t) /\ Quiet(q)
  BY PlainShape
<1>2. GoesOn(pc[t], q)
  BY <1>1 DEF GoesOn, Hears
<1> QED BY <1>1, <1>2, Becoming

\* The lost connection is taken up again, a session let go, a call hung up.
LEMMA CalmPlain ==
  ASSUME Typed, Shaped, NEW t \in Threads, ResumeDrop(t) \/ Unlink(t) \/ Drop(t)
  PROVE  Calmly
<1>1. UNCHANGED <<rings, slots, early, seen, auto, fired, history, ops>>
  BY DEF ResumeDrop, Unlink, Drop, inbox, timers, gateway, bounds
<1>2. PICK x \in Plain \ {"answer", "leave"} : At(t, x) /\ Then(t)
  BY DEF ResumeDrop, Unlink, Drop, Plain, Steps
<1>3. Shaped' /\ \A u \in Threads : GoesOn(pc[u], pc'[u])
  BY <1>2, PlainThen
<1>4. pc[t].c \in Calls /\ pc[t] \in Locals
  BY <1>2, AtPlain
<1>5. med \in [Sessions -> SessionRecords] /\ faults \in Nat
  BY DEF Typed
<1>6. CallsKept /\ (med' \in [Sessions -> SessionRecords] \/ UNCHANGED med)
  <2>1. CASE ResumeDrop(t)
    <3>1. CASE pc[t].m \in Sessions
      <4>1. med[pc[t].m].sess \in {"up", "down", "gone"}
        BY <1>5, <3>1 DEF SessionRecords
      <4> QED BY <2>1, <3>1, <4>1, ScheduleDropTypes DEF ResumeDrop
    <3>2. CASE pc[t].m \notin Sessions
      <4>1. pc[t].m = None
        BY <1>4, <3>2 DEF Locals, OrNone
      <4>2. call' = call
        BY <2>1, <4>1 DEF ResumeDrop, ScheduleDrop, Disconnected
      <4>3. med' = med
        BY <1>5, <2>1, <3>2 DEF ResumeDrop, ScheduleDrop
      <4> QED BY <4>2, <4>3, NoCallMoves
    <3> QED BY <3>1, <3>2
  <2>2. CASE Unlink(t)
    <3>1. pc[t].lease \in OrNone(Sessions)
      BY <1>4 DEF Locals
    <3> QED BY <2>2, <3>1, DisconnectedKeeps, RemovedTypes DEF Unlink, CallsKept, Kept
  <2>3. CASE Drop(t)
    BY <2>3, NoCallMoves DEF Drop
  <2> QED BY <2>1, <2>2, <2>3
<1>7. GatewayTypes /\ Heard
  <2>1. CASE ResumeDrop(t) \/ Unlink(t)
    BY <1>5, <2>1, NoWord DEF ResumeDrop, Unlink, gateway, bounds
  <2>2. CASE Drop(t)
    BY <1>4, <2>2, Outcome DEF Drop
  <2> QED BY <2>1, <2>2
<1> QED BY <1>1, <1>3, <1>6, <1>7, Calming

\* The gateway is asked to end or refuse a call, and what it says counts.
LEMMA CalmRefusals ==
  ASSUME Typed, Shaped, NEW t \in Threads, Refuse(t) \/ HangupCall(t)
  PROVE  Calmly
<1>1. UNCHANGED <<rings, slots, early, seen, auto, fired, history, ops, call, med>>
  BY DEF Refuse, HangupCall, inbox, timers
<1>2. PICK x \in Plain \ {"answer", "leave"} : At(t, x) /\ (Then(t) \/ Return(t))
  BY DEF Refuse, HangupCall, Plain, Steps
<1>3. Shaped' /\ \A u \in Threads : GoesOn(pc[u], pc'[u])
  BY <1>2, PlainThen
<1>4. pc[t].c \in Calls
  BY <1>2, AtPlain
<1>5. GatewayTypes /\ Heard
  BY <1>4, Outcome DEF Refuse, HangupCall
<1> QED BY <1>1, <1>3, <1>5, NoCallMoves, Calming

\* Steps that concern the record: the recording is opened, a copy taken and saved.
LEMMA CalmRecording ==
  ASSUME Typed, Shaped, NEW t \in Threads, StartRecording(t)
  PROVE  Calmly
<1> DEFINE c == pc[t].c
<1>1. UNCHANGED <<net, queue, unheard, rings, slots, early, seen, auto, fired, history, ops, med>>
  BY DEF StartRecording, inbox, timers, gateway
<1>2. At(t, "record") /\ "record" \in Plain \ {"answer", "leave"}
  BY DEF StartRecording, Plain, Steps
<1>3. /\ Quiet(pc[t]) /\ c \in Calls /\ pc[t] \in Locals /\ Tail(pc[t].go) \in Seq(Plain)
  BY <1>2, AtPlain
<1>4. faults' \in Nat
  BY Bounded DEF StartRecording
<1>5. call \in [Calls -> CallRecords] /\ call[c] \in CallRecords /\ call[c].status \in Statuses
  BY <1>3 DEF Typed, CallRecords
<1>6. CallsKept
  <2>1. CASE UNCHANGED call
    BY <2>1, NoCallMoves
  <2>2. ASSUME NEW v \in {"open", "closed"}, call' = [call EXCEPT ![c].rec = v],
               v = "closed" \/ call[c].status \in Active
        PROVE  CallsKept
    <3>1. PICK r \in CallRecords : r = [call[c] EXCEPT !.rec = v]
      BY <1>5 DEF CallRecords
    <3>2. /\ r.reg = call[c].reg /\ r.done = call[c].done
          /\ r.dir = call[c].dir /\ r.again = call[c].again
          /\ r.status = call[c].status /\ r.rec = v
      BY <1>5, <3>1 DEF CallRecords
    <3>3. call' = [call EXCEPT ![c] = r]
      BY <1>5, <2>2, <3>1
    <3> QED BY <1>3, <2>2, <3>2, <3>3, OneCall
  <2> QED BY <2>1, <2>2 DEF StartRecording
<1>7. Shaped' /\ \A u \in Threads : GoesOn(pc[u], pc'[u])
  <2>1. CASE Then(t)
    BY <1>2, <2>1, PlainThen
  <2>2. CASE Becomes(t, [pc[t] EXCEPT !.go = <<"write">> \o Tail(@), !.row = call[c].status])
    <3>1. PICK q \in Locals : q = [pc[t] EXCEPT !.go = <<"write">> \o Tail(@), !.row = call[c].status]
      <4>1. <<"write">> \o Tail(pc[t].go) \in Seq(Steps)
        BY <1>3, ListTypes DEF Plain, Steps
      <4> QED BY <1>3, <1>5, <4>1 DEF Locals
    <3>2. q.go = <<"write">> \o Tail(pc[t].go) /\ q.c = c /\ q.todo = pc[t].todo
      BY <1>3, <3>1 DEF Locals
    <3>3. q.go \in Seq(Plain)
      BY <1>3, <3>2 DEF Plain, Steps
    <3> QED BY <1>3, <2>2, <3>1, <3>2, <3>3, Plainly
  <2> QED BY <2>1, <2>2 DEF StartRecording
<1> QED BY <1>1, <1>4, <1>6, <1>7, NoWord, Calming

\* A record is copied, saved, or a request reports the end.
LEMMA CalmRecords ==
  ASSUME Typed, Shaped, NEW t \in Threads, Snapshot(t) \/ Report(t) \/ (Persist(t) /\ ~At(t, "final"))
  PROVE  Calmly
<1>1. UNCHANGED <<net, queue, unheard, rings, slots, early, seen, auto, fired, ops, faults, call, med, deleted>>
  BY DEF Snapshot, Report, Persist, inbox, timers, gateway, history, bounds
<1>2. PICK x \in {"snap", "report", "write"} : At(t, x)
  BY DEF Snapshot, Report, Persist
<1>3. x \in Plain \ {"answer", "leave"}
  BY <1>2 DEF Plain, Steps
<1>4. Quiet(pc[t]) /\ pc[t].c \in Calls /\ pc[t] \in Locals /\ Tail(pc[t].go) \in Seq(Plain)
  BY <1>2, <1>3, AtPlain
<1>5. faults' \in Nat
  BY <1>1 DEF Typed
<1>6. rows' \in [Calls -> Statuses] /\ deleted' \subseteq Calls
  <2>1. rows \in [Calls -> Statuses] /\ deleted \subseteq Calls /\ pc[t].row \in Statuses
    BY <1>4 DEF Typed, Locals
  <2> QED BY <1>1, <2>1 DEF Snapshot, Report, Persist, history
<1>7. PICK q \in Locals : /\ Becomes(t, q) /\ q.c = pc[t].c /\ q.go = Tail(pc[t].go)
                          /\ (q.todo = pc[t].todo \/ q.todo = <<"Ended">>)
  <2>1. Tail(pc[t].go) \in Seq(Steps)
    BY <1>4, ListTypes
  <2>2. CASE Snapshot(t)
    <3>1. call[pc[t].c].status \in Statuses
      BY <1>4 DEF Typed, CallRecords
    <3>2. PICK s \in Statuses : Becomes(t, [pc[t] EXCEPT !.go = Tail(@), !.row = s])
      BY <2>2, <3>1 DEF Snapshot
    <3> DEFINE r == [pc[t] EXCEPT !.go = Tail(@), !.row = s]
    <3>3. r \in Locals /\ r.c = pc[t].c /\ r.go = Tail(pc[t].go) /\ r.todo = pc[t].todo
      BY <1>4, <2>1 DEF Locals
    <3>4. Becomes(t, r)
      BY <3>2
    <3> HIDE DEF r
    <3> QED BY <3>3, <3>4
  <2>3. CASE Report(t)
    <3>1. Becomes(t, [pc[t] EXCEPT !.go = Tail(@), !.todo = <<"Ended">>])
      BY <2>3 DEF Report
    <3>2. <<"Ended">> \in Seq(Kinds \cup {"Incoming"})
      BY DEF Kinds
    <3> DEFINE r == [pc[t] EXCEPT !.go = Tail(@), !.todo = <<"Ended">>]
    <3>3. r \in Locals /\ r.c = pc[t].c /\ r.go = Tail(pc[t].go) /\ r.todo = <<"Ended">>
      BY <1>4, <2>1, <3>2 DEF Locals
    <3>4. Becomes(t, r)
      BY <3>1
    <3> HIDE DEF r
    <3> QED BY <3>3, <3>4
  <2>4. CASE Persist(t)
    <3>1. Becomes(t, [pc[t] EXCEPT !.go = Tail(@), !.row = None])
      BY <2>4 DEF Persist
    <3> DEFINE r == [pc[t] EXCEPT !.go = Tail(@), !.row = None]
    <3>2. r \in Locals /\ r.c = pc[t].c /\ r.go = Tail(pc[t].go) /\ r.todo = pc[t].todo
      BY <1>4, <2>1 DEF Locals, Statuses, OrNone
    <3>3. Becomes(t, r)
      BY <3>1
    <3> HIDE DEF r
    <3> QED BY <3>2, <3>3
  <2> QED BY <2>2, <2>3, <2>4
<1>8. Shaped' /\ \A u \in Threads : GoesOn(pc[u], pc'[u])
  BY <1>4, <1>7, Plainly
<1> QED BY <1>1, <1>5, <1>6, <1>8, NoWord, NoCallMoves, Calming
-----------------------------------------------------------------------------
(* Steps of a goroutine that takes a call with a session *)

\* Who takes a call serves a request, with a session of its browser.
LEMMA Claiming ==
  ASSUME Shaped, NEW t \in Threads, pc[t].go \in ClaimLists
  PROVE  /\ t \in Clients /\ pc[t].m \in Media /\ pc[t].c \in Calls /\ pc[t] \in Locals /\ Quiet(pc[t])
         /\ Tail(pc[t].go) \in ClaimLists \cup Seq(Plain)
<1>1. Shape(pc[t], t)
  BY DEF Shaped
<1>2. pc[t].go # <<>> /\ Head(pc[t].go) \in {"attach", "answer", "assign", "usurp", "reach", "swap"}
  BY DEF ClaimLists
<1>3. pc[t].go \notin Seq(Plain)
  <2>1. \A g \in ClaimLists : g[1] \notin Plain \/ (Len(g) > 1 /\ g[2] \notin Plain)
    BY DEF ClaimLists, Plain
  <2>2. \A g \in Seq(Plain) : \A i \in 1 .. Len(g) : g[i] \in Plain
    OBVIOUS
  <2>3. pc[t].go # <<>> /\ pc[t].go \in Seq(Plain) => 1 \in 1 .. Len(pc[t].go)
    OBVIOUS
  <2>4. pc[t].go \in Seq(Plain) /\ Len(pc[t].go) > 1 => 2 \in 1 .. Len(pc[t].go)
    OBVIOUS
  <2> QED BY <1>2, <2>1, <2>2, <2>3, <2>4
<1>4. pc[t].go \notin EndLists
  BY <1>2, <1>1, Places
<1>5. Tail(pc[t].go) \in ClaimLists \cup Seq(Plain)
  <2>1. {<<"record", "leave">>, <<"refuse", "report", "leave">>, <<"leave">>} \subseteq Seq(Plain)
    BY DEF Plain, Steps
  <2> HIDE DEF Plain
  <2>2. \A g \in ClaimLists : \/ Tail(g) \in {<<"record", "leave">>, <<"refuse", "report", "leave">>, <<"leave">>}
                              \/ Tail(g) \in ClaimLists
    BY Rests, Zenon DEF ClaimLists
  <2> QED BY <2>1, <2>2
<1>6. pc[t].c \in Calls
  BY <1>1, <1>2, HasCall
<1> QED BY <1>1, <1>3, <1>4, <1>5, <1>6 DEF Shape, Quiet

\* It goes on with what follows, or with plain steps.
LEMMA ClaimGoes ==
  ASSUME Shaped, NEW t \in Threads, pc[t].go \in ClaimLists,
         NEW g \in ClaimLists \cup Seq(Plain), Goto(t, g)
  PROVE  Shaped' /\ \A u \in Threads : GoesOn(pc[u], pc'[u])
<1> DEFINE q == [pc[t] EXCEPT !.go = g]
<1>1. t \in Clients /\ pc[t].m \in Media /\ pc[t].c \in Calls /\ pc[t] \in Locals /\ Quiet(pc[t])
  BY Claiming
<1>2. q \in Locals /\ q.go = g /\ q.c = pc[t].c /\ q.m = pc[t].m /\ q.todo = pc[t].todo
  BY <1>1, ListTypes DEF Locals
<1>3. Becomes(t, q)
  BY DEF Goto
<1> HIDE DEF q
<1>4. Shape(q, t) /\ Quiet(q)
  BY <1>1, <1>2, PhoneAssumption DEF Shape, Quiet, PhoneAssumption
<1>5. GoesOn(pc[t], q)
  BY <1>1, <1>2, <1>4 DEF GoesOn, Hears
<1> QED BY <1>3, <1>4, <1>5, Becoming

\* The steps at which a call is taken.
LEMMA ClaimAt ==
  ASSUME Shaped, NEW t \in Threads, NEW x \in {"attach", "assign", "usurp", "reach", "swap"}, At(t, x)
  PROVE  pc[t].go \in ClaimLists
<1>1. Shape(pc[t], t) /\ pc[t].go # <<>> /\ Head(pc[t].go) = x
  BY DEF Shaped, At
<1> QED BY <1>1, Lists DEF ClaimLists

\* A goroutine at its next step goes on or leaves, whatever the list.
LEMMA QuietThen ==
  ASSUME Shaped, NEW t \in Threads,
         NEW x \in {"attach", "reach", "answer"}, At(t, x), Then(t) \/ Return(t)
  PROVE  /\ Shaped' /\ \A u \in Threads : GoesOn(pc[u], pc'[u])
         /\ pc[t].c \in Calls /\ pc[t] \in Locals /\ Quiet(pc[t])
<1>1. Shape(pc[t], t) /\ pc[t].go # <<>> /\ Head(pc[t].go) = x
  BY DEF Shaped, At
<1>2. pc[t].c \in Calls /\ pc[t] \in Locals
  BY <1>1, HasCall DEF Shape
<1>3. CASE pc[t].go \in ClaimLists
  BY <1>2, <1>3, Claiming, ClaimGoes, ListTypes DEF Then, Return
<1>4. CASE pc[t].go \in Seq(Plain)
  <2>1. Tail(pc[t].go) \in Seq(Plain) /\ Quiet(pc[t])
    BY <1>1, <1>4 DEF Quiet
  <2> QED BY <1>2, <2>1, Proceeds, ListTypes DEF Then, Return
<1>5. pc[t].go \in ClaimLists \cup Seq(Plain)
  <2>1. x # "answer" => pc[t].go \in ClaimLists
    BY ClaimAt
  <2>2. <<"answer", "assign", "record", "leave">> \in ClaimLists
    BY DEF ClaimLists
  <2> QED BY <1>1, <2>1, <2>2, Lists
<1> QED BY <1>3, <1>4, <1>5

\* Answer and RefreshMedia attach the session, or give up.
LEMMA CalmAttach ==
  ASSUME Typed, Shaped, NEW t \in Threads, Attach(t) \/ Reach(t)
  PROVE  Calmly
<1>1. UNCHANGED <<rings, slots, early, seen, auto, fired, history, ops, call, med>>
  BY DEF Attach, Reach, inbox, timers, gateway
<1>2. PICK x \in {"attach", "reach"} : At(t, x) /\ (Then(t) \/ Return(t))
  BY DEF Attach, Reach
<1>3. Shaped' /\ (\A u \in Threads : GoesOn(pc[u], pc'[u])) /\ pc[t].c \in Calls
  BY <1>2, QuietThen
<1>4. GatewayTypes /\ Heard
  <2>1. CASE UNCHANGED <<net, queue, unheard>> /\ (UNCHANGED faults \/ Fault)
    BY <2>1, Bounded, NoWord
  <2>2. CASE EndsCall(pc[t].c) \/ RejectFails(pc[t].c)
    BY <1>3, <2>2, Outcome
  <2> QED BY <2>1, <2>2 DEF Attach, Reach, gateway
<1> QED BY <1>1, <1>3, <1>4, NoCallMoves, Calming

\* The gateway is asked to answer.
LEMMA CalmAnswer ==
  ASSUME Typed, Shaped, NEW t \in Threads, AnswerCall(t)
  PROVE  Calmly
<1>1. UNCHANGED <<rings, slots, early, seen, auto, fired, history, ops, call>> /\ At(t, "answer")
  BY DEF AnswerCall, inbox, timers
<1>2. pc[t] \in Locals /\ pc[t].c \in Calls /\ Quiet(pc[t])
  <2>1. Shape(pc[t], t) /\ pc[t].go # <<>> /\ Head(pc[t].go) = "answer"
    BY <1>1 DEF Shaped, At
  <2>2. pc[t].go \in ClaimLists \cup Seq(Plain)
    BY <2>1, Lists DEF ClaimLists
  <2> QED BY <2>1, <2>2, HasCall DEF Shape, Quiet
<1>3. Shaped' /\ \A u \in Threads : GoesOn(pc[u], pc'[u])
  <2>1. CASE Then(t) \/ Return(t)
    BY <1>1, <2>1, QuietThen
  <2>2. CASE Goto(t, <<"drop", "leave">>) \/ Goto(t, <<"leave">>)
    <3>1. <<"drop", "leave">> \in Seq(Plain) /\ <<"leave">> \in Seq(Plain)
      BY DEF Plain, Steps
    <3> QED BY <1>2, <2>2, <3>1, Proceeds
  <2> QED BY <2>1, <2>2 DEF AnswerCall
<1>4. med' \in [Sessions -> SessionRecords] \/ UNCHANGED med
  <2>1. pc[t].m \in OrNone(Sessions)
    BY <1>2 DEF Locals
  <2> QED BY <2>1, RemovedTypes DEF AnswerCall
<1>5. GatewayTypes /\ Heard
  <2>1. /\ net \in [Calls -> Alive \cup {"none", "gone"}]
        /\ queue \in Seq([kind : Kinds, call : Calls]) /\ unheard \subseteq Calls
    BY DEF Typed
  <2>4. /\ unheard' = unheard /\ faults' \in Nat
        /\ Says("Answered", pc[t].c) => queue' = queue \/ queue' = Append(queue, Event("Answered", pc[t].c))
    BY <1>2, Bounded, Saying DEF AnswerCall, Kinds
  <2>2. CASE UNCHANGED <<net, queue>>
    BY <2>2, <2>4, NoWord
  <2>3. CASE /\ net[pc[t].c] = "offered" /\ net' = [net EXCEPT ![pc[t].c] = "up"] /\ unheard' = unheard
             /\ queue' = queue \/ queue' = Append(queue, Event("Answered", pc[t].c))
    <3>1. Event("Answered", pc[t].c) \in [kind : Kinds, call : Calls] /\ "Answered" \in Kinds \ ({"Waiting"} \cup Last)
      BY <1>2 DEF Event, Kinds, Last
    <3>2. GatewayTypes
      <4>1. net' \in [Calls -> Alive \cup {"none", "gone"}]
        BY <2>1, <2>3 DEF Alive
      <4>2. queue' \in Seq([kind : Kinds, call : Calls])
        <5>1. Append(queue, Event("Answered", pc[t].c)) \in Seq([kind : Kinds, call : Calls])
          BY <2>1, <3>1
        <5> QED BY <2>1, <2>3, <5>1
      <4> QED BY <2>1, <2>4, <4>1, <4>2 DEF GatewayTypes
    <3>3. \A d \in Calls : /\ net'[d] \in {"none", "offered"} => net'[d] = net[d]
                           /\ net[d] = "gone" => net'[d] = "gone"
                           /\ net'[d] = "gone" => net[d] \in {"none", "gone"}
      BY <2>1, <2>3
    <3> QED BY <1>2, <2>3, <3>1, <3>2, <3>3 DEF Heard
  <2> QED BY <2>2, <2>3, <2>4 DEF AnswerCall
<1> QED BY <1>1, <1>3, <1>4, <1>5, NoCallMoves, Calming

\* Resume is a list of plain steps.
LEMMA ResumeSteps == \A m \in Sessions : Resume(m) \in Seq(Plain)
BY SMTT(30) DEF Resume, Plain, Steps

\* The session takes the call, or gives it up.
LEMMA Taking ==
  ASSUME Typed, Shaped, NEW t \in Threads, NEW x \in {"assign", "usurp"}, At(t, x),
         NEW may \in BOOLEAN, NEW otherwise \in Seq(Plain), Takes(t, may, otherwise)
  PROVE  Calmly
<1>1. /\ pc[t].go \in ClaimLists /\ Tail(pc[t].go) \in Seq(Plain)
      /\ t \in Clients /\ pc[t].m \in Media /\ pc[t].m \in Sessions /\ pc[t].c \in Calls /\ Quiet(pc[t])
  <2>1. Shape(pc[t], t) /\ pc[t].go # <<>> /\ Head(pc[t].go) = x
    BY DEF Shaped, At
  <2>2. pc[t].go \in {<<"assign", "record", "leave">>, <<"usurp", "refuse", "report", "leave">>}
    BY <2>1, Lists
  <2>3. Tail(pc[t].go) \in Seq(Plain)
    BY <2>2, Rests, PlainOnes, Zenon
  <2> QED BY <2>3, ClaimAt, Claiming DEF Sessions
<1>2. UNCHANGED <<net, queue, unheard, rings, slots, early, seen, auto, fired, history, ops, faults>>
  BY DEF Takes, inbox, timers, gateway, bounds
<1>3. faults' \in Nat
  BY <1>2 DEF Typed
<1>4. med' \in [Sessions -> SessionRecords]
  <2>1. med \in [Sessions -> SessionRecords]
    BY DEF Typed
  <2> QED BY <1>1, <2>1, MediaTypes DEF Takes
<1>5. CallsKept
  <2>1. CASE call' = [call EXCEPT ![pc[t].c].media = pc[t].m, ![pc[t].c].lease = pc[t].m]
    <3>1. call \in [Calls -> CallRecords] /\ call[pc[t].c] \in CallRecords
      BY <1>1 DEF Typed
    <3>2. PICK r \in CallRecords : r = [call[pc[t].c] EXCEPT !.media = pc[t].m, !.lease = pc[t].m]
      BY <1>1, <3>1 DEF CallRecords, OrNone
    <3>3. /\ r.reg = call[pc[t].c].reg /\ r.done = call[pc[t].c].done
          /\ r.status = call[pc[t].c].status /\ r.rec = call[pc[t].c].rec
          /\ r.dir = call[pc[t].c].dir /\ r.again = call[pc[t].c].again
      BY <3>1, <3>2 DEF CallRecords
    <3>4. call' = [call EXCEPT ![pc[t].c] = r]
      BY <1>1, <2>1, <3>1, <3>2
    <3> QED BY <1>1, <3>3, <3>4, OneCall
  <2>2. CASE UNCHANGED call
    BY <2>2, NoCallMoves
  <2> QED BY <2>1, <2>2 DEF Takes
<1>6. PICK g \in Seq(Plain) : Goto(t, g)
  <2>1. Resume(pc[t].m) \o Tail(pc[t].go) \in Seq(Plain)
    BY <1>1, ResumeSteps
  <2> QED BY <2>1 DEF Takes
<1>7. Shaped' /\ \A u \in Threads : GoesOn(pc[u], pc'[u])
  BY <1>1, <1>6, Proceeds
<1> QED BY <1>2, <1>3, <1>4, <1>5, <1>7, NoWord, Calming

\* The session takes the call, or does not.
LEMMA CalmTakes ==
  ASSUME Typed, Shaped, NEW t \in Threads, Assign(t) \/ Usurp(t)
  PROVE  Calmly
<1>1. <<"drop", "leave">> \in Seq(Plain) /\ <<"leave">> \in Seq(Plain)
  BY DEF Plain, Steps
<1>2. CASE Assign(t)
  <2>1. Live(pc[t].c) \in BOOLEAN
    BY Zenon DEF Live
  <2> QED BY <1>1, <1>2, <2>1, Taking DEF Assign
<1>3. CASE Usurp(t)
  <2>1. (Same(t) /\ Live(pc[t].c)) \in BOOLEAN
    BY Zenon
  <2> QED BY <1>1, <1>3, <2>1, Taking, ZenonT(30) DEF Usurp
<1> QED BY <1>2, <1>3

\* Another session takes the call over.
LEMMA CalmSwap ==
  ASSUME Typed, Shaped, NEW t \in Threads, Swap(t)
  PROVE  Calmly
<1> DEFINE c == pc[t].c
           m == pc[t].m
           old == call[c].media
<1>1. At(t, "swap") /\ UNCHANGED <<net, queue, unheard, rings, slots, early, seen, auto, fired, history, ops, faults>>
  BY Zenon DEF Swap, inbox, timers, gateway, bounds
<1>2. /\ pc[t].go \in ClaimLists /\ Tail(pc[t].go) = <<"leave">> /\ t \in Clients /\ m \in Media
      /\ m \in Sessions /\ c \in Calls /\ Quiet(pc[t]) /\ pc[t] \in Locals
  <2>1. Shape(pc[t], t) /\ pc[t].go # <<>> /\ Head(pc[t].go) = "swap"
    BY <1>1 DEF Shaped, At
  <2>2. pc[t].go = <<"swap", "leave">>
    BY <2>1, Lists
  <2>3. Tail(pc[t].go) = <<"leave">>
    BY <2>2, Rests, Zenon
  <2> QED BY <1>1, <2>3, ClaimAt, Claiming DEF Sessions
<1>3. /\ call \in [Calls -> CallRecords] /\ call[c] \in CallRecords /\ old \in OrNone(Sessions)
      /\ call[c].again \in BOOLEAN /\ med \in [Sessions -> SessionRecords] /\ faults' \in Nat
  BY <1>1, <1>2 DEF Typed, CallRecords
<1>4. CASE /\ med' = IF old = None THEN Bound(m, c)
                     ELSE [Bound(m, c) EXCEPT ![old].bound = None, ![old].drop = "none"]
           /\ call' = [call EXCEPT ![c].media = m, ![c].lease = m, ![c].dtimer = None, ![c].armed = FALSE]
           /\ Becomes(t, [pc[t] EXCEPT !.lease = old, !.again = call[c].again, !.go =
                            (IF call[c].status = "connected" THEN <<"record">> ELSE <<>>)
                              \o Resume(m) \o <<"unlink">> \o Tail(@)])
  <2>1. med' \in [Sessions -> SessionRecords]
    <3>1. PICK b \in [Sessions -> SessionRecords] : b = Bound(m, c)
      BY <1>2, MediaTypes
    <3>2. CASE old = None
      BY <1>4, <3>1, <3>2
    <3>3. CASE old # None
      <4>1. old \in Sessions /\ b[old] \in SessionRecords
        BY <1>3, <3>1, <3>3 DEF OrNone
      <4>2. [b[old] EXCEPT !.bound = None, !.drop = "none"] \in SessionRecords
        BY <4>1, Zenon DEF SessionRecords, OrNone
      <4>3. med' = [b EXCEPT ![old] = [b[old] EXCEPT !.bound = None, !.drop = "none"]]
        BY <1>4, <3>1, <3>3, <4>1, Zenon
      <4> QED BY <3>1, <4>2, <4>3
    <3> QED BY <3>2, <3>3
  <2>2. CallsKept
    <3>1. PICK r \in CallRecords : r = [call[c] EXCEPT !.media = m, !.lease = m, !.dtimer = None, !.armed = FALSE]
      BY <1>2, <1>3 DEF CallRecords, OrNone
    <3>2. /\ r.reg = call[c].reg /\ r.done = call[c].done
          /\ r.dir = call[c].dir /\ r.again = call[c].again
          /\ r.status = call[c].status /\ r.rec = call[c].rec
      BY <1>3, <3>1 DEF CallRecords
    <3>3. call' = [call EXCEPT ![c] = r]
      BY <1>2, <1>3, <1>4, <3>1, Zenon
    <3> QED BY <1>2, <3>2, <3>3, OneCall
  <2>3. Shaped' /\ \A u \in Threads : GoesOn(pc[u], pc'[u])
    <3> DEFINE g == (IF call[c].status = "connected" THEN <<"record">> ELSE <<>>)
                      \o Resume(m) \o <<"unlink">> \o Tail(pc[t].go)
               q == [pc[t] EXCEPT !.lease = old, !.again = call[c].again, !.go = g]
    <3>1. g \in Seq(Plain)
      <4>1. <<"record">> \in Seq(Plain) /\ <<>> \in Seq(Plain) /\ <<"unlink">> \in Seq(Plain)
            /\ Tail(pc[t].go) \in Seq(Plain) /\ Resume(m) \in Seq(Plain)
        BY <1>2, ResumeSteps, PlainOnes, ListTypes, Zenon
      <4> QED BY <4>1
    <3>2. Becomes(t, q)
      BY <1>4, Zenon
    <3> HIDE DEF g
    <3>3. q \in Locals /\ q.go = g /\ q.c = c /\ q.todo = pc[t].todo
      BY <1>2, <1>3, <3>1, ListTypes DEF Locals
    <3> HIDE DEF q
    <3> QED BY <1>2, <3>1, <3>2, <3>3, Plainly
  <2> QED BY <1>1, <1>3, <2>1, <2>2, <2>3, NoWord, Calming
<1>5. CASE (med' = Unheld(m, t) \/ med' = med) /\ Return(t) /\ UNCHANGED call
  <2>1. med' \in [Sessions -> SessionRecords]
    BY <1>2, <1>3, <1>5, MediaTypes
  <2>2. Shaped' /\ \A u \in Threads : GoesOn(pc[u], pc'[u])
    BY <1>2, <1>5, ClaimGoes, ListTypes DEF Return
  <2> QED BY <1>1, <1>3, <1>5, <2>1, <2>2, NoWord, NoCallMoves, Calming
<1> QED BY <1>4, <1>5, Zenon DEF Swap
-----------------------------------------------------------------------------
(* The auto answer, events that ring or answer a call, and the end of a goroutine's work *)

\* The auto answer claims a call.
LEMMA CalmAutoAnswer ==
  ASSUME Typed, Shaped, NEW c \in Calls, ClaimAutoAnswer(c)
  PROVE  Calmly
<1>1. /\ UNCHANGED <<net, queue, unheard, rings, slots, early, seen, auto, history, ops, faults>>
      /\ c \in Threads /\ c \in Sessions /\ pc[c] = Idle /\ fired' \subseteq fired
  BY DEF ClaimAutoAnswer, inbox, gateway, bounds, Threads, Sessions
<1>2. /\ call \in [Calls -> CallRecords] /\ call[c] \in CallRecords /\ faults' \in Nat
      /\ fired' \subseteq Callbacks /\ med \in [Sessions -> SessionRecords]
  BY <1>1 DEF Typed
<1>3. CASE UNCHANGED <<call, med, pc>>
  BY <1>1, <1>2, <1>3, NoWord, NoCallMoves, NobodyMoves, Calming
<1>4. CASE /\ call' = [call EXCEPT ![c].pending = TRUE, ![c].atimer = FALSE]
           /\ med' = [med EXCEPT ![c].sess = "up"]
           /\ Becomes(c, [Idle EXCEPT !.go = <<"answer", "adopt", "record", "leave">>,
                            !.c = c, !.m = IF Present(c) THEN None ELSE c, !.again = call[c].again, !.claim = TRUE])
  <2>1. med' \in [Sessions -> SessionRecords]
    BY <1>1, <1>2, <1>4 DEF SessionRecords
  <2>2. CallsKept
    <3>1. PICK r \in CallRecords : r = [call[c] EXCEPT !.pending = TRUE, !.atimer = FALSE]
      BY <1>2 DEF CallRecords
    <3>2. /\ r.reg = call[c].reg /\ r.done = call[c].done
          /\ r.dir = call[c].dir /\ r.again = call[c].again
          /\ r.status = call[c].status /\ r.rec = call[c].rec
      BY <1>2, <3>1 DEF CallRecords
    <3>3. call' = [call EXCEPT ![c] = r]
      BY <1>2, <1>4, <3>1
    <3> QED BY <3>2, <3>3, OneCall
  <2>3. Shaped' /\ \A u \in Threads : GoesOn(pc[u], pc'[u])
    <3> DEFINE m == IF Present(c) THEN None ELSE c
               q == [Idle EXCEPT !.go = <<"answer", "adopt", "record", "leave">>,
                       !.c = c, !.m = m, !.again = call[c].again, !.claim = TRUE]
    <3>1. m \in OrNone(Sessions) /\ call[c].again \in BOOLEAN
      BY <1>1, <1>2 DEF OrNone, CallRecords
    <3>2. Becomes(c, q)
      BY <1>4
    <3> HIDE DEF m
    <3>3. Idle \in Locals /\ Idle.todo = <<>> /\ Quiet(Idle)
      BY <1>1, IdleShape DEF Shape, Idle
    <3>4. q \in Locals /\ q.go \in Seq(Plain) /\ q.c = c /\ q.todo = <<>>
      BY <3>1, <3>3, PlainOnes, ListTypes DEF Locals, OrNone
    <3> HIDE DEF q
    <3>5. Shape(q, c) /\ Quiet(q)
      BY <3>4, PlainShape
    <3>6. GoesOn(pc[c], q)
      BY <1>1, <3>3, <3>4, <3>5 DEF GoesOn, Hears, Idle
    <3> QED BY <1>1, <3>2, <3>5, <3>6, Becoming
  <2> QED BY <1>1, <1>2, <2>1, <2>2, <2>3, NoWord, Calming
<1> QED BY <1>3, <1>4 DEF ClaimAutoAnswer

\* The session of the auto answer takes the call, or is removed.
LEMMA CalmAdopt ==
  ASSUME Typed, Shaped, NEW c \in Calls, Adopt(c)
  PROVE  Calmly
<1>1. /\ UNCHANGED <<net, queue, unheard, rings, slots, early, seen, auto, fired, history, ops, faults>>
      /\ c \in Threads /\ c \in Sessions /\ c \in OrNone(Sessions) /\ At(c, "adopt")
  BY DEF Adopt, inbox, timers, gateway, bounds, Threads, Sessions, OrNone
<1>2. /\ call \in [Calls -> CallRecords] /\ call[c] \in CallRecords /\ faults' \in Nat
      /\ med \in [Sessions -> SessionRecords]
  BY <1>1 DEF Typed
<1>3. Quiet(pc[c]) /\ pc[c].c \in Calls /\ pc[c] \in Locals /\ Tail(pc[c].go) \in Seq(Plain)
  <2>1. "adopt" \in Plain \ {"answer", "leave"}
    BY DEF Plain, Steps
  <2> QED BY <1>1, <2>1, AtPlain
<1>4. CASE /\ call' = [call EXCEPT ![c].pending = FALSE, ![c].media = c]
           /\ med' = [med EXCEPT ![c].bound = c]
           /\ Becomes(c, [pc[c] EXCEPT !.go = Tail(@), !.claim = FALSE])
  <2>1. med' \in [Sessions -> SessionRecords]
    BY <1>1, <1>2, <1>4 DEF SessionRecords, OrNone
  <2>2. CallsKept
    <3>1. PICK r \in CallRecords : r = [call[c] EXCEPT !.pending = FALSE, !.media = c]
      BY <1>1, <1>2 DEF CallRecords
    <3>2. /\ r.reg = call[c].reg /\ r.done = call[c].done
          /\ r.dir = call[c].dir /\ r.again = call[c].again
          /\ r.status = call[c].status /\ r.rec = call[c].rec
      BY <1>2, <3>1 DEF CallRecords
    <3>3. call' = [call EXCEPT ![c] = r]
      BY <1>2, <1>4, <3>1
    <3> QED BY <3>2, <3>3, OneCall
  <2>3. Shaped' /\ \A u \in Threads : GoesOn(pc[u], pc'[u])
    <3> DEFINE q == [pc[c] EXCEPT !.go = Tail(@), !.claim = FALSE]
    <3>1. q \in Locals /\ q.go = Tail(pc[c].go) /\ q.c = pc[c].c /\ q.todo = pc[c].todo
      BY <1>3, ListTypes DEF Locals
    <3>2. Becomes(c, q)
      BY <1>4
    <3> HIDE DEF q
    <3> QED BY <1>1, <1>3, <3>1, <3>2, Plainly
  <2> QED BY <1>1, <1>2, <2>1, <2>2, <2>3, NoWord, Calming
<1>5. CASE med' = Removed(c) /\ Goto(c, <<"drop", "leave">>) /\ UNCHANGED call
  <2>1. Shaped' /\ \A u \in Threads : GoesOn(pc[u], pc'[u])
    BY <1>1, <1>3, <1>5, PlainOnes, Proceeds
  <2>2. med' \in [Sessions -> SessionRecords]
    BY <1>1, <1>5, RemovedTypes
  <2> QED BY <1>1, <1>2, <1>5, <2>1, <2>2, NoWord, NoCallMoves, Calming
<1> QED BY <1>4, <1>5 DEF Adopt

\* The timer of the auto answer is set.
LEMMA CalmSchedule ==
  ASSUME Typed, Shaped, NEW t \in Threads, ScheduleAutoAnswer(t)
  PROVE  Calmly
<1> DEFINE c == pc[t].c
<1>1. /\ UNCHANGED <<net, queue, unheard, rings, slots, early, seen, auto, fired, history, ops, faults, med>>
      /\ At(t, "auto") /\ Then(t) /\ "auto" \in Plain \ {"answer", "leave"}
  BY DEF ScheduleAutoAnswer, inbox, timers, gateway, bounds, Plain, Steps
<1>2. c \in Calls
  BY <1>1, AtPlain
<1>3. call \in [Calls -> CallRecords] /\ call[c] \in CallRecords /\ faults' \in Nat
  BY <1>1, <1>2 DEF Typed
<1>4. PICK a \in BOOLEAN : a = (call[c].atimer \/ (auto /\ call[c].status = "ringing"))
  BY Zenon
<1>5. call' = [call EXCEPT ![c] = [call[c] EXCEPT !.atimer = a]]
  <2>1. call' = [call EXCEPT ![c].atimer = @ \/ (auto /\ call[c].status = "ringing")]
    BY DEF ScheduleAutoAnswer
  <2> QED BY <1>2, <1>3, <1>4, <2>1, Zenon
<1>6. CallsKept
  <2>1. PICK r \in CallRecords : r = [call[c] EXCEPT !.atimer = a]
    BY <1>3 DEF CallRecords
  <2>2. /\ r.reg = call[c].reg /\ r.done = call[c].done
        /\ r.dir = call[c].dir /\ r.again = call[c].again
        /\ r.status = call[c].status /\ r.rec = call[c].rec
    BY <1>3, <2>1 DEF CallRecords
  <2> QED BY <1>2, <1>5, <2>1, <2>2, OneCall
<1>7. Shaped' /\ \A u \in Threads : GoesOn(pc[u], pc'[u])
  BY <1>1, PlainThen
<1> QED BY <1>1, <1>3, <1>6, <1>7, NoWord, Calming

\* The session of a call that was dialled is attached.
LEMMA CalmBridge ==
  ASSUME Typed, Shaped, NEW t \in Threads, Bridge(t)
  PROVE  Calmly
<1>1. /\ UNCHANGED <<net, queue, unheard, rings, slots, early, seen, auto, fired, history, ops, call, med>>
      /\ At(t, "bridge") /\ "bridge" \in Plain \ {"answer", "leave"}
  BY DEF Bridge, inbox, timers, gateway, Plain, Steps
<1>2. pc[t].c \in Calls /\ Quiet(pc[t]) /\ Tail(pc[t].go) \in Seq(Plain)
  BY <1>1, AtPlain
<1>3. faults' \in Nat
  BY Bounded DEF Bridge
<1>4. PICK g \in Seq(Plain) : Goto(t, g)
  <2>1. /\ <<"record">> \o Tail(pc[t].go) \in Seq(Plain) /\ <<"drop">> \o Tail(pc[t].go) \in Seq(Plain)
        /\ <<>> \o Tail(pc[t].go) \in Seq(Plain)
    BY <1>2, PlainOnes, ListTypes
  <2> QED BY <2>1, Zenon DEF Bridge
<1> QED BY <1>1, <1>2, <1>3, <1>4, NoWord, NoCallMoves, Proceeds, Calming

\* A call that was refused is saved.
LEMMA CalmBusy ==
  ASSUME Typed, Shaped, NEW t \in Threads, RecordBusy(t)
  PROVE  Calmly
<1> DEFINE save == IF pc[t].c \in seen THEN <<>> ELSE <<"write">>
<1>1. UNCHANGED <<net, queue, unheard, rings, slots, early, auto, fired, history, ops, faults, call, med>>
  BY DEF RecordBusy, timers, gateway, bounds
<1>2. save \in Seq(Plain) /\ "over" \in Statuses /\ None \in OrNone(Sessions) /\ faults' \in Nat
  BY <1>1, PlainOnes, ListTypes DEF Statuses, OrNone, Typed
<1>3. seen' = seen \cup {pc[t].c}
  BY DEF RecordBusy
<1>4. CASE At(t, "busy") /\ Becomes(t, [pc[t] EXCEPT !.go = save \o Tail(@), !.row = "over"])
  <2>1. Quiet(pc[t]) /\ pc[t].c \in Calls /\ pc[t] \in Locals /\ Tail(pc[t].go) \in Seq(Plain)
    <3>1. "busy" \in Plain \ {"answer", "leave"}
      BY DEF Plain, Steps
    <3> QED BY <1>4, <3>1, AtPlain
  <2> DEFINE g == save \o Tail(pc[t].go)
             q == [pc[t] EXCEPT !.go = g, !.row = "over"]
  <2>2. g \in Seq(Plain)
    BY <1>2, <2>1
  <2>3. Becomes(t, q)
    BY <1>4
  <2> HIDE DEF g
  <2>4. q \in Locals /\ q.go = g /\ q.c = pc[t].c /\ q.todo = pc[t].todo
    BY <1>2, <2>1, <2>2, ListTypes DEF Locals
  <2> HIDE DEF q
  <2>5. Shaped' /\ \A u \in Threads : GoesOn(pc[u], pc'[u])
    BY <2>1, <2>2, <2>3, <2>4, Plainly
  <2>6. seen' \subseteq Calls
    BY <1>3, <2>1 DEF Typed
  <2> QED BY <1>1, <1>2, <2>5, <2>6, NoWord, NoCallMoves, Calming
<1>5. CASE Dispatches(t, {"Busy"}) /\ Handled(t, save, "over", None)
  <2> HIDE DEF save
  <2>1. Shaped' /\ \A u \in Threads : GoesOn(pc[u], pc'[u])
    <3>1. {"Busy"} \cap Last = {}
      BY DEF Last
    <3> QED BY <1>2, <1>5, <3>1, PlainHandled
  <2>2. pc[t].c \in Calls
    BY <1>5, AtEvent
  <2>3. seen' \subseteq Calls
    BY <1>3, <2>2 DEF Typed
  <2> QED BY <1>1, <1>2, <2>1, <2>3, NoWord, NoCallMoves, Calming
<1> QED BY <1>4, <1>5 DEF RecordBusy

\* A call rings, or is answered.
LEMMA CalmUpdates ==
  ASSUME Typed, Shaped, NEW t \in Threads, UpdateRinging(t) \/ UpdateAnswered(t)
  PROVE  Calmly
<1> DEFINE c == pc[t].c
<1>1. UNCHANGED <<net, queue, unheard, rings, slots, early, seen, auto, fired, history, ops, faults, med>>
  BY DEF UpdateRinging, UpdateAnswered, inbox, timers, gateway, bounds
<1>2. PICK kinds : Dispatches(t, kinds) /\ kinds \cap Last = {}
  BY DEF UpdateRinging, UpdateAnswered, Last
<1>3. c \in Calls /\ pc[t] \in Locals
  BY <1>2, AtEvent
<1>4. /\ call \in [Calls -> CallRecords] /\ call[c] \in CallRecords /\ faults' \in Nat
      /\ pc[t].m \in OrNone(Sessions) /\ call[c].media \in OrNone(Sessions)
  BY <1>1, <1>3 DEF Typed, Locals, CallRecords
<1>5. CallsKept
  <2>1. CASE UNCHANGED call
    BY <2>1, NoCallMoves
  <2>2. ASSUME NEW s \in {"ringing", "connected"}, Live(c), call' = [call EXCEPT ![c].status = s]
        PROVE  CallsKept
    <3>1. PICK r \in CallRecords : r = [call[c] EXCEPT !.status = s]
      BY <1>4 DEF CallRecords, Statuses, OrNone, Active
    <3>2. /\ r.reg = call[c].reg /\ r.done = call[c].done
          /\ r.dir = call[c].dir /\ r.again = call[c].again
          /\ r.rec = call[c].rec
          /\ r.status \in Active /\ call[c].status \in Active
      BY <1>4, <2>2, <3>1 DEF CallRecords, Live, Active
    <3>3. call' = [call EXCEPT ![c] = r]
      BY <1>3, <1>4, <2>2, <3>1
    <3> QED BY <1>3, <3>2, <3>3, OneCall
  <2> QED BY <2>1, <2>2 DEF UpdateRinging, UpdateAnswered
<1>6. PICK steps \in Seq(Plain), row \in Statuses, m \in OrNone(Sessions) : Handled(t, steps, row, m)
  <2>1. /\ <<"bridge">> \o <<"snap", "write">> \in Seq(Plain) /\ <<>> \o <<"snap", "write">> \in Seq(Plain)
        /\ <<"write">> \in Seq(Plain) /\ <<>> \in Seq(Plain)
    BY PlainOnes, ListTypes
  <2>2. {None, "ringing"} \subseteq Statuses
    BY DEF Statuses, OrNone, Active
  <2> QED BY <1>4, <2>1, <2>2 DEF UpdateRinging, UpdateAnswered, Ignored
<1>7. Shaped' /\ \A u \in Threads : GoesOn(pc[u], pc'[u])
  BY <1>2, <1>6, PlainHandled
<1> QED BY <1>1, <1>4, <1>5, <1>7, NoWord, Calming

\* A request gives back what it holds.
LEMMA CalmLeave ==
  ASSUME Typed, Shaped, NEW t \in Threads, Leave(t)
  PROVE  Calmly
<1> DEFINE c == pc[t].c
<1>1. /\ UNCHANGED <<net, queue, unheard, rings, slots, early, seen, auto, fired, history, ops, faults>>
      /\ pc[t].go = <<"leave">> /\ pc[t].todo = <<>>
  BY DEF Leave, inbox, timers, gateway, bounds
<1>2. pc[t] \in Locals /\ Shape(pc[t], t) /\ Quiet(pc[t]) /\ faults' \in Nat
  <2>1. Shape(pc[t], t) /\ pc[t].go \in Seq(Plain)
    BY <1>1, ListTypes DEF Shaped
  <2> QED BY <1>1, <2>1 DEF Shape, Quiet, Typed
<1>3. med' \in [Sessions -> SessionRecords]
  <2>1. pc[t].m \in OrNone(Sessions)
    BY <1>2 DEF Locals
  <2> QED BY <2>1, RemovedTypes DEF Leave
<1>4. CallsKept
  <2>1. CASE UNCHANGED call
    BY <2>1, NoCallMoves
  <2>2. CASE pc[t].claim /\ call' = [call EXCEPT ![c].pending = FALSE]
    <3>1. c \in Calls
      BY <1>2, <2>2, HasCall
    <3>2. call \in [Calls -> CallRecords] /\ call[c] \in CallRecords
      BY <3>1 DEF Typed
    <3>3. PICK r \in CallRecords : r = [call[c] EXCEPT !.pending = FALSE]
      BY <3>2 DEF CallRecords
    <3>4. /\ r.reg = call[c].reg /\ r.done = call[c].done
          /\ r.dir = call[c].dir /\ r.again = call[c].again
          /\ r.status = call[c].status /\ r.rec = call[c].rec
      BY <3>2, <3>3 DEF CallRecords
    <3>5. call' = [call EXCEPT ![c] = r]
      BY <2>2, <3>1, <3>2, <3>3
    <3> QED BY <3>1, <3>4, <3>5, OneCall
  <2> QED BY <2>1, <2>2 DEF Leave
<1>5. Shaped' /\ \A u \in Threads : GoesOn(pc[u], pc'[u])
  <2>1. Shape(Idle, t) /\ Quiet(Idle) /\ Idle.todo = <<>>
    BY IdleShape DEF Idle
  <2>2. Becomes(t, Idle)
    BY DEF Leave, Becomes
  <2>3. GoesOn(pc[t], Idle)
    <3>1. pc[t].todo = <<>>
      BY DEF Leave
    <3> QED BY <1>2, <2>1, <3>1 DEF GoesOn, Hears
  <2> QED BY <2>1, <2>2, <2>3, Becoming
<1> QED BY <1>1, <1>2, <1>3, <1>4, <1>5, NoWord, Calming
-----------------------------------------------------------------------------
(* A calm step keeps the invariant *)

\* Who goes on is where it was if it has the device or ends a call.
LEMMA StillThere ==
  ASSUME Shaped, Shaped', NEW t \in Threads, GoesOn(pc[t], pc'[t]) \/ (Quiet(pc[t]) /\ Quiet(pc'[t]))
  PROVE  /\ Reserving(t)' <=> Reserving(t)
         /\ Ending(t)' <=> Ending(t)
         /\ At(t, "close")' <=> At(t, "close")
         /\ At(t, "dialed")' <=> At(t, "dialed")
         /\ Reserving(t) \/ Ending(t) => pc'[t] = pc[t]
<1>1. Shape(pc[t], t) /\ Shape(pc'[t], t)
  BY DEF Shaped
<1>2. CASE pc'[t] = pc[t]
  BY <1>2 DEF Reserving, Ending, At
<1>3. CASE Quiet(pc[t]) /\ Quiet(pc'[t])
  <2>1. pc[t].go \notin EndLists /\ pc'[t].go \notin EndLists
    BY <1>1, <1>3, QuietIs
  <2>2. /\ pc[t].go # <<>> => Head(pc[t].go) \notin {"dial", "dialed", "undo", "close", "final"}
        /\ pc'[t].go # <<>> => Head(pc'[t].go) \notin {"dial", "dialed", "undo", "close", "final"}
    BY <1>1, <1>3, QuietIs
  <2> QED BY <2>1, <2>2 DEF Reserving, Ending, At
<1> QED BY <1>2, <1>3 DEF GoesOn

\* Goroutines that go on, or stay quiet, neither have the device nor end a call.
LEMMA NobodyNew ==
  ASSUME Shaped, Shaped', UNCHANGED <<device, waiting>>,
         \A t \in Threads : GoesOn(pc[t], pc'[t]) \/ (Quiet(pc[t]) /\ Quiet(pc'[t]))
  PROVE  SameHolders /\ SameEnders
BY StillThere DEF SameHolders, SameEnders

\* The device is not concerned when nobody gets it and no call begins or ends.
LEMMA SlotsUntouched ==
  ASSUME SlotInv, SameHolders, \A c \in Calls : Live(c)' <=> Live(c)
  PROVE  SlotInv'
BY DEF SlotInv, SameHolders

\* Who ends a call has one.
LEMMA EndingCall ==
  ASSUME Shaped, NEW t \in Threads, Ending(t)
  PROVE  pc[t].c \in Calls /\ pc[t] \in Locals /\ pc[t].go # <<>> /\ Head(pc[t].go) \in {"close", "final"}
<1>1. Shape(pc[t], t) /\ pc[t].go # <<>> /\ Head(pc[t].go) \in {"close", "final"}
  <2>1. Shape(pc[t], t)
    BY DEF Shaped
  <2>2. pc[t].go \in EndLists /\ pc[t].go # <<>>
    BY DEF Ending, EndLists
  <2> QED BY <2>1, <2>2, Places
<1> QED BY <1>1, HasCall DEF Shape

\* The ends of calls are not concerned when nobody begins or goes on to end one.
LEMMA EndUntouched ==
  ASSUME Typed, Shaped, EndInv, SameEnders, Kept
  PROVE  EndInv'
<1>1. \A t \in Threads : /\ Ending(t)' <=> Ending(t)
                         /\ At(t, "close")' <=> At(t, "close")
                         /\ Ending(t) => pc'[t] = pc[t]
  BY DEF SameEnders
<1>2. Kept
  OBVIOUS
<1>3. \A t \in Threads : Ending(t) => pc[t].c \in Calls
  BY EndingCall
<1>4. \A t \in Threads : At(t, "close") => Ending(t)
  BY Lists DEF At, Shaped, Ending, EndLists
<1>5. \A t \in Threads : Ending(t)' =>
        call'[pc'[t].c].reg /\ call'[pc'[t].c].status = "over" /\ ~call'[pc'[t].c].done
  <2> SUFFICES ASSUME NEW t \in Threads, Ending(t)
               PROVE  call'[pc'[t].c].reg /\ call'[pc'[t].c].status = "over" /\ ~call'[pc'[t].c].done
    BY <1>1
  <2>1. pc'[t] = pc[t] /\ pc[t].c \in Calls
    BY <1>1, <1>3
  <2>2. call[pc[t].c].reg /\ call[pc[t].c].status = "over" /\ ~call[pc[t].c].done
    BY DEF EndInv
  <2> QED BY <1>2, <2>1, <2>2 DEF Kept, Active
<1>6. \A t, u \in Threads : Ending(t)' /\ Ending(u)' /\ pc'[t].c = pc'[u].c => t = u
  BY <1>1 DEF EndInv
<1>7. ASSUME NEW c \in Calls
      PROVE  /\ call'[c].done => ~Live(c)' /\ call'[c].rec # "open"
             /\ ~call'[c].reg => call'[c].status \notin Active /\ call'[c].rec # "open"
             /\ call'[c].reg => call'[c].status \in Active \cup {"over"}
             /\ call'[c].rec = "open" /\ ~Live(c)' => \E t \in Threads : pc'[t].c = c /\ At(t, "close")'
             /\ call'[c].reg /\ ~Live(c)' /\ ~call'[c].done => \E t \in Threads : pc'[t].c = c /\ Ending(t)'
  <2>1. /\ call'[c].reg = call[c].reg /\ call'[c].done = call[c].done
        /\ call'[c].status = call[c].status \/ (call[c].status \in Active /\ call'[c].status \in Active)
        /\ call'[c].rec \in {call[c].rec, "closed"} \/ call[c].status \in Active
    BY <1>2 DEF Kept
  <2>2. Live(c)' <=> Live(c)
    BY <2>1 DEF Live
  <2>3. /\ call[c].done => ~Live(c) /\ call[c].rec # "open"
        /\ ~call[c].reg => call[c].status \notin Active /\ call[c].rec # "open"
        /\ call[c].reg => call[c].status \in Active \cup {"over"}
        /\ call[c].rec = "open" /\ ~Live(c) => \E t \in Threads : pc[t].c = c /\ At(t, "close")
        /\ call[c].reg /\ ~Live(c) /\ ~call[c].done => \E t \in Threads : pc[t].c = c /\ Ending(t)
    BY DEF EndInv
  <2>4. (\E t \in Threads : pc[t].c = c /\ At(t, "close"))
          => \E t \in Threads : pc'[t].c = c /\ At(t, "close")'
    BY <1>1, <1>4
  <2>5. (\E t \in Threads : pc[t].c = c /\ Ending(t)) => \E t \in Threads : pc'[t].c = c /\ Ending(t)'
    BY <1>1
  <2>6. ~Live(c) => call[c].status \notin Active
    BY <2>3 DEF Live
  <2> QED BY <2>1, <2>2, <2>3, <2>4, <2>5, <2>6
<1> QED BY <1>5, <1>6, <1>7 DEF EndInv

\* A calm step announces nothing.
LEMMA CalmIsSilent ==
  ASSUME Typed, Shaped, Calmly
  PROVE  Silent
<1>1. \A c \in Calls : net'[c] \in {"none", "offered"} => net'[c] = net[c]
  BY DEF Calmly, Calm, Heard
<1>2. ASSUME NEW c \in Calls, Unannounced(c)
      PROVE  Unannounced(c)'
  <2>1. (\A i \in DOMAIN rings : rings[i] # c)' /\ (\A i \in DOMAIN early[c] : early[c][i] # "Waiting")'
    BY <1>2 DEF Calmly, Calm, Unannounced
  <2>2. (\A i \in DOMAIN queue : queue[i] # Event("Waiting", c))'
    <3>1. queue \in Seq([kind : Kinds, call : Calls]) /\ \A i \in DOMAIN queue : queue[i] # Event("Waiting", c)
      BY <1>2 DEF Typed, Unannounced
    <3>2. CASE queue' = queue
      BY <3>1, <3>2
    <3>3. CASE \E d \in Calls, k \in Kinds \ {"Waiting"} : queue' = Append(queue, Event(k, d))
      <4>1. PICK d \in Calls, k \in Kinds \ {"Waiting"} : queue' = Append(queue, Event(k, d))
        BY <3>3
      <4>2. Event(k, d) # Event("Waiting", c)
        BY <4>1 DEF Event
      <4> QED BY <3>1, <4>1, <4>2
    <3>4. CASE \E d \in Calls : \/ queue' = queue \o <<Event("Ended", d), Event("Finalized", d)>>
                               \/ queue' = queue \o <<Event("Finalized", d), Event("Ended", d)>>
      <4>1. PICK e, f : queue' = queue \o <<e, f>> /\ Event("Waiting", c) \notin {e, f}
        <5>1. \A d : Event("Waiting", c) \notin {Event("Ended", d), Event("Finalized", d)}
          BY DEF Event
        <5> QED BY <3>4, <5>1, Zenon
      <4> QED BY <3>1, <4>1
    <3> QED BY <3>2, <3>3, <3>4 DEF Calmly, Calm, Heard, Word, Kinds
  <2>3. \A t \in Threads : pc'[t].c = c => \A i \in DOMAIN pc'[t].todo : pc'[t].todo[i] \notin Announces
    <3> SUFFICES ASSUME NEW t \in Threads, pc'[t].c = c
                 PROVE  \A i \in DOMAIN pc'[t].todo : pc'[t].todo[i] \notin Announces
      OBVIOUS
    <3>1. GoesOn(pc[t], pc'[t])
      BY DEF Calmly, Calm
    <3>2. CASE pc'[t].todo \in {<<>>, <<"Ended">>}
      BY <3>2 DEF Announces
    <3>3. CASE pc[t].c = c
      <4>1. \A i \in DOMAIN pc[t].todo : pc[t].todo[i] \notin Announces
        BY <1>2, <3>3 DEF Unannounced
      <4>2. pc[t].todo \in Seq(Kinds \cup {"Incoming"})
        BY DEF Shaped, Shape, Locals
      <4>3. CASE pc'[t].todo = pc[t].todo
        BY <4>1, <4>3
      <4>4. CASE pc[t].todo # <<>> /\ pc'[t].todo = Tail(pc[t].todo)
        BY <4>1, <4>2, <4>4
      <4> QED BY <3>1, <3>2, <4>3, <4>4 DEF GoesOn, Hears
    <3> QED BY <3>1, <3>2, <3>3 DEF GoesOn, Hears
  <2> QED BY <2>1, <2>2, <2>3 DEF Unannounced
<1> QED BY <1>1, <1>2 DEF Silent

\* A step that announces nothing keeps a call fresh, if it enters none.
LEMMA SilentFresh ==
  ASSUME Shaped, FreshInv, Silent,
         \A t \in Threads : At(t, "dialed")' => At(t, "dialed") /\ pc'[t].c = pc[t].c,
         \A c \in Calls : call'[c].reg => call[c].reg \/ ~(net[c] = "none" \/ \E t \in Threads : At(t, "dialed") /\ pc[t].c = c)
  PROVE  FreshInv' /\ NoNewcomer
<1>1. \A t \in Threads : At(t, "dialed") => pc[t].c \in Calls
  <2>1. \A t \in Threads : At(t, "dialed") => Shape(pc[t], t) /\ pc[t].go # <<>> /\ Head(pc[t].go) = "dialed"
    BY DEF At, Shaped
  <2> QED BY <2>1, HasCall
<1>2. \A c \in Calls : net'[c] = "none" => net[c] = "none"
  BY DEF Silent
<1>3. \A c \in Calls : net'[c] = "offered" => net[c] = "offered"
  BY DEF Silent
<1>4. \A c \in Calls : Unannounced(c) => Unannounced(c)'
  BY DEF Silent
<1>5. NoNewcomer
  BY <1>4 DEF NoNewcomer, MayCome
<1> QED BY <1>1, <1>2, <1>3, <1>4, <1>5 DEF FreshInv

\* A step in which nobody comes to have the device or to end a call.
LEMMA SoftKeeps ==
  ASSUME IInv, Typed', Shaped', UNCHANGED <<device, waiting>>, Kept, Silent,
         \A t \in Threads : GoesOn(pc[t], pc'[t]) \/ (Quiet(pc[t]) /\ Quiet(pc'[t]))
  PROVE  IInv' /\ NoNewcomer
<1>1. Typed /\ Shaped /\ SlotInv /\ EndInv /\ FreshInv
  BY DEF IInv
<1>2. SameHolders /\ SameEnders
  BY <1>1, NobodyNew
<1>3. SlotInv'
  <2>1. \A c \in Calls : Live(c)' <=> Live(c)
    BY DEF Kept, Live
  <2> QED BY <1>1, <1>2, <2>1, SlotsUntouched
<1>4. EndInv'
  BY <1>1, <1>2, EndUntouched
<1>5. FreshInv' /\ NoNewcomer
  <2>1. \A t \in Threads : At(t, "dialed")' => At(t, "dialed") /\ pc'[t].c = pc[t].c
    BY <1>2 DEF SameHolders, Reserving
  <2>2. \A c \in Calls : call'[c].reg = call[c].reg
    BY DEF Kept
  <2> QED BY <1>1, <2>1, <2>2, SilentFresh
<1> QED BY <1>3, <1>4, <1>5 DEF IInv

\* A calm step keeps the invariant.
LEMMA CalmKeeps ==
  ASSUME IInv, Calmly
  PROVE  IInv' /\ NoNewcomer
BY CalmIsSilent, SoftKeeps DEF IInv, Calmly, Calm
-----------------------------------------------------------------------------
(* A call to a device that may be busy: the gateway, the events, and who dials *)

\* Lists of anything.
LEMMA Firsts ==
  ASSUME NEW S
  PROVE  /\ \A s \in Seq(S) : s # <<>> => Head(s) \in S /\ Tail(s) \in Seq(S)
         /\ \A e \in S : <<e>> \in Seq(S)
         /\ \A s \in Seq(S) : \A i \in DOMAIN s : s[i] \in S
OBVIOUS

\* What is announced of an incoming call, or gets lost.
LEMMA Offering ==
  ASSUME Typed, NEW c \in Calls, NetOffer(c)
  PROVE  /\ rings' = rings \/ rings' = Append(rings, c)
         /\ \E r \in {queue, Append(queue, Event("Waiting", c))} : queue' \in {r, Append(r, Event("Ringing", c))}
         /\ faults' \in Nat
<1>1. PICK lost \in SUBSET {"Incoming", "Waiting", "Ringing"} :
         /\ rings' = IF "Incoming" \in lost THEN rings ELSE Append(rings, c)
         /\ queue' = queue \o (IF \E d \in Calls : net[d] = "up" THEN Sent("Waiting", c, lost) ELSE <<>>)
                           \o Sent("Ringing", c, lost)
         /\ Loses(lost)
  BY DEF NetOffer
<1>2. /\ Event("Waiting", c) \in [kind : Kinds, call : Calls]
      /\ Event("Ringing", c) \in [kind : Kinds, call : Calls]
  BY DEF Event, Kinds
<1>3. queue \in Seq([kind : Kinds, call : Calls]) /\ faults \in Nat
  BY DEF Typed
<1>4. \A s \in Seq([kind : Kinds, call : Calls]), e \in [kind : Kinds, call : Calls] :
         s \o <<>> = s /\ s \o <<e>> = Append(s, e) /\ Append(s, e) \in Seq([kind : Kinds, call : Calls])
  OBVIOUS
<1>5. PICK r \in {queue, Append(queue, Event("Waiting", c))} : queue' = r \o Sent("Ringing", c, lost)
  BY <1>1, <1>2, <1>3, <1>4 DEF Sent
<1>6. r \in Seq([kind : Kinds, call : Calls])
  BY <1>2, <1>3, <1>4
<1>7. queue' \in {r, Append(r, Event("Ringing", c))}
  BY <1>2, <1>4, <1>5, <1>6 DEF Sent
<1>8. faults' \in Nat
  BY <1>1, <1>3 DEF Loses, Fault
<1> QED BY <1>1, <1>5, <1>7, <1>8

\* A call is offered: until then nobody knows of it.
LEMMA OfferKeeps ==
  ASSUME IInv, NEW c \in Calls, NetOffer(c)
  PROVE  IInv' /\ NoNewcomer
<1>1. Typed /\ Shaped /\ SlotInv /\ EndInv /\ FreshInv
  BY DEF IInv
<1>2. /\ UNCHANGED <<unheard, call, device, waiting, med, early, seen, auto, fired, rows, deleted, pc, ops>>
      /\ net[c] = "none" /\ net' = [net EXCEPT ![c] = "offered"] /\ faults' \in Nat
      /\ rings' = rings \/ rings' = Append(rings, c)
  BY <1>1, Offering DEF NetOffer, slots, inbox, timers, history
<1>3. /\ net \in [Calls -> Alive \cup {"none", "gone"}] /\ rings \in Seq(Calls)
      /\ queue \in Seq([kind : Kinds, call : Calls])
  BY <1>1 DEF Typed
<1>4. PICK r \in {queue, Append(queue, Event("Waiting", c))} : queue' \in {r, Append(r, Event("Ringing", c))}
  BY <1>1, Offering
<1>5. /\ Event("Waiting", c) \in [kind : Kinds, call : Calls]
      /\ Event("Ringing", c) \in [kind : Kinds, call : Calls]
      /\ r \in Seq([kind : Kinds, call : Calls])
  <2>1. /\ Event("Waiting", c) \in [kind : Kinds, call : Calls]
        /\ Event("Ringing", c) \in [kind : Kinds, call : Calls]
    BY DEF Event, Kinds
  <2>2. Append(queue, Event("Waiting", c)) \in Seq([kind : Kinds, call : Calls])
    BY <1>3, <2>1
  <2> QED BY <1>3, <1>4, <2>1, <2>2
<1>6. Typed'
  <2>1. net' \in [Calls -> Alive \cup {"none", "gone"}]
    BY <1>2, <1>3 DEF Alive
  <2>2. rings' \in Seq(Calls)
    <3>1. Append(rings, c) \in Seq(Calls)
      BY <1>3
    <3> QED BY <1>2, <1>3, <3>1
  <2>3. queue' \in Seq([kind : Kinds, call : Calls])
    <3>1. Append(r, Event("Ringing", c)) \in Seq([kind : Kinds, call : Calls])
      BY <1>5
    <3> QED BY <1>4, <1>5, <3>1
  <2> QED BY <1>1, <1>2, <2>1, <2>2, <2>3 DEF Typed
<1>7. Shaped' /\ SlotInv' /\ EndInv'
  <2>1. Shaped' /\ \A t \in Threads : GoesOn(pc[t], pc'[t])
    BY <1>1, <1>2, NobodyMoves
  <2>2. Kept /\ \A d \in Calls : Live(d)' <=> Live(d)
    BY <1>2 DEF Kept, Live
  <2> QED BY <1>1, <1>2, <2>1, <2>2, NobodyNew, SlotsUntouched, EndUntouched
<1>8. FreshInv' /\ NoNewcomer
  <2>1. \A t \in Threads : At(t, "dialed")' <=> At(t, "dialed")
    BY <1>2 DEF At
  <2>2. \A t \in Threads : At(t, "dialed") => net'[pc[t].c] # "none" /\ pc[t].c # c
    BY <1>1, <1>2, <1>3 DEF FreshInv
  <2>3. ASSUME NEW d \in Calls, d # c, Unannounced(d)
        PROVE  Unannounced(d)'
    <3>1. \A i \in DOMAIN rings' : rings'[i] # d
      BY <1>2, <1>3, <2>3 DEF Unannounced
    <3>2. \A i \in DOMAIN queue' : queue'[i] # Event("Waiting", d)
      <4>1. Event("Waiting", c) # Event("Waiting", d) /\ Event("Ringing", c) # Event("Waiting", d)
        BY <2>3 DEF Event
      <4>2. \A i \in DOMAIN queue : queue[i] # Event("Waiting", d)
        BY <2>3 DEF Unannounced
      <4>3. \A i \in DOMAIN r : r[i] # Event("Waiting", d)
        BY <1>3, <1>4, <1>5, <4>1, <4>2
      <4> QED BY <1>4, <1>5, <4>1, <4>3
    <3> QED BY <1>2, <2>3, <3>1, <3>2 DEF Unannounced
  <2>4. \A d \in Calls : d # c => net'[d] = net[d]
    BY <1>2, <1>3
  <2>5. net'[c] = "offered"
    BY <1>2, <1>3
  <2>6. NoNewcomer
    BY <1>2, <2>1, <2>3, <2>5 DEF NoNewcomer, MayCome
  <2> QED BY <1>1, <1>2, <2>1, <2>2, <2>3, <2>4, <2>5, <2>6 DEF FreshInv
<1> QED BY <1>6, <1>7, <1>8 DEF IInv

\* A waiting goroutine takes the next event, or the event is put aside.
LEMMA Attending ==
  ASSUME Typed, Shaped, NEW t \in Threads, pc[t] = Idle, NEW c \in Calls,
         NEW k \in Kinds \cup {"Incoming"}, Becomes(t, [Idle EXCEPT !.c = c, !.todo = <<k>>])
  PROVE  /\ Shaped' /\ Quiet(pc[t]) /\ Quiet(pc'[t]) /\ pc'[t].c = c /\ pc'[t].todo = <<k>>
         /\ \A u \in Threads : u # t => pc'[u] = pc[u]
<1> DEFINE q == [Idle EXCEPT !.c = c, !.todo = <<k>>]
<1>1. Idle \in Locals /\ Idle.go = <<>> /\ Quiet(Idle)
  BY IdleShape DEF Shape, Idle
<1>2. q \in Locals /\ q.go = <<>> /\ q.c = c /\ q.todo = <<k>>
  <2>1. <<k>> \in Seq(Kinds \cup {"Incoming"})
    OBVIOUS
  <2> QED BY <1>1, <2>1 DEF Locals, OrNone
<1>3. Becomes(t, q)
  OBVIOUS
<1> HIDE DEF q
<1>4. Shape(q, t) /\ Quiet(q)
  BY <1>2, PlainShape, ListTypes
<1>5. Shaped' /\ (\A u \in Threads : u # t => pc'[u] = pc[u]) /\ pc'[t] = q
  <2>1. q.todo # <<>>
    BY <1>2
  <2> QED BY <1>3, <1>4, <2>1, Becoming
<1> QED BY <1>1, <1>2, <1>4, <1>5

\* An incoming call is taken up.
LEMMA RingKeeps ==
  ASSUME IInv, Ring
  PROVE  IInv' /\ NoNewcomer
<1>1. Typed /\ Shaped /\ SlotInv /\ EndInv /\ FreshInv /\ "in" \in Threads
  BY DEF IInv, Threads
<1>2. /\ UNCHANGED <<net, queue, unheard, call, device, waiting, med, early, seen, auto, fired, rows, deleted, ops, faults>>
      /\ pc["in"] = Idle /\ rings # <<>> /\ rings' = Tail(rings)
      /\ Becomes("in", [Idle EXCEPT !.c = Head(rings), !.todo = <<"Incoming">>])
  BY DEF Ring, slots, inbox, timers, history, bounds
<1>3. rings \in Seq(Calls) /\ Head(rings) \in Calls /\ rings' \in Seq(Calls)
  <2>1. rings \in Seq(Calls)
    BY <1>1 DEF Typed
  <2> QED BY <1>2, <2>1
<1>4. Typed'
  BY <1>1, <1>2, <1>3 DEF Typed
<1>5. /\ Shaped' /\ Quiet(pc["in"]) /\ Quiet(pc'["in"]) /\ pc'["in"].c = Head(rings)
      /\ \A u \in Threads : u # "in" => pc'[u] = pc[u]
  BY <1>1, <1>2, <1>3, Attending
<1>6. Kept
  BY <1>2 DEF Kept
<1>7. Silent
  <2>1. ASSUME NEW c \in Calls, Unannounced(c)
        PROVE  Unannounced(c)'
    <3>1. Head(rings) # c /\ \A i \in DOMAIN rings' : rings'[i] # c
      BY <1>2, <1>3, <2>1 DEF Unannounced
    <3>2. \A t \in Threads : pc'[t].c = c => \A i \in DOMAIN pc'[t].todo : pc'[t].todo[i] \notin Announces
      BY <1>5, <2>1, <3>1 DEF Unannounced
    <3> QED BY <1>2, <2>1, <3>1, <3>2 DEF Unannounced
  <2> QED BY <1>2, <2>1 DEF Silent
<1>8. \A t \in Threads : GoesOn(pc[t], pc'[t]) \/ (Quiet(pc[t]) /\ Quiet(pc'[t]))
  BY <1>5 DEF GoesOn
<1> QED BY <1>1, <1>2, <1>4, <1>5, <1>6, <1>7, <1>8, SoftKeeps

\* An event put aside is one that came for its call.
LEMMA ReceiveKeeps ==
  ASSUME IInv, Receive
  PROVE  IInv' /\ NoNewcomer
<1> DEFINE k == Head(queue).kind
           c == Head(queue).call
<1>1. Typed /\ Shaped /\ SlotInv /\ EndInv /\ FreshInv /\ "ev" \in Threads
  BY DEF IInv, Threads
<1>2. /\ UNCHANGED <<net, rings, unheard, call, device, waiting, med, seen, auto, fired, rows, deleted, ops, faults>>
      /\ pc["ev"] = Idle /\ queue # <<>> /\ queue' = Tail(queue)
  BY DEF Receive, slots, timers, history, bounds
<1>3. /\ queue \in Seq([kind : Kinds, call : Calls]) /\ queue' \in Seq([kind : Kinds, call : Calls])
      /\ k \in Kinds /\ c \in Calls /\ Head(queue) = Event(k, c) /\ early \in [Calls -> Seq(Kinds)]
  <2>1. queue \in Seq([kind : Kinds, call : Calls]) /\ early \in [Calls -> Seq(Kinds)]
    BY <1>1 DEF Typed
  <2>2. Head(queue) \in [kind : Kinds, call : Calls] /\ queue' \in Seq([kind : Kinds, call : Calls])
    BY <1>2, <2>1, Firsts
  <2> QED BY <2>1, <2>2 DEF Event
<1>4. \A d \in Calls : Unannounced(d) =>
        /\ Event(k, c) # Event("Waiting", d)
        /\ \A i \in DOMAIN queue' : queue'[i] # Event("Waiting", d)
  BY <1>2, <1>3 DEF Unannounced
<1>5. Kept
  BY <1>2 DEF Kept
<1> HIDE DEF k, c
<1>6. CASE early' = [early EXCEPT ![c] = Append(@, k)] /\ UNCHANGED pc
  <2>1. early' \in [Calls -> Seq(Kinds)]
    BY <1>3, <1>6
  <2>2. Typed'
    BY <1>1, <1>2, <1>3, <2>1 DEF Typed
  <2>3. Shaped' /\ \A t \in Threads : GoesOn(pc[t], pc'[t])
    BY <1>1, <1>6, NobodyMoves
  <2>4. Silent
    <3>1. ASSUME NEW d \in Calls, Unannounced(d)
          PROVE  Unannounced(d)'
      <4>1. \A i \in DOMAIN early[d] : early[d][i] # "Waiting"
        BY <3>1 DEF Unannounced
      <4>2. c = d => k # "Waiting"
        BY <1>4, <3>1
      <4>3. early'[d] = IF c = d THEN Append(early[d], k) ELSE early[d]
        BY <1>3, <1>6
      <4>4. \A i \in DOMAIN early'[d] : early'[d][i] # "Waiting"
        BY <1>3, <4>1, <4>2, <4>3
      <4> QED BY <1>2, <1>4, <1>6, <3>1, <4>4 DEF Unannounced
    <3> QED BY <1>2, <3>1 DEF Silent
  <2> QED BY <1>2, <1>5, <2>2, <2>3, <2>4, SoftKeeps
<1>7. CASE Becomes("ev", [Idle EXCEPT !.c = c, !.todo = <<k>>]) /\ UNCHANGED early
  <2>1. Typed'
    BY <1>1, <1>2, <1>3, <1>7 DEF Typed
  <2>2. /\ Shaped' /\ Quiet(pc["ev"]) /\ Quiet(pc'["ev"]) /\ pc'["ev"].c = c /\ pc'["ev"].todo = <<k>>
        /\ \A u \in Threads : u # "ev" => pc'[u] = pc[u]
    BY <1>1, <1>2, <1>3, <1>7, Attending
  <2>3. Silent
    <3>1. ASSUME NEW d \in Calls, Unannounced(d)
          PROVE  Unannounced(d)'
      <4>1. c = d => k \notin Announces
        BY <1>3, <1>4, <3>1 DEF Announces, Kinds
      <4>2. \A t \in Threads : pc'[t].c = d => \A i \in DOMAIN pc'[t].todo : pc'[t].todo[i] \notin Announces
        BY <2>2, <3>1, <4>1 DEF Unannounced
      <4> QED BY <1>2, <1>4, <1>7, <3>1, <4>2 DEF Unannounced
    <3> QED BY <1>2, <3>1 DEF Silent
  <2>4. \A t \in Threads : GoesOn(pc[t], pc'[t]) \/ (Quiet(pc[t]) /\ Quiet(pc'[t]))
    BY <2>2 DEF GoesOn
  <2> QED BY <1>2, <1>5, <2>1, <2>2, <2>3, <2>4, SoftKeeps
<1> QED BY <1>6, <1>7 DEF Receive, k, c
-----------------------------------------------------------------------------
(* Who dials *)

\* A request that dials has its session and no events to dispatch.
LEMMA DialAt ==
  ASSUME Shaped, NEW t \in Threads, NEW x \in {"device", "dial", "dialed", "undo"}, At(t, x)
  PROVE  /\ pc[t].go \in DialLists /\ Head(pc[t].go) = x /\ t \in Clients /\ pc[t].m \in Media
         /\ pc[t].todo = <<>> /\ pc[t] \in Locals /\ pc[t].c \in OrNone(Calls)
         /\ (pc[t].c = None => ~pc[t].claim) /\ (x = "dialed" => pc[t].c \in Calls)
<1>1. Shape(pc[t], t) /\ pc[t].go # <<>> /\ Head(pc[t].go) = x
  BY DEF Shaped, At
<1>2. x \notin Plain /\ x \notin {"attach", "answer", "assign", "usurp", "reach", "swap"} /\ x \notin {"close", "final"}
  BY DEF Plain
<1>3. pc[t].go \in DialLists /\ t \in Clients /\ pc[t].m \in Media /\ pc[t].todo = <<>>
  BY <1>1, <1>2, Places DEF Shape
<1>4. x = "dialed" => pc[t].c \in Calls
  BY <1>1, HasCall
<1> QED BY <1>1, <1>3, <1>4 DEF Shape, Locals

\* A request that dials goes on, with its call once there is one.
LEMMA DialGoes ==
  ASSUME Shaped, NEW t \in Threads, NEW x \in {"device", "dial", "dialed", "undo"}, At(t, x),
         NEW c \in OrNone(Calls), NEW g \in DialLists \cup Seq(Plain), g # <<>>,
         c \in Calls \/ (pc[t].c = None /\ g \in {<<"dial", "dialed", "leave">>, <<"undo", "leave">>, <<"leave">>}),
         Becomes(t, [pc[t] EXCEPT !.go = g, !.c = c])
  PROVE  /\ Shaped' /\ pc'[t].go = g /\ pc'[t].c = c /\ pc'[t].todo = <<>>
         /\ \A u \in Threads : u # t => pc'[u] = pc[u]
<1> DEFINE q == [pc[t] EXCEPT !.go = g, !.c = c]
<1>1. /\ t \in Clients /\ pc[t].m \in Media /\ pc[t].todo = <<>> /\ pc[t] \in Locals
      /\ (pc[t].c = None => ~pc[t].claim)
  BY DialAt
<1>2. q \in Locals /\ q.go = g /\ q.c = c /\ q.m = pc[t].m /\ q.todo = <<>> /\ q.claim = pc[t].claim
  BY <1>1, ListTypes DEF Locals
<1>3. Becomes(t, q)
  OBVIOUS
<1> HIDE DEF q
<1>4. Shape(q, t)
  <2>1. c \in Calls => c # None
    BY PhoneAssumption DEF PhoneAssumption
  <2> QED BY <1>1, <1>2, <2>1 DEF Shape
<1> QED BY <1>2, <1>3, <1>4, Becoming

\* The same, about the call the request has, if any.
LEMMA DialThen ==
  ASSUME Shaped, NEW t \in Threads, NEW x \in {"device", "dial", "dialed", "undo"}, At(t, x),
         NEW g \in DialLists \cup Seq(Plain), g # <<>>,
         pc[t].c \in Calls \/ g \in {<<"dial", "dialed", "leave">>, <<"undo", "leave">>, <<"leave">>},
         Goto(t, g)
  PROVE  /\ Shaped' /\ pc'[t].go = g /\ pc'[t].c = pc[t].c /\ pc'[t].todo = <<>>
         /\ \A u \in Threads : u # t => pc'[u] = pc[u]
<1>1. pc[t] \in Locals /\ pc[t].c \in OrNone(Calls)
  BY DialAt
<1>2. [pc[t] EXCEPT !.go = g] = [pc[t] EXCEPT !.go = g, !.c = pc[t].c]
  BY <1>1 DEF Locals
<1>3. Becomes(t, [pc[t] EXCEPT !.go = g, !.c = pc[t].c])
  BY <1>2, Zenon DEF Goto
<1> QED BY <1>1, <1>3, DialGoes DEF OrNone

\* A goroutine without events announces nothing.
LEMMA SilentMove ==
  ASSUME UNCHANGED <<rings, queue>>, \A c \in Calls : early'[c] \in {early[c], <<>>},
         \A c \in Calls : net'[c] \in {"none", "offered"} => net'[c] = net[c],
         NEW t \in Threads, \A u \in Threads : u # t => pc'[u] = pc[u], pc'[t].todo = <<>>
  PROVE  Silent
BY DEF Silent, Unannounced

\* It is not about to end a call.
LEMMA DialNotEnd ==
  ASSUME NEW p, p.go \in DialLists \cup Seq(Plain)
  PROVE  p.go \notin EndLists /\ ~(p.go # <<>> /\ Head(p.go) = "close")
<1>1. ASSUME p.go \in Seq(Plain), p.go # <<>>
      PROVE  Head(p.go) \in Plain
  BY <1>1
<1>2. \A g \in EndLists : g # <<>> /\ Head(g) \notin Plain
  BY DEF EndLists, Plain
<1>3. CASE p.go \in Seq(Plain)
  BY <1>1, <1>2, <1>3 DEF Plain
<1>4. CASE p.go \in DialLists
  BY <1>4 DEF DialLists, EndLists
<1> QED BY <1>3, <1>4

\* A request that dials ends no call.
LEMMA DialEnders ==
  ASSUME NEW t \in Threads, \A u \in Threads : u # t => pc'[u] = pc[u],
         pc[t].go \in DialLists \cup Seq(Plain), pc'[t].go \in DialLists \cup Seq(Plain)
  PROVE  SameEnders
<1>1. \A u \in Threads : u # t => /\ Ending(u)' <=> Ending(u)
                                  /\ At(u, "close")' <=> At(u, "close")
                                  /\ pc'[u] = pc[u]
  BY DEF Ending, At
<1>2. ~Ending(t) /\ ~At(t, "close") /\ ~Ending(t)' /\ ~At(t, "close")'
  BY DialNotEnd DEF Ending, At
<1> QED BY <1>1, <1>2 DEF SameEnders

\* The device is reserved.
LEMMA ReserveKeeps ==
  ASSUME IInv, NEW t \in Threads, ReserveDevice(t)
  PROVE  IInv' /\ NoNewcomer
<1>1. Typed /\ Shaped /\ SlotInv /\ EndInv /\ FreshInv
  BY DEF IInv
<1>2. /\ UNCHANGED <<net, queue, unheard, rings, call, waiting, med, early, seen, auto, fired, rows, deleted, ops, faults>>
      /\ At(t, "device")
  BY DEF ReserveDevice, gateway, inbox, timers, history, bounds
<1>3. pc[t].go = <<"device", "dial", "dialed", "leave">> /\ pc[t].go \in DialLists
  <2>1. Shape(pc[t], t) /\ pc[t].go # <<>> /\ Head(pc[t].go) = "device"
    BY <1>1, <1>2 DEF Shaped, At
  <2> QED BY <2>1, Lists DEF DialLists
<1>4. Kept /\ \A c \in Calls : Live(c)' <=> Live(c)
  BY <1>2 DEF Kept, Live
<1>5. \A g \in {<<"dial", "dialed", "leave">>, <<"leave">>} :
        Goto(t, g) => /\ Shaped' /\ pc'[t].go = g /\ pc'[t].c = pc[t].c /\ pc'[t].todo = <<>>
                      /\ \A u \in Threads : u # t => pc'[u] = pc[u]
  <2>1. {<<"dial", "dialed", "leave">>, <<"leave">>} \subseteq DialLists \cup Seq(Plain)
    BY ListTypes DEF DialLists
  <2> QED BY <1>1, <1>2, <2>1, DialThen
<1>6. CASE device = None /\ device' = "" /\ Then(t)
  <2>1. Goto(t, <<"dial", "dialed", "leave">>)
    <3>1. Tail(pc[t].go) = <<"dial", "dialed", "leave">>
      BY <1>3, Rests, Zenon
    <3> QED BY <1>6, <3>1 DEF Then
  <2>2. /\ Shaped' /\ pc'[t].go = <<"dial", "dialed", "leave">> /\ pc'[t].c = pc[t].c /\ pc'[t].todo = <<>>
        /\ \A u \in Threads : u # t => pc'[u] = pc[u]
    BY <1>5, <2>1
  <2>3. Typed'
    BY <1>1, <1>2, <1>6 DEF Typed, OrNone
  <2>4. Reserving(t)' /\ ~At(t, "dialed")' /\ pc'[t].go \in DialLists
    BY <2>2 DEF Reserving, At, DialLists
  <2>5. \A u \in Threads : u # t => /\ Reserving(u)' <=> Reserving(u)
                                    /\ At(u, "dialed")' <=> At(u, "dialed")
    BY <2>2 DEF Reserving, At
  <2>6. "" \notin Calls /\ None # "" /\ None \notin Calls
    BY PhoneAssumption DEF PhoneAssumption
  <2>7. SlotInv'
    BY <1>1, <1>2, <1>4, <1>6, <2>4, <2>5, <2>6 DEF SlotInv
  <2>8. EndInv'
    BY <1>1, <1>3, <1>4, <2>2, <2>4, DialEnders, EndUntouched
  <2>9. FreshInv' /\ NoNewcomer
    <3>1. Silent
      BY <1>2, <2>2, SilentMove
    <3>2. \A u \in Threads : At(u, "dialed")' => At(u, "dialed") /\ pc'[u].c = pc[u].c
      BY <2>2, <2>4, <2>5
    <3> QED BY <1>1, <1>2, <3>1, <3>2, SilentFresh
  <2> QED BY <2>2, <2>3, <2>7, <2>8, <2>9 DEF IInv
<1>7. CASE UNCHANGED device /\ Return(t)
  <2>1. /\ Shaped' /\ pc'[t].go = <<"leave">> /\ pc'[t].c = pc[t].c /\ pc'[t].todo = <<>>
        /\ \A u \in Threads : u # t => pc'[u] = pc[u]
    BY <1>5, <1>7 DEF Return
  <2>2. Typed'
    BY <1>1, <1>2, <1>7 DEF Typed
  <2>3. Quiet(pc[t]) /\ Quiet(pc'[t])
    BY <1>3, <2>1, ListTypes DEF Quiet
  <2>4. Silent
    BY <1>2, <2>1, SilentMove
  <2>5. \A u \in Threads : GoesOn(pc[u], pc'[u]) \/ (Quiet(pc[u]) /\ Quiet(pc'[u]))
    BY <2>1, <2>3 DEF GoesOn
  <2> QED BY <1>2, <1>4, <1>7, <2>1, <2>2, <2>4, <2>5, SoftKeeps
<1> QED BY <1>6, <1>7 DEF ReserveDevice

\* The gateway begins a call of which nobody knows, or refuses to.
LEMMA DialKeeps ==
  ASSUME IInv, NEW t \in Threads, Dial(t)
  PROVE  IInv' /\ NoNewcomer
<1>1. Typed /\ Shaped /\ SlotInv /\ EndInv /\ FreshInv
  BY DEF IInv
<1>2. /\ UNCHANGED <<queue, rings, unheard, call, device, waiting, med, early, seen, auto, fired, rows, deleted, ops>>
      /\ At(t, "dial") /\ faults' \in Nat
  BY <1>1, Bounded DEF Dial, slots, inbox, timers, history
<1>3. pc[t].go = <<"dial", "dialed", "leave">> /\ pc[t].go \in DialLists
  <2>1. Shape(pc[t], t) /\ pc[t].go # <<>> /\ Head(pc[t].go) = "dial"
    BY <1>1, <1>2 DEF Shaped, At
  <2> QED BY <2>1, Lists DEF DialLists
<1>4. Kept /\ \A c \in Calls : Live(c)' <=> Live(c)
  BY <1>2 DEF Kept, Live
<1>5. net \in [Calls -> Alive \cup {"none", "gone"}]
  BY <1>1 DEF Typed
<1>6. Reserving(t)
  BY <1>2 DEF Reserving
<1>7. ASSUME NEW c \in Calls, net[c] = "none", net' = [net EXCEPT ![c] = "dialing"],
             Becomes(t, [pc[t] EXCEPT !.go = Tail(@), !.c = c])
      PROVE  IInv' /\ NoNewcomer
  <2>1. Becomes(t, [pc[t] EXCEPT !.go = <<"dialed", "leave">>, !.c = c])
    BY <1>3, <1>7
  <2>2. /\ Shaped' /\ pc'[t].go = <<"dialed", "leave">> /\ pc'[t].c = c /\ pc'[t].todo = <<>>
        /\ \A u \in Threads : u # t => pc'[u] = pc[u]
    BY <1>1, <1>2, <2>1, DialGoes DEF DialLists, OrNone
  <2>3. Typed'
    <3>1. net' \in [Calls -> Alive \cup {"none", "gone"}]
      BY <1>5, <1>7 DEF Alive
    <3> QED BY <1>1, <1>2, <3>1 DEF Typed
  <2>4. Reserving(t)' /\ At(t, "dialed")' /\ pc'[t].go \in DialLists
    BY <2>2 DEF Reserving, At, DialLists
  <2>5. \A u \in Threads : u # t => /\ Reserving(u)' <=> Reserving(u)
                                    /\ At(u, "dialed")' <=> At(u, "dialed")
    BY <2>2 DEF Reserving, At
  <2>6. SlotInv'
    BY <1>1, <1>2, <1>4, <1>6, <2>4, <2>5 DEF SlotInv
  <2>7. EndInv'
    BY <1>1, <1>3, <1>4, <2>2, <2>4, DialEnders, EndUntouched
  <2>8. FreshInv' /\ NoNewcomer
    <3>1. Silent
      BY <1>2, <1>5, <1>7, <2>2, SilentMove
    <3>2. \A u \in Threads : At(u, "dialed")' => u = t
      BY <1>1, <2>4, <2>6 DEF SlotInv, Reserving
    <3>3. net'[c] = "dialing" /\ \A d \in Calls : d # c => net'[d] = net[d]
      BY <1>5, <1>7
    <3>4. net[c] = "none" => Unannounced(c)' /\ ~call'[c].reg
      BY <1>1, <1>2, <3>1 DEF FreshInv, Silent
    <3>5. \A d \in Calls : d # c /\ net'[d] = "none" => net'[d] # "offered" /\ Unannounced(d)' /\ ~call'[d].reg
      BY <1>1, <1>2, <3>1, <3>3 DEF FreshInv, Silent
    <3>6. NoNewcomer
      BY <2>2, <3>1, <3>2, <3>3 DEF NoNewcomer, MayCome, Silent
    <3> QED BY <1>7, <2>2, <3>2, <3>3, <3>4, <3>5, <3>6 DEF FreshInv
  <2> QED BY <2>2, <2>3, <2>6, <2>7, <2>8 DEF IInv
<1>8. CASE Goto(t, <<"undo", "leave">>) /\ UNCHANGED net
  <2>1. /\ Shaped' /\ pc'[t].go = <<"undo", "leave">> /\ pc'[t].c = pc[t].c /\ pc'[t].todo = <<>>
        /\ \A u \in Threads : u # t => pc'[u] = pc[u]
    <3>1. <<"undo", "leave">> \in DialLists
      BY DEF DialLists
    <3> QED BY <1>1, <1>2, <1>8, <3>1, DialThen
  <2>2. Typed'
    BY <1>1, <1>2, <1>8 DEF Typed
  <2>3. Reserving(t)' /\ ~At(t, "dialed")' /\ pc'[t].go \in DialLists
    BY <2>1 DEF Reserving, At, DialLists
  <2>4. \A u \in Threads : u # t => /\ Reserving(u)' <=> Reserving(u)
                                    /\ At(u, "dialed")' <=> At(u, "dialed")
    BY <2>1 DEF Reserving, At
  <2>5. SlotInv'
    BY <1>1, <1>2, <1>4, <1>6, <2>3, <2>4 DEF SlotInv
  <2>6. EndInv'
    BY <1>1, <1>3, <1>4, <2>1, <2>3, DialEnders, EndUntouched
  <2>7. FreshInv' /\ NoNewcomer
    <3>1. Silent
      BY <1>2, <1>8, <2>1, SilentMove
    <3>2. \A u \in Threads : At(u, "dialed")' => At(u, "dialed") /\ pc'[u].c = pc[u].c
      BY <2>1, <2>3, <2>4
    <3> QED BY <1>1, <1>2, <3>1, <3>2, SilentFresh
  <2> QED BY <2>1, <2>2, <2>5, <2>6, <2>7 DEF IInv
<1> QED BY <1>7, <1>8 DEF Dial

\* The device is freed by who had it.
LEMMA UndoKeeps ==
  ASSUME IInv, NEW t \in Threads, Undo(t)
  PROVE  IInv' /\ NoNewcomer
<1>1. Typed /\ Shaped /\ SlotInv /\ EndInv /\ FreshInv
  BY DEF IInv
<1>2. /\ UNCHANGED <<net, queue, unheard, rings, call, waiting, med, early, seen, auto, fired, rows, deleted, ops, faults>>
      /\ At(t, "undo") /\ Then(t) /\ FreeDevice
  BY DEF Undo, gateway, inbox, timers, history, bounds
<1>3. Reserving(t) /\ device = "" /\ device' = None
  <2>1. Reserving(t)
    BY <1>2 DEF Reserving
  <2>2. device = ""
    BY <1>1, <2>1 DEF SlotInv
  <2> QED BY <1>2, <2>1, <2>2 DEF FreeDevice
<1>4. /\ pc[t].go \in {<<"undo", "leave">>, <<"undo", "drop", "leave">>} /\ pc[t].go \in DialLists
      /\ (pc[t].go # <<"undo", "leave">> => pc[t].c \in Calls)
  <2>1. Shape(pc[t], t) /\ pc[t].go # <<>> /\ Head(pc[t].go) = "undo"
    BY <1>1, <1>2 DEF Shaped, At
  <2> QED BY <2>1, Lists, HasCall DEF DialLists
<1>5. PICK g \in {<<"leave">>, <<"drop", "leave">>} :
        Goto(t, g) /\ (g # <<"leave">> => pc[t].c \in Calls)
  <2>1. CASE pc[t].go = <<"undo", "leave">>
    <3>1. Tail(pc[t].go) = <<"leave">>
      BY <2>1, Rests, Zenon
    <3> QED BY <1>2, <3>1 DEF Then
  <2>2. CASE pc[t].go # <<"undo", "leave">>
    <3>1. Tail(pc[t].go) = <<"drop", "leave">>
      BY <1>4, <2>2, Rests, Zenon
    <3> QED BY <1>2, <1>4, <2>2, <3>1 DEF Then
  <2> QED BY <2>1, <2>2
<1>6. g \in Seq(Plain) /\ g # <<>> /\ Head(g) \in {"leave", "drop"}
  <2>1. CASE g = <<"leave">>
    BY <2>1, ListTypes
  <2>2. CASE g = <<"drop", "leave">>
    BY <2>2, PlainOnes
  <2> QED BY <1>5, <2>1, <2>2
<1>7. /\ Shaped' /\ pc'[t].go = g /\ pc'[t].c = pc[t].c /\ pc'[t].todo = <<>>
      /\ \A u \in Threads : u # t => pc'[u] = pc[u]
  BY <1>1, <1>2, <1>5, <1>6, DialThen
<1>8. Typed'
  BY <1>1, <1>2, <1>3 DEF Typed, OrNone
<1>9. ~Reserving(t)' /\ ~At(t, "dialed")'
  BY <1>6, <1>7 DEF Reserving, At
<1>10. \A u \in Threads : u # t => /\ Reserving(u)' <=> Reserving(u)
                                   /\ At(u, "dialed")' <=> At(u, "dialed")
  BY <1>7 DEF Reserving, At
<1>11. Kept /\ \A c \in Calls : Live(c)' <=> Live(c)
  BY <1>2 DEF Kept, Live
<1>12. SlotInv'
  <2>1. "" \notin Calls /\ None # "" /\ None \notin Calls
    BY PhoneAssumption DEF PhoneAssumption
  <2>2. \A u \in Threads : ~Reserving(u)'
    BY <1>1, <1>3, <1>9, <1>10 DEF SlotInv
  <2> QED BY <1>1, <1>2, <1>3, <1>11, <2>1, <2>2 DEF SlotInv
<1>13. EndInv'
  BY <1>1, <1>4, <1>6, <1>7, <1>11, DialEnders, EndUntouched
<1>14. FreshInv' /\ NoNewcomer
  <2>1. Silent
    BY <1>2, <1>7, SilentMove
  <2>2. \A u \in Threads : At(u, "dialed")' => At(u, "dialed") /\ pc'[u].c = pc[u].c
    BY <1>7, <1>9, <1>10
  <2> QED BY <1>1, <1>2, <2>1, <2>2, SilentFresh
<1> QED BY <1>7, <1>8, <1>12, <1>13, <1>14 DEF IInv

\* A call that enters Service.calls: nobody can be ending it yet.
LEMMA NewEnd ==
  ASSUME Typed, Shaped, EndInv, SameEnders, NEW c \in Calls, ~call[c].reg,
         NEW r \in CallRecords, r.reg, r.status \in Active, ~r.done, r.rec = "none",
         call' = [call EXCEPT ![c] = r]
  PROVE  EndInv' /\ Live(c)' /\ \A d \in Calls : d # c => (Live(d)' <=> Live(d)) /\ call'[d] = call[d]
<1>1. call \in [Calls -> CallRecords]
  BY DEF Typed
<1>2. call'[c] = r /\ \A d \in Calls : d # c => call'[d] = call[d]
  BY <1>1
<1>3. Live(c)' /\ \A d \in Calls : d # c => (Live(d)' <=> Live(d))
  BY <1>2 DEF Live
<1>4. \A t \in Threads : Ending(t) => pc[t].c \in Calls /\ pc[t].c # c
  BY EndingCall DEF EndInv
<1>5. \A t \in Threads : /\ Ending(t)' <=> Ending(t)
                         /\ At(t, "close")' <=> At(t, "close")
                         /\ Ending(t) => pc'[t] = pc[t]
  BY DEF SameEnders
<1>6. \A t \in Threads : At(t, "close") => Ending(t)
  BY Lists DEF At, Shaped, Ending, EndLists
<1>7. \A t \in Threads : Ending(t)' =>
        call'[pc'[t].c].reg /\ call'[pc'[t].c].status = "over" /\ ~call'[pc'[t].c].done
  BY <1>2, <1>4, <1>5 DEF EndInv
<1>8. \A t, u \in Threads : Ending(t)' /\ Ending(u)' /\ pc'[t].c = pc'[u].c => t = u
  BY <1>5 DEF EndInv
<1>9. ASSUME NEW d \in Calls
      PROVE  /\ call'[d].done => ~Live(d)' /\ call'[d].rec # "open"
             /\ ~call'[d].reg => call'[d].status \notin Active /\ call'[d].rec # "open"
             /\ call'[d].reg => call'[d].status \in Active \cup {"over"}
             /\ call'[d].rec = "open" /\ ~Live(d)' => \E t \in Threads : pc'[t].c = d /\ At(t, "close")'
             /\ call'[d].reg /\ ~Live(d)' /\ ~call'[d].done => \E t \in Threads : pc'[t].c = d /\ Ending(t)'
  <2>1. CASE d = c
    BY <1>2, <1>3, <2>1
  <2>2. CASE d # c
    <3>1. /\ call[d].done => ~Live(d) /\ call[d].rec # "open"
          /\ ~call[d].reg => call[d].status \notin Active /\ call[d].rec # "open"
          /\ call[d].reg => call[d].status \in Active \cup {"over"}
          /\ call[d].rec = "open" /\ ~Live(d) => \E t \in Threads : pc[t].c = d /\ At(t, "close")
          /\ call[d].reg /\ ~Live(d) /\ ~call[d].done => \E t \in Threads : pc[t].c = d /\ Ending(t)
      BY DEF EndInv
    <3>2. call'[d] = call[d] /\ (Live(d)' <=> Live(d))
      BY <1>2, <1>3, <2>2
    <3> QED BY <1>5, <1>6, <3>1, <3>2
  <2> QED BY <2>1, <2>2
<1> QED BY <1>2, <1>3, <1>7, <1>8, <1>9 DEF EndInv

\* BeginCall has returned: the call takes the device that its request has.
LEMMA DialedKeeps ==
  ASSUME IInv, NEW t \in Threads, Dialed(t)
  PROVE  IInv' /\ NoNewcomer
<1>1. Typed /\ Shaped /\ SlotInv /\ EndInv /\ FreshInv
  BY DEF IInv
<1>0. PICK c \in Calls, m \in Media : c = pc[t].c /\ m = pc[t].m
  BY <1>1, DialAt DEF Dialed
<1>2. /\ UNCHANGED <<net, queue, unheard, rings, waiting, seen, auto, fired, rows, deleted, ops, faults>>
      /\ At(t, "dialed") /\ early' = [early EXCEPT ![c] = <<>>]
  BY <1>0 DEF Dialed, gateway, timers, history, bounds
<1>3. /\ pc[t].go = <<"dialed", "leave">> /\ pc[t].go \in DialLists /\ t \in Clients /\ m \in Media
      /\ pc[t].todo = <<>> /\ pc[t] \in Locals /\ pc[t].c = c /\ pc[t].m = m /\ m \in Sessions
  <2>1. Shape(pc[t], t) /\ pc[t].go # <<>> /\ Head(pc[t].go) = "dialed"
    BY <1>1, <1>2 DEF Shaped, At
  <2> QED BY <1>0, <1>1, <1>2, <2>1, Lists, DialAt DEF Sessions
<1>4. /\ call \in [Calls -> CallRecords] /\ early \in [Calls -> Seq(Kinds)]
      /\ med \in [Sessions -> SessionRecords] /\ early' \in [Calls -> Seq(Kinds)]
      /\ \A d \in Calls : early'[d] \in {early[d], <<>>}
  <2>1. /\ call \in [Calls -> CallRecords] /\ early \in [Calls -> Seq(Kinds)]
        /\ med \in [Sessions -> SessionRecords]
    BY <1>1 DEF Typed
  <2>2. <<>> \in Seq(Kinds)
    OBVIOUS
  <2> QED BY <1>2, <2>1, <2>2
<1>5. Reserving(t) /\ device = "" /\ ~call[c].reg /\ net[c] # "none" /\ net[c] # "offered" /\ Unannounced(c)
  BY <1>1, <1>2, <1>3 DEF Reserving, SlotInv, FreshInv
<1>6. CASE /\ med' = Bound(m, c)
           /\ call' = [call EXCEPT ![c] = [NewCall(c, "out", "calling") EXCEPT !.media = m, !.lease = m]]
           /\ device' = c
           /\ Becomes(t, [pc[t] EXCEPT !.go = Resume(m) \o <<"snap", "write">> \o Tail(@), !.todo = early[c]])
  <2> DEFINE g == Resume(m) \o <<"snap", "write">> \o <<"leave">>
             q == [pc[t] EXCEPT !.go = g, !.todo = early[c]]
  <2>1. g \in Seq(Plain) /\ g # <<>>
    <3>1. <<"snap", "write">> \o <<"leave">> \in Seq(Plain) /\ <<"snap", "write">> \o <<"leave">> # <<>>
      BY PlainOnes, ListTypes
    <3>2. Resume(m) \in Seq(Plain) /\ <<"snap", "write">> \in Seq(Plain) /\ <<"leave">> \in Seq(Plain)
      BY <1>3, ResumeSteps, PlainOnes, ListTypes
    <3> QED BY <3>1, <3>2
  <2>2. Becomes(t, q)
    <3>1. Tail(pc[t].go) = <<"leave">>
      BY <1>3, Rests, Zenon
    <3> QED BY <1>6, <3>1
  <2> HIDE DEF g
  <2>3. /\ q \in Locals /\ q.go = g /\ q.c = c /\ q.m = m /\ q.todo = early[c]
        /\ early[c] \in Seq(Kinds) /\ \A i \in DOMAIN early[c] : early[c][i] \notin Announces
    <3>1. early[c] \in Seq(Kinds)
      BY <1>3, <1>4
    <3>2. early[c] \in Seq(Kinds \cup {"Incoming"})
      BY <3>1
    <3>3. \A i \in DOMAIN early[c] : early[c][i] \in Kinds /\ early[c][i] # "Waiting"
      BY <1>5, <3>1, Firsts DEF Unannounced
    <3> QED BY <1>3, <2>1, <3>1, <3>2, <3>3, ListTypes DEF Locals, Kinds, Announces
  <2> HIDE DEF q
  <2>4. Shape(q, t)
    BY <1>3, <2>1, <2>3, PlainShape
  <2>5. Shaped' /\ pc'[t] = q /\ \A u \in Threads : u # t => pc'[u] = pc[u]
    BY <1>1, <2>1, <2>2, <2>3, <2>4, Becoming
  <2>6. Head(g) \in Plain
    BY <2>1
  <2>7. ~Reserving(t)' /\ ~At(t, "dialed")'
    BY <2>3, <2>5, <2>6 DEF Reserving, At, Plain
  <2>8. PICK r \in CallRecords : /\ r = [NewCall(c, "out", "calling") EXCEPT !.media = m, !.lease = m]
                                 /\ r.reg /\ r.status \in Active /\ ~r.done /\ r.rec = "none"
    <3>1. PICK a \in BOOLEAN : a = (call[c] # NoCall)
      BY Zenon
    <3>2. NewCall(c, "out", "calling") =
            [NoCall EXCEPT !.reg = TRUE, !.dir = "out", !.status = "calling", !.again = a]
      BY <3>1, Zenon DEF NewCall
    <3> DEFINE r == [NewCall(c, "out", "calling") EXCEPT !.media = m, !.lease = m]
    <3>3. r \in CallRecords /\ r.reg /\ r.status \in Active /\ ~r.done /\ r.rec = "none"
      BY <1>3, <3>2 DEF NoCall, CallRecords, OrNone, Statuses, Active
    <3> QED BY <3>3
  <2>9. SameEnders
    BY <1>3, <2>1, <2>3, <2>5, DialEnders
  <2>10. EndInv' /\ Live(c)' /\ \A d \in Calls : d # c => (Live(d)' <=> Live(d)) /\ call'[d] = call[d]
    <3>1. call' = [call EXCEPT ![c] = r]
      BY <1>6, <2>8
    <3> QED BY <1>1, <1>3, <1>5, <2>8, <2>9, <3>1, NewEnd
  <2>11. Typed'
    <3>1. call' \in [Calls -> CallRecords]
      BY <1>4, <1>6, <2>8
    <3>2. med' \in [Sessions -> SessionRecords]
      BY <1>1, <1>3, <1>6, MediaTypes
    <3>3. device' \in OrNone(Calls \cup {""})
      BY <1>3, <1>6 DEF OrNone
    <3> QED BY <1>1, <1>2, <1>4, <3>1, <3>2, <3>3 DEF Typed
  <2>12. SlotInv'
    <3>1. "" \notin Calls /\ None \notin Calls
      BY PhoneAssumption DEF PhoneAssumption
    <3>2. \A u \in Threads : ~Reserving(u)'
      BY <1>1, <1>5, <2>5, <2>7 DEF SlotInv, Reserving, At
    <3>3. \A d \in Calls : Live(d)' => d \in {device', waiting'}
      BY <1>1, <1>2, <1>3, <1>5, <1>6, <2>10, <3>1 DEF SlotInv
    <3>4. waiting' \in Calls => Live(waiting)
      BY <1>1, <1>2 DEF SlotInv
    <3>5. waiting' \in Calls => waiting # c
      BY <1>2, <1>5, <3>4 DEF Live
    <3> QED BY <1>2, <1>3, <1>6, <2>10, <3>1, <3>2, <3>3, <3>4, <3>5 DEF SlotInv
  <2>13. FreshInv' /\ NoNewcomer
    <3>1. \A u \in Threads : At(u, "dialed")' => At(u, "dialed") /\ pc'[u].c = pc[u].c /\ pc[u].c # c
      <4>1. \A u \in Threads : ~At(u, "dialed")'
        BY <1>1, <1>5, <2>5, <2>7 DEF SlotInv, Reserving, At
      <4> QED BY <4>1
    <3>2. ASSUME NEW d \in Calls, Unannounced(d), d # c
          PROVE  Unannounced(d)'
      <4>1. early'[d] = early[d]
        BY <1>2, <1>4, <3>2
      <4> QED BY <1>2, <2>3, <2>5, <3>2, <4>1 DEF Unannounced
    <3>3. NoNewcomer
      BY <1>2, <1>3, <3>1, <3>2 DEF NoNewcomer, MayCome
    <3> QED BY <1>1, <1>2, <1>5, <2>10, <3>1, <3>2, <3>3 DEF FreshInv
  <2> QED BY <2>5, <2>10, <2>11, <2>12, <2>13 DEF IInv
<1>7. CASE /\ med' = Unheld(m, t) /\ Goto(t, <<"undo", "drop", "leave">>)
           /\ UNCHANGED <<call, device>>
  <2>1. /\ Shaped' /\ pc'[t].go = <<"undo", "drop", "leave">> /\ pc'[t].c = c /\ pc'[t].todo = <<>>
        /\ \A u \in Threads : u # t => pc'[u] = pc[u]
    <3>1. <<"undo", "drop", "leave">> \in DialLists
      BY DEF DialLists
    <3> QED BY <1>1, <1>2, <1>3, <1>7, <3>1, DialThen
  <2>2. Typed'
    <3>1. med' \in [Sessions -> SessionRecords]
      BY <1>1, <1>3, <1>7, MediaTypes
    <3> QED BY <1>1, <1>2, <1>4, <1>7, <3>1 DEF Typed
  <2>3. Reserving(t)' /\ ~At(t, "dialed")' /\ pc'[t].go \in DialLists
    BY <2>1 DEF Reserving, At, DialLists
  <2>4. \A u \in Threads : u # t => /\ Reserving(u)' <=> Reserving(u)
                                    /\ At(u, "dialed")' <=> At(u, "dialed")
    BY <2>1 DEF Reserving, At
  <2>5. Kept /\ \A d \in Calls : Live(d)' <=> Live(d)
    BY <1>7 DEF Kept, Live
  <2>6. SlotInv'
    BY <1>1, <1>2, <1>5, <1>7, <2>3, <2>4, <2>5 DEF SlotInv
  <2>7. EndInv'
    BY <1>1, <1>3, <2>1, <2>3, <2>5, DialEnders, EndUntouched
  <2>8. FreshInv' /\ NoNewcomer
    <3>1. Silent
      BY <1>2, <1>4, <2>1, SilentMove
    <3>2. \A u \in Threads : At(u, "dialed")' => At(u, "dialed") /\ pc'[u].c = pc[u].c
      BY <2>1, <2>3, <2>4
    <3> QED BY <1>1, <1>7, <3>1, <3>2, SilentFresh
  <2> QED BY <2>1, <2>2, <2>6, <2>7, <2>8 DEF IInv
<1> QED BY <1>0, <1>6, <1>7 DEF Dialed
-----------------------------------------------------------------------------
(* Who comes in *)

\* A call enters Service.calls, and the goroutine goes on with its early events.
LEMMA Registering ==
  ASSUME IInv, NEW t \in Threads, NEW kinds, Dispatches(t, kinds), NEW c \in Calls, c = pc[t].c,
         Head(pc[t].todo) \in Announces, ~call[c].reg, NEW status \in Active, NEW steps \in Seq(Plain),
         Registers(t, c, status, steps), UNCHANGED <<gateway, med, seen, timers, history, bounds>>,
         \/ device = None /\ device' = c /\ UNCHANGED waiting
         \/ device \in Calls /\ waiting = None /\ waiting' = c /\ UNCHANGED device
  PROVE  IInv' /\ NoNewcomer
<1>1. Typed /\ Shaped /\ SlotInv /\ EndInv /\ FreshInv
  BY DEF IInv
<1>2. /\ UNCHANGED <<net, queue, unheard, rings, med, seen, auto, fired, rows, deleted, ops, faults>>
      /\ call' = [call EXCEPT ![c] = NewCall(c, "in", status)] /\ early' = [early EXCEPT ![c] = <<>>]
  BY DEF Registers, gateway, timers, history, bounds
<1>3. /\ pc[t] \in Locals /\ Quiet(pc[t]) /\ pc[t].go \in Seq(Plain) /\ pc[t].todo # <<>>
      /\ pc[t].todo \in Seq(Kinds \cup {"Incoming"})
  BY <1>1, AtEvent
<1>4. call \in [Calls -> CallRecords] /\ early \in [Calls -> Seq(Kinds)]
  BY <1>1 DEF Typed
<1>5. early' \in [Calls -> Seq(Kinds)]
  <2>1. <<>> \in Seq(Kinds)
    OBVIOUS
  <2> QED BY <1>2, <1>4, <2>1
<1> DEFINE g == (IF AlreadyEnded(c) THEN <<>> ELSE steps) \o pc[t].go
           todo == early[c] \o Tail(pc[t].todo)
           q == [pc[t] EXCEPT !.todo = todo, !.go = g]
<1>6. g \in Seq(Plain) /\ todo \in Seq(Kinds \cup {"Incoming"})
  <2>1. (IF AlreadyEnded(c) THEN <<>> ELSE steps) \in Seq(Plain)
    BY ListTypes
  <2>2. early[c] \in Seq(Kinds \cup {"Incoming"}) /\ Tail(pc[t].todo) \in Seq(Kinds \cup {"Incoming"})
    BY <1>3, <1>4
  <2> QED BY <1>3, <2>1, <2>2
<1>7. Becomes(t, q)
  BY DEF Registers
<1> HIDE DEF g, todo
<1>8. q \in Locals /\ q.go = g /\ q.c = c /\ q.todo = todo
  BY <1>3, <1>6, ListTypes DEF Locals
<1> HIDE DEF q
<1>9. Shape(q, t) /\ Quiet(q)
  BY <1>6, <1>8, PlainShape
<1>10. /\ Shaped' /\ \A u \in Threads : u # t => pc'[u] = pc[u]
       /\ pc'[t] \in {Idle, q}
  BY <1>1, <1>7, <1>9, Becoming
<1>11. \A u \in Threads : GoesOn(pc[u], pc'[u]) \/ (Quiet(pc[u]) /\ Quiet(pc'[u]))
  BY <1>3, <1>9, <1>10, IdleShape DEF GoesOn
<1>12. \A u \in Threads : /\ Reserving(u)' <=> Reserving(u)
                          /\ At(u, "dialed")' <=> At(u, "dialed")
                          /\ At(u, "dialed") => pc'[u] = pc[u]
                          /\ Ending(u)' <=> Ending(u)
                          /\ At(u, "close")' <=> At(u, "close")
                          /\ Ending(u) => pc'[u] = pc[u]
  BY <1>1, <1>10, <1>11, StillThere DEF Reserving
<1>13. PICK r \in CallRecords : /\ r = NewCall(c, "in", status)
                                /\ r.reg /\ r.status \in Active /\ ~r.done /\ r.rec = "none"
  <2>1. PICK a \in BOOLEAN : a = (call[c] # NoCall)
    BY Zenon
  <2>2. NewCall(c, "in", status) = [NoCall EXCEPT !.reg = TRUE, !.dir = "in", !.status = status, !.again = a]
    BY <2>1, Zenon DEF NewCall
  <2> DEFINE r == NewCall(c, "in", status)
  <2>3. r \in CallRecords /\ r.reg /\ r.status \in Active /\ ~r.done /\ r.rec = "none"
    BY <2>2 DEF NoCall, CallRecords, OrNone, Statuses
  <2> QED BY <2>3
<1>14. EndInv' /\ Live(c)' /\ \A d \in Calls : d # c => (Live(d)' <=> Live(d)) /\ call'[d] = call[d]
  <2>1. SameEnders
    BY <1>12 DEF SameEnders
  <2>2. call' = [call EXCEPT ![c] = r]
    BY <1>2, <1>13
  <2> QED BY <1>1, <1>13, <2>1, <2>2, NewEnd
<1>15. Typed'
  <2>1. call' \in [Calls -> CallRecords]
    BY <1>2, <1>4, <1>13
  <2>2. device' \in OrNone(Calls \cup {""}) /\ waiting' \in OrNone(Calls)
    BY <1>1 DEF OrNone, Typed
  <2> QED BY <1>1, <1>2, <1>5, <2>1, <2>2 DEF Typed
<1>16. SlotInv'
  <2>0. \/ device = None /\ device' = c /\ waiting' = waiting
        \/ device \in Calls /\ waiting = None /\ waiting' = c /\ device' = device
    OBVIOUS
  <2>1. "" \notin Calls /\ None \notin Calls /\ None # ""
    BY PhoneAssumption DEF PhoneAssumption
  <2>2. device \in Calls => device # c
    BY <1>1 DEF SlotInv, Live
  <2>3. waiting \in Calls => waiting # c
    BY <1>1 DEF SlotInv, Live
  <2>4. \A u \in Threads : ~Reserving(u)
    <3>1. device # ""
      BY <2>0, <2>1
    <3>2. \A u \in Threads : Reserving(u) => device = ""
      BY <1>1, Zenon DEF SlotInv
    <3> QED BY <3>1, <3>2, Zenon
  <2>5. \A u \in Threads : ~Reserving(u)'
    BY <1>12, <2>4
  <2>6. device' # ""
    BY <2>0, <2>1
  <2>7. (device \in Calls => Live(device))' /\ (waiting \in Calls => Live(waiting))'
    <3>1. \A d \in Calls : (d = device' => d = device \/ d = c) /\ (d = waiting' => d = waiting \/ d = c)
      BY <2>0, <2>1
    <3>2. ASSUME NEW d \in Calls, d = device \/ d = waiting \/ d = c
          PROVE  call'[d].reg /\ call'[d].status \in Active
      <4>1. CASE d = c
        BY <1>14, <4>1 DEF Live
      <4>2. CASE d # c
        BY <1>1, <1>14, <3>2, <4>2 DEF SlotInv, Live
      <4> QED BY <4>1, <4>2
    <3> QED BY <3>1, <3>2 DEF Live
  <2>8. ASSUME NEW d \in Calls, Live(d)'
        PROVE  d \in {device', waiting'}
    <3>1. CASE d = c
      BY <2>0, <3>1
    <3>2. CASE d # c
      <4>1. Live(d)
        BY <1>14, <2>8, <3>2
      <4>2. d \in {device, waiting}
        BY <1>1, <4>1 DEF SlotInv
      <4> QED BY <2>0, <2>1, <4>2
    <3> QED BY <3>1, <3>2
  <2>9. (\A d \in Calls : Live(d) => d \in {device, waiting})'
    BY <2>8
  <2> QED BY <2>5, <2>6, <2>7, <2>9, Zenon DEF SlotInv
<1>17. FreshInv' /\ NoNewcomer
  <2>1. ~Unannounced(c)
    <3>1. 1 \in DOMAIN pc[t].todo /\ pc[t].todo[1] = Head(pc[t].todo)
      BY <1>3
    <3> QED BY <3>1 DEF Unannounced
  <2>2. net[c] # "none" /\ \A u \in Threads : ~(At(u, "dialed") /\ pc[u].c = c)
    BY <1>1, <2>1 DEF FreshInv
  <2>3. Idle.todo = <<>> /\ Idle.c = None
    BY DEF Idle
  <2>4. ASSUME NEW d \in Calls, Unannounced(d), d # c
        PROVE  Unannounced(d)'
    <3>1. early'[d] = early[d]
      BY <1>2, <1>4, <2>4
    <3>2. \A u \in Threads : pc'[u].c = d => pc'[u] = pc[u]
      <4>1. d # None
        BY PhoneAssumption DEF PhoneAssumption
      <4> QED BY <1>8, <1>10, <2>3, <2>4, <4>1
    <3> QED BY <1>2, <2>4, <3>1, <3>2 DEF Unannounced
  <2>5. NoNewcomer
    BY <1>12, <2>1, <2>4 DEF NoNewcomer, MayCome
  <2> QED BY <1>1, <1>2, <1>12, <1>14, <2>2, <2>4, <2>5 DEF FreshInv
<1> QED BY <1>10, <1>14, <1>15, <1>16, <1>17 DEF IInv

\* A goroutine deals with an event in plain steps, and nothing else changes.
LEMMA CalmlyHandled ==
  ASSUME Typed, Shaped, NEW t \in Threads, NEW kinds, kinds \cap Last = {}, Dispatches(t, kinds),
         NEW steps \in Seq(Plain),
         NEW media \in OrNone(Sessions), Handled(t, steps, None, media),
         UNCHANGED <<gateway, call, slots, med, inbox, timers, history, bounds>>
  PROVE  Calmly
<1>1. /\ UNCHANGED <<net, queue, unheard, rings, slots, early, seen, auto, fired, history, ops, faults, call, med>>
  BY DEF inbox, timers, gateway, bounds
<1>2. faults' \in Nat /\ None \in Statuses
  BY <1>1 DEF Typed, Statuses, OrNone
<1>3. Shaped' /\ \A u \in Threads : GoesOn(pc[u], pc'[u])
  BY <1>2, PlainHandled
<1> QED BY <1>1, <1>2, <1>3, NoWord, NoCallMoves, Calming

\* An event that is of no interest is dropped.
LEMMA EventIgnored ==
  ASSUME Typed, Shaped, NEW t \in Threads, NEW kinds, kinds \cap Last = {}, Dispatches(t, kinds), Ignored(t),
         UNCHANGED <<gateway, call, slots, med, inbox, timers, history, bounds>>
  PROVE  Calmly
<1>1. pc[t].m \in OrNone(Sessions)
  BY AtEvent DEF Locals
<1> QED BY <1>1, ListTypes, CalmlyHandled DEF Ignored

\* An incoming call enters, waits, or is refused.
LEMMA IncomingKeeps ==
  ASSUME IInv, NEW t \in Threads, HandleIncoming(t)
  PROVE  IInv' /\ NoNewcomer
<1>1. Typed /\ Shaped /\ SlotInv /\ EndInv /\ FreshInv
  BY DEF IInv
<1>2. Dispatches(t, {"Incoming", "Waiting"}) /\ UNCHANGED <<gateway, med, seen, timers, history, bounds>>
  BY DEF HandleIncoming
<1>3. PICK c \in Calls : c = pc[t].c
  BY <1>1, <1>2, AtEvent
<1>4. Head(pc[t].todo) \in Announces
  BY <1>2 DEF Dispatches, Announces
<1>5. CASE Ignored(t) /\ UNCHANGED <<call, slots, early>>
  <2>1. Calmly
    <3>1. {"Incoming", "Waiting"} \cap Last = {}
      BY DEF Last
    <3> QED BY <1>1, <1>2, <1>5, <3>1, EventIgnored DEF inbox
  <2> QED BY <2>1, CalmKeeps
<1>6. CASE /\ ~call[c].reg /\ device = None
           /\ Registers(t, c, "ringing", <<"snap", "write", "auto">>)
           /\ device' = c /\ UNCHANGED waiting
  <2>1. "ringing" \in Active /\ <<"snap", "write", "auto">> \in Seq(Plain)
    BY PlainOnes DEF Active
  <2> QED BY <1>2, <1>3, <1>4, <1>6, <2>1, Registering
<1>7. CASE /\ ~call[c].reg /\ MayWait
           /\ Registers(t, c, "waiting", <<"snap", "write">>)
           /\ waiting' = c /\ UNCHANGED device
  <2>1. "waiting" \in Active /\ <<"snap", "write">> \in Seq(Plain)
    BY PlainOnes DEF Active
  <2>2. device \in Calls /\ waiting = None
    BY <1>7 DEF MayWait
  <2> QED BY <1>2, <1>3, <1>4, <1>7, <2>1, <2>2, Registering
<1>8. CASE Handled(t, <<"refuse", "busy">>, None, None) /\ UNCHANGED <<call, slots, early>>
  <2>1. Calmly
    <3>1. {"Incoming", "Waiting"} \cap Last = {} /\ <<"refuse", "busy">> \in Seq(Plain) /\ None \in OrNone(Sessions)
      BY PlainOnes DEF Last, OrNone
    <3> QED BY <1>1, <1>2, <1>8, <3>1, CalmlyHandled DEF inbox
  <2> QED BY <2>1, CalmKeeps
<1> QED BY <1>3, <1>5, <1>6, <1>7, <1>8 DEF HandleIncoming
-----------------------------------------------------------------------------
(* The end of a call, step by step *)

\* What goroutine t does with call c, which no other goroutine is ending, keeps the ends
\* of the other calls in order.
LEMMA EndsOne ==
  ASSUME Shaped, EndInv, NEW t \in Threads, NEW c \in Calls, c = pc[t].c,
         \A u \in Threads : u # t => pc'[u] = pc[u] /\ ~(Ending(u) /\ pc[u].c = c),
         \A d \in Calls : d # c => /\ call'[d].reg = call[d].reg /\ call'[d].done = call[d].done
                                   /\ call'[d].status = call[d].status /\ call'[d].rec = call[d].rec,
         Ending(t)' => pc'[t].c = c /\ call'[c].reg /\ call'[c].status = "over" /\ ~call'[c].done,
         call'[c].done => ~Live(c)' /\ call'[c].rec # "open",
         ~call'[c].reg => call'[c].status \notin Active /\ call'[c].rec # "open",
         call'[c].reg => call'[c].status \in Active \cup {"over"},
         call'[c].rec = "open" /\ ~Live(c)' => At(t, "close")' /\ pc'[t].c = c,
         call'[c].reg /\ ~Live(c)' /\ ~call'[c].done => Ending(t)'
  PROVE  EndInv'
<1>1. \A u \in Threads : u # t => /\ pc'[u] = pc[u] /\ (Ending(u)' <=> Ending(u))
                                  /\ At(u, "close")' <=> At(u, "close")
  BY DEF Ending, At
<1>2. ASSUME NEW u \in Threads, Ending(u)'
      PROVE  call'[pc'[u].c].reg /\ call'[pc'[u].c].status = "over" /\ ~call'[pc'[u].c].done
  <2>1. CASE u = t
    BY <1>2, <2>1
  <2>2. CASE u # t
    <3>1. Ending(u) /\ pc'[u].c = pc[u].c /\ pc[u].c # c
      BY <1>1, <1>2, <2>2
    <3>2. call[pc[u].c].reg /\ call[pc[u].c].status = "over" /\ ~call[pc[u].c].done
      BY <3>1 DEF EndInv
    <3>3. pc[u].c \in Calls
      BY <1>2, <3>1, EndingCall
    <3> QED BY <3>1, <3>2, <3>3
  <2> QED BY <2>1, <2>2
<1>3. \A u, v \in Threads : Ending(u)' /\ Ending(v)' /\ pc'[u].c = pc'[v].c => u = v
  <2>1. \A u, v \in Threads : Ending(u) /\ Ending(v) /\ pc[u].c = pc[v].c => u = v
    BY DEF EndInv
  <2> QED BY <1>1, <2>1
<1>4. ASSUME NEW d \in Calls, d # c
      PROVE  /\ call'[d].done => ~Live(d)' /\ call'[d].rec # "open"
             /\ ~call'[d].reg => call'[d].status \notin Active /\ call'[d].rec # "open"
             /\ call'[d].reg => call'[d].status \in Active \cup {"over"}
             /\ call'[d].rec = "open" /\ ~Live(d)' => \E u \in Threads : pc'[u].c = d /\ At(u, "close")'
             /\ call'[d].reg /\ ~Live(d)' /\ ~call'[d].done => \E u \in Threads : pc'[u].c = d /\ Ending(u)'
  <2>1. /\ call'[d].reg = call[d].reg /\ call'[d].done = call[d].done
        /\ call'[d].status = call[d].status /\ call'[d].rec = call[d].rec
        /\ (Live(d)' <=> Live(d))
    BY <1>4 DEF Live
  <2>2. /\ call[d].done => ~Live(d) /\ call[d].rec # "open"
        /\ ~call[d].reg => call[d].status \notin Active /\ call[d].rec # "open"
        /\ call[d].reg => call[d].status \in Active \cup {"over"}
        /\ call[d].rec = "open" /\ ~Live(d) => \E u \in Threads : pc[u].c = d /\ At(u, "close")
        /\ call[d].reg /\ ~Live(d) /\ ~call[d].done => \E u \in Threads : pc[u].c = d /\ Ending(u)
    BY DEF EndInv
  <2>3. \A u \in Threads : pc[u].c = d => u # t
    BY <1>4
  <2> QED BY <1>1, <2>1, <2>2, <2>3
<1> QED BY <1>2, <1>3, <1>4, ZenonT(40) DEF EndInv

\* A goroutine that neither dials nor begins to does not have the device.
LEMMA HasNotDevice ==
  ASSUME NEW t \in Threads, NEW p, p.go \in EndLists \cup Seq(Plain)
  PROVE  p.go # <<>> => Head(p.go) \notin {"dial", "dialed", "undo"}
<1>1. CASE p.go \in EndLists
  BY <1>1 DEF EndLists
<1>2. CASE p.go \in Seq(Plain)
  BY <1>2 DEF Plain
<1> QED BY <1>1, <1>2

\* Goroutine t hears of nothing new, and neither does the service.
LEMMA SilentStep ==
  ASSUME UNCHANGED <<net, rings, queue, early>>, NEW t \in Threads,
         \A u \in Threads : u # t => pc'[u] = pc[u],
         \/ pc'[t].todo = <<>>
         \/ pc'[t].c = pc[t].c /\ pc'[t].todo = pc[t].todo
         \/ pc'[t].c = pc[t].c /\ pc[t].todo # <<>> /\ pc'[t].todo = Tail(pc[t].todo),
         NEW S, pc[t].todo \in Seq(S)
  PROVE  Silent
<1>1. \A i \in DOMAIN pc'[t].todo : \E j \in DOMAIN pc[t].todo : pc'[t].c = pc[t].c /\ pc'[t].todo[i] = pc[t].todo[j]
  <2>1. CASE pc'[t].todo = <<>>
    BY <2>1
  <2>2. CASE pc'[t].c = pc[t].c /\ pc'[t].todo = pc[t].todo
    BY <2>2
  <2>3. CASE pc'[t].c = pc[t].c /\ pc[t].todo # <<>> /\ pc'[t].todo = Tail(pc[t].todo)
    <3>1. \A i \in DOMAIN Tail(pc[t].todo) : i + 1 \in DOMAIN pc[t].todo /\ Tail(pc[t].todo)[i] = pc[t].todo[i + 1]
      BY <2>3
    <3> QED BY <2>3, <3>1
  <2> QED BY <2>1, <2>2, <2>3
<1>2. ASSUME NEW d \in Calls, Unannounced(d)
      PROVE  Unannounced(d)'
  <2>1. ASSUME NEW u \in Threads, pc'[u].c = d
        PROVE  \A i \in DOMAIN pc'[u].todo : pc'[u].todo[i] \notin Announces
    <3>1. CASE u = t
      BY <1>1, <1>2, <2>1, <3>1 DEF Unannounced
    <3>2. CASE u # t
      BY <1>2, <2>1, <3>2 DEF Unannounced
    <3> QED BY <3>1, <3>2
  <2> QED BY <1>2, <2>1 DEF Unannounced
<1> QED BY <1>2 DEF Silent

\* A goroutine that neither has the device nor gets it: so it is with a goroutine that
\* ends a call, or begins to, or stops.
LEMMA NoHolder ==
  ASSUME NEW t \in Threads, \A u \in Threads : u # t => pc'[u] = pc[u], UNCHANGED slots,
         pc[t].go \in EndLists \cup Seq(Plain), pc'[t].go \in EndLists \cup Seq(Plain)
  PROVE  SameHolders /\ \A u \in Threads : At(u, "dialed")' => At(u, "dialed") /\ pc'[u].c = pc[u].c
<1>1. ~Reserving(t) /\ ~At(t, "dialed")
  BY HasNotDevice DEF Reserving, At
<1>2. ~Reserving(t)' /\ ~At(t, "dialed")'
  <2>1. pc'[t].go # <<>> => Head(pc'[t].go) \notin {"dial", "dialed", "undo"}
    BY HasNotDevice
  <2> QED BY <2>1 DEF Reserving, At
<1>3. \A u \in Threads : u # t => /\ pc'[u] = pc[u] /\ (Reserving(u)' <=> Reserving(u))
                                  /\ At(u, "dialed")' <=> At(u, "dialed")
  BY DEF Reserving, At
<1> QED BY <1>1, <1>2, <1>3 DEF SameHolders, slots

\* Two lists in a row, place by place.
LEMMA Joined ==
  ASSUME NEW S, NEW a \in Seq(S), NEW b \in Seq(S)
  PROVE  a \o b = [i \in 1 .. (Len(a) + Len(b)) |-> IF i <= Len(a) THEN a[i] ELSE b[i - Len(a)]]
<1>1. PICK s : s = a \o b
  OBVIOUS
<1>2. s \in Seq(S) /\ Len(s) = Len(a) + Len(b)
  BY <1>1
<1>3. \A i \in 1 .. Len(a) : s[i] = a[i]
  BY <1>1
<1>4. \A i \in 1 .. Len(b) : s[Len(a) + i] = b[i]
  BY <1>1
<1>5. PICK n \in Nat, k \in Nat : n = Len(a) /\ k = Len(b)
  OBVIOUS
<1>6. s = [i \in 1 .. Len(s) |-> s[i]]
  BY <1>2
<1>7. \A i \in 1 .. (n + k) : s[i] = IF i <= n THEN a[i] ELSE b[i - n]
  <2> SUFFICES ASSUME NEW i \in 1 .. (n + k)
               PROVE  s[i] = IF i <= n THEN a[i] ELSE b[i - n]
    OBVIOUS
  <2>1. CASE i <= n
    BY <1>3, <1>5, <2>1
  <2>2. CASE ~(i <= n)
    <3>1. i - n \in 1 .. k /\ n + (i - n) = i
      BY <2>2
    <3> QED BY <1>4, <1>5, <2>2, <3>1
  <2> QED BY <2>1, <2>2
<1> QED BY <1>1, <1>2, <1>5, <1>6, <1>7

\* A pair and one more.
LEMMA PairAndOne ==
  ASSUME NEW x, NEW y, NEW z
  PROVE  <<x, y>> \o <<z>> = <<x, y, z>>
<1>1. PICK S : S = {x, y, z}
  OBVIOUS
<1>2. <<x, y>> \in Seq(S) /\ <<z>> \in Seq(S) /\ Len(<<x, y>>) = 2 /\ Len(<<z>>) = 1
  BY <1>1
<1>3. PICK a \in Seq(S), b \in Seq(S) : a = <<x, y>> /\ b = <<z>>
  BY <1>2
<1>4. Len(a) = 2 /\ Len(b) = 1 /\ a[1] = x /\ a[2] = y /\ b[1] = z
  BY <1>3
<1>5. a \o b = [i \in 1 .. (Len(a) + Len(b)) |-> IF i <= Len(a) THEN a[i] ELSE b[i - Len(a)]]
  BY Joined, Zenon
<1>6. PICK f : f = [i \in 1 .. (Len(a) + Len(b)) |-> IF i <= Len(a) THEN a[i] ELSE b[i - Len(a)]]
  OBVIOUS
<1>7. f = <<x, y, z>>
  BY <1>4, <1>6
<1> QED BY <1>3, <1>5, <1>6, <1>7, Zenon

\* An event is dropped.
LEMMA Dropping ==
  ASSUME Shaped, NEW t \in Threads, NEW kinds, Dispatches(t, kinds), Ignored(t)
  PROVE  /\ Shaped' /\ Quiet(pc[t]) /\ Quiet(pc'[t]) /\ \A u \in Threads : u # t => pc'[u] = pc[u]
         /\ pc'[t].todo = Tail(pc[t].todo) /\ (pc'[t].todo # <<>> => pc'[t].c = pc[t].c)
<1>1. pc[t].m \in OrNone(Sessions) /\ None \in Statuses /\ <<>> \in Seq(Plain)
  BY AtEvent, ListTypes DEF Locals, Statuses, OrNone
<1> QED BY <1>1, Handling DEF Ignored

\* A last event that is dropped.
LEMMA DroppedKeeps ==
  ASSUME IInv, NEW t \in Threads, NEW kinds, Dispatches(t, kinds), Ignored(t),
         UNCHANGED <<gateway, call, slots, med, inbox, timers, history, bounds>>
  PROVE  IInv' /\ NoNewcomer
<1>1. Typed /\ Shaped
  BY DEF IInv
<1>2. /\ UNCHANGED <<net, queue, unheard, rings, call, device, waiting, med, early, seen, auto, fired>>
      /\ UNCHANGED <<rows, deleted, ops, faults>>
  BY DEF gateway, slots, inbox, timers, history, bounds
<1>3. /\ Shaped' /\ Quiet(pc[t]) /\ Quiet(pc'[t]) /\ \A u \in Threads : u # t => pc'[u] = pc[u]
      /\ pc'[t].todo = Tail(pc[t].todo) /\ (pc'[t].todo # <<>> => pc'[t].c = pc[t].c)
  BY <1>1, Dropping
<1>4. Typed'
  BY <1>1, <1>2 DEF Typed
<1>5. Kept
  BY <1>2 DEF Kept
<1>6. Silent
  <2>1. pc[t].todo \in Seq(Kinds \cup {"Incoming"}) /\ pc[t].todo # <<>>
    BY <1>1, AtEvent
  <2> QED BY <1>2, <1>3, <2>1, SilentStep, Zenon
<1>7. \A u \in Threads : GoesOn(pc[u], pc'[u]) \/ (Quiet(pc[u]) /\ Quiet(pc'[u]))
  BY <1>3 DEF GoesOn
<1> QED BY <1>2, <1>3, <1>4, <1>5, <1>6, <1>7, SoftKeeps

\* An Ended event: put aside, ignored, or the end of the call begins.
LEMMA FinishKeeps ==
  ASSUME IInv, NEW t \in Threads, FinishCall(t)
  PROVE  IInv' /\ NoNewcomer
<1>1. Typed /\ Shaped /\ SlotInv /\ EndInv /\ FreshInv
  BY DEF IInv
<1>2. /\ Dispatches(t, {"Ended"})
      /\ UNCHANGED <<net, queue, unheard, rings, auto, fired, rows, deleted, ops, faults>>
  BY Zenon DEF FinishCall, gateway, timers, history, bounds
<1>3. PICK c \in Calls : c = pc[t].c
  BY <1>1, <1>2, AtEvent
<1>4. /\ pc[t] \in Locals /\ Quiet(pc[t]) /\ pc[t].go \in {<<>>, <<"leave">>} /\ pc[t].go \in Seq(Plain)
      /\ pc[t].todo \in Seq(Kinds \cup {"Incoming"}) /\ pc[t].todo # <<>>
  BY <1>1, <1>2, AtEvent
<1>5. /\ call \in [Calls -> CallRecords] /\ early \in [Calls -> Seq(Kinds)]
      /\ med \in [Sessions -> SessionRecords] /\ seen \subseteq Calls
  BY <1>1 DEF Typed
<1>6. CASE /\ ~call[c].reg
           /\ early' = [early EXCEPT ![c] = Append(@, "Ended")]
           /\ seen' = seen \cup {c}
           /\ Ignored(t) /\ UNCHANGED <<call, slots, med>>
  <2>1. early' \in [Calls -> Seq(Kinds)] /\ seen' \subseteq Calls
    BY <1>5, <1>6 DEF Kinds
  <2>2. Typed'
    BY <1>1, <1>2, <1>6, <2>1 DEF Typed, slots
  <2>3. /\ Shaped' /\ Quiet(pc[t]) /\ Quiet(pc'[t]) /\ \A u \in Threads : u # t => pc'[u] = pc[u]
        /\ pc'[t].todo = Tail(pc[t].todo) /\ (pc'[t].todo # <<>> => pc'[t].c = pc[t].c)
    BY <1>1, <1>2, <1>6, Dropping
  <2>4. Silent
    <3>1. ASSUME NEW d \in Calls, Unannounced(d)
          PROVE  Unannounced(d)'
      <4>1. \A i \in DOMAIN early[d] : early[d][i] # "Waiting"
        BY <3>1 DEF Unannounced
      <4>2. early'[d] = IF c = d THEN Append(early[d], "Ended") ELSE early[d]
        BY <1>5, <1>6
      <4>3. \A i \in DOMAIN early'[d] : early'[d][i] # "Waiting"
        BY <1>5, <4>1, <4>2
      <4>4. \A u \in Threads : pc'[u].c = d => \A i \in DOMAIN pc'[u].todo : pc'[u].todo[i] \notin Announces
        <5>1. ASSUME NEW u \in Threads, pc'[u].c = d
              PROVE  \A i \in DOMAIN pc'[u].todo : pc'[u].todo[i] \notin Announces
          <6>1. pc[u].c = d => \A i \in DOMAIN pc[u].todo : pc[u].todo[i] \notin Announces
            BY <3>1 DEF Unannounced
          <6>2. CASE pc'[u] = pc[u]
            BY <5>1, <6>1, <6>2
          <6>3. CASE pc'[u].todo = <<>>
            BY <6>3
          <6>4. CASE u = t /\ pc'[u].todo # <<>>
            <7>1. \A i \in DOMAIN Tail(pc[t].todo) :
                    i + 1 \in DOMAIN pc[t].todo /\ Tail(pc[t].todo)[i] = pc[t].todo[i + 1]
              BY <1>4
            <7> QED BY <2>3, <5>1, <6>1, <6>4, <7>1
          <6> QED BY <2>3, <6>2, <6>3, <6>4
        <5> QED BY <5>1
      <4> QED BY <1>2, <3>1, <4>3, <4>4 DEF Unannounced
    <3> QED BY <1>2, <3>1 DEF Silent
  <2>5. Kept
    BY <1>6 DEF Kept
  <2>6. \A u \in Threads : GoesOn(pc[u], pc'[u]) \/ (Quiet(pc[u]) /\ Quiet(pc'[u]))
    BY <2>3 DEF GoesOn
  <2> QED BY <1>6, <2>2, <2>3, <2>4, <2>5, <2>6, SoftKeeps DEF slots
<1>7. CASE Ignored(t) /\ UNCHANGED <<call, slots, med, inbox>>
  BY <1>2, <1>7, DroppedKeeps DEF gateway, timers, history, bounds
<1>8. CASE /\ Live(c)
           /\ call' = [call EXCEPT ![c].status = "over", ![c].armed = FALSE, ![c].atimer = FALSE]
           /\ LeavesDevice(c)
           /\ med' = IF call[c].media = None THEN med
                     ELSE [med EXCEPT ![call[c].media].bound = None,
                                      ![call[c].media].drop = "none"]
           /\ seen' = seen \cup {c}
           /\ Handled(t, <<"close", "final">>, None, call[c].media)
           /\ UNCHANGED early
  <2> DEFINE g == <<"close", "final">> \o pc[t].go
             q == [pc[t] EXCEPT !.todo = Tail(@), !.go = g, !.row = None, !.m = call[c].media]
  <2>1. g \in {<<"close", "final">>, <<"close", "final", "leave">>} /\ g \in EndLists /\ g # <<>> /\ Head(g) = "close"
    <3>1. CASE pc[t].go = <<>>
      <4>1. g = <<"close", "final">>
        BY <3>1
      <4> QED BY <4>1 DEF EndLists
    <3>2. CASE pc[t].go = <<"leave">>
      <4>0. <<"close", "final">> \o <<"leave">> = <<"close", "final", "leave">>
        BY PairAndOne, Zenon
      <4>1. g = <<"close", "final", "leave">>
        BY <3>2, <4>0, Zenon
      <4> QED BY <4>1 DEF EndLists
    <3> QED BY <1>4, <3>1, <3>2
  <2>2. Becomes(t, q)
    BY <1>8 DEF Handled
  <2> HIDE DEF g
  <2>3. call[c] \in CallRecords /\ call[c].media \in OrNone(Sessions)
    BY <1>5 DEF CallRecords
  <2>4. /\ q \in Locals /\ q.go = g /\ q.c = c /\ q.todo = Tail(pc[t].todo)
        /\ Tail(pc[t].todo) \in Seq(Kinds \cup {"Incoming"})
    <3>1. Tail(pc[t].todo) \in Seq(Kinds \cup {"Incoming"}) /\ None \in Statuses
      BY <1>4 DEF Statuses, OrNone
    <3> QED BY <1>3, <1>4, <2>1, <2>3, <3>1, ListTypes DEF Locals
  <2> HIDE DEF q
  <2>5. Shape(q, t)
    <3>1. c # None
      BY PhoneAssumption DEF PhoneAssumption
    <3> QED BY <2>1, <2>4, <3>1 DEF Shape
  <2>6. Shaped' /\ pc'[t] = q /\ \A u \in Threads : u # t => pc'[u] = pc[u]
    BY <1>1, <2>1, <2>2, <2>4, <2>5, Becoming
  <2>7. PICK r \in CallRecords : /\ call' = [call EXCEPT ![c] = r]
                                 /\ r.reg = call[c].reg /\ r.status = "over" /\ r.rec = call[c].rec
                                 /\ r.done = call[c].done
    <3> DEFINE r == [call[c] EXCEPT !.status = "over", !.armed = FALSE, !.atimer = FALSE]
    <3>1. call' = [call EXCEPT ![c] = r]
      BY <1>8
    <3>2. r \in CallRecords /\ r.reg = call[c].reg /\ r.status = "over" /\ r.rec = call[c].rec /\ r.done = call[c].done
      BY <2>3 DEF CallRecords, Statuses, OrNone
    <3> QED BY <3>1, <3>2
  <2>8. call'[c] = r /\ \A d \in Calls : d # c => call'[d] = call[d] /\ (Live(d)' <=> Live(d))
    BY <1>5, <2>7 DEF Live
  <2>9. call[c].reg /\ ~call[c].done /\ ~Live(c)' /\ "over" \notin Active
    BY <1>1, <1>8, <2>7, <2>8 DEF EndInv, Live, Active
  <2>10. EndInv'
    <3>1. \A u \in Threads : ~(Ending(u) /\ pc[u].c = c)
      BY <1>1, <1>8, <2>9 DEF EndInv, Live
    <3>2. Ending(t)' /\ At(t, "close")' /\ pc'[t].c = c
      BY <2>1, <2>4, <2>6 DEF Ending, At
    <3>3. /\ call'[c].reg /\ call'[c].status = "over" /\ ~call'[c].done
          /\ call'[c].status \in Active \cup {"over"}
      BY <2>7, <2>8, <2>9
    <3>4. \A u \in Threads : u # t => pc'[u] = pc[u] /\ ~(Ending(u) /\ pc[u].c = c)
      BY <2>6, <3>1
    <3> HIDE DEF q
    <3> QED BY <1>1, <1>3, <2>8, <2>9, <3>2, <3>3, <3>4, EndsOne
  <2>11. Typed'
    <3>1. call' \in [Calls -> CallRecords] /\ seen' \subseteq Calls
      BY <1>5, <1>8, <2>7
    <3>2. med' \in [Sessions -> SessionRecords]
      <4>1. CASE call[c].media = None
        BY <1>5, <1>8, <4>1
      <4>2. CASE call[c].media # None
        <5>1. call[c].media \in Sessions
          BY <2>3, <4>2 DEF OrNone
        <5> DEFINE x == [med[call[c].media] EXCEPT !.bound = None, !.drop = "none"]
        <5>2. x \in SessionRecords
          BY <1>5, <5>1 DEF SessionRecords, OrNone
        <5>3. med' = [med EXCEPT ![call[c].media] = x]
          BY <1>8, <4>2
        <5> QED BY <1>5, <5>1, <5>2, <5>3
      <4> QED BY <4>1, <4>2
    <3>3. device' \in OrNone(Calls \cup {""}) /\ waiting' \in OrNone(Calls)
      BY <1>1, <1>8 DEF Typed, OrNone, LeavesDevice
    <3> QED BY <1>1, <1>2, <1>8, <3>1, <3>2, <3>3 DEF Typed
  <2>12. SlotInv'
    <3>1. "" \notin Calls /\ None \notin Calls /\ None # ""
      BY PhoneAssumption DEF PhoneAssumption
    <3>2. /\ device' = (IF device = c THEN None ELSE device)
          /\ waiting' = (IF waiting = c THEN None ELSE waiting)
      BY <1>8 DEF LeavesDevice
    <3>3. \A u \in Threads : Reserving(u)' <=> Reserving(u)
      <4>1. ~Reserving(t)
        <5>1. pc[t].go # <<>> => Head(pc[t].go) \notin {"dial", "dialed", "undo"}
          BY <1>4, HasNotDevice
        <5> QED BY <5>1 DEF Reserving, At
      <4>2. ~Reserving(t)'
        BY <2>1, <2>4, <2>6 DEF Reserving, At
      <4>3. \A u \in Threads : u # t => (Reserving(u)' <=> Reserving(u))
        BY <2>6 DEF Reserving, At
      <4> QED BY <4>1, <4>2, <4>3
    <3>4. device' = "" <=> device = ""
      BY <3>1, <3>2
    <3>5. (device \in Calls => Live(device))' /\ (waiting \in Calls => Live(waiting))'
      <4>1. \A d \in Calls : d = device' \/ d = waiting' => d # c /\ (d = device \/ d = waiting)
        BY <3>1, <3>2
      <4>2. \A d \in Calls : d = device \/ d = waiting => Live(d)
        BY <1>1 DEF SlotInv
      <4>3. \A d \in Calls : d = device' \/ d = waiting' => call'[d].reg /\ call'[d].status \in Active
        BY <2>8, <4>1, <4>2 DEF Live
      <4> QED BY <4>3 DEF Live
    <3>6. (\A d \in Calls : Live(d) => d \in {device, waiting})'
      BY <1>1, <2>8, <2>9, <3>2 DEF SlotInv
    <3>7. /\ \A u \in Threads : Reserving(u) => device = ""
          /\ \A u, v \in Threads : Reserving(u) /\ Reserving(v) => u = v
          /\ device = "" => \E u \in Threads : Reserving(u)
      BY <1>1, Zenon DEF SlotInv
    <3>8. /\ (\A u \in Threads : Reserving(u) => device = "")'
          /\ (\A u, v \in Threads : Reserving(u) /\ Reserving(v) => u = v)'
          /\ (device = "" => \E u \in Threads : Reserving(u))'
      BY <3>3, <3>4, <3>7
    <3> QED BY <3>5, <3>6, <3>8, Zenon DEF SlotInv
  <2>13. FreshInv' /\ NoNewcomer
    <3>1. Silent
      BY <1>2, <1>3, <1>4, <1>8, <2>4, <2>6, SilentStep, Zenon
    <3>2. \A u \in Threads : At(u, "dialed")' => At(u, "dialed") /\ pc'[u].c = pc[u].c
      BY <2>1, <2>4, <2>6 DEF At
    <3>3. \A d \in Calls : call'[d].reg => call[d].reg
      BY <2>7, <2>8
    <3> QED BY <1>1, <3>1, <3>2, <3>3, SilentFresh, ZenonT(30)
  <2> QED BY <2>6, <2>10, <2>11, <2>12, <2>13 DEF IInv
<1> QED BY <1>3, <1>6, <1>7, <1>8, ZenonT(30) DEF FinishCall

\* A goroutine that ends a call has come to the end of it, or has still to save the record.
LEMMA EndGoes ==
  ASSUME Typed, Shaped, EndInv, NEW t \in Threads, NEW x \in {"close", "final"}, At(t, x)
  PROVE  /\ pc[t].go \in EndLists /\ pc[t].c \in Calls /\ pc[t] \in Locals
         /\ call[pc[t].c].reg /\ call[pc[t].c].status = "over" /\ ~call[pc[t].c].done /\ ~Live(pc[t].c)
         /\ \A u \in Threads : u # t => ~(Ending(u) /\ pc[u].c = pc[t].c)
         /\ x = "close" => /\ Tail(pc[t].go) \in {<<"final">>, <<"final", "leave">>}
         /\ x = "final" => /\ Tail(pc[t].go) \in {<<>>, <<"leave">>} /\ call[pc[t].c].rec # "open"
<1>1. Shape(pc[t], t) /\ pc[t].go # <<>> /\ Head(pc[t].go) = x
  BY DEF At, Shaped
<1>2. x = "close" => pc[t].go \in {<<"close", "final">>, <<"close", "final", "leave">>}
  BY <1>1, Lists
<1>3. x = "final" => pc[t].go \in {<<"final">>, <<"final", "leave">>}
  BY <1>1, Lists
<1>4. pc[t].go \in EndLists /\ Ending(t)
  BY <1>2, <1>3 DEF EndLists, Ending
<1>5. pc[t].c \in Calls /\ pc[t] \in Locals
  BY <1>4, EndingCall
<1>6. /\ call[pc[t].c].reg /\ call[pc[t].c].status = "over" /\ ~call[pc[t].c].done
      /\ \A u \in Threads : u # t => ~(Ending(u) /\ pc[u].c = pc[t].c)
  BY <1>4 DEF EndInv
<1>7. ~Live(pc[t].c)
  BY <1>6 DEF Live, Active
<1>8. x = "close" => Tail(pc[t].go) \in {<<"final">>, <<"final", "leave">>}
  <2>1. CASE pc[t].go = <<"close", "final">>
    <3>1. Tail(pc[t].go) = <<"final">>
      BY <2>1, Rests, Zenon
    <3> QED BY <3>1
  <2>2. CASE pc[t].go = <<"close", "final", "leave">>
    <3>1. Tail(pc[t].go) = <<"final", "leave">>
      BY <2>2, Rests, Zenon
    <3> QED BY <3>1
  <2> QED BY <1>2, <2>1, <2>2
<1>9. x = "final" => Tail(pc[t].go) \in {<<>>, <<"leave">>}
  <2>1. CASE pc[t].go = <<"final">>
    <3>1. Tail(pc[t].go) = <<>>
      BY <2>1, Rests, Zenon
    <3> QED BY <3>1
  <2>2. CASE pc[t].go = <<"final", "leave">>
    <3>1. Tail(pc[t].go) = <<"leave">>
      BY <2>2, Rests, Zenon
    <3> QED BY <3>1
  <2> QED BY <1>3, <2>1, <2>2
<1>10. ASSUME x = "final"
       PROVE  call[pc[t].c].rec # "open"
  <2>1. SUFFICES ASSUME call[pc[t].c].rec = "open" PROVE FALSE
    OBVIOUS
  <2>2. PICK u \in Threads : pc[u].c = pc[t].c /\ At(u, "close")
    BY <1>5, <1>7, <2>1 DEF EndInv
  <2>3. u # t
    BY <1>1, <1>10, <2>2 DEF At
  <2>4. Ending(u)
    BY <2>2, Lists DEF At, Shaped, Ending, EndLists
  <2> QED BY <1>6, <2>2, <2>3, <2>4
<1> QED BY <1>4, <1>5, <1>6, <1>7, <1>8, <1>9, <1>10

\* The rest of the end of a call, up to its record: who has the device is not concerned.
LEMMA EndKeeps ==
  ASSUME IInv, NEW t \in Threads, NEW c \in Calls, c = pc[t].c, pc[t].go \in EndLists \cup Seq(Plain),
         UNCHANGED <<net, queue, unheard, rings, slots, early>>, Typed', EndInv', Shaped',
         \A u \in Threads : u # t => pc'[u] = pc[u],
         pc'[t] = Idle \/ (pc'[t].go \in EndLists \cup Seq(Plain) /\ pc'[t].c = c
                           /\ (pc'[t].todo = pc[t].todo \/ (pc[t].todo # <<>> /\ pc'[t].todo = Tail(pc[t].todo)))),
         \A d \in Calls : (call'[d].reg => call[d].reg) /\ (Live(d)' <=> Live(d))
  PROVE  IInv' /\ NoNewcomer
<1>1. Typed /\ Shaped /\ SlotInv /\ EndInv /\ FreshInv
  BY DEF IInv
<1>2. pc[t].todo \in Seq(Kinds \cup {"Incoming"})
  BY <1>1 DEF Shaped, Shape, Locals
<1>3. pc'[t].go \in EndLists \cup Seq(Plain)
  <2>1. Idle.go = <<>> /\ <<>> \in Seq(Plain)
    BY DEF Idle
  <2> QED BY <2>1
<1>4. SameHolders /\ \A u \in Threads : At(u, "dialed")' => At(u, "dialed") /\ pc'[u].c = pc[u].c
  BY <1>3, NoHolder
<1>5. Silent
  <2>1. \/ pc'[t].todo = <<>>
        \/ pc'[t].c = pc[t].c /\ pc'[t].todo = pc[t].todo
        \/ pc'[t].c = pc[t].c /\ pc[t].todo # <<>> /\ pc'[t].todo = Tail(pc[t].todo)
    BY DEF Idle
  <2> QED BY <1>2, <2>1, SilentStep
<1>6. SlotInv'
  BY <1>1, <1>4, SlotsUntouched
<1>7. FreshInv' /\ NoNewcomer
  BY <1>1, <1>4, <1>5, SilentFresh
<1> QED BY <1>6, <1>7 DEF IInv

\* The recording is closed and the session removed.
LEMMA CloseKeeps ==
  ASSUME IInv, NEW t \in Threads, CloseCall(t)
  PROVE  IInv' /\ NoNewcomer
<1>1. Typed /\ Shaped /\ SlotInv /\ EndInv /\ FreshInv
  BY DEF IInv
<1>2. /\ UNCHANGED <<net, queue, unheard, rings, slots, early, seen, auto, fired, rows, deleted, ops, faults>>
      /\ At(t, "close") /\ med' = Removed(pc[t].m)
  BY DEF CloseCall, gateway, inbox, timers, history, bounds
<1>3. PICK c \in Calls : c = pc[t].c
  BY <1>1, <1>2, EndGoes
<1>4. /\ pc[t].go \in EndLists /\ pc[t] \in Locals /\ ~Live(c)
      /\ call[c].reg /\ call[c].status = "over" /\ ~call[c].done
      /\ \A u \in Threads : u # t => ~(Ending(u) /\ pc[u].c = c)
      /\ Tail(pc[t].go) \in {<<"final">>, <<"final", "leave">>}
  BY <1>1, <1>2, <1>3, EndGoes
<1>5. PICK m \in OrNone(Sessions) : m = pc[t].m
  BY <1>4 DEF Locals
<1>6. /\ Disconnected(m) \in [Calls -> CallRecords]
      /\ \A d \in Calls : /\ Disconnected(m)[d].reg = call[d].reg
                          /\ Disconnected(m)[d].done = call[d].done
                          /\ Disconnected(m)[d].status = call[d].status
                          /\ Disconnected(m)[d].rec = call[d].rec
  BY <1>1, DisconnectedKeeps
<1>7. PICK calls \in [Calls -> CallRecords] : calls = Disconnected(m)
  BY <1>6
<1>8. call' = [calls EXCEPT ![c].rec = IF @ = "open" THEN "closed" ELSE @]
  BY <1>3, <1>5, <1>7 DEF CloseCall
<1>9. /\ call' \in [Calls -> CallRecords]
      /\ call'[c].rec # "open"
      /\ \A d \in Calls : /\ call'[d].reg = call[d].reg /\ call'[d].done = call[d].done
                          /\ call'[d].status = call[d].status
                          /\ d # c => call'[d].rec = call[d].rec
  <2> DEFINE r == [calls[c] EXCEPT !.rec = IF @ = "open" THEN "closed" ELSE @]
  <2>1. r \in CallRecords /\ r.rec # "open" /\ r.reg = calls[c].reg /\ r.done = calls[c].done
        /\ r.status = calls[c].status
    BY DEF CallRecords
  <2>2. call' = [calls EXCEPT ![c] = r]
    BY <1>8
  <2> QED BY <1>6, <1>7, <2>1, <2>2
<1> DEFINE g == Tail(pc[t].go)
           q == [pc[t] EXCEPT !.go = g, !.row = "over", !.m = None]
<1>10. Becomes(t, q)
  BY DEF CloseCall
<1>11. g \in EndLists /\ g # <<>> /\ g \in Seq(Steps)
  <2>1. g \in {<<"final">>, <<"final", "leave">>}
    BY <1>4
  <2> HIDE DEF g
  <2>2. g \in EndLists /\ g # <<>>
    <3>1. g = <<"final">> \/ g = <<"final", "leave">>
      BY <2>1
    <3>2. g # <<>>
      <4>1. <<"final">> # <<>> /\ <<"final", "leave">> # <<>>
        OBVIOUS
      <4> QED BY <3>1, <4>1, Zenon
    <3>3. g \in EndLists
      BY <3>1, Zenon DEF EndLists
    <3> QED BY <3>2, <3>3
  <2> QED BY <2>2, ListTypes
<1> HIDE DEF g
<1>12. q \in Locals /\ q.go = g /\ q.c = c /\ q.todo = pc[t].todo
  BY <1>3, <1>4, <1>11 DEF Locals, OrNone, Statuses
<1> HIDE DEF q
<1>13. Shape(q, t)
  <2>1. c # None
    BY PhoneAssumption DEF PhoneAssumption
  <2> QED BY <1>11, <1>12, <2>1 DEF Shape
<1>14. Shaped' /\ pc'[t] = q /\ \A u \in Threads : u # t => pc'[u] = pc[u]
  BY <1>1, <1>10, <1>11, <1>12, <1>13, Becoming
<1>15. Typed'
  <2>1. med' \in [Sessions -> SessionRecords]
    BY <1>1, <1>2, <1>5, RemovedTypes
  <2> QED BY <1>1, <1>2, <1>9, <2>1 DEF Typed, slots
<1>16. \A d \in Calls : Live(d)' <=> Live(d)
  BY <1>9 DEF Live
<1>17. EndInv'
  <2>1. Ending(t)'
    BY <1>11, <1>12, <1>14 DEF Ending
  <2> QED BY <1>1, <1>3, <1>4, <1>9, <1>12, <1>14, <1>16, <2>1, EndsOne
<1> QED BY <1>2, <1>3, <1>4, <1>9, <1>11, <1>12, <1>14, <1>15, <1>16, <1>17, EndKeeps

\* The record of a call that is over is saved and finalizeRecording let go.
LEMMA FinalKeeps ==
  ASSUME IInv, NEW t \in Threads, Persist(t), At(t, "final")
  PROVE  IInv' /\ NoNewcomer
<1>1. Typed /\ Shaped /\ SlotInv /\ EndInv /\ FreshInv
  BY DEF IInv
<1>2. UNCHANGED <<net, queue, unheard, rings, slots, med, early, seen, auto, fired, deleted, ops, faults>>
  BY DEF Persist, gateway, inbox, timers, bounds
<1>3. PICK c \in Calls : c = pc[t].c
  BY <1>1, EndGoes
<1>4. /\ pc[t].go \in EndLists /\ pc[t] \in Locals /\ ~Live(c)
      /\ call[c].reg /\ call[c].status = "over" /\ call[c].rec # "open"
      /\ \A u \in Threads : u # t => ~(Ending(u) /\ pc[u].c = c)
      /\ Tail(pc[t].go) \in {<<>>, <<"leave">>}
  BY <1>1, <1>3, EndGoes
<1>5. call \in [Calls -> CallRecords] /\ rows \in [Calls -> Statuses]
  BY <1>1 DEF Typed
<1>6. call' = [call EXCEPT ![c].done = TRUE]
  BY <1>3 DEF Persist
<1>7. /\ call' \in [Calls -> CallRecords]
      /\ call'[c].reg = call[c].reg /\ call'[c].status = call[c].status /\ call'[c].rec = call[c].rec
      /\ call'[c].done
      /\ \A d \in Calls : d # c => call'[d] = call[d]
  <2> DEFINE r == [call[c] EXCEPT !.done = TRUE]
  <2>1. r \in CallRecords /\ r.reg = call[c].reg /\ r.status = call[c].status /\ r.rec = call[c].rec /\ r.done
    BY <1>5 DEF CallRecords
  <2>2. call' = [call EXCEPT ![c] = r]
    BY <1>6
  <2> QED BY <1>5, <2>1, <2>2
<1>8. rows' \in [Calls -> Statuses]
  <2>1. pc[t].row \in Statuses
    BY <1>4 DEF Locals
  <2> QED BY <1>3, <1>5, <2>1 DEF Persist
<1> DEFINE g == Tail(pc[t].go)
           q == [pc[t] EXCEPT !.go = g, !.row = None]
<1>9. Becomes(t, q)
  BY DEF Persist
<1>10. g \in Seq(Plain)
  <2>1. g = <<>> \/ g = <<"leave">>
    BY <1>4
  <2> QED BY <2>1, ListTypes
<1> HIDE DEF g
<1>11. q \in Locals /\ q.go = g /\ q.c = c /\ q.todo = pc[t].todo
  BY <1>3, <1>4, <1>10, ListTypes DEF Locals, OrNone, Statuses
<1> HIDE DEF q
<1>12. Shape(q, t)
  BY <1>10, <1>11, PlainShape
<1>13. Shaped' /\ pc'[t] \in {Idle, q} /\ \A u \in Threads : u # t => pc'[u] = pc[u]
  BY <1>1, <1>9, <1>12, Becoming
<1>14. Typed'
  BY <1>1, <1>2, <1>7, <1>8 DEF Typed, slots
<1>15. \A d \in Calls : Live(d)' <=> Live(d)
  BY <1>7 DEF Live
<1>16. EndInv'
  <2>1. ~Ending(t)'
    <3>1. Idle.go \in Seq(Plain)
      BY ListTypes DEF Idle
    <3>2. pc'[t].go \in Seq(Plain)
      BY <1>10, <1>11, <1>13, <3>1
    <3> QED BY <3>2, DialNotEnd DEF Ending
  <2>2. call'[c].status \in Active \cup {"over"}
    BY <1>4, <1>7
  <2> QED BY <1>1, <1>3, <1>4, <1>7, <1>13, <1>15, <2>1, <2>2, EndsOne, ZenonT(30)
<1>17. \A d \in Calls : call'[d].reg => call[d].reg
  BY <1>7
<1> QED BY <1>2, <1>3, <1>4, <1>10, <1>11, <1>13, <1>14, <1>15, <1>16, <1>17, EndKeeps

\* finalizeRecording has waited for the end of the call, and forgets it.
LEMMA FinalizeKeeps ==
  ASSUME IInv, NEW t \in Threads, FinalizeRecording(t)
  PROVE  IInv' /\ NoNewcomer
<1>1. Typed /\ Shaped /\ SlotInv /\ EndInv /\ FreshInv
  BY DEF IInv
<1>2. /\ Dispatches(t, {"Finalized"})
      /\ UNCHANGED <<net, queue, unheard, rings, slots, med, early, seen, auto, fired, rows, deleted, ops, faults>>
  BY DEF FinalizeRecording, gateway, inbox, timers, history, bounds
<1>3. PICK c \in Calls : c = pc[t].c
  BY <1>1, <1>2, AtEvent
<1>4. /\ pc[t] \in Locals /\ Quiet(pc[t]) /\ pc[t].go \in {<<>>, <<"leave">>} /\ pc[t].go \in Seq(Plain)
      /\ pc[t].todo \in Seq(Kinds \cup {"Incoming"}) /\ pc[t].todo # <<>>
  BY <1>1, <1>2, AtEvent
<1>5. CASE ~call[c].reg /\ Ignored(t) /\ UNCHANGED call
  BY <1>2, <1>5, DroppedKeeps DEF gateway, inbox, timers, history, bounds
<1>6. CASE /\ call[c].reg /\ call[c].done
           /\ call' = [call EXCEPT ![c].reg = FALSE, ![c].lease = None, ![c].dtimer = None,
                                   ![c].pending = FALSE]
           /\ Handled(t, <<"write">>, "over", None)
  <2>1. call \in [Calls -> CallRecords]
    BY <1>1 DEF Typed
  <2>2. ~Live(c) /\ call[c].rec # "open" /\ call[c].status \notin Active
    <3>1. ~Live(c) /\ call[c].rec # "open"
      BY <1>1, <1>6 DEF EndInv
    <3> QED BY <1>6, <3>1 DEF Live
  <2>3. /\ call' \in [Calls -> CallRecords]
        /\ ~call'[c].reg /\ call'[c].status = call[c].status /\ call'[c].rec = call[c].rec
        /\ \A d \in Calls : d # c => call'[d] = call[d]
    <3> DEFINE r == [call[c] EXCEPT !.reg = FALSE, !.lease = None, !.dtimer = None, !.pending = FALSE]
    <3>1. r \in CallRecords /\ ~r.reg /\ r.status = call[c].status /\ r.rec = call[c].rec
      <4>1. call[c] \in CallRecords
        BY <2>1
      <4> QED BY <4>1 DEF CallRecords, OrNone
    <3>2. call' = [call EXCEPT ![c] = r]
      BY <1>6
    <3> QED BY <2>1, <3>1, <3>2
  <2> DEFINE g == <<"write">> \o pc[t].go
             q == [pc[t] EXCEPT !.todo = Tail(@), !.go = g, !.row = "over", !.m = None]
  <2>4. g \in Seq(Plain) /\ g # <<>>
    <3>1. <<"write">> \in Seq(Plain) /\ <<"write">> # <<>>
      BY PlainOnes
    <3> QED BY <1>4, <3>1
  <2>5. Becomes(t, q)
    BY <1>6 DEF Handled
  <2> HIDE DEF g
  <2>6. q \in Locals /\ q.go = g /\ q.c = c /\ q.todo = Tail(pc[t].todo)
    <3>1. Tail(pc[t].todo) \in Seq(Kinds \cup {"Incoming"})
      BY <1>4
    <3> QED BY <1>3, <1>4, <2>4, <3>1, ListTypes DEF Locals, OrNone, Statuses
  <2> HIDE DEF q
  <2>7. Shape(q, t)
    BY <2>4, <2>6, PlainShape
  <2>8. Shaped' /\ pc'[t] = q /\ \A u \in Threads : u # t => pc'[u] = pc[u]
    BY <1>1, <2>4, <2>5, <2>6, <2>7, Becoming
  <2>9. Typed'
    BY <1>1, <1>2, <2>3 DEF Typed, slots
  <2>10. \A d \in Calls : Live(d)' <=> Live(d)
    BY <2>2, <2>3 DEF Live
  <2>11. EndInv'
    <3>1. ~Ending(t)'
      BY <2>4, <2>6, <2>8, DialNotEnd DEF Ending
    <3>2. \A u \in Threads : ~(Ending(u) /\ pc[u].c = c)
      BY <1>1, <1>6 DEF EndInv
    <3>3. ~Live(c)'
      BY <2>2, <2>10
    <3>4. \A u \in Threads : u # t => pc'[u] = pc[u] /\ ~(Ending(u) /\ pc[u].c = c)
      BY <2>8, <3>2
    <3> QED BY <1>1, <1>3, <2>2, <2>3, <3>1, <3>3, <3>4, EndsOne
  <2>12. \A d \in Calls : call'[d].reg => call[d].reg
    BY <2>3
  <2> QED BY <1>2, <1>3, <1>4, <2>4, <2>6, <2>8, <2>9, <2>10, <2>11, <2>12, EndKeeps
<1> QED BY <1>3, <1>5, <1>6 DEF FinalizeRecording
-----------------------------------------------------------------------------
(* Beginning and beginning again *)

\* When all goroutines have stopped there is nothing to do.
LEMMA Stopped ==
  ASSUME NEW p, p = [t \in Threads |-> Idle]
  PROVE  \A t \in Threads : /\ p[t] = Idle /\ Shape(p[t], t) /\ p[t].go = <<>> /\ p[t].todo = <<>>
                            /\ p[t].go \notin EndLists
<1>1. \A t \in Threads : p[t] = Idle
  OBVIOUS
<1>2. Idle.go = <<>> /\ Idle.todo = <<>>
  BY DEF Idle
<1>3. \A t \in Threads : Shape(p[t], t)
  BY <1>1, IdleShape
<1>4. <<>> \notin EndLists
  BY DEF EndLists
<1> QED BY <1>1, <1>2, <1>3, <1>4

\* The types of a call and of a session that there is not.
LEMMA EmptyOnes ==
  /\ NoCall \in CallRecords /\ ~NoCall.reg /\ NoCall.status = None /\ NoCall.rec = "none" /\ ~NoCall.done
  /\ Closed \in SessionRecords /\ None \notin Active \cup Calls \cup Sessions \cup {""}
<1>1. NoCall \in CallRecords /\ ~NoCall.reg /\ NoCall.status = None /\ NoCall.rec = "none" /\ ~NoCall.done
  BY DEF NoCall, CallRecords, OrNone, Statuses
<1>2. Closed \in SessionRecords
  BY DEF Closed, SessionRecords, OrNone
<1>3. None \notin Active \cup Calls \cup Sessions \cup {""}
  BY PhoneAssumption DEF PhoneAssumption, Sessions
<1> QED BY <1>1, <1>2, <1>3

\* A process that starts after another one knows of no call.
LEMMA RestartKeeps ==
  ASSUME IInv, Restart
  PROVE  IInv' /\ NoNewcomer
<1>1. Typed /\ FreshInv
  BY DEF IInv
<1>2. /\ net' = [c \in Calls |-> IF net[c] = "none" THEN "none" ELSE "gone"]
      /\ queue' = <<>> /\ rings' = <<>> /\ unheard' = {}
      /\ call' = [c \in Calls |-> NoCall]
      /\ device' = None /\ waiting' = None
      /\ med' = [m \in Sessions |-> Closed]
      /\ early' = [c \in Calls |-> <<>>] /\ seen' = {} /\ fired' = {}
      /\ rows' = [c \in Calls |-> Abandoned(rows[c])]
      /\ deleted' = {}
      /\ pc' = [t \in Threads |-> Idle]
      /\ UNCHANGED <<auto, ops>> /\ Fault
  BY DEF Restart
<1>3. /\ Shaped' /\ \A t \in Threads : /\ pc'[t] = Idle /\ ~Reserving(t)' /\ ~Ending(t)'
                                       /\ ~At(t, "dialed")' /\ pc'[t].todo = <<>>
  <2>1. \A t \in Threads : /\ pc'[t] = Idle /\ Shape(pc'[t], t) /\ pc'[t].go = <<>> /\ pc'[t].todo = <<>>
                           /\ pc'[t].go \notin EndLists
    BY <1>2, Stopped
  <2> QED BY <1>2, <2>1 DEF Reserving, Ending, At, Shaped
<1>4. \A c \in Calls : call'[c] = NoCall /\ ~Live(c)'
  BY <1>2, EmptyOnes DEF Live
<1>5. Typed'
  <2>1. net' \in [Calls -> Alive \cup {"none", "gone"}]
    BY <1>2
  <2>2. queue' \in Seq([kind : Kinds, call : Calls]) /\ rings' \in Seq(Calls) /\ early' \in [Calls -> Seq(Kinds)]
    BY <1>2
  <2>3. call' \in [Calls -> CallRecords] /\ med' \in [Sessions -> SessionRecords]
    BY <1>2, EmptyOnes
  <2>4. device' \in OrNone(Calls \cup {""}) /\ waiting' \in OrNone(Calls)
    BY <1>2 DEF OrNone
  <2>5. rows' \in [Calls -> Statuses]
    <3>1. \A c \in Calls : Abandoned(rows[c]) \in Statuses
      BY <1>1 DEF Typed, Abandoned, Statuses, OrNone
    <3> QED BY <1>2, <3>1
  <2>6. faults' \in Nat
    BY <1>1, <1>2, Bounded
  <2> QED BY <1>1, <1>2, <2>1, <2>2, <2>3, <2>4, <2>5, <2>6 DEF Typed
<1>6. SlotInv'
  BY <1>2, <1>3, <1>4, EmptyOnes DEF SlotInv
<1>7. EndInv'
  BY <1>3, <1>4, EmptyOnes DEF EndInv
<1>8. FreshInv' /\ NoNewcomer
  <2>1. \A c \in Calls : Unannounced(c)'
    BY <1>2, <1>3 DEF Unannounced
  <2>2. \A c \in Calls : net'[c] # "offered"
    BY <1>2
  <2>3. NoNewcomer
    BY <1>3, <2>1 DEF NoNewcomer, MayCome
  <2> QED BY <1>3, <1>4, <2>1, <2>2, <2>3, EmptyOnes DEF FreshInv
<1> QED BY <1>3, <1>5, <1>6, <1>7, <1>8 DEF IInv

\* The invariant holds at the beginning, with a call in progress and without.
LEMMA InitHolds ==
  ASSUME Init
  PROVE  IInv /\ Still
<1>0. PICK s \in Scenes, cs \in SUBSET Calls, ms \in SUBSET Media :
        /\ \E c \in IF s.talking THEN cs ELSE {None}, m \in IF s.talking THEN ms ELSE {None} :
             /\ net = [d \in Calls |-> IF d \notin cs THEN "gone" ELSE IF d = c THEN "up" ELSE "none"]
             /\ call = [d \in Calls |->
                          IF d # c THEN NoCall
                          ELSE [NoCall EXCEPT !.reg = TRUE, !.dir = "out", !.status = "connected",
                                              !.media = m, !.lease = m, !.rec = "open"]]
             /\ med = [n \in Sessions |->
                         [Closed EXCEPT !.sess = IF n \in ms THEN "up" ELSE "gone",
                                        !.bound = IF n = m THEN c ELSE None]]
             /\ device = c
             /\ rows = [d \in Calls |-> IF d = c THEN "connected" ELSE None]
        /\ auto = s.auto /\ ops = s.ops /\ faults = s.faults
  BY DEF Init
<1>1. PICK c \in IF s.talking THEN cs ELSE {None}, m \in IF s.talking THEN ms ELSE {None} :
        /\ net = [d \in Calls |-> IF d \notin cs THEN "gone" ELSE IF d = c THEN "up" ELSE "none"]
        /\ call = [d \in Calls |->
                     IF d # c THEN NoCall
                     ELSE [NoCall EXCEPT !.reg = TRUE, !.dir = "out", !.status = "connected",
                                         !.media = m, !.lease = m, !.rec = "open"]]
        /\ med = [n \in Sessions |->
                    [Closed EXCEPT !.sess = IF n \in ms THEN "up" ELSE "gone",
                                   !.bound = IF n = m THEN c ELSE None]]
        /\ device = c
        /\ rows = [d \in Calls |-> IF d = c THEN "connected" ELSE None]
  BY <1>0, Zenon
<1>2. /\ queue = <<>> /\ rings = <<>> /\ unheard = {} /\ waiting = None
      /\ early = [d \in Calls |-> <<>>] /\ seen = {} /\ fired = {} /\ deleted = {}
      /\ pc = [t \in Threads |-> Idle]
  BY DEF Init
<1>3. s \in SceneType /\ s.auto \in BOOLEAN /\ s.ops \in Nat /\ s.faults \in Nat
  BY PhoneAssumption DEF PhoneAssumption, SceneType
<1>4. c \in OrNone(Calls) /\ m \in OrNone(Media) /\ (c = None => m = None)
  BY <1>1, EmptyOnes DEF OrNone
<1>5. /\ Shaped /\ \A t \in Threads : /\ pc[t] = Idle /\ ~Reserving(t) /\ ~Ending(t)
                                      /\ ~At(t, "dialed") /\ pc[t].todo = <<>>
  <2>1. \A t \in Threads : /\ pc[t] = Idle /\ Shape(pc[t], t) /\ pc[t].go = <<>> /\ pc[t].todo = <<>>
                           /\ pc[t].go \notin EndLists
    BY <1>2, Stopped
  <2> QED BY <1>2, <2>1 DEF Reserving, Ending, At, Shaped
<1> DEFINE r == [NoCall EXCEPT !.reg = TRUE, !.dir = "out", !.status = "connected",
                               !.media = m, !.lease = m, !.rec = "open"]
<1>6. r \in CallRecords /\ r.reg /\ r.status = "connected" /\ ~r.done
  BY <1>4 DEF NoCall, CallRecords, OrNone, Statuses, Active, Sessions
<1>7. \A d \in Calls : call[d] = IF d # c THEN NoCall ELSE r
  BY <1>1
<1> HIDE DEF r
<1>8. \A d \in Calls : (Live(d) <=> d = c) /\ (d # c => call[d] = NoCall)
  BY <1>6, <1>7, EmptyOnes DEF Live, Active
<1>9. Typed
  <2>1. net \in [Calls -> Alive \cup {"none", "gone"}]
    BY <1>1 DEF Alive
  <2>2. queue \in Seq([kind : Kinds, call : Calls]) /\ rings \in Seq(Calls) /\ early \in [Calls -> Seq(Kinds)]
    BY <1>2
  <2>3. call \in [Calls -> CallRecords]
    BY <1>1, <1>6, EmptyOnes DEF r
  <2>4. med \in [Sessions -> SessionRecords]
    <3>1. \A n \in Sessions : [Closed EXCEPT !.sess = IF n \in ms THEN "up" ELSE "gone",
                                             !.bound = IF n = m THEN c ELSE None] \in SessionRecords
      BY <1>4 DEF Closed, SessionRecords, OrNone
    <3> QED BY <1>1, <3>1
  <2>5. device \in OrNone(Calls \cup {""}) /\ waiting \in OrNone(Calls)
    BY <1>1, <1>2, <1>4 DEF OrNone
  <2>6. rows \in [Calls -> Statuses]
    BY <1>1 DEF Statuses, OrNone, Active
  <2> QED BY <1>0, <1>2, <1>3, <2>1, <2>2, <2>3, <2>4, <2>5, <2>6 DEF Typed
<1>10. SlotInv
  <2>1. device = c /\ waiting = None /\ device # "" /\ waiting \notin Calls
    BY <1>1, <1>2, <1>4, EmptyOnes, PhoneAssumption DEF OrNone, PhoneAssumption
  <2>2. \A d \in Calls : Live(d) <=> d = device
    BY <1>8, <2>1
  <2> QED BY <1>5, <2>1, <2>2 DEF SlotInv
<1>11. EndInv
  BY <1>5, <1>6, <1>7, <1>8, EmptyOnes DEF EndInv, Active
<1>12. FreshInv
  <2>1. \A d \in Calls : Unannounced(d)
    BY <1>2, <1>5 DEF Unannounced
  <2>2. \A d \in Calls : net[d] # "offered" /\ (net[d] = "none" => d # c)
    BY <1>1
  <2> QED BY <1>5, <1>8, <2>1, <2>2, EmptyOnes DEF FreshInv
<1>13. Still
  <2>1. NoCall.dir = None /\ ~NoCall.reg /\ None \notin {"in", "out"}
    BY PhoneAssumption DEF PhoneAssumption, NoCall
  <2>2. r.reg /\ r.dir = "out"
    BY DEF r, NoCall
  <2>3. \A d \in Calls : d = c => net[d] = "up"
    BY <1>1, <1>4, EmptyOnes
  <2>4. \A d \in Calls : /\ call[d].reg <=> call[d].dir # None
                         /\ net[d] = "gone" => ~call[d].reg
    BY <1>7, <2>1, <2>2, <2>3
  <2>5. \A d \in Calls : early[d] = <<>>
    BY <1>2
  <2> QED BY <1>2, <1>5, <2>4, <2>5 DEF Still
<1> QED BY <1>5, <1>9, <1>10, <1>11, <1>12, <1>13 DEF IInv
-----------------------------------------------------------------------------
(* Every step *)

\* All other steps of a goroutine are calm.
LEMMA CalmSteps ==
  ASSUME Typed, Shaped, NEW t \in Threads, Step(t)
  PROVE  Calmly \/ Stirring(t)
<1>1. CASE ResumeDrop(t) \/ Unlink(t) \/ Drop(t) \/ Refuse(t) \/ HangupCall(t)
  BY <1>1, CalmPlain, CalmRefusals
<1>2. CASE RecordBusy(t) \/ UpdateRinging(t) \/ UpdateAnswered(t) \/ Bridge(t)
  BY <1>2, CalmBusy, CalmUpdates, CalmBridge
<1>3. CASE StartRecording(t) \/ Snapshot(t) \/ Report(t) \/ ScheduleAutoAnswer(t) \/ Leave(t)
  BY <1>3, CalmRecording, CalmRecords, CalmSchedule, CalmLeave
<1>4. CASE Attach(t) \/ Reach(t) \/ AnswerCall(t) \/ Assign(t) \/ Usurp(t) \/ Swap(t)
  BY <1>4, CalmAttach, CalmAnswer, CalmTakes, CalmSwap
<1>5. CASE Persist(t)
  BY <1>5, CalmRecords DEF Stirring
<1>6. CASE \/ HandleIncoming(t) \/ FinishCall(t) \/ CloseCall(t) \/ FinalizeRecording(t)
           \/ ReserveDevice(t) \/ Dial(t) \/ Dialed(t) \/ Undo(t)
  BY <1>6 DEF Stirring
<1> QED BY <1>1, <1>2, <1>3, <1>4, <1>5, <1>6 DEF Step

\* So are all steps of the others but a few.
LEMMA CalmOrNot ==
  ASSUME Typed, Shaped, [Next]_vars
  PROVE  \/ Calmly \/ Receive \/ Ring \/ Restart
         \/ \E t \in Threads : Stirring(t)
         \/ \E c \in Calls : NetOffer(c)
<1>1. CASE \E t \in Threads : Step(t)
  BY <1>1, CalmSteps
<1>2. CASE Timers
  <2>1. CASE \E m \in Media : ExpireUnbound(m)
    BY <2>1, CalmMedia
  <2>2. CASE \E c \in Calls : DisconnectFires(c) \/ AutoAnswerFires(c)
    BY <2>2, CalmTimers
  <2>3. CASE \E c \in Calls : ClaimAutoAnswer(c) \/ Adopt(c)
    BY <2>3, CalmAutoAnswer, CalmAdopt
  <2>4. CASE \E f \in fired : ExpireDisconnected(f) \/ HangupExpired(f)
    BY <2>4, CalmCallbacks
  <2> QED BY <1>2, <2>1, <2>2, <2>3, <2>4 DEF Timers
<1>3. CASE Requests
  <2>1. CASE \E m \in Media : CancelMedia(m)
    BY <2>1, CalmMedia
  <2>2. CASE \E t \in Clients, m \in Media : StartCall(t, m)
    <3>1. PICK t \in Clients, m \in Media : StartCall(t, m)
      BY <2>2
    <3> QED BY <3>1, CalmStart
  <2>3. CASE \E t \in Clients, m \in Media, c \in Calls :
               Answer(t, m, c) \/ Reject(t, m, c) \/ RefreshMedia(t, m, c)
    BY <2>3, CalmClaims
  <2>4. CASE \E t \in Clients, c \in Calls : Hangup(t, c)
    BY <2>4, CalmHangup
  <2>5. CASE (\E c \in Calls : DeleteHistory(c)) \/ (\E on \in BOOLEAN : ConfigureAutoAnswer(on))
    BY <2>5, CalmSettings
  <2> QED BY <1>3, <2>1, <2>2, <2>3, <2>4, <2>5 DEF Requests
<1>4. CASE Environment
  <2>1. CASE (\E c \in Calls : NetOffer(c)) \/ Restart
    BY <2>1
  <2>2. CASE \E c \in Calls : NetBusy(c) \/ NetProgress(c) \/ NetEnd(c)
    BY <2>2, CalmGateway
  <2>3. CASE \E c \in Calls : PromptFails(c)
    BY <2>3, CalmTimers
  <2>4. CASE \E m \in Media : MediaDown(m) \/ MediaUp(m)
    BY <2>4, CalmMedia
  <2> QED BY <1>4, <2>1, <2>2, <2>3, <2>4 DEF Environment
<1>5. CASE UNCHANGED vars
  <2>1. /\ UNCHANGED <<net, queue, unheard, rings, call, device, waiting, med, early, seen, auto, fired>>
        /\ UNCHANGED <<rows, deleted, pc, ops, faults>>
    BY <1>5 DEF vars, gateway, slots, inbox, timers, history, bounds
  <2>2. Shaped' /\ \A t \in Threads : GoesOn(pc[t], pc'[t])
    BY <2>1, NobodyMoves
  <2>3. Typed' /\ Kept
    BY <2>1 DEF Typed, Kept
  <2>4. Heard
    BY <2>1 DEF Heard
  <2> QED BY <2>1, <2>2, <2>3, <2>4 DEF Calmly, Calm
<1> QED BY <1>1, <1>2, <1>3, <1>4, <1>5 DEF Next

\* Every step of the service, of its clients and of the gateway keeps the invariant.
LEMMA NextKeeps ==
  ASSUME IInv, [Next]_vars
  PROVE  IInv' /\ NoNewcomer
<1>1. Typed /\ Shaped
  BY DEF IInv
<1>2. CASE Calmly \/ Receive \/ Ring \/ Restart \/ \E c \in Calls : NetOffer(c)
  BY <1>2, CalmKeeps, ReceiveKeeps, RingKeeps, RestartKeeps, OfferKeeps
<1>3. ASSUME NEW t \in Threads, Stirring(t)
      PROVE  IInv' /\ NoNewcomer
  <2>1. CASE HandleIncoming(t) \/ FinishCall(t) \/ FinalizeRecording(t)
    BY <2>1, IncomingKeeps, FinishKeeps, FinalizeKeeps
  <2>2. CASE CloseCall(t) \/ (Persist(t) /\ At(t, "final"))
    BY <2>2, CloseKeeps, FinalKeeps
  <2>3. CASE ReserveDevice(t) \/ Dial(t) \/ Dialed(t) \/ Undo(t)
    BY <2>3, ReserveKeeps, DialKeeps, DialedKeeps, UndoKeeps
  <2> QED BY <1>3, <2>1, <2>2, <2>3 DEF Stirring
<1> QED BY <1>1, <1>2, <1>3, CalmOrNot
-----------------------------------------------------------------------------
(* Lists in which something occurs, once, or only after something else *)

\* A list without its head.
LEMMA WithoutHead ==
  ASSUME NEW S, NEW s \in Seq(S), s # <<>>, NEW x, NEW y
  PROVE  /\ Has(s, x) <=> Head(s) = x \/ Has(Tail(s), x)
         /\ Once(s, x) => Once(Tail(s), x) /\ ~(Head(s) = x /\ Has(Tail(s), x))
         /\ Led(s, x, y) => Head(s) # y /\ (Head(s) # x => Led(Tail(s), x, y))
<1> DEFINE n == Len(Tail(s))
           r == Tail(s)
<1>1. n \in Nat /\ DOMAIN r = 1 .. n /\ DOMAIN s = 1 .. (n + 1)
  OBVIOUS
<1>2. s[1] = Head(s) /\ \A i \in 1 .. n : r[i] = s[i + 1]
  OBVIOUS
<1> HIDE DEF n, r
<1>4. DOMAIN r = 1 .. n /\ \A i \in 1 .. n : r[i] = s[i + 1]
  BY <1>1, <1>2
<1>5. \A i \in 1 .. (n + 1) : i = 1 \/ (i - 1 \in 1 .. n /\ s[i] = r[i - 1])
  <2> SUFFICES ASSUME NEW i \in 1 .. (n + 1), i # 1
               PROVE  i - 1 \in 1 .. n /\ s[i] = r[i - 1]
    OBVIOUS
  <2>1. i - 1 \in 1 .. n /\ (i - 1) + 1 = i
    BY <1>1
  <2>2. r[i - 1] = s[(i - 1) + 1]
    BY <1>4, <2>1
  <2> QED BY <2>1, <2>2
<1>6. \A i \in 1 .. n : i + 1 \in 1 .. (n + 1)
  BY <1>1
<1>7. Has(s, x) <=> Head(s) = x \/ Has(r, x)
  <2>1. Has(s, x) => Head(s) = x \/ Has(r, x)
    BY <1>1, <1>2, <1>4, <1>5 DEF Has
  <2>2. Head(s) = x => Has(s, x)
    BY <1>1, <1>2 DEF Has
  <2>3. Has(r, x) => Has(s, x)
    BY <1>1, <1>4, <1>6 DEF Has
  <2> QED BY <2>1, <2>2, <2>3
<1>8. ASSUME Once(s, x)
      PROVE  Once(r, x) /\ ~(Head(s) = x /\ Has(r, x))
  <2>1. \A i, j \in 1 .. (n + 1) : s[i] = x /\ s[j] = x => i = j
    BY <1>1, <1>8 DEF Once
  <2>2. \A i, j \in 1 .. n : r[i] = x /\ r[j] = x => i = j
    <3> SUFFICES ASSUME NEW i \in 1 .. n, NEW j \in 1 .. n, r[i] = x, r[j] = x
                 PROVE  i = j
      OBVIOUS
    <3>1. s[i + 1] = x /\ s[j + 1] = x /\ i + 1 \in 1 .. (n + 1) /\ j + 1 \in 1 .. (n + 1)
      BY <1>1, <1>4
    <3>2. i + 1 = j + 1
      BY <2>1, <3>1
    <3> QED BY <3>2
  <2>3. \A i \in 1 .. n : ~(s[1] = x /\ r[i] = x)
    <3> SUFFICES ASSUME NEW i \in 1 .. n, s[1] = x, r[i] = x
                 PROVE  FALSE
      OBVIOUS
    <3>1. s[i + 1] = x /\ i + 1 \in 1 .. (n + 1) /\ 1 \in 1 .. (n + 1)
      BY <1>1, <1>4
    <3>2. i + 1 = 1
      BY <2>1, <3>1
    <3> QED BY <3>2
  <2> QED BY <1>2, <1>4, <2>2, <2>3 DEF Once, Has
<1>9. ASSUME Led(s, x, y)
      PROVE  Head(s) # y /\ (Head(s) # x => Led(r, x, y))
  <2>1. \A i \in 1 .. (n + 1) : s[i] = y => \E j \in 1 .. (n + 1) : j < i /\ s[j] = x
    BY <1>1, <1>9 DEF Led
  <2>2. s[1] # y
    BY <1>1, <2>1
  <2>3. ASSUME s[1] # x, NEW i \in 1 .. n, r[i] = y
        PROVE  \E j \in 1 .. n : j < i /\ r[j] = x
    <3>1. i + 1 \in 1 .. (n + 1) /\ s[i + 1] = y
      BY <1>1, <1>4, <2>3
    <3>2. PICK j \in 1 .. (n + 1) : j < i + 1 /\ s[j] = x
      BY <2>1, <3>1
    <3>3. j - 1 \in 1 .. n /\ j - 1 < i /\ r[j - 1] = x
      BY <1>5, <2>3, <3>2
    <3> QED BY <3>3
  <2> QED BY <1>2, <1>4, <2>2, <2>3 DEF Led
<1> QED BY <1>7, <1>8, <1>9 DEF r

\* A list with one more at its end.
LEMMA WithOneMore ==
  ASSUME NEW S, NEW s \in Seq(S), NEW e, NEW x, NEW y
  PROVE  /\ Has(Append(s, e), x) <=> Has(s, x) \/ e = x
         /\ Once(s, x) /\ (e = x => ~Has(s, x)) => Once(Append(s, e), x)
         /\ Led(s, x, y) /\ (e = y => Has(s, x)) => Led(Append(s, e), x, y)
         /\ x # y /\ e = x => (Led(Append(s, e), x, y) <=> Led(s, x, y))
<1> DEFINE n == Len(s)
           r == Append(s, e)
<1>1. /\ n \in Nat /\ DOMAIN s = 1 .. n
      /\ DOMAIN r = 1 .. (n + 1) /\ r[n + 1] = e /\ \A i \in 1 .. n : r[i] = s[i]
  OBVIOUS
<1> HIDE DEF n, r
<1>2. \A i \in 1 .. n : i \in 1 .. (n + 1) /\ i < n + 1
  BY <1>1
<1>3. \A i \in 1 .. (n + 1) : i = n + 1 \/ i \in 1 .. n
  BY <1>1
<1>4. n + 1 \in 1 .. (n + 1)
  BY <1>1
<1>5. Has(r, x) <=> Has(s, x) \/ e = x
  BY <1>1, <1>2, <1>3, <1>4 DEF Has
<1>6. Once(s, x) /\ (e = x => ~Has(s, x)) => Once(r, x)
  BY <1>1, <1>3 DEF Once, Has
<1>7. ASSUME Led(s, x, y), e = y => Has(s, x)
      PROVE  Led(r, x, y)
  BY <1>1, <1>2, <1>3, <1>7 DEF Led, Has
<1>8. ASSUME x # y, e = x, Led(r, x, y)
      PROVE  Led(s, x, y)
  <2> SUFFICES ASSUME NEW i \in 1 .. n, s[i] = y
               PROVE  \E j \in 1 .. n : j < i /\ s[j] = x
    BY <1>1 DEF Led
  <2>1. PICK j \in 1 .. (n + 1) : j < i /\ r[j] = x
    BY <1>1, <1>2, <1>8 DEF Led
  <2>2. j \in 1 .. n
    BY <1>1, <2>1
  <2> QED BY <1>1, <2>1, <2>2
<1>9. x # y /\ e = x => (Led(r, x, y) <=> Led(s, x, y))
  BY <1>7, <1>8
<1> QED BY <1>5, <1>6, <1>7, <1>9 DEF r

\* A list after which another one follows that has no y.
LEMMA OneAfterAnother ==
  ASSUME NEW S, NEW a \in Seq(S), NEW b \in Seq(S), NEW x, NEW y
  PROVE  /\ Has(a \o b, x) <=> Has(a, x) \/ Has(b, x)
         /\ Once(a, y) /\ ~Has(b, y) => Once(a \o b, y)
         /\ Led(a, x, y) /\ ~Has(b, y) => Led(a \o b, x, y)
<1>1. PICK r : r = a \o b
  OBVIOUS
<1>2. r = [i \in 1 .. (Len(a) + Len(b)) |-> IF i <= Len(a) THEN a[i] ELSE b[i - Len(a)]]
  BY <1>1, Joined, Zenon
<1>3. PICK n \in Nat, k \in Nat : n = Len(a) /\ k = Len(b) /\ DOMAIN a = 1 .. n /\ DOMAIN b = 1 .. k
  OBVIOUS
<1>4. DOMAIN r = 1 .. (n + k) /\ \A i \in 1 .. (n + k) : r[i] = IF i <= n THEN a[i] ELSE b[i - n]
  BY <1>2, <1>3
<1>5. \A i \in 1 .. n : i \in 1 .. (n + k) /\ r[i] = a[i]
  BY <1>4
<1>6. \A i \in 1 .. (n + k) : i \in 1 .. n \/ (i - n \in 1 .. k /\ r[i] = b[i - n])
  BY <1>4
<1>7. \A i \in 1 .. k : i + n \in 1 .. (n + k) /\ r[i + n] = b[i]
  <2> SUFFICES ASSUME NEW i \in 1 .. k
               PROVE  i + n \in 1 .. (n + k) /\ r[i + n] = b[i]
    OBVIOUS
  <2>1. i + n \in 1 .. (n + k) /\ ~(i + n <= n) /\ (i + n) - n = i
    OBVIOUS
  <2>2. r[i + n] = b[(i + n) - n]
    BY <1>4, <2>1
  <2> QED BY <2>1, <2>2
<1>8. Has(r, x) <=> Has(a, x) \/ Has(b, x)
  <2>1. Has(r, x) => Has(a, x) \/ Has(b, x)
    <3> SUFFICES ASSUME NEW i \in 1 .. (n + k), r[i] = x
                 PROVE  Has(a, x) \/ Has(b, x)
      BY <1>4 DEF Has
    <3>1. CASE i \in 1 .. n
      BY <1>3, <1>5, <3>1 DEF Has
    <3>2. CASE i - n \in 1 .. k /\ r[i] = b[i - n]
      BY <1>3, <3>2 DEF Has
    <3> QED BY <1>6, <3>1, <3>2
  <2>2. Has(a, x) => Has(r, x)
    BY <1>3, <1>4, <1>5 DEF Has
  <2>3. Has(b, x) => Has(r, x)
    BY <1>3, <1>4, <1>7 DEF Has
  <2> QED BY <2>1, <2>2, <2>3
<1>9. ASSUME ~Has(b, y)
      PROVE  \A i \in 1 .. (n + k) : r[i] = y => i \in 1 .. n /\ a[i] = y
  BY <1>3, <1>5, <1>6, <1>9 DEF Has
<1>10. Once(a, y) /\ ~Has(b, y) => Once(r, y)
  BY <1>3, <1>4, <1>9 DEF Once
<1>11. Led(a, x, y) /\ ~Has(b, y) => Led(r, x, y)
  BY <1>3, <1>4, <1>5, <1>9 DEF Led
<1> QED BY <1>1, <1>8, <1>10, <1>11

\* Nothing is in the empty list, and a list of one has that one.
LEMMA ShortLists ==
  ASSUME NEW x, NEW y, NEW e
  PROVE  /\ ~Has(<<>>, x) /\ Once(<<>>, x) /\ Led(<<>>, x, y)
         /\ (Has(<<e>>, x) <=> e = x) /\ Once(<<e>>, x)
         /\ \A s : ~Has(s, y) => Once(s, y) /\ Led(s, x, y)
<1>1. Has(<<e>>, x) <=> e = x
  BY DEF Has
<1>2. Once(<<e>>, x)
  BY DEF Once
<1>3. \A s : ~Has(s, y) => Once(s, y) /\ Led(s, x, y)
  BY DEF Has, Once, Led
<1>4. ~Has(<<>>, x) /\ Once(<<>>, x) /\ Led(<<>>, x, y)
  BY DEF Has, Once, Led
<1> QED BY <1>1, <1>2, <1>3, <1>4
-----------------------------------------------------------------------------
(* The end of a call, on its way from the gateway to the goroutine that waits for it *)

\* A step in which nothing happens to call c but that it may end.
LEMMA UnmovedKeeps ==
  ASSUME IInv, NoNewcomer, NEW c \in Calls, LastOf(c), early'[c] = early[c], NewsOf(c),
         call'[c].reg = call[c].reg, call'[c].dir = call[c].dir, call'[c].again = call[c].again,
         Live(c)' <=> Live(c),
         \A t \in Threads : Told(pc[t], pc'[t]) \/ (pc[t].c # c /\ pc'[t].c # c)
  PROVE  LastOf(c)'
<1> SUFFICES ASSUME c \notin unheard, c \notin unheard'
             PROVE  LastOf(c)'
  BY DEF LastOf, NewsOf
<1>1. net[c] = "none" => ~call[c].reg /\ ~MayCome(c)
  BY DEF IInv, FreshInv, MayCome
<1>2. MayCome(c)' => MayCome(c) \/ net'[c] # "gone"
  BY DEF NoNewcomer
<1>3. ASSUME NEW t \in Threads, Due(c, t, "Finalized")'
      PROVE  /\ Due(c, t, "Finalized")
             /\ Once(pc[t].todo, "Finalized") => Once(pc'[t].todo, "Finalized")
             /\ Led(pc[t].todo, "Ended", "Finalized") => Led(pc'[t].todo, "Ended", "Finalized")
  BY <1>3 DEF Due, Told
<1>4. ASSUME NEW t \in Threads, Due(c, t, "Ended")
      PROVE  Due(c, t, "Ended")'
  BY <1>4 DEF Due, Told
<1>5. /\ net[c] = "gone" => net'[c] = "gone"
      /\ Has(queue, End(c)) => Has(queue', End(c))
      /\ net'[c] = "gone" => net[c] \in {"none", "gone"} \/ Has(queue', End(c))
      /\ Has(queue', Fin(c)) => net'[c] = "gone"
      /\ \/ /\ Has(queue', Fin(c)) => Has(queue, Fin(c))
            /\ Once(queue', Fin(c))
            /\ Led(queue, End(c), Fin(c)) => Led(queue', End(c), Fin(c))
         \/ net[c] \in Alive /\ Once(queue', Fin(c)) /\ Led(queue', End(c), Fin(c))
  <2>1. "gone" \notin Alive
    BY DEF Alive
  <2>2. Has(queue, Fin(c)) => net[c] = "gone"
    BY DEF LastOf, GoneFin
  <2>3. Once(queue, Fin(c))
    BY DEF LastOf, OneFin
  <2> QED BY <2>1, <2>2, <2>3 DEF NewsOf, Alike
<1>6. net[c] \in Alive => net[c] # "gone"
  BY DEF Alive
<1>7. GhostOf(c)'
  <2>1. OnWay(c) => OnWay(c)'
    BY <1>4, <1>5 DEF OnWay
  <2>2. Has(queue', End(c)) => OnWay(c)'
    BY DEF OnWay
  <2>3. Live(c) => call[c].reg
    BY DEF Live
  <2> QED BY <1>1, <1>2, <1>5, <2>1, <2>2, <2>3 DEF LastOf, GhostOf
<1>8. OneFin(c)'
  <2>1. \A t \in Threads : pc'[t].c = c => Once(pc'[t].todo, "Finalized")
    <3> SUFFICES ASSUME NEW t \in Threads, pc'[t].c = c
                 PROVE  Once(pc'[t].todo, "Finalized")
      OBVIOUS
    <3>1. CASE Has(pc'[t].todo, "Finalized")
      BY <1>3, <3>1 DEF Due, LastOf, OneFin
    <3>2. CASE ~Has(pc'[t].todo, "Finalized")
      BY <3>2, ShortLists
    <3> QED BY <3>1, <3>2
  <2>2. Has(queue', Fin(c)) => ~Has(early[c], "Finalized") /\ \A t \in Threads : ~Due(c, t, "Finalized")
    BY <1>5, <1>6 DEF LastOf, OneFin, GoneFin
  <2> QED BY <1>3, <1>5, <2>1, <2>2 DEF LastOf, OneFin
<1>9. GoneFin(c)'
  BY <1>3, <1>5, <1>6 DEF LastOf, GoneFin
<1>10. LedFin(c)'
  <2>1. Has(queue', Fin(c)) /\ ~Led(queue', End(c), Fin(c)) =>
          /\ net'[c] = "gone"
          /\ Has(queue, Fin(c)) /\ ~Led(queue, End(c), Fin(c))
    BY <1>5
  <2>2. Has(early[c], "Finalized") => net'[c] = "gone"
    BY <1>5 DEF LastOf, GoneFin
  <2>3. MayCome(c)' => Led(early[c], "Ended", "Finalized")
    <3>1. CASE Has(early[c], "Finalized")
      BY <1>2, <2>2, <3>1 DEF LastOf, LedFin
    <3>2. CASE ~Has(early[c], "Finalized")
      BY <3>2, ShortLists
    <3> QED BY <3>1, <3>2
  <2>4. (\E t \in Threads : Due(c, t, "Ended")) => \E t \in Threads : Due(c, t, "Ended")'
    BY <1>4
  <2>5. ASSUME Live(c), NEW t \in Threads, Due(c, t, "Finalized")'
        PROVE  \/ Led(pc'[t].todo, "Ended", "Finalized")
               \/ \E u \in Threads \ {t} : Due(c, u, "Ended")'
    BY <1>3, <1>4, <2>5 DEF LastOf, LedFin
  <2> QED BY <1>2, <2>1, <2>3, <2>4, <2>5 DEF LastOf, LedFin
<1> QED BY <1>7, <1>8, <1>9, <1>10 DEF LastOf

\* One event more, which is not of the end of a call.
LEMMA OneEventMore ==
  ASSUME NEW S, NEW s \in Seq(S), NEW e, NEW x, NEW y, e # x, e # y
  PROVE  Alike(s, Append(s, e), x, y)
BY WithOneMore DEF Alike

\* One event less, of something else.
LEMMA OneEventLess ==
  ASSUME NEW S, NEW s \in Seq(S), s # <<>>, NEW x, NEW y, Head(s) # x
  PROVE  Alike(s, Tail(s), x, y)
<1>1. \A z : Has(s, z) <=> Head(s) = z \/ Has(Tail(s), z)
  BY WithoutHead
<1>2. \A z : Once(s, z) => Once(Tail(s), z)
  BY WithoutHead
<1>3. Led(s, x, y) => Led(Tail(s), x, y)
  BY WithoutHead
<1> QED BY <1>1, <1>2, <1>3 DEF Alike

\* The end of a call, and after it that it has been finalized.
LEMMA TwoEventsMore ==
  ASSUME NEW S, NEW s \in Seq(S), NEW x \in S, NEW y \in S, x # y
  PROVE  /\ Has(s \o <<x, y>>, x) /\ (~Has(s, y) => Once(s \o <<x, y>>, y) /\ Led(s \o <<x, y>>, x, y))
         /\ \A a, b : a \notin {x, y} /\ b \notin {x, y} => Alike(s, s \o <<x, y>>, a, b)
<1>1. s \o <<x, y>> = Append(Append(s, x), y)
  OBVIOUS
<1> DEFINE r == Append(s, x)
<1>2. r \in Seq(S)
  OBVIOUS
<1>3. \A a, b : a \notin {x, y} /\ b \notin {x, y} => Alike(s, r, a, b)
  BY OneEventMore
<1>4. /\ Has(r, x) /\ (Has(r, y) <=> Has(s, y))
      /\ Once(s, y) => Once(r, y)
      /\ Led(s, x, y) => Led(r, x, y)
  BY WithOneMore
<1>5. ~Has(s, y) => Once(s, y) /\ Led(s, x, y)
  BY ShortLists
<1> HIDE DEF r
<1>6. \A a, b : a \notin {x, y} /\ b \notin {x, y} => Alike(r, Append(r, y), a, b)
  BY <1>2, OneEventMore
<1>7. /\ Has(Append(r, y), x) /\ (Once(r, y) /\ ~Has(r, y) => Once(Append(r, y), y))
      /\ Led(r, x, y) => Led(Append(r, y), x, y)
  <2>1. Has(Append(r, y), x) <=> Has(r, x) \/ y = x
    BY <1>2, WithOneMore
  <2>2. Once(r, y) /\ ~Has(r, y) => Once(Append(r, y), y)
    BY <1>2, WithOneMore
  <2>3. Led(r, x, y) /\ Has(r, x) => Led(Append(r, y), x, y)
    BY <1>2, WithOneMore
  <2> QED BY <1>4, <2>1, <2>2, <2>3
<1>8. s \o <<x, y>> = Append(r, y)
  BY <1>1 DEF r
<1>9. \A a, b : a \notin {x, y} /\ b \notin {x, y} => Alike(s, Append(r, y), a, b)
  BY <1>3, <1>6 DEF Alike
<1> QED BY <1>4, <1>5, <1>7, <1>8, <1>9

\* Events of different kinds or calls are different.
LEMMA Events ==
  /\ \A k, d, j, c : Event(k, d) = Event(j, c) <=> k = j /\ d = c
  /\ \A c : End(c) = Event("Ended", c) /\ Fin(c) = Event("Finalized", c)
  /\ \A c, d : End(c) # Fin(d) /\ (End(c) = End(d) <=> c = d) /\ (Fin(c) = Fin(d) <=> c = d)
BY DEF Event, End, Fin

\* What the gateway says in a calm step.
LEMMA HeardNews ==
  ASSUME Typed, Heard, NEW c \in Calls
  PROVE  NewsOf(c)
<1>1. queue \in Seq([kind : Kinds, call : Calls]) /\ net \in [Calls -> Alive \cup {"none", "gone"}]
  BY DEF Typed
<1> SUFFICES ASSUME c \notin unheard'
             PROVE  NewsOf(c)
  BY DEF NewsOf
<1>0. c \notin unheard
  BY DEF Heard, Word
<1>2. CASE /\ queue' = queue
           /\ \A d \in Calls : net[d] = "gone" => net'[d] = "gone"
           /\ \A d \in Calls : net'[d] = "gone" => net[d] \in {"none", "gone"}
  BY <1>0, <1>2 DEF NewsOf, Alike
<1>3. CASE /\ \E d \in Calls, k \in Kinds \ ({"Waiting"} \cup Last) : queue' = Append(queue, Event(k, d))
           /\ \A d \in Calls : net[d] = "gone" => net'[d] = "gone"
           /\ \A d \in Calls : net'[d] = "gone" => net[d] \in {"none", "gone"}
  <2>1. PICK d \in Calls, k \in Kinds \ ({"Waiting"} \cup Last) : queue' = Append(queue, Event(k, d))
    BY <1>3
  <2>2. Event(k, d) # End(c) /\ Event(k, d) # Fin(c)
    BY <2>1, Events DEF Last
  <2>3. Alike(queue, queue', End(c), Fin(c))
    BY <1>1, <2>1, <2>2, OneEventMore
  <2> QED BY <1>0, <1>3, <2>3 DEF NewsOf
<1>4. CASE \E d \in Calls : net[d] \in Alive /\ net' = [net EXCEPT ![d] = "gone"] /\ Word(d)
  <2>1. PICK d \in Calls : net[d] \in Alive /\ net' = [net EXCEPT ![d] = "gone"] /\ Word(d)
    BY <1>4
  <2>2. End(d) \in [kind : Kinds, call : Calls] /\ Fin(d) \in [kind : Kinds, call : Calls] /\ End(d) # Fin(d)
    BY Events DEF Event, End, Fin, Kinds
  <2>3. CASE c = d
    <3>1. net[c] \in Alive /\ net'[c] = "gone"
      BY <1>1, <2>1, <2>3
    <3>2. queue' = Append(queue, End(c)) \/ queue' = queue \o <<End(c), Fin(c)>>
      BY <2>1, <2>3 DEF Word, End, Fin
    <3>3. LET r == Append(queue, End(c))
          IN  Has(r, End(c)) /\ (~Has(queue, Fin(c)) => Once(r, Fin(c)) /\ Led(r, End(c), Fin(c)))
      <4>1. Has(Append(queue, End(c)), End(c)) /\ (Has(Append(queue, End(c)), Fin(c)) <=> Has(queue, Fin(c)))
        BY <1>1, <2>2, <2>3, WithOneMore
      <4> QED BY <4>1, ShortLists
    <3>4. Has(queue', End(c)) /\ (~Has(queue, Fin(c)) => Once(queue', Fin(c)) /\ Led(queue', End(c), Fin(c)))
      <4>1. CASE queue' = Append(queue, End(c))
        BY <3>3, <4>1
      <4>2. CASE queue' = queue \o <<End(c), Fin(c)>>
        <5>1. Has(queue \o <<End(c), Fin(c)>>, End(c))
          BY <1>1, <2>2, <2>3, TwoEventsMore
        <5>2. ~Has(queue, Fin(c)) => /\ Once(queue \o <<End(c), Fin(c)>>, Fin(c))
                                     /\ Led(queue \o <<End(c), Fin(c)>>, End(c), Fin(c))
          BY <1>1, <2>2, <2>3, TwoEventsMore
        <5> QED BY <4>2, <5>1, <5>2
      <4> QED BY <3>2, <4>1, <4>2
    <3> QED BY <1>0, <3>1, <3>4 DEF NewsOf
  <2>4. CASE c # d
    <3>1. net'[c] = net[c]
      BY <1>1, <2>1, <2>4
    <3>2. End(c) \notin {End(d), Fin(d)} /\ Fin(c) \notin {End(d), Fin(d)}
      BY <2>4, Events
    <3>3. Alike(queue, queue', End(c), Fin(c))
      <4>1. Alike(queue, queue, End(c), Fin(c))
        BY DEF Alike
      <4>2. \A e \in {End(d), Fin(d)} : Alike(queue, Append(queue, e), End(c), Fin(c))
        BY <1>1, <3>2, OneEventMore
      <4>3. /\ Alike(queue, queue \o <<End(d), Fin(d)>>, End(c), Fin(c))
            /\ Alike(queue, queue \o <<Fin(d), End(d)>>, End(c), Fin(c))
        BY <1>1, <2>2, <3>2, TwoEventsMore
      <4> QED BY <2>1, <4>1, <4>2, <4>3 DEF Word, End, Fin
    <3> QED BY <1>0, <3>1, <3>3 DEF NewsOf
  <2> QED BY <2>3, <2>4
<1> QED BY <1>2, <1>3, <1>4 DEF Heard

\* A goroutine that goes on forgets no end.
LEMMA HearsTold ==
  ASSUME NEW p, NEW q, NEW S, p.todo \in Seq(S), Hears(p, q)
  PROVE  Told(p, q)
<1>1. CASE q.c = p.c /\ q.todo = p.todo
  BY <1>1 DEF Told
<1>2. CASE q.c = p.c /\ p.todo # <<>> /\ Head(p.todo) \notin Last /\ q.todo = Tail(p.todo)
  <2>1. Head(p.todo) # "Ended" /\ Head(p.todo) # "Finalized"
    BY <1>2 DEF Last
  <2>2. Alike(p.todo, q.todo, "Ended", "Finalized")
    BY <1>2, <2>1, OneEventLess
  <2> QED BY <1>2, <2>2 DEF Told, Alike
<1>3. CASE q.c = p.c /\ q.todo = <<"Ended">>
  <2>1. Has(q.todo, "Ended") /\ ~Has(q.todo, "Finalized")
    BY <1>3 DEF Has
  <2> QED BY <1>3, <2>1 DEF Told
<1>4. CASE q.todo = <<>> /\ \A i \in DOMAIN p.todo : p.todo[i] \notin Last
  <2>1. ~Has(p.todo, "Ended") /\ ~Has(q.todo, "Finalized")
    BY <1>4, ShortLists DEF Has, Last
  <2> QED BY <2>1 DEF Told
<1> QED BY <1>1, <1>2, <1>3, <1>4 DEF Hears

\* A calm step.
LEMMA CalmLast ==
  ASSUME IInv, NoNewcomer, LastInv, Calmly
  PROVE  LastInv'
<1>1. Typed /\ Shaped /\ Calm
  BY DEF IInv, Calmly
<1>2. ASSUME NEW t \in Threads
      PROVE  Told(pc[t], pc'[t])
  <2>1. pc[t].todo \in Seq(Kinds \cup {"Incoming"})
    BY <1>1 DEF Shaped, Shape, Locals
  <2>2. CASE pc'[t] = pc[t]
    BY <2>2 DEF Told
  <2>3. CASE Hears(pc[t], pc'[t])
    BY <2>1, <2>3, HearsTold
  <2> QED BY <1>1, <2>2, <2>3 DEF Calm, GoesOn
<1>3. ASSUME NEW c \in Calls
      PROVE  LastOf(c)'
  <2>1. NewsOf(c)
    BY <1>1, HeardNews DEF Calm
  <2>2. /\ call'[c].reg = call[c].reg /\ call'[c].dir = call[c].dir /\ call'[c].again = call[c].again
        /\ Live(c)' <=> Live(c)
        /\ early'[c] = early[c] /\ LastOf(c)
    BY <1>1 DEF Calm, Kept, Live, LastInv
  <2> QED BY <1>2, <2>1, <2>2, UnmovedKeeps
<1> QED BY <1>3 DEF LastInv

\* A step in which the gateway says nothing.
LEMMA NoNews ==
  ASSUME UNCHANGED <<net, queue, unheard>>
  PROVE  \A c \in Calls : NewsOf(c)
BY DEF NewsOf, Alike

\* What goroutine t has to dispatch, and the call it is about, when it becomes p.
LEMMA Afterwards ==
  ASSUME Shaped, NEW t \in Threads, NEW p, Becomes(t, p)
  PROVE  /\ pc'[t].todo = p.todo /\ (pc'[t].c = p.c \/ (pc'[t].c = None /\ p.todo = <<>>))
         /\ \A u \in Threads : u # t => pc'[u] = pc[u]
<1>1. DOMAIN pc = Threads
  BY DEF Shaped
<1>2. pc' = [pc EXCEPT ![t] = IF p.go = <<>> /\ p.todo = <<>> THEN Idle ELSE p]
  BY DEF Becomes
<1>3. Idle.todo = <<>> /\ Idle.c = None
  BY DEF Idle
<1>4. /\ pc'[t] = IF p.go = <<>> /\ p.todo = <<>> THEN Idle ELSE p
      /\ \A u \in Threads : u # t => pc'[u] = pc[u]
  BY <1>1, <1>2
<1> QED BY <1>3, <1>4

\* A goroutine takes a step, and its events are as they were.
LEMMA OneGoesOn ==
  ASSUME Shaped, NEW t \in Threads, NEW p, Becomes(t, p), p.todo = pc[t].todo, p.c = pc[t].c \/ p.todo = <<>>
  PROVE  \A u \in Threads : Told(pc[u], pc'[u])
<1>1. /\ pc'[t].todo = p.todo /\ (pc'[t].c = p.c \/ (pc'[t].c = None /\ p.todo = <<>>))
      /\ \A u \in Threads : u # t => pc'[u] = pc[u]
  BY Afterwards
<1>2. ~Has(<<>>, "Ended") /\ ~Has(<<>>, "Finalized")
  BY ShortLists
<1>3. Told(pc[t], pc'[t])
  BY <1>1, <1>2 DEF Told
<1> QED BY <1>1, <1>3 DEF Told

\* A step that has nothing to do with the end of any call.
LEMMA OtherLast ==
  ASSUME IInv, NoNewcomer, LastInv, UNCHANGED early, SameCalls, \A c \in Calls : NewsOf(c),
         \A t \in Threads : Told(pc[t], pc'[t])
  PROVE  LastInv'
<1>1. ASSUME NEW c \in Calls
      PROVE  LastOf(c)'
  BY UnmovedKeeps DEF LastInv, SameCalls
<1> QED BY <1>1 DEF LastInv

\* The device is reserved, or given up again.
LEMMA DeviceLast ==
  ASSUME IInv, NoNewcomer, LastInv, NEW t \in Threads, ReserveDevice(t) \/ Undo(t)
  PROVE  LastInv'
<1>1. Shaped /\ UNCHANGED <<net, queue, unheard, call, early>> /\ (Then(t) \/ Return(t))
  BY DEF IInv, ReserveDevice, Undo, gateway, inbox
<1>2. SameCalls
  BY <1>1 DEF SameCalls, Live
<1>3. \A c \in Calls : NewsOf(c)
  BY <1>1, NoNews
<1>4. PICK g : Becomes(t, [pc[t] EXCEPT !.go = g])
  BY <1>1 DEF Then, Return, Goto
<1>5. [pc[t] EXCEPT !.go = g].todo = pc[t].todo /\ [pc[t] EXCEPT !.go = g].c = pc[t].c
  BY <1>1 DEF Shaped, Shape, Locals
<1>6. \A u \in Threads : Told(pc[u], pc'[u])
  BY <1>1, <1>4, <1>5, OneGoesOn
<1> QED BY <1>1, <1>2, <1>3, <1>6, OtherLast

\* A call is dialled.
LEMMA DialLast ==
  ASSUME IInv, NoNewcomer, LastInv, NEW t \in Threads, Dial(t)
  PROVE  LastInv'
<1>1. Typed /\ Shaped /\ UNCHANGED <<queue, unheard, call, early>> /\ At(t, "dial")
  BY DEF IInv, Dial, inbox
<1>2. SameCalls
  BY <1>1 DEF SameCalls, Live
<1>3. ASSUME NEW c \in Calls
      PROVE  NewsOf(c)
  <2>1. net \in [Calls -> Alive \cup {"none", "gone"}]
    BY <1>1 DEF Typed
  <2>2. net' = net \/ \E d \in Calls : net[d] = "none" /\ net' = [net EXCEPT ![d] = "dialing"]
    BY DEF Dial
  <2>3. (net[c] = "gone" => net'[c] = "gone") /\ (net'[c] = "gone" => net[c] \in {"none", "gone"})
    BY <2>1, <2>2
  <2> QED BY <1>1, <2>3 DEF NewsOf, Alike
<1>4. pc[t].todo = <<>> /\ pc[t] \in Locals
  BY <1>1, DialAt
<1>5. PICK g, c : Becomes(t, [pc[t] EXCEPT !.go = g, !.c = c])
  <2>1. CASE \E c \in Calls : Becomes(t, [pc[t] EXCEPT !.go = Tail(@), !.c = c])
    BY <2>1
  <2>2. CASE Goto(t, <<"undo", "leave">>)
    <3>1. [pc[t] EXCEPT !.go = <<"undo", "leave">>] = [pc[t] EXCEPT !.go = <<"undo", "leave">>, !.c = pc[t].c]
      BY <1>4 DEF Locals
    <3>2. Becomes(t, [pc[t] EXCEPT !.go = <<"undo", "leave">>, !.c = pc[t].c])
      BY <2>2, <3>1, Zenon DEF Goto
    <3> QED BY <3>2
  <2> QED BY <2>1, <2>2 DEF Dial
<1>6. [pc[t] EXCEPT !.go = g, !.c = c].todo = pc[t].todo
  BY <1>4 DEF Locals
<1>7. \A u \in Threads : Told(pc[u], pc'[u])
  BY <1>1, <1>4, <1>5, <1>6, OneGoesOn
<1> QED BY <1>1, <1>2, <1>3, <1>7, OtherLast

\* The recording is closed, the record saved.
LEMMA RecordLast ==
  ASSUME IInv, NoNewcomer, LastInv, NEW t \in Threads,
         CloseCall(t) \/ (Persist(t) /\ At(t, "final"))
  PROVE  LastInv'
<1>1. Typed /\ Shaped /\ UNCHANGED <<net, queue, unheard, early>>
  BY DEF IInv, CloseCall, Persist, gateway, inbox
<1>2. PICK c \in Calls : c = pc[t].c
  <2>1. At(t, "close") \/ At(t, "final")
    BY DEF CloseCall
  <2> QED BY <1>1, <2>1, EndGoes DEF IInv
<1>3. call \in [Calls -> CallRecords] /\ pc[t] \in Locals
  BY <1>1 DEF Typed, Shaped, Shape
<1>4. SameCalls
  <2>1. CASE CloseCall(t)
    <3>1. PICK m \in OrNone(Sessions) : m = pc[t].m
      BY <1>3 DEF Locals
    <3>2. /\ Disconnected(m) \in [Calls -> CallRecords]
          /\ \A d \in Calls : /\ Disconnected(m)[d].reg = call[d].reg
                              /\ Disconnected(m)[d].dir = call[d].dir
                              /\ Disconnected(m)[d].again = call[d].again
                              /\ Disconnected(m)[d].status = call[d].status
      BY <1>1, DisconnectedKeeps
    <3>3. PICK calls \in [Calls -> CallRecords] : calls = Disconnected(m)
      BY <3>2
    <3>4. call' = [calls EXCEPT ![c].rec = IF @ = "open" THEN "closed" ELSE @]
      BY <1>2, <2>1, <3>1, <3>3 DEF CloseCall
    <3>5. \A d \in Calls : /\ call'[d].reg = calls[d].reg /\ call'[d].dir = calls[d].dir
                           /\ call'[d].again = calls[d].again /\ call'[d].status = calls[d].status
      BY <3>4 DEF CallRecords
    <3> QED BY <3>2, <3>3, <3>5 DEF SameCalls, Live
  <2>2. CASE Persist(t) /\ At(t, "final")
    <3>1. call' = [call EXCEPT ![c].done = TRUE]
      BY <1>2, <2>2 DEF Persist
    <3>2. \A d \in Calls : /\ call'[d].reg = call[d].reg /\ call'[d].dir = call[d].dir
                           /\ call'[d].again = call[d].again /\ call'[d].status = call[d].status
      BY <1>3, <3>1 DEF CallRecords
    <3> QED BY <3>2 DEF SameCalls, Live
  <2> QED BY <2>1, <2>2
<1>5. PICK p : Becomes(t, p) /\ p.todo = pc[t].todo /\ p.c = pc[t].c
  <2>1. CASE CloseCall(t)
    <3> DEFINE p == [pc[t] EXCEPT !.go = Tail(@), !.row = "over", !.m = None]
    <3>1. p.todo = pc[t].todo /\ p.c = pc[t].c
      BY <1>3 DEF Locals
    <3>2. Becomes(t, p)
      BY <2>1 DEF CloseCall
    <3> QED BY <3>1, <3>2
  <2>2. CASE Persist(t)
    <3> DEFINE p == [pc[t] EXCEPT !.go = Tail(@), !.row = None]
    <3>1. p.todo = pc[t].todo /\ p.c = pc[t].c
      BY <1>3 DEF Locals
    <3>2. Becomes(t, p)
      BY <2>2 DEF Persist
    <3> QED BY <3>1, <3>2
  <2> QED BY <2>1, <2>2
<1>6. \A u \in Threads : Told(pc[u], pc'[u])
  BY <1>1, <1>5, OneGoesOn
<1> QED BY <1>1, <1>4, <1>6, NoNews, OtherLast

\* An incoming call is offered.
LEMMA OfferLast ==
  ASSUME IInv, NoNewcomer, LastInv, NEW d \in Calls, NetOffer(d)
  PROVE  LastInv'
<1>1. /\ UNCHANGED <<call, early, pc, unheard>> /\ net[d] = "none" /\ net' = [net EXCEPT ![d] = "offered"]
      /\ net \in [Calls -> Alive \cup {"none", "gone"}] /\ queue \in Seq([kind : Kinds, call : Calls])
  BY DEF IInv, Typed, NetOffer, inbox
<1>3. Event("Waiting", d) \in [kind : Kinds, call : Calls] /\ Event("Ringing", d) \in [kind : Kinds, call : Calls]
  BY DEF Event, Kinds
<1>4. PICK r \in {queue, Append(queue, Event("Waiting", d))} : queue' \in {r, Append(r, Event("Ringing", d))}
  BY Offering DEF IInv
<1>5. r \in Seq([kind : Kinds, call : Calls])
  <2>1. Append(queue, Event("Waiting", d)) \in Seq([kind : Kinds, call : Calls])
    BY <1>1, <1>3
  <2> QED BY <1>1, <1>4, <2>1
<1>6. ASSUME NEW c \in Calls
      PROVE  NewsOf(c)
  <2>1. \A k \in {"Waiting", "Ringing"} : Event(k, d) # End(c) /\ Event(k, d) # Fin(c)
    BY Events
  <2>2. Alike(queue, r, End(c), Fin(c))
    <3>1. Alike(queue, queue, End(c), Fin(c))
      BY DEF Alike
    <3>2. Alike(queue, Append(queue, Event("Waiting", d)), End(c), Fin(c))
      BY <1>1, <2>1, OneEventMore
    <3> QED BY <1>4, <3>1, <3>2
  <2>3. Alike(r, queue', End(c), Fin(c))
    <3>1. Alike(r, r, End(c), Fin(c)) /\ Alike(r, Append(r, Event("Ringing", d)), End(c), Fin(c))
      BY <1>5, <2>1, OneEventMore DEF Alike
    <3> QED BY <1>4, <3>1
  <2>4. Alike(queue, queue', End(c), Fin(c))
    BY <2>2, <2>3 DEF Alike
  <2>5. (net[c] = "gone" => net'[c] = "gone") /\ (net'[c] = "gone" => net[c] = "gone")
    BY <1>1
  <2> QED BY <1>1, <2>4, <2>5 DEF NewsOf
<1>7. SameCalls /\ \A u \in Threads : Told(pc[u], pc'[u])
  BY <1>1 DEF SameCalls, Live, Told
<1> QED BY <1>1, <1>6, <1>7, OtherLast

\* An incoming call is taken up.
LEMMA RingLast ==
  ASSUME IInv, NoNewcomer, LastInv, Ring
  PROVE  LastInv'
<1>1. Typed /\ Shaped /\ UNCHANGED <<net, queue, unheard, call, early>> /\ "in" \in Threads
  BY DEF IInv, Ring, inbox, Threads
<1>2. pc["in"] = Idle /\ Becomes("in", [Idle EXCEPT !.c = Head(rings), !.todo = <<"Incoming">>])
  BY DEF Ring
<1> DEFINE p == [Idle EXCEPT !.c = Head(rings), !.todo = <<"Incoming">>]
<1>3. p.todo = <<"Incoming">> /\ Idle.todo = <<>>
  BY DEF Idle
<1> HIDE DEF p
<1>4. pc'["in"].todo = <<"Incoming">> /\ \A u \in Threads : u # "in" => pc'[u] = pc[u]
  <2>1. Becomes("in", p)
    BY <1>2 DEF p
  <2> QED BY <1>1, <1>3, <2>1, Afterwards
<1>5. ~Has(<<"Incoming">>, "Finalized") /\ ~Has(<<>>, "Ended")
  BY DEF Has
<1>6. \A u \in Threads : Told(pc[u], pc'[u])
  BY <1>2, <1>3, <1>4, <1>5 DEF Told
<1>7. SameCalls
  BY <1>1 DEF SameCalls, Live
<1> QED BY <1>1, <1>6, <1>7, NoNews, OtherLast
-----------------------------------------------------------------------------
(* One call comes, and one ends *)

\* What is due of the call of goroutine t when the goroutine becomes p.
LEMMA DueAfter ==
  ASSUME Shaped, NEW t \in Threads, NEW c \in Calls, NEW p, p.c = c, Becomes(t, p)
  PROVE  /\ pc'[t].todo = p.todo /\ pc'[t].c \in {c, None} /\ \A u \in Threads : u # t => pc'[u] = pc[u]
         /\ \A k : Due(c, t, k)' <=> Has(p.todo, k)
         /\ \A u \in Threads, k \in Last : u # t => (Due(c, u, k)' <=> Due(c, u, k))
<1>1. /\ pc'[t].todo = p.todo /\ (pc'[t].c = p.c \/ (pc'[t].c = None /\ p.todo = <<>>))
      /\ \A u \in Threads : u # t => pc'[u] = pc[u]
  BY Afterwards
<1>2. \A k : ~Has(<<>>, k)
  BY DEF Has
<1>3. ASSUME NEW k
      PROVE  Due(c, t, k)' <=> Has(p.todo, k)
  BY <1>1, <1>2 DEF Due
<1>4. \A u \in Threads, k \in Last : u # t => (Due(c, u, k)' <=> Due(c, u, k))
  BY <1>1 DEF Due
<1> QED BY <1>1, <1>3, <1>4

\* The other calls than the one that goroutine t is about.
LEMMA OthersLast ==
  ASSUME IInv, NoNewcomer, LastInv, NEW t \in Threads, NEW c \in Calls, pc[t].c \in {c, None},
         NEW p, p.c = c, Becomes(t, p), NEW d \in Calls, d # c,
         early'[d] = early[d], call'[d] = call[d], NewsOf(d)
  PROVE  LastOf(d)'
<1>1. /\ pc'[t].c \in {c, None} /\ \A u \in Threads : u # t => pc'[u] = pc[u]
  BY DueAfter DEF IInv
<1>2. d # None
  BY PhoneAssumption DEF PhoneAssumption
<1>3. pc[t].c # d /\ pc'[t].c # d /\ \A u \in Threads : u # t => Told(pc[u], pc'[u])
  BY <1>1, <1>2 DEF Told
<1>4. LastOf(d) /\ (Live(d)' <=> Live(d))
  BY DEF LastInv, Live
<1> QED BY <1>3, <1>4, UnmovedKeeps

\* A call enters Service.calls: if it is gone, its end is among the events that are
\* replayed, or comes later.
LEMMA EnterLast ==
  ASSUME IInv, NoNewcomer, LastInv, NEW t \in Threads, NEW c \in Calls, pc[t].c = c,
         ~call[c].reg, MayCome(c), UNCHANGED <<net, queue, unheard>>, early' = [early EXCEPT ![c] = <<>>],
         \A d \in Calls : d # c => call'[d] = call[d],
         call'[c].reg, call'[c].dir # None, ~call'[c].again => call[c].dir = None,
         NEW S, early[c] \in Seq(S), NEW rest \in Seq(S), NEW p, Becomes(t, p), p.c = c,
         p.todo = early[c] \o rest, Alike(pc[t].todo, rest, "Ended", "Finalized")
  PROVE  LastInv'
<1>1. Shaped /\ early \in [Calls -> Seq(Kinds)]
  BY DEF IInv, Typed
<1>2. early'[c] = <<>> /\ \A d \in Calls : d # c => early'[d] = early[d]
  BY <1>1
<1>3. ASSUME NEW d \in Calls, d # c
      PROVE  LastOf(d)'
  <2>1. NewsOf(d)
    BY NoNews
  <2> QED BY <1>2, <1>3, <2>1, OthersLast
<1>4. /\ pc'[t].todo = p.todo /\ \A u \in Threads : u # t => pc'[u] = pc[u]
      /\ \A k : Due(c, t, k)' <=> Has(p.todo, k)
      /\ \A u \in Threads, k \in Last : u # t => (Due(c, u, k)' <=> Due(c, u, k))
  BY <1>1, DueAfter, ZenonT(30)
<1> SUFFICES ASSUME c \notin unheard
             PROVE  LastOf(c)'
  BY <1>3 DEF LastInv, LastOf
<1>5. GhostOf(c) /\ OneFin(c) /\ GoneFin(c) /\ LedFin(c)
  BY DEF LastInv, LastOf
<1>6. \A u \in Threads : ~Due(c, u, "Finalized")
  BY <1>5 DEF OneFin
<1>7. ~Has(rest, "Finalized")
  BY <1>6 DEF Due, Alike
<1>8. \A x : Has(p.todo, x) <=> Has(early[c], x) \/ Has(rest, x)
  <2>1. \A x : Has(early[c] \o rest, x) <=> Has(early[c], x) \/ Has(rest, x)
    BY OneAfterAnother, Zenon
  <2> QED BY <2>1, Zenon
<1>9. Has(p.todo, "Finalized") <=> Has(early[c], "Finalized")
  BY <1>7, <1>8
<1>10. Once(p.todo, "Finalized") /\ Led(p.todo, "Ended", "Finalized")
  <2>1. Once(early[c], "Finalized") /\ Led(early[c], "Ended", "Finalized")
    BY <1>5 DEF OneFin, LedFin
  <2>2. Once(p.todo, "Finalized")
    BY <1>7, <2>1, OneAfterAnother
  <2>3. Led(p.todo, "Ended", "Finalized")
    BY <1>7, <2>1, OneAfterAnother
  <2> QED BY <2>2, <2>3
<1>11. /\ ~Has(early'[c], "Finalized") /\ Once(early'[c], "Finalized")
       /\ Led(early'[c], "Ended", "Finalized")
  BY <1>2, ShortLists
<1>12. \A u \in Threads : Due(c, u, "Finalized")' => u = t /\ Has(early[c], "Finalized")
  BY <1>4, <1>6, <1>9 DEF Last
<1>13. OnWay(c) => OnWay(c)'
  <2>1. \A u \in Threads : Due(c, u, "Ended") => Due(c, u, "Ended")'
    BY <1>4, <1>8 DEF Due, Alike, Last
  <2> QED BY <1>4, <1>8, <2>1 DEF OnWay
<1>14. GhostOf(c)'
  BY <1>5, <1>13 DEF GhostOf
<1>15. OneFin(c)'
  <2>1. \A u \in Threads : u # t /\ pc'[u].c = c => Once(pc'[u].todo, "Finalized")
    BY <1>4, <1>5 DEF OneFin
  <2> QED BY <1>4, <1>5, <1>10, <1>11, <1>12, <2>1 DEF OneFin
<1>16. GoneFin(c)'
  BY <1>5, <1>11, <1>12 DEF GoneFin
<1>17. LedFin(c)'
  <2>1. Has(queue, Fin(c)) /\ ~Led(queue, End(c), Fin(c)) => Due(c, t, "Ended")'
    BY <1>4, <1>5, <1>8 DEF LedFin
  <2>2. \A u \in Threads : Due(c, u, "Finalized")' => Led(pc'[u].todo, "Ended", "Finalized")
    BY <1>4, <1>10, <1>12
  <2> QED BY <1>11, <2>1, <2>2 DEF LedFin
<1> QED BY <1>14, <1>15, <1>16, <1>17 DEF LastOf

\* An incoming call enters, waits, or is refused.
LEMMA IncomingLast ==
  ASSUME IInv, NoNewcomer, LastInv, NEW t \in Threads, HandleIncoming(t)
  PROVE  LastInv'
<1>1. Typed /\ Shaped
  BY DEF IInv
<1>2. Dispatches(t, {"Incoming", "Waiting"}) /\ UNCHANGED <<gateway, med, seen, timers, history, bounds>>
  BY DEF HandleIncoming
<1>3. PICK c \in Calls : c = pc[t].c
  BY <1>1, <1>2, AtEvent
<1>4. {"Incoming", "Waiting"} \cap Last = {}
  BY DEF Last
<1>5. CASE Ignored(t) /\ UNCHANGED <<call, slots, early>>
  <2>1. Calmly
    BY <1>1, <1>2, <1>4, <1>5, EventIgnored DEF inbox
  <2> QED BY <2>1, CalmLast
<1>6. CASE Handled(t, <<"refuse", "busy">>, None, None) /\ UNCHANGED <<call, slots, early>>
  <2>1. Calmly
    <3>1. <<"refuse", "busy">> \in Seq(Plain) /\ None \in OrNone(Sessions)
      BY PlainOnes DEF OrNone
    <3> QED BY <1>1, <1>2, <1>4, <1>6, <3>1, CalmlyHandled DEF inbox
  <2> QED BY <2>1, CalmLast
<1>7. ASSUME ~call[c].reg, NEW status, NEW steps, Registers(t, c, status, steps)
      PROVE  LastInv'
  <2> DEFINE rest == Tail(pc[t].todo)
             p == [pc[t] EXCEPT !.todo = early[c] \o rest,
                                !.go = (IF AlreadyEnded(c) THEN <<>> ELSE steps) \o @]
  <2>1. /\ pc[t].todo \in Seq(Kinds \cup {"Incoming"}) /\ pc[t].todo # <<>> /\ pc[t] \in Locals
        /\ Head(pc[t].todo) \in {"Incoming", "Waiting"}
    BY <1>1, <1>2, AtEvent DEF Dispatches
  <2>2. early[c] \in Seq(Kinds \cup {"Incoming"}) /\ rest \in Seq(Kinds \cup {"Incoming"})
    <3>1. early[c] \in Seq(Kinds)
      BY <1>1 DEF Typed
    <3>2. early[c] \in Seq(Kinds \cup {"Incoming"})
      BY <3>1
    <3>3. rest \in Seq(Kinds \cup {"Incoming"})
      BY <2>1
    <3> QED BY <3>2, <3>3
  <2>3. Becomes(t, p) /\ early' = [early EXCEPT ![c] = <<>>]
    BY <1>7 DEF Registers
  <2>4. p.c = c /\ p.todo = early[c] \o rest
    BY <1>3, <2>1 DEF Locals
  <2>5. Alike(pc[t].todo, rest, "Ended", "Finalized")
    BY <2>1, OneEventLess
  <2>6. MayCome(c)
    <3>1. 1 \in DOMAIN pc[t].todo /\ pc[t].todo[1] = Head(pc[t].todo)
      BY <2>1
    <3> QED BY <1>3, <2>1, <3>1 DEF MayCome, Unannounced, Announces
  <2>7. PICK a \in BOOLEAN : a = (call[c] # NoCall)
    BY Zenon
  <2>8. NewCall(c, "in", status) = [NoCall EXCEPT !.reg = TRUE, !.dir = "in", !.status = status, !.again = a]
    BY <2>7, Zenon DEF NewCall
  <2>9. call' = [call EXCEPT ![c] = NewCall(c, "in", status)] /\ call \in [Calls -> CallRecords]
    BY <1>1, <1>7 DEF Registers, Typed
  <2>10. /\ call'[c].reg /\ call'[c].dir # None /\ (~call'[c].again => call[c].dir = None)
         /\ \A d \in Calls : d # c => call'[d] = call[d]
    <3>1. NoCall.dir = None
      BY DEF NoCall
    <3>2. call'[c] = [NoCall EXCEPT !.reg = TRUE, !.dir = "in", !.status = status, !.again = a]
      BY <2>8, <2>9
    <3>3. call'[c].reg /\ call'[c].dir = "in" /\ call'[c].again = a
      BY <3>2 DEF NoCall
    <3>4. "in" # None
      BY PhoneAssumption DEF PhoneAssumption
    <3> QED BY <2>7, <2>9, <3>1, <3>3, <3>4
  <2> HIDE DEF p, rest
  <2> QED BY <1>2, <1>3, <1>7, <2>2, <2>3, <2>4, <2>5, <2>6, <2>10, EnterLast DEF gateway
<1> QED BY <1>3, <1>5, <1>6, <1>7 DEF HandleIncoming

\* BeginCall has returned: the call enters, or the events put aside for it are of no use.
LEMMA DialedLast ==
  ASSUME IInv, NoNewcomer, LastInv, NEW t \in Threads, Dialed(t)
  PROVE  LastInv'
<1>1. Typed /\ Shaped /\ SlotInv /\ FreshInv /\ At(t, "dialed")
  BY DEF IInv, Dialed
<1>2. PICK c \in Calls : c = pc[t].c
  BY <1>1, DialAt
<1> DEFINE m == pc[t].m
<1>3. /\ UNCHANGED <<net, queue, unheard, rings>> /\ early' = [early EXCEPT ![c] = <<>>]
      /\ early \in [Calls -> Seq(Kinds)] /\ call \in [Calls -> CallRecords]
      /\ pc[t].todo = <<>> /\ pc[t] \in Locals
  BY <1>1, <1>2, DialAt DEF Dialed, gateway, Typed
<1>4. MayCome(c) /\ Unannounced(c) /\ ~call[c].reg
  BY <1>1, <1>2 DEF MayCome, FreshInv
<1>5. CASE /\ call' = [call EXCEPT ![c] = [NewCall(c, "out", "calling") EXCEPT !.media = m, !.lease = m]]
           /\ Becomes(t, [pc[t] EXCEPT !.go = Resume(m) \o <<"snap", "write">> \o Tail(@), !.todo = early[c]])
  <2> DEFINE p == [pc[t] EXCEPT !.go = Resume(m) \o <<"snap", "write">> \o Tail(@), !.todo = early[c]]
  <2>1. Becomes(t, p) /\ p.c = c /\ p.todo = early[c]
    BY <1>2, <1>3, <1>5 DEF Locals
  <2> HIDE DEF p
  <2>2. early[c] \in Seq(Kinds) /\ <<>> \in Seq(Kinds) /\ early[c] = early[c] \o <<>>
    BY <1>3
  <2>3. Alike(pc[t].todo, <<>>, "Ended", "Finalized")
    BY <1>3 DEF Alike
  <2>4. PICK a \in BOOLEAN : a = (call[c] # NoCall)
    BY Zenon
  <2>5. NewCall(c, "out", "calling") = [NoCall EXCEPT !.reg = TRUE, !.dir = "out", !.status = "calling", !.again = a]
    BY <2>4, Zenon DEF NewCall
  <2>6. /\ call'[c].reg /\ call'[c].dir # None /\ (~call'[c].again => call[c].dir = None)
        /\ \A d \in Calls : d # c => call'[d] = call[d]
    <3>1. NoCall.dir = None
      BY DEF NoCall
    <3>2. call'[c] = [[NoCall EXCEPT !.reg = TRUE, !.dir = "out", !.status = "calling", !.again = a]
                        EXCEPT !.media = m, !.lease = m]
      BY <1>3, <1>5, <2>5
    <3>3. call'[c].reg /\ call'[c].dir = "out" /\ call'[c].again = a
      BY <3>2 DEF NoCall
    <3>4. "out" # None
      BY PhoneAssumption DEF PhoneAssumption
    <3> QED BY <1>3, <1>5, <2>4, <3>1, <3>3, <3>4
  <2>7. p.todo = early[c] \o <<>>
    BY <2>1, <2>2, Zenon
  <2> QED BY <1>2, <1>3, <1>4, <2>1, <2>2, <2>3, <2>6, <2>7, EnterLast
<1>6. CASE UNCHANGED call /\ Goto(t, <<"undo", "drop", "leave">>)
  <2> DEFINE p == [pc[t] EXCEPT !.go = <<"undo", "drop", "leave">>]
  <2>1. Becomes(t, p) /\ p.c = c /\ p.todo = <<>> /\ p.go = <<"undo", "drop", "leave">>
    BY <1>2, <1>3, <1>6 DEF Locals, Goto
  <2> HIDE DEF p
  <2>2. /\ pc'[t].todo = <<>> /\ \A u \in Threads : u # t => pc'[u] = pc[u]
        /\ \A k : Due(c, t, k)' <=> Has(<<>>, k)
        /\ \A u \in Threads, k \in Last : u # t => (Due(c, u, k)' <=> Due(c, u, k))
    BY <1>1, <2>1, DueAfter
  <2>3. early'[c] = <<>> /\ \A d \in Calls : d # c => early'[d] = early[d]
    BY <1>3
  <2>4. ASSUME NEW d \in Calls, d # c
        PROVE  LastOf(d)'
    <3>1. NewsOf(d)
      BY <1>3, NoNews
    <3> QED BY <1>2, <1>6, <2>1, <2>3, <2>4, <3>1, OthersLast
  <2>5. ~MayCome(c)'
    <3>1. Unannounced(c)'
      BY <1>3, <1>4, <2>2, <2>3 DEF Unannounced
    <3>2. pc'[t].go = <<"undo", "drop", "leave">>
      BY <1>1, <2>1 DEF Becomes, Shaped
    <3>3. ~At(t, "dialed")'
      BY <3>2 DEF At
    <3>4. ASSUME NEW u \in Threads, u # t
          PROVE  ~At(u, "dialed")'
      <4>1. ~At(u, "dialed")
        BY <1>1, <3>4 DEF SlotInv, Reserving
      <4> QED BY <2>2, <3>4, <4>1 DEF At
    <3> QED BY <3>1, <3>3, <3>4 DEF MayCome
  <2> SUFFICES ASSUME c \notin unheard
               PROVE  LastOf(c)'
    BY <1>3, <2>4 DEF LastInv, LastOf
  <2>6. GhostOf(c) /\ OneFin(c) /\ GoneFin(c) /\ LedFin(c)
    BY DEF LastInv, LastOf
  <2>7. /\ ~Has(early'[c], "Finalized") /\ Once(early'[c], "Finalized") /\ ~Has(<<>>, "Finalized")
        /\ Led(early'[c], "Ended", "Finalized") /\ Once(pc'[t].todo, "Finalized")
    BY <2>2, <2>3, ShortLists
  <2>8. \A u \in Threads : ~Due(c, u, "Finalized")'
    BY <1>4, <2>2, <2>6, <2>7 DEF OneFin, Last
  <2>9. ~call'[c].reg /\ ~Live(c)' /\ call'[c] = call[c]
    BY <1>4, <1>6 DEF Live
  <2>10. GhostOf(c)'
    BY <2>5, <2>9 DEF GhostOf
  <2>11. OneFin(c)'
    <3>1. \A u \in Threads : u # t /\ pc'[u].c = c => Once(pc'[u].todo, "Finalized")
      BY <2>2, <2>6 DEF OneFin
    <3> QED BY <1>3, <2>6, <2>7, <2>8, <3>1 DEF OneFin
  <2>12. GoneFin(c)'
    BY <1>3, <2>6, <2>7, <2>8, <2>9 DEF GoneFin
  <2>13. LedFin(c)'
    BY <2>5, <2>7, <2>9 DEF LedFin
  <2> QED BY <2>10, <2>11, <2>12, <2>13 DEF LastOf
<1> QED BY <1>2, <1>5, <1>6 DEF Dialed

\* The end of a call, put aside.
LEMMA EndAside ==
  ASSUME NEW S, NEW s \in Seq(S), NEW r, r = Append(s, "Ended")
  PROVE  /\ Has(r, "Ended") /\ (Has(r, "Finalized") <=> Has(s, "Finalized"))
         /\ Once(s, "Finalized") => Once(r, "Finalized")
         /\ Led(s, "Ended", "Finalized") => Led(r, "Ended", "Finalized")
<1> DEFINE x == "Ended"
           y == "Finalized"
<1>1. x # y
  OBVIOUS
<1> HIDE DEF x, y
<1>2. Has(Append(s, x), x) /\ (Has(Append(s, x), y) <=> Has(s, y))
  BY <1>1, WithOneMore
<1>3. Once(s, y) => Once(Append(s, x), y)
  BY <1>1, WithOneMore
<1>4. Led(s, x, y) => Led(Append(s, x), x, y)
  BY <1>1, WithOneMore
<1> QED BY <1>2, <1>3, <1>4 DEF x, y

\* That it has been finalized, put aside after its end.
LEMMA FinAside ==
  ASSUME NEW S, NEW s \in Seq(S), NEW r, r = Append(s, "Finalized")
  PROVE  /\ Has(r, "Ended") <=> Has(s, "Ended")
         /\ ~Has(s, "Finalized") => Once(r, "Finalized")
         /\ Led(s, "Ended", "Finalized") /\ Has(s, "Ended") => Led(r, "Ended", "Finalized")
<1> DEFINE x == "Ended"
           y == "Finalized"
<1>1. x # y
  OBVIOUS
<1> HIDE DEF x, y
<1>2. Has(Append(s, y), x) <=> Has(s, x)
  BY <1>1, WithOneMore
<1>3. ~Has(s, y) => Once(s, y)
  BY ShortLists, Zenon
<1>4. ~Has(s, y) => Once(Append(s, y), y)
  BY <1>3, WithOneMore
<1>5. Led(s, x, y) /\ Has(s, x) => Led(Append(s, y), x, y)
  BY <1>1, WithOneMore
<1> QED BY <1>2, <1>4, <1>5 DEF x, y

\* An Ended event of a call: put aside, of no interest, or the end of the call begins.
LEMMA FinishLast ==
  ASSUME IInv, NoNewcomer, LastInv, NEW t \in Threads, FinishCall(t)
  PROVE  LastInv'
<1>1. Typed /\ Shaped
  BY DEF IInv
<1>2. Dispatches(t, {"Ended"}) /\ UNCHANGED <<net, queue, unheard>>
  BY Zenon DEF FinishCall, gateway
<1>3. PICK c \in Calls : c = pc[t].c
  BY <1>1, <1>2, AtEvent
<1>4. pc[t] \in Locals /\ pc[t].todo \in Seq(Kinds \cup {"Incoming"}) /\ pc[t].todo # <<>>
  BY <1>1, <1>2, AtEvent
<1>5. call \in [Calls -> CallRecords] /\ early \in [Calls -> Seq(Kinds)]
  BY <1>1 DEF Typed
<1>6. PICK p : Becomes(t, p) /\ p.c = c /\ p.todo = Tail(pc[t].todo)
  <2>1. PICK steps, media : Handled(t, steps, None, media)
    BY Zenon DEF FinishCall, Ignored
  <2> DEFINE p == [pc[t] EXCEPT !.todo = Tail(@), !.go = steps \o @, !.row = None, !.m = media]
  <2>2. Becomes(t, p)
    BY <2>1 DEF Handled
  <2>3. p.c = c /\ p.todo = Tail(pc[t].todo)
    BY <1>3, <1>4 DEF Locals
  <2> HIDE DEF p
  <2> QED BY <2>2, <2>3
<1>7. /\ \A u \in Threads : u # t => pc'[u] = pc[u]
      /\ pc'[t].todo = Tail(pc[t].todo)
      /\ \A u \in Threads : u # t => (Due(c, u, "Finalized")' <=> Due(c, u, "Finalized"))
      /\ Due(c, t, "Finalized")' <=> Has(Tail(pc[t].todo), "Finalized")
  BY <1>1, <1>6, DueAfter DEF Last
<1>8. /\ Has(Tail(pc[t].todo), "Finalized") => Has(pc[t].todo, "Finalized")
      /\ Once(pc[t].todo, "Finalized") => Once(Tail(pc[t].todo), "Finalized")
  BY <1>4, WithoutHead
<1>11. \A d \in Calls : NewsOf(d)
  BY <1>2, NoNews
<1>17. ASSUME NEW d \in Calls, d # c
       PROVE  LastOf(d)'
  <2>1. early'[d] = early[d] /\ call'[d] = call[d]
    BY <1>3, <1>5, <1>17 DEF FinishCall, inbox
  <2> QED BY <1>3, <1>6, <1>11, <1>17, <2>1, OthersLast
<1> SUFFICES ASSUME c \notin unheard
             PROVE  LastOf(c)'
  BY <1>2, <1>17 DEF LastInv, LastOf
<1>9. GhostOf(c) /\ OneFin(c) /\ GoneFin(c) /\ LedFin(c)
  BY DEF LastInv, LastOf
<1>10. /\ \A u \in Threads : Due(c, u, "Finalized")' => Due(c, u, "Finalized")
       /\ \A u \in Threads : pc'[u].c = c => Once(pc'[u].todo, "Finalized")
  <2>1. Due(c, t, "Finalized")' => Due(c, t, "Finalized")
    BY <1>3, <1>7, <1>8 DEF Due
  <2>2. Once(pc'[t].todo, "Finalized")
    BY <1>3, <1>7, <1>8, <1>9 DEF OneFin
  <2> QED BY <1>7, <1>9, <2>1, <2>2 DEF OneFin
<1>12. MayCome(c)' => MayCome(c) \/ net[c] # "gone"
  BY <1>2 DEF NoNewcomer
<1>13. CASE ~call[c].reg /\ early' = [early EXCEPT ![c] = Append(@, "Ended")] /\ UNCHANGED call
  <2>1. early'[c] = Append(early[c], "Ended")
    BY <1>5, <1>13
  <2>3. \A u \in Threads : ~Due(c, u, "Finalized")'
    BY <1>9, <1>10, <1>13 DEF OneFin
  <2>4. early[c] \in Seq(Kinds)
    BY <1>5
  <2>5. /\ Has(early'[c], "Ended") /\ (Has(early'[c], "Finalized") <=> Has(early[c], "Finalized"))
        /\ Once(early[c], "Finalized") => Once(early'[c], "Finalized")
        /\ Led(early[c], "Ended", "Finalized") => Led(early'[c], "Ended", "Finalized")
    BY <2>1, <2>4, EndAside
  <2>6. ~Live(c)' /\ call'[c] = call[c]
    BY <1>13 DEF Live
  <2>7. GhostOf(c)'
    <3>1. OnWay(c)'
      BY <2>5 DEF OnWay
    <3> QED BY <1>9, <2>6, <3>1 DEF GhostOf
  <2>8. OneFin(c)'
    BY <1>2, <1>9, <1>10, <1>13, <2>3, <2>5, <2>6 DEF OneFin
  <2>9. GoneFin(c)'
    BY <1>2, <1>9, <2>3, <2>5, <2>6 DEF GoneFin
  <2>10. LedFin(c)'
    <3>1. MayCome(c)' => Led(early'[c], "Ended", "Finalized")
      <4>1. CASE Has(early[c], "Finalized")
        BY <1>9, <1>12, <2>5, <4>1 DEF GoneFin, LedFin
      <4>2. CASE ~Has(early[c], "Finalized")
        BY <2>5, <4>2, ShortLists
      <4> QED BY <4>1, <4>2
    <3> QED BY <2>5, <2>6, <3>1 DEF LedFin
  <2> QED BY <2>7, <2>8, <2>9, <2>10 DEF LastOf
<1>14. ASSUME call[c].reg, UNCHANGED early, call'[c].reg, call'[c].dir = call[c].dir, ~Live(c)'
       PROVE  LastOf(c)'
  <2>2. call[c].dir # None /\ ~Has(early[c], "Finalized")
    BY <1>9, <1>14 DEF GhostOf, OneFin
  <2>3. GhostOf(c)'
    BY <1>14, <2>2 DEF GhostOf
  <2>4. OneFin(c)'
    BY <1>2, <1>9, <1>10, <1>14 DEF OneFin
  <2>5. GoneFin(c)'
    BY <1>2, <1>9, <1>10, <1>14 DEF GoneFin
  <2>6. LedFin(c)'
    <3>1. Led(early[c], "Ended", "Finalized")
      BY <2>2, ShortLists
    <3> QED BY <1>14, <3>1 DEF LedFin
  <2> QED BY <2>3, <2>4, <2>5, <2>6 DEF LastOf
<1>15. CASE call[c].reg /\ ~Live(c) /\ UNCHANGED <<call, inbox>>
  BY <1>14, <1>15 DEF inbox, Live
<1>16. CASE /\ Live(c) /\ UNCHANGED early
            /\ call' = [call EXCEPT ![c].status = "over", ![c].armed = FALSE, ![c].atimer = FALSE]
  <2> DEFINE r == [call[c] EXCEPT !.status = "over", !.armed = FALSE, !.atimer = FALSE]
  <2>1. r.reg = call[c].reg /\ r.dir = call[c].dir /\ r.status = "over"
    BY <1>5 DEF CallRecords
  <2>2. call' = [call EXCEPT ![c] = r]
    BY <1>16
  <2> HIDE DEF r
  <2>3. call'[c] = r
    BY <1>5, <2>2
  <2>4. call[c].reg /\ ~Live(c)'
    BY <1>16, <2>1, <2>3 DEF Live, Active
  <2> QED BY <1>14, <1>16, <2>1, <2>3, <2>4
<1> QED BY <1>3, <1>13, <1>15, <1>16, Zenon DEF FinishCall

\* finalizeRecording forgets the call: it was announced as finalized here, and nowhere else.
LEMMA FinalizeLast ==
  ASSUME IInv, NoNewcomer, LastInv, NEW t \in Threads, FinalizeRecording(t)
  PROVE  LastInv'
<1>1. Typed /\ Shaped
  BY DEF IInv
<1>2. Dispatches(t, {"Finalized"}) /\ UNCHANGED <<net, queue, unheard, early>>
  BY DEF FinalizeRecording, gateway, inbox
<1>3. PICK c \in Calls : c = pc[t].c
  BY <1>1, <1>2, AtEvent
<1>4. /\ pc[t] \in Locals /\ pc[t].todo \in Seq(Kinds \cup {"Incoming"}) /\ pc[t].todo # <<>>
      /\ Head(pc[t].todo) = "Finalized"
  BY <1>1, <1>2, AtEvent DEF Dispatches
<1>23. ASSUME NEW d \in Calls, d # c
       PROVE  LastOf(d)'
  <2>1. PICK q : Becomes(t, q) /\ q.c = c
    <3>1. PICK steps, row, media : Handled(t, steps, row, media)
      BY Zenon DEF FinalizeRecording, Ignored
    <3> DEFINE q == [pc[t] EXCEPT !.todo = Tail(@), !.go = steps \o @, !.row = row, !.m = media]
    <3>2. Becomes(t, q) /\ q.c = c
      BY <1>3, <1>4, <3>1 DEF Handled, Locals
    <3> QED BY <3>2
  <2>2. call'[d] = call[d] /\ early'[d] = early[d]
    BY <1>1, <1>2, <1>3, <1>23 DEF FinalizeRecording, Typed
  <2> QED BY <1>2, <1>3, <1>23, <2>1, <2>2, NoNews, OthersLast
<1> SUFFICES ASSUME c \notin unheard
             PROVE  LastOf(c)'
  BY <1>2, <1>23 DEF LastInv, LastOf
<1>5. GhostOf(c) /\ OneFin(c) /\ GoneFin(c) /\ LedFin(c)
  BY DEF LastInv, LastOf
<1>6. /\ Has(pc[t].todo, "Finalized")
      /\ Once(pc[t].todo, "Finalized") => Once(Tail(pc[t].todo), "Finalized")
                                          /\ ~Has(Tail(pc[t].todo), "Finalized")
  BY <1>4, WithoutHead
<1>7. Due(c, t, "Finalized")
  BY <1>3, <1>6 DEF Due
<1>8. call[c].reg /\ net[c] = "gone" /\ call[c].dir # None
  BY <1>5, <1>7 DEF OneFin, GoneFin, GhostOf
<1>9. /\ call' = [call EXCEPT ![c].reg = FALSE, ![c].lease = None, ![c].dtimer = None, ![c].pending = FALSE]
      /\ Handled(t, <<"write">>, "over", None)
  BY <1>3, <1>8 DEF FinalizeRecording
<1>10. call \in [Calls -> CallRecords]
  BY <1>1 DEF Typed
<1>11. ~call'[c].reg /\ call'[c].dir = call[c].dir /\ ~Live(c)'
  <2> DEFINE r == [call[c] EXCEPT !.reg = FALSE, !.lease = None, !.dtimer = None, !.pending = FALSE]
  <2>1. ~r.reg /\ r.dir = call[c].dir
    BY <1>10 DEF CallRecords
  <2>2. call' = [call EXCEPT ![c] = r]
    BY <1>9
  <2> HIDE DEF r
  <2> QED BY <1>10, <2>1, <2>2 DEF Live
<1> DEFINE p == [pc[t] EXCEPT !.todo = Tail(@), !.go = <<"write">> \o @, !.row = "over", !.m = None]
<1>12. Becomes(t, p)
  BY <1>9 DEF Handled
<1>13. p.c = c /\ p.todo = Tail(pc[t].todo)
  BY <1>3, <1>4 DEF Locals
<1> HIDE DEF p
<1>14. /\ \A u \in Threads : u # t => pc'[u] = pc[u]
       /\ pc'[t].todo = Tail(pc[t].todo)
       /\ \A u \in Threads : u # t => (Due(c, u, "Finalized")' <=> Due(c, u, "Finalized"))
       /\ Due(c, t, "Finalized")' <=> Has(Tail(pc[t].todo), "Finalized")
  BY <1>1, <1>12, <1>13, DueAfter DEF Last
<1>15. Once(pc[t].todo, "Finalized")
  BY <1>3, <1>5 DEF OneFin
<1>16. /\ \A u \in Threads : ~Due(c, u, "Finalized")'
       /\ \A u \in Threads : pc'[u].c = c => Once(pc'[u].todo, "Finalized")
  <2>1. \A u \in Threads : u # t => ~Due(c, u, "Finalized")
    BY <1>5, <1>7 DEF OneFin
  <2> QED BY <1>5, <1>6, <1>14, <1>15, <2>1 DEF OneFin
<1>17. ~Has(queue, Fin(c)) /\ ~Has(early[c], "Finalized")
  BY <1>5, <1>7, <1>8 DEF OneFin
<1>18. GhostOf(c)'
  BY <1>8, <1>11 DEF GhostOf
<1>19. OneFin(c)'
  BY <1>2, <1>5, <1>11, <1>16, <1>17 DEF OneFin
<1>20. GoneFin(c)'
  BY <1>2, <1>8, <1>11, <1>16, <1>17 DEF GoneFin
<1>21. LedFin(c)'
  <2>1. Led(early[c], "Ended", "Finalized")
    BY <1>17, ShortLists
  <2> QED BY <1>2, <1>11, <1>17, <2>1 DEF LedFin
<1> QED BY <1>18, <1>19, <1>20, <1>21 DEF LastOf

\* The events of the end of a call leave the gateway in their order.
LEMMA NextEvent ==
  ASSUME Typed, queue # <<>>, NEW k, NEW c, Head(queue) = Event(k, c), queue' = Tail(queue), UNCHANGED <<net, unheard>>
  PROVE  /\ \A d \in Calls : d # c => NewsOf(d)
         /\ k \notin Last => NewsOf(c)
         /\ Has(queue, End(c)) <=> k = "Ended" \/ Has(queue', End(c))
         /\ Has(queue, Fin(c)) <=> k = "Finalized" \/ Has(queue', Fin(c))
         /\ Once(queue, Fin(c)) => Once(queue', Fin(c)) /\ ~(k = "Finalized" /\ Has(queue', Fin(c)))
         /\ Led(queue, End(c), Fin(c)) => k # "Finalized" /\ (k # "Ended" => Led(queue', End(c), Fin(c)))
<1>1. queue \in Seq([kind : Kinds, call : Calls])
  BY DEF Typed
<1>2. /\ \A d : Head(queue) = End(d) <=> k = "Ended" /\ d = c
      /\ \A d : Head(queue) = Fin(d) <=> k = "Finalized" /\ d = c
  BY Events
<1>3. ASSUME NEW d, Head(queue) # End(d)
      PROVE  NewsOf(d)
  <2>1. Alike(queue, queue', End(d), Fin(d))
    BY <1>1, <1>3, OneEventLess
  <2> QED BY <2>1 DEF NewsOf
<1>4. \A d \in Calls : d # c => NewsOf(d)
  BY <1>2, <1>3
<1>5. k \notin Last => NewsOf(c)
  BY <1>2, <1>3 DEF Last
<1>6. \A z : Has(queue, z) <=> Head(queue) = z \/ Has(queue', z)
  BY <1>1, WithoutHead
<1>7. \A z : Once(queue, z) => Once(queue', z) /\ ~(Head(queue) = z /\ Has(queue', z))
  BY <1>1, WithoutHead
<1>8. \A x, y : Led(queue, x, y) => Head(queue) # y /\ (Head(queue) # x => Led(queue', x, y))
  BY <1>1, WithoutHead
<1> QED BY <1>2, <1>4, <1>5, <1>6, <1>7, <1>8

\* An event of a call that is not known here is put aside.
LEMMA AsideLast ==
  ASSUME IInv, NoNewcomer, LastInv, NEW k, NEW c \in Calls, queue # <<>>, Head(queue) = Event(k, c),
         queue' = Tail(queue), UNCHANGED <<net, unheard, call, pc>>, ~call[c].reg,
         early' = [early EXCEPT ![c] = Append(@, k)]
  PROVE  LastInv'
<1>1. Typed /\ early \in [Calls -> Seq(Kinds)]
  BY DEF IInv, Typed
<1>2. /\ \A d \in Calls : d # c => NewsOf(d)
      /\ Has(queue, End(c)) <=> k = "Ended" \/ Has(queue', End(c))
      /\ Has(queue, Fin(c)) <=> k = "Finalized" \/ Has(queue', Fin(c))
      /\ Once(queue, Fin(c)) => Once(queue', Fin(c)) /\ ~(k = "Finalized" /\ Has(queue', Fin(c)))
      /\ Led(queue, End(c), Fin(c)) => k # "Finalized" /\ (k # "Ended" => Led(queue', End(c), Fin(c)))
  BY <1>1, NextEvent
<1>3. early'[c] = Append(early[c], k) /\ early[c] \in Seq(Kinds) /\ \A d \in Calls : d # c => early'[d] = early[d]
  BY <1>1
<1>4. ASSUME NEW d \in Calls, d # c
      PROVE  LastOf(d)'
  <2>1. LastOf(d) /\ NewsOf(d) /\ \A u \in Threads : Told(pc[u], pc'[u])
    BY <1>2, <1>4 DEF LastInv, Told
  <2>2. call'[d] = call[d] /\ (Live(d)' <=> Live(d))
    BY DEF Live
  <2> QED BY <1>3, <1>4, <2>1, <2>2, UnmovedKeeps
<1>5. \A u \in Threads, j \in Last : Due(c, u, j)' <=> Due(c, u, j)
  BY DEF Due
<1> SUFFICES ASSUME c \notin unheard
             PROVE  LastOf(c)'
  BY <1>4 DEF LastInv, LastOf
<1>6. GhostOf(c) /\ OneFin(c) /\ GoneFin(c) /\ LedFin(c)
  BY DEF LastInv, LastOf
<1>7. call'[c] = call[c] /\ ~Live(c)' /\ \A u \in Threads : ~Due(c, u, "Finalized")'
  BY <1>5, <1>6 DEF Live, OneFin, Last
<1>8. MayCome(c)' => MayCome(c) \/ net[c] # "gone"
  BY DEF NoNewcomer
<1>9. /\ Has(early'[c], "Ended") <=> k = "Ended" \/ Has(early[c], "Ended")
      /\ Has(early'[c], "Finalized") <=> k = "Finalized" \/ Has(early[c], "Finalized")
  <2>1. \A s \in Seq(Kinds) : \A x : Has(Append(s, k), x) <=> Has(s, x) \/ k = x
    BY WithOneMore
  <2> QED BY <1>3, <2>1
<1>10. ASSUME k \notin Last
       PROVE  Alike(early[c], early'[c], "Ended", "Finalized")
  BY <1>3, <1>10, OneEventMore DEF Last
<1>11. GhostOf(c)'
  <2>1. OnWay(c) => OnWay(c)'
    BY <1>2, <1>5, <1>9 DEF OnWay, Last
  <2> QED BY <1>6, <1>7, <1>8, <2>1 DEF GhostOf
<1>12. OneFin(c)'
  <2>1. Once(early'[c], "Finalized")
    <3>1. CASE k = "Ended"
      BY <1>3, <1>6, <3>1, EndAside DEF OneFin
    <3>2. CASE k = "Finalized"
      <4>1. ~Has(early[c], "Finalized")
        BY <1>2, <1>6, <3>2 DEF OneFin
      <4> QED BY <1>3, <3>2, <4>1, FinAside
    <3>3. CASE k \notin Last
      BY <1>6, <1>10, <3>3 DEF Alike, OneFin
    <3> QED BY <3>1, <3>2, <3>3 DEF Last
  <2>2. Has(queue', Fin(c)) => ~Has(early'[c], "Finalized")
    BY <1>2, <1>6, <1>9 DEF OneFin
  <2> QED BY <1>2, <1>6, <1>7, <2>1, <2>2 DEF OneFin
<1>13. GoneFin(c)'
  BY <1>2, <1>6, <1>7, <1>9 DEF GoneFin
<1>14. LedFin(c)'
  <2>1. ASSUME Has(queue', Fin(c)), ~Led(queue', End(c), Fin(c)), MayCome(c)'
        PROVE  Has(early'[c], "Ended")
    <3>1. Has(queue, Fin(c)) /\ net[c] = "gone"
      BY <1>2, <1>6, <2>1 DEF GoneFin
    <3> QED BY <1>2, <1>6, <1>8, <1>9, <2>1, <3>1 DEF LedFin
  <2>2. ASSUME MayCome(c)', Has(early'[c], "Finalized")
        PROVE  Led(early'[c], "Ended", "Finalized")
    <3>1. net[c] = "gone"
      BY <1>2, <1>6, <1>9, <2>2 DEF GoneFin
    <3>2. MayCome(c) /\ Led(early[c], "Ended", "Finalized")
      BY <1>6, <1>8, <2>2, <3>1 DEF LedFin
    <3>3. CASE k = "Ended"
      BY <1>3, <3>2, <3>3, EndAside
    <3>4. CASE k = "Finalized"
      <4>1. Has(queue, Fin(c)) /\ ~Led(queue, End(c), Fin(c))
        BY <1>2, <3>4
      <4>2. Has(early[c], "Ended")
        BY <1>6, <3>2, <4>1 DEF LedFin
      <4> QED BY <1>3, <3>2, <3>4, <4>2, FinAside
    <3>5. CASE k \notin Last
      BY <1>10, <3>2, <3>5 DEF Alike
    <3> QED BY <3>3, <3>4, <3>5 DEF Last
  <2>3. MayCome(c)' => Led(early'[c], "Ended", "Finalized")
    <3>1. CASE ~Has(early'[c], "Finalized")
      BY <3>1, ShortLists
    <3> QED BY <2>2, <3>1
  <2> QED BY <1>7, <2>1, <2>3 DEF LedFin
<1> QED BY <1>11, <1>12, <1>13, <1>14 DEF LastOf

\* The end of a call that is known here, or that it has been finalized, reaches the goroutine
\* of the events.
LEMMA ReachedLast ==
  ASSUME IInv, NoNewcomer, LastInv, NEW k \in Last, NEW c \in Calls, queue # <<>>, Head(queue) = Event(k, c),
         queue' = Tail(queue), UNCHANGED <<net, unheard, call, early>>, call[c].reg, "ev" \in Threads,
         pc["ev"].c = None, pc'["ev"].c = c, pc'["ev"].todo = <<k>>,
         \A u \in Threads : u # "ev" => pc'[u] = pc[u]
  PROVE  LastInv'
<1>1. Typed
  BY DEF IInv
<1>2. /\ \A d \in Calls : d # c => NewsOf(d)
      /\ Has(queue, End(c)) <=> k = "Ended" \/ Has(queue', End(c))
      /\ Has(queue, Fin(c)) <=> k = "Finalized" \/ Has(queue', Fin(c))
      /\ Once(queue, Fin(c)) => Once(queue', Fin(c)) /\ ~(k = "Finalized" /\ Has(queue', Fin(c)))
      /\ Led(queue, End(c), Fin(c)) => k # "Finalized" /\ (k # "Ended" => Led(queue', End(c), Fin(c)))
  BY <1>1, NextEvent
<1>3. \A d \in Calls : d # None
  BY PhoneAssumption DEF PhoneAssumption
<1>4. ASSUME NEW d \in Calls, d # c
      PROVE  LastOf(d)'
  <2>1. LastOf(d) /\ NewsOf(d)
    BY <1>2, <1>4 DEF LastInv
  <2>2. \A u \in Threads : Told(pc[u], pc'[u]) \/ (pc[u].c # d /\ pc'[u].c # d)
    BY <1>3, <1>4 DEF Told
  <2>3. call'[d] = call[d] /\ early'[d] = early[d] /\ (Live(d)' <=> Live(d))
    BY DEF Live
  <2> QED BY <1>4, <2>1, <2>2, <2>3, UnmovedKeeps
<1>5. /\ \A j : ~Due(c, "ev", j)
      /\ \A j : Due(c, "ev", j)' <=> j = k
      /\ \A u \in Threads, j \in Last : u # "ev" => (Due(c, u, j)' <=> Due(c, u, j))
  <2>1. \A j : Has(<<k>>, j) <=> j = k
    BY DEF Has
  <2> QED BY <1>3, <2>1 DEF Due
<1> SUFFICES ASSUME c \notin unheard
             PROVE  LastOf(c)'
  BY <1>4 DEF LastInv, LastOf
<1>6. GhostOf(c) /\ OneFin(c) /\ GoneFin(c) /\ LedFin(c)
  BY DEF LastInv, LastOf
<1>7. call'[c] = call[c] /\ early'[c] = early[c] /\ ~Has(early[c], "Finalized") /\ call[c].dir # None
      /\ (Live(c)' <=> Live(c))
  BY <1>6 DEF OneFin, GhostOf, Live
<1>8. GhostOf(c)'
  <2>1. OnWay(c) => OnWay(c)'
    BY <1>2, <1>5, <1>7 DEF OnWay, Last
  <2> QED BY <1>6, <1>7, <2>1 DEF GhostOf
<1>9. OneFin(c)'
  <2>1. \A u \in Threads : pc'[u].c = c => Once(pc'[u].todo, "Finalized")
    <3>1. Once(<<k>>, "Finalized")
      BY ShortLists
    <3> QED BY <1>6, <3>1 DEF OneFin
  <2>2. k = "Finalized" => \A u \in Threads : ~Due(c, u, "Finalized")
    BY <1>2, <1>6 DEF OneFin
  <2>3. \A u \in Threads : Due(c, u, "Finalized")' =>
          \/ u = "ev" /\ k = "Finalized"
          \/ u # "ev" /\ k # "Finalized" /\ Due(c, u, "Finalized")
    BY <1>5, <2>2 DEF Last
  <2>4. \A u, v \in Threads : Due(c, u, "Finalized")' /\ Due(c, v, "Finalized")' => v = u
    BY <1>6, <2>3 DEF OneFin
  <2>5. Has(queue', Fin(c)) => \A u \in Threads : ~Due(c, u, "Finalized")'
    BY <1>2, <1>6, <2>3 DEF OneFin
  <2> QED BY <1>2, <1>6, <1>7, <2>1, <2>4, <2>5 DEF OneFin
<1>10. GoneFin(c)'
  BY <1>2, <1>5, <1>6, <1>7 DEF GoneFin, Last
<1>11. LedFin(c)'
  <2>1. ASSUME Has(queue', Fin(c)), ~Led(queue', End(c), Fin(c)), Live(c)
        PROVE  \E u \in Threads : Due(c, u, "Ended")'
    <3>1. CASE k = "Ended"
      BY <1>5, <3>1
    <3>2. CASE k # "Ended"
      BY <1>2, <1>5, <1>6, <2>1, <3>2 DEF LedFin, Last
    <3> QED BY <3>1, <3>2
  <2>2. Led(early[c], "Ended", "Finalized")
    BY <1>7, ShortLists
  <2>3. ASSUME Live(c), NEW u \in Threads, Due(c, u, "Finalized")'
        PROVE  \/ Led(pc'[u].todo, "Ended", "Finalized")
               \/ \E v \in Threads \ {u} : Due(c, v, "Ended")'
    <3>1. CASE u = "ev"
      <4>1. k = "Finalized" /\ Has(queue, Fin(c)) /\ ~Led(queue, End(c), Fin(c))
        BY <1>2, <1>5, <2>3, <3>1
      <4>2. PICK v \in Threads : Due(c, v, "Ended")
        BY <1>6, <2>3, <4>1 DEF LedFin
      <4> QED BY <1>5, <3>1, <4>2 DEF Last
    <3>2. CASE u # "ev"
      <4>1. Due(c, u, "Finalized")
        BY <1>5, <2>3, <3>2 DEF Last
      <4>2. CASE Led(pc[u].todo, "Ended", "Finalized")
        BY <3>2, <4>2
      <4>3. CASE \E v \in Threads \ {u} : Due(c, v, "Ended")
        BY <1>5, <4>3 DEF Last
      <4> QED BY <1>6, <2>3, <4>1, <4>2, <4>3 DEF LedFin
    <3> QED BY <3>1, <3>2
  <2> QED BY <1>7, <2>1, <2>2, <2>3 DEF LedFin
<1> QED BY <1>8, <1>9, <1>10, <1>11 DEF LastOf

\* An event is put aside, or reaches the goroutine of the events.
LEMMA ReceiveLast ==
  ASSUME IInv, NoNewcomer, LastInv, Receive
  PROVE  LastInv'
<1> DEFINE k == Head(queue).kind
           c == Head(queue).call
<1>1. Typed /\ Shaped /\ "ev" \in Threads
  BY DEF IInv, Threads
<1>2. UNCHANGED <<net, unheard, call>> /\ pc["ev"] = Idle /\ queue # <<>> /\ queue' = Tail(queue)
  BY DEF Receive
<1>3. k \in Kinds /\ c \in Calls /\ Head(queue) = Event(k, c)
  <2>1. queue \in Seq([kind : Kinds, call : Calls])
    BY <1>1 DEF Typed
  <2>2. Head(queue) \in [kind : Kinds, call : Calls]
    BY <1>2, <2>1, Firsts
  <2> QED BY <2>2 DEF Event
<1>4. \/ ~call[c].reg /\ early' = [early EXCEPT ![c] = Append(@, k)] /\ UNCHANGED pc
      \/ /\ k = "Busy" \/ call[c].reg \/ k \notin EarlyKinds
         /\ Becomes("ev", [Idle EXCEPT !.c = c, !.todo = <<k>>]) /\ UNCHANGED early
  BY DEF Receive
<1> HIDE DEF k, c
<1>5. CASE ~call[c].reg /\ early' = [early EXCEPT ![c] = Append(@, k)] /\ UNCHANGED pc
  BY <1>2, <1>3, <1>5, AsideLast
<1>6. CASE /\ k = "Busy" \/ call[c].reg \/ k \notin EarlyKinds
           /\ Becomes("ev", [Idle EXCEPT !.c = c, !.todo = <<k>>]) /\ UNCHANGED early
  <2>1. /\ pc'["ev"].c = c /\ pc'["ev"].todo = <<k>>
        /\ \A u \in Threads : u # "ev" => pc'[u] = pc[u]
    BY <1>1, <1>2, <1>3, <1>6, Attending
  <2>2. Idle.c = None /\ Idle.todo = <<>>
    BY DEF Idle
  <2>3. CASE k \in Last
    <3>1. call[c].reg
      BY <1>6, <2>3 DEF Last, EarlyKinds
    <3> QED BY <1>1, <1>2, <1>3, <1>6, <2>1, <2>2, <2>3, <3>1, ReachedLast
  <2>4. CASE k \notin Last
    <3>1. \A d \in Calls : NewsOf(d)
      BY <1>1, <1>2, <1>3, <2>4, NextEvent
    <3>2. Told(pc["ev"], pc'["ev"])
      <4>1. ~Has(<<>>, "Ended") /\ ~Has(<<k>>, "Finalized")
        BY <2>4 DEF Has, Last
      <4> QED BY <1>2, <2>1, <2>2, <4>1 DEF Told
    <3>3. \A u \in Threads : Told(pc[u], pc'[u])
      BY <2>1, <3>2 DEF Told
    <3>4. SameCalls
      BY <1>2 DEF SameCalls, Live
    <3> QED BY <1>6, <3>1, <3>3, <3>4, OtherLast
  <2> QED BY <2>3, <2>4
<1> QED BY <1>4, <1>5, <1>6
-----------------------------------------------------------------------------
(* Nothing under way *)

\* When nothing is under way, neither is the end of any call.
LEMMA StillLast == Still => LastInv
<1> SUFFICES ASSUME Still PROVE LastInv
  OBVIOUS
<1>1. ASSUME NEW c \in Calls
      PROVE  LastOf(c)
  <2>1. /\ queue = <<>> /\ rings = <<>> /\ early[c] = <<>>
        /\ \A t \in Threads : pc[t].todo = <<>> /\ ~At(t, "dialed")
        /\ call[c].reg <=> call[c].dir # None
        /\ net[c] = "gone" => ~call[c].reg
    BY DEF Still
  <2>2. \A x, y : ~Has(<<>>, x) /\ Once(<<>>, x) /\ Led(<<>>, x, y)
    BY ShortLists
  <2>3. \A t \in Threads, k \in Last : ~Due(c, t, k)
    BY <2>1, <2>2 DEF Due
  <2>4. ~MayCome(c)
    BY <2>1 DEF MayCome, Unannounced
  <2>5. GhostOf(c)
    BY <2>1, <2>4 DEF GhostOf, Live
  <2>6. OneFin(c)
    BY <2>1, <2>2, <2>3 DEF OneFin, Last
  <2>7. GoneFin(c)
    BY <2>1, <2>2, <2>3 DEF GoneFin, Last
  <2>8. LedFin(c)
    BY <2>1, <2>2, <2>3, <2>4 DEF LedFin, Last
  <2> QED BY <2>5, <2>6, <2>7, <2>8 DEF LastOf
<1> QED BY <1>1 DEF LastInv

\* So it is after a restart.
LEMMA RestartLast ==
  ASSUME Restart
  PROVE  LastInv'
<1>1. /\ queue' = <<>> /\ rings' = <<>> /\ early' = [c \in Calls |-> <<>>]
      /\ call' = [c \in Calls |-> NoCall] /\ pc' = [t \in Threads |-> Idle]
  BY DEF Restart
<1>2. NoCall.dir = None /\ ~NoCall.reg
  BY DEF NoCall
<1>3. \A t \in Threads : pc'[t].todo = <<>> /\ pc'[t].go = <<>>
  BY <1>1, Stopped
<1>4. Still'
  BY <1>1, <1>2, <1>3 DEF Still, At
<1>5. Still' => LastInv'
  BY StillLast, PTL
<1> QED BY <1>4, <1>5
-----------------------------------------------------------------------------
(* The end of every call, step by step *)

\* Every step keeps the end of every call on its way.
LEMMA NextLast ==
  ASSUME IInv, LastInv, [Next]_vars
  PROVE  LastInv'
<1>1. Typed /\ Shaped /\ NoNewcomer
  BY NextKeeps DEF IInv
<1>2. CASE Calmly \/ Receive \/ Ring \/ Restart \/ \E c \in Calls : NetOffer(c)
  BY <1>1, <1>2, CalmLast, ReceiveLast, RingLast, RestartLast, OfferLast
<1>3. ASSUME NEW t \in Threads, Stirring(t)
      PROVE  LastInv'
  <2>1. CASE HandleIncoming(t) \/ FinishCall(t) \/ FinalizeRecording(t)
    BY <1>1, <2>1, IncomingLast, FinishLast, FinalizeLast
  <2>2. CASE CloseCall(t) \/ (Persist(t) /\ At(t, "final"))
    BY <1>1, <2>2, RecordLast
  <2>3. CASE ReserveDevice(t) \/ Dial(t) \/ Dialed(t) \/ Undo(t)
    BY <1>1, <2>3, DeviceLast, DialLast, DialedLast
  <2> QED BY <1>3, <2>1, <2>2, <2>3 DEF Stirring
<1> QED BY <1>1, <1>2, <1>3, CalmOrNot
-----------------------------------------------------------------------------
(* What the goroutines do about the sessions *)

\* Lists without their head, and after others.
LEMMA OrderedTail ==
  ASSUME NEW s \in Seq(Steps), s # <<>>, Ordered(s)
  PROVE  Ordered(Tail(s)) /\ (Head(s) \in Droppers => Careless(s))
<1> DEFINE n == Len(Tail(s))
           r == Tail(s)
<1>1. n \in Nat /\ DOMAIN r = 1 .. n /\ DOMAIN s = 1 .. (n + 1)
  OBVIOUS
<1>2. s[1] = Head(s) /\ \A i \in 1 .. n : r[i] = s[i + 1]
  OBVIOUS
<1> HIDE DEF n, r
<1>3. \A i, j \in 1 .. (n + 1) : i < j /\ s[i] \in Droppers => s[j] \notin Attention
  BY <1>1 DEF Ordered
<1>4. ASSUME NEW i \in 1 .. n, NEW j \in 1 .. n, i < j, r[i] \in Droppers
      PROVE  r[j] \notin Attention
  <2>1. i + 1 \in 1 .. (n + 1) /\ j + 1 \in 1 .. (n + 1) /\ i + 1 < j + 1
    BY <1>1, <1>4
  <2> QED BY <1>2, <1>3, <1>4, <2>1
<1>5. ASSUME Head(s) \in Droppers, NEW j \in 1 .. (n + 1)
      PROVE  s[j] \notin Attention
  <2>1. CASE j = 1
    BY <1>2, <1>5, <2>1 DEF Droppers, Attention
  <2>2. CASE j # 1
    BY <1>1, <1>2, <1>3, <1>5, <2>2
  <2> QED BY <2>1, <2>2
<1>6. Ordered(r)
  BY <1>1, <1>4 DEF Ordered
<1>7. Head(s) \in Droppers => Careless(s)
  BY <1>1, <1>5 DEF Careless, Has
<1> QED BY <1>6, <1>7 DEF r

LEMMA OrderedAfter ==
  ASSUME NEW a \in Seq(Steps), NEW b \in Seq(Steps), Ordered(a), Ordered(b),
         Careless(b) \/ \A x \in Droppers : ~Has(a, x)
  PROVE  Ordered(a \o b)
<1>1. PICK r : r = a \o b
  OBVIOUS
<1>2. r = [i \in 1 .. (Len(a) + Len(b)) |-> IF i <= Len(a) THEN a[i] ELSE b[i - Len(a)]]
  BY <1>1, Joined, Zenon
<1>3. PICK n \in Nat, k \in Nat : n = Len(a) /\ k = Len(b) /\ DOMAIN a = 1 .. n /\ DOMAIN b = 1 .. k
  OBVIOUS
<1>4. DOMAIN r = 1 .. (n + k) /\ \A i \in 1 .. (n + k) : r[i] = IF i <= n THEN a[i] ELSE b[i - n]
  BY <1>2, <1>3
<1> SUFFICES ASSUME NEW i \in 1 .. (n + k), NEW j \in 1 .. (n + k), i < j, r[i] \in Droppers
             PROVE  r[j] \notin Attention
  BY <1>1, <1>4 DEF Ordered
<1>5. \A h \in 1 .. (n + k) : \/ h \in 1 .. n /\ r[h] = a[h]
                              \/ h - n \in 1 .. k /\ r[h] = b[h - n]
  BY <1>4
<1>6. CASE j \in 1 .. n
  <2>1. i \in 1 .. n /\ r[i] = a[i] /\ r[j] = a[j]
    BY <1>4, <1>6
  <2> QED BY <1>3, <1>6, <2>1 DEF Ordered
<1>7. CASE j \notin 1 .. n
  <2>1. j - n \in 1 .. k /\ r[j] = b[j - n]
    BY <1>5, <1>7
  <2>2. CASE Careless(b)
    BY <1>3, <2>1, <2>2 DEF Careless, Has
  <2>3. CASE \A x \in Droppers : ~Has(a, x)
    <3>1. i \notin 1 .. n \/ r[i] # a[i]
      BY <1>3, <2>3 DEF Has
    <3>2. i - n \in 1 .. k /\ r[i] = b[i - n] /\ i - n < j - n
      BY <1>5, <3>1
    <3> QED BY <1>3, <2>1, <3>2 DEF Ordered
  <2> QED BY <2>2, <2>3
<1> QED BY <1>6, <1>7

\* One list that sees to no session after another.
LEMMA CarelessAfter ==
  ASSUME NEW a \in Seq(Steps), NEW b \in Seq(Steps), Careless(a), Careless(b)
  PROVE  Careless(a \o b)
<1> SUFFICES ASSUME NEW x \in Attention PROVE ~Has(a \o b, x)
  BY DEF Careless
<1>1. Has(a \o b, x) <=> Has(a, x) \/ Has(b, x)
  BY OneAfterAnother
<1> QED BY <1>1 DEF Careless

\* Two in a row.
LEMMA OneAndOne ==
  ASSUME NEW x, NEW y
  PROVE  <<x>> \o <<y>> = <<x, y>> /\ <<>> \o <<y>> = <<y>>
<1>1. PICK S : S = {x, y}
  OBVIOUS
<1>2. PICK a \in Seq(S), b \in Seq(S) : a = <<x>> /\ b = <<y>>
  <2>1. <<x>> \in Seq(S) /\ <<y>> \in Seq(S)
    BY <1>1
  <2> QED BY <2>1
<1>3. Len(a) = 1 /\ Len(b) = 1 /\ a[1] = x /\ b[1] = y
  BY <1>2
<1>4. a \o b = [i \in 1 .. (Len(a) + Len(b)) |-> IF i <= Len(a) THEN a[i] ELSE b[i - Len(a)]]
  BY Joined, Zenon
<1>5. PICK f : f = [i \in 1 .. (Len(a) + Len(b)) |-> IF i <= Len(a) THEN a[i] ELSE b[i - Len(a)]]
  OBVIOUS
<1>6. f = <<x, y>>
  BY <1>3, <1>5
<1>7. <<>> \o <<y>> = <<y>>
  BY <1>2
<1> QED BY <1>2, <1>4, <1>5, <1>6, <1>7, Zenon

\* The lists that are written down.
LEMMA WrittenLists ==
  /\ \A s \in AutoLists \cup HoldLists \cup {<<>>, <<"leave">>, <<"hangup", "report", "leave">>} :
        Ordered(s) /\ Careless(s)
  /\ \A s \in {<<"write">>, <<"record">>, <<"drop">>, <<"snap", "write", "auto">>, <<"snap", "write">>,
               <<"refuse", "busy">>, <<"bridge", "snap", "write">>, <<"final">>, <<"final", "leave">>} :
         Ordered(s) /\ Careless(s)
  /\ \A s \in {<<"close", "final">>, <<"resume">>, <<"unlink">>} : Ordered(s)
<1>1. \A s \in AutoLists : Ordered(s) /\ Careless(s)
  BY DEF AutoLists, Ordered, Careless, Has, Attention, Droppers
<1>2. \A s \in DialLists : Ordered(s) /\ Careless(s)
  BY DEF DialLists, Ordered, Careless, Has, Attention, Droppers
<1>3. \A s \in ClaimLists : Ordered(s) /\ Careless(s)
  BY DEF ClaimLists, Ordered, Careless, Has, Attention, Droppers
<1>4. \A s \in {<<"drop", "leave">>, <<>>, <<"leave">>, <<"hangup", "report", "leave">>} : Ordered(s) /\ Careless(s)
  BY DEF Ordered, Careless, Has, Attention, Droppers
<1>5. \A s \in {<<"write">>, <<"record">>, <<"drop">>, <<"snap", "write", "auto">>, <<"snap", "write">>,
                <<"refuse", "busy">>, <<"bridge", "snap", "write">>, <<"final">>, <<"final", "leave">>} :
         Ordered(s) /\ Careless(s)
  BY DEF Ordered, Careless, Has, Attention, Droppers
<1>6. \A s \in {<<"close", "final">>, <<"resume">>, <<"unlink">>} : Ordered(s)
  BY DEF Ordered, Attention, Droppers
<1> QED BY <1>1, <1>2, <1>3, <1>4, <1>5, <1>6 DEF HoldLists
-----------------------------------------------------------------------------
(* What a goroutine forgets no session by *)

\* Nobody has a session whose list is careless.
LEMMA CarelessOnes ==
  ASSUME NEW p, Careless(p.go), NEW x
  PROVE  ~Cleans(p, x) /\ ~Sees(p, x)
BY DEF Careless, Cleans, Sees, Attention

\* A goroutine that has come to its end forgets nothing.
LEMMA IdleFollows ==
  ASSUME NEW t, NEW p, NEW q, Follows(t, p, q), q.go = <<>>
  PROVE  Follows(t, p, Idle)
<1>1. Idle.go = <<>> /\ Idle.todo = <<>>
  BY DEF Idle
<1>2. Ordered(<<>>) /\ Careless(<<>>) /\ <<>> \in AutoLists
  BY WrittenLists DEF AutoLists
<1>3. \A x : ~Cleans(q, x) /\ ~Sees(q, x) /\ ~Cleans(Idle, x) /\ ~Sees(Idle, x)
  BY <1>1, <1>2, CarelessOnes
<1>4. <<>> \notin HoldLists
  BY DEF HoldLists, DialLists, ClaimLists
<1>5. \A x : ~Holds(q, x)
  BY <1>4 DEF Holds
<1>6. ~Answering(q) /\ ~Adopting(q) /\ ~Answering(Idle) /\ ~Adopting(Idle)
  BY <1>1 DEF Answering, Adopting
<1> QED BY <1>1, <1>2, <1>3, <1>5, <1>6 DEF Follows, Tends, Fits

\* If the goroutine that moves forgets none, nobody does.
LEMMA Moving ==
  ASSUME Shaped, ThreadInv, NEW t \in Threads, NEW q, Becomes(t, q)
  PROVE  /\ \A u \in Threads : u # t => pc'[u] = pc[u]
         /\ pc'[t] = (IF q.go = <<>> /\ q.todo = <<>> THEN Idle ELSE q)
         /\ Follows(t, pc[t], q) => Unforgotten
<1>1. /\ \A u \in Threads : u # t => pc'[u] = pc[u]
      /\ pc'[t] = (IF q.go = <<>> /\ q.todo = <<>> THEN Idle ELSE q)
  BY DEF Shaped, Becomes
<1>2. ASSUME Follows(t, pc[t], q) PROVE Follows(t, pc[t], pc'[t])
  BY <1>1, <1>2, IdleFollows
<1>3. \A u \in Threads : Follows(u, pc[u], pc[u])
  BY DEF ThreadInv, Follows, Tends
<1> QED BY <1>1, <1>2, <1>3 DEF Unforgotten

\* Nor does anybody when no goroutine moves.
LEMMA Unmoving ==
  ASSUME ThreadInv, UNCHANGED pc
  PROVE  Unforgotten
BY DEF ThreadInv, Unforgotten, Follows, Tends

\* What is ahead of the goroutine that moves.
LEMMA Outlook ==
  ASSUME Shaped, NEW t \in Threads, NEW q, Becomes(t, q)
  PROVE  /\ \A u \in Threads \ {t} : pc'[u] = pc[u]
         /\ q.go # <<>> \/ q.todo # <<>> => pc'[t] = q
         /\ \A x : /\ (Cleans(pc'[t], x) <=> Cleans(q, x)) /\ (Sees(pc'[t], x) <=> Sees(q, x))
                   /\ (Holds(pc'[t], x) <=> Holds(q, x))
         /\ (Answering(pc'[t]) <=> Answering(q)) /\ (Adopting(pc'[t]) <=> Adopting(q))
         /\ Answering(q) \/ Adopting(q) => pc'[t] = q
         /\ Fits(t, q) => Fits(t, pc'[t])
<1>1. /\ \A u \in Threads \ {t} : pc'[u] = pc[u]
      /\ pc'[t] = (IF q.go = <<>> /\ q.todo = <<>> THEN Idle ELSE q)
  BY DEF Shaped, Becomes
<1>2. CASE pc'[t] = q
  BY <1>1, <1>2 DEF Answering, Adopting
<1>3. CASE q.go = <<>> /\ q.todo = <<>> /\ pc'[t] = Idle
  <2>1. Idle.go = <<>> /\ Idle.todo = <<>>
    BY DEF Idle
  <2>2. Ordered(<<>>) /\ Careless(<<>>) /\ <<>> \in AutoLists /\ <<>> \notin HoldLists
    BY WrittenLists DEF AutoLists, HoldLists, DialLists, ClaimLists
  <2>3. \A x : ~Cleans(q, x) /\ ~Sees(q, x) /\ ~Cleans(Idle, x) /\ ~Sees(Idle, x)
    BY <1>3, <2>1, <2>2, CarelessOnes
  <2>4. ~Answering(q) /\ ~Adopting(q) /\ ~Answering(Idle) /\ ~Adopting(Idle)
    BY <1>3, <2>1 DEF Answering, Adopting
  <2> QED BY <1>1, <1>3, <2>1, <2>2, <2>3, <2>4 DEF Fits, Holds
<1> QED BY <1>1, <1>2, <1>3

\* A goroutine goes on with its list, or inserts a step into it.
LEMMA MovesOn ==
  ASSUME NEW t \in Threads, NEW p \in Locals, NEW q \in Locals, Fits(t, p), p.go # <<>>,
         Head(p.go) \in {"refuse", "busy", "bridge", "drop", "final", "record", "snap", "write", "auto",
                         "hangup", "report"},
         NEW x \in {<<>>, <<"record">>, <<"drop">>, <<"write">>},
         q.go = x \o Tail(p.go), q.m = p.m, q.lease = p.lease,
         q.todo = p.todo \/ Head(p.go) = "report", Head(p.go) = "drop" => x = <<>>
  PROVE  Follows(t, p, q)
<1>1. p.go \in Seq(Steps) /\ Tail(p.go) \in Seq(Steps) /\ x \in Seq(Steps)
  <2>1. p.go \in Seq(Steps)
    BY DEF Locals
  <2>2. x \in Seq(Steps)
    <3>1. <<>> \in Seq(Steps) /\ <<"record">> \in Seq(Steps) /\ <<"drop">> \in Seq(Steps) /\ <<"write">> \in Seq(Steps)
      BY DEF Steps
    <3> QED BY <3>1
  <2> QED BY <2>1, <2>2
<1>2. Ordered(p.go)
  BY DEF Fits
<1>3. Ordered(Tail(p.go))
  BY <1>1, <1>2, OrderedTail
<1>4. Ordered(x) /\ Careless(x) /\ \A y \in Droppers : ~Has(x, y)
  <2>1. Ordered(x) /\ Careless(x)
    BY WrittenLists, Zenon
  <2>2. \A y : Has(x, y) => y \in {"record", "drop", "write"}
    BY DEF Has
  <2> QED BY <2>1, <2>2 DEF Droppers
<1>5. Ordered(q.go)
  BY <1>1, <1>3, <1>4, OrderedAfter
<1>6. \A a \in Attention : Has(q.go, a) <=> Has(p.go, a)
  <2> SUFFICES ASSUME NEW a \in Attention PROVE Has(q.go, a) <=> Has(p.go, a)
    OBVIOUS
  <2>1. Has(q.go, a) <=> Has(x, a) \/ Has(Tail(p.go), a)
    <3>1. PICK r \in Seq(Steps) : r = Tail(p.go)
      BY <1>1
    <3>2. Has(x \o r, a) <=> Has(x, a) \/ Has(r, a)
      BY <1>1, OneAfterAnother
    <3> QED BY <3>1, <3>2
  <2>2. Has(p.go, a) <=> Head(p.go) = a \/ Has(Tail(p.go), a)
    BY <1>1, WithoutHead
  <2>3. Head(p.go) # a
    BY DEF Attention
  <2>4. ~Has(x, a)
    BY <1>4 DEF Careless
  <2> QED BY <2>1, <2>2, <2>3, <2>4
<1>7. \A y : (Cleans(q, y) <=> Cleans(p, y)) /\ (Sees(q, y) <=> Sees(p, y))
  BY <1>6 DEF Cleans, Sees, Attention
<1>8. ASSUME NEW y, Holds(p, y)
      PROVE  Holds(q, y)
  <2>1. p.go = <<"drop", "leave">> /\ p.todo = <<>>
    BY <1>8 DEF Holds, HoldLists, DialLists, ClaimLists
  <2>2. q.go = <<"leave">> /\ q.todo = <<>>
    <3>1. Head(p.go) = "drop" /\ Tail(p.go) = <<"leave">>
      BY <2>1
    <3>2. x = <<>> /\ q.go = <<>> \o <<"leave">> /\ q.todo = <<>>
      BY <2>1, <3>1
    <3>3. <<>> \o <<"leave">> = <<"leave">>
      OBVIOUS
    <3> QED BY <3>2, <3>3
  <2> QED BY <1>8, <2>2 DEF Holds, HoldLists
<1>9. ASSUME t \in Calls
      PROVE  /\ q.go \in AutoLists /\ q.todo = <<>>
             /\ ~Answering(q) /\ ~Adopting(q) /\ ~Answering(p) /\ ~Adopting(p)
  <2>1. p.go \in AutoLists /\ p.todo = <<>>
    BY <1>9 DEF Fits
  <2>2. p.go \in {<<"record", "leave">>, <<"write", "leave">>, <<"drop", "leave">>}
    BY <2>1 DEF AutoLists
  <2>3. Tail(p.go) = <<"leave">> /\ Head(p.go) # "report"
    <3>1. \A y \in {"record", "write", "drop"} : Tail(<<y, "leave">>) = <<"leave">> /\ Head(<<y, "leave">>) = y
      OBVIOUS
    <3> QED BY <2>2, <3>1
  <2>4. q.go \in {<<"leave">>, <<"record", "leave">>, <<"write", "leave">>, <<"drop", "leave">>}
    <3>1. \A y : <<y>> \o <<"leave">> = <<y, "leave">> /\ <<>> \o <<"leave">> = <<"leave">>
      BY OneAndOne
    <3> QED BY <2>3, <3>1
  <2> QED BY <2>1, <2>2, <2>3, <2>4 DEF AutoLists, Answering, Adopting
<1> QED BY <1>5, <1>7, <1>8, <1>9 DEF Follows, Tends, Fits

\* A client with a session goes on, or leaves, and keeps it.
LEMMA HoldsOn ==
  ASSUME NEW t \in Clients, NEW p, NEW q, p.go \in DialLists \cup ClaimLists, q.go \in HoldLists,
         q.m = p.m, q.todo = p.todo
  PROVE  Follows(t, p, q)
<1>1. Ordered(q.go) /\ Careless(q.go) /\ Careless(p.go)
  BY WrittenLists DEF HoldLists
<1>2. \A x : ~Cleans(q, x) /\ ~Cleans(p, x) /\ ~Sees(p, x)
  BY <1>1, CarelessOnes
<1>3. t \notin Calls
  BY PhoneAssumption DEF PhoneAssumption
<1> QED BY <1>1, <1>2, <1>3 DEF Follows, Tends, Fits, Holds

\* A request that the gateway turns down leaves.
LEMMA GivesUp ==
  ASSUME NEW t \in Threads, NEW p \in Locals, NEW q, Fits(t, p), p.go # <<>>,
         Head(p.go) \in {"refuse", "hangup"}, q.go = <<"leave">>, q.todo = p.todo
  PROVE  Follows(t, p, q)
<1>1. Careless(p.go)
  BY OrderedTail DEF Fits, Locals, Droppers
<1>2. Careless(q.go) /\ Ordered(q.go)
  BY WrittenLists
<1>3. \A x : ~Cleans(q, x) /\ ~Cleans(p, x) /\ ~Sees(p, x)
  BY <1>1, <1>2, CarelessOnes
<1>4. \A x : ~Holds(p, x)
  BY DEF Holds, HoldLists, DialLists, ClaimLists
<1>5. t \notin Calls
  BY DEF Fits, AutoLists
<1> QED BY <1>2, <1>3, <1>4, <1>5 DEF Follows, Tends, Fits

\* An event is dealt with by somebody who has no session.
LEMMA DealsWith ==
  ASSUME NEW t \in Threads, NEW p, NEW q, Fits(t, p), p.go \in {<<>>, <<"leave">>}, p.todo # <<>>,
         NEW x \in {<<>>, <<"write">>, <<"snap", "write", "auto">>, <<"snap", "write">>, <<"refuse", "busy">>,
                    <<"bridge", "snap", "write">>},
         q.go = x \o p.go
  PROVE  Follows(t, p, q)
<1>1. /\ <<>> \in Seq(Steps) /\ <<"write">> \in Seq(Steps) /\ <<"snap", "write", "auto">> \in Seq(Steps)
      /\ <<"snap", "write">> \in Seq(Steps) /\ <<"refuse", "busy">> \in Seq(Steps)
      /\ <<"bridge", "snap", "write">> \in Seq(Steps) /\ <<"leave">> \in Seq(Steps)
  BY DEF Steps
<1>2. Ordered(q.go) /\ Careless(q.go)
  <2>1. x \in Seq(Steps) /\ p.go \in Seq(Steps)
    BY <1>1
  <2>2. Ordered(x) /\ Careless(x) /\ Ordered(p.go) /\ Careless(p.go)
    BY WrittenLists, Zenon
  <2>3. PICK g \in Seq(Steps) : g = p.go
    BY <2>1
  <2>4. Ordered(x \o g) /\ Careless(x \o g)
    BY <2>1, <2>2, <2>3, OrderedAfter, CarelessAfter
  <2> QED BY <2>3, <2>4
<1>3. Careless(p.go)
  BY WrittenLists
<1>4. \A y : ~Cleans(q, y) /\ ~Cleans(p, y) /\ ~Sees(p, y)
  BY <1>2, <1>3, CarelessOnes
<1>5. t \notin Calls /\ \A y : ~Holds(p, y)
  BY DEF Fits, Holds
<1> QED BY <1>2, <1>4, <1>5 DEF Follows, Tends, Fits

\* Somebody who had nothing to do begins.
LEMMA SetsOut ==
  ASSUME NEW t \in Threads, t \notin Calls, NEW q, Ordered(q.go) /\ Careless(q.go)
  PROVE  Follows(t, Idle, q)
<1>1. Idle.go = <<>> /\ Careless(<<>>)
  BY WrittenLists DEF Idle
<1>2. \A y : ~Cleans(q, y) /\ ~Cleans(Idle, y) /\ ~Sees(Idle, y)
  BY <1>1, CarelessOnes
<1>3. \A y : ~Holds(Idle, y)
  BY <1>1 DEF Holds, HoldLists, DialLists, ClaimLists
<1> QED BY <1>2, <1>3 DEF Follows, Tends, Fits
-----------------------------------------------------------------------------
(* Every session is accounted for *)

\* Nothing is new for the session of an auto answer.
LEMMA OwnStays ==
  ASSUME NEW c \in Calls, Own(c), med'[c].sess = med[c].sess, med'[c].bound = med[c].bound, Known(c) => Known(c)', Cleaned(c)' <=> Cleaned(c),
         Answering(pc'[c]) <=> Answering(pc[c]), Adopting(pc'[c]) <=> Adopting(pc[c]),
         Answering(pc[c]) \/ Adopting(pc[c]) => pc'[c].m = pc[c].m
  PROVE  Own(c)'
BY DEF Own, Present

\* The calls' part in what is to be seen to.
LEMMA SameUnsettled ==
  ASSUME Typed, \A c \in Calls : call'[c].media = call[c].media,
         \A m \in Sessions : med'[m].bound = med[m].bound
  PROVE  \A c \in Calls : Unsettled(c)' <=> Unsettled(c)
<1>1. \A m \in Sessions : med[m].bound \in OrNone(Calls)
  BY DEF Typed, SessionRecords
<1>2. \A m \in Sessions : Displaced(m)' <=> Displaced(m)
  BY <1>1 DEF Displaced, OrNone
<1> QED BY <1>2 DEF Unsettled

\* Something happens to session x that is not about a call taking it: it is lost or
\* removed, or what happened to it before is seen to.
LEMMA LossKeeps ==
  ASSUME Typed, Typed', Shaped, Shaped', SessInv, KnownStay, NEW x \in Sessions,
         \A m \in Sessions \ {x} : med'[m] = med[m],
         med'[x].bound = med[x].bound, med'[x].held = med[x].held,
         \A c \in Calls : call'[c].media = call[c].media /\ (Live(c)' <=> Live(c)),
         \A c \in Calls : Live(c) =>
            call'[c].dtimer = IF med[x].bound = c /\ call[c].media = x /\ call[c].dtimer = None
                              THEN x ELSE call[c].dtimer,
         \A t \in Threads : FollowsBut(t, pc[t], pc'[t], x),
         Cleaned(x) => Cleaned(x)' \/ med'[x].sess = "gone",
         x \in Calls => \/ med'[x].sess = med[x].sess
                        \/ med'[x].sess = "gone" /\ Cleaned(x),
         x \in Media => \/ med'[x].sess = "gone"
                        \/ /\ Present(x)
                           /\ med[x].bound = None => med'[x].drop # "none"
                           /\ med'[x].drop = "paused" => med[x].drop = "paused" \/ med[x].held # None
  PROVE  SessInv'
<1>1. ThreadInv /\ HeldInv /\ BoundInv /\ LostInv /\ OwnInv
  BY DEF SessInv
<1>2. \A m \in Sessions : med'[m].bound = med[m].bound /\ med'[m].held = med[m].held
  OBVIOUS
<1>3. /\ \A m \in Sessions : med[m].bound \in OrNone(Calls) /\ med[m].held \in OrNone(Threads)
      /\ \A c \in Calls : call[c].media \in OrNone(Sessions) /\ call[c].dtimer \in OrNone(Sessions)
  BY DEF Typed, SessionRecords, CallRecords
<1>4. ThreadInv'
  BY DEF ThreadInv, FollowsBut
<1>5. HeldInv'
  BY <1>1, <1>2, <1>3 DEF HeldInv, FollowsBut, OrNone
<1>6. BoundInv'
  <2> SUFFICES ASSUME NEW c \in Calls, NEW m \in Sessions
               PROVE  /\ Live(c)' /\ m \in {call'[c].media, call'[c].dtimer} => med'[m].bound = c
                      /\ med'[m].bound = c /\ call'[c].media = m => Live(c)'
    BY DEF BoundInv
  <2>1. /\ Live(c) /\ m \in {call[c].media, call[c].dtimer} => med[m].bound = c
        /\ med[m].bound = c /\ call[c].media = m => Live(c)
    BY <1>1 DEF BoundInv
  <2>2. /\ call'[c].media = call[c].media /\ (Live(c)' <=> Live(c)) /\ med'[m].bound = med[m].bound
        /\ Live(c) => call'[c].dtimer = IF med[x].bound = c /\ call[c].media = x /\ call[c].dtimer = None
                                        THEN x ELSE call[c].dtimer
    BY <1>2
  <2> QED BY <2>1, <2>2
<1>7. \A m \in Sessions \ {x} : (Seen(m) => Seen(m)') /\ (Cleaned(m)' <=> Cleaned(m))
  BY DEF Seen, Cleaned, FollowsBut
<1>8. LostInv'
  <2>1. ASSUME NEW m \in Media
        PROVE  /\ med'[m].drop = "paused" /\ Present(m)' => med'[m].held # None
               /\ med'[m].sess = "down" /\ med'[m].bound = None => med'[m].drop # "none" \/ Seen(m)'
    <3>1. m \in Sessions
      BY DEF Sessions
    <3>2. CASE m # x
      BY <1>1, <1>7, <2>1, <3>1, <3>2 DEF LostInv, Present
    <3>3. CASE m = x
      BY <1>1, <2>1, <3>3 DEF LostInv, Present
    <3> QED BY <3>2, <3>3
  <2>2. ASSUME NEW c \in Calls, NEW m \in Sessions, Live(c)', call'[c].media = m, med'[m].sess # "up"
        PROVE  call'[c].dtimer = m \/ Unsettled(c)' \/ Seen(m)'
    <3>1. Live(c) /\ call[c].media = m
      BY <2>2
    <3>2. Unsettled(c)' <=> Unsettled(c)
      BY <1>2, SameUnsettled
    <3>3. med[m].bound = c
      BY <1>1, <3>1 DEF BoundInv
    <3>4. CASE m # x
      <4>1. call[c].dtimer = m \/ Unsettled(c) \/ Seen(m)
        BY <1>1, <2>2, <3>1, <3>4 DEF LostInv
      <4>2. call'[c].dtimer = call[c].dtimer
        BY <3>1, <3>4
      <4> QED BY <1>7, <3>2, <3>4, <4>1, <4>2
    <3>5. CASE m = x
      <4>1. CASE call[c].dtimer \in {None, x}
        BY <3>1, <3>3, <3>5, <4>1
      <4>2. CASE call[c].dtimer \notin {None, x}
        <5>1. PICK z \in Sessions : z = call[c].dtimer /\ z # x
          BY <1>3, <4>2 DEF OrNone
        <5>2. med[z].bound = c
          BY <1>1, <3>1, <5>1 DEF BoundInv
        <5>3. c # None /\ z # None
          BY PhoneAssumption DEF PhoneAssumption, Sessions
        <5>4. Displaced(z)
          BY <3>1, <3>5, <5>1, <5>2, <5>3 DEF Displaced
        <5> QED BY <3>2, <5>2, <5>4 DEF Unsettled
      <4> QED BY <4>1, <4>2
    <3> QED BY <3>4, <3>5
  <2> QED BY <2>1, <2>2 DEF LostInv
<1>9. OwnInv'
  <2> SUFFICES ASSUME NEW c \in Calls PROVE Own(c)'
    BY DEF OwnInv
  <2>1. Own(c) /\ c \in Sessions /\ c \in Threads
    BY <1>1 DEF OwnInv, Sessions, Threads
  <2>2. /\ Answering(pc'[c]) <=> Answering(pc[c])
        /\ Adopting(pc'[c]) <=> Adopting(pc[c])
        /\ Answering(pc[c]) \/ Adopting(pc[c]) => pc'[c].m = pc[c].m
    BY <2>1 DEF FollowsBut
  <2>3. Known(c) => Known(c)'
    BY DEF KnownStay
  <2>4. CASE c # x
    BY <1>7, <2>1, <2>2, <2>3, <2>4, OwnStays
  <2>5. CASE c = x
    <3>1. Cleaned(x)' => Cleaned(x)
      BY DEF Cleaned, FollowsBut
    <3>2. CASE med'[x].sess = "gone" /\ Cleaned(x)
      BY <2>1, <2>2, <2>3, <2>5, <3>1, <3>2 DEF Own, Present
    <3>3. CASE med'[x].sess = med[x].sess
      <4>1. CASE med[x].sess = "gone"
        BY <2>1, <2>2, <2>3, <2>5, <3>1, <3>3, <4>1 DEF Own, Present
      <4>2. CASE med[x].sess # "gone"
        BY <2>1, <2>2, <2>3, <2>5, <3>1, <3>3, <4>2 DEF Own, Present
      <4> QED BY <4>1, <4>2
    <3> QED BY <2>5, <3>2, <3>3
  <2> QED BY <2>4, <2>5
<1> QED BY <1>4, <1>5, <1>6, <1>8, <1>9 DEF SessInv

\* A step that takes no session, and forgets none, keeps everything; sessions may be
\* reserved and given back.
LEMMA HoldKeeps ==
  ASSUME Typed, SessInv, KnownStay, CallsStay, \A t \in Threads : Tends(t, pc[t], pc'[t]), HeldInv',
         \A m \in Sessions : med'[m].bound = med[m].bound /\ med'[m].sess = med[m].sess,
         \A m \in Media : /\ med'[m].drop = "paused" /\ Present(m) => med'[m].held # None
                          /\ med[m].bound = None /\ med[m].drop # "none" => med'[m].drop # "none"
  PROVE  SessInv'
<1>1. ThreadInv /\ BoundInv /\ LostInv /\ OwnInv
  BY DEF SessInv
<1>2. ThreadInv'
  BY DEF ThreadInv, Tends
<1>3. BoundInv'
  <2> SUFFICES ASSUME NEW c \in Calls, NEW m \in Sessions
               PROVE  /\ Live(c)' /\ m \in {call'[c].media, call'[c].dtimer} => med'[m].bound = c
                      /\ med'[m].bound = c /\ call'[c].media = m => Live(c)'
    BY DEF BoundInv
  <2>1. /\ Live(c) /\ m \in {call[c].media, call[c].dtimer} => med[m].bound = c
        /\ med[m].bound = c /\ call[c].media = m => Live(c)
    BY <1>1 DEF BoundInv
  <2> QED BY <2>1 DEF CallsStay
<1>4. \A m \in Sessions : (Seen(m) => Seen(m)') /\ (Cleaned(m)' <=> Cleaned(m))
  BY DEF Seen, Cleaned, Tends
<1>5. LostInv'
  <2>1. ASSUME NEW m \in Media
        PROVE  /\ med'[m].drop = "paused" /\ Present(m)' => med'[m].held # None
               /\ med'[m].sess = "down" /\ med'[m].bound = None => med'[m].drop # "none" \/ Seen(m)'
    BY <1>1, <1>4 DEF LostInv, Present, Sessions
  <2>2. ASSUME NEW c \in Calls, NEW m \in Sessions, Live(c)', call'[c].media = m, med'[m].sess # "up"
        PROVE  call'[c].dtimer = m \/ Unsettled(c)' \/ Seen(m)'
    <3>1. Live(c) /\ call[c].media = m /\ call'[c].dtimer = call[c].dtimer
      BY <2>2 DEF CallsStay
    <3>2. Unsettled(c)' <=> Unsettled(c)
      BY SameUnsettled DEF CallsStay
    <3> QED BY <1>1, <1>4, <2>2, <3>1, <3>2 DEF LostInv
  <2> QED BY <2>1, <2>2 DEF LostInv
<1>6. OwnInv'
  <2> SUFFICES ASSUME NEW c \in Calls PROVE Own(c)'
    BY DEF OwnInv
  <2>1. Own(c) /\ c \in Sessions /\ c \in Threads
    BY <1>1 DEF OwnInv, Sessions, Threads
  <2>2. /\ Answering(pc'[c]) <=> Answering(pc[c])
        /\ Adopting(pc'[c]) <=> Adopting(pc[c])
        /\ Answering(pc[c]) \/ Adopting(pc[c]) => pc'[c].m = pc[c].m
    BY <2>1 DEF Tends
  <2> QED BY <1>4, <2>1, <2>2, OwnStays DEF KnownStay
<1> QED BY <1>2, <1>3, <1>5, <1>6 DEF SessInv

\* Nothing at all happens to a session.
LEMMA FrameKeeps ==
  ASSUME Typed, SessInv, KnownStay, CallsStay, Unforgotten, UNCHANGED med
  PROVE  SessInv'
<1>1. HeldInv /\ LostInv
  BY DEF SessInv
<1>2. \A t \in Threads : Tends(t, pc[t], pc'[t]) /\ \A m \in Sessions : Holds(pc[t], m) => Holds(pc'[t], m)
  BY DEF Unforgotten, Follows
<1>3. HeldInv'
  BY <1>1, <1>2 DEF HeldInv
<1>4. \A m \in Media : med[m].drop = "paused" /\ Present(m) => med[m].held # None
  BY <1>1 DEF LostInv
<1> QED BY <1>2, <1>3, <1>4, HoldKeeps

\* A request takes session m for call c, which lets session o go.
LEMMA BindKeeps ==
  ASSUME Typed, SessInv, KnownStay, NEW t \in Clients, NEW m \in Media, NEW c \in Calls,
         NEW o \in OrNone(Sessions), med[m].held = t, Present(m),
         o # None => Live(c) /\ call[c].media = o,
         med'[m].sess = med[m].sess, med'[m].held = None, med'[m].bound = c, med'[m].drop = "none",
         o # None => /\ med'[o].sess = med[o].sess /\ med'[o].held = med[o].held
                     /\ med'[o].bound = None /\ med'[o].drop = "none",
         \A y \in Sessions \ {m, o} : med'[y] = med[y],
         \A d \in Calls \ {c} : call'[d] = call[d],
         Live(c)', call'[c].media = m,
         call'[c].dtimer = None \/ (Live(c) /\ call'[c].dtimer = call[c].dtimer /\ o = None),
         \A u \in Threads \ {t} : pc'[u] = pc[u],
         pc[t].m = m, Careless(pc[t].go), Fits(t, pc'[t]),
         \A y \in Sessions : Cleans(pc'[t], y) <=> y = o,
         med[m].drop # "none" => Sees(pc'[t], m)
  PROVE  SessInv'
<1>1. ThreadInv /\ HeldInv /\ BoundInv /\ LostInv /\ OwnInv
  BY DEF SessInv
<1>2. m \in Sessions /\ t \in Threads /\ t \notin Calls /\ m \notin Calls /\ t # None /\ c # None /\ m # None
  BY PhoneAssumption DEF PhoneAssumption, Sessions, Threads
<1>3. med[m].bound = None
  BY <1>1, <1>2 DEF HeldInv
<1>4. o # None => o \in Sessions /\ med[o].bound = c /\ o # m
  BY <1>1, <1>2, <1>3 DEF BoundInv, OrNone
<1>5. \A y : ~Cleans(pc[t], y) /\ ~Sees(pc[t], y)
  BY CarelessOnes
<1>6. \A y \in Sessions : y # None
  BY PhoneAssumption DEF PhoneAssumption, Sessions
<1>7. \A y \in Sessions : /\ Seen(y) => Seen(y)'
                          /\ y # o => (Cleaned(y)' <=> Cleaned(y))
                          /\ y = o => Cleaned(y)' /\ Seen(y)'
  <2> SUFFICES ASSUME NEW y \in Sessions
               PROVE  /\ Seen(y) => Seen(y)'
                      /\ y # o => (Cleaned(y)' <=> Cleaned(y))
                      /\ y = o => Cleaned(y)' /\ Seen(y)'
    OBVIOUS
  <2>1. \A u \in Threads \ {t} : (Cleans(pc'[u], y) <=> Cleans(pc[u], y)) /\ (Sees(pc'[u], y) <=> Sees(pc[u], y))
    OBVIOUS
  <2>2. Cleans(pc'[t], y) <=> y = o
    OBVIOUS
  <2>3. Cleans(pc'[t], y) => Sees(pc'[t], y)
    BY DEF Sees
  <2> QED BY <1>2, <1>5, <2>1, <2>2, <2>3 DEF Seen, Cleaned
<1>8. ThreadInv'
  BY <1>1 DEF ThreadInv
<1>9. HeldInv'
  <2> SUFFICES ASSUME NEW y \in Sessions, NEW u \in Threads, med'[y].held = u, u # None
               PROVE  y \in Media /\ u \in Clients /\ med'[y].bound = None /\ Holds(pc'[u], y)
    BY DEF HeldInv
  <2>1. y # m
    OBVIOUS
  <2>2. med[y].held = u
    <3>1. CASE y = o
      BY <1>6, <3>1
    <3>2. CASE y # o
      BY <2>1, <3>2
    <3> QED BY <3>1, <3>2
  <2>3. y \in Media /\ u \in Clients /\ med[y].bound = None /\ Holds(pc[u], y)
    BY <1>1, <2>2 DEF HeldInv
  <2>4. u # t
    BY <2>1, <2>3 DEF Holds
  <2>5. Holds(pc'[u], y)
    BY <2>3, <2>4
  <2>6. med'[y].bound = None
    <3>1. CASE y = o
      BY <1>6, <3>1
    <3>2. CASE y # o
      BY <2>1, <2>3, <3>2
    <3> QED BY <3>1, <3>2
  <2> QED BY <2>3, <2>5, <2>6
<1>10. BoundInv'
  <2> SUFFICES ASSUME NEW d \in Calls, NEW y \in Sessions
               PROVE  /\ Live(d)' /\ y \in {call'[d].media, call'[d].dtimer} => med'[y].bound = d
                      /\ med'[y].bound = d /\ call'[d].media = y => Live(d)'
    BY DEF BoundInv
  <2>1. /\ Live(d) /\ y \in {call[d].media, call[d].dtimer} => med[y].bound = d
        /\ med[y].bound = d /\ call[d].media = y => Live(d)
    BY <1>1 DEF BoundInv
  <2>2. CASE d # c
    <3>1. call'[d] = call[d] /\ (Live(d)' <=> Live(d)) /\ d # None
      BY <2>2, PhoneAssumption DEF Live, PhoneAssumption
    <3>2. (med'[y].bound = d <=> med[y].bound = d)
      <4>1. CASE y = m
        BY <1>3, <2>2, <3>1, <4>1
      <4>2. CASE y # m /\ y = o
        BY <1>4, <1>6, <2>2, <3>1, <4>2
      <4>3. CASE y # m /\ y # o
        BY <4>3
      <4> QED BY <4>1, <4>2, <4>3
    <3> QED BY <2>1, <3>1, <3>2
  <2>3. CASE d = c
    <3>1. y = m => med'[y].bound = c
      OBVIOUS
    <3>2. y # m /\ y = call'[c].dtimer => med'[y].bound = c
      <4> SUFFICES ASSUME y # m, y = call'[c].dtimer PROVE med'[y].bound = c
        OBVIOUS
      <4>1. y # None
        BY PhoneAssumption DEF PhoneAssumption, Sessions
      <4>2. Live(c) /\ y = call[c].dtimer /\ o = None
        BY <4>1
      <4> QED BY <2>1, <2>3, <4>1, <4>2
    <3> QED BY <2>3, <3>1, <3>2
  <2> QED BY <2>2, <2>3
<1>11. LostInv'
  <2>1. ASSUME NEW y \in Media
        PROVE  /\ med'[y].drop = "paused" /\ Present(y)' => med'[y].held # None
               /\ med'[y].sess = "down" /\ med'[y].bound = None => med'[y].drop # "none" \/ Seen(y)'
    <3>1. y \in Sessions
      BY DEF Sessions
    <3>2. CASE y \notin {m, o}
      BY <1>1, <1>7, <2>1, <3>1, <3>2 DEF LostInv, Present
    <3>3. CASE y = m
      BY <1>2, <3>3
    <3>4. CASE y = o /\ y # m
      <4>1. o # None
        BY <1>4, <3>1, <3>4, PhoneAssumption DEF PhoneAssumption, Sessions
      <4> QED BY <1>7, <3>1, <3>4, <4>1
    <3> QED BY <3>2, <3>3, <3>4
  <2>2. ASSUME NEW d \in Calls, NEW y \in Sessions, Live(d)', call'[d].media = y, med'[y].sess # "up"
        PROVE  call'[d].dtimer = y \/ Unsettled(d)' \/ Seen(y)'
    <3>1. CASE d = c
      <4>1. y = m /\ med[m].sess = "down"
        BY <1>2, <2>2, <3>1 DEF Present
      <4>2. med[m].drop # "none" \/ Seen(m)
        BY <1>1, <1>3, <4>1 DEF LostInv
      <4> QED BY <1>2, <1>7, <4>1, <4>2 DEF Seen
    <3>2. CASE d # c
      <4>1. call'[d] = call[d] /\ Live(d) /\ d # None
        BY <2>2, <3>2, PhoneAssumption DEF Live, PhoneAssumption
      <4>2. med[y].bound = d
        BY <1>1, <2>2, <4>1 DEF BoundInv
      <4>3. y # m /\ y # o
        BY <1>3, <1>4, <1>6, <3>2, <4>1, <4>2
      <4>4. med'[y].sess = med[y].sess
        BY <4>3
      <4>5. call[d].dtimer = y \/ Unsettled(d) \/ Seen(y)
        BY <1>1, <2>2, <4>1, <4>4 DEF LostInv
      <4>6. Unsettled(d) => Unsettled(d)'
        <5> SUFFICES ASSUME NEW z \in Sessions, med[z].bound = d, Displaced(z) PROVE Unsettled(d)'
          BY DEF Unsettled
        <5>1. med'[z].bound = d
          <6>1. z # m /\ z # o
            BY <1>3, <1>4, <1>6, <3>2, <4>1
          <6> QED BY <6>1
        <5>2. Displaced(z)'
          BY <4>1, <5>1 DEF Displaced
        <5> QED BY <5>1, <5>2 DEF Unsettled
      <4> QED BY <1>7, <4>1, <4>5, <4>6
    <3> QED BY <3>1, <3>2
  <2> QED BY <2>1, <2>2 DEF LostInv
<1>12. OwnInv'
  <2> SUFFICES ASSUME NEW d \in Calls PROVE Own(d)'
    BY DEF OwnInv
  <2>1. Own(d) /\ d \in Sessions /\ d \in Threads /\ d # t /\ d # m
    BY <1>1, <1>2 DEF OwnInv, Sessions, Threads
  <2>2. pc'[d] = pc[d] /\ (Known(d) => Known(d)')
    BY <2>1 DEF KnownStay
  <2>3. CASE d # o
    <3>1. med'[d] = med[d]
      BY <2>1, <2>3
    <3> QED BY <1>7, <2>1, <2>2, <2>3, <3>1, OwnStays
  <2>4. CASE d = o
    <3>1. d # None
      BY PhoneAssumption DEF PhoneAssumption
    <3>2. /\ med[d].bound = c /\ med'[d].bound = None /\ med'[d].sess = med[d].sess
          /\ Cleaned(d)'
      BY <1>4, <1>7, <2>1, <2>4, <3>1
    <3> QED BY <1>2, <2>1, <2>2, <3>2 DEF Own, Present
  <2> QED BY <2>3, <2>4
<1> QED BY <1>8, <1>9, <1>10, <1>11, <1>12 DEF SessInv

\* A session that its auto answer alone is about.
LEMMA OwnKeeps ==
  ASSUME Typed, SessInv, KnownStay, CallsStay, NEW c \in Calls,
         \A y \in Sessions \ {c} : med'[y] = med[y], \A u \in Threads \ {c} : pc'[u] = pc[u],
         med'[c].bound = med[c].bound, med'[c].held = med[c].held,
         med'[c].sess = med[c].sess \/ med[c].bound = None,
         Fits(c, pc'[c]), Own(c)'
  PROVE  SessInv'
<1>1. ThreadInv /\ HeldInv /\ BoundInv /\ LostInv /\ OwnInv
  BY DEF SessInv
<1>2. c \in Sessions /\ c \in Threads /\ c \notin Clients /\ c \notin Media
  BY PhoneAssumption DEF PhoneAssumption, Sessions, Threads
<1>3. \A y \in Sessions : med'[y].bound = med[y].bound /\ med'[y].held = med[y].held
  OBVIOUS
<1>4. \A y : ~Cleans(pc[c], y) /\ ~Sees(pc[c], y) /\ ~Cleans(pc'[c], y) /\ ~Sees(pc'[c], y)
  <2>1. pc[c].go \in AutoLists /\ pc'[c].go \in AutoLists
    BY <1>1, <1>2 DEF ThreadInv, Fits
  <2>2. Careless(pc[c].go) /\ Careless(pc'[c].go)
    BY <2>1, WrittenLists
  <2> QED BY <2>2, CarelessOnes
<1>5. \A y \in Sessions : (Seen(y)' <=> Seen(y)) /\ (Cleaned(y)' <=> Cleaned(y))
  BY <1>4 DEF Seen, Cleaned
<1>6. ThreadInv'
  BY <1>1 DEF ThreadInv
<1>7. HeldInv'
  BY <1>1, <1>2, <1>3 DEF HeldInv
<1>8. BoundInv'
  <2> SUFFICES ASSUME NEW d \in Calls, NEW y \in Sessions
               PROVE  /\ Live(d)' /\ y \in {call'[d].media, call'[d].dtimer} => med'[y].bound = d
                      /\ med'[y].bound = d /\ call'[d].media = y => Live(d)'
    BY DEF BoundInv
  <2>1. /\ Live(d) /\ y \in {call[d].media, call[d].dtimer} => med[y].bound = d
        /\ med[y].bound = d /\ call[d].media = y => Live(d)
    BY <1>1 DEF BoundInv
  <2> QED BY <1>3, <2>1 DEF CallsStay
<1>9. LostInv'
  <2>1. ASSUME NEW m \in Media
        PROVE  /\ med'[m].drop = "paused" /\ Present(m)' => med'[m].held # None
               /\ med'[m].sess = "down" /\ med'[m].bound = None => med'[m].drop # "none" \/ Seen(m)'
    <3>1. m \in Sessions /\ med'[m] = med[m]
      BY <1>2 DEF Sessions
    <3> QED BY <1>1, <1>5, <3>1 DEF LostInv, Present
  <2>2. ASSUME NEW d \in Calls, NEW m \in Sessions, Live(d)', call'[d].media = m, med'[m].sess # "up"
        PROVE  call'[d].dtimer = m \/ Unsettled(d)' \/ Seen(m)'
    <3>1. Live(d) /\ call[d].media = m /\ call'[d].dtimer = call[d].dtimer
      BY <2>2 DEF CallsStay
    <3>2. Unsettled(d)' <=> Unsettled(d)
      BY <1>3, SameUnsettled DEF CallsStay
    <3>3. med[m].bound = d /\ d # None
      BY <1>1, <3>1, PhoneAssumption DEF BoundInv, PhoneAssumption
    <3>4. med[m].sess # "up"
      BY <2>2, <3>3
    <3> QED BY <1>1, <1>5, <3>1, <3>2, <3>4 DEF LostInv
  <2> QED BY <2>1, <2>2 DEF LostInv
<1>10. OwnInv'
  <2> SUFFICES ASSUME NEW d \in Calls, d # c PROVE Own(d)'
    BY DEF OwnInv
  <2>1. Own(d) /\ d \in Sessions /\ d \in Threads /\ pc'[d] = pc[d] /\ med'[d] = med[d]
    BY <1>1 DEF OwnInv, Sessions, Threads
  <2>2. Known(d) => Known(d)'
    BY DEF KnownStay
  <2> QED BY <1>5, <2>1, <2>2, OwnStays
<1> QED BY <1>6, <1>7, <1>8, <1>9, <1>10 DEF SessInv

\* The session of an auto answer takes the call.
LEMMA AdoptedKeeps ==
  ASSUME Typed, SessInv, KnownStay, NEW c \in Calls,
         Live(c)', call'[c].media = c, Live(c), call'[c].dtimer = call[c].dtimer,
         \A d \in Calls \ {c} : call'[d] = call[d], Adopting(pc[c]),
         \A y \in Sessions \ {c} : med'[y] = med[y], \A u \in Threads \ {c} : pc'[u] = pc[u],
         med'[c].bound = c, med'[c].held = med[c].held, med'[c].sess = med[c].sess,
         Fits(c, pc'[c]), ~Adopting(pc'[c]), ~Answering(pc'[c])
  PROVE  SessInv'
<1>1. ThreadInv /\ HeldInv /\ BoundInv /\ LostInv /\ OwnInv
  BY DEF SessInv
<1>2. c \in Sessions /\ c \in Threads /\ c \notin Clients /\ c \notin Media /\ c # None
  BY PhoneAssumption DEF PhoneAssumption, Sessions, Threads
<1>3. med[c].bound = None /\ ~Cleaned(c) /\ Known(c) /\ med[c].sess = "up"
  <2>1. Own(c)
    BY <1>1 DEF OwnInv
  <2>2. med[c].sess = "up" /\ ~(med[c].bound # None \/ Cleaned(c))
    BY <2>1 DEF Own
  <2>3. ~Answering(pc[c])
    BY DEF Answering, Adopting
  <2> QED BY <2>1, <2>2, <2>3 DEF Own, Present
<1>4. \A y : ~Cleans(pc[c], y) /\ ~Sees(pc[c], y) /\ ~Cleans(pc'[c], y) /\ ~Sees(pc'[c], y)
  <2>1. pc[c].go \in AutoLists /\ pc'[c].go \in AutoLists
    BY <1>1, <1>2 DEF ThreadInv, Fits
  <2>2. Careless(pc[c].go) /\ Careless(pc'[c].go)
    BY <2>1, WrittenLists
  <2> QED BY <2>2, CarelessOnes
<1>5. \A y \in Sessions : (Seen(y)' <=> Seen(y)) /\ (Cleaned(y)' <=> Cleaned(y))
  BY <1>4 DEF Seen, Cleaned
<1>6. ThreadInv'
  BY <1>1 DEF ThreadInv
<1>7. HeldInv'
  <2> SUFFICES ASSUME NEW y \in Sessions, NEW u \in Threads, med'[y].held = u, u # None
               PROVE  y \in Media /\ u \in Clients /\ med'[y].bound = None /\ Holds(pc'[u], y)
    BY DEF HeldInv
  <2>1. med[y].held = u
    OBVIOUS
  <2>2. y \in Media /\ u \in Clients /\ med[y].bound = None /\ Holds(pc[u], y)
    BY <1>1, <2>1 DEF HeldInv
  <2> QED BY <1>2, <2>2
<1>8. BoundInv'
  <2> SUFFICES ASSUME NEW d \in Calls, NEW y \in Sessions
               PROVE  /\ Live(d)' /\ y \in {call'[d].media, call'[d].dtimer} => med'[y].bound = d
                      /\ med'[y].bound = d /\ call'[d].media = y => Live(d)'
    BY DEF BoundInv
  <2>1. /\ Live(d) /\ y \in {call[d].media, call[d].dtimer} => med[y].bound = d
        /\ med[y].bound = d /\ call[d].media = y => Live(d)
    BY <1>1 DEF BoundInv
  <2>2. CASE d = c
    <3>1. CASE y = c
      BY <2>2, <3>1
    <3>2. CASE y # c
      BY <2>1, <2>2, <3>2
    <3> QED BY <3>1, <3>2
  <2>3. CASE d # c
    <3>1. call'[d] = call[d] /\ (Live(d)' <=> Live(d)) /\ d # None
      BY <2>3, PhoneAssumption DEF Live, PhoneAssumption
    <3>2. med'[y].bound = d <=> med[y].bound = d
      BY <1>3, <2>3, <3>1
    <3> QED BY <2>1, <3>1, <3>2
  <2> QED BY <2>2, <2>3
<1>9. LostInv'
  <2>1. ASSUME NEW m \in Media
        PROVE  /\ med'[m].drop = "paused" /\ Present(m)' => med'[m].held # None
               /\ med'[m].sess = "down" /\ med'[m].bound = None => med'[m].drop # "none" \/ Seen(m)'
    <3>1. m \in Sessions /\ med'[m] = med[m]
      BY <1>2 DEF Sessions
    <3> QED BY <1>1, <1>5, <3>1 DEF LostInv, Present
  <2>2. ASSUME NEW d \in Calls, NEW m \in Sessions, Live(d)', call'[d].media = m, med'[m].sess # "up"
        PROVE  call'[d].dtimer = m \/ Unsettled(d)' \/ Seen(m)'
    <3>1. d # c
      BY <1>3, <2>2
    <3>2. call'[d] = call[d] /\ Live(d)
      BY <2>2, <3>1 DEF Live
    <3>3. med[m].bound = d /\ d # None
      BY <1>1, <2>2, <3>2, PhoneAssumption DEF BoundInv, PhoneAssumption
    <3>4. m # c
      BY <1>3, <3>3
    <3>5. call[d].dtimer = m \/ Unsettled(d) \/ Seen(m)
      BY <1>1, <2>2, <3>2, <3>4 DEF LostInv
    <3>6. Unsettled(d) => Unsettled(d)'
      <4> SUFFICES ASSUME NEW z \in Sessions, med[z].bound = d, Displaced(z) PROVE Unsettled(d)'
        BY DEF Unsettled
      <4>1. med'[z].bound = d
        BY <1>3, <3>3
      <4>2. Displaced(z)'
        BY <3>2, <4>1 DEF Displaced
      <4> QED BY <4>1, <4>2 DEF Unsettled
    <3> QED BY <1>5, <3>2, <3>5, <3>6
  <2> QED BY <2>1, <2>2 DEF LostInv
<1>10. OwnInv'
  <2> SUFFICES ASSUME NEW d \in Calls PROVE Own(d)'
    BY DEF OwnInv
  <2>1. Own(d) /\ d \in Sessions /\ d \in Threads
    BY <1>1 DEF OwnInv, Sessions, Threads
  <2>2. Known(d) => Known(d)'
    BY DEF KnownStay
  <2>3. CASE d = c
    <3>1. ~Cleaned(c)' /\ Known(c)'
      BY <1>2, <1>3, <1>5, <2>2, <2>3
    <3>2. Own(c)'
      BY <1>2, <1>3, <3>1 DEF Own, Present
    <3> QED BY <2>3, <3>2
  <2>4. CASE d # c
    BY <1>5, <2>1, <2>2, <2>4, OwnStays
  <2> QED BY <2>3, <2>4
<1> QED BY <1>6, <1>7, <1>8, <1>9, <1>10 DEF SessInv

\* The connection of session m comes back: if another session has the call that m is
\* bound to, m was displaced.
LEMMA ReturnKeeps ==
  ASSUME Typed, SessInv, NEW m \in Media, MediaUp(m)
  PROVE  SessInv'
<1>1. ThreadInv /\ HeldInv /\ BoundInv /\ LostInv /\ OwnInv
  BY DEF SessInv
<1>2. m \in Sessions /\ m \notin Calls /\ \A y \in Sessions : y # None
  BY PhoneAssumption DEF PhoneAssumption, Sessions
<1>3. /\ \A y \in Sessions \ {m} : med'[y] = med[y]
      /\ med'[m].sess = "up" /\ med'[m].drop = "none" /\ med'[m].bound = med[m].bound /\ med'[m].held = med[m].held
  BY <1>2 DEF MediaUp, Typed, SessionRecords
<1>4. med[m].bound \in OrNone(Calls)
  BY <1>2 DEF Typed, SessionRecords
<1>5. \A d \in Calls :
        /\ call'[d].media = call[d].media /\ (Live(d)' <=> Live(d))
        /\ call'[d].dtimer = (IF med[m].bound = d /\ call[d].reg THEN None ELSE call[d].dtimer)
  <2>1. /\ call \in [Calls -> CallRecords] /\ None \notin Calls
        /\ call' = IF med[m].bound # None /\ call[med[m].bound].reg
                   THEN [call EXCEPT ![med[m].bound].dtimer = None, ![med[m].bound].armed = FALSE] ELSE call
    BY PhoneAssumption DEF MediaUp, Typed, PhoneAssumption
  <2>2. CASE med[m].bound # None /\ call[med[m].bound].reg
    <3>1. PICK b \in Calls : b = med[m].bound
      BY <1>4, <2>2 DEF OrNone
    <3>2. call' = [call EXCEPT ![b].dtimer = None, ![b].armed = FALSE]
      BY <2>1, <2>2, <3>1
    <3>3. \A d \in Calls : /\ call'[d].media = call[d].media /\ call'[d].reg = call[d].reg
                           /\ call'[d].status = call[d].status
                           /\ call'[d].dtimer = IF b = d THEN None ELSE call[d].dtimer
      BY <2>1, <3>2 DEF CallRecords
    <3> QED BY <2>2, <3>1, <3>3 DEF Live
  <2>3. CASE med[m].bound = None \/ ~call[med[m].bound].reg
    <3>1. call' = call
      BY <2>1, <2>3
    <3> QED BY <2>1, <2>3, <3>1 DEF Live
  <2> QED BY <2>2, <2>3
<1>6. UNCHANGED <<pc, net>>
  BY DEF MediaUp, gateway
<1>7. ThreadInv'
  BY <1>1, <1>6 DEF ThreadInv
<1>8. HeldInv'
  <2> SUFFICES ASSUME NEW y \in Sessions, NEW u \in Threads, med'[y].held = u, u # None
               PROVE  y \in Media /\ u \in Clients /\ med'[y].bound = None /\ Holds(pc'[u], y)
    BY DEF HeldInv
  <2>1. med[y].held = u /\ med'[y].bound = med[y].bound
    BY <1>3
  <2> QED BY <1>1, <1>6, <2>1 DEF HeldInv
<1>9. BoundInv'
  <2> SUFFICES ASSUME NEW d \in Calls, NEW y \in Sessions
               PROVE  /\ Live(d)' /\ y \in {call'[d].media, call'[d].dtimer} => med'[y].bound = d
                      /\ med'[y].bound = d /\ call'[d].media = y => Live(d)'
    BY DEF BoundInv
  <2>1. /\ Live(d) /\ y \in {call[d].media, call[d].dtimer} => med[y].bound = d
        /\ med[y].bound = d /\ call[d].media = y => Live(d)
    BY <1>1 DEF BoundInv
  <2>2. med'[y].bound = med[y].bound /\ y # None
    BY <1>2, <1>3
  <2> QED BY <1>5, <2>1, <2>2
<1>10. \A y \in Sessions : (Seen(y)' <=> Seen(y)) /\ (Cleaned(y)' <=> Cleaned(y))
  BY <1>6 DEF Seen, Cleaned
<1>11. \A d \in Calls : Unsettled(d)' <=> Unsettled(d)
  <2>1. \A y \in Sessions : med'[y].bound = med[y].bound
    BY <1>3
  <2> QED BY <1>5, <2>1, SameUnsettled
<1>12. LostInv'
  <2>1. ASSUME NEW y \in Media
        PROVE  /\ med'[y].drop = "paused" /\ Present(y)' => med'[y].held # None
               /\ med'[y].sess = "down" /\ med'[y].bound = None => med'[y].drop # "none" \/ Seen(y)'
    <3>1. y \in Sessions
      BY DEF Sessions
    <3>2. CASE y = m
      BY <1>3, <3>2
    <3>3. CASE y # m
      BY <1>1, <1>3, <1>10, <3>1, <3>3 DEF LostInv, Present
    <3> QED BY <3>2, <3>3
  <2>2. ASSUME NEW d \in Calls, NEW y \in Sessions, Live(d)', call'[d].media = y, med'[y].sess # "up"
        PROVE  call'[d].dtimer = y \/ Unsettled(d)' \/ Seen(y)'
    <3>1. y # m /\ Live(d) /\ call[d].media = y
      BY <1>3, <1>5, <2>2
    <3>2. CASE med[m].bound = d
      <4>1. Displaced(m)
        BY <1>2, <3>1, <3>2, PhoneAssumption DEF Displaced, PhoneAssumption
      <4>2. Unsettled(d)
        BY <1>2, <3>2, <4>1 DEF Unsettled
      <4> QED BY <1>11, <4>2
    <3>3. CASE med[m].bound # d
      <4>1. call'[d].dtimer = call[d].dtimer /\ med[y].sess # "up"
        BY <1>3, <1>5, <2>2, <3>1, <3>3
      <4> QED BY <1>1, <1>10, <1>11, <3>1, <4>1 DEF LostInv
    <3> QED BY <3>2, <3>3
  <2> QED BY <2>1, <2>2 DEF LostInv
<1>13. OwnInv'
  <2> SUFFICES ASSUME NEW d \in Calls PROVE Own(d)'
    BY DEF OwnInv
  <2>1. Own(d) /\ d \in Sessions /\ med'[d] = med[d] /\ pc'[d] = pc[d]
    BY <1>1, <1>2, <1>3, <1>6 DEF OwnInv, Sessions
  <2>2. Known(d) => Known(d)'
    BY <1>6 DEF Known
  <2> QED BY <1>10, <2>1, <2>2, OwnStays
<1> QED BY <1>7, <1>8, <1>9, <1>12, <1>13 DEF SessInv

\* A call enters Service.calls without a session.
LEMMA NewcomerKeeps ==
  ASSUME Typed, SessInv, KnownStay, Unforgotten, UNCHANGED med, NEW c \in Calls, ~Live(c),
         call'[c].media = None, call'[c].dtimer = None, \A d \in Calls \ {c} : call'[d] = call[d]
  PROVE  SessInv'
<1>1. ThreadInv /\ HeldInv /\ BoundInv /\ LostInv /\ OwnInv
  BY DEF SessInv
<1>2. /\ \A y \in Sessions : (Seen(y) => Seen(y)') /\ (Cleaned(y)' <=> Cleaned(y))
      /\ \A t \in Threads : Fits(t, pc'[t]) /\ \A y \in Sessions : Holds(pc[t], y) => Holds(pc'[t], y)
  BY DEF Seen, Cleaned, Unforgotten, Follows, Tends
<1>3. \A y \in Sessions : y # None
  BY PhoneAssumption DEF PhoneAssumption, Sessions
<1>4. ThreadInv'
  BY <1>2 DEF ThreadInv
<1>5. HeldInv'
  BY <1>1, <1>2 DEF HeldInv
<1>6. BoundInv'
  <2> SUFFICES ASSUME NEW d \in Calls, NEW y \in Sessions
               PROVE  /\ Live(d)' /\ y \in {call'[d].media, call'[d].dtimer} => med'[y].bound = d
                      /\ med'[y].bound = d /\ call'[d].media = y => Live(d)'
    BY DEF BoundInv
  <2>1. /\ Live(d) /\ y \in {call[d].media, call[d].dtimer} => med[y].bound = d
        /\ med[y].bound = d /\ call[d].media = y => Live(d)
    BY <1>1 DEF BoundInv
  <2>2. CASE d = c
    BY <1>3, <2>2
  <2>3. CASE d # c
    <3>1. call'[d] = call[d] /\ (Live(d)' <=> Live(d))
      BY <2>3 DEF Live
    <3> QED BY <2>1, <3>1
  <2> QED BY <2>2, <2>3
<1>7. LostInv'
  <2>1. ASSUME NEW m \in Media
        PROVE  /\ med'[m].drop = "paused" /\ Present(m)' => med'[m].held # None
               /\ med'[m].sess = "down" /\ med'[m].bound = None => med'[m].drop # "none" \/ Seen(m)'
    BY <1>1, <1>2 DEF LostInv, Present, Sessions
  <2>2. ASSUME NEW d \in Calls, NEW m \in Sessions, Live(d)', call'[d].media = m, med'[m].sess # "up"
        PROVE  call'[d].dtimer = m \/ Unsettled(d)' \/ Seen(m)'
    <3>1. d # c
      BY <1>3, <2>2
    <3>2. call'[d] = call[d] /\ Live(d) /\ d # None
      BY <2>2, <3>1, PhoneAssumption DEF Live, PhoneAssumption
    <3>3. call[d].dtimer = m \/ Unsettled(d) \/ Seen(m)
      BY <1>1, <2>2, <3>2 DEF LostInv
    <3>4. Unsettled(d) => Unsettled(d)'
      BY <3>2 DEF Unsettled, Displaced
    <3> QED BY <1>2, <3>2, <3>3, <3>4
  <2> QED BY <2>1, <2>2 DEF LostInv
<1>8. OwnInv'
  <2> SUFFICES ASSUME NEW d \in Calls PROVE Own(d)'
    BY DEF OwnInv
  <2>1. Own(d) /\ d \in Sessions /\ d \in Threads
    BY <1>1 DEF OwnInv, Sessions, Threads
  <2>2. /\ Answering(pc'[d]) <=> Answering(pc[d])
        /\ Adopting(pc'[d]) <=> Adopting(pc[d])
        /\ Answering(pc[d]) \/ Adopting(pc[d]) => pc'[d].m = pc[d].m
    BY <2>1 DEF Unforgotten, Follows, Tends
  <2>3. Known(d) => Known(d)'
    BY DEF KnownStay
  <2> QED BY <1>2, <2>1, <2>2, <2>3, OwnStays
<1> QED BY <1>4, <1>5, <1>6, <1>7, <1>8 DEF SessInv

\* The call of goroutine t is over: it lets its session o go, which t is to remove.
LEMMA FinishedKeeps ==
  ASSUME Typed, SessInv, UNCHANGED net, NEW t \in Threads, NEW c \in Calls, NEW o \in OrNone(Sessions),
         Live(c), call[c].media = o, ~Live(c)', call'[c].media = o,
         \A d \in Calls \ {c} : call'[d] = call[d],
         \A y \in Sessions \ {o} : med'[y] = med[y],
         o # None => /\ med'[o].sess = med[o].sess /\ med'[o].held = med[o].held
                     /\ med'[o].bound = None /\ med'[o].drop = "none",
         \A u \in Threads \ {t} : pc'[u] = pc[u],
         pc[t].todo # <<>>, Careless(pc[t].go), Fits(t, pc'[t]),
         \A y \in Sessions : Cleans(pc'[t], y) <=> y = o
  PROVE  SessInv'
<1>1. ThreadInv /\ HeldInv /\ BoundInv /\ LostInv /\ OwnInv
  BY DEF SessInv
<1>2. t \notin Calls
  BY <1>1 DEF ThreadInv, Fits
<1>3. c # None /\ \A y \in Sessions : y # None
  BY PhoneAssumption DEF PhoneAssumption, Sessions
<1>4. o # None => o \in Sessions /\ med[o].bound = c
  BY <1>1 DEF BoundInv, OrNone
<1>5. \A y : ~Cleans(pc[t], y) /\ ~Sees(pc[t], y)
  BY CarelessOnes
<1>6. \A y \in Sessions : /\ Seen(y) => Seen(y)'
                          /\ y # o => (Cleaned(y)' <=> Cleaned(y))
                          /\ y = o => Cleaned(y)' /\ Seen(y)'
  <2> SUFFICES ASSUME NEW y \in Sessions
               PROVE  /\ Seen(y) => Seen(y)'
                      /\ y # o => (Cleaned(y)' <=> Cleaned(y))
                      /\ y = o => Cleaned(y)' /\ Seen(y)'
    OBVIOUS
  <2>1. \A u \in Threads \ {t} : (Cleans(pc'[u], y) <=> Cleans(pc[u], y)) /\ (Sees(pc'[u], y) <=> Sees(pc[u], y))
    OBVIOUS
  <2>2. Cleans(pc'[t], y) <=> y = o
    OBVIOUS
  <2>3. Cleans(pc'[t], y) => Sees(pc'[t], y)
    BY DEF Sees
  <2> QED BY <1>5, <2>1, <2>2, <2>3 DEF Seen, Cleaned
<1>7. ThreadInv'
  BY <1>1 DEF ThreadInv
<1>8. HeldInv'
  <2> SUFFICES ASSUME NEW y \in Sessions, NEW u \in Threads, med'[y].held = u, u # None
               PROVE  y \in Media /\ u \in Clients /\ med'[y].bound = None /\ Holds(pc'[u], y)
    BY DEF HeldInv
  <2>1. med[y].held = u
    <3>1. CASE y = o
      BY <1>3, <3>1
    <3>2. CASE y # o
      BY <3>2
    <3> QED BY <3>1, <3>2
  <2>2. y \in Media /\ u \in Clients /\ med[y].bound = None /\ Holds(pc[u], y)
    BY <1>1, <2>1 DEF HeldInv
  <2>3. u # t
    BY <2>2 DEF Holds
  <2>4. med'[y].bound = None
    <3>1. CASE y = o
      BY <1>3, <3>1
    <3>2. CASE y # o
      BY <2>2, <3>2
    <3> QED BY <3>1, <3>2
  <2> QED BY <2>2, <2>3, <2>4
<1>9. BoundInv'
  <2> SUFFICES ASSUME NEW d \in Calls, NEW y \in Sessions
               PROVE  /\ Live(d)' /\ y \in {call'[d].media, call'[d].dtimer} => med'[y].bound = d
                      /\ med'[y].bound = d /\ call'[d].media = y => Live(d)'
    BY DEF BoundInv
  <2>1. /\ Live(d) /\ y \in {call[d].media, call[d].dtimer} => med[y].bound = d
        /\ med[y].bound = d /\ call[d].media = y => Live(d)
    BY <1>1 DEF BoundInv
  <2>2. CASE d # c
    <3>1. call'[d] = call[d] /\ (Live(d)' <=> Live(d)) /\ d # None
      BY <2>2, PhoneAssumption DEF Live, PhoneAssumption
    <3>2. (med'[y].bound = d <=> med[y].bound = d)
      <4>1. CASE y = o
        BY <1>3, <1>4, <2>2, <3>1, <4>1
      <4>2. CASE y # o
        BY <4>2
      <4> QED BY <4>1, <4>2
    <3> QED BY <2>1, <3>1, <3>2
  <2>3. CASE d = c
    <3>1. y = o => med'[y].bound = None
      BY <1>3
    <3> QED BY <1>3, <2>3, <3>1
  <2> QED BY <2>2, <2>3
<1>10. LostInv'
  <2>1. ASSUME NEW y \in Media
        PROVE  /\ med'[y].drop = "paused" /\ Present(y)' => med'[y].held # None
               /\ med'[y].sess = "down" /\ med'[y].bound = None => med'[y].drop # "none" \/ Seen(y)'
    <3>1. y \in Sessions
      BY DEF Sessions
    <3>2. CASE y # o
      BY <1>1, <1>6, <2>1, <3>1, <3>2 DEF LostInv, Present
    <3>3. CASE y = o
      BY <1>3, <1>6, <3>1, <3>3
    <3> QED BY <3>2, <3>3
  <2>2. ASSUME NEW d \in Calls, NEW y \in Sessions, Live(d)', call'[d].media = y, med'[y].sess # "up"
        PROVE  call'[d].dtimer = y \/ Unsettled(d)' \/ Seen(y)'
    <3>1. d # c
      BY <2>2
    <3>2. call'[d] = call[d] /\ Live(d) /\ d # None
      BY <2>2, <3>1, PhoneAssumption DEF Live, PhoneAssumption
    <3>3. med[y].bound = d
      BY <1>1, <2>2, <3>2 DEF BoundInv
    <3>4. y # o
      BY <1>3, <1>4, <3>1, <3>3
    <3>5. med'[y].sess = med[y].sess
      BY <3>4
    <3>6. call[d].dtimer = y \/ Unsettled(d) \/ Seen(y)
      BY <1>1, <2>2, <3>2, <3>5 DEF LostInv
    <3>7. Unsettled(d) => Unsettled(d)'
      <4> SUFFICES ASSUME NEW z \in Sessions, med[z].bound = d, Displaced(z) PROVE Unsettled(d)'
        BY DEF Unsettled
      <4>1. med'[z].bound = d
        <5>1. z # o
          BY <1>3, <1>4, <3>1
        <5> QED BY <5>1
      <4>2. Displaced(z)'
        BY <3>2, <4>1 DEF Displaced
      <4> QED BY <4>1, <4>2 DEF Unsettled
    <3> QED BY <1>6, <3>2, <3>6, <3>7
  <2> QED BY <2>1, <2>2 DEF LostInv
<1>11. OwnInv'
  <2> SUFFICES ASSUME NEW d \in Calls PROVE Own(d)'
    BY DEF OwnInv
  <2>1. Own(d) /\ d \in Sessions /\ d \in Threads /\ d # t
    BY <1>1, <1>2 DEF OwnInv, Sessions, Threads
  <2>2. pc'[d] = pc[d] /\ (Known(d)' <=> Known(d))
    BY <2>1 DEF Known
  <2>3. CASE d # o
    <3>1. med'[d] = med[d]
      BY <2>1, <2>3
    <3> QED BY <1>6, <2>1, <2>2, <2>3, <3>1, OwnStays
  <2>4. CASE d = o
    <3>1. med[d].bound = c /\ med'[d].bound = None /\ med'[d].sess = med[d].sess /\ Cleaned(d)'
      BY <1>3, <1>4, <1>6, <2>1, <2>4
    <3> QED BY <1>3, <2>1, <2>2, <3>1 DEF Own, Present
  <2> QED BY <2>3, <2>4
<1> QED BY <1>7, <1>8, <1>9, <1>10, <1>11 DEF SessInv

\* A session that is not to be had is given up.
LEMMA UnheldKeeps ==
  ASSUME Typed, SessInv, KnownStay, CallsStay, Unforgotten, NEW m \in Media, NEW t \in Threads,
         \/ UNCHANGED med
         \/ ~Bindable(m, t) /\ med' = Unheld(m, t)
  PROVE  SessInv'
<1>1. CASE UNCHANGED med
  BY <1>1, FrameKeeps
<1>2. CASE ~Bindable(m, t) /\ med' = Unheld(m, t) /\ med[m].held = t
  <2>1. m \in Sessions /\ HeldInv /\ LostInv /\ med \in [Sessions -> SessionRecords]
    BY DEF SessInv, Sessions, Typed
  <2>2. /\ \A y \in Sessions \ {m} : med'[y] = med[y]
        /\ med'[m].held = None /\ med'[m].bound = med[m].bound /\ med'[m].sess = med[m].sess
        /\ med'[m].drop = med[m].drop /\ ~Present(m)
    BY <1>2, <2>1 DEF Unheld, Bindable, SessionRecords
  <2>3. \A u \in Threads : Tends(u, pc[u], pc'[u]) /\ \A y \in Sessions : Holds(pc[u], y) => Holds(pc'[u], y)
    BY DEF Unforgotten, Follows
  <2>4. HeldInv'
    <3> SUFFICES ASSUME NEW y \in Sessions, NEW u \in Threads, med'[y].held = u, u # None
                 PROVE  y \in Media /\ u \in Clients /\ med'[y].bound = None /\ Holds(pc'[u], y)
      BY DEF HeldInv
    <3>1. y # m
      BY <2>2
    <3>2. med'[y] = med[y]
      BY <2>2, <3>1
    <3> QED BY <2>1, <2>3, <3>2 DEF HeldInv
  <2>5. \A y \in Sessions : med'[y].bound = med[y].bound /\ med'[y].sess = med[y].sess /\ med'[y].drop = med[y].drop
    BY <2>2
  <2>6. \A y \in Media : med'[y].drop = "paused" /\ Present(y) => med'[y].held # None
    <3> SUFFICES ASSUME NEW y \in Media, med'[y].drop = "paused", Present(y) PROVE med'[y].held # None
      OBVIOUS
    <3>1. y \in Sessions /\ y # m
      BY <2>2 DEF Sessions
    <3>2. med'[y] = med[y]
      BY <2>2, <3>1
    <3> QED BY <2>1, <3>2 DEF LostInv
  <2>7. \A y \in Media : y \in Sessions
    BY DEF Sessions
  <2> QED BY <2>3, <2>4, <2>5, <2>6, <2>7, HoldKeeps
<1>3. CASE ~Bindable(m, t) /\ med' = Unheld(m, t) /\ med[m].held # t
  BY <1>3, FrameKeeps DEF Unheld
<1> QED BY <1>1, <1>2, <1>3

\* A request reserves session m.
LEMMA ReservedKeeps ==
  ASSUME Typed, SessInv, KnownStay, CallsStay, Unforgotten, NEW m \in Media, NEW t \in Clients,
         Reservable(m), med' = Reserve(m, t), Holds(pc'[t], m), pc[t] = Idle
  PROVE  SessInv'
<1>1. m \in Sessions /\ t \in Threads /\ t # None /\ HeldInv /\ LostInv /\ med \in [Sessions -> SessionRecords]
  BY PhoneAssumption DEF SessInv, Sessions, Threads, Typed, PhoneAssumption
<1>2. /\ \A y \in Sessions \ {m} : med'[y] = med[y]
      /\ med'[m].held = t /\ med'[m].bound = None /\ med[m].bound = None /\ med'[m].sess = med[m].sess
      /\ med'[m].drop = "none" <=> med[m].drop = "none"
  BY <1>1 DEF Reserve, Reservable, SessionRecords
<1>3. \A u \in Threads : Tends(u, pc[u], pc'[u]) /\ \A y \in Sessions : Holds(pc[u], y) => Holds(pc'[u], y)
  BY DEF Unforgotten, Follows
<1>4. HeldInv'
  <2> SUFFICES ASSUME NEW y \in Sessions, NEW u \in Threads, med'[y].held = u, u # None
               PROVE  y \in Media /\ u \in Clients /\ med'[y].bound = None /\ Holds(pc'[u], y)
    BY DEF HeldInv
  <2>1. CASE y = m
    BY <1>2, <2>1
  <2>2. CASE y # m
    <3>1. med'[y] = med[y]
      BY <1>2, <2>2
    <3> QED BY <1>1, <1>3, <3>1 DEF HeldInv
  <2> QED BY <2>1, <2>2
<1>5. \A y \in Sessions : med'[y].bound = med[y].bound /\ med'[y].sess = med[y].sess
  BY <1>2
<1>6. \A y \in Media : /\ med'[y].drop = "paused" /\ Present(y) => med'[y].held # None
                       /\ med[y].bound = None /\ med[y].drop # "none" => med'[y].drop # "none"
  <2> SUFFICES ASSUME NEW y \in Media
               PROVE  /\ med'[y].drop = "paused" /\ Present(y) => med'[y].held # None
                      /\ med[y].bound = None /\ med[y].drop # "none" => med'[y].drop # "none"
    OBVIOUS
  <2>1. CASE y = m
    BY <1>1, <1>2, <2>1
  <2>2. CASE y # m
    <3>1. y \in Sessions /\ med'[y] = med[y]
      BY <1>2, <2>2 DEF Sessions
    <3> QED BY <1>1, <3>1 DEF LostInv
  <2> QED BY <2>1, <2>2
<1> QED BY <1>3, <1>4, <1>5, <1>6, HoldKeeps
-----------------------------------------------------------------------------
(* What every step does about the sessions *)

\* The gateway is not asked twice to answer a call.
LEMMA OnceKnown ==
  ASSUME Typed
  PROVE  /\ UNCHANGED net => KnownStay
         /\ \A c \in Calls : \A x : net' = [net EXCEPT ![c] = x] /\ (x \in {"none", "offered"} => ~Known(c)) => KnownStay
         /\ \A c \in Calls : EndsCall(c) \/ HangupFails(c) \/ RejectFails(c) => KnownStay
<1>1. UNCHANGED net => KnownStay
  BY DEF KnownStay, Known
<1>2. ASSUME NEW c \in Calls, NEW x, net' = [net EXCEPT ![c] = x], x \in {"none", "offered"} => ~Known(c)
      PROVE  KnownStay
  BY <1>2 DEF KnownStay, Known, Typed
<1>3. ASSUME NEW c \in Calls, EndsCall(c) \/ HangupFails(c) \/ RejectFails(c)
      PROVE  KnownStay
  <2>1. UNCHANGED net \/ net' = [net EXCEPT ![c] = "gone"]
    BY <1>3 DEF EndsCall, EndFails, HangupFails, RejectFails, Ended
  <2> QED BY <1>1, <1>2, <2>1
<1> QED BY <1>1, <1>2, <1>3

\* One call changes in what is not about a session.
LEMMA OneCallStays ==
  ASSUME Typed, NEW c \in Calls, NEW r, call' = [call EXCEPT ![c] = r],
         r.media = call[c].media, (r.reg /\ r.status \in Active) <=> Live(c), Live(c) => r.dtimer = call[c].dtimer
  PROVE  CallsStay
<1>1. call'[c] = r /\ \A d \in Calls \ {c} : call'[d] = call[d]
  BY DEF Typed
<1> QED BY <1>1 DEF CallsStay, Live

\* The gateway.
LEMMA GatewaySess ==
  ASSUME Typed, SessInv, NEW c \in Calls, NetOffer(c) \/ NetBusy(c) \/ NetProgress(c) \/ NetEnd(c)
  PROVE  SessInv'
<1>1. UNCHANGED <<call, med, pc>>
  BY DEF NetOffer, NetBusy, NetProgress, NetEnd
<1>2. KnownStay
  <2>1. \E x : net' = [net EXCEPT ![c] = x] /\ (x \in {"none", "offered"} => ~Known(c))
    BY DEF NetOffer, NetBusy, NetProgress, NetEnd, Ended, Known
  <2> QED BY <2>1, OnceKnown
<1>3. CallsStay
  BY <1>1 DEF CallsStay, Live
<1>4. Unforgotten
  BY <1>1, Unmoving DEF SessInv
<1> QED BY <1>1, <1>2, <1>3, <1>4, FrameKeeps

\* Timers that fire, the prompt of the auto answer, the history, the setting, and nothing.
LEMMA TimersSess ==
  ASSUME Typed, SessInv,
         \/ \E c \in Calls : DisconnectFires(c) \/ AutoAnswerFires(c) \/ PromptFails(c) \/ DeleteHistory(c)
         \/ \E f \in fired : ExpireDisconnected(f) \/ HangupExpired(f)
         \/ \E on \in BOOLEAN : ConfigureAutoAnswer(on)
         \/ UNCHANGED vars
  PROVE  SessInv'
<1>1. UNCHANGED <<med, pc>>
  BY DEF DisconnectFires, AutoAnswerFires, PromptFails, DeleteHistory, ExpireDisconnected, HangupExpired,
         ConfigureAutoAnswer, vars
<1>2. KnownStay
  <2>1. CASE UNCHANGED net
    BY <2>1, OnceKnown
  <2>2. CASE \E f \in fired : HangupExpired(f)
    <3>1. PICK f \in fired : HangupExpired(f)
      BY <2>2
    <3>2. f.c \in Calls
      BY DEF Typed, Callbacks
    <3> QED BY <3>1, <3>2, OnceKnown DEF HangupExpired
  <2> QED BY <2>1, <2>2 DEF DisconnectFires, AutoAnswerFires, PromptFails, DeleteHistory, ExpireDisconnected,
                            ConfigureAutoAnswer, vars, gateway
<1>3. CallsStay
  <2>1. CASE UNCHANGED call
    BY <2>1 DEF CallsStay, Live
  <2>2. CASE \E c \in Calls : DisconnectFires(c) \/ AutoAnswerFires(c)
    <3>1. PICK c \in Calls : DisconnectFires(c) \/ AutoAnswerFires(c)
      BY <2>2
    <3>2. \E r : /\ call' = [call EXCEPT ![c] = r] /\ r.media = call[c].media /\ r.reg = call[c].reg
                 /\ r.status = call[c].status /\ r.dtimer = call[c].dtimer
      <4>1. call[c] \in CallRecords
        BY DEF Typed
      <4>2. \/ call' = [call EXCEPT ![c] = [call[c] EXCEPT !.armed = FALSE]]
            \/ call' = [call EXCEPT ![c] = [call[c] EXCEPT !.atimer = FALSE]]
        BY <3>1 DEF DisconnectFires, AutoAnswerFires
      <4> QED BY <4>1, <4>2 DEF CallRecords
    <3> QED BY <3>2, OneCallStays DEF Live
  <2>3. CASE \E on \in BOOLEAN : ConfigureAutoAnswer(on)
    <3>1. \A c \in Calls : /\ call'[c].media = call[c].media /\ call'[c].reg = call[c].reg
                           /\ call'[c].status = call[c].status /\ call'[c].dtimer = call[c].dtimer
      <4>1. \A c \in Calls : call[c] \in CallRecords
        BY DEF Typed
      <4>2. PICK on \in BOOLEAN : ConfigureAutoAnswer(on)
        BY <2>3
      <4>3. \A c \in Calls : \E b : call'[c] = IF call[c].reg THEN [call[c] EXCEPT !.atimer = b] ELSE call[c]
        BY <4>2 DEF ConfigureAutoAnswer
      <4> QED BY <4>1, <4>3 DEF CallRecords
    <3> QED BY <3>1 DEF CallsStay, Live
  <2> QED BY <2>1, <2>2, <2>3 DEF PromptFails, DeleteHistory, ExpireDisconnected, HangupExpired, vars
<1>4. Unforgotten
  BY <1>1, Unmoving DEF SessInv
<1> QED BY <1>1, <1>2, <1>3, <1>4, FrameKeeps

\* Nobody moves, and session x is lost or removed.
LEMMA Untouched ==
  ASSUME SessInv, UNCHANGED pc, NEW x
  PROVE  /\ \A t \in Threads : FollowsBut(t, pc[t], pc'[t], x)
         /\ Cleaned(x) => Cleaned(x)'
BY DEF SessInv, ThreadInv, FollowsBut, Cleaned

\* What scheduleDisconnectHangup does to the calls.
LEMMA DisconnectedTimer ==
  ASSUME Typed, NEW m \in Sessions
  PROVE  \A c \in Calls :
           /\ Disconnected(m)[c].media = call[c].media
           /\ Live(c) => Disconnected(m)[c].dtimer =
                           IF med[m].bound = c /\ call[c].media = m /\ call[c].dtimer = None THEN m
                           ELSE call[c].dtimer
<1>1. m # None /\ None \notin Calls
  BY PhoneAssumption DEF PhoneAssumption, Sessions
<1>2. med[m].bound \in OrNone(Calls) /\ \A c \in Calls : call[c] \in CallRecords /\ DOMAIN call = Calls
  BY DEF Typed, SessionRecords
<1>3. CASE med[m].bound = None
  BY <1>1, <1>3 DEF Disconnected
<1>4. CASE med[m].bound # None
  <2>1. PICK b \in Calls : b = med[m].bound
    BY <1>2, <1>4 DEF OrNone
  <2>2. Disconnected(m) = IF Live(b) /\ call[b].media = m /\ call[b].dtimer = None
                          THEN [call EXCEPT ![b].dtimer = m, ![b].armed = TRUE] ELSE call
    BY <1>1, <2>1 DEF Disconnected
  <2>3. CASE Live(b) /\ call[b].media = m /\ call[b].dtimer = None
    <3>1. Disconnected(m) = [call EXCEPT ![b].dtimer = m, ![b].armed = TRUE]
      BY <2>2, <2>3
    <3>2. \A c \in Calls : Disconnected(m)[c].media = call[c].media
                           /\ Disconnected(m)[c].dtimer = IF c = b THEN m ELSE call[c].dtimer
      BY <1>2, <3>1 DEF CallRecords
    <3> QED BY <2>1, <2>3, <3>2
  <2>4. CASE ~(Live(b) /\ call[b].media = m /\ call[b].dtimer = None)
    BY <2>1, <2>2, <2>4
  <2> QED BY <2>3, <2>4
<1> QED BY <1>3, <1>4

\* ... and they are as much in progress as before.
LEMMA DisconnectedLive ==
  ASSUME Typed, NEW m \in OrNone(Sessions),
         \A c \in Calls : call'[c].reg = Disconnected(m)[c].reg /\ call'[c].status = Disconnected(m)[c].status
  PROVE  \A c \in Calls : Live(c)' <=> Live(c)
BY DisconnectedKeeps DEF Live

\* Connections of browsers, and sessions that nobody wants.
LEMMA ConnectionsSess ==
  ASSUME Typed, Typed', Shaped, Shaped', SessInv, NEW m \in Media,
         MediaDown(m) \/ MediaUp(m) \/ CancelMedia(m) \/ ExpireUnbound(m)
  PROVE  SessInv'
<1>1. m \in Sessions /\ m \notin Calls /\ m # None /\ med \in [Sessions -> SessionRecords]
  BY PhoneAssumption DEF PhoneAssumption, Sessions, Typed
<1>2. CASE MediaUp(m)
  BY <1>2, ReturnKeeps
<1>3. CASE MediaDown(m)
  <2>1. UNCHANGED <<pc, net>> /\ ScheduleDrop(m, "down") /\ med[m].sess = "up"
    BY <1>3 DEF MediaDown, gateway
  <2>2. KnownStay
    BY <2>1, OnceKnown
  <2>3. /\ \A y \in Sessions \ {m} : med'[y] = med[y]
        /\ med'[m].bound = med[m].bound /\ med'[m].held = med[m].held
        /\ med[m].bound = None => med'[m].drop # "none"
        /\ med'[m].drop = "paused" => med[m].drop = "paused" \/ med[m].held # None
    BY <1>1, <2>1 DEF ScheduleDrop, Present, SessionRecords
  <2>4. call' = Disconnected(m) /\ m \in OrNone(Sessions)
    BY <1>1, <2>1 DEF ScheduleDrop, OrNone
  <2>5. /\ \A c \in Calls : call'[c].media = call[c].media /\ (Live(c)' <=> Live(c))
        /\ \A c \in Calls : Live(c) =>
              call'[c].dtimer = IF med[m].bound = c /\ call[c].media = m /\ call[c].dtimer = None
                                THEN m ELSE call[c].dtimer
    BY <1>1, <2>4, DisconnectedTimer, DisconnectedLive
  <2>6. Present(m)
    BY <2>1 DEF Present
  <2> QED BY <1>1, <2>1, <2>2, <2>3, <2>5, <2>6, Untouched, LossKeeps
<1>4. CASE CancelMedia(m) \/ ExpireUnbound(m)
  <2>1. /\ UNCHANGED <<pc, net, call>> /\ med[m].bound = None /\ med[m].held = None
        /\ med' = [med EXCEPT ![m] = Closed]
    BY <1>4 DEF CancelMedia, ExpireUnbound, gateway, Reservable
  <2>2. KnownStay
    BY <2>1, OnceKnown
  <2>3. /\ \A y \in Sessions \ {m} : med'[y] = med[y]
        /\ med'[m].bound = med[m].bound /\ med'[m].held = med[m].held /\ med'[m].sess = "gone"
    BY <1>1, <2>1 DEF Closed
  <2>4. \A c \in Calls : call'[c].media = call[c].media /\ (Live(c)' <=> Live(c))
    BY <2>1 DEF Live
  <2>5. \A c \in Calls : c # None
    BY PhoneAssumption DEF PhoneAssumption
  <2>6. \A c \in Calls : Live(c) =>
              call'[c].dtimer = IF med[m].bound = c /\ call[c].media = m /\ call[c].dtimer = None
                                THEN m ELSE call[c].dtimer
    BY <2>1, <2>5
  <2> QED BY <1>1, <2>1, <2>2, <2>3, <2>4, <2>6, Untouched, LossKeeps
<1> QED BY <1>2, <1>3, <1>4

\* Who looks after a session, or removes it, goes on.
LEMMA HeadGone ==
  ASSUME NEW t \in Threads, NEW p \in Locals, Fits(t, p), p.go # <<>>, Head(p.go) \in {"resume", "unlink"}
  PROVE  /\ Ordered(Tail(p.go)) /\ Has(p.go, Head(p.go))
         /\ \A a : /\ Has(Tail(p.go), a) => Has(p.go, a)
                   /\ a # Head(p.go) => (Has(Tail(p.go), a) <=> Has(p.go, a))
         /\ t \notin Calls /\ \A y : ~Holds(p, y)
<1>1. p.go \in Seq(Steps) /\ Ordered(p.go)
  BY DEF Locals, Fits
<1>2. \A a : Has(p.go, a) <=> Head(p.go) = a \/ Has(Tail(p.go), a)
  BY <1>1, WithoutHead
<1>3. Ordered(Tail(p.go))
  BY <1>1, OrderedTail
<1>4. p.go \notin AutoLists /\ p.go \notin HoldLists
  BY DEF AutoLists, HoldLists, DialLists, ClaimLists
<1> QED BY <1>2, <1>3, <1>4 DEF Fits, Holds

\* The loss of a session is taken up again.
LEMMA ResumeSess ==
  ASSUME Typed, Typed', Shaped, Shaped', SessInv, NEW t \in Threads, ResumeDrop(t)
  PROVE  SessInv'
<1> DEFINE p == pc[t]
           q == [p EXCEPT !.go = Tail(@)]
<1>1. p \in Locals /\ p.go # <<>> /\ Head(p.go) = "resume" /\ Fits(t, p)
  BY DEF ResumeDrop, At, Shaped, Shape, SessInv, ThreadInv
<1>2. q.go = Tail(p.go) /\ q.m = p.m /\ q.lease = p.lease /\ q.todo = p.todo /\ Becomes(t, q)
  BY <1>1 DEF ResumeDrop, Then, Goto, Locals
<1> HIDE DEF q
<1>3. /\ Ordered(q.go) /\ t \notin Calls /\ \A y : ~Holds(p, y)
      /\ Has(q.go, "close") <=> Has(p.go, "close")
      /\ Has(q.go, "unlink") <=> Has(p.go, "unlink")
  BY <1>1, <1>2, HeadGone
<1>4. Fits(t, q)
  BY <1>3 DEF Fits
<1>5. \A y : /\ Cleans(q, y) <=> Cleans(p, y)
             /\ y # p.m => (Sees(p, y) => Sees(q, y))
  BY <1>2, <1>3 DEF Cleans, Sees
<1>6. KnownStay
  BY OnceKnown DEF ResumeDrop, gateway
<1>7. ScheduleDrop(p.m, med[p.m].sess)
  BY DEF ResumeDrop
<1>8. CASE p.m = None
  <2>1. None \notin Sessions
    BY PhoneAssumption DEF PhoneAssumption, Sessions
  <2>2. UNCHANGED call
    BY <1>7, <1>8 DEF ScheduleDrop, Disconnected
  <2>3. UNCHANGED med
    BY <1>7, <1>8, <2>1 DEF ScheduleDrop, Typed
  <2>4. Follows(t, p, q)
    BY <1>3, <1>4, <1>5, <1>8, <2>1 DEF Follows, Tends
  <2>5. Unforgotten
    BY <1>2, <2>4, Moving DEF SessInv
  <2>6. CallsStay
    BY <2>2 DEF CallsStay, Live
  <2> QED BY <1>6, <2>3, <2>5, <2>6, FrameKeeps
<1>9. CASE p.m # None
  <2>1. PICK x \in Sessions : x = p.m
    BY <1>1, <1>9 DEF Locals, OrNone
  <2>2. /\ \A u \in Threads \ {t} : pc'[u] = pc[u]
        /\ \A y : /\ (Cleans(pc'[t], y) <=> Cleans(q, y)) /\ (Sees(pc'[t], y) <=> Sees(q, y))
        /\ Fits(t, pc'[t])
    BY <1>2, <1>4, Outlook
  <2>3. \A u \in Threads : FollowsBut(u, pc[u], pc'[u], x)
    BY <1>3, <1>5, <2>1, <2>2 DEF FollowsBut, SessInv, ThreadInv
  <2>4. Cleaned(x) => Cleaned(x)'
    BY <1>5, <2>2 DEF Cleaned
  <2>5. /\ \A y \in Sessions \ {x} : med'[y] = med[y]
        /\ med'[x].bound = med[x].bound /\ med'[x].held = med[x].held /\ med'[x].sess = med[x].sess
        /\ med[x].bound = None /\ Present(x) => med'[x].drop # "none"
        /\ med'[x].drop = "paused" => med[x].drop = "paused" \/ med[x].held # None
    <3>1. med \in [Sessions -> SessionRecords]
      BY DEF Typed
    <3>2. med' = [med EXCEPT ![x].sess = med[x].sess,
                             ![x].drop = IF med[x].bound # None \/ ~Present(x) \/ @ # "none" THEN @
                                         ELSE IF med[x].held = None THEN "armed" ELSE "paused"]
      BY <1>7, <2>1 DEF ScheduleDrop
    <3> QED BY <2>1, <3>1, <3>2 DEF SessionRecords
  <2>6. call' = Disconnected(x) /\ x \in OrNone(Sessions)
    BY <1>7, <2>1 DEF ScheduleDrop, OrNone
  <2>7. /\ \A c \in Calls : call'[c].media = call[c].media /\ (Live(c)' <=> Live(c))
        /\ \A c \in Calls : Live(c) =>
              call'[c].dtimer = IF med[x].bound = c /\ call[c].media = x /\ call[c].dtimer = None
                                THEN x ELSE call[c].dtimer
    BY <2>6, DisconnectedTimer, DisconnectedLive
  <2>8. med[x].sess \in {"up", "down", "gone"}
    BY DEF Typed, SessionRecords
  <2> QED BY <1>6, <2>3, <2>4, <2>5, <2>7, <2>8, LossKeeps DEF Present
<1> QED BY <1>8, <1>9

\* A session is removed by a goroutine that had to.
LEMMA RemovedKeeps ==
  ASSUME Typed, Typed', Shaped, Shaped', SessInv, UNCHANGED net, NEW t \in Threads, t \notin Calls,
         NEW x \in OrNone(Sessions), NEW q, Becomes(t, q), Fits(t, q), \A y : ~Holds(pc[t], y),
         Cleans(pc[t], x),
         \A y \in Sessions \ {x} : (Cleans(q, y) <=> Cleans(pc[t], y)) /\ (Sees(pc[t], y) => Sees(q, y)),
         med' = Removed(x),
         \A c \in Calls : /\ call'[c].media = Disconnected(x)[c].media
                          /\ call'[c].dtimer = Disconnected(x)[c].dtimer
                          /\ call'[c].reg = Disconnected(x)[c].reg
                          /\ call'[c].status = Disconnected(x)[c].status
  PROVE  SessInv'
<1>1. KnownStay
  BY OnceKnown
<1>2. /\ \A u \in Threads \ {t} : pc'[u] = pc[u]
      /\ \A y : /\ (Cleans(pc'[t], y) <=> Cleans(q, y)) /\ (Sees(pc'[t], y) <=> Sees(q, y))
      /\ Fits(t, pc'[t])
  BY Outlook
<1>3. \A c \in Calls : Live(c)' <=> Live(c)
  BY DisconnectedLive
<1>4. CASE x = None
  <2>1. None \notin Sessions
    BY PhoneAssumption DEF PhoneAssumption, Sessions
  <2>2. UNCHANGED med
    BY <1>4 DEF Removed
  <2>3. Disconnected(x) = call
    BY <1>4 DEF Disconnected
  <2>4. CallsStay
    BY <1>3, <2>3 DEF CallsStay
  <2>5. Unforgotten
    BY <1>2, <1>4, <2>1 DEF SessInv, ThreadInv, Unforgotten, Follows, Tends
  <2> QED BY <1>1, <2>2, <2>4, <2>5, FrameKeeps
<1>5. CASE x # None
  <2>1. x \in Sessions
    BY <1>5 DEF OrNone
  <2>2. /\ \A y \in Sessions \ {x} : med'[y] = med[y]
        /\ med'[x].bound = med[x].bound /\ med'[x].held = med[x].held /\ med'[x].sess = "gone"
    <3>1. med \in [Sessions -> SessionRecords] /\ med' = [med EXCEPT ![x].sess = "gone"]
      BY <1>5 DEF Removed, Typed
    <3> QED BY <2>1, <3>1 DEF SessionRecords
  <2>3. \A u \in Threads : FollowsBut(u, pc[u], pc'[u], x)
    BY <1>2 DEF FollowsBut, SessInv, ThreadInv
  <2>4. Cleaned(x)
    BY DEF Cleaned
  <2>5. \A c \in Calls : Live(c) =>
              call'[c].dtimer = IF med[x].bound = c /\ call[c].media = x /\ call[c].dtimer = None
                                THEN x ELSE call[c].dtimer
    BY <2>1, DisconnectedTimer
  <2>6. \A c \in Calls : call'[c].media = call[c].media
    BY <2>1, DisconnectedTimer
  <2> QED BY <1>1, <1>3, <2>1, <2>2, <2>3, <2>4, <2>5, <2>6, LossKeeps
<1> QED BY <1>4, <1>5

\* The session that a call had before is removed.
LEMMA UnlinkSess ==
  ASSUME Typed, Typed', Shaped, Shaped', SessInv, NEW t \in Threads, Unlink(t)
  PROVE  SessInv'
<1> DEFINE p == pc[t]
           q == [p EXCEPT !.go = Tail(@)]
<1>1. p \in Locals /\ p.go # <<>> /\ Head(p.go) = "unlink" /\ Fits(t, p)
  BY DEF Unlink, At, Shaped, Shape, SessInv, ThreadInv
<1>2. q.go = Tail(p.go) /\ q.m = p.m /\ q.lease = p.lease /\ q.todo = p.todo /\ Becomes(t, q)
  BY <1>1 DEF Unlink, Then, Goto, Locals
<1> HIDE DEF q
<1>3. /\ Ordered(q.go) /\ t \notin Calls /\ (\A y : ~Holds(p, y)) /\ Has(p.go, "unlink")
      /\ Has(q.go, "close") <=> Has(p.go, "close")
      /\ Has(q.go, "resume") <=> Has(p.go, "resume")
      /\ Has(q.go, "unlink") => Has(p.go, "unlink")
  BY <1>1, <1>2, HeadGone
<1>4. Fits(t, q)
  BY <1>3 DEF Fits
<1>5. /\ Cleans(p, p.lease)
      /\ \A y : y # p.lease => (Cleans(q, y) <=> Cleans(p, y)) /\ (Sees(p, y) => Sees(q, y))
  BY <1>2, <1>3 DEF Cleans, Sees
<1>6. p.lease \in OrNone(Sessions)
  BY <1>1 DEF Locals
<1>7. call' = Disconnected(p.lease) /\ med' = Removed(p.lease) /\ UNCHANGED net
  BY DEF Unlink, gateway
<1>8. PICK x \in OrNone(Sessions) : x = p.lease
  BY <1>6
<1> QED BY <1>2, <1>3, <1>4, <1>5, <1>7, <1>8, RemovedKeeps

\* The end of a call removes its session.
LEMMA CloseSess ==
  ASSUME Typed, Typed', Shaped, Shaped', SessInv, NEW t \in Threads, CloseCall(t)
  PROVE  SessInv'
<1> DEFINE p == pc[t]
           q == [p EXCEPT !.go = Tail(@), !.row = "over", !.m = None]
<1>1. p \in Locals /\ Shape(p, t) /\ p.go # <<>> /\ Head(p.go) = "close" /\ p.c \in Calls
  BY HasCall DEF CloseCall, At, Shaped, Shape
<1>2. p.go \in {<<"close", "final">>, <<"close", "final", "leave">>}
  BY <1>1, Lists
<1>3. q.go \in {<<"final">>, <<"final", "leave">>} /\ q.m = None /\ Becomes(t, q)
  BY <1>1, <1>2, Rests DEF CloseCall, Locals
<1>4. PICK r : r = q
  OBVIOUS
<1>5. Ordered(r.go) /\ Careless(r.go)
  BY <1>3, <1>4, WrittenLists
<1>6. t \notin Calls /\ \A y : ~Holds(p, y)
  <2>1. p.go \notin AutoLists /\ p.go \notin HoldLists
    BY <1>2, SMTT(30) DEF AutoLists, HoldLists, DialLists, ClaimLists
  <2> QED BY <2>1 DEF Holds, SessInv, ThreadInv, Fits
<1>7. Fits(t, r) /\ \A y : ~Cleans(r, y) /\ ~Sees(r, y)
  BY <1>5, <1>6, CarelessOnes DEF Fits
<1>8. Has(p.go, "close") /\ ~Has(p.go, "unlink") /\ ~Has(p.go, "resume")
  BY <1>2 DEF Has
<1>9. Cleans(p, p.m) /\ \A y : y # p.m => ~Cleans(p, y) /\ ~Sees(p, y)
  BY <1>8 DEF Cleans, Sees
<1>10. PICK x \in OrNone(Sessions) : x = p.m
  BY <1>1 DEF Locals
<1>11. med' = Removed(x) /\ UNCHANGED net
  BY <1>10 DEF CloseCall, gateway
<1>12. \A c \in Calls : /\ call'[c].media = Disconnected(x)[c].media
                        /\ call'[c].dtimer = Disconnected(x)[c].dtimer
                        /\ call'[c].reg = Disconnected(x)[c].reg
                        /\ call'[c].status = Disconnected(x)[c].status
  <2>1. PICK f \in [Calls -> CallRecords] : f = Disconnected(x)
    BY DisconnectedKeeps
  <2>2. call' = [f EXCEPT ![p.c].rec = IF @ = "open" THEN "closed" ELSE @]
    BY <1>10, <2>1 DEF CloseCall
  <2>3. \A c \in Calls : /\ call'[c].media = f[c].media /\ call'[c].dtimer = f[c].dtimer
                         /\ call'[c].reg = f[c].reg /\ call'[c].status = f[c].status
    BY <1>1, <2>2 DEF CallRecords
  <2> QED BY <2>1, <2>3
<1>13. Becomes(t, r)
  BY <1>3, <1>4
<1> QED BY <1>6, <1>7, <1>9, <1>10, <1>11, <1>12, <1>13, RemovedKeeps

\* A goroutine at such a step goes on, after one more step perhaps, and forgets nothing.
LEMMA SimplyOn ==
  ASSUME Shaped, ThreadInv, NEW t \in Threads, NEW a \in Simple, At(t, a), NEW q \in Locals, Becomes(t, q),
         NEW x \in {<<>>, <<"record">>, <<"drop">>, <<"write">>},
         q.go = x \o Tail(pc[t].go), q.m = pc[t].m, q.lease = pc[t].lease,
         q.todo = pc[t].todo \/ a = "report", a = "drop" => x = <<>>
  PROVE  Unforgotten
<1>1. pc[t] \in Locals /\ pc[t].go # <<>> /\ Head(pc[t].go) = a /\ Fits(t, pc[t])
  BY DEF At, Shaped, Shape, ThreadInv
<1>2. Follows(t, pc[t], q)
  BY <1>1, MovesOn DEF Simple
<1> QED BY <1>2, Moving

\* Nothing before a list.
LEMMA NothingBefore ==
  ASSUME NEW S, NEW s \in Seq(S)
  PROVE  <<>> \o s = s
<1>1. PICK e \in Seq(S), n \in Nat : e = <<>> /\ n = Len(s) /\ Len(e) = 0
  <2>1. <<>> \in Seq(S) /\ Len(<<>>) = 0
    OBVIOUS
  <2>2. Len(s) \in Nat
    OBVIOUS
  <2> QED BY <2>1, <2>2
<1>2. e \o s = [i \in 1 .. (Len(e) + Len(s)) |-> IF i <= Len(e) THEN e[i] ELSE s[i - Len(e)]]
  BY Joined, Zenon
<1>3. PICK f : f = [i \in 1 .. (Len(e) + Len(s)) |-> IF i <= Len(e) THEN e[i] ELSE s[i - Len(e)]]
  OBVIOUS
<1>4. f = s
  <2>1. DOMAIN f = 1 .. n /\ \A i \in 1 .. n : f[i] = s[i]
    BY <1>1, <1>3
  <2>2. s = [i \in 1 .. n |-> s[i]] /\ f = [i \in 1 .. n |-> f[i]]
    BY <1>1, <1>3
  <2> QED BY <2>1, <2>2
<1> QED BY <1>1, <1>2, <1>3, <1>4, Zenon

\* It takes the step and goes on with the rest.
LEMMA SimplyThen ==
  ASSUME Shaped, ThreadInv, NEW t \in Threads, NEW a \in Simple, At(t, a), Then(t)
  PROVE  Unforgotten
<1> DEFINE q == [pc[t] EXCEPT !.go = Tail(@)]
<1>1. pc[t] \in Locals /\ pc[t].go \in Seq(Steps) /\ pc[t].go # <<>>
  BY DEF Shaped, Shape, At, Locals
<1>2. Tail(pc[t].go) \in Seq(Steps)
  BY <1>1
<1>3. q \in Locals /\ Becomes(t, q) /\ q.m = pc[t].m /\ q.lease = pc[t].lease /\ q.todo = pc[t].todo
  BY <1>1, <1>2 DEF Then, Goto, Locals
<1>4. q.go = <<>> \o Tail(pc[t].go)
  <2>1. <<>> \o Tail(pc[t].go) = Tail(pc[t].go)
    BY <1>2, NothingBefore
  <2> QED BY <1>1, <2>1 DEF Locals
<1> HIDE DEF q
<1> QED BY <1>3, <1>4, SimplyOn

\* The gateway turned it down: a request leaves.
LEMMA SimplyReturn ==
  ASSUME Shaped, ThreadInv, NEW t \in Threads, NEW a \in {"refuse", "hangup"}, At(t, a), Return(t)
  PROVE  Unforgotten
<1> DEFINE q == [pc[t] EXCEPT !.go = <<"leave">>]
<1>1. pc[t] \in Locals /\ pc[t].go # <<>> /\ Fits(t, pc[t]) /\ Head(pc[t].go) = a
  BY DEF Shaped, Shape, At, ThreadInv
<1>2. Becomes(t, q) /\ q.go = <<"leave">> /\ q.todo = pc[t].todo
  BY <1>1 DEF Return, Goto, Locals
<1> HIDE DEF q
<1>3. Follows(t, pc[t], q)
  BY <1>1, <1>2, GivesUp
<1> QED BY <1>2, <1>3, Moving

\* Steps after which only the goroutine and the gateway are different.
LEMMA SimpleSess ==
  ASSUME Typed, Shaped, SessInv, NEW t \in Threads,
         Drop(t) \/ Snapshot(t) \/ Refuse(t) \/ HangupCall(t) \/ Report(t) \/ Bridge(t)
  PROVE  SessInv'
<1>1. UNCHANGED <<med, call>>
  BY DEF Drop, Snapshot, Refuse, HangupCall, Report, Bridge
<1>2. CallsStay /\ ThreadInv
  BY <1>1 DEF CallsStay, Live, SessInv
<1>3. pc[t] \in Locals /\ pc[t].go \in Seq(Steps) /\ pc[t] = [pc[t] EXCEPT !.todo = @]
  BY DEF Shaped, Shape, Locals
<1>4. ASSUME Drop(t)
      PROVE  KnownStay /\ Unforgotten
  <2>1. pc[t].c \in Calls
    BY <1>4, AtPlain DEF Drop, Plain, Steps
  <2>2. KnownStay
    BY <1>4, <2>1, OnceKnown DEF Drop
  <2>3. Unforgotten
    BY <1>2, <1>4, SimplyThen DEF Drop, Simple
  <2> QED BY <2>2, <2>3
<1>5. ASSUME Snapshot(t)
      PROVE  KnownStay /\ Unforgotten
  <2> DEFINE q == [pc[t] EXCEPT !.go = Tail(@), !.row = call[pc[t].c].status]
  <2>1. At(t, "snap") /\ pc[t].c \in Calls /\ pc[t].go # <<>> /\ Becomes(t, q)
    BY <1>5, AtPlain DEF Snapshot, Plain, Steps, At
  <2>2. Tail(pc[t].go) \in Seq(Steps) /\ call[pc[t].c].status \in Statuses
    <3>1. Tail(pc[t].go) \in Seq(Steps)
      BY <1>3, <2>1
    <3>2. call[pc[t].c] \in CallRecords
      BY <2>1 DEF Typed
    <3> QED BY <3>1, <3>2 DEF CallRecords
  <2>3. q \in Locals /\ q.m = pc[t].m /\ q.lease = pc[t].lease /\ q.todo = pc[t].todo /\ q.go = Tail(pc[t].go)
    BY <1>3, <2>2 DEF Locals
  <2>4. Tail(pc[t].go) = <<>> \o Tail(pc[t].go)
    BY <2>2, NothingBefore
  <2> HIDE DEF q
  <2>5. Unforgotten
    BY <1>2, <2>1, <2>3, <2>4, SimplyOn DEF Simple
  <2> QED BY <1>5, <2>5, OnceKnown DEF Snapshot, gateway
<1>6. ASSUME Refuse(t)
      PROVE  KnownStay /\ Unforgotten
  <2>1. pc[t].c \in Calls
    BY <1>6, AtPlain DEF Refuse, Plain, Steps
  <2>2. KnownStay
    BY <1>6, <2>1, OnceKnown DEF Refuse
  <2>3. Unforgotten
    BY <1>2, <1>6, SimplyThen, SimplyReturn DEF Refuse, Simple
  <2> QED BY <2>2, <2>3
<1>7. ASSUME HangupCall(t)
      PROVE  KnownStay /\ Unforgotten
  <2>1. pc[t].c \in Calls
    BY <1>7, AtPlain DEF HangupCall, Plain, Steps
  <2>2. KnownStay
    BY <1>7, <2>1, OnceKnown DEF HangupCall
  <2>3. Unforgotten
    BY <1>2, <1>7, SimplyThen, SimplyReturn DEF HangupCall, Simple
  <2> QED BY <2>2, <2>3
<1>8. ASSUME Report(t)
      PROVE  KnownStay /\ Unforgotten
  <2> DEFINE q == [pc[t] EXCEPT !.go = Tail(@), !.todo = <<"Ended">>]
  <2>1. At(t, "report") /\ pc[t].go # <<>> /\ Becomes(t, q)
    BY <1>8 DEF Report, At
  <2>2. Tail(pc[t].go) \in Seq(Steps) /\ <<"Ended">> \in Seq(Kinds \cup {"Incoming"})
    BY <1>3, <2>1 DEF Kinds
  <2>3. q \in Locals /\ q.m = pc[t].m /\ q.lease = pc[t].lease /\ q.go = Tail(pc[t].go)
    BY <1>3, <2>2 DEF Locals
  <2>4. Tail(pc[t].go) = <<>> \o Tail(pc[t].go)
    BY <2>2, NothingBefore
  <2> HIDE DEF q
  <2>5. Unforgotten
    BY <1>2, <2>1, <2>3, <2>4, SimplyOn DEF Simple
  <2> QED BY <1>8, <2>5, OnceKnown DEF Report, gateway
<1>9. ASSUME Bridge(t)
      PROVE  KnownStay /\ Unforgotten
  <2>1. At(t, "bridge") /\ pc[t].go # <<>>
    BY <1>9 DEF Bridge, At
  <2>2. PICK x \in {<<>>, <<"record">>, <<"drop">>} : Goto(t, x \o Tail(pc[t].go))
    BY <1>9, Zenon DEF Bridge
  <2> DEFINE q == [pc[t] EXCEPT !.go = x \o Tail(pc[t].go)]
  <2>3. x \o Tail(pc[t].go) \in Seq(Steps)
    <3>1. <<>> \in Seq(Steps) /\ <<"record">> \in Seq(Steps) /\ <<"drop">> \in Seq(Steps)
      BY DEF Steps
    <3>2. Tail(pc[t].go) \in Seq(Steps)
      BY <1>3, <2>1
    <3>3. x \in Seq(Steps)
      BY <3>1, Zenon
    <3> QED BY <3>2, <3>3
  <2>4. q \in Locals /\ q.m = pc[t].m /\ q.lease = pc[t].lease /\ q.todo = pc[t].todo
        /\ q.go = x \o Tail(pc[t].go) /\ Becomes(t, q)
    BY <1>3, <2>2, <2>3 DEF Locals, Goto
  <2> HIDE DEF q
  <2>5. Unforgotten
    BY <1>2, <2>1, <2>4, SimplyOn DEF Simple
  <2> QED BY <1>9, <2>5, OnceKnown DEF Bridge, gateway
<1> QED BY <1>1, <1>2, <1>4, <1>5, <1>6, <1>7, <1>8, <1>9, FrameKeeps

\* The recording is opened, or closed at once, and the call's record saved.
LEMMA RecordingSess ==
  ASSUME Typed, Shaped, SessInv, NEW t \in Threads, StartRecording(t)
  PROVE  SessInv'
<1>1. ThreadInv /\ At(t, "record") /\ pc[t].go # <<>> /\ pc[t].c \in Calls
  BY AtPlain DEF StartRecording, Plain, Steps, At, SessInv
<1>2. pc[t] \in Locals /\ pc[t].go \in Seq(Steps) /\ call[pc[t].c] \in CallRecords
  BY <1>1 DEF Shaped, Shape, Locals, Typed
<1>3. KnownStay /\ UNCHANGED med
  BY OnceKnown DEF StartRecording, gateway
<1>4. CallsStay
  <2>1. UNCHANGED call \/ \E r : call' = [call EXCEPT ![pc[t].c] = [call[pc[t].c] EXCEPT !.rec = r]]
    BY DEF StartRecording
  <2>2. CASE UNCHANGED call
    BY <2>2 DEF CallsStay, Live
  <2>3. CASE \E r : call' = [call EXCEPT ![pc[t].c] = [call[pc[t].c] EXCEPT !.rec = r]]
    <3>1. PICK r : call' = [call EXCEPT ![pc[t].c] = [call[pc[t].c] EXCEPT !.rec = r]]
      BY <2>3
    <3>2. PICK k : k = [call[pc[t].c] EXCEPT !.rec = r]
      OBVIOUS
    <3>3. k.media = call[pc[t].c].media /\ k.reg = call[pc[t].c].reg /\ k.status = call[pc[t].c].status
          /\ k.dtimer = call[pc[t].c].dtimer
      BY <1>2, <3>2 DEF CallRecords
    <3> QED BY <1>1, <3>1, <3>2, <3>3, OneCallStays DEF Live
  <2> QED BY <2>1, <2>2, <2>3
<1>5. Unforgotten
  <2>1. CASE Then(t)
    BY <1>1, <2>1, SimplyThen, ZenonT(30) DEF Simple
  <2>2. CASE Becomes(t, [pc[t] EXCEPT !.go = <<"write">> \o Tail(@), !.row = call[pc[t].c].status])
    <3> DEFINE q == [pc[t] EXCEPT !.go = <<"write">> \o Tail(@), !.row = call[pc[t].c].status]
    <3>1. <<"write">> \o Tail(pc[t].go) \in Seq(Steps)
      <4>1. <<"write">> \in Seq(Steps)
        BY DEF Steps
      <4>2. Tail(pc[t].go) \in Seq(Steps)
        BY <1>1, <1>2
      <4> QED BY <4>1, <4>2
    <3>2. q \in Locals /\ q.m = pc[t].m /\ q.lease = pc[t].lease /\ q.todo = pc[t].todo
          /\ q.go = <<"write">> \o Tail(pc[t].go) /\ Becomes(t, q)
      <4>1. call[pc[t].c].status \in Statuses
        BY <1>2 DEF CallRecords
      <4> QED BY <1>2, <2>2, <3>1, <4>1 DEF Locals
    <3> HIDE DEF q
    <3> QED BY <1>1, <3>2, SimplyOn DEF Simple
  <2> QED BY <2>1, <2>2 DEF StartRecording
<1> QED BY <1>3, <1>4, <1>5, FrameKeeps

\* The record is saved.
LEMMA PersistSess ==
  ASSUME Typed, Shaped, SessInv, NEW t \in Threads, Persist(t)
  PROVE  SessInv'
<1>1. PICK a \in {"write", "final"} : At(t, a) /\ ThreadInv /\ pc[t].go # <<>>
  BY DEF Persist, At, SessInv
<1>2. pc[t] \in Locals /\ pc[t].go \in Seq(Steps) /\ pc[t].c \in Calls /\ call \in [Calls -> CallRecords]
  BY <1>1, HasCall DEF Shaped, Shape, Locals, Typed, At
<1>3. KnownStay /\ UNCHANGED med
  BY OnceKnown DEF Persist, gateway
<1>4. CallsStay
  <2>1. UNCHANGED call \/ call' = [call EXCEPT ![pc[t].c] = [call[pc[t].c] EXCEPT !.done = TRUE]]
    BY DEF Persist
  <2>2. CASE UNCHANGED call
    BY <2>2 DEF CallsStay, Live
  <2>3. CASE call' = [call EXCEPT ![pc[t].c] = [call[pc[t].c] EXCEPT !.done = TRUE]]
    <3>1. PICK k : k = [call[pc[t].c] EXCEPT !.done = TRUE]
      OBVIOUS
    <3>2. k.media = call[pc[t].c].media /\ k.reg = call[pc[t].c].reg /\ k.status = call[pc[t].c].status
          /\ k.dtimer = call[pc[t].c].dtimer
      BY <1>2, <3>1, ZenonT(30) DEF CallRecords
    <3> QED BY <1>2, <2>3, <3>1, <3>2, OneCallStays DEF Live
  <2> QED BY <2>1, <2>2, <2>3
<1>5. Unforgotten
  <2> DEFINE q == [pc[t] EXCEPT !.go = Tail(@), !.row = None]
  <2>1. Tail(pc[t].go) \in Seq(Steps)
    BY <1>1, <1>2
  <2>2. q \in Locals /\ q.m = pc[t].m /\ q.lease = pc[t].lease /\ q.todo = pc[t].todo
        /\ q.go = Tail(pc[t].go) /\ Becomes(t, q)
    BY <1>2, <2>1 DEF Locals, Persist, Statuses, OrNone
  <2>3. Tail(pc[t].go) = <<>> \o Tail(pc[t].go)
    BY <2>1, NothingBefore
  <2> HIDE DEF q
  <2> QED BY <1>1, <2>2, <2>3, SimplyOn DEF Simple
<1> QED BY <1>3, <1>4, <1>5, FrameKeeps

\* The timer of the auto answer is set.
LEMMA ScheduleSess ==
  ASSUME Typed, Shaped, SessInv, NEW t \in Threads, ScheduleAutoAnswer(t)
  PROVE  SessInv'
<1>1. ThreadInv /\ At(t, "auto") /\ pc[t].c \in Calls /\ call[pc[t].c] \in CallRecords
  BY AtPlain DEF ScheduleAutoAnswer, Plain, Steps, SessInv, Typed
<1>2. KnownStay /\ UNCHANGED med
  BY OnceKnown DEF ScheduleAutoAnswer, gateway
<1>3. CallsStay
  <2>1. PICK b : call' = [call EXCEPT ![pc[t].c] = [call[pc[t].c] EXCEPT !.atimer = b]]
    BY DEF ScheduleAutoAnswer
  <2>2. PICK k : k = [call[pc[t].c] EXCEPT !.atimer = b]
    OBVIOUS
  <2>3. k.media = call[pc[t].c].media /\ k.reg = call[pc[t].c].reg /\ k.status = call[pc[t].c].status
        /\ k.dtimer = call[pc[t].c].dtimer
    BY <1>1, <2>2 DEF CallRecords
  <2> QED BY <1>1, <2>1, <2>2, <2>3, OneCallStays DEF Live
<1>4. Unforgotten
  BY <1>1, SimplyThen DEF ScheduleAutoAnswer, Simple
<1> QED BY <1>2, <1>3, <1>4, FrameKeeps
-----------------------------------------------------------------------------
(* Events *)

\* One, and two after it.
LEMMA OneAndPair ==
  ASSUME NEW x, NEW y, NEW z
  PROVE  <<x>> \o <<y, z>> = <<x, y, z>>
<1>1. PICK S : S = {x, y, z}
  OBVIOUS
<1>2. PICK a \in Seq(S), b \in Seq(S) : a = <<x>> /\ b = <<y, z>>
  <2>1. <<x>> \in Seq(S) /\ <<y, z>> \in Seq(S)
    BY <1>1
  <2> QED BY <2>1
<1>3. Len(a) = 1 /\ Len(b) = 2 /\ a[1] = x /\ b[1] = y /\ b[2] = z
  BY <1>2
<1>4. a \o b = [i \in 1 .. (Len(a) + Len(b)) |-> IF i <= Len(a) THEN a[i] ELSE b[i - Len(a)]]
  BY Joined, Zenon
<1>5. PICK f : f = [i \in 1 .. (Len(a) + Len(b)) |-> IF i <= Len(a) THEN a[i] ELSE b[i - Len(a)]]
  OBVIOUS
<1>6. f = <<x, y, z>>
  BY <1>3, <1>5
<1> QED BY <1>2, <1>4, <1>5, <1>6, Zenon

\* A goroutine deals with an event.
LEMMA Dealing ==
  ASSUME Shaped, ThreadInv, NEW t \in Threads, NEW kinds, Dispatches(t, kinds), NEW q, Becomes(t, q),
         NEW x \in {<<>>, <<"write">>, <<"snap", "write", "auto">>, <<"snap", "write">>, <<"refuse", "busy">>,
                    <<"bridge", "snap", "write">>},
         q.go = x \o pc[t].go
  PROVE  Unforgotten
<1>1. Fits(t, pc[t]) /\ pc[t].go \in {<<>>, <<"leave">>} /\ pc[t].todo # <<>>
  BY DEF ThreadInv, Dispatches
<1>2. Follows(t, pc[t], q)
  BY <1>1, DealsWith
<1> QED BY <1>2, Moving

\* The same, by name.
LEMMA DealingSo ==
  ASSUME Shaped, ThreadInv, NEW t \in Threads, NEW kinds, Dispatches(t, kinds), NEW row, NEW media,
         NEW x \in {<<>>, <<"write">>, <<"snap", "write", "auto">>, <<"snap", "write">>, <<"refuse", "busy">>,
                    <<"bridge", "snap", "write">>},
         Handled(t, x, row, media) \/ Ignored(t)
  PROVE  Unforgotten
<1>1. pc[t] \in Locals
  BY DEF Shaped, Shape
<1>2. CASE Handled(t, x, row, media)
  <2> DEFINE q == [pc[t] EXCEPT !.todo = Tail(@), !.go = x \o @, !.row = row, !.m = media]
  <2>1. Becomes(t, q) /\ q.go = x \o pc[t].go
    BY <1>1, <1>2 DEF Handled, Locals
  <2> HIDE DEF q
  <2> QED BY <2>1, Dealing
<1>3. CASE Ignored(t)
  <2> DEFINE q == [pc[t] EXCEPT !.todo = Tail(@), !.go = <<>> \o @, !.row = None, !.m = pc[t].m]
  <2>1. Becomes(t, q) /\ q.go = <<>> \o pc[t].go
    BY <1>1, <1>3 DEF Ignored, Handled, Locals
  <2> HIDE DEF q
  <2> QED BY <2>1, Dealing
<1> QED BY <1>2, <1>3

\* A call that was refused is saved.
LEMMA BusySess ==
  ASSUME Typed, Shaped, SessInv, NEW t \in Threads, RecordBusy(t)
  PROVE  SessInv'
<1>1. UNCHANGED <<med, call, net>> /\ ThreadInv
  BY DEF RecordBusy, gateway, SessInv
<1>2. CallsStay /\ KnownStay
  BY <1>1, OnceKnown DEF CallsStay, Live
<1>3. PICK x \in {<<>>, <<"write">>} :
         \/ At(t, "busy") /\ Becomes(t, [pc[t] EXCEPT !.go = x \o Tail(@), !.row = "over"])
         \/ Dispatches(t, {"Busy"}) /\ Handled(t, x, "over", None)
  BY Zenon DEF RecordBusy
<1>4. CASE At(t, "busy") /\ Becomes(t, [pc[t] EXCEPT !.go = x \o Tail(@), !.row = "over"])
  <2> DEFINE q == [pc[t] EXCEPT !.go = x \o Tail(@), !.row = "over"]
  <2>1. pc[t] \in Locals /\ pc[t].go \in Seq(Steps) /\ pc[t].go # <<>>
    BY <1>4 DEF Shaped, Shape, Locals, At
  <2>2. x \o Tail(pc[t].go) \in Seq(Steps)
    <3>1. <<>> \in Seq(Steps) /\ <<"write">> \in Seq(Steps)
      BY DEF Steps
    <3>2. Tail(pc[t].go) \in Seq(Steps)
      BY <2>1
    <3>3. x \in Seq(Steps)
      BY <3>1, Zenon
    <3> QED BY <3>2, <3>3
  <2>3. q \in Locals /\ q.m = pc[t].m /\ q.lease = pc[t].lease /\ q.todo = pc[t].todo
        /\ q.go = x \o Tail(pc[t].go) /\ Becomes(t, q)
    BY <1>4, <2>1, <2>2 DEF Locals, Statuses, OrNone
  <2> HIDE DEF q
  <2>4. Unforgotten
    BY <1>1, <1>4, <2>3, SimplyOn DEF Simple
  <2> QED BY <1>1, <1>2, <2>4, FrameKeeps
<1>5. CASE Dispatches(t, {"Busy"}) /\ Handled(t, x, "over", None)
  <2>1. Unforgotten
    BY <1>1, <1>5, DealingSo
  <2> QED BY <1>1, <1>2, <2>1, FrameKeeps
<1> QED BY <1>3, <1>4, <1>5

\* A call rings, or is answered.
LEMMA UpdatesSess ==
  ASSUME Typed, Shaped, SessInv, NEW t \in Threads, UpdateRinging(t) \/ UpdateAnswered(t)
  PROVE  SessInv'
<1>1. UNCHANGED <<med, net>> /\ ThreadInv
  BY DEF UpdateRinging, UpdateAnswered, gateway, SessInv
<1>2. KnownStay
  BY <1>1, OnceKnown
<1>3. PICK kinds : Dispatches(t, kinds)
  BY DEF UpdateRinging, UpdateAnswered
<1>4. pc[t].c \in Calls /\ call \in [Calls -> CallRecords]
  BY <1>3, AtEvent DEF Typed
<1>5. CallsStay
  <2>1. UNCHANGED call \/ \E s \in Active : Live(pc[t].c) /\ call' = [call EXCEPT ![pc[t].c] = [call[pc[t].c] EXCEPT !.status = s]]
    BY DEF UpdateRinging, UpdateAnswered, Active
  <2>2. CASE UNCHANGED call
    BY <2>2 DEF CallsStay, Live
  <2>3. CASE \E s \in Active : Live(pc[t].c) /\ call' = [call EXCEPT ![pc[t].c] = [call[pc[t].c] EXCEPT !.status = s]]
    <3>1. PICK s \in Active : Live(pc[t].c) /\ call' = [call EXCEPT ![pc[t].c] = [call[pc[t].c] EXCEPT !.status = s]]
      BY <2>3
    <3>2. PICK k : k = [call[pc[t].c] EXCEPT !.status = s]
      OBVIOUS
    <3>3. k.media = call[pc[t].c].media /\ k.reg = call[pc[t].c].reg /\ k.status = s
          /\ k.dtimer = call[pc[t].c].dtimer
      BY <1>4, <3>2 DEF CallRecords
    <3> QED BY <1>4, <3>1, <3>2, <3>3, OneCallStays DEF Live
  <2> QED BY <2>1, <2>2, <2>3
<1>6. Unforgotten
  <2>1. CASE UpdateRinging(t)
    <3>1. Handled(t, <<"write">>, "ringing", pc[t].m) \/ Ignored(t)
      BY <2>1 DEF UpdateRinging
    <3> QED BY <1>1, <1>3, <3>1, DealingSo
  <2>2. CASE UpdateAnswered(t)
    <3>1. \/ Handled(t, <<"bridge">> \o <<"snap", "write">>, None, call[pc[t].c].media)
          \/ Handled(t, <<>> \o <<"snap", "write">>, None, call[pc[t].c].media)
          \/ Ignored(t)
      BY <2>2 DEF UpdateAnswered
    <3>2. <<"bridge">> \o <<"snap", "write">> = <<"bridge", "snap", "write">>
      BY OneAndPair
    <3>3. <<>> \o <<"snap", "write">> = <<"snap", "write">>
      <4>1. PICK s \in Seq(Steps) : s = <<"snap", "write">>
        <5>1. <<"snap", "write">> \in Seq(Steps)
          BY DEF Steps
        <5> QED BY <5>1
      <4>2. <<>> \o s = s
        BY NothingBefore
      <4> QED BY <4>1, <4>2
    <3>4. \/ Handled(t, <<"bridge", "snap", "write">>, None, call[pc[t].c].media)
          \/ Handled(t, <<"snap", "write">>, None, call[pc[t].c].media)
          \/ Ignored(t)
      BY <3>1, <3>2, <3>3
    <3> QED BY <1>1, <1>3, <3>4, DealingSo
  <2> QED BY <2>1, <2>2
<1> QED BY <1>1, <1>2, <1>5, <1>6, FrameKeeps

\* A call that is over and done with is forgotten.
LEMMA FinalizeSess ==
  ASSUME IInv, SessInv, NEW t \in Threads, FinalizeRecording(t)
  PROVE  SessInv'
<1>1. UNCHANGED <<med, net>> /\ ThreadInv /\ Typed /\ Shaped /\ EndInv /\ Dispatches(t, {"Finalized"})
  BY DEF FinalizeRecording, gateway, SessInv, IInv
<1>2. KnownStay
  BY <1>1, OnceKnown
<1>3. pc[t].c \in Calls /\ call \in [Calls -> CallRecords]
  BY <1>1, AtEvent DEF Typed
<1>4. CallsStay
  <2>1. CASE ~call[pc[t].c].reg
    BY <2>1 DEF FinalizeRecording, CallsStay, Live
  <2>2. CASE call[pc[t].c].reg
    <3>1. ~Live(pc[t].c)
      BY <1>1, <1>3, <2>2 DEF FinalizeRecording, EndInv
    <3>2. PICK k : k = [call[pc[t].c] EXCEPT !.reg = FALSE, !.lease = None, !.dtimer = None, !.pending = FALSE]
      OBVIOUS
    <3>3. k.media = call[pc[t].c].media /\ ~k.reg
      BY <1>3, <3>2 DEF CallRecords
    <3>4. call' = [call EXCEPT ![pc[t].c] = k]
      BY <1>3, <2>2, <3>2 DEF FinalizeRecording
    <3> QED BY <1>1, <1>3, <3>1, <3>3, <3>4, OneCallStays
  <2> QED BY <2>1, <2>2
<1>5. Unforgotten
  <2>1. Handled(t, <<"write">>, "over", None) \/ Ignored(t)
    BY DEF FinalizeRecording
  <2> QED BY <1>1, <2>1, DealingSo
<1> QED BY <1>1, <1>2, <1>4, <1>5, FrameKeeps

\* An incoming call enters without a session, or is refused.
LEMMA IncomingSess ==
  ASSUME Typed, Shaped, SessInv, NEW t \in Threads, HandleIncoming(t)
  PROVE  SessInv'
<1>1. UNCHANGED <<med, net>> /\ ThreadInv /\ Dispatches(t, {"Incoming", "Waiting"})
  BY DEF HandleIncoming, gateway, SessInv
<1>2. KnownStay
  BY <1>1, OnceKnown
<1>3. pc[t].c \in Calls /\ call \in [Calls -> CallRecords] /\ pc[t] \in Locals
  BY <1>1, AtEvent DEF Typed
<1>4. \/ UNCHANGED call /\ (Ignored(t) \/ Handled(t, <<"refuse", "busy">>, None, None))
      \/ /\ ~call[pc[t].c].reg
         /\ \E s \in {"ringing", "waiting"}, x \in {<<"snap", "write", "auto">>, <<"snap", "write">>} :
               Registers(t, pc[t].c, s, x)
  BY DEF HandleIncoming
<1>5. CASE UNCHANGED call /\ (Ignored(t) \/ Handled(t, <<"refuse", "busy">>, None, None))
  <2>1. Unforgotten
    BY <1>1, <1>5, DealingSo
  <2>2. CallsStay
    BY <1>5 DEF CallsStay, Live
  <2> QED BY <1>1, <1>2, <2>1, <2>2, FrameKeeps
<1>6. ASSUME ~call[pc[t].c].reg, NEW s \in {"ringing", "waiting"},
             NEW x \in {<<"snap", "write", "auto">>, <<"snap", "write">>}, Registers(t, pc[t].c, s, x)
      PROVE  SessInv'
  <2>1. PICK y \in {<<>>, <<"snap", "write", "auto">>, <<"snap", "write">>} :
           Becomes(t, [pc[t] EXCEPT !.todo = early[pc[t].c] \o Tail(@), !.go = y \o @])
    BY <1>6, Zenon DEF Registers
  <2> DEFINE q == [pc[t] EXCEPT !.todo = early[pc[t].c] \o Tail(@), !.go = y \o @]
  <2>2. Becomes(t, q) /\ q.go = y \o pc[t].go
    BY <1>3, <2>1 DEF Locals
  <2> HIDE DEF q
  <2>3. Unforgotten
    BY <1>1, <2>2, Dealing
  <2>4. call' = [call EXCEPT ![pc[t].c] = NewCall(pc[t].c, "in", s)]
    BY <1>6 DEF Registers
  <2>5. NewCall(pc[t].c, "in", s).media = None /\ NewCall(pc[t].c, "in", s).dtimer = None
    BY DEF NewCall, NoCall
  <2>6. call'[pc[t].c].media = None /\ call'[pc[t].c].dtimer = None /\ \A d \in Calls \ {pc[t].c} : call'[d] = call[d]
    BY <1>3, <2>4, <2>5
  <2>7. ~Live(pc[t].c)
    BY <1>6 DEF Live
  <2> QED BY <1>1, <1>2, <1>3, <2>3, <2>6, <2>7, NewcomerKeeps
<1> QED BY <1>4, <1>5, <1>6

\* An Ended event: put aside, ignored, or the call lets its session go.
LEMMA FinishSess ==
  ASSUME Typed, Shaped, SessInv, NEW t \in Threads, FinishCall(t)
  PROVE  SessInv'
<1>1. UNCHANGED net /\ ThreadInv /\ Dispatches(t, {"Ended"})
  BY Zenon DEF FinishCall, gateway, SessInv
<1>2. pc[t].c \in Calls /\ call \in [Calls -> CallRecords] /\ pc[t] \in Locals /\ med \in [Sessions -> SessionRecords]
  BY <1>1, AtEvent DEF Typed
<1>5. PICK c \in Calls : c = pc[t].c
  BY <1>2
<1>3. CASE ~Live(c)
  <2>1. UNCHANGED <<med, call>> /\ Ignored(t)
    BY <1>3, <1>5, Zenon DEF FinishCall, Live
  <2>2. Unforgotten
    BY <1>1, <2>1, DealingSo
  <2> QED BY <1>1, <2>1, <2>2, OnceKnown, FrameKeeps, ZenonT(30) DEF CallsStay, Live
<1>4. CASE Live(c)
  <2> DEFINE o == call[c].media
             q == [pc[t] EXCEPT !.todo = Tail(@), !.go = <<"close", "final">> \o @, !.row = None, !.m = o]
  <2>1. /\ med' = IF o = None THEN med ELSE [med EXCEPT ![o].bound = None, ![o].drop = "none"]
        /\ call' = [call EXCEPT ![c].status = "over", ![c].armed = FALSE, ![c].atimer = FALSE]
        /\ Becomes(t, q)
    BY <1>4, <1>5, Zenon DEF FinishCall, Handled, Live
  <2>2. q.go = <<"close", "final">> \o pc[t].go /\ q.m = o
    BY <1>2 DEF Locals
  <2>3. PICK x \in OrNone(Sessions) : x = o
    BY <1>2 DEF CallRecords
  <2>13. PICK r : r = q
    OBVIOUS
  <2>4. /\ call[c].media = x /\ Becomes(t, r) /\ r.go = <<"close", "final">> \o pc[t].go /\ r.m = x
        /\ med' = IF x = None THEN med ELSE [med EXCEPT ![x].bound = None, ![x].drop = "none"]
    BY <2>1, <2>2, <2>3, <2>13
  <2> HIDE DEF o, q
  <2>5. pc[t].go \in {<<>>, <<"leave">>} /\ pc[t].todo # <<>> /\ Careless(pc[t].go)
    <3>1. pc[t].go \in {<<>>, <<"leave">>} /\ pc[t].todo # <<>>
      BY <1>1 DEF Dispatches
    <3> QED BY <3>1, WrittenLists
  <2>6. r.go \in {<<"close", "final">>, <<"close", "final", "leave">>}
    <3>1. <<"close", "final">> \o <<"leave">> = <<"close", "final", "leave">>
      BY PairAndOne
    <3>2. <<"close", "final">> \o <<>> = <<"close", "final">>
      <4>1. <<"close", "final">> \in Seq(Steps)
        BY DEF Steps
      <4> QED BY <4>1
    <3> QED BY <2>4, <2>5, <3>1, <3>2
  <2>7. Ordered(r.go) /\ Has(r.go, "close") /\ ~Has(r.go, "unlink") /\ r.go # <<>>
    <3>1. r.go = <<"close", "final">> => Has(r.go, "close") /\ ~Has(r.go, "unlink") /\ r.go # <<>>
      BY DEF Has
    <3>2. r.go = <<"close", "final", "leave">> => Has(r.go, "close") /\ ~Has(r.go, "unlink") /\ r.go # <<>>
      BY DEF Has
    <3>3. Ordered(r.go)
      <4>1. r.go = <<"close", "final", "leave">> => Ordered(r.go)
        BY DEF Ordered, Droppers
      <4> QED BY <2>6, <4>1, WrittenLists
    <3> QED BY <2>6, <3>1, <3>2, <3>3
  <2>8. Fits(t, r)
    <3>1. t \notin Calls
      BY <1>1, <2>5 DEF ThreadInv, Fits
    <3> QED BY <2>7, <3>1 DEF Fits
  <2>9. pc'[t] = r /\ \A u \in Threads \ {t} : pc'[u] = pc[u]
    BY <2>4, <2>7, Outlook
  <2>10. \A y \in Sessions : Cleans(pc'[t], y) <=> y = x
    BY <2>4, <2>7, <2>9 DEF Cleans
  <2>11. ~Live(c)' /\ call'[c].media = x /\ \A d \in Calls \ {c} : call'[d] = call[d]
    <3>1. PICK k : k = [call[c] EXCEPT !.status = "over", !.armed = FALSE, !.atimer = FALSE]
      OBVIOUS
    <3>2. k.status = "over" /\ k.media = x
      BY <1>2, <2>4, <3>1 DEF CallRecords
    <3>3. call' = [call EXCEPT ![c] = k]
      BY <1>2, <2>1, <3>1
    <3> QED BY <1>2, <3>2, <3>3 DEF Live, Active
  <2>12. /\ \A y \in Sessions \ {x} : med'[y] = med[y]
         /\ x # None => /\ med'[x].sess = med[x].sess /\ med'[x].held = med[x].held
                        /\ med'[x].bound = None /\ med'[x].drop = "none"
    <3>1. CASE x = None
      BY <2>4, <3>1
    <3>2. CASE x # None
      <4>1. x \in Sessions /\ med' = [med EXCEPT ![x].bound = None, ![x].drop = "none"]
        BY <2>4, <3>2 DEF OrNone
      <4> QED BY <1>2, <4>1 DEF SessionRecords
    <3> QED BY <3>1, <3>2
  <2> QED BY <1>1, <1>2, <1>4, <2>4, <2>5, <2>8, <2>9, <2>10, <2>11, <2>12, FinishedKeeps, Zenon
<1> QED BY <1>3, <1>4, ZenonT(30)

\* An event, or an incoming call, is taken up.
LEMMA TakenUpSess ==
  ASSUME Typed, Shaped, SessInv, Receive \/ Ring
  PROVE  SessInv'
<1>1. UNCHANGED <<med, call, net>> /\ ThreadInv
  BY DEF Receive, Ring, SessInv
<1>2. CallsStay /\ KnownStay
  BY <1>1, OnceKnown, ZenonT(30) DEF CallsStay, Live
<1>3. UNCHANGED pc \/ \E t \in {"ev", "in"} : \E c, todo : pc[t] = Idle /\ Becomes(t, [Idle EXCEPT !.c = c, !.todo = todo])
  BY DEF Receive, Ring
<1>4. CASE UNCHANGED pc
  BY <1>1, <1>2, <1>4, Unmoving, FrameKeeps
<1>5. ASSUME NEW t \in {"ev", "in"}, NEW c, NEW todo, pc[t] = Idle, Becomes(t, [Idle EXCEPT !.c = c, !.todo = todo])
      PROVE  SessInv'
  <2> DEFINE q == [Idle EXCEPT !.c = c, !.todo = todo]
  <2>1. t \in Threads /\ t \notin Calls /\ Becomes(t, q) /\ q.go = <<>>
    BY <1>5, PhoneAssumption DEF PhoneAssumption, Threads, Idle
  <2> HIDE DEF q
  <2>2. Ordered(q.go) /\ Careless(q.go)
    BY <2>1, WrittenLists
  <2>3. Follows(t, pc[t], q)
    BY <1>5, <2>1, <2>2, SetsOut
  <2>4. Unforgotten
    BY <1>1, <2>1, <2>3, Moving
  <2> QED BY <1>1, <1>2, <2>4, FrameKeeps
<1> QED BY <1>3, <1>4, <1>5
-----------------------------------------------------------------------------
(* Who dials, or takes a call with a session *)

\* A client with a session goes on, or leaves.
LEMMA HolderOn ==
  ASSUME Shaped, ThreadInv, NEW t \in Clients, pc[t].go \in DialLists \cup ClaimLists, NEW q, Becomes(t, q),
         q.go \in HoldLists, q.m = pc[t].m, q.todo = pc[t].todo
  PROVE  Unforgotten
<1>1. t \in Threads
  BY DEF Threads
<1>2. Follows(t, pc[t], q)
  BY HoldsOn
<1> QED BY <1>1, <1>2, Moving

\* The same, by name.
LEMMA HolderGoto ==
  ASSUME Shaped, ThreadInv, NEW t \in Clients, pc[t].go \in DialLists \cup ClaimLists,
         NEW g \in HoldLists, Goto(t, g)
  PROVE  Unforgotten
<1> DEFINE q == [pc[t] EXCEPT !.go = g]
<1>1. pc[t] \in Locals
  BY DEF Shaped, Shape, Threads
<1>2. Becomes(t, q) /\ q.go = g /\ q.m = pc[t].m /\ q.todo = pc[t].todo
  BY <1>1 DEF Goto, Locals
<1> HIDE DEF q
<1> QED BY <1>2, HolderOn

\* What follows in the lists of those who have a session reserved.
LEMMA HoldRests ==
  /\ Tail(<<"device", "dial", "dialed", "leave">>) \in HoldLists /\ Tail(<<"dial", "dialed", "leave">>) \in HoldLists
  /\ Tail(<<"undo", "leave">>) \in HoldLists /\ Tail(<<"undo", "drop", "leave">>) \in HoldLists
  /\ Tail(<<"attach", "answer", "assign", "record", "leave">>) \in HoldLists
  /\ Tail(<<"answer", "assign", "record", "leave">>) \in HoldLists
  /\ Tail(<<"reach", "swap", "leave">>) \in HoldLists
  /\ <<"leave">> \in HoldLists /\ <<"drop", "leave">> \in HoldLists
  /\ <<"undo", "leave">> \in HoldLists /\ <<"undo", "drop", "leave">> \in HoldLists
<1>1. Tail(<<"dial", "dialed", "leave">>) = <<"dialed", "leave">>
  OBVIOUS
<1> QED BY <1>1, Rests DEF HoldLists, DialLists, ClaimLists

\* The device is reserved, a call begun, the device given up.
LEMMA DiallingSess ==
  ASSUME Typed, Shaped, SessInv, NEW t \in Threads, ReserveDevice(t) \/ Dial(t) \/ Undo(t)
  PROVE  SessInv'
<1>1. UNCHANGED <<med, call>> /\ ThreadInv
  BY DEF ReserveDevice, Dial, Undo, SessInv
<1>2. CallsStay
  BY <1>1 DEF CallsStay, Live
<1>3. PICK a \in {"device", "dial", "undo"} : At(t, a)
  BY DEF ReserveDevice, Dial, Undo
<1>4. /\ pc[t].go \in DialLists /\ t \in Clients /\ pc[t] \in Locals /\ Shape(pc[t], t)
      /\ pc[t].go # <<>> /\ Head(pc[t].go) = a
  BY <1>3, DialAt DEF Shaped, At
<1>5. Tail(pc[t].go) \in HoldLists
  BY <1>4, Lists, HoldRests
<1>6. KnownStay
  <2>1. CASE UNCHANGED net
    BY <2>1, OnceKnown
  <2>2. CASE \E c \in Calls : net' = [net EXCEPT ![c] = "dialing"]
    BY <2>2, OnceKnown
  <2> QED BY <2>1, <2>2 DEF ReserveDevice, Dial, Undo, gateway
<1>7. Unforgotten
  <2>1. CASE \E c \in Calls : Becomes(t, [pc[t] EXCEPT !.go = Tail(@), !.c = c])
    <3>1. PICK c \in Calls : Becomes(t, [pc[t] EXCEPT !.go = Tail(@), !.c = c])
      BY <2>1
    <3> DEFINE q == [pc[t] EXCEPT !.go = Tail(@), !.c = c]
    <3>2. Becomes(t, q) /\ q.go = Tail(pc[t].go) /\ q.m = pc[t].m /\ q.todo = pc[t].todo
      BY <1>4, <3>1 DEF Locals
    <3> HIDE DEF q
    <3> QED BY <1>1, <1>4, <1>5, <3>2, HolderOn
  <2>2. CASE \E g \in {Tail(pc[t].go), <<"leave">>, <<"undo", "leave">>} : Goto(t, g)
    BY <1>1, <1>4, <1>5, <2>2, HoldRests, HolderGoto
  <2> QED BY <2>1, <2>2 DEF ReserveDevice, Dial, Undo, Then, Return
<1> QED BY <1>1, <1>2, <1>6, <1>7, FrameKeeps

\* The session is attached, or the request gives up.
LEMMA AttachSess ==
  ASSUME Typed, Shaped, SessInv, NEW t \in Threads, Attach(t) \/ Reach(t)
  PROVE  SessInv'
<1>1. UNCHANGED <<med, call>> /\ ThreadInv
  BY DEF Attach, Reach, SessInv
<1>2. CallsStay
  BY <1>1 DEF CallsStay, Live
<1>3. PICK a \in {"attach", "reach"} : At(t, a)
  BY DEF Attach, Reach
<1>4. /\ pc[t].go \in ClaimLists /\ t \in Clients /\ pc[t].c \in Calls /\ Shape(pc[t], t)
      /\ pc[t].go # <<>> /\ Head(pc[t].go) = a
  BY <1>3, ClaimAt, Claiming DEF Shaped, At
<1>5. Tail(pc[t].go) \in HoldLists
  BY <1>4, Lists, HoldRests
<1>6. KnownStay
  BY <1>4, OnceKnown DEF Attach, Reach, gateway
<1>7. Unforgotten
  <2>1. \E g \in {Tail(pc[t].go), <<"leave">>} : Goto(t, g)
    BY DEF Attach, Reach, Then, Return
  <2> QED BY <1>1, <1>4, <1>5, <2>1, HoldRests, HolderGoto
<1> QED BY <1>1, <1>2, <1>6, <1>7, FrameKeeps

\* The auto answer asks the gateway to answer, and has its session or removes it.
LEMMA AutoAnswerSess ==
  ASSUME Typed, Shaped, SessInv, NEW t \in Calls, AnswerCall(t)
  PROVE  SessInv'
<1>1. ThreadInv /\ OwnInv /\ t \in Threads /\ t \in Sessions /\ t # None /\ UNCHANGED call
  BY PhoneAssumption DEF SessInv, Threads, Sessions, PhoneAssumption, AnswerCall
<1>2. Answering(pc[t]) /\ pc[t].c = t /\ pc[t].todo = <<>> /\ pc[t] \in Locals /\ Fits(t, pc[t])
  <2>1. Fits(t, pc[t]) /\ pc[t] \in Locals /\ At(t, "answer")
    BY <1>1 DEF ThreadInv, Shaped, Shape, AnswerCall
  <2>2. pc[t].go \in AutoLists /\ pc[t].todo = <<>> /\ pc[t].go # <<>> /\ Head(pc[t].go) = "answer"
    BY <2>1 DEF Fits, At
  <2>3. Answering(pc[t])
    BY <2>2 DEF AutoLists, Answering
  <2> QED BY <2>1, <2>2, <2>3 DEF Fits
<1>3. ~Adopting(pc[t])
  BY <1>2 DEF Answering, Adopting
<1>4. Own(t) /\ CallsStay /\ med \in [Sessions -> SessionRecords]
  BY <1>1 DEF OwnInv, CallsStay, Live, Typed
<1>5. \/ net[t] = "offered" /\ net' = [net EXCEPT ![t] = "up"] /\ Then(t) /\ UNCHANGED med
      \/ net[t] = "offered" /\ net' = [net EXCEPT ![t] = "up"] /\ Goto(t, <<"drop", "leave">>) /\ med' = Removed(pc[t].m)
      \/ UNCHANGED net /\ Return(t) /\ med' = Removed(pc[t].m)
  BY <1>2 DEF AnswerCall
<1>6. KnownStay
  <2>1. UNCHANGED net \/ \E x : net' = [net EXCEPT ![t] = x] /\ (x \in {"none", "offered"} => ~Known(t))
    BY <1>5
  <2> QED BY <2>1, OnceKnown
<1>7. PICK g \in {<<"adopt", "record", "leave">>, <<"drop", "leave">>, <<"leave">>} :
         /\ Goto(t, g)
         /\ \/ g = <<"adopt", "record", "leave">> /\ net[t] = "offered" /\ net' = [net EXCEPT ![t] = "up"] /\ UNCHANGED med
            \/ /\ g # <<"adopt", "record", "leave">> /\ med' = Removed(pc[t].m)
               /\ UNCHANGED net \/ (net[t] = "offered" /\ net' = [net EXCEPT ![t] = "up"])
  <2>1. Tail(pc[t].go) = <<"adopt", "record", "leave">>
    BY <1>2 DEF Answering
  <2>2. CASE Then(t)
    <3>1. Goto(t, <<"adopt", "record", "leave">>)
      BY <2>1, <2>2 DEF Then
    <3>2. CASE net[t] = "offered" /\ net' = [net EXCEPT ![t] = "up"] /\ UNCHANGED med
      BY <3>1, <3>2
    <3>3. CASE Goto(t, <<"drop", "leave">>) /\ med' = Removed(pc[t].m) /\ net[t] = "offered" /\ net' = [net EXCEPT ![t] = "up"]
      BY <3>3
    <3>4. CASE UNCHANGED net /\ Return(t) /\ med' = Removed(pc[t].m)
      BY <3>4 DEF Return
    <3> QED BY <1>5, <3>2, <3>3, <3>4
  <2>3. CASE ~Then(t)
    BY <1>5, <2>3 DEF Return
  <2> QED BY <2>2, <2>3
<1> DEFINE q == [pc[t] EXCEPT !.go = g]
<1>8. Becomes(t, q) /\ q.go = g /\ q.m = pc[t].m /\ q.c = t /\ q.todo = <<>>
  BY <1>2, <1>7 DEF Goto, Locals
<1> HIDE DEF q
<1>9. Fits(t, q) /\ ~Answering(q) /\ Careless(q.go) /\ q.go # <<>>
      /\ (Adopting(q) <=> g = <<"adopt", "record", "leave">>)
  <2>1. g \in AutoLists /\ Ordered(g) /\ Careless(g)
    BY WrittenLists DEF AutoLists
  <2>2. g # <<"answer", "adopt", "record", "leave">> /\ g # <<>>
    OBVIOUS
  <2>3. Fits(t, q)
    BY <1>8, <2>1, <2>2 DEF Fits, Answering
  <2> QED BY <1>8, <2>1, <2>2, <2>3 DEF Answering, Adopting
<1>10. /\ \A u \in Threads \ {t} : pc'[u] = pc[u]
       /\ pc'[t] = q
  BY <1>1, <1>8, <1>9, Outlook
<1>11. Cleaned(t)' <=> Cleaned(t)
  <2>1. Careless(pc[t].go)
    BY <1>2, WrittenLists DEF Answering, AutoLists
  <2>2. ~Cleans(pc[t], t) /\ ~Cleans(pc'[t], t)
    BY <1>9, <1>10, <2>1, CarelessOnes
  <2> QED BY <1>1, <1>10, <2>2 DEF Cleaned
<1>12. /\ \A y \in Sessions \ {t} : med'[y] = med[y]
       /\ med'[t].bound = med[t].bound /\ med'[t].held = med[t].held
       /\ med'[t].sess = IF g # <<"adopt", "record", "leave">> /\ pc[t].m = t THEN "gone" ELSE med[t].sess
  <2>1. pc[t].m = t \/ (pc[t].m = None /\ pc[t].m # t)
    BY <1>1, <1>2, <1>4 DEF Own
  <2>2. CASE med' = Removed(pc[t].m) /\ pc[t].m = t /\ g # <<"adopt", "record", "leave">>
    <3>1. med' = [med EXCEPT ![t].sess = "gone"]
      BY <1>1, <2>2 DEF Removed
    <3> QED BY <1>1, <1>4, <2>2, <3>1 DEF SessionRecords
  <2>3. CASE UNCHANGED med /\ (pc[t].m # t \/ g = <<"adopt", "record", "leave">>)
    BY <2>3
  <2> QED BY <1>7, <2>1, <2>2, <2>3 DEF Removed
<1>13. net[t] = "offered" => /\ pc[t].m = t /\ ~Known(t) /\ ~Cleaned(t) /\ med[t].bound = None /\ med[t].sess = "up"
  BY <1>2, <1>4 DEF Known, Own
<1>14. Known(t) => Known(t)'
  BY <1>6 DEF KnownStay
<1>15. Own(t)'
  <2>1. CASE g = <<"adopt", "record", "leave">>
    <3>1. pc[t].m = t /\ ~Cleaned(t) /\ med[t].bound = None /\ med[t].sess = "up" /\ Known(t)'
      <4>1. net[t] = "offered" /\ net'[t] = "up"
        BY <1>7, <2>1 DEF Typed
      <4> QED BY <1>13, <4>1 DEF Known
    <3> QED BY <1>8, <1>9, <1>10, <1>11, <1>12, <2>1, <3>1 DEF Own, Present
  <2>2. CASE g # <<"adopt", "record", "leave">> /\ pc[t].m = t
    <3>1. med[t].bound = None
      BY <1>2, <1>4, <2>2 DEF Own
    <3>2. Cleaned(t) => Known(t)'
      BY <1>4, <1>14 DEF Own
    <3> QED BY <1>9, <1>10, <1>11, <1>12, <2>2, <3>1, <3>2 DEF Own, Present
  <2>3. CASE g # <<"adopt", "record", "leave">> /\ pc[t].m # t
    <3>1. Known(t)
      BY <1>2, <1>4, <2>3 DEF Own
    <3>2. Known(t)'
      BY <1>14, <3>1
    <3>3. Present(t) /\ med[t].bound = None => Cleaned(t)
      BY <1>3, <1>4, <2>3 DEF Own
    <3> QED BY <1>4, <1>9, <1>10, <1>11, <1>12, <2>3, <3>2, <3>3 DEF Own, Present
  <2> QED BY <2>1, <2>2, <2>3
<1>16. med'[t].sess = med[t].sess \/ med[t].bound = None
  BY <1>2, <1>4, <1>12 DEF Own
<1> QED BY <1>4, <1>6, <1>9, <1>10, <1>12, <1>15, <1>16, OwnKeeps

\* A client asks the gateway to answer.
LEMMA AnswerSess ==
  ASSUME Typed, Shaped, SessInv, NEW t \in Threads, AnswerCall(t)
  PROVE  SessInv'
<1>1. CASE t \in Calls
  BY <1>1, AutoAnswerSess
<1>2. CASE t \notin Calls
  <2>1. UNCHANGED <<med, call>> /\ ThreadInv /\ Fits(t, pc[t])
    BY <1>2 DEF AnswerCall, SessInv, ThreadInv
  <2>2. CallsStay
    BY <2>1 DEF CallsStay, Live
  <2>3. Shape(pc[t], t) /\ pc[t] \in Locals /\ pc[t].go # <<>> /\ Head(pc[t].go) = "answer" /\ pc[t].c \in Calls
    <3>1. Shape(pc[t], t) /\ pc[t].go # <<>> /\ Head(pc[t].go) = "answer"
      BY DEF AnswerCall, At, Shaped
    <3> QED BY <3>1, HasCall DEF Shape
  <2>4. KnownStay
    <3>1. UNCHANGED net \/ net' = [net EXCEPT ![pc[t].c] = "up"]
      BY DEF AnswerCall
    <3>2. PICK c \in Calls : c = pc[t].c
      BY <2>3
    <3>3. UNCHANGED net \/ \E x : net' = [net EXCEPT ![c] = x] /\ (x \in {"none", "offered"} => ~Known(c))
      BY <3>1, <3>2
    <3> QED BY <3>3, OnceKnown
  <2>5. PICK g \in {Tail(pc[t].go), <<"leave">>} : Goto(t, g)
    BY <1>2 DEF AnswerCall, Then, Return
  <2>6. CASE pc[t].go = <<"answer", "assign", "record", "leave">>
    <3>1. pc[t].go \in ClaimLists /\ g \in HoldLists
      BY <2>5, <2>6, HoldRests DEF ClaimLists
    <3>2. t \in Clients
      BY <3>1, Claiming
    <3>3. Unforgotten
      BY <2>1, <2>5, <3>1, <3>2, HolderGoto
    <3> QED BY <2>1, <2>2, <2>4, <3>3, FrameKeeps
  <2>7. CASE pc[t].go # <<"answer", "assign", "record", "leave">>
    <3>1. pc[t].go \in Seq(Plain) /\ pc[t].go \in Seq(Steps)
      BY <2>3, <2>7, Lists DEF Locals
    <3>2. Careless(pc[t].go)
      BY <2>1, <2>3, <3>1, OrderedTail DEF Fits, Droppers
    <3>3. Ordered(g) /\ Careless(g)
      <4>1. CASE g = <<"leave">>
        BY <4>1, WrittenLists
      <4>2. CASE g = Tail(pc[t].go)
        <5>1. Ordered(Tail(pc[t].go))
          BY <2>1, <2>3, <3>1, OrderedTail DEF Fits
        <5>2. \A a : Has(pc[t].go, a) <=> Head(pc[t].go) = a \/ Has(Tail(pc[t].go), a)
          BY <2>3, <3>1, WithoutHead
        <5> QED BY <3>2, <4>2, <5>1, <5>2 DEF Careless
      <4> QED BY <2>5, <4>1, <4>2
    <3> DEFINE q == [pc[t] EXCEPT !.go = g]
    <3>4. Becomes(t, q) /\ q.go = g
      BY <2>3, <2>5 DEF Goto, Locals
    <3> HIDE DEF q
    <3>5. \A y : ~Holds(pc[t], y)
      <4>1. pc[t].go \notin HoldLists
        BY <2>3, <2>7 DEF HoldLists, DialLists, ClaimLists
      <4> QED BY <4>1 DEF Holds
    <3>6. \A y : ~Cleans(q, y) /\ ~Cleans(pc[t], y) /\ ~Sees(pc[t], y)
      BY <3>2, <3>3, <3>4, CarelessOnes
    <3>7. Follows(t, pc[t], q)
      BY <1>2, <3>3, <3>4, <3>5, <3>6 DEF Follows, Tends, Fits
    <3>8. Unforgotten
      BY <2>1, <3>4, <3>7, Moving
    <3> QED BY <2>1, <2>2, <2>4, <3>8, FrameKeeps
  <2> QED BY <2>6, <2>7
<1> QED BY <1>1, <1>2

\* What is seen to after the session has been bound.
LEMMA ResumeOnly ==
  ASSUME NEW m
  PROVE  /\ Resume(m) \in Seq(Steps)
         /\ \A a : Has(Resume(m), a) <=> a = "resume" /\ med[m].drop # "none"
<1>1. <<"resume">> \in Seq(Steps) /\ <<>> \in Seq(Steps)
  BY DEF Steps
<1>2. \A a : (Has(<<"resume">>, a) <=> a = "resume") /\ ~Has(<<>>, a)
  BY DEF Has
<1> QED BY <1>1, <1>2 DEF Resume

\* A list in which nothing is given up.
LEMMA NoDropper ==
  ASSUME NEW s, \A x \in Droppers : ~Has(s, x)
  PROVE  Ordered(s)
BY DEF Ordered, Has

LEMMA HasSome ==
  ASSUME NEW s, NEW x, Has(s, x)
  PROVE  s # <<>>
BY DEF Has

\* The session that is bound.
LEMMA Taken ==
  ASSUME Typed, NEW m \in Media, NEW t \in Clients, NEW c, Bindable(m, t), med' = Bound(m, c)
  PROVE  /\ med[m].held = t /\ Present(m)
         /\ med'[m].sess = med[m].sess /\ med'[m].held = None /\ med'[m].bound = c /\ med'[m].drop = "none"
         /\ \A y \in Sessions \ {m} : med'[y] = med[y]
<1>1. m \in Sessions /\ med \in [Sessions -> SessionRecords]
  BY DEF Typed, Sessions
<1> QED BY <1>1 DEF Bound, Bindable, SessionRecords

\* BeginCall has returned: the call gets its session, or is hung up.
LEMMA DialedSess ==
  ASSUME Typed, Shaped, SessInv, NEW t \in Threads, Dialed(t)
  PROVE  SessInv'
<1>1. At(t, "dialed") /\ UNCHANGED net /\ ThreadInv
  BY DEF Dialed, gateway, SessInv
<1>2. KnownStay
  BY <1>1, OnceKnown
<1>3. PICK c \in Calls, m \in Media : c = pc[t].c /\ m = pc[t].m
  BY <1>1, DialAt
<1>4. /\ pc[t].go = <<"dialed", "leave">> /\ pc[t].go \in DialLists /\ t \in Clients /\ pc[t] \in Locals
      /\ Fits(t, pc[t]) /\ call \in [Calls -> CallRecords] /\ early[c] \in Seq(Kinds)
  <2>1. Shape(pc[t], t) /\ pc[t].go # <<>> /\ Head(pc[t].go) = "dialed"
    BY <1>1 DEF Shaped, At
  <2> QED BY <1>1, <2>1, Lists, DialAt DEF Typed, ThreadInv
<1>5. CASE Bindable(m, t)
  <2> DEFINE g == Resume(m) \o <<"snap", "write">> \o <<"leave">>
             q == [pc[t] EXCEPT !.go = g, !.todo = early[c]]
  <2>1. Becomes(t, q) /\ q.go = g /\ q.m = m
    <3>1. Tail(pc[t].go) = <<"leave">>
      BY <1>4, Rests, Zenon
    <3>2. Becomes(t, q)
      BY <1>3, <1>5, <3>1 DEF Dialed
    <3> QED BY <1>3, <1>4, <3>2 DEF Locals
  <2>2. \A a : Has(g, a) <=> (a = "resume" /\ med[m].drop # "none") \/ a \in {"snap", "write", "leave"}
    <3>1. PICK r \in Seq(Steps) : r = Resume(m)
      BY ResumeOnly
    <3>2. PICK x \in Seq(Steps), y \in Seq(Steps) : x = <<"snap", "write">> /\ y = <<"leave">>
      <4>1. <<"snap", "write">> \in Seq(Steps) /\ <<"leave">> \in Seq(Steps)
        BY DEF Steps
      <4> QED BY <4>1
    <3>3. PICK z \in Seq(Steps) : z = r \o x
      <4>1. \A u, v \in Seq(Steps) : u \o v \in Seq(Steps)
        OBVIOUS
      <4> QED BY <4>1, Zenon
    <3>4. \A a : (Has(x, a) <=> a \in {"snap", "write"}) /\ (Has(y, a) <=> a = "leave")
      BY <3>2 DEF Has
    <3>5. \A a : (Has(z, a) <=> Has(r, a) \/ Has(x, a)) /\ (Has(z \o y, a) <=> Has(z, a) \/ Has(y, a))
      BY <3>3, OneAfterAnother
    <3>6. g = z \o y
      BY <3>1, <3>2, <3>3
    <3>7. \A a : Has(r, a) <=> a = "resume" /\ med[m].drop # "none"
      BY <3>1, ResumeOnly
    <3> QED BY <3>4, <3>5, <3>6, <3>7
  <2> HIDE DEF g, q
  <2>3. pc'[t] = q /\ \A u \in Threads \ {t} : pc'[u] = pc[u]
    <3>1. q.go # <<>>
      BY <2>1, <2>2, HasSome
    <3> QED BY <2>1, <3>1, Outlook
  <2>4. Fits(t, pc'[t]) /\ Careless(pc[t].go)
    <3>1. Ordered(g)
      BY <2>2, NoDropper DEF Droppers
    <3>2. t \notin Calls
      BY <1>4, PhoneAssumption DEF PhoneAssumption
    <3> QED BY <1>4, <2>1, <2>3, <3>1, <3>2, WrittenLists DEF Fits, HoldLists
  <2>5. /\ \A y \in Sessions : ~Cleans(pc'[t], y)
        /\ med[m].drop # "none" => Sees(pc'[t], m)
    BY <2>1, <2>2, <2>3 DEF Cleans, Sees
  <2>6. /\ med[m].held = t /\ Present(m) /\ med'[m].sess = med[m].sess /\ med'[m].held = None
        /\ med'[m].bound = c /\ med'[m].drop = "none" /\ \A y \in Sessions \ {m} : med'[y] = med[y]
    <3>1. med' = Bound(m, c)
      BY <1>3, <1>5 DEF Dialed
    <3> QED BY <1>4, <1>5, <3>1, Taken
  <2>7. Live(c)' /\ call'[c].media = m /\ call'[c].dtimer = None /\ \A d \in Calls \ {c} : call'[d] = call[d]
    <3>1. call' = [call EXCEPT ![c] = [NewCall(c, "out", "calling") EXCEPT !.media = m, !.lease = m]]
      BY <1>3, <1>5 DEF Dialed
    <3>2. PICK k : k = [NewCall(c, "out", "calling") EXCEPT !.media = m, !.lease = m]
      OBVIOUS
    <3>3. k.reg /\ k.status = "calling" /\ k.media = m /\ k.dtimer = None
      <4>1. PICK a : a = (call[c] # NoCall)
        OBVIOUS
      <4>2. NewCall(c, "out", "calling") =
              [NoCall EXCEPT !.reg = TRUE, !.dir = "out", !.status = "calling", !.again = a]
        BY <4>1, Zenon DEF NewCall
      <4> QED BY <3>2, <4>2 DEF NoCall
    <3>4. call'[c] = k /\ \A d \in Calls \ {c} : call'[d] = call[d]
      BY <1>4, <3>1, <3>2
    <3> QED BY <3>3, <3>4 DEF Live, Active
  <2>8. None \in OrNone(Sessions) /\ \A y \in Sessions : y # None
    BY PhoneAssumption DEF PhoneAssumption, OrNone, Sessions
  <2> QED BY <1>2, <1>3, <1>4, <2>3, <2>4, <2>5, <2>6, <2>7, <2>8, BindKeeps, ZenonT(30)
<1>6. CASE ~Bindable(m, t)
  <2>1. med' = Unheld(m, t) /\ Goto(t, <<"undo", "drop", "leave">>) /\ UNCHANGED call
    BY <1>3, <1>6 DEF Dialed
  <2>2. Unforgotten
    BY <1>1, <1>4, <2>1, HoldRests, HolderGoto
  <2>3. CallsStay
    BY <2>1 DEF CallsStay, Live
  <2> QED BY <1>2, <1>6, <2>1, <2>2, <2>3, UnheldKeeps
<1> QED BY <1>5, <1>6

\* A request takes the call, or finds that it cannot.
LEMMA TakesSess ==
  ASSUME Typed, Shaped, SessInv, NEW t \in Threads, Assign(t) \/ Usurp(t)
  PROVE  SessInv'
<1>1. UNCHANGED net /\ ThreadInv
  BY DEF Assign, Usurp, Takes, gateway, SessInv
<1>2. KnownStay
  BY <1>1, OnceKnown
<1>3. PICK x \in {"assign", "usurp"} : At(t, x)
  BY DEF Assign, Usurp
<1>4. pc[t].go \in ClaimLists /\ t \in Clients /\ pc[t] \in Locals
  BY <1>3, ClaimAt, Claiming
<1>5. PICK c \in Calls, m \in Media : c = pc[t].c /\ m = pc[t].m
  BY <1>4, Claiming
<1>6. PICK r \in {<<"record", "leave">>, <<"refuse", "report", "leave">>} : r = Tail(pc[t].go)
  <2>1. Shape(pc[t], t) /\ pc[t].go # <<>> /\ Head(pc[t].go) = x
    BY <1>3 DEF Shaped, At
  <2>2. pc[t].go \in {<<"assign", "record", "leave">>, <<"usurp", "refuse", "report", "leave">>}
    BY <1>3, <2>1, Lists
  <2> QED BY <2>2, Rests, Zenon
<1>7. r \in Seq(Steps) /\ Ordered(r) /\ Careless(r)
  <2>1. <<"record", "leave">> \in Seq(Steps) /\ <<"refuse", "report", "leave">> \in Seq(Steps)
    BY DEF Steps
  <2>2. Ordered(<<"refuse", "report", "leave">>) /\ Careless(<<"refuse", "report", "leave">>)
    BY DEF Ordered, Careless, Has, Attention
  <2>3. Ordered(<<"record", "leave">>) /\ Careless(<<"record", "leave">>)
    BY WrittenLists DEF AutoLists
  <2> QED BY <2>1, <2>2, <2>3
<1>8. \/ /\ Bindable(m, t) /\ Live(c) /\ med' = Bound(m, c)
         /\ call' = [call EXCEPT ![c].media = m, ![c].lease = m]
         /\ Goto(t, Resume(m) \o r)
      \/ /\ UNCHANGED med \/ (~Bindable(m, t) /\ med' = Unheld(m, t))
         /\ UNCHANGED call /\ \E g \in {<<"drop", "leave">>, <<"leave">>} : Goto(t, g)
  <2>1. CASE Assign(t)
    BY <1>5, <1>6, <2>1 DEF Assign, Takes
  <2>2. CASE Usurp(t)
    BY <1>5, <1>6, <2>2 DEF Usurp, Takes
  <2> QED BY <2>1, <2>2
<1>9. CASE /\ Bindable(m, t) /\ Live(c) /\ med' = Bound(m, c)
           /\ call' = [call EXCEPT ![c].media = m, ![c].lease = m]
           /\ Goto(t, Resume(m) \o r)
  <2> DEFINE g == Resume(m) \o r
             q == [pc[t] EXCEPT !.go = g]
  <2>1. Becomes(t, q) /\ q.go = g /\ q.m = m
    <3>1. Becomes(t, q)
      BY <1>9 DEF Goto
    <3> QED BY <1>4, <1>5, <3>1 DEF Locals
  <2>2. /\ \A a : Has(g, a) <=> (a = "resume" /\ med[m].drop # "none") \/ Has(r, a)
        /\ Ordered(g)
    <3>1. PICK z \in Seq(Steps) : z = Resume(m)
      BY ResumeOnly
    <3>2. \A a : Has(z, a) <=> a = "resume" /\ med[m].drop # "none"
      BY <3>1, ResumeOnly
    <3>3. \A a : Has(z \o r, a) <=> Has(z, a) \/ Has(r, a)
      BY <1>7, OneAfterAnother
    <3>4. Ordered(z)
      BY <3>2, NoDropper DEF Droppers
    <3>5. Ordered(z \o r)
      BY <1>7, <3>4, OrderedAfter
    <3>6. g = z \o r
      BY <3>1
    <3> QED BY <3>2, <3>3, <3>5, <3>6
  <2>3. Has(r, "leave")
    <3>1. Has(<<"record", "leave">>, "leave") /\ Has(<<"refuse", "report", "leave">>, "leave")
      BY DEF Has
    <3> QED BY <3>1
  <2> HIDE DEF g, q
  <2>4. pc'[t] = q /\ \A u \in Threads \ {t} : pc'[u] = pc[u]
    <3>1. q.go # <<>>
      BY <2>1, <2>2, <2>3, HasSome
    <3> QED BY <2>1, <3>1, Outlook
  <2>5. Fits(t, pc'[t]) /\ Careless(pc[t].go)
    <3>1. t \notin Calls
      BY <1>4, PhoneAssumption DEF PhoneAssumption
    <3>2. Careless(pc[t].go)
      BY <1>4, WrittenLists DEF HoldLists
    <3> QED BY <2>1, <2>2, <2>4, <3>1, <3>2 DEF Fits
  <2>6. /\ \A y \in Sessions : ~Cleans(pc'[t], y)
        /\ med[m].drop # "none" => Sees(pc'[t], m)
    <3>1. ~Has(r, "close") /\ ~Has(r, "unlink")
      BY <1>7 DEF Careless, Attention
    <3> QED BY <2>1, <2>2, <2>4, <3>1 DEF Cleans, Sees
  <2>7. /\ med[m].held = t /\ Present(m) /\ med'[m].sess = med[m].sess /\ med'[m].held = None
        /\ med'[m].bound = c /\ med'[m].drop = "none" /\ \A y \in Sessions \ {m} : med'[y] = med[y]
    BY <1>4, <1>9, Taken
  <2>8. /\ Live(c)' /\ call'[c].media = m /\ call'[c].dtimer = call[c].dtimer
        /\ \A d \in Calls \ {c} : call'[d] = call[d]
    <3>1. call \in [Calls -> CallRecords]
      BY DEF Typed
    <3>2. PICK k : k = [call[c] EXCEPT !.media = m, !.lease = m]
      OBVIOUS
    <3>3. k.reg = call[c].reg /\ k.status = call[c].status /\ k.media = m /\ k.dtimer = call[c].dtimer
      BY <3>1, <3>2 DEF CallRecords
    <3>4. call'[c] = k /\ \A d \in Calls \ {c} : call'[d] = call[d]
      BY <1>9, <3>1, <3>2
    <3> QED BY <1>9, <3>3, <3>4 DEF Live
  <2>9. None \in OrNone(Sessions) /\ \A y \in Sessions : y # None
    BY PhoneAssumption DEF PhoneAssumption, OrNone, Sessions
  <2>10. /\ \A y \in Sessions : Cleans(pc'[t], y) <=> y = None
         /\ \A y \in Sessions \ {m, None} : med'[y] = med[y]
         /\ Live(c) /\ call'[c].dtimer = call[c].dtimer /\ pc[t].m = m
    BY <1>5, <1>9, <2>6, <2>7, <2>8, <2>9
  <2> QED BY <1>2, <1>4, <2>4, <2>5, <2>6, <2>7, <2>8, <2>9, <2>10, BindKeeps
<1>10. CASE /\ UNCHANGED med \/ (~Bindable(m, t) /\ med' = Unheld(m, t))
            /\ UNCHANGED call /\ \E g \in {<<"drop", "leave">>, <<"leave">>} : Goto(t, g)
  <2>1. CallsStay
    BY <1>10 DEF CallsStay, Live
  <2>2. Unforgotten
    BY <1>1, <1>4, <1>10, HoldRests, HolderGoto
  <2> QED BY <1>2, <1>10, <2>1, <2>2, UnheldKeeps
<1> QED BY <1>8, <1>9, <1>10

\* Another session takes the call over, or finds that it cannot.
LEMMA SwapSess ==
  ASSUME Typed, Shaped, SessInv, NEW t \in Threads, Swap(t)
  PROVE  SessInv'
<1>1. UNCHANGED net /\ ThreadInv /\ BoundInv /\ HeldInv /\ At(t, "swap")
  BY Zenon DEF Swap, gateway, SessInv
<1>2. KnownStay
  BY <1>1, OnceKnown
<1>3. pc[t].go \in ClaimLists /\ t \in Clients /\ pc[t] \in Locals
  BY <1>1, ClaimAt, Claiming
<1>4. PICK c \in Calls, m \in Media : c = pc[t].c /\ m = pc[t].m
  BY <1>3, Claiming
<1>5. Tail(pc[t].go) = <<"leave">>
  <2>1. Shape(pc[t], t) /\ pc[t].go # <<>> /\ Head(pc[t].go) = "swap"
    BY <1>1 DEF Shaped, At
  <2>2. pc[t].go = <<"swap", "leave">>
    BY <2>1, Lists
  <2> QED BY <2>2, Rests, Zenon
<1>6. call \in [Calls -> CallRecords] /\ med \in [Sessions -> SessionRecords]
  BY DEF Typed
<1>7. PICK o \in OrNone(Sessions) : o = call[c].media
  BY <1>6 DEF CallRecords
<1>8. PICK z \in {<<"record">>, <<>>} : z = IF call[c].status = "connected" THEN <<"record">> ELSE <<>>
  BY ZenonT(30)
<1>9. \/ /\ Live(c) /\ Bindable(m, t)
         /\ med' = IF o = None THEN Bound(m, c) ELSE [Bound(m, c) EXCEPT ![o].bound = None, ![o].drop = "none"]
         /\ call' = [call EXCEPT ![c].media = m, ![c].lease = m, ![c].dtimer = None, ![c].armed = FALSE]
         /\ Becomes(t, [pc[t] EXCEPT !.lease = o, !.again = call[c].again,
                                     !.go = z \o Resume(m) \o <<"unlink">> \o Tail(@)])
      \/ /\ UNCHANGED med \/ (~Bindable(m, t) /\ med' = Unheld(m, t))
         /\ UNCHANGED call /\ Goto(t, <<"leave">>)
  BY <1>4, <1>7, <1>8, Zenon DEF Swap, Return
<1>10. CASE /\ Live(c) /\ Bindable(m, t)
            /\ med' = IF o = None THEN Bound(m, c) ELSE [Bound(m, c) EXCEPT ![o].bound = None, ![o].drop = "none"]
            /\ call' = [call EXCEPT ![c].media = m, ![c].lease = m, ![c].dtimer = None, ![c].armed = FALSE]
            /\ Becomes(t, [pc[t] EXCEPT !.lease = o, !.again = call[c].again,
                                        !.go = z \o Resume(m) \o <<"unlink">> \o Tail(@)])
  <2> DEFINE g == z \o Resume(m) \o <<"unlink">> \o <<"leave">>
             q == [pc[t] EXCEPT !.lease = o, !.again = call[c].again, !.go = g]
  <2>1. Becomes(t, q) /\ q.go = g /\ q.m = m /\ q.lease = o
    <3>1. Becomes(t, q)
      BY <1>5, <1>10
    <3> QED BY <1>3, <1>4, <3>1 DEF Locals
  <2>2. \A a : Has(g, a) <=> \/ a = "record" /\ z # <<>>
                             \/ a = "resume" /\ med[m].drop # "none"
                             \/ a \in {"unlink", "leave"}
    <3>1. PICK r \in Seq(Steps) : r = Resume(m)
      BY ResumeOnly
    <3>2. <<"record">> \in Seq(Steps) /\ <<>> \in Seq(Steps) /\ <<"unlink">> \in Seq(Steps) /\ <<"leave">> \in Seq(Steps)
      BY DEF Steps
    <3>3. PICK x \in Seq(Steps), y \in Seq(Steps), w \in Seq(Steps) : x = <<"unlink">> /\ y = <<"leave">> /\ w = z
      BY <3>2, Zenon
    <3>4. \A u, v \in Seq(Steps) : u \o v \in Seq(Steps)
      OBVIOUS
    <3>5. PICK k \in Seq(Steps) : k = w \o r
      BY <3>4, Zenon
    <3>6. PICK n \in Seq(Steps) : n = k \o x
      BY <3>4, Zenon
    <3>7. \A a : (Has(x, a) <=> a = "unlink") /\ (Has(y, a) <=> a = "leave")
      BY <3>3 DEF Has
    <3>8. \A a : Has(w, a) <=> a = "record" /\ z # <<>>
      <4>1. \A a : (Has(<<"record">>, a) <=> a = "record") /\ ~Has(<<>>, a)
        BY DEF Has
      <4> QED BY <3>3, <4>1
    <3>9. \A a : Has(r, a) <=> a = "resume" /\ med[m].drop # "none"
      BY <3>1, ResumeOnly
    <3>10. \A a : /\ Has(k, a) <=> Has(w, a) \/ Has(r, a)
                  /\ Has(n, a) <=> Has(k, a) \/ Has(x, a)
                  /\ Has(n \o y, a) <=> Has(n, a) \/ Has(y, a)
      <4>1. \A a : Has(w \o r, a) <=> Has(w, a) \/ Has(r, a)
        BY OneAfterAnother
      <4>2. \A a : Has(k \o x, a) <=> Has(k, a) \/ Has(x, a)
        BY OneAfterAnother
      <4>3. \A a : Has(n \o y, a) <=> Has(n, a) \/ Has(y, a)
        BY OneAfterAnother
      <4> QED BY <3>5, <3>6, <4>1, <4>2, <4>3
    <3>11. g = n \o y
      BY <3>1, <3>3, <3>5, <3>6
    <3> QED BY <3>7, <3>8, <3>9, <3>10, <3>11
  <2> HIDE DEF g, q
  <2>3. pc'[t] = q /\ \A u \in Threads \ {t} : pc'[u] = pc[u]
    <3>1. q.go # <<>>
      BY <2>1, <2>2, HasSome
    <3> QED BY <2>1, <3>1, Outlook
  <2>4. Fits(t, pc'[t]) /\ Careless(pc[t].go)
    <3>1. Ordered(g)
      BY <2>2, NoDropper DEF Droppers
    <3>2. t \notin Calls
      BY <1>3, PhoneAssumption DEF PhoneAssumption
    <3> QED BY <1>3, <2>1, <2>3, <3>1, <3>2, WrittenLists DEF Fits, HoldLists
  <2>5. /\ \A y \in Sessions : Cleans(pc'[t], y) <=> y = o
        /\ med[m].drop # "none" => Sees(pc'[t], m)
    BY <2>1, <2>2, <2>3 DEF Cleans, Sees
  <2>6. m \in Sessions /\ med[m].held = t /\ Present(m) /\ t # None /\ t \in Threads
    BY <1>3, <1>10, PhoneAssumption DEF Bindable, Sessions, PhoneAssumption, Threads
  <2>7. o # None => o \in Sessions /\ o # m /\ med[o].bound = c
    <3>1. o # None => o \in Sessions /\ med[o].bound = c
      BY <1>1, <1>7, <1>10 DEF BoundInv, OrNone
    <3>2. med[m].bound = None /\ c # None
      BY <1>1, <2>6, PhoneAssumption DEF HeldInv, PhoneAssumption
    <3> QED BY <3>1, <3>2
  <2>8. PICK b : b = Bound(m, c)
    OBVIOUS
  <2>9. /\ b \in [Sessions -> SessionRecords]
        /\ b[m].sess = med[m].sess /\ b[m].held = None /\ b[m].bound = c /\ b[m].drop = "none"
        /\ \A y \in Sessions \ {m} : b[y] = med[y]
    BY <1>6, <2>6, <2>8 DEF Bound, SessionRecords, OrNone
  <2>10. /\ med'[m] = b[m]
         /\ \A y \in Sessions \ {m, o} : med'[y] = b[y]
         /\ o # None => /\ med'[o].sess = b[o].sess /\ med'[o].held = b[o].held
                        /\ med'[o].bound = None /\ med'[o].drop = "none"
    <3>1. CASE o = None
      BY <1>10, <2>6, <2>8, <3>1
    <3>2. CASE o # None
      <4>1. med' = [b EXCEPT ![o].bound = None, ![o].drop = "none"]
        BY <1>10, <2>8, <3>2
      <4> QED BY <2>6, <2>7, <2>9, <3>2, <4>1 DEF SessionRecords
    <3> QED BY <3>1, <3>2
  <2>11. Live(c)' /\ call'[c].media = m /\ call'[c].dtimer = None /\ \A d \in Calls \ {c} : call'[d] = call[d]
    <3>1. PICK k : k = [call[c] EXCEPT !.media = m, !.lease = m, !.dtimer = None, !.armed = FALSE]
      OBVIOUS
    <3>2. k.reg = call[c].reg /\ k.status = call[c].status /\ k.media = m /\ k.dtimer = None
      BY <1>6, <3>1 DEF CallRecords
    <3>3. call' = [call EXCEPT ![c] = k]
      BY <1>6, <1>10, <3>1, Zenon
    <3>4. call'[c] = k /\ \A d \in Calls \ {c} : call'[d] = call[d]
      BY <1>6, <3>3
    <3> QED BY <1>10, <3>2, <3>4 DEF Live
  <2>12. /\ o # None => Live(c) /\ call[c].media = o
         /\ med'[m].sess = med[m].sess /\ med'[m].held = None /\ med'[m].bound = c /\ med'[m].drop = "none"
         /\ o # None => /\ med'[o].sess = med[o].sess /\ med'[o].held = med[o].held
                        /\ med'[o].bound = None /\ med'[o].drop = "none"
         /\ \A y \in Sessions \ {m, o} : med'[y] = med[y]
         /\ pc[t].m = m
    BY <1>4, <1>7, <1>10, <2>7, <2>9, <2>10, Zenon
  <2> QED BY <1>2, <1>3, <2>3, <2>4, <2>5, <2>6, <2>11, <2>12, BindKeeps
<1>11. CASE /\ UNCHANGED med \/ (~Bindable(m, t) /\ med' = Unheld(m, t))
            /\ UNCHANGED call /\ Goto(t, <<"leave">>)
  <2>1. CallsStay
    BY <1>11 DEF CallsStay, Live
  <2>2. Unforgotten
    BY <1>1, <1>3, <1>11, HoldRests, HolderGoto
  <2> QED BY <1>2, <1>11, <2>1, <2>2, UnheldKeeps
<1> QED BY <1>9, <1>10, <1>11, ZenonT(30)

\* A request is over and gives its session back.
LEMMA LeaveSess ==
  ASSUME Typed, Shaped, SessInv, NEW t \in Threads, Leave(t)
  PROVE  SessInv'
<1>1. /\ UNCHANGED net /\ ThreadInv /\ HeldInv /\ LostInv
      /\ pc[t].go = <<"leave">> /\ pc[t].todo = <<>> /\ pc' = [pc EXCEPT ![t] = Idle]
      /\ med' = Released(pc[t].m, t) /\ Shape(pc[t], t) /\ pc[t] \in Locals
      /\ call' = IF pc[t].claim /\ Same(t) THEN [call EXCEPT ![pc[t].c].pending = FALSE] ELSE call
      /\ call \in [Calls -> CallRecords] /\ med \in [Sessions -> SessionRecords]
  BY DEF Leave, gateway, SessInv, Shaped, Shape, Typed
<1>2. KnownStay
  BY <1>1, OnceKnown
<1>3. CallsStay
  <2>1. CASE UNCHANGED call
    BY <2>1 DEF CallsStay, Live
  <2>2. CASE pc[t].claim /\ call' = [call EXCEPT ![pc[t].c].pending = FALSE]
    <3>1. PICK c \in Calls : c = pc[t].c
      BY <1>1, <2>2, HasCall
    <3>2. PICK k : k = [call[c] EXCEPT !.pending = FALSE]
      OBVIOUS
    <3>3. k.reg = call[c].reg /\ k.status = call[c].status /\ k.media = call[c].media /\ k.dtimer = call[c].dtimer
      BY <1>1, <3>2 DEF CallRecords
    <3>4. call' = [call EXCEPT ![c] = k]
      BY <1>1, <2>2, <3>1, <3>2
    <3> QED BY <3>3, <3>4, OneCallStays DEF Live
  <2> QED BY <1>1, <2>1, <2>2
<1>4. pc'[t] = Idle /\ \A u \in Threads \ {t} : pc'[u] = pc[u]
  BY <1>1 DEF Shaped
<1>5. \A u \in Threads : Tends(u, pc[u], pc'[u])
  <2>1. \A u \in Threads \ {t} : Tends(u, pc[u], pc'[u])
    BY <1>1, <1>4 DEF ThreadInv, Tends
  <2>2. Idle.go = <<>> /\ Idle.todo = <<>> /\ <<>> \in AutoLists
    BY DEF Idle, AutoLists
  <2>3. Ordered(<<>>) /\ Careless(<<>>) /\ Careless(<<"leave">>)
    BY WrittenLists
  <2>4. \A x : ~Cleans(Idle, x) /\ ~Cleans(pc[t], x) /\ ~Sees(pc[t], x)
    BY <1>1, <2>2, <2>3, CarelessOnes
  <2>5. ~Answering(Idle) /\ ~Adopting(Idle) /\ ~Answering(pc[t]) /\ ~Adopting(pc[t])
    BY <1>1, <2>2 DEF Answering, Adopting
  <2>6. Tends(t, pc[t], Idle)
    BY <2>2, <2>3, <2>4, <2>5 DEF Tends, Fits
  <2> QED BY <1>4, <2>1, <2>6
<1>6. PICK x \in OrNone(Sessions) : x = pc[t].m
  BY <1>1 DEF Locals
<1>7. \/ UNCHANGED med /\ (x = None \/ med[x].held # t)
      \/ /\ x \in Sessions /\ med[x].held = t
         /\ \A y \in Sessions \ {x} : med'[y] = med[y]
         /\ med'[x].held = None /\ med'[x].bound = med[x].bound /\ med'[x].sess = med[x].sess
         /\ med'[x].drop = IF med[x].drop = "paused" /\ Present(x) THEN "armed" ELSE med[x].drop
  <2>1. CASE x = None \/ med[x].held # t
    BY <1>1, <1>6, <2>1 DEF Released
  <2>2. CASE x # None /\ med[x].held = t
    <3>1. x \in Sessions
      BY <2>2 DEF OrNone
    <3>2. med' = [med EXCEPT ![x].held = None, ![x].drop = IF @ = "paused" /\ Present(x) THEN "armed" ELSE @]
      BY <1>1, <1>6, <2>2 DEF Released
    <3> QED BY <1>1, <2>2, <3>1, <3>2 DEF SessionRecords
  <2> QED BY <2>1, <2>2, ZenonT(30)
<1>8. \A y \in Sessions : ~(med'[y].held = t /\ t # None)
  <2> SUFFICES ASSUME NEW y \in Sessions, med'[y].held = t, t # None PROVE FALSE
    OBVIOUS
  <2>1. CASE y = x /\ med'[x].held = None
    BY <2>1
  <2>2. CASE med'[y] = med[y]
    <3>1. pc[t].m = y
      BY <1>1, <2>2 DEF HeldInv, Holds
    <3>2. y # None
      BY PhoneAssumption DEF PhoneAssumption, Sessions
    <3> QED BY <1>6, <1>7, <2>2, <3>1, <3>2
  <2> QED BY <1>7, <2>1, <2>2
<1>9. HeldInv'
  <2> SUFFICES ASSUME NEW y \in Sessions, NEW u \in Threads, med'[y].held = u, u # None
               PROVE  y \in Media /\ u \in Clients /\ med'[y].bound = None /\ Holds(pc'[u], y)
    BY DEF HeldInv
  <2>1. u # t
    BY <1>8
  <2>2. med[y].held = u /\ med'[y].bound = med[y].bound
    BY <1>7
  <2> QED BY <1>1, <1>4, <2>1, <2>2 DEF HeldInv
<1>10. \A m \in Sessions : med'[m].bound = med[m].bound /\ med'[m].sess = med[m].sess
  BY <1>7
<1>11. ASSUME NEW m \in Media
       PROVE  /\ med'[m].drop = "paused" /\ Present(m) => med'[m].held # None
              /\ med[m].bound = None /\ med[m].drop # "none" => med'[m].drop # "none"
  <2>1. med[m].drop = "paused" /\ Present(m) => med[m].held # None
    BY <1>1 DEF LostInv
  <2>2. m \in Sessions
    BY DEF Sessions
  <2> QED BY <1>7, <2>1, <2>2
<1> QED BY <1>2, <1>3, <1>5, <1>9, <1>10, <1>11, HoldKeeps

\* A request begins.
LEMMA BeginsOnly ==
  ASSUME Shaped, ThreadInv, NEW t \in Clients, NEW go, go # <<>>, Ordered(go), Careless(go),
         NEW c, NEW m, NEW claim, NEW lease, Begins(t, go, c, m, claim, lease)
  PROVE  Unforgotten /\ pc[t] = Idle /\ pc'[t].go = go /\ pc'[t].m = m /\ pc'[t].todo = <<>>
<1> DEFINE q == [Idle EXCEPT !.go = go, !.c = c, !.m = m, !.claim = claim, !.lease = lease,
                             !.again = claim /\ call[c].again]
<1>1. pc[t] = Idle /\ Becomes(t, q) /\ q.go = go /\ q.m = m /\ q.todo = <<>>
  BY DEF Begins, Idle
<1> HIDE DEF q
<1>2. t \in Threads /\ t \notin Calls
  BY PhoneAssumption DEF PhoneAssumption, Threads
<1>3. Follows(t, pc[t], q)
  BY <1>1, <1>2, SetsOut
<1>4. Unforgotten /\ pc'[t] = q
  BY <1>1, <1>2, <1>3, Moving
<1> QED BY <1>1, <1>4

\* Requests of browsers.
LEMMA RequestsSess ==
  ASSUME Typed, Shaped, SessInv, NEW t \in Clients,
         \/ \E m \in Media : StartCall(t, m)
         \/ \E m \in Media, c \in Calls : Answer(t, m, c) \/ Reject(t, m, c) \/ RefreshMedia(t, m, c)
         \/ \E c \in Calls : Hangup(t, c)
  PROVE  SessInv'
<1>1. ThreadInv /\ UNCHANGED net /\ call \in [Calls -> CallRecords]
  BY DEF SessInv, StartCall, Answer, Reject, ClaimIncoming, RefreshMedia, Hangup, gateway, Typed
<1>2. KnownStay
  BY <1>1, OnceKnown
<1>3. CASE \E c \in Calls : Hangup(t, c)
  <2>1. UNCHANGED <<med, call>>
    BY <1>3 DEF Hangup
  <2>2. PICK c \in Calls : Begins(t, <<"hangup", "report", "leave">>, c, None, FALSE, None)
    BY <1>3 DEF Hangup
  <2>3. Ordered(<<"hangup", "report", "leave">>) /\ Careless(<<"hangup", "report", "leave">>)
    BY WrittenLists
  <2>4. Unforgotten
    BY <1>1, <2>2, <2>3, BeginsOnly
  <2> QED BY <1>2, <2>1, <2>4, FrameKeeps DEF CallsStay, Live
<1>4. ASSUME NEW m \in Media, NEW go \in DialLists \cup ClaimLists, NEW c, NEW claim, NEW lease,
             Begins(t, go, c, m, claim, lease), Reservable(m), med' = Reserve(m, t), CallsStay
      PROVE  SessInv'
  <2>1. go \in HoldLists /\ go # <<>>
    BY <1>4 DEF HoldLists, DialLists, ClaimLists
  <2>2. Ordered(go) /\ Careless(go)
    BY <2>1, WrittenLists
  <2>3. Unforgotten /\ pc[t] = Idle /\ pc'[t].go = go /\ pc'[t].m = m /\ pc'[t].todo = <<>>
    BY <1>1, <1>4, <2>1, <2>2, BeginsOnly
  <2>4. Holds(pc'[t], m)
    BY <2>1, <2>3 DEF Holds
  <2> QED BY <1>2, <1>4, <2>3, <2>4, ReservedKeeps
<1>5. CASE \E m \in Media : StartCall(t, m)
  <2>1. PICK m \in Media : StartCall(t, m)
    BY <1>5
  <2>2. Begins(t, <<"device", "dial", "dialed", "leave">>, None, m, FALSE, None) /\ Reservable(m) /\ med' = Reserve(m, t)
    BY <2>1 DEF StartCall
  <2>3. CallsStay /\ <<"device", "dial", "dialed", "leave">> \in DialLists \cup ClaimLists
    BY <2>1 DEF StartCall, CallsStay, Live, DialLists
  <2> QED BY <1>4, <2>2, <2>3
<1>6. CASE \E m \in Media, c \in Calls : RefreshMedia(t, m, c)
  <2>1. PICK m \in Media, c \in Calls : RefreshMedia(t, m, c)
    BY <1>6
  <2>2. PICK lease : Begins(t, <<"reach", "swap", "leave">>, c, m, FALSE, lease)
    BY <2>1 DEF RefreshMedia
  <2>3. Reservable(m) /\ med' = Reserve(m, t)
    BY <2>1 DEF RefreshMedia
  <2>4. CallsStay /\ <<"reach", "swap", "leave">> \in DialLists \cup ClaimLists
    BY <2>1 DEF RefreshMedia, CallsStay, Live, ClaimLists
  <2> QED BY <1>4, <2>2, <2>3, <2>4
<1>7. CASE \E m \in Media, c \in Calls : Answer(t, m, c) \/ Reject(t, m, c)
  <2>1. PICK m \in Media, c \in Calls : Answer(t, m, c) \/ Reject(t, m, c)
    BY <1>7
  <2>2. PICK go \in ClaimLists : ClaimIncoming(t, m, c, go)
    BY <2>1 DEF Answer, Reject, ClaimLists
  <2>3. Begins(t, go, c, m, TRUE, None) /\ Reservable(m) /\ med' = Reserve(m, t)
        /\ call' = [call EXCEPT ![c].pending = TRUE, ![c].atimer = FALSE]
    BY <2>2 DEF ClaimIncoming
  <2>4. CallsStay
    <3>1. PICK k : k = [call[c] EXCEPT !.pending = TRUE, !.atimer = FALSE]
      OBVIOUS
    <3>2. k.reg = call[c].reg /\ k.status = call[c].status /\ k.media = call[c].media /\ k.dtimer = call[c].dtimer
      BY <1>1, <3>1 DEF CallRecords
    <3>3. call' = [call EXCEPT ![c] = k]
      BY <1>1, <2>3, <3>1
    <3> QED BY <3>2, <3>3, OneCallStays DEF Live
  <2> QED BY <1>4, <2>2, <2>3, <2>4
<1> QED BY <1>3, <1>5, <1>6, <1>7

\* The auto answer claims a call and makes a session for it, or does neither.
LEMMA ClaimedSess ==
  ASSUME Typed, Shaped, SessInv, NEW c \in Calls, ClaimAutoAnswer(c)
  PROVE  SessInv'
<1>1. /\ ThreadInv /\ OwnInv /\ UNCHANGED net /\ c \in Threads /\ c \in Sessions /\ c # None
      /\ call \in [Calls -> CallRecords] /\ med \in [Sessions -> SessionRecords] /\ pc[c] = Idle
  BY PhoneAssumption DEF SessInv, ClaimAutoAnswer, gateway, Threads, Sessions, PhoneAssumption, Typed
<1>2. KnownStay
  BY <1>1, OnceKnown
<1>3. CASE UNCHANGED <<call, med, pc>>
  BY <1>1, <1>2, <1>3, Unmoving, FrameKeeps DEF CallsStay, Live
<1>4. CASE ~UNCHANGED <<call, med, pc>>
  <2> DEFINE g == <<"answer", "adopt", "record", "leave">>
             q == [Idle EXCEPT !.go = g, !.c = c, !.m = IF Present(c) THEN None ELSE c,
                               !.again = call[c].again, !.claim = TRUE]
  <2>1. /\ call' = [call EXCEPT ![c].pending = TRUE, ![c].atimer = FALSE]
        /\ med' = [med EXCEPT ![c].sess = "up"] /\ Becomes(c, q)
    BY <1>4 DEF ClaimAutoAnswer
  <2>2. q.go = <<"answer", "adopt", "record", "leave">> /\ q.c = c /\ q.todo = <<>> /\ q.go # <<>>
        /\ q.m = IF Present(c) THEN None ELSE c
    BY DEF Idle
  <2> HIDE DEF q
  <2>3. Answering(q) /\ ~Adopting(q) /\ Fits(c, q) /\ Careless(q.go)
    <3>1. q.go \in AutoLists
      BY <2>2 DEF AutoLists
    <3>2. Ordered(q.go) /\ Careless(q.go)
      BY <3>1, WrittenLists
    <3> QED BY <2>2, <3>1, <3>2 DEF Fits, Answering, Adopting
  <2>4. pc'[c] = q /\ \A u \in Threads \ {c} : pc'[u] = pc[u]
    BY <1>1, <2>1, <2>2, Outlook
  <2>5. CallsStay
    <3>1. PICK k : k = [call[c] EXCEPT !.pending = TRUE, !.atimer = FALSE]
      OBVIOUS
    <3>2. k.reg = call[c].reg /\ k.status = call[c].status /\ k.media = call[c].media /\ k.dtimer = call[c].dtimer
      BY <1>1, <3>1 DEF CallRecords
    <3>3. call' = [call EXCEPT ![c] = k]
      BY <1>1, <2>1, <3>1
    <3> QED BY <3>2, <3>3, OneCallStays DEF Live
  <2>6. /\ \A y \in Sessions \ {c} : med'[y] = med[y]
        /\ med'[c].sess = "up" /\ med'[c].bound = med[c].bound /\ med'[c].held = med[c].held
    BY <1>1, <2>1 DEF SessionRecords
  <2>7. Own(c) /\ ~Answering(pc[c]) /\ ~Adopting(pc[c])
    BY <1>1 DEF OwnInv, Answering, Adopting, Idle
  <2>8. Cleaned(c)' <=> Cleaned(c)
    <3>1. Careless(pc[c].go)
      BY <1>1, WrittenLists DEF Idle
    <3>2. ~Cleans(pc[c], c) /\ ~Cleans(pc'[c], c)
      BY <2>3, <2>4, <3>1, CarelessOnes
    <3> QED BY <1>1, <2>4, <3>2 DEF Cleaned
  <2>9. Known(c)' <=> Known(c)
    BY <1>1 DEF Known
  <2>10. CASE Present(c)
    <3>1. Known(c) /\ (med[c].bound = None => Cleaned(c)) /\ (Cleaned(c) => med[c].bound = None)
      BY <2>7, <2>10 DEF Own
    <3>2. pc'[c].m = None
      BY <2>2, <2>4, <2>10
    <3>3. Own(c)'
      BY <1>1, <2>3, <2>4, <2>6, <2>8, <2>9, <3>1, <3>2 DEF Own, Present
    <3>4. med'[c].sess = med[c].sess
      BY <2>6, <2>7, <2>10 DEF Own, Present
    <3> QED BY <1>2, <2>3, <2>4, <2>5, <2>6, <3>3, <3>4, OwnKeeps
  <2>11. CASE ~Present(c)
    <3>1. med[c].bound = None
      BY <2>7, <2>11 DEF Own, Present
    <3>2. pc'[c].m = c
      BY <2>2, <2>4, <2>11
    <3>3. Cleaned(c) => Known(c)
      BY <2>7 DEF Own
    <3>4. Own(c)'
      BY <1>1, <2>3, <2>4, <2>6, <2>8, <2>9, <3>1, <3>2, <3>3 DEF Own, Present
    <3> QED BY <1>2, <2>3, <2>4, <2>5, <2>6, <3>1, <3>4, OwnKeeps
  <2> QED BY <2>10, <2>11
<1> QED BY <1>3, <1>4

\* The call gets the session of its auto answer, or has ended.
LEMMA AdoptSess ==
  ASSUME Typed, Shaped, SessInv, NEW c \in Calls, Adopt(c)
  PROVE  SessInv'
<1>1. /\ ThreadInv /\ OwnInv /\ UNCHANGED net /\ c \in Threads /\ c \in Sessions /\ c # None
      /\ call \in [Calls -> CallRecords] /\ med \in [Sessions -> SessionRecords]
      /\ Fits(c, pc[c]) /\ pc[c] \in Locals /\ pc[c].go # <<>> /\ Head(pc[c].go) = "adopt"
  BY PhoneAssumption DEF SessInv, Adopt, gateway, Threads, Sessions, PhoneAssumption, Typed, ThreadInv,
                         Shaped, Shape, At
<1>2. KnownStay
  BY <1>1, OnceKnown
<1>3. Adopting(pc[c]) /\ ~Answering(pc[c]) /\ pc[c].c = c /\ pc[c].todo = <<>> /\ Tail(pc[c].go) = <<"record", "leave">>
  <2>1. pc[c].go \in AutoLists /\ pc[c].todo = <<>>
    BY <1>1 DEF Fits
  <2>2. pc[c].go = <<"adopt", "record", "leave">>
    BY <1>1, <2>1 DEF AutoLists
  <2>3. Tail(<<"adopt", "record", "leave">>) = <<"record", "leave">>
    OBVIOUS
  <2> QED BY <1>1, <2>1, <2>2, <2>3 DEF Adopting, Answering, Fits
<1>4. Own(c)
  BY <1>1 DEF OwnInv
<1>5. ASSUME NEW q, Becomes(c, q), q.go \in {<<"record", "leave">>, <<"drop", "leave">>}, q.c = c, q.todo = <<>>
      PROVE  /\ \A u \in Threads \ {c} : pc'[u] = pc[u]
             /\ Fits(c, pc'[c]) /\ ~Adopting(pc'[c]) /\ ~Answering(pc'[c]) /\ Careless(pc'[c].go)
  <2>1. q.go \in AutoLists /\ q.go # <<>>
    BY <1>5 DEF AutoLists
  <2>2. Ordered(q.go) /\ Careless(q.go)
    BY <2>1, WrittenLists
  <2>3. pc'[c] = q /\ \A u \in Threads \ {c} : pc'[u] = pc[u]
    BY <1>1, <1>5, <2>1, Outlook
  <2>4. ~Adopting(q) /\ ~Answering(q)
    BY <1>5 DEF Adopting, Answering
  <2> QED BY <1>5, <2>1, <2>2, <2>3, <2>4 DEF Fits
<1>6. CASE Same(c) /\ Live(c)
  <2> DEFINE q == [pc[c] EXCEPT !.go = <<"record", "leave">>, !.claim = FALSE]
  <2>1. /\ call' = [call EXCEPT ![c].pending = FALSE, ![c].media = c]
        /\ med' = [med EXCEPT ![c].bound = c] /\ Becomes(c, q)
    BY <1>3, <1>6 DEF Adopt
  <2>2. q.go = <<"record", "leave">> /\ q.c = c /\ q.todo = <<>>
    BY <1>1, <1>3 DEF Locals
  <2> HIDE DEF q
  <2>3. /\ \A u \in Threads \ {c} : pc'[u] = pc[u]
        /\ Fits(c, pc'[c]) /\ ~Adopting(pc'[c]) /\ ~Answering(pc'[c])
    BY <1>5, <2>1, <2>2
  <2>4. /\ \A y \in Sessions \ {c} : med'[y] = med[y]
        /\ med'[c].sess = med[c].sess /\ med'[c].bound = c /\ med'[c].held = med[c].held
    BY <1>1, <2>1 DEF SessionRecords
  <2>5. /\ Live(c)' /\ call'[c].media = c /\ call'[c].dtimer = call[c].dtimer
        /\ \A d \in Calls \ {c} : call'[d] = call[d]
    <3>1. PICK k : k = [call[c] EXCEPT !.pending = FALSE, !.media = c]
      OBVIOUS
    <3>2. k.reg = call[c].reg /\ k.status = call[c].status /\ k.media = c /\ k.dtimer = call[c].dtimer
      BY <1>1, <3>1 DEF CallRecords
    <3>3. call' = [call EXCEPT ![c] = k]
      BY <1>1, <2>1, <3>1
    <3>4. call'[c] = k /\ \A d \in Calls \ {c} : call'[d] = call[d]
      BY <1>1, <3>3
    <3> QED BY <1>6, <3>2, <3>4 DEF Live
  <2> QED BY <1>2, <1>3, <1>6, <2>3, <2>4, <2>5, AdoptedKeeps
<1>7. CASE ~(Same(c) /\ Live(c))
  <2> DEFINE q == [pc[c] EXCEPT !.go = <<"drop", "leave">>]
  <2>1. med' = Removed(c) /\ UNCHANGED call /\ Becomes(c, q)
    BY <1>7 DEF Adopt, Goto
  <2>2. q.go = <<"drop", "leave">> /\ q.c = c /\ q.todo = <<>>
    BY <1>1, <1>3 DEF Locals
  <2> HIDE DEF q
  <2>3. /\ \A u \in Threads \ {c} : pc'[u] = pc[u]
        /\ Fits(c, pc'[c]) /\ ~Adopting(pc'[c]) /\ ~Answering(pc'[c]) /\ Careless(pc'[c].go)
    BY <1>5, <2>1, <2>2
  <2>4. /\ \A y \in Sessions \ {c} : med'[y] = med[y]
        /\ med'[c].sess = "gone" /\ med'[c].bound = med[c].bound /\ med'[c].held = med[c].held
    <3>1. med' = [med EXCEPT ![c].sess = "gone"]
      BY <1>1, <2>1 DEF Removed
    <3> QED BY <1>1, <3>1 DEF SessionRecords
  <2>5. med[c].bound = None /\ ~Cleaned(c)
    BY <1>3, <1>4 DEF Own
  <2>6. ~Cleaned(c)'
    <3>1. ~Cleans(pc'[c], c)
      BY <2>3, CarelessOnes
    <3> QED BY <1>1, <2>3, <2>5, <3>1 DEF Cleaned
  <2>7. Own(c)'
    BY <2>3, <2>4, <2>5, <2>6 DEF Own, Present
  <2>8. CallsStay
    BY <2>1 DEF CallsStay, Live
  <2> QED BY <1>2, <2>3, <2>4, <2>5, <2>7, <2>8, OwnKeeps
<1> QED BY <1>6, <1>7
-----------------------------------------------------------------------------
(* Every session is accounted for, step by step *)

\* Nobody has anything to do, and who is in a call has a session for it.
AtRest ==
  /\ \A t \in Threads : pc[t] = Idle
  /\ \A m \in Sessions :
       /\ med[m].held = None /\ med[m].drop = "none" /\ med[m].sess # "down"
       /\ m \in Calls => med[m].sess = "gone" /\ med[m].bound = None
       /\ \A c \in Calls : /\ med[m].bound = c <=> call[c].media = m
                           /\ call[c].media = m => Live(c) /\ med[m].sess = "up"
  /\ \A c \in Calls : call[c].dtimer = None

LEMMA RestSess == AtRest => SessInv
<1> SUFFICES ASSUME AtRest PROVE SessInv
  OBVIOUS
<1>1. Idle.go = <<>> /\ Idle.todo = <<>> /\ <<>> \in AutoLists
  BY DEF Idle, AutoLists
<1>2. Ordered(<<>>) /\ Careless(<<>>)
  BY WrittenLists
<1>3. ~Answering(Idle) /\ ~Adopting(Idle)
  BY <1>1 DEF Answering, Adopting
<1>4. \A x : ~Cleaned(x) /\ ~Seen(x)
  <2>1. \A x : ~Cleans(Idle, x) /\ ~Sees(Idle, x)
    BY <1>1, <1>2, CarelessOnes
  <2> QED BY <2>1 DEF AtRest, Cleaned, Seen
<1>5. ThreadInv
  BY <1>1, <1>2, <1>3 DEF AtRest, ThreadInv, Fits
<1>6. /\ \A y \in Sessions : y # None
      /\ \A c \in Calls : c \in Sessions /\ c \in Threads /\ c # None
      /\ \A m \in Media : m \in Sessions
  BY PhoneAssumption DEF PhoneAssumption, Sessions, Threads
<1>7. HeldInv
  BY DEF AtRest, HeldInv
<1>8. BoundInv
  BY <1>6 DEF AtRest, BoundInv
<1>9. LostInv
  BY <1>6 DEF AtRest, LostInv
<1>10. OwnInv
  BY <1>3, <1>4, <1>6 DEF AtRest, OwnInv, Own, Present
<1> QED BY <1>5, <1>7, <1>8, <1>9, <1>10 DEF SessInv

\* So it is after a restart ...
LEMMA RestartSess ==
  ASSUME Restart
  PROVE  SessInv'
<1>1. /\ call' = [c \in Calls |-> NoCall] /\ pc' = [t \in Threads |-> Idle]
      /\ med' = [m \in Sessions |-> Closed]
  BY DEF Restart
<1>2. NoCall.media = None /\ NoCall.dtimer = None
  BY DEF NoCall
<1>3. Closed.sess = "gone" /\ Closed.bound = None /\ Closed.held = None /\ Closed.drop = "none"
  BY DEF Closed
<1>4. (\A y \in Sessions : y # None) /\ \A c \in Calls : c # None
  BY PhoneAssumption DEF PhoneAssumption, Sessions
<1>5. AtRest'
  BY <1>1, <1>2, <1>3, <1>4 DEF AtRest
<1>6. AtRest' => SessInv'
  BY RestSess, PTL
<1> QED BY <1>5, <1>6

\* ... and at the beginning.
LEMMA InitSess ==
  ASSUME Init
  PROVE  SessInv
<1>0. PICK s \in Scenes, cs \in SUBSET Calls, ms \in SUBSET Media :
        /\ \E c \in IF s.talking THEN cs ELSE {None}, m \in IF s.talking THEN ms ELSE {None} :
             /\ net = [d \in Calls |-> IF d \notin cs THEN "gone" ELSE IF d = c THEN "up" ELSE "none"]
             /\ call = [d \in Calls |->
                          IF d # c THEN NoCall
                          ELSE [NoCall EXCEPT !.reg = TRUE, !.dir = "out", !.status = "connected",
                                              !.media = m, !.lease = m, !.rec = "open"]]
             /\ med = [n \in Sessions |->
                         [Closed EXCEPT !.sess = IF n \in ms THEN "up" ELSE "gone",
                                        !.bound = IF n = m THEN c ELSE None]]
             /\ device = c
             /\ rows = [d \in Calls |-> IF d = c THEN "connected" ELSE None]
        /\ auto = s.auto /\ ops = s.ops /\ faults = s.faults
  BY DEF Init
<1>1. PICK c \in IF s.talking THEN cs ELSE {None}, m \in IF s.talking THEN ms ELSE {None} :
        /\ call = [d \in Calls |->
                     IF d # c THEN NoCall
                     ELSE [NoCall EXCEPT !.reg = TRUE, !.dir = "out", !.status = "connected",
                                         !.media = m, !.lease = m, !.rec = "open"]]
        /\ med = [n \in Sessions |->
                    [Closed EXCEPT !.sess = IF n \in ms THEN "up" ELSE "gone",
                                   !.bound = IF n = m THEN c ELSE None]]
  BY <1>0, Zenon
<1>2. \A t \in Threads : pc[t] = Idle
  BY DEF Init
<1>3. \/ c = None /\ m = None
      \/ c \in Calls /\ m \in Media /\ m \in ms
  BY <1>1
<1>4. (\A y \in Sessions : y # None) /\ \A d \in Calls : d # None /\ d \notin Media
  BY PhoneAssumption DEF PhoneAssumption, Sessions
<1>5. \A d \in Calls \ {c} : call[d].media = None /\ call[d].dtimer = None
  BY <1>1 DEF NoCall
<1>6. c \in Calls => call[c].media = m /\ call[c].dtimer = None /\ Live(c)
  <2> SUFFICES ASSUME c \in Calls PROVE call[c].media = m /\ call[c].dtimer = None /\ Live(c)
    OBVIOUS
  <2>1. call[c] = [NoCall EXCEPT !.reg = TRUE, !.dir = "out", !.status = "connected",
                                 !.media = m, !.lease = m, !.rec = "open"]
    BY <1>1
  <2> QED BY <2>1 DEF NoCall, Live, Active
<1>7. \A n \in Sessions : /\ med[n].held = None /\ med[n].drop = "none"
                          /\ med[n].sess = IF n \in ms THEN "up" ELSE "gone"
                          /\ med[n].bound = IF n = m THEN c ELSE None
  BY <1>1 DEF Closed
<1> HIDE <1>1
<1>8. \A n \in Sessions : n \in Calls => n \notin ms /\ n # m
  BY <1>3, <1>4
<1>9. \A d \in Calls : call[d].dtimer = None
  BY <1>5, <1>6
<1>10. ASSUME NEW n \in Sessions, NEW d \in Calls
       PROVE  /\ med[n].bound = d <=> call[d].media = n
              /\ call[d].media = n => Live(d) /\ med[n].sess = "up"
  <2>1. CASE d = c
    BY <1>3, <1>4, <1>6, <1>7, <2>1
  <2>2. CASE d # c
    BY <1>4, <1>5, <1>7, <2>2
  <2> QED BY <2>1, <2>2
<1>11. AtRest
  BY <1>2, <1>3, <1>4, <1>7, <1>8, <1>9, <1>10 DEF AtRest
<1> QED BY <1>11, RestSess

\* Every step of a goroutine accounts for the sessions.
LEMMA StepSess ==
  ASSUME IInv, Typed', Shaped', SessInv, NEW t \in Threads, Step(t)
  PROVE  SessInv'
<1>1. Typed /\ Shaped
  BY DEF IInv
<1>2. CASE HandleIncoming(t) \/ RecordBusy(t) \/ UpdateRinging(t) \/ UpdateAnswered(t) \/ FinishCall(t)
           \/ FinalizeRecording(t)
  BY <1>1, <1>2, IncomingSess, BusySess, UpdatesSess, FinishSess, FinalizeSess
<1>3. CASE Bridge(t) \/ Drop(t) \/ Snapshot(t) \/ Refuse(t) \/ HangupCall(t) \/ Report(t)
  BY <1>1, <1>3, SimpleSess
<1>4. CASE StartRecording(t) \/ Persist(t) \/ ScheduleAutoAnswer(t)
  BY <1>1, <1>4, RecordingSess, PersistSess, ScheduleSess
<1>5. CASE ResumeDrop(t) \/ CloseCall(t) \/ Unlink(t)
  BY <1>1, <1>5, ResumeSess, CloseSess, UnlinkSess
<1>6. CASE Leave(t) \/ ReserveDevice(t) \/ Dial(t) \/ Dialed(t) \/ Undo(t)
  BY <1>1, <1>6, LeaveSess, DiallingSess, DialedSess
<1>7. CASE Attach(t) \/ AnswerCall(t) \/ Assign(t) \/ Usurp(t) \/ Reach(t) \/ Swap(t)
  BY <1>1, <1>7, AttachSess, AnswerSess, TakesSess, SwapSess
<1> QED BY <1>2, <1>3, <1>4, <1>5, <1>6, <1>7 DEF Step

\* So does every step of the timers, of the clients and of the gateway.
LEMMA NextSess ==
  ASSUME IInv, SessInv, [Next]_vars
  PROVE  SessInv'
<1>1. Typed /\ Shaped /\ Typed' /\ Shaped'
  <2>1. IInv'
    BY NextKeeps
  <2> QED BY <2>1 DEF IInv
<1>2. CASE Receive \/ Ring \/ Restart
  BY <1>1, <1>2, TakenUpSess, RestartSess
<1>3. CASE \E t \in Threads : Step(t)
  BY <1>1, <1>3, StepSess
<1>4. CASE Timers
  <2>1. CASE \E m \in Media : ExpireUnbound(m)
    BY <1>1, <2>1, ConnectionsSess
  <2>2. CASE \E c \in Calls : DisconnectFires(c) \/ AutoAnswerFires(c)
    BY <1>1, <2>2, TimersSess
  <2>3. CASE \E c \in Calls : ClaimAutoAnswer(c) \/ Adopt(c)
    BY <1>1, <2>3, ClaimedSess, AdoptSess
  <2>4. CASE \E f \in fired : ExpireDisconnected(f) \/ HangupExpired(f)
    BY <1>1, <2>4, TimersSess
  <2> QED BY <1>4, <2>1, <2>2, <2>3, <2>4 DEF Timers
<1>5. CASE Requests
  <2>1. CASE \E m \in Media : CancelMedia(m)
    BY <1>1, <2>1, ConnectionsSess
  <2>2. CASE \E t \in Clients, m \in Media : StartCall(t, m)
    BY <1>1, <2>2, RequestsSess
  <2>3. CASE \E t \in Clients, m \in Media, c \in Calls :
               Answer(t, m, c) \/ Reject(t, m, c) \/ RefreshMedia(t, m, c)
    BY <1>1, <2>3, RequestsSess
  <2>4. CASE \E t \in Clients, c \in Calls : Hangup(t, c)
    BY <1>1, <2>4, RequestsSess
  <2>5. CASE (\E c \in Calls : DeleteHistory(c)) \/ (\E on \in BOOLEAN : ConfigureAutoAnswer(on))
    BY <1>1, <2>5, TimersSess
  <2> QED BY <1>5, <2>1, <2>2, <2>3, <2>4, <2>5 DEF Requests
<1>6. CASE Environment
  <2>1. CASE \E c \in Calls : NetOffer(c) \/ NetBusy(c) \/ NetProgress(c) \/ NetEnd(c)
    BY <1>1, <2>1, GatewaySess
  <2>2. CASE \E c \in Calls : PromptFails(c)
    BY <1>1, <2>2, TimersSess
  <2>3. CASE \E m \in Media : MediaDown(m) \/ MediaUp(m)
    BY <1>1, <2>3, ConnectionsSess
  <2> QED BY <1>2, <1>6, <2>1, <2>2, <2>3 DEF Environment
<1>7. CASE UNCHANGED vars
  BY <1>1, <1>7, TimersSess
<1> QED BY <1>2, <1>3, <1>4, <1>5, <1>6, <1>7 DEF Next
-----------------------------------------------------------------------------
(* Theorems *)

\* IInv is an invariant of the service.
LEMMA AlwaysIInv == Spec => []IInv
<1>1. Init => IInv
  BY InitHolds
<1>2. IInv /\ [Next]_vars => IInv'
  BY NextKeeps
<1> QED BY <1>1, <1>2, PTL DEF Spec

\* Every variable has its type: no goroutine of lifecycle.go, service.go or recovery.go
\* leaves a call, a session or a list of steps that the others do not understand.
THEOREM PhoneTypeOK == Spec => []TypeOK
<1>1. IInv => TypeOK
  <2> SUFFICES ASSUME IInv PROVE TypeOK
    OBVIOUS
  <2>1. Typed /\ Shaped
    BY DEF IInv
  <2>2. pc \in [Threads -> Locals]
    BY <2>1 DEF Shaped, Shape
  <2> QED BY <2>1, <2>2 DEF Typed, TypeOK, OrNone, Kinds, Statuses, CallRecords, SessionRecords,
                            Callbacks, Locals
<1> QED BY <1>1, AlwaysIInv, PTL

\* The device is engaged by a call in progress or by a request that is dialling, the waiting
\* place by a call in progress, and every call in progress has one of the two, whatever
\* StartCall, handleIncoming and finishCall do at the same time and wherever they give up.
THEOREM PhoneSlotsHonest == Spec => []SlotsHonest
<1>1. IInv => SlotsHonest
  <2> SUFFICES ASSUME IInv PROVE SlotsHonest
    OBVIOUS
  <2>1. Shaped /\ SlotInv
    BY DEF IInv
  <2>2. \A t \in Threads : Reserving(t) => t \in Clients
    BY <2>1, DialAt DEF Reserving
  <2>3. device = "" => \E t \in Clients : At(t, "dial") \/ At(t, "dialed") \/ At(t, "undo")
    BY <2>1, <2>2 DEF SlotInv, Reserving
  <2> QED BY <2>1, <2>3 DEF SlotInv, SlotsHonest
<1> QED BY <1>1, AlwaysIInv, PTL

\* A recording is closed before finalizeRecording forgets the call and converts the file,
\* however finishCall, startMixedRecording and the events overlap.
THEOREM PhoneRecordingClosed == Spec => []RecordingClosed
<1>1. IInv => RecordingClosed
  BY DEF IInv, EndInv, RecordingClosed
<1> QED BY <1>1, AlwaysIInv, PTL

\* LastInv is one as well.
LEMMA AlwaysLastInv == Spec => []LastInv
<1>1. Init => LastInv
  BY InitHolds, StillLast
<1>2. IInv /\ LastInv /\ [Next]_vars => LastInv'
  BY NextLast
<1> QED BY <1>1, <1>2, AlwaysIInv, PTL DEF Spec

\* No call stays in progress that the gateway no longer has and of whose end nobody will
\* hear: handleIncoming, bufferPendingCallEvent, StartCall and finishCall lose none, however
\* late incoming calls and events come and whichever get lost, unless the call was announced
\* twice or the gateway did not tell of its end in time (enqueue, Agent.Stop).
THEOREM PhoneNoGhost == Spec => []NoGhost
<1>1. LastInv => NoGhost
  <2> SUFFICES ASSUME LastInv, NEW c \in Calls, Live(c), net[c] = "gone", ~call[c].again, c \notin unheard
               PROVE  EndPending(c)
    BY DEF NoGhost
  <2>1. OnWay(c)
    BY DEF LastInv, LastOf, GhostOf
  <2>2. \A s, x : Has(s, x) => x \in Range(s)
    BY DEF Has, Range
  <2> QED BY <2>1, <2>2 DEF OnWay, EndPending, Has, Due, End
<1> QED BY <1>1, AlwaysLastInv, PTL

\* finalizeRecording waits for terminalDone only while another goroutine is at work on the
\* end of that call, if the gateway told of it in time, so events of other calls, which
\* queue up behind it, go on in the end.
THEOREM PhoneNoDeadWait == Spec => []NoDeadWait
<1>1. IInv /\ LastInv => NoDeadWait
  <2> SUFFICES ASSUME IInv, LastInv, NEW t \in Threads, Dispatches(t, {"Finalized"}),
                      call[pc[t].c].reg, ~call[pc[t].c].done, pc[t].c \notin unheard
               PROVE  \E u \in Threads \ {t} : /\ pc[u].c = pc[t].c
                                               /\ "Ended" \in Range(pc[u].todo) \/ "final" \in Range(pc[u].go)
    BY DEF NoDeadWait
  <2>1. Typed /\ Shaped /\ EndInv
    BY DEF IInv
  <2>2. PICK c \in Calls : c = pc[t].c
    BY <2>1, AtEvent
  <2>3. /\ pc[t].todo \in Seq(Kinds \cup {"Incoming"}) /\ pc[t].todo # <<>>
        /\ Head(pc[t].todo) = "Finalized" /\ pc[t].go \in {<<>>, <<"leave">>}
    BY <2>1, AtEvent DEF Dispatches
  <2>4. \A s, x : Has(s, x) => x \in Range(s)
    BY DEF Has, Range
  <2>5. CASE Live(c)
    <3>1. Has(pc[t].todo, "Finalized") /\ ~Led(pc[t].todo, "Ended", "Finalized")
      BY <2>3, WithoutHead
    <3>2. PICK u \in Threads \ {t} : Due(c, u, "Ended")
      BY <2>2, <2>5, <3>1 DEF LastInv, LastOf, LedFin, Due
    <3> QED BY <2>2, <2>4, <3>2 DEF Due
  <2>6. CASE ~Live(c)
    <3>1. PICK u \in Threads : pc[u].c = c /\ Ending(u)
      BY <2>1, <2>2, <2>6 DEF EndInv
    <3>2. u # t
      BY <2>3, <3>1, ListTypes, DialNotEnd DEF Ending
    <3>3. Has(pc[u].go, "final")
      <4>1. pc[u].go \in EndLists
        BY <3>1 DEF Ending
      <4> QED BY <4>1 DEF EndLists, Has
    <3> QED BY <2>2, <2>4, <3>1, <3>2, <3>3
  <2> QED BY <2>5, <2>6
<1> QED BY <1>1, AlwaysIInv, AlwaysLastInv, PTL

\* Nor is SessInv ever violated.
LEMMA AlwaysSessInv == Spec => []SessInv
<1>1. Init => SessInv
  BY InitSess
<1>2. IInv /\ SessInv /\ [Next]_vars => SessInv'
  BY NextSess
<1> QED BY <1>1, <1>2, AlwaysIInv, PTL DEF Spec

\* Somebody has a session that is to be seen to.
LEMMA SeenAttended ==
  ASSUME NEW x, Seen(x)
  PROVE  Attended(x)
<1>1. \A s, a : Has(s, a) => a \in Range(s)
  BY DEF Has, Range
<1> QED BY <1>1 DEF Seen, Sees, Cleans, Attended

\* No session of a browser or of an auto answer is left over (media_reservation.go), and the
\* call that loses the one it has is on its way to be hung up (recovery.go), however the
\* requests that reserve, bind, exchange and remove sessions overlap with connections that
\* break and come back, unless the call kept a session that it had got another one for.
THEOREM PhoneSessionsAccounted == Spec => []SessionsAccounted
<1>1. IInv /\ SessInv => SessionsAccounted
  <2> SUFFICES ASSUME IInv, SessInv PROVE SessionsAccounted
    OBVIOUS
  <2>1. Typed /\ HeldInv /\ BoundInv /\ LostInv /\ OwnInv
    BY DEF IInv, SessInv
  <2>2. /\ \A y \in Sessions : y # None
        /\ \A c \in Calls : c \in Sessions /\ c \in Threads
        /\ \A m \in Media : m \in Sessions
        /\ \A y \in Sessions : y \in Media \/ y \in Calls
    BY PhoneAssumption DEF PhoneAssumption, Sessions, Threads
  <2>3. /\ call \in [Calls -> CallRecords] /\ med \in [Sessions -> SessionRecords]
    BY <2>1 DEF Typed
  <2>4. ASSUME NEW c \in Calls, Live(c), call[c].media # None, med[call[c].media].sess # "up"
        PROVE  call[c].dtimer = call[c].media \/ Attended(call[c].media) \/ Unsettled(c)
    <3>1. PICK m \in Sessions : m = call[c].media
      BY <2>3, <2>4 DEF CallRecords, OrNone
    <3>2. call[c].dtimer = m \/ Unsettled(c) \/ Seen(m)
      BY <2>1, <2>4, <3>1 DEF LostInv
    <3> QED BY <3>1, <3>2, SeenAttended
  <2>5. ASSUME NEW m \in Sessions, Present(m), \A t \in Threads : pc[t] = Idle
        PROVE  \/ med[m].bound # None /\ (Live(med[m].bound) \/ Displaced(m))
               \/ m \in Media /\ med[m].bound = None /\ (med[m].sess = "up" \/ med[m].drop = "armed")
    <3>1. Idle.go = <<>> /\ Careless(<<>>) /\ <<>> \notin HoldLists
      BY WrittenLists DEF Idle, HoldLists, DialLists, ClaimLists
    <3>2. /\ \A x : ~Cleaned(x) /\ ~Seen(x)
          /\ \A t \in Threads : ~Answering(pc[t]) /\ ~Adopting(pc[t])
          /\ \A t \in Threads, x \in Sessions : ~Holds(pc[t], x)
      BY <2>5, <3>1, CarelessOnes DEF Cleaned, Seen, Answering, Adopting, Holds
    <3>3. CASE med[m].bound # None
      <4>1. PICK c \in Calls : c = med[m].bound
        BY <2>3, <3>3 DEF SessionRecords, OrNone
      <4>2. CASE call[c].media = m
        BY <2>1, <3>3, <4>1, <4>2 DEF BoundInv
      <4>3. CASE call[c].media # m
        BY <2>2, <3>3, <4>1, <4>3 DEF Displaced
      <4> QED BY <4>2, <4>3
    <3>4. CASE med[m].bound = None
      <4>1. m \in Media
        <5>1. SUFFICES ASSUME m \in Calls PROVE FALSE
          BY <2>2
        <5>2. Own(m)
          BY <2>1, <5>1 DEF OwnInv
        <5> QED BY <2>2, <2>5, <3>2, <3>4, <5>1, <5>2 DEF Own
      <4>2. med[m].held = None
        <5>1. med[m].held = None \/ med[m].held \in Threads
          BY <2>3 DEF SessionRecords, OrNone
        <5> QED BY <2>1, <2>2, <3>2, <5>1 DEF HeldInv
      <4>3. med[m].sess \in {"up", "down"} /\ med[m].drop \in {"none", "armed", "paused"}
        BY <2>3, <2>5 DEF Present, SessionRecords
      <4>4. med[m].sess = "down" => med[m].drop = "armed"
        BY <2>1, <2>5, <3>2, <3>4, <4>1, <4>2, <4>3 DEF LostInv
      <4> QED BY <3>4, <4>1, <4>3, <4>4
    <3> QED BY <3>3, <3>4
  <2> QED BY <2>4, <2>5 DEF SessionsAccounted, NoStray, DropNoticed
<1> QED BY <1>1, AlwaysIInv, AlwaysSessInv, PTL
=============================================================================
