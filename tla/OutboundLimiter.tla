-------------------------- MODULE OutboundLimiter --------------------------
(***************************************************************************)
(* The per-SIM limit on outgoing calls and messages:                       *)
(* internal/outbound/{limiter,policy}.go over the transaction of           *)
(* internal/db/outbound_usage.go.                                          *)
(*                                                                         *)
(* One SIM and one kind of traffic: histories of different keys never      *)
(* meet.  Attempts come from several callers; each is one transaction that *)
(* takes SQLite's writer lock, reads the history, and appends to it or     *)
(* rolls back.  The wall clock may be set back; it never jumps ahead.      *)
(***************************************************************************)
EXTENDS Integers, Sequences, FiniteSets, FiniteSetsExt

CONSTANTS Callers,   \* requests in flight at the same time
          Hour, Day, \* the two windows, in ticks
          Limits,    \* configurations: [interval, perHour, perDay, disabled]
          Units,     \* sizes of a request (segments of a message)
          MaxTime,   \* bound: ticks of real time
          MaxBack,   \* bound: ticks the clock is set back by in all
          None

ASSUME WindowAssumption == Hour \in Nat \ {0} /\ Day \in Nat /\ Hour <= Day

\* normalizeLimit: zero and negative values never survive.
ASSUME LimitAssumption ==
    Limits \subseteq [interval : Nat \ {0}, perHour : Nat \ {0}, perDay : Nat \ {0}, disabled : BOOLEAN]

ASSUME BoundAssumption == Units \subseteq Nat \ {0} /\ MaxTime \in Nat /\ MaxBack \in Nat

\* A stored event, and a transaction with what it has read.
Events == [at : Int, units : Units]
Transactions == [units : Units, events : Seq(Events)]

ASSUME NoneAssumption == None \notin Callers /\ None \notin Transactions

VARIABLES history, \* the stored events [at, units], as the clock showed them
          limit,   \* the limit in force; a new one comes with a restart
          writer,  \* the caller whose transaction holds the writer lock
          tx,      \* per caller, the open transaction [units, events], or None
          real,    \* real time
          back,    \* how far the clock is behind real time
          accepted \* what was really let through: [real, units, limit]

vars == <<history, limit, writer, tx, real, back, accepted>>

Now == real - back

\* used: the units are added up from the first event on.
Sums(events, S) ==
    LET sum[n \in 0 .. Len(events)] ==
            IF n = 0 THEN 0 ELSE sum[n - 1] + (IF n \in S THEN events[n].units ELSE 0)
    IN  sum

Total(events, S) == Sums(events, S)[Len(events)]

(* ---------------------------------------------------------------------- *)
(* consumeHistory                                                          *)
(* ---------------------------------------------------------------------- *)

\* Events that a window ending at t still counts.
Within(events, t, window) == {i \in DOMAIN events : events[i].at > t - window}

\* kept: the events of the last day, in their order.
Kept(events, t) ==
    LET counted == Within(events, t, Day)
        nth(k) == CHOOSE i \in counted : Cardinality({j \in counted : j <= i}) = k
    IN  [k \in 1 .. Cardinality(counted) |-> events[nth(k)]]

\* mutant: the first event in the window decides, whatever has to be freed
FirstDeadline(events, units, t, window, max) ==
    LET counted == Within(events, t, window)
    IN  IF Total(events, counted) <= max - units THEN {}
        ELSE {events[Min(counted)].at + window}

\* windowDeadline: the events go in list order until enough units are free; the
\* last one to go says when.  No deadline when there is room now.
windowDeadline(events, units, t, window, max) ==
    LET counted == Within(events, t, window)
        free(j) == Total(events, {i \in counted : i > j}) <= max - units
    IN  IF Total(events, counted) <= max - units THEN {}
        ELSE {events[Min({j \in counted : free(j)})].at + window}

\* The moments the request has to wait for; none of them, and it may go.
deadlines(events, units, t, lim) ==
    LET kept == Kept(events, t)
    IN  {events[i].at + lim.interval : i \in DOMAIN events}
        \cup windowDeadline(kept, units, t, Hour, lim.perHour)
        \cup windowDeadline(kept, units, t, Day, lim.perDay)

Allowed(events, units, t, lim) == \A d \in deadlines(events, units, t, lim) : d <= t

RetryAfter(events, units, t, lim) == Max(deadlines(events, units, t, lim)) - t

\* Consume, before the store: request_too_large and the disabled limit.
Fits(units, lim) == units <= lim.perHour /\ units <= lim.perDay

(* ---------------------------------------------------------------------- *)
(* Consume and OutboundUsageStore.Update                                   *)
(* ---------------------------------------------------------------------- *)

\* mutant: the transaction reads before it writes, so two may read the same history
BeginUnlocked(c, units) ==
    /\ tx[c] = None /\ ~limit.disabled /\ Fits(units, limit)
    /\ tx' = [tx EXCEPT ![c] = [units |-> units, events |-> history]]
    /\ UNCHANGED <<history, limit, writer, real, back, accepted>>

\* The transaction starts with a write, which takes the writer lock, then reads.
\* A disabled limit and a request that can never fit do not reach the store.
BeginUpdate(c, units) ==
    /\ tx[c] = None /\ ~limit.disabled /\ Fits(units, limit)
    /\ writer = None
    /\ writer' = c
    /\ tx' = [tx EXCEPT ![c] = [units |-> units, events |-> history]]
    /\ UNCHANGED <<history, limit, real, back, accepted>>

Close(c) ==
    /\ tx' = [tx EXCEPT ![c] = None]
    /\ writer' = IF writer = c THEN None ELSE writer

\* apply and the commit: the clock is read under the lock.
Accept(c) ==
    /\ tx[c] # None
    /\ Allowed(tx[c].events, tx[c].units, Now, limit)
    /\ history' = Append(Kept(tx[c].events, Now), [at |-> Now, units |-> tx[c].units])
    /\ accepted' = Append(accepted, [real |-> real, units |-> tx[c].units, limit |-> limit])
    /\ Close(c)
    /\ UNCHANGED <<limit, real, back>>

\* LimitedError, a database error or a canceled context: rolled back.
Refuse(c) ==
    /\ tx[c] # None
    /\ Close(c)
    /\ UNCHANGED <<history, limit, real, back, accepted>>

\* The service restarts, perhaps with other limits; open transactions are lost.
Restart(l) ==
    /\ \A c \in Callers : tx[c] = None
    /\ l # limit
    /\ limit' = l
    /\ UNCHANGED <<history, writer, tx, real, back, accepted>>

Tick ==
    /\ real < MaxTime
    /\ real' = real + 1
    /\ UNCHANGED <<history, limit, writer, tx, back, accepted>>

SetBack ==
    /\ back < MaxBack
    /\ back' = back + 1
    /\ UNCHANGED <<history, limit, writer, tx, real, accepted>>

Init ==
    /\ history = <<>> /\ accepted = <<>>
    /\ limit \in Limits
    /\ writer = None
    /\ tx = [c \in Callers |-> None]
    /\ real = 0 /\ back = 0

Next ==
    \/ \E c \in Callers : (\E u \in Units : BeginUpdate(c, u)) \/ Accept(c) \/ Refuse(c)
    \/ \E l \in Limits : Restart(l)
    \/ Tick \/ SetBack

Spec == Init /\ [][Next]_vars

(* ---------------------------------------------------------------------- *)
(* Properties                                                              *)
(* ---------------------------------------------------------------------- *)

\* The type invariant: histories are sequences of positive events (the code calls
\* anything else corrupt), and the lock is held by an open transaction.
TypeOK ==
    /\ history \in Seq(Events)
    /\ limit \in Limits
    /\ writer = None \/ (writer \in Callers /\ tx[writer] # None)
    /\ \A c \in Callers : tx[c] = None \/ tx[c] \in Transactions
    /\ real \in 0 .. MaxTime /\ back \in 0 .. MaxBack

\* What was let through in the window of real time that ends with event j.
Sent(j, window) ==
    Total(accepted, {i \in 1 .. j : accepted[i].real > accepted[j].real - window})

\* In real time, and although concurrent callers race, the history is pruned, the
\* limits change and the clock is set back, no attempt is accepted that exceeds the
\* limit in force over the last hour or day, or follows the one before too soon.
WindowRespected ==
    \A j \in DOMAIN accepted :
        /\ Sent(j, Hour) <= accepted[j].limit.perHour
        /\ Sent(j, Day) <= accepted[j].limit.perDay
        /\ j > 1 => accepted[j].real - accepted[j - 1].real >= accepted[j].limit.interval

\* The RetryAfter a refused caller is given is exact: with nothing else accepted in
\* between, the same request is refused at every earlier moment and allowed then.
RetryExact ==
    \A u \in Units :
        Fits(u, limit) /\ ~Allowed(history, u, Now, limit) =>
            LET wait == RetryAfter(history, u, Now, limit)
            IN  /\ Allowed(history, u, Now + wait, limit)
                /\ \A d \in 0 .. wait - 1 : ~Allowed(history, u, Now + d, limit)
=============================================================================
