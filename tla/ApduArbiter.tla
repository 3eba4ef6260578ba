---------------------------- MODULE ApduArbiter ----------------------------
(***************************************************************************)
(* The per-device APDU arbiter, internal/apduarbiter/arbiter.go.           *)
(*                                                                         *)
(* Goroutines ask for a lease (session, oneshot, transport) or a barrier,  *)
(* queue under Arbiter.mu, and sleep on the broadcast channel notifyC that *)
(* every state change closes.  Each critical section of mu is one action;  *)
(* a waiter that has captured notifyC and gone to sleep is woken by        *)
(* signalLocked and must take mu again before it can decide anything.      *)
(*                                                                         *)
(* Time appears as two facts about a ticket: a queued transport has waited *)
(* for transportPriorityAging (aged), and a held lease has gone            *)
(* MaxLeaseHold without a Touch (overdue).  Both may become true at any    *)
(* moment, in any order: the enqueue time is taken before mu is.           *)
(*                                                                         *)
(* Every request has its own id (Arbiter.seq), used once.                  *)
(***************************************************************************)
EXTENDS Naturals, Sequences, FiniteSets

CONSTANTS
  Ids,               \* ticket ids that Arbiter.seq hands out
  Requests,          \* Requests[i]: the calls that ticket i may stand for
  MaxSessions,       \* Options.MaxSessions
  MaxQMITransports   \* Options.MaxQMITransports

VARIABLES
  queue,             \* Arbiter.queue
  activeSessions,    \* Arbiter.activeSessions
  activeOneshot,     \* Arbiter.activeOneshot: empty (nil) or one ticket
  activeTransports,  \* Arbiter.activeTransports
  activeBarriers,    \* Arbiter.activeBarriers
  phase,             \* where the goroutine of each ticket is
  woken,             \* waiters whose captured notifyC has been closed
  aged,              \* tickets queued for transportPriorityAging or more
  overdue,           \* leases past expiresAt
  fired,             \* leases whose watchdog callback is waiting for mu
  idleWait           \* the goroutine inside WaitIdle

actives == <<activeSessions, activeOneshot, activeTransports, activeBarriers>>
clocks  == <<aged, overdue, fired>>
vars    == <<queue, actives, phase, woken, clocks, idleWait>>

-----------------------------------------------------------------------------
(* Requests and tickets *)

Classes == {"EUICCWrite", "EUICCRead", "USIMAKA", "SMSC", "SwitchBarrier", "Recovery"}
LeaseTypes == {"session", "oneshot", "transport", "barrier"}
Scopes == {"exclusive", "qmi_channel"}

\* A call as the caller makes it; the class "" is Go's zero value.
RawRequest ==
  [leaseType : LeaseTypes, class : Classes \cup {""}, mode : {"QMI", "AT"},
   channel : Nat, scope : Scopes, blocked : SUBSET (Classes \cup {""})]

Ticket ==
  [id : Ids, leaseType : LeaseTypes, class : Classes, channel : Nat,
   scope : Scopes, blocked : SUBSET Classes]

ASSUME ArbiterAssumption ==
  /\ IsFiniteSet(Ids)
  /\ Requests \in [Ids -> SUBSET RawRequest]
  /\ MaxSessions \in Nat \ {0}
  /\ MaxQMITransports \in Nat \ {0}

normalizeClass(class, leaseType) ==
  IF class # "" THEN class
  ELSE IF leaseType = "oneshot" THEN "USIMAKA" ELSE "EUICCWrite"

normalizeTransportScope(r) ==
  IF /\ r.leaseType = "transport" /\ r.scope = "qmi_channel"
     /\ r.mode = "QMI" /\ r.channel > 0
  THEN "qmi_channel" ELSE "exclusive"

\* BeginBarrier: an empty policy blocks the two SIM services.
barrierBlocked(r) ==
  IF r.blocked = {} THEN {"USIMAKA", "SMSC"}
  ELSE {normalizeClass(c, "oneshot") : c \in r.blocked}

newTicket(i, r) ==
  [id |-> i, leaseType |-> r.leaseType, channel |-> r.channel,
   class   |-> IF r.leaseType = "barrier" /\ r.class = "" THEN "SwitchBarrier"
               ELSE normalizeClass(r.class, r.leaseType),
   scope   |-> normalizeTransportScope(r),
   blocked |-> IF r.leaseType = "barrier" THEN barrierBlocked(r) ELSE {}]

-----------------------------------------------------------------------------
(* Admission, evaluated on a queue q that contains the ticket *)

isBlockedByActiveBarrier(class) == \E b \in activeBarriers : class \in b.blocked

hasPendingBarrierAhead(q, tk) ==
  \E j \in DOMAIN q :
    /\ tk.class \in q[j].blocked
    /\ \A k \in 1..j : q[k].id # tk.id

hasActiveExclusiveTransport == \E t \in activeTransports : t.scope # "qmi_channel"

activeQMITransports == {t \in activeTransports : t.scope = "qmi_channel"}

\* mutant: one QMI transport too many
qmiWindowFullLate == Cardinality(activeQMITransports) > MaxQMITransports

qmiWindowFull == Cardinality(activeQMITransports) >= MaxQMITransports

\* mutant: two QMI transports may use one logical channel
canAcquireTransportNowAnyChannel(tk) ==
  IF tk.scope # "qmi_channel" THEN activeTransports = {}
  ELSE ~hasActiveExclusiveTransport /\ ~qmiWindowFull

canAcquireTransportNow(tk) ==
  IF tk.scope # "qmi_channel" THEN activeTransports = {}
  ELSE /\ ~hasActiveExclusiveTransport
       /\ ~qmiWindowFull
       /\ \A t \in activeQMITransports : t.channel # tk.channel

transportWaitGatesQueue(tk) ==
  tk.scope # "qmi_channel" \/ hasActiveExclusiveTransport \/ qmiWindowFull

\* mutant: a transport that a barrier blocks stops the scan instead of being skipped
stopsScanAtBlocked(tk) ==
  \/ tk.leaseType # "transport"
  \/ isBlockedByActiveBarrier(tk.class)
  \/ ~canAcquireTransportNow(tk) /\ transportWaitGatesQueue(tk)

\* The scan of selectedTransportLocked stops at the first ticket that is not a
\* transport and at the first unblocked transport that must wait and gates.
stopsScan(tk) ==
  \/ tk.leaseType # "transport"
  \/ /\ ~isBlockedByActiveBarrier(tk.class)
     /\ ~canAcquireTransportNow(tk)
     /\ transportWaitGatesQueue(tk)

eligible(q) ==
  {j \in DOMAIN q : /\ \A k \in 1..j : ~stopsScan(q[k])
                    /\ ~isBlockedByActiveBarrier(q[j].class)
                    /\ canAcquireTransportNow(q[j])}

isAKA(tk) == tk.class = "USIMAKA"

\* Aged non-AKA transports first, then AKA, then arrival order.
preferred(q) ==
  LET agedNonAKA == {j \in eligible(q) : ~isAKA(q[j]) /\ q[j].id \in aged}
      aka        == {j \in eligible(q) : isAKA(q[j])}
  IN  IF agedNonAKA # {} THEN agedNonAKA
      ELSE IF aka # {} THEN aka ELSE eligible(q)

isSelectedTransport(q, tk) ==
  \E j \in preferred(q) : q[j].id = tk.id /\ \A k \in preferred(q) : j <= k

canAcquireLease(q, tk) ==
  /\ tk.leaseType # "barrier"
  /\ ~isBlockedByActiveBarrier(tk.class)
  /\ ~hasPendingBarrierAhead(q, tk)
  /\ activeOneshot = {}
  /\ \/ /\ tk.leaseType = "session"
        /\ q[1].id = tk.id /\ activeTransports = {}
        /\ ~(Cardinality(activeSessions) >= MaxSessions)
     \/ /\ tk.leaseType = "oneshot"
        /\ q[1].id = tk.id /\ activeSessions = {} /\ activeTransports = {}
     \/ /\ tk.leaseType = "transport"
        /\ activeSessions = {} /\ isSelectedTransport(q, tk)

\* mutant: a barrier is raised over legacy sessions
canAcquireBarrierOverSessions(q, tk) ==
  /\ tk.leaseType = "barrier"
  /\ activeTransports = {} /\ activeOneshot = {}
  /\ \E j \in DOMAIN q :
       q[j].id = tk.id /\ \A k \in 1..(j - 1) : q[k].leaseType # "barrier"

canAcquireBarrier(q, tk) ==
  /\ tk.leaseType = "barrier"
  /\ activeTransports = {} /\ activeSessions = {} /\ activeOneshot = {}
  /\ \E j \in DOMAIN q :
       q[j].id = tk.id /\ \A k \in 1..(j - 1) : q[k].leaseType # "barrier"

canAcquire(q, tk) == canAcquireLease(q, tk) \/ canAcquireBarrier(q, tk)

-----------------------------------------------------------------------------
(* State changes made with mu held *)

isIdle ==
  /\ activeOneshot = {} /\ activeTransports = {} /\ activeSessions = {}
  /\ activeBarriers = {} /\ queue = <<>>

\* close(notifyC): every goroutine asleep on it, other than the caller, wakes.
signal(i) ==
  /\ woken' = {x \in Ids : phase[x] = "waiting"} \ {i}
  /\ idleWait' = IF idleWait = "asleep" THEN "woken" ELSE idleWait

removeTicket(q, j) == [k \in 1..(Len(q) - 1) |-> IF k < j THEN q[k] ELSE q[k + 1]]

addActive(tk) ==
  /\ activeSessions' = IF tk.leaseType = "session"
                       THEN activeSessions \cup {tk} ELSE activeSessions
  /\ activeOneshot' = IF tk.leaseType = "oneshot" THEN {tk} ELSE activeOneshot
  /\ activeTransports' = IF tk.leaseType = "transport"
                         THEN activeTransports \cup {tk} ELSE activeTransports
  /\ activeBarriers' = IF tk.leaseType = "barrier"
                       THEN activeBarriers \cup {tk} ELSE activeBarriers

removeActive(i) ==
  /\ activeSessions' = {t \in activeSessions : t.id # i}
  /\ activeOneshot' = {t \in activeOneshot : t.id # i}
  /\ activeTransports' = {t \in activeTransports : t.id # i}
  /\ UNCHANGED activeBarriers

activeLeases == activeSessions \cup activeOneshot \cup activeTransports
leaseIds     == {t.id : t \in activeLeases}
barrierIds   == {t.id : t \in activeBarriers}

\* The success branch of the acquire loops, for the ticket at position j of q.
grant(q, j) ==
  /\ queue' = removeTicket(q, j)
  /\ addActive(q[j])
  /\ phase' = [phase EXCEPT ![q[j].id] = "granted"]
  /\ signal(q[j].id)
  /\ UNCHANGED clocks

-----------------------------------------------------------------------------
(* Actions *)

\* acquire / BeginBarrier up to the first sleep: mu is held from the append to
\* the first evaluation of the admission test.
Submit(i, r) ==
  /\ phase[i] = "new"
  /\ LET tk == newTicket(i, r)
         q  == Append(queue, tk)
     IN  \/ /\ canAcquire(q, tk)
            /\ grant(q, Len(q))
         \/ /\ ~canAcquire(q, tk)
            /\ queue' = q
            /\ phase' = [phase EXCEPT ![i] = "waiting"]
            /\ signal(i)
            /\ UNCHANGED <<actives, clocks>>

\* case <-waitC: take mu again and re-evaluate.
Recheck(j) ==
  LET tk == queue[j]
  IN  /\ tk.id \in woken
      /\ \/ canAcquire(queue, tk) /\ grant(queue, j)
         \/ /\ ~canAcquire(queue, tk)
            /\ woken' = woken \ {tk.id}
            /\ UNCHANGED <<queue, actives, phase, clocks, idleWait>>

\* mutant: a request that gives up tells nobody
TimeoutSilent(j) ==
  LET i == queue[j].id
  IN  /\ phase[i] = "waiting"
      /\ queue' = removeTicket(queue, j)
      /\ phase' = [phase EXCEPT ![i] = "timedout"]
      /\ woken' = woken \ {i}
      /\ UNCHANGED <<actives, clocks, idleWait>>

\* case <-ctx.Done(): leave the queue and report ErrAPDUBusy.
Timeout(j) ==
  LET i == queue[j].id
  IN  /\ phase[i] = "waiting"
      /\ queue' = removeTicket(queue, j)
      /\ phase' = [phase EXCEPT ![i] = "timedout"]
      /\ signal(i)
      /\ UNCHANGED <<actives, clocks>>

\* Time passes for a queued transport.  Nobody is told.
Age(j) ==
  /\ queue[j].leaseType = "transport" /\ ~isAKA(queue[j])
  /\ queue[j].id \notin aged
  /\ aged' = aged \cup {queue[j].id}
  /\ UNCHANGED <<queue, actives, phase, woken, overdue, fired, idleWait>>

\* MaxLeaseHold passes since the timer was last set: AfterFunc starts releaseExpired.
TimerFires(i) ==
  /\ i \in leaseIds /\ i \notin overdue
  /\ overdue' = overdue \cup {i}
  /\ fired' = fired \cup {i}
  /\ UNCHANGED <<queue, actives, phase, woken, aged, idleWait>>

\* Lease.Touch of a lease that is still active: a new expiresAt, timer reset.
Touch(i) ==
  /\ phase[i] = "granted" /\ i \in overdue /\ i \in leaseIds
  /\ overdue' = overdue \ {i}
  /\ UNCHANGED <<queue, actives, phase, woken, aged, fired, idleWait>>

\* mutant: the callback trusts that its timer was not reset
releaseExpiredUnchecked(i) ==
  /\ i \in fired
  /\ fired' = fired \ {i}
  /\ \/ i \in leaseIds /\ removeActive(i) /\ signal(i)
     \/ i \notin leaseIds /\ UNCHANGED <<actives, woken, idleWait>>
  /\ UNCHANGED <<queue, phase, aged, overdue>>

\* The watchdog callback: it re-reads expiresAt and finds the lease by id.
releaseExpired(i) ==
  /\ i \in fired
  /\ fired' = fired \ {i}
  /\ \/ /\ i \in leaseIds /\ i \in overdue
        /\ removeActive(i)
        /\ signal(i)
     \/ /\ ~(i \in leaseIds /\ i \in overdue)
        /\ UNCHANGED <<actives, woken, idleWait>>
  /\ UNCHANGED <<queue, phase, aged, overdue>>

\* Lease.Release, once: a no-op for a lease the watchdog has taken away.
release(i) ==
  /\ phase[i] = "granted" /\ i \notin barrierIds
  /\ phase' = [phase EXCEPT ![i] = "released"]
  /\ \/ i \in leaseIds /\ removeActive(i) /\ signal(i)
     \/ i \notin leaseIds /\ UNCHANGED <<actives, woken, idleWait>>
  /\ UNCHANGED <<queue, clocks>>

\* mutant: the barrier is gone, and nobody is told
releaseBarrierSilent(i) ==
  /\ phase[i] = "granted" /\ i \in barrierIds
  /\ phase' = [phase EXCEPT ![i] = "released"]
  /\ activeBarriers' = {b \in activeBarriers : b.id # i}
  /\ UNCHANGED <<queue, activeSessions, activeOneshot, activeTransports, woken, idleWait, clocks>>

\* Barrier.Release, once.
releaseBarrier(i) ==
  /\ phase[i] = "granted" /\ i \in barrierIds
  /\ phase' = [phase EXCEPT ![i] = "released"]
  /\ activeBarriers' = {b \in activeBarriers : b.id # i}
  /\ signal(i)
  /\ UNCHANGED <<queue, activeSessions, activeOneshot, activeTransports, clocks>>

\* WaitIdle: look, and sleep on the channel captured under the same mu.
WaitIdle ==
  /\ idleWait = "out" /\ ~isIdle
  /\ idleWait' = "asleep"
  /\ UNCHANGED <<queue, actives, phase, woken, clocks>>

RecheckIdle ==
  /\ idleWait = "woken"
  /\ idleWait' = IF isIdle THEN "out" ELSE "asleep"
  /\ UNCHANGED <<queue, actives, phase, woken, clocks>>

\* WaitIdle's ctx is done before the arbiter is idle.
IdleTimeout ==
  /\ idleWait # "out"
  /\ idleWait' = "out"
  /\ UNCHANGED <<queue, actives, phase, woken, clocks>>

-----------------------------------------------------------------------------
Init ==
  /\ queue = <<>>
  /\ activeSessions = {} /\ activeOneshot = {}
  /\ activeTransports = {} /\ activeBarriers = {}
  /\ phase = [i \in Ids |-> "new"]
  /\ woken = {} /\ aged = {} /\ overdue = {} /\ fired = {}
  /\ idleWait = "out"

Next ==
  \/ \E i \in Ids : \E r \in Requests[i] : Submit(i, r)
  \/ \E j \in 1..Len(queue) : Recheck(j) \/ Timeout(j) \/ Age(j)
  \/ \E i \in Ids :
       \/ TimerFires(i) \/ Touch(i) \/ releaseExpired(i)
       \/ release(i) \/ releaseBarrier(i)
  \/ WaitIdle \/ RecheckIdle \/ IdleTimeout

Spec == Init /\ [][Next]_vars

\* Holders give back the leases they took, and a woken goroutine is scheduled.
\* Nothing is said of barriers: an eSIM switch keeps its own for as long as it works.
Fairness ==
  /\ \A i \in Ids : WF_vars(release(i))
  /\ \A i \in Ids : WF_vars(\E j \in 1..Len(queue) : queue[j].id = i /\ Recheck(j))
  /\ WF_vars(RecheckIdle)

FairSpec == Spec /\ Fairness

-----------------------------------------------------------------------------
(* Invariants *)

(***************************************************************************)
(* Every field of Arbiter holds what its Go type and its writers allow:    *)
(* tickets of the right kind in each list, clocks only for known ids.      *)
(***************************************************************************)
TypeOK ==
  /\ queue \in Seq(Ticket)
  /\ activeSessions \in SUBSET {t \in Ticket : t.leaseType = "session"}
  /\ activeOneshot \in SUBSET {t \in Ticket : t.leaseType = "oneshot"}
  /\ activeTransports \in SUBSET {t \in Ticket : t.leaseType = "transport"}
  /\ activeBarriers \in SUBSET {t \in Ticket : t.leaseType = "barrier"}
  /\ phase \in [Ids -> {"new", "waiting", "granted", "timedout", "released"}]
  /\ woken \subseteq Ids /\ aged \subseteq Ids
  /\ overdue \subseteq Ids /\ fired \subseteq Ids
  /\ idleWait \in {"out", "asleep", "woken"}

(***************************************************************************)
(* The leases in force can share the card: a oneshot is alone, transports  *)
(* and sessions never meet, an exclusive transport is alone, QMI           *)
(* transports use different logical channels.  The admission tests spread  *)
(* over canAcquireLeaseLocked and canAcquireTransportNowLocked.            *)
(***************************************************************************)
Exclusion ==
  \A s, t \in activeLeases :
    \/ s = t
    \/ s.leaseType = "session" /\ t.leaseType = "session"
    \/ /\ s.leaseType = "transport" /\ t.leaseType = "transport"
       /\ s.scope = "qmi_channel" /\ t.scope = "qmi_channel"
       /\ s.channel # t.channel

(***************************************************************************)
(* While a barrier is held no lease of a class it blocks is in force, even *)
(* one that was queued before the barrier (canAcquireLeaseLocked looks at  *)
(* the active barriers, canAcquireBarrierLocked at every lease).           *)
(***************************************************************************)
BarrierIsolation ==
  \A b \in activeBarriers, t \in activeLeases : t.class \notin b.blocked

(***************************************************************************)
(* WaitIdle never sleeps through an idle arbiter: it captured notifyC      *)
(* under the mu under which it looked, and whoever makes the arbiter idle  *)
(* signals.                                                                *)
(***************************************************************************)
IdleWaiterNotLost == idleWait = "asleep" => ~isIdle

(***************************************************************************)
(* A request that could be granted has a wakeup pending.  The loops of     *)
(* acquire and BeginBarrier look again only when notifyC is closed, so     *)
(* without this a grantable request sleeps until its ctx expires.  Aging   *)
(* is the exception, see AgedTransportServed.                              *)
(***************************************************************************)
NoLostWakeup ==
  aged = {} =>
    \A j \in DOMAIN queue : canAcquire(queue, queue[j]) => queue[j].id \in woken

-----------------------------------------------------------------------------
(* Action properties *)

(***************************************************************************)
(* The watchdog never takes away a lease that was touched in time: a lease *)
(* leaves the active lists only by its holder's Release or while its       *)
(* expiresAt has passed, also when Touch races the callback of a timer     *)
(* that has already fired (releaseExpired re-reads expiresAt).             *)
(***************************************************************************)
TouchedLeaseKept ==
  [][\A t \in activeLeases :
       t \notin activeLeases' => t.id \in overdue \/ phase'[t.id] = "released"]_vars

-----------------------------------------------------------------------------
(* Liveness, under FairSpec *)

waiting(i) == phase[i] = "waiting"

(***************************************************************************)
(* Among requests whose priority does not change with time, each leaves    *)
(* the queue without its ctx having to expire, if no barrier is kept       *)
(* forever.                                                                *)
(***************************************************************************)
barriersReturned == \A i \in Ids : []<>(\A b \in activeBarriers : b.id # i)

EveryWaiterServed ==
  (barriersReturned /\ [](aged = {})) => \A i \in Ids : waiting(i) ~> ~waiting(i)

(***************************************************************************)
(* "Priority aging prevents EUICC starvation": a non-AKA transport that    *)
(* has aged is served without its ctx having to expire.                    *)
(***************************************************************************)
AgedTransportServed == \A i \in Ids : (waiting(i) /\ i \in aged) ~> ~waiting(i)

(***************************************************************************)
(* The holder of a barrier can work behind it: a transport of a class no   *)
(* barrier blocks is granted while the barrier is held, whatever other     *)
(* transports and barriers are queued (an eSIM switch writes to the card   *)
(* under its own barrier).  Behind a blocked legacy request it waits.      *)
(***************************************************************************)
queuedUnblocked(i) ==
  \E j \in DOMAIN queue :
    /\ queue[j].id = i /\ queue[j].leaseType = "transport"
    /\ ~isBlockedByActiveBarrier(queue[j].class)
    /\ \A k \in 1..j : queue[k].leaseType \in {"transport", "barrier"}

BarrierHolderServed ==
  \A i \in Ids :
    (activeBarriers # {} /\ queuedUnblocked(i)) ~> (~waiting(i) \/ activeBarriers = {})

-----------------------------------------------------------------------------
(***************************************************************************)
(* The arbiter implements the access rules of ApduAccess: the grants in    *)
(* force are its active leases and barriers, and every critical section    *)
(* admits one grant, drops one, or changes none.                           *)
(***************************************************************************)
Access == INSTANCE ApduAccess WITH
            holders <- activeLeases \cup activeBarriers,
            Grants  <- UNION {{newTicket(i, r) : r \in Requests[i]} : i \in Ids}

ImplementsAccess == Access!Spec
=============================================================================
