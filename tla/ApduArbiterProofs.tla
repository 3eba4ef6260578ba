------------------------- MODULE ApduArbiterProofs -------------------------
(***************************************************************************)
(* What the arbiter guarantees for every set of ids, every menu of calls   *)
(* and every limit.  The inductive invariant adds to the properties that   *)
(* queued tickets belong to sleeping goroutines and are pairwise distinct: *)
(* isSelectedTransport and hasPendingBarrierAhead compare ids, and say     *)
(* something about a ticket only if no other ticket carries its id.        *)
(***************************************************************************)
EXTENDS ApduArbiter, TLAPS

QueueIdsUnique == \A j, k \in DOMAIN queue : queue[j].id = queue[k].id => j = k
QueueWaits     == \A j \in DOMAIN queue : phase[queue[j].id] = "waiting"

-----------------------------------------------------------------------------
(* Lemmas about tickets and queues *)

\* Whatever the caller passes, acquire and BeginBarrier queue a well-formed ticket.
LEMMA NewTicketType ==
  ASSUME NEW i \in Ids, NEW r \in RawRequest
  PROVE  newTicket(i, r) \in Ticket /\ newTicket(i, r).id = i
<1>1. \A c \in Classes \cup {""}, t \in LeaseTypes : normalizeClass(c, t) \in Classes
  BY DEF normalizeClass, Classes, LeaseTypes
<1>2. barrierBlocked(r) \in SUBSET Classes
  BY <1>1 DEF barrierBlocked, RawRequest, Classes, LeaseTypes
<1>3. normalizeTransportScope(r) \in Scopes
  BY DEF normalizeTransportScope, Scopes
<1> QED
  BY <1>1, <1>2, <1>3 DEF newTicket, RawRequest, Ticket, Classes

\* Every queued ticket is a ticket.
LEMMA QueuedTicket ==
  ASSUME NEW STATE q, q \in Seq(Ticket), NEW STATE k, k \in DOMAIN q
  PROVE  q[k] \in Ticket /\ q[k].id \in Ids
<1>1. q[k] \in Ticket
  OBVIOUS
<1>2. \A t \in Ticket : t.id \in Ids
  BY DEF Ticket
<1> QED BY <1>1, <1>2

\* removeTicketLocked keeps the other tickets, in their order.
LEMMA RemoveTicket ==
  ASSUME NEW S, NEW q \in Seq(S), NEW j \in 1..Len(q)
  PROVE  /\ removeTicket(q, j) \in Seq(S)
         /\ Len(removeTicket(q, j)) = Len(q) - 1
         /\ \A k \in DOMAIN removeTicket(q, j) :
              removeTicket(q, j)[k] = IF k < j THEN q[k] ELSE q[k + 1]
<1>1. \A k \in 1..(Len(q) - 1) : (IF k < j THEN q[k] ELSE q[k + 1]) \in S
  OBVIOUS
<1>2. removeTicket(q, j) \in [1..(Len(q) - 1) -> S]
  BY <1>1 DEF removeTicket
<1>3. Len(q) - 1 \in Nat
  OBVIOUS
<1> QED
  BY <1>2, <1>3 DEF removeTicket

-----------------------------------------------------------------------------
(* The inductive invariant *)

Safe == Exclusion /\ BarrierIsolation

IInv == TypeOK /\ QueueIdsUnique /\ QueueWaits /\ Safe /\ IdleWaiterNotLost

\* The test that granted a lease leaves no lease it cannot share the card with.
LEMMA AcquireSafe ==
  ASSUME TypeOK, Safe,
         NEW STATE q, q \in Seq(Ticket), NEW STATE j, j \in DOMAIN q,
         \A k, m \in DOMAIN q : q[k].id = q[m].id => k = m,
         canAcquire(q, q[j]), addActive(q[j])
  PROVE  Safe'
<1> DEFINE tk == q[j]
<1>0. tk \in Ticket /\ activeLeases \subseteq Ticket
  BY DEF activeLeases, TypeOK
<1>1. CASE canAcquireBarrier(q, tk)
  <2>1. activeLeases = {} /\ activeLeases' = activeLeases
    BY <1>1 DEF canAcquireBarrier, addActive, activeLeases
  <2> QED BY <2>1 DEF Safe, Exclusion, BarrierIsolation
<1>2. CASE canAcquireLease(q, tk)
  <2>1. activeBarriers' = activeBarriers /\ activeLeases' = activeLeases \cup {tk}
    BY <1>2 DEF canAcquireLease, addActive, activeLeases
  <2>2. \A b \in activeBarriers : tk.class \notin b.blocked
    BY <1>2 DEF canAcquireLease, isBlockedByActiveBarrier
  <2>3. BarrierIsolation'
    BY <2>1, <2>2 DEF Safe, BarrierIsolation
  <2>4. CASE tk.leaseType = "session"
    <3>1. activeLeases = activeSessions
      BY <1>2, <2>4 DEF canAcquireLease, activeLeases
    <3>2. \A s \in activeSessions : s.leaseType = "session"
      BY DEF TypeOK
    <3> QED BY <2>1, <2>3, <2>4, <3>1, <3>2 DEF Safe, Exclusion
  <2>5. CASE tk.leaseType = "oneshot"
    <3>1. activeLeases = {}
      BY <1>2, <2>5 DEF canAcquireLease, activeLeases
    <3> QED BY <2>1, <2>3, <3>1 DEF Safe, Exclusion
  <2>6. CASE tk.leaseType = "transport"
    <3>1. activeLeases = activeTransports /\ isSelectedTransport(q, tk)
      BY <1>2, <2>6 DEF canAcquireLease, activeLeases
    <3>2. j \in eligible(q)
      BY <3>1 DEF isSelectedTransport, preferred, eligible
    <3>3. canAcquireTransportNow(tk)
      BY <3>2 DEF eligible
    <3>4. \A t \in activeTransports :
             /\ t.leaseType = "transport" /\ tk.scope = "qmi_channel"
             /\ t.scope = "qmi_channel" /\ t.channel # tk.channel
      BY <3>3 DEF canAcquireTransportNow, hasActiveExclusiveTransport,
                  activeQMITransports, TypeOK
    <3> QED BY <2>1, <2>3, <2>6, <3>1, <3>4 DEF Safe, Exclusion
  <2> QED BY <1>2, <2>4, <2>5, <2>6 DEF canAcquireLease
<1> QED BY <1>1, <1>2 DEF canAcquire

\* Giving up a lease cannot make the others incompatible.
LEMMA RemoveSafe ==
  ASSUME Safe, NEW i, removeActive(i)
  PROVE  Safe'
<1>1. activeLeases' \subseteq activeLeases /\ activeBarriers' = activeBarriers
  BY DEF removeActive, activeLeases
<1> QED BY <1>1 DEF Safe, Exclusion, BarrierIsolation

\* signalLocked leaves nobody asleep in WaitIdle.
LEMMA SignalIdle ==
  ASSUME TypeOK, NEW i, signal(i)
  PROVE  /\ woken' \subseteq Ids /\ idleWait' \in {"out", "asleep", "woken"}
         /\ IdleWaiterNotLost'
BY DEF signal, TypeOK, IdleWaiterNotLost

\* The success branch of acquire and BeginBarrier.
LEMMA GrantPreserves ==
  ASSUME IInv, NEW STATE q, q \in Seq(Ticket), NEW STATE j, j \in 1..Len(q),
         \A k, m \in DOMAIN q : q[k].id = q[m].id => k = m,
         \A k \in DOMAIN q : k # j => phase[q[k].id] = "waiting",
         canAcquire(q, q[j]), grant(q, j)
  PROVE  IInv'
<1> USE DEF IInv
<1> DEFINE rest == removeTicket(q, j)
<1>1. /\ queue' = rest /\ rest \in Seq(Ticket) /\ Len(rest) = Len(q) - 1
      /\ \A k \in DOMAIN rest : rest[k] = IF k < j THEN q[k] ELSE q[k + 1]
  BY RemoveTicket DEF grant
<1>2. q[j] \in Ticket /\ q[j].id \in Ids
  BY QueuedTicket
<1>3. TypeOK'
  <2>1. /\ activeSessions' \in SUBSET {t \in Ticket : t.leaseType = "session"}
        /\ activeOneshot' \in SUBSET {t \in Ticket : t.leaseType = "oneshot"}
        /\ activeTransports' \in SUBSET {t \in Ticket : t.leaseType = "transport"}
        /\ activeBarriers' \in SUBSET {t \in Ticket : t.leaseType = "barrier"}
    BY <1>2 DEF grant, addActive, TypeOK
  <2>2. phase' \in [Ids -> {"new", "waiting", "granted", "timedout", "released"}]
    BY <1>2 DEF grant, TypeOK
  <2> QED BY <1>1, <2>1, <2>2, SignalIdle DEF grant, clocks, TypeOK
<1>4. QueueIdsUnique' /\ QueueWaits'
  <2>1. \A k \in DOMAIN rest : \E m \in DOMAIN q :
           /\ m # j /\ rest[k] = q[m] /\ m = IF k < j THEN k ELSE k + 1
    BY <1>1
  <2>2. QueueIdsUnique'
    BY <1>1, <2>1 DEF QueueIdsUnique
  <2>3. \A k \in DOMAIN rest : rest[k].id \in Ids /\ rest[k].id # q[j].id
                               /\ phase[rest[k].id] = "waiting"
    BY <1>1, <2>1, QueuedTicket
  <2> QED BY <1>1, <1>2, <2>2, <2>3 DEF QueueWaits, grant, TypeOK
<1>5. Safe'
  BY AcquireSafe DEF grant
<1>6. IdleWaiterNotLost'
  BY SignalIdle DEF grant
<1> QED BY <1>3, <1>4, <1>5, <1>6

\* A critical section that leaves queue and phases alone and only gives leases up,
\* if it changes anything then with a signal.
LEMMA RemovePreserves ==
  ASSUME IInv, NEW i, removeActive(i), signal(i), queue' = queue,
         phase' \in [Ids -> {"new", "waiting", "granted", "timedout", "released"}],
         \A x \in Ids : phase[x] = "waiting" => phase'[x] = "waiting",
         UNCHANGED aged, overdue' \subseteq Ids, fired' \subseteq Ids
  PROVE  IInv'
<1>1. TypeOK'
  BY SignalIdle DEF IInv, TypeOK, removeActive
<1>2. QueueIdsUnique' /\ QueueWaits'
  <2>1. \A j \in DOMAIN queue : queue[j].id \in Ids
    BY QueuedTicket DEF IInv, TypeOK
  <2> QED BY <2>1 DEF IInv, QueueIdsUnique, QueueWaits
<1> QED BY <1>1, <1>2, RemoveSafe, SignalIdle DEF IInv

-----------------------------------------------------------------------------
(* The steps, one lemma for each action that moves a ticket *)

\* A request that joins the queue (AcquireTransport, AcquireSession, AcquireOneShot)
\* keeps the invariant.
LEMMA SubmitPreserves ==
  ASSUME IInv, NEW i \in Ids, NEW r \in RawRequest, Submit(i, r)
  PROVE  IInv'
<1> DEFINE tk == newTicket(i, r)
           q  == Append(queue, tk)
<1>1. tk \in Ticket /\ tk.id = i /\ phase[i] = "new"
  BY NewTicketType DEF Submit
<1> HIDE DEF tk
<1>2. /\ queue \in Seq(Ticket) /\ q \in Seq(Ticket) /\ Len(q) = Len(queue) + 1
      /\ q[Len(q)] = tk
      /\ \A k \in DOMAIN q : k # Len(q) => k \in DOMAIN queue /\ q[k] = queue[k]
  BY <1>1 DEF IInv, TypeOK
<1>3. \A k \in DOMAIN q : k # Len(q) => phase[q[k].id] = "waiting"
  BY <1>2 DEF IInv, QueueWaits
<1>4. \A k, m \in DOMAIN q : q[k].id = q[m].id => k = m
  BY <1>1, <1>2, <1>3 DEF IInv, QueueIdsUnique, QueueWaits
<1>5. CASE canAcquire(q, tk) /\ grant(q, Len(q))
  <2> HIDE DEF q
  <2>1. Len(q) \in 1..Len(q) /\ canAcquire(q, q[Len(q)])
    BY <1>2, <1>5
  <2> QED BY <1>2, <1>3, <1>4, <1>5, <2>1, GrantPreserves
<1>6. CASE /\ queue' = q /\ phase' = [phase EXCEPT ![i] = "waiting"]
           /\ signal(i) /\ UNCHANGED <<actives, clocks>>
  <2>1. TypeOK'
    BY <1>2, <1>6, SignalIdle DEF IInv, TypeOK, actives, clocks
  <2>2. QueueIdsUnique'
    BY <1>4, <1>6 DEF QueueIdsUnique
  <2>3. \A k \in DOMAIN q : q[k].id \in Ids
    BY <1>2, QueuedTicket
  <2>4. QueueWaits'
    BY <1>1, <1>2, <1>3, <1>6, <2>3 DEF QueueWaits, IInv, TypeOK
  <2>5. Safe'
    BY <1>6 DEF IInv, Safe, Exclusion, BarrierIsolation, activeLeases, actives
  <2> QED BY <1>6, <2>1, <2>2, <2>4, <2>5, SignalIdle DEF IInv
<1> QED BY <1>5, <1>6 DEF Submit, tk

\* A waiter whose context ended, and that leaves the queue, keeps the invariant.
LEMMA TimeoutPreserves ==
  ASSUME IInv, NEW j \in 1..Len(queue), Timeout(j)
  PROVE  IInv'
<1> DEFINE i == queue[j].id
           rest == removeTicket(queue, j)
<1>1. queue \in Seq(Ticket) /\ i \in Ids
  BY QueuedTicket DEF IInv, TypeOK
<1>2. /\ queue' = rest /\ rest \in Seq(Ticket) /\ Len(rest) = Len(queue) - 1
      /\ \A k \in DOMAIN rest : rest[k] = IF k < j THEN queue[k] ELSE queue[k + 1]
  BY <1>1, RemoveTicket DEF Timeout
<1>3. \A k \in DOMAIN rest : \E m \in DOMAIN queue :
         /\ m # j /\ rest[k] = queue[m] /\ m = IF k < j THEN k ELSE k + 1
  BY <1>1, <1>2
<1>4. QueueIdsUnique'
  BY <1>1, <1>2, <1>3 DEF QueueIdsUnique, IInv
<1>5. \A k \in DOMAIN rest : rest[k].id \in Ids /\ rest[k].id # i
                             /\ phase[rest[k].id] = "waiting"
  BY <1>1, <1>2, <1>3, QueuedTicket DEF IInv, QueueIdsUnique, QueueWaits
<1>6. /\ phase' = [phase EXCEPT ![i] = "timedout"] /\ signal(i)
      /\ UNCHANGED <<actives, clocks>>
  BY DEF Timeout
<1> HIDE DEF rest, i
<1>7. QueueWaits'
  BY <1>1, <1>2, <1>5, <1>6 DEF QueueWaits, IInv, TypeOK
<1>8. TypeOK'
  BY <1>1, <1>2, <1>6, SignalIdle DEF IInv, TypeOK, actives, clocks
<1>9. Safe'
  BY <1>6 DEF IInv, Safe, Exclusion, BarrierIsolation, activeLeases, actives
<1> QED BY <1>4, <1>6, <1>7, <1>8, <1>9, SignalIdle DEF IInv

\* A woken waiter that looks again keeps the invariant, granted or not.
LEMMA RecheckPreserves ==
  ASSUME IInv, NEW j \in 1..Len(queue), Recheck(j)
  PROVE  IInv'
<1>1. queue \in Seq(Ticket)
  BY DEF IInv, TypeOK
<1>2. CASE canAcquire(queue, queue[j]) /\ grant(queue, j)
  BY <1>1, <1>2, GrantPreserves DEF IInv, QueueIdsUnique, QueueWaits
<1>3. CASE UNCHANGED <<queue, actives, phase, clocks, idleWait>> /\ woken' \subseteq woken
  BY <1>3 DEF IInv, TypeOK, QueueIdsUnique, QueueWaits, Safe, Exclusion,
              BarrierIsolation, activeLeases, IdleWaiterNotLost, isIdle, actives, clocks
<1> QED BY <1>2, <1>3 DEF Recheck

\* The release of a barrier keeps the invariant.
LEMMA ReleaseBarrierPreserves ==
  ASSUME IInv, NEW i \in Ids, releaseBarrier(i)
  PROVE  IInv'
<1>1. TypeOK'
  BY SignalIdle DEF IInv, TypeOK, releaseBarrier, clocks
<1>2. \A j \in DOMAIN queue : queue[j].id \in Ids /\ queue[j].id # i
  BY QueuedTicket DEF IInv, TypeOK, QueueWaits, releaseBarrier
<1>3. QueueIdsUnique' /\ QueueWaits'
  BY <1>2 DEF IInv, TypeOK, QueueIdsUnique, QueueWaits, releaseBarrier
<1>4. Safe'
  BY DEF IInv, Safe, Exclusion, BarrierIsolation, activeLeases, releaseBarrier
<1> QED BY <1>1, <1>3, <1>4, SignalIdle DEF IInv, releaseBarrier

\* Steps that touch neither the queue nor what is active nor the phases.
LEMMA QuietPreserves ==
  ASSUME IInv, UNCHANGED <<queue, actives, phase>>,
         woken' \subseteq Ids, aged' \subseteq Ids, overdue' \subseteq Ids, fired' \subseteq Ids,
         idleWait' \in {"out", "asleep", "woken"},
         idleWait' = "asleep" => idleWait = "asleep" \/ ~isIdle
  PROVE  IInv'
BY DEF IInv, TypeOK, QueueIdsUnique, QueueWaits, Safe, Exclusion, BarrierIsolation,
       activeLeases, IdleWaiterNotLost, isIdle, actives

\* The invariant holds when the arbiter is created.
LEMMA InitIInv == Init => IInv
BY DEF Init, IInv, TypeOK, QueueIdsUnique, QueueWaits, Safe, Exclusion,
       BarrierIsolation, activeLeases, IdleWaiterNotLost, isIdle

\* Every critical section of Arbiter.mu preserves the inductive invariant.
LEMMA NextIInv ==
  ASSUME IInv, [Next]_vars
  PROVE  IInv'
<1>0. /\ queue \in Seq(Ticket) /\ woken \subseteq Ids /\ aged \subseteq Ids
      /\ overdue \subseteq Ids /\ fired \subseteq Ids
      /\ idleWait \in {"out", "asleep", "woken"}
      /\ phase \in [Ids -> {"new", "waiting", "granted", "timedout", "released"}]
  BY DEF IInv, TypeOK
<1>1. ASSUME NEW i \in Ids, NEW r \in Requests[i], Submit(i, r)
      PROVE  IInv'
  BY <1>1, SubmitPreserves, ArbiterAssumption DEF ArbiterAssumption
<1>2. ASSUME NEW j \in 1..Len(queue), Recheck(j) PROVE IInv'
  BY <1>2, RecheckPreserves
<1>3. ASSUME NEW j \in 1..Len(queue), Timeout(j) PROVE IInv'
  BY <1>3, TimeoutPreserves
<1>4. ASSUME NEW j \in 1..Len(queue), Age(j) PROVE IInv'
  <2>1. queue[j].id \in Ids
    BY <1>0, QueuedTicket
  <2> QED BY <1>0, <1>4, <2>1, QuietPreserves DEF Age
<1>5. ASSUME NEW i \in Ids, TimerFires(i) PROVE IInv'
  BY <1>0, <1>5, QuietPreserves DEF TimerFires
<1>6. ASSUME NEW i \in Ids, Touch(i) PROVE IInv'
  BY <1>0, <1>6, QuietPreserves DEF Touch
<1>7. ASSUME NEW i \in Ids, releaseExpired(i) PROVE IInv'
  <2>1. CASE removeActive(i) /\ signal(i)
    BY <1>0, <1>7, <2>1, RemovePreserves DEF releaseExpired
  <2>2. CASE UNCHANGED <<actives, woken, idleWait>>
    BY <1>0, <1>7, <2>2, QuietPreserves DEF releaseExpired
  <2> QED BY <1>7, <2>1, <2>2 DEF releaseExpired
<1>8. ASSUME NEW i \in Ids, release(i) PROVE IInv'
  <2>1. /\ phase' \in [Ids -> {"new", "waiting", "granted", "timedout", "released"}]
        /\ \A x \in Ids : phase[x] = "waiting" => phase'[x] = "waiting"
        /\ queue' = queue /\ aged' = aged /\ overdue' = overdue /\ fired' = fired
    BY <1>0, <1>8 DEF release, clocks
  <2>2. CASE removeActive(i) /\ signal(i)
    BY <1>0, <2>1, <2>2, RemovePreserves
  <2>3. CASE UNCHANGED <<actives, woken, idleWait>>
    <3>1. \A j \in DOMAIN queue : queue[j].id \in Ids
      BY <1>0, QueuedTicket
    <3> QED BY <1>0, <2>1, <2>3, <3>1
         DEF IInv, TypeOK, QueueIdsUnique, QueueWaits, Safe, Exclusion,
             BarrierIsolation, activeLeases, IdleWaiterNotLost, isIdle, actives
  <2> QED BY <1>8, <2>2, <2>3 DEF release
<1>9. ASSUME NEW i \in Ids, releaseBarrier(i) PROVE IInv'
  BY <1>9, ReleaseBarrierPreserves
<1>10. CASE WaitIdle \/ RecheckIdle \/ IdleTimeout
  BY <1>0, <1>10, QuietPreserves DEF WaitIdle, RecheckIdle, IdleTimeout, clocks
<1>11. CASE UNCHANGED vars
  BY <1>0, <1>11, QuietPreserves DEF vars, clocks
<1> QED
  BY <1>1, <1>2, <1>3, <1>4, <1>5, <1>6, <1>7, <1>8, <1>9, <1>10, <1>11 DEF Next

\* The inductive invariant holds in every reachable state of the arbiter.
THEOREM ArbiterInvariant == Spec => []IInv
BY InitIInv, NextIInv, PTL DEF Spec

\* Every queue, list and clock of the arbiter keeps its type.
THEOREM ArbiterTypeOK == Spec => []TypeOK
<1>1. IInv => TypeOK
  BY DEF IInv
<1> QED BY <1>1, ArbiterInvariant, PTL

\* The leases in force can always share the card.
THEOREM ArbiterExclusion == Spec => []Exclusion
<1>1. IInv => Exclusion
  BY DEF IInv, Safe
<1> QED BY <1>1, ArbiterInvariant, PTL

\* No lease of a blocked class is in force under a barrier.
THEOREM ArbiterBarrierIsolation == Spec => []BarrierIsolation
<1>1. IInv => BarrierIsolation
  BY DEF IInv, Safe
<1> QED BY <1>1, ArbiterInvariant, PTL

\* WaitIdle never sleeps through an idle arbiter.
THEOREM ArbiterIdleWaiter == Spec => []IdleWaiterNotLost
<1>1. IInv => IdleWaiterNotLost
  BY DEF IInv
<1> QED BY <1>1, ArbiterInvariant, PTL

-----------------------------------------------------------------------------
(* Who holds what *)

holding == activeLeases \cup activeBarriers
Menu    == UNION {{newTicket(i, r) : r \in Requests[i]} : i \in Ids}

(***************************************************************************)
(* Every ticket in force or queued comes from a call, a ticket in force    *)
(* belongs to a goroutine that was granted it, and no two tickets in force *)
(* carry one id: what releaseExpired and Release find by id is one lease.  *)
(***************************************************************************)
HolderInv ==
  /\ \A t \in holding : t \in Menu /\ phase[t.id] = "granted"
  /\ \A s, t \in holding : s.id = t.id => s = t
  /\ \A j \in DOMAIN queue : queue[j] \in Menu

\* Every ticket a request may get is well formed and carries one of the ids.
LEMMA MenuTicket ==
  ASSUME NEW t \in Menu
  PROVE  t \in Ticket /\ t.id \in Ids
BY NewTicketType, ArbiterAssumption DEF Menu, ArbiterAssumption

\* addActive puts the ticket where its type belongs and drops nothing.
LEMMA AddHolds ==
  ASSUME NEW q, NEW tk \in Ticket, canAcquire(q, tk), addActive(tk)
  PROVE  holding' = holding \cup {tk}
<1>1. tk.leaseType \in LeaseTypes
  BY DEF Ticket
<1> QED BY <1>1 DEF canAcquire, canAcquireLease, canAcquireBarrier, addActive, holding,
                    activeLeases, LeaseTypes

\* removeActive drops the lease with this id; barriers stay.
LEMMA RemoveHolds ==
  ASSUME TypeOK, HolderInv, NEW i \in leaseIds, removeActive(i)
  PROVE  \E t \in activeLeases : /\ t.id = i /\ holding' = holding \ {t}
                                 /\ activeLeases' = activeLeases \ {t}
<1>1. PICK t \in activeLeases : t.id = i
  BY DEF leaseIds
<1>2. \A s \in holding : s.id = i <=> s = t
  BY <1>1 DEF HolderInv, holding
<1>3. t \notin activeBarriers
  BY <1>1 DEF TypeOK, activeLeases
<1>4. activeLeases' = activeLeases \ {t} /\ activeBarriers' = activeBarriers
  BY <1>2 DEF removeActive, activeLeases, holding
<1> QED BY <1>1, <1>3, <1>4 DEF holding

\* The success branch of acquire and BeginBarrier.
LEMMA GrantHolds ==
  ASSUME IInv, HolderInv, NEW STATE q, q \in Seq(Ticket), NEW STATE j, j \in 1..Len(q),
         \A k \in DOMAIN q : q[k] \in Menu,
         phase[q[j].id] \in {"new", "waiting"}, canAcquire(q, q[j]), grant(q, j)
  PROVE  HolderInv'
<1> DEFINE tk == q[j]
<1>1. tk \in Menu /\ tk \in Ticket /\ tk.id \in Ids
  BY MenuTicket
<1>2. holding' = holding \cup {tk}
  BY <1>1, AddHolds DEF grant
<1>3. phase' = [phase EXCEPT ![tk.id] = "granted"] /\ phase \in [Ids -> {"new", "waiting", "granted", "timedout", "released"}]
  BY DEF grant, IInv, TypeOK
<1>4. phase[tk.id] # "granted"
  OBVIOUS
<1>5. \A t \in holding : t.id \in Ids /\ t.id # tk.id
  BY <1>4, MenuTicket DEF HolderInv
<1>6. \A k \in DOMAIN queue' : queue'[k] \in Menu
  <2>1. /\ queue' = removeTicket(q, j) /\ Len(removeTicket(q, j)) = Len(q) - 1
        /\ removeTicket(q, j) \in Seq(Ticket)
        /\ \A k \in DOMAIN removeTicket(q, j) :
             removeTicket(q, j)[k] = IF k < j THEN q[k] ELSE q[k + 1]
    BY RemoveTicket DEF grant
  <2> QED BY <2>1, SMTT(30)
<1>7. Menu' = Menu
  BY DEF Menu, newTicket, normalizeClass, normalizeTransportScope, barrierBlocked
<1> HIDE DEF tk
<1>8. \A t \in holding' : t \in Menu /\ phase'[t.id] = "granted"
  BY <1>1, <1>2, <1>3, <1>5 DEF HolderInv
<1>9. \A s, t \in holding' : s.id = t.id => s = t
  BY <1>2, <1>5 DEF HolderInv
<1> QED BY <1>6, <1>7, <1>8, <1>9 DEF HolderInv

\* Leases may go, and phases of those that hold nothing afterwards may change.
LEMMA ShrinkHolds ==
  ASSUME HolderInv, holding' \subseteq holding, UNCHANGED queue,
         \A t \in holding' : phase'[t.id] = phase[t.id]
  PROVE  HolderInv'
<1>1. Menu' = Menu
  BY DEF Menu, newTicket, normalizeClass, normalizeTransportScope, barrierBlocked
<1> QED BY <1>1 DEF HolderInv

\* Every step keeps what each holder has in force known to be granted and compatible.
LEMMA NextHolds ==
  ASSUME IInv, HolderInv, [Next]_vars
  PROVE  HolderInv'
<1>0. queue \in Seq(Ticket) /\ phase \in [Ids -> {"new", "waiting", "granted", "timedout", "released"}]
  BY DEF IInv, TypeOK
<1>m. Menu' = Menu
  BY DEF Menu, newTicket, normalizeClass, normalizeTransportScope, barrierBlocked
<1>h. \A t \in holding : t \in Ticket /\ t.id \in Ids
  BY MenuTicket DEF HolderInv
<1>1. ASSUME NEW i \in Ids, NEW r \in Requests[i], Submit(i, r)
      PROVE  HolderInv'
  <2> DEFINE tk == newTicket(i, r)
             q  == Append(queue, tk)
  <2>1. tk \in Ticket /\ tk.id = i /\ phase[i] = "new" /\ tk \in Menu
    BY <1>1, NewTicketType, ArbiterAssumption DEF Submit, ArbiterAssumption, Menu
  <2> HIDE DEF tk
  <2>2. /\ q \in Seq(Ticket) /\ Len(q) = Len(queue) + 1 /\ q[Len(q)] = tk
        /\ \A k \in DOMAIN q : q[k] \in Menu
    BY <1>0, <2>1 DEF HolderInv
  <2>3. CASE canAcquire(q, tk) /\ grant(q, Len(q))
    <3> HIDE DEF q
    <3>1. Len(q) \in 1..Len(q)
      BY <1>0, <2>2
    <3> QED BY <2>1, <2>2, <2>3, <3>1, GrantHolds
  <2>4. CASE queue' = q /\ phase' = [phase EXCEPT ![i] = "waiting"] /\ UNCHANGED <<actives, clocks>>
    <3>1. holding' = holding
      BY <2>4 DEF actives, holding, activeLeases
    <3>2. \A t \in holding : phase'[t.id] = phase[t.id]
      BY <1>0, <1>h, <2>1, <2>4 DEF HolderInv
    <3> QED BY <1>m, <2>2, <2>4, <3>1, <3>2 DEF HolderInv
  <2> QED BY <1>1, <2>3, <2>4 DEF Submit, tk
<1>2. ASSUME NEW j \in 1..Len(queue), Recheck(j) PROVE HolderInv'
  <2>1. CASE canAcquire(queue, queue[j]) /\ grant(queue, j)
    BY <1>0, <2>1, GrantHolds DEF HolderInv, IInv, QueueWaits
  <2>2. CASE UNCHANGED <<queue, actives, phase>>
    BY <2>2, ShrinkHolds DEF actives, holding, activeLeases
  <2> QED BY <1>2, <2>1, <2>2 DEF Recheck
<1>3. ASSUME NEW j \in 1..Len(queue), Timeout(j) PROVE HolderInv'
  <2>1. holding' = holding /\ phase' = [phase EXCEPT ![queue[j].id] = "timedout"]
    BY <1>3 DEF Timeout, actives, holding, activeLeases
  <2>2. \A t \in holding : phase'[t.id] = phase[t.id]
    BY <1>0, <1>3, <1>h, <2>1 DEF HolderInv, Timeout
  <2>3. /\ queue' = removeTicket(queue, j) /\ Len(queue') = Len(queue) - 1 /\ queue' \in Seq(Ticket)
        /\ \A k \in DOMAIN queue' : queue'[k] = IF k < j THEN queue[k] ELSE queue[k + 1]
    BY <1>0, <1>3, RemoveTicket DEF Timeout
  <2>4. \A k \in DOMAIN queue' : queue'[k] \in Menu
    BY <1>0, <2>3 DEF HolderInv
  <2> QED BY <1>m, <2>1, <2>2, <2>4 DEF HolderInv
<1>4. ASSUME NEW i \in Ids, releaseExpired(i) \/ release(i) PROVE HolderInv'
  <2>0. /\ queue' = queue
        /\ \/ phase' = phase
           \/ phase' = [phase EXCEPT ![i] = "released"] /\ i \notin barrierIds
    BY <1>4 DEF releaseExpired, release
  <2>1. CASE removeActive(i)
    <3>1. holding' \subseteq holding /\ \A t \in holding' : t.id = i => t \in activeBarriers
      BY <2>1 DEF removeActive, holding, activeLeases
    <3>2. \A t \in holding' : phase'[t.id] = phase[t.id]
      BY <1>0, <1>h, <2>0, <3>1 DEF barrierIds
    <3> QED BY <2>0, <3>1, <3>2, ShrinkHolds
  <2>2. CASE UNCHANGED actives /\ phase' = phase
    BY <2>0, <2>2, ShrinkHolds DEF actives, holding, activeLeases
  <2>3. CASE UNCHANGED actives /\ i \notin leaseIds /\ i \notin barrierIds
    <3>1. holding' = holding /\ \A t \in holding : t.id # i
      BY <2>3 DEF actives, holding, activeLeases, leaseIds, barrierIds
    <3>2. \A t \in holding' : phase'[t.id] = phase[t.id]
      BY <1>0, <1>h, <2>0, <3>1
    <3> QED BY <2>0, <3>1, <3>2, ShrinkHolds
  <2> QED BY <1>4, <2>1, <2>2, <2>3 DEF releaseExpired, release
<1>5. ASSUME NEW i \in Ids, releaseBarrier(i) PROVE HolderInv'
  <2>1. holding' \subseteq holding
    BY <1>5 DEF releaseBarrier, holding, activeLeases
  <2>2. activeBarriers' = {b \in activeBarriers : b.id # i} /\ activeLeases' = activeLeases
    BY <1>5 DEF releaseBarrier, activeLeases
  <2>3. PICK b \in activeBarriers : b.id = i
    BY <1>5 DEF releaseBarrier, barrierIds
  <2>4. b \notin activeLeases
    BY DEF IInv, TypeOK, activeLeases
  <2>5. \A t \in holding' : t.id # i
    BY <2>2, <2>3, <2>4 DEF HolderInv, holding
  <2>6. \A t \in holding' : phase'[t.id] = phase[t.id]
    BY <1>0, <1>5, <1>h, <2>1, <2>5 DEF releaseBarrier
  <2> QED BY <1>5, <2>1, <2>6, ShrinkHolds DEF releaseBarrier
<1>6. CASE UNCHANGED <<queue, actives, phase>>
  BY <1>6, ShrinkHolds DEF actives, holding, activeLeases
<1>7. ASSUME NEW j \in 1..Len(queue), Age(j) PROVE UNCHANGED <<queue, actives, phase>>
  BY <1>7 DEF Age
<1>8. ASSUME NEW i \in Ids, TimerFires(i) \/ Touch(i) PROVE UNCHANGED <<queue, actives, phase>>
  BY <1>8 DEF TimerFires, Touch
<1>9. CASE WaitIdle \/ RecheckIdle \/ IdleTimeout \/ UNCHANGED vars
  BY <1>6, <1>9 DEF WaitIdle, RecheckIdle, IdleTimeout, vars
<1> QED BY <1>1, <1>2, <1>3, <1>4, <1>5, <1>6, <1>7, <1>8, <1>9 DEF Next

-----------------------------------------------------------------------------
(* No lost wakeup *)

\* signalLocked wakes every queued request other than the caller's own.
LEMMA SignalWakesQueue ==
  ASSUME IInv, NEW i, signal(i), NEW j \in DOMAIN queue, queue[j].id # i
  PROVE  queue[j].id \in woken'
<1>1. queue[j].id \in Ids
  BY QueuedTicket DEF IInv, TypeOK
<1> QED BY <1>1 DEF IInv, QueueWaits, signal

\* A grant wakes whoever is still queued.
LEMMA GrantWakes ==
  ASSUME IInv, NEW STATE q, q \in Seq(Ticket), NEW STATE j, j \in 1..Len(q),
         \A k, m \in DOMAIN q : q[k].id = q[m].id => k = m,
         \A k \in DOMAIN q : k # j => phase[q[k].id] = "waiting",
         grant(q, j)
  PROVE  \A k \in DOMAIN queue' : queue'[k].id \in woken'
<1> DEFINE rest == removeTicket(q, j)
<1>1. /\ queue' = rest /\ rest \in Seq(Ticket) /\ Len(rest) = Len(q) - 1
      /\ \A k \in DOMAIN rest : rest[k] = IF k < j THEN q[k] ELSE q[k + 1]
  BY RemoveTicket DEF grant
<1>2. \A k \in DOMAIN rest : \E m \in DOMAIN q : m # j /\ rest[k] = q[m]
  BY <1>1
<1>3. \A k \in DOMAIN rest : /\ rest[k].id \in Ids /\ rest[k].id # q[j].id
                             /\ phase[rest[k].id] = "waiting"
  BY <1>1, <1>2, QueuedTicket
<1> HIDE DEF rest
<1> QED BY <1>1, <1>3 DEF grant, signal

\* Besides the queue, admission depends on what is active and on who has aged.
LEMMA CanAcquireStable ==
  ASSUME UNCHANGED <<actives, aged>>, NEW j \in DOMAIN queue'
  PROVE  canAcquire(queue, queue[j])' = canAcquire(queue', queue'[j])
BY DEF actives, canAcquire, canAcquireLease, canAcquireBarrier, isBlockedByActiveBarrier,
       hasPendingBarrierAhead, isSelectedTransport, preferred, eligible, stopsScan, isAKA,
       transportWaitGatesQueue, canAcquireTransportNow, hasActiveExclusiveTransport,
       qmiWindowFull, activeQMITransports

\* Steps that leave queue, leases and ages alone and put nobody to sleep.
LEMMA QuietWakes ==
  ASSUME NoLostWakeup, UNCHANGED <<queue, actives, aged>>, woken \subseteq woken'
  PROVE  NoLostWakeup'
<1>1. \A j \in DOMAIN queue : canAcquire(queue, queue[j])' = canAcquire(queue, queue[j])
  BY CanAcquireStable
<1> QED BY <1>1 DEF NoLostWakeup

\* A step that ends in a signal and leaves the queue alone.
LEMMA SignalWakes ==
  ASSUME IInv, NEW i, signal(i), phase[i] # "waiting", UNCHANGED queue
  PROVE  NoLostWakeup'
BY SignalWakesQueue DEF NoLostWakeup, IInv, QueueWaits

\* Every step that lets a sleeping waiter through also wakes it.
LEMMA NextWakes ==
  ASSUME IInv, HolderInv, NoLostWakeup, [Next]_vars
  PROVE  NoLostWakeup'
<1>0. queue \in Seq(Ticket) /\ phase \in [Ids -> {"new", "waiting", "granted", "timedout", "released"}]
  BY DEF IInv, TypeOK
<1>1. ASSUME NEW i \in Ids, NEW r \in Requests[i], Submit(i, r)
      PROVE  NoLostWakeup'
  <2> DEFINE tk == newTicket(i, r)
             q  == Append(queue, tk)
  <2>1. tk \in Ticket /\ tk.id = i /\ phase[i] = "new"
    BY <1>1, NewTicketType, ArbiterAssumption DEF Submit, ArbiterAssumption
  <2> HIDE DEF tk
  <2>2. /\ q \in Seq(Ticket) /\ Len(q) = Len(queue) + 1 /\ q[Len(q)] = tk
        /\ \A k \in DOMAIN q : k # Len(q) => k \in DOMAIN queue /\ q[k] = queue[k]
    BY <1>0, <2>1
  <2>3. \A k \in DOMAIN q : k # Len(q) => phase[q[k].id] = "waiting"
    BY <2>2 DEF IInv, QueueWaits
  <2>4. \A k, m \in DOMAIN q : q[k].id = q[m].id => k = m
    BY <2>1, <2>2, <2>3 DEF IInv, QueueIdsUnique, QueueWaits
  <2>5. CASE grant(q, Len(q))
    <3> HIDE DEF q
    <3>1. Len(q) \in 1..Len(q)
      BY <1>0, <2>2
    <3> QED BY <2>2, <2>3, <2>4, <2>5, <3>1, GrantWakes DEF NoLostWakeup
  <2>6. CASE ~canAcquire(q, tk) /\ queue' = q /\ signal(i) /\ UNCHANGED <<actives, clocks>>
    <3>1. \A k \in DOMAIN queue : queue[k].id # i
      BY <2>1 DEF IInv, QueueWaits
    <3>2. \A k \in DOMAIN q : k # Len(q) => q[k].id \in woken'
      BY <2>2, <2>6, <3>1, SignalWakesQueue
    <3>3. Len(q) \in DOMAIN q
      BY <1>0, <2>2
    <3> HIDE DEF q
    <3>4. \A k \in DOMAIN q : k = Len(q) => ~canAcquire(queue, queue[k])'
      BY <2>2, <2>6, <3>3, CanAcquireStable DEF clocks
    <3> QED BY <2>6, <3>2, <3>4 DEF NoLostWakeup
  <2> QED BY <1>1, <2>5, <2>6 DEF Submit, tk
<1>2. ASSUME NEW j \in 1..Len(queue), Recheck(j) PROVE NoLostWakeup'
  <2>1. CASE grant(queue, j)
    BY <1>0, <2>1, GrantWakes DEF NoLostWakeup, IInv, QueueIdsUnique, QueueWaits
  <2>2. CASE /\ ~canAcquire(queue, queue[j]) /\ woken' = woken \ {queue[j].id}
             /\ UNCHANGED <<queue, actives, phase, clocks, idleWait>>
    <3>1. \A k \in DOMAIN queue : canAcquire(queue, queue[k])' = canAcquire(queue, queue[k])
      BY <2>2, CanAcquireStable DEF clocks
    <3> QED BY <1>0, <2>2, <3>1 DEF NoLostWakeup, IInv, QueueIdsUnique, clocks
  <2> QED BY <1>2, <2>1, <2>2 DEF Recheck
<1>3. ASSUME NEW j \in 1..Len(queue), Timeout(j) PROVE NoLostWakeup'
  <2> DEFINE rest == removeTicket(queue, j)
  <2>1. /\ queue' = rest /\ rest \in Seq(Ticket) /\ Len(rest) = Len(queue) - 1
        /\ \A k \in DOMAIN rest : rest[k] = IF k < j THEN queue[k] ELSE queue[k + 1]
    BY <1>0, <1>3, RemoveTicket DEF Timeout
  <2>2. \A k \in DOMAIN rest : \E m \in DOMAIN queue : m # j /\ rest[k] = queue[m]
    BY <1>0, <2>1, SMTT(30)
  <2> HIDE DEF rest
  <2>3. \A k \in DOMAIN rest : rest[k].id \in woken'
    BY <1>0, <1>3, <2>2, SignalWakesQueue DEF Timeout, IInv, QueueIdsUnique
  <2> QED BY <2>1, <2>3 DEF NoLostWakeup
<1>4. ASSUME NEW j \in 1..Len(queue), Age(j) PROVE NoLostWakeup'
  BY <1>4 DEF Age, NoLostWakeup
<1>5. ASSUME NEW i \in Ids, TimerFires(i) \/ Touch(i) PROVE NoLostWakeup'
  BY <1>5, QuietWakes DEF TimerFires, Touch
<1>6. ASSUME NEW i \in Ids, releaseExpired(i) PROVE NoLostWakeup'
  <2>1. CASE i \in leaseIds /\ signal(i)
    <3>1. phase[i] # "waiting"
      BY <2>1 DEF HolderInv, holding, leaseIds
    <3> QED BY <1>6, <2>1, <3>1, SignalWakes DEF releaseExpired
  <2>2. CASE UNCHANGED <<actives, woken, idleWait>>
    BY <1>6, <2>2, QuietWakes DEF releaseExpired
  <2> QED BY <1>6, <2>1, <2>2 DEF releaseExpired
<1>7. ASSUME NEW i \in Ids, release(i) \/ releaseBarrier(i) PROVE NoLostWakeup'
  <2>1. CASE signal(i)
    BY <1>7, <2>1, SignalWakes DEF release, releaseBarrier
  <2>2. CASE UNCHANGED <<actives, woken, idleWait>>
    BY <1>7, <2>2, QuietWakes DEF release, releaseBarrier, clocks
  <2> QED BY <1>7, <2>1, <2>2 DEF release, releaseBarrier
<1>8. CASE WaitIdle \/ RecheckIdle \/ IdleTimeout \/ UNCHANGED vars
  BY <1>8, QuietWakes DEF WaitIdle, RecheckIdle, IdleTimeout, clocks, vars
<1> QED BY <1>1, <1>2, <1>3, <1>4, <1>5, <1>6, <1>7, <1>8 DEF Next

\* The three invariants together.
LEMMA ArbiterHolds == Spec => [](IInv /\ HolderInv /\ NoLostWakeup)
<1>1. Init => HolderInv /\ NoLostWakeup
  BY DEF Init, HolderInv, NoLostWakeup, holding, activeLeases
<1> QED BY <1>1, InitIInv, NextIInv, NextHolds, NextWakes, PTL DEF Spec

\* A request that could be granted has a wakeup pending.
THEOREM ArbiterNoLostWakeup == Spec => []NoLostWakeup
BY ArbiterHolds, PTL

-----------------------------------------------------------------------------
(* What no critical section does *)

\* Only an overdue lease is taken from a holder that has not released it.
THEOREM ArbiterTouchedLeaseKept == Spec => TouchedLeaseKept
<1> DEFINE Kept == \A t \in activeLeases :
                     t \notin activeLeases' => t.id \in overdue \/ phase'[t.id] = "released"
<1>1. ASSUME IInv, HolderInv, [Next]_vars
      PROVE  Kept \/ UNCHANGED vars
  <2>0. queue \in Seq(Ticket) /\ phase \in [Ids -> {"new", "waiting", "granted", "timedout", "released"}]
    BY <1>1 DEF IInv, TypeOK
  <2>1. ASSUME NEW q, NEW tk, canAcquire(q, tk), addActive(tk) PROVE activeLeases \subseteq activeLeases'
    BY <2>1 DEF canAcquire, canAcquireLease, canAcquireBarrier, addActive, activeLeases
  <2>2. ASSUME NEW i \in Ids, NEW r \in Requests[i], Submit(i, r) PROVE activeLeases \subseteq activeLeases'
    <3> DEFINE tk == newTicket(i, r)
               q  == Append(queue, tk)
    <3>1. CASE canAcquire(q, tk) /\ grant(q, Len(q))
      <4>1. q[Len(q)] = tk
        <5> HIDE DEF tk
        <5> QED BY <2>0
      <4> HIDE DEF tk, q
      <4> QED BY <2>1, <3>1, <4>1 DEF grant
    <3>2. CASE UNCHANGED actives
      BY <3>2 DEF actives, activeLeases
    <3> QED BY <2>2, <3>1, <3>2 DEF Submit
  <2>3. ASSUME NEW j \in 1..Len(queue), Recheck(j) \/ Timeout(j) \/ Age(j) PROVE activeLeases \subseteq activeLeases'
    <3>1. CASE canAcquire(queue, queue[j]) /\ grant(queue, j)
      BY <2>1, <3>1 DEF grant
    <3>2. CASE UNCHANGED actives
      BY <3>2 DEF actives, activeLeases
    <3> QED BY <2>3, <3>1, <3>2 DEF Recheck, Timeout, Age
  <2>4. ASSUME NEW i \in Ids, releaseExpired(i) PROVE Kept
    <3>1. CASE i \in overdue /\ removeActive(i)
      BY <3>1 DEF removeActive, activeLeases
    <3>2. CASE UNCHANGED actives
      BY <3>2 DEF actives, activeLeases
    <3> QED BY <2>4, <3>1, <3>2 DEF releaseExpired
  <2>5. ASSUME NEW i \in Ids, release(i) PROVE Kept
    <3>1. phase'[i] = "released"
      BY <2>0, <2>5 DEF release
    <3>2. CASE removeActive(i)
      BY <3>1, <3>2 DEF removeActive, activeLeases
    <3>3. CASE UNCHANGED actives
      BY <3>3 DEF actives, activeLeases
    <3> QED BY <2>5, <3>2, <3>3 DEF release
  <2>6. ASSUME NEW i \in Ids, TimerFires(i) \/ Touch(i) \/ releaseBarrier(i) PROVE activeLeases \subseteq activeLeases'
    BY <2>6 DEF TimerFires, Touch, releaseBarrier, actives, activeLeases
  <2>7. CASE WaitIdle \/ RecheckIdle \/ IdleTimeout
    BY <2>7 DEF WaitIdle, RecheckIdle, IdleTimeout, actives, activeLeases
  <2> QED BY <1>1, <2>2, <2>3, <2>4, <2>5, <2>6, <2>7 DEF Next
<1> QED BY <1>1, ArbiterHolds, PTL DEF Spec, TouchedLeaseKept

-----------------------------------------------------------------------------
(* The arbiter implements the access rules *)

\* The rules count as the arbiter does.
LEMMA AccessCounts == \A S : Access!Cardinality(S) = Cardinality(S)
BY DEF Cardinality, Access!Cardinality

\* What the admission tests let through is admissible by the rules.
LEMMA AdmitStep ==
  ASSUME IInv, HolderInv, NEW STATE q, q \in Seq(Ticket), NEW STATE j, j \in DOMAIN q,
         \A k, m \in DOMAIN q : q[k].id = q[m].id => k = m,
         q[j] \in Menu, phase[q[j].id] # "granted", canAcquire(q, q[j]), addActive(q[j])
  PROVE  Access!Admit(q[j])
<1> DEFINE tk == q[j]
<1>1. tk \in Ticket /\ holding' = holding \cup {tk}
  BY AddHolds
<1>2. tk \notin holding
  BY DEF HolderInv
<1>3. /\ \A h \in activeBarriers : h.leaseType = "barrier"
      /\ \A h \in activeLeases : h.leaseType # "barrier"
      /\ \A h \in activeSessions : h.leaseType = "session"
      /\ \A h \in activeTransports : h.leaseType = "transport"
      /\ \A h \in activeOneshot : h.leaseType = "oneshot"
  BY DEF IInv, TypeOK, activeLeases
<1> DEFINE sessions == {h \in activeLeases \cup activeBarriers : Access!IsSession(h)}
           windows  == {h \in activeLeases \cup activeBarriers : Access!IsQMIChannel(h)}
<1>4. sessions = activeSessions /\ windows = activeQMITransports
  BY <1>3 DEF activeLeases, activeQMITransports, Access!IsSession, Access!IsQMIChannel
<1> HIDE DEF sessions, windows
<1>5. CASE canAcquireBarrier(q, tk)
  <2>1. tk.leaseType = "barrier" /\ holding = activeBarriers
    BY <1>5 DEF canAcquireBarrier, holding, activeLeases
  <2> QED BY <1>1, <1>2, <1>3, <2>1
      DEF Access!Admit, Access!Admissible, holding, Access!Compatible, Access!IsBarrier,
          Access!IsSession, Access!IsQMIChannel
<1>6. CASE canAcquireLease(q, tk)
  <2>1. /\ tk.leaseType # "barrier" /\ activeOneshot = {}
        /\ \A b \in activeBarriers : tk.class \notin b.blocked
    BY <1>6 DEF canAcquireLease, isBlockedByActiveBarrier
  <2>2. CASE tk.leaseType = "session"
    <3>1. activeLeases = activeSessions /\ ~(Cardinality(activeSessions) >= MaxSessions)
      BY <1>6, <2>2 DEF canAcquireLease, activeLeases
    <3>2. \A h \in holding : Access!Compatible(tk, h)
      BY <1>3, <2>1, <2>2, <3>1 
         DEF holding, Access!Compatible, Access!IsBarrier, Access!IsSession, Access!IsQMIChannel
    <3>3. ~Access!Full(sessions, MaxSessions)
      BY <1>4, <3>1, AccessCounts DEF Access!Full
    <3>4. ~Access!IsBarrier(tk) /\ ~Access!IsQMIChannel(tk)
      BY <2>2 DEF Access!IsBarrier, Access!IsQMIChannel
    <3> QED BY <1>1, <1>2, <3>2, <3>3, <3>4
            DEF Access!Admit, Access!Admissible, holding, sessions
  <2>3. CASE tk.leaseType = "oneshot"
    <3>1. activeLeases = {}
      BY <1>6, <2>3 DEF canAcquireLease, activeLeases
    <3>2. \A h \in holding : Access!Compatible(tk, h)
      BY <1>3, <2>1, <2>3, <3>1 
         DEF holding, Access!Compatible, Access!IsBarrier, Access!IsSession, Access!IsQMIChannel
    <3> QED BY <1>1, <1>2, <2>3, <3>2
            DEF Access!Admit, Access!Admissible, holding, Access!IsBarrier, Access!IsSession,
                Access!IsQMIChannel
  <2>4. CASE tk.leaseType = "transport"
    <3>1. activeLeases = activeTransports /\ isSelectedTransport(q, tk)
      BY <1>6, <2>4 DEF canAcquireLease, activeLeases
    <3>2. canAcquireTransportNow(tk)
      BY <3>1 DEF isSelectedTransport, preferred, eligible
    <3>3. /\ \A t \in activeTransports :
               /\ tk.scope = "qmi_channel" /\ t.scope = "qmi_channel"
               /\ t.channel # tk.channel
          /\ tk.scope = "qmi_channel" => ~(Cardinality(activeQMITransports) >= MaxQMITransports)
      BY <3>2 DEF canAcquireTransportNow, hasActiveExclusiveTransport, qmiWindowFull,
                  activeQMITransports
    <3>4. \A h \in holding : Access!Compatible(tk, h)
      BY <1>3, <2>1, <2>4, <3>1, <3>3 
         DEF holding, Access!Compatible, Access!IsBarrier, Access!IsSession, Access!IsQMIChannel
    <3>5. Access!IsQMIChannel(tk) => ~Access!Full(windows, MaxQMITransports)
      BY <1>4, <3>3, AccessCounts DEF Access!Full, Access!IsQMIChannel
    <3>6. ~Access!IsBarrier(tk) /\ ~Access!IsSession(tk)
      BY <2>4 DEF Access!IsBarrier, Access!IsSession
    <3> QED BY <1>1, <1>2, <3>4, <3>5, <3>6
            DEF Access!Admit, Access!Admissible, holding, windows
  <2> QED BY <1>6, <2>2, <2>3, <2>4 DEF canAcquireLease
<1> QED BY <1>5, <1>6 DEF canAcquire

\* Every critical section admits one grant, drops one, or changes none.
LEMMA AccessStep ==
  ASSUME IInv, HolderInv, [Next]_vars
  PROVE  Access!Next \/ holding' = holding
<1>0. queue \in Seq(Ticket) /\ phase \in [Ids -> {"new", "waiting", "granted", "timedout", "released"}]
  BY DEF IInv, TypeOK
<1>a. ASSUME NEW g \in Menu, Access!Admit(g) \/ Access!Drop(g)
      PROVE  Access!Next
  BY <1>a DEF Access!Next, Menu
<1>1. ASSUME NEW i \in Ids, NEW r \in Requests[i], Submit(i, r)
      PROVE  Access!Next \/ holding' = holding
  <2> DEFINE tk == newTicket(i, r)
             q  == Append(queue, tk)
  <2>1. tk \in Ticket /\ tk.id = i /\ phase[i] = "new" /\ tk \in Menu
    BY <1>1, NewTicketType, ArbiterAssumption DEF Submit, ArbiterAssumption, Menu
  <2> HIDE DEF tk
  <2>2. /\ q \in Seq(Ticket) /\ Len(q) = Len(queue) + 1 /\ q[Len(q)] = tk
        /\ Len(q) \in DOMAIN q
        /\ \A k \in DOMAIN q : k # Len(q) => k \in DOMAIN queue /\ q[k] = queue[k]
    BY <1>0, <2>1
  <2>3. \A k, m \in DOMAIN q : q[k].id = q[m].id => k = m
    BY <2>1, <2>2 DEF IInv, QueueIdsUnique, QueueWaits
  <2>4. CASE canAcquire(q, tk) /\ grant(q, Len(q))
    <3> HIDE DEF q
    <3>1. Access!Admit(q[Len(q)])
      BY <2>1, <2>2, <2>3, <2>4, AdmitStep DEF grant
    <3> QED BY <1>a, <2>1, <2>2, <3>1
  <2>5. CASE UNCHANGED actives
    BY <2>5 DEF actives, holding, activeLeases
  <2> QED BY <1>1, <2>4, <2>5 DEF Submit, tk
<1>2. ASSUME NEW j \in 1..Len(queue), Recheck(j) \/ Timeout(j) \/ Age(j)
      PROVE  Access!Next \/ holding' = holding
  <2>1. CASE canAcquire(queue, queue[j]) /\ grant(queue, j)
    <3>1. Access!Admit(queue[j])
      BY <1>0, <2>1, AdmitStep DEF grant, HolderInv, IInv, QueueIdsUnique, QueueWaits
    <3> QED BY <1>0, <1>a, <3>1 DEF HolderInv
  <2>2. CASE UNCHANGED actives
    BY <2>2 DEF actives, holding, activeLeases
  <2> QED BY <1>2, <2>1, <2>2 DEF Recheck, Timeout, Age
<1>3. ASSUME NEW i \in Ids, releaseExpired(i) \/ release(i)
      PROVE  Access!Next \/ holding' = holding
  <2>1. CASE i \in leaseIds /\ removeActive(i)
    <3>1. PICK t \in activeLeases : holding' = holding \ {t}
      BY <2>1, RemoveHolds DEF IInv
    <3>2. t \in Menu /\ Access!Drop(t)
      BY <3>1 DEF HolderInv, holding, Access!Drop
    <3> QED BY <1>a, <3>2
  <2>2. CASE UNCHANGED actives
    BY <2>2 DEF actives, holding, activeLeases
  <2> QED BY <1>3, <2>1, <2>2 DEF releaseExpired, release
<1>4. ASSUME NEW i \in Ids, releaseBarrier(i) PROVE Access!Next
  <2>1. PICK b \in activeBarriers : b.id = i
    BY <1>4 DEF releaseBarrier, barrierIds
  <2>2. b \notin activeLeases
    BY DEF IInv, TypeOK, activeLeases
  <2>3. activeBarriers' = activeBarriers \ {b} /\ activeLeases' = activeLeases
    BY <1>4, <2>1 DEF releaseBarrier, HolderInv, holding, activeLeases
  <2>4. b \in Menu /\ Access!Drop(b)
    BY <2>2, <2>3 DEF HolderInv, holding, Access!Drop
  <2> QED BY <1>a, <2>4
<1>5. ASSUME NEW i \in Ids, TimerFires(i) \/ Touch(i) PROVE holding' = holding
  BY <1>5 DEF TimerFires, Touch, actives, holding, activeLeases
<1>6. CASE WaitIdle \/ RecheckIdle \/ IdleTimeout \/ UNCHANGED vars
  BY <1>6 DEF WaitIdle, RecheckIdle, IdleTimeout, vars, actives, holding, activeLeases
<1> QED BY <1>1, <1>2, <1>3, <1>4, <1>5, <1>6 DEF Next

\* The arbiter implements the access rules.
THEOREM ArbiterImplementsAccess == Spec => ImplementsAccess
<1>1. Init => Access!Init
  BY DEF Init, Access!Init, activeLeases
<1>2. IInv /\ HolderInv /\ [Next]_vars => [Access!Next]_(activeLeases \cup activeBarriers)
  BY AccessStep DEF holding
<1> QED BY <1>1, <1>2, ArbiterHolds, PTL DEF Spec, ImplementsAccess, Access!Spec
=============================================================================
