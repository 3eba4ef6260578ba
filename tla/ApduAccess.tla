----------------------------- MODULE ApduAccess -----------------------------
(***************************************************************************)
(* What the APDU arbiter promises to the modem: which grants may be in     *)
(* force together.  It says nothing about queues, priorities, timers or    *)
(* wakeups; ApduArbiter is shown to implement it.                          *)
(*                                                                         *)
(* A grant is a record with the fields leaseType, class, channel, scope    *)
(* and blocked (empty unless the grant is a barrier).                      *)
(***************************************************************************)
EXTENDS Naturals, FiniteSets

CONSTANTS
  Grants,            \* every grant that can be asked for
  MaxSessions,       \* Options.MaxSessions
  MaxQMITransports   \* Options.MaxQMITransports

VARIABLE holders     \* the grants in force

IsBarrier(g)    == g.leaseType = "barrier"
IsQMIChannel(g) == g.leaseType = "transport" /\ g.scope = "qmi_channel"
IsSession(g)    == g.leaseType = "session"

(***************************************************************************)
(* Two leases share the card only if both are legacy sessions or both are  *)
(* QMI transports of different logical channels.  A barrier shuts out the  *)
(* classes it blocks and is indifferent to other barriers.                 *)
(***************************************************************************)
Compatible(g, h) ==
  \/ IsBarrier(g) /\ IsBarrier(h)
  \/ IsBarrier(g) /\ ~IsBarrier(h) /\ h.class \notin g.blocked
  \/ ~IsBarrier(g) /\ IsBarrier(h) /\ g.class \notin h.blocked
  \/ IsSession(g) /\ IsSession(h)
  \/ IsQMIChannel(g) /\ IsQMIChannel(h) /\ g.channel # h.channel

Full(S, bound) == Cardinality(S) >= bound

(***************************************************************************)
(* A barrier is raised only over a silent card: its holder may rely on no  *)
(* lease of any class being in flight at that moment.                      *)
(***************************************************************************)
Admissible(g) ==
  /\ \A h \in holders : Compatible(g, h)
  /\ IsBarrier(g) => \A h \in holders : IsBarrier(h)
  /\ IsSession(g) => ~Full({h \in holders : IsSession(h)}, MaxSessions)
  /\ IsQMIChannel(g) => ~Full({h \in holders : IsQMIChannel(h)}, MaxQMITransports)

Init == holders = {}

Admit(g) == g \notin holders /\ Admissible(g) /\ holders' = holders \cup {g}

Drop(g) == g \in holders /\ holders' = holders \ {g}

Next == \E g \in Grants : Admit(g) \/ Drop(g)

Spec == Init /\ [][Next]_holders
=============================================================================
