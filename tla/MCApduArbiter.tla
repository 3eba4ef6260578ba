--------------------------- MODULE MCApduArbiter ---------------------------
(* Menus of calls and symmetry for model-checking ApduArbiter. *)
EXTENDS ApduArbiter, TLC

CONSTANTS i1, i2, i3

\* One call for each admission path: the legacy session and oneshot, the two
\* exclusive transports of production, QMI transports of two logical channels,
\* the eSIM switch barrier.
Call(type, class, mode, channel, scope, blocked) ==
  [leaseType |-> type, class |-> class, mode |-> mode,
   channel |-> channel, scope |-> scope, blocked |-> blocked]

Session == Call("session", "", "AT", 0, "exclusive", {})
OneShot == Call("oneshot", "", "AT", 0, "exclusive", {})
EUICC   == Call("transport", "EUICCWrite", "QMI", 0, "exclusive", {})
AKA     == Call("transport", "USIMAKA", "QMI", 0, "exclusive", {})
QMI1    == Call("transport", "EUICCRead", "QMI", 1, "qmi_channel", {})
QMI2    == Call("transport", "SMSC", "QMI", 2, "qmi_channel", {})
QMI3    == Call("transport", "EUICCRead", "QMI", 3, "qmi_channel", {})
ATChannel == Call("transport", "", "AT", 2, "qmi_channel", {})
SwitchBarrier == Call("barrier", "", "QMI", 0, "exclusive", {})
WriteBarrier  == Call("barrier", "Recovery", "QMI", 0, "exclusive", {"EUICCWrite", ""})

AnyOf(menu) == [i \in Ids |-> menu]

AllCalls == AnyOf({Session, OneShot, EUICC, AKA, QMI1, QMI2, QMI3, ATChannel,
                   SwitchBarrier, WriteBarrier})

\* A holder, an eSIM transport and an authentication.
MixedPriorities == i1 :> {EUICC} @@ i2 :> {EUICC} @@ i3 :> {AKA}

\* A switch barrier and its holder's transport, or a card that is not switched
\* at all, with whatever else queues meanwhile.
LiveCalls == i1 :> {SwitchBarrier, Session, OneShot} @@ i2 :> {EUICC, QMI1, OneShot, AKA}
               @@ i3 :> {AKA, QMI2, Session, SwitchBarrier, WriteBarrier}

SymIds == Permutations(Ids)
=============================================================================
