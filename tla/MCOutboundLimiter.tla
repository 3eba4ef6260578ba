------------------------- MODULE MCOutboundLimiter -------------------------
(***************************************************************************)
(* A small instance of OutboundLimiter: a generous limit and a tight one.  *)
(***************************************************************************)
EXTENDS OutboundLimiter, TLC

Generous == [interval |-> 1, perHour |-> 3, perDay |-> 4, disabled |-> FALSE]
Tight == [interval |-> 2, perHour |-> 2, perDay |-> 4, disabled |-> FALSE]
Off == [Generous EXCEPT !.disabled = TRUE]

MCLimits == {Generous, Tight, Off}

CallerSymmetry == Permutations(Callers)
=============================================================================
