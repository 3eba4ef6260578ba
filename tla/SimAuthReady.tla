---------------------------- MODULE SimAuthReady ----------------------------
(***************************************************************************)
(* The SIM authentication readiness gate of the APDU arbiter,              *)
(* internal/apduarbiter/simauth_ready.go.                                  *)
(*                                                                         *)
(* Callers that need the SIM share one probe: the first to find the gate   *)
(* neither ready nor probing runs it without mu, the others sleep on its   *)
(* channel.  An invalidation (profile switch, modem reset) may arrive at   *)
(* any moment, also while the probe is out.  Each critical section of mu   *)
(* is one action.                                                          *)
(***************************************************************************)
EXTENDS Naturals, FiniteSets

CONSTANTS
  Callers,          \* goroutines that call WaitSIMAuthReady
  MaxGeneration,    \* bound on the number of invalidations
  NoChan            \* a nil channel

VARIABLES
  generation, ready, probing,   \* simAuthReadyState
  waitC,            \* the open channel, named by the caller that made it
  pc,               \* where each caller is
  sleepsOn,         \* the channel an asleep caller captured
  captured,         \* the generation a probing caller captured
  calledAt,         \* history: the generation when the call began
  provenFor         \* history: the generation of the latest accepted probe

gate == <<generation, ready, probing, waitC>>
vars == <<gate, pc, sleepsOn, captured, calledAt, provenFor>>

ASSUME GateAssumption == NoChan \notin Callers /\ MaxGeneration \in Nat

Init ==
  /\ generation = 0 /\ ready = FALSE /\ probing = FALSE /\ waitC = NoChan
  /\ pc = [c \in Callers |-> "idle"]
  /\ sleepsOn = [c \in Callers |-> NoChan]
  /\ captured = [c \in Callers |-> 0]
  /\ calledAt = [c \in Callers |-> 0]
  /\ provenFor = 0

-----------------------------------------------------------------------------
\* A probe that is out stays out: probing and waitC are left alone.
InvalidateSIMAuthReady ==
  /\ generation < MaxGeneration
  /\ generation' = generation + 1
  /\ ready' = FALSE
  /\ UNCHANGED <<probing, waitC, pc, sleepsOn, captured, calledAt, provenFor>>

Call(c) ==
  /\ pc[c] = "idle"
  /\ pc' = [pc EXCEPT ![c] = "looping"]
  /\ calledAt' = [calledAt EXCEPT ![c] = generation]
  /\ UNCHANGED <<gate, sleepsOn, captured, provenFor>>

FindReady(c) ==
  /\ pc[c] = "looping" /\ ready
  /\ pc' = [pc EXCEPT ![c] = "ok"]
  /\ UNCHANGED <<gate, sleepsOn, captured, calledAt, provenFor>>

FindProbing(c) ==
  /\ pc[c] = "looping" /\ ~ready /\ probing
  /\ waitC' = IF waitC = NoChan THEN c ELSE waitC
  /\ sleepsOn' = [sleepsOn EXCEPT ![c] = waitC']
  /\ pc' = [pc EXCEPT ![c] = "asleep"]
  /\ UNCHANGED <<generation, ready, probing, captured, calledAt, provenFor>>

StartProbe(c) ==
  /\ pc[c] = "looping" /\ ~ready /\ ~probing
  /\ probing' = TRUE
  /\ waitC' = c
  /\ captured' = [captured EXCEPT ![c] = generation]
  /\ pc' = [pc EXCEPT ![c] = "probing"]
  /\ UNCHANGED <<generation, ready, sleepsOn, calledAt, provenFor>>

\* mutant: the prober trusts its own stale result
wakeAndReturnStale(c, ok, stale) ==
  pc' = [x \in Callers |->
           IF x = c THEN (IF ~ok THEN "failed" ELSE "ok")
           ELSE IF pc[x] = "asleep" /\ sleepsOn[x] = c /\ waitC = c
           THEN "looping" ELSE pc[x]]

\* close(waitC) sends everyone who sleeps on it back to the loop; the prober itself
\* fails, loops because its result is stale, or succeeds.
wakeAndReturn(c, ok, stale) ==
  pc' = [x \in Callers |->
           IF x = c THEN (IF ~ok THEN "failed" ELSE IF stale THEN "looping" ELSE "ok")
           ELSE IF pc[x] = "asleep" /\ sleepsOn[x] = c /\ waitC = c
           THEN "looping" ELSE pc[x]]

\* mutant: a result is accepted without comparing generations
ProbeReturnsUnchecked(c, ok) ==
  /\ pc[c] = "probing"
  /\ ready' = ok
  /\ provenFor' = IF ok THEN captured[c] ELSE provenFor
  /\ waitC' = IF waitC = c THEN NoChan ELSE waitC
  /\ probing' = FALSE
  /\ wakeAndReturn(c, ok, FALSE)
  /\ UNCHANGED <<generation, sleepsOn, captured, calledAt>>

\* mutant: a failed probe leaves its waiters to themselves
ProbeReturnsSilently(c, ok) ==
  LET stale == generation # captured[c]
  IN  /\ pc[c] = "probing"
      /\ ready' = IF stale THEN ready ELSE ok
      /\ provenFor' = IF ok /\ ~stale THEN captured[c] ELSE provenFor
      /\ probing' = FALSE
      /\ \/ ok /\ wakeAndReturn(c, ok, stale) /\ waitC' = IF waitC = c THEN NoChan ELSE waitC
         \/ ~ok /\ pc' = [pc EXCEPT ![c] = "failed"] /\ waitC' = waitC
      /\ UNCHANGED <<generation, sleepsOn, captured, calledAt>>

ProbeReturns(c, ok) ==
  LET stale == generation # captured[c]
  IN  /\ pc[c] = "probing"
      /\ ready' = IF stale THEN ready ELSE ok
      /\ provenFor' = IF ok /\ ~stale THEN captured[c] ELSE provenFor
      /\ waitC' = IF waitC = c THEN NoChan ELSE waitC
      /\ probing' = FALSE
      /\ wakeAndReturn(c, ok, stale)
      /\ UNCHANGED <<generation, sleepsOn, captured, calledAt>>

\* ctx.Err() at the head of the loop, or ctx.Done() while asleep.
CtxDone(c) ==
  /\ pc[c] \in {"looping", "asleep"}
  /\ pc' = [pc EXCEPT ![c] = "failed"]
  /\ UNCHANGED <<gate, sleepsOn, captured, calledAt, provenFor>>

\* The caller goes on and may call again.
Leave(c) ==
  /\ pc[c] \in {"ok", "failed"}
  /\ pc' = [pc EXCEPT ![c] = "idle"]
  /\ UNCHANGED <<gate, sleepsOn, captured, calledAt, provenFor>>

step(c) ==
  \/ FindReady(c) \/ FindProbing(c) \/ StartProbe(c)
  \/ \E ok \in BOOLEAN : ProbeReturns(c, ok)

Next ==
  \/ InvalidateSIMAuthReady
  \/ \E c \in Callers : Call(c) \/ step(c) \/ CtxDone(c) \/ Leave(c)

Spec == Init /\ [][Next]_vars

\* A probe ends (it takes a ctx) and a runnable goroutine runs.
FairSpec == Spec /\ \A c \in Callers : WF_vars(step(c))

-----------------------------------------------------------------------------
(* The fields of simAuthReadyState and the callers keep their types. *)
TypeOK ==
  /\ generation \in 0..MaxGeneration /\ ready \in BOOLEAN /\ probing \in BOOLEAN
  /\ waitC \in Callers \cup {NoChan}
  /\ pc \in [Callers -> {"idle", "looping", "asleep", "probing", "ok", "failed"}]
  /\ sleepsOn \in [Callers -> Callers \cup {NoChan}]
  /\ captured \in [Callers -> 0..MaxGeneration]
  /\ calledAt \in [Callers -> 0..MaxGeneration]
  /\ provenFor \in 0..MaxGeneration

(***************************************************************************)
(* One probe at a time, and it owns the open channel: the card never sees  *)
(* two readiness probes at once, and every sleeper sleeps on the channel   *)
(* of the probe that is out, so that its end wakes all of them.            *)
(***************************************************************************)
SingleProbe ==
  /\ \A c \in Callers : pc[c] = "probing" => probing /\ waitC = c
  /\ \A c \in Callers : pc[c] = "asleep" =>
       \E p \in Callers : pc[p] = "probing" /\ sleepsOn[c] = p

(***************************************************************************)
(* The gate is open only on the word of a probe that began after the last  *)
(* invalidation: a result that was on its way when the profile was         *)
(* switched does not open it (the stale test of WaitSIMAuthReady).         *)
(***************************************************************************)
ReadyIsFresh == ready => provenFor = generation

(***************************************************************************)
(* A caller that is let through relies on a probe that began after every   *)
(* invalidation that preceded its own call.                                *)
(***************************************************************************)
SuccessIsFresh == \A c \in Callers : pc[c] = "ok" => provenFor >= calledAt[c]

\* Callers do not keep coming back for ever.
NewCallsStop == <>[][\A c \in Callers : ~Call(c)]_vars

(***************************************************************************)
(* WaitSIMAuthReady returns without its ctx having to expire: no caller    *)
(* sleeps on a channel nobody closes, and probing again for a stale result *)
(* ends with the invalidations.  Only callers that keep coming back to     *)
(* failing probes could overtake a waiter for ever.                        *)
(***************************************************************************)
CallsReturn ==
  NewCallsStop => \A c \in Callers : pc[c] = "looping" ~> pc[c] \in {"ok", "failed"}
=============================================================================
