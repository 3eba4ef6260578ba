------------------------- MODULE SimAuthReadyProofs -------------------------
(***************************************************************************)
(* The readiness gate for every number of callers and invalidations.  The  *)
(* invariant adds that a raised probing flag has a prober behind it, and   *)
(* that no generation on record is ahead of the current one.               *)
(***************************************************************************)
EXTENDS SimAuthReady, TLAPS

ProbingHasProber == probing => \E p \in Callers : pc[p] = "probing"

NoneAhead == provenFor <= generation /\ \A c \in Callers : calledAt[c] <= generation

IInv ==
  TypeOK /\ SingleProbe /\ ProbingHasProber /\ NoneAhead /\ ReadyIsFresh /\ SuccessIsFresh

\* A new arbiter satisfies the invariant.
LEMMA InitIInv == Init => IInv
<1> SUFFICES ASSUME Init PROVE IInv
  OBVIOUS
<1>1. TypeOK
  <2>1. ready \in BOOLEAN /\ probing \in BOOLEAN
    BY Zenon DEF Init
  <2>2. generation = 0 /\ provenFor = 0 /\ 0 \in 0..MaxGeneration
    BY GateAssumption DEF GateAssumption, Init
  <2>3. captured \in [Callers -> 0..MaxGeneration] /\ calledAt \in [Callers -> 0..MaxGeneration]
    BY <2>2, Zenon DEF Init
  <2>4. /\ waitC \in Callers \cup {NoChan} /\ sleepsOn \in [Callers -> Callers \cup {NoChan}]
        /\ pc \in [Callers -> {"idle", "looping", "asleep", "probing", "ok", "failed"}]
    BY Zenon DEF Init
  <2> QED BY <2>1, <2>2, <2>3, <2>4, Zenon DEF TypeOK
<1>2. SingleProbe /\ ProbingHasProber
  BY DEF Init, SingleProbe, ProbingHasProber
<1>3. NoneAhead /\ ReadyIsFresh /\ SuccessIsFresh
  BY DEF Init, NoneAhead, ReadyIsFresh, SuccessIsFresh
<1> QED BY <1>1, <1>2, <1>3 DEF IInv

\* The end of the probe: nobody is left asleep, and the result counts only if it
\* belongs to the current generation.
LEMMA ProbeReturnsIInv ==
  ASSUME IInv, NEW c \in Callers, NEW ok \in BOOLEAN, ProbeReturns(c, ok)
  PROVE  IInv'
<1> USE GateAssumption DEF GateAssumption, IInv
<1> DEFINE stale == generation # captured[c]
<1>0. /\ pc[c] = "probing" /\ waitC = c /\ waitC' = NoChan /\ probing' = FALSE
      /\ UNCHANGED <<generation, sleepsOn, captured, calledAt>>
      /\ wakeAndReturn(c, ok, stale)
      /\ ready' = (IF stale THEN ready ELSE ok)
      /\ provenFor' = IF ok /\ ~stale THEN captured[c] ELSE provenFor
  BY DEF ProbeReturns, SingleProbe
<1>1. \A x \in Callers : /\ x # c => pc[x] # "probing"
                         /\ pc[x] = "asleep" => sleepsOn[x] = c
  BY <1>0 DEF SingleProbe
<1>2. \A x \in Callers :
         pc'[x] = IF x = c THEN (IF ~ok THEN "failed" ELSE IF stale THEN "looping" ELSE "ok")
                  ELSE IF pc[x] = "asleep" THEN "looping" ELSE pc[x]
  BY <1>0, <1>1 DEF wakeAndReturn, SingleProbe
<1>3. TypeOK'
  BY <1>0, <1>2 DEF TypeOK, wakeAndReturn
<1>4. SingleProbe' /\ ProbingHasProber'
  BY <1>0, <1>1, <1>2 DEF SingleProbe, ProbingHasProber, TypeOK
<1>5. NoneAhead'
  BY <1>0 DEF NoneAhead, TypeOK
<1>6. ReadyIsFresh'
  BY <1>0 DEF ReadyIsFresh, TypeOK
<1>7. SuccessIsFresh'
  <2> SUFFICES ASSUME NEW x \in Callers, pc'[x] = "ok"
               PROVE  provenFor' >= calledAt[x]
    BY <1>0 DEF SuccessIsFresh
  <2>1. CASE x = c
    BY <1>0, <1>2, <2>1 DEF NoneAhead, TypeOK
  <2>2. CASE x # c
    BY <1>0, <1>2, <2>2 DEF NoneAhead, SuccessIsFresh, TypeOK
  <2> QED BY <2>1, <2>2
<1> QED BY <1>3, <1>4, <1>5, <1>6, <1>7

\* Every critical section preserves the invariant.
LEMMA NextIInv ==
  ASSUME IInv, [Next]_vars
  PROVE  IInv'
<1> USE GateAssumption DEF GateAssumption, IInv
<1>1. CASE InvalidateSIMAuthReady
  <2>1. TypeOK'
    <3>1. generation' \in 0..MaxGeneration
      BY <1>1 DEF InvalidateSIMAuthReady, TypeOK
    <3>2. ready' \in BOOLEAN
      BY <1>1, Zenon DEF InvalidateSIMAuthReady
    <3> QED BY <1>1, <3>1, <3>2, Zenon DEF InvalidateSIMAuthReady, TypeOK
  <2>2. SingleProbe' /\ ProbingHasProber'
    BY <1>1 DEF InvalidateSIMAuthReady, SingleProbe, ProbingHasProber
  <2>3. NoneAhead' /\ ReadyIsFresh' /\ SuccessIsFresh'
    BY <1>1 DEF InvalidateSIMAuthReady, TypeOK, NoneAhead, ReadyIsFresh, SuccessIsFresh
  <2> QED BY <2>1, <2>2, <2>3
<1>2. ASSUME NEW c \in Callers, Call(c) PROVE IInv'
  BY <1>2 DEF Call, gate, TypeOK, SingleProbe, ProbingHasProber,
              NoneAhead, ReadyIsFresh, SuccessIsFresh
<1>3. ASSUME NEW c \in Callers, FindReady(c) PROVE IInv'
  BY <1>3 DEF FindReady, gate, TypeOK, SingleProbe, ProbingHasProber,
              NoneAhead, ReadyIsFresh, SuccessIsFresh
<1>4. ASSUME NEW c \in Callers, FindProbing(c) PROVE IInv'
  <2>1. PICK p \in Callers : pc[p] = "probing" /\ waitC = p /\ p # NoChan
    BY <1>4 DEF FindProbing, SingleProbe, ProbingHasProber
  <2>2. waitC' = p /\ sleepsOn' = [sleepsOn EXCEPT ![c] = p]
    BY <1>4, <2>1 DEF FindProbing
  <2> QED BY <1>4, <2>1, <2>2 DEF FindProbing, TypeOK, SingleProbe, ProbingHasProber,
              NoneAhead, ReadyIsFresh, SuccessIsFresh
<1>5. ASSUME NEW c \in Callers, StartProbe(c) PROVE IInv'
  BY <1>5 DEF StartProbe, TypeOK, SingleProbe, ProbingHasProber,
              NoneAhead, ReadyIsFresh, SuccessIsFresh
<1>6. ASSUME NEW c \in Callers, NEW ok \in BOOLEAN, ProbeReturns(c, ok) PROVE IInv'
  BY <1>6, ProbeReturnsIInv
<1>7. ASSUME NEW c \in Callers, CtxDone(c) PROVE IInv'
  BY <1>7 DEF CtxDone, gate, TypeOK, SingleProbe, ProbingHasProber,
              NoneAhead, ReadyIsFresh, SuccessIsFresh
<1>8. ASSUME NEW c \in Callers, Leave(c) PROVE IInv'
  BY <1>8 DEF Leave, gate, TypeOK, SingleProbe, ProbingHasProber,
              NoneAhead, ReadyIsFresh, SuccessIsFresh
<1>9. CASE UNCHANGED vars
  BY <1>9 DEF vars, gate, TypeOK, SingleProbe, ProbingHasProber,
              NoneAhead, ReadyIsFresh, SuccessIsFresh
<1> QED
  BY <1>1, <1>2, <1>3, <1>4, <1>5, <1>6, <1>7, <1>8, <1>9 DEF Next, step

\* The inductive invariant of the gate.
THEOREM GateInvariant == Spec => []IInv
BY InitIInv, NextIInv, PTL DEF Spec

\* One probe at a time, and its end wakes every sleeper.
THEOREM GateSingleProbe == Spec => []SingleProbe
<1>1. IInv => SingleProbe
  BY DEF IInv
<1> QED BY <1>1, GateInvariant, PTL

\* The gate opens only for a probe begun after the last invalidation.
THEOREM GateReadyIsFresh == Spec => []ReadyIsFresh
<1>1. IInv => ReadyIsFresh
  BY DEF IInv
<1> QED BY <1>1, GateInvariant, PTL

\* A caller is let through only by a probe begun after every invalidation that
\* preceded its call.
THEOREM GateSuccessIsFresh == Spec => []SuccessIsFresh
<1>1. IInv => SuccessIsFresh
  BY DEF IInv
<1> QED BY <1>1, GateInvariant, PTL
=============================================================================
