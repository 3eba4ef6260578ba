----------------------- MODULE OutboundLimiterProofs -----------------------
(***************************************************************************)
(* Proofs about OutboundLimiter, for any windows, limits, sizes and        *)
(* callers and however long it runs: no rolling window is exceeded, and    *)
(* the wait that a refused caller is told is exact.                        *)
(*                                                                         *)
(* Both rest on the minimum interval: because every limit has one, a       *)
(* history is in order of time, so that what a window counts, what the     *)
(* pruning keeps and what the deadline frees are all tails of the list.    *)
(***************************************************************************)
EXTENDS OutboundLimiter, WellFoundedInduction, FiniteSetTheorems, TLAPS

-----------------------------------------------------------------------------
(* Counting *)

\* A set of numbers that is not empty has a least one.
LEMMA LeastNumber ==
  ASSUME NEW T, T \subseteq Nat, T # {}
  PROVE  \E n \in T : \A m \in T : n <= m
<1>1. PICK n \in T : \A m \in T : ~ (<<m, n>> \in OpToRel(<, Nat))
  BY NatLessThanWellFounded, WFMin
<1>2. \A m \in T : ~(m < n)
  BY <1>1 DEF OpToRel
<1> QED BY <1>2

\* Counting up reaches every number.
LEMMA CountUp ==
  ASSUME NEW N \in Nat, NEW T, 0 \in T, \A n \in 1 .. N : n - 1 \in T => n \in T
  PROVE  0 .. N \subseteq T
<1> DEFINE Missing == (0 .. N) \ T
<1> SUFFICES ASSUME Missing # {} PROVE FALSE
  OBVIOUS
<1>0. Missing \subseteq Nat
  OBVIOUS
<1>1. PICK n \in Missing : \A m \in Missing : n <= m
  <2> HIDE DEF Missing
  <2> QED BY <1>0, LeastNumber
<1>2. n \in 1 .. N /\ n - 1 \in 0 .. N /\ n - 1 \notin Missing
  BY <1>1
<1> QED BY <1>1, <1>2

-----------------------------------------------------------------------------
(* Sums of units *)

\* A list of events or attempts.
Measured(e) == Len(e) \in Nat /\ DOMAIN e = 1 .. Len(e) /\ \A n \in DOMAIN e : e[n].units \in Nat

\* The loop adds up what it is defined to.
LEMMA SumsDef ==
  ASSUME NEW e, NEW S, Measured(e)
  PROVE  /\ Sums(e, S)[0] = 0
         /\ \A n \in 1 .. Len(e) : Sums(e, S)[n] = Sums(e, S)[n - 1] + (IF n \in S THEN e[n].units ELSE 0)
         /\ \A n \in 0 .. Len(e) : Sums(e, S)[n] \in Nat
<1> DEFINE N == Len(e)
           g(n) == IF n \in S THEN e[n].units ELSE 0
           Good(f, m) == /\ f \in [0 .. m -> Nat] /\ f[0] = 0
                         /\ \A n \in 1 .. m : f[n] = f[n - 1] + g(n)
           T == {m \in 0 .. N : \E f : Good(f, m)}
<1>0. N \in Nat /\ \A n \in 1 .. N : g(n) \in Nat
  BY DEF Measured
<1> HIDE DEF g, N
<1>1. 0 \in T
  <2>1. Good([n \in 0 .. 0 |-> 0], 0)
    OBVIOUS
  <2>2. \E f : Good(f, 0)
    <3> HIDE DEF Good
    <3> QED BY <2>1
  <2> HIDE DEF Good
  <2> QED BY <1>0, <2>2
<1>2. ASSUME NEW m \in 1 .. N, m - 1 \in T PROVE m \in T
  <2>1. PICK f : Good(f, m - 1)
    BY <1>2
  <2>2. Good([n \in 0 .. m |-> IF n = m THEN f[m - 1] + g(m) ELSE f[n]], m)
    BY <1>0, <2>1
  <2>3. \E h : Good(h, m)
    <3> HIDE DEF Good
    <3> QED BY <2>2
  <2> HIDE DEF Good
  <2> QED BY <1>0, <2>3
<1>3. N \in T
  <2> HIDE DEF T
  <2>1. 0 .. N \subseteq T
    BY <1>0, <1>1, <1>2, CountUp
  <2> QED BY <1>0, <2>1
<1>4. PICK f : Good(f, N)
  BY <1>3
<1> DEFINE body(h) == [n \in 0 .. N |-> IF n = 0 THEN 0 ELSE h[n - 1] + g(n)]
<1>5. f = body(f)
  BY <1>0, <1>4
<1>6. Sums(e, S) = CHOOSE h : h = body(h)
  BY DEF Sums, g, N
<1> DEFINE F == Sums(e, S)
<1> HIDE DEF F
<1>7. F = body(F)
  BY <1>5, <1>6 DEF F
<1>8. F[0] = 0 /\ \A n \in 1 .. N : F[n] = F[n - 1] + g(n)
  BY <1>0, <1>7
<1>9. 0 .. N \subseteq {n \in 0 .. N : F[n] \in Nat}
  <2> DEFINE U == {n \in 0 .. N : F[n] \in Nat}
  <2>1. 0 \in U /\ \A n \in 1 .. N : n - 1 \in U => n \in U
    BY <1>0, <1>8
  <2> HIDE DEF U
  <2>2. 0 .. N \subseteq U
    BY <1>0, <2>1, CountUp
  <2> QED BY <2>2 DEF U
<1> QED BY <1>8, <1>9 DEF F, g, N

\* Nothing is taken back from a sum.
LEMMA SumsRise ==
  ASSUME NEW e, NEW S, Measured(e), NEW n \in 0 .. Len(e)
  PROVE  Sums(e, S)[n] <= Total(e, S)
<1> DEFINE N == Len(e)
           F == Sums(e, S)
           T == {m \in 0 .. N - n : F[n] <= F[n + m]}
<1>0. N \in Nat /\ n \in 0 .. N /\ \A m \in 0 .. N : F[m] \in Nat
  BY SumsDef DEF Measured
<1>1. \A m \in 1 .. N : F[m - 1] <= F[m]
  <2>1. ASSUME NEW m \in 1 .. N PROVE F[m - 1] <= F[m]
    <3>1. F[m] = F[m - 1] + (IF m \in S THEN e[m].units ELSE 0)
      BY SumsDef
    <3>2. e[m].units \in Nat
      BY DEF Measured
    <3>3. F[m - 1] \in Nat
      BY <1>0
    <3> HIDE DEF F
    <3> QED BY <3>1, <3>2, <3>3
  <2> QED BY <2>1
<1> HIDE DEF F, N
<1>2. 0 \in T
  BY <1>0
<1>3. ASSUME NEW m \in 1 .. N - n, m - 1 \in T PROVE m \in T
  <2>1. n + m \in 1 .. N /\ n + (m - 1) = (n + m) - 1 /\ (n + m) - 1 \in 0 .. N
    BY <1>0
  <2> QED BY <1>0, <1>1, <1>3, <2>1
<1>4. N - n \in T
  <2> HIDE DEF T
  <2>1. N - n \in Nat
    BY <1>0
  <2>2. 0 .. N - n \subseteq T
    BY <2>1, <1>2, <1>3, CountUp
  <2> QED BY <2>1, <2>2
<1> QED BY <1>0, <1>4 DEF F, N, Total

\* What the first entries of a list carry is no more than what another list carries
\* that has all of it, shifted by some number of places.
LEMMA Shift ==
  ASSUME NEW e, NEW f, NEW S, NEW R, Measured(e), Measured(f),
         NEW d \in Int, NEW N \in 0 .. Len(e),
         \A n \in 1 .. N : n \in S => d + n \in DOMAIN f /\ d + n \in R /\ f[d + n].units = e[n].units
  PROVE  Sums(e, S)[N] <= Total(f, R)
<1> DEFINE K == Len(f)
           A == Sums(e, S)
           B == Sums(f, R)
           at(n) == IF d + n < 0 THEN 0 ELSE IF d + n > K THEN K ELSE d + n
           T == {n \in 0 .. N : A[n] <= B[at(n)]}
<1>0. K \in Nat /\ N \in Nat /\ N <= Len(e) /\ Len(e) \in Nat
  BY DEF Measured
<1>1. /\ A[0] = 0 /\ \A n \in 0 .. N : A[n] \in Nat
      /\ \A n \in 1 .. N : A[n] = A[n - 1] + (IF n \in S THEN e[n].units ELSE 0)
  BY <1>0, SumsDef
<1>2. /\ B[0] = 0 /\ \A n \in 0 .. K : B[n] \in Nat
      /\ \A n \in 1 .. K : B[n] = B[n - 1] + (IF n \in R THEN f[n].units ELSE 0)
  BY SumsDef
<1>3. /\ \A n \in 1 .. N : e[n].units \in Nat
      /\ \A n \in 1 .. K : f[n].units \in Nat
      /\ \A n \in 1 .. N : n \in S => d + n \in 1 .. K /\ d + n \in R /\ f[d + n].units = e[n].units
  BY <1>0 DEF Measured
<1>4. \A n \in 0 .. N : at(n) \in 0 .. K
  BY <1>0
<1> HIDE DEF A, B, K
<1>5. 0 \in T
  BY <1>0, <1>1, <1>2, <1>4
<1>6. ASSUME NEW n \in 1 .. N, n - 1 \in T PROVE n \in T
  <2>1. A[n - 1] <= B[at(n - 1)] /\ n - 1 \in 0 .. N /\ n \in 0 .. N
    BY <1>0, <1>6
  <2>2. CASE n \in S
    <3>1. at(n) = d + n /\ at(n - 1) = (d + n) - 1 /\ d + n \in 1 .. K
      BY <1>0, <1>3, <2>2
    <3>2. B[d + n] = B[(d + n) - 1] + e[n].units
      BY <1>2, <1>3, <2>2, <3>1
    <3>3. A[n] = A[n - 1] + e[n].units
      BY <1>1, <2>2
    <3>4. A[n - 1] \in Nat /\ B[(d + n) - 1] \in Nat /\ e[n].units \in Nat
      <4>1. (d + n) - 1 \in 0 .. K
        BY <1>0, <3>1
      <4> QED BY <1>1, <1>2, <1>3, <2>1, <4>1
    <3>5. A[n] <= B[at(n)]
      <4> HIDE DEF at
      <4> QED BY <2>1, <3>1, <3>2, <3>3, <3>4
    <3> QED BY <2>1, <3>5
  <2>3. CASE n \notin S
    <3>1. A[n] = A[n - 1] /\ A[n] \in Nat
      BY <1>1, <2>1, <2>3
    <3>2. at(n) = at(n - 1) \/ (at(n) \in 1 .. K /\ at(n - 1) = at(n) - 1)
      BY <1>0
    <3>3. B[at(n - 1)] <= B[at(n)]
      <4>1. at(n) \in 0 .. K /\ at(n - 1) \in 0 .. K
        BY <1>4, <2>1
      <4> HIDE DEF at
      <4>2. ASSUME NEW m \in 1 .. K PROVE B[m - 1] <= B[m]
        <5>1. B[m] = B[m - 1] + (IF m \in R THEN f[m].units ELSE 0) /\ f[m].units \in Nat
          BY <1>2, <1>3
        <5>2. m - 1 \in 0 .. K /\ B[m - 1] \in Nat
          BY <1>0, <1>2
        <5> QED BY <5>1, <5>2
      <4> QED BY <1>2, <3>2, <4>1, <4>2
    <3>4. B[at(n - 1)] \in Nat /\ B[at(n)] \in Nat
      BY <1>2, <1>4, <2>1
    <3>5. A[n] <= B[at(n)]
      <4> HIDE DEF at
      <4> QED BY <2>1, <3>1, <3>3, <3>4
    <3> QED BY <2>1, <3>5
  <2> QED BY <2>2, <2>3
<1>7. A[N] <= B[at(N)]
  <2>1. 0 .. N \subseteq T
    <3> HIDE DEF T
    <3> QED BY <1>0, <1>5, <1>6, CountUp
  <2> QED BY <1>0, <2>1
<1>8. B[at(N)] <= Total(f, R)
  BY <1>0, <1>4, SumsRise DEF B, K
<1>9. A[N] \in Nat /\ B[at(N)] \in Nat /\ Total(f, R) \in Nat
  BY <1>0, <1>1, <1>2, <1>4 DEF Total, B, K
<1> QED BY <1>7, <1>8, <1>9 DEF A

-----------------------------------------------------------------------------
(* Histories in order of time *)

Rising(e) == \A i, j \in DOMAIN e : i < j => e[i].at < e[j].at
Ordered(e) == e \in Seq(Events) /\ Rising(e)

\* An ordered history can be measured.
LEMMA OrderedMeasured ==
  ASSUME NEW e \in Seq(Events)
  PROVE  /\ Measured(e) /\ Len(e) \in Nat /\ DOMAIN e = 1 .. Len(e)
         /\ \A i \in 1 .. Len(e) : e[i].at \in Int /\ e[i].units \in Units /\ e[i].units \in Nat
<1>1. Len(e) \in Nat /\ DOMAIN e = 1 .. Len(e)
  OBVIOUS
<1>2. ASSUME NEW i \in 1 .. Len(e)
      PROVE  e[i].at \in Int /\ e[i].units \in Units /\ e[i].units \in Nat
  <2>1. e[i] \in Events
    OBVIOUS
  <2>2. \A u \in Units : u \in Nat
    BY BoundAssumption DEF BoundAssumption
  <2> QED BY <2>1, <2>2 DEF Events
<1> QED BY <1>1, <1>2 DEF Measured

\* A window counts a tail of the history.
LEMMA WithinTail ==
  ASSUME NEW e, Ordered(e), NEW t \in Int, NEW window \in Int
  PROVE  \E lo \in 0 .. Len(e) : Within(e, t, window) = lo + 1 .. Len(e)
<1>0. /\ Len(e) \in Nat /\ DOMAIN e = 1 .. Len(e) /\ \A i \in 1 .. Len(e) : e[i].at \in Int
      /\ \A i, j \in 1 .. Len(e) : i < j => e[i].at < e[j].at
  BY OrderedMeasured DEF Ordered, Rising
<1> DEFINE C == Within(e, t, window)
<1>1. C = {i \in 1 .. Len(e) : e[i].at > t - window} /\ C \subseteq Nat
  BY <1>0 DEF Within
<1> HIDE DEF C
<1>2. CASE C = {}
  <2>1. Len(e) \in 0 .. Len(e) /\ C = Len(e) + 1 .. Len(e)
    BY <1>0, <1>2
  <2> QED BY <2>1 DEF C
<1>3. CASE C # {}
  <2>1. PICK m \in C : \A i \in C : m <= i
    BY <1>1, <1>3, LeastNumber
  <2>2. m \in 1 .. Len(e) /\ e[m].at > t - window
    BY <1>1
  <2>3. ASSUME NEW i \in m .. Len(e) PROVE i \in C
    <3>1. i \in 1 .. Len(e) /\ (i = m \/ m < i)
      BY <1>0, <2>2
    <3>2. e[i].at >= e[m].at
      BY <1>0, <2>2, <3>1
    <3>3. e[i].at > t - window
      BY <1>0, <2>2, <3>1, <3>2
    <3> QED BY <1>1, <3>1, <3>3
  <2>4. C = m .. Len(e)
    BY <1>0, <1>1, <2>1, <2>2, <2>3
  <2>5. m - 1 \in 0 .. Len(e) /\ (m - 1) + 1 = m
    BY <1>0, <2>2
  <2> QED BY <2>4, <2>5 DEF C
<1> QED BY <1>2, <1>3

\* Pruning keeps a tail of the history.
LEMMA KeptTail ==
  ASSUME NEW e, Ordered(e), NEW t \in Int
  PROVE  \E lo \in 0 .. Len(e) :
           /\ Within(e, t, Day) = lo + 1 .. Len(e)
           /\ Ordered(Kept(e, t)) /\ Len(Kept(e, t)) = Len(e) - lo
           /\ \A k \in 1 .. Len(e) - lo : Kept(e, t)[k] = e[lo + k]
<1>0. Len(e) \in Nat /\ DOMAIN e = 1 .. Len(e) /\ Day \in Int
  BY OrderedMeasured, WindowAssumption DEF Ordered, WindowAssumption
<1>1. PICK lo \in 0 .. Len(e) : Within(e, t, Day) = lo + 1 .. Len(e)
  BY <1>0, WithinTail
<1> DEFINE N == Len(e) - lo
           C == lo + 1 .. Len(e)
           nth(k) == CHOOSE i \in C : Cardinality({j \in C : j <= i}) = k
           K == Kept(e, t)
<1>2. N \in Nat /\ Cardinality(C) = N
  <2>1. lo + 1 \in Int /\ Len(e) \in Int /\ N \in Nat /\ N = (Len(e) - (lo + 1)) + 1
    BY <1>0
  <2>2. Cardinality(C) = IF lo + 1 > Len(e) THEN 0 ELSE (Len(e) - (lo + 1)) + 1
    <3> HIDE DEF N
    <3> QED BY <2>1, FS_Interval
  <2> QED BY <1>0, <2>1, <2>2
<1>3. K = [k \in 1 .. N |-> e[nth(k)]]
  BY <1>1, <1>2 DEF Kept
<1>4. ASSUME NEW k \in 1 .. N PROVE nth(k) = lo + k
  <2>1. ASSUME NEW i \in C PROVE Cardinality({j \in C : j <= i}) = i - lo
    <3>1. {j \in C : j <= i} = lo + 1 .. i /\ i \in Int /\ lo + 1 \in Int /\ i >= lo + 1
      BY <1>0
    <3>2. Cardinality(lo + 1 .. i) = IF lo + 1 > i THEN 0 ELSE (i - (lo + 1)) + 1
      BY <3>1, FS_Interval
    <3>3. Cardinality(lo + 1 .. i) = i - lo
      BY <3>1, <3>2
    <3> HIDE DEF C
    <3> QED BY <3>1, <3>3
  <2>2. lo + k \in C /\ (lo + k) - lo = k /\ \A i \in C : i - lo = k => i = lo + k
    BY <1>0, <1>2
  <2> HIDE DEF C
  <2> QED BY <2>1, <2>2
<1>5. \A k \in 1 .. N : K[k] = e[lo + k] /\ lo + k \in 1 .. Len(e)
  <2> HIDE DEF nth
  <2>1. \A k \in 1 .. N : lo + k \in 1 .. Len(e)
    BY <1>0
  <2>2. \A k \in 1 .. N : K[k] = e[nth(k)]
    BY <1>3
  <2> QED BY <1>4, <2>1, <2>2
<1>6. DOMAIN K = 1 .. N
  BY <1>3
<1> HIDE DEF K, C, N
<1>7. K \in Seq(Events) /\ Len(K) = N
  <2>1. \A k \in 1 .. N : e[lo + k] \in Events
    BY <1>5 DEF Ordered
  <2>2. K = [k \in 1 .. N |-> e[lo + k]]
    <3> HIDE DEF nth
    <3> QED BY <1>3, <1>4
  <2>3. K \in [1 .. N -> Events]
    BY <2>1, <2>2
  <2> QED BY <1>2, <2>3
<1>8. ASSUME NEW i \in 1 .. N, NEW j \in 1 .. N, i < j PROVE K[i].at < K[j].at
  <2>1. lo + i < lo + j
    BY <1>0, <1>2, <1>8
  <2> QED BY <1>0, <1>5, <2>1 DEF Ordered, Rising
<1>9. Ordered(K)
  BY <1>6, <1>7, <1>8 DEF Ordered, Rising
<1> QED BY <1>1, <1>5, <1>7, <1>9 DEF K, N

\* A sum over places that the pruning keeps is the same after it.
LEMMA TailTotal ==
  ASSUME NEW e \in Seq(Events), NEW f \in Seq(Events), NEW lo \in 0 .. Len(e),
         Len(f) = Len(e) - lo, \A k \in 1 .. Len(e) - lo : f[k] = e[lo + k],
         NEW a \in 0 .. Len(f)
  PROVE  Total(f, a + 1 .. Len(f)) = Total(e, lo + a + 1 .. Len(e))
<1>0. Measured(e) /\ Measured(f) /\ Len(e) \in Nat /\ Len(f) \in Nat
      /\ DOMAIN e = 1 .. Len(e) /\ DOMAIN f = 1 .. Len(f)
  BY OrderedMeasured
<1> DEFINE S == a + 1 .. Len(f)
           R == lo + a + 1 .. Len(e)
           away == -lo
<1>1. /\ lo \in Int /\ away \in Int /\ away = -lo
      /\ Len(f) \in 0 .. Len(f) /\ Len(e) \in 0 .. Len(e)
  BY <1>0
<1>2. ASSUME NEW n \in 1 .. Len(f), n \in S
      PROVE  lo + n \in DOMAIN e /\ lo + n \in R /\ e[lo + n].units = f[n].units
  BY <1>0, <1>2
<1>3. ASSUME NEW n \in 1 .. Len(e), n \in R
      PROVE  away + n \in DOMAIN f /\ away + n \in S /\ f[away + n].units = e[n].units
  <2>1. away + n \in 1 .. Len(f) /\ away + n \in S /\ lo + (away + n) = n
    BY <1>0, <1>3
  <2> QED BY <1>0, <2>1
<1> HIDE DEF S, R, away
<1>4. Total(f, S) <= Total(e, R)
  BY <1>0, <1>1, <1>2, Shift DEF Total
<1>5. Total(e, R) <= Total(f, S)
  BY <1>0, <1>1, <1>3, Shift DEF Total
<1>6. Total(f, S) \in Nat /\ Total(e, R) \in Nat
  BY <1>0, <1>1, SumsDef DEF Total
<1>7. Total(f, S) = Total(e, R)
  BY <1>4, <1>5, <1>6
<1> QED BY <1>7 DEF S, R

-----------------------------------------------------------------------------
(* The deadline of a window *)

\* The units from event i on.
From(e, i) == Total(e, i .. Len(e))

\* d is what windowDeadline is to return for a window that ends at t: nothing if there
\* is room, and else the moment at which the last event that has to go leaves it.
Deadline(d, e, units, t, window, max) ==
  \/ d = {} /\ Total(e, Within(e, t, window)) <= max - units
  \/ \E m \in Within(e, t, window) :
        d = {e[m].at + window} /\ From(e, m + 1) <= max - units /\ From(e, m) > max - units

\* windowDeadline finds it: enough is free once everything has gone.
LEMMA DeadlineShape ==
  ASSUME NEW e, Ordered(e), NEW t \in Int, NEW window \in Int,
         NEW units \in Nat, NEW max \in Nat, units <= max
  PROVE  Deadline(windowDeadline(e, units, t, window, max), e, units, t, window, max)
<1> DEFINE C == Within(e, t, window)
           free(j) == Total(e, {i \in C : i > j}) <= max - units
           F == {j \in C : free(j)}
<1>0. /\ Measured(e) /\ Len(e) \in Nat /\ DOMAIN e = 1 .. Len(e)
      /\ \A S : Total(e, S) \in Nat
  BY OrderedMeasured, SumsDef DEF Ordered, Total
<1>1. PICK lo \in 0 .. Len(e) : C = lo + 1 .. Len(e)
  BY WithinTail
<1>2. windowDeadline(e, units, t, window, max) = IF Total(e, C) <= max - units THEN {} ELSE {e[Min(F)].at + window}
  BY DEF windowDeadline
<1>3. C \subseteq 1 .. Len(e)
  BY <1>0, <1>1
<1>4. CASE Total(e, C) <= max - units
  BY <1>2, <1>4 DEF Deadline
<1>5. CASE ~(Total(e, C) <= max - units)
  <2>1. Total(e, {}) = 0
    <3> DEFINE T == {n \in 0 .. Len(e) : Sums(e, {})[n] = 0}
    <3>1. 0 \in T /\ \A n \in 1 .. Len(e) : n - 1 \in T => n \in T
      BY <1>0, SumsDef
    <3> HIDE DEF T
    <3>2. 0 .. Len(e) \subseteq T
      BY <1>0, <3>1, CountUp
    <3> QED BY <1>0, <3>2 DEF T, Total
  <2>2. C # {}
    BY <1>5, <2>1
  <2>3. Len(e) \in C /\ {i \in C : i > Len(e)} = {}
    BY <1>0, <1>1, <2>2
  <2>4. Len(e) \in F
    <3>1. 0 <= max - units
      OBVIOUS
    <3>2. free(Len(e))
      <4> HIDE DEF C
      <4> QED BY <2>1, <2>3, <3>1
    <3> HIDE DEF free, C
    <3> QED BY <2>3, <3>2
  <2>5. F \subseteq Nat /\ F # {}
    <3>1. F \subseteq C /\ 1 .. Len(e) \subseteq Nat
      BY <1>0
    <3> HIDE DEF F, C
    <3> QED BY <1>3, <2>4, <3>1
  <2> DEFINE m == Min(F)
  <2>6. m \in F /\ \A j \in F : m <= j
    <3> HIDE DEF F
    <3>1. \E n \in F : \A j \in F : n <= j
      BY <2>5, LeastNumber
    <3> QED BY <3>1 DEF Min
  <2> HIDE DEF m
  <2>7. m \in C /\ m \in 1 .. Len(e) /\ free(m)
    BY <1>3, <2>6
  <2>8. From(e, m + 1) <= max - units
    <3>1. {i \in C : i > m} = m + 1 .. Len(e)
      BY <1>0, <1>1, <2>7
    <3> HIDE DEF C
    <3> QED BY <2>7, <3>1 DEF From
  <2>9. From(e, m) > max - units
    <3>1. CASE m - 1 \in C
      <4>1. m - 1 \notin F
        BY <1>0, <2>6, <2>7
      <4>2. {i \in C : i > m - 1} = m .. Len(e)
        BY <1>0, <1>1, <2>7
      <4>3. ~(Total(e, m .. Len(e)) <= max - units)
        <5> HIDE DEF C
        <5> QED BY <3>1, <4>1, <4>2
      <4> QED BY <1>0, <4>3 DEF From
    <3>2. CASE m - 1 \notin C
      <4>1. C = m .. Len(e)
        BY <1>0, <1>1, <2>7, <3>2
      <4> QED BY <1>0, <1>5, <4>1 DEF From
    <3> QED BY <3>1, <3>2
  <2>10. windowDeadline(e, units, t, window, max) = {e[m].at + window}
    BY <1>2, <1>5 DEF m
  <2> HIDE DEF F, C
  <2> QED BY <2>7, <2>8, <2>9, <2>10 DEF Deadline, C
<1> QED BY <1>4, <1>5

\* Pruning the history of what is older than a day changes no deadline.
LEMMA KeptDeadline ==
  ASSUME NEW e, Ordered(e), NEW t \in Int, NEW window \in Int, window <= Day,
         NEW units \in Nat, NEW max \in Nat, units <= max
  PROVE  Deadline(windowDeadline(Kept(e, t), units, t, window, max), e, units, t, window, max)
<1> DEFINE f == Kept(e, t)
           d == windowDeadline(f, units, t, window, max)
<1>1. PICK lo \in 0 .. Len(e) :
           /\ Within(e, t, Day) = lo + 1 .. Len(e)
           /\ Ordered(f) /\ Len(f) = Len(e) - lo
           /\ \A k \in 1 .. Len(e) - lo : f[k] = e[lo + k]
  BY KeptTail
<1> HIDE DEF f
<1>2. Deadline(d, f, units, t, window, max)
  BY <1>1, DeadlineShape
<1> HIDE DEF d
<1>0. /\ e \in Seq(Events) /\ f \in Seq(Events) /\ Len(e) \in Nat /\ Len(f) \in Nat
      /\ DOMAIN e = 1 .. Len(e) /\ DOMAIN f = 1 .. Len(f) /\ Day \in Int
      /\ \A i \in 1 .. Len(e) : e[i].at \in Int
  BY <1>1, OrderedMeasured, WindowAssumption DEF Ordered, WindowAssumption
<1>3. PICK a \in 0 .. Len(f) : Within(f, t, window) = a + 1 .. Len(f)
  BY <1>1, WithinTail
<1>4. Within(e, t, window) = lo + a + 1 .. Len(e)
  <2>1. ASSUME NEW i \in 1 .. Len(e) PROVE e[i].at > t - window <=> i \in lo + a + 1 .. Len(e)
    <3>1. CASE i <= lo
      <4>1. ~(e[i].at > t - Day)
        <5>1. i \notin lo + 1 .. Len(e)
          BY <1>0, <3>1
        <5> QED BY <1>0, <1>1, <5>1 DEF Within
      <4>2. ~(e[i].at > t - window)
        BY <1>0, <4>1
      <4> QED BY <1>0, <3>1, <4>2
    <3>2. CASE i > lo
      <4>1. i - lo \in 1 .. Len(f) /\ f[i - lo] = e[i]
        BY <1>0, <1>1, <3>2
      <4>2. e[i].at > t - window <=> i - lo \in a + 1 .. Len(f)
        BY <1>0, <1>3, <4>1 DEF Within
      <4>3. i - lo \in a + 1 .. Len(f) <=> i \in lo + a + 1 .. Len(e)
        BY <1>0, <1>1, <3>2
      <4> QED BY <4>2, <4>3
    <3> QED BY <1>0, <3>1, <3>2
  <2>2. lo + a + 1 .. Len(e) \subseteq 1 .. Len(e)
    BY <1>0
  <2> QED BY <1>0, <2>1, <2>2 DEF Within
<1>5. ASSUME NEW b \in 0 .. Len(f) PROVE From(f, b + 1) = From(e, lo + b + 1)
  BY <1>0, <1>1, <1>5, TailTotal, ZenonT(40) DEF From
<1>6. ASSUME d = {}, Total(f, Within(f, t, window)) <= max - units
      PROVE  Deadline(d, e, units, t, window, max)
  <2>1. Total(f, a + 1 .. Len(f)) = Total(e, lo + a + 1 .. Len(e))
    BY <1>5 DEF From
  <2> QED BY <1>3, <1>4, <1>6, <2>1 DEF Deadline
<1>7. ASSUME NEW m \in Within(f, t, window), d = {f[m].at + window},
             From(f, m + 1) <= max - units, From(f, m) > max - units
      PROVE  Deadline(d, e, units, t, window, max)
  <2>1. m \in 1 .. Len(f) /\ lo + m \in Within(e, t, window) /\ f[m] = e[lo + m]
    <3>1. m \in a + 1 .. Len(f)
      BY <1>3, <1>7
    <3>2. m \in 1 .. Len(f) /\ m \in 1 .. Len(e) - lo /\ lo + m \in lo + a + 1 .. Len(e)
      BY <1>0, <1>1, <3>1
    <3> QED BY <1>1, <1>4, <3>2
  <2>2. From(f, m + 1) = From(e, (lo + m) + 1)
    <3>1. m \in 0 .. Len(f) /\ lo + m + 1 = (lo + m) + 1
      BY <1>0, <2>1
    <3> QED BY <1>5, <3>1
  <2>3. From(f, m) = From(e, lo + m)
    <3>1. m - 1 \in 0 .. Len(f) /\ (m - 1) + 1 = m /\ lo + (m - 1) + 1 = lo + m
      BY <1>0, <2>1
    <3> QED BY <1>5, <3>1
  <2> QED BY <1>7, <2>1, <2>2, <2>3 DEF Deadline
<1>8. Deadline(d, e, units, t, window, max)
  BY <1>2, <1>6, <1>7 DEF Deadline
<1> QED BY <1>8 DEF d, f

-----------------------------------------------------------------------------
(* What is allowed, and when *)

\* More places carry no less.
LEMMA TotalGrows ==
  ASSUME NEW e, Measured(e), NEW S, NEW R, \A i \in DOMAIN e : i \in S => i \in R
  PROVE  Total(e, S) <= Total(e, R) /\ Total(e, S) \in Nat /\ Total(e, R) \in Nat
<1>1. /\ Len(e) \in 0 .. Len(e) /\ 0 \in Int
      /\ \A n \in 1 .. Len(e) :
            n \in S => 0 + n \in DOMAIN e /\ 0 + n \in R /\ e[0 + n].units = e[n].units
  BY DEF Measured
<1>2. Sums(e, S)[Len(e)] <= Total(e, R)
  BY <1>1, Shift
<1> QED BY <1>1, <1>2, SumsDef DEF Total

Room(e, units, t, window, max) == Total(e, Within(e, t, window)) <= max - units

\* A request may go exactly when the interval is over and both windows have room.
LEMMA AllowedExactly ==
  ASSUME NEW e, Ordered(e), NEW t \in Int, NEW lim \in Limits, NEW units \in Units, Fits(units, lim)
  PROVE  Allowed(e, units, t, lim) <=>
           /\ \A i \in DOMAIN e : e[i].at + lim.interval <= t
           /\ Room(e, units, t, Hour, lim.perHour)
           /\ Room(e, units, t, Day, lim.perDay)
<1>0. /\ units \in Nat /\ lim.perHour \in Nat /\ lim.perDay \in Nat /\ units <= lim.perHour
      /\ units <= lim.perDay /\ Hour \in Int /\ Day \in Int /\ Hour <= Day
  BY BoundAssumption, LimitAssumption, WindowAssumption
     DEF BoundAssumption, LimitAssumption, WindowAssumption, Fits
<1>1. /\ Measured(e) /\ DOMAIN e = 1 .. Len(e) /\ Len(e) \in Nat
      /\ \A i \in 1 .. Len(e) : e[i].at \in Int
  BY OrderedMeasured DEF Ordered
<1>2. ASSUME NEW window \in Int, window <= Day, NEW max \in Nat, units <= max
      PROVE  Room(e, units, t, window, max) <=>
                \A d \in windowDeadline(Kept(e, t), units, t, window, max) : d <= t
  <2> DEFINE D == windowDeadline(Kept(e, t), units, t, window, max)
             C == Within(e, t, window)
  <2>1. Deadline(D, e, units, t, window, max)
    BY <1>2, <1>0, KeptDeadline
  <2> HIDE DEF D
  <2>2. ASSUME D = {}, Total(e, C) <= max - units
        PROVE  Room(e, units, t, window, max) /\ \A d \in D : d <= t
    BY <2>2 DEF Room
  <2>3. ASSUME NEW m \in C, D = {e[m].at + window}, From(e, m) > max - units
        PROVE  ~Room(e, units, t, window, max) /\ ~ \A d \in D : d <= t
    <3>1. m \in 1 .. Len(e) /\ e[m].at > t - window /\ e[m].at \in Int
      BY <1>1 DEF Within
    <3>2. ~(e[m].at + window <= t)
      BY <1>2, <3>1
    <3>3. \A i \in DOMAIN e : i \in m .. Len(e) => i \in C
      <4> SUFFICES ASSUME NEW i \in 1 .. Len(e), i >= m PROVE e[i].at > t - window
        BY <1>1 DEF Within
      <4>1. e[i].at >= e[m].at
        BY <1>1, <3>1 DEF Ordered, Rising
      <4> QED BY <1>1, <1>2, <3>1, <4>1
    <3>4. From(e, m) <= Total(e, C) /\ From(e, m) \in Nat /\ Total(e, C) \in Nat
      <4> HIDE DEF C
      <4> QED BY <1>1, <3>3, TotalGrows DEF From
    <3> HIDE DEF C
    <3> QED BY <1>0, <1>2, <2>3, <3>2, <3>4 DEF Room, C
  <2>4. Room(e, units, t, window, max) <=> \A d \in D : d <= t
    BY <2>1, <2>2, <2>3 DEF Deadline
  <2> QED BY <2>4 DEF D
<1> DEFINE A == {e[i].at + lim.interval : i \in DOMAIN e}
           H == windowDeadline(Kept(e, t), units, t, Hour, lim.perHour)
           Y == windowDeadline(Kept(e, t), units, t, Day, lim.perDay)
<1>3. Allowed(e, units, t, lim) <=> \A d \in A \cup H \cup Y : d <= t
  BY DEF Allowed, deadlines
<1>4. Room(e, units, t, Hour, lim.perHour) <=> \A d \in H : d <= t
  BY <1>0, <1>2
<1>5. Room(e, units, t, Day, lim.perDay) <=> \A d \in Y : d <= t
  BY <1>0, <1>2
<1>6. (\A d \in A : d <= t) <=> \A i \in DOMAIN e : e[i].at + lim.interval <= t
  OBVIOUS
<1> HIDE DEF A, H, Y
<1> QED BY <1>3, <1>4, <1>5, <1>6

-----------------------------------------------------------------------------
(* The wait that is promised *)

HasMax(S) == S = {} \/ \E x \in S : \A y \in S : y <= x

\* The latest of all deadlines exists.
LEMMA LatestDeadline ==
  ASSUME NEW e, Ordered(e), NEW t \in Int, NEW lim \in Limits, NEW units \in Units, Fits(units, lim)
  PROVE  deadlines(e, units, t, lim) \subseteq Int /\ HasMax(deadlines(e, units, t, lim))
<1> DEFINE A == {e[i].at + lim.interval : i \in DOMAIN e}
           H == windowDeadline(Kept(e, t), units, t, Hour, lim.perHour)
           Y == windowDeadline(Kept(e, t), units, t, Day, lim.perDay)
<1>0. /\ units \in Nat /\ lim.perHour \in Nat /\ lim.perDay \in Nat /\ units <= lim.perHour
      /\ units <= lim.perDay /\ Hour \in Int /\ Day \in Int /\ Hour <= Day /\ lim.interval \in Nat
  BY BoundAssumption, LimitAssumption, WindowAssumption
     DEF BoundAssumption, LimitAssumption, WindowAssumption, Fits
<1>1. /\ Measured(e) /\ DOMAIN e = 1 .. Len(e) /\ Len(e) \in Nat
      /\ \A i \in 1 .. Len(e) : e[i].at \in Int
  BY OrderedMeasured DEF Ordered
<1>2. A \subseteq Int /\ HasMax(A)
  <2>1. CASE Len(e) = 0
    BY <1>1, <2>1 DEF HasMax
  <2>2. CASE Len(e) # 0
    <3>1. Len(e) \in 1 .. Len(e) /\ \A i \in 1 .. Len(e) : e[i].at <= e[Len(e)].at
      BY <1>1, <2>2 DEF Ordered, Rising
    <3>2. \A i \in 1 .. Len(e) : e[i].at + lim.interval <= e[Len(e)].at + lim.interval
      <4> SUFFICES ASSUME NEW i \in 1 .. Len(e)
                   PROVE  e[i].at + lim.interval <= e[Len(e)].at + lim.interval
        OBVIOUS
      <4>1. e[i].at <= e[Len(e)].at /\ e[i].at \in Int /\ e[Len(e)].at \in Int
        BY <1>1, <3>1
      <4> QED BY <1>0, <4>1
    <3>3. \A i \in 1 .. Len(e) : e[i].at + lim.interval \in Int
      BY <1>0, <1>1
    <3> QED BY <1>1, <3>1, <3>2, <3>3 DEF HasMax
  <2> QED BY <2>1, <2>2
<1>3. ASSUME NEW window \in Int, window <= Day, NEW max \in Nat, units <= max,
             NEW D, D = windowDeadline(Kept(e, t), units, t, window, max)
      PROVE  D \subseteq Int /\ HasMax(D)
  <2>1. Deadline(D, e, units, t, window, max)
    BY <1>0, <1>3, KeptDeadline
  <2>2. D = {} \/ \E x \in Int : D = {x}
    <3>1. ASSUME NEW m \in Within(e, t, window) PROVE e[m].at + window \in Int
      BY <1>1, <1>3 DEF Within
    <3> QED BY <2>1, <3>1 DEF Deadline
  <2> QED BY <2>2 DEF HasMax
<1>4. H \subseteq Int /\ HasMax(H) /\ Y \subseteq Int /\ HasMax(Y)
  BY <1>0, <1>3
<1>5. deadlines(e, units, t, lim) = A \cup H \cup Y
  BY DEF deadlines
<1>6. \A S, R : S \subseteq Int /\ R \subseteq Int /\ HasMax(S) /\ HasMax(R) => HasMax(S \cup R)
  <2> SUFFICES ASSUME NEW S, NEW R, S \subseteq Int, R \subseteq Int, HasMax(S), HasMax(R)
               PROVE  HasMax(S \cup R)
    OBVIOUS
  <2>1. CASE S = {} \/ R = {}
    BY <2>1 DEF HasMax
  <2>2. ASSUME NEW x \in S, NEW y \in R, \A z \in S : z <= x, \A z \in R : z <= y
        PROVE  HasMax(S \cup R)
    <3>1. CASE x <= y
      <4>1. \A z \in S \cup R : z <= y
        BY <2>2, <3>1
      <4> QED BY <4>1 DEF HasMax
    <3>2. CASE ~(x <= y)
      <4>1. \A z \in S \cup R : z <= x
        BY <2>2, <3>2
      <4> QED BY <4>1 DEF HasMax
    <3> QED BY <3>1, <3>2
  <2> QED BY <2>1, <2>2 DEF HasMax
<1> HIDE DEF A, H, Y
<1> QED BY <1>2, <1>4, <1>5, <1>6

\* A refused request is refused until the moment it is told, and allowed then.
LEMMA WaitIsExact ==
  ASSUME NEW e, Ordered(e), NEW t \in Int, NEW lim \in Limits, NEW units \in Units, Fits(units, lim),
         ~Allowed(e, units, t, lim), NEW wait, wait = RetryAfter(e, units, t, lim)
  PROVE  /\ Allowed(e, units, t + wait, lim)
         /\ \A d \in 0 .. wait - 1 : ~Allowed(e, units, t + d, lim)
<1> DEFINE D == deadlines(e, units, t, lim)
           M == Max(D)
<1>0. /\ units \in Nat /\ lim.perHour \in Nat /\ lim.perDay \in Nat /\ units <= lim.perHour
      /\ units <= lim.perDay /\ Hour \in Int /\ Day \in Int /\ Hour <= Day /\ lim.interval \in Nat
  BY BoundAssumption, LimitAssumption, WindowAssumption
     DEF BoundAssumption, LimitAssumption, WindowAssumption, Fits
<1>1. /\ Measured(e) /\ DOMAIN e = 1 .. Len(e) /\ Len(e) \in Nat
      /\ \A i \in 1 .. Len(e) : e[i].at \in Int
      /\ \A i, j \in 1 .. Len(e) : i <= j => e[i].at <= e[j].at
  <2>1. /\ Measured(e) /\ DOMAIN e = 1 .. Len(e) /\ Len(e) \in Nat
        /\ \A i \in 1 .. Len(e) : e[i].at \in Int
    BY OrderedMeasured DEF Ordered
  <2> QED BY <2>1 DEF Ordered, Rising
<1>2. M \in D /\ \A d \in D : d <= M
  <2>1. D # {} /\ HasMax(D) /\ D \subseteq Int
    BY LatestDeadline DEF Allowed
  <2>2. \E x \in D : \A y \in D : x >= y
    <3> HIDE DEF D
    <3> QED BY <2>1 DEF HasMax
  <2>3. M \in D /\ \A d \in D : M >= d
    <3> HIDE DEF D
    <3> QED BY <2>2 DEF Max
  <2> HIDE DEF M, D
  <2> QED BY <2>1, <2>3
<1>3. D \subseteq Int /\ M \in Int /\ wait = M - t
  BY <1>2, LatestDeadline DEF RetryAfter
<1> DEFINE A == {e[i].at + lim.interval : i \in DOMAIN e}
           H == windowDeadline(Kept(e, t), units, t, Hour, lim.perHour)
           Y == windowDeadline(Kept(e, t), units, t, Day, lim.perDay)
<1>4. D = A \cup H \cup Y
  BY DEF deadlines
<1> HIDE DEF D, M
<1>5. ASSUME NEW window \in Int, window <= Day, NEW max \in Nat, units <= max,
             NEW S, S = windowDeadline(Kept(e, t), units, t, window, max), S \subseteq D
      PROVE  /\ Room(e, units, M, window, max)
             /\ M \in S => \A u \in Int : u < M => ~Room(e, units, u, window, max)
  <2>1. Deadline(S, e, units, t, window, max)
    BY <1>0, <1>5, KeptDeadline
  <2>2. ASSUME S = {}, Total(e, Within(e, t, window)) <= max - units
        PROVE  Room(e, units, M, window, max) /\ M \notin S
    <3>1. M > t
      BY <1>2, <1>3 DEF Allowed, D
    <3>2. \A i \in DOMAIN e : i \in Within(e, M, window) => i \in Within(e, t, window)
      BY <1>1, <1>3, <1>5, <3>1 DEF Within
    <3>3. /\ Total(e, Within(e, M, window)) <= Total(e, Within(e, t, window))
          /\ Total(e, Within(e, M, window)) \in Nat /\ Total(e, Within(e, t, window)) \in Nat
      BY <1>1, <3>2, TotalGrows
    <3> QED BY <1>0, <1>5, <2>2, <3>3 DEF Room
  <2>3. ASSUME NEW m \in Within(e, t, window), S = {e[m].at + window},
               From(e, m + 1) <= max - units, From(e, m) > max - units
        PROVE  /\ Room(e, units, M, window, max)
               /\ M \in S => \A u \in Int : u < M => ~Room(e, units, u, window, max)
    <3>1. m \in 1 .. Len(e) /\ e[m].at \in Int
      BY <1>1 DEF Within
    <3>2. e[m].at + window <= M
      BY <1>2, <1>5, <2>3
    <3>3. Room(e, units, M, window, max)
      <4>1. ASSUME NEW i \in DOMAIN e, i \in Within(e, M, window) PROVE i \in m + 1 .. Len(e)
        <5>1. i \in 1 .. Len(e) /\ e[i].at \in Int /\ e[i].at > M - window
          BY <1>1, <4>1 DEF Within
        <5>2. ~(i <= m)
          BY <1>1, <1>3, <1>5, <3>1, <3>2, <5>1
        <5> QED BY <3>1, <5>1, <5>2
      <4>2. /\ Total(e, Within(e, M, window)) <= From(e, m + 1)
            /\ Total(e, Within(e, M, window)) \in Nat /\ From(e, m + 1) \in Nat
        BY <1>1, <4>1, TotalGrows DEF From
      <4> QED BY <1>0, <1>5, <2>3, <4>2 DEF Room
    <3>4. ASSUME M \in S, NEW u \in Int, u < M PROVE ~Room(e, units, u, window, max)
      <4>0. M = e[m].at + window
        BY <2>3, <3>4
      <4>1. ASSUME NEW i \in DOMAIN e, i \in m .. Len(e) PROVE i \in Within(e, u, window)
        <5>1. i \in 1 .. Len(e) /\ m <= i /\ e[i].at \in Int /\ e[m].at <= e[i].at
          BY <1>1, <3>1, <4>1
        <5>2. e[m].at > u - window
          BY <1>3, <1>5, <3>1, <3>4, <4>0
        <5>3. e[i].at > u - window
          BY <1>5, <3>1, <3>4, <5>1, <5>2
        <5> QED BY <1>1, <5>1, <5>3 DEF Within
      <4>2. /\ From(e, m) <= Total(e, Within(e, u, window))
            /\ From(e, m) \in Nat /\ Total(e, Within(e, u, window)) \in Nat
        BY <1>1, <4>1, TotalGrows DEF From
      <4> QED BY <1>0, <1>5, <2>3, <4>2 DEF Room
    <3> QED BY <3>3, <3>4
  <2> QED BY <2>1, <2>2, <2>3 DEF Deadline
<1>6. H \subseteq D /\ Y \subseteq D /\ A \subseteq D
  BY <1>4
<1>7. /\ Room(e, units, M, Hour, lim.perHour)
      /\ M \in H => \A u \in Int : u < M => ~Room(e, units, u, Hour, lim.perHour)
  BY <1>0, <1>5, <1>6
<1>8. /\ Room(e, units, M, Day, lim.perDay)
      /\ M \in Y => \A u \in Int : u < M => ~Room(e, units, u, Day, lim.perDay)
  BY <1>0, <1>5, <1>6
<1>9. Allowed(e, units, t + wait, lim)
  <2>1. t + wait = M
    BY <1>3
  <2>2. \A i \in DOMAIN e : e[i].at + lim.interval <= M
    BY <1>2, <1>6
  <2> QED BY <1>3, <1>7, <1>8, <2>1, <2>2, AllowedExactly
<1>10. ASSUME NEW d \in 0 .. wait - 1 PROVE ~Allowed(e, units, t + d, lim)
  <2>1. t + d \in Int /\ t + d < M
    BY <1>3, <1>10
  <2>2. CASE M \in A
    <3>1. PICK i \in DOMAIN e : M = e[i].at + lim.interval
      BY <2>2
    <3>2. ~(e[i].at + lim.interval <= t + d)
      BY <1>3, <2>1, <3>1
    <3> QED BY <2>1, <3>2, AllowedExactly
  <2>3. CASE M \in H \/ M \in Y
    BY <1>7, <1>8, <2>1, <2>3, AllowedExactly
  <2> QED BY <1>2, <1>4, <2>2, <2>3
<1> QED BY <1>9, <1>10

-----------------------------------------------------------------------------
(* The invariant *)

Attempts == [real : Nat, units : Units, limit : Limits]

\* Types, with the order of the history.
Typed ==
  /\ Ordered(history)
  /\ limit \in Limits
  /\ accepted \in Seq(Attempts)
  /\ writer \in Callers \cup {None}
  /\ tx \in [Callers -> Transactions \cup {None}]
  /\ real \in 0 .. MaxTime /\ back \in 0 .. MaxBack

\* Only the transaction that holds the lock is open, and what it has read is current.
Serial ==
  /\ writer # None => tx[writer] # None
  /\ \A c \in Callers : tx[c] # None =>
        writer = c /\ tx[c].events = history /\ Fits(tx[c].units, limit)

\* How many of the accepted attempts have been pruned from the history.
Lead == Len(accepted) - Len(history)

\* The history is what was accepted last, with times that lag by no more than the clock
\* is behind now; what was pruned is older than a day.
Books ==
  /\ Lead >= 0
  /\ accepted # <<>> => history # <<>>
  /\ \A k \in DOMAIN history :
        history[k].units = accepted[Lead + k].units /\ accepted[Lead + k].real <= history[k].at + back
  /\ \A i \in 1 .. Lead : accepted[i].real <= real - Day
  /\ \A i \in DOMAIN accepted : accepted[i].real <= real

IInv == Typed /\ Serial /\ Books /\ WindowRespected

\* What was accepted can be measured.
LEMMA AcceptedMeasured ==
  ASSUME NEW a \in Seq(Attempts)
  PROVE  /\ Measured(a) /\ Len(a) \in Nat /\ DOMAIN a = 1 .. Len(a)
         /\ \A i \in 1 .. Len(a) : /\ a[i].real \in Int /\ a[i].units \in Nat
                                   /\ a[i].limit.perHour \in Nat /\ a[i].limit.perDay \in Nat
                                   /\ a[i].limit.interval \in Nat
<1>1. Len(a) \in Nat /\ DOMAIN a = 1 .. Len(a)
  OBVIOUS
<1>2. ASSUME NEW i \in 1 .. Len(a)
      PROVE  /\ a[i].real \in Int /\ a[i].units \in Nat
             /\ a[i].limit.perHour \in Nat /\ a[i].limit.perDay \in Nat
             /\ a[i].limit.interval \in Nat
  <2>1. a[i] \in Attempts
    OBVIOUS
  <2>2. a[i].real \in Nat /\ a[i].units \in Units /\ a[i].limit \in Limits
    BY <2>1 DEF Attempts
  <2>3. a[i].units \in Nat
    BY <2>2, BoundAssumption DEF BoundAssumption
  <2>4. a[i].limit \in [interval : Nat \ {0}, perHour : Nat \ {0}, perDay : Nat \ {0}, disabled : BOOLEAN]
    BY <2>2, LimitAssumption DEF LimitAssumption
  <2> QED BY <2>2, <2>3, <2>4
<1> QED BY <1>1, <1>2 DEF Measured

-----------------------------------------------------------------------------
(* What an acceptance does *)

\* An allowed request goes to the end of a history that stays in order.
LEMMA AppendOrdered ==
  ASSUME NEW e, Ordered(e), NEW t \in Int, NEW units \in Units,
         \A i \in DOMAIN e : e[i].at < t
  PROVE  Ordered(Append(Kept(e, t), [at |-> t, units |-> units]))
<1> DEFINE K == Kept(e, t)
           h == Append(K, [at |-> t, units |-> units])
<1>1. PICK lo \in 0 .. Len(e) :
           /\ Ordered(K) /\ Len(K) = Len(e) - lo
           /\ \A k \in 1 .. Len(e) - lo : K[k] = e[lo + k]
  BY KeptTail
<1>2. K \in Seq(Events) /\ Len(K) \in Nat /\ DOMAIN K = 1 .. Len(K)
      /\ Len(e) \in Nat /\ DOMAIN e = 1 .. Len(e)
  BY <1>1, OrderedMeasured DEF Ordered
<1>3. \A k \in 1 .. Len(K) : K[k].at < t
  <2>1. \A k \in 1 .. Len(K) : lo + k \in 1 .. Len(e) /\ K[k] = e[lo + k]
    BY <1>1, <1>2
  <2> QED BY <1>2, <2>1
<1> HIDE DEF K
<1>4. [at |-> t, units |-> units] \in Events
  BY DEF Events
<1>5. /\ h \in Seq(Events) /\ Len(h) = Len(K) + 1 /\ DOMAIN h = 1 .. Len(K) + 1
      /\ h[Len(K) + 1].at = t /\ \A k \in 1 .. Len(K) : h[k] = K[k]
  BY <1>2, <1>4
<1> HIDE DEF h
<1>6. ASSUME NEW i \in 1 .. Len(K) + 1, NEW j \in 1 .. Len(K) + 1, i < j PROVE h[i].at < h[j].at
  <2>1. CASE j = Len(K) + 1
    <3>1. i \in 1 .. Len(K)
      BY <1>2, <1>6, <2>1
    <3> QED BY <1>3, <1>5, <2>1, <3>1
  <2>2. CASE j # Len(K) + 1
    <3>1. i \in 1 .. Len(K) /\ j \in 1 .. Len(K)
      BY <1>2, <1>6, <2>2
    <3> QED BY <1>1, <1>2, <1>5, <1>6, <3>1 DEF Ordered, Rising
  <2> QED BY <2>1, <2>2
<1> QED BY <1>5, <1>6 DEF Ordered, Rising, h, K

\* What the limit and the history say about a request that is accepted.
LEMMA AcceptFacts ==
  ASSUME Typed, Serial, NEW c \in Callers, Accept(c)
  PROVE  /\ tx[c].events = history /\ tx[c].units \in Units /\ Now \in Int
         /\ \A i \in DOMAIN history : history[i].at + limit.interval <= Now
         /\ Room(history, tx[c].units, Now, Hour, limit.perHour)
         /\ Room(history, tx[c].units, Now, Day, limit.perDay)
<1>1. tx[c] # None /\ tx[c] \in Transactions /\ Allowed(tx[c].events, tx[c].units, Now, limit)
  BY DEF Accept, Typed
<1>2. tx[c].events = history /\ tx[c].units \in Units /\ Fits(tx[c].units, limit)
  BY <1>1 DEF Serial, Transactions
<1>3. Ordered(history) /\ limit \in Limits /\ Now \in Int
  BY DEF Typed, Now
<1> HIDE DEF Now
<1> QED BY <1>1, <1>2, <1>3, AllowedExactly

\* An acceptance keeps the books: what it prunes is a day old.
LEMMA AcceptBooks ==
  ASSUME Typed, Serial, Books, NEW c \in Callers, Accept(c)
  PROVE  Books'
<1> DEFINE K == Kept(history, Now)
           u == tx[c].units
           a == [real |-> real, units |-> u, limit |-> limit]
<1>1. tx[c].events = history /\ u \in Units /\ Now \in Int /\ Now = real - back
      /\ real \in Nat /\ back \in Nat /\ Day \in Nat
  BY AcceptFacts, BoundAssumption, WindowAssumption DEF Typed, Now, WindowAssumption, BoundAssumption
<1>2. /\ history' = Append(K, [at |-> Now, units |-> u])
      /\ accepted' = Append(accepted, a) /\ real' = real /\ back' = back
  BY <1>1 DEF Accept
<1>3. PICK lo \in 0 .. Len(history) :
           /\ Within(history, Now, Day) = lo + 1 .. Len(history)
           /\ Ordered(K) /\ Len(K) = Len(history) - lo
           /\ \A k \in 1 .. Len(history) - lo : K[k] = history[lo + k]
  <2>1. Ordered(history) /\ Now \in Int
    BY <1>1 DEF Typed
  <2> HIDE DEF Now
  <2> QED BY <2>1, KeptTail
<1>4. /\ Len(history) \in Nat /\ DOMAIN history = 1 .. Len(history)
      /\ \A i \in 1 .. Len(history) : history[i].at \in Int
      /\ K \in Seq(Events) /\ Len(K) \in Nat
      /\ accepted \in Seq(Attempts) /\ Len(accepted) \in Nat /\ DOMAIN accepted = 1 .. Len(accepted)
      /\ \A i \in 1 .. Len(accepted) : accepted[i].real \in Int
  BY <1>3, OrderedMeasured, AcceptedMeasured DEF Typed, Ordered
<1> HIDE DEF K, Now
<1>5. /\ Len(history') = Len(K) + 1 /\ DOMAIN history' = 1 .. Len(K) + 1
      /\ history'[Len(K) + 1] = [at |-> Now, units |-> u]
      /\ \A k \in 1 .. Len(K) : history'[k] = K[k]
  BY <1>2, <1>4
<1>6. /\ Len(accepted') = Len(accepted) + 1 /\ DOMAIN accepted' = 1 .. Len(accepted) + 1
      /\ accepted'[Len(accepted) + 1] = a
      /\ \A i \in 1 .. Len(accepted) : accepted'[i] = accepted[i]
  BY <1>2, <1>4
<1>7. /\ Lead \in Nat /\ Lead + Len(history) = Len(accepted) /\ Lead' = Lead + lo
      /\ lo \in Nat /\ Len(K) \in Nat /\ Len(K) + lo = Len(history)
  BY <1>3, <1>4, <1>5, <1>6 DEF Lead, Books
<1>8. \A k \in DOMAIN history :
        history[k].units = accepted[Lead + k].units /\ accepted[Lead + k].real <= history[k].at + back
  BY DEF Books
<1>9. accepted' # <<>> => history' # <<>>
  BY <1>4, <1>5
<1>10. ASSUME NEW k \in DOMAIN history'
       PROVE  /\ history'[k].units = accepted'[Lead' + k].units
              /\ accepted'[Lead' + k].real <= history'[k].at + back'
  <2>1. CASE k = Len(K) + 1
    <3>1. Lead' + k = Len(accepted) + 1
      <4> HIDE DEF Lead
      <4> QED BY <1>7, <2>1
    <3> QED BY <1>1, <1>2, <1>5, <1>6, <2>1, <3>1
  <2>2. CASE k # Len(K) + 1
    <3>1. k \in 1 .. Len(K) /\ lo + k \in DOMAIN history
      <4>1. k \in 1 .. Len(K) + 1
        BY <1>5, <1>10
      <4> QED BY <1>4, <1>7, <2>2, <4>1
    <3>2. Lead' + k = Lead + (lo + k) /\ Lead' + k \in 1 .. Len(accepted)
      <4> HIDE DEF Lead
      <4> QED BY <1>7, <3>1
    <3>3. history'[k] = history[lo + k] /\ accepted'[Lead' + k] = accepted[Lead + (lo + k)]
      BY <1>3, <1>5, <1>6, <3>1, <3>2
    <3> QED BY <1>2, <1>8, <3>1, <3>3
  <2> QED BY <2>1, <2>2
<1>11. ASSUME NEW i \in 1 .. Lead' PROVE accepted'[i].real <= real' - Day
  <2>0. i \in 1 .. Len(accepted) /\ accepted'[i] = accepted[i]
    BY <1>3, <1>4, <1>6, <1>7
  <2>1. CASE i <= Lead
    <3>1. i \in 1 .. Lead
      BY <1>7, <2>1
    <3> QED BY <1>2, <2>0, <3>1 DEF Books
  <2>2. CASE ~(i <= Lead)
    <3> DEFINE k == i - Lead
    <3>1. k \in DOMAIN history /\ k \notin lo + 1 .. Len(history) /\ Lead + k = i
      BY <1>3, <1>4, <1>7, <2>2, SMTT(30)
    <3> HIDE DEF k
    <3>2. ~(history[k].at > Now - Day)
      BY <1>3, <3>1 DEF Within
    <3>3. accepted[i].real <= history[k].at + back
      BY <1>8, <3>1
    <3>4. history[k].at \in Int /\ accepted[i].real \in Int
      BY <1>4, <2>0, <3>1
    <3> QED BY <1>1, <1>2, <2>0, <3>2, <3>3, <3>4, SMTT(30)
  <2> QED BY <2>1, <2>2
<1>12. ASSUME NEW i \in DOMAIN accepted' PROVE accepted'[i].real <= real'
  <2>1. CASE i = Len(accepted) + 1
    BY <1>1, <1>2, <1>6, <2>1
  <2>2. CASE i # Len(accepted) + 1
    <3>1. i \in DOMAIN accepted
      BY <1>4, <1>6, <2>2
    <3> QED BY <1>2, <1>4, <1>6, <3>1 DEF Books
  <2> QED BY <2>1, <2>2
<1>13. Lead' >= 0
  BY <1>3, <1>7
<1> QED BY <1>9, <1>10, <1>11, <1>12, <1>13 DEF Books

\* An acceptance respects the windows in real time, and does not change what was
\* sent in those that ended before.
LEMMA AcceptWindow ==
  ASSUME Typed, Serial, Books, WindowRespected, NEW c \in Callers, Accept(c)
  PROVE  WindowRespected'
<1> SUFFICES ASSUME NEW n, n = Len(accepted) PROVE WindowRespected'
  OBVIOUS
<1> DEFINE u == tx[c].units
           a == [real |-> real, units |-> u, limit |-> limit]
<1>1. /\ u \in Units /\ u \in Nat /\ Now \in Int /\ Now = real - back
      /\ real \in Nat /\ back \in Nat /\ Day \in Nat /\ Hour \in Nat \ {0} /\ Hour <= Day
      /\ accepted' = Append(accepted, a) /\ limit \in Limits
  <2>1. u \in Units /\ Now \in Int
    BY AcceptFacts
  <2>2. Now = real - back /\ accepted' = Append(accepted, a)
    BY DEF Now, Accept
  <2>3. real \in Nat /\ back \in Nat /\ limit \in Limits
    BY BoundAssumption DEF Typed, BoundAssumption
  <2>4. u \in Nat
    BY <2>1, BoundAssumption DEF BoundAssumption
  <2>5. Day \in Nat /\ Hour \in Nat \ {0} /\ Hour <= Day
    BY WindowAssumption DEF WindowAssumption
  <2> QED BY <2>1, <2>2, <2>3, <2>4, <2>5
<1>2. /\ limit.perHour \in Nat /\ limit.perDay \in Nat /\ limit.interval \in Nat
  BY <1>1, LimitAssumption DEF LimitAssumption
<1>3. /\ accepted \in Seq(Attempts) /\ a \in Attempts
  BY <1>1 DEF Typed, Attempts
<1>4. /\ Measured(history) /\ Len(history) \in Nat /\ DOMAIN history = 1 .. Len(history)
      /\ \A i \in 1 .. Len(history) : history[i].at \in Int
      /\ Measured(accepted) /\ n \in Nat /\ DOMAIN accepted = 1 .. n
      /\ \A i \in 1 .. n : accepted[i].real \in Int
  BY <1>3, OrderedMeasured, AcceptedMeasured DEF Typed, Ordered
<1>5. /\ accepted' \in Seq(Attempts) /\ Measured(accepted')
      /\ Len(accepted') = n + 1 /\ DOMAIN accepted' = 1 .. n + 1
      /\ accepted'[n + 1] = a /\ \A i \in 1 .. n : accepted'[i] = accepted[i]
  <2>1. accepted' \in Seq(Attempts) /\ Len(accepted') = n + 1
        /\ accepted'[n + 1] = a /\ \A i \in 1 .. n : accepted'[i] = accepted[i]
    <3> HIDE DEF a
    <3> QED BY <1>1, <1>3
  <2>2. Measured(accepted') /\ DOMAIN accepted' = 1 .. Len(accepted')
    BY <2>1, AcceptedMeasured
  <2> QED BY <2>1, <2>2
<1>6. Lead \in Nat /\ Lead + Len(history) = n
  BY <1>4 DEF Lead, Books
<1>7. ASSUME NEW window \in Int, 0 < window, window <= Day, NEW max \in Nat,
             Room(history, u, Now, window, max)
      PROVE  Sent(n + 1, window)' <= max
  <2> DEFINE S == {i \in 1 .. n + 1 : accepted'[i].real > accepted'[n + 1].real - window}
             R == Within(history, Now, window)
             away == -Lead
  <2>1. ASSUME NEW i \in 1 .. n, i \in S
        PROVE  away + i \in DOMAIN history /\ away + i \in R
               /\ history[away + i].units = accepted'[i].units
    <3> DEFINE k == away + i
    <3>1. accepted[i].real > real - window /\ accepted'[i] = accepted[i]
      BY <1>5, <2>1
    <3>2. ~(i <= Lead)
      <4> SUFFICES ASSUME i \in 1 .. Lead PROVE FALSE
        BY <1>6
      <4>1. accepted[i].real <= real - Day
        BY DEF Books
      <4> QED BY <1>1, <1>4, <1>7, <3>1, <4>1
    <3>3. k \in DOMAIN history /\ Lead + k = i
      BY <1>4, <1>6, <3>2
    <3> HIDE DEF k
    <3>4. accepted[i].real <= history[k].at + back /\ history[k].units = accepted[i].units
      BY <3>3 DEF Books
    <3>5. history[k].at > Now - window
      BY <1>1, <1>4, <1>7, <3>1, <3>3, <3>4, SMTT(30)
    <3>6. k \in R
      BY <3>3, <3>5 DEF Within
    <3> QED BY <3>1, <3>3, <3>4, <3>6 DEF k
  <2>2. /\ n \in 0 .. Len(accepted') /\ away \in Int /\ n + 1 \in 1 .. Len(accepted')
        /\ (n + 1) - 1 = n /\ n + 1 \in S
    BY <1>1, <1>4, <1>5, <1>6, <1>7
  <2> HIDE DEF S, R, away
  <2>3. Sums(accepted', S)[n] <= Total(history, R)
    BY <1>4, <1>5, <2>1, <2>2, Shift
  <2>4. Sums(accepted', S)[n + 1] = Sums(accepted', S)[n] + u
    <3>1. Sums(accepted', S)[n + 1] = Sums(accepted', S)[(n + 1) - 1] + accepted'[n + 1].units
      BY <1>5, <2>2, SumsDef
    <3> QED BY <1>5, <2>2, <3>1
  <2>5. Sums(accepted', S)[n] \in Nat /\ Total(history, R) \in Nat
    BY <1>4, <1>5, <2>2, SumsDef, TotalGrows
  <2>6. Total(history, R) <= max - u
    BY <1>7 DEF Room, R
  <2>7. Sums(accepted', S)[n + 1] <= max
    BY <1>1, <1>7, <2>3, <2>4, <2>5, <2>6, SMTT(30)
  <2>8. Sent(n + 1, window)' = Sums(accepted', S)[n + 1]
    <3>1. Sent(n + 1, window)' = Total(accepted', S)
      BY DEF Sent, S
    <3> QED BY <1>5, <3>1 DEF Total
  <2> QED BY <2>7, <2>8
<1>8. ASSUME NEW j \in 1 .. n, NEW window \in Int
      PROVE  Sent(j, window)' <= Sent(j, window) /\ Sent(j, window)' \in Nat /\ Sent(j, window) \in Nat
  <2> DEFINE S == {i \in 1 .. j : accepted[i].real > accepted[j].real - window}
  <2>1. {i \in 1 .. j : accepted'[i].real > accepted'[j].real - window} = S
    BY <1>4, <1>5
  <2>2. /\ Sent(j, window) = Total(accepted, S) /\ Sent(j, window)' = Total(accepted', S)
    BY <2>1 DEF Sent
  <2>3. /\ 0 \in Int /\ n + 1 \in 0 .. Len(accepted')
        /\ \A i \in 1 .. n + 1 : i \in S =>
              0 + i \in DOMAIN accepted /\ 0 + i \in S /\ accepted[0 + i].units = accepted'[i].units
    BY <1>4, <1>5
  <2> HIDE DEF S
  <2>4. Sums(accepted', S)[n + 1] <= Total(accepted, S)
    BY <1>4, <1>5, <2>3, Shift
  <2>5. Total(accepted', S) \in Nat /\ Total(accepted, S) \in Nat
    BY <1>4, <1>5, TotalGrows
  <2> QED BY <1>5, <2>2, <2>4, <2>5 DEF Total
<1>9. ASSUME n + 1 > 1
      PROVE  accepted'[n + 1].real - accepted'[(n + 1) - 1].real >= limit.interval
  <2> DEFINE h == Len(history)
  <2>0. accepted # <<>>
    BY <1>4, <1>9
  <2>1. h \in DOMAIN history /\ Lead + h = n /\ n \in 1 .. n
    <3>1. history # <<>> /\ history \in Seq(Events)
      BY <2>0 DEF Books, Typed, Ordered
    <3>2. Len(history) # 0
      BY <3>1
    <3>3. h \in DOMAIN history
      BY <1>4, <3>2
    <3>4. Lead + h = n
      BY <1>6
    <3>5. n \in 1 .. n
      BY <1>4, <1>9
    <3> QED BY <3>3, <3>4, <3>5
  <2>2. history[h].at + limit.interval <= Now
    BY <2>1, AcceptFacts
  <2>3. accepted[n].real <= history[h].at + back
    <3>1. \A k \in DOMAIN history : accepted[Lead + k].real <= history[k].at + back
      BY DEF Books
    <3> HIDE DEF h, Lead
    <3> QED BY <2>1, <3>1
  <2>4. history[h].at \in Int /\ accepted[n].real \in Int /\ (n + 1) - 1 = n
    BY <1>4, <2>1
  <2>5. accepted'[n + 1].real = real /\ accepted'[n] = accepted[n]
    BY <1>5, <2>1
  <2> DEFINE m == history[h].at
             p == accepted[n].real
  <2>6. real - p >= limit.interval
    <3>1. m + limit.interval <= real - back /\ p <= m + back /\ m \in Int /\ p \in Int
      BY <1>1, <2>2, <2>3, <2>4
    <3> HIDE DEF m, p
    <3> QED BY <1>1, <1>2, <3>1
  <2>7. accepted'[n + 1].real = real /\ accepted'[(n + 1) - 1].real = p
    BY <2>4, <2>5
  <2> QED BY <2>6, <2>7
<1>10. ASSUME NEW j \in DOMAIN accepted'
       PROVE  /\ Sent(j, Hour)' <= accepted'[j].limit.perHour
              /\ Sent(j, Day)' <= accepted'[j].limit.perDay
              /\ j > 1 => accepted'[j].real - accepted'[j - 1].real >= accepted'[j].limit.interval
  <2>1. CASE j = n + 1
    <3>1. Sent(n + 1, Hour)' <= limit.perHour /\ Sent(n + 1, Day)' <= limit.perDay
      BY <1>1, <1>2, <1>7, AcceptFacts
    <3>2. accepted'[n + 1].limit = limit
      BY <1>5
    <3>3. j > 1 => accepted'[j].real - accepted'[j - 1].real >= limit.interval
      BY <1>9, <2>1
    <3> QED BY <2>1, <3>1, <3>2, <3>3
  <2>2. CASE j # n + 1
    <3>1. j \in 1 .. n /\ (j > 1 => j - 1 \in 1 .. n)
      BY <1>4, <1>5, <2>2
    <3>2. /\ Sent(j, Hour) <= accepted[j].limit.perHour /\ Sent(j, Day) <= accepted[j].limit.perDay
          /\ j > 1 => accepted[j].real - accepted[j - 1].real >= accepted[j].limit.interval
      BY <1>4, <3>1 DEF WindowRespected
    <3>3. accepted'[j] = accepted[j] /\ (j > 1 => accepted'[j - 1] = accepted[j - 1])
      BY <1>5, <3>1
    <3>4. accepted[j].limit.perHour \in Int /\ accepted[j].limit.perDay \in Int
      BY <1>3, <3>1, AcceptedMeasured
    <3>5. /\ Sent(j, Hour)' <= Sent(j, Hour) /\ Sent(j, Hour)' \in Nat /\ Sent(j, Hour) \in Nat
          /\ Sent(j, Day)' <= Sent(j, Day) /\ Sent(j, Day)' \in Nat /\ Sent(j, Day) \in Nat
      <4>1. Hour \in Int /\ Day \in Int
        BY <1>1
      <4> QED BY <1>8, <3>1, <4>1
    <3> QED BY <3>2, <3>3, <3>4, <3>5
  <2> QED BY <2>1, <2>2
<1> QED BY <1>10 DEF WindowRespected

-----------------------------------------------------------------------------
(* The theorems *)

\* The invariant holds at first.
LEMMA InvInit == Init => IInv
<1> SUFFICES ASSUME Init PROVE IInv
  OBVIOUS
<1>1. Ordered(history)
  BY DEF Init, Ordered, Rising
<1>2. Typed
  BY <1>1, BoundAssumption DEF Init, Typed, BoundAssumption
<1>3. Serial /\ Books /\ WindowRespected
  BY DEF Init, Serial, Books, Lead, WindowRespected
<1> QED BY <1>2, <1>3 DEF IInv

\* Each step keeps it.
LEMMA InvStep == IInv /\ [Next]_vars => IInv'
<1> SUFFICES ASSUME IInv, [Next]_vars PROVE IInv'
  OBVIOUS
<1>0. Typed /\ Serial /\ Books /\ WindowRespected
  BY DEF IInv
<1>1. /\ real \in Nat /\ back \in Nat /\ MaxTime \in Nat /\ MaxBack \in Nat /\ Day \in Nat
      /\ \A c \in Callers : c # None
  BY <1>0, BoundAssumption, WindowAssumption, NoneAssumption
     DEF Typed, BoundAssumption, WindowAssumption, NoneAssumption
\* As long as the history, the attempts and the clocks stay, so do the books.
<1>2. ASSUME UNCHANGED <<history, accepted, real, back>> PROVE Books' /\ WindowRespected'
  BY <1>0, <1>2 DEF Books, Lead, WindowRespected, Sent
<1>3. ASSUME NEW c \in Callers, NEW u \in Units, BeginUpdate(c, u) PROVE IInv'
  <2> DEFINE r == [units |-> u, events |-> history]
  <2>1. r \in Transactions /\ r # None
    <3>1. r \in Transactions
      BY <1>0 DEF Transactions, Typed, Ordered
    <3> QED BY <3>1, NoneAssumption DEF NoneAssumption
  <2>2. /\ writer = None /\ writer' = c /\ tx' = [tx EXCEPT ![c] = r] /\ Fits(u, limit)
        /\ UNCHANGED <<history, limit, real, back, accepted>>
    BY <1>3 DEF BeginUpdate
  <2> HIDE DEF r
  <2>3. Typed'
    BY <1>0, <2>1, <2>2 DEF Typed
  <2>4. \A d \in Callers : d # c => tx'[d] = None
    BY <1>0, <1>1, <2>2 DEF Serial, Typed
  <2>5. tx'[c] = r /\ r.units = u /\ r.events = history
    BY <1>0, <2>2 DEF Typed, r
  <2>6. Serial'
    BY <2>1, <2>2, <2>4, <2>5 DEF Serial, Fits
  <2> QED BY <1>2, <2>2, <2>3, <2>6 DEF IInv
\* A transaction that closes leaves none open.
<1>4. ASSUME NEW c \in Callers, tx[c] # None, Close(c) PROVE writer' = None /\ tx' = [d \in Callers |-> None]
  BY <1>0, <1>4 DEF Close, Serial, Typed
<1>5. ASSUME NEW c \in Callers, Accept(c) PROVE IInv'
  <2>1. /\ tx[c] # None /\ Close(c) /\ UNCHANGED <<limit, real, back>> /\ tx[c].events = history
        /\ tx[c].units \in Units /\ Now \in Int
        /\ history' = Append(Kept(history, Now), [at |-> Now, units |-> tx[c].units])
        /\ accepted' = Append(accepted, [real |-> real, units |-> tx[c].units, limit |-> limit])
    BY <1>0, <1>5, AcceptFacts DEF Accept
  <2>2. writer' = None /\ tx' = [d \in Callers |-> None]
    BY <1>4, <2>1
  <2>3. \A i \in DOMAIN history : history[i].at < Now
    <3>1. limit.interval \in Nat \ {0}
      BY <1>0, LimitAssumption DEF Typed, LimitAssumption
    <3>2. \A i \in DOMAIN history : history[i].at \in Int /\ history[i].at + limit.interval <= Now
      BY <1>0, <1>5, AcceptFacts, OrderedMeasured DEF Typed, Ordered
    <3> HIDE DEF Now
    <3> QED BY <2>1, <3>1, <3>2
  <2>4. Ordered(history')
    <3> HIDE DEF Now
    <3>1. Ordered(Append(Kept(history, Now), [at |-> Now, units |-> tx[c].units]))
      BY <1>0, <2>1, <2>3, AppendOrdered DEF Typed
    <3> QED BY <2>1, <3>1
  <2>5. accepted' \in Seq(Attempts)
    <3>1. [real |-> real, units |-> tx[c].units, limit |-> limit] \in Attempts
      BY <1>0, <1>1, <2>1 DEF Attempts, Typed
    <3> QED BY <1>0, <2>1, <3>1 DEF Typed
  <2>6. Typed'
    BY <1>0, <2>1, <2>2, <2>4, <2>5 DEF Typed
  <2>7. Serial'
    BY <1>1, <2>2 DEF Serial
  <2>8. Books' /\ WindowRespected'
    BY <1>0, <1>5, AcceptBooks, AcceptWindow
  <2> QED BY <2>6, <2>7, <2>8 DEF IInv
<1>6. ASSUME NEW c \in Callers, Refuse(c) PROVE IInv'
  <2>1. tx[c] # None /\ Close(c) /\ UNCHANGED <<history, limit, real, back, accepted>>
    BY <1>6 DEF Refuse
  <2>2. writer' = None /\ tx' = [d \in Callers |-> None]
    BY <1>4, <2>1
  <2>3. Typed' /\ Serial'
    BY <1>0, <1>1, <2>1, <2>2 DEF Typed, Serial
  <2> QED BY <1>2, <2>1, <2>3 DEF IInv
<1>7. ASSUME NEW l \in Limits, Restart(l) PROVE IInv'
  <2>1. /\ \A c \in Callers : tx[c] = None
        /\ limit' = l /\ UNCHANGED <<history, writer, tx, real, back, accepted>>
    BY <1>7 DEF Restart
  <2>2. Typed' /\ Serial'
    BY <1>0, <2>1 DEF Typed, Serial
  <2> QED BY <1>2, <2>1, <2>2 DEF IInv
\* Time passes for what is in the books.
<1>8. ASSUME UNCHANGED <<history, limit, writer, tx, accepted>>,
             real' \in Nat, back' \in Nat, real <= real', back <= back'
      PROVE  Books' /\ WindowRespected' /\ Serial'
  <2>1. /\ \A i \in DOMAIN accepted : accepted[i].real \in Int
        /\ \A k \in DOMAIN history : history[k].at \in Int
        /\ DOMAIN history = 1 .. Len(history) /\ Len(history) \in Nat
        /\ DOMAIN accepted = 1 .. Len(accepted) /\ Len(accepted) \in Nat
    BY <1>0, OrderedMeasured, AcceptedMeasured DEF Typed, Ordered
  <2>2. Lead' = Lead /\ Lead \in Nat /\ Lead + Len(history) = Len(accepted)
    BY <1>0, <1>8, <2>1 DEF Lead, Books
  <2>3. ASSUME NEW k \in DOMAIN history
        PROVE  history[k].units = accepted[Lead + k].units /\ accepted[Lead + k].real <= history[k].at + back'
    <3>1. Lead + k \in DOMAIN accepted
      <4> HIDE DEF Lead
      <4> QED BY <2>1, <2>2, <2>3
    <3>2. history[k].units = accepted[Lead + k].units /\ accepted[Lead + k].real <= history[k].at + back
      BY <1>0, <2>3 DEF Books
    <3> QED BY <1>1, <1>8, <2>1, <2>3, <3>1, <3>2
  <2>4. ASSUME NEW i \in 1 .. Lead PROVE accepted[i].real <= real' - Day
    <3>1. i \in DOMAIN accepted
      <4> HIDE DEF Lead
      <4> QED BY <2>1, <2>2, <2>4
    <3>2. accepted[i].real <= real - Day
      BY <1>0, <2>4 DEF Books
    <3> QED BY <1>1, <1>8, <2>1, <3>1, <3>2
  <2>5. ASSUME NEW i \in DOMAIN accepted PROVE accepted[i].real <= real'
    <3>1. accepted[i].real <= real
      BY <1>0, <2>5 DEF Books
    <3> QED BY <1>1, <1>8, <2>1, <2>5, <3>1
  <2>6. Lead >= 0 /\ (accepted # <<>> => history # <<>>)
    BY <1>0 DEF Books
  <2>7. Books'
    <3> HIDE DEF Lead
    <3> QED BY <1>8, <2>2, <2>3, <2>4, <2>5, <2>6 DEF Books
  <2> QED BY <1>0, <1>8, <2>7 DEF WindowRespected, Sent, Serial
<1>9. CASE Tick
  <2>1. UNCHANGED <<history, limit, writer, tx, back, accepted>> /\ real < MaxTime /\ real' = real + 1
    BY <1>9 DEF Tick
  <2>2. Typed'
    BY <1>0, <1>1, <2>1 DEF Typed
  <2>3. real' \in Nat /\ back' \in Nat /\ real <= real' /\ back <= back'
    BY <1>1, <2>1
  <2> QED BY <1>8, <2>1, <2>2, <2>3 DEF IInv
<1>10. CASE SetBack
  <2>1. UNCHANGED <<history, limit, writer, tx, real, accepted>> /\ back < MaxBack /\ back' = back + 1
    BY <1>10 DEF SetBack
  <2>2. Typed'
    BY <1>0, <1>1, <2>1 DEF Typed
  <2>3. real' \in Nat /\ back' \in Nat /\ real <= real' /\ back <= back'
    BY <1>1, <2>1
  <2> QED BY <1>8, <2>1, <2>2, <2>3 DEF IInv
<1>11. CASE UNCHANGED vars
  <2>1. UNCHANGED <<history, limit, writer, tx, real, back, accepted>>
    BY <1>11 DEF vars
  <2>2. Typed' /\ Serial'
    BY <1>0, <2>1 DEF Typed, Serial
  <2> QED BY <1>2, <2>1, <2>2 DEF IInv
<1> QED BY <1>3, <1>5, <1>6, <1>7, <1>9, <1>10, <1>11 DEF Next

\* The invariant holds in every state.
THEOREM LimiterInvariant == Spec => []IInv
<1> QED BY InvInit, InvStep, PTL DEF Spec

\* Types: histories are lists of positive events, and only an open transaction holds the
\* writer lock.
THEOREM LimiterTypeOK == Spec => []TypeOK
<1>1. IInv => TypeOK
  <2> SUFFICES ASSUME IInv PROVE TypeOK
    OBVIOUS
  <2>1. Typed /\ (writer # None => tx[writer] # None)
    BY DEF IInv, Serial
  <2> QED BY <2>1 DEF Typed, Ordered, TypeOK
<1> QED BY <1>1, LimiterInvariant, PTL

\* For any windows, limits and sizes, any number of callers, however long it runs and
\* however far the clock is set back: nothing is accepted that exceeds the limit in force
\* in the hour or the day of real time that it ends, or comes before the interval is over.
THEOREM LimiterWindowRespected == Spec => []WindowRespected
<1>1. IInv => WindowRespected
  BY DEF IInv
<1> QED BY <1>1, LimiterInvariant, PTL

\* In every state that is reached, a caller that is refused and told to wait would be
\* refused at every earlier moment and allowed at that one, if nothing else is accepted.
THEOREM LimiterRetryExact == Spec => []RetryExact
<1>1. IInv => RetryExact
  <2> SUFFICES ASSUME IInv, NEW u \in Units, Fits(u, limit), ~Allowed(history, u, Now, limit),
                      NEW wait, wait = RetryAfter(history, u, Now, limit)
               PROVE  /\ Allowed(history, u, Now + wait, limit)
                      /\ \A d \in 0 .. wait - 1 : ~Allowed(history, u, Now + d, limit)
    BY DEF RetryExact
  <2>1. Ordered(history) /\ limit \in Limits /\ Now \in Int
    BY DEF IInv, Typed, Now
  <2> HIDE DEF Now
  <2> QED BY <2>1, WaitIsExact
<1> QED BY <1>1, LimiterInvariant, PTL
=============================================================================
