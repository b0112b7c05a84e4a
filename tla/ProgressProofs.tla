---------------------------- MODULE ProgressProofs -------------------------
(***************************************************************************)
(* The -x limit and the progress report for every number of threads, every *)
(* load, rate, frame and prefix: the limit is kept where no sleep is cut,  *)
(* no thread is held back below it in a transfer from the start, and what  *)
(* is reported is true, once and in order.                                 *)
(***************************************************************************)
EXTENDS Progress, RangesProofs, FiniteSetTheorems, TLAPS

USE DEF Threads

LEMMA Consts ==
    /\ N \in Nat /\ N > 0 /\ Frame \in Nat /\ Frame > 0 /\ Rate \in Nat /\ Rate > 0
    /\ SleepCap \in Nat /\ SleepCap > 0 /\ Resumed \in Nat /\ Load \in Nat
  BY ThrottleAssumption

USE Consts

LEMMA Products == N * Frame \in Nat /\ Rate * SleepCap \in Nat
  BY Distribute

----------------------------------------------------------------------------
\* The bytes allowed by now.
Allowed == Rate * now

LEMMA AllowedNat == ASSUME now \in Nat PROVE Allowed \in Nat /\ Rate * (now + 1) = Allowed + Rate
  BY DEF Allowed

\* A sleep ends no earlier than its count is due unless it is cut, and less than a
\* tick after.
LEMMA WaitBounds ==
    ASSUME now \in Nat, NEW n \in Nat
    PROVE  /\ Wait(n) \in Nat
           /\ n <= Rate * (now + Wait(n)) \/ Rate * (now + Wait(n)) = Allowed + Rate * SleepCap
           /\ Wait(n) = 0 \/ Rate * (now + Wait(n) - 1) < n
  <1>1. Allowed \in Nat /\ Allowed = Rate * now
    BY AllowedNat DEF Allowed
  <1>2. CASE n <= Allowed
    BY <1>1, <1>2 DEF Wait
  <1>3. CASE n > Allowed
    <2> DEFINE x == n - Allowed + Rate - 1
               d == Due(n)
    <2>1. x \in Nat /\ d = x \div Rate
      BY <1>1, <1>3 DEF Due
    <2>20. d \in Nat /\ \E w \in 0..(Rate - 1) : x = Rate * d + w
      <3>1. Rate \in Nat \ {0}
        OBVIOUS
      <3> HIDE DEF x
      <3>2. x \div Rate \in Nat /\ x % Rate \in 0..(Rate - 1) /\ x = Rate * (x \div Rate) + (x % Rate)
        BY <2>1, <3>1, DivMod
      <3> QED BY <2>1, <3>2
    <2>2. PICK w \in 0..(Rate - 1) : x = Rate * d + w
      BY <2>20
    <2> HIDE DEF d
    <2>21. Rate * d \in Nat
      BY <2>20, Distribute
    <2>3. Rate * d \in Nat /\ Rate * d >= n - Allowed /\ Rate * d - Rate < n - Allowed
      BY <1>1, <2>2, <2>21
    <2>4. Wait(n) = IF d <= SleepCap THEN d ELSE SleepCap
      BY <1>1, <1>3 DEF Wait, d
    <2>5. CASE d <= SleepCap
      <3>1. Rate * (now + d) = Allowed + Rate * d /\ Rate * (now + d - 1) = Allowed + Rate * d - Rate
        BY <1>1, <2>20
      <3> QED BY <1>1, <2>20, <2>3, <2>4, <2>5, <3>1
    <2>6. CASE d > SleepCap
      <3>1. /\ Rate * (now + SleepCap) = Allowed + Rate * SleepCap
            /\ Rate * (now + SleepCap - 1) = Allowed + Rate * SleepCap - Rate
        BY <1>1
      <3>2. Rate * SleepCap \in Nat /\ Rate * SleepCap <= Rate * d
        BY <2>20, <2>6, ProductMonotone
      <3> QED BY <1>1, <2>20, <2>3, <2>4, <2>6, <3>1, <3>2
    <2> QED BY <2>20, <2>5, <2>6
  <1> QED BY <1>1, <1>2, <1>3

----------------------------------------------------------------------------
PaceType ==
    /\ now \in Nat /\ total \in Nat /\ total >= Resumed
    /\ left \in [Threads -> Nat] /\ seen \in [Threads -> Nat] /\ until \in [Threads -> Nat]
    /\ pc \in [Threads -> {"move", "pause", "sleep", "done", "failed"}]
    /\ \A i \in Threads : seen[i] <= total

\* Each count the clock has not reached is one that a thread is in throttle for:
\* so there are at most N of them.
Pending ==
    \A m \in Nat :
        total - m * Frame - Resumed > Allowed =>
            \E k \in Threads : seen[k] = total - m * Frame /\ pc[k] \in {"pause", "sleep"}

SleepsLong ==
    \A i \in Threads : pc[i] = "sleep" => seen[i] - Resumed <= Rate * until[i]

SleepsShort ==
    \A i \in Threads : pc[i] = "sleep" => until[i] <= now \/ Rate * (until[i] - 1) < seen[i]

LEMMA Update ==
    ASSUME NEW S, NEW T, NEW g \in [S -> T], NEW i \in S, NEW x \in T
    PROVE  /\ [g EXCEPT ![i] = x] \in [S -> T] /\ [g EXCEPT ![i] = x][i] = x
           /\ \A k \in S \ {i} : [g EXCEPT ![i] = x][k] = g[k]
  OBVIOUS

LEMMA PaceTypeStep == PaceType /\ [Next]_vars => PaceType'
  <1> SUFFICES ASSUME PaceType, [Next]_vars PROVE PaceType'
    OBVIOUS
  <1> USE DEF PaceType
  <1>1. ASSUME NEW i \in Threads, Move(i) PROVE PaceType'
    <2>1. /\ total' = total + Frame /\ left' = [left EXCEPT ![i] = left[i] - 1]
          /\ seen' = [seen EXCEPT ![i] = total'] /\ pc' = [pc EXCEPT ![i] = "pause"]
          /\ UNCHANGED <<now, until>> /\ left[i] > 0
      BY <1>1 DEF Move
    <2>2. total' \in Nat /\ total' >= total
      BY <2>1
    <2> HIDE DEF Threads
    <2>20. seen' \in [Threads -> Nat] /\ seen'[i] = total' /\ \A k \in Threads \ {i} : seen'[k] = seen[k]
      BY <2>1, <2>2, Update
    <2>3. seen' \in [Threads -> Nat] /\ \A k \in Threads : seen'[k] <= total'
      BY <2>2, <2>20
    <2>40. left[i] - 1 \in Nat
      BY <2>1
    <2>4. left' \in [Threads -> Nat] /\ pc' \in [Threads -> {"move", "pause", "sleep", "done", "failed"}]
      BY <2>1, <2>40, Update
    <2> QED BY <2>1, <2>2, <2>3, <2>4
  <1>2. ASSUME NEW i \in Threads, Fail(i) PROVE PaceType'
    BY <1>2 DEF Fail
  <1>3. ASSUME NEW i \in Threads, Pause(i) PROVE PaceType'
    <2>1. Wait(seen[i]) \in Nat
      BY WaitBounds
    <2>2. until' \in [Threads -> Nat]
      <3>1. now + Wait(seen[i]) \in Nat
        BY <2>1
      <3>2. until' = [until EXCEPT ![i] = now + Wait(seen[i])] /\ until \in [Threads -> Nat]
        BY <1>3 DEF Pause
      <3> HIDE DEF PaceType, Threads
      <3> QED BY <3>1, <3>2, Update
    <2>3. pc' \in [Threads -> {"move", "pause", "sleep", "done", "failed"}]
      BY <1>3 DEF Pause
    <2> QED BY <1>3, <2>2, <2>3 DEF Pause
  <1>4. ASSUME NEW i \in Threads, Wake(i) PROVE PaceType'
    BY <1>4 DEF Wake
  <1>5. ASSUME NEW i \in Threads, Finish(i) PROVE PaceType'
    BY <1>5 DEF Finish
  <1>6. CASE Tick
    BY <1>6 DEF Tick
  <1>7. CASE UNCHANGED vars
    BY <1>7 DEF vars
  <1> QED BY <1>1, <1>2, <1>3, <1>4, <1>5, <1>6, <1>7 DEF Next, Thread

\* More than N counts not reached would be two of them for one thread.
LEMMA PendingBounds == PaceType /\ Pending => RateHeld
  <1> SUFFICES ASSUME PaceType, Pending, ~RateHeld PROVE FALSE
    OBVIOUS
  <1> DEFINE M == 0..N
             count(m) == total - m * Frame
  <1>1. Allowed \in Nat /\ total \in Nat /\ N * Frame \in Nat
    BY AllowedNat, Products DEF PaceType
  <1>2. total - Resumed > Allowed + N * Frame
    BY <1>1 DEF RateHeld, Payload, Allowed, PaceType
  <1>3. \A m \in M : \E k \in Threads : seen[k] = count(m)
    <2> TAKE m \in M
    <2>1. m * Frame \in Nat /\ m * Frame <= N * Frame
      BY ProductMonotone, Distribute
    <2> QED BY <1>1, <1>2, <2>1 DEF Pending
  <1> DEFINE f == [m \in M |-> CHOOSE k \in Threads : seen[k] = count(m)]
  <1>4. f \in [M -> Threads] /\ \A m \in M : seen[f[m]] = count(m)
    BY <1>3
  <1>5. /\ IsFiniteSet(M) /\ Cardinality(M) = N + 1
        /\ IsFiniteSet(Threads) /\ Cardinality(Threads) = N
    <2>1. /\ IsFiniteSet(0..N) /\ Cardinality(0..N) = N + 1
      BY FS_Interval
    <2>2. N - 1 \in Int /\ ~(0 > N - 1) /\ N - 1 - 0 + 1 = N
      OBVIOUS
    <2>3. IsFiniteSet(0..(N - 1)) /\ Cardinality(0..(N - 1)) = N
      BY <2>2, FS_Interval
    <2> QED BY <2>1, <2>3
  <1> HIDE DEF f
  <1>6. PICK a \in M, b \in M : a # b /\ f[a] = f[b]
    <2>1. Cardinality(Threads) < Cardinality(M)
      BY <1>5
    <2> HIDE DEF M, Threads
    <2> QED BY <1>4, <1>5, <2>1, FS_PigeonHole
  <1>7. ASSUME NEW x \in M, NEW y \in M, x < y, count(x) = count(y) PROVE FALSE
    <2>1. x * Frame \in Nat /\ y * Frame \in Nat /\ (x + 1) * Frame = x * Frame + Frame
      BY Distribute
    <2>2. (x + 1) * Frame <= y * Frame
      BY <1>7, ProductMonotone
    <2> QED BY <1>1, <1>7, <2>1, <2>2
  <1>8. a < b \/ b < a
    BY <1>6
  <1> QED BY <1>4, <1>6, <1>7, <1>8

LEMMA PendingStep == PaceType /\ Pending /\ SleepsLong /\ [Next]_vars => Pending'
  <1> SUFFICES ASSUME PaceType, Pending, SleepsLong, [Next]_vars, NEW m \in Nat,
                      (total - m * Frame - Resumed > Allowed)'
               PROVE  (\E k \in Threads : seen[k] = total - m * Frame /\ pc[k] \in {"pause", "sleep"})'
    BY DEF Pending
  <1>0. Allowed \in Nat /\ m * Frame \in Nat
    BY AllowedNat, Distribute DEF PaceType
  <1> USE DEF PaceType
  <1>1. ASSUME NEW i \in Threads, Move(i)
        PROVE  \E k \in Threads : seen'[k] = total' - m * Frame /\ pc'[k] \in {"pause", "sleep"}
    <2>1. total' = total + Frame /\ Allowed' = Allowed /\ pc[i] = "move"
      BY <1>1 DEF Move, Allowed
    <2>2. CASE m = 0
      BY <1>1, <2>1, <2>2 DEF Move
    <2>3. CASE m > 0
      <3>1. (m - 1) \in Nat /\ m * Frame = (m - 1) * Frame + Frame /\ (m - 1) * Frame \in Nat
        <4>1. m - 1 \in Nat /\ (m - 1) + 1 = m
          BY <2>3
        <4> QED BY <4>1, Distribute
      <3>2. total' - m * Frame = total - (m - 1) * Frame
        BY <2>1, <3>1
      <3>3. PICK k \in Threads : seen[k] = total - (m - 1) * Frame /\ pc[k] \in {"pause", "sleep"}
        BY <2>1, <3>1, <3>2 DEF Pending
      <3> QED BY <1>1, <2>1, <3>2, <3>3 DEF Move
    <2> QED BY <2>2, <2>3
  <1>2. ASSUME total' = total, Allowed' >= Allowed, Allowed' \in Nat
        PROVE  \E k \in Threads : seen[k] = total - m * Frame /\ pc[k] \in {"pause", "sleep"}
    <2>1. total - m * Frame - Resumed > Allowed
      BY <1>0, <1>2
    <2> QED BY <2>1 DEF Pending
  <1>3. ASSUME NEW i \in Threads, Fail(i) \/ Pause(i) \/ Finish(i)
        PROVE  \E k \in Threads : seen'[k] = total' - m * Frame /\ pc'[k] \in {"pause", "sleep"}
    <2>1. total' = total /\ Allowed' = Allowed /\ seen' = seen
      BY <1>3 DEF Fail, Pause, Finish, Allowed
    <2>2. \A k \in Threads : pc[k] \in {"pause", "sleep"} => pc'[k] \in {"pause", "sleep"}
      BY <1>3 DEF Fail, Pause, Finish
    <2> QED BY <1>0, <1>2, <2>1, <2>2
  <1>4. ASSUME NEW i \in Threads, Wake(i)
        PROVE  \E k \in Threads : seen'[k] = total' - m * Frame /\ pc'[k] \in {"pause", "sleep"}
    <2>1. total' = total /\ Allowed' = Allowed /\ seen' = seen
      BY <1>4 DEF Wake, Allowed
    <2>2. PICK k \in Threads : seen[k] = total - m * Frame /\ pc[k] \in {"pause", "sleep"}
      BY <1>0, <1>2, <2>1
    <2>3. seen[i] - Resumed <= Allowed
      <3>1. Rate * until[i] \in Nat /\ Rate * until[i] <= Allowed
        <4>1. until[i] \in Nat /\ until[i] <= now /\ now \in Nat
          BY <1>4 DEF Wake
        <4>2. until[i] * Rate <= now * Rate
          BY <4>1, ProductMonotone
        <4>3. Rate * until[i] \in Nat /\ Rate * until[i] = until[i] * Rate /\ Rate * now = now * Rate
          BY <4>1, Distribute
        <4> QED BY <4>2, <4>3 DEF Allowed
      <3>2. seen[i] - Resumed <= Rate * until[i]
        BY <1>4 DEF Wake, SleepsLong
      <3>3. seen[i] \in Nat
        OBVIOUS
      <3> HIDE DEF PaceType, Threads
      <3> QED BY <1>0, <3>1, <3>2, <3>3
    <2>4. k # i
      BY <1>0, <2>1, <2>2, <2>3
    <2> QED BY <1>4, <2>1, <2>2, <2>4 DEF Wake
  <1>5. CASE Tick
    <2>1. total' = total /\ seen' = seen /\ pc' = pc /\ now' = now + 1
      BY <1>5 DEF Tick
    <2>2. Allowed' = Allowed + Rate
      BY <2>1, AllowedNat DEF Allowed
    <2> QED BY <1>0, <1>2, <2>1, <2>2
  <1>6. CASE UNCHANGED vars
    BY <1>0, <1>2, <1>6 DEF vars, Allowed
  <1> QED BY <1>1, <1>3, <1>4, <1>5, <1>6 DEF Next, Thread

LEMMA SleepsLongStep ==
    ASSUME N * Frame <= Rate * SleepCap
    PROVE  PaceType /\ Pending /\ SleepsLong /\ [Next]_vars => SleepsLong'
  <1> SUFFICES ASSUME PaceType, Pending, SleepsLong, [Next]_vars PROVE SleepsLong'
    OBVIOUS
  <1> USE DEF PaceType, SleepsLong
  <1>1. ASSUME NEW i \in Threads, Pause(i) PROVE SleepsLong'
    <2>1. RateHeld /\ Allowed \in Nat /\ N * Frame \in Nat /\ Rate * SleepCap \in Nat
      BY PendingBounds, AllowedNat, Products
    <2>2. seen[i] - Resumed <= Allowed + Rate * SleepCap
      BY <2>1 DEF RateHeld, Payload, Allowed
    <2>3. Wait(seen[i]) \in Nat /\ seen[i] - Resumed <= Rate * (now + Wait(seen[i]))
      <3>0. seen[i] \in Nat /\ now \in Nat
        OBVIOUS
      <3> HIDE DEF PaceType, SleepsLong, Threads
      <3>1. Wait(seen[i]) \in Nat /\ now + Wait(seen[i]) \in Nat
        BY <3>0, WaitBounds
      <3>2. Rate * (now + Wait(seen[i])) \in Nat
        BY <3>1, Distribute
      <3>3. \/ seen[i] <= Rate * (now + Wait(seen[i]))
            \/ Rate * (now + Wait(seen[i])) = Allowed + Rate * SleepCap
        BY <3>0, WaitBounds
      <3> QED BY <2>1, <2>2, <3>0, <3>1, <3>2, <3>3
    <2>4. /\ until'[i] = now + Wait(seen[i]) /\ UNCHANGED seen
          /\ \A k \in Threads \ {i} : until'[k] = until[k] /\ pc'[k] = pc[k]
      BY <1>1 DEF Pause
    <2> QED BY <2>3, <2>4
  <1>2. ASSUME NEW i \in Threads, Move(i) PROVE SleepsLong'
    BY <1>2 DEF Move
  <1>3. ASSUME NEW i \in Threads, Fail(i) \/ Wake(i) \/ Finish(i) PROVE SleepsLong'
    BY <1>3 DEF Fail, Wake, Finish
  <1>4. CASE Tick \/ UNCHANGED vars
    BY <1>4 DEF Tick, vars
  <1> QED BY <1>1, <1>2, <1>3, <1>4 DEF Next, Thread

LEMMA SleepsShortStep == PaceType /\ SleepsShort /\ [Next]_vars => SleepsShort'
  <1> SUFFICES ASSUME PaceType, SleepsShort, [Next]_vars PROVE SleepsShort'
    OBVIOUS
  <1> USE DEF PaceType, SleepsShort
  <1>1. ASSUME NEW i \in Threads, Pause(i) PROVE SleepsShort'
    <2>1. /\ Wait(seen[i]) \in Nat
          /\ Wait(seen[i]) = 0 \/ Rate * (now + Wait(seen[i]) - 1) < seen[i]
      <3>1. seen[i] \in Nat /\ now \in Nat
        OBVIOUS
      <3> HIDE DEF PaceType, SleepsShort, Threads
      <3> QED BY <3>1, WaitBounds
    <2>2. /\ until'[i] = now + Wait(seen[i]) /\ UNCHANGED <<seen, now>>
          /\ \A k \in Threads \ {i} : until'[k] = until[k] /\ pc'[k] = pc[k]
      BY <1>1 DEF Pause
    <2>3. until'[i] <= now \/ Rate * (until'[i] - 1) < seen[i]
      <3>1. now \in Nat
        OBVIOUS
      <3> HIDE DEF PaceType, SleepsShort, Threads
      <3>2. CASE Wait(seen[i]) = 0
        BY <2>2, <3>1, <3>2
      <3>3. CASE Rate * (now + Wait(seen[i]) - 1) < seen[i]
        <4>1. until'[i] - 1 = now + Wait(seen[i]) - 1
          BY <2>1, <2>2, <3>1
        <4> QED BY <3>3, <4>1, Zenon
      <3> QED BY <2>1, <3>2, <3>3
    <2> QED BY <2>2, <2>3
  <1>2. ASSUME NEW i \in Threads, Move(i) PROVE SleepsShort'
    BY <1>2 DEF Move
  <1>3. ASSUME NEW i \in Threads, Fail(i) \/ Wake(i) \/ Finish(i) PROVE SleepsShort'
    BY <1>3 DEF Fail, Wake, Finish
  <1>4. CASE Tick \/ UNCHANGED vars
    BY <1>4 DEF Tick, vars
  <1> QED BY <1>1, <1>2, <1>3, <1>4 DEF Next, Thread

LEMMA PaceInit == Init => PaceType /\ Pending /\ SleepsLong /\ SleepsShort
  <1> SUFFICES ASSUME Init PROVE PaceType /\ Pending /\ SleepsLong /\ SleepsShort
    OBVIOUS
  <1>1. PaceType /\ SleepsLong /\ SleepsShort
    BY DEF Init, PaceType, SleepsLong, SleepsShort
  <1>2. ASSUME NEW m \in Nat PROVE ~(total - m * Frame - Resumed > Allowed)
    <2>1. m * Frame \in Nat /\ Allowed = 0 /\ total = Resumed
      BY Distribute DEF Init, Allowed
    <2> QED BY <2>1
  <1> QED BY <1>1, <1>2 DEF Pending

----------------------------------------------------------------------------
\* The stream threads of Progress are those of Throttle.
LEMMA ProgressPays == [ProgressNext]_allVars => [Next]_vars
  BY DEF ProgressNext, Pay, Next, Updater, UpdaterSleeps, UpdaterReads, UpdaterReports,
         Join, Stop, End, Final, allVars

\* The limit is kept, however many threads share the counter, as long as a round of
\* frames is due within the longest sleep (frames.rs throttle).
THEOREM ProgressRateHeld == N * Frame <= Rate * SleepCap => (ProgressSpec => []RateHeld)
  <1> SUFFICES ASSUME N * Frame <= Rate * SleepCap PROVE ProgressSpec => []RateHeld
    OBVIOUS
  <1> DEFINE Inv == PaceType /\ Pending /\ SleepsLong
  <1>1. ProgressInit => Inv
    BY PaceInit DEF ProgressInit
  <1>2. Inv /\ [ProgressNext]_allVars => Inv'
    BY ProgressPays, PaceTypeStep, PendingStep, SleepsLongStep
  <1>3. Inv => RateHeld
    BY PendingBounds
  <1> QED BY <1>1, <1>2, <1>3, PTL DEF ProgressSpec

\* In a transfer from the start no thread sleeps while the payload is behind the rate
\* (frames.rs throttle).
THEOREM ProgressNotStarved == Resumed = 0 => (ProgressSpec => []NotStarved)
  <1> SUFFICES ASSUME Resumed = 0 PROVE ProgressSpec => []NotStarved
    OBVIOUS
  <1>1. ProgressInit => PaceType /\ SleepsShort
    BY PaceInit DEF ProgressInit
  <1>2. (PaceType /\ SleepsShort) /\ [ProgressNext]_allVars => (PaceType /\ SleepsShort)'
    BY ProgressPays, PaceTypeStep, SleepsShortStep
  <1>3. PaceType /\ SleepsShort => NotStarved
    <2> SUFFICES ASSUME PaceType, SleepsShort, NEW i \in Threads, pc[i] = "sleep", until[i] > now
                 PROVE  Payload > Rate * now
      BY DEF NotStarved
    <2>1. /\ seen[i] \in Nat /\ until[i] \in Nat /\ now \in Nat /\ total \in Nat /\ seen[i] <= total
          /\ Rate * (until[i] - 1) < seen[i]
      BY DEF PaceType, SleepsShort
    <2> HIDE DEF Threads
    <2>2. until[i] - 1 \in Nat /\ now <= until[i] - 1
      BY <2>1
    <2>3. now * Rate <= (until[i] - 1) * Rate
      BY <2>1, <2>2, ProductMonotone
    <2>4. /\ now * Rate = Rate * now /\ Rate * now \in Nat
          /\ (until[i] - 1) * Rate = Rate * (until[i] - 1) /\ Rate * (until[i] - 1) \in Nat
      BY <2>1, <2>2, Distribute
    <2> QED BY <2>1, <2>3, <2>4 DEF Payload
  <1> QED BY <1>1, <1>2, <1>3, PTL DEF ProgressSpec

----------------------------------------------------------------------------
\* Until the end what is shown has been counted and is short of 100 %, and the reporting
\* thread is gone by then.
ReportInv ==
    /\ PaceType
    /\ shown \in Int /\ read \in Nat /\ read <= total
    /\ main \in {"join", "stop", "wait", "end"}
    /\ main # "end" => shown <= total /\ shown < Size
    /\ main = "end" => updater = "gone"
    /\ updater = "report" => read < Size /\ shown <= read

LEMMA SizeNat == Size \in Nat
  <1>1. N * Load \in Nat
    BY Distribute
  <1>2. (N * Load) * Frame \in Nat
    BY <1>1, Distribute
  <1> QED BY <1>2 DEF Size

LEMMA ReportStep ==
    ReportInv /\ [ProgressNext]_allVars =>
        ReportInv' /\ shown' >= shown /\ (main = "end" => shown' = shown /\ finals' = finals)
  <1> SUFFICES ASSUME ReportInv, [ProgressNext]_allVars
               PROVE  ReportInv' /\ shown' >= shown /\ (main = "end" => shown' = shown /\ finals' = finals)
    OBVIOUS
  <1> USE SizeNat DEF ReportInv
  <1>0. PaceType' /\ total \in Nat /\ total' \in Nat
    BY ProgressPays, PaceTypeStep DEF PaceType
  <1> HIDE DEF Threads
  <1>1. CASE UNCHANGED progressVars
    <2>1. total' >= total
      <3>1. ASSUME NEW i \in Threads, Move(i) PROVE total' >= total
        BY <1>0, <3>1 DEF Move
      <3>2. total' = total \/ \E i \in Threads : Move(i)
        BY ProgressPays DEF Next, Thread, Fail, Pause, Wake, Finish, Tick, vars
      <3> QED BY <1>0, <3>1, <3>2
    <2> QED BY <1>0, <1>1, <2>1 DEF progressVars
  <1>2. CASE UpdaterSleeps
    BY <1>0, <1>2 DEF UpdaterSleeps, vars
  <1>3. CASE UpdaterReads
    BY <1>0, <1>3 DEF UpdaterReads, vars
  <1>4. CASE UpdaterReports
    BY <1>0, <1>4 DEF UpdaterReports, Show, vars
  <1>5. CASE Join
    BY <1>0, <1>5 DEF Join, vars
  <1>6. CASE Stop
    BY <1>0, <1>6 DEF Stop, vars
  <1>7. CASE End
    <2>1. main = "wait" /\ main' = "end" /\ updater = "gone" /\ UNCHANGED <<vars, updater, read>>
      BY <1>7 DEF End, Final
    <2>2. shown' = Size \/ shown' = shown
      BY <1>7 DEF End, Final, Show
    <2> QED BY <1>0, <2>1, <2>2 DEF vars
  <1> QED BY <1>1, <1>2, <1>3, <1>4, <1>5, <1>6, <1>7
          DEF ProgressNext, Pay, Updater, allVars, progressVars

\* What is shown never goes back, and nothing is shown after the end
\* (engine.rs start_progress, finish_progress, stop_progress).
THEOREM ProgressShownRises == ProgressSpec => ShownRises
  <1>1. ProgressInit => ReportInv
    BY PaceInit, SizeNat DEF ProgressInit, ReportInv, PaceType
  <1>2. ReportInv /\ [ProgressNext]_allVars => ReportInv'
    BY ReportStep
  <1>3. ReportInv /\ [ProgressNext]_allVars =>
          [shown' >= shown /\ (main = "end" => shown' = shown /\ finals' = finals)]_allVars
    BY ReportStep
  <1> QED BY <1>1, <1>2, <1>3, PTL DEF ProgressSpec, ShownRises
----------------------------------------------------------------------------
\* The payload of m frames.
Bytes(m) == m * Frame

LEMMA BytesNat == ASSUME NEW m \in Nat PROVE Bytes(m) \in Nat /\ Bytes(m + 1) = Bytes(m) + Frame
  BY Distribute DEF Bytes

\* The frames the threads not yet joined have left are what the counter is short of: c[i]
\* is the counter less what the threads from i on have left, so that c is Size once the
\* threads before it are done.
Counts(c) ==
    /\ c[joined] = Size /\ c[N] = total
    /\ \A i \in Threads : i >= joined => c[i + 1] = c[i] - Bytes(left[i])

CountInv == failed \/ \E c \in [0..N -> Int] : Counts(c)

\* A thread is joined when it is done, and only the main thread shows 100 %.
JoinInv ==
    /\ joined \in 0..N
    /\ \A i \in Threads : pc[i] = "done" => left[i] = 0
    /\ ~failed => \A i \in Threads : i < joined => pc[i] = "done"
    /\ main = "join" => ~failed /\ joined < N
    /\ main # "join" /\ ~failed => joined = N
    /\ main # "end" => finals = 0
    /\ main = "end" /\ ~failed /\ (json \/ ticking) => finals = 1
    /\ main = "end" /\ (failed \/ ~(json \/ ticking)) => finals = 0

FinalInv == ReportInv /\ JoinInv /\ CountInv

LEMMA CountInit == ProgressInit => CountInv
  <1> SUFFICES ASSUME ProgressInit PROVE CountInv
    OBVIOUS
  <1> DEFINE L == Load * Frame
             c == [i \in 0..N |-> Size - i * L]
  <1>1. /\ joined = 0 /\ total = Resumed /\ left = [i \in Threads |-> Load]
    BY DEF ProgressInit, Init
  <1>2. L \in Nat /\ \A i \in 0..N : i * L \in Nat /\ (i + 1) * L = i * L + L
    <2>1. L \in Nat
      BY Distribute
    <2> HIDE DEF L
    <2> QED BY <2>1, Distribute
  <1>3. Size = Resumed + N * L
    BY DEF Size
  <1>4. 0 * L = 0
    BY <1>2
  <1>5. \A i \in Threads : Bytes(left[i]) = L
    BY <1>1 DEF Bytes
  <1> HIDE DEF L
  <1>6. c \in [0..N -> Int]
    BY <1>2, SizeNat
  <1>7. Counts(c)
    <2>1. c[0] = Size /\ c[N] = total
      BY <1>1, <1>2, <1>3, <1>4, SizeNat
    <2>2. ASSUME NEW i \in Threads PROVE c[i + 1] = c[i] - Bytes(left[i])
      <3>1. c[i + 1] = Size - (i + 1) * L /\ c[i] = Size - i * L
        OBVIOUS
      <3>2. i * L \in Nat /\ (i + 1) * L = i * L + L /\ Bytes(left[i]) = L
        BY <1>2, <1>5
      <3> HIDE DEF c
      <3> QED BY <1>2, <3>1, <3>2, SizeNat
    <2> QED BY <1>1, <2>1, <2>2 DEF Counts
  <1> QED BY <1>6, <1>7 DEF CountInv

\* A frame that a thread carries is one less left to it, and one more counted from it on.
LEMMA MoveCounts ==
    ASSUME PaceType, JoinInv, CountInv, NEW i \in Threads, Move(i), UNCHANGED progressVars
    PROVE  CountInv'
  <1>1. CASE failed
    BY <1>1 DEF CountInv, progressVars
  <1>2. CASE ~failed
    <2>1. PICK c \in [0..N -> Int] : Counts(c)
      BY <1>2 DEF CountInv
    <2> DEFINE d == [k \in 0..N |-> IF k <= i THEN c[k] ELSE c[k] + Frame]
    <2>2. /\ total' = total + Frame /\ left' = [left EXCEPT ![i] = left[i] - 1]
          /\ joined' = joined /\ pc[i] = "move"
      BY DEF Move, progressVars
    <2>3. joined \in 0..N /\ joined <= i
      BY <1>2, <2>2 DEF JoinInv
    <2>4. d \in [0..N -> Int]
      OBVIOUS
    <2>5. d[joined'] = Size /\ d[N] = total'
      BY <2>1, <2>2, <2>3 DEF Counts
    <2>6. ASSUME NEW k \in Threads, k >= joined' PROVE d[k + 1] = d[k] - Bytes(left'[k])
      <3>1. c[k + 1] = c[k] - Bytes(left[k]) /\ c[k] \in Int /\ c[k + 1] \in Int
        BY <2>1, <2>2, <2>6 DEF Counts
      <3>2. CASE k = i
        <4>1. left[i] \in Nat /\ left[i] > 0 /\ left'[k] = left[i] - 1
          BY <2>2, <3>2 DEF PaceType, Move
        <4>2. left[i] - 1 \in Nat /\ (left[i] - 1) + 1 = left[i]
          BY <4>1
        <4>3. Bytes(left[i] - 1) \in Nat /\ Bytes(left[i]) = Bytes(left[i] - 1) + Frame
          BY <4>2, BytesNat
        <4>4. d[k] = c[k] /\ d[k + 1] = c[k + 1] + Frame
          BY <3>2
        <4> HIDE DEF d
        <4> QED BY <3>1, <3>2, <4>1, <4>3, <4>4
      <3>3. CASE k # i
        <4>1. left[k] \in Nat /\ left'[k] = left[k]
          BY <2>2, <3>3 DEF PaceType
        <4>2. Bytes(left[k]) \in Nat
          BY <4>1, BytesNat
        <4>3. CASE k < i
          <5>1. d[k] = c[k] /\ d[k + 1] = c[k + 1]
            BY <4>3
          <5> QED BY <3>1, <4>1, <5>1
        <4>4. CASE k > i
          <5>1. d[k] = c[k] + Frame /\ d[k + 1] = c[k + 1] + Frame
            BY <4>4
          <5> HIDE DEF d
          <5> QED BY <3>1, <4>1, <4>2, <5>1
        <4> QED BY <3>3, <4>3, <4>4
      <3> QED BY <3>2, <3>3
    <2> HIDE DEF d
    <2> QED BY <2>4, <2>5, <2>6 DEF CountInv, Counts
  <1> QED BY <1>1, <1>2

\* Of a thread that is done none is left.
LEMMA JoinCounts == ASSUME PaceType, JoinInv, CountInv, Join PROVE CountInv'
  <1>1. joined \in Threads /\ joined' = joined + 1 /\ ~failed /\ UNCHANGED <<total, left>>
    BY DEF Join, JoinInv, vars
  <1>2. CASE pc[joined] = "failed"
    BY <1>2 DEF Join, CountInv
  <1>3. CASE pc[joined] = "done"
    <2>1. PICK c \in [0..N -> Int] : Counts(c)
      BY <1>1 DEF CountInv
    <2>2. Bytes(left[joined]) = 0
      BY <1>1, <1>3 DEF JoinInv, Bytes
    <2>3. c[joined + 1] = Size
      BY <1>1, <2>1, <2>2, SizeNat DEF Counts
    <2>4. c[N] = total' /\ \A i \in Threads : i >= joined' => c[i + 1] = c[i] - Bytes(left'[i])
      BY <1>1, <2>1 DEF Counts
    <2> QED BY <1>1, <2>3, <2>4 DEF CountInv, Counts
  <1> QED BY <1>2, <1>3 DEF Join

LEMMA FinalStep == FinalInv /\ [ProgressNext]_allVars => FinalInv'
  <1> SUFFICES ASSUME FinalInv, [ProgressNext]_allVars PROVE FinalInv'
    OBVIOUS
  <1>0. ReportInv /\ PaceType /\ JoinInv /\ CountInv /\ ReportInv'
    BY ReportStep DEF FinalInv, ReportInv
  <1>1. ASSUME UNCHANGED <<total, left, joined, failed>> PROVE CountInv'
    BY <1>0, <1>1 DEF CountInv, Counts
  <1>2. ASSUME NEW i \in Threads, Pay(Thread(i)) PROVE JoinInv' /\ CountInv'
    <2>0. UNCHANGED progressVars
      BY <1>2 DEF Pay
    <2>1. CASE Move(i)
      <3>1. CountInv'
        BY <1>0, <2>0, <2>1, MoveCounts
      <3>2. JoinInv'
        BY <1>0, <2>0, <2>1 DEF JoinInv, Move, progressVars, PaceType
      <3> QED BY <3>1, <3>2
    <2>2. CASE Fail(i) \/ Pause(i) \/ Wake(i) \/ Finish(i)
      <3>1. UNCHANGED <<total, left>>
        BY <2>2 DEF Fail, Pause, Wake, Finish
      <3>2. CountInv'
        BY <1>1, <2>0, <3>1 DEF progressVars
      <3>3. \A k \in Threads : pc[k] = "done" => pc'[k] = "done"
        BY <1>0, <2>2 DEF Fail, Pause, Wake, Finish, PaceType
      <3>4. \A k \in Threads : pc'[k] = "done" => left'[k] = 0
        BY <1>0, <2>2, <3>1 DEF Fail, Pause, Wake, Finish, PaceType, JoinInv
      <3>5. JoinInv'
        BY <1>0, <2>0, <3>3, <3>4 DEF JoinInv, progressVars
      <3> QED BY <3>2, <3>5
    <2> QED BY <1>2, <2>1, <2>2 DEF Pay, Thread
  <1>3. CASE Pay(Tick) \/ UNCHANGED allVars
    <2>1. UNCHANGED <<total, left, pc, json, ticking, main, joined, failed, finals>>
      BY <1>3 DEF Pay, Tick, allVars, vars, progressVars
    <2> QED BY <1>0, <1>1, <2>1 DEF JoinInv, FinalInv
  <1>4. CASE Updater
    <2>1. finals' = finals
      BY <1>0, <1>4 DEF Updater, UpdaterSleeps, UpdaterReads, UpdaterReports, Show, ReportInv, JoinInv
    <2>2. UNCHANGED <<total, left, pc, json, ticking, main, joined, failed>>
      BY <1>4 DEF Updater, UpdaterSleeps, UpdaterReads, UpdaterReports, vars
    <2> QED BY <1>0, <1>1, <2>1, <2>2 DEF JoinInv, FinalInv
  <1>5. CASE Join
    <2>1. JoinInv'
      <3>1. /\ main = "join" /\ joined \in Threads /\ joined' = joined + 1 /\ ~failed
            /\ UNCHANGED <<left, pc, json, ticking, finals>> /\ finals = 0
            /\ pc[joined] \in {"done", "failed"}
        BY <1>0, <1>5 DEF Join, JoinInv, vars
      <3>2. CASE pc[joined] = "done"
        <4>1. ~failed' /\ main' = IF joined' = N THEN "stop" ELSE "join"
          BY <1>5, <3>2 DEF Join
        <4> QED BY <1>0, <3>1, <3>2, <4>1 DEF JoinInv
      <3>3. CASE pc[joined] = "failed"
        <4>1. failed' /\ main' = "stop"
          BY <1>5, <3>3 DEF Join
        <4> QED BY <1>0, <3>1, <4>1 DEF JoinInv
      <3> QED BY <3>1, <3>2, <3>3
    <2> QED BY <1>0, <1>5, <2>1, JoinCounts DEF FinalInv
  <1>6. CASE Stop
    BY <1>0, <1>1, <1>6 DEF Stop, JoinInv, FinalInv, vars
  <1>7. CASE End
    BY <1>0, <1>1, <1>7 DEF End, Final, Show, JoinInv, FinalInv, vars
  <1> QED BY <1>0, <1>2, <1>3, <1>4, <1>5, <1>6, <1>7 DEF ProgressNext, FinalInv

\* 100 % is shown by the main thread alone, at most once, of a payload that is all there,
\* and always of one that succeeds (engine.rs finish_progress, stop_progress).
THEOREM ProgressFinalOnce == ProgressSpec => []FinalOnce
  <1>1. ProgressInit => FinalInv
    BY PaceInit, SizeNat, CountInit DEF ProgressInit, Init, ReportInv, PaceType, JoinInv, FinalInv
  <1>2. FinalInv /\ [ProgressNext]_allVars => FinalInv'
    BY FinalStep
  <1>3. FinalInv => FinalOnce
    <2> SUFFICES ASSUME FinalInv PROVE FinalOnce
      OBVIOUS
    <2>1. ASSUME finals = 1 PROVE main = "end" /\ total = Size /\ \A i \in Threads : pc[i] = "done"
      <3>1. main = "end" /\ ~failed /\ joined = N
        BY <2>1 DEF FinalInv, JoinInv
      <3> QED BY <3>1 DEF FinalInv, JoinInv, CountInv, Counts
    <2> QED BY <2>1 DEF FinalInv, JoinInv, FinalOnce
  <1> QED BY <1>1, <1>2, <1>3, PTL DEF ProgressSpec
============================================================================
