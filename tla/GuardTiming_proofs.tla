-------------------------- MODULE GuardTiming_proofs --------------------------
(***************************************************************************)
(* Proofs about GuardTiming for every threshold, base and cap that the     *)
(* claims allow, every jitter and every outage and recovery: the sum of    *)
(* what has passed and of what is still to wait never grows.               *)
(***************************************************************************)
EXTENDS GuardTiming, TLAPS

\* The longest backoff, jitter included.
MaxWait == (BackoffCap * 120) \div 100

\* The guard has not frozen before it counted FreezeAfter failures, and waits
\* for nothing without a failure.
Counting ==
    /\ ~frozen => failures < FreezeAfter
    /\ failures = 0 => wait = 0
    /\ wait <= MaxWait

\* Nobody is told of a recovery before the probe at the end of the wait.
RecoveryWaits == hy2Up /\ failures > 0 => age + wait <= MaxWait

\* The last alert is old enough at the first probe after AlertRepeat.
AlertWaits == frozen => sinceAlert + wait <= AlertRepeat + MaxWait

TimingInv == TypeOK /\ Counting /\ RecoveryWaits /\ AlertWaits

-----------------------------------------------------------------------------
(* The backoff. *)

LEMMA DoubledBounds ==
    ASSUME NEW n \in Nat \ {0}
    PROVE  Doubled(n) \in 1..64 /\ (n = 1 => Doubled(n) = 1)
<1> DEFINE k == Smaller(n, 7)
<1>1. k \in 1..7 /\ (n = 1 => k = 1)
  BY DEF Smaller
<1>2. \A i \in 1..7 : <<1, 2, 4, 8, 16, 32, 64>>[i] \in 1..64
  OBVIOUS
<1>3. QED
  BY <1>1, <1>2 DEF Doubled

\* What a jitter makes of an interval is a number, and at most six fifths of it.
LEMMA JitterBounds ==
    ASSUME NEW b \in Nat, NEW c \in Nat, b <= c, NEW j \in JitterPct
    PROVE  /\ (b * j) \div 100 \in Nat
           /\ (b * j) \div 100 <= (c * 120) \div 100
<1>1. j \in Nat /\ j <= 120
  BY DEF JitterPct
<1>2. b * j \in Nat /\ b * j <= b * 120
  BY <1>1
<1>3. b * j <= c * 120
  BY <1>2
<1>4. QED
  BY <1>2, <1>3

LEMMA BackoffBounds ==
    ASSUME NEW n \in Nat \ {0}, NEW j \in JitterPct
    PROVE  /\ Backoff(n, j) \in Nat
           /\ Backoff(n, j) <= MaxWait
           /\ n = 1 => Backoff(n, j) <= (BackoffBase * 120) \div 100
<1> DEFINE b == Smaller(BackoffBase * Doubled(n), BackoffCap)
<1>1. /\ BackoffBase \in Nat /\ BackoffCap \in Nat
      /\ BackoffBase * Doubled(n) \in Nat
      /\ n = 1 => BackoffBase * Doubled(n) = BackoffBase
  BY DoubledBounds, TimingAssumption
<1>2. b \in Nat /\ b <= BackoffCap /\ (n = 1 => b <= BackoffBase)
  BY <1>1 DEF Smaller
<1> HIDE DEF b
<1>3. Backoff(n, j) = (b * j) \div 100
  BY DEF Backoff, b
<1>4. QED
  BY <1>1, <1>2, <1>3, JitterBounds DEF MaxWait

-----------------------------------------------------------------------------
(* The steps. *)

LEMMA MaxWaitType == MaxWait \in Nat
BY TimingAssumption DEF MaxWait

LEMMA SumOfBounds ==
    \A a, b, c, d \in Nat : a <= b /\ c <= d => a + c <= b + d
OBVIOUS

LEMMA AlertRepeatType == AlertRepeat \in Nat
BY DEF AlertRepeat

\* A tick comes no earlier than the one before it, and less than two periods
\* after it.
LEMMA ElapsedBounds ==
    ASSUME TypeOK, NEW d \in Delays
    PROVE  Elapsed(d) \in 0..(TickPeriod + d) /\ d \in 0..TickPeriod
BY TimingAssumption DEF TypeOK, Elapsed, TickPeriod

LEMMA InitTiming == Init => TimingInv
<1> SUFFICES ASSUME Init PROVE TimingInv
  OBVIOUS
<1>1. TypeOK
  <2>1. 0 \in 0..MaxCount
    BY TimingAssumption DEF MaxCount
  <2>2. QED
    BY <2>1, TimingAssumption DEF Init, TypeOK
<1>2. Counting
  BY MaxWaitType, TimingAssumption DEF Init, Counting
<1>3. RecoveryWaits /\ AlertWaits
  BY DEF Init, RecoveryWaits, AlertWaits
<1>4. QED
  BY <1>1, <1>2, <1>3 DEF TimingInv

LEMMA PathStep ==
    ASSUME TimingInv, PathChanges
    PROVE  TimingInv'
BY DEF PathChanges, TimingInv, TypeOK, Counting, RecoveryWaits, AlertWaits

LEMMA SkipStep ==
    ASSUME TimingInv, NEW d \in Delays, TickSkips(d)
    PROVE  TimingInv'
<1>1. Elapsed(d) \in Nat
  BY ElapsedBounds, TimingAssumption DEF TimingInv, TickPeriod
<1>2. wait' \in Nat /\ age' \in Nat /\ sinceAlert' \in Nat
  BY <1>1 DEF TickSkips, TimingInv, TypeOK
<1>3. TypeOK'
  BY <1>2 DEF TickSkips, TimingInv, TypeOK
<1>4. Counting' /\ RecoveryWaits' /\ AlertWaits'
  BY <1>1, MaxWaitType
  DEF TickSkips, TimingInv, TypeOK, Counting, RecoveryWaits, AlertWaits, Unnoticed, AlertRepeat
<1>5. QED
  BY <1>3, <1>4 DEF TimingInv

LEMMA ProbeOkStep ==
    ASSUME TimingInv, NEW d \in Delays, ProbeOk(d)
    PROVE  TimingInv'
<1>1. TypeOK'
  <2>1. 0 \in 0..MaxCount
    BY TimingAssumption DEF MaxCount
  <2>2. QED
    BY <2>1 DEF ProbeOk, TimingInv, TypeOK
<1>2. Counting'
  BY MaxWaitType, TimingAssumption DEF ProbeOk, Counting
<1>3. RecoveryWaits' /\ AlertWaits'
  BY DEF ProbeOk, RecoveryWaits, AlertWaits
<1>4. QED
  BY <1>1, <1>2, <1>3 DEF TimingInv

LEMMA ProbeErrStep ==
    ASSUME TimingInv, NEW d \in Delays, ProbeErr(d)
    PROVE  TimingInv'
<1>1. Elapsed(d) \in Nat
  BY ElapsedBounds, TimingAssumption DEF TimingInv, TickPeriod
<1>2. failures' = Bump(failures) /\ failures' \in 1..MaxCount
  BY TimingAssumption DEF ProbeErr, TimingInv, TypeOK, Bump, Smaller, MaxCount
<1>3. wait' \in Nat /\ wait' <= MaxWait
  BY <1>2, BackoffBounds DEF ProbeErr, MaxCount
<1>4. frozen' \in BOOLEAN /\ (~frozen' => failures' < FreezeAfter)
  <2>1. frozen' = (frozen \/ failures' >= FreezeAfter)
    BY DEF ProbeErr
  <2>2. frozen' \in BOOLEAN
    BY <2>1
  <2>3. failures' \in Int /\ FreezeAfter \in Int
    BY <1>2, TimingAssumption DEF MaxCount
  <2>4. failures' >= FreezeAfter => frozen'
    BY <2>1
  <2>5. QED
    BY <2>2, <2>3, <2>4
<1>5. age' \in Nat /\ sinceAlert' \in Nat /\ late' \in Delays /\ hy2Up' = hy2Up /\ ~hy2Up
  BY <1>1 DEF ProbeErr, TimingInv, TypeOK
<1>6. frozen' => sinceAlert' <= AlertRepeat
  <2>1. CASE AlertDue(failures', Elapsed(d))
    BY <2>1 DEF ProbeErr, AlertRepeat
  <2>2. CASE ~AlertDue(failures', Elapsed(d)) /\ frozen
    BY <1>1, <2>2 DEF ProbeErr, AlertDue, TimingInv, TypeOK, AlertRepeat
  <2>3. CASE ~AlertDue(failures', Elapsed(d)) /\ ~frozen
    BY <2>3 DEF ProbeErr, AlertDue
  <2>4. QED
    BY <2>1, <2>2, <2>3
<1>7. TypeOK'
  BY <1>2, <1>3, <1>4, <1>5 DEF TimingInv, TypeOK
<1>8. Counting'
  BY <1>2, <1>3, <1>4 DEF Counting
<1>9. RecoveryWaits' /\ AlertWaits'
  <2>1. ~hy2Up'
    BY <1>5
  <2>2. ASSUME frozen'
        PROVE  sinceAlert' + wait' <= AlertRepeat + MaxWait
    <3>1. sinceAlert' \in Nat /\ sinceAlert' <= AlertRepeat
      BY <1>5, <1>6, <2>2
    <3>2. QED
      BY <1>3, <3>1, MaxWaitType, AlertRepeatType, SumOfBounds, Zenon
  <2>3. QED
    BY <2>1, <2>2 DEF RecoveryWaits, AlertWaits
<1>10. QED
  BY <1>7, <1>8, <1>9 DEF TimingInv

LEMMA TimingStep ==
    ASSUME TimingInv, [Next]_vars
    PROVE  TimingInv'
<1>1. CASE UNCHANGED vars
  BY <1>1 DEF vars, TimingInv, TypeOK, Counting, RecoveryWaits, AlertWaits
<1>2. QED
  BY <1>1, PathStep, SkipStep, ProbeOkStep, ProbeErrStep DEF Next

LEMMA TimingInductive == Spec => []TimingInv
<1>1. Init => TimingInv
  BY InitTiming
<1>2. TimingInv /\ [Next]_vars => TimingInv'
  BY TimingStep
<1>3. QED
  BY <1>1, <1>2, PTL DEF Spec

-----------------------------------------------------------------------------
(***************************************************************************)
(* The state is well typed: no interval between two ticks is negative, and *)
(* the count stays in its bounds.                                          *)
(***************************************************************************)
THEOREM TypeCorrect == Spec => []TypeOK
<1>1. TimingInv => TypeOK
  BY DEF TimingInv
<1>2. QED
  BY <1>1, TimingInductive, PTL

(***************************************************************************)
(* With a cap below 200 seconds a recovery is noticed within four minutes, *)
(* whatever the threshold, the base, the jitter and the delays of the      *)
(* ticks.  (With 200 and a jitter of 120% it need not be.)                 *)
(***************************************************************************)
THEOREM RecoveryIsNoticed ==
    ASSUME BackoffCap < 200
    PROVE  Spec => []RecoveryNoticed
<1>1. MaxWait < 4 * TickPeriod
  BY TimingAssumption DEF MaxWait, TickPeriod
<1>2. TimingInv => RecoveryNoticed
  BY <1>1, MaxWaitType
  DEF TimingInv, TypeOK, RecoveryWaits, RecoveryNoticed, TickPeriod
<1>3. QED
  BY <1>2, TimingInductive, PTL

(***************************************************************************)
(* With such a cap, the silence between two alerts of an outage exceeds 30 *)
(* minutes by four at most.                                                *)
(***************************************************************************)
THEOREM AlertsRepeat ==
    ASSUME BackoffCap < 200
    PROVE  Spec => []AlertsKeepComing
<1>1. MaxWait < 4 * TickPeriod
  BY TimingAssumption DEF MaxWait, TickPeriod
<1>2. TimingInv => AlertsKeepComing
  BY <1>1, MaxWaitType
  DEF TimingInv, TypeOK, AlertWaits, AlertsKeepComing, TickPeriod, AlertRepeat
<1>3. QED
  BY <1>2, TimingInductive, PTL

-----------------------------------------------------------------------------
(* The freeze.  The second probe of an outage comes after one backoff of   *)
(* the first failure, which may be left from an outage before.             *)

FreezeNears ==
    ~frozen =>
        /\ failures > 0 => wait <= 72
        /\ ~hy2Up /\ failures = 0 => age = 0
        /\ ~hy2Up => age <= 179 /\ age + wait <= 180

LEMMA FreezeNearsStep ==
    ASSUME TimingInv, FreezeNears, FreezeAfter <= 2, BackoffBase <= 60,
           \A d \in Delays : d <= 48, [Next]_vars
    PROVE  FreezeNears'
<1> USE DEF TickPeriod
<1>1. ~frozen => failures \in {0, 1} /\ (failures = 0 => wait = 0)
  BY TimingAssumption DEF TimingInv, TypeOK, Counting
<1>2. age \in Nat /\ wait \in Nat /\ failures \in Nat /\ late \in 0..48
  BY TimingAssumption DEF TimingInv, TypeOK, MaxCount
<1>3. CASE PathChanges
  BY <1>1, <1>2, <1>3 DEF PathChanges, FreezeNears
<1>4. ASSUME NEW d \in Delays, TickSkips(d)
      PROVE  FreezeNears'
  <2>1. Elapsed(d) \in Nat
    BY <1>2, TimingAssumption DEF Elapsed
  <2>2. QED
    BY <1>1, <1>2, <1>4, <2>1 DEF TickSkips, FreezeNears, Unnoticed
<1>5. ASSUME NEW d \in Delays, ProbeOk(d)
      PROVE  FreezeNears'
  BY <1>5 DEF ProbeOk, FreezeNears
<1>6. ASSUME NEW d \in Delays, ProbeErr(d)
      PROVE  FreezeNears'
  <2> SUFFICES ASSUME ~frozen'
               PROVE  wait' <= 72 /\ age' <= 108 /\ age' \in Nat /\ wait' \in Nat /\ failures' # 0
    BY <1>6 DEF FreezeNears
  <2>1. ~frozen /\ ~(failures' >= FreezeAfter)
    BY <1>6 DEF ProbeErr
  <2>2. failures' = Bump(failures)
    BY <1>6 DEF ProbeErr
  <2>3. failures = 0 /\ failures' = 1
    BY <1>1, <2>1, <2>2, TimingAssumption DEF Bump, Smaller, MaxCount
  <2>4. Elapsed(d) \in 0..108
    BY <1>2, TimingAssumption DEF Elapsed
  <2>5. age' = Elapsed(d)
    <3>1. ~hy2Up /\ age = 0
      BY <1>6, <2>1, <2>3 DEF ProbeErr, FreezeNears
    <3>2. age' = age + Elapsed(d)
      BY <1>6 DEF ProbeErr
    <3>3. QED
      BY <2>4, <3>1, <3>2
  <2>6. wait' \in Nat /\ wait' <= (BackoffBase * 120) \div 100
    BY <1>6, <2>3, BackoffBounds DEF ProbeErr
  <2>7. (BackoffBase * 120) \div 100 <= 72
    BY TimingAssumption
  <2>8. QED
    BY <2>3, <2>4, <2>5, <2>6, <2>7, TimingAssumption
<1>7. CASE UNCHANGED vars
  BY <1>7 DEF vars, FreezeNears
<1>8. QED
  BY <1>3, <1>4, <1>5, <1>6, <1>7 DEF Next

(***************************************************************************)
(* With the default threshold and base, or lower ones, an outage is frozen *)
(* within three minutes, for any cap and jitter, also when the path comes  *)
(* and goes, as long as no tick is more than 48 seconds late.  (With 49    *)
(* the backoff of one late tick may outlast two ticks that are on time.)   *)
(***************************************************************************)
THEOREM FreezeComesInTime ==
    ASSUME FreezeAfter <= 2, BackoffBase <= 60, \A d \in Delays : d <= 48
    PROVE  Spec => []FreezesInTime
<1>1. Init => FreezeNears
  BY DEF Init, FreezeNears
<1>2. TimingInv /\ FreezeNears /\ [Next]_vars => FreezeNears'
  BY FreezeNearsStep
<1>3. TimingInv /\ FreezeNears => FreezesInTime
  BY DEF TimingInv, TypeOK, FreezeNears, FreezesInTime, TickPeriod
<1>4. QED
  BY <1>1, <1>2, <1>3, TimingInductive, PTL DEF Spec
=============================================================================
