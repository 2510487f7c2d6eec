------------------------------ MODULE GuardTiming ------------------------------
(***************************************************************************)
(* The clock side of a guard that runs tick after tick: exponential        *)
(* backoff with jitter, when an outage or a recovery is noticed, and how   *)
(* often an outage is reported.  Time is counted in seconds between ticks; *)
(* guard-state.json's absolute times are kept as distances from now.       *)
(***************************************************************************)
EXTENDS Integers

CONSTANTS
    FreezeAfter,    \* [guard] freeze_after_failures
    BackoffBase,    \* [guard] backoff_base_s
    BackoffCap,     \* [guard] backoff_cap_s
    Delays          \* bound: how late after the minute cron gets a tick running

TickPeriod == 60
AlertRepeat == 30 * 60

\* A tick starts before the one of the next minute.
ASSUME TimingAssumption ==
    /\ FreezeAfter \in Nat \ {0}
    /\ BackoffBase \in Nat \ {0}
    /\ BackoffCap \in Nat \ {0}
    /\ Delays \subseteq 0..TickPeriod /\ 0 \in Delays

VARIABLES
    hy2Up,
    age,         \* how long hy2 has been so without the guard acting on it
    failures,    \* consecutive failed probes, counted no further than MaxCount
    frozen,
    wait,        \* next_probe_ms - now, 0 when it has passed
    sinceAlert,  \* now - last_alert_ms
    late         \* how late the last tick was

vars == <<hy2Up, age, failures, frozen, wait, sinceAlert, late>>

Smaller(a, b) == IF a < b THEN a ELSE b

\* 1 << min(n - 1, 6), for n from 1.
Doubled(n) == <<1, 2, 4, 8, 16, 32, 64>>[Smaller(n, 7)]

\* From here on the shift is capped at 6, and freezing is long decided.
MaxCount == 7 + FreezeAfter

\* Mutant: the count is not capped.
BumpForever(n) == n + 1

Bump(n) == Smaller(n + 1, MaxCount)

\* Mutant: the cap of 1h that delayed recovery by 26 minutes.
BackoffHour(n, jitterPct) ==
    (Smaller(BackoffBase * Doubled(n), 3600) * jitterPct) \div 100

\* Mutant: the shift counts from the first failure instead of the second.
BackoffEarly(n, jitterPct) ==
    (Smaller(BackoffBase * Doubled(n + 1), BackoffCap) * jitterPct) \div 100

\* Seconds until the next probe after the n-th failure in a row.
Backoff(n, jitterPct) ==
    (Smaller(BackoffBase * Doubled(n), BackoffCap) * jitterPct) \div 100

JitterPct == 80..120    \* 80 + now % 41

-----------------------------------------------------------------------------
Init ==
    /\ hy2Up = TRUE
    /\ age = 0
    /\ failures = 0
    /\ frozen = FALSE
    /\ wait = 0
    /\ sinceAlert = 0
    /\ late = 0

\* An outage or a recovery that the guard has not acted on yet.
Unnoticed == IF hy2Up THEN failures > 0 ELSE ~frozen

\* hy2 fails or recovers right after a tick, the worst moment for the next one.
PathChanges ==
    /\ hy2Up' = ~hy2Up
    /\ age' = 0
    /\ UNCHANGED <<failures, frozen, wait, sinceAlert, late>>

\* Seconds from the last tick to one that starts d seconds after its minute.
Elapsed(d) == TickPeriod + d - late

\* now < next_probe_ms: the tick does nothing.
TickSkips(d) ==
    /\ wait > Elapsed(d)
    /\ wait' = wait - Elapsed(d)
    /\ age' = IF Unnoticed THEN age + Elapsed(d) ELSE 0
    /\ sinceAlert' = IF frozen THEN sinceAlert + Elapsed(d) ELSE 0
    /\ late' = d
    /\ UNCHANGED <<hy2Up, failures, frozen>>

ProbeOk(d) ==
    /\ wait <= Elapsed(d)
    /\ hy2Up
    /\ failures' = 0
    /\ frozen' = FALSE
    /\ wait' = 0
    /\ age' = 0
    /\ sinceAlert' = 0
    /\ late' = d
    /\ UNCHANGED hy2Up

\* Mutant: the repeat is measured from the freeze's own tick, once.
AlertDueOnce(n, elapsed) == ~frozen /\ n >= FreezeAfter

\* An alert goes out: at the freeze, then when the last one is old enough.
AlertDue(n, elapsed) ==
    \/ ~frozen /\ n >= FreezeAfter
    \/ frozen /\ sinceAlert + elapsed > AlertRepeat

ProbeErr(d) ==
    /\ wait <= Elapsed(d)
    /\ ~hy2Up
    /\ failures' = Bump(failures)
    /\ frozen' = (frozen \/ failures' >= FreezeAfter)
    /\ \E jitterPct \in JitterPct : wait' = Backoff(failures', jitterPct)
    /\ age' = IF frozen' THEN 0 ELSE age + Elapsed(d)
    /\ sinceAlert' = IF ~frozen' \/ AlertDue(failures', Elapsed(d))
                     THEN 0 ELSE sinceAlert + Elapsed(d)
    /\ late' = d
    /\ UNCHANGED hy2Up

Next ==
    \/ PathChanges
    \/ \E d \in Delays : TickSkips(d) \/ ProbeOk(d) \/ ProbeErr(d)

Spec == Init /\ [][Next]_vars

-----------------------------------------------------------------------------
(* Properties, for the default settings 2 / 60 / 180. *)

TypeOK ==
    /\ hy2Up \in BOOLEAN
    /\ age \in Nat
    /\ failures \in 0..MaxCount
    /\ frozen \in BOOLEAN
    /\ wait \in Nat
    /\ sinceAlert \in Nat
    /\ late \in Delays

(***************************************************************************)
(* guard.rs: with the cap at 180s a recovery is detected within 4 minutes. *)
(* A tick that leaves a recovery unnoticed comes within three minutes of   *)
(* it, although jitter lets the backoff exceed its cap (216s); so the tick *)
(* that notices it is at most the fourth.                                  *)
(***************************************************************************)
RecoveryNoticed == hy2Up /\ failures > 0 => age \div TickPeriod <= 3

(***************************************************************************)
(* The acceptance drill of the v2 plan: at most 3 minutes from an outage   *)
(* to the freeze: a tick that leaves an outage unfrozen comes within two   *)
(* minutes of it, although jitter may cost the second probe a tick.        *)
(***************************************************************************)
FreezesInTime == ~hy2Up /\ ~frozen => age \div TickPeriod <= 2

(***************************************************************************)
(* An outage is not forgotten: while frozen, the silence between two       *)
(* alerts exceeds the 30 minutes by at most one backoff.                   *)
(***************************************************************************)
AlertsKeepComing == frozen => sinceAlert <= AlertRepeat + 4 * TickPeriod
=============================================================================
