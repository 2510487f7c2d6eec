---------------------------- MODULE FailureDetector ----------------------------
(***************************************************************************)
(* What guard-state.json promises, without processes or files: it counts   *)
(* the consecutive failed probes, turns frozen exactly when the count      *)
(* reaches FreezeAfter, and forgets both together.  Each step is atomic:   *)
(* no result is counted twice and none is undone by an older one.          *)
(***************************************************************************)
EXTENDS Naturals

CONSTANT FreezeAfter

VARIABLES failures, frozen

\* Counting beyond FreezeAfter makes no difference to what follows.
Bump(n) == IF n < FreezeAfter THEN n + 1 ELSE n

Init == failures = 0 /\ frozen = FALSE

ProbeFails ==
    /\ failures' = Bump(failures)
    /\ frozen' = (frozen \/ failures' >= FreezeAfter)

\* A successful probe, or a state file that could not be written whole.
Reset ==
    /\ failures' = 0
    /\ frozen' = FALSE

Next == ProbeFails \/ Reset

Spec == Init /\ [][Next]_<<failures, frozen>>
=============================================================================
