----------------------------- MODULE MCGuardTiming -----------------------------
(* Instance of GuardTiming for TLC. *)
EXTENDS GuardTiming
=============================================================================
