-------------------------------- MODULE MCGuard --------------------------------
(* Instances of Guard for TLC. *)
EXTENDS Guard, TLC

\* Overlapping ticks are interchangeable.
TickSymmetry == Permutations(Ticks)
=============================================================================
