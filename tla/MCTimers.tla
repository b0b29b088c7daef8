------------------------------ MODULE MCTimers ------------------------------
(* Small instances of Timers for TLC. *)
EXTENDS Timers

CONSTANTS t1, t2, t3, t4, chanop, seen

\* CheckTimers and the list operations treat all allocations alike.
Interchangeable == Permutations(Timer)

=============================================================================
