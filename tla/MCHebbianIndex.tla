---------------------------- MODULE MCHebbianIndex ----------------------------
(* HebbianIndex with two processes on a file that is new, or older than the  *)
(* turn counter, and opened by both at once.                                  *)
EXTENDS HebbianIndex, TLC

ProcAndMemorySymmetry == Permutations(Procs) \cup Permutations(Memories)

===============================================================================
