----------------------------- MODULE MCSleepCycle -----------------------------
(* SleepCycle on small instances: two or three episodes of one scope, read *)
(* by one run or by two at once.                                           *)
EXTENDS SleepCycle, TLC

(* Episodes are numbered and runs and memories are interchangeable.        *)
RunAndMemorySymmetry == Permutations(Runs) \cup Permutations(Memories)

===============================================================================
