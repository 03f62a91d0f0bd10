------------------------------ MODULE MCMemStore ------------------------------
(* MemStore on a small instance: two episodes and two memories in two    *)
(* scopes, one `forget` interleaved with every other write.                *)
EXTENDS MemStore, TLC

EpisodeAndMemorySymmetry == Permutations(Episodes) \cup Permutations(Memories)

===============================================================================
