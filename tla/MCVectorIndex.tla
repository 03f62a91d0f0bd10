----------------------------- MODULE MCVectorIndex -----------------------------
(* VectorIndex with a pass of seven rows: six memories and two traits that *)
(* the embedder cannot take are more than the shares of both, next to one  *)
(* row of each kind that comes, changes and goes.                          *)
EXTENDS VectorIndex, TLC

===============================================================================
