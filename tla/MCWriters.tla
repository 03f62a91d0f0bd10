------------------------------- MODULE MCWriters -------------------------------
(* WriteRaces on its own: two processes, one text and nothing migrated.    *)
EXTENDS WriteRaces

===============================================================================
