----------------------------- MODULE EpisodeLife -----------------------------
(***************************************************************************)
(* What misMEM promises about one episode, the verbatim record everything  *)
(* else is distilled from.  It is captured once, waits as pending, is held *)
(* by a memory, and may go back to pending or be deleted only from there.  *)
(*                                                                         *)
(* The abstract steps act on a whole group of episodes because the program *)
(* does: one memory takes several episodes in one transaction, and undoing *)
(* or forgetting it moves all of its episodes at once, in one direction.   *)
(***************************************************************************)

CONSTANT Episodes

VARIABLE life

Stages == {"unborn", "pending", "held", "gone"}

TypeOK == life \in [Episodes -> Stages]

Init == life = [e \in Episodes |-> "unborn"]

(* The episodes of S, all at one stage, move together to the next one.     *)
Move(S, from, to) ==
    /\ \A e \in S : life[e] = from
    /\ life' = [e \in Episodes |-> IF e \in S THEN to ELSE life[e]]

Born(e)    == Move({e}, "unborn", "pending")
Hold(S)    == Move(S, "pending", "held")
Release(S) == Move(S, "held", "pending")
Erase(S)   == Move(S, "held", "gone")

Next ==
    \/ \E e \in Episodes : Born(e)
    \/ \E S \in SUBSET Episodes : Hold(S) \/ Release(S) \/ Erase(S)

Spec == Init /\ [][Next]_life

==============================================================================
