----------------------------- MODULE StrikeHistory -----------------------------
(***************************************************************************)
(* What each nightly run has struck since it started.  The code keeps no   *)
(* such record: `deferred` holds the struck episodes of the scope at hand  *)
(* that still have strikes left, one with none left goes to the noise      *)
(* marker, and nothing in scope.ts remembers it.  So the record is a       *)
(* history variable, which no guard reads.                                 *)
(***************************************************************************)
EXTENDS SleepCycle

VARIABLE
    struck   \* struck[r]: the episodes run r has struck and nobody gave back since

histVars == <<sleepVars, struck>>

(* A user gives episodes back by undoing the memory that holds them: they  *)
(* are pending again and their strikes are forgiven.                       *)
GivenBack == {e \in Episodes : Held(e) /\ Pending(e)'}

Remember ==
    struck' = [r \in Runs |->
                  IF run'[r].pc = "idle" THEN {}
                  ELSE (struck[r] \ GivenBack) \cup {e \in Episodes : Moved(r) /\ Struck(e)}]

HistInit == SleepInit /\ struck = [r \in Runs |-> {}]

HistNext ==
    \/ \E r \in Runs : Start(r) /\ Remember
    \/ \E r \in Runs : RunStep(r) /\ Remember
    \/ \E r \in Runs : Crash(r) /\ Remember
    \/ Arrive /\ Remember
    \/ Tool /\ Remember

HistSpec == HistInit /\ [][HistNext]_histVars

(* The nights nobody disturbs (NightSpec), with the record.                *)
HistNightNext ==
    \/ \E r \in Runs : Start(r) /\ Remember
    \/ \E r \in Runs : RunStep(r) /\ Remember
    \/ Arrive /\ Remember

HistNightSpec == HistInit /\ [][HistNightNext]_histVars /\ Fairness

------------------------------------------------------------------------------
(* A run strikes an episode once at most over all its batches: one it read *)
(* without citing comes back "en la corrida siguiente, no en la misma"     *)
(* (consolidation/README.md), whether it was deferred or went to noise.    *)
(* The one exception is the user: an episode struck to exhaustion goes to  *)
(* a noise marker, and if that memory is undone while the run goes on, the *)
(* episode is pending with no strikes and the same run may read and strike *)
(* it again.                                                               *)
OneStrikePerRun ==
    [][\A r \in Runs, e \in Episodes : (Moved(r) /\ Struck(e)) => e \notin struck[r]]_histVars

===============================================================================
