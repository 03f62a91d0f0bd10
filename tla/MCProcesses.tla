---------------------------- MODULE MCProcesses ----------------------------
(* The processes around the store, side by side: the hooks, the writers, a *)
(* recall, the tools and the counts of use.  They share no state here, so  *)
(* a behaviour follows one of them (part) and the others do not start: the *)
(* instances add up instead of multiplying.                                *)
EXTENDS Readiness, WriteRaces, HookTurn, Retrieval, Dispatch, HebbianIndex, TLC

VARIABLE part

Parts == {"readiness", "writers", "turn", "recall", "calls", "counters"}

ProcessesInit ==
    /\ part \in Parts
    /\ ReadyInit /\ RaceInit /\ TurnInit /\ RecallInit /\ DispatchInit /\ Init
    /\ part # "readiness" => \A u \in Urls : server[u] = "down"
    /\ part # "turn" => private = {} /\ \A m \in Known : words[m] = {}
    /\ part # "counters" => live = {}

ReadyMoves == ReadyNext /\ UNCHANGED <<raceVars, turnVars, recallVars, dispatchVars, vars>>
RaceMoves == RaceNext /\ UNCHANGED <<readyVars, turnVars, recallVars, dispatchVars, vars>>
TurnMoves == TurnNext /\ UNCHANGED <<readyVars, raceVars, recallVars, dispatchVars, vars>>
RecallMoves == RecallNext /\ UNCHANGED <<readyVars, raceVars, turnVars, dispatchVars, vars>>
CallMoves == DispatchNext /\ UNCHANGED <<readyVars, raceVars, turnVars, recallVars, vars>>
CounterMoves == Next /\ UNCHANGED <<readyVars, raceVars, turnVars, recallVars, dispatchVars>>

ProcessesNext ==
    /\ UNCHANGED part
    /\ \/ part = "readiness" /\ ReadyMoves
       \/ part = "writers" /\ RaceMoves
       \/ part = "turn" /\ TurnMoves
       \/ part = "recall" /\ RecallMoves
       \/ part = "calls" /\ CallMoves
       \/ part = "counters" /\ CounterMoves

ProcessesSpec ==
    ProcessesInit
    /\ [][ProcessesNext]_<<part, readyVars, raceVars, turnVars, recallVars, dispatchVars, vars>>

(* The processes that open a file and the memories they count are alike.   *)
CounterSymmetry == Permutations(Procs) \cup Permutations(Memories)
===============================================================================
