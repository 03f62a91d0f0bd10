---------------------------- MODULE HebbianProofs ----------------------------
(***************************************************************************)
(* What holds of the counts of use and of the decay checkpoints for every  *)
(* set of memories, every number of processes and every legacy file.       *)
(*                                                                         *)
(* UseWithinTurns speaks of processes past their seed; what makes it       *)
(* inductive is what a process half-way through openDb relies on: a        *)
(* counter that exists bounds every use (CounterBounds), and while it does *)
(* not, the bound that process has read still does (SeedBounds), because   *)
(* nobody counts a use without creating the counter.                       *)
(***************************************************************************)
EXTENDS HebbianIndex, TLAPS

CounterBounds == turns # 0 => \A m \in Memories : use[m] <= turns

SeedBounds ==
    \A p \in Procs : (At(p, "seeding") /\ turns = 0) =>
        \A m \in Memories : use[m] <= proc[p].bound

CountInv ==
    /\ TypeOK
    /\ PairsWithinUse
    /\ NoCountOfTheDead
    /\ CounterBounds
    /\ SeedBounds
    /\ UseWithinTurns

(***************************************************************************)
(* Type correctness.                                                       *)
(***************************************************************************)
LEMMA PairMembers == \A pair \in Pairs : pair \subseteq Memories
BY DEF Pairs

LEMMA ClosedType == Closed \in [pc : Stages, at : Nat, ids : SUBSET Memories, bound : Nat]
BY DEF Closed, Stages

LEMMA InitType == Init => TypeOK
BY ClosedType, HebbianAssumption DEF Init, TypeOK

LEMMA CheckpointType ==
    ASSUME TypeOK, NEW S \in SUBSET Memories, NEW at \in Nat, Checkpoint(S, at)
    PROVE  aged' \in [Memories -> Nat] /\ mark' \in [Memories -> Nat]
BY DEF TypeOK, Checkpoint, Decayed

LEMMA NextType == TypeOK /\ [Next]_vars => TypeOK'
<1> SUFFICES ASSUME TypeOK, [Next]_vars PROVE TypeOK'
  OBVIOUS
<1> USE DEF TypeOK
<1>1. ASSUME NEW p \in Procs, OpenCheck(p) PROVE TypeOK'
  BY SMTT(30), <1>1 DEF OpenCheck, Goes, Stages, rowVars, salienceVars, countVars
<1>2. ASSUME NEW p \in Procs, OpenBound(p) PROVE TypeOK'
  <2>1. Counts \subseteq Nat
    BY DEF Counts
  <2>2. PICK n \in Counts :
           proc' = [proc EXCEPT ![p].pc = IF n = 0 THEN "open" ELSE "seeding", ![p].bound = n]
    BY <1>2 DEF OpenBound
  <2>3. n \in Nat /\ (IF n = 0 THEN "open" ELSE "seeding") \in Stages
    BY <2>1 DEF Stages
  <2>4. proc' \in [Procs -> [pc : Stages, at : Nat, ids : SUBSET Memories, bound : Nat]]
    BY ZenonT(30), <2>2, <2>3
  <2> QED
    BY <1>2, <2>4 DEF OpenBound, rowVars, salienceVars, countVars
<1>3. ASSUME NEW p \in Procs, OpenSeed(p) PROVE TypeOK'
  BY <1>3 DEF OpenSeed, Seeded, Goes, Stages, rowVars, salienceVars
<1>4. ASSUME NEW p \in Procs, NEW m \in Memories, Create(p, m) PROVE TypeOK'
  BY <1>4 DEF Create, countVars
<1>5. ASSUME NEW p \in Procs, NEW m \in Memories, Delete(p, m) PROVE TypeOK'
  BY <1>5 DEF Delete, Without, salienceVars
<1>6. ASSUME NEW p \in Procs, ReadKnown(p) PROVE TypeOK'
  <2>1. PICK S \in SUBSET live : proc' = [proc EXCEPT ![p].pc = "known", ![p].ids = S]
    BY <1>6 DEF ReadKnown
  <2>2. proc' \in [Procs -> [pc : Stages, at : Nat, ids : SUBSET Memories, bound : Nat]]
    BY ZenonT(30), <2>1 DEF Stages
  <2> QED
    BY <1>6, <2>2 DEF ReadKnown, rowVars, salienceVars, countVars
<1>7. ASSUME NEW p \in Procs, Boost(p) PROVE TypeOK'
  <2>1. aged' \in [Memories -> Nat] /\ mark' \in [Memories -> Nat]
    BY <1>7, CheckpointType DEF Boost
  <2>2. proc' \in [Procs -> [pc : Stages, at : Nat, ids : SUBSET Memories, bound : Nat]]
    BY <1>7 DEF Boost, Goes, Stages
  <2> QED
    BY <1>7, <2>1, <2>2 DEF Boost, Checkpoint, rowVars, countVars
<1>8. ASSUME NEW p \in Procs, Record(p) PROVE TypeOK'
  <2>1. turns' \in Nat /\ use' \in [Memories -> Nat] /\ coUse' \in [Pairs -> Nat]
    BY <1>8 DEF Record, Used, Paired, countVars
  <2>2. proc' \in [Procs -> [pc : Stages, at : Nat, ids : SUBSET Memories, bound : Nat]]
    BY ZenonT(30), <1>8 DEF Record, Stages
  <2> QED
    BY <1>8, <2>1, <2>2 DEF Record, rowVars, salienceVars
<1>9. ASSUME NEW p \in Procs, FixAt(p) PROVE TypeOK'
  BY ZenonT(30), <1>9 DEF FixAt, Stages, rowVars, salienceVars, countVars
<1>10. ASSUME NEW p \in Procs, Touch(p) PROVE TypeOK'
  <2>1. PICK S \in SUBSET live : Checkpoint(S, proc[p].at)
    BY <1>10 DEF Touch
  <2>2. aged' \in [Memories -> Nat] /\ mark' \in [Memories -> Nat]
    BY <2>1, CheckpointType
  <2>3. proc' \in [Procs -> [pc : Stages, at : Nat, ids : SUBSET Memories, bound : Nat]]
    BY <1>10 DEF Touch, Goes, Stages
  <2> QED
    BY <2>1, <2>2, <2>3 DEF Checkpoint, rowVars, countVars
<1>11. ASSUME NEW p \in Procs, CloseDb(p) PROVE TypeOK'
  BY <1>11, ClosedType DEF CloseDb, rowVars, salienceVars, countVars
<1>12. CASE Tick
  BY <1>12 DEF Tick, rowVars, salienceVars, countVars
<1>13. CASE UNCHANGED vars
  BY <1>13 DEF vars
<1> QED
  BY <1>1, <1>2, <1>3, <1>4, <1>5, <1>6, <1>7, <1>8, <1>9, <1>10, <1>11, <1>12, <1>13 DEF Next

(* Counts, checkpoints and days of decay stay natural: a write with an old *)
(* `at` gives no decay back.                                               *)
THEOREM TypeCorrect == Spec => []TypeOK
BY InitType, NextType, PTL DEF Spec

(***************************************************************************)
(* The counts.                                                             *)
(***************************************************************************)
LEMMA InitCounts == Init => CountInv
<1> SUFFICES ASSUME Init PROVE CountInv
  OBVIOUS
<1>1. TypeOK
  BY InitType
<1>2. PairsWithinUse /\ CounterBounds
  BY DEF Init, PairsWithinUse, CounterBounds
<1>3. NoCountOfTheDead
  <2> SUFFICES ASSUME NEW pair \in Pairs, coUse[pair] > 0, NEW m \in pair PROVE m \in live
    BY DEF Init, NoCountOfTheDead
  <2>1. m \in Memories /\ coUse[pair] <= use[m]
    BY PairMembers DEF Init
  <2>2. use[m] # 0
    BY <2>1, <1>1 DEF TypeOK
  <2> QED
    BY <2>1, <2>2 DEF Init
<1>4. SeedBounds /\ UseWithinTurns
  BY DEF Init, SeedBounds, UseWithinTurns, Running, At, Closed
<1> QED
  BY <1>1, <1>2, <1>3, <1>4 DEF CountInv

(* A step that leaves rows and counts alone keeps the invariant when each  *)
(* process that comes to run, or to seed, may do so.                       *)
LEMMA CountsUntouched ==
    ASSUME CountInv, TypeOK', UNCHANGED <<live, use, coUse, turns>>,
           \A p \in Procs : Running(p)' => (Running(p) \/ \A m \in Memories : use[m] <= turns),
           \A p \in Procs : At(p, "seeding")' =>
               \/ At(p, "seeding") /\ proc'[p].bound = proc[p].bound
               \/ \A m \in Memories : use[m] <= proc'[p].bound
    PROVE  CountInv'
<1>1. PairsWithinUse' /\ NoCountOfTheDead' /\ CounterBounds'
  BY DEF CountInv, PairsWithinUse, NoCountOfTheDead, CounterBounds
<1>2. SeedBounds'
  BY DEF CountInv, SeedBounds, At
<1>3. UseWithinTurns'
  BY DEF CountInv, UseWithinTurns
<1> QED
  BY <1>1, <1>2, <1>3 DEF CountInv

LEMMA NextCounts == CountInv /\ [Next]_vars => CountInv'
<1> SUFFICES ASSUME CountInv, [Next]_vars PROVE CountInv'
  OBVIOUS
<1>0. TypeOK /\ TypeOK'
  BY NextType DEF CountInv
<1> USE <1>0
<1>1. ASSUME NEW p \in Procs, OpenCheck(p) PROVE CountInv'
  BY <1>1, CountsUntouched
     DEF OpenCheck, Goes, At, Running, CountInv, CounterBounds, TypeOK, rowVars, countVars
<1>2. ASSUME NEW p \in Procs, OpenBound(p) PROVE CountInv'
  <2>1. PICK n \in Counts :
           /\ \A k \in Counts : k <= n
           /\ proc' = [proc EXCEPT ![p].pc = IF n = 0 THEN "open" ELSE "seeding",
                                   ![p].bound = n]
    BY <1>2 DEF OpenBound
  <2>2. \A m \in Memories : use[m] <= n
    BY <2>1 DEF Counts
  <2>3. n = 0 => \A m \in Memories : use[m] <= turns
    BY <2>2 DEF TypeOK
  <2>4. \A q \in Procs : q # p => proc'[q] = proc[q]
    BY <2>1 DEF TypeOK
  <2>5. proc'[p].pc = (IF n = 0 THEN "open" ELSE "seeding") /\ proc'[p].bound = n
    BY <2>1 DEF TypeOK
  <2> QED
    BY <1>2, <2>2, <2>3, <2>4, <2>5, CountsUntouched
       DEF OpenBound, At, Running, rowVars, countVars
<1>3. ASSUME NEW p \in Procs, OpenSeed(p) PROVE CountInv'
  <2>1. CASE turns # 0
    BY <1>3, <2>1, CountsUntouched
       DEF OpenSeed, Seeded, Goes, At, Running, TypeOK, rowVars
  <2>2. CASE turns = 0
    <3>1. \A m \in Memories : use'[m] <= turns'
      BY <1>3, <2>2 DEF OpenSeed, Seeded, CountInv, SeedBounds
    <3>2. PairsWithinUse' /\ NoCountOfTheDead'
      BY <1>3 DEF OpenSeed, CountInv, PairsWithinUse, NoCountOfTheDead, rowVars
    <3>3. \A q \in Procs : At(q, "seeding")' => At(q, "seeding") /\ proc'[q] = proc[q]
      BY <1>3, <2>2 DEF OpenSeed, Goes, At, TypeOK
    <3>4. SeedBounds'
      BY <1>3, <2>2, <3>3 DEF OpenSeed, CountInv, SeedBounds
    <3> QED
      BY <3>1, <3>2, <3>4 DEF CountInv, CounterBounds, UseWithinTurns
  <2> QED
    BY <2>1, <2>2
<1>4. ASSUME NEW p \in Procs, NEW m \in Memories, Create(p, m) PROVE CountInv'
  BY <1>4 DEF Create, CountInv, PairsWithinUse, NoCountOfTheDead, CounterBounds, SeedBounds,
              UseWithinTurns, Running, At, countVars
<1>5. ASSUME NEW p \in Procs, NEW m \in Memories, Delete(p, m) PROVE CountInv'
  <2>1. /\ \A x \in Memories : use'[x] = IF x = m THEN 0 ELSE use[x]
        /\ \A pair \in Pairs : coUse'[pair] = IF m \in pair THEN 0 ELSE coUse[pair]
        /\ live' = live \ {m} /\ turns' = turns /\ proc' = proc
    BY <1>5 DEF Delete, Without, TypeOK
  <2>2. \A x \in Memories : use'[x] <= use[x]
    BY <2>1 DEF TypeOK
  <2>3. PairsWithinUse'
    <3> SUFFICES ASSUME NEW pair \in Pairs, NEW x \in pair PROVE coUse'[pair] <= use'[x]
      BY DEF PairsWithinUse
    <3>1. x \in Memories /\ coUse[pair] <= use[x]
      BY PairMembers DEF CountInv, PairsWithinUse
    <3>2. CASE m \in pair
      BY <2>1, <3>1, <3>2 DEF TypeOK
    <3>3. CASE m \notin pair
      BY <2>1, <3>1, <3>3
    <3> QED
      BY <3>2, <3>3
  <2>4. NoCountOfTheDead'
    BY <2>1 DEF CountInv, NoCountOfTheDead
  <2>5. CounterBounds' /\ SeedBounds' /\ UseWithinTurns'
    BY <2>1, <2>2 DEF CountInv, CounterBounds, SeedBounds, UseWithinTurns, Running, At, TypeOK
  <2> QED
    BY <2>3, <2>4, <2>5 DEF CountInv
<1>6. ASSUME NEW p \in Procs, ReadKnown(p) \/ FixAt(p) PROVE CountInv'
  BY <1>6, CountsUntouched DEF ReadKnown, FixAt, At, Running, TypeOK, rowVars, countVars
<1>7. ASSUME NEW p \in Procs, Boost(p) \/ Touch(p) PROVE CountInv'
  <2>1. UNCHANGED <<live, use, coUse, turns>>
    BY <1>7 DEF Boost, Touch, Checkpoint, rowVars, countVars
  <2>2. \A q \in Procs : (Running(q)' => Running(q)) /\ ~(At(q, "seeding")' /\ q = p)
    BY <1>7 DEF Boost, Touch, Goes, At, Running, TypeOK
  <2>3. \A q \in Procs : q # p => proc'[q] = proc[q]
    BY <1>7 DEF Boost, Touch, Goes, TypeOK
  <2> QED
    BY <2>1, <2>2, <2>3, CountsUntouched DEF At
<1>8. ASSUME NEW p \in Procs, Record(p) PROVE CountInv'
  <2>1. \A q \in Procs : (Running(q)' => Running(q)) /\ (At(q, "seeding")' => At(q, "seeding"))
    BY <1>8 DEF Record, At, Running, TypeOK
  <2>2. \A q \in Procs : At(q, "seeding") => proc'[q] = proc[q]
    BY <1>8 DEF Record, At, TypeOK
  <2>3. live' = live
    BY <1>8 DEF Record, rowVars
  <2>4. CASE UNCHANGED countVars
    BY <2>1, <2>2, <2>3, <2>4, CountsUntouched DEF countVars
  <2>5. CASE /\ \A pair \in Pairs : pair \subseteq proc[p].ids => pair \subseteq live
             /\ turns' = turns + 1
             /\ use' = Used(proc[p].ids)
             /\ coUse' = Paired(proc[p].ids)
    <3> DEFINE S == proc[p].ids
    <3>1. \A m \in Memories : use'[m] = IF m \in S \cap live THEN use[m] + 1 ELSE use[m]
      BY <2>5 DEF Used
    <3>2. \A pair \in Pairs : coUse'[pair] = IF pair \subseteq S THEN coUse[pair] + 1
                                                              ELSE coUse[pair]
      BY <2>5 DEF Paired
    <3>3. \A m \in Memories : use[m] <= turns
      BY <1>8 DEF Record, At, Running, CountInv, UseWithinTurns
    <3>4. \A m \in Memories : use'[m] <= turns'
      BY <2>5, <3>1, <3>3 DEF TypeOK
    <3>5. turns' # 0
      BY <2>5 DEF TypeOK
    <3>6. PairsWithinUse'
      <4> SUFFICES ASSUME NEW pair \in Pairs, NEW m \in pair PROVE coUse'[pair] <= use'[m]
        BY DEF PairsWithinUse
      <4>1. m \in Memories /\ coUse[pair] <= use[m]
        BY PairMembers DEF CountInv, PairsWithinUse
      <4>2. CASE pair \subseteq S
        <5>1. m \in S \cap live
          BY <2>5, <4>2
        <5> QED
          BY <3>1, <3>2, <4>1, <4>2, <5>1 DEF TypeOK
      <4>3. CASE ~(pair \subseteq S)
        BY <3>1, <3>2, <4>1, <4>3 DEF TypeOK
      <4> QED
        BY <4>2, <4>3
    <3>7. NoCountOfTheDead'
      <4>1. \A m \in Memories \ live : use'[m] = 0
        BY <3>1 DEF CountInv, NoCountOfTheDead
      <4>2. ASSUME NEW pair \in Pairs, coUse'[pair] > 0 PROVE pair \subseteq live
        <5>1. CASE pair \subseteq S
          BY <2>5, <5>1
        <5>2. CASE ~(pair \subseteq S)
          BY <3>2, <4>2, <5>2 DEF CountInv, NoCountOfTheDead
        <5> QED
          BY <5>1, <5>2
      <4> QED
        BY <2>3, <4>1, <4>2 DEF NoCountOfTheDead
    <3>8. CounterBounds' /\ SeedBounds' /\ UseWithinTurns'
      BY <3>4, <3>5 DEF CounterBounds, SeedBounds, UseWithinTurns
    <3> QED
      BY <3>6, <3>7, <3>8 DEF CountInv
  <2> QED
    BY <1>8, <2>4, <2>5 DEF Record
<1>9. ASSUME NEW p \in Procs, CloseDb(p) PROVE CountInv'
  BY <1>9, CountsUntouched DEF CloseDb, Closed, At, Running, TypeOK, rowVars, countVars
<1>10. CASE Tick
  BY <1>10, CountsUntouched DEF Tick, At, Running, rowVars, countVars
<1>11. CASE UNCHANGED vars
  BY <1>11, CountsUntouched DEF vars, At, Running
<1> QED
  BY <1>1, <1>2, <1>3, <1>4, <1>5, <1>6, <1>7, <1>8, <1>9, <1>10, <1>11 DEF Next

LEMMA CountInvHolds == Spec => []CountInv
BY InitCounts, NextCounts, PTL DEF Spec

(* A pair was used together at most as often as either of its memories.    *)
THEOREM PairsWithinUseHolds == Spec => []PairsWithinUse
<1>1. CountInv => PairsWithinUse
  BY DEF CountInv
<1> QED
  BY <1>1, CountInvHolds, PTL

(* No memory was used in more turns than were registered, for any number   *)
(* of processes seeding, using and deleting at once.                       *)
THEOREM UseWithinTurnsHolds == Spec => []UseWithinTurns
<1>1. CountInv => UseWithinTurns
  BY DEF CountInv
<1> QED
  BY <1>1, CountInvHolds, PTL

(* A deleted memory leaves neither uses nor pairs.                         *)
THEOREM NoCountOfTheDeadHolds == Spec => []NoCountOfTheDead
<1>1. CountInv => NoCountOfTheDead
  BY DEF CountInv
<1> QED
  BY <1>1, CountInvHolds, PTL

(***************************************************************************)
(* The checkpoint.                                                         *)
(***************************************************************************)
LEMMA CheckpointEscapes ==
    ASSUME TypeOK, NoIntervalEscapes, NEW S, NEW at \in Nat, Checkpoint(S, at)
    PROVE  NoIntervalEscapes'
<1> SUFFICES ASSUME NEW m \in live PROVE aged'[m] >= mark'[m] - born[m]
  BY DEF Checkpoint, NoIntervalEscapes, rowVars
<1>1. m \in Memories /\ aged[m] >= mark[m] - born[m]
  BY DEF TypeOK, NoIntervalEscapes
<1>2. CASE m \in S
  BY <1>1, <1>2 DEF Checkpoint, Decayed, TypeOK
<1>3. CASE m \notin S
  BY <1>1, <1>3 DEF Checkpoint
<1> QED
  BY <1>2, <1>3

LEMMA NextEscapes == TypeOK /\ NoIntervalEscapes /\ [Next]_vars => NoIntervalEscapes'
<1> SUFFICES ASSUME TypeOK, NoIntervalEscapes, [Next]_vars PROVE NoIntervalEscapes'
  OBVIOUS
<1>1. CASE UNCHANGED <<live, salienceVars>>
  BY <1>1 DEF NoIntervalEscapes, salienceVars
<1>2. ASSUME NEW p \in Procs, NEW m \in Memories, Create(p, m) PROVE NoIntervalEscapes'
  <2> SUFFICES ASSUME NEW x \in live' PROVE aged'[x] >= mark'[x] - born'[x]
    BY DEF NoIntervalEscapes
  <2>1. CASE x = m
    BY <1>2, <2>1 DEF Create, TypeOK
  <2>2. CASE x # m
    BY <1>2, <2>2 DEF Create, NoIntervalEscapes, TypeOK
  <2> QED
    BY <2>1, <2>2
<1>3. ASSUME NEW p \in Procs, NEW m \in Memories, Delete(p, m) PROVE NoIntervalEscapes'
  BY <1>3 DEF Delete, NoIntervalEscapes, salienceVars
<1>4. ASSUME NEW p \in Procs, Boost(p) PROVE NoIntervalEscapes'
  BY <1>4, CheckpointEscapes DEF Boost, TypeOK
<1>5. ASSUME NEW p \in Procs, Touch(p) PROVE NoIntervalEscapes'
  BY <1>5, CheckpointEscapes DEF Touch, TypeOK
<1> QED
  BY <1>1, <1>2, <1>3, <1>4, <1>5
     DEF Next, OpenCheck, OpenBound, OpenSeed, ReadKnown, Record, FixAt, CloseDb, Tick, vars, rowVars,
         salienceVars

(* No interval of a memory's life escapes decay, however old the `at` of a *)
(* write is.                                                               *)
THEOREM NoIntervalEscapesHolds == Spec => []NoIntervalEscapes
<1>1. Init => NoIntervalEscapes
  BY DEF Init, NoIntervalEscapes
<1> QED
  BY <1>1, NextEscapes, TypeCorrect, PTL DEF Spec

===============================================================================
