----------------------------- MODULE HebbianIndex -----------------------------
(***************************************************************************)
(* What misMEM records of use: the turn counter and the counts of          *)
(* memory/reinforce.ts and store/connectome.ts, which NPMI divides by one  *)
(* another, and the checkpoint up to which memory/salience.ts has decayed  *)
(* each salience.                                                          *)
(*                                                                         *)
(* Every process opens the database, which seeds the counter of a file     *)
(* older than it, then recalls, reinforces and forgets.  `reinforce` is    *)
(* three steps on the store; recall and forget fix their `at` before they  *)
(* get to write, recall before an await.  The salience itself is a real    *)
(* number: here a memory has the days of decay its stored value stands     *)
(* for, and boosts are left out.                                           *)
(***************************************************************************)
EXTENDS Integers, FiniteSets

CONSTANTS
    Memories,
    Procs,      \* processes that open the database
    LegacyUse,  \* bound on the counts a file from before the counter has
    MaxTurns,   \* bound on the turns registered
    MaxTime     \* bound on the clock

ASSUME HebbianAssumption ==
    /\ LegacyUse \in Nat
    /\ MaxTurns \in Nat
    /\ MaxTime \in Nat

VARIABLES
    now,
    live,    \* the rows of `memories`
    gone,    \* the rows deleted; their ids are not used again
    born,    \* memories.created_at
    mark,    \* memories.salience_updated_at
    aged,    \* days of decay taken out of the stored salience
    use,     \* memories.use_count
    coUse,   \* co_use.n of a pair; 0 is no row
    turns,   \* meta.usage_turns; 0 is no row
    proc     \* the local state of each process

salienceVars == <<born, mark, aged>>
countVars == <<use, coUse, turns>>
rowVars == <<live, gone>>
vars == <<now, live, gone, born, mark, aged, use, coUse, turns, proc>>

(* memory_a < memory_b: a pair has one row.                                *)
Pairs == {{a, b} : a, b \in Memories} \ {{m} : m \in Memories}

Stages == {"closed", "absent", "seeding", "open", "waiting", "known", "boosted"}

Closed == [pc |-> "closed", at |-> 0, ids |-> {}, bound |-> 0]

TypeOK ==
    /\ now \in Nat
    /\ live \subseteq Memories /\ gone \subseteq Memories
    /\ born \in [Memories -> Nat]
    /\ mark \in [Memories -> Nat]
    /\ aged \in [Memories -> Nat]
    /\ use \in [Memories -> Nat]
    /\ coUse \in [Pairs -> Nat]
    /\ turns \in Nat
    /\ proc \in [Procs -> [pc : Stages, at : Nat, ids : SUBSET Memories, bound : Nat]]

(* A new file, or one whose counts are older than the counter.  Each use   *)
(* of a pair was a use of both.                                            *)
Init ==
    /\ now = 0
    /\ live \in SUBSET Memories /\ gone = {}
    /\ born = [m \in Memories |-> 0]
    /\ mark = [m \in Memories |-> 0]
    /\ aged = [m \in Memories |-> 0]
    /\ use \in [Memories -> 0 .. LegacyUse]
    /\ coUse \in [Pairs -> 0 .. LegacyUse]
    /\ \A m \in Memories \ live : use[m] = 0
    /\ \A pair \in Pairs : \A m \in pair : coUse[pair] <= use[m]
    /\ turns = 0
    /\ proc = [p \in Procs |-> Closed]

At(p, stage) == proc[p].pc = stage
Goes(p, stage) == proc' = [proc EXCEPT ![p].pc = stage]

------------------------------------------------------------------------------
(* openDb: seedTurnsFromUse, three statements outside any transaction.     *)
OpenCheck(p) ==
    /\ At(p, "closed")
    /\ Goes(p, IF turns = 0 THEN "absent" ELSE "open")
    /\ UNCHANGED <<now, rowVars, salienceVars, countVars>>

Counts == {0} \cup {use[m] : m \in Memories} \cup {coUse[pair] : pair \in Pairs}

OpenBound(p) ==
    /\ At(p, "absent")
    /\ \E n \in Counts :
          /\ \A k \in Counts : k <= n
          /\ proc' = [proc EXCEPT ![p].pc = IF n = 0 THEN "open" ELSE "seeding",
                                  ![p].bound = n]
    /\ UNCHANGED <<now, rowVars, salienceVars, countVars>>

(* Mutant: the seed written with ON CONFLICT DO UPDATE.                    *)
SeededOver(n) == n

(* What the table holds after the plain INSERT of the seed: it throws when *)
(* another process got there first.                                        *)
Seeded(n) == IF turns = 0 THEN n ELSE turns

OpenSeed(p) ==
    /\ At(p, "seeding")
    /\ turns' = Seeded(proc[p].bound)
    /\ Goes(p, IF turns = 0 THEN "open" ELSE "closed")
    /\ UNCHANGED <<now, rowVars, salienceVars, use, coUse>>

------------------------------------------------------------------------------
(* Rows come and go: consolidate, and every way of deleting a memory,      *)
(* which takes its pairs with it (ON DELETE CASCADE).                      *)
Create(p, m) ==
    /\ At(p, "open")
    /\ m \notin live \cup gone
    /\ live' = live \cup {m}
    /\ born' = [born EXCEPT ![m] = now]
    /\ mark' = [mark EXCEPT ![m] = now]
    /\ UNCHANGED <<now, gone, aged, countVars, proc>>

(* Mutant: co_use without the cascade.                                     *)
WithoutCascade(m) == coUse

Without(m) == [pair \in Pairs |-> IF m \in pair THEN 0 ELSE coUse[pair]]

Delete(p, m) ==
    /\ At(p, "open")
    /\ m \in live
    /\ live' = live \ {m}
    /\ gone' = gone \cup {m}
    /\ use' = [use EXCEPT ![m] = 0]
    /\ coUse' = Without(m)
    /\ UNCHANGED <<now, salienceVars, turns, proc>>

(* Mutant: the decay still due is not taken out.                           *)
DecayedNothing(m, at) == aged[m]

(* decayedSalience: nothing decays toward the past.                        *)
Decayed(m, at) == aged[m] + (IF at <= mark[m] THEN 0 ELSE at - mark[m])

(* reinforceMemories and decayMemories: one transaction over the rows of S *)
(* that still exist.                                                       *)
Checkpoint(S, at) ==
    /\ aged' = [m \in Memories |-> IF m \in S \cap live THEN Decayed(m, at) ELSE aged[m]]
    /\ mark' = [m \in Memories |-> IF m \in S \cap live THEN at ELSE mark[m]]
    /\ UNCHANGED <<now, rowVars, born, countVars>>

(* reinforce: which ids exist, then their salience, then their counts.     *)
ReadKnown(p) ==
    /\ At(p, "open")
    /\ \E S \in (SUBSET live) \ {{}} : 
          proc' = [proc EXCEPT ![p].pc = "known", ![p].ids = S]
    /\ UNCHANGED <<now, rowVars, salienceVars, countVars>>

Boost(p) ==
    /\ At(p, "known")
    /\ Checkpoint(proc[p].ids, now)
    /\ Goes(p, "boosted")

Used(S) == [m \in Memories |-> IF m \in S \cap live THEN use[m] + 1 ELSE use[m]]

(* Mutant: every ordered pair counted on the row of its two memories.      *)
PairedBothWays(S) ==
    [pair \in Pairs |-> IF pair \subseteq S THEN coUse[pair] + 2 ELSE coUse[pair]]

Paired(S) == [pair \in Pairs |-> IF pair \subseteq S THEN coUse[pair] + 1 ELSE coUse[pair]]

(* recordUse, one transaction: the turn, the memories and their pairs.  A  *)
(* pair with a row deleted meanwhile breaks the foreign key and takes the  *)
(* turn back with it; a lone deleted memory only leaves the turn.          *)
Record(p) ==
    /\ At(p, "boosted")
    /\ LET S == proc[p].ids
       IN  \/ /\ turns < MaxTurns
              /\ (\A pair \in Pairs : pair \subseteq S => pair \subseteq live)
              /\ turns' = turns + 1
              /\ use' = Used(S)
              /\ coUse' = Paired(S)
           \/ /\ \E pair \in Pairs : pair \subseteq S /\ ~(pair \subseteq live)
              /\ UNCHANGED countVars
    /\ proc' = [proc EXCEPT ![p].pc = "open", ![p].ids = {}]
    /\ UNCHANGED <<now, rowVars, salienceVars>>

(* recallHybrid and forget: `at` is fixed, the embedder or other processes *)
(* take their time, and the checkpoint is written with that `at`.          *)
FixAt(p) ==
    /\ At(p, "open")
    /\ proc' = [proc EXCEPT ![p].pc = "waiting", ![p].at = now]
    /\ UNCHANGED <<now, rowVars, salienceVars, countVars>>

Touch(p) ==
    /\ At(p, "waiting")
    /\ \E S \in SUBSET live : Checkpoint(S, proc[p].at)
    /\ Goes(p, "open")

(* A process ends, by itself or not, and another may take its place.       *)
CloseDb(p) ==
    /\ ~At(p, "closed")
    /\ proc' = [proc EXCEPT ![p] = Closed]
    /\ UNCHANGED <<now, rowVars, salienceVars, countVars>>

Tick ==
    /\ now < MaxTime
    /\ now' = now + 1
    /\ UNCHANGED <<rowVars, salienceVars, countVars, proc>>

Next ==
    \/ \E p \in Procs :
          \/ OpenCheck(p) \/ OpenBound(p) \/ OpenSeed(p)
          \/ \E m \in Memories : Create(p, m) \/ Delete(p, m)
          \/ ReadKnown(p) \/ Boost(p) \/ Record(p)
          \/ FixAt(p) \/ Touch(p)
          \/ CloseDb(p)
    \/ Tick

Spec == Init /\ [][Next]_vars

------------------------------------------------------------------------------
(* A process past its seed.                                                *)
Running(p) == proc[p].pc \in {"open", "waiting", "known", "boosted"}

(* No association divides by too little: whatever processes open, die and  *)
(* delete meanwhile, a pair was used together at most as often as either   *)
(* of its memories, and a memory at most as often as there were turns      *)
(* (reinforce.ts: "the denominator must not fall out of step with the      *)
(* numerators").  NPMI's clamps to 1 then never act on stored counts.      *)
PairsWithinUse ==
    \A pair \in Pairs : \A m \in pair : coUse[pair] <= use[m]

UseWithinTurns ==
    \A p \in Procs : Running(p) => \A m \in Memories : use[m] <= turns

(* Counts belong to memories that exist.                                   *)
NoCountOfTheDead ==
    /\ \A m \in Memories \ live : use[m] = 0
    /\ \A pair \in Pairs : coUse[pair] > 0 => pair \subseteq live

(* No interval of a memory's life escapes decay: every write of the        *)
(* checkpoint takes the decay still due out of the salience first.         *)
NoIntervalEscapes == \A m \in live : aged[m] >= mark[m] - born[m]

(* No interval decays twice, so a memory has never lost more days of decay *)
(* than have passed (tests/salience.test.ts: "usa un checkpoint y no       *)
(* vuelve a decaer el mismo intervalo").                                   *)
NoIntervalTwice == \A m \in live : aged[m] <= now

===============================================================================
