------------------------------- MODULE MemStore -------------------------------
(***************************************************************************)
(* The store every misMEM process shares: the episodes and memories tables *)
(* of store/db.ts and the writes of memory/ that move an episode through   *)
(* its life.  A better-sqlite3 statement or transaction is one step; other *)
(* processes run between two of them.  The one write that spans two steps  *)
(* is `forget`, which selects its victims before it opens its transaction. *)
(*                                                                         *)
(* Bodies, gists and embeddings are not here: a row is its id and the      *)
(* columns the guards read.  A capture whose text is already stored        *)
(* changes nothing and is a stuttering step.                               *)
(***************************************************************************)
EXTENDS Integers, FiniteSets

CONSTANTS
    Episodes,    \* ids of rows of `episodes`, drawn by ulid(): used once
    Memories,    \* ids of rows of `memories`, used once
    Scopes,
    Passes,      \* the processes that may be running `forget`
    Every,       \* the scope argument of a `forget` that names no scope
    BeforeDays,  \* values of before_days
    GraceDays,   \* values of memory_grace_days
    MaxTime,     \* bound on the clock
    MaxStrikes   \* bound on the strikes of one episode

(* What an episode's row can say besides the memory in consolidated_into.  *)
Vacant == {"unborn", "pending", "gone"}

ASSUME StoreAssumption ==
    /\ Memories \cap Vacant = {}
    /\ Every \notin Scopes
    /\ Scopes # {}
    /\ BeforeDays \subseteq Nat \ {0}
    /\ GraceDays \subseteq Nat

VARIABLES
    now,       \* the clock Date.now() reads, in days
    place,     \* place[e]: a memory (consolidated_into), "pending", or no row
    epScope, epAt,    \* episodes.scope, episodes.created_at
    strikes,   \* episodes.uncited_count
    mem,       \* mem[m] \in {"unborn", "live", "gone"}
    memScope, memAt,  \* memories.scope, memories.created_at
    sources,   \* memories.source_episode_ids
    faded,     \* effectiveSalience(m) is below the salience_below of `forget`
    pass       \* pass[p]: a `forget` between its reads and its transaction

episodeVars == <<place, epScope, epAt, strikes>>
memoryVars  == <<mem, memScope, memAt, sources, faded>>
vars == <<now, place, epScope, epAt, strikes,
          mem, memScope, memAt, sources, faded, pass>>

AnyScope == CHOOSE s \in Scopes : TRUE
IdlePass == [phase |-> "idle", scope |-> Every, cutoff |-> 0, victims |-> {}]

TypeOK ==
    /\ now \in Nat
    /\ place \in [Episodes -> Memories \cup Vacant]
    /\ epScope \in [Episodes -> Scopes]
    /\ epAt \in [Episodes -> Nat]
    /\ strikes \in [Episodes -> Nat]
    /\ mem \in [Memories -> {"unborn", "live", "gone"}]
    /\ memScope \in [Memories -> Scopes]
    /\ memAt \in [Memories -> Nat]
    /\ sources \in [Memories -> SUBSET Episodes]
    /\ faded \in [Memories -> BOOLEAN]
    /\ pass \in [Passes -> [phase : {"idle", "read"}, scope : Scopes \cup {Every},
                            cutoff : Int, victims : SUBSET Memories]]

Init ==
    /\ now = 0
    /\ place = [e \in Episodes |-> "unborn"]
    /\ epScope = [e \in Episodes |-> AnyScope]
    /\ epAt = [e \in Episodes |-> 0]
    /\ strikes = [e \in Episodes |-> 0]
    /\ mem = [m \in Memories |-> "unborn"]
    /\ memScope = [m \in Memories |-> AnyScope]
    /\ memAt = [m \in Memories |-> 0]
    /\ sources = [m \in Memories |-> {}]
    /\ faded = [m \in Memories |-> FALSE]
    /\ pass = [p \in Passes |-> IdlePass]

------------------------------------------------------------------------------
(* Rows.                                                                   *)

Stored(e)  == place[e] \notin {"unborn", "gone"}
Pending(e) == place[e] = "pending"
Held(e)    == place[e] \in Memories
Live(m)    == mem[m] = "live"
Linked(m)  == {e \in Episodes : place[e] = m}

(* Mutant: memories are deleted first, so that the DELETE comes too late   *)
(* for the episodes ON DELETE SET NULL has turned back to pending.         *)
ErasedTooLate(pl, S) == pl

(* DELETE FROM episodes for the rows of S.                                 *)
Erased(pl, S) == [e \in Episodes |-> IF e \in S THEN "gone" ELSE pl[e]]

(* consolidated_into REFERENCES memories(id) ON DELETE SET NULL: deleting  *)
(* the memories of D turns what still points at them back to pending.      *)
SetNull(pl, D) == [e \in Episodes |-> IF pl[e] \in D THEN "pending" ELSE pl[e]]

DeletedMemories(D) == [m \in Memories |-> IF m \in D /\ Live(m) THEN "gone" ELSE mem[m]]

------------------------------------------------------------------------------
(* capture: a text the scope does not hold yet becomes a pending episode.  *)
Capture(e, s) ==
    /\ place[e] = "unborn"
    /\ place' = [place EXCEPT ![e] = "pending"]
    /\ epScope' = [epScope EXCEPT ![e] = s]
    /\ epAt' = [epAt EXCEPT ![e] = now]
    /\ UNCHANGED <<now, strikes, memoryVars, pass>>

(* Mutants: the UPDATE without `scope = ?`, without `consolidated_into IS  *)
(* NULL`.                                                                  *)
TakenFromAnyScope(S, s) == {e \in S : Pending(e)}
TakenFromAnyOwner(S, s) == {e \in S : Stored(e) /\ epScope[e] = s}

(* The rows consolidate's UPDATE changes among the ids its caller named.   *)
Taken(S, s) == {e \in S : Pending(e) /\ epScope[e] = s}

(* consolidate: one memory from the pending episodes of one scope.  Zero   *)
(* changed rows throw and roll the INSERT back; the ids are recorded in    *)
(* source_episode_ids as they were given.                                  *)
Consolidate(m, s, S) ==
    /\ mem[m] = "unborn"
    /\ Taken(S, s) # {}
    /\ place' = [e \in Episodes |-> IF e \in Taken(S, s) THEN m ELSE place[e]]
    /\ mem' = [mem EXCEPT ![m] = "live"]
    /\ memScope' = [memScope EXCEPT ![m] = s]
    /\ memAt' = [memAt EXCEPT ![m] = now]
    /\ sources' = [sources EXCEPT ![m] = S]
    /\ UNCHANGED <<now, epScope, epAt, strikes, faded, pass>>

(* The strike of consolidation/scope.ts on a whole uncited batch.  Reading *)
(* back the count of a deleted row throws and rolls every strike back.     *)
Strike(S) ==
    /\ \A e \in S : Stored(e) /\ strikes[e] < MaxStrikes
    /\ strikes' = [e \in Episodes |-> IF e \in S THEN strikes[e] + 1 ELSE strikes[e]]
    /\ UNCHANGED <<now, place, epScope, epAt, memoryVars, pass>>

(* Mutant: no strike is forgiven.                                          *)
NoStrikeForgiven(S)  == strikes

Forgiven(S) == [e \in Episodes |-> IF e \in S THEN 0 ELSE strikes[e]]

(* unconsolidateMemory: the summary goes and its episodes wait again.      *)
Unconsolidate(m) ==
    /\ Live(m)
    /\ strikes' = Forgiven(Linked(m))
    /\ mem' = DeletedMemories({m})
    /\ place' = SetNull(place, {m})
    /\ UNCHANGED <<now, epScope, epAt, memScope, memAt, sources, faded, pass>>

(* forgetMemory: the memory and every episode that backs it.               *)
ForgetMemory(m) ==
    /\ Live(m)
    /\ mem' = DeletedMemories({m})
    /\ place' = SetNull(Erased(place, Linked(m)), {m})
    /\ UNCHANGED <<now, epScope, epAt, strikes, memScope, memAt, sources, faded, pass>>

------------------------------------------------------------------------------
(* forget, first half: `at` is read, then the memories past their grace    *)
(* and below the salience cutoff none of whose episodes is recent.         *)
InScope(s, filter) == filter = Every \/ s = filter

(* Mutant: the NOT EXISTS over recent episodes is missing.                 *)
VictimsBackedByAnything(cutoff, grace, scope) ==
    {m \in Memories : Live(m) /\ InScope(memScope[m], scope)
                      /\ memAt[m] <= now - grace /\ faded[m]}

Victims(cutoff, grace, scope) ==
    {m \in Memories :
        /\ Live(m) /\ InScope(memScope[m], scope)
        /\ memAt[m] <= now - grace
        /\ ~ \E e \in Linked(m) : epAt[e] >= cutoff
        /\ faded[m]}

ForgetRead(p, scope, before, grace) ==
    /\ pass[p].phase = "idle"
    /\ pass' = [pass EXCEPT ![p] =
                   [phase |-> "read", scope |-> scope, cutoff |-> now - before,
                    victims |-> Victims(now - before, grace, scope)]]
    /\ UNCHANGED <<now, episodeVars, memoryVars>>

(* Mutant: the DELETE without `consolidated_into IS NOT NULL`.             *)
ExpiredPendingToo(p) ==
    {e \in Episodes : Stored(e) /\ epAt[e] < pass[p].cutoff
                      /\ InScope(epScope[e], pass[p].scope)}

(* The consolidated episodes past the cutoff, whatever their memory.       *)
Expired(p) ==
    {e \in Episodes : Held(e) /\ epAt[e] < pass[p].cutoff
                      /\ InScope(epScope[e], pass[p].scope)}

Backing(p) == UNION {Linked(m) : m \in pass[p].victims}

(* forget, second half, one transaction.  Its decayMemories rewrites each  *)
(* salience to the value it already stands for, so `faded` does not move.  *)
ForgetCommit(p) ==
    /\ pass[p].phase = "read"
    /\ mem' = DeletedMemories(pass[p].victims)
    /\ place' = SetNull(Erased(place, Expired(p) \cup Backing(p)), pass[p].victims)
    /\ pass' = [pass EXCEPT ![p] = IdlePass]
    /\ UNCHANGED <<now, epScope, epAt, strikes, memScope, memAt, sources, faded>>

(* dry_run, or a transaction the busy database refused: nothing is deleted.*)
ForgetEnd(p) ==
    /\ pass[p].phase = "read"
    /\ pass' = [pass EXCEPT ![p] = IdlePass]
    /\ UNCHANGED <<now, episodeVars, memoryVars>>

------------------------------------------------------------------------------
(* Salience, reduced to the side of the cutoff it is on: it falls with     *)
(* time or with the value consolidation writes, and rises with use.        *)
Fade(m) ==
    /\ Live(m) /\ ~faded[m]
    /\ faded' = [faded EXCEPT ![m] = TRUE]
    /\ UNCHANGED <<now, episodeVars, mem, memScope, memAt, sources, pass>>

Reinforce(m) ==
    /\ Live(m) /\ faded[m]
    /\ faded' = [faded EXCEPT ![m] = FALSE]
    /\ UNCHANGED <<now, episodeVars, mem, memScope, memAt, sources, pass>>

Tick ==
    /\ now < MaxTime
    /\ now' = now + 1
    /\ UNCHANGED <<episodeVars, memoryVars, pass>>

Next ==
    \/ \E e \in Episodes, s \in Scopes : Capture(e, s)
    \/ \E m \in Memories, s \in Scopes, S \in SUBSET Episodes : Consolidate(m, s, S)
    \/ \E S \in SUBSET Episodes : Strike(S)
    \/ \E m \in Memories : Unconsolidate(m) \/ ForgetMemory(m) \/ Fade(m) \/ Reinforce(m)
    \/ \E p \in Passes : 
          \/ \E s \in Scopes \cup {Every}, b \in BeforeDays, g \in GraceDays :
                ForgetRead(p, s, b, g)
          \/ ForgetCommit(p)
          \/ ForgetEnd(p)
    \/ Tick

Spec == Init /\ [][Next]_vars

------------------------------------------------------------------------------
(* Every consolidated episode points at a memory that exists, of its own   *)
(* scope, that names it as a source: the foreign key, the scope clause of  *)
(* consolidate and the two deletes agree.                                  *)
LinkIntegrity ==
    \A e \in Episodes : Held(e) =>
        /\ Live(place[e])
        /\ epScope[e] = memScope[place[e]]
        /\ e \in sources[place[e]]

(* What `forget` selected stays deletable until its transaction: whatever  *)
(* other processes do meanwhile, a victim is a memory once created, and    *)
(* the episodes it still has are all older than before_days.               *)
VictimsStayOld ==
    \A p \in Passes : \A m \in pass[p].victims :
        /\ mem[m] # "unborn"
        /\ \A e \in Linked(m) : epAt[e] < pass[p].cutoff

(* The memory a consolidated episode belongs to never changes, and no      *)
(* episode joins a memory after the transaction that created it.  The      *)
(* impact a user confirms and the victims `forget` selected rest on this.  *)
OwnershipSettled ==
    [][\A e \in Episodes : place'[e] # place[e] =>
          /\ Held(e) => place'[e] \in {"pending", "gone"}
          /\ place'[e] \in Memories => mem[place'[e]] = "unborn"]_vars

Committed(p) == pass[p].phase = "read" /\ pass'[p].phase = "idle"

(* `forget` deletes no episode newer than its before_days, not even one of *)
(* a memory it selected before other processes consolidated, undid and     *)
(* captured (memory/forget.ts: "one newer episode keeps the whole memory   *)
(* alive").                                                                *)
ForgetSparesRecent ==
    [][\A p \in Passes : Committed(p) =>
          \A e \in Episodes :
             (Stored(e) /\ place'[e] = "gone") => epAt[e] < pass[p].cutoff]_vars

(* Forgetting never sends an episode back to the consolidation queue       *)
(* (memory/forget.ts: "ON DELETE SET NULL would otherwise re-queue them"). *)
ForgetNeverRequeues ==
    [][\A p \in Passes : Committed(p) =>
          \A e \in Episodes : Held(e) => place'[e] # "pending"]_vars

(* An episode that returns to pending returns without strikes.             *)
ReleasedWithoutStrikes ==
    [][\A e \in Episodes : Held(e) /\ place'[e] = "pending" => strikes'[e] = 0]_vars

(* The store implements the abstract life of an episode.                   *)
lifeOf == [e \in Episodes |-> IF Held(e) THEN "held" ELSE place[e]]

Life == INSTANCE EpisodeLife WITH life <- lifeOf
LifeSpec == Life!Spec

===============================================================================
