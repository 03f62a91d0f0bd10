---------------------------- MODULE MemStoreProofs ----------------------------
(***************************************************************************)
(* What holds of the store for every set of episodes, memories and scopes  *)
(* and any number of concurrent `forget` passes.                           *)
(*                                                                         *)
(* Inv is inductive.  LinkIntegrity alone is preserved by every write, but *)
(* what `forget` deletes was chosen in an earlier state: VictimsStayOld    *)
(* carries the choice across the steps of the other processes, and needs   *)
(* LinkIntegrity (a held episode's memory exists, so a new memory starts   *)
(* with the episodes of its own transaction and nothing else).             *)
(***************************************************************************)
EXTENDS MemStore, TLAPS

Inv == TypeOK /\ LinkIntegrity /\ VictimsStayOld

(***************************************************************************)
(* Type correctness.                                                       *)
(***************************************************************************)
LEMMA AnyScopeType == AnyScope \in Scopes
BY StoreAssumption DEF AnyScope

LEMMA InitType == Init => TypeOK
BY AnyScopeType DEF Init, TypeOK, IdlePass, Vacant

LEMMA NextType == TypeOK /\ [Next]_vars => TypeOK'
<1> SUFFICES ASSUME TypeOK, [Next]_vars PROVE TypeOK'
  OBVIOUS
<1> USE DEF TypeOK
<1>1. ASSUME NEW e \in Episodes, NEW s \in Scopes, Capture(e, s) PROVE TypeOK'
  BY <1>1 DEF Capture, memoryVars, Vacant
<1>2. ASSUME NEW m \in Memories, NEW s \in Scopes, NEW S \in SUBSET Episodes,
             Consolidate(m, s, S)
      PROVE TypeOK'
  BY <1>2 DEF Consolidate
<1>3. ASSUME NEW S \in SUBSET Episodes, Strike(S) PROVE TypeOK'
  BY <1>3 DEF Strike, memoryVars
<1>4. ASSUME NEW m \in Memories, Unconsolidate(m) PROVE TypeOK'
  BY <1>4 DEF Unconsolidate, Forgiven, DeletedMemories, SetNull, Vacant
<1>5. ASSUME NEW m \in Memories, ForgetMemory(m) PROVE TypeOK'
  BY <1>5 DEF ForgetMemory, DeletedMemories, SetNull, Erased, Vacant
<1>6. ASSUME NEW m \in Memories, Fade(m) \/ Reinforce(m) PROVE TypeOK'
  BY <1>6 DEF Fade, Reinforce, episodeVars
<1>7. ASSUME NEW p \in Passes, NEW s \in Scopes \cup {Every},
             NEW b \in BeforeDays, NEW g \in GraceDays, ForgetRead(p, s, b, g)
      PROVE TypeOK'
  <2>1. now - b \in Int
    BY StoreAssumption
  <2>2. Victims(now - b, g, s) \in SUBSET Memories
    BY DEF Victims
  <2>3. QED
    BY <1>7, <2>1, <2>2 DEF ForgetRead, episodeVars, memoryVars
<1>8. ASSUME NEW p \in Passes, ForgetCommit(p) PROVE TypeOK'
  <2>1. IdlePass \in [phase : {"idle", "read"}, scope : Scopes \cup {Every},
                      cutoff : Int, victims : SUBSET Memories]
    BY DEF IdlePass
  <2>2. pass' \in [Passes -> [phase : {"idle", "read"}, scope : Scopes \cup {Every},
                              cutoff : Int, victims : SUBSET Memories]]
    BY <1>8, <2>1 DEF ForgetCommit
  <2>3. mem' \in [Memories -> {"unborn", "live", "gone"}]
    BY <1>8 DEF ForgetCommit, DeletedMemories
  <2>4. place' \in [Episodes -> Memories \cup Vacant]
    BY <1>8 DEF ForgetCommit, SetNull, Erased, Vacant
  <2>5. QED
    BY <1>8, <2>2, <2>3, <2>4 DEF ForgetCommit
<1>9. ASSUME NEW p \in Passes, ForgetEnd(p) PROVE TypeOK'
  BY <1>9 DEF ForgetEnd, IdlePass, episodeVars, memoryVars
<1>10. CASE Tick
  BY <1>10 DEF Tick, episodeVars, memoryVars
<1>11. CASE UNCHANGED vars
  BY <1>11 DEF vars
<1>12. QED
  BY <1>1, <1>2, <1>3, <1>4, <1>5, <1>6, <1>7, <1>8, <1>9, <1>10, <1>11 DEF Next

(* Every variable keeps its type: strikes stay natural, an episode's place *)
(* is a memory id or one of the vacant stages.                             *)
THEOREM TypeCorrect == Spec => []TypeOK
BY InitType, NextType, PTL DEF Spec

(***************************************************************************)
(* The link between an episode and the memory that holds it.               *)
(***************************************************************************)
LEMMA InitInv == Init => Inv
<1> SUFFICES ASSUME Init PROVE Inv
  OBVIOUS
<1>1. TypeOK
  BY InitType
<1>2. LinkIntegrity
  BY StoreAssumption DEF Init, LinkIntegrity, Held, Vacant
<1>3. VictimsStayOld
  BY DEF Init, VictimsStayOld, IdlePass
<1> QED
  BY <1>1, <1>2, <1>3 DEF Inv

(* The two halves of the invariant read these variables only.              *)
LEMMA LinksUntouched ==
    ASSUME LinkIntegrity,
           place' = place, mem' = mem, epScope' = epScope,
           memScope' = memScope, sources' = sources
    PROVE  LinkIntegrity'
BY DEF LinkIntegrity, Held, Live

LEMMA VictimsUntouched ==
    ASSUME TypeOK, VictimsStayOld, epAt' = epAt, pass' = pass,
           \A m \in Memories : mem[m] # "unborn" => mem'[m] # "unborn",
           \A e \in Episodes, m \in Memories : 
              mem[m] # "unborn" /\ place'[e] = m => place[e] = m
    PROVE  VictimsStayOld'
<1> SUFFICES ASSUME NEW p \in Passes, NEW m \in pass[p].victims
             PROVE  /\ mem'[m] # "unborn"
                    /\ \A e \in Episodes : place'[e] = m => epAt[e] < pass[p].cutoff
  BY DEF VictimsStayOld, Linked
<1>1. m \in Memories
  BY DEF TypeOK
<1>2. mem[m] # "unborn" /\ \A e \in Episodes : place[e] = m => epAt[e] < pass[p].cutoff
  BY DEF VictimsStayOld, Linked
<1> QED
  BY <1>1, <1>2

LEMMA NextInv == Inv /\ [Next]_vars => Inv'
<1> SUFFICES ASSUME Inv, [Next]_vars PROVE LinkIntegrity' /\ VictimsStayOld'
  BY NextType DEF Inv
<1> USE StoreAssumption DEF Inv
<1>1. ASSUME NEW e \in Episodes, NEW s \in Scopes, Capture(e, s)
      PROVE  LinkIntegrity' /\ VictimsStayOld'
  <2>1. LinkIntegrity'
    BY <1>1 DEF Capture, LinkIntegrity, Held, Live, TypeOK, Vacant, memoryVars
  <2>2. VictimsStayOld'
    <3> SUFFICES ASSUME NEW p \in Passes, NEW m \in pass[p].victims,
                        NEW f \in Episodes, place'[f] = m
                 PROVE  mem[m] # "unborn" /\ epAt'[f] < pass[p].cutoff
      BY <1>1 DEF VictimsStayOld, Linked, Capture, memoryVars
    <3>1. f # e
      BY <1>1 DEF Capture, TypeOK, Vacant
    <3> QED
      BY <1>1, <3>1 DEF Capture, VictimsStayOld, Linked, TypeOK
  <2> QED
    BY <2>1, <2>2
<1>2. ASSUME NEW m \in Memories, NEW s \in Scopes, NEW S \in SUBSET Episodes,
             Consolidate(m, s, S)
      PROVE  LinkIntegrity' /\ VictimsStayOld'
  <2>1. LinkIntegrity'
    BY <1>2 DEF Consolidate, LinkIntegrity, Held, Live, Taken, Pending, TypeOK
  <2>2. VictimsStayOld'
    BY <1>2, VictimsUntouched DEF Consolidate, TypeOK
  <2> QED
    BY <2>1, <2>2
<1>3. ASSUME NEW S \in SUBSET Episodes, Strike(S)
      PROVE  LinkIntegrity' /\ VictimsStayOld'
  BY <1>3, LinksUntouched, VictimsUntouched DEF Strike, memoryVars
<1>4. ASSUME NEW m \in Memories, Unconsolidate(m)
      PROVE  LinkIntegrity' /\ VictimsStayOld'
  <2>1. LinkIntegrity'
    BY <1>4 DEF Unconsolidate, LinkIntegrity, Held, Live, SetNull, DeletedMemories,
                TypeOK, Vacant
  <2>2. VictimsStayOld'
    BY <1>4, VictimsUntouched
       DEF Unconsolidate, SetNull, DeletedMemories, Live, TypeOK, Vacant
  <2> QED
    BY <2>1, <2>2
<1>5. ASSUME NEW m \in Memories, ForgetMemory(m)
      PROVE  LinkIntegrity' /\ VictimsStayOld'
  <2>1. LinkIntegrity'
    BY <1>5 DEF ForgetMemory, LinkIntegrity, Held, Live, SetNull, Erased, Linked,
                DeletedMemories, TypeOK, Vacant
  <2>2. VictimsStayOld'
    BY <1>5, VictimsUntouched
       DEF ForgetMemory, SetNull, Erased, Linked, DeletedMemories, Live, TypeOK, Vacant
  <2> QED
    BY <2>1, <2>2
<1>6. ASSUME NEW m \in Memories, Fade(m) \/ Reinforce(m)
      PROVE  LinkIntegrity' /\ VictimsStayOld'
  BY <1>6, LinksUntouched, VictimsUntouched DEF Fade, Reinforce, episodeVars
<1>7. ASSUME NEW p \in Passes, NEW s \in Scopes \cup {Every},
             NEW b \in BeforeDays, NEW g \in GraceDays, ForgetRead(p, s, b, g)
      PROVE  LinkIntegrity' /\ VictimsStayOld'
  <2>1. LinkIntegrity'
    BY <1>7, LinksUntouched DEF ForgetRead, episodeVars, memoryVars
  <2>2. VictimsStayOld'
    <3> SUFFICES ASSUME NEW q \in Passes, NEW m \in pass'[q].victims
                 PROVE  /\ mem[m] # "unborn"
                        /\ \A e \in Linked(m) : epAt[e] < pass'[q].cutoff
      BY <1>7 DEF VictimsStayOld, Linked, ForgetRead, episodeVars, memoryVars
    <3>1. CASE q # p
      BY <1>7, <3>1 DEF ForgetRead, VictimsStayOld, TypeOK
    <3>2. CASE q = p
      <4>1. pass'[q].cutoff = now - b /\ m \in Victims(now - b, g, s)
        BY <1>7, <3>2 DEF ForgetRead, TypeOK
      <4>2. now - b \in Int
        BY DEF TypeOK
      <4> QED
        BY <4>1, <4>2 DEF Victims, Live, Linked, TypeOK
    <3> QED
      BY <3>1, <3>2
  <2> QED
    BY <2>1, <2>2
<1>8. ASSUME NEW p \in Passes, ForgetCommit(p)
      PROVE  LinkIntegrity' /\ VictimsStayOld'
  <2>1. LinkIntegrity'
    <3> SUFFICES ASSUME NEW e \in Episodes, place'[e] \in Memories
                 PROVE  /\ mem'[place'[e]] = "live"
                        /\ epScope[e] = memScope[place'[e]]
                        /\ e \in sources[place'[e]]
      BY <1>8 DEF ForgetCommit, LinkIntegrity, Held, Live
    <3>1. place'[e] = place[e] /\ place[e] \notin pass[p].victims
      BY <1>8 DEF ForgetCommit, SetNull, Erased, Vacant
    <3> QED
      BY <1>8, <3>1 DEF ForgetCommit, LinkIntegrity, Held, Live, DeletedMemories, TypeOK
  <2>2. VictimsStayOld'
    <3> SUFFICES ASSUME NEW q \in Passes, NEW m \in pass'[q].victims
                 PROVE  /\ mem'[m] # "unborn"
                        /\ \A e \in Episodes : place'[e] = m => epAt[e] < pass'[q].cutoff
      BY <1>8 DEF VictimsStayOld, Linked, ForgetCommit
    <3>1. q # p /\ pass'[q] = pass[q]
      BY <1>8 DEF ForgetCommit, IdlePass, TypeOK
    <3>2. m \in Memories
      BY <3>1 DEF TypeOK
    <3>3. mem'[m] # "unborn"
      BY <1>8, <3>1, <3>2 DEF ForgetCommit, DeletedMemories, VictimsStayOld, TypeOK
    <3>4. \A e \in Episodes : place'[e] = m => place[e] = m
      BY <1>8, <3>2 DEF ForgetCommit, SetNull, Erased, Vacant
    <3> QED
      BY <3>1, <3>3, <3>4 DEF VictimsStayOld, Linked
  <2> QED
    BY <2>1, <2>2
<1>9. ASSUME NEW p \in Passes, ForgetEnd(p)
      PROVE  LinkIntegrity' /\ VictimsStayOld'
  <2>1. LinkIntegrity'
    BY <1>9, LinksUntouched DEF ForgetEnd, episodeVars, memoryVars
  <2>2. VictimsStayOld'
    BY <1>9 DEF ForgetEnd, VictimsStayOld, Linked, IdlePass, TypeOK, episodeVars, memoryVars
  <2> QED
    BY <2>1, <2>2
<1>10. CASE Tick
  BY <1>10, LinksUntouched, VictimsUntouched DEF Tick, episodeVars, memoryVars
<1>11. CASE UNCHANGED vars
  BY <1>11, LinksUntouched, VictimsUntouched DEF vars
<1> QED
  BY <1>1, <1>2, <1>3, <1>4, <1>5, <1>6, <1>7, <1>8, <1>9, <1>10, <1>11 DEF Next

(* LinkIntegrity and VictimsStayOld hold in every reachable state, for any *)
(* number of concurrent writers.                                           *)
THEOREM InvHolds == Spec => []Inv
BY InitInv, NextInv, PTL DEF Spec

THEOREM LinkIntegrityHolds == Spec => []LinkIntegrity
<1>1. Inv => LinkIntegrity
  BY DEF Inv
<1> QED
  BY <1>1, InvHolds, PTL

THEOREM VictimsStayOldHolds == Spec => []VictimsStayOld
<1>1. Inv => VictimsStayOld
  BY DEF Inv
<1> QED
  BY <1>1, InvHolds, PTL

(***************************************************************************)
(* What a step of the store may never do.                                  *)
(***************************************************************************)
LEMMA MovingStep ==
    ASSUME [Next]_vars
    PROVE  \/ place' = place
           \/ \E e \in Episodes, s \in Scopes : Capture(e, s)
           \/ \E m \in Memories, s \in Scopes, S \in SUBSET Episodes : Consolidate(m, s, S)
           \/ \E m \in Memories : Unconsolidate(m)
           \/ \E m \in Memories : ForgetMemory(m)
           \/ \E p \in Passes : ForgetCommit(p)
<1>1. ASSUME NEW S \in SUBSET Episodes, Strike(S) PROVE place' = place
  BY <1>1 DEF Strike
<1>2. ASSUME NEW m \in Memories, Fade(m) \/ Reinforce(m) PROVE place' = place
  BY <1>2 DEF Fade, Reinforce, episodeVars
<1>3. ASSUME NEW p \in Passes, NEW s \in Scopes \cup {Every},
             NEW b \in BeforeDays, NEW g \in GraceDays,
             ForgetRead(p, s, b, g) \/ ForgetEnd(p)
      PROVE  place' = place
  BY <1>3 DEF ForgetRead, ForgetEnd, episodeVars
<1>4. ASSUME NEW p \in Passes, ForgetEnd(p) PROVE place' = place
  BY <1>4 DEF ForgetEnd, episodeVars
<1>5. Tick \/ UNCHANGED vars => place' = place
  BY DEF Tick, episodeVars, vars
<1> QED
  BY <1>1, <1>2, <1>3, <1>4, <1>5 DEF Next

LEMMA StepOwnership ==
    ASSUME Inv, [Next]_vars, NEW e \in Episodes, place'[e] # place[e]
    PROVE  /\ Held(e) => place'[e] \in {"pending", "gone"}
           /\ place'[e] \in Memories => mem[place'[e]] = "unborn"
<1> USE StoreAssumption DEF Inv, TypeOK, Vacant, Held
<1>1. ASSUME NEW f \in Episodes, NEW s \in Scopes, Capture(f, s)
      PROVE  place[e] = "unborn" /\ place'[e] = "pending"
  BY <1>1 DEF Capture
<1>2. ASSUME NEW m \in Memories, NEW s \in Scopes, NEW S \in SUBSET Episodes,
             Consolidate(m, s, S)
      PROVE  place[e] = "pending" /\ place'[e] = m /\ mem[m] = "unborn"
  BY <1>2 DEF Consolidate, Taken, Pending
<1>3. ASSUME NEW m \in Memories, Unconsolidate(m) \/ ForgetMemory(m)
      PROVE  place'[e] \in {"pending", "gone"}
  BY <1>3 DEF Unconsolidate, ForgetMemory, SetNull, Erased
<1>4. ASSUME NEW p \in Passes, ForgetCommit(p)
      PROVE  place'[e] \in {"pending", "gone"}
  BY <1>4 DEF ForgetCommit, SetNull, Erased
<1> QED
  BY <1>1, <1>2, <1>3, <1>4, MovingStep

(* The memory that holds an episode never changes, and no episode joins a  *)
(* memory after the transaction that created it.                           *)
THEOREM OwnershipSettledHolds == Spec => OwnershipSettled
<1>1. Inv /\ [Next]_vars =>
        [\A e \in Episodes : place'[e] # place[e] =>
            /\ Held(e) => place'[e] \in {"pending", "gone"}
            /\ place'[e] \in Memories => mem[place'[e]] = "unborn"]_vars
  BY StepOwnership
<1> QED
  BY <1>1, InvHolds, PTL DEF Spec, OwnershipSettled

(* Only its two endings take a pass from "read" to "idle".                 *)
LEMMA CommittedStep ==
    ASSUME TypeOK, [Next]_vars, NEW p \in Passes, Committed(p)
    PROVE  ForgetCommit(p) \/ ForgetEnd(p)
<1>1. ASSUME NEW q \in Passes, NEW s \in Scopes \cup {Every},
             NEW b \in BeforeDays, NEW g \in GraceDays, ForgetRead(q, s, b, g)
      PROVE  FALSE
  BY <1>1 DEF TypeOK, Committed, ForgetRead
<1>2. ASSUME NEW q \in Passes, ForgetCommit(q) \/ ForgetEnd(q) PROVE q = p
  BY <1>2 DEF TypeOK, Committed, ForgetCommit, ForgetEnd
<1>3. ASSUME NEW e \in Episodes, NEW s \in Scopes, Capture(e, s) PROVE FALSE
  BY <1>3 DEF Committed, Capture
<1>4. ASSUME NEW m \in Memories, NEW s \in Scopes, NEW S \in SUBSET Episodes,
             Consolidate(m, s, S)
      PROVE  FALSE
  BY <1>4 DEF Committed, Consolidate
<1>5. ASSUME NEW S \in SUBSET Episodes, Strike(S) PROVE FALSE
  BY <1>5 DEF Committed, Strike
<1>6. ASSUME NEW m \in Memories,
             Unconsolidate(m) \/ ForgetMemory(m) \/ Fade(m) \/ Reinforce(m)
      PROVE  FALSE
  BY <1>6 DEF Committed, Unconsolidate, ForgetMemory, Fade, Reinforce
<1>7. ~ Tick /\ ~ UNCHANGED vars
  BY DEF Committed, Tick, vars
<1> QED
  BY <1>1, <1>2, <1>3, <1>4, <1>5, <1>6, <1>7 DEF Next

(* `forget` deletes nothing newer than its cutoff, and queues nothing again:*)
(* what it deletes was expired, or backed a victim and so is old.          *)
LEMMA StepForget ==
    ASSUME Inv, [Next]_vars, NEW p \in Passes, Committed(p), NEW e \in Episodes
    PROVE  /\ Stored(e) /\ place'[e] = "gone" => epAt[e] < pass[p].cutoff
           /\ Held(e) => place'[e] # "pending"
<1>1. CASE ForgetCommit(p)
  <2>1. place'[e] = IF e \in Expired(p) \cup Backing(p) THEN "gone"
                    ELSE IF place[e] \in pass[p].victims THEN "pending" ELSE place[e]
    BY <1>1, StoreAssumption DEF ForgetCommit, SetNull, Erased, Inv, TypeOK, Vacant
  <2>2. place[e] \in pass[p].victims => e \in Backing(p)
    BY DEF Backing, Linked
  <2>3. e \in Expired(p) \cup Backing(p) => epAt[e] < pass[p].cutoff
    BY DEF Expired, Backing, Inv, VictimsStayOld
  <2> QED
    BY <2>1, <2>2, <2>3, StoreAssumption DEF Stored, Held, Inv, TypeOK, Vacant
<1>2. CASE ForgetEnd(p)
  BY <1>2, StoreAssumption DEF ForgetEnd, episodeVars, Stored, Held, Inv, TypeOK, Vacant
<1> QED
  BY <1>1, <1>2, CommittedStep DEF Inv

THEOREM ForgetSparesRecentHolds == Spec => ForgetSparesRecent
<1>1. Inv /\ [Next]_vars =>
        [\A p \in Passes : Committed(p) =>
            \A e \in Episodes :
               (Stored(e) /\ place'[e] = "gone") => epAt[e] < pass[p].cutoff]_vars
  BY StepForget
<1> QED
  BY <1>1, InvHolds, PTL DEF Spec, ForgetSparesRecent

THEOREM ForgetNeverRequeuesHolds == Spec => ForgetNeverRequeues
<1>1. Inv /\ [Next]_vars =>
        [\A p \in Passes : Committed(p) =>
            \A e \in Episodes : Held(e) => place'[e] # "pending"]_vars
  BY StepForget
<1> QED
  BY <1>1, InvHolds, PTL DEF Spec, ForgetNeverRequeues

(* Only unconsolidateMemory sends an episode back to the queue, and it     *)
(* clears the strikes of every episode it releases.                        *)
THEOREM ReleasedWithoutStrikesHolds == Spec => ReleasedWithoutStrikes
<1>1. ASSUME Inv, [Next]_vars, NEW e \in Episodes, Held(e), place'[e] = "pending"
      PROVE  strikes'[e] = 0
  <2> USE <1>1, StoreAssumption DEF Inv, TypeOK, Vacant, Held
  <2>1. ASSUME NEW m \in Memories, Unconsolidate(m) PROVE strikes'[e] = 0
    BY <2>1 DEF Unconsolidate, SetNull, Forgiven, Linked
  <2>2. ASSUME NEW m \in Memories, ForgetMemory(m) PROVE FALSE
    BY <2>2 DEF ForgetMemory, SetNull, Erased, Linked
  <2>3. ASSUME NEW p \in Passes, ForgetCommit(p) PROVE FALSE
    BY <2>3 DEF ForgetCommit, SetNull, Erased, Backing, Linked
  <2>4. ASSUME NEW f \in Episodes, NEW s \in Scopes, Capture(f, s) PROVE FALSE
    BY <2>4 DEF Capture
  <2>5. ASSUME NEW m \in Memories, NEW s \in Scopes, NEW S \in SUBSET Episodes,
               Consolidate(m, s, S)
        PROVE  FALSE
    BY <2>5 DEF Consolidate
  <2>6. place' # place
    OBVIOUS
  <2> QED
    BY <2>1, <2>2, <2>3, <2>4, <2>5, <2>6, MovingStep
<1>2. Inv /\ [Next]_vars =>
        [\A e \in Episodes : Held(e) /\ place'[e] = "pending" => strikes'[e] = 0]_vars
  BY <1>1
<1> QED
  BY <1>2, InvHolds, PTL DEF Spec, ReleasedWithoutStrikes

(***************************************************************************)
(* The store implements the abstract life of an episode.                   *)
(***************************************************************************)
LEMMA LifeInit == Init => Life!Init
BY StoreAssumption DEF Init, Life!Init, lifeOf, Held, Vacant

LEMMA LifeNext == Inv /\ [Next]_vars => [Life!Next]_lifeOf
<1> SUFFICES ASSUME Inv, [Next]_vars PROVE [Life!Next]_lifeOf
  OBVIOUS
<1> USE StoreAssumption DEF Inv, TypeOK, Vacant, lifeOf, Held
<1>1. ASSUME NEW e \in Episodes, NEW s \in Scopes, Capture(e, s)
      PROVE  Life!Next
  <2>1. Life!Born(e)
    BY <1>1 DEF Capture, Life!Born, Life!Move
  <2> QED
    BY <2>1 DEF Life!Next, Life!Born, Life!Move
<1>2. ASSUME NEW m \in Memories, NEW s \in Scopes, NEW S \in SUBSET Episodes,
             Consolidate(m, s, S)
      PROVE  Life!Next
  <2>1. Life!Hold(Taken(S, s))
    BY <1>2 DEF Consolidate, Taken, Pending, Life!Hold, Life!Move
  <2> QED
    BY <2>1 DEF Life!Next, Life!Hold, Life!Move, Taken
<1>3. ASSUME NEW m \in Memories, Unconsolidate(m)
      PROVE  Life!Next
  <2>1. Life!Release(Linked(m))
    BY <1>3 DEF Unconsolidate, SetNull, Linked, Life!Release, Life!Move
  <2> QED
    BY <2>1 DEF Life!Next, Life!Release, Life!Move, Linked
<1>4. ASSUME NEW m \in Memories, ForgetMemory(m)
      PROVE  Life!Next
  <2>1. Life!Erase(Linked(m))
    BY <1>4 DEF ForgetMemory, SetNull, Erased, Linked, Life!Erase, Life!Move
  <2> QED
    BY <2>1 DEF Life!Next, Life!Erase, Life!Move, Linked
<1>5. ASSUME NEW p \in Passes, ForgetCommit(p)
      PROVE  Life!Next
  <2> DEFINE D == Expired(p) \cup Backing(p)
  <2>1. \A e \in Episodes : place'[e] = IF e \in D THEN "gone" ELSE place[e]
    BY <1>5 DEF ForgetCommit, SetNull, Erased, Backing, Linked
  <2>2. D \subseteq Episodes /\ \A e \in D : place[e] \in Memories
    BY DEF Expired, Backing, Linked
  <2> HIDE DEF D
  <2>3. \A e \in D : lifeOf[e] = "held"
    BY <2>2
  <2>4. lifeOf' = [e \in Episodes |-> IF e \in D THEN "gone" ELSE lifeOf[e]]
    BY <2>1, <2>2
  <2>5. Life!Erase(D)
    BY <2>3, <2>4 DEF Life!Erase, Life!Move
  <2> QED
    BY <2>2, <2>5 DEF Life!Next, Life!Erase, Life!Move
<1>6. place' = place => lifeOf' = lifeOf
  OBVIOUS
<1> QED
  BY <1>1, <1>2, <1>3, <1>4, <1>5, <1>6, MovingStep

(* No interleaving of writers erases an episode that is still pending, nor *)
(* splits the episodes of one transaction between two fates.               *)
THEOREM ImplementsLife == Spec => LifeSpec
BY LifeInit, LifeNext, InvHolds, PTL DEF Spec, LifeSpec, Life!Spec

===============================================================================
