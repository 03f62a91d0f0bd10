------------------------------ MODULE SleepProofs ------------------------------
(***************************************************************************)
(* What holds of the nightly run for every queue, every number of runs and *)
(* every answer of the model.                                              *)
(*                                                                         *)
(* Two facts carry everything.  Every step of a night is a step of the     *)
(* store, or none (NightStep), so what MemStoreProofs shows of the store   *)
(* holds while runs read and write.  And RunsInv says what the local state *)
(* of a run may be at each statement, and that what it read stays born and *)
(* old enough whatever the other processes do.  PoisonInv and EarnedInv    *)
(* add what a run may take for noise, HistInv what it may strike again.    *)
(***************************************************************************)
EXTENDS StrikeHistory, MemStoreProofs, FiniteSetTheorems, SequenceTheorems,
        WellFoundedInduction

Labels == {"idle", "scope", "batch", "stub", "markStub", "llm", "write", "markMemory",
           "strike", "noise", "markNoise", "after"}

Locals == [pc : Labels, todo : Seq(Scopes), cutoff : Int, calls : 0 .. MaxCalls, cap : Nat,
           skipped : SUBSET Episodes, deferred : SUBSET Episodes,
           batch : SUBSET Episodes, noise : SUBSET Episodes,
           answer : Seq(SUBSET Episodes), silent : BOOLEAN, cited : SUBSET Episodes,
           progress : BOOLEAN, memory : Memories \cup {NoMemory}]

(* What a run holds depends on the statement it is at.  The current scope  *)
(* is there from the first batch on; the halving never reaches zero; a     *)
(* batch is disjoint from what the run gave up until it strikes it.        *)
WellPlaced(x) ==
    /\ x.pc \notin {"idle", "scope"} => x.todo # <<>>
    /\ x.pc \in {"markStub", "markMemory", "markNoise"} => x.memory # NoMemory
    /\ x.pc \in {"idle", "scope", "batch", "after"} => x.batch = {} /\ x.noise = {}
    /\ x.pc \notin {"write", "markMemory", "strike", "noise", "markNoise"} => x.cited = {}
    /\ x.pc \notin {"noise", "markNoise"} => x.batch \cap (x.skipped \cup x.deferred) = {}
    /\ x.pc = "noise" => x.noise \cap x.cited = {}
    /\ x.pc = "llm" => x.batch # {}
    /\ x.silent => x.answer = <<>> /\ x.cited = {}
    /\ Episodes # {} => x.cap > 0

Fine(x) == x \in Locals /\ WellPlaced(x)

(* The episodes of S exist and were old enough at the cutoff: rows of the  *)
(* table never become younger and never lose their birth.                  *)
Aged(S, cutoff) == \A e \in S : place[e] # "unborn" /\ epAt[e] < cutoff

Good(x) == Fine(x) /\ Aged(x.batch \cup x.noise, x.cutoff)

RunsInv == run \in [Runs -> Locals] /\ \A r \in Runs : Good(run[r])

SleepInv == Inv /\ RunsInv

(***************************************************************************)
(* Numbers and sets.                                                       *)
(***************************************************************************)
LEMMA LeastNat ==
    ASSUME NEW T \in SUBSET Nat, T # {}
    PROVE  \E n \in T : \A k \in T : n <= k
<1>1. \E n \in T : \A k \in T : ~ (<<k, n>> \in OpToRel(<, Nat))
  BY Zenon, NatLessThanWellFounded, WFMin
<1>2. PICK n \in T : \A k \in T : ~ (k < n)
  BY Zenon, <1>1 DEF OpToRel
<1> QED
  BY <1>2

LEMMA Counts ==
    ASSUME NEW S \in SUBSET Episodes
    PROVE  Cardinality(S) \in Nat /\ (S # {} => Cardinality(S) > 0)
<1>1. IsFiniteSet(S)
  BY FS_Subset, SleepAssumption
<1> QED
  BY <1>1, FS_CardinalityType, FS_EmptySet

LEMMA Numbers == /\ Uncapped \in Nat /\ (Episodes # {} => Uncapped > 0)
                 /\ MaxBatch \in Nat \ {0} /\ PromptFit \in Nat \ {0}
                 /\ MaxCalls \in Nat \ {0} /\ UncitedStrikes \in Nat \ {0}
                 /\ MinAge \in Nat /\ NoMemory \notin Memories
BY Counts, SleepAssumption DEF Uncapped

(* The oldest k of some episodes are some of them, and at least one.       *)
LEMMA OldestSome ==
    ASSUME TypeOK, NEW S \in SUBSET Episodes, NEW k \in Nat
    PROVE  /\ Oldest(S, k) \subseteq S
           /\ S # {} /\ k > 0 => Oldest(S, k) # {}
<1>1. Oldest(S, k) \subseteq S
  BY DEF Oldest
<1>2. ASSUME S # {}, k > 0 PROVE Oldest(S, k) # {}
  <2> DEFINE Ages == {epAt[e] : e \in S}
  <2>1. Ages \in SUBSET Nat /\ Ages # {}
    BY <1>2 DEF TypeOK
  <2>2. PICK t \in Ages : \A u \in Ages : t <= u
    BY <2>1, LeastNat
  <2> DEFINE First == {e \in S : epAt[e] = t}
  <2>3. First \in SUBSET Nat /\ First # {}
    BY SleepAssumption
  <2>4. PICK e \in First : \A f \in First : e <= f
    BY <2>3, LeastNat
  <2>5. ASSUME NEW f \in S PROVE ~ Older(f, e)
    <3>1. epAt[f] \in Nat /\ f \in Nat
      BY SleepAssumption DEF TypeOK
    <3>4. epAt[e] = t /\ e \in Nat
      BY <2>3
    <3>5. t \in Nat
      BY <2>1
    <3>2. t <= epAt[f]
      BY <2>2
    <3>3. epAt[f] = t => e <= f
      BY <2>4
    <3> QED
      BY <3>1, <3>2, <3>3, <3>4, <3>5 DEF Older
  <2>6. {f \in S : Older(f, e)} = {}
    BY <2>5
  <2>7. Cardinality({f \in S : Older(f, e)}) < k
    BY <2>6, <1>2, FS_EmptySet
  <2> QED
    BY <2>7 DEF Oldest
<1> QED
  BY <1>1, <1>2

LEMMA EligibleAged ==
    ASSUME NEW s, NEW cutoff
    PROVE  Eligible(s, cutoff) \in SUBSET Episodes /\ Aged(Eligible(s, cutoff), cutoff)
BY DEF Eligible, Aged, Pending

(***************************************************************************)
(* Where a statement may leave a run.                                      *)
(***************************************************************************)
LEMMA IdleFine == Good(IdleRun)
BY Numbers DEF Good, Fine, Locals, Labels, WellPlaced, IdleRun, Aged

LEMMA NoAnswer == <<>> \in Seq(SUBSET Episodes) /\ <<>> \in Seq(Scopes)
OBVIOUS

LEMMA BatchEnds ==
    ASSUME NEW x, x \in Locals, x.pc \notin {"idle", "scope"}, x.todo # <<>>,
           Episodes # {} => x.cap > 0
    PROVE  Good(EndBatch(x))
<1> DEFINE y == EndBatch(x)
<1>1. y \in Locals
  BY NoAnswer DEF EndBatch, Locals, Labels
<1>2. /\ y.pc = "after" /\ y.todo = x.todo /\ y.cap = x.cap
      /\ y.batch = {} /\ y.noise = {} /\ y.cited = {} /\ y.silent = FALSE
  BY DEF EndBatch, Locals
<1> HIDE DEF y
<1>3. WellPlaced(y)
  BY <1>2 DEF WellPlaced
<1>4. Good(y)
  BY <1>1, <1>2, <1>3 DEF Good, Fine, Aged
<1> QED
  BY <1>4 DEF y

LEMMA ScopeEnds ==
    ASSUME NEW x, Fine(x), x.pc \notin {"idle", "scope"}
    PROVE  Good(EndScope(x))
<1>1. x.todo \in Seq(Scopes) /\ x.todo # <<>> /\ x.cutoff \in Int /\ x.calls \in 0 .. MaxCalls
  BY DEF Fine, Locals, WellPlaced
<1>2. Tail(x.todo) \in Seq(Scopes)
  BY <1>1, HeadTailProperties
<1> DEFINE y == EndScope(x)
<1>3. y \in Locals
  BY <1>1, <1>2, NoAnswer, Numbers DEF EndScope, IdleRun, Locals, Labels
<1>4. /\ y.pc = "scope" /\ y.cap = Uncapped
      /\ y.batch = {} /\ y.noise = {} /\ y.cited = {} /\ y.silent = FALSE
  BY DEF EndScope, IdleRun
<1> HIDE DEF y
<1>5. WellPlaced(y)
  BY <1>4, Numbers DEF WellPlaced
<1>6. Good(y)
  BY <1>3, <1>4, <1>5 DEF Good, Fine, Aged
<1> QED
  BY <1>6 DEF y

LEMMA AskFine ==
    ASSUME TypeOK, NEW x \in Locals, x.pc \notin {"idle", "scope"}, x.todo # <<>>,
           Episodes # {} => x.cap > 0, x.silent => x.answer = <<>>,
           NEW C \in SUBSET Episodes, Aged(C, x.cutoff), x.noise = {}, x.cited = {},
           C \cap (x.skipped \cup x.deferred) = {}
    PROVE  Good(Ask(x, C))
<1>1. x \in Locals
  OBVIOUS
<1>2. CASE ~ (C # {} /\ HasCallsLeft(x))
  <2>1. Ask(x, C) = EndBatch(x)
    BY <1>2 DEF Ask
  <2> QED
    BY <2>1, <1>1, BatchEnds
<1>3. CASE C # {} /\ HasCallsLeft(x)
  <2> DEFINE k == Smallest(x.cap, PromptFit)
             B == Oldest(C, k)
  <2>1. k \in Nat /\ k > 0
    BY <1>1, <1>3, Numbers DEF Smallest, Locals
  <2>2. B \subseteq C /\ B # {}
    BY <1>3, <2>1, OldestSome
  <2>3. Ask(x, C) = [x EXCEPT !.pc = "llm", !.calls = @ + 1, !.batch = B]
    BY <1>3 DEF Ask, Travel
  <2>4. x.calls + 1 \in 0 .. MaxCalls
    BY <1>1, <1>3, Numbers DEF HasCallsLeft, Locals
  <2> HIDE DEF B
  <2> DEFINE y == [x EXCEPT !.pc = "llm", !.calls = @ + 1, !.batch = B]
  <2>5. y \in Locals
    BY <1>1, <2>2, <2>4 DEF Locals, Labels
  <2>6. /\ y.pc = "llm" /\ y.todo = x.todo /\ y.cap = x.cap /\ y.cutoff = x.cutoff
        /\ y.batch = B /\ y.noise = {} /\ y.cited = {}
        /\ y.silent = x.silent /\ y.answer = x.answer
        /\ y.skipped = x.skipped /\ y.deferred = x.deferred
    BY <1>1 DEF Locals
  <2> HIDE DEF y
  <2>7. WellPlaced(y)
    BY <2>2, <2>6 DEF WellPlaced
  <2>8. Good(y)
    BY <2>2, <2>5, <2>6, <2>7 DEF Good, Fine, Aged
  <2> QED
    BY <2>3, <2>8 DEF y
<1> QED
  BY <1>2, <1>3

(***************************************************************************)
(* Every step of a night is a step of the store.                           *)
(***************************************************************************)
LEMMA ScopeIsOne ==
    ASSUME RunsInv, NEW r \in Runs, run[r].pc \notin {"idle", "scope"}
    PROVE  /\ Scope(r) \in Scopes
           /\ run[r].batch \in SUBSET Episodes /\ run[r].noise \in SUBSET Episodes
<1>1. run[r].todo \in Seq(Scopes) /\ run[r].todo # <<>>
  BY DEF RunsInv, Good, Fine, Locals, WellPlaced
<1> QED
  BY <1>1, HeadTailProperties DEF Scope, RunsInv, Locals

LEMMA SalienceStep ==
    ASSUME TypeOK, NEW m \in Memories, NEW low \in BOOLEAN, SetSalience(m, low)
    PROVE  [Next]_vars
<1>1. CASE Live(m) /\ faded[m] # low
  <2>1. faded' = [faded EXCEPT ![m] = low]
    BY <1>1 DEF SetSalience
  <2>2. Fade(m) \/ Reinforce(m)
    BY ZenonT(30), <1>1, <2>1 DEF SetSalience, Fade, Reinforce, TypeOK
  <2> QED
    BY <2>2 DEF Next
<1>2. CASE ~ (Live(m) /\ faded[m] # low)
  <2>1. faded' = faded
    BY <1>2 DEF SetSalience, TypeOK
  <2> QED
    BY <2>1 DEF SetSalience, vars, episodeVars
<1> QED
  BY <1>1, <1>2

LEMMA MarkerStep ==
    ASSUME RunsInv, NEW r \in Runs, NEW here, NEW next, WriteMarker(r, here, next),
           here \notin {"idle", "scope"}
    PROVE  [Next]_vars
<1>1. Scope(r) \in Scopes /\ run[r].noise \in SUBSET Episodes
  BY ScopeIsOne DEF WriteMarker, At
<1>2. CASE ScopeFails(r)
  BY <1>2 DEF ScopeFails
<1>3. ASSUME NEW m \in Memories, Consolidate(m, Scope(r), run[r].noise) PROVE Next
  BY <1>1, <1>3 DEF Next
<1> QED
  BY <1>2, <1>3 DEF WriteMarker

LEMMA RunStepStore ==
    ASSUME SleepInv, NEW r \in Runs, RunStep(r)
    PROVE  [Next]_vars
<1> USE DEF SleepInv, Inv
<1>1. CASE \/ NextScope(r) \/ SelectBatch(r) \/ Distilled(r) \/ Unusable(r)
           \/ CallFails(r) \/ AllWritten(r) \/ AfterBatch(r)
  BY <1>1 DEF NextScope, SelectBatch, Distilled, Unusable, CallFails, AllWritten, AfterBatch
<1>2. CASE ParetoStub(r) \/ NoiseStub(r)
  BY <1>2, MarkerStep DEF ParetoStub, NoiseStub
<1>3. CASE MarkStub(r) \/ MarkNoise(r) \/ MarkMemory(r)
  <2>1. run[r].memory \in Memories
    BY <1>3 DEF MarkStub, MarkNoise, MarkMemory, At, RunsInv, Good, Fine, Locals, WellPlaced
  <2> QED
    BY <1>3, <2>1, SalienceStep DEF MarkStub, MarkNoise, MarkMemory
<1>4. CASE WriteMemory(r)
  <2>1. Scope(r) \in Scopes /\ Evidence(run[r]) \in SUBSET Episodes
    BY <1>4, ScopeIsOne DEF WriteMemory, At, Evidence
  <2>2. ASSUME NEW m \in Memories, Consolidate(m, Scope(r), Evidence(run[r])) PROVE Next
    BY <2>1, <2>2 DEF Next
  <2> QED
    BY <1>4, <2>2 DEF WriteMemory, ScopeFails
<1>5. CASE StrikeUncited(r)
  <2>1. Uncited(run[r]) \in SUBSET Episodes
    BY <1>5, ScopeIsOne DEF StrikeUncited, At, Uncited
  <2>2. Strike(Uncited(run[r])) => Next
    BY <2>1 DEF Next
  <2> QED
    BY <1>5, <2>2 DEF StrikeUncited, ScopeFails
<1> QED
  BY <1>1, <1>2, <1>3, <1>4, <1>5 DEF RunStep

LEMMA NightStep ==
    ASSUME SleepInv, [SleepNext]_sleepVars
    PROVE  [Next]_vars
<1>1. ASSUME NEW r \in Runs, Start(r) \/ Crash(r) PROVE [Next]_vars
  BY <1>1 DEF Start, Crash
<1>2. CASE Arrive
  BY <1>2 DEF Arrive, Next
<1>3. CASE Tool
  BY <1>3, SleepAssumption DEF Tool, Next
<1>4. CASE UNCHANGED sleepVars
  BY <1>4 DEF sleepVars
<1> QED
  BY <1>1, <1>2, <1>3, <1>4, RunStepStore DEF SleepNext

(* A row that was born stays born, and keeps its date and its scope.       *)
Lasts(e) == place'[e] # "unborn" /\ epAt'[e] = epAt[e] /\ epScope'[e] = epScope[e]

LEMMA BirthKept ==
    ASSUME TypeOK, [Next]_vars, NEW e \in Episodes, place[e] # "unborn"
    PROVE  Lasts(e)
<1> USE StoreAssumption DEF TypeOK, Vacant, Lasts
<1>1. ASSUME NEW f \in Episodes, NEW s \in Scopes, Capture(f, s)
      PROVE  Lasts(e)
  BY <1>1 DEF Capture
<1>2. ASSUME NEW m \in Memories, NEW s \in Scopes, NEW S \in SUBSET Episodes,
             Consolidate(m, s, S)
      PROVE  Lasts(e)
  BY <1>2 DEF Consolidate
<1>3. ASSUME NEW S \in SUBSET Episodes, Strike(S)
      PROVE  Lasts(e)
  BY <1>3 DEF Strike
<1>4. ASSUME NEW m \in Memories, Unconsolidate(m) \/ ForgetMemory(m) \/ Fade(m) \/ Reinforce(m)
      PROVE  Lasts(e)
  BY <1>4 DEF Unconsolidate, ForgetMemory, SetNull, Erased, Fade, Reinforce, episodeVars
<1>5. ASSUME NEW p \in Passes, NEW s, NEW b, NEW g,
             ForgetRead(p, s, b, g) \/ ForgetCommit(p) \/ ForgetEnd(p)
      PROVE  Lasts(e)
  BY <1>5 DEF ForgetRead, ForgetCommit, ForgetEnd, SetNull, Erased, episodeVars
<1>6. CASE Tick \/ UNCHANGED vars
  BY <1>6 DEF Tick, vars, episodeVars
<1> QED
  BY <1>1, <1>2, <1>3, <1>4, <1>5, <1>6 DEF Next

(***************************************************************************)
(* Every statement leaves its run in good order.                           *)
(***************************************************************************)
LEMMA RunIsGood ==
    ASSUME RunsInv, NEW r \in Runs
    PROVE  /\ run[r] \in Locals /\ WellPlaced(run[r]) /\ Fine(run[r])
           /\ Aged(run[r].batch \cup run[r].noise, run[r].cutoff)
BY DEF RunsInv, Good, Fine

LEMMA FailureGood ==
    ASSUME RunsInv, NEW r \in Runs, run[r].pc \notin {"idle", "scope"}, ScopeFails(r)
    PROVE  \E y : Becomes(r, y) /\ Good(y)
BY RunIsGood, ScopeEnds DEF ScopeFails

LEMMA StartGood ==
    ASSUME TypeOK, NEW r \in Runs, Start(r)
    PROVE  \E y : Becomes(r, y) /\ Good(y)
<1> DEFINE cutoff == now - MinAge
           S == {s \in Scopes : Eligible(s, cutoff) # {} /\ ~TooFew(s, cutoff)}
<1>1. PICK w \in Worklists(cutoff) :
          Becomes(r, [IdleRun EXCEPT !.pc = "scope", !.todo = w, !.cutoff = cutoff])
  BY DEF Start
<1>2. Cardinality(S) \in Nat
  <2>1. S \in SUBSET Scopes
    OBVIOUS
  <2> QED
    BY <2>1, FS_Subset, FS_CardinalityType, SleepAssumption
<1>3. w \in [1 .. Cardinality(S) -> S]
  BY DEF Worklists
<1>4. w \in Seq(Scopes)
  <2>1. w \in [1 .. Cardinality(S) -> Scopes]
    BY <1>3
  <2> HIDE DEF S
  <2> QED
    BY <1>2, <2>1, SeqDef
<1>5. cutoff \in Int
  BY Numbers DEF TypeOK
<1> HIDE DEF cutoff, S
<1> DEFINE y == [IdleRun EXCEPT !.pc = "scope", !.todo = w, !.cutoff = cutoff]
<1>6. y \in Locals
  <2>1. IdleRun \in Locals
    BY IdleFine DEF Good, Fine
  <2> QED
    BY <1>4, <1>5, <2>1 DEF Locals, Labels
<1>7. /\ y.pc = "scope" /\ y.cap = Uncapped
      /\ y.batch = {} /\ y.noise = {} /\ y.cited = {} /\ y.silent = FALSE
  BY DEF IdleRun
<1> HIDE DEF y
<1>8. Good(y)
  BY <1>6, <1>7, Numbers DEF Good, Fine, WellPlaced, Aged
<1> QED
  BY <1>1, <1>8 DEF y

LEMMA NextScopeGood ==
    ASSUME RunsInv, NEW r \in Runs, NextScope(r)
    PROVE  \E y : Becomes(r, y) /\ Good(y)
<1> DEFINE x == run[r]
           y == [x EXCEPT !.pc = "batch"]
<1>1. CASE Becomes(r, IdleRun)
  BY <1>1, IdleFine
<1>2. CASE x.todo # <<>> /\ Becomes(r, y)
  <2>1. y \in Locals
    BY ZenonT(30), RunIsGood DEF Locals, Labels
  <2>2. WellPlaced(y) /\ Aged(y.batch \cup y.noise, y.cutoff)
    BY <1>2, RunIsGood DEF WellPlaced, Aged, Locals, NextScope, At
  <2> QED
    BY <1>2, <2>1, <2>2 DEF Good, Fine
<1> QED
  BY <1>1, <1>2 DEF NextScope

LEMMA SelectBatchGood ==
    ASSUME TypeOK, RunsInv, NEW r \in Runs, SelectBatch(r)
    PROVE  \E y : Becomes(r, y) /\ Good(y)
<1> DEFINE x == [run[r] EXCEPT !.progress = FALSE]
           E == Eligible(Scope(r), run[r].cutoff) \ (run[r].skipped \cup run[r].deferred)
           B == Batch(r)
           noise == B \cap ParetoNoise
<1>1. B \in SUBSET Episodes /\ B \subseteq E /\ Aged(B, run[r].cutoff)
  <2>1. E \in SUBSET Episodes /\ Aged(E, run[r].cutoff)
    BY EligibleAged DEF Aged
  <2>2. B \subseteq E
    BY <2>1, OldestSome, Numbers DEF Batch
  <2> QED
    BY <2>1, <2>2 DEF Aged
<1> HIDE DEF B
<1>2. /\ x \in Locals /\ x.pc = "batch" /\ x.todo = run[r].todo /\ x.todo # <<>>
      /\ x.batch = {} /\ x.noise = {} /\ x.cited = {} /\ x.cutoff = run[r].cutoff
      /\ x.cap = run[r].cap /\ x.silent = run[r].silent /\ x.answer = run[r].answer
      /\ x.skipped = run[r].skipped /\ x.deferred = run[r].deferred
  BY ZenonT(30), RunIsGood DEF SelectBatch, At, Locals, WellPlaced
<1>3. Fine(x)
  BY <1>2, RunIsGood DEF Fine, WellPlaced
<1>4. B \cap (x.skipped \cup x.deferred) = {}
  BY <1>1, <1>2
<1> HIDE DEF x
<1>5. CASE noise # {}
  <2> DEFINE y == [x EXCEPT !.pc = "stub", !.noise = noise, !.batch = B \ noise]
  <2>1. Becomes(r, y)
    BY <1>5 DEF SelectBatch, x, B
  <2>2. y \in Locals
    BY <1>1, <1>2 DEF Locals, Labels
  <2>3. /\ y.pc = "stub" /\ y.todo = x.todo /\ y.batch = B \ noise /\ y.noise = noise
        /\ y.cited = {} /\ y.cap = x.cap /\ y.silent = x.silent /\ y.answer = x.answer
        /\ y.skipped = x.skipped /\ y.deferred = x.deferred /\ y.cutoff = x.cutoff
    BY <1>2 DEF Locals
  <2> HIDE DEF y
  <2>4. Good(y)
    BY <1>1, <1>2, <1>3, <1>4, <2>2, <2>3 DEF Good, Fine, WellPlaced, Aged
  <2> QED
    BY <2>1, <2>4
<1>6. CASE noise = {}
  <2>1. Becomes(r, Ask(x, B))
    BY <1>6 DEF SelectBatch, x, B
  <2>2. (Episodes # {} => x.cap > 0) /\ (x.silent => x.answer = <<>>)
    BY <1>3 DEF Fine, WellPlaced
  <2>3. Good(Ask(x, B))
    BY <1>1, <1>2, <1>4, <2>2, AskFine
  <2> QED
    BY <2>1, <2>3
<1> QED
  BY <1>5, <1>6

LEMMA MarkerGood ==
    ASSUME RunsInv, NEW r \in Runs, ParetoStub(r) \/ NoiseStub(r)
    PROVE  \E y : Becomes(r, y) /\ Good(y)
<1> DEFINE x == run[r]
<1>1. CASE ScopeFails(r)
  BY <1>1, FailureGood DEF ParetoStub, NoiseStub, WriteMarker, At
<1>2. ASSUME NEW m \in Memories, NEW next,
             \/ x.pc = "stub" /\ next = "markStub"
             \/ x.pc = "noise" /\ next = "markNoise",
             Becomes(r, [x EXCEPT !.pc = next, !.memory = m, !.progress = TRUE])
      PROVE  \E y : Becomes(r, y) /\ Good(y)
  <2> DEFINE y == [x EXCEPT !.pc = next, !.memory = m, !.progress = TRUE]
  <2>1. x \in Locals /\ WellPlaced(x) /\ Aged(x.batch \cup x.noise, x.cutoff)
    BY RunIsGood
  <2> HIDE DEF x
  <2>2. y \in Locals
    BY <1>2, <2>1 DEF Locals, Labels
  <2>3. /\ y.pc = next /\ y.todo = x.todo /\ y.memory = m /\ y.batch = x.batch
        /\ y.noise = x.noise /\ y.cited = x.cited /\ y.cap = x.cap /\ y.silent = x.silent
        /\ y.answer = x.answer /\ y.skipped = x.skipped /\ y.deferred = x.deferred
        /\ y.cutoff = x.cutoff
    BY <2>1 DEF Locals
  <2>4. WellPlaced(y)
    BY <1>2, <2>1, <2>3, Numbers DEF WellPlaced
  <2>5. Good(y)
    BY <2>1, <2>2, <2>3, <2>4 DEF Good, Fine
  <2> QED
    BY <1>2, <2>5
<1> QED
  BY <1>1, <1>2 DEF ParetoStub, NoiseStub, WriteMarker, At

LEMMA MarkStubGood ==
    ASSUME TypeOK, RunsInv, NEW r \in Runs, MarkStub(r)
    PROVE  \E y : Becomes(r, y) /\ Good(y)
<1> DEFINE x == run[r]
           z == [x EXCEPT !.memory = NoMemory, !.noise = {}]
<1>1. x \in Locals /\ WellPlaced(x) /\ Aged(x.batch \cup x.noise, x.cutoff) /\ x.pc = "markStub"
  BY RunIsGood DEF MarkStub, At
<1>2. Becomes(r, Ask(z, z.batch))
  BY DEF MarkStub
<1> HIDE DEF x
<1>3. z \in Locals
  BY <1>1 DEF Locals
<1>4. /\ z.pc = x.pc /\ z.todo = x.todo /\ z.batch = x.batch
      /\ z.noise = {} /\ z.cited = x.cited /\ z.cap = x.cap /\ z.silent = x.silent
      /\ z.answer = x.answer /\ z.skipped = x.skipped /\ z.deferred = x.deferred
      /\ z.cutoff = x.cutoff
  BY <1>1 DEF Locals
<1> HIDE DEF z
<1>5. /\ z.batch \in SUBSET Episodes /\ z.cited = {} /\ z.todo # <<>>
      /\ z.batch \cap (z.skipped \cup z.deferred) = {} /\ Aged(z.batch, z.cutoff)
      /\ Episodes # {} => z.cap > 0
      /\ z.silent => z.answer = <<>>
  BY <1>1, <1>4 DEF WellPlaced, Locals, Aged
<1>6. Good(Ask(z, z.batch))
  BY <1>1, <1>3, <1>4, <1>5, AskFine
<1> QED
  BY <1>2, <1>6

LEMMA DistilledGood ==
    ASSUME RunsInv, NEW r \in Runs, Distilled(r)
    PROVE  \E y : Becomes(r, y) /\ Good(y)
<1> DEFINE x == run[r]
<1>1. /\ x \in Locals /\ WellPlaced(x) /\ Aged(x.batch \cup x.noise, x.cutoff)
      /\ x.pc = "llm"
  BY RunIsGood DEF Distilled, At
<1>2. PICK a \in Answers :
          Becomes(r, [run[r] EXCEPT !.pc = "write", !.answer = a, !.silent = (a = <<>>)])
  BY DEF Distilled
<1>3. a \in Seq(SUBSET Episodes)
  <2>1. PICK n \in 0 .. 2 : a \in [1 .. n -> SUBSET Episodes]
    BY DEF Answers
  <2> QED
    BY <2>1, SeqDef
<1> DEFINE y == [x EXCEPT !.pc = "write", !.answer = a, !.silent = (a = <<>>)]
<1>4. Becomes(r, y)
  BY <1>2
<1> HIDE DEF x
<1>5. y \in Locals
  BY <1>1, <1>3 DEF Locals, Labels
<1>6. /\ y.pc = "write" /\ y.todo = x.todo /\ y.batch = x.batch
      /\ y.noise = x.noise /\ y.cited = x.cited /\ y.cap = x.cap /\ y.silent = (a = <<>>)
      /\ y.answer = a /\ y.skipped = x.skipped /\ y.deferred = x.deferred
      /\ y.cutoff = x.cutoff
  BY <1>1 DEF Locals
<1> HIDE DEF y
<1>7. WellPlaced(y)
  BY <1>1, <1>6 DEF WellPlaced
<1>8. Good(y)
  BY <1>1, <1>5, <1>6, <1>7 DEF Good, Fine
<1> QED
  BY <1>4, <1>8

(* Half of a batch of one is none: what is asked again is never empty.     *)
LEMMA UnusableGood ==
    ASSUME TypeOK, RunsInv, NEW r \in Runs, Unusable(r)
    PROVE  \E y : Becomes(r, y) /\ Good(y)
<1> DEFINE x == run[r]
           half == Cardinality(x.batch) \div 2
           B == Oldest(x.batch, half)
           z == [x EXCEPT !.cap = half, !.batch = B]
<1>1. /\ x \in Locals /\ WellPlaced(x) /\ Aged(x.batch \cup x.noise, x.cutoff)
      /\ x.pc = "llm" /\ x.batch \in SUBSET Episodes
  BY RunIsGood DEF Unusable, At, Locals
<1>2. half \in Nat
  BY <1>1, Counts
<1>3. \/ half = 0 /\ \E why : Becomes(r, Alone(x, why))
      \/ half # 0 /\ Becomes(r, Retry(z))
  BY DEF Unusable
<1> HIDE DEF x, half
<1>4. ASSUME NEW why PROVE Good(Alone(x, why))
  <2> DEFINE w == [x EXCEPT !.skipped = @ \cup x.batch, !.progress = TRUE,
                            !.cap = IF why = "invalid" THEN Uncapped ELSE @]
  <2>1. w \in Locals /\ w.pc = "llm" /\ w.todo = x.todo
    BY <1>1, Numbers DEF Locals
  <2>2. w.todo # <<>>
    BY <1>1, <2>1 DEF WellPlaced
  <2>3. Episodes # {} => w.cap > 0
    <3>1. w.cap = Uncapped \/ w.cap = x.cap
      BY <1>1 DEF Locals
    <3>2. Episodes # {} => x.cap > 0
      BY <1>1 DEF WellPlaced
    <3> HIDE DEF w
    <3> QED
      BY <3>1, <3>2, Numbers
  <2>4. Alone(x, why) = EndBatch(w)
    BY DEF Alone
  <2> HIDE DEF w
  <2>5. Good(EndBatch(w))
    BY <2>1, <2>2, <2>3, BatchEnds
  <2> QED
    BY <2>4, <2>5
<1>5. ASSUME half # 0 PROVE Good(Retry(z))
  <2>1. B \subseteq x.batch /\ B # {}
    BY <1>1, <1>2, <1>5, OldestSome DEF WellPlaced
  <2> HIDE DEF B
  <2>2. /\ z \in Locals /\ z.pc = "llm" /\ z.todo = x.todo /\ z.cap = half
        /\ z.batch = B /\ z.noise = x.noise /\ z.cited = x.cited /\ z.silent = x.silent
        /\ z.answer = x.answer /\ z.skipped = x.skipped /\ z.deferred = x.deferred
        /\ z.cutoff = x.cutoff /\ z.calls = x.calls
    BY <1>1, <1>2, <2>1 DEF Locals
  <2> HIDE DEF z
  <2>3. WellPlaced(z) /\ Aged(z.batch \cup z.noise, z.cutoff)
    BY <1>1, <1>2, <1>5, <2>1, <2>2 DEF WellPlaced, Aged
  <2>4. CASE ~HasCallsLeft(z)
    <3>1. Retry(z) = EndBatch(z)
      BY <2>4 DEF Retry
    <3> QED
      BY <2>2, <2>3, <3>1, BatchEnds DEF WellPlaced
  <2>5. CASE HasCallsLeft(z)
    <3> DEFINE y == [z EXCEPT !.calls = @ + 1]
    <3>1. Retry(z) = y
      BY <2>5 DEF Retry
    <3>2. z.calls + 1 \in 0 .. MaxCalls
      BY <2>2, <2>5, Numbers DEF HasCallsLeft, Locals
    <3>3. y \in Locals
      BY <2>2, <3>2 DEF Locals
    <3>4. /\ y.pc = z.pc /\ y.todo = z.todo /\ y.cap = z.cap
          /\ y.batch = z.batch /\ y.noise = z.noise /\ y.cited = z.cited
          /\ y.silent = z.silent /\ y.answer = z.answer /\ y.skipped = z.skipped
          /\ y.deferred = z.deferred /\ y.cutoff = z.cutoff
      BY <2>2 DEF Locals
    <3> HIDE DEF y
    <3>5. Good(y)
      BY <2>2, <2>3, <3>3, <3>4 DEF Good, Fine, WellPlaced
    <3> QED
      BY <3>1, <3>5
  <2> QED
    BY <2>4, <2>5
<1> QED
  BY <1>3, <1>4, <1>5

LEMMA CallFailsGood ==
    ASSUME RunsInv, NEW r \in Runs, CallFails(r)
    PROVE  \E y : Becomes(r, y) /\ Good(y)
BY RunIsGood, ScopeEnds, IdleFine DEF CallFails, At

LEMMA WriteMemoryGood ==
    ASSUME RunsInv, NEW r \in Runs, WriteMemory(r)
    PROVE  \E y : Becomes(r, y) /\ Good(y)
<1> DEFINE x == run[r]
           rest == [x EXCEPT !.answer = Tail(@)]
           ev == Evidence(x)
<1>1. /\ x \in Locals /\ WellPlaced(x) /\ Aged(x.batch \cup x.noise, x.cutoff)
      /\ x.pc = "write" /\ x.answer # <<>>
  BY RunIsGood DEF WriteMemory, At
<1>2. \/ Becomes(r, rest)
      \/ \E m \in Memories : Becomes(r, [rest EXCEPT !.pc = "markMemory", !.memory = m,
                                            !.cited = @ \cup ev, !.progress = TRUE])
      \/ ScopeFails(r)
  BY DEF WriteMemory
<1>3. ev \in SUBSET Episodes
  BY <1>1 DEF Evidence, Locals
<1> HIDE DEF x, ev
<1>4. Tail(x.answer) \in Seq(SUBSET Episodes)
  BY <1>1, HeadTailProperties DEF Locals
<1>5. /\ rest \in Locals /\ rest.pc = "write" /\ rest.todo = x.todo /\ rest.batch = x.batch
      /\ rest.noise = x.noise /\ rest.cited = x.cited /\ rest.cap = x.cap
      /\ rest.silent = x.silent /\ rest.skipped = x.skipped /\ rest.deferred = x.deferred
      /\ rest.cutoff = x.cutoff
  BY <1>1, <1>4 DEF Locals
<1> HIDE DEF rest
<1>6. ~ x.silent
  BY <1>1 DEF WellPlaced
<1>7. Good(rest)
  BY <1>1, <1>5, <1>6 DEF Good, Fine, WellPlaced
<1>8. ASSUME NEW m \in Memories
      PROVE  Good([rest EXCEPT !.pc = "markMemory", !.memory = m,
                               !.cited = @ \cup ev, !.progress = TRUE])
  <2> DEFINE y == [rest EXCEPT !.pc = "markMemory", !.memory = m,
                               !.cited = @ \cup ev, !.progress = TRUE]
  <2>1. y \in Locals
    BY <1>3, <1>5 DEF Locals, Labels
  <2>2. /\ y.pc = "markMemory" /\ y.todo = x.todo /\ y.batch = x.batch /\ y.memory = m
        /\ y.noise = x.noise /\ y.cap = x.cap /\ y.silent = x.silent
        /\ y.skipped = x.skipped /\ y.deferred = x.deferred /\ y.cutoff = x.cutoff
    BY <1>5 DEF Locals
  <2> HIDE DEF y
  <2>3. WellPlaced(y)
    BY <1>1, <1>6, <2>2, Numbers DEF WellPlaced
  <2>4. Good(y)
    BY <1>1, <2>1, <2>2, <2>3 DEF Good, Fine
  <2> QED
    BY <2>4 DEF y
<1>9. ScopeFails(r) => \E y : Becomes(r, y) /\ Good(y)
  BY <1>1, FailureGood DEF x
<1> QED
  BY <1>2, <1>7, <1>8, <1>9

LEMMA MarkMemoryGood ==
    ASSUME RunsInv, NEW r \in Runs, MarkMemory(r)
    PROVE  \E y : Becomes(r, y) /\ Good(y)
<1> DEFINE x == run[r]
           y == [x EXCEPT !.pc = "write", !.memory = NoMemory]
<1>1. /\ x \in Locals /\ WellPlaced(x) /\ Aged(x.batch \cup x.noise, x.cutoff)
      /\ x.pc = "markMemory"
  BY RunIsGood DEF MarkMemory, At
<1>2. Becomes(r, y)
  BY DEF MarkMemory
<1> HIDE DEF x
<1>3. /\ y \in Locals /\ y.pc = "write" /\ y.todo = x.todo /\ y.batch = x.batch
      /\ y.noise = x.noise /\ y.cap = x.cap /\ y.silent = x.silent /\ y.cited = x.cited
      /\ y.answer = x.answer /\ y.skipped = x.skipped /\ y.deferred = x.deferred
      /\ y.cutoff = x.cutoff
  BY <1>1 DEF Locals, Labels
<1> HIDE DEF y
<1>4. Good(y)
  BY <1>1, <1>3 DEF Good, Fine, WellPlaced
<1> QED
  BY <1>2, <1>4

LEMMA AllWrittenGood ==
    ASSUME RunsInv, NEW r \in Runs, AllWritten(r)
    PROVE  \E y : Becomes(r, y) /\ Good(y)
<1> DEFINE x == run[r]
           y == [x EXCEPT !.pc = "strike"]
<1>1. /\ x \in Locals /\ WellPlaced(x) /\ Aged(x.batch \cup x.noise, x.cutoff)
      /\ x.pc = "write"
  BY RunIsGood DEF AllWritten, At
<1>2. Becomes(r, EndBatch(x)) \/ Becomes(r, y)
  BY DEF AllWritten
<1> HIDE DEF x
<1>3. Good(EndBatch(x))
  BY <1>1, BatchEnds DEF WellPlaced
<1>4. /\ y \in Locals /\ y.pc = "strike" /\ y.todo = x.todo /\ y.batch = x.batch
      /\ y.noise = x.noise /\ y.cap = x.cap /\ y.silent = x.silent /\ y.cited = x.cited
      /\ y.answer = x.answer /\ y.skipped = x.skipped /\ y.deferred = x.deferred
      /\ y.cutoff = x.cutoff
  BY <1>1 DEF Locals, Labels
<1> HIDE DEF y
<1>5. Good(y)
  BY <1>1, <1>4 DEF Good, Fine, WellPlaced
<1> QED
  BY <1>2, <1>3, <1>5

LEMMA UncitedSome ==
    ASSUME NEW x, Fine(x)
    PROVE  Uncited(x) \subseteq x.batch /\ Uncited(x) \cap x.cited = {}
BY DEF Uncited, Fine, WellPlaced

LEMMA StrikeGood ==
    ASSUME RunsInv, NEW r \in Runs, StrikeUncited(r)
    PROVE  \E y : Becomes(r, y) /\ Good(y)
<1> DEFINE x == run[r]
           out == Exhausted(x)
           y == [x EXCEPT !.deferred = @ \cup (Uncited(x) \ out)]
           z == [y EXCEPT !.pc = "noise", !.noise = out]
<1>1. /\ x \in Locals /\ WellPlaced(x) /\ Fine(x)
      /\ Aged(x.batch \cup x.noise, x.cutoff) /\ x.pc = "strike"
  BY RunIsGood DEF StrikeUncited, At
<1>2. Becomes(r, EndBatch(y)) \/ Becomes(r, z) \/ ScopeFails(r)
  BY DEF StrikeUncited
<1>3. ScopeFails(r) => \E w : Becomes(r, w) /\ Good(w)
  BY <1>1, FailureGood
<1>4. Uncited(x) \in SUBSET Episodes /\ out \subseteq x.batch /\ out \cap x.cited = {}
  BY <1>1, UncitedSome DEF Exhausted, Locals
<1> HIDE DEF x, out
<1>5. /\ y \in Locals /\ y.pc = "strike" /\ y.todo = x.todo /\ y.batch = x.batch
      /\ y.noise = x.noise /\ y.cap = x.cap /\ y.silent = x.silent /\ y.cited = x.cited
      /\ y.answer = x.answer /\ y.cutoff = x.cutoff
  BY <1>1, <1>4 DEF Locals
<1> HIDE DEF y
<1>6. Good(EndBatch(y))
  BY <1>1, <1>5, BatchEnds DEF WellPlaced
<1>7. /\ z \in Locals /\ z.pc = "noise" /\ z.todo = x.todo /\ z.batch = x.batch
      /\ z.noise = out /\ z.cap = x.cap /\ z.silent = x.silent /\ z.cited = x.cited
      /\ z.answer = x.answer /\ z.cutoff = x.cutoff
  BY <1>1, <1>4, <1>5 DEF Locals, Labels
<1> HIDE DEF z
<1>8. Good(z)
  BY <1>1, <1>4, <1>7 DEF Good, Fine, WellPlaced, Aged
<1> QED
  BY <1>2, <1>3, <1>6, <1>8

LEMMA MarkNoiseGood ==
    ASSUME RunsInv, NEW r \in Runs, MarkNoise(r)
    PROVE  \E y : Becomes(r, y) /\ Good(y)
<1>1. run[r] \in Locals /\ WellPlaced(run[r]) /\ run[r].pc = "markNoise"
  BY RunIsGood DEF MarkNoise, At
<1>2. Good(EndBatch(run[r]))
  BY <1>1, BatchEnds DEF WellPlaced
<1> QED
  BY <1>2 DEF MarkNoise

LEMMA AfterBatchGood ==
    ASSUME RunsInv, NEW r \in Runs, AfterBatch(r)
    PROVE  \E y : Becomes(r, y) /\ Good(y)
<1> DEFINE x == run[r]
           y == [x EXCEPT !.pc = "batch"]
<1>1. /\ x \in Locals /\ WellPlaced(x) /\ Fine(x) /\ x.pc = "after"
  BY RunIsGood DEF AfterBatch, At
<1>2. Becomes(r, EndScope(x)) \/ Becomes(r, y)
  BY DEF AfterBatch
<1> HIDE DEF x
<1>3. Good(EndScope(x))
  BY <1>1, ScopeEnds
<1>4. /\ y \in Locals /\ y.pc = "batch" /\ y.todo = x.todo /\ y.batch = x.batch
      /\ y.noise = x.noise /\ y.cap = x.cap /\ y.silent = x.silent /\ y.cited = x.cited
      /\ y.answer = x.answer /\ y.skipped = x.skipped /\ y.deferred = x.deferred
  BY <1>1 DEF Locals, Labels
<1> HIDE DEF y
<1>5. Good(y)
  BY <1>1, <1>4 DEF Good, Fine, WellPlaced, Aged
<1> QED
  BY <1>2, <1>3, <1>5

LEMMA RunStepGood ==
    ASSUME TypeOK, RunsInv, NEW r \in Runs, RunStep(r)
    PROVE  \E y : Becomes(r, y) /\ Good(y)
BY NextScopeGood, SelectBatchGood, MarkerGood, MarkStubGood, DistilledGood, UnusableGood,
   CallFailsGood, WriteMemoryGood, MarkMemoryGood, AllWrittenGood, StrikeGood,
   MarkNoiseGood, AfterBatchGood
   DEF RunStep

(***************************************************************************)
(* The invariant.                                                          *)
(***************************************************************************)
LEMMA SleepInitInv == SleepInit => SleepInv
BY InitInv, IdleFine DEF SleepInit, SleepInv, RunsInv, Good, Fine

LEMMA GoodKept ==
    ASSUME TypeOK, [Next]_vars, NEW x, Good(x)
    PROVE  /\ Fine(x)
           /\ \A e \in x.batch \cup x.noise : place'[e] # "unborn" /\ epAt'[e] < x.cutoff
<1>1. x.batch \cup x.noise \in SUBSET Episodes
  BY DEF Good, Fine, Locals
<1> QED
  BY <1>1, BirthKept DEF Good, Aged, Lasts

LEMMA RunMoves ==
    ASSUME TypeOK, RunsInv, [Next]_vars, NEW r \in Runs, NEW y, Becomes(r, y), Good(y)
    PROVE  RunsInv'
<1>1. run' = [run EXCEPT ![r] = y]
  BY DEF Becomes
<1>2. run' \in [Runs -> Locals]
  BY <1>1 DEF RunsInv, Good, Fine
<1>3. ASSUME NEW q \in Runs
      PROVE  /\ Fine(run'[q])
             /\ \A e \in run'[q].batch \cup run'[q].noise :
                   place'[e] # "unborn" /\ epAt'[e] < run'[q].cutoff
  <2>1. CASE q = r
    <3>1. run'[q] = y
      BY <1>1, <2>1 DEF RunsInv
    <3> QED
      BY <3>1, GoodKept
  <2>2. CASE q # r
    <3>1. run'[q] = run[q] /\ Good(run[q])
      BY <1>1, <2>2 DEF RunsInv
    <3> QED
      BY <3>1, GoodKept
  <2> QED
    BY <2>1, <2>2
<1> QED
  BY <1>2, <1>3 DEF RunsInv, Good, Aged, Fine, WellPlaced

LEMMA RunsStay ==
    ASSUME TypeOK, RunsInv, [Next]_vars, UNCHANGED run
    PROVE  RunsInv'
<1>1. ASSUME NEW q \in Runs
      PROVE  /\ Fine(run[q])
             /\ \A e \in run[q].batch \cup run[q].noise :
                   place'[e] # "unborn" /\ epAt'[e] < run[q].cutoff
  BY GoodKept DEF RunsInv
<1> QED
  BY <1>1 DEF RunsInv, Good, Aged, Fine, WellPlaced

LEMMA SleepNextInv == SleepInv /\ [SleepNext]_sleepVars => SleepInv'
<1> SUFFICES ASSUME SleepInv, [SleepNext]_sleepVars PROVE SleepInv'
  OBVIOUS
<1>1. [Next]_vars /\ Inv' /\ TypeOK /\ RunsInv
  BY NightStep, NextInv DEF SleepInv, Inv
<1>2. ASSUME NEW r \in Runs, Start(r) \/ RunStep(r) \/ Crash(r) PROVE RunsInv'
  <2>1. \E y : Becomes(r, y) /\ Good(y)
    BY <1>1, <1>2, StartGood, RunStepGood, IdleFine DEF Crash
  <2> QED
    BY <1>1, <2>1, RunMoves
<1>3. CASE Arrive \/ Tool \/ UNCHANGED sleepVars
  <2>1. UNCHANGED run
    BY <1>3 DEF Arrive, Tool, sleepVars
  <2>2. RunsInv'
    BY <1>1, <2>1, RunsStay
  <2> QED
    BY <1>1, <2>2 DEF SleepInv
<1> QED
  BY <1>1, <1>2, <1>3 DEF SleepNext, SleepInv

(* The local state of every run and the store agree in every state of a    *)
(* night: the runs, the tools, crashes and captures in any order.          *)
THEOREM SleepInvHolds == SleepSpec => []SleepInv
BY SleepInitInv, SleepNextInv, PTL DEF SleepSpec

(* A night is a behaviour of the store: no statement of a run, no crash    *)
(* and no button of the viewer does what MemStore does not allow.          *)
THEOREM NightsAreStoreBehaviours == SleepSpec => Spec
<1>1. SleepInit => Init
  BY DEF SleepInit
<1>2. SleepInv /\ [SleepNext]_sleepVars => [Next]_vars
  BY NightStep
<1> QED
  BY <1>1, <1>2, SleepInvHolds, PTL DEF SleepSpec, Spec

(* Whatever nights do, an episode lives the life that is promised for it.  *)
THEOREM NightsKeepLife == SleepSpec => LifeSpec
BY NightsAreStoreBehaviours, ImplementsLife, PTL

(* No run spends more calls than its budget, nor one on an empty prompt.   *)
THEOREM CallBudgetHolds == SleepSpec => []CallBudget
<1>1. SleepInv => CallBudget
  <2> SUFFICES ASSUME SleepInv, NEW r \in Runs
               PROVE  run[r].calls <= MaxCalls /\ (run[r].pc = "llm" => run[r].batch # {})
    BY DEF CallBudget, At
  <2>1. run[r] \in Locals /\ WellPlaced(run[r])
    BY RunIsGood DEF SleepInv
  <2> QED
    BY <2>1, Numbers DEF Locals, WellPlaced
<1> QED
  BY <1>1, SleepInvHolds, PTL

(***************************************************************************)
(* What a run may write.                                                   *)
(***************************************************************************)
(* The statements that write rows, and what they write of.                 *)
LEMMA RunWrites ==
    ASSUME NEW r \in Runs, RunStep(r)
    PROVE  \/ place' = place /\ mem' = mem /\ sources' = sources /\ strikes' = strikes
           \/ \E m \in Memories :
                 /\ run[r].pc \in {"stub", "noise"}
                 /\ Consolidate(m, Scope(r), run[r].noise)
           \/ \E m \in Memories :
                 run[r].pc = "write" /\ Consolidate(m, Scope(r), Evidence(run[r]))
           \/ run[r].pc = "strike" /\ Strike(Uncited(run[r]))
<1>1. CASE \/ NextScope(r) \/ SelectBatch(r) \/ Distilled(r) \/ Unusable(r)
           \/ CallFails(r) \/ AllWritten(r) \/ AfterBatch(r)
  BY <1>1 DEF NextScope, SelectBatch, Distilled, Unusable, CallFails, AllWritten, AfterBatch,
              vars
<1>2. CASE MarkStub(r) \/ MarkNoise(r) \/ MarkMemory(r)
  BY <1>2 DEF MarkStub, MarkNoise, MarkMemory, SetSalience, episodeVars
<1>3. CASE ParetoStub(r) \/ NoiseStub(r)
  BY <1>3 DEF ParetoStub, NoiseStub, WriteMarker, ScopeFails, At, vars
<1>4. CASE WriteMemory(r)
  BY <1>4 DEF WriteMemory, ScopeFails, At, vars
<1>5. CASE StrikeUncited(r)
  BY <1>5 DEF StrikeUncited, ScopeFails, At, vars
<1> QED
  BY <1>1, <1>2, <1>3, <1>4, <1>5 DEF RunStep

(* Only its own step moves a run.                                          *)
LEMMA Mover ==
    ASSUME SleepInv, [SleepNext]_sleepVars, NEW r \in Runs, Moved(r)
    PROVE  \/ RunStep(r)
           \/ place' = place /\ mem' = mem /\ sources' = sources /\ strikes' = strikes
<1>1. ASSUME NEW q \in Runs, RunStep(q) PROVE q = r
  <2>1. \E y : Becomes(q, y)
    BY <1>1, RunStepGood DEF SleepInv, Inv
  <2> QED
    BY <2>1 DEF Becomes, Moved, SleepInv, RunsInv
<1>2. ASSUME NEW q \in Runs, Start(q) \/ Crash(q)
      PROVE  place' = place /\ mem' = mem /\ sources' = sources /\ strikes' = strikes
  BY <1>2 DEF Start, Crash, vars
<1>3. ~ (Arrive \/ Tool \/ UNCHANGED sleepVars)
  BY DEF Arrive, Tool, sleepVars, Moved
<1> QED
  BY <1>1, <1>2, <1>3 DEF SleepNext

LEMMA OnlyWhatItRead ==
    ASSUME SleepInv, [SleepNext]_sleepVars, NEW r \in Runs, NEW m \in Memories,
           Moved(r), mem[m] = "unborn", Live(m)'
    PROVE  sources'[m] \subseteq (run[r].batch \cup run[r].noise) \ run[r].cited
<1> USE DEF SleepInv, Inv, TypeOK
<1>1. WellPlaced(run[r])
  BY RunIsGood
<1>2. mem' # mem /\ RunStep(r)
  BY Mover DEF Live
<1>3. ASSUME NEW n \in Memories, NEW S, Consolidate(n, Scope(r), S) PROVE sources'[m] = S
  BY <1>3 DEF Consolidate, Live
<1>4. ~ Strike(Uncited(run[r]))
  BY <1>2 DEF Strike, memoryVars
<1> QED
  BY <1>1, <1>2, <1>3, <1>4, RunWrites DEF WellPlaced, Evidence

(* No id the model invented enters a memory a run creates, neither as a    *)
(* link nor as a source, and none enters two memories of one answer.       *)
THEOREM TakesOnlyWhatItReadHolds == SleepSpec => TakesOnlyWhatItRead
<1>1. SleepInv /\ [SleepNext]_sleepVars =>
        [\A r \in Runs, m \in Memories :
            (Moved(r) /\ mem[m] = "unborn" /\ Live(m)') =>
               sources'[m] \subseteq (run[r].batch \cup run[r].noise) \ run[r].cited]_sleepVars
  BY OnlyWhatItRead
<1> QED
  BY <1>1, SleepInvHolds, PTL DEF SleepSpec, TakesOnlyWhatItRead

LEMMA OnlyAged ==
    ASSUME SleepInv, [SleepNext]_sleepVars, NEW r \in Runs, NEW e \in Episodes,
           Moved(r), TakenNow(e)
    PROVE  epAt[e] < run[r].cutoff
<1> USE DEF SleepInv, Inv, TypeOK
<1>1. place'[e] # place[e] /\ place'[e] \in Memories
  BY StoreAssumption DEF TakenNow, Pending, Held, Vacant
<1>2. RunStep(r)
  BY <1>1, Mover
<1>3. ASSUME NEW n \in Memories, NEW S, Consolidate(n, Scope(r), S) PROVE e \in S
  BY <1>1, <1>3 DEF Consolidate, Taken
<1>4. ~ Strike(Uncited(run[r]))
  BY <1>1 DEF Strike
<1>5. e \in run[r].batch \cup run[r].noise
  BY <1>1, <1>2, <1>3, <1>4, RunWrites DEF Evidence
<1> QED
  BY <1>5, RunIsGood DEF Aged

(* However long a run takes and whatever is captured meanwhile, what it    *)
(* consolidates was older than minAgeHours when it started.                *)
THEOREM TakesOnlyAgedHolds == SleepSpec => TakesOnlyAged
<1>1. SleepInv /\ [SleepNext]_sleepVars =>
        [\A r \in Runs, e \in Episodes :
            (Moved(r) /\ TakenNow(e)) => epAt[e] < run[r].cutoff]_sleepVars
  BY OnlyAged
<1> QED
  BY <1>1, SleepInvHolds, PTL DEF SleepSpec, TakesOnlyAged

(***************************************************************************)
(* What a run struck.  The record of StrikeHistory is tied to the local    *)
(* state of its run: a batch has nothing of it until the strikes are       *)
(* given, and an episode of it that is pending again without a user's undo *)
(* is in `deferred`, or about to enter the noise marker.  That the scopes  *)
(* of a work list differ, and that a row never changes its scope, makes    *)
(* the record last from one scope to the next, where `deferred` is lost.   *)
(***************************************************************************)
Ahead(s, todo) == \E i \in DOMAIN todo : todo[i] = s

Differ(todo) == \A i, j \in DOMAIN todo : i < j => todo[i] # todo[j]

Reads(x) == x.batch \cup x.noise \cup x.deferred

(* Where an episode the run struck is while it is pending.                 *)
SetAside(x, e) == e \in x.deferred \/ (x.pc = "noise" /\ e \in x.noise)

Remembered(x, S) ==
    /\ x.pc = "idle" => S = {}
    /\ Differ(x.todo)
    /\ \A e \in Reads(x) : place[e] # "unborn" /\ epScope[e] = Head(x.todo)
    /\ \A e \in S : place[e] # "unborn"
    /\ x.pc \notin {"noise", "markNoise"} => x.batch \cap S = {}
    /\ \A e \in S : Pending(e) /\ Ahead(epScope[e], x.todo) => SetAside(x, e)

HistInv ==
    /\ SleepInv
    /\ struck \in [Runs -> SUBSET Episodes]
    /\ \A r \in Runs : Remembered(run[r], struck[r])

(* A row comes back to the queue only from a memory.                       *)
LEMMA PendingBefore ==
    ASSUME Inv, [Next]_vars, NEW e \in Episodes, place[e] # "unborn", place'[e] = "pending"
    PROVE  Pending(e) \/ Held(e)
<1>1. CASE place'[e] = place[e]
  BY <1>1 DEF Pending
<1>2. CASE ~ Held(e) /\ place[e] # "pending"
  <2>1. lifeOf[e] = "gone" /\ lifeOf'[e] = "pending"
    BY <1>2, StoreAssumption DEF lifeOf, Held, Vacant, Inv, TypeOK
  <2>2. [Life!Next]_lifeOf
    BY LifeNext
  <2>3. ASSUME NEW S, NEW from, NEW to \in {"held", "gone"}, Life!Move(S, from, to)
        PROVE  FALSE
    BY <2>1, <2>3 DEF Life!Move
  <2>4. ASSUME NEW S, NEW from \in {"unborn", "held"}, Life!Move(S, from, "pending")
        PROVE  FALSE
    BY <2>1, <2>4 DEF Life!Move
  <2> QED
    BY <2>1, <2>2, <2>3, <2>4, <1>2
       DEF Life!Next, Life!Born, Life!Hold, Life!Release, Life!Erase
<1> QED
  BY <1>2 DEF Pending

(* Where a statement leaves what its run holds.                            *)
Stays(x, y) ==
    /\ x.pc \notin {"strike", "noise"}
    /\ y.pc \notin {"idle", "noise", "markNoise"}
    /\ x.pc = "markNoise" => y.batch = {}
    /\ y.todo = x.todo /\ y.deferred = x.deferred
    /\ y.batch \subseteq x.batch /\ y.noise \subseteq x.noise

Selects(r, y) ==
    /\ run[r].pc = "batch" /\ y.pc # "idle"
    /\ y.todo = run[r].todo /\ y.deferred = run[r].deferred
    /\ y.batch \cup y.noise \subseteq Batch(r)

TakesNoise(r, y) ==
    /\ run[r].pc = "noise" /\ y.pc = "markNoise"
    /\ y.todo = run[r].todo /\ y.deferred = run[r].deferred
    /\ y.batch = run[r].batch /\ y.noise = run[r].noise
    /\ \E m \in Memories : Consolidate(m, Scope(r), run[r].noise)

SetsAside(x, y) ==
    /\ x.pc = "strike"
    /\ y.todo = x.todo /\ y.deferred = x.deferred \cup (Uncited(x) \ Exhausted(x))
    /\ y.noise = Exhausted(x)
    /\ \/ y.pc = "after" /\ y.batch = {} /\ Exhausted(x) = {}
       \/ y.pc = "noise" /\ y.batch = x.batch

Leaves(x, y) == y = IdleRun \/ (x.todo # <<>> /\ y = EndScope(x))

LEMMA BatchEndStays ==
    ASSUME NEW x \in Locals, x.pc \notin {"strike", "noise"}
    PROVE  Stays(x, EndBatch(x))
<1> DEFINE y == EndBatch(x)
<1>1. /\ y.pc = "after" /\ y.todo = x.todo /\ y.deferred = x.deferred
      /\ y.batch = {} /\ y.noise = {}
  BY DEF EndBatch, Locals
<1> QED
  BY <1>1 DEF Stays

LEMMA AskKeeps ==
    ASSUME TypeOK, NEW x \in Locals, NEW C \in SUBSET Episodes, Episodes # {} => x.cap > 0
    PROVE  LET y == Ask(x, C)
           IN  /\ y.pc \in {"llm", "after"} /\ y.todo = x.todo /\ y.deferred = x.deferred
               /\ y.batch \subseteq C /\ y.noise \subseteq x.noise
<1> DEFINE y == EndBatch(x)
           k == Smallest(x.cap, PromptFit)
           B == Oldest(C, k)
           z == Travel(x, C)
<1>1. /\ y.pc = "after" /\ y.todo = x.todo /\ y.deferred = x.deferred
      /\ y.batch = {} /\ y.noise = {}
  BY DEF EndBatch, Locals
<1>2. k \in Nat
  BY Numbers DEF Smallest, Locals
<1>3. B \subseteq C
  BY <1>2, OldestSome
<1> HIDE DEF k
<1>4. /\ z.pc = "llm" /\ z.todo = x.todo /\ z.deferred = x.deferred
      /\ z.batch = B /\ z.noise = x.noise
  BY DEF Travel, Locals, k
<1> QED
  BY <1>1, <1>3, <1>4 DEF Ask

LEMMA SelectShape ==
    ASSUME TypeOK, RunsInv, NEW r \in Runs, SelectBatch(r)
    PROVE  \E y : Becomes(r, y) /\ Selects(r, y)
<1> DEFINE x == [run[r] EXCEPT !.progress = FALSE]
           B == Batch(r)
           noise == B \cap ParetoNoise
           y == [x EXCEPT !.pc = "stub", !.noise = noise, !.batch = B \ noise]
<1>1. B \in SUBSET Episodes
  BY OldestSome, EligibleAged, Numbers DEF Batch
<1> HIDE DEF B
<1>2. /\ x \in Locals /\ x.todo = run[r].todo /\ x.deferred = run[r].deferred
      /\ x.noise = {} /\ x.cap = run[r].cap /\ run[r].pc = "batch"
  BY ZenonT(30), RunIsGood DEF SelectBatch, At, Locals, WellPlaced
<1>3. Becomes(r, y) \/ Becomes(r, Ask(x, B))
  BY DEF SelectBatch, B
<1>4. Episodes # {} => x.cap > 0
  BY <1>2, RunIsGood DEF WellPlaced
<1> HIDE DEF x
<1>5. /\ y.pc = "stub" /\ y.todo = x.todo /\ y.deferred = x.deferred
      /\ y.batch = B \ noise /\ y.noise = noise
  BY <1>2 DEF Locals
<1> HIDE DEF y
<1>6. Selects(r, y)
  BY <1>2, <1>5 DEF Selects, B
<1>7. Selects(r, Ask(x, B))
  BY <1>1, <1>2, <1>4, AskKeeps DEF Selects, B
<1> QED
  BY <1>3, <1>6, <1>7

LEMMA MarkStubShape ==
    ASSUME TypeOK, RunsInv, NEW r \in Runs, MarkStub(r)
    PROVE  \E y : Becomes(r, y) /\ Stays(run[r], y)
<1> DEFINE x == [run[r] EXCEPT !.memory = NoMemory, !.noise = {}]
<1>1. /\ x \in Locals /\ x.todo = run[r].todo /\ x.deferred = run[r].deferred
      /\ x.batch = run[r].batch /\ x.noise = {} /\ x.cap = run[r].cap
      /\ run[r].pc = "markStub"
  BY RunIsGood DEF MarkStub, At, Locals
<1>2. Becomes(r, Ask(x, x.batch))
  BY DEF MarkStub
<1>3. (Episodes # {} => x.cap > 0) /\ x.batch \in SUBSET Episodes
  BY <1>1, RunIsGood DEF WellPlaced, Locals
<1> HIDE DEF x
<1>4. Stays(run[r], Ask(x, x.batch))
  BY <1>1, <1>3, AskKeeps DEF Stays
<1> QED
  BY <1>2, <1>4

LEMMA UnusableShape ==
    ASSUME TypeOK, RunsInv, NEW r \in Runs, Unusable(r)
    PROVE  \E y : Becomes(r, y) /\ Stays(run[r], y)
<1> DEFINE x == run[r]
           half == Cardinality(x.batch) \div 2
           h == [x EXCEPT !.cap = half, !.batch = Oldest(x.batch, half)]
<1>1. x \in Locals /\ x.pc = "llm" /\ x.batch \in SUBSET Episodes
  BY RunIsGood DEF Unusable, At, Locals
<1>2. PICK why : \/ Becomes(r, Alone(x, why))
                 \/ half # 0 /\ Becomes(r, Retry(h))
  BY DEF Unusable
<1>3. half \in Nat
  BY <1>1, Counts
<1>4. Oldest(x.batch, half) \subseteq x.batch
  BY <1>1, <1>3, OldestSome
<1> HIDE DEF x, half
<1>5. /\ Alone(x, why).pc = "after" /\ Alone(x, why).todo = x.todo
      /\ Alone(x, why).deferred = x.deferred
      /\ Alone(x, why).batch = {} /\ Alone(x, why).noise = {}
  BY <1>1 DEF Alone, EndBatch, Locals
<1>6. /\ Retry(h).pc \in {"llm", "after"} /\ Retry(h).todo = x.todo
      /\ Retry(h).deferred = x.deferred
      /\ Retry(h).batch \subseteq x.batch /\ Retry(h).noise \subseteq x.noise
  BY <1>1, <1>4 DEF Retry, EndBatch, Locals
<1>7. Stays(x, Alone(x, why)) /\ Stays(x, Retry(h))
  BY <1>1, <1>5, <1>6 DEF Stays
<1> QED
  BY <1>2, <1>7 DEF x

LEMMA StrikeShape ==
    ASSUME RunsInv, NEW r \in Runs, StrikeUncited(r)
    PROVE  \E y : Becomes(r, y) /\ (SetsAside(run[r], y) \/ Leaves(run[r], y))
<1> DEFINE x == run[r]
           out == Exhausted(x)
           y == [x EXCEPT !.deferred = @ \cup (Uncited(x) \ out)]
           z == [y EXCEPT !.pc = "noise", !.noise = out]
<1>1. x \in Locals /\ x.pc = "strike" /\ x.todo # <<>>
  BY RunIsGood DEF StrikeUncited, At, WellPlaced
<1>2. \/ out = {} /\ Becomes(r, EndBatch(y))
      \/ Becomes(r, z)
      \/ Becomes(r, EndScope(x))
  BY DEF StrikeUncited, ScopeFails
<1> HIDE DEF x, out
<1>3. /\ EndBatch(y).pc = "after" /\ EndBatch(y).todo = x.todo
      /\ EndBatch(y).deferred = x.deferred \cup (Uncited(x) \ out)
      /\ EndBatch(y).batch = {} /\ EndBatch(y).noise = {}
  BY <1>1 DEF EndBatch, Locals
<1>4. /\ z.pc = "noise" /\ z.todo = x.todo /\ z.noise = out /\ z.batch = x.batch
      /\ z.deferred = x.deferred \cup (Uncited(x) \ out)
  BY <1>1 DEF Locals
<1>5. (out = {} => SetsAside(x, EndBatch(y))) /\ SetsAside(x, z)
  BY <1>1, <1>3, <1>4 DEF SetsAside, out
<1>6. Leaves(x, EndScope(x))
  BY <1>1 DEF Leaves
<1> QED
  BY <1>2, <1>5, <1>6 DEF x

LEMMA WriteShape ==
    ASSUME RunsInv, NEW r \in Runs, ParetoStub(r) \/ NoiseStub(r) \/ WriteMemory(r)
    PROVE  \E y : Becomes(r, y) /\ (Stays(run[r], y) \/ TakesNoise(r, y) \/ Leaves(run[r], y))
<1> DEFINE x == run[r]
<1>1. x \in Locals /\ x.pc \in {"stub", "noise", "write"} /\ x.todo # <<>>
  BY RunIsGood DEF ParetoStub, NoiseStub, WriteMarker, WriteMemory, At, WellPlaced
<1>2. Leaves(x, EndScope(x))
  BY <1>1 DEF Leaves
<1>3. CASE ScopeFails(r)
  BY <1>2, <1>3 DEF ScopeFails
<1>4. CASE ParetoStub(r)
  <2>1. \/ ScopeFails(r)
        \/ \E m \in Memories :
              Becomes(r, [x EXCEPT !.pc = "markStub", !.memory = m, !.progress = TRUE])
    BY <1>4 DEF ParetoStub, WriteMarker
  <2>2. x.pc = "stub"
    BY <1>4 DEF ParetoStub, WriteMarker, At
  <2> HIDE DEF x
  <2>3. ASSUME NEW m \in Memories
        PROVE  Stays(x, [x EXCEPT !.pc = "markStub", !.memory = m, !.progress = TRUE])
    BY <1>1, <2>2 DEF Stays, Locals
  <2> QED
    BY <1>3, <2>1, <2>3 DEF x
<1>5. CASE NoiseStub(r)
  <2>1. \/ ScopeFails(r)
        \/ \E m \in Memories :
              /\ Consolidate(m, Scope(r), run[r].noise)
              /\ Becomes(r, [x EXCEPT !.pc = "markNoise", !.memory = m, !.progress = TRUE])
    BY <1>5 DEF NoiseStub, WriteMarker
  <2>2. x.pc = "noise"
    BY <1>5 DEF NoiseStub, WriteMarker, At
  <2>3. ASSUME NEW m \in Memories, Consolidate(m, Scope(r), run[r].noise)
        PROVE  TakesNoise(r, [x EXCEPT !.pc = "markNoise", !.memory = m, !.progress = TRUE])
    <3> DEFINE y == [x EXCEPT !.pc = "markNoise", !.memory = m, !.progress = TRUE]
    <3>1. /\ y.pc = "markNoise" /\ y.todo = x.todo /\ y.deferred = x.deferred
          /\ y.batch = x.batch /\ y.noise = x.noise
      BY <1>1 DEF Locals
    <3> QED
      BY <2>2, <2>3, <3>1 DEF TakesNoise
  <2> QED
    BY <1>3, <2>1, <2>3
<1>6. CASE WriteMemory(r)
  <2> DEFINE rest == [x EXCEPT !.answer = Tail(@)]
  <2>1. \/ ScopeFails(r)
        \/ Becomes(r, rest)
        \/ \E m \in Memories :
              Becomes(r, [rest EXCEPT !.pc = "markMemory", !.memory = m,
                                      !.cited = @ \cup Evidence(x), !.progress = TRUE])
    BY <1>6 DEF WriteMemory
  <2>2. x.pc = "write"
    BY <1>6 DEF WriteMemory, At
  <2> HIDE DEF x
  <2>3. Stays(x, rest)
    BY <1>1, <2>2 DEF Stays, Locals
  <2>4. ASSUME NEW m \in Memories
        PROVE  Stays(x, [rest EXCEPT !.pc = "markMemory", !.memory = m,
                                     !.cited = @ \cup Evidence(x), !.progress = TRUE])
    BY <1>1, <2>2 DEF Stays, Locals
  <2> QED
    BY <1>3, <2>1, <2>3, <2>4 DEF x
<1> QED
  BY <1>4, <1>5, <1>6

LEMMA PlainShape ==
    ASSUME RunsInv, NEW r \in Runs,
           \/ NextScope(r) \/ Distilled(r) \/ CallFails(r) \/ MarkMemory(r)
           \/ AllWritten(r) \/ MarkNoise(r) \/ AfterBatch(r)
    PROVE  \E y : Becomes(r, y) /\ (Stays(run[r], y) \/ Leaves(run[r], y))
<1> DEFINE x == run[r]
<1>1. x \in Locals /\ WellPlaced(x)
  BY RunIsGood
<1>2. Leaves(x, IdleRun) /\ (x.pc \notin {"idle", "scope"} => Leaves(x, EndScope(x)))
  BY <1>1 DEF Leaves, WellPlaced
<1>3. x.pc \notin {"strike", "noise"} => Stays(x, EndBatch(x))
  BY <1>1, BatchEndStays
<1>4. CASE NextScope(r) \/ AfterBatch(r)
  <2>1. /\ x.pc \in {"scope", "after"}
        /\ \/ Becomes(r, IdleRun)
           \/ Becomes(r, [x EXCEPT !.pc = "batch"])
           \/ x.pc = "after" /\ Becomes(r, EndScope(x))
    BY <1>4 DEF NextScope, AfterBatch, At
  <2> HIDE DEF x
  <2>2. Stays(x, [x EXCEPT !.pc = "batch"])
    BY <1>1, <2>1 DEF Stays, Locals
  <2> QED
    BY <1>2, <2>1, <2>2 DEF x
<1>5. CASE Distilled(r)
  <2>1. PICK a : Becomes(r, [x EXCEPT !.pc = "write", !.answer = a, !.silent = (a = <<>>)])
    BY <1>5 DEF Distilled
  <2>2. x.pc = "llm"
    BY <1>5 DEF Distilled, At
  <2> HIDE DEF x
  <2>3. Stays(x, [x EXCEPT !.pc = "write", !.answer = a, !.silent = (a = <<>>)])
    BY <1>1, <2>2 DEF Stays, Locals
  <2> QED
    BY <2>1, <2>3 DEF x
<1>6. CASE CallFails(r)
  BY <1>2, <1>6 DEF CallFails, At
<1>7. CASE MarkMemory(r) \/ AllWritten(r)
  <2>1. /\ x.pc \in {"markMemory", "write"}
        /\ \/ Becomes(r, EndBatch(x))
           \/ Becomes(r, [x EXCEPT !.pc = "write", !.memory = NoMemory])
           \/ Becomes(r, [x EXCEPT !.pc = "strike"])
    BY <1>7 DEF MarkMemory, AllWritten, At
  <2> HIDE DEF x
  <2>2. /\ Stays(x, [x EXCEPT !.pc = "write", !.memory = NoMemory])
        /\ Stays(x, [x EXCEPT !.pc = "strike"])
    BY <1>1, <2>1 DEF Stays, Locals
  <2> QED
    BY <1>3, <2>1, <2>2 DEF x
<1>8. CASE MarkNoise(r)
  BY <1>3, <1>8 DEF MarkNoise, At
<1> QED
  BY <1>4, <1>5, <1>6, <1>7, <1>8

Shape(r, y) ==
    \/ Stays(run[r], y) \/ Selects(r, y) \/ TakesNoise(r, y)
    \/ SetsAside(run[r], y) \/ Leaves(run[r], y)

LEMMA RunShape ==
    ASSUME TypeOK, RunsInv, NEW r \in Runs, RunStep(r)
    PROVE  \E y : Becomes(r, y) /\ Shape(r, y)
<1>1. CASE SelectBatch(r)
  BY <1>1, SelectShape DEF Shape
<1>2. CASE MarkStub(r) \/ Unusable(r)
  BY <1>2, MarkStubShape, UnusableShape DEF Shape
<1>3. CASE StrikeUncited(r)
  BY <1>3, StrikeShape DEF Shape
<1>4. CASE ParetoStub(r) \/ NoiseStub(r) \/ WriteMemory(r)
  BY <1>4, WriteShape DEF Shape
<1>5. CASE \/ NextScope(r) \/ Distilled(r) \/ CallFails(r) \/ MarkMemory(r)
           \/ AllWritten(r) \/ MarkNoise(r) \/ AfterBatch(r)
  BY <1>5, PlainShape DEF Shape
<1> QED
  BY <1>1, <1>2, <1>3, <1>4, <1>5 DEF RunStep

(* What stays of a record while its run does not move.                     *)
LEMMA StillPending ==
    ASSUME Inv, [Next]_vars, NEW S \in SUBSET Episodes, \A e \in S : place[e] # "unborn",
           NEW e \in S \ GivenBack, place'[e] = "pending"
    PROVE  Pending(e)
<1>1. Pending(e) \/ Held(e)
  BY PendingBefore
<1> QED
  BY <1>1 DEF GivenBack, Pending

LEMMA RecordKept ==
    ASSUME Inv, [Next]_vars, NEW x \in Locals, NEW S \in SUBSET Episodes, Remembered(x, S),
           NEW T, T = IF x.pc = "idle" THEN {} ELSE S \ GivenBack
    PROVE  Remembered(x, T)'
<1>1. T \subseteq S \ GivenBack
  BY DEF Remembered
<1>2. ASSUME NEW e \in Reads(x) \cup S PROVE Lasts(e)
  BY <1>2, BirthKept DEF Remembered, Reads, Locals, Inv
<1>3. \A e \in Reads(x) : place'[e] # "unborn" /\ epScope'[e] = Head(x.todo)
  BY <1>2 DEF Remembered, Lasts
<1>4. \A e \in T : place'[e] # "unborn"
  BY <1>1, <1>2 DEF Lasts
<1>5. ASSUME NEW e \in T, place'[e] = "pending", Ahead(epScope'[e], x.todo)
      PROVE  SetAside(x, e)
  <2>1. Pending(e) /\ epScope'[e] = epScope[e]
    BY <1>1, <1>2, <1>5, StillPending DEF Remembered, Lasts
  <2> QED
    BY <1>1, <1>5, <2>1 DEF Remembered
<1> QED
  BY <1>1, <1>3, <1>4, <1>5 DEF Remembered, Pending

(* The scopes a run has left to visit are other scopes.                    *)
LEMMA TailDiffers ==
    ASSUME NEW todo \in Seq(Scopes), todo # <<>>, Differ(todo)
    PROVE  Differ(Tail(todo)) /\ ~ Ahead(Head(todo), Tail(todo))
<1>1. /\ Len(todo) \in Nat \ {0} /\ DOMAIN todo = 1 .. Len(todo)
      /\ Len(Tail(todo)) = Len(todo) - 1 /\ DOMAIN Tail(todo) = 1 .. Len(todo) - 1
      /\ \A i \in 1 .. Len(todo) - 1 : Tail(todo)[i] = todo[i + 1]
      /\ Head(todo) = todo[1]
  <2>1. Tail(todo) \in Seq(Scopes)
    BY HeadTailProperties
  <2> QED
    BY <2>1, HeadTailProperties, LenProperties
<1>2. ASSUME NEW i \in 1 .. Len(todo) - 1, NEW j \in 1 .. Len(todo) - 1, i < j
      PROVE  Tail(todo)[i] # Tail(todo)[j]
  <2>1. i + 1 \in DOMAIN todo /\ j + 1 \in DOMAIN todo /\ i + 1 < j + 1
    BY <1>1, <1>2
  <2> QED
    BY <1>1, <2>1 DEF Differ
<1>3. ASSUME NEW i \in 1 .. Len(todo) - 1 PROVE Tail(todo)[i] # todo[1]
  <2>1. 1 \in DOMAIN todo /\ i + 1 \in DOMAIN todo /\ 1 < i + 1
    BY <1>1
  <2> QED
    BY <1>1, <2>1 DEF Differ
<1> QED
  BY <1>1, <1>2, <1>3 DEF Differ, Ahead

LEMMA HeadAhead ==
    ASSUME NEW todo \in Seq(Scopes), todo # <<>>
    PROVE  Ahead(Head(todo), todo)
<1>1. Head(todo) = todo[1] /\ 1 \in DOMAIN todo
  BY HeadTailProperties, LenProperties
<1> QED
  BY <1>1 DEF Ahead

(* Every statement of a run keeps its record in order.  N is what the      *)
(* statement strikes.                                                      *)
LEMMA RecordMoves ==
    ASSUME Inv, RunsInv, [Next]_vars, NEW r \in Runs, NEW S \in SUBSET Episodes,
           Remembered(run[r], S), NEW y, Shape(r, y),
           NEW N, N \subseteq Uncited(run[r]), run[r].pc # "strike" => N = {},
           NEW T, T = IF y.pc = "idle" THEN {} ELSE (S \ GivenBack) \cup N
    PROVE  Remembered(y, T)'
<1> DEFINE x == run[r]
<1>1. /\ x \in Locals /\ Uncited(x) \subseteq x.batch
      /\ (x.pc \notin {"idle", "scope"} => x.todo # <<>>)
  BY RunIsGood, UncitedSome DEF WellPlaced
<1>2. ASSUME NEW e \in Reads(x) \cup S PROVE Lasts(e)
  BY <1>1, <1>2, BirthKept DEF Remembered, Reads, Locals, Inv
<1>3. ASSUME NEW e \in S \ GivenBack, place'[e] = "pending" PROVE Pending(e)
  BY <1>3, StillPending DEF Remembered
<1>4. ASSUME NEW e \in T PROVE place'[e] # "unborn"
  <2>1. e \in Reads(x) \cup S
    BY <1>1 DEF Reads
  <2> QED
    BY <1>2, <2>1 DEF Lasts
<1>5. SUFFICES /\ y.pc = "idle" => T = {}
               /\ Differ(y.todo)
               /\ \A e \in Reads(y) : place'[e] # "unborn" /\ epScope'[e] = Head(y.todo)
               /\ y.pc \notin {"noise", "markNoise"} => y.batch \cap T = {}
               /\ \A e \in T : place'[e] = "pending" /\ Ahead(epScope'[e], y.todo)
                                  => SetAside(y, e)
  BY <1>4 DEF Remembered, Pending
<1>6. ASSUME Reads(y) \subseteq Reads(x), y.todo = x.todo
      PROVE  /\ Differ(y.todo)
             /\ \A e \in Reads(y) : place'[e] # "unborn" /\ epScope'[e] = Head(y.todo)
  BY <1>2, <1>6 DEF Remembered, Lasts
<1>7. ASSUME NEW e \in S \ GivenBack, place'[e] = "pending", Ahead(epScope'[e], x.todo)
      PROVE  SetAside(x, e)
  BY <1>2, <1>3, <1>7 DEF Remembered, Lasts
<1> HIDE DEF x
<1>8. CASE Stays(x, y)
  <2>1. Reads(y) \subseteq Reads(x) /\ N = {} /\ T \subseteq S \ GivenBack
    BY <1>8 DEF Stays, Reads, x
  <2>2. y.pc \notin {"noise", "markNoise"} => y.batch \cap T = {}
    BY <1>8, <2>1 DEF Stays, Remembered, x
  <2>3. ASSUME NEW e \in T, place'[e] = "pending", Ahead(epScope'[e], y.todo)
        PROVE  SetAside(y, e)
    BY <1>7, <1>8, <2>1, <2>3 DEF Stays, SetAside
  <2> QED
    BY <1>6, <1>8, <2>1, <2>2, <2>3 DEF Stays
<1>9. CASE Selects(r, y)
  <2>1. /\ x.pc = "batch" /\ y.todo = x.todo /\ y.deferred = x.deferred /\ N = {}
        /\ y.batch \cup y.noise \subseteq Batch(r)
    BY <1>9 DEF Selects, x
  <2>2. Batch(r) \subseteq Eligible(Scope(r), x.cutoff) \ x.deferred
    <3> DEFINE E == Eligible(Scope(r), x.cutoff) \ (x.skipped \cup x.deferred)
    <3>1. E \in SUBSET Episodes
      BY EligibleAged
    <3>2. Oldest(E, MaxBatch) \subseteq E
      BY <3>1, OldestSome, Numbers DEF Inv
    <3> QED
      BY <3>2 DEF Batch, x
  <2>3. ASSUME NEW e \in Batch(r)
        PROVE  /\ e \in Episodes /\ Pending(e) /\ epScope[e] = Head(x.todo) /\ e \notin x.deferred
               /\ place'[e] # "unborn" /\ epScope'[e] = Head(x.todo)
    <3>1. e \in Episodes /\ Pending(e) /\ epScope[e] = Head(x.todo) /\ e \notin x.deferred
      BY <2>2 DEF Eligible, Scope, x
    <3>2. Lasts(e)
      BY <3>1, BirthKept DEF Inv, Pending
    <3> QED
      BY <3>1, <3>2 DEF Lasts
  <2>4. \A e \in Reads(y) : place'[e] # "unborn" /\ epScope'[e] = Head(y.todo)
    BY <1>2, <2>1, <2>3 DEF Reads, Remembered, Lasts, x
  <2>5. ASSUME NEW e \in y.batch \cap S PROVE FALSE
    <3>1. x.todo \in Seq(Scopes) /\ x.todo # <<>>
      BY <1>1, <2>1 DEF Locals
    <3>2. Ahead(epScope[e], x.todo)
      BY <2>1, <2>3, <3>1, HeadAhead
    <3>3. SetAside(x, e)
      BY <2>1, <2>3, <3>2 DEF Remembered, x
    <3> QED
      BY <2>1, <2>3, <3>3 DEF SetAside
  <2>6. ASSUME NEW e \in T, place'[e] = "pending", Ahead(epScope'[e], y.todo)
        PROVE  SetAside(y, e)
    BY <1>7, <2>1, <2>6 DEF SetAside
  <2>7. Differ(y.todo) /\ y.pc # "idle"
    BY <1>9, <2>1 DEF Selects, Remembered, x
  <2> QED
    BY <2>1, <2>4, <2>5, <2>6, <2>7
<1>10. CASE TakesNoise(r, y)
  <2>1. /\ x.pc = "noise" /\ y.pc = "markNoise" /\ y.todo = x.todo /\ N = {}
        /\ y.deferred = x.deferred /\ y.batch = x.batch /\ y.noise = x.noise
    BY <1>10 DEF TakesNoise, x
  <2>2. PICK m \in Memories : Consolidate(m, Scope(r), x.noise)
    BY <1>10 DEF TakesNoise, x
  <2>3. ASSUME NEW e \in T, place'[e] = "pending", Ahead(epScope'[e], y.todo)
        PROVE  e \in y.deferred
    <3>1. SetAside(x, e) /\ Pending(e) /\ e \in Episodes
      BY <1>3, <1>7, <2>1, <2>3
    <3>2. ASSUME e \in x.noise PROVE FALSE
      <4>1. epScope[e] = Scope(r)
        BY <3>2 DEF Remembered, Reads, Scope, x
      <4>2. place'[e] = m
        BY <2>2, <3>1, <3>2, <4>1 DEF Consolidate, Taken
      <4> QED
        BY <2>3, <4>2, StoreAssumption DEF Vacant
    <3> QED
      BY <2>1, <3>1, <3>2 DEF SetAside
  <2> QED
    BY <1>6, <2>1, <2>3 DEF Reads, SetAside
<1>11. CASE SetsAside(x, y)
  <2>1. /\ x.pc = "strike" /\ y.todo = x.todo /\ y.noise = Exhausted(x)
        /\ y.deferred = x.deferred \cup (Uncited(x) \ Exhausted(x))
        /\ \/ y.pc = "after" /\ y.batch = {} /\ Exhausted(x) = {}
           \/ y.pc = "noise" /\ y.batch = x.batch
    BY <1>11 DEF SetsAside
  <2>2. Reads(y) \subseteq Reads(x)
    BY <1>1, <2>1 DEF Reads, Exhausted
  <2>3. ASSUME NEW e \in T, place'[e] = "pending", Ahead(epScope'[e], y.todo)
        PROVE  SetAside(y, e)
    <3>1. CASE e \in N
      <4>1. e \in Uncited(x)
        BY <3>1 DEF x
      <4> QED
        BY <2>1, <4>1 DEF SetAside
    <3>2. CASE e \in S \ GivenBack
      <4>1. SetAside(x, e)
        BY <1>7, <2>1, <2>3, <3>2
      <4> QED
        BY <2>1, <4>1 DEF SetAside
    <3> QED
      BY <3>1, <3>2
  <2> QED
    BY <1>6, <2>1, <2>2, <2>3
<1>12. CASE y = IdleRun
  <2>1. /\ y.pc = "idle" /\ y.todo = <<>> /\ y.batch = {} /\ y.noise = {}
        /\ y.deferred = {}
    BY <1>12 DEF IdleRun
  <2> QED
    BY <2>1 DEF Differ, Reads
<1>13. CASE x.todo # <<>> /\ y = EndScope(x)
  <2>1. /\ y.pc = "scope" /\ y.todo = Tail(x.todo) /\ y.batch = {} /\ y.noise = {}
        /\ y.deferred = {}
    BY <1>13 DEF EndScope, IdleRun
  <2>2. Differ(Tail(x.todo)) /\ ~ Ahead(Head(x.todo), Tail(x.todo))
    BY <1>1, <1>13, TailDiffers DEF Locals, Remembered, x
  <2>3. ASSUME NEW e \in T, place'[e] = "pending", Ahead(epScope'[e], y.todo) PROVE FALSE
    <3>1. ASSUME e \in Reads(x) PROVE FALSE
      BY <1>2, <2>1, <2>2, <2>3, <3>1 DEF Remembered, Lasts, x
    <3>2. CASE e \in N
      BY <1>1, <3>1, <3>2 DEF Reads, x
    <3>3. CASE e \in S \ GivenBack
      <4>1. Ahead(epScope'[e], x.todo)
        <5>1. PICK i \in DOMAIN Tail(x.todo) : Tail(x.todo)[i] = epScope'[e]
          BY <2>1, <2>3 DEF Ahead
        <5>2. Tail(x.todo) \in Seq(Scopes) /\ Len(Tail(x.todo)) = Len(x.todo) - 1
              /\ Len(x.todo) \in Nat /\ DOMAIN x.todo = 1 .. Len(x.todo)
          BY <1>1, <1>13, HeadTailProperties, LenProperties DEF Locals
        <5>3. i \in 1 .. Len(x.todo) - 1
          BY <5>2, LenProperties
        <5>4. i + 1 \in DOMAIN x.todo
          BY <5>2, <5>3
        <5>5. Tail(x.todo)[i] = x.todo[i + 1]
          BY <1>1, <1>13, <5>3, HeadTailProperties DEF Locals
        <5> QED
          BY <5>1, <5>4, <5>5 DEF Ahead
      <4> QED
        BY <1>7, <2>3, <3>1, <3>3, <4>1 DEF SetAside, Reads
    <3> QED
      BY <3>2, <3>3
  <2> QED
    BY <2>1, <2>2, <2>3 DEF Reads
<1> QED
  BY <1>8, <1>9, <1>10, <1>11, <1>12, <1>13 DEF Shape, Leaves, x

LEMMA HistIsSleep == [HistNext]_histVars => [SleepNext]_sleepVars
BY DEF HistNext, SleepNext, histVars

(* What a step strikes, the run that moves strikes, of what it read.       *)
LEMMA StruckByTheRun ==
    ASSUME SleepInv, [SleepNext]_sleepVars, NEW r \in Runs, Moved(r), NEW e \in Episodes,
           Struck(e)
    PROVE  run[r].pc = "strike" /\ e \in Uncited(run[r])
<1> USE DEF SleepInv, Inv, TypeOK
<1>1. strikes' # strikes
  BY DEF Struck
<1>2. RunStep(r)
  BY <1>1, Mover
<1>3. ASSUME NEW n, NEW s, NEW S, Consolidate(n, s, S) PROVE FALSE
  BY <1>1, <1>3 DEF Consolidate
<1>4. run[r].pc = "strike" /\ Strike(Uncited(run[r]))
  BY <1>1, <1>2, <1>3, RunWrites
<1> QED
  BY <1>4 DEF Strike, Struck

LEMMA StartRemembers ==
    ASSUME TypeOK, NEW r \in Runs, Start(r)
    PROVE  \E y : Becomes(r, y) /\ Remembered(y, {})' /\ strikes' = strikes
<1>1. PICK w \in Worklists(now - MinAge) :
          Becomes(r, [IdleRun EXCEPT !.pc = "scope", !.todo = w, !.cutoff = now - MinAge])
  BY DEF Start
<1>2. PICK y : y = [IdleRun EXCEPT !.pc = "scope", !.todo = w, !.cutoff = now - MinAge]
  OBVIOUS
<1>3. /\ y.pc = "scope" /\ y.todo = w /\ y.batch = {} /\ y.noise = {} /\ y.deferred = {}
  BY <1>2 DEF IdleRun
<1>4. Differ(w)
  BY DEF Worklists, Differ
<1>5. strikes' = strikes
  BY DEF Start, vars
<1>6. Remembered(y, {})'
  BY <1>3, <1>4 DEF Remembered, Reads
<1> QED
  BY <1>1, <1>2, <1>5, <1>6

LEMMA OneRecord ==
    ASSUME HistInv, HistNext, NEW r \in Runs
    PROVE  Remembered(run[r], struck[r])'
<1>1. PICK x, y, S, T, N : /\ x = run[r] /\ S = struck[r]
                           /\ y = run'[r] /\ T = struck'[r]
                           /\ N = {e \in Episodes : Moved(r) /\ Struck(e)}
  OBVIOUS
<1>2. /\ SleepInv /\ Inv /\ TypeOK /\ RunsInv /\ [SleepNext]_sleepVars /\ [Next]_vars
      /\ S \in SUBSET Episodes /\ Remembered(x, S) /\ Remembered(run[r], S) /\ x \in Locals
  BY <1>1, HistIsSleep, NightStep, RunIsGood DEF HistInv, SleepInv, Inv
<1>3. T = IF y.pc = "idle" THEN {} ELSE (S \ GivenBack) \cup N
  BY <1>1 DEF HistNext, Remember
<1>4. N \subseteq Uncited(run[r]) /\ (run[r].pc # "strike" => N = {})
  BY <1>1, <1>2, StruckByTheRun
<1>5. SUFFICES Remembered(y, T)'
  BY <1>1 DEF Remembered, Reads, SetAside
<1>6. CASE ~ Moved(r)
  <2>1. y = x /\ N = {}
    BY <1>1, <1>6 DEF Moved
  <2>2. T = IF x.pc = "idle" THEN {} ELSE S \ GivenBack
    BY <1>3, <2>1
  <2> QED
    BY <1>2, <2>1, <2>2, RecordKept
<1>7. CASE Moved(r)
  <2>1. ASSUME NEW q \in Runs, NEW z, Becomes(q, z)
        PROVE  q = r /\ z = y
    BY <1>1, <1>2, <1>7, <2>1 DEF Becomes, Moved, RunsInv
  <2>2. ASSUME NEW q \in Runs, RunStep(q) PROVE Shape(r, y)
    BY <1>2, <2>1, <2>2, RunShape
  <2>3. ASSUME NEW q \in Runs, Crash(q) PROVE Shape(r, y)
    BY <2>1, <2>3 DEF Crash, Shape, Leaves
  <2>4. Shape(r, y) => Remembered(y, T)'
    BY <1>2, <1>3, <1>4, RecordMoves
  <2>5. ASSUME NEW q \in Runs, Start(q) PROVE Remembered(y, T)'
    <3>1. PICK z : Becomes(q, z) /\ Remembered(z, {})' /\ strikes' = strikes
      BY <1>2, <2>5, StartRemembers
    <3>2. q = r /\ Remembered(y, {})'
      BY <2>1, <3>1
    <3>3. N = {}
      <4>1. strikes \in [Episodes -> Nat]
        BY <1>2 DEF TypeOK
      <4> QED
        BY <1>1, <3>1, <4>1 DEF Struck
    <3>4. S = {}
      BY <1>1, <1>2, <2>5, <3>2 DEF Remembered, Start, At
    <3> QED
      BY <1>3, <3>2, <3>3, <3>4
  <2>6. ~ (Arrive \/ Tool)
    BY <1>7 DEF Arrive, Tool, Moved
  <2> QED
    BY <2>2, <2>3, <2>4, <2>5, <2>6 DEF HistNext
<1> QED
  BY <1>6, <1>7

LEMMA HistInitInv == HistInit => HistInv
<1> SUFFICES ASSUME HistInit PROVE HistInv
  OBVIOUS
<1>1. SleepInv /\ struck \in [Runs -> SUBSET Episodes]
  BY SleepInitInv DEF HistInit
<1>2. ASSUME NEW r \in Runs PROVE run[r] = IdleRun /\ struck[r] = {}
  BY DEF HistInit, SleepInit
<1>3. /\ IdleRun.batch = {} /\ IdleRun.noise = {} /\ IdleRun.deferred = {}
      /\ Differ(IdleRun.todo)
  BY DEF IdleRun, Differ
<1>4. \A r \in Runs : Remembered(run[r], struck[r])
  BY <1>2, <1>3 DEF Remembered, Reads
<1> QED
  BY <1>1, <1>4 DEF HistInv

LEMMA HistNextInv == HistInv /\ [HistNext]_histVars => HistInv'
<1> SUFFICES ASSUME HistInv, [HistNext]_histVars PROVE HistInv'
  OBVIOUS
<1>1. SleepInv'
  BY HistIsSleep, SleepNextInv DEF HistInv
<1>2. CASE HistNext
  <2>1. struck' \in [Runs -> SUBSET Episodes]
    BY <1>2 DEF HistNext, Remember, HistInv
  <2>2. \A r \in Runs : Remembered(run[r], struck[r])'
    BY <1>2, OneRecord
  <2> QED
    BY <1>1, <2>1, <2>2 DEF HistInv
<1>3. CASE UNCHANGED histVars
  BY <1>1, <1>3 DEF HistInv, Remembered, Reads, SetAside, Pending, histVars, sleepVars, vars,
                    episodeVars
<1> QED
  BY <1>2, <1>3

THEOREM HistInvHolds == HistSpec => []HistInv
BY HistInitInv, HistNextInv, PTL DEF HistSpec

(* A run strikes an episode once at most over all its batches, however     *)
(* long its work list and whatever the other processes do, unless a user   *)
(* undoes the memory that took the episode in the meantime.                *)
THEOREM OneStrikePerRunHolds == HistSpec => OneStrikePerRun
<1>1. HistInv /\ [HistNext]_histVars =>
        [\A r \in Runs, e \in Episodes : (Moved(r) /\ Struck(e)) => e \notin struck[r]]_histVars
  <2> SUFFICES ASSUME HistInv, [HistNext]_histVars, NEW r \in Runs, NEW e \in Episodes,
                      Moved(r), Struck(e)
               PROVE  e \notin struck[r]
    OBVIOUS
  <2>1. SleepInv /\ RunsInv /\ [SleepNext]_sleepVars /\ Remembered(run[r], struck[r])
    BY HistIsSleep DEF HistInv, SleepInv
  <2>2. run[r].pc = "strike" /\ e \in run[r].batch
    BY <2>1, StruckByTheRun, RunIsGood, UncitedSome
  <2> QED
    BY <2>1, <2>2 DEF Remembered
<1> QED
  BY <1>1, HistInvHolds, PTL DEF HistSpec, OneStrikePerRun

(***************************************************************************)
(* An episode no answer fits.  A prompt it is in is never answered, so the *)
(* batch of a run that writes or strikes has none of them, and what a run  *)
(* takes for noise comes from classify() or from such a batch.             *)
(***************************************************************************)
Doubt == Poison \ ParetoNoise

Clean(x) ==
    /\ x.noise \cap Doubt = {}
    /\ x.pc \in {"write", "markMemory", "strike"} => x.batch \cap Doubt = {}

(* A marker is a memory that was written, so no later one has its id.      *)
MarkersBorn == \A m \in marker : m \in Memories /\ mem[m] # "unborn"

PoisonInv ==
    /\ MarkersBorn
    /\ PoisonNeverNoise
    /\ \A r \in Runs : Clean(run[r])

LEMMA EndsClean ==
    ASSUME NEW x \in Locals
    PROVE  Clean(EndBatch(x)) /\ Clean(EndScope(x)) /\ Clean(IdleRun)
BY DEF EndBatch, EndScope, IdleRun, Clean, Locals

LEMMA AskClean ==
    ASSUME NEW x \in Locals, NEW C, x.noise \cap Doubt = {}
    PROVE  Clean(Ask(x, C))
<1>1. CASE Ask(x, C) = EndBatch(x)
  BY <1>1, EndsClean
<1>2. CASE Ask(x, C) = Travel(x, C)
  <2>1. Travel(x, C).pc = "llm" /\ Travel(x, C).noise = x.noise
    BY DEF Travel, Locals
  <2> QED
    BY <1>2, <2>1 DEF Clean
<1> QED
  BY <1>1, <1>2 DEF Ask

LEMMA SelectClean ==
    ASSUME RunsInv, NEW r \in Runs, SelectBatch(r)
    PROVE  \E y : Becomes(r, y) /\ Clean(y)
<1> DEFINE x == [run[r] EXCEPT !.progress = FALSE]
           noise == Batch(r) \cap ParetoNoise
           y == [x EXCEPT !.pc = "stub", !.noise = noise, !.batch = Batch(r) \ noise]
<1>1. x \in Locals /\ x.noise = {}
  BY ZenonT(30), RunIsGood DEF SelectBatch, At, WellPlaced, Locals
<1>2. Becomes(r, y) \/ Becomes(r, Ask(x, Batch(r)))
  BY DEF SelectBatch
<1>3. y.pc = "stub" /\ y.noise = noise
  BY <1>1 DEF Locals
<1>4. Clean(y)
  BY <1>3 DEF Clean, Doubt
<1>5. Clean(Ask(x, Batch(r)))
  BY <1>1, AskClean
<1> QED
  BY <1>2, <1>4, <1>5

LEMMA MarkStubClean ==
    ASSUME RunsInv, NEW r \in Runs, MarkStub(r)
    PROVE  \E y : Becomes(r, y) /\ Clean(y)
<1> DEFINE x == [run[r] EXCEPT !.memory = NoMemory, !.noise = {}]
<1>1. x \in Locals /\ x.noise = {}
  BY RunIsGood DEF Locals
<1>2. Clean(Ask(x, x.batch))
  BY <1>1, AskClean
<1> QED
  BY <1>2 DEF MarkStub

LEMMA UnusableClean ==
    ASSUME RunsInv, NEW r \in Runs, Clean(run[r]), Unusable(r)
    PROVE  \E y : Becomes(r, y) /\ Clean(y)
<1> DEFINE x == run[r]
           half == Cardinality(x.batch) \div 2
           h == [x EXCEPT !.cap = half, !.batch = Oldest(x.batch, half)]
<1>1. x \in Locals /\ x.pc = "llm" /\ x.noise \cap Doubt = {}
  BY RunIsGood DEF Unusable, At, Clean
<1>2. PICK why : \/ Becomes(r, Alone(x, why))
                 \/ half # 0 /\ Becomes(r, Retry(h))
  BY DEF Unusable
<1> HIDE DEF x, half
<1>3. Alone(x, why).noise = {} /\ Alone(x, why).pc = "after"
  BY <1>1 DEF Alone, EndBatch, Locals
<1>4. /\ Retry(h).noise \cap Doubt = {}
      /\ Retry(h).pc \in {"llm", "after"}
  BY <1>1 DEF Retry, EndBatch, Locals
<1>5. Clean(Alone(x, why)) /\ Clean(Retry(h))
  BY <1>3, <1>4 DEF Clean
<1> QED
  BY <1>2, <1>5

LEMMA StrikeClean ==
    ASSUME RunsInv, NEW r \in Runs, Clean(run[r]), StrikeUncited(r)
    PROVE  \E y : Becomes(r, y) /\ Clean(y)
<1> DEFINE x == run[r]
           out == Exhausted(x)
           y == [x EXCEPT !.deferred = @ \cup (Uncited(x) \ out)]
           z == [y EXCEPT !.pc = "noise", !.noise = out]
<1>1. x \in Locals /\ Fine(x) /\ x.pc = "strike" /\ x.batch \cap Doubt = {}
  BY RunIsGood DEF StrikeUncited, At, Clean
<1>2. Becomes(r, EndBatch(y)) \/ Becomes(r, z) \/ Becomes(r, EndScope(x))
  BY DEF StrikeUncited, ScopeFails
<1>3. out \subseteq x.batch
  BY <1>1, UncitedSome DEF Exhausted
<1> HIDE DEF x, out
<1>4. z.pc = "noise" /\ z.noise = out
  BY <1>1 DEF Locals
<1>5. EndBatch(y).pc = "after" /\ EndBatch(y).noise = {}
  BY <1>1 DEF EndBatch, Locals
<1>6. Clean(z) /\ Clean(EndBatch(y)) /\ Clean(EndScope(x))
  BY <1>1, <1>3, <1>4, <1>5, EndsClean DEF Clean
<1> QED
  BY <1>2, <1>6

(* The statements that keep `noise`, and the batch of a run that writes.   *)
LEMMA PlainClean ==
    ASSUME RunsInv, NEW r \in Runs, Clean(run[r]),
           \/ NextScope(r) \/ ParetoStub(r) \/ NoiseStub(r) \/ Distilled(r)
           \/ WriteMemory(r) \/ MarkMemory(r) \/ AllWritten(r) \/ AfterBatch(r)
    PROVE  \E y : Becomes(r, y) /\ Clean(y)
<1> DEFINE x == run[r]
<1>1. x \in Locals /\ x.noise \cap Doubt = {}
  BY RunIsGood DEF Clean
<1>2. Clean(EndBatch(x)) /\ Clean(EndScope(x)) /\ Clean(IdleRun)
  BY <1>1, EndsClean
<1>3. CASE NextScope(r) \/ AfterBatch(r)
  <2> DEFINE y == [x EXCEPT !.pc = "batch"]
  <2>1. Becomes(r, y) \/ Becomes(r, EndScope(x)) \/ Becomes(r, IdleRun)
    BY <1>3 DEF NextScope, AfterBatch
  <2>2. y.pc = "batch" /\ y.noise = x.noise
    BY <1>1 DEF Locals
  <2>3. Clean(y)
    BY <1>1, <2>2 DEF Clean
  <2> QED
    BY <1>2, <2>1, <2>3
<1>4. CASE ParetoStub(r) \/ NoiseStub(r)
  <2>1. \/ Becomes(r, EndScope(x))
        \/ \E m \in Memories, next \in {"markStub", "markNoise"} :
              Becomes(r, [x EXCEPT !.pc = next, !.memory = m, !.progress = TRUE])
    BY <1>4 DEF ParetoStub, NoiseStub, WriteMarker, ScopeFails
  <2>2. ASSUME NEW m \in Memories, NEW next \in {"markStub", "markNoise"}
        PROVE  Clean([x EXCEPT !.pc = next, !.memory = m, !.progress = TRUE])
    <3> DEFINE y == [x EXCEPT !.pc = next, !.memory = m, !.progress = TRUE]
    <3>1. y.pc = next /\ y.noise = x.noise
      BY <1>1 DEF Locals
    <3> QED
      BY <1>1, <3>1 DEF Clean
  <2> QED
    BY <1>2, <2>1, <2>2
<1>5. CASE Distilled(r)
  <2>1. x.batch \cap Poison = {}
    BY <1>5 DEF Distilled, Mood
  <2>2. PICK a : Becomes(r, [x EXCEPT !.pc = "write", !.answer = a, !.silent = (a = <<>>)])
    BY <1>5 DEF Distilled
  <2> DEFINE y == [x EXCEPT !.pc = "write", !.answer = a, !.silent = (a = <<>>)]
  <2>3. y.noise = x.noise /\ y.batch = x.batch
    BY <1>1 DEF Locals
  <2>4. Clean(y)
    BY <1>1, <2>1, <2>3 DEF Clean, Doubt
  <2> QED
    BY <2>2, <2>4
<1>6. CASE WriteMemory(r)
  <2> DEFINE rest == [x EXCEPT !.answer = Tail(@)]
  <2>1. x.batch \cap Doubt = {}
    BY <1>6 DEF WriteMemory, At, Clean
  <2>2. \/ Becomes(r, rest) \/ Becomes(r, EndScope(x))
        \/ \E m \in Memories :
              Becomes(r, [rest EXCEPT !.pc = "markMemory", !.memory = m,
                                      !.cited = @ \cup Evidence(x), !.progress = TRUE])
    BY <1>6 DEF WriteMemory, ScopeFails
  <2>3. Clean(rest)
    BY <1>1, <2>1 DEF Clean, Locals
  <2>4. ASSUME NEW m \in Memories
        PROVE  Clean([rest EXCEPT !.pc = "markMemory", !.memory = m,
                                  !.cited = @ \cup Evidence(x), !.progress = TRUE])
    <3> DEFINE y == [rest EXCEPT !.pc = "markMemory", !.memory = m,
                                 !.cited = @ \cup Evidence(x), !.progress = TRUE]
    <3>1. y.noise = x.noise /\ y.batch = x.batch
      BY <1>1 DEF Locals
    <3> QED
      BY <1>1, <2>1, <3>1 DEF Clean
  <2> QED
    BY <1>2, <2>2, <2>3, <2>4
<1>7. CASE MarkMemory(r) \/ AllWritten(r)
  <2>1. x.batch \cap Doubt = {}
    BY <1>7 DEF MarkMemory, AllWritten, At, Clean
  <2>2. \/ Becomes(r, [x EXCEPT !.pc = "write", !.memory = NoMemory])
        \/ Becomes(r, EndBatch(x)) \/ Becomes(r, [x EXCEPT !.pc = "strike"])
    BY <1>7 DEF MarkMemory, AllWritten
  <2>3. /\ Clean([x EXCEPT !.pc = "write", !.memory = NoMemory])
        /\ Clean([x EXCEPT !.pc = "strike"])
    BY <1>1, <2>1 DEF Clean, Locals
  <2> QED
    BY <1>2, <2>2, <2>3
<1> QED
  BY <1>3, <1>4, <1>5, <1>6, <1>7

LEMMA RunStepClean ==
    ASSUME RunsInv, NEW r \in Runs, Clean(run[r]), RunStep(r)
    PROVE  \E y : Becomes(r, y) /\ Clean(y)
<1>1. run[r] \in Locals
  BY RunIsGood
<1>2. CASE CallFails(r)
  BY <1>1, <1>2, EndsClean DEF CallFails
<1>3. CASE MarkNoise(r)
  BY <1>1, <1>3, EndsClean DEF MarkNoise
<1> QED
  BY <1>2, <1>3, SelectClean, MarkStubClean, UnusableClean, StrikeClean, PlainClean
     DEF RunStep

LEMMA RunsKeptClean ==
    ASSUME SleepInv, PoisonInv, [SleepNext]_sleepVars, NEW q \in Runs
    PROVE  Clean(run'[q])
<1>1. ASSUME NEW r \in Runs, Start(r) \/ RunStep(r) \/ Crash(r) PROVE Clean(run'[q])
  <2>1. \E y : Becomes(r, y) /\ Clean(y)
    <3>1. CASE Start(r)
      <4>1. PICK w : Becomes(r, [IdleRun EXCEPT !.pc = "scope", !.todo = w,
                                                !.cutoff = now - MinAge])
        BY <3>1 DEF Start
      <4>2. Clean([IdleRun EXCEPT !.pc = "scope", !.todo = w, !.cutoff = now - MinAge])
        BY DEF Clean, IdleRun
      <4> QED
        BY <4>1, <4>2
    <3>2. CASE RunStep(r)
      BY <3>2, RunStepClean DEF SleepInv, PoisonInv
    <3>3. CASE Crash(r)
      BY <3>3 DEF Crash, Clean, IdleRun
    <3> QED
      BY <1>1, <3>1, <3>2, <3>3
  <2>2. PICK y : Becomes(r, y) /\ Clean(y)
    BY <2>1
  <2>3. run'[q] = IF q = r THEN y ELSE run[q]
    BY <2>2 DEF Becomes, SleepInv, RunsInv
  <2> QED
    BY <2>2, <2>3 DEF PoisonInv
<1>2. CASE Arrive \/ Tool \/ UNCHANGED sleepVars
  BY <1>2 DEF Arrive, Tool, sleepVars, PoisonInv
<1> QED
  BY <1>1, <1>2 DEF SleepNext

LEMMA BornKept ==
    ASSUME TypeOK, [Next]_vars, NEW m \in Memories, mem[m] # "unborn"
    PROVE  mem'[m] # "unborn"
<1> USE DEF TypeOK, DeletedMemories
<1>1. ASSUME NEW n \in Memories, NEW s \in Scopes, NEW S \in SUBSET Episodes,
             Consolidate(n, s, S)
      PROVE  mem'[m] # "unborn"
  BY <1>1 DEF Consolidate
<1>2. ASSUME NEW n \in Memories, Unconsolidate(n) \/ ForgetMemory(n) PROVE mem'[m] # "unborn"
  BY <1>2 DEF Unconsolidate, ForgetMemory
<1>3. ASSUME NEW p \in Passes, ForgetCommit(p) PROVE mem'[m] # "unborn"
  BY <1>3 DEF ForgetCommit
<1>4. CASE mem' = mem
  BY <1>4
<1> QED
  BY <1>1, <1>2, <1>3, <1>4
     DEF Next, vars, memoryVars, Capture, Strike, Fade, Reinforce, ForgetRead, ForgetEnd, Tick

(* Who strikes: a run, what it read.                                       *)
LEMMA StrikesOfARun ==
    ASSUME SleepInv, PoisonInv, [SleepNext]_sleepVars, NEW e \in Doubt
    PROVE  strikes'[e] = 0
<1> USE DEF SleepInv, Inv, TypeOK
<1>1. e \in Episodes /\ strikes[e] = 0
  BY SleepAssumption DEF Doubt, PoisonInv, PoisonNeverNoise
<1>2. CASE strikes' = strikes
  BY <1>1, <1>2
<1>3. ASSUME NEW r \in Runs, RunStep(r) PROVE strikes'[e] = 0
  <2>1. ASSUME NEW m, NEW s, NEW S, Consolidate(m, s, S) PROVE strikes' = strikes
    BY <2>1 DEF Consolidate
  <2>2. CASE run[r].pc = "strike" /\ Strike(Uncited(run[r]))
    <3>1. e \notin Uncited(run[r])
      BY <2>2, RunIsGood, UncitedSome DEF PoisonInv, Clean
    <3> QED
      BY <1>1, <2>2, <3>1 DEF Strike
  <2> QED
    BY <1>2, <1>3, <2>1, <2>2, RunWrites
<1>4. ASSUME NEW m \in Memories, Unconsolidate(m) PROVE strikes'[e] = 0
  BY <1>1, <1>4 DEF Unconsolidate, Forgiven
<1>5. CASE Tool
  BY <1>2, <1>4, <1>5 DEF Tool, Consolidate, ForgetMemory
<1>6. CASE Arrive \/ UNCHANGED sleepVars
  BY <1>2, <1>6 DEF Arrive, Capture, Tick, episodeVars, sleepVars, vars
<1>7. ASSUME NEW r \in Runs, Start(r) \/ Crash(r) PROVE strikes' = strikes
  BY <1>7 DEF Start, Crash, vars
<1> QED
  BY <1>2, <1>3, <1>5, <1>6, <1>7 DEF SleepNext

(* A step writes a marker, of what its run takes for noise, or none.       *)
LEMMA MarkerMoves ==
    ASSUME SleepInv, [SleepNext]_sleepVars
    PROVE  \/ UNCHANGED marker
           \/ \E r \in Runs, m \in Memories :
                 /\ Consolidate(m, Scope(r), run[r].noise)
                 /\ marker' = marker \cup {m}
<1>1. ASSUME NEW r \in Runs, RunStep(r), ~ (ParetoStub(r) \/ NoiseStub(r))
      PROVE  UNCHANGED marker
  BY <1>1 DEF RunStep, NextScope, SelectBatch, Distilled, Unusable, CallFails, AllWritten,
              AfterBatch, MarkStub, MarkNoise, MarkMemory, WriteMemory, StrikeUncited,
              ScopeFails
<1>2. ASSUME NEW r \in Runs, ParetoStub(r) \/ NoiseStub(r)
      PROVE  \/ UNCHANGED marker
             \/ \E m \in Memories : /\ Consolidate(m, Scope(r), run[r].noise)
                                    /\ marker' = marker \cup {m}
  BY <1>2 DEF ParetoStub, NoiseStub, WriteMarker, ScopeFails
<1>3. ASSUME NEW r \in Runs, Start(r) \/ Crash(r) PROVE UNCHANGED marker
  BY <1>3 DEF Start, Crash
<1>4. CASE Arrive \/ Tool \/ UNCHANGED sleepVars
  BY <1>4 DEF Arrive, Tool, sleepVars
<1> QED
  BY <1>1, <1>2, <1>3, <1>4 DEF SleepNext

LEMMA PoisonNext == SleepInv /\ PoisonInv /\ [SleepNext]_sleepVars => PoisonInv'
<1> SUFFICES ASSUME SleepInv, PoisonInv, [SleepNext]_sleepVars PROVE PoisonInv'
  OBVIOUS
<1>1. /\ [Next]_vars /\ Inv /\ TypeOK /\ LinkIntegrity /\ MarkersBorn
      /\ \A r \in Runs : Clean(run[r])
  BY NightStep DEF SleepInv, PoisonInv, Inv
<1>2. ASSUME NEW r \in Runs, NEW m \in Memories,
             Consolidate(m, Scope(r), run[r].noise), marker' = marker \cup {m}
      PROVE  MarkersBorn' /\ \A e \in Doubt : place'[e] \notin marker'
  <2>1. mem[m] = "unborn" /\ mem'[m] = "live"
    BY <1>1, <1>2 DEF Consolidate, TypeOK
  <2>2. MarkersBorn'
    BY <1>1, <1>2, <2>1, BornKept DEF MarkersBorn
  <2>3. ASSUME NEW e \in Doubt PROVE place'[e] \notin marker'
    <3>1. e \in Episodes /\ e \notin run[r].noise /\ place[e] \notin marker
      BY <1>1, SleepAssumption DEF Doubt, Clean, PoisonInv, PoisonNeverNoise
    <3>2. place'[e] = place[e]
      BY <1>2, <3>1 DEF Consolidate, Taken
    <3>3. place[e] # m
      BY <1>1, <2>1, <3>1 DEF LinkIntegrity, Held, Live
    <3> QED
      BY <1>2, <3>1, <3>2, <3>3
  <2> QED
    BY <2>2, <2>3
<1>3. ASSUME UNCHANGED marker
      PROVE  MarkersBorn' /\ \A e \in Doubt : place'[e] \notin marker'
  <2>1. MarkersBorn'
    BY <1>1, <1>3, BornKept DEF MarkersBorn
  <2>2. ASSUME NEW e \in Doubt, place'[e] \in marker PROVE FALSE
    <3>1. e \in Episodes /\ place[e] \notin marker
      BY <1>1, SleepAssumption DEF Doubt, PoisonInv, PoisonNeverNoise
    <3>2. place'[e] \in Memories /\ mem[place'[e]] # "unborn"
      BY <1>1, <2>2 DEF MarkersBorn
    <3>3. mem[place'[e]] = "unborn"
      BY <1>1, <2>2, <3>1, <3>2, StepOwnership
    <3> QED
      BY <3>2, <3>3
  <2> QED
    BY <1>3, <2>1, <2>2
<1>4. MarkersBorn' /\ \A e \in Doubt : place'[e] \notin marker'
  BY <1>2, <1>3, MarkerMoves
<1>5. PoisonNeverNoise'
  BY <1>4, StrikesOfARun DEF PoisonNeverNoise, Doubt
<1>6. \A q \in Runs : Clean(run'[q])
  BY RunsKeptClean
<1> QED
  BY <1>4, <1>5, <1>6 DEF PoisonInv, Clean

(* Whatever is answered, undone, retried or lost, an episode no answer     *)
(* fits is never struck and never in a marker: neither the halving of a    *)
(* batch nor the strikes of another run make noise of it.                  *)
THEOREM PoisonNeverNoiseHolds == SleepSpec => []PoisonNeverNoise
<1>1. SleepInit => PoisonInv
  <2> SUFFICES ASSUME SleepInit PROVE PoisonInv
    OBVIOUS
  <2>1. marker = {} /\ \A r \in Runs : run[r] = IdleRun
    BY DEF SleepInit
  <2>2. \A e \in Doubt : strikes[e] = 0
    BY SleepAssumption DEF SleepInit, Init, Doubt
  <2> QED
    BY <2>1, <2>2 DEF PoisonInv, MarkersBorn, PoisonNeverNoise, Doubt, Clean, IdleRun
<1>2. PoisonInv => PoisonNeverNoise
  BY DEF PoisonInv
<1> QED
  BY <1>1, <1>2, PoisonNext, SleepInvHolds, PTL DEF SleepSpec

(***************************************************************************)
(* Nights nobody interferes with.  Strikes are only added, so what a run   *)
(* counted in its transaction still stands when it writes the marker.      *)
(***************************************************************************)
Earned(S) == \A e \in S : strikes[e] >= UncitedStrikes

EarnedInv == \A r \in Runs : run[r].pc = "noise" => Earned(run[r].noise)

LEMMA NightIsSleep == [NightNext]_sleepVars => [SleepNext]_sleepVars
BY DEF NightNext, SleepNext

LEMMA StrikesAdd ==
    ASSUME SleepInv, [NightNext]_sleepVars, NEW e \in Episodes
    PROVE  strikes'[e] >= strikes[e]
<1> USE DEF SleepInv, Inv, TypeOK
<1>1. strikes[e] \in Nat
  OBVIOUS
<1>2. CASE strikes' = strikes
  BY <1>1, <1>2
<1>3. ASSUME NEW r \in Runs, RunStep(r) PROVE strikes'[e] >= strikes[e]
  <2>1. ASSUME NEW m, NEW s, NEW S, Consolidate(m, s, S) PROVE strikes' = strikes
    BY <2>1 DEF Consolidate
  <2>2. ASSUME NEW S, Strike(S) PROVE strikes'[e] >= strikes[e]
    BY <1>1, <2>2 DEF Strike
  <2> QED
    BY <1>2, <1>3, <2>1, <2>2, RunWrites
<1>4. ASSUME NEW r \in Runs, Start(r) PROVE strikes' = strikes
  BY <1>4 DEF Start, vars
<1>5. CASE Arrive \/ UNCHANGED sleepVars
  BY <1>2, <1>5 DEF Arrive, Capture, Tick, episodeVars, sleepVars, vars
<1> QED
  BY <1>2, <1>3, <1>4, <1>5 DEF NightNext

(* Only its transaction of strikes brings a run to the marker of noise.    *)
LEMMA NoiseFromStrikes ==
    ASSUME RunsInv, NEW r \in Runs, RunStep(r), run'[r].pc = "noise"
    PROVE  /\ run[r].pc = "strike" /\ Strike(Uncited(run[r]))
           /\ run'[r].noise = Exhausted(run[r])
<1> DEFINE x == run[r]
<1>1. x \in Locals /\ run \in [Runs -> Locals]
  BY RunIsGood DEF RunsInv
<1>2. ASSUME NEW y, Becomes(r, y) PROVE run'[r] = y
  BY <1>1, <1>2 DEF Becomes
<1>3. /\ EndBatch(x).pc = "after" /\ EndScope(x).pc = "scope" /\ IdleRun.pc = "idle"
  BY <1>1 DEF EndBatch, EndScope, IdleRun, Locals
<1>4. ASSUME NEW z \in Locals, NEW C PROVE Ask(z, C).pc # "noise"
  BY <1>4 DEF Ask, Travel, EndBatch, Locals
<1>5. ~ (NextScope(r) \/ CallFails(r) \/ AllWritten(r) \/ AfterBatch(r) \/ MarkNoise(r))
  <2>1. [x EXCEPT !.pc = "batch"].pc = "batch" /\ [x EXCEPT !.pc = "strike"].pc = "strike"
    BY <1>1 DEF Locals
  <2> QED
    BY <1>2, <1>3, <2>1 DEF NextScope, CallFails, AllWritten, AfterBatch, MarkNoise
<1>6. ~ SelectBatch(r)
  <2> DEFINE z == [x EXCEPT !.progress = FALSE]
             noise == Batch(r) \cap ParetoNoise
             y == [z EXCEPT !.pc = "stub", !.noise = noise, !.batch = Batch(r) \ noise]
  <2>1. z \in Locals /\ y.pc = "stub"
    BY <1>1 DEF Locals
  <2>2. SelectBatch(r) => Becomes(r, y) \/ Becomes(r, Ask(z, Batch(r)))
    BY DEF SelectBatch
  <2>3. Ask(z, Batch(r)).pc # "noise"
    BY <1>4, <2>1
  <2> HIDE DEF y, z
  <2> QED
    BY <1>2, <2>1, <2>2, <2>3
<1>7. ~ MarkStub(r)
  <2> DEFINE z == [x EXCEPT !.memory = NoMemory, !.noise = {}]
  <2>1. z \in Locals
    BY <1>1 DEF Locals
  <2>2. Ask(z, z.batch).pc # "noise"
    BY <1>4, <2>1
  <2> QED
    BY <1>2, <2>2 DEF MarkStub
<1>8. ~ (ParetoStub(r) \/ NoiseStub(r))
  <2>1. ASSUME NEW m, NEW next \in {"markStub", "markNoise"}
        PROVE  [x EXCEPT !.pc = next, !.memory = m, !.progress = TRUE].pc # "noise"
    BY <1>1, <2>1 DEF Locals
  <2> QED
    BY <1>2, <1>3, <2>1 DEF ParetoStub, NoiseStub, WriteMarker, ScopeFails
<1>9. ~ (Distilled(r) \/ MarkMemory(r))
  <2>1. ASSUME NEW a
        PROVE  [x EXCEPT !.pc = "write", !.answer = a, !.silent = (a = <<>>)].pc = "write"
    BY <1>1 DEF Locals
  <2>2. [x EXCEPT !.pc = "write", !.memory = NoMemory].pc = "write"
    BY <1>1 DEF Locals
  <2> QED
    BY <1>2, <2>1, <2>2 DEF Distilled, MarkMemory
<1>10. ~ WriteMemory(r)
  <2> DEFINE rest == [x EXCEPT !.answer = Tail(@)]
  <2>1. WriteMemory(r) => rest.pc = "write"
    BY <1>1 DEF WriteMemory, At, Locals
  <2>2. ASSUME NEW m
        PROVE  [rest EXCEPT !.pc = "markMemory", !.memory = m,
                            !.cited = @ \cup Evidence(x), !.progress = TRUE].pc = "markMemory"
    BY <1>1 DEF Locals
  <2> QED
    BY <1>2, <1>3, <2>1, <2>2 DEF WriteMemory, ScopeFails
<1>11. ~ Unusable(r)
  <2> DEFINE half == Cardinality(x.batch) \div 2
             h == [x EXCEPT !.cap = half, !.batch = Oldest(x.batch, half)]
  <2>1. ASSUME NEW why PROVE Alone(x, why).pc = "after"
    BY <1>1 DEF Alone, EndBatch, Locals
  <2>2. Unusable(r) => Retry(h).pc \in {"llm", "after"}
    BY <1>1 DEF Unusable, At, Retry, EndBatch, Locals
  <2> HIDE DEF half
  <2>3. Unusable(r) => \E why : Becomes(r, Alone(x, why)) \/ Becomes(r, Retry(h))
    BY DEF Unusable, half
  <2> QED
    BY <1>2, <2>1, <2>2, <2>3
<1>12. StrikeUncited(r)
  BY <1>5, <1>6, <1>7, <1>8, <1>9, <1>10, <1>11 DEF RunStep
<1> DEFINE out == Exhausted(x)
           y == [x EXCEPT !.deferred = @ \cup (Uncited(x) \ out)]
           z == [y EXCEPT !.pc = "noise", !.noise = out]
<1>13. EndBatch(y).pc = "after" /\ z.noise = out
  BY <1>1 DEF EndBatch, Locals
<1>14. \/ Strike(Uncited(x)) /\ (Becomes(r, EndBatch(y)) \/ Becomes(r, z))
       \/ Becomes(r, EndScope(x))
  BY <1>12 DEF StrikeUncited, ScopeFails
<1>15. Strike(Uncited(x)) /\ run'[r] = z
  BY <1>2, <1>3, <1>13, <1>14
<1> QED
  BY <1>12, <1>13, <1>15 DEF StrikeUncited, At

LEMMA EarnedNext == SleepInv /\ EarnedInv /\ [NightNext]_sleepVars => EarnedInv'
<1> SUFFICES ASSUME SleepInv, EarnedInv, [NightNext]_sleepVars,
                    NEW q \in Runs, run'[q].pc = "noise",
                    NEW e \in run'[q].noise
             PROVE  strikes'[e] >= UncitedStrikes
  BY DEF EarnedInv, Earned
<1>1. RunsInv /\ TypeOK /\ RunsInv'
  BY NightIsSleep, SleepNextInv DEF SleepInv, Inv
<1>2. e \in Episodes /\ UncitedStrikes \in Nat
  BY <1>1, Numbers DEF RunsInv, Locals
<1>3. strikes[e] \in Nat /\ strikes'[e] >= strikes[e]
  BY <1>1, <1>2, StrikesAdd DEF TypeOK
<1>4. CASE run'[q] = run[q]
  <2>1. strikes[e] >= UncitedStrikes
    BY <1>4 DEF EarnedInv, Earned
  <2>2. strikes'[e] \in Nat
    BY <1>2, NightIsSleep, SleepNextInv DEF SleepInv, Inv, TypeOK
  <2> QED
    BY <1>2, <1>3, <2>1, <2>2
<1>5. ASSUME NEW r \in Runs, RunStep(r), run'[q] # run[q]
      PROVE  strikes'[e] >= UncitedStrikes
  <2>1. r = q
    <3>1. \E y : Becomes(r, y)
      BY <1>1, <1>5, RunStepGood
    <3> QED
      BY <1>1, <1>5, <3>1 DEF Becomes, RunsInv
  <2>2. Strike(Uncited(run[q])) /\ e \in Exhausted(run[q])
    BY <1>1, <1>5, <2>1, NoiseFromStrikes
  <2> QED
    BY <1>2, <1>3, <2>2 DEF Strike, Exhausted
<1>6. ASSUME NEW r \in Runs, Start(r) PROVE run'[q] = run[q]
  <2>1. PICK w : Becomes(r, [IdleRun EXCEPT !.pc = "scope", !.todo = w, !.cutoff = now - MinAge])
    BY <1>6 DEF Start
  <2>2. [IdleRun EXCEPT !.pc = "scope", !.todo = w, !.cutoff = now - MinAge].pc = "scope"
    BY DEF IdleRun
  <2> QED
    BY <1>1, <2>1, <2>2 DEF Becomes, RunsInv
<1>7. CASE Arrive \/ UNCHANGED sleepVars
  BY <1>4, <1>7 DEF Arrive, sleepVars
<1> QED
  BY <1>4, <1>5, <1>6, <1>7 DEF NightNext

LEMMA EarnedWhenTaken ==
    ASSUME SleepInv, EarnedInv, [NightNext]_sleepVars, NEW r \in Runs, NEW e \in Episodes,
           At(r, "noise"), Moved(r), TakenNow(e)
    PROVE  strikes[e] >= UncitedStrikes
<1> USE DEF SleepInv, Inv, TypeOK
<1>1. place'[e] # place[e] /\ place'[e] \in Memories
  BY StoreAssumption DEF TakenNow, Pending, Held, Vacant
<1>2. RunStep(r)
  BY <1>1, NightIsSleep, Mover
<1>3. ASSUME NEW n \in Memories, Consolidate(n, Scope(r), run[r].noise)
      PROVE  e \in run[r].noise
  BY <1>1, <1>3 DEF Consolidate, Taken
<1>4. e \in run[r].noise
  BY <1>1, <1>2, <1>3, RunWrites DEF At
<1> QED
  BY <1>4 DEF At, EarnedInv, Earned

(* On a night nobody undoes a memory, an episode goes to noise only with   *)
(* every strike against it, however many runs strike at once.              *)
THEOREM NoiseEarnedHolds == NightSpec => NoiseEarned
<1>1. SleepInit => EarnedInv
  BY DEF SleepInit, EarnedInv, IdleRun
<1>2. SleepInv /\ EarnedInv /\ [NightNext]_sleepVars =>
        [\A r \in Runs, e \in Episodes :
            (At(r, "noise") /\ Moved(r) /\ TakenNow(e)) => strikes[e] >= UncitedStrikes]_sleepVars
  BY EarnedWhenTaken
<1> QED
  BY <1>1, <1>2, EarnedNext, NightIsSleep, SleepInvHolds, PTL
     DEF NightSpec, SleepSpec, NoiseEarned

===============================================================================
