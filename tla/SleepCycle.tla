------------------------------ MODULE SleepCycle ------------------------------
(***************************************************************************)
(* The nightly consolidation: runConsolidation (consolidation/run.ts) over *)
(* the scopes with pending episodes and processScope (scope.ts) over one   *)
(* batch of one scope.                                                     *)
(*                                                                         *)
(* A run awaits the LLM, and every one of its writes is a transaction of   *)
(* its own: cron, the viewer's job and a second terminal may each be       *)
(* running one on the same file, next to the tools and the viewer's        *)
(* buttons, and a run may die anywhere.  So each statement on the store is *)
(* one step here; what a run computes between two of them is part of the   *)
(* first.  Embeddings, counters of the summary and logging are left out,   *)
(* and so is the dry run, which writes nothing.                            *)
(***************************************************************************)
EXTENDS MemStore, Sequences

CONSTANTS
    Runs,            \* processes that may be running a consolidation
    ParetoNoise,     \* the episodes classify() puts at level 0
    Poison,          \* the episodes no prompt with them gets a usable answer
    Moods,           \* what the LLM may do with any other prompt
    Requests,        \* the lists of ids the consolidate tool is called with
    MinAge,          \* minAgeHours
    MinEpisodes,     \* minEpisodesPerScope
    QuietDays,       \* quietDays
    MaxBatch,        \* maxEpisodesPerBatch
    PromptFit,       \* how many episodes maxPromptChars admits
    MaxCalls,        \* maxCalls
    UncitedStrikes,  \* uncitedStrikes
    NoMemory

ASSUME SleepAssumption ==
    /\ Episodes \subseteq Nat /\ IsFiniteSet(Episodes) /\ IsFiniteSet(Scopes)
    /\ Moods \subseteq {"answer", "truncated", "invalid", "error", "fatal"}
    /\ {MaxBatch, PromptFit, MaxCalls, UncitedStrikes} \subseteq Nat \ {0}
    /\ {MinAge, MinEpisodes, QuietDays} \subseteq Nat
    /\ Requests \subseteq SUBSET Episodes /\ Poison \subseteq Episodes
    /\ NoMemory \notin Memories

VARIABLES
    run,     \* run[r]: the local state of runConsolidation in process r
    marker   \* the memories whose gist is "[noise] ..." or "[pareto:l0] ..."

sleepVars == <<vars, run, marker>>

------------------------------------------------------------------------------
(* Local state.  `todo` holds the scopes still to visit, the current one   *)
(* first; `batch` is `candidates`, `progress` is what run.ts tests to go   *)
(* on with the scope, `memory` the row whose salience is still to be set.  *)
Uncapped == Cardinality(Episodes)

IdleRun == [pc |-> "idle", todo |-> <<>>, cutoff |-> 0, calls |-> 0, cap |-> Uncapped,
            skipped |-> {}, deferred |-> {}, batch |-> {}, noise |-> {},
            answer |-> <<>>, silent |-> FALSE, cited |-> {}, progress |-> FALSE,
            memory |-> NoMemory]

SleepInit ==
    /\ Init
    /\ run = [r \in Runs |-> IdleRun]
    /\ marker = {}

At(r, label) == run[r].pc = label
Scope(r) == Head(run[r].todo)
Becomes(r, x) == run' = [run EXCEPT ![r] = x]

Smallest(a, b) == IF a <= b THEN a ELSE b

(* ORDER BY created_at, rows of one instant in insertion order.            *)
Older(e, f) == epAt[e] < epAt[f] \/ (epAt[e] = epAt[f] /\ e < f)
Oldest(S, k) == {e \in S : Cardinality({f \in S : Older(f, e)}) < k}

(* Mutant: the queries without `created_at < @cutoff`.                     *)
EligibleAtAnyAge(s, cutoff) == {e \in Episodes : Pending(e) /\ epScope[e] = s}

Eligible(s, cutoff) == {e \in Episodes : Pending(e) /\ epScope[e] = s /\ epAt[e] < cutoff}

------------------------------------------------------------------------------
(* Where a batch, a scope and a run end.                                   *)
EndBatch(x) == [x EXCEPT !.pc = "after", !.batch = {}, !.noise = {}, !.answer = <<>>,
                         !.silent = FALSE, !.cited = {}, !.memory = NoMemory]

EndScope(x) == [IdleRun EXCEPT !.pc = "scope", !.todo = Tail(x.todo),
                               !.cutoff = x.cutoff, !.calls = x.calls]

(* An exception inside processScope: the scope is counted as failed and    *)
(* the run goes on with the next one.                                      *)
ScopeFails(r) == Becomes(r, EndScope(run[r])) /\ UNCHANGED <<vars, marker>>

HasCallsLeft(x) == x.calls < MaxCalls

Travel(x, candidates) ==
    [x EXCEPT !.pc = "llm", !.calls = @ + 1,
              !.batch = Oldest(candidates, Smallest(x.cap, PromptFit))]

(* Mutant: a batch that was all noise is asked about all the same.         *)
AskAboutNothing(x, candidates) ==
    IF HasCallsLeft(x) THEN Travel(x, candidates) ELSE EndBatch(x)

(* fitPrompt and the first call: the oldest candidates that fit travel.    *)
Ask(x, candidates) ==
    IF candidates # {} /\ HasCallsLeft(x) THEN Travel(x, candidates) ELSE EndBatch(x)

------------------------------------------------------------------------------
(* runConsolidation reads the scopes with old enough pending episodes, the *)
(* fullest first, and passes over the small ones that are still active.    *)
TooFew(s, cutoff) ==
    /\ Cardinality(Eligible(s, cutoff)) < MinEpisodes
    /\ \E e \in Eligible(s, cutoff) : epAt[e] >= now - QuietDays

Worklists(cutoff) ==
    LET S == {s \in Scopes : Eligible(s, cutoff) # {} /\ ~TooFew(s, cutoff)}
        n(s) == Cardinality(Eligible(s, cutoff))
    IN  {w \in [1 .. Cardinality(S) -> S] :
            \A i, j \in DOMAIN w : i < j => w[i] # w[j] /\ n(w[i]) >= n(w[j])}

Start(r) ==
    /\ At(r, "idle")
    /\ \E w \in Worklists(now - MinAge) :
          /\ w # <<>>
          /\ Becomes(r, [IdleRun EXCEPT !.pc = "scope", !.todo = w, !.cutoff = now - MinAge])
    /\ UNCHANGED <<vars, marker>>

(* The next scope of the list, or the end of the run: nothing left to do,  *)
(* or no call left to do it with.                                          *)
NextScope(r) ==
    /\ At(r, "scope")
    /\ Becomes(r, IF run[r].todo = <<>> \/ ~HasCallsLeft(run[r]) THEN IdleRun
                  ELSE [run[r] EXCEPT !.pc = "batch"])
    /\ UNCHANGED <<vars, marker>>

(* Mutant: episodes skipped or struck earlier in the run come back.        *)
BatchWithRepeats(r) == Oldest(Eligible(Scope(r), run[r].cutoff), MaxBatch)

Batch(r) == Oldest(Eligible(Scope(r), run[r].cutoff) \ (run[r].skipped \cup run[r].deferred),
                   MaxBatch)

SelectBatch(r) ==
    /\ At(r, "batch")
    /\ LET x == [run[r] EXCEPT !.progress = FALSE]
           noise == Batch(r) \cap ParetoNoise
       IN  Becomes(r, IF noise # {}
                      THEN [x EXCEPT !.pc = "stub", !.noise = noise, !.batch = Batch(r) \ noise]
                      ELSE Ask(x, Batch(r)))
    /\ UNCHANGED <<vars, marker>>

(* UPDATE memories SET salience = ? WHERE id = ?                           *)
SetSalience(m, low) ==
    /\ faded' = [faded EXCEPT ![m] = IF Live(m) THEN low ELSE @]
    /\ UNCHANGED <<now, episodeVars, mem, memScope, memAt, sources, pass>>

(* A stub memory for the episodes of x.noise: consolidate, then the        *)
(* salience in a statement of its own.                                     *)
WriteMarker(r, here, next) ==
    /\ At(r, here)
    /\ \/ \E m \in Memories :
            /\ Consolidate(m, Scope(r), run[r].noise)
            /\ Becomes(r, [run[r] EXCEPT !.pc = next, !.memory = m, !.progress = TRUE])
            /\ marker' = marker \cup {m}
       \/ Taken(run[r].noise, Scope(r)) = {} /\ ScopeFails(r)

ParetoStub(r) == WriteMarker(r, "stub", "markStub")

MarkStub(r) ==
    /\ At(r, "markStub")
    /\ SetSalience(run[r].memory, TRUE)
    /\ LET x == [run[r] EXCEPT !.memory = NoMemory, !.noise = {}]
       IN  Becomes(r, Ask(x, x.batch))
    /\ UNCHANGED marker

------------------------------------------------------------------------------
(* The LLM.  A prompt with a poison episode is answered cut or malformed.  *)
Mood(r) == IF run[r].batch \cap Poison # {} THEN {"truncated", "invalid"} ELSE Moods

(* The answer: each distilled memory as the episodes it cites, which may   *)
(* be foreign to the batch, repeated in another memory, or (the empty set) *)
(* invented.                                                               *)
Answers == UNION {[1 .. n -> SUBSET Episodes] : n \in 0 .. 2}

Distilled(r) ==
    /\ At(r, "llm") /\ "answer" \in Mood(r)
    /\ \E a \in Answers :
          Becomes(r, [run[r] EXCEPT !.pc = "write", !.answer = a, !.silent = (a = <<>>)])
    /\ UNCHANGED <<vars, marker>>

(* Mutant: the budget is not looked at again before the retry.             *)
RetryUnmetered(x) == [x EXCEPT !.calls = @ + 1]

Retry(x) == IF HasCallsLeft(x) THEN [x EXCEPT !.calls = @ + 1] ELSE EndBatch(x)

(* Mutant: what it once did, noise for an episode no answer fits.          *)
AloneIsNoise(x, why) == [x EXCEPT !.pc = "noise", !.noise = x.batch]

(* A batch of one is skipped for this run.  Bad JSON from it lifts the     *)
(* cap, a cut answer keeps it.                                             *)
Alone(x, why) ==
    EndBatch([x EXCEPT !.skipped = @ \cup x.batch, !.progress = TRUE,
                       !.cap = IF why = "invalid" THEN Uncapped ELSE @])

(* A cut or malformed answer: half the batch is asked again.               *)
Unusable(r) ==
    /\ At(r, "llm")
    /\ \E why \in Mood(r) \cap {"truncated", "invalid"} :
          LET x == run[r]
              half == Cardinality(x.batch) \div 2
          IN  Becomes(r,
                IF half = 0 THEN Alone(x, why)
                ELSE Retry([x EXCEPT !.cap = half, !.batch = Oldest(x.batch, half)]))
    /\ UNCHANGED <<vars, marker>>

(* Any other error fails the scope; a rejected key or no credit ends the   *)
(* run.                                                                    *)
CallFails(r) ==
    /\ At(r, "llm")
    /\ \/ "error" \in Mood(r) /\ Becomes(r, EndScope(run[r]))
       \/ "fatal" \in Mood(r) /\ Becomes(r, IdleRun)
    /\ UNCHANGED <<vars, marker>>

------------------------------------------------------------------------------
(* Mutant: the ids the model cites are not held against the batch.         *)
EvidenceUnchecked(x) == Head(x.answer) \ x.cited

Evidence(x) == (Head(x.answer) \cap x.batch) \ x.cited

(* An empty list leaves the whole batch uncited; a list of inventions      *)
(* leaves nobody struck.                                                   *)
Uncited(x) == IF x.silent THEN x.batch
              ELSE IF x.cited # {} THEN x.batch \ x.cited ELSE {}

WriteMemory(r) ==
    /\ At(r, "write") /\ run[r].answer # <<>>
    /\ LET x == run[r]
           rest == [x EXCEPT !.answer = Tail(@)]
       IN  \/ Evidence(x) = {} /\ Becomes(r, rest) /\ UNCHANGED <<vars, marker>>
           \/ /\ Evidence(x) # {}
              /\ \/ \E m \in Memories :
                      /\ Consolidate(m, Scope(r), Evidence(x))
                      /\ Becomes(r, [rest EXCEPT !.pc = "markMemory", !.memory = m,
                                       !.cited = @ \cup Evidence(x), !.progress = TRUE])
                      /\ UNCHANGED marker
                 \/ Taken(Evidence(x), Scope(r)) = {} /\ ScopeFails(r)

(* The memory's initial salience is the confidence the model gave it.      *)
MarkMemory(r) ==
    /\ At(r, "markMemory")
    /\ \E low \in BOOLEAN : SetSalience(run[r].memory, low)
    /\ Becomes(r, [run[r] EXCEPT !.pc = "write", !.memory = NoMemory])
    /\ UNCHANGED marker

AllWritten(r) ==
    /\ At(r, "write") /\ run[r].answer = <<>>
    /\ Becomes(r, IF Uncited(run[r]) = {} THEN EndBatch(run[r])
                  ELSE [run[r] EXCEPT !.pc = "strike"])
    /\ UNCHANGED <<vars, marker>>

(* Mutant: one bad answer is enough.                                       *)
ExhaustedAtOnce(x) == Uncited(x)

Exhausted(x) == {e \in Uncited(x) : strikes[e] + 1 >= UncitedStrikes}

(* One transaction: a strike to each uncited episode, those with all their *)
(* strikes to noise, the others to the next run.  A row deleted meanwhile  *)
(* throws on the count it no longer has and rolls every strike back.       *)
StrikeUncited(r) ==
    /\ At(r, "strike")
    /\ LET x == run[r]
           out == Exhausted(x)
           y == [x EXCEPT !.deferred = @ \cup (Uncited(x) \ out)]
       IN  \/ /\ Strike(Uncited(x))
              /\ Becomes(r, IF out = {} THEN EndBatch(y)
                            ELSE [y EXCEPT !.pc = "noise", !.noise = out])
              /\ UNCHANGED marker
           \/ (\E e \in Uncited(x) : ~Stored(e)) /\ ScopeFails(r)

NoiseStub(r) == WriteMarker(r, "noise", "markNoise")

MarkNoise(r) ==
    /\ At(r, "markNoise")
    /\ SetSalience(run[r].memory, TRUE)
    /\ Becomes(r, EndBatch(run[r]))
    /\ UNCHANGED marker

(* Mutant: a batch without progress does not stop the scope.               *)
AgainRegardless(r) == Eligible(Scope(r), run[r].cutoff) # {} /\ HasCallsLeft(run[r])

(* Back in run.ts: another batch of the scope only after progress, while   *)
(* it has pending episodes and the run has calls.                          *)
Again(r) ==
    /\ run[r].progress
    /\ Eligible(Scope(r), run[r].cutoff) # {}
    /\ HasCallsLeft(run[r])

AfterBatch(r) ==
    /\ At(r, "after")
    /\ Becomes(r, IF Again(r) THEN [run[r] EXCEPT !.pc = "batch"] ELSE EndScope(run[r]))
    /\ UNCHANGED <<vars, marker>>

(* The process dies: what it had not written is lost.                      *)
Crash(r) ==
    /\ ~At(r, "idle")
    /\ Becomes(r, IdleRun)
    /\ UNCHANGED <<vars, marker>>

------------------------------------------------------------------------------
RunStep(r) ==
    \/ NextScope(r) \/ SelectBatch(r) \/ ParetoStub(r) \/ MarkStub(r)
    \/ Distilled(r) \/ Unusable(r) \/ CallFails(r)
    \/ WriteMemory(r) \/ MarkMemory(r) \/ AllWritten(r)
    \/ StrikeUncited(r) \/ NoiseStub(r) \/ MarkNoise(r) \/ AfterBatch(r)

(* Rows are inserted in id order; time passes.                             *)
Arrive ==
    /\ \/ \E e \in Episodes, s \in Scopes :
            (\A f \in Episodes : f < e => place[f] # "unborn") /\ Capture(e, s)
       \/ Tick
    /\ UNCHANGED <<run, marker>>

(* The consolidate tool and the viewer's buttons.                          *)
Tool ==
    /\ \/ \E m \in Memories, s \in Scopes, S \in Requests : Consolidate(m, s, S)
       \/ \E m \in Memories : Unconsolidate(m) \/ ForgetMemory(m)
    /\ UNCHANGED <<run, marker>>

SleepNext ==
    \/ \E r \in Runs : Start(r) \/ RunStep(r) \/ Crash(r)
    \/ Arrive
    \/ Tool

SleepSpec == SleepInit /\ [][SleepNext]_sleepVars

(* The nights of a machine that stays up and whose queue nobody else       *)
(* touches.  Cron starts every night, a process that runs goes on, and a   *)
(* provider that keeps being asked about readable episodes does not        *)
(* answer with failures and inventions for ever.                           *)
UsefulAnswer(r) ==
    Distilled(r) /\ (run'[r].silent \/ UNION {run'[r].answer[i] : i \in DOMAIN run'[r].answer}
                                         \cap run[r].batch # {})

NightNext ==
    \/ \E r \in Runs : Start(r) \/ RunStep(r)
    \/ Arrive

Fairness ==
    \A r \in Runs : /\ WF_sleepVars(Start(r))
                    /\ WF_sleepVars(RunStep(r))
                    /\ SF_sleepVars(UsefulAnswer(r))

NightSpec == SleepInit /\ [][NightNext]_sleepVars /\ Fairness

------------------------------------------------------------------------------
(* A run never asks more than maxCalls times, retries included             *)
(* (consolidation/README.md: "cada corrida como mucho MAX_CALLS"), and     *)
(* never spends a call on nothing: half of a batch of one is zero, and the *)
(* noise filter may leave a batch empty.                                   *)
CallBudget ==
    \A r \in Runs : run[r].calls <= MaxCalls /\ (At(r, "llm") => run[r].batch # {})

(* An episode no answer fits is never struck and never ends in a noise     *)
(* marker, where `forget` would delete it (scope.ts: "It stays pending and *)
(* the run goes on with the rest").                                        *)
PoisonNeverNoise ==
    \A e \in Poison \ ParetoNoise : strikes[e] = 0 /\ place[e] \notin marker

(* Who moved: the run whose local state the step changed.                  *)
Moved(r) == run'[r] # run[r]
Struck(e) == strikes'[e] > strikes[e]
TakenNow(e) == Pending(e) /\ Held(e)'

(* A run consolidates only what it read: no id the model invented or took  *)
(* from elsewhere enters a memory, neither as a link nor as a recorded     *)
(* source, and no episode enters two memories of one answer.               *)
TakesOnlyWhatItRead ==
    [][\A r \in Runs, m \in Memories :
          (Moved(r) /\ mem[m] = "unborn" /\ Live(m)') =>
             sources'[m] \subseteq (run[r].batch \cup run[r].noise) \ run[r].cited]_sleepVars

(* However long a run takes and whatever is captured meanwhile, it never   *)
(* consolidates an episode younger than minAgeHours at its start.          *)
TakesOnlyAged ==
    [][\A r \in Runs, e \in Episodes :
          (Moved(r) /\ TakenNow(e)) => epAt[e] < run[r].cutoff]_sleepVars

(* An episode goes to noise only with every strike against it              *)
(* (consolidation/README.md: "Solo al agotar los strikes pasa a ruido").   *)
NoiseEarned ==
    [][\A r \in Runs, e \in Episodes :
          (At(r, "noise") /\ Moved(r) /\ TakenNow(e)) => strikes[e] >= UncitedStrikes]_sleepVars

(* A marker memory is one `forget` will delete: its salience is already    *)
(* low, or the run that wrote it is about to lower it                      *)
(* (consolidation/README.md: "con `salience=0.05`, y `forget` lo borra").  *)
NoiseIsFaded ==
    \A m \in marker : Live(m) => faded[m] \/ \E r \in Runs : run[r].memory = m

(* Every run ends, whatever the model answers and whatever another run     *)
(* takes from under it.                                                    *)
RunsEnd == \A r \in Runs : run[r].pc # "idle" ~> run[r].pc = "idle"

(* A backlog drains: an old enough episode with a readable answer leaves   *)
(* the queue some night (consolidation/README.md: "Un atraso grande se     *)
(* vacia en varias noches").                                               *)
BacklogDrains ==
    \A e \in Episodes \ Poison :
        e \in Eligible(epScope[e], now - MinAge) ~> ~Pending(e)

===============================================================================
