# A verification of misMEM

misMEM keeps the long-term memory of an LLM in one SQLite file. Conversations are captured
verbatim as *episodes*; a nightly run distils them into *memories*; patterns over memories
become *traits*; `recall` searches the three and `forget` lets the old ones go. There is no
central server: every MCP client starts a process on the same file, next to an HTTP server
with its viewer, command-line tools, hooks and a cron job. A `better-sqlite3` statement or
transaction is atomic; between two of them, and at every `await` of an LLM or an embedder,
any other process may run, and a process may die. The page of the viewer adds a second kind of
window: answers that arrive when the person is already doing something else. Those windows are
what this project is about.

Source paths below are relative to `src/engine/src/`, those of the page to `src/engine/ui/src/`.

## 1. The system

| Component | State | Operations | What makes it correct |
|---|---|---|---|
| Store (`memory/`, `store/db.ts`) | rows of `episodes`, `memories`; `consolidated_into` | capture, consolidate, unconsolidate, forgetMemory, forget | an episode is never lost, never in two memories, deleted only when old or on request |
| Nightly consolidation (`consolidation/`) | scopes to visit, calls spent, episodes skipped and deferred (in memory); `uncited_count`, marker memories (in the file) | runConsolidation, processScope, ConsolidationJob | takes only what it read; spends at most its budget; ends; the backlog drains; noise is earned |
| Salience and Hebbian index (`memory/salience.ts`, `memory/reinforce.ts`, `store/connectome.ts`) | salience and its checkpoint, `use_count`, `co_use`, `meta.usage_turns` | reinforce, decay, recall's touch, seeding at open | counts stay in step; each interval decays once |
| Vectors (`embeddings/`) | `memory_embeddings`, `layer_embeddings` | backfill, embedLayerItem, edit, mem_update, triggers | a vector describes the present text of a live row; every layer gets its share |
| Recall (`recall/`) | none of its own | lexical and hybrid search, rescue, fusion | no embedder means the lexical answer; the rescue reaches what only it can |
| Traits (`memory/crystallize.ts`) | `traits` | crystallize, rename, forgetTrait | strength is evidence given to that row |
| Viewer actions (`http/viewer/actions.ts`) | confirmation tokens | edit, unconsolidate, crystallize, forget in two requests | a token is spent once, on what it was issued for, and no more is lost than was told |
| Obsidian export (`export/`) | notes and manifest on disk | exportObsidian, writeVault | the vault mirrors the store; a foreign note is never touched; links resolve |
| Hooks (`hooks/`, `inject-cli.ts`, `used-cli.ts`) | cached readiness, the transcript | serverReady, inject, used | no answer older than its terms; only what the turn used is reinforced; nothing is injected twice |
| MCP server (`server-core.ts`, `mcp/`) | none of its own | one operation per tool or alias | an error stored nothing; a retry adds nothing |
| HTTP server (`server-http.ts`, `http/`) | failed sign-ins, signed cookies | checks, sign-in, sign-out | who may come in, and who may not, ends when it should |
| Importers (`ingest/`) | none of their own | capture chunk by chunk, migrate | importing again adds nothing |
| Queries (`queries/`) | none | graph, lists, export rows, views | statements of one answer agree enough to be drawn |
| Viewer page (`ui/src`) | selection, cached answers, picks, open dialogs | the components of the page | an answer acts on what it is about |

How they interact: the tools, the viewer, the importers and the nightly run call the same
functions of `memory/`; all of them share the tables and nothing else. The nightly run and
`editMemory` end in a backfill of vectors. Deleting a memory reaches its episodes
(`ON DELETE SET NULL`), its pairs and its vector (`ON DELETE CASCADE`); consolidating an episode
reaches its vector (trigger). The hooks reach the server over HTTP, share one cache file and
read the transcript of the client; the export reads the store and shares the vault with the
person. The hard behaviours are listed one by one, each at its line and with the properties that
would catch it, under `hazards` in `PROJECT.json`.

## 2. The modules

```
EpisodeLife    what is promised about one episode (abstract)
   ^ implemented by
MemStore       the shared store                   <- MemStoreProofs      <- MCMemStore
   ^ extended by, and shown to be a refinement
SleepCycle     the nightly run on that store      <- SleepProofs         <- MCSleepCycle
   ^ extended by, with a history variable
StrikeHistory  what each run has struck           <- SleepProofs         <- MCNights, and \  MCPasses
Vault          the export to Obsidian             <- VaultProofs                          /

VectorIndex    vectors and backfill               <- VectorProofs        <- MCVectorIndex

HebbianIndex   counts and checkpoints             <- HebbianProofs       \  (also MCHebbianIndex)
Readiness      the hooks' cache of a server       <- HookProofs           |
HookTurn       the hooks around a turn            <- HookProofs           | MCProcesses
Retrieval      recall over records that change    <- HookProofs           |
WriteRaces     look first, write after            <- WritersProofs        | (also MCWriters)
Dispatch       tool calls, lost answers, retries  <- WritersProofs       /

RunDialog      "Consolidate now"                                         \  (also MCDialog)
Desk           forgetting from the viewer         <- ViewerProofs         |
Paging         lists read page by page            <- ViewerProofs         | MCViewer
Atlas          the graph and its filters          <- ViewerProofs         |
Door           checks, sign-in, sessions          <- ViewerProofs         |
Picking        picks, search box, dialog of trait <- ViewerProofs        /
```

**MemStore** has a row's columns as functions of its id: `place[e]` is `consolidated_into`, or
`"pending"`, or no row yet or any more; `mem`, `memScope`, `memAt`, `sources` are the columns of
`memories`. Each write of `memory/` is one action with the write's own conditions: `Capture`,
`Consolidate` (its `UPDATE` takes only pending rows of the scope, `Taken`; zero rows throw and
roll back), `Strike`, `Unconsolidate`, `ForgetMemory`. `forget` is two actions because it is two
steps in the code: `ForgetRead` fixes the clock and selects `Victims`, `ForgetCommit` is the
transaction, and anything may happen between them. `SetNull` is the foreign key. `faded`
abstracts salience to the side of the cutoff it is on. Bodies and gists are left out.

**EpisodeLife** is the promise: an episode is born pending, moves between pending and held in
groups, and can be erased only from held. `MemStore` implements it under the mapping `lifeOf`.

**SleepCycle** adds one record per process that may be running a consolidation. Its `pc` says
which statement comes next: select a batch, write a marker for the Pareto noise, lower its
salience, call the LLM, write each memory and then its salience, strike what was not cited,
mark as noise what has all its strikes, decide whether to go on. What a run computes between
two statements belongs to the first. The LLM's answer is any list of up to two memories citing
any episodes, cut, malformed, an error or a fatal one; `Poison` are the episodes that always get
a cut or malformed answer. `Crash` forgets the record, `Tool` is what a user may do to the
store meanwhile, `Arrive` captures and lets time pass. `classify()` of `pareto.ts` is the constant
`ParetoNoise`, and `fitPrompt` admits `PromptFit` episodes, at least one.

**StrikeHistory** adds what the code does not keep: `struck[r]`, the episodes a run has struck
since it started, less those a user gave back by undoing the memory that held them. No guard
reads it; it exists so that "struck once at most by one run" can be said of a run and not of its
lists, which lose an episode that goes to the noise marker. `HistSpec` is `SleepSpec` with the
record, `HistNightSpec` the undisturbed nights (`NightSpec`) with it.

**HebbianIndex** has the use counts, the pairs, the turn counter and, for every memory, `mark`
(`salience_updated_at`) and `aged`: the days of decay its stored salience stands for. A process
opens the file (three statements of `seedTurnsFromUse`, no transaction), then reinforces (read
the ids, boost, `recordUse`), recalls or forgets with an `at` fixed earlier, creates, deletes and
dies. Only which interval was decayed matters here, so boosts are left out.

**VectorIndex** numbers the versions of each text; a vector is the version it was computed from,
which is what the fingerprint column records. `Backfill` selects the rows of a bounded pass with
the shares of `embedPendingMemories` and `embedLayerRowsResolved`, `Embed` is one batch with any
subset of valid vectors in the answer, `Save` is one `INSERT OR REPLACE`, checked for layers and
not for memories; two failed batches in a row end a table; a memory deleted meanwhile ends the
pass by its foreign key. `EmbedWritten` is the vector of a fresh row with its deadline.

**Vault** is `mismem-obsidian`. An export reads memories, traits and the episodes behind them in
three statements (`ReadMemories`, `ReadTraits`, `ReadEpisodes`), reads the manifest and plans
(`ExportPlan`), writes one note at a time, removes one stale note at a time, writes the
manifest. Several exports run, of the whole store or of one scope; between any two steps another
process writes the store, the person creates, deletes and replaces files, a folder becomes a
symlink, a process dies. A note is the id its frontmatter declares, a path the row and the title
in its file name, and two scopes may sanitise to the same name (`Colliding`). The manifest may be
missing, unreadable or of the old format. Titles are short enough never to be cut.

**Readiness** is `hooks/readiness.ts`: reading the cache file, probing the server and writing the
file back are separate steps of any number of hooks, while servers are deployed, rolled back and
stopped. `lastGood` and `lastBad` are history.

**WriteRaces** has what looks first and writes after: `capture` (the SELECT by hash, then the
INSERT), an import that captures text after text, `migrate-engram` (whose row has no hash, so
that `capture` does not find it), the hash `openDb` gives to such rows, deletions of any rows of a
text, and `crystallize` (the SELECT by name, then the UPDATE or the INSERT), against renames and
deletions. `earned` records what was given to each row of `traits`.

**HookTurn** has a transcript of the client (external) and the two hooks around a turn: what
`mismem-inject` may show (`MayTravel`: the private scopes and what is already in the context;
`Select`: the budget) and the turn `mismem-used` credits (`OpensTurn` and the words an answer
shares with a memory). Of what the model recalled only the hits of layer memory count
(`Recalled`); of what the hook injected, memories and traits, and each by the first line of its
text (`firstLine`), which is what reading the injection back line by line returns (`Injected`). A
text is the set of its distinctive words, a prompt's budget a number of rows.

**Retrieval** is `recall` and `recallHybrid` as operators over a corpus other processes change
between two calls: the strict query, the rescue with its forms, its rare terms and the gate of
presence, the semantic search, the quotas of the layers, the fusion by rank. A text is the set of
its words; two words of `SameStem` are forms of one another; a cosine is a percentage. A list is
the place of each of its records: what orders it is a key of integers for each record, compared
from the left as the chain of `||` in the code's `sort` is, and a record's place is one more than
the number of records with a smaller key. `answer` keeps what it was computed from, and what
`recall()` would have said at that moment.

**Dispatch** is `tools/call`: each tool or alias comes down to one of seven operations, split at
its awaits, answered, lost and sent again. `by` records which call wrote a row; `calm`, that no
consolidation was undone while the call was around.

**RunDialog** is `ConsolidationJob` and the dialog that polls it, with requests and answers that
travel on their own and fail; **Desk** is the detail of a record with its two-step forget, the
tokens of the server (`issued`, `pending`) and what the two told one another; **Paging** is a
list whose pages are read by offset while rows move, come and go: the page is kept as fetched,
and the rows it shows, merged by id, are a set (`Merged`), since nothing depends on their order;
**Atlas** is `graphData` statement by statement, the turns read before the edges to divide by
(`ReadDivisor`) and again after them for the panel (`ReadTurns`) included, and `filterGraph` after
it; a strength is the branch that computes it (`Share`); **Door** is the order of the checks of
`server-http.ts` and `routes.ts`, the form of `login.ts` and the cookie of `session.ts`, with
restarts that change the password or the length of a session (`failed` is the history of failed
sign-ins, `failures` the ones of it that `LoginAttempts` still holds); **Picking** is the state of
`App.tsx`: tab, box, picks and the dialog of a trait.

## 3. What the runs check

| Run | Shows | Bounds |
|---|---|---|
| `mem_store` | `LinkIntegrity`, `VictimsStayOld`, `OwnershipSettled`, `ForgetSparesRecent`, `ForgetNeverRequeues`, `ReleasedWithoutStrikes`, and `LifeSpec`: refinement of `EpisodeLife` | 2 episodes, 2 memories, 2 scopes, 1 forget, 3 instants |
| `passes` | nights: `CallBudget`, `OneStrikePerRun`, `TakesOnlyWhatItRead`, `TakesOnlyAged`, with crashes and users | 3 episodes (one Pareto noise), 2 memories, 1 run of 2 calls |
| | Vault: `VaultMirrorsStore`, `NotesStayNamed`, `OtherScopesKept`, `LinksResolve` | 1 memory, 1 trait whose evidence it is, 2 scopes of one file name, 2 titles, 2 exports, 1 change |
| `sleep_nights` | `PoisonNeverNoise`, `NoiseEarned`, `RunsEnd`, `BacklogDrains` | 2 episodes, the first one poison; 2 concurrent runs of 4 calls |
| `vectors` | `LayerVectorsCurrent`, `MemoryVectorsOwned`, `EpisodesIndexed` | 11 rows, passes of 7 in batches of 2, 2 edits of a text |
| `processes` | HebbianIndex: `PairsWithinUse`, `UseWithinTurns`, `NoCountOfTheDead`, `NoIntervalEscapes` | 2 memories, 2 processes, 3 turns, 2 instants, legacy counts up to 1 |
| | Readiness: `AnswersAreFresh` | 1 server, 2 hooks, times to live of 3 and 2 ticks, 5 instants, 2 deploys |
| | WriteRaces: `StrengthIsEarned` | 2 writers, 1 text that a migration holds too, 2 names, 2 trait ids |
| | HookTurn: `CreditsTheTurn`, `InjectedOnce` | 1 memory, 1 trait, 1 word, transcripts of 3 lines |
| | Retrieval: `DegradesToLexical`, `RescueReaches` | 2 memories, 1 episode, 4 words (two of one stem), queries of up to 4 words with 2 terms for the strict cap and 3 for the gate |
| | Dispatch: `RetriesAreSafe` | 2 callers, 2 sends each, 1 text, 2 names, 1 write of others |
| `viewer` | RunDialog: `SeesTheEnd` | 2 runs, 1 line of log |
| | Desk: `DeletesAreConfirmed` | 1 memory, 1 trait, 2 tokens, 3 mounts, 2 calls at once |
| | Paging: `NothingLostSilently` | 3 rows, pages of 1, 2 writes of others |
| | Atlas: `DrawnAsMeasured` | 2 memories, 1 trait, 1 episode, up to 2 turns, 1 write |
| | Door: `TheDoorOpensAgain` | 2 credentials, sessions of 1 or 2 hours, 2 attempts, 3 instants, 1 restart |
| | Picking: `DialogWasAsked` | 2 memories of 2 scopes, 2 dialogs |

Six more runs each check one statement of the repository's own documentation, comments or tests
and end in a counterexample:

| Run | The statement | What happens |
|---|---|---|
| `sleep_starved` | `consolidation/README.md:38`, a large backlog drains in several nights | halving a poisoned batch uses up `maxCalls` before the poison is isolated; the next night does the same |
| `sleep_crashed` | `consolidation/README.md:43-44`, a marker has salience 0.05 and `forget` deletes it | the salience is a second statement; a crash before it leaves a marker at 1.0 for ever |
| `hebbian_stale_at` | `tests/salience.test.ts:86`, no interval decays twice | a recall that awaited writes its earlier `at` over a later checkpoint |
| `vector_stale` | `memory/edit.ts:38-39`, a memory is not found by what it used to say | the backfill saves a memory's vector without looking at its text again |
| `texts_once` | `docs/architecture.md:49`, `memory/capture.ts:11`, identical text is not duplicated in its scope | two processes both look it up before either inserts it; there is no UNIQUE index to stop the second |
| `lists_catch_up` | `components/Consolidate.tsx:59`, when the run finished the lists are read again | a dialog closed and opened while the run goes on forgets that it was running and keeps the cached job; if the next answer says it ended, nothing is read again |

**Side by side.** `MCPasses`, `MCProcesses` and `MCViewer` hold two, six and six modules, which
share no variable. A constant variable `part`, chosen at the start, says which one moves, and the
others keep one initial state: the reachable states add up instead of multiplying, and every
behaviour of every module within the bounds is still there. A property of one module holds in the
others' parts because nothing it speaks of moves there. Two more initial states are left out: the
trait of `passes` always cites the memory (without it there is no link to break), and the graph of
`viewer` starts with a turn still to come.

**Why these bounds.** Every violation a mutant of the code causes (at least one for each property,
in `PROJECT.json`) shows within them. Two scopes are needed only for the scope clauses, two
episodes for a group that splits, one `forget` because its window is against writers and not
against another `forget`. In `passes` three episodes make a batch that is halved and leaves
one behind; in `sleep_nights` two runs interleave at every statement on a queue whose head is
poison. Two processes and two memories give one pair and the race of two seeds. In `vectors` the
rows the embedder rejects exceed the share of a pass both for memories and for traits, the case
the reserves exist for. Two exports overlap or follow one another, and two scopes of one file name
are the least that collides. Two hooks are one that decides on what the other wrote late. A trait
next to a memory is a hit the credit must tell apart; episodes of a turn are left to the proof. In
Retrieval the caps are lowered to 2 and 3 so that a query of 4 words is beyond both. Three mounts
of a detail are a record, another one and the first again, with the answers of both before. Pages
of one row make every move cross a page.

**Deadlock.** `mem_store` checks it. In the other passing runs the bounded clock, ids, exports
or dialogs run out and an idle system is a legitimate end, so it is switched off there; that runs
of consolidation do end is `RunsEnd`, and that the page comes to know is `SeesTheEnd`.

**Fairness.** Safety runs assume none. `NightSpec` is a machine that stays up and a queue no user
edits: cron starts a run every night (weak fairness of `Start`), a process that runs goes on
(weak fairness of its next step; an `await` always ends because `distill` has a timeout), and a
provider asked for ever about readable episodes does not answer with failures and inventions for
ever (strong fairness of `UsefulAnswer`). It excludes crashes and the buttons: with a crash
every night, or a user who undoes every memory, no backlog drains. In `VectorIndex` the nightly
backfill starts again whatever the writes do (strong fairness), each pass goes on, and an embedder
asked for ever for a row it can embed does not miss it for ever (strong fairness of `Answered`).
Rows of `Poison` are never embedded. `DialogFairness` has the interval tick while the dialog polls,
the server answer what reached it, the answer arrive, and a run of consolidation end (`RunsEnd`);
the person owes nothing, and an answer may always fail instead of arriving.

## 4. What is proved

Theorems are in the eight `*Proofs` modules, checked by TLAPS, for every value of the constants
that meets the assumption of the module. Every safety invariant and every action property a run
checks is among them. The assumptions, which TLC also evaluates:

| Assumption | Says |
|---|---|
| `StoreAssumption` | memories' ids are not the other values of the column, `Every` is no scope, there is a scope, ages and graces are days |
| `SleepAssumption` | episodes are numbered, episodes and scopes are finitely many, limits are positive, the LLM's moods are the ones the code tells apart |
| `HebbianAssumption` | the bounds are naturals |
| `VectorAssumption` | rows are numbered, no row is in two layers, a pass and a batch hold something |
| `ReadinessAssumption` | a "not ready" lives shorter than a "ready" |
| `WritersAssumption` | writers are finitely many |
| `DispatchAssumption` | "others" is no caller, there is a name for a call |
| `RecallAssumption` | records and words are finitely many; the rescue searches two terms at least, its gate counts as many, its bar is a percentage, and it returns something (12, 64, 30 %, 3 in the code) |
| `VaultAssumption` | rows, scopes and `NoId` are told apart, there is a title, and no title is a name of the other kinds of note |
| `DeskAssumption` | "nothing" is no row |
| `DoorAssumption` | hours, window and attempts are naturals |
| `PagingAssumption` | rows are finitely many, a page holds a number of them |

* **MemStoreProofs.** `TypeCorrect`, `LinkIntegrityHolds`, `VictimsStayOldHolds`,
  `OwnershipSettledHolds`, `ForgetSparesRecentHolds`, `ForgetNeverRequeuesHolds`,
  `ReleasedWithoutStrikesHolds`, and `ImplementsLife`, the refinement. The inductive invariant
  joins the types, the links and the victims: that a victim still has only old episodes needs
  that an episode enters a memory only in the transaction that creates it, which needs that no
  link points at a memory not yet born. The action properties follow from it step by step.
* **SleepProofs.** `NightsAreStoreBehaviours`, `SleepSpec => Spec`: each step of a night is a step
  of the store or none, so what is proved of the store holds of the nights, and `NightsKeepLife`
  carries the refinement of `EpisodeLife` over. `CallBudgetHolds`, `TakesOnlyWhatItReadHolds`,
  `TakesOnlyAgedHolds` need more: the invariant of the store together
  with `RunsInv`, which says where a run may stand (`WellPlaced`: what its `pc` implies of its
  batch, its answer and its memory) and that what it holds was captured before its cutoff
  (`Aged`: the rows it read may have gone or moved since, but an episode's date never changes).
  `OneStrikePerRunHolds` is about `HistSpec`, the nights with their record, and needs `Remembered`:
  what a run has struck and nobody gave back is out of its next batch, because it is either set
  aside (`deferred`, `skipped`) or in a memory and then not pending. It is not true without the exception: a
  user who undoes a noise marker while the run goes on makes its episodes pending with no strikes,
  and the same run may read and strike them again.
  `PoisonNeverNoiseHolds` adds `PoisonInv`: a prompt with such an episode is never answered, so no
  batch that is written or struck holds one (`Clean`), and a marker's id is never given to a second
  memory (`MarkersBorn`). `NoiseEarnedHolds` is about `NightSpec`, where strikes are only added
  (`StrikesAdd`): under `SleepSpec` a user may undo a memory between the strikes and the marker of
  another run, which forgives strikes already counted.
* **HebbianProofs.** `TypeCorrect`, `PairsWithinUseHolds`, `UseWithinTurnsHolds`,
  `NoCountOfTheDeadHolds`, `NoIntervalEscapesHolds`. `UseWithinTurns` is not inductive: it says
  nothing of a process half-way through opening. `CounterBounds` (a counter that exists bounds
  every use) and `SeedBounds` (while it does not, the bound a process has read still bounds every
  use, because nobody counts a use without creating the counter) make it so.
* **VectorProofs.** `LayerVectorsCurrentHolds` and `MemoryVectorsOwnedHolds`. The invariant adds
  `SeenWithin`: the versions a worker read are versions its rows have had. The rows themselves
  are not in it, because a save checks its row again whatever the scan had selected.
* **VaultProofs.** `NotesStayNamedHolds`, `VaultMirrorsStoreHolds`, `OtherScopesKeptHolds` and
  `LinksResolveHolds`. While an export runs, the manifest on disk is out of date, so
  `NotesStayNamed` is not inductive. `Trail` says what replaces it: until two exports overlap or
  one dies (`torn`), one export at a time is under way, and every note of ours on disk is named by
  the entries that export follows (`Followed`): its notes already written, the previous entries at
  the paths it has still to write, those it keeps and those it may still remove. `Calm` is about
  an export nothing interferes with (`quiet`): it runs alone and what it wrote is there.
  `VaultTypes` adds that an entry belongs to the scope of its row (`OfItsRow`), which is why a
  scoped export that spares the other scopes' entries spares their notes.
* **HookProofs.** `AnswersAreFreshHolds`. A decision rests on the file and the file on a probe
  some other hook made, so the invariant `ReadyInv` carries the word of the server along that way:
  `HistoryInv` for the server itself, `HookInv` for a hook that heard it and has not written yet,
  `CacheInv` for the file. `InjectedOnceHolds` and `CreditsTheTurnHolds` rest on `TurnKept`: since
  the last line that opens a turn, the transcript holds exactly what the turn has shown and said,
  for transcripts of any length and for episodes among the hits, which the run leaves out.
  `CreditsTheTurn` says what the code does of each kind: a trait the model recalled is never
  credited, one the hook injected is, and an injected text counts by its first line. `DegradesToLexicalHolds` shows the hybrid answer without a vector
  to be `recall()`'s, operator by operator. `RescueReachesHolds` follows the plan of the rescue: the
  first terms of a question of several words are two or more (`TermFacts`, by counting), they are
  all present, so the gate opens; a word of one memory only is informative; the bar is cleared,
  and as no other memory clears it the cap cuts nothing; the quotas and the fusion leave no memory
  out (`MemoriesStay`).
* **WritersProofs.** `SoleWriterStoresOnce`: `TextsStoredOnce`, which `texts_once` refutes, holds
  when there is one writer and nothing migrated, through every crash and restart between the SELECT
  and the INSERT. It rests on `CopyInv`: the rows of a text that were captured and the writers about
  to insert one are together never more than the writers. Neither assumption can be dropped: a
  migrated row without its hash and one capture of the same text are two rows. `StrengthIsEarnedHolds` rests on
  `UpdateInv`: a writer about to update holds a strength its row has earned.
  `RetriesAreSafeHolds`: two different facts stop the second row. A capture is
  stopped by the text it would repeat (`BodiesUnique`, `EpisodesExplained`: the row a call left is
  the one with its body); a consolidate by its episodes (`MemoriesExplained`: while its memory is
  there none of them is pending, unless somebody undid a consolidation).
* **ViewerProofs.** `DeletesAreConfirmedHolds`. `CallsMatch` ties each request and answer that
  travels to the token it carries, `TokenMatches` the dialog to the record it is about, and
  `ToldEnough` every token to the present rows: no write adds an episode to a memory that exists
  (`OwnershipSettled` of the store), so what was told is never less than what is lost.
  `DialogWasAskedHolds` is inductive with the type of the form alone, because the dialog is modal
  (`BehindIsShut`). `TheDoorOpensAgainHolds` rests on `CookieMatches`, which ties the end that is
  signed to the hour it was issued, and on the failures held being failures that happened.
  `DrawnAsMeasuredHolds`: each statement of an answer adds links between nodes it has
  (`BodyRecords`), counts no turn twice (`CountsCovered`), and the turns it divides by, the edges
  and the sample shown beside them differ by the turns of the others meanwhile and nothing else. `NothingLostSilentlyHolds` rests on
  `Snapshot`: while no delete and no move within one request disturbed it, the total of a list
  counted a layer that held every row of the list and every row there since its first page. The
  inserts, removals and moves of a sequence have lemmas of their own.

Only model-checked: liveness (`RunsEnd`, `BacklogDrains`, `EpisodesIndexed`, `SeesTheEnd`), which
needs fairness and is out of the prover's reach; `RunDialog` has no other property. The type
invariants of the proved modules are part of their inductive invariants and are not run again.
No theorem speaks of the value of `Weight`, a fold over a set of words: that is induction over
data, and what is proved of the rescue holds in whatever order it puts what it found.

## 5. What is not modelled, and why

Whole components: the Pareto score (`consolidation/pareto.ts`, word lists over a text), the
embedding providers and vector arithmetic (HTTP and floating point; what they may answer is a
choice of the models), evaluation and benchmarks (offline, no state).

What the models leave out:

* Nights: a dry run, the prompt's wording and its budget in characters, the log and the summary.
  `SleepSpec` has no pass of `forget`; `mem_store` has them, and the refinement covers the rest.
* Hebbian index: boosts and the real value of a salience, NPMI as a number.
* Recall: filler and stop words, words dropped as too common, BM25 as a number (a rank is any
  order the model fixes), the caller's limit, and the islands of topics.
* Vault: the text of a note; titles too long for a file name; one title for each row at the
  start. Three behaviours of the code are in the model and excluded by the properties: notes
  behind a folder turned into a symlink drop out of the manifest, entries of the old manifest
  format that cannot be proved ours are dropped, and an export that crashed leaves notes no
  manifest names (or half a manifest: its write is not atomic).
* Hooks: HTTP, the layout of what is injected, the time budget of a search; a line of a text that
  looks like a line of an injection (it would be read back as one of its own); a text edited
  between the injection and the end of the turn.
* Dispatch: schemas, formats, scopes, and what `crystallize` and `reinforce` count: a retry of
  theirs counts twice. A read is one step where the code uses several SELECTs.
* Paging: `NothingLostSilently` leaves out the lists that met a delete, or any write between the
  count and the rows of one page, which paging by offset cannot see (`blind`).
* Atlas: the value of a strength, and the halos: `hubs()` reads the edges and the turns once more.
* Page: a late answer of one trait's dialog closes another and drops its picks (`TraitDone`): it is
  in the model, no doc promises otherwise and no property excludes it. Left out: the edit form, drawing, themes, shortcuts. HTTP server: static files, the MCP transport.
* Importers: file formats. Store: the FTS triggers and most migrations of an old file.
* All processes share one clock. SQLite itself is trusted: a busy database is an operation that
  does not happen, WAL recovery works.

## 6. What would come next

1. Pure algorithms as functions against a reference definition: `fitPrompt` and `truncateEpisode`,
   the score of `pareto.ts`, the islands of `queries/topics.ts`.
2. A safety property of `RunDialog` worth a proof: what its dialog shows of a run was true of that
   run, whatever the order of the answers; and `LayerVectorsCurrent` for memories, should
   `backfill` come to check them.
3. A store that is restored, or opened by an older version of the code, while others hold it.
