------------------------------ MODULE WriteRaces ------------------------------
(***************************************************************************)
(* The writes that look first and write after, outside a transaction:      *)
(* `capture` (a SELECT by content hash, then an INSERT), the importers that *)
(* call it for every chunk of their files, the hash that openDb gives to    *)
(* rows without one, and `crystallize` (a SELECT by name, then an UPDATE    *)
(* or an INSERT).  Several processes hold the file: the server, the         *)
(* importers, a migration from Engram.                                      *)
(*                                                                          *)
(* A text in its scope is one key; an id is drawn once.  Bodies, polarity   *)
(* and dates are left out, and evidence is the number of ids it adds.       *)
(***************************************************************************)
EXTENDS Integers, FiniteSets

CONSTANTS
    Texts,       \* (scope, body) pairs
    Migrated,    \* those an Engram database holds too
    TraitNames,  \* (scope, name) pairs
    TraitIds,    \* ids of rows of `traits`, used once
    Writers,     \* processes
    MaxEvidence, \* bound on the ids one crystallize adds
    MaxEarned    \* bound on what is added to one trait

ASSUME WritersAssumption ==
    /\ IsFiniteSet(Writers) /\ Migrated \subseteq Texts
    /\ MaxEvidence \in Nat /\ MaxEarned \in Nat

VARIABLES
    copies,   \* copies[x]: rows of text x that capture inserted
    migrated, \* migrated[x]: the row migrateEngram inserts: "no", "bare" of hash, "hashed"
    trait,    \* trait[i]: [name, strength] of a live row, Unborn or Dropped
    earned,   \* earned[i]: evidence given to row i under its name (history)
    writer    \* writer[w]: what a process has read and is about to write

raceVars == <<copies, migrated, trait, earned, writer>>

Unborn  == [state |-> "unborn",  name |-> "none", strength |-> 0]
Dropped == [state |-> "dropped", name |-> "none", strength |-> 0]
Row(n, k) == [state |-> "live", name |-> n, strength |-> k]
LiveTrait(i) == trait[i].state = "live"
Taken(n) == \E i \in TraitIds : LiveTrait(i) /\ trait[i].name = n

Resting == [phase |-> "rest", todo |-> {}]

RaceInit ==
    /\ copies = [x \in Texts |-> 0]
    /\ migrated = [x \in Texts |-> "no"]
    /\ trait = [i \in TraitIds |-> Unborn]
    /\ earned = [i \in TraitIds |-> 0]
    /\ writer = [w \in Writers |-> Resting]

------------------------------------------------------------------------------
(* capture, for one text of those a process is asked to store.             *)

(* The SELECT compares content_hash: a row without one is not found.       *)
Found(x) == copies[x] > 0 \/ migrated[x] = "hashed"

(* A tool call or an importer (walkAndIngest, ingestChatGPTExport,         *)
(* ingestVSCodePrompts...): the texts of its files, one after another.     *)
Ingest(w, S) ==
    /\ writer[w] = Resting
    /\ writer' = [writer EXCEPT ![w] = [phase |-> "ingest", todo |-> S]]
    /\ UNCHANGED <<copies, migrated, trait, earned>>

LookUp(w, x) ==
    /\ writer[w].phase = "ingest" /\ x \in writer[w].todo
    /\ writer' = [writer EXCEPT ![w] =
          IF Found(x) THEN [writer[w] EXCEPT !.todo = @ \ {x}]
          ELSE [phase |-> "insert", todo |-> writer[w].todo, text |-> x]]
    /\ UNCHANGED <<copies, migrated, trait, earned>>

Insert(w) ==
    /\ writer[w].phase = "insert"
    /\ copies' = [copies EXCEPT ![writer[w].text] = @ + 1]
    /\ writer' = [writer EXCEPT ![w] =
          [phase |-> "ingest", todo |-> writer[w].todo \ {writer[w].text}]]
    /\ UNCHANGED <<migrated, trait, earned>>

(* The end of the work, an error or a crash: a later Ingest starts anew.   *)
Rest(w) ==
    /\ writer[w] # Resting
    /\ writer' = [writer EXCEPT ![w] = Resting]
    /\ UNCHANGED <<copies, migrated, trait, earned>>

(* migrateEngram: one transaction of INSERT OR IGNORE by a fixed id, with  *)
(* no hash; openDb, in any process, hashes the rows that have none.        *)
Migrate(S) ==
    /\ migrated' = [x \in Texts |-> IF x \in S /\ migrated[x] = "no" THEN "bare" ELSE migrated[x]]
    /\ migrated' # migrated
    /\ UNCHANGED <<copies, trait, earned, writer>>

HashBare ==
    /\ migrated' = [x \in Texts |-> IF migrated[x] = "bare" THEN "hashed" ELSE migrated[x]]
    /\ migrated' # migrated
    /\ UNCHANGED <<copies, trait, earned, writer>>

(* forget and the viewer delete rows by id: n of those capture inserted,   *)
(* the migrated one (old), or both.                                        *)
DeleteRows(x, n, old) ==
    /\ n \in 0..copies[x] /\ (n > 0 \/ old) /\ (old => migrated[x] # "no")
    /\ copies' = [copies EXCEPT ![x] = @ - n]
    /\ migrated' = [migrated EXCEPT ![x] = IF old THEN "no" ELSE @]
    /\ UNCHANGED <<trait, earned, writer>>

------------------------------------------------------------------------------
(* crystallize.                                                            *)

NamedRows(n) == {i \in TraitIds : LiveTrait(i) /\ trait[i].name = n}

(* Mutant: the SELECT by name without its scope.                           *)
AnyRow(n) == {i \in TraitIds : LiveTrait(i)}

(* The row the SELECT finds, UNIQUE(scope, name) allowing one at most.     *)
SelectedRows(n) == NamedRows(n)

Crystallize(w, n, k) ==
    /\ writer[w] = Resting
    /\ \/ SelectedRows(n) = {}
          /\ writer' = [writer EXCEPT ![w] =
                [phase |-> "new", todo |-> {}, name |-> n, add |-> k]]
       \/ \E i \in SelectedRows(n) :
             writer' = [writer EXCEPT ![w] = [phase |-> "old", todo |-> {}, name |-> n,
                add |-> k, row |-> i, strength |-> trait[i].strength + k,
                due |-> IF trait[i].name = n THEN k ELSE 0]]
    /\ UNCHANGED <<copies, migrated, trait, earned>>

(* UPDATE ... WHERE id = ?: a row deleted meanwhile is no error.           *)
UpdateTrait(w) ==
    /\ writer[w].phase = "old"
    /\ LET i == writer[w].row IN
       IF LiveTrait(i)
       THEN /\ earned[i] + writer[w].due <= MaxEarned
            /\ trait' = [trait EXCEPT ![i].strength = writer[w].strength]
            /\ earned' = [earned EXCEPT ![i] = @ + writer[w].due]
       ELSE UNCHANGED <<trait, earned>>
    /\ writer' = [writer EXCEPT ![w] = Resting]
    /\ UNCHANGED <<copies, migrated>>

(* INSERT: throws on UNIQUE when another process inserted the name first.  *)
InsertTrait(w, i) ==
    /\ writer[w].phase = "new" /\ trait[i] = Unborn
    /\ IF Taken(writer[w].name) THEN UNCHANGED <<trait, earned>>
       ELSE /\ trait' = [trait EXCEPT ![i] = Row(writer[w].name, writer[w].add)]
            /\ earned' = [earned EXCEPT ![i] = writer[w].add]
    /\ writer' = [writer EXCEPT ![w] = Resting]
    /\ UNCHANGED <<copies, migrated>>

(* mem_update of a trait: the rename throws when the name is taken.        *)
Rename(i, n) ==
    /\ LiveTrait(i) /\ ~Taken(n)
    /\ trait' = [trait EXCEPT ![i].name = n]
    /\ UNCHANGED <<copies, migrated, earned, writer>>

ForgetTrait(i) ==
    /\ LiveTrait(i)
    /\ trait' = [trait EXCEPT ![i] = Dropped]
    /\ UNCHANGED <<copies, migrated, earned, writer>>

RaceNext ==
    \/ \E w \in Writers :
          \/ \E S \in SUBSET Texts : Ingest(w, S)
          \/ \E x \in writer[w].todo : LookUp(w, x)
          \/ Insert(w) \/ Rest(w) \/ UpdateTrait(w)
          \/ \E n \in TraitNames, k \in 1..MaxEvidence : Crystallize(w, n, k)
          \/ \E i \in TraitIds : InsertTrait(w, i)
    \/ \E S \in SUBSET Migrated : Migrate(S)
    \/ HashBare
    \/ \E x \in Texts, old \in BOOLEAN : \E n \in 0..copies[x] : DeleteRows(x, n, old)
    \/ \E i \in TraitIds : ForgetTrait(i) \/ \E n \in TraitNames : Rename(i, n)

RaceSpec == RaceInit /\ [][RaceNext]_raceVars

------------------------------------------------------------------------------
RowsOf(x) == copies[x] + (IF migrated[x] = "no" THEN 0 ELSE 1)

(* A text is stored once in its scope (docs/architecture.md:49: "Lo        *)
(* idéntico en el mismo `scope` no se duplica"; memory/capture.ts:11:      *)
(* "re-ingesting is idempotent").  The code keeps it for one process that  *)
(* migrates nothing, crashed and restarted at will; two that look a text   *)
(* up before either inserts it store it twice, and so does one that        *)
(* captures a migrated text before openDb hashes its row.                  *)
TextsStoredOnce == \A x \in Texts : RowsOf(x) <= 1

(* The strength of a trait never exceeds the evidence that was given to    *)
(* that very row: no interleaving of crystallize with a rename, a deletion *)
(* or another crystallize moves or counts evidence twice.  It may be less: *)
(* two crystallize at once lose one of the two.                            *)
StrengthIsEarned == \A i \in TraitIds : LiveTrait(i) => trait[i].strength <= earned[i]

===============================================================================
