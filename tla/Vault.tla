-------------------------------- MODULE Vault --------------------------------
(***************************************************************************)
(* mismem-obsidian: the store written as notes under <vault>/misMEM/. An   *)
(* export reads its memories, its traits, their episodes, every scope and  *)
(* the manifest; writes the notes one by one, removes the stale ones it    *)
(* owns one by one, and writes the manifest last. Other processes write    *)
(* the store, the person writes in the vault, a second export runs and a   *)
(* crash comes between any two of those steps.                             *)
(*                                                                         *)
(* A note on disk is the id its frontmatter declares: its text only tells  *)
(* `unchanged` from `written`, which are counts.  A path is the row and    *)
(* the title in its file name.  A dry run changes nothing and is left out. *)
(***************************************************************************)
EXTENDS Integers, FiniteSets

CONSTANTS
    VMemories, VTraits,  \* rows of memories (noise aside) and of traits
    VScopes,
    Colliding,   \* the scopes whose names sanitise to one file name
    Titles,      \* the titles a gist or a name turns into (safeName)
    Exporters,   \* processes of mismem-obsidian
    Whole,       \* the --scope of an export that names none
    Asked,       \* the values of --scope, Whole among them
    MaxExports, MaxChanges   \* bounds: exports, and changes of the store or the vault

VARIABLES
    home,      \* home[i]: the scope of row i, for ever
    cites,     \* cites[t]: evidence_memory_ids of trait t
    title,     \* title[i]: its present title, or NoTitle when there is no row
    disk,      \* disk[p]: what the path holds
    away,      \* the note folders replaced by a symlink out of the root
    manifest,  \* the manifest: its state and its entries
    job,       \* job[x]: an export under way
    torn,      \* a crash, an overlap or the person has cost the manifest entries
    spent      \* how much of the two bounds is used

vaultVars == <<home, cites, title, disk, away, manifest, job, torn, spent>>

Rows == VMemories \cup VTraits
NoTitle == "no row"
NoId == <<"no id">>   \* entries of the old format have none

(* A note tells its kind by its id and by its path.                        *)
ASSUME VaultAssumption ==
    /\ VMemories \cap VTraits = {} /\ Rows \cap VScopes = {} /\ NoId \notin Rows \cup VScopes
    /\ Titles # {} /\ Titles \cap {"episode", "scope", "hashed scope"} = {}

------------------------------------------------------------------------------
(* Paths and what a path holds.                                            *)

NotePath(i, t)  == <<i, t>>            \* memoryPath, traitPath: the id is in the name
EpisodePath(m)  == <<m, "episode">>    \* the episode behind m, with --episodes
EpisodeId(m)    == <<m, "episode id">>
PlainScope(s)   == <<IF s \in Colliding THEN "shared" ELSE s, "scope">>
HashedScope(s)  == <<s, "hashed scope">>

Folder(p) == IF p[2] \in {"scope", "hashed scope"} THEN "scopes" ELSE "rows"

VPaths == {NotePath(i, t) : i \in Rows, t \in Titles}
            \cup {EpisodePath(m) : m \in VMemories}
            \cup {PlainScope(s) : s \in VScopes} \cup {HashedScope(s) : s \in VScopes}

Absent == <<"absent">>
Person == <<"person">>   \* a file whose frontmatter does not declare an id of ours
Symlink == <<"symlink">> \* a link at the path of a note, to nothing of ours
Note(id) == <<"note", id>>

Ours(p) == disk[p][1] = "note"
VEntry(p, id, s) == [path |-> p, id |-> id, scope |-> s]
Unprovable(p) == VEntry(p, NoId, NoId)   \* an entry of the old format
Paths(E) == {e.path : e \in E}

First(E) == CHOOSE e \in E : TRUE

IdleJob == [phase |-> "idle", scope |-> Whole, episodes |-> FALSE, rows |-> {},
            at |-> [i \in Rows |-> NoTitle], backed |-> {}, named |-> {}, files |-> {}, previous |-> {}, write |-> {}, drop |-> {}, quiet |-> FALSE]

VaultInit ==
    /\ home \in [Rows -> VScopes]
    /\ cites \in [VTraits -> SUBSET VMemories]
    /\ title \in [Rows -> {First(Titles), NoTitle}]   \* the id tells two rows of one title apart
    /\ disk = [p \in VPaths |-> Absent]
    /\ away = {}
    /\ manifest = [state |-> "absent", entries |-> {}]
    /\ job = [x \in Exporters |-> IdleJob]
    /\ torn = FALSE
    /\ spent = [exports |-> 0, changes |-> 0]

------------------------------------------------------------------------------
(* What an export would write.                                             *)

Alive == {i \in Rows : title[i] # NoTitle}

(* exportScopes: every scope of the store, whatever --scope says.          *)
ScopesNow == {home[i] : i \in Alive}

(* scopePathResolver: the plain name while one scope has it, else the hash.*)
ScopePath(s, all) ==
    LET namesakes == IF s \in Colliding THEN Colliding ELSE {s} IN
    IF Cardinality(all \cap namesakes) = 1 THEN PlainScope(s) ELSE HashedScope(s)

RowPath(j, i) == NotePath(i, j.at[i])

(* Each memory has episodes, which go free with it.                        *)
EpisodeNotes(j) == IF j.episodes THEN j.backed ELSE {}

(* One note per path: a scope that lost its rows between the two reads may *)
(* leave two scopes with one name, and the later takes the note.           *)
ScopeNotes(scopes, all) ==
    LET path(s) == ScopePath(s, all)
        last(p) == CHOOSE s \in scopes : path(s) = p IN
    {VEntry(p, last(p), last(p)) : p \in {path(s) : s \in scopes}}

Files(j) ==
    {VEntry(RowPath(j, i), i, home[i]) : i \in j.rows}
      \cup {VEntry(EpisodePath(m), EpisodeId(m), home[m]) : m \in EpisodeNotes(j)}
      \cup ScopeNotes({home[i] : i \in j.rows}, j.named)

(* Mutant: evidence linked while the memory exists, in whatever scope.     *)
EvidenceOfAnyScope(j, t) == {RowPath(j, m) : m \in {m \in cites[t] : j.at[m] # NoTitle}}

(* traitNote: evidence outside the export is written as a forgotten memory.*)
EvidenceLinks(j, t) == {RowPath(j, m) : m \in cites[t] \cap j.rows}

(* The wikilinks of the note of entry e.  Any two memories may be similar. *)
Wikilinks(j, e) ==
    LET up == {ScopePath(e.scope, j.named)} IN
    CASE e.id \in VMemories ->
           up \cup {RowPath(j, t) : t \in {t \in VTraits \cap j.rows : e.id \in cites[t]}}
              \cup {RowPath(j, m) : m \in VMemories \cap j.rows}
              \cup {EpisodePath(m) : m \in EpisodeNotes(j) \cap {e.id}}
      [] e.id \in VTraits -> up \cup EvidenceLinks(j, e.id)
      [] e.id \in VScopes -> {RowPath(j, i) : i \in {i \in j.rows : home[i] = e.id}}
      [] OTHER -> {RowPath(j, e.path[1])}

------------------------------------------------------------------------------
(* An export.                                                              *)

Busy(x) == job[x].phase # "idle"
Spend(what, n) == spent[what] < n /\ spent' = [spent EXCEPT ![what] = @ + 1]
Unquiet == [x \in Exporters |-> [job[x] EXCEPT !.quiet = FALSE]]

Extent(s) == {i \in Alive : s = Whole \/ home[i] = s}
TitlesOf(S, at) == [i \in Rows |-> IF i \in S THEN title[i] ELSE at[i]]

(* exportMemories, exportTraits and consolidatedEpisodes, three SELECTs    *)
(* outside a transaction: a row written between them is in the later ones. *)
ReadMemories(x, s, episodes) ==
    LET overlap == \E y \in Exporters : Busy(y) IN
    /\ ~Busy(x) /\ x = First({y \in Exporters : ~Busy(y)})   \* any free process
    /\ Spend("exports", MaxExports)
    /\ job' = [Unquiet EXCEPT ![x] = [IdleJob EXCEPT !.phase = "memories", !.scope = s,
                  !.episodes = episodes, !.rows = VMemories \cap Extent(s),
                  !.at = TitlesOf(VMemories, IdleJob.at), !.quiet = ~overlap]]
    /\ torn' = (torn \/ overlap)
    /\ UNCHANGED <<home, cites, title, disk, away, manifest>>

(* With nothing to export it refuses.                                      *)
ReadTraits(x) ==
    /\ job[x].phase = "memories"
    /\ LET rows == job[x].rows \cup (VTraits \cap Extent(job[x].scope)) IN
       job' = [job EXCEPT ![x] =
                  IF rows = {} THEN IdleJob
                  ELSE [job[x] EXCEPT !.phase = "traits", !.rows = rows,
                                      !.at = TitlesOf(VTraits, job[x].at)]]
    /\ UNCHANGED <<home, cites, title, disk, away, manifest, torn, spent>>

ReadEpisodes(x) ==
    /\ job[x].phase = "traits"
    /\ job' = [job EXCEPT ![x] = [job[x] EXCEPT !.phase = "rows",
                                      !.backed = job[x].rows \cap VMemories \cap Alive]]
    /\ UNCHANGED <<home, cites, title, disk, away, manifest, torn, spent>>

(* Mutants: the entries of every scope are this export's to remove; an     *)
(* export of every scope removes none.                                     *)
WholeManifest(j) == {e \in j.previous : e.path \notin Paths(j.files) /\ e.id # NoId}
OnlyOfAScope(j)  == {e \in WholeManifest(j) : e.scope = j.scope}

(* Entries with an id, not written now, of the scope being exported.       *)
Removable(j) ==
    {e \in j.previous : /\ e.path \notin Paths(j.files) /\ e.id # NoId
                        /\ j.scope = Whole \/ e.scope = j.scope}

(* Mutant: the new manifest replaces the old one.                          *)
NothingKept(j) == {}

Kept(j) == {e \in j.previous : /\ e.path \notin Paths(j.files) /\ e.id # NoId
                               /\ j.scope # Whole /\ e.scope # j.scope}

(* scopePathResolver(exportScopes(db)), then writeVault reads the manifest.*)
ExportPlan(x) ==
    /\ job[x].phase = "rows" /\ manifest.state # "broken"
    /\ LET named == [job[x] EXCEPT !.named = ScopesNow]
           planned == [named EXCEPT !.files = Files(named), !.previous = manifest.entries] IN
       job' = [job EXCEPT ![x] = [planned EXCEPT !.phase = "files",
                   !.write = planned.files, !.drop = Removable(planned)]]
    /\ UNCHANGED <<home, cites, title, disk, away, manifest, torn, spent>>

(* A manifest that cannot be read stops the export before it writes.       *)
ExportRefuses(x) ==
    /\ job[x].phase = "rows" /\ manifest.state = "broken"
    /\ job' = [job EXCEPT ![x] = IdleJob]
    /\ UNCHANGED <<home, cites, title, disk, away, manifest, torn, spent>>

(* One note, in a fixed order: skipped when it is a symlink or is reached  *)
(* through one.                                                            *)
WriteNote(x, e) ==
    /\ job[x].phase = "files" /\ e = First(job[x].write)
    /\ disk' = IF disk[e.path] = Symlink \/ Folder(e.path) \in away
               THEN disk ELSE [disk EXCEPT ![e.path] = Note(e.id)]
    /\ torn' = (torn \/ (Folder(e.path) \in away /\ Ours(e.path) /\ disk[e.path] # Note(e.id)))
    /\ job' = [job EXCEPT ![x].write = @ \ {e}]
    /\ UNCHANGED <<home, cites, title, away, manifest, spent>>

(* The frontmatter still declares the id the manifest recorded.            *)
OwnedBy(e) == Folder(e.path) \notin away /\ disk[e.path] = Note(e.id)

DropNote(x, e) ==
    /\ job[x].phase = "files" /\ job[x].write = {} /\ e = First(job[x].drop)
    /\ disk' = IF OwnedBy(e) THEN [disk EXCEPT ![e.path] = Absent] ELSE disk
    /\ torn' = (torn \/ Folder(e.path) \in away)   \* skipped, and out of the manifest
    /\ job' = [job EXCEPT ![x].drop = @ \ {e}]
    /\ UNCHANGED <<home, cites, title, away, manifest, spent>>

Written(x) == job[x].phase = "files" /\ job[x].write = {} /\ job[x].drop = {}

(* The manifest, last: this export's files and what other scopes exported. *)
WriteManifest(x) ==
    /\ Written(x)
    /\ manifest' = [state |-> "good", entries |-> job[x].files \cup Kept(job[x])]
    /\ job' = [job EXCEPT ![x] = IdleJob]
    /\ UNCHANGED <<home, cites, title, disk, away, torn, spent>>

(* The process ends; writeFileSync may have truncated the manifest first.  *)
ExportCrash(x) ==
    /\ Busy(x)
    /\ \/ UNCHANGED manifest
       \/ Written(x) /\ manifest' = [state |-> "broken", entries |-> {}]
    /\ job' = [job EXCEPT ![x] = IdleJob]
    /\ torn' = TRUE
    /\ UNCHANGED <<home, cites, title, disk, away, spent>>

------------------------------------------------------------------------------
(* The store and the person.                                               *)

(* A row is written, retitled or deleted by any other process.             *)
Retitle(i, t) ==
    /\ Spend("changes", MaxChanges)
    /\ title[i] # t /\ title' = [title EXCEPT ![i] = t]
    /\ job' = Unquiet
    /\ UNCHANGED <<home, cites, disk, away, manifest, torn>>

(* The person writes, links or deletes a file where a note may go.         *)
TouchPath(p, what) ==
    /\ Spend("changes", MaxChanges)
    /\ disk[p] # what /\ disk' = [disk EXCEPT ![p] = what]
    /\ job' = Unquiet
    /\ UNCHANGED <<home, cites, title, away, manifest, torn>>

MoveFolder(f) ==
    /\ Spend("changes", MaxChanges)
    /\ away' = IF f \in away THEN away \ {f} ELSE away \cup {f}
    /\ job' = Unquiet
    /\ UNCHANGED <<home, cites, title, disk, manifest, torn>>

(* "Arréglalo o bórralo a mano": a broken manifest is deleted; an old one, *)
(* whose entries prove nothing, may be put back.                           *)
ReplaceManifest(old) ==
    /\ Spend("changes", MaxChanges)
    /\ manifest.state = "broken" \/ old # {}
    /\ manifest' = [state |-> IF old = {} THEN "absent" ELSE "good", entries |-> old]
    /\ torn' = TRUE
    /\ job' = Unquiet
    /\ UNCHANGED <<home, cites, title, disk, away>>

VaultNext ==
    \/ \E x \in Exporters :
          \/ \E s \in Asked, eps \in BOOLEAN : ReadMemories(x, s, eps)
          \/ ReadTraits(x) \/ ReadEpisodes(x)
          \/ ExportPlan(x) \/ ExportRefuses(x)
          \/ \E e \in job[x].write : WriteNote(x, e)
          \/ \E e \in job[x].drop : DropNote(x, e)
          \/ WriteManifest(x) \/ ExportCrash(x)
    \/ \E i \in Rows, t \in Titles \cup {NoTitle} : Retitle(i, t)
    \/ \E i \in Alive, what \in {Absent, Person, Symlink} :
          \E p \in {NotePath(i, title[i]), PlainScope(home[i])} : TouchPath(p, what)
    \/ \E f \in {"rows", "scopes"} : MoveFolder(f)
    \/ ReplaceManifest({}) \/ ReplaceManifest({Unprovable(p) : p \in {p \in VPaths : Ours(p)}})

VaultSpec == VaultInit /\ [][VaultNext]_vaultVars

------------------------------------------------------------------------------
(* While no export has crashed, overlapped another or met a moved folder,  *)
(* and none is running, every note of ours on disk is in the manifest: the *)
(* merge with the previous one (vault.ts:188) loses none, so a later export*)
(* can still remove it.                                                    *)
NotesStayNamed ==
    (~torn /\ \A x \in Exporters : ~Busy(x)) =>
        \A p \in VPaths : Ours(p) => \E e \in manifest.entries : e.path = p /\ Note(e.id) = disk[p]

Finishes(x) == Written(x) /\ ~Busy(x)' /\ manifest'.state = "good" /\ manifest' # manifest

(* An export nothing interfered with, of every scope, leaves in the vault  *)
(* exactly the notes of the store: nothing missing but what a symlink      *)
(* hides, and nothing of ours that no longer exists.                       *)
VaultMirrorsStore ==
    [][\A x \in Exporters :
          (Finishes(x) /\ job[x].quiet /\ job[x].scope = Whole /\ ~torn) =>
              /\ \A e \in Files(job[x]) :
                    Ours(e.path) \/ disk[e.path] = Symlink \/ Folder(e.path) \in away
              /\ \A p \in VPaths : Ours(p) => \E e \in Files(job[x]) : e.path = p]_vaultVars

StepOf(x) == Busy(x) /\ Unquiet'[x] # Unquiet[x]

(* An export of one scope neither touches the note of a row of another nor *)
(* loses its entry, whatever the manifest has gone through (vault.ts:188,  *)
(* "what was exported before for other scopes is still ours and must not   *)
(* be orphaned or removed").                                               *)
OtherScopesKept ==
    [][\A x \in Exporters :
          (StepOf(x) /\ job[x].scope # Whole) =>
              \A i \in Rows : home[i] # job[x].scope =>
                  \A t \in Titles :
                     /\ disk'[NotePath(i, t)] = disk[NotePath(i, t)]
                     /\ (manifest' # manifest /\ manifest'.state = "good") =>
                           \A e \in job[x].previous : e.path = NotePath(i, t) /\ e.id # NoId
                               => e \in manifest'.entries]_vaultVars

(* When a quiet export of any extent ends, every wikilink of its notes     *)
(* leads to a note that is there, or to a path the person has taken.       *)
LinksResolve ==
    [][\A x \in Exporters :
          (Finishes(x) /\ job[x].quiet) =>
              \A e \in job[x].files : \A p \in Wikilinks(job[x], e) :
                 Ours(p) \/ disk[p] = Symlink \/ Folder(p) \in away]_vaultVars

===============================================================================
