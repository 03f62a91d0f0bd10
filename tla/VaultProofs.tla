------------------------------ MODULE VaultProofs ------------------------------
(***************************************************************************)
(* Theorems of Vault: what the notes, the manifest and an export under way *)
(* have to do with one another, for any rows, scopes, titles and exports.  *)
(***************************************************************************)
EXTENDS Vault, TLAPS

Ids == Rows \cup {EpisodeId(m) : m \in VMemories} \cup VScopes

(* What a path of an entry says of its row.                                *)
OfItsRow(e) ==
    \A i \in Rows, t \in Titles : e.path = NotePath(i, t) => e.scope = home[i]

Entries ==
    {e \in [path : VPaths, id : Ids \cup {NoId}, scope : VScopes \cup {NoId}] :
        e.id # NoId => OfItsRow(e)}

JobRecords ==
    [phase : {"idle", "memories", "traits", "rows", "files"}, scope : Asked \cup {Whole}, episodes : BOOLEAN,
     rows : SUBSET Rows, at : [Rows -> Titles \cup {NoTitle}],
     backed : SUBSET VMemories, named : SUBSET VScopes,
     files : SUBSET Entries, previous : SUBSET Entries, write : SUBSET Entries,
     drop : SUBSET Entries, quiet : BOOLEAN]

(* An export under way: the rows it read, of its scope, the memories whose *)
(* episodes it read, and once it has read the manifest the notes they make, those it has still to write and  *)
(* those it may remove.                                                    *)
JobHolds(j) ==
    /\ \A i \in j.rows : j.at[i] \in Titles /\ (j.scope # Whole => home[i] = j.scope)
    /\ j.backed \subseteq j.rows
    /\ j.phase = "memories" => j.rows \subseteq VMemories
    /\ j.phase = "files" =>
          /\ j.files = Files(j) /\ j.write \subseteq j.files
          /\ j.drop \subseteq Removable(j)

VaultTypes ==
    /\ home \in [Rows -> VScopes]
    /\ title \in [Rows -> Titles \cup {NoTitle}]
    /\ disk \in [VPaths -> {Absent, Person, Symlink} \cup {Note(id) : id \in Ids}]
    /\ manifest.entries \subseteq Entries
    /\ job \in [Exporters -> JobRecords]
    /\ torn \in BOOLEAN
    /\ \A x \in Exporters : JobHolds(job[x])

(* The entries that follow what an export has on disk: its notes already   *)
(* written, what was there where it has still to write, and the entries it *)
(* keeps or has still to look at.                                          *)
Followed(j) ==
    (j.files \ j.write) \cup {e \in j.previous : e.path \in Paths(j.write)}
       \cup Kept(j) \cup j.drop

Named(E) ==
    \A p \in VPaths : Ours(p) => \E e \in E : e.path = p /\ Note(e.id) = disk[p]

Trail ==
    ~torn =>
        /\ \A x, y \in Exporters : Busy(x) /\ Busy(y) => x = y
        /\ \A x \in Exporters : job[x].phase = "files" => Named(Followed(job[x]))
        /\ (\A x \in Exporters : job[x].phase # "files") => Named(manifest.entries)

Shown(p) == Ours(p) \/ disk[p] = Symlink \/ Folder(p) \in away

(* Nothing has interfered with a quiet export: it runs alone and what it   *)
(* wrote is there.                                                         *)
Calm ==
    \A x \in Exporters :
        (Busy(x) /\ job[x].quiet) =>
            /\ \A y \in Exporters : Busy(y) => x = y
            /\ job[x].phase = "files" =>
                  \A e \in job[x].files \ job[x].write : Shown(e.path)

VaultInv == VaultTypes /\ Trail /\ Calm

------------------------------------------------------------------------------
(* What an export would write.                                             *)
LEMMA NoIdIsNone == NoId \notin Ids
  BY VaultAssumption DEF Ids, EpisodeId, NoId

LEMMA ScopeNotesFacts ==
    ASSUME NEW scopes \in SUBSET VScopes, NEW all
    PROVE  /\ \A e \in ScopeNotes(scopes, all) :
                 /\ e \in [path : VPaths, id : scopes, scope : scopes]
                 /\ \A i \in Rows, t \in Titles : e.path # NotePath(i, t)
           /\ \A s \in scopes : \E e \in ScopeNotes(scopes, all) : e.path = ScopePath(s, all)
<1> DEFINE path(s) == ScopePath(s, all)
           last(p) == CHOOSE s \in scopes : path(s) = p
<1>1. \A s \in scopes : path(s) \in {PlainScope(s), HashedScope(s)}
  BY DEF ScopePath
<1>2. \A s \in scopes : path(s) \in VPaths
  BY <1>1 DEF VPaths
<1>3. \A s \in scopes, i \in Rows, t \in Titles : path(s) # NotePath(i, t)
  <2> TAKE s \in scopes, i \in Rows, t \in Titles
  <2>1. t # "scope" /\ t # "hashed scope"
    BY VaultAssumption
  <2>2. PlainScope(s) # NotePath(i, t) /\ HashedScope(s) # NotePath(i, t)
    BY <2>1 DEF PlainScope, HashedScope, NotePath
  <2> HIDE DEF path
  <2> QED
    BY <1>1, <2>2
<1>4. \A p \in {path(s) : s \in scopes} : last(p) \in scopes
  OBVIOUS
<1>5. ScopeNotes(scopes, all) = {VEntry(p, last(p), last(p)) : p \in {path(s) : s \in scopes}}
  BY DEF ScopeNotes
<1> HIDE DEF path, last
<1>6. \A e \in ScopeNotes(scopes, all) : \E s \in scopes : e = VEntry(path(s), last(path(s)), last(path(s)))
  BY <1>5
<1>7. \A s \in scopes : VEntry(path(s), last(path(s)), last(path(s))) \in ScopeNotes(scopes, all)
  BY <1>5
<1>8. \A s \in scopes : last(path(s)) \in scopes
  BY <1>4
<1>9. \A e \in ScopeNotes(scopes, all) :
        /\ e \in [path : VPaths, id : scopes, scope : scopes]
        /\ \A i \in Rows, t \in Titles : e.path # NotePath(i, t)
  BY <1>2, <1>3, <1>6, <1>8 DEF VEntry
<1>10. \A s \in scopes : \E e \in ScopeNotes(scopes, all) : e.path = path(s)
  BY <1>7 DEF VEntry
<1> QED
  BY <1>9, <1>10 DEF path

(* The notes of an export are entries with an id, and an export of one     *)
(* scope makes no note of a row of another.                                *)
LEMMA FilesFacts ==
    ASSUME home \in [Rows -> VScopes], NEW j \in JobRecords, j.backed \subseteq j.rows,
           \A i \in j.rows : j.at[i] \in Titles
    PROVE  /\ Files(j) \subseteq Entries
           /\ \A e \in Files(j) : e.id \in Ids
           /\ \A e \in Files(j), i \in Rows, t \in Titles : e.path = NotePath(i, t) => i \in j.rows
<1> DEFINE scopes == {home[i] : i \in j.rows}
<1>1. j.rows \subseteq Rows /\ scopes \subseteq VScopes
  BY DEF JobRecords
<1>2. ASSUME NEW i \in j.rows
      PROVE  /\ VEntry(RowPath(j, i), i, home[i]) \in Entries
             /\ \A r \in Rows, t \in Titles : RowPath(j, i) = NotePath(r, t) => r = i
  <2>1. RowPath(j, i) \in VPaths /\ home[i] \in VScopes /\ i \in Ids
    BY <1>1 DEF RowPath, VPaths, Ids
  <2>2. \A r \in Rows, t \in Titles : RowPath(j, i) = NotePath(r, t) => r = i
    BY DEF RowPath, NotePath
  <2> QED
    BY <2>1, <2>2 DEF Entries, VEntry, OfItsRow
<1>3. ASSUME NEW m \in EpisodeNotes(j)
      PROVE  /\ VEntry(EpisodePath(m), EpisodeId(m), home[m]) \in Entries
             /\ \A r \in Rows, t \in Titles : EpisodePath(m) # NotePath(r, t)
             /\ EpisodeId(m) \in Ids
  <2>1. m \in j.rows /\ m \in VMemories /\ m \in Rows
    BY <1>1 DEF EpisodeNotes, JobRecords
  <2>2. EpisodePath(m) \in VPaths /\ home[m] \in VScopes /\ EpisodeId(m) \in Ids
    BY <2>1 DEF VPaths, Ids, Rows
  <2>3. \A r \in Rows, t \in Titles : EpisodePath(m) # NotePath(r, t)
    BY VaultAssumption DEF EpisodePath, NotePath
  <2> QED
    BY <2>2, <2>3 DEF Entries, VEntry, OfItsRow
<1>4. ASSUME NEW e \in ScopeNotes(scopes, j.named)
      PROVE  e \in Entries /\ e.id \in Ids /\ \A r \in Rows, t \in Titles : e.path # NotePath(r, t)
  <2>1. /\ e \in [path : VPaths, id : scopes, scope : scopes]
        /\ \A r \in Rows, t \in Titles : e.path # NotePath(r, t)
    BY <1>1, ScopeNotesFacts
  <2> QED
    BY <1>1, <2>1 DEF Entries, OfItsRow, Ids
<1> HIDE DEF scopes
<1>5. \A e \in Files(j) :
        \/ \E i \in j.rows : e = VEntry(RowPath(j, i), i, home[i])
        \/ \E m \in EpisodeNotes(j) : e = VEntry(EpisodePath(m), EpisodeId(m), home[m])
        \/ e \in ScopeNotes(scopes, j.named)
  BY DEF Files, scopes
<1>6. ASSUME NEW e \in Files(j)
      PROVE  /\ e \in Entries /\ e.id \in Ids
             /\ \A i \in Rows, t \in Titles : e.path = NotePath(i, t) => i \in j.rows
  <2>1. CASE \E i \in j.rows : e = VEntry(RowPath(j, i), i, home[i])
    <3>1. PICK i \in j.rows : e = VEntry(RowPath(j, i), i, home[i])
      BY <2>1
    <3>2. e.path = RowPath(j, i) /\ e.id = i
      BY <3>1 DEF VEntry
    <3>3. i \in Ids
      BY <1>1 DEF Ids
    <3> QED
      BY <1>2, <3>1, <3>2, <3>3
  <2>2. CASE \E m \in EpisodeNotes(j) : e = VEntry(EpisodePath(m), EpisodeId(m), home[m])
    <3>1. PICK m \in EpisodeNotes(j) : e = VEntry(EpisodePath(m), EpisodeId(m), home[m])
      BY <2>2
    <3>2. e.path = EpisodePath(m) /\ e.id = EpisodeId(m)
      BY <3>1 DEF VEntry
    <3> QED
      BY <1>3, <3>1, <3>2
  <2>3. CASE e \in ScopeNotes(scopes, j.named)
    BY <1>4, <2>3
  <2> QED
    BY <1>5, <2>1, <2>2, <2>3
<1> QED
  BY <1>6

(* Two states of one export that differ in what is left to do.             *)
Alike(j, k) ==
    /\ j.scope = k.scope /\ j.episodes = k.episodes /\ j.rows = k.rows /\ j.at = k.at
    /\ j.backed = k.backed /\ j.named = k.named /\ j.files = k.files /\ j.previous = k.previous

LEMMA AlikeFacts ==
    ASSUME NEW j, NEW k, Alike(j, k)
    PROVE  Files(j) = Files(k) /\ Removable(j) = Removable(k) /\ Kept(j) = Kept(k)
  BY DEF Alike, Files, RowPath, EpisodeNotes, Removable, Kept

LEMMA SameHomes ==
    ASSUME home' = home, NEW j
    PROVE  Files(j)' = Files(j) /\ Entries' = Entries
  BY DEF Files, Entries, OfItsRow

(* The next state, whatever each export comes to be.                       *)
LEMMA TypesNext ==
    ASSUME VaultTypes, home' = home,
           title' \in [Rows -> Titles \cup {NoTitle}],
           disk' \in [VPaths -> {Absent, Person, Symlink} \cup {Note(id) : id \in Ids}],
           manifest'.entries \subseteq Entries, torn' \in BOOLEAN,
           NEW k \in [Exporters -> JobRecords], job' = k, \A x \in Exporters : JobHolds(k[x])
    PROVE  VaultTypes'
<1>1. JobRecords' = JobRecords
  BY SameHomes DEF JobRecords
<1>2. ASSUME NEW x \in Exporters
      PROVE  JobHolds(job[x])'
  <2> PICK j : j = k[x]
    OBVIOUS
  <2>1. JobHolds(j) /\ Files(j)' = Files(j)
    BY SameHomes
  <2>2. JobHolds(j)'
    BY <2>1 DEF JobHolds
  <2> QED
    BY <2>2
<1>3. home' \in [Rows -> VScopes] /\ Entries' = Entries
  BY SameHomes DEF VaultTypes
<1> QED
  BY <1>1, <1>2, <1>3 DEF VaultTypes

(* One export moves.                                                       *)
LEMMA TypesMove ==
    ASSUME VaultTypes, home' = home, title' = title,
           disk' \in [VPaths -> {Absent, Person, Symlink} \cup {Note(id) : id \in Ids}],
           manifest'.entries \subseteq Entries, torn' \in BOOLEAN,
           NEW x \in Exporters, NEW r \in JobRecords, JobHolds(r), job' = [job EXCEPT ![x] = r]
    PROVE  VaultTypes'
<1> DEFINE k == [job EXCEPT ![x] = r]
<1>1. k \in [Exporters -> JobRecords] /\ \A y \in Exporters : JobHolds(k[y])
  BY DEF VaultTypes
<1> HIDE DEF k
<1>2. job' = k
  BY DEF k
<1>3. title' \in [Rows -> Titles \cup {NoTitle}]
  BY DEF VaultTypes
<1> QED
  BY <1>1, <1>2, <1>3, TypesNext

(* An export that something interfered with is not quiet any more.         *)
LEMMA UnquietFacts ==
    ASSUME VaultTypes
    PROVE  /\ Unquiet \in [Exporters -> JobRecords]
           /\ \A y \in Exporters :
                 /\ JobHolds(Unquiet[y]) /\ Alike(Unquiet[y], job[y]) /\ ~Unquiet[y].quiet
                 /\ Unquiet[y].phase = job[y].phase
                 /\ Unquiet[y].write = job[y].write /\ Unquiet[y].drop = job[y].drop
<1>1. Unquiet = [y \in Exporters |-> [job[y] EXCEPT !.quiet = FALSE]]
  BY DEF Unquiet
<1>2. ASSUME NEW y \in Exporters
      PROVE  /\ Unquiet[y] \in JobRecords /\ JobHolds(Unquiet[y])
             /\ Alike(Unquiet[y], job[y]) /\ ~Unquiet[y].quiet
             /\ Unquiet[y].phase = job[y].phase
             /\ Unquiet[y].write = job[y].write /\ Unquiet[y].drop = job[y].drop
  <2>1. Unquiet[y] = [job[y] EXCEPT !.quiet = FALSE] /\ job[y] \in JobRecords
    BY <1>1 DEF VaultTypes
  <2> PICK j, u : j = job[y] /\ u = Unquiet[y]
    OBVIOUS
  <2>2. /\ u \in JobRecords /\ Alike(u, j) /\ ~u.quiet
        /\ u.phase = j.phase /\ u.write = j.write /\ u.drop = j.drop
    BY <2>1 DEF JobRecords, Alike
  <2>3. Files(u) = Files(j) /\ Removable(u) = Removable(j)
    BY <2>2, AlikeFacts
  <2>4. JobHolds(j)
    BY DEF VaultTypes
  <2>5. JobHolds(u)
    BY <2>2, <2>3, <2>4 DEF JobHolds, Alike
  <2> QED
    BY <2>2, <2>5
<1> QED
  BY <1>1, <1>2

(* The store or the person interferes.                                     *)
LEMMA TypesQuiet ==
    ASSUME VaultTypes, home' = home,
           title' \in [Rows -> Titles \cup {NoTitle}],
           disk' \in [VPaths -> {Absent, Person, Symlink} \cup {Note(id) : id \in Ids}],
           manifest'.entries \subseteq Entries, torn' \in BOOLEAN, job' = Unquiet
    PROVE  VaultTypes'
<1>1. PICK k : k = Unquiet
  OBVIOUS
<1> QED
  BY <1>1, UnquietFacts, TypesNext

LEMMA IdleFacts == IdleJob \in JobRecords /\ JobHolds(IdleJob)
  BY DEF IdleJob, JobRecords, JobHolds

LEMMA NamedKept ==
    ASSUME NEW E, Named(E), \A p \in VPaths : Ours(p)' => disk'[p] = disk[p]
    PROVE  Named(E)'
  BY DEF Named, Ours

LEMMA FollowedFacts ==
    ASSUME NEW j, NEW k, Alike(j, k), j.write = k.write, j.drop = k.drop
    PROVE  Followed(j) = Followed(k)
  BY AlikeFacts DEF Followed, Alike

LEMMA InterferedCalm ==
    ASSUME VaultTypes, job' = Unquiet
    PROVE  Calm'
  BY UnquietFacts DEF Calm

LEMMA InterferedTrail ==
    ASSUME VaultTypes, Trail, job' = Unquiet, torn' = torn, manifest' = manifest,
           \A p \in VPaths : Ours(p)' => disk'[p] = disk[p]
    PROVE  Trail'
<1>1. \A y \in Exporters : job'[y].phase = job[y].phase /\ Followed(job'[y]) = Followed(job[y])
  BY UnquietFacts, FollowedFacts
<1> SUFFICES ASSUME ~torn'
             PROVE  /\ \A x, y \in Exporters : Busy(x)' /\ Busy(y)' => x = y
                    /\ \A x \in Exporters : job'[x].phase = "files" => Named(Followed(job[x]))'
                    /\ (\A x \in Exporters : job'[x].phase # "files") => Named(manifest.entries)'
  BY DEF Trail
<1>2. \A x, y \in Exporters : Busy(x)' /\ Busy(y)' => x = y
  BY <1>1 DEF Trail, Busy
<1>3. ASSUME NEW x \in Exporters, job'[x].phase = "files"
      PROVE  Named(Followed(job[x]))'
  <2> PICK E : E = Followed(job[x])
    OBVIOUS
  <2>1. Named(E)
    BY <1>1, <1>3 DEF Trail
  <2>2. Named(E)'
    BY <2>1, NamedKept
  <2> QED
    BY <1>1, <2>2
<1>4. ASSUME \A x \in Exporters : job'[x].phase # "files"
      PROVE  Named(manifest.entries)'
  <2> PICK E : E = manifest.entries
    OBVIOUS
  <2>1. Named(E)
    BY <1>1, <1>4 DEF Trail
  <2>2. Named(E)'
    BY <2>1, NamedKept
  <2> QED
    BY <2>2
<1> QED
  BY <1>2, <1>3, <1>4

(* An export that ends, however it ends.                                   *)
LEMMA EndedCalm ==
    ASSUME VaultTypes, Calm, NEW x \in Exporters, job' = [job EXCEPT ![x] = IdleJob],
           disk' = disk, away' = away
    PROVE  Calm'
<1>1. job'[x].phase = "idle" /\ \A y \in Exporters : y # x => job'[y] = job[y]
  BY DEF VaultTypes, IdleJob
<1>2. \A y \in Exporters : Busy(y)' => y # x /\ Busy(y) /\ job'[y] = job[y]
  BY <1>1 DEF Busy
<1>3. ASSUME NEW p
      PROVE  Shown(p)' = Shown(p)
  BY DEF Shown, Ours
<1>4. ASSUME NEW y \in Exporters, Busy(y)', job'[y].quiet
      PROVE  /\ \A z \in Exporters : Busy(z)' => y = z
             /\ job'[y].phase = "files" => \A e \in job'[y].files \ job'[y].write : Shown(e.path)'
  BY <1>2, <1>3, <1>4 DEF Calm
<1> QED
  BY <1>4 DEF Calm

LEMMA InitInv == VaultInit => VaultInv
<1> SUFFICES ASSUME VaultInit PROVE VaultInv
  OBVIOUS
<1>1. First(Titles) \in Titles
  BY VaultAssumption DEF First
<1>2. /\ title \in [Rows -> Titles \cup {NoTitle}] /\ manifest.entries = {} /\ torn = FALSE
      /\ home \in [Rows -> VScopes]
      /\ disk \in [VPaths -> {Absent, Person, Symlink} \cup {Note(id) : id \in Ids}]
  BY <1>1 DEF VaultInit
<1>3. job = [x \in Exporters |-> IdleJob]
  BY DEF VaultInit
<1>4. job \in [Exporters -> JobRecords] /\ \A x \in Exporters : JobHolds(job[x])
  BY <1>3, IdleFacts
<1>5. \A x \in Exporters : job[x].phase = "idle"
  BY <1>3 DEF IdleJob
<1>6. \A p \in VPaths : ~Ours(p)
  BY DEF VaultInit, Ours, Absent
<1> QED
  BY <1>2, <1>4, <1>5, <1>6 DEF VaultInv, VaultTypes, Trail, Calm, Named, Busy

------------------------------------------------------------------------------
(* The steps of an export.                                                 *)
LEMMA MemoriesStep ==
    ASSUME VaultInv, NEW x \in Exporters, NEW s \in Asked \cup {Whole}, NEW eps \in BOOLEAN,
           ReadMemories(x, s, eps)
    PROVE  VaultInv'
<1> DEFINE rows == VMemories \cap Extent(s)
           at == TitlesOf(VMemories, IdleJob.at)
           overlap == \E y \in Exporters : Busy(y)
           r == [IdleJob EXCEPT !.phase = "memories", !.scope = s, !.episodes = eps,
                                !.rows = rows, !.at = at, !.quiet = ~overlap]
           k == [Unquiet EXCEPT ![x] = r]
<1>1. /\ job' = k /\ torn' = (torn \/ overlap)
      /\ UNCHANGED <<home, title, disk, away, manifest>>
  BY DEF ReadMemories
<1>2. r \in JobRecords /\ JobHolds(r)
  <2>1. title \in [Rows -> Titles \cup {NoTitle}]
    BY DEF VaultInv, VaultTypes
  <2>2. rows \subseteq Rows /\ rows \subseteq VMemories /\ \A i \in rows : title[i] \in Titles /\ (s # Whole => home[i] = s)
    BY <2>1 DEF Extent, Alive, Rows
  <2>3. at \in [Rows -> Titles \cup {NoTitle}] /\ \A i \in rows : at[i] = title[i]
    BY <2>1, <2>2 DEF TitlesOf, IdleJob
  <2>4. (~overlap) \in BOOLEAN
    OBVIOUS
  <2> HIDE DEF rows, overlap, at
  <2>5. /\ r \in JobRecords
        /\ r.phase = "memories" /\ r.scope = s /\ r.rows = rows /\ r.at = at /\ r.backed = {}
    BY <2>2, <2>3, <2>4 DEF IdleJob, JobRecords
  <2> HIDE DEF r
  <2> QED
    BY <2>2, <2>3, <2>5 DEF JobHolds
<1>3. /\ k \in [Exporters -> JobRecords] /\ k[x] = r
      /\ \A y \in Exporters : y # x => k[y] = Unquiet[y]
  BY <1>2, UnquietFacts DEF VaultInv
<1>4. r.phase = "memories" /\ r.quiet = ~overlap
  BY DEF IdleJob
<1> HIDE DEF rows, at, r, k
<1>5. VaultTypes'
  <2>1. \A y \in Exporters : JobHolds(k[y])
    BY <1>2, <1>3, UnquietFacts DEF VaultInv
  <2>2. torn' \in BOOLEAN
    BY <1>1 DEF VaultInv, VaultTypes
  <2> HIDE DEF overlap
  <2> QED
    BY <1>1, <1>3, <2>1, <2>2, TypesNext DEF VaultInv, VaultTypes
<1>6. \A y \in Exporters : y # x => job'[y].phase = job[y].phase /\ ~job'[y].quiet
  BY <1>1, <1>3, UnquietFacts DEF VaultInv
<1>7. job'[x] = r
  BY <1>1, <1>3
<1>8. Trail'
  <2> SUFFICES ASSUME ~torn'
               PROVE  /\ \A y, z \in Exporters : Busy(y)' /\ Busy(z)' => y = z
                      /\ \A y \in Exporters : job'[y].phase # "files"
                      /\ Named(manifest.entries)'
    BY DEF Trail
  <2>1. ~torn /\ \A y \in Exporters : job[y].phase = "idle"
    BY <1>1 DEF Busy
  <2>2. Named(manifest.entries)
    BY <2>1 DEF VaultInv, Trail
  <2>3. Named(manifest.entries)'
    BY <1>1, <2>2 DEF Named, Ours
  <2> QED
    BY <1>4, <1>6, <1>7, <2>1, <2>3 DEF Busy
<1>9. Calm'
  <2> SUFFICES ASSUME NEW y \in Exporters, Busy(y)', job'[y].quiet
               PROVE  /\ \A z \in Exporters : Busy(z)' => y = z
                      /\ job'[y].phase # "files"
    BY DEF Calm
  <2>1. y = x /\ ~overlap
    BY <1>4, <1>6, <1>7
  <2>2. \A z \in Exporters : z # x => ~Busy(z)'
    BY <1>6, <2>1 DEF Busy
  <2> QED
    BY <1>4, <1>7, <2>1, <2>2
<1> QED
  BY <1>5, <1>8, <1>9 DEF VaultInv

(* One export reads on.                                                    *)
LEMMA ReadsOn ==
    ASSUME VaultInv, NEW x \in Exporters, NEW r \in JobRecords, JobHolds(r),
           job' = [job EXCEPT ![x] = r], UNCHANGED <<home, title, disk, away, manifest, torn>>,
           Busy(x), job[x].phase # "files", r.phase \in {"traits", "rows"}, r.quiet = job[x].quiet
    PROVE  VaultInv'
<1>1. VaultTypes'
  BY TypesMove DEF VaultInv, VaultTypes
<1>2. job'[x] = r /\ \A y \in Exporters : y # x => job'[y] = job[y]
  BY DEF VaultInv, VaultTypes
<1>3. \A y \in Exporters : (Busy(y)' <=> Busy(y)) /\ job'[y].quiet = job[y].quiet
  BY <1>2 DEF Busy
<1>4. \A y \in Exporters : job'[y].phase = "files" => job'[y] = job[y]
  BY <1>2
<1>5. \A y \in Exporters : job[y].phase = "files" => job'[y] = job[y]
  BY <1>2
<1>6. \A p : (Shown(p)' <=> Shown(p)) /\ (Ours(p)' <=> Ours(p))
  BY DEF Shown, Ours
<1>7. Trail'
  <2> SUFFICES ASSUME ~torn
               PROVE  /\ \A y, z \in Exporters : Busy(y)' /\ Busy(z)' => y = z
                      /\ \A y \in Exporters : job'[y].phase = "files" => Named(Followed(job[y]))'
                      /\ (\A y \in Exporters : job'[y].phase # "files") => Named(manifest.entries)'
    BY DEF Trail
  <2>1. \A y, z \in Exporters : Busy(y) /\ Busy(z) => y = z
    BY DEF VaultInv, Trail
  <2>2. \A y \in Exporters : job[y].phase # "files" /\ job'[y].phase # "files"
    BY <1>2, <2>1 DEF Busy
  <2>3. Named(manifest.entries)
    BY <2>2 DEF VaultInv, Trail
  <2>4. Named(manifest.entries)'
    BY <2>3 DEF Named, Ours
  <2> QED
    BY <1>3, <2>1, <2>2, <2>4
<1>8. Calm'
  <2> SUFFICES ASSUME NEW y \in Exporters, Busy(y)', job'[y].quiet
               PROVE  /\ \A z \in Exporters : Busy(z)' => y = z
                      /\ job'[y].phase = "files" => \A e \in job'[y].files \ job'[y].write : Shown(e.path)'
    BY DEF Calm
  <2>1. /\ \A z \in Exporters : Busy(z) => y = z
        /\ job[y].phase = "files" => \A e \in job[y].files \ job[y].write : Shown(e.path)
    BY <1>3 DEF VaultInv, Calm
  <2> QED
    BY <1>3, <1>4, <1>6, <2>1
<1> QED
  BY <1>1, <1>7, <1>8 DEF VaultInv

(* One that ends before it wrote anything.                                 *)
LEMMA GivesUp ==
    ASSUME VaultInv, NEW x \in Exporters, job' = [job EXCEPT ![x] = IdleJob],
           Busy(x), job[x].phase # "files", UNCHANGED <<home, title, disk, away, manifest, torn>>
    PROVE  VaultInv'
<1>2. VaultTypes'
  BY IdleFacts, TypesMove DEF VaultInv, VaultTypes
<1>3. job'[x].phase = "idle" /\ \A y \in Exporters : y # x => job'[y] = job[y]
  BY DEF VaultInv, VaultTypes, IdleJob
<1>4. Trail'
  <2> SUFFICES ASSUME ~torn
               PROVE  /\ \A y \in Exporters : ~Busy(y)'
                      /\ Named(manifest.entries)'
    BY DEF Trail, Busy
  <2>1. \A y \in Exporters : Busy(y) => y = x
    BY DEF VaultInv, Trail
  <2>2. \A y \in Exporters : job[y].phase # "files"
    BY <2>1 DEF Busy
  <2>3. Named(manifest.entries)
    BY <2>2 DEF VaultInv, Trail
  <2>4. Named(manifest.entries)'
    BY <2>3 DEF Named, Ours
  <2> QED
    BY <1>3, <2>1, <2>4 DEF Busy
<1>5. Calm'
  BY EndedCalm DEF VaultInv
<1> QED
  BY <1>2, <1>4, <1>5 DEF VaultInv

LEMMA TraitsStep ==
    ASSUME VaultInv, NEW x \in Exporters, ReadTraits(x)
    PROVE  VaultInv'
<1> PICK j : j = job[x]
  OBVIOUS
<1> DEFINE found == VTraits \cap Extent(j.scope)
           rows == j.rows \cup found
           at == TitlesOf(VTraits, j.at)
           r == [j EXCEPT !.phase = "traits", !.rows = rows, !.at = at]
<1>1. /\ job' = [job EXCEPT ![x] = IF rows = {} THEN IdleJob ELSE r] /\ j.phase = "memories"
      /\ UNCHANGED <<home, title, disk, away, manifest, torn>>
  BY DEF ReadTraits
<1>2. j \in JobRecords /\ JobHolds(j) /\ title \in [Rows -> Titles \cup {NoTitle}] /\ Busy(x)
  BY <1>1 DEF VaultInv, VaultTypes, Busy
<1>3. CASE rows = {}
  BY <1>1, <1>2, <1>3, GivesUp
<1>4. CASE rows # {}
  <2>1. found \subseteq VTraits /\ \A i \in found : title[i] \in Titles /\ (j.scope # Whole => home[i] = j.scope)
    BY <1>2 DEF Extent, Alive
  <2>2. j.rows \subseteq Rows /\ j.at \in [Rows -> Titles \cup {NoTitle}]
    BY <1>2 DEF JobRecords
  <2>3. /\ at \in [Rows -> Titles \cup {NoTitle}]
        /\ \A i \in VTraits : at[i] = title[i]
        /\ \A i \in Rows \ VTraits : at[i] = j.at[i]
    BY <1>2, <2>2 DEF TitlesOf, Rows
  <2>4. rows \subseteq Rows
    BY <2>1, <2>2 DEF Rows
  <2>5. \A i \in found : at[i] \in Titles
    BY <2>1, <2>3
  <2>6. j.rows \subseteq Rows \ VTraits
    BY <1>1, <1>2, VaultAssumption DEF JobHolds, Rows
  <2>7. \A i \in j.rows : at[i] \in Titles /\ (j.scope # Whole => home[i] = j.scope)
    BY <1>2, <2>3, <2>6 DEF JobHolds
  <2> HIDE DEF found, at
  <2> HIDE DEF rows
  <2>8. /\ r \in JobRecords /\ r.rows = rows /\ r.at = at /\ r.scope = j.scope
        /\ r.backed = j.backed /\ r.phase = "traits" /\ r.quiet = j.quiet
    BY <1>2, <2>3, <2>4 DEF JobRecords
  <2> HIDE DEF r
  <2>9. job' = [job EXCEPT ![x] = r]
    BY <1>1, <1>4
  <2>10. JobHolds(r)
    <3>1. \A i \in rows : i \in j.rows \/ i \in found
      BY DEF rows
    <3>2. j.backed \subseteq rows
      BY <1>2 DEF JobHolds, rows
    <3> QED
      BY <2>1, <2>5, <2>7, <2>8, <3>1, <3>2 DEF JobHolds
  <2> QED
    BY <1>1, <1>2, <2>8, <2>9, <2>10, ReadsOn
<1> QED
  BY <1>3, <1>4

LEMMA EpisodesStep ==
    ASSUME VaultInv, NEW x \in Exporters, ReadEpisodes(x)
    PROVE  VaultInv'
<1> PICK j : j = job[x]
  OBVIOUS
<1> DEFINE backed == j.rows \cap VMemories \cap Alive
           r == [j EXCEPT !.phase = "rows", !.backed = backed]
<1>1. /\ job' = [job EXCEPT ![x] = r] /\ j.phase = "traits"
      /\ UNCHANGED <<home, title, disk, away, manifest, torn>>
  BY DEF ReadEpisodes
<1>2. j \in JobRecords /\ JobHolds(j) /\ Busy(x)
  BY <1>1 DEF VaultInv, VaultTypes, Busy
<1>3. backed \subseteq VMemories /\ backed \subseteq j.rows
  OBVIOUS
<1> HIDE DEF backed
<1>4. /\ r \in JobRecords /\ r.rows = j.rows /\ r.at = j.at /\ r.scope = j.scope
      /\ r.backed = backed /\ r.phase = "rows" /\ r.quiet = j.quiet
  BY <1>2, <1>3 DEF JobRecords
<1> HIDE DEF r
<1>5. JobHolds(r)
  BY <1>2, <1>3, <1>4 DEF JobHolds
<1> QED
  BY <1>1, <1>2, <1>4, <1>5, ReadsOn

LEMMA PlanStep ==
    ASSUME VaultInv, NEW x \in Exporters, ExportPlan(x)
    PROVE  VaultInv'
<1> PICK j : j = job[x]
  OBVIOUS
<1> DEFINE named == [j EXCEPT !.named = ScopesNow]
           planned == [named EXCEPT !.files = Files(named), !.previous = manifest.entries]
           r == [planned EXCEPT !.phase = "files", !.write = planned.files, !.drop = Removable(planned)]
<1>1. /\ job' = [job EXCEPT ![x] = r] /\ j.phase = "rows"
      /\ UNCHANGED <<home, title, disk, away, manifest, torn>>
  BY DEF ExportPlan
<1>2. j \in JobRecords /\ JobHolds(j)
  BY DEF VaultInv, VaultTypes
<1>3. /\ named \in JobRecords /\ named.rows = j.rows /\ named.at = j.at /\ named.scope = j.scope
      /\ named.phase = j.phase /\ named.backed = j.backed
  <2>1. ScopesNow \subseteq VScopes
    BY DEF ScopesNow, Alive, VaultInv, VaultTypes
  <2> QED
    BY <1>2, <2>1 DEF JobRecords
<1>4. Files(named) \subseteq Entries
  BY <1>2, <1>3, FilesFacts DEF JobHolds, VaultInv, VaultTypes
<1> HIDE DEF named
<1>5. /\ planned \in JobRecords /\ planned.rows = j.rows /\ planned.at = j.at /\ planned.scope = j.scope
      /\ planned.backed = j.backed /\ planned.files = Files(named) /\ planned.previous = manifest.entries
  <2>1. manifest.entries \subseteq Entries
    BY DEF VaultInv, VaultTypes
  <2> QED
    BY <1>3, <1>4, <2>1 DEF JobRecords
<1>6. Files(planned) = Files(named)
  <2>1. /\ planned.episodes = named.episodes /\ planned.named = named.named
        /\ planned.rows = named.rows /\ planned.at = named.at /\ planned.backed = named.backed
    BY <1>3 DEF JobRecords
  <2> HIDE DEF planned
  <2> QED
    BY <2>1 DEF Files, RowPath, EpisodeNotes
<1> HIDE DEF planned
<1>7. /\ r \in JobRecords /\ Alike(r, planned) /\ r.phase = "files"
      /\ r.write = planned.files /\ r.drop = Removable(planned)
  <2>1. Removable(planned) \subseteq Entries /\ planned.files \subseteq Entries
    BY <1>5 DEF Removable, JobRecords
  <2> QED
    BY <1>5, <2>1 DEF JobRecords, Alike
<1> HIDE DEF r
<1>8. Files(r) = Files(planned) /\ Removable(r) = Removable(planned) /\ Kept(r) = Kept(planned)
  BY <1>7, AlikeFacts
<1>9. JobHolds(r)
  BY <1>2, <1>5, <1>6, <1>7, <1>8 DEF JobHolds, Alike
<1>10. VaultTypes'
  BY <1>1, <1>7, <1>9, TypesMove DEF VaultInv, VaultTypes
<1>11. job'[x] = r /\ \A y \in Exporters : y # x => job'[y] = job[y]
  BY <1>1 DEF VaultInv, VaultTypes
<1>12. \A y \in Exporters : Busy(y)' <=> Busy(y)
  BY <1>1, <1>7, <1>11 DEF Busy
<1>13. Trail'
  <2> PICK c : c = r
    OBVIOUS
  <2> SUFFICES ASSUME ~torn'
               PROVE  /\ \A y, z \in Exporters : Busy(y)' /\ Busy(z)' => y = z
                      /\ \A y \in Exporters : job'[y].phase = "files" => y = x
                      /\ Named(Followed(c))'
    BY <1>7, <1>11 DEF Trail
  <2>1. ~torn /\ Busy(x)
    BY <1>1 DEF Busy
  <2>2. \A y \in Exporters : Busy(y) => y = x
    BY <2>1 DEF VaultInv, Trail
  <2>3. \A y \in Exporters : job[y].phase # "files"
    BY <1>1, <2>2 DEF Busy
  <2>4. Named(manifest.entries)
    BY <2>1, <2>3 DEF VaultInv, Trail
  <2>5. ASSUME NEW p \in VPaths, Ours(p)
        PROVE  \E e \in Followed(r) : e.path = p /\ Note(e.id) = disk[p]
    <3>1. PICK e \in manifest.entries : e.path = p /\ Note(e.id) = disk[p]
      BY <2>4, <2>5 DEF Named
    <3>2. e \in r.previous
      BY <1>5, <1>7 DEF Alike
    <3>3. e.id # NoId
      <4>1. \E id \in Ids : disk[p] = Note(id)
        BY <2>5 DEF VaultInv, VaultTypes, Ours, Absent, Person, Symlink
      <4> QED
        BY <3>1, <4>1, NoIdIsNone DEF Note
    <3>4. r.files = r.write
      BY <1>7 DEF Alike
    <3>5. e \in Followed(r)
      BY <1>7, <1>8, <3>2, <3>3, <3>4 DEF Followed, Kept, Removable
    <3> QED
      BY <3>1, <3>5
  <2>6. Named(Followed(c))'
    BY <1>1, <2>5 DEF Named, Ours
  <2> QED
    BY <1>11, <1>12, <2>2, <2>3, <2>6
<1>14. Calm'
  <2> SUFFICES ASSUME NEW y \in Exporters, Busy(y)', job'[y].quiet
               PROVE  /\ \A z \in Exporters : Busy(z)' => y = z
                      /\ job'[y].phase = "files" => \A e \in job'[y].files \ job'[y].write : Shown(e.path)'
    BY DEF Calm
  <2>1. \A e : Shown(e.path)' <=> Shown(e.path)
    BY <1>1 DEF Shown, Ours
  <2>2. r.quiet = j.quiet /\ r.files \ r.write = {}
    <3>1. r.quiet = j.quiet
      BY <1>2 DEF r, planned, named, JobRecords
    <3> QED
      BY <1>7, <3>1 DEF Alike
  <2>3. Busy(y) /\ job[y].quiet
    BY <1>11, <1>12, <2>2
  <2> QED
    BY <1>11, <1>12, <2>1, <2>2, <2>3 DEF VaultInv, Calm
<1> QED
  BY <1>10, <1>13, <1>14 DEF VaultInv

LEMMA WriteStep ==
    ASSUME VaultInv, NEW x \in Exporters, NEW e \in job[x].write, WriteNote(x, e)
    PROVE  VaultInv'
<1> PICK j : j = job[x]
  OBVIOUS
<1> PICK c : c = [j EXCEPT !.write = @ \ {e}]
  OBVIOUS
<1> DEFINE skipped == disk[e.path] = Symlink \/ Folder(e.path) \in away
<1>1. /\ job' = [job EXCEPT ![x] = c] /\ j.phase = "files"
      /\ disk' = IF skipped THEN disk ELSE [disk EXCEPT ![e.path] = Note(e.id)]
      /\ torn' = (torn \/ (Folder(e.path) \in away /\ Ours(e.path) /\ disk[e.path] # Note(e.id)))
      /\ UNCHANGED <<home, title, away, manifest>>
  BY DEF WriteNote
<1>2. j \in JobRecords /\ JobHolds(j) /\ e \in j.write
  BY DEF VaultInv, VaultTypes
<1>3. /\ c \in JobRecords /\ Alike(c, j) /\ c.phase = "files" /\ c.quiet = j.quiet
      /\ c.write = j.write \ {e} /\ c.drop = j.drop
  BY <1>1, <1>2 DEF JobRecords, Alike
<1>4. Files(c) = Files(j) /\ Removable(c) = Removable(j) /\ Kept(c) = Kept(j)
  BY <1>3, AlikeFacts
<1>5. JobHolds(c)
  BY <1>1, <1>2, <1>3, <1>4 DEF JobHolds, Alike
<1>6. e \in j.files /\ e \in Entries /\ e.path \in VPaths /\ e.id \in Ids
  <2>1. e \in Files(j) /\ e \in j.files
    BY <1>1, <1>2 DEF JobHolds
  <2>2. e \in Entries /\ e.id \in Ids
    BY <1>2, <2>1, FilesFacts DEF JobHolds, VaultInv, VaultTypes
  <2> QED
    BY <2>1, <2>2 DEF Entries
<1> HIDE DEF skipped
<1>7. disk' \in [VPaths -> {Absent, Person, Symlink} \cup {Note(id) : id \in Ids}]
  BY <1>1, <1>6 DEF VaultInv, VaultTypes
<1>8. VaultTypes'
  <2>1. torn' \in BOOLEAN
    BY <1>1 DEF VaultInv, VaultTypes
  <2> QED
    BY <1>1, <1>3, <1>5, <1>7, <2>1, TypesMove DEF VaultInv, VaultTypes
<1>9. job'[x] = c /\ \A y \in Exporters : y # x => job'[y] = job[y]
  BY <1>1 DEF VaultInv, VaultTypes
<1>10. \A y \in Exporters : Busy(y)' <=> Busy(y)
  BY <1>1, <1>3, <1>9 DEF Busy
<1>11. \A p \in VPaths : p # e.path => disk'[p] = disk[p]
  BY <1>1 DEF VaultInv, VaultTypes
<1>12. ~skipped => disk'[e.path] = Note(e.id)
  BY <1>1, <1>6 DEF VaultInv, VaultTypes
<1>13. skipped => disk' = disk
  BY <1>1
<1>14. Trail'
  <2> SUFFICES ASSUME ~torn'
               PROVE  /\ \A y, z \in Exporters : Busy(y)' /\ Busy(z)' => y = z
                      /\ \A y \in Exporters : job'[y].phase = "files" => y = x
                      /\ Named(Followed(c))'
    BY <1>3, <1>9 DEF Trail
  <2>1. ~torn /\ Busy(x) /\ ~(Folder(e.path) \in away /\ Ours(e.path) /\ disk[e.path] # Note(e.id))
    BY <1>1 DEF Busy
  <2>2. \A y, z \in Exporters : Busy(y) /\ Busy(z) => y = z
    BY <2>1 DEF VaultInv, Trail
  <2>3. Named(Followed(j))
    BY <1>1, <2>1 DEF VaultInv, Trail
  <2>4. e \in Followed(c)
    BY <1>3, <1>6 DEF Followed, Alike
  <2>5. ASSUME NEW p \in VPaths, Ours(p)'
        PROVE  \E f \in Followed(c) : f.path = p /\ Note(f.id) = disk'[p]
    <3>1. CASE p # e.path
      <4>1. PICK f \in Followed(j) : f.path = p /\ Note(f.id) = disk[p]
        BY <1>11, <2>3, <2>5, <3>1 DEF Named, Ours
      <4>2. f \in Followed(c)
        <5>1. CASE f \in j.files \ j.write
          BY <1>3, <5>1 DEF Followed, Alike
        <5>2. CASE f \in j.previous /\ f.path \in Paths(j.write)
          <6>1. f.path \in Paths(c.write) /\ f \in c.previous
            BY <1>3, <3>1, <4>1, <5>2 DEF Paths, Alike
          <6> QED
            BY <6>1 DEF Followed
        <5>3. CASE f \in Kept(j) \cup j.drop
          BY <1>3, <1>4, <5>3 DEF Followed
        <5> QED
          BY <5>1, <5>2, <5>3 DEF Followed
      <4> QED
        BY <1>11, <3>1, <4>1, <4>2
    <3>2. CASE p = e.path /\ ~skipped
      BY <1>12, <2>4, <3>2
    <3>3. CASE p = e.path /\ skipped
      <4>1. disk' = disk /\ disk[p] # Symlink
        BY <1>13, <2>5, <3>3 DEF Ours, Symlink
      <4>2. Folder(e.path) \in away /\ Ours(e.path)
        BY <2>5, <3>3, <4>1 DEF skipped, Ours
      <4>3. disk'[p] = Note(e.id)
        BY <2>1, <3>3, <4>1, <4>2
      <4> QED
        BY <2>4, <3>3, <4>3
    <3> QED
      BY <3>1, <3>2, <3>3
  <2>6. Named(Followed(c))'
    BY <2>5 DEF Named
  <2> QED
    BY <1>9, <1>10, <2>1, <2>2, <2>6 DEF Busy
<1>15. Calm'
  <2> SUFFICES ASSUME NEW y \in Exporters, Busy(y)', job'[y].quiet
               PROVE  /\ \A z \in Exporters : Busy(z)' => y = z
                      /\ job'[y].phase = "files" => \A f \in job'[y].files \ job'[y].write : Shown(f.path)'
    BY DEF Calm
  <2>1. Busy(y) /\ job[y].quiet /\ Busy(x)
    BY <1>1, <1>3, <1>9, <1>10 DEF Busy
  <2>2. y = x /\ \A z \in Exporters : Busy(z)' => y = z
    BY <1>10, <2>1 DEF VaultInv, Calm
  <2>3. \A f \in j.files \ j.write : Shown(f.path)
    BY <1>1, <2>1, <2>2 DEF VaultInv, Calm
  <2>4. ASSUME NEW f \in c.files \ c.write
        PROVE  Shown(f.path)'
    <3>1. f.path \in VPaths /\ f \in j.files
      <4>1. f \in j.files /\ f \in Entries
        BY <1>2, <1>3 DEF Alike, JobRecords
      <4> QED
        BY <4>1 DEF Entries
    <3>2. CASE f.path # e.path
      <4>1. Shown(f.path)
        BY <1>3, <2>3, <3>1, <3>2 DEF Alike
      <4> QED
        BY <1>1, <1>11, <3>1, <3>2, <4>1 DEF Shown, Ours
    <3>3. CASE f.path = e.path /\ ~skipped
      BY <1>12, <3>3 DEF Shown, Ours, Note
    <3>4. CASE f.path = e.path /\ skipped
      BY <1>1, <1>13, <3>4 DEF Shown, skipped
    <3> QED
      BY <3>2, <3>3, <3>4
  <2> QED
    BY <1>9, <2>2, <2>4
<1> QED
  BY <1>8, <1>14, <1>15 DEF VaultInv

LEMMA DropStep ==
    ASSUME VaultInv, NEW x \in Exporters, NEW e \in job[x].drop, DropNote(x, e)
    PROVE  VaultInv'
<1> PICK j : j = job[x]
  OBVIOUS
<1> PICK c : c = [j EXCEPT !.drop = @ \ {e}]
  OBVIOUS
<1>1. /\ job' = [job EXCEPT ![x] = c] /\ j.phase = "files" /\ j.write = {}
      /\ disk' = IF OwnedBy(e) THEN [disk EXCEPT ![e.path] = Absent] ELSE disk
      /\ torn' = (torn \/ Folder(e.path) \in away)
      /\ UNCHANGED <<home, title, away, manifest>>
  BY DEF DropNote
<1>2. j \in JobRecords /\ JobHolds(j) /\ e \in j.drop
  BY DEF VaultInv, VaultTypes
<1>3. /\ c \in JobRecords /\ Alike(c, j) /\ c.phase = "files" /\ c.quiet = j.quiet
      /\ c.write = j.write /\ c.drop = j.drop \ {e}
  BY <1>1, <1>2 DEF JobRecords, Alike
<1>4. Files(c) = Files(j) /\ Removable(c) = Removable(j) /\ Kept(c) = Kept(j)
  BY <1>3, AlikeFacts
<1>5. JobHolds(c)
  BY <1>1, <1>2, <1>3, <1>4 DEF JobHolds, Alike
<1>6. e.path \notin Paths(j.files)
  BY <1>1, <1>2 DEF JobHolds, Removable
<1>7. disk' \in [VPaths -> {Absent, Person, Symlink} \cup {Note(id) : id \in Ids}]
  BY <1>1 DEF VaultInv, VaultTypes
<1>8. VaultTypes'
  <2>1. torn' \in BOOLEAN
    BY <1>1 DEF VaultInv, VaultTypes
  <2> QED
    BY <1>1, <1>3, <1>5, <1>7, <2>1, TypesMove DEF VaultInv, VaultTypes
<1>9. job'[x] = c /\ \A y \in Exporters : y # x => job'[y] = job[y]
  BY <1>1 DEF VaultInv, VaultTypes
<1>10. \A y \in Exporters : Busy(y)' <=> Busy(y)
  BY <1>1, <1>3, <1>9 DEF Busy
<1>11. \A p \in VPaths : p # e.path => disk'[p] = disk[p]
  BY <1>1 DEF VaultInv, VaultTypes
<1>12. Trail'
  <2> SUFFICES ASSUME ~torn'
               PROVE  /\ \A y, z \in Exporters : Busy(y)' /\ Busy(z)' => y = z
                      /\ \A y \in Exporters : job'[y].phase = "files" => y = x
                      /\ Named(Followed(c))'
    BY <1>3, <1>9 DEF Trail
  <2>1. ~torn /\ Busy(x) /\ Folder(e.path) \notin away
    BY <1>1 DEF Busy
  <2>2. \A y, z \in Exporters : Busy(y) /\ Busy(z) => y = z
    BY <2>1 DEF VaultInv, Trail
  <2>3. Named(Followed(j))
    BY <1>1, <2>1 DEF VaultInv, Trail
  <2>4. ASSUME NEW p \in VPaths, Ours(p)'
        PROVE  \E f \in Followed(c) : f.path = p /\ Note(f.id) = disk'[p]
    <3>1. Ours(p) /\ disk'[p] = disk[p]
      BY <1>1, <2>4 DEF Ours, Absent, VaultInv, VaultTypes
    <3>2. PICK f \in Followed(j) : f.path = p /\ Note(f.id) = disk[p]
      BY <2>3, <3>1 DEF Named
    <3>3. f # e
      <4> SUFFICES ASSUME f = e PROVE FALSE
        OBVIOUS
      <4>1. OwnedBy(e)
        BY <2>1, <3>2 DEF OwnedBy
      <4>2. disk'[p] = Absent
        BY <1>1, <3>2, <4>1 DEF VaultInv, VaultTypes
      <4> QED
        BY <2>4, <4>2 DEF Ours, Absent
    <3>4. f \in Followed(c)
      BY <1>3, <1>4, <3>2, <3>3 DEF Followed, Alike
    <3> QED
      BY <3>1, <3>2, <3>4
  <2>5. Named(Followed(c))'
    BY <2>4 DEF Named
  <2> QED
    BY <1>9, <1>10, <2>1, <2>2, <2>5 DEF Busy
<1>13. Calm'
  <2> SUFFICES ASSUME NEW y \in Exporters, Busy(y)', job'[y].quiet
               PROVE  /\ \A z \in Exporters : Busy(z)' => y = z
                      /\ job'[y].phase = "files" => \A f \in job'[y].files \ job'[y].write : Shown(f.path)'
    BY DEF Calm
  <2>1. Busy(y) /\ job[y].quiet /\ Busy(x)
    BY <1>1, <1>3, <1>9, <1>10 DEF Busy
  <2>2. y = x /\ \A z \in Exporters : Busy(z)' => y = z
    BY <1>10, <2>1 DEF VaultInv, Calm
  <2>3. \A f \in j.files \ j.write : Shown(f.path)
    BY <1>1, <2>1, <2>2 DEF VaultInv, Calm
  <2>4. ASSUME NEW f \in c.files \ c.write
        PROVE  Shown(f.path)'
    <3>1. f \in j.files \ j.write /\ f \in Entries
      BY <1>2, <1>3 DEF Alike, JobRecords
    <3>2. f.path \in VPaths /\ f.path # e.path
      BY <1>6, <3>1 DEF Entries, Paths
    <3>3. Shown(f.path)
      BY <2>3, <3>1
    <3> QED
      BY <1>1, <1>11, <3>2, <3>3 DEF Shown, Ours
  <2> QED
    BY <1>9, <2>2, <2>4
<1> QED
  BY <1>8, <1>12, <1>13 DEF VaultInv

(* At the end of the notes, what is on disk is this export's or another    *)
(* scope's.                                                                *)
LEMMA EndNamed ==
    ASSUME VaultInv, NEW x \in Exporters, Written(x), ~torn
    PROVE  Named(job[x].files \cup Kept(job[x]))
<1>1. job[x].phase = "files" /\ job[x].write = {} /\ job[x].drop = {}
  BY DEF Written
<1>2. Named(Followed(job[x]))
  BY <1>1 DEF VaultInv, Trail
<1>3. Followed(job[x]) \subseteq job[x].files \cup Kept(job[x])
  BY <1>1 DEF Followed, Paths
<1> QED
  BY <1>2, <1>3 DEF Named

LEMMA ManifestStep ==
    ASSUME VaultInv, NEW x \in Exporters, WriteManifest(x)
    PROVE  VaultInv'
<1>1. /\ job' = [job EXCEPT ![x] = IdleJob] /\ Written(x) /\ job[x].phase = "files"
      /\ manifest'.entries = job[x].files \cup Kept(job[x])
      /\ UNCHANGED <<home, title, disk, away, torn>>
  BY DEF WriteManifest, Written
<1>2. job[x] \in JobRecords
  BY DEF VaultInv, VaultTypes
<1>3. manifest'.entries \subseteq Entries
  BY <1>1, <1>2 DEF JobRecords, Kept
<1>4. VaultTypes'
  BY <1>1, <1>3, IdleFacts, TypesMove DEF VaultInv, VaultTypes
<1>5. job'[x].phase = "idle" /\ \A y \in Exporters : y # x => job'[y] = job[y]
  BY <1>1 DEF VaultInv, VaultTypes, IdleJob
<1>6. Trail'
  <2> SUFFICES ASSUME ~torn
               PROVE  /\ \A y \in Exporters : ~Busy(y)'
                      /\ Named(manifest.entries)'
    BY <1>1 DEF Trail, Busy
  <2>1. \A y \in Exporters : Busy(y) => y = x
    BY <1>1 DEF VaultInv, Trail, Busy
  <2>2. \A y \in Exporters : ~Busy(y)'
    BY <1>5, <2>1 DEF Busy
  <2>3. Named(job[x].files \cup Kept(job[x]))
    BY <1>1, EndNamed
  <2>4. Named(manifest.entries)'
    BY <1>1, <2>3 DEF Named, Ours
  <2> QED
    BY <2>2, <2>4
<1>7. Calm'
  BY <1>1, EndedCalm DEF VaultInv
<1> QED
  BY <1>4, <1>6, <1>7 DEF VaultInv

LEMMA RefusesStep ==
    ASSUME VaultInv, NEW x \in Exporters, ExportRefuses(x)
    PROVE  VaultInv'
BY GivesUp DEF ExportRefuses, Busy

LEMMA CrashStep ==
    ASSUME VaultInv, NEW x \in Exporters, ExportCrash(x)
    PROVE  VaultInv'
<1>1. /\ job' = [job EXCEPT ![x] = IdleJob] /\ torn' = TRUE
      /\ manifest' = manifest \/ manifest'.entries = {}
      /\ UNCHANGED <<home, title, disk, away>>
  BY DEF ExportCrash
<1>2. manifest'.entries \subseteq Entries
  BY <1>1 DEF VaultInv, VaultTypes
<1>3. VaultTypes'
  BY <1>1, <1>2, IdleFacts, TypesMove DEF VaultInv, VaultTypes
<1> QED
  BY <1>1, <1>3, EndedCalm DEF VaultInv, Trail

------------------------------------------------------------------------------
(* The steps of the store and of the person.                               *)
LEMMA RetitleStep ==
    ASSUME VaultInv, NEW i \in Rows, NEW t \in Titles \cup {NoTitle}, Retitle(i, t)
    PROVE  VaultInv'
<1>1. /\ job' = Unquiet /\ title' = [title EXCEPT ![i] = t]
      /\ UNCHANGED <<home, disk, away, manifest, torn>>
  BY DEF Retitle
<1>2. VaultTypes'
  BY <1>1, TypesQuiet DEF VaultInv, VaultTypes
<1>3. Trail' /\ Calm'
  BY <1>1, InterferedTrail, InterferedCalm DEF VaultInv
<1> QED
  BY <1>2, <1>3 DEF VaultInv

LEMMA TouchStep ==
    ASSUME VaultInv, NEW p, NEW what \in {Absent, Person, Symlink}, TouchPath(p, what)
    PROVE  VaultInv'
<1>1. /\ job' = Unquiet /\ disk' = [disk EXCEPT ![p] = what]
      /\ UNCHANGED <<home, title, away, manifest, torn>>
  BY DEF TouchPath
<1>2. VaultTypes'
  BY <1>1, TypesQuiet DEF VaultInv, VaultTypes
<1>3. ASSUME NEW q \in VPaths, Ours(q)'
      PROVE  disk'[q] = disk[q]
  BY <1>1, <1>3 DEF Ours, Absent, Person, Symlink, VaultInv, VaultTypes
<1>4. Trail' /\ Calm'
  BY <1>1, <1>3, InterferedTrail, InterferedCalm DEF VaultInv
<1> QED
  BY <1>2, <1>4 DEF VaultInv

LEMMA MoveStep ==
    ASSUME VaultInv, NEW f, MoveFolder(f)
    PROVE  VaultInv'
<1>1. job' = Unquiet /\ UNCHANGED <<home, title, disk, manifest, torn>>
  BY DEF MoveFolder
<1>2. VaultTypes'
  BY <1>1, TypesQuiet DEF VaultInv, VaultTypes
<1>3. Trail' /\ Calm'
  BY <1>1, InterferedTrail, InterferedCalm DEF VaultInv
<1> QED
  BY <1>2, <1>3 DEF VaultInv

LEMMA ReplaceStep ==
    ASSUME VaultInv, NEW old \in SUBSET {Unprovable(p) : p \in VPaths}, ReplaceManifest(old)
    PROVE  VaultInv'
<1>1. /\ job' = Unquiet /\ torn' = TRUE /\ manifest'.entries = old
      /\ UNCHANGED <<home, title, disk, away>>
  BY DEF ReplaceManifest
<1>2. old \subseteq Entries
  BY DEF Entries, Unprovable, VEntry
<1>3. VaultTypes'
  BY <1>1, <1>2, TypesQuiet DEF VaultInv, VaultTypes
<1> QED
  BY <1>1, <1>3, InterferedCalm DEF VaultInv, Trail

LEMMA StutterStep ==
    ASSUME VaultInv, UNCHANGED vaultVars
    PROVE  VaultInv'
<1>1. UNCHANGED <<home, title, disk, away, manifest, job, torn>>
  BY DEF vaultVars
<1>2. PICK k : k = job
  OBVIOUS
<1>3. k \in [Exporters -> JobRecords] /\ job' = k /\ \A x \in Exporters : JobHolds(k[x])
  BY <1>1, <1>2 DEF VaultInv, VaultTypes
<1>4. VaultTypes'
  BY <1>1, <1>3, TypesNext DEF VaultInv, VaultTypes
<1>5. Trail' /\ Calm'
  BY <1>1 DEF VaultInv, Trail, Calm, Named, Shown, Busy, Ours
<1> QED
  BY <1>4, <1>5 DEF VaultInv

LEMMA NextInv == VaultInv /\ [VaultNext]_vaultVars => VaultInv'
<1> SUFFICES ASSUME VaultInv, [VaultNext]_vaultVars PROVE VaultInv'
  OBVIOUS
<1>1. CASE UNCHANGED vaultVars
  BY <1>1, StutterStep
<1>2. ASSUME NEW x \in Exporters, NEW s \in Asked, NEW eps \in BOOLEAN, ReadMemories(x, s, eps)
      PROVE  VaultInv'
  BY <1>2, MemoriesStep
<1>3. ASSUME NEW x \in Exporters,
             \/ ReadTraits(x) \/ ReadEpisodes(x)
             \/ ExportPlan(x) \/ ExportRefuses(x) \/ WriteManifest(x) \/ ExportCrash(x)
      PROVE  VaultInv'
  BY <1>3, TraitsStep, EpisodesStep, PlanStep, RefusesStep, ManifestStep, CrashStep
<1>4. ASSUME NEW x \in Exporters, NEW e \in job[x].write, WriteNote(x, e)
      PROVE  VaultInv'
  BY <1>4, WriteStep
<1>5. ASSUME NEW x \in Exporters, NEW e \in job[x].drop, DropNote(x, e)
      PROVE  VaultInv'
  BY <1>5, DropStep
<1>6. ASSUME NEW i \in Rows, NEW t \in Titles \cup {NoTitle}, Retitle(i, t)
      PROVE  VaultInv'
  BY <1>6, RetitleStep
<1>7. ASSUME NEW p, NEW what \in {Absent, Person, Symlink}, TouchPath(p, what)
      PROVE  VaultInv'
  BY <1>7, TouchStep
<1>8. ASSUME NEW f, MoveFolder(f)
      PROVE  VaultInv'
  BY <1>8, MoveStep
<1>9. CASE ReplaceManifest({}) \/ ReplaceManifest({Unprovable(p) : p \in {p \in VPaths : Ours(p)}})
  <2>1. {Unprovable(p) : p \in {p \in VPaths : Ours(p)}} \in SUBSET {Unprovable(p) : p \in VPaths}
    OBVIOUS
  <2> QED
    BY <1>9, <2>1, ReplaceStep
<1> QED
  BY <1>1, <1>2, <1>3, <1>4, <1>5, <1>6, <1>7, <1>8, <1>9 DEF VaultNext

------------------------------------------------------------------------------
(* NotesStayNamed of Vault: as long as no export crashed, overlapped       *)
(* another or met a moved folder, the merge of writeVault loses no note.   *)
THEOREM NotesStayNamedHolds == VaultSpec => []NotesStayNamed
<1>1. VaultInv => NotesStayNamed
  BY DEF VaultInv, Trail, Named, NotesStayNamed, Busy
<1> QED
  BY <1>1, InitInv, NextInv, PTL DEF VaultSpec

(* VaultMirrorsStore of Vault: a quiet export of every scope leaves the    *)
(* notes of the store and no other note of ours.                           *)
THEOREM VaultMirrorsStoreHolds == VaultSpec => VaultMirrorsStore
<1> DEFINE Mirrors ==
             \A x \in Exporters :
                (Finishes(x) /\ job[x].quiet /\ job[x].scope = Whole /\ ~torn) =>
                   /\ \A e \in Files(job[x]) :
                         Ours(e.path) \/ disk[e.path] = Symlink \/ Folder(e.path) \in away
                   /\ \A p \in VPaths : Ours(p) => \E e \in Files(job[x]) : e.path = p
<1>1. ASSUME VaultInv
      PROVE  Mirrors
  <2> SUFFICES ASSUME NEW x \in Exporters, Finishes(x), job[x].quiet, job[x].scope = Whole, ~torn
               PROVE  /\ \A e \in Files(job[x]) : Shown(e.path)
                      /\ \A p \in VPaths : Ours(p) => \E e \in Files(job[x]) : e.path = p
    BY DEF Shown
  <2>1. /\ Written(x) /\ Busy(x) /\ job[x].phase = "files"
        /\ job[x].write = {} /\ job[x].files = Files(job[x])
    BY <1>1 DEF Finishes, Written, Busy, VaultInv, VaultTypes, JobHolds
  <2>2. \A e \in job[x].files : Shown(e.path)
    BY <1>1, <2>1 DEF VaultInv, Calm
  <2>3. Kept(job[x]) = {}
    BY DEF Kept
  <2>4. Named(job[x].files)
    BY <1>1, <2>1, <2>3, EndNamed
  <2> QED
    BY <2>1, <2>2, <2>4 DEF Named
<1>2. VaultInv => [Mirrors]_vaultVars
  BY <1>1
<1>3. (VaultMirrorsStore) <=> [][Mirrors]_vaultVars
  BY DEF VaultMirrorsStore
<1> HIDE DEF Mirrors
<1> QED
  BY <1>2, <1>3, InitInv, NextInv, PTL DEF VaultSpec

(* Every wikilink of the notes an export makes is the path of one of them. *)
LEMMA LinksInside ==
    ASSUME home \in [Rows -> VScopes], NEW j \in JobRecords, j.backed \subseteq j.rows,
           NEW e \in Files(j)
    PROVE  \A p \in Wikilinks(j, e) : \E f \in Files(j) : f.path = p
<1> DEFINE scopes == {home[i] : i \in j.rows}
           Is(p) == \E f \in Files(j) : f.path = p
<1>1. /\ Files(j) = {VEntry(RowPath(j, i), i, home[i]) : i \in j.rows}
              \cup {VEntry(EpisodePath(m), EpisodeId(m), home[m]) : m \in EpisodeNotes(j)}
              \cup ScopeNotes(scopes, j.named)
      /\ j.rows \subseteq Rows /\ scopes \subseteq VScopes /\ EpisodeNotes(j) \subseteq j.rows
  BY DEF Files, JobRecords, EpisodeNotes
<1>2. ASSUME NEW i \in j.rows
      PROVE  Is(RowPath(j, i)) /\ home[i] \in scopes
  <2>1. VEntry(RowPath(j, i), i, home[i]) \in Files(j)
    BY <1>1
  <2>2. VEntry(RowPath(j, i), i, home[i]).path = RowPath(j, i)
    BY DEF VEntry
  <2> QED
    BY <2>1, <2>2
<1>3. ASSUME NEW m \in EpisodeNotes(j)
      PROVE  Is(EpisodePath(m))
  <2>1. VEntry(EpisodePath(m), EpisodeId(m), home[m]) \in Files(j)
    BY <1>1
  <2>2. VEntry(EpisodePath(m), EpisodeId(m), home[m]).path = EpisodePath(m)
    BY DEF VEntry
  <2> QED
    BY <2>1, <2>2
<1>4. ASSUME NEW s \in scopes
      PROVE  Is(ScopePath(s, j.named))
  <2>1. PICK f \in ScopeNotes(scopes, j.named) : f.path = ScopePath(s, j.named)
    BY <1>1, ScopeNotesFacts
  <2> QED
    BY <1>1, <2>1
<1> HIDE DEF Is
<1>5. /\ e.scope \in scopes
      /\ e.id \in VMemories \cup VTraits \cup VScopes \/ e.path[1] \in j.rows
  <2>1. CASE \E i \in j.rows : e = VEntry(RowPath(j, i), i, home[i])
    BY <1>1, <1>2, <2>1 DEF VEntry, Rows
  <2>2. CASE \E m \in EpisodeNotes(j) : e = VEntry(EpisodePath(m), EpisodeId(m), home[m])
    BY <1>1, <1>2, <2>2 DEF VEntry, EpisodePath
  <2>3. CASE e \in ScopeNotes(scopes, j.named)
    <3>1. e \in [path : VPaths, id : scopes, scope : scopes]
      BY <1>1, <2>3, ScopeNotesFacts
    <3> QED
      BY <1>1, <3>1
  <2> QED
    BY <1>1, <2>1, <2>2, <2>3
<1> HIDE DEF scopes
<1> SUFFICES ASSUME NEW p \in Wikilinks(j, e) PROVE Is(p)
  BY DEF Is
<1>6. CASE e.id \in VMemories
  <2>1. e.id \notin VTraits /\ e.id \notin VScopes
    BY <1>6, VaultAssumption DEF Rows
  <2>2. Wikilinks(j, e) = {ScopePath(e.scope, j.named)}
           \cup {RowPath(j, t) : t \in {t \in VTraits \cap j.rows : e.id \in cites[t]}}
           \cup {RowPath(j, m) : m \in VMemories \cap j.rows}
           \cup {EpisodePath(m) : m \in EpisodeNotes(j) \cap {e.id}}
    BY <1>6, <2>1 DEF Wikilinks
  <2>3. \/ p = ScopePath(e.scope, j.named)
        \/ \E i \in j.rows : p = RowPath(j, i)
        \/ \E m \in EpisodeNotes(j) : p = EpisodePath(m)
    BY <2>2
  <2> QED
    BY <1>2, <1>3, <1>4, <1>5, <2>3
<1>7. CASE e.id \in VTraits
  <2>1. e.id \notin VMemories /\ e.id \notin VScopes
    BY <1>7, VaultAssumption DEF Rows
  <2>2. p = ScopePath(e.scope, j.named) \/ \E i \in j.rows : p = RowPath(j, i)
    BY <1>7, <2>1 DEF Wikilinks, EvidenceLinks
  <2> QED
    BY <1>2, <1>4, <1>5, <2>2
<1>8. CASE e.id \in VScopes
  <2>1. e.id \notin VMemories /\ e.id \notin VTraits
    BY <1>8, VaultAssumption DEF Rows
  <2>2. \E i \in j.rows : p = RowPath(j, i)
    BY <1>8, <2>1 DEF Wikilinks
  <2> QED
    BY <1>2, <2>2
<1>9. CASE e.id \notin VMemories \cup VTraits \cup VScopes
  <2>1. p = RowPath(j, e.path[1])
    BY <1>9 DEF Wikilinks
  <2> QED
    BY <1>2, <1>5, <1>9, <2>1
<1> QED
  BY <1>6, <1>7, <1>8, <1>9

(* LinksResolve of Vault: the links of a quiet export, of any extent, lead *)
(* to notes that are there or to paths the person has taken.               *)
THEOREM LinksResolveHolds == VaultSpec => LinksResolve
<1> DEFINE Resolved ==
             \A x \in Exporters :
                (Finishes(x) /\ job[x].quiet) =>
                    \A e \in job[x].files : \A p \in Wikilinks(job[x], e) :
                       Ours(p) \/ disk[p] = Symlink \/ Folder(p) \in away
<1>1. ASSUME VaultInv
      PROVE  Resolved
  <2> SUFFICES ASSUME NEW x \in Exporters, Finishes(x), job[x].quiet,
                      NEW e \in job[x].files, NEW p \in Wikilinks(job[x], e)
               PROVE  Shown(p)
    BY DEF Shown
  <2>1. /\ Written(x) /\ Busy(x) /\ job[x].phase = "files" /\ job[x].write = {}
        /\ job[x].files = Files(job[x]) /\ job[x] \in JobRecords /\ home \in [Rows -> VScopes]
        /\ job[x].backed \subseteq job[x].rows
    BY <1>1 DEF Finishes, Written, Busy, VaultInv, VaultTypes, JobHolds
  <2>2. \A f \in job[x].files : Shown(f.path)
    BY <1>1, <2>1 DEF VaultInv, Calm
  <2>3. \E f \in job[x].files : f.path = p
    BY <2>1, LinksInside
  <2> QED
    BY <2>2, <2>3
<1>2. VaultInv => [Resolved]_vaultVars
  BY <1>1
<1>3. (LinksResolve) <=> [][Resolved]_vaultVars
  BY DEF LinksResolve
<1> HIDE DEF Resolved
<1> QED
  BY <1>2, <1>3, InitInv, NextInv, PTL DEF VaultSpec

(* A step of an export is its own, and not one of the person.              *)
LEMMA OwnSteps ==
    ASSUME VaultInv, NEW x \in Exporters, StepOf(x)
    PROVE  job'[x] # job[x] /\ job' # Unquiet
<1>1. Unquiet' = [y \in Exporters |-> [job'[y] EXCEPT !.quiet = FALSE]]
  BY DEF Unquiet
<1>2. Unquiet = [y \in Exporters |-> [job[y] EXCEPT !.quiet = FALSE]]
  BY DEF Unquiet
<1>3. ASSUME job'[x] = job[x] PROVE FALSE
  BY <1>1, <1>2, <1>3 DEF StepOf
<1>4. ASSUME job' = Unquiet PROVE FALSE
  <2>1. job'[x] = [job[x] EXCEPT !.quiet = FALSE] /\ job[x] \in JobRecords
    BY <1>2, <1>4 DEF VaultInv, VaultTypes
  <2>2. [job'[x] EXCEPT !.quiet = FALSE] = [job[x] EXCEPT !.quiet = FALSE]
    BY <2>1 DEF JobRecords
  <2> QED
    BY <1>1, <1>2, <2>2 DEF StepOf
<1> QED
  BY <1>3, <1>4

(* OtherScopesKept of Vault: an export of one scope leaves the notes of    *)
(* the rows of the others, and their entries, as they were.                *)
LEMMA KeptStep ==
    ASSUME VaultInv, VaultNext, NEW x \in Exporters, StepOf(x), job[x].scope # Whole,
           NEW i \in Rows, home[i] # job[x].scope, NEW t \in Titles
    PROVE  /\ disk'[NotePath(i, t)] = disk[NotePath(i, t)]
           /\ (manifest' # manifest /\ manifest'.state = "good") =>
                 \A e \in job[x].previous : e.path = NotePath(i, t) /\ e.id # NoId => e \in manifest'.entries
<1>1. job'[x] # job[x] /\ job' # Unquiet
  BY OwnSteps
<1>2. job[x] \in JobRecords /\ JobHolds(job[x]) /\ job \in [Exporters -> JobRecords]
      /\ disk \in [VPaths -> {Absent, Person, Symlink} \cup {Note(id) : id \in Ids}]
  BY DEF VaultInv, VaultTypes
<1>3. ASSUME job[x].phase = "files"
      PROVE  \A e \in job[x].files : e.path # NotePath(i, t)
  <2>1. i \notin job[x].rows /\ job[x].files = Files(job[x])
    BY <1>2, <1>3 DEF JobHolds
  <2> QED
    BY <1>2, <2>1, FilesFacts DEF VaultInv, VaultTypes, JobHolds
<1>4. \A e \in job[x].previous : e.path = NotePath(i, t) /\ e.id # NoId => e.scope # job[x].scope
  BY <1>2 DEF JobRecords, Entries, OfItsRow
<1>5. CASE UNCHANGED <<disk, manifest>>
  BY <1>5
<1>6. ASSUME NEW y \in Exporters, NEW e \in job[y].write, WriteNote(y, e)
      PROVE  disk'[NotePath(i, t)] = disk[NotePath(i, t)] /\ manifest' = manifest
  <2>1. y = x
    BY <1>1, <1>2, <1>6 DEF WriteNote
  <2>2. e.path # NotePath(i, t)
    BY <1>2, <1>3, <1>6, <2>1 DEF WriteNote, JobHolds
  <2> QED
    BY <1>2, <1>6, <2>2 DEF WriteNote, VPaths
<1>7. ASSUME NEW y \in Exporters, NEW e \in job[y].drop, DropNote(y, e)
      PROVE  disk'[NotePath(i, t)] = disk[NotePath(i, t)] /\ manifest' = manifest
  <2>1. y = x
    BY <1>1, <1>2, <1>7 DEF DropNote
  <2>2. e.path # NotePath(i, t)
    <3>1. e \in Removable(job[x])
      BY <1>2, <1>7, <2>1 DEF DropNote, JobHolds
    <3> QED
      BY <1>4, <3>1 DEF Removable
  <2> QED
    BY <1>2, <1>7, <2>2 DEF DropNote, VPaths
<1>8. ASSUME NEW y \in Exporters, WriteManifest(y)
      PROVE  /\ disk' = disk
             /\ \A e \in job[x].previous : e.path = NotePath(i, t) /\ e.id # NoId => e \in manifest'.entries
  <2>1. y = x
    BY <1>1, <1>2, <1>8 DEF WriteManifest
  <2>2. ASSUME NEW e \in job[x].previous, e.path = NotePath(i, t), e.id # NoId
        PROVE  e \in Kept(job[x])
    BY <1>3, <1>4, <1>8, <2>1, <2>2 DEF Kept, Paths, WriteManifest, Written
  <2> QED
    BY <1>8, <2>1, <2>2 DEF WriteManifest
<1>9. ASSUME NEW y \in Exporters, ExportCrash(y)
      PROVE  disk' = disk /\ (manifest' = manifest \/ manifest'.state # "good")
  BY <1>9 DEF ExportCrash
<1>10. ASSUME NEW y \in Exporters, \/ \E s \in Asked, eps \in BOOLEAN : ReadMemories(y, s, eps)
                                   \/ ReadTraits(y) \/ ReadEpisodes(y)
                                   \/ ExportPlan(y) \/ ExportRefuses(y)
       PROVE  UNCHANGED <<disk, manifest>>
  BY <1>10 DEF ReadMemories, ReadTraits, ReadEpisodes, ExportPlan, ExportRefuses
<1>11. ASSUME \/ \E r \in Rows, n \in Titles \cup {NoTitle} : Retitle(r, n)
              \/ \E f \in {"rows", "scopes"} : MoveFolder(f)
       PROVE  UNCHANGED <<disk, manifest>>
  BY <1>11 DEF Retitle, MoveFolder
<1>12. ASSUME NEW p, NEW what, TouchPath(p, what) PROVE FALSE
  BY <1>1, <1>12 DEF TouchPath
<1>13. ASSUME NEW old, ReplaceManifest(old) PROVE FALSE
  BY <1>1, <1>13 DEF ReplaceManifest
<1> QED
  BY <1>5, <1>6, <1>7, <1>8, <1>9, <1>10, <1>11, <1>12, <1>13 DEF VaultNext

(* OtherScopesKept of Vault.  Its invariant is that of NotesStayNamed: an  *)
(* entry of the manifest is of the scope of its row, so none of another    *)
(* scope is among those an export of one may remove.                       *)
THEOREM OtherScopesKeptHolds == VaultSpec => OtherScopesKept
<1> DEFINE Apart ==
             \A x \in Exporters :
                (StepOf(x) /\ job[x].scope # Whole) =>
                    \A i \in Rows : home[i] # job[x].scope =>
                        \A t \in Titles :
                           /\ disk'[NotePath(i, t)] = disk[NotePath(i, t)]
                           /\ (manifest' # manifest /\ manifest'.state = "good") =>
                                 \A e \in job[x].previous : e.path = NotePath(i, t) /\ e.id # NoId
                                     => e \in manifest'.entries
<1>1. VaultInv /\ VaultNext => Apart
  BY KeptStep
<1>2. (OtherScopesKept) <=> [][Apart]_vaultVars
  BY DEF OtherScopesKept
<1> HIDE DEF Apart
<1>3. VaultInv /\ [VaultNext]_vaultVars => [Apart]_vaultVars
  BY <1>1
<1> QED
  BY <1>2, <1>3, InitInv, NextInv, PTL DEF VaultSpec

================================================================================
