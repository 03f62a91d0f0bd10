------------------------------ MODULE VectorIndex ------------------------------
(***************************************************************************)
(* The vectors semantic recall searches: memory_embeddings and             *)
(* layer_embeddings (store/db.ts), the backfill that fills them            *)
(* (embeddings/store.ts, layers.ts, batch.ts), the vector a fresh trait or *)
(* episode gets at once (layers.ts: embedLayerItem), and the writes that   *)
(* change the text a vector was computed from.                             *)
(*                                                                         *)
(* The embedder is awaited: between the read of a text and the save of its *)
(* vector anything may happen to the row.  A text is its version number    *)
(* and a vector is the version it was computed from, which is what the     *)
(* stored fingerprint tells; model, width and configuration changes are    *)
(* left out.  A backfill reads its three queries in one step, for nothing  *)
(* relates them, and each save is a step of its own.                       *)
(***************************************************************************)
EXTENDS Integers, FiniteSets, Sequences, SequencesExt

CONSTANTS
    Memories, Traits, Episodes,  \* rows, numbered in the order of the tables
    Workers,    \* processes that may be awaiting the embedder
    Active,     \* the rows that are written, changed and deleted meanwhile
    Poison,     \* the rows whose text gets no valid vector
    MaxRows,    \* AUTO_BACKFILL_MAX_ROWS
    BatchSize,
    MaxEdits    \* bound on the versions of one text

Layers == Traits \cup Episodes
Items == Memories \cup Layers

ASSUME VectorAssumption ==
    /\ Items = 1 .. Cardinality(Items)
    /\ Memories \cap Layers = {} /\ Traits \cap Episodes = {}
    /\ Active \subseteq Items /\ Poison \subseteq Items
    /\ MaxRows \in Nat \ {0} /\ BatchSize \in Nat \ {0} /\ MaxEdits \in Nat

VARIABLES
    row,    \* row[i]: "held" is an episode with consolidated_into set
    text,   \* text[i]: the version of its gist and details, name or body
    vec,    \* vec[i]: the version its stored vector describes
    job     \* job[w]: the local state of a worker

vars == <<row, text, vec, job>>

NoVector == -1

IdleJob == [pc |-> "idle", timed |-> FALSE, rows |-> <<>>, ready |-> <<>>,
            seen |-> [i \in Items |-> 0], misses |-> 0]

(* A database whose backlog nobody embedded yet.                           *)
Init ==
    /\ row = [i \in Items |-> IF i \in Active THEN "unborn" ELSE "live"]
    /\ text = [i \in Items |-> 0]
    /\ vec = [i \in Items |-> NoVector]
    /\ job = [w \in Workers |-> IdleJob]

Live(i) == row[i] = "live"

------------------------------------------------------------------------------
(* The rows.                                                               *)
Write(i) ==
    /\ i \in Active /\ row[i] = "unborn"
    /\ row' = [row EXCEPT ![i] = "live"]
    /\ UNCHANGED <<text, vec, job>>

(* Mutant: the vector of the old text stays.                               *)
VectorKept(i) == vec

(* What a delete, a change of text or a consolidation does to the vector:  *)
(* DELETE in editMemory and updateEngramTarget, ON DELETE CASCADE for a    *)
(* memory, the layer_embeddings triggers for the rest.                     *)
VectorDropped(i) == [vec EXCEPT ![i] = NoVector]

(* editMemory and mem_update of a memory or a trait; no write path changes *)
(* the body of an episode.                                                 *)
Edit(i) ==
    /\ i \in Active \ Episodes /\ Live(i)
    /\ text[i] < MaxEdits
    /\ text' = [text EXCEPT ![i] = @ + 1]
    /\ vec' = VectorDropped(i)
    /\ UNCHANGED <<row, job>>

Delete(i) ==
    /\ i \in Active /\ row[i] \in {"live", "held"}
    /\ row' = [row EXCEPT ![i] = "gone"]
    /\ vec' = VectorDropped(i)
    /\ UNCHANGED <<text, job>>

(* An episode is consolidated, or its memory is undone.                    *)
Hold(e) ==
    /\ e \in Active \cap Episodes /\ Live(e)
    /\ row' = [row EXCEPT ![e] = "held"]
    /\ vec' = VectorDropped(e)
    /\ UNCHANGED <<text, job>>

Release(e) ==
    /\ e \in Active \cap Episodes /\ row[e] = "held"
    /\ row' = [row EXCEPT ![e] = "live"]
    /\ UNCHANGED <<text, vec, job>>

------------------------------------------------------------------------------
(* The backfill: what is pending and how a bounded pass shares its rows.   *)
ScanOrder == [i \in 1 .. Cardinality(Items) |-> i]
Pending(S) == SelectSeq(ScanOrder, LAMBDA i : i \in S /\ Live(i) /\ vec[i] # text[i])

Smallest(a, b) == IF a <= b THEN a ELSE b
Prefix(s, n) == SubSeq(s, 1, Smallest(n, Len(s)))

(* Mutants: memories first, layers with the rest; traits before episodes.  *)
NothingReserved(layerPending) == 0
TraitsFirst(cap) == cap

(* A quarter of the pass for traits and episodes, and half of what is left *)
(* to them for each; what one does not use goes to the other.              *)
Reserved(layerPending) == Smallest((MaxRows + 3) \div 4, layerPending)
TraitHalf(cap) == (cap + 1) \div 2

(* The rows of one pass.  `first` is priorityIds: the memory a caller just *)
(* wrote goes to the head of its queue.                                    *)
Selected(first) ==
    LET traits == Pending(Traits)
        episodes == Pending(Episodes)
        memories == Prefix(Pending(Memories \cap first) \o Pending(Memories \ first),
                           MaxRows - Reserved(Len(traits) + Len(episodes)))
        cap == MaxRows - Len(memories)
        traitShare == Smallest(Len(traits), TraitHalf(cap))
        episodeShare == Smallest(Len(episodes), cap - traitShare)
    IN  memories \o Prefix(traits, cap - episodeShare) \o Prefix(episodes, episodeShare)

Works(w, rows, timed) ==
    job' = [job EXCEPT ![w] = [IdleJob EXCEPT !.pc = "embed", !.timed = timed,
                                              !.rows = rows, !.seen = text]]

Backfill(w) ==
    /\ job[w].pc = "idle"
    /\ \E first \in {{}} \cup {{m} : m \in Active \cap Memories} :
          /\ Selected(first) # <<>>
          /\ Works(w, Selected(first), FALSE)
    /\ UNCHANGED <<row, text, vec>>

(* embedLayerItem, after capture, crystallize or a rename.                 *)
EmbedWritten(w) ==
    /\ job[w].pc = "idle"
    /\ \E i \in Active \cap Layers : Live(i) /\ Works(w, <<i>>, TRUE)
    /\ UNCHANGED <<row, text, vec>>

------------------------------------------------------------------------------
(* embedInBatches, once per table: a batch is made of rows of one kind.    *)
SameKind(i, j) == \A K \in {Memories, Traits, Episodes} : i \in K <=> j \in K

OfKind(rows) == SelectSeq(rows, LAMBDA i : SameKind(i, Head(rows)))
Batch(w) == Prefix(OfKind(job[w].rows), BatchSize)

(* The state after the rows of `rest` are all that is left.                *)
Left(x, rest) ==
    IF rest = <<>> THEN IdleJob
    ELSE [x EXCEPT !.pc = "embed", !.rows = rest, !.ready = <<>>,
                   !.misses = IF SameKind(Head(x.rows), Head(rest)) THEN @ ELSE 0]

(* MAX_CONSECUTIVE_FAILURES: this failed batch is the second in a row.     *)
Down(x) == x.misses = 1

(* The embedder answers with a valid vector for the rows of `good`.  With  *)
(* none the batch failed, and the second one in a row ends this table.     *)
Answer(w, good) ==
    LET x == job[w]
        rest == SubSeq(x.rows, Len(Batch(w)) + 1, Len(x.rows))
        otherKinds == SelectSeq(x.rows, LAMBDA i : ~SameKind(i, Head(x.rows)))
    IN  job' = [job EXCEPT ![w] =
                  IF good # {}
                  THEN [x EXCEPT !.pc = "save", !.misses = 0, !.rows = rest,
                                 !.ready = SelectSeq(Batch(w), LAMBDA i : i \in good)]
                  ELSE IF Down(x) THEN Left(x, otherKinds)
                  ELSE Left([x EXCEPT !.misses = @ + 1], rest)]

Embed(w) ==
    /\ job[w].pc = "embed"
    /\ \E good \in SUBSET (ToSet(Batch(w)) \ Poison) : Answer(w, good)
    /\ UNCHANGED <<row, text, vec>>

(* Mutant: the vector is saved as it comes.                                *)
UncheckedLayer(w, i) == TRUE

(* saveLayerEmbeddingIfCurrent: checked and saved in one transaction.      *)
StillCurrent(w, i) == Live(i) /\ text[i] = job[w].seen[i]

AfterSave(w) ==
    LET x == job[w]
        rest == Tail(x.ready)
    IN  IF rest # <<>> THEN [x EXCEPT !.ready = rest]
        ELSE IF x.rows = <<>> THEN IdleJob
        ELSE [x EXCEPT !.pc = "embed", !.ready = <<>>,
                       !.misses = IF SameKind(Head(x.ready), Head(x.rows)) THEN @ ELSE 0]

(* INSERT OR REPLACE.  A memory row has a foreign key and no check: the    *)
(* vector of a deleted memory throws, which ends the whole pass.           *)
Save(w) ==
    /\ job[w].pc = "save"
    /\ LET i == Head(job[w].ready)
           stored == [vec EXCEPT ![i] = job[w].seen[i]]
       IN  \/ /\ i \in Memories /\ Live(i)
              /\ vec' = stored
              /\ job' = [job EXCEPT ![w] = AfterSave(w)]
           \/ /\ i \in Memories /\ ~Live(i)
              /\ job' = [job EXCEPT ![w] = IdleJob]
              /\ UNCHANGED vec
           \/ /\ i \in Layers
              /\ vec' = IF StillCurrent(w, i) THEN stored ELSE vec
              /\ job' = [job EXCEPT ![w] = AfterSave(w)]
    /\ UNCHANGED <<row, text>>

(* withDeadline: the write no longer waits, and a late answer goes nowhere. *)
TimesOut(w) ==
    /\ job[w].timed /\ job[w].pc = "embed"
    /\ job' = [job EXCEPT ![w] = IdleJob]
    /\ UNCHANGED <<row, text, vec>>

Next ==
    \/ \E i \in Items : Write(i) \/ Edit(i) \/ Delete(i) \/ Hold(i) \/ Release(i)
    \/ \E w \in Workers : Backfill(w) \/ EmbedWritten(w) \/ Embed(w) \/ Save(w) \/ TimesOut(w)

Spec == Init /\ [][Next]_vars

(* The nightly run starts a backfill every night whatever the writes do,   *)
(* and an embedder that keeps being asked for a row it can embed does not  *)
(* miss it for ever.  A process that dies is a worker that takes no step.  *)
Answered(w, i) ==
    /\ job[w].pc = "embed" /\ i \in ToSet(Batch(w))
    /\ Answer(w, ToSet(Batch(w)) \ Poison)
    /\ UNCHANGED <<row, text, vec>>

Fairness ==
    \A w \in Workers :
        /\ SF_vars(Backfill(w)) /\ WF_vars(Embed(w)) /\ WF_vars(Save(w))
        /\ \A i \in Items \ Poison : SF_vars(Answered(w, i))

FairSpec == Spec /\ Fairness

------------------------------------------------------------------------------
(* The vector of a trait or a pending episode always describes its present *)
(* text, and nothing else has one, whatever happened to the row while the  *)
(* embedder worked (layers.ts: "a vector for text that no longer exists    *)
(* would match the wrong thing").                                          *)
LayerVectorsCurrent ==
    \A i \in Layers : vec[i] # NoVector => Live(i) /\ vec[i] = text[i]

(* A deleted memory has no vector left to be found by, and none describes  *)
(* a text its memory has yet to get.                                       *)
MemoryVectorsOwned ==
    \A m \in Memories : vec[m] # NoVector => Live(m) /\ vec[m] <= text[m]

(* A memory is never found by what it used to say (edit.ts: "without       *)
(* deleting it, semantic search would keep finding the memory by what it   *)
(* used to say").                                                          *)
MemoryVectorsCurrent ==
    \A m \in Memories : vec[m] # NoVector => vec[m] = text[m]

(* Traits and episodes get their vectors whatever the backlog ahead of     *)
(* them, even one of memories and traits that never shrinks (store.ts: "a  *)
(* memory backlog at least as long as the cap would otherwise spend it all *)
(* every pass").                                                           *)
EpisodesIndexed ==
    \A e \in Episodes \ Poison :
        Live(e) /\ vec[e] = NoVector ~> ~Live(e) \/ vec[e] = text[e]

===============================================================================
