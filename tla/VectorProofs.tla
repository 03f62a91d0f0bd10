------------------------------ MODULE VectorProofs ------------------------------
(***************************************************************************)
(* What holds of the stored vectors for every set of rows, every number of *)
(* processes, every share of a pass and every way the embedder answers.    *)
(*                                                                         *)
(* Both theorems are about what one save may store after an await, so the  *)
(* inductive invariant says of a process only that the versions it read    *)
(* are versions the rows have had (SeenWithin).  Which rows it holds does  *)
(* not matter: a save checks its row again, or is stopped by the foreign   *)
(* key, whatever the scan had selected.                                    *)
(***************************************************************************)
EXTENDS VectorIndex, TLAPS

Statuses == {"unborn", "live", "held", "gone"}

RowsTyped ==
    /\ row \in [Items -> Statuses]
    /\ text \in [Items -> Nat]
    /\ vec \in [Items -> Nat \cup {NoVector}]

JobsTyped ==
    /\ job = [w \in Workers |-> job[w]]
    /\ \A w \in Workers :
          /\ job[w] = [pc |-> job[w].pc, timed |-> job[w].timed, rows |-> job[w].rows,
                       ready |-> job[w].ready, seen |-> job[w].seen, misses |-> job[w].misses]
          /\ job[w].seen \in [Items -> Nat]

SeenWithin == \A w \in Workers, i \in Items : job[w].seen[i] <= text[i]

VectorInv ==
    /\ RowsTyped
    /\ JobsTyped
    /\ SeenWithin
    /\ LayerVectorsCurrent
    /\ MemoryVectorsOwned

(* What a step may make of the job of a worker: the versions it read stay  *)
(* what they were, or are read anew, or are forgotten with the job.        *)
JobOf(x, seen) ==
    /\ x = [pc |-> x.pc, timed |-> x.timed, rows |-> x.rows,
            ready |-> x.ready, seen |-> x.seen, misses |-> x.misses]
    /\ x.seen = seen

NoneSeen == [i \in Items |-> 0]

LEMMA IdleSeen == JobOf(IdleJob, NoneSeen)
BY DEF JobOf, IdleJob, NoneSeen

LEMMA LeftSeen ==
    ASSUME NEW x, NEW rest, JobOf(x, x.seen)
    PROVE  JobOf(Left(x, rest), x.seen) \/ JobOf(Left(x, rest), NoneSeen)
<1>1. CASE rest = <<>>
  BY <1>1, IdleSeen DEF Left
<1>2. CASE rest # <<>>
  BY <1>2 DEF Left, JobOf
<1>. QED
  BY <1>1, <1>2

LEMMA FieldSeen ==
    ASSUME NEW x, NEW seen, JobOf(x, seen), NEW v
    PROVE  /\ JobOf([x EXCEPT !.pc = v], seen)
           /\ JobOf([x EXCEPT !.timed = v], seen)
           /\ JobOf([x EXCEPT !.rows = v], seen)
           /\ JobOf([x EXCEPT !.ready = v], seen)
           /\ JobOf([x EXCEPT !.misses = v], seen)
           /\ JobOf([x EXCEPT !.seen = v], v)
<1>1. JobOf([x EXCEPT !.pc = v], seen)
  BY DEF JobOf
<1>2. JobOf([x EXCEPT !.timed = v], seen)
  BY DEF JobOf
<1>3. JobOf([x EXCEPT !.rows = v], seen)
  BY DEF JobOf
<1>4. JobOf([x EXCEPT !.ready = v], seen)
  BY DEF JobOf
<1>5. JobOf([x EXCEPT !.misses = v], seen)
  BY DEF JobOf
<1>6. JobOf([x EXCEPT !.seen = v], v)
  BY DEF JobOf
<1>. QED
  BY <1>1, <1>2, <1>3, <1>4, <1>5, <1>6

LEMMA SavingSeen ==
    ASSUME NEW x, NEW rest, NEW ready, JobOf(x, x.seen)
    PROVE  JobOf([x EXCEPT !.pc = "save", !.misses = 0, !.rows = rest, !.ready = ready], x.seen)
<1>. DEFINE a == [x EXCEPT !.pc = "save"]
            b == [a EXCEPT !.misses = 0]
            c == [b EXCEPT !.rows = rest]
<1>1. JobOf(a, x.seen)
  BY FieldSeen
<1>2. JobOf(b, x.seen)
  BY <1>1, FieldSeen
<1>3. JobOf(c, x.seen)
  BY <1>2, FieldSeen
<1>. QED
  BY <1>3, FieldSeen

LEMMA ResumingSeen ==
    ASSUME NEW x, NEW misses, JobOf(x, x.seen)
    PROVE  JobOf([x EXCEPT !.pc = "embed", !.ready = <<>>, !.misses = misses], x.seen)
<1>. DEFINE a == [x EXCEPT !.pc = "embed"]
            b == [a EXCEPT !.ready = <<>>]
<1>1. JobOf(a, x.seen)
  BY FieldSeen
<1>2. JobOf(b, x.seen)
  BY <1>1, FieldSeen
<1>. QED
  BY <1>2, FieldSeen

LEMMA ReadSeen ==
    ASSUME NEW rows, NEW timed
    PROVE  JobOf([IdleJob EXCEPT !.pc = "embed", !.timed = timed, !.rows = rows, !.seen = text],
                 text)
<1>. DEFINE a == [IdleJob EXCEPT !.pc = "embed"]
            b == [a EXCEPT !.timed = timed]
            c == [b EXCEPT !.rows = rows]
<1>1. JobOf(a, NoneSeen)
  BY IdleSeen, FieldSeen
<1>2. JobOf(b, NoneSeen)
  BY <1>1, FieldSeen
<1>3. JobOf(c, NoneSeen)
  BY <1>2, FieldSeen
<1>. QED
  BY <1>3, FieldSeen

LEMMA InitInv == Init => VectorInv
<1>. SUFFICES ASSUME Init PROVE VectorInv
  OBVIOUS
<1>1. RowsTyped
  BY DEF Init, RowsTyped, Statuses, NoVector
<1>2. \A w \in Workers : JobOf(job[w], NoneSeen)
  BY IdleSeen DEF Init
<1>3. JobsTyped /\ SeenWithin
  BY <1>1, <1>2 DEF Init, JobsTyped, SeenWithin, JobOf, NoneSeen, RowsTyped
<1>4. LayerVectorsCurrent /\ MemoryVectorsOwned
  BY DEF Init, LayerVectorsCurrent, MemoryVectorsOwned, Items, Layers
<1>. QED
  BY <1>1, <1>3, <1>4 DEF VectorInv

(* A step of a worker that stores nothing preserves the invariant.         *)
LEMMA JobStep ==
    ASSUME VectorInv, NEW w \in Workers, NEW x, UNCHANGED <<row, text, vec>>,
           job' = [job EXCEPT ![w] = x],
           \/ JobOf(x, job[w].seen)
           \/ JobOf(x, NoneSeen)
           \/ JobOf(x, text)
    PROVE  VectorInv'
<1>1. x.seen \in [Items -> Nat] /\ \A i \in Items : x.seen[i] <= text[i]
  BY DEF VectorInv, RowsTyped, JobsTyped, SeenWithin, JobOf, NoneSeen
<1>2. \A v \in Workers : job'[v] = IF v = w THEN x ELSE job[v]
  BY DEF VectorInv, JobsTyped
<1>3. JobsTyped'
  BY <1>1, <1>2 DEF VectorInv, JobsTyped, JobOf
<1>4. SeenWithin'
  BY <1>1, <1>2 DEF VectorInv, SeenWithin
<1>. QED
  BY <1>3, <1>4 DEF VectorInv, RowsTyped, LayerVectorsCurrent, MemoryVectorsOwned, Live

(* The writes: each drops the vector whose row or text it changes.         *)
LEMMA WriteStep ==
    ASSUME VectorInv, NEW i \in Items,
           Write(i) \/ Edit(i) \/ Delete(i) \/ Hold(i) \/ Release(i)
    PROVE  VectorInv'
<1>. USE DEF Items, Layers, Live
<1>1. RowsTyped'
  BY DEF VectorInv, RowsTyped, Statuses, NoVector, Write, Edit, Delete, Hold, Release, VectorDropped
<1>2. JobsTyped' /\ \A k \in Items : text[k] <= text'[k]
  BY DEF VectorInv, RowsTyped, JobsTyped, Write, Edit, Delete, Hold, Release
<1>3. SeenWithin'
  <2>. SUFFICES ASSUME NEW w \in Workers, NEW k \in Items
                PROVE  job'[w].seen[k] <= text'[k]
    BY DEF SeenWithin
  <2>1. job[w].seen[k] \in Nat /\ text[k] \in Nat /\ text'[k] \in Nat
    BY <1>1 DEF VectorInv, RowsTyped, JobsTyped
  <2>2. job' = job
    BY DEF Write, Edit, Delete, Hold, Release
  <2>. QED
    BY <1>2, <2>1, <2>2 DEF VectorInv, SeenWithin
<1>4. LayerVectorsCurrent'
  <2>. SUFFICES ASSUME NEW k \in Layers, vec'[k] # NoVector
                PROVE  Live(k)' /\ vec'[k] = text'[k]
    BY DEF LayerVectorsCurrent
  <2>1. CASE k = i /\ (Write(i) \/ Release(i))
    BY <2>1 DEF VectorInv, RowsTyped, LayerVectorsCurrent, Write, Release
  <2>2. CASE k = i /\ (Edit(i) \/ Delete(i) \/ Hold(i))
    BY <2>2 DEF VectorInv, RowsTyped, Edit, Delete, Hold, VectorDropped
  <2>3. CASE k # i
    BY <2>3 DEF VectorInv, RowsTyped, LayerVectorsCurrent, Write, Edit, Delete, Hold, Release,
       VectorDropped
  <2>. QED
    BY <2>1, <2>2, <2>3
<1>5. MemoryVectorsOwned'
  <2>. SUFFICES ASSUME NEW k \in Memories, vec'[k] # NoVector
                PROVE  Live(k)' /\ vec'[k] <= text'[k]
    BY DEF MemoryVectorsOwned
  <2>1. CASE k = i /\ (Write(i) \/ Release(i))
    BY <2>1 DEF VectorInv, RowsTyped, MemoryVectorsOwned, Write, Release
  <2>2. CASE k = i /\ (Edit(i) \/ Delete(i) \/ Hold(i))
    BY <2>2 DEF VectorInv, RowsTyped, Edit, Delete, Hold, VectorDropped
  <2>3. CASE k # i
    BY <2>3 DEF VectorInv, RowsTyped, MemoryVectorsOwned, Write, Edit, Delete, Hold, Release,
       VectorDropped
  <2>. QED
    BY <2>1, <2>2, <2>3
<1>. QED
  BY <1>1, <1>2, <1>3, <1>4, <1>5 DEF VectorInv

LEMMA AnswerStep ==
    ASSUME VectorInv, NEW w \in Workers, Embed(w)
    PROVE  VectorInv'
<1>. DEFINE x == job[w]
<1>0. UNCHANGED <<row, text, vec>>
  BY DEF Embed
<1>1. JobOf(x, x.seen)
  BY DEF VectorInv, JobsTyped, JobOf
<1>2. PICK good : Answer(w, good)
  BY DEF Embed
<1>. DEFINE rest == SubSeq(x.rows, Len(Batch(w)) + 1, Len(x.rows))
            ready == SelectSeq(Batch(w), LAMBDA i : i \in good)
            others == SelectSeq(x.rows, LAMBDA i : ~SameKind(i, Head(x.rows)))
            missed == [x EXCEPT !.misses = @ + 1]
<1>. HIDE DEF rest, ready, others
<1>3. CASE good # {}
  <2>. DEFINE y == [x EXCEPT !.pc = "save", !.misses = 0, !.rows = rest, !.ready = ready]
  <2>1. JobOf(y, x.seen)
    BY <1>1, SavingSeen
  <2>2. job' = [job EXCEPT ![w] = y]
    BY <1>2, <1>3 DEF Answer, rest, ready
  <2>. QED
    BY <1>0, <2>1, <2>2, JobStep
<1>4. CASE good = {} /\ Down(x)
  <2>1. job' = [job EXCEPT ![w] = Left(x, others)]
    BY <1>2, <1>4 DEF Answer, others
  <2>. QED
    BY <1>0, <1>1, <2>1, LeftSeen, JobStep
<1>5. CASE good = {} /\ ~Down(x)
  <2>1. JobOf(missed, missed.seen) /\ missed.seen = x.seen
    BY <1>1 DEF JobOf
  <2>2. job' = [job EXCEPT ![w] = Left(missed, rest)]
    BY <1>2, <1>5 DEF Answer, rest
  <2>. QED
    BY <1>0, <2>1, <2>2, LeftSeen, JobStep
<1>. QED
  BY <1>3, <1>4, <1>5

(* A save: a memory that is gone ends the pass, a layer row that changed   *)
(* is discarded, and a vector that is stored describes a version its row   *)
(* has had, the present one when the row is a trait or an episode.         *)
LEMMA AfterSaveSeen ==
    ASSUME VectorInv, NEW w \in Workers
    PROVE  JobOf(AfterSave(w), job[w].seen) \/ JobOf(AfterSave(w), NoneSeen)
<1>1. JobOf(job[w], job[w].seen)
  BY DEF VectorInv, JobsTyped, JobOf
<1>2. \A x, rest : JobOf(x, x.seen) => JobOf([x EXCEPT !.ready = rest], x.seen)
  BY DEF JobOf
<1>3. CASE Tail(job[w].ready) # <<>>
  BY <1>1, <1>2, <1>3 DEF AfterSave
<1>4. CASE Tail(job[w].ready) = <<>> /\ job[w].rows = <<>>
  BY <1>4, IdleSeen DEF AfterSave
<1>5. CASE Tail(job[w].ready) = <<>> /\ job[w].rows # <<>>
  <2>. DEFINE x == job[w]
              misses == IF SameKind(Head(x.ready), Head(x.rows)) THEN x.misses ELSE 0
  <2>1. AfterSave(w) = [x EXCEPT !.pc = "embed", !.ready = <<>>, !.misses = misses]
    BY <1>5 DEF AfterSave
  <2>2. JobOf([x EXCEPT !.pc = "embed", !.ready = <<>>, !.misses = misses], x.seen)
    BY <1>1, ResumingSeen
  <2>. QED
    BY <2>1, <2>2
<1>. QED
  BY <1>3, <1>4, <1>5

LEMMA SaveStep ==
    ASSUME VectorInv, NEW w \in Workers, Save(w)
    PROVE  VectorInv'
<1>. DEFINE i == Head(job[w].ready)
            seen == job[w].seen
<1>1. UNCHANGED <<row, text>>
  BY DEF Save
<1>2. CASE i \in Memories /\ ~Live(i) /\ UNCHANGED vec /\ job' = [job EXCEPT ![w] = IdleJob]
  BY <1>1, <1>2, IdleSeen, JobStep
<1>3. CASE i \in Layers /\ ~StillCurrent(w, i) /\ UNCHANGED vec
           /\ job' = [job EXCEPT ![w] = AfterSave(w)]
  BY <1>1, <1>3, AfterSaveSeen, JobStep
<1>4. CASE /\ Live(i) /\ (i \in Memories \/ (i \in Layers /\ text[i] = seen[i]))
           /\ vec' = [vec EXCEPT ![i] = seen[i]]
           /\ job' = [job EXCEPT ![w] = AfterSave(w)]
  <2>. DEFINE x == AfterSave(w)
  <2>. HIDE DEF x
  <2>1. i \in Items /\ seen \in [Items -> Nat] /\ seen[i] <= text[i]
    BY <1>4 DEF VectorInv, JobsTyped, SeenWithin, Items
  <2>2. /\ x.seen \in [Items -> Nat]
        /\ \A k \in Items : x.seen[k] <= text[k]
        /\ JobOf(x, x.seen)
    BY AfterSaveSeen DEF VectorInv, RowsTyped, JobsTyped, SeenWithin, JobOf, NoneSeen, x
  <2>3. \A v \in Workers : job'[v] = IF v = w THEN x ELSE job[v]
    BY <1>4 DEF VectorInv, JobsTyped, x
  <2>4. JobsTyped' /\ SeenWithin'
    BY <1>1, <1>4, <2>2, <2>3 DEF VectorInv, JobsTyped, SeenWithin, JobOf, x
  <2>5. RowsTyped'
    BY <1>1, <1>4, <2>1 DEF VectorInv, RowsTyped
  <2>6. \A k \in Items : vec'[k] = IF k = i THEN seen[i] ELSE vec[k]
    BY <1>4, <2>1 DEF VectorInv, RowsTyped
  <2>7. LayerVectorsCurrent'
    BY <1>1, <1>4, <2>6, VectorAssumption DEF VectorInv, LayerVectorsCurrent, Live, Items
  <2>8. MemoryVectorsOwned'
    BY <1>1, <1>4, <2>1, <2>6 DEF VectorInv, MemoryVectorsOwned, Live, Items
  <2>. QED
    BY <2>4, <2>5, <2>7, <2>8 DEF VectorInv
<1>. QED
  BY <1>2, <1>3, <1>4 DEF Save, StillCurrent

LEMMA NextInv == VectorInv /\ [Next]_vars => VectorInv'
<1>. SUFFICES ASSUME VectorInv, [Next]_vars PROVE VectorInv'
  OBVIOUS
<1>1. CASE \E i \in Items : Write(i) \/ Edit(i) \/ Delete(i) \/ Hold(i) \/ Release(i)
  BY <1>1, WriteStep
<1>2. ASSUME NEW w \in Workers, Backfill(w) PROVE VectorInv'
  <2>1. PICK rows : Works(w, rows, FALSE)
    BY <1>2 DEF Backfill
  <2>. QED
    BY <1>2, <2>1, ReadSeen, JobStep DEF Backfill, Works
<1>3. ASSUME NEW w \in Workers, EmbedWritten(w) PROVE VectorInv'
  <2>1. PICK rows : Works(w, rows, TRUE)
    BY <1>3 DEF EmbedWritten
  <2>. QED
    BY <1>3, <2>1, ReadSeen, JobStep DEF EmbedWritten, Works
<1>4. ASSUME NEW w \in Workers, TimesOut(w) PROVE VectorInv'
  BY <1>4, IdleSeen, JobStep DEF TimesOut
<1>5. CASE UNCHANGED vars
  BY <1>5 DEF vars, VectorInv, RowsTyped, JobsTyped, SeenWithin, LayerVectorsCurrent,
     MemoryVectorsOwned, Live
<1>. QED
  BY <1>1, <1>2, <1>3, <1>4, <1>5, AnswerStep, SaveStep DEF Next

(* VectorInv holds of every run, with no fairness asked of anybody.        *)
THEOREM VectorInvHolds == Spec => []VectorInv
BY InitInv, NextInv, PTL DEF Spec

(* The vector of a trait or an episode describes its present text or does  *)
(* not exist, whatever happens while the embedder is awaited               *)
(* (layers.ts: saveLayerEmbeddingIfCurrent and the triggers of db.ts).     *)
THEOREM LayerVectorsCurrentHolds == Spec => []LayerVectorsCurrent
<1>1. VectorInv => LayerVectorsCurrent
  BY DEF VectorInv
<1>. QED
  BY <1>1, VectorInvHolds, PTL

(* A deleted memory leaves no vector, and no vector is of a text to come,  *)
(* though memory vectors are saved unchecked (store.ts).                   *)
THEOREM MemoryVectorsOwnedHolds == Spec => []MemoryVectorsOwned
<1>1. VectorInv => MemoryVectorsOwned
  BY DEF VectorInv
<1>. QED
  BY <1>1, VectorInvHolds, PTL

===============================================================================
