---------------------------- MODULE WritersProofs ----------------------------
(***************************************************************************)
(* The writers beside each other: those that look first and write after,   *)
(* and the tools of the server under retries.                              *)
(***************************************************************************)
EXTENDS WriteRaces, Dispatch, FiniteSetTheorems, TLAPS

(***************************************************************************)
(* What the writes that look first and write after can do to each other,   *)
(* for every set of texts, traits and processes.                           *)
(*                                                                         *)
(* That a lone process stores a text once is not inductive by itself: a    *)
(* process between its SELECT and its INSERT is a row to come, so CopyInv  *)
(* counts it with the rows there are.  StrengthIsEarned rests on what a process holds between the  *)
(* SELECT and the UPDATE of crystallize (UpdateInv): a strength that the   *)
(* row it read has earned, or will have when it is written.                *)
(***************************************************************************)
Ingesters == [phase : {"ingest"}, todo : SUBSET Texts]
Inserters == [phase : {"insert"}, todo : SUBSET Texts, text : Texts]
Namers    == [phase : {"new"}, todo : {{}}, name : TraitNames, add : Nat]
Updaters  == [phase : {"old"}, todo : {{}}, name : TraitNames, add : Nat,
              row : TraitIds, strength : Nat, due : Nat]
WriterStates == {Resting} \cup Ingesters \cup Inserters \cup Namers \cup Updaters

TraitStates == [state : {"unborn", "live", "dropped"}, name : TraitNames \cup {"none"}, strength : Nat]

RaceTypeOK ==
    /\ copies \in [Texts -> Nat]
    /\ trait \in [TraitIds -> TraitStates]
    /\ earned \in [TraitIds -> Nat]
    /\ writer \in [Writers -> WriterStates]

(* The processes about to insert a text.                                   *)
Inserting(x) == {w \in Writers : writer[w].phase = "insert" /\ writer[w].text = x}

CopyInv == \A x \in Texts : copies[x] + Cardinality(Inserting(x)) <= Cardinality(Writers)

(* What crystallize read, and is about to write over.                      *)
UpdateInv ==
    \A w \in Writers : writer[w].phase = "old" =>
        /\ trait[writer[w].row].state # "unborn"
        /\ writer[w].strength <= earned[writer[w].row] + writer[w].due

RaceInv == RaceTypeOK /\ CopyInv /\ UpdateInv /\ StrengthIsEarned

------------------------------------------------------------------------------
LEMMA WriterPhases ==
    ASSUME NEW s \in WriterStates
    PROVE  /\ s.phase = "ingest" => s \in Ingesters
           /\ s.phase = "insert" => s \in Inserters
           /\ s.phase = "new" => s \in Namers
           /\ s.phase = "old" => s \in Updaters
BY DEF WriterStates, Resting, Ingesters, Inserters, Namers, Updaters

LEMMA RestingPhase == Resting \in WriterStates /\ Resting.phase = "rest"
BY DEF WriterStates, Resting

LEMMA TraitConstants ==
    Unborn \in TraitStates /\ Unborn.state = "unborn" /\ Dropped \in TraitStates /\ Dropped.state = "dropped"
BY DEF Unborn, Dropped, TraitStates

LEMMA WritersCount == Cardinality(Writers) \in Nat
BY WritersAssumption, FS_CardinalityType

LEMMA InsertingCount ==
    ASSUME NEW x
    PROVE  /\ IsFiniteSet(Inserting(x))
           /\ Cardinality(Inserting(x)) \in Nat
           /\ Cardinality(Inserting(x)) <= Cardinality(Writers)
<1>1. Inserting(x) \subseteq Writers
  BY DEF Inserting
<1> QED
  BY <1>1, WritersAssumption, FS_Subset, FS_CardinalityType

LEMMA InitRace == RaceInit => RaceInv
<1> SUFFICES ASSUME RaceInit PROVE RaceInv
  OBVIOUS
<1>1. RaceTypeOK
  BY RestingPhase, TraitConstants DEF RaceInit, RaceTypeOK
<1>2. \A x \in Texts : copies[x] = 0
  BY DEF RaceInit
<1>3. CopyInv
  BY <1>2, InsertingCount, WritersCount DEF CopyInv
<1>4. UpdateInv
  BY RestingPhase DEF RaceInit, UpdateInv
<1>5. StrengthIsEarned
  BY TraitConstants DEF RaceInit, StrengthIsEarned, LiveTrait
<1> QED
  BY <1>1, <1>3, <1>4, <1>5 DEF RaceInv

------------------------------------------------------------------------------
(* A text that nobody new is about to insert, and whose rows do not grow.  *)
LEMMA FewerInserting ==
    ASSUME RaceTypeOK, RaceTypeOK', NEW x \in Texts,
           copies[x] + Cardinality(Inserting(x)) <= Cardinality(Writers),
           copies'[x] <= copies[x], Inserting(x)' \subseteq Inserting(x)
    PROVE  copies'[x] + Cardinality(Inserting(x)') <= Cardinality(Writers)
<1>1. IsFiniteSet(Inserting(x)) /\ Cardinality(Inserting(x)) \in Nat
  BY InsertingCount
<1>2. Cardinality(Inserting(x)') <= Cardinality(Inserting(x)) /\ Cardinality(Inserting(x)') \in Nat
  BY <1>1, FS_Subset, FS_CardinalityType
<1>3. copies[x] \in Nat /\ copies'[x] \in Nat
  BY DEF RaceTypeOK
<1> QED
  BY <1>1, <1>2, <1>3, WritersCount

(* A process that turns to anything but an INSERT of an episode.           *)
LEMMA CopiesStay ==
    ASSUME RaceInv, RaceTypeOK', NEW w \in Writers, NEW s \in WriterStates,
           writer' = [writer EXCEPT ![w] = s], s.phase # "insert", copies' = copies
    PROVE  CopyInv'
<1> SUFFICES ASSUME NEW x \in Texts
             PROVE  copies'[x] + Cardinality(Inserting(x)') <= Cardinality(Writers)
  BY DEF CopyInv
<1>1. Inserting(x)' \subseteq Inserting(x)
  BY DEF Inserting, RaceInv, RaceTypeOK
<1>2. copies'[x] <= copies[x]
  BY DEF RaceInv, RaceTypeOK
<1> QED
  BY <1>1, <1>2, FewerInserting DEF RaceInv, CopyInv

(* A process that turns to anything but an UPDATE of a trait.              *)
LEMMA TraitsStay ==
    ASSUME RaceInv, NEW w \in Writers, NEW s \in WriterStates,
           writer' = [writer EXCEPT ![w] = s], s.phase # "old", UNCHANGED <<trait, earned>>
    PROVE  UpdateInv' /\ StrengthIsEarned'
<1>1. UpdateInv'
  BY DEF RaceInv, RaceTypeOK, UpdateInv
<1>2. StrengthIsEarned'
  BY DEF RaceInv, StrengthIsEarned, LiveTrait
<1> QED
  BY <1>1, <1>2

LEMMA WriterTurns ==
    ASSUME RaceTypeOK, NEW w \in Writers, NEW s \in WriterStates,
           writer' = [writer EXCEPT ![w] = s]
    PROVE  writer' \in [Writers -> WriterStates]
BY DEF RaceTypeOK

LEMMA IngestKeeps ==
    ASSUME RaceInv, NEW w \in Writers, NEW S \in SUBSET Texts, Ingest(w, S)
    PROVE  RaceInv'
<1> DEFINE s == [phase |-> "ingest", todo |-> S]
<1>1. s \in WriterStates /\ s.phase = "ingest"
  BY DEF WriterStates, Ingesters
<1>2. writer' = [writer EXCEPT ![w] = s] /\ UNCHANGED <<copies, trait, earned>>
  BY DEF Ingest
<1> HIDE DEF s
<1>3. RaceTypeOK'
  BY <1>1, <1>2, WriterTurns DEF RaceInv, RaceTypeOK
<1> QED
  BY <1>1, <1>2, <1>3, CopiesStay, TraitsStay DEF RaceInv

LEMMA LookUpKeeps ==
    ASSUME RaceInv, NEW w \in Writers, NEW x \in writer[w].todo, LookUp(w, x)
    PROVE  RaceInv'
<1>1. writer[w] \in Ingesters /\ x \in Texts
  BY WriterPhases DEF LookUp, RaceInv, RaceTypeOK, Ingesters
<1>2. CASE Found(x)
  <2> DEFINE s == [writer[w] EXCEPT !.todo = writer[w].todo \ {x}]
  <2>1. s \in Ingesters
    BY <1>1 DEF Ingesters
  <2>2. s \in WriterStates /\ s.phase = "ingest"
    BY <2>1 DEF WriterStates, Ingesters
  <2>3. writer' = [writer EXCEPT ![w] = s] /\ UNCHANGED <<copies, trait, earned>>
    BY <1>2 DEF LookUp
  <2> HIDE DEF s
  <2>4. RaceTypeOK'
    BY <2>2, <2>3, WriterTurns DEF RaceInv, RaceTypeOK
  <2> QED
    BY <2>2, <2>3, <2>4, CopiesStay, TraitsStay DEF RaceInv
<1>3. CASE ~Found(x)
  <2> DEFINE s == [phase |-> "insert", todo |-> writer[w].todo, text |-> x]
  <2>1. s \in WriterStates /\ s.phase = "insert" /\ s.text = x
    BY <1>1 DEF WriterStates, Ingesters, Inserters
  <2>2. writer' = [writer EXCEPT ![w] = s] /\ UNCHANGED <<copies, trait, earned>>
    BY <1>3 DEF LookUp
  <2>3. copies[x] = 0
    BY <1>1, <1>3 DEF Found, RaceInv, RaceTypeOK
  <2> HIDE DEF s
  <2>4. RaceTypeOK'
    BY <2>1, <2>2, WriterTurns DEF RaceInv, RaceTypeOK
  <2>5. UpdateInv' /\ StrengthIsEarned'
    BY <2>1, <2>2, TraitsStay
  <2>6. ASSUME NEW y \in Texts
        PROVE  copies'[y] + Cardinality(Inserting(y)') <= Cardinality(Writers)
    <3>1. CASE y = x
      <4>1. Inserting(x)' \subseteq Writers
        BY DEF Inserting
      <4>2. Cardinality(Inserting(x)') <= Cardinality(Writers) /\ Cardinality(Inserting(x)') \in Nat
        BY <4>1, WritersAssumption, FS_Subset, FS_CardinalityType
      <4> QED
        BY <2>2, <2>3, <3>1, <4>2
    <3>2. CASE y # x
      <4>1. Inserting(y)' \subseteq Inserting(y)
        BY <2>1, <2>2, <3>2 DEF Inserting, RaceInv, RaceTypeOK
      <4>2. copies'[y] <= copies[y]
        BY <2>2 DEF RaceInv, RaceTypeOK
      <4> QED
        BY <2>4, <4>1, <4>2, FewerInserting DEF RaceInv, CopyInv
    <3> QED
      BY <3>1, <3>2
  <2> QED
    BY <2>4, <2>5, <2>6 DEF RaceInv, CopyInv
<1> QED
  BY <1>2, <1>3

LEMMA InsertKeeps ==
    ASSUME RaceInv, NEW w \in Writers, NEW x, x = writer[w].text, Insert(w)
    PROVE  RaceInv'
<1> DEFINE s == [phase |-> "ingest", todo |-> writer[w].todo \ {x}]
<1>1. writer[w] \in Inserters /\ x \in Texts
  BY WriterPhases DEF Insert, RaceInv, RaceTypeOK, Inserters
<1>2. s \in WriterStates /\ s.phase = "ingest"
  BY <1>1 DEF WriterStates, Ingesters, Inserters
<1>3. /\ writer[w].phase = "insert"
      /\ writer' = [writer EXCEPT ![w] = s]
      /\ copies' = [copies EXCEPT ![x] = copies[x] + 1]
      /\ UNCHANGED <<trait, earned>>
  BY DEF Insert
<1> HIDE DEF s
<1>4. RaceTypeOK'
  <2>1. copies' \in [Texts -> Nat]
    BY <1>1, <1>3 DEF RaceInv, RaceTypeOK
  <2> QED
    BY <1>2, <1>3, <2>1, WriterTurns DEF RaceInv, RaceTypeOK
<1>5. UpdateInv' /\ StrengthIsEarned'
  BY <1>2, <1>3, TraitsStay
<1>6. ASSUME NEW y \in Texts
      PROVE  copies'[y] + Cardinality(Inserting(y)') <= Cardinality(Writers)
  <2>1. CASE y = x
    <3>1. Inserting(x)' = Inserting(x) \ {w} /\ w \in Inserting(x)
      <4>1. \A v \in Writers : writer'[v] = IF v = w THEN s ELSE writer[v]
        BY <1>3 DEF RaceInv, RaceTypeOK
      <4> QED
        BY <1>2, <1>3, <4>1 DEF Inserting
    <3>2. Cardinality(Inserting(x)') = Cardinality(Inserting(x)) - 1
      BY SMTT(30), <3>1, InsertingCount, FS_RemoveElement
    <3>3. copies'[x] = copies[x] + 1 /\ copies[x] \in Nat
      BY <1>1, <1>3 DEF RaceInv, RaceTypeOK
    <3>4. copies[x] + Cardinality(Inserting(x)) <= Cardinality(Writers)
      BY <1>1 DEF RaceInv, CopyInv
    <3> QED
      BY <2>1, <3>2, <3>3, <3>4, InsertingCount, WritersCount
  <2>2. CASE y # x
    <3>1. Inserting(y)' \subseteq Inserting(y)
      <4>1. \A v \in Writers : writer'[v] = IF v = w THEN s ELSE writer[v]
        BY <1>3 DEF RaceInv, RaceTypeOK
      <4> QED
        BY <1>2, <4>1 DEF Inserting
    <3>2. copies'[y] <= copies[y]
      BY <1>3, <2>2 DEF RaceInv, RaceTypeOK
    <3> QED
      BY <1>4, <3>1, <3>2, FewerInserting DEF RaceInv, CopyInv
  <2> QED
    BY <2>1, <2>2
<1> QED
  BY <1>4, <1>5, <1>6 DEF RaceInv, CopyInv

LEMMA RestKeeps ==
    ASSUME RaceInv, NEW w \in Writers, Rest(w)
    PROVE  RaceInv'
<1>1. writer' = [writer EXCEPT ![w] = Resting] /\ UNCHANGED <<copies, trait, earned>>
  BY DEF Rest
<1>2. RaceTypeOK'
  BY <1>1, RestingPhase, WriterTurns DEF RaceInv, RaceTypeOK
<1> QED
  BY <1>1, <1>2, RestingPhase, CopiesStay, TraitsStay DEF RaceInv

LEMMA DeleteKeeps ==
    ASSUME RaceInv, NEW x \in Texts, NEW n \in 0..copies[x], NEW old, DeleteRows(x, n, old)
    PROVE  RaceInv'
<1>1. copies' = [copies EXCEPT ![x] = copies[x] - n] /\ UNCHANGED <<trait, earned, writer>>
  BY DEF DeleteRows
<1>2. copies[x] \in Nat /\ n \in Nat /\ n <= copies[x]
  BY DEF RaceInv, RaceTypeOK
<1>3. RaceTypeOK'
  BY <1>1, <1>2 DEF RaceInv, RaceTypeOK
<1>4. UpdateInv' /\ StrengthIsEarned'
  BY <1>1 DEF RaceInv, UpdateInv, StrengthIsEarned, LiveTrait
<1>5. ASSUME NEW y \in Texts
      PROVE  copies'[y] + Cardinality(Inserting(y)') <= Cardinality(Writers)
  <2>1. Inserting(y)' \subseteq Inserting(y)
    BY <1>1 DEF Inserting
  <2>2. copies'[y] <= copies[y]
    BY <1>1, <1>2 DEF RaceInv, RaceTypeOK
  <2> QED
    BY <1>3, <2>1, <2>2, FewerInserting DEF RaceInv, CopyInv
<1> QED
  BY <1>3, <1>4, <1>5 DEF RaceInv, CopyInv

------------------------------------------------------------------------------
(* crystallize, and the writes of traits.                                  *)
LEMMA CrystallizeKeeps ==
    ASSUME RaceInv, NEW w \in Writers, NEW n \in TraitNames, NEW k \in 1..MaxEvidence, Crystallize(w, n, k)
    PROVE  RaceInv'
<1>1. k \in Nat
  BY WritersAssumption
<1>2. UNCHANGED <<copies, trait, earned>>
  BY DEF Crystallize
<1>3. CASE writer' = [writer EXCEPT ![w] = [phase |-> "new", todo |-> {}, name |-> n, add |-> k]]
  <2> DEFINE s == [phase |-> "new", todo |-> {}, name |-> n, add |-> k]
  <2>1. s \in WriterStates /\ s.phase = "new"
    BY <1>1 DEF WriterStates, Namers
  <2>2. writer' = [writer EXCEPT ![w] = s]
    BY <1>3
  <2> HIDE DEF s
  <2>3. RaceTypeOK'
    BY <1>2, <2>1, <2>2, WriterTurns DEF RaceInv, RaceTypeOK
  <2> QED
    BY <1>2, <2>1, <2>2, <2>3, CopiesStay, TraitsStay DEF RaceInv
<1>4. ASSUME NEW i \in SelectedRows(n),
             writer' = [writer EXCEPT ![w] = [phase |-> "old", todo |-> {}, name |-> n,
                add |-> k, row |-> i, strength |-> trait[i].strength + k,
                due |-> IF trait[i].name = n THEN k ELSE 0]]
      PROVE  RaceInv'
  <2>1. i \in TraitIds /\ trait[i].state = "live" /\ trait[i].name = n
    BY DEF SelectedRows, NamedRows, LiveTrait
  <2>2. PICK total \in Nat : total = trait[i].strength + k
    BY <1>1, <2>1 DEF RaceInv, RaceTypeOK, TraitStates
  <2>3. total <= earned[i] + k
    BY <1>1, <2>1, <2>2 DEF RaceInv, RaceTypeOK, TraitStates, StrengthIsEarned, LiveTrait
  <2> DEFINE s == [phase |-> "old", todo |-> {}, name |-> n, add |-> k, row |-> i, strength |-> total, due |-> k]
  <2>4. writer' = [writer EXCEPT ![w] = s]
    BY <1>4, <2>1, <2>2
  <2>5. s \in Updaters
    BY <1>1, <2>1 DEF Updaters
  <2>6. s \in WriterStates /\ s.phase = "old" /\ s.row = i /\ s.strength = total /\ s.due = k
    BY <2>5 DEF WriterStates
  <2> HIDE DEF s
  <2>7. RaceTypeOK'
    BY <1>2, <2>4, <2>6, WriterTurns DEF RaceInv, RaceTypeOK
  <2>8. CopyInv'
    BY <1>2, <2>4, <2>6, <2>7, CopiesStay
  <2>9. UpdateInv'
    <3>1. \A v \in Writers : writer'[v] = IF v = w THEN s ELSE writer[v]
      BY <2>4 DEF RaceInv, RaceTypeOK
    <3> SUFFICES ASSUME NEW v \in Writers, writer'[v].phase = "old"
                 PROVE  /\ trait[writer'[v].row].state # "unborn"
                        /\ writer'[v].strength <= earned[writer'[v].row] + writer'[v].due
      BY <1>2 DEF UpdateInv
    <3>2. CASE v = w
      BY <2>1, <2>3, <2>6, <3>1, <3>2
    <3>3. CASE v # w
      BY <3>1, <3>3 DEF RaceInv, UpdateInv
    <3> QED
      BY <3>2, <3>3
  <2> QED
    BY <1>2, <2>7, <2>8, <2>9 DEF RaceInv, StrengthIsEarned, LiveTrait
<1> QED
  BY <1>3, <1>4 DEF Crystallize

(* A write of one trait that was born keeps what others hold about it.     *)
LEMMA UpdateKeeps ==
    ASSUME RaceInv, NEW w \in Writers, UpdateTrait(w)
    PROVE  RaceInv'
<1>1. writer' = [writer EXCEPT ![w] = Resting] /\ copies' = copies /\ writer[w].phase = "old"
  BY DEF UpdateTrait
<1>2. \A v \in Writers : writer'[v].phase = "old" => writer'[v] = writer[v]
  BY <1>1, RestingPhase DEF RaceInv, RaceTypeOK
<1>3. writer[w] \in Updaters
  BY <1>1, WriterPhases DEF RaceInv, RaceTypeOK
<1>4. PICK i \in TraitIds, total \in Nat, due \in Nat :
        i = writer[w].row /\ total = writer[w].strength /\ due = writer[w].due
  BY <1>3 DEF Updaters
<1>5. writer' \in [Writers -> WriterStates]
  BY <1>1, RestingPhase, WriterTurns DEF RaceInv
<1>6. CASE ~LiveTrait(i)
  <2>1. UNCHANGED <<trait, earned>>
    BY <1>4, <1>6 DEF UpdateTrait
  <2>2. RaceTypeOK'
    BY <1>1, <1>5, <2>1 DEF RaceInv, RaceTypeOK
  <2> QED
    BY <1>1, <2>1, <2>2, RestingPhase, CopiesStay, TraitsStay DEF RaceInv
<1>7. CASE LiveTrait(i)
  <2>1. /\ trait' = [trait EXCEPT ![i] = [trait[i] EXCEPT !.strength = total]]
        /\ earned' = [earned EXCEPT ![i] = earned[i] + due]
    BY <1>4, <1>7 DEF UpdateTrait
  <2>2. trait[i] \in TraitStates /\ earned[i] \in Nat
    BY DEF RaceInv, RaceTypeOK
  <2>3. [trait[i] EXCEPT !.strength = total] \in TraitStates
    BY <2>2 DEF TraitStates
  <2>4. RaceTypeOK'
    BY <1>1, <1>5, <2>1, <2>2, <2>3 DEF RaceInv, RaceTypeOK
  <2>5. CopyInv'
    BY <1>1, <2>4, RestingPhase, CopiesStay
  <2>6. total <= earned[i] + due
    BY <1>1, <1>4 DEF RaceInv, UpdateInv
  <2>7. ASSUME NEW j \in TraitIds
        PROVE  /\ trait'[j].state = trait[j].state
               /\ earned[j] <= earned'[j]
               /\ j = i => trait'[j].strength = total /\ earned'[j] = earned[i] + due
               /\ j # i => trait'[j] = trait[j] /\ earned'[j] = earned[j]
    BY <2>1, <2>2 DEF RaceInv, RaceTypeOK, TraitStates
  <2>8. UpdateInv'
    <3> SUFFICES ASSUME NEW v \in Writers, writer'[v].phase = "old"
                 PROVE  /\ trait'[writer'[v].row].state # "unborn"
                        /\ writer'[v].strength <= earned'[writer'[v].row] + writer'[v].due
      BY DEF UpdateInv
    <3>1. writer'[v] = writer[v] /\ writer[v] \in Updaters
      BY <1>2, WriterPhases DEF RaceInv, RaceTypeOK
    <3>2. PICK j \in TraitIds, sum \in Nat, rest \in Nat :
            j = writer[v].row /\ sum = writer[v].strength /\ rest = writer[v].due
      BY <3>1 DEF Updaters
    <3>3. trait[j].state # "unborn" /\ sum <= earned[j] + rest
      BY <3>1, <3>2 DEF RaceInv, UpdateInv
    <3>4. earned[j] \in Nat /\ earned'[j] \in Nat
      BY <2>4 DEF RaceInv, RaceTypeOK
    <3> QED
      BY <2>7, <3>1, <3>2, <3>3, <3>4
  <2>9. StrengthIsEarned'
    BY <2>6, <2>7 DEF RaceInv, StrengthIsEarned, LiveTrait
  <2> QED
    BY <2>4, <2>5, <2>8, <2>9 DEF RaceInv
<1> QED
  BY <1>6, <1>7

LEMMA InsertTraitKeeps ==
    ASSUME RaceInv, NEW w \in Writers, NEW i \in TraitIds, InsertTrait(w, i)
    PROVE  RaceInv'
<1>1. /\ writer' = [writer EXCEPT ![w] = Resting] /\ copies' = copies
      /\ writer[w].phase = "new" /\ trait[i] = Unborn
  BY DEF InsertTrait
<1>2. \A v \in Writers : writer'[v].phase = "old" => writer'[v] = writer[v]
  BY <1>1, RestingPhase DEF RaceInv, RaceTypeOK
<1>3. writer[w] \in Namers
  BY <1>1, WriterPhases DEF RaceInv, RaceTypeOK
<1>4. PICK n \in TraitNames, k \in Nat : n = writer[w].name /\ k = writer[w].add
  BY <1>3 DEF Namers
<1>5. writer' \in [Writers -> WriterStates]
  BY <1>1, RestingPhase, WriterTurns DEF RaceInv
<1>6. CASE Taken(n)
  <2>1. UNCHANGED <<trait, earned>>
    BY <1>4, <1>6 DEF InsertTrait
  <2>2. RaceTypeOK'
    BY <1>1, <1>5, <2>1 DEF RaceInv, RaceTypeOK
  <2> QED
    BY <1>1, <2>1, <2>2, RestingPhase, CopiesStay, TraitsStay DEF RaceInv
<1>7. CASE ~Taken(n)
  <2>1. trait' = [trait EXCEPT ![i] = Row(n, k)] /\ earned' = [earned EXCEPT ![i] = k]
    BY <1>4, <1>7 DEF InsertTrait
  <2>2. Row(n, k) \in TraitStates /\ Row(n, k).strength = k /\ Row(n, k).state = "live"
    BY DEF Row, TraitStates
  <2>3. RaceTypeOK'
    BY <1>1, <1>5, <2>1, <2>2 DEF RaceInv, RaceTypeOK
  <2>4. CopyInv'
    BY <1>1, <2>3, RestingPhase, CopiesStay
  <2>5. ASSUME NEW j \in TraitIds
        PROVE  /\ j = i => trait'[j].strength = k /\ earned'[j] = k
               /\ j # i => trait'[j] = trait[j] /\ earned'[j] = earned[j]
    BY <2>1, <2>2 DEF RaceInv, RaceTypeOK
  <2>6. UpdateInv'
    <3> SUFFICES ASSUME NEW v \in Writers, writer'[v].phase = "old"
                 PROVE  /\ trait'[writer'[v].row].state # "unborn"
                        /\ writer'[v].strength <= earned'[writer'[v].row] + writer'[v].due
      BY DEF UpdateInv
    <3>1. writer'[v] = writer[v] /\ writer[v] \in Updaters
      BY <1>2, WriterPhases DEF RaceInv, RaceTypeOK
    <3>2. PICK j \in TraitIds : j = writer[v].row
      BY <3>1 DEF Updaters
    <3>3. trait[j].state # "unborn" /\ writer[v].strength <= earned[j] + writer[v].due
      BY <3>1, <3>2 DEF RaceInv, UpdateInv
    <3>4. j # i
      BY <1>1, <3>3, TraitConstants
    <3> QED
      BY <2>5, <3>1, <3>2, <3>3, <3>4
  <2>7. StrengthIsEarned'
    BY <2>5 DEF RaceInv, StrengthIsEarned, LiveTrait
  <2> QED
    BY <2>3, <2>4, <2>6, <2>7 DEF RaceInv
<1> QED
  BY <1>6, <1>7

(* A rename and a deletion: no row is born, and no live one gets strength. *)
LEMMA RowKeeps ==
    ASSUME RaceInv, NEW i \in TraitIds, NEW r \in TraitStates, LiveTrait(i), r.state # "unborn",
           r.state = "live" => r.strength = trait[i].strength,
           trait' = [trait EXCEPT ![i] = r], UNCHANGED <<copies, earned, writer>>
    PROVE  RaceInv'
<1>1. RaceTypeOK'
  BY DEF RaceInv, RaceTypeOK
<1>2. CopyInv'
  BY DEF RaceInv, CopyInv, Inserting
<1>3. \A j \in TraitIds : trait'[j] = IF j = i THEN r ELSE trait[j]
  BY DEF RaceInv, RaceTypeOK
<1>4. UpdateInv'
  <2> SUFFICES ASSUME NEW v \in Writers, writer[v].phase = "old"
               PROVE  /\ trait'[writer[v].row].state # "unborn"
                      /\ writer[v].strength <= earned[writer[v].row] + writer[v].due
    BY DEF UpdateInv
  <2>1. writer[v].row \in TraitIds
    BY WriterPhases DEF RaceInv, RaceTypeOK, Updaters
  <2> QED
    BY <1>3, <2>1 DEF RaceInv, UpdateInv
<1>5. StrengthIsEarned'
  BY <1>3 DEF RaceInv, StrengthIsEarned, LiveTrait
<1> QED
  BY <1>1, <1>2, <1>4, <1>5 DEF RaceInv

LEMMA RenameKeeps ==
    ASSUME RaceInv, NEW i \in TraitIds, NEW n \in TraitNames, Rename(i, n)
    PROVE  RaceInv'
<1>1. /\ LiveTrait(i) /\ trait' = [trait EXCEPT ![i] = [trait[i] EXCEPT !.name = n]]
      /\ UNCHANGED <<copies, earned, writer>>
  BY DEF Rename
<1>2. trait[i] \in TraitStates
  BY DEF RaceInv, RaceTypeOK
<1>3. /\ [trait[i] EXCEPT !.name = n] \in TraitStates
      /\ [trait[i] EXCEPT !.name = n].state = trait[i].state
      /\ [trait[i] EXCEPT !.name = n].strength = trait[i].strength
  BY <1>2 DEF TraitStates
<1> QED
  BY <1>1, <1>3, RowKeeps DEF LiveTrait

LEMMA ForgetTraitKeeps ==
    ASSUME RaceInv, NEW i \in TraitIds, ForgetTrait(i)
    PROVE  RaceInv'
BY RowKeeps, TraitConstants DEF ForgetTrait

LEMMA NextRace == RaceInv /\ [RaceNext]_raceVars => RaceInv'
<1> SUFFICES ASSUME RaceInv, [RaceNext]_raceVars PROVE RaceInv'
  OBVIOUS
<1>1. ASSUME NEW w \in Writers, NEW S \in SUBSET Texts, Ingest(w, S) PROVE RaceInv'
  BY <1>1, IngestKeeps
<1>2. ASSUME NEW w \in Writers, NEW x \in writer[w].todo, LookUp(w, x) PROVE RaceInv'
  BY <1>2, LookUpKeeps
<1>3. ASSUME NEW w \in Writers, Insert(w) PROVE RaceInv'
  <2>1. PICK x : x = writer[w].text
    OBVIOUS
  <2> QED
    BY <1>3, <2>1, InsertKeeps
<1>4. ASSUME NEW w \in Writers, Rest(w) PROVE RaceInv'
  BY <1>4, RestKeeps
<1>5. ASSUME NEW w \in Writers, UpdateTrait(w) PROVE RaceInv'
  BY <1>5, UpdateKeeps
<1>6. ASSUME NEW w \in Writers, NEW n \in TraitNames, NEW k \in 1..MaxEvidence, Crystallize(w, n, k)
      PROVE  RaceInv'
  BY <1>6, CrystallizeKeeps
<1>7. ASSUME NEW w \in Writers, NEW i \in TraitIds, InsertTrait(w, i) PROVE RaceInv'
  BY <1>7, InsertTraitKeeps
<1>8. ASSUME NEW S \in SUBSET Migrated, Migrate(S) PROVE RaceInv'
  BY <1>8 DEF Migrate, RaceInv, RaceTypeOK, CopyInv, Inserting, UpdateInv, StrengthIsEarned, LiveTrait
<1>9. CASE HashBare
  BY <1>9 DEF HashBare, RaceInv, RaceTypeOK, CopyInv, Inserting, UpdateInv, StrengthIsEarned, LiveTrait
<1>10. ASSUME NEW x \in Texts, NEW n \in 0..copies[x], NEW old \in BOOLEAN,
             DeleteRows(x, n, old)
      PROVE  RaceInv'
  BY <1>10, DeleteKeeps
<1>11. ASSUME NEW i \in TraitIds, ForgetTrait(i) PROVE RaceInv'
  BY <1>11, ForgetTraitKeeps
<1>12. ASSUME NEW i \in TraitIds, NEW n \in TraitNames, Rename(i, n) PROVE RaceInv'
  BY <1>12, RenameKeeps
<1>13. CASE UNCHANGED raceVars
  BY <1>13 DEF raceVars, RaceInv, RaceTypeOK, CopyInv, Inserting, UpdateInv, StrengthIsEarned, LiveTrait
<1> QED
  BY <1>1, <1>2, <1>3, <1>4, <1>5, <1>6, <1>7, <1>8, <1>9, <1>10, <1>11, <1>12, <1>13 DEF RaceNext

(* Without a migration every row of a text is one that capture inserted.   *)
NoneMigrated == migrated = [x \in Texts |-> "no"]

LEMMA NextMigrated ==
    ASSUME Migrated = {}, NoneMigrated, [RaceNext]_raceVars
    PROVE  NoneMigrated'
<1>1. ASSUME NEW S \in SUBSET Migrated, Migrate(S) PROVE FALSE
  BY <1>1 DEF Migrate, NoneMigrated
<1>2. CASE HashBare
  BY <1>2 DEF HashBare, NoneMigrated
<1>3. ASSUME NEW x \in Texts, NEW n, NEW old \in BOOLEAN, DeleteRows(x, n, old)
      PROVE  migrated' = migrated
  BY <1>3 DEF DeleteRows, NoneMigrated
<1>4. CASE migrated' = migrated
  BY <1>4 DEF NoneMigrated
<1> QED
  BY <1>1, <1>2, <1>3, <1>4
     DEF RaceNext, Ingest, LookUp, Insert, Rest, UpdateTrait, Crystallize, InsertTrait,
         ForgetTrait, Rename, raceVars

(* One process that captures and nothing to migrate: a text is stored once *)
(* however often the process ingests it, crashes between the SELECT and    *)
(* the INSERT of capture and starts again, and whatever is deleted in      *)
(* between.  Each of the two assumptions is needed.                        *)
THEOREM SoleWriterStoresOnce ==
    ASSUME Cardinality(Writers) = 1, Migrated = {}
    PROVE  RaceSpec => []TextsStoredOnce
<1>1. RaceInit => RaceInv /\ NoneMigrated
  BY InitRace DEF RaceInit, NoneMigrated
<1>2. RaceInv /\ NoneMigrated /\ [RaceNext]_raceVars => RaceInv' /\ NoneMigrated'
  BY NextRace, NextMigrated
<1>3. RaceInv /\ NoneMigrated => TextsStoredOnce
  <2> SUFFICES ASSUME RaceInv, NoneMigrated, NEW x \in Texts PROVE RowsOf(x) <= 1
    BY DEF TextsStoredOnce
  <2>1. copies[x] \in Nat /\ copies[x] + Cardinality(Inserting(x)) <= 1
    BY DEF RaceInv, RaceTypeOK, CopyInv
  <2>2. RowsOf(x) = copies[x]
    BY <2>1 DEF RowsOf, NoneMigrated
  <2> QED
    BY <2>1, <2>2, InsertingCount
<1> QED
  BY <1>1, <1>2, <1>3, PTL DEF RaceSpec

(* No interleaving of crystallize with itself, a rename or a deletion      *)
(* gives a trait more strength than the evidence that was given to it.     *)
THEOREM StrengthIsEarnedHolds == RaceSpec => []StrengthIsEarned
<1>1. RaceInv => StrengthIsEarned
  BY DEF RaceInv
<1> QED
  BY InitRace, NextRace, <1>1, PTL DEF RaceSpec

------------------------------------------------------------------------------
(***************************************************************************)
(* Retries of any number of clients, each sent any number of times, leave  *)
(* no second row, and an error of any tool but reinforce stored nothing.   *)
(*                                                                         *)
(* Two different facts stop the second row.  A capture is stopped by the   *)
(* text it would repeat: bodies are unique, and the row a capture left is  *)
(* the one with its body.  A consolidate is stopped by its episodes: while *)
(* its memory is there none of them is pending, unless somebody undid a    *)
(* consolidation (calm).                                                   *)
(***************************************************************************)
Said == {"said"} \X CallBodies
Updates == Nat \X CallNames
Bodies == ({"earlier"} \X Nat) \cup Said \cup ({"update"} \X Nat \X CallNames)

EpisodeRows == [id : Nat, body : Bodies, into : Nat, by : Callers \cup {Others}]
TraitRows == [id : Nat, name : CallNames, strength : Nat]
CallRecords ==
    [tool : Tools \cup {"none"}, arg : Said \cup (SUBSET Nat) \cup CallNames \cup Updates,
     sends : Nat, phase : {"unsent", "sent", "boosted", "embedding", "answered", "lost"},
     answer : {"none", "ok", "error"}, wrote : BOOLEAN, calm : BOOLEAN]

RowTypes ==
    /\ lastId \in Nat
    /\ episodes \subseteq EpisodeRows
    /\ \A e \in episodes : e.id <= lastId
    /\ \A m \in memories : m.id \in 1 .. lastId
    /\ traits \subseteq TraitRows
    /\ call \in [Callers -> CallRecords]

(* A call names what was there when it was sent: a new row has a new id.   *)
ArgsTyped ==
    \A c \in Callers :
        /\ call[c].tool = "capture" => call[c].arg \in Said
        /\ call[c].tool = "consolidate" => \A i \in call[c].arg : i <= lastId
        /\ call[c].tool = "crystallize" => call[c].arg \in CallNames
        /\ call[c].tool = "mem_update" => call[c].arg \in Updates
        /\ call[c].tool \in {"consolidate", "reinforce"} => call[c].arg \in SUBSET Nat

(* The body a call would store.                                            *)
BodyOf(c) == IF call[c].tool = "capture" THEN call[c].arg
             ELSE <<"update", call[c].arg[1], call[c].arg[2]>>

BodiesUnique == \A e, f \in episodes : e.body = f.body => e = f

EpisodesOf(c) == {e \in episodes : e.by = c}
MemoriesOf(c) == {m \in memories : m.by = c}

EpisodesExplained ==
    \A c \in Callers : \A e \in EpisodesOf(c) :
        call[c].tool \in {"capture", "mem_update"} /\ e.body = BodyOf(c)

MemoriesExplained ==
    \A c \in Callers :
        MemoriesOf(c) # {} =>
            /\ call[c].tool = "consolidate"
            /\ call[c].calm => /\ TakenEpisodes(call[c].arg) = {}
                               /\ \A m, n \in MemoriesOf(c) : m = n

BoostsAreReinforce == \A c \in Callers : call[c].phase = "boosted" => call[c].tool = "reinforce"

UnsentAreNew == \A c \in Callers : call[c].phase = "unsent" <=> call[c].tool = "none"

RetryInv ==
    /\ RowTypes /\ BodiesUnique /\ EpisodesExplained /\ MemoriesExplained
    /\ ArgsTyped /\ BoostsAreReinforce /\ UnsentAreNew /\ ErrorsWroteNothing

(***************************************************************************)
(* Initial states.                                                         *)
(***************************************************************************)
LEMMA DispatchInitInv == DispatchInit => RetryInv
<1> SUFFICES ASSUME DispatchInit PROVE RetryInv
  OBVIOUS
<1>1. RowTypes
  <2>1. Unsent \in CallRecords
    BY DEF Unsent, CallRecords
  <2> QED
    BY <2>1, DispatchAssumption DEF DispatchInit, RowTypes, Pending, EpisodeRows, TraitRows, Bodies
<1>2. BodiesUnique
  BY DEF DispatchInit, BodiesUnique
<1>3. \A c \in Callers : EpisodesOf(c) = {} /\ MemoriesOf(c) = {}
  BY DispatchAssumption DEF DispatchInit, EpisodesOf, MemoriesOf, Others
<1>4. \A c \in Callers : call[c].phase = "unsent" /\ call[c].tool = "none"
  BY DEF DispatchInit, Unsent
<1> QED
  BY <1>1, <1>2, <1>3, <1>4 DEF RetryInv, EpisodesExplained, MemoriesExplained,
     BoostsAreReinforce, UnsentAreNew, ArgsTyped, ErrorsWroteNothing

(***************************************************************************)
(* What a step may do to the calls and to the rows.  Most steps only move  *)
(* a call on, without changing what it asks, and only drop or relabel rows.*)
(***************************************************************************)
RowTypesNext ==
    /\ lastId' \in Nat /\ lastId <= lastId'
    /\ episodes' \subseteq EpisodeRows
    /\ \A e \in episodes' : e.id <= lastId'
    /\ \A m \in memories' : m.id \in 1 .. lastId'
    /\ traits' \subseteq TraitRows

KeepsAsking ==
    /\ call' \in [Callers -> CallRecords]
    /\ \A c \in Callers :
          /\ call'[c].tool = call[c].tool /\ call'[c].calm = call[c].calm
          /\ call'[c].arg = call[c].arg \/ (call[c].tool = "reinforce" /\ call'[c].arg \in SUBSET Nat)
    /\ BoostsAreReinforce' /\ UnsentAreNew' /\ ErrorsWroteNothing'

EpisodesDescend ==
    \A e \in episodes' : \E f \in episodes :
        f.id = e.id /\ f.body = e.body /\ f.by = e.by /\ (e.into = Pending => f.into = Pending)

MemoriesDescend == \A m \in memories' : m \in memories \/ m.by = Others

(* A call whose record changes in its phase, its answer and `wrote` alone. *)
LEMMA OneCallMoves ==
    ASSUME RetryInv, NEW c \in Callers, call[c].tool # "none",
           NEW phase \in {"sent", "embedding", "answered", "lost"},
           NEW answer \in {"none", "ok", "error"}, NEW wrote \in BOOLEAN, NEW sends \in Nat,
           call' = [call EXCEPT ![c] = [call[c] EXCEPT !.phase = phase, !.answer = answer,
                                                       !.wrote = wrote, !.sends = sends]],
           (phase = "answered" /\ answer = "error" /\ call[c].tool # "reinforce") => ~wrote
    PROVE  KeepsAsking
<1> DEFINE r == [call[c] EXCEPT !.phase = phase, !.answer = answer, !.wrote = wrote, !.sends = sends]
<1>1. call \in [Callers -> CallRecords]
  BY DEF RetryInv, RowTypes
<1>2. r \in CallRecords
  BY ZenonT(30), <1>1 DEF CallRecords
<1>3. /\ r.tool = call[c].tool /\ r.calm = call[c].calm /\ r.arg = call[c].arg
      /\ r.phase = phase /\ r.answer = answer /\ r.wrote = wrote
  BY <1>1 DEF CallRecords
<1>4. call' = [call EXCEPT ![c] = r]
  OBVIOUS
<1> HIDE DEF r
<1>5. call'[c] = r /\ \A d \in Callers \ {c} : call'[d] = call[d]
  BY <1>1, <1>4
<1>6. call' \in [Callers -> CallRecords]
  BY <1>1, <1>2, <1>4
<1>7. BoostsAreReinforce' /\ UnsentAreNew' /\ ErrorsWroteNothing'
  BY <1>3, <1>5 DEF RetryInv, BoostsAreReinforce, UnsentAreNew, ErrorsWroteNothing
<1> QED
  BY <1>3, <1>5, <1>6, <1>7 DEF KeepsAsking

LEMMA CallsStand == ASSUME RetryInv, UNCHANGED call PROVE KeepsAsking
BY DEF RetryInv, RowTypes, KeepsAsking, BoostsAreReinforce, UnsentAreNew, ErrorsWroteNothing

(* What the calls ask stays typed when they keep asking it.                *)
LEMMA ArgsKept == ASSUME RetryInv, KeepsAsking, lastId' \in Nat, lastId <= lastId' PROVE ArgsTyped'
<1> SUFFICES ASSUME NEW c \in Callers
             PROVE  /\ call'[c].tool = "capture" => call'[c].arg \in Said
                    /\ call'[c].tool = "consolidate" => \A i \in call'[c].arg : i <= lastId'
                    /\ call'[c].tool = "crystallize" => call'[c].arg \in CallNames
                    /\ call'[c].tool = "mem_update" => call'[c].arg \in Updates
                    /\ call'[c].tool \in {"consolidate", "reinforce"} => call'[c].arg \in SUBSET Nat
  BY DEF ArgsTyped
<1>1. call'[c].tool = call[c].tool
  BY DEF KeepsAsking
<1>2. call'[c].arg = call[c].arg \/ (call[c].tool = "reinforce" /\ call'[c].arg \in SUBSET Nat)
  BY DEF KeepsAsking
<1>3. ArgsTyped /\ lastId \in Nat
  BY DEF RetryInv, RowTypes
<1>4. CASE call[c].tool = "consolidate"
  <2>1. call'[c].arg = call[c].arg /\ call[c].arg \in SUBSET Nat /\ \A i \in call[c].arg : i <= lastId
    BY <1>2, <1>3, <1>4 DEF ArgsTyped
  <2>2. \A i \in call[c].arg : i <= lastId'
    <3> SUFFICES ASSUME NEW i \in call[c].arg PROVE i <= lastId'
      OBVIOUS
    <3> QED
      BY <2>1, <1>3
  <2> QED
    BY <1>1, <1>4, <2>1, <2>2
<1>5. CASE call[c].tool # "consolidate"
  BY <1>1, <1>2, <1>3, <1>5 DEF ArgsTyped
<1> QED
  BY <1>4, <1>5

(* The body a call would store stays what it was.                          *)
LEMMA BodiesKept ==
    ASSUME KeepsAsking, NEW c \in Callers, call[c].tool \in {"capture", "mem_update"}
    PROVE  call'[c].tool = call[c].tool /\ BodyOf(c)' = BodyOf(c)
BY DEF KeepsAsking, BodyOf

(* A step that adds no row of a caller and puts none back in the queue.    *)
LEMMA Descending ==
    ASSUME RetryInv, RowTypesNext, KeepsAsking, BodiesUnique', EpisodesDescend, MemoriesDescend
    PROVE  RetryInv'
<1>1. RowTypes' /\ ArgsTyped'
  BY ArgsKept DEF RowTypes, RowTypesNext, KeepsAsking
<1>2. EpisodesExplained'
  <2> SUFFICES ASSUME NEW c \in Callers, NEW e \in episodes', e.by = c
               PROVE  call'[c].tool \in {"capture", "mem_update"} /\ e.body = BodyOf(c)'
    BY DEF EpisodesExplained, EpisodesOf
  <2>1. PICK f \in episodes : f.body = e.body /\ f.by = e.by
    BY DEF EpisodesDescend
  <2>2. call[c].tool \in {"capture", "mem_update"} /\ f.body = BodyOf(c)
    BY <2>1 DEF RetryInv, EpisodesExplained, EpisodesOf
  <2> QED
    BY <2>1, <2>2, BodiesKept
<1>3. MemoriesExplained'
  <2> SUFFICES ASSUME NEW c \in Callers, MemoriesOf(c)' # {}
               PROVE  /\ call'[c].tool = "consolidate"
                      /\ call'[c].calm => /\ TakenEpisodes(call[c].arg)' = {}
                                          /\ \A m, n \in MemoriesOf(c)' : m = n
    BY DEF MemoriesExplained
  <2>1. \A m \in MemoriesOf(c)' : m \in MemoriesOf(c)
    BY DispatchAssumption DEF MemoriesOf, MemoriesDescend, Others
  <2>2. /\ call[c].tool = "consolidate"
        /\ call[c].calm => TakenEpisodes(call[c].arg) = {} /\ \A m, n \in MemoriesOf(c) : m = n
    BY <2>1 DEF RetryInv, MemoriesExplained
  <2>3. call'[c].tool = call[c].tool /\ call'[c].calm = call[c].calm /\ call'[c].arg = call[c].arg
    BY <2>2 DEF KeepsAsking
  <2>4. \A e \in TakenEpisodes(call[c].arg)' : TakenEpisodes(call[c].arg) # {}
    BY <2>3 DEF TakenEpisodes, EpisodesDescend
  <2> QED
    BY <2>1, <2>2, <2>3, <2>4
<1> QED
  BY <1>1, <1>2, <1>3 DEF RetryInv, KeepsAsking

(***************************************************************************)
(* What happens to the rows.                                               *)
(***************************************************************************)
RowsDescend == RowTypesNext /\ BodiesUnique' /\ EpisodesDescend /\ MemoriesDescend

LEMMA RowsStand ==
    ASSUME RetryInv, UNCHANGED <<episodes, memories>>, traits' \subseteq TraitRows,
           lastId' \in Nat, lastId <= lastId'
    PROVE  RowsDescend
<1>1. /\ episodes \subseteq EpisodeRows /\ lastId \in Nat
      /\ \A e \in episodes : e.id <= lastId
      /\ \A m \in memories : m.id \in 1 .. lastId
  BY DEF RetryInv, RowTypes
<1>2. \A e \in episodes : e.id \in Nat
  BY <1>1 DEF EpisodeRows
<1>3. RowTypesNext
  BY <1>1, <1>2 DEF RowTypesNext
<1>4. BodiesUnique' /\ EpisodesDescend /\ MemoriesDescend
  BY DEF RetryInv, BodiesUnique, EpisodesDescend, MemoriesDescend
<1> QED
  BY <1>3, <1>4 DEF RowsDescend

LEMMA EraseDescends == ASSUME RetryInv, NEW M, NEW E, Erase(M, E) PROVE RowsDescend
<1>1. /\ episodes \subseteq EpisodeRows /\ lastId \in Nat /\ traits \subseteq TraitRows
      /\ \A e \in episodes : e.id <= lastId
      /\ \A m \in memories : m.id \in 1 .. lastId
  BY DEF RetryInv, RowTypes
<1>2. episodes' \subseteq episodes /\ memories' \subseteq memories /\ UNCHANGED <<traits, lastId>>
  BY DEF Erase
<1>3. RowTypesNext
  BY <1>1, <1>2 DEF RowTypesNext
<1>4. BodiesUnique' /\ EpisodesDescend /\ MemoriesDescend
  BY <1>2 DEF RetryInv, BodiesUnique, EpisodesDescend, MemoriesDescend
<1> QED
  BY <1>3, <1>4 DEF RowsDescend

(* Pending episodes that go to a new memory: nothing else about them moves.*)
LEMMA TakenDescend ==
    ASSUME RetryInv, NEW taken \in SUBSET episodes, lastId' = lastId + 1,
           episodes' = (episodes \ taken) \cup {[e EXCEPT !.into = lastId'] : e \in taken}
    PROVE  /\ episodes' \subseteq EpisodeRows
           /\ \A e \in episodes' : e.id <= lastId'
           /\ BodiesUnique' /\ EpisodesDescend
           /\ \A e \in episodes' : e.into = Pending => e \in episodes \ taken
<1>1. episodes \subseteq EpisodeRows /\ lastId \in Nat /\ \A e \in episodes : e.id <= lastId
  BY DEF RetryInv, RowTypes
<1> DEFINE Moved(e) == [e EXCEPT !.into = lastId']
<1>2. \A e \in taken : /\ Moved(e) \in EpisodeRows /\ Moved(e).id = e.id /\ Moved(e).body = e.body
                      /\ Moved(e).by = e.by /\ Moved(e).into # Pending
  BY <1>1 DEF EpisodeRows, Pending
<1>0. episodes' = (episodes \ taken) \cup {Moved(e) : e \in taken}
  OBVIOUS
<1> HIDE DEF Moved
<1>3. \A e \in episodes : e.id \in Nat
  BY <1>1 DEF EpisodeRows
<1>4. \A e \in episodes' : \/ e \in episodes \ taken
                          \/ \E f \in taken : /\ e = Moved(f) /\ e \in EpisodeRows
                                              /\ e.id = f.id /\ e.body = f.body /\ e.by = f.by
                                              /\ e.into # Pending
  BY <1>0, <1>2
<1>5. episodes' \subseteq EpisodeRows
  BY <1>1, <1>4
<1>6. \A e \in episodes' : e.id <= lastId'
  BY <1>1, <1>3, <1>4
<1>7. BodiesUnique'
  <2> SUFFICES ASSUME NEW e1 \in episodes', NEW e2 \in episodes', e1.body = e2.body PROVE e1 = e2
    BY DEF BodiesUnique
  <2>1. \A f, g \in episodes : f.body = g.body => f = g
    BY DEF RetryInv, BodiesUnique
  <2> QED
    BY <1>4, <2>1
<1>8. EpisodesDescend
  BY <1>4 DEF EpisodesDescend
<1> QED
  BY <1>4, <1>5, <1>6, <1>7, <1>8

(***************************************************************************)
(* What happens to a call.                                                 *)
(***************************************************************************)
LEMMA RespondsKeeps ==
    ASSUME RetryInv, NEW c \in Callers, call[c].tool # "none",
           NEW answer \in {"ok", "error"}, NEW wrote \in BOOLEAN, Responds(c, answer, wrote),
           (answer = "error" /\ call[c].tool # "reinforce") => ~wrote
    PROVE  KeepsAsking
<1>1. call \in [Callers -> CallRecords]
  BY DEF RetryInv, RowTypes
<1>2. call[c].sends \in Nat
  BY <1>1 DEF CallRecords
<1>3. call' = [call EXCEPT ![c] = [call[c] EXCEPT !.phase = "answered", !.answer = answer,
                                                  !.wrote = wrote, !.sends = call[c].sends]]
  BY <1>1 DEF Responds, CallRecords
<1> QED
  BY <1>2, <1>3, OneCallMoves

LEMMA AwaitsKeeps ==
    ASSUME RetryInv, NEW c \in Callers, call[c].tool # "none", Awaits(c) PROVE KeepsAsking
<1>1. call \in [Callers -> CallRecords]
  BY DEF RetryInv, RowTypes
<1>2. call[c].sends \in Nat /\ call[c].answer \in {"none", "ok", "error"}
  BY <1>1 DEF CallRecords
<1>3. call' = [call EXCEPT ![c] = [call[c] EXCEPT !.phase = "embedding", !.answer = call[c].answer,
                                                  !.wrote = TRUE, !.sends = call[c].sends]]
  BY <1>1 DEF Awaits, CallRecords
<1> QED
  BY <1>2, <1>3, OneCallMoves

LEMMA SameRows ==
    ASSUME RetryInv, KeepsAsking, UNCHANGED <<episodes, memories, traits, lastId>> PROVE RetryInv'
<1>1. RowsDescend
  BY RowsStand DEF RetryInv, RowTypes
<1> QED
  BY <1>1, Descending DEF RowsDescend

(***************************************************************************)
(* The client.                                                             *)
(***************************************************************************)
LEMMA SendCallInv ==
    ASSUME RetryInv, NEW c \in Callers, NEW tool \in Tools, NEW arg \in Arguments(tool),
           SendCall(c, tool, arg)
    PROVE  RetryInv'
<1> DEFINE r == [call[c] EXCEPT !.tool = tool, !.arg = arg, !.sends = 1, !.phase = "sent"]
<1>1. call \in [Callers -> CallRecords] /\ lastId \in Nat
  BY DEF RetryInv, RowTypes
<1>2. /\ \A i \in IdsOf(episodes) : i \in Nat /\ i <= lastId
      /\ \A i \in IdsOf(memories) \cup IdsOf(traits) : i \in Nat
  BY DEF RetryInv, RowTypes, IdsOf, EpisodeRows, TraitRows
<1>3. /\ tool = "capture" => arg \in Said
      /\ tool = "consolidate" => arg \in SUBSET Nat /\ \A i \in arg : i <= lastId
      /\ tool = "crystallize" => arg \in CallNames
      /\ tool = "mem_update" => arg \in Updates
      /\ tool \notin {"capture", "crystallize", "mem_update"} => arg \in SUBSET Nat
  <2>1. CASE tool = "capture"
    BY <2>1 DEF Arguments, Said
  <2>2. CASE tool = "consolidate"
    <3>1. arg \subseteq IdsOf(episodes)
      BY <2>2 DEF Arguments
    <3> QED
      BY <2>2, <3>1, <1>2
  <2>3. CASE tool = "crystallize"
    BY <2>3 DEF Arguments
  <2>4. CASE tool = "mem_update"
    BY <2>4, <1>2 DEF Arguments, Updates
  <2>5. CASE tool = "reinforce"
    <3>1. arg \subseteq IdsOf(memories)
      BY <2>5 DEF Arguments
    <3> QED
      BY <2>5, <3>1, <1>2
  <2>6. CASE tool \in {"forget", "read"}
    BY <2>6 DEF Arguments
  <2> QED
    BY <2>1, <2>2, <2>3, <2>4, <2>5, <2>6 DEF Tools
<1>4. arg \in Said \cup (SUBSET Nat) \cup CallNames \cup Updates
  BY <1>3 DEF Tools
<1>5. r \in CallRecords
  BY <1>1, <1>4 DEF CallRecords
<1>6. r.tool = tool /\ r.arg = arg /\ r.phase = "sent" /\ r.calm = call[c].calm
  BY <1>1 DEF CallRecords
<1>7. call' = [call EXCEPT ![c] = r]
  BY DEF SendCall
<1>8. call[c].tool = "none"
  BY DEF SendCall, RetryInv, UnsentAreNew
<1> HIDE DEF r
<1>9. call'[c] = r /\ \A d \in Callers \ {c} : call'[d] = call[d]
  BY <1>1, <1>7
<1>10. UNCHANGED <<episodes, memories, traits, lastId>>
  BY DEF SendCall
<1>11. RowTypes' /\ BodiesUnique'
  BY <1>1, <1>5, <1>7, <1>10 DEF RetryInv, RowTypes, BodiesUnique
<1>12. ArgsTyped'
  BY <1>3, <1>6, <1>9, <1>10 DEF RetryInv, ArgsTyped
<1>13. BoostsAreReinforce' /\ UnsentAreNew' /\ ErrorsWroteNothing'
  BY <1>6, <1>9 DEF RetryInv, BoostsAreReinforce, UnsentAreNew, ErrorsWroteNothing, Tools
<1>14. \A m \in memories : m.by # c
  BY <1>8 DEF RetryInv, MemoriesExplained, MemoriesOf
<1>15. \A e \in episodes : e.by # c
  BY <1>8 DEF RetryInv, EpisodesExplained, EpisodesOf
<1>16. EpisodesExplained'
  BY <1>9, <1>10, <1>15 DEF RetryInv, EpisodesExplained, EpisodesOf, BodyOf
<1>17. MemoriesExplained'
  BY <1>9, <1>10, <1>14 DEF RetryInv, MemoriesExplained, MemoriesOf, TakenEpisodes
<1> QED
  BY <1>11, <1>12, <1>13, <1>16, <1>17 DEF RetryInv

LEMMA LoseCallInv == ASSUME RetryInv, NEW c \in Callers, LoseCall(c) PROVE RetryInv'
<1>1. call \in [Callers -> CallRecords]
  BY DEF RetryInv, RowTypes
<1>2. /\ call[c].sends \in Nat /\ call[c].answer \in {"none", "ok", "error"} /\ call[c].wrote \in BOOLEAN
  BY <1>1 DEF CallRecords
<1>3. call' = [call EXCEPT ![c] = [call[c] EXCEPT !.phase = "lost", !.answer = call[c].answer,
                                                  !.wrote = call[c].wrote, !.sends = call[c].sends]]
  BY <1>1 DEF LoseCall, CallRecords
<1>4. call[c].tool # "none"
  BY DEF LoseCall, RetryInv, UnsentAreNew
<1>5. KeepsAsking
  BY ZenonT(30), <1>2, <1>3, <1>4, OneCallMoves
<1> QED
  BY <1>5, SameRows DEF LoseCall

LEMMA SendAgainInv == ASSUME RetryInv, NEW c \in Callers, SendAgain(c) PROVE RetryInv'
<1>1. call \in [Callers -> CallRecords]
  BY DEF RetryInv, RowTypes
<1>2. call[c].sends + 1 \in Nat
  BY <1>1 DEF CallRecords
<1>3. call' = [call EXCEPT ![c] = [call[c] EXCEPT !.phase = "sent", !.answer = "none",
                                                  !.wrote = FALSE, !.sends = call[c].sends + 1]]
  BY <1>1 DEF SendAgain, CallRecords
<1>4. call[c].tool # "none"
  BY DEF SendAgain, RetryInv, UnsentAreNew
<1>5. KeepsAsking
  BY <1>2, <1>3, <1>4, OneCallMoves
<1> QED
  BY <1>5, SameRows DEF SendAgain

(***************************************************************************)
(* A capture: only the text it would repeat stops it, and that is enough.  *)
(***************************************************************************)
LEMMA CapturesInv ==
    ASSUME RetryInv, NEW c \in Callers, call[c].tool \in {"capture", "mem_update"},
           BodyOf(c) \in Bodies, Captures(c, BodyOf(c))
    PROVE  RetryInv'
<1>0. call[c].tool # "none" /\ call[c].tool # "consolidate"
  OBVIOUS
<1>1. CASE \E e \in episodes : e.body = BodyOf(c)
  <2>1. Responds(c, "ok", FALSE) /\ UNCHANGED <<episodes, memories, traits, lastId>>
    BY <1>1 DEF Captures, NoNewId
  <2>2. KeepsAsking
    BY <2>1, <1>0, RespondsKeeps
  <2> QED
    BY <2>1, <2>2, SameRows
<1>2. CASE ~\E e \in episodes : e.body = BodyOf(c)
  <2> DEFINE row == [id |-> lastId + 1, body |-> BodyOf(c), into |-> Pending, by |-> c]
  <2>1. /\ Awaits(c) /\ lastId' = lastId + 1 /\ UNCHANGED <<memories, traits>>
        /\ episodes' = episodes \cup {row}
    BY <1>2 DEF Captures, NewId
  <2>2. KeepsAsking
    BY <2>1, <1>0, AwaitsKeeps
  <2>3. /\ lastId \in Nat /\ episodes \subseteq EpisodeRows /\ traits \subseteq TraitRows
        /\ \A e \in episodes : e.id <= lastId
        /\ \A m \in memories : m.id \in 1 .. lastId
    BY DEF RetryInv, RowTypes
  <2>4. row \in EpisodeRows /\ row.id = lastId + 1 /\ row.body = BodyOf(c) /\ row.by = c
    BY <2>3 DEF EpisodeRows, Pending
  <2> HIDE DEF row
  <2>5. \A e \in episodes : e.id \in Nat
    BY <2>3 DEF EpisodeRows
  <2>6. RowTypesNext
    BY <2>1, <2>3, <2>4, <2>5 DEF RowTypesNext
  <2>7. RowTypes' /\ ArgsTyped'
    BY <2>2, <2>6, ArgsKept DEF RowTypes, RowTypesNext, KeepsAsking
  <2>8. BodiesUnique'
    BY <1>2, <2>1, <2>4 DEF RetryInv, BodiesUnique
  <2>9. EpisodesExplained'
    <3> SUFFICES ASSUME NEW d \in Callers, NEW e \in episodes', e.by = d
                 PROVE  call'[d].tool \in {"capture", "mem_update"} /\ e.body = BodyOf(d)'
      BY DEF EpisodesExplained, EpisodesOf
    <3>1. CASE e \in episodes
      <4>1. call[d].tool \in {"capture", "mem_update"} /\ e.body = BodyOf(d)
        BY <3>1 DEF RetryInv, EpisodesExplained, EpisodesOf
      <4> QED
        BY <4>1, <2>2, BodiesKept
    <3>2. CASE e = row
      <4>1. d = c /\ e.body = BodyOf(c)
        BY <3>2, <2>4
      <4> QED
        BY <4>1, <2>2, BodiesKept
    <3> QED
      BY <2>1, <3>1, <3>2
  <2>10. MemoriesExplained'
    <3> SUFFICES ASSUME NEW d \in Callers, MemoriesOf(d)' # {}
                 PROVE  /\ call'[d].tool = "consolidate"
                        /\ call'[d].calm => /\ TakenEpisodes(call[d].arg)' = {}
                                            /\ \A m, n \in MemoriesOf(d)' : m = n
      BY DEF MemoriesExplained
    <3>1. MemoriesOf(d)' = MemoriesOf(d)
      BY <2>1 DEF MemoriesOf
    <3>2. /\ call[d].tool = "consolidate"
          /\ call[d].calm => TakenEpisodes(call[d].arg) = {} /\ \A m, n \in MemoriesOf(d) : m = n
      BY <3>1 DEF RetryInv, MemoriesExplained
    <3>3. call'[d].tool = call[d].tool /\ call'[d].calm = call[d].calm /\ call'[d].arg = call[d].arg
      BY <3>2, <2>2 DEF KeepsAsking
    <3>4. \A i \in call[d].arg : i <= lastId
      BY <3>2 DEF RetryInv, ArgsTyped
    <3>5. call[d].arg \in SUBSET Nat
      BY <3>2 DEF RetryInv, ArgsTyped
    <3>6. lastId + 1 \notin call[d].arg
      BY <2>3, <3>4, <3>5
    <3>7. TakenEpisodes(call[d].arg)' \subseteq TakenEpisodes(call[d].arg)
      BY <2>1, <2>4, <3>3, <3>6 DEF TakenEpisodes
    <3> QED
      BY <3>1, <3>2, <3>3, <3>7
  <2> QED
    BY <2>2, <2>7, <2>8, <2>9, <2>10 DEF RetryInv, KeepsAsking
<1> QED
  BY <1>1, <1>2

LEMMA CaptureCallInv == ASSUME RetryInv, NEW c \in Callers, CaptureCall(c) PROVE RetryInv'
<1>1. call[c].tool = "capture"
  BY DEF CaptureCall, Asks
<1>2. call[c].arg \in Said
  BY <1>1 DEF RetryInv, ArgsTyped
<1>3. BodyOf(c) = call[c].arg /\ BodyOf(c) \in Bodies
  BY <1>1, <1>2 DEF BodyOf, Bodies
<1> QED
  BY <1>1, <1>3, CapturesInv DEF CaptureCall

(***************************************************************************)
(* A consolidate: sent again, it finds its episodes taken by its first     *)
(* memory; if that memory went it took them with it.                       *)
(***************************************************************************)
LEMMA ConsolidateCallInv == ASSUME RetryInv, NEW c \in Callers, ConsolidateCall(c) PROVE RetryInv'
<1> DEFINE taken == TakenEpisodes(call[c].arg)
<1>0. call[c].tool = "consolidate" /\ call[c].tool # "none"
  BY DEF ConsolidateCall, Asks
<1>1. CASE taken = {}
  <2>1. Responds(c, "error", FALSE) /\ UNCHANGED <<episodes, memories, traits, lastId>>
    BY <1>1 DEF ConsolidateCall, NoNewId
  <2>2. KeepsAsking
    BY <2>1, <1>0, RespondsKeeps
  <2> QED
    BY <2>1, <2>2, SameRows
<1>2. CASE taken # {}
  <2> DEFINE new == [id |-> lastId + 1, by |-> c]
  <2>1. /\ Awaits(c) /\ lastId' = lastId + 1 /\ UNCHANGED traits
        /\ memories' = memories \cup {new}
        /\ episodes' = (episodes \ taken) \cup {[e EXCEPT !.into = lastId'] : e \in taken}
    BY <1>2 DEF ConsolidateCall, NewId
  <2>2. KeepsAsking
    BY <2>1, <1>0, AwaitsKeeps
  <2>3. taken \in SUBSET episodes
    BY DEF TakenEpisodes
  <2>4. new.id = lastId + 1 /\ new.by = c
    OBVIOUS
  <2>5. \A e \in episodes : e \in taken <=> (e.id \in call[c].arg /\ e.into = Pending)
    BY DEF TakenEpisodes
  <2> HIDE DEF taken, new
  <2>6. /\ lastId \in Nat /\ traits \subseteq TraitRows
        /\ \A m \in memories : m.id \in 1 .. lastId
    BY DEF RetryInv, RowTypes
  <2>7. /\ episodes' \subseteq EpisodeRows
        /\ \A e \in episodes' : e.id <= lastId'
        /\ BodiesUnique' /\ EpisodesDescend
        /\ \A e \in episodes' : e.into = Pending => e \in episodes \ taken
    BY <2>1, <2>3, TakenDescend
  <2>8. RowTypesNext
    BY <2>1, <2>4, <2>6, <2>7 DEF RowTypesNext
  <2>9. RowTypes' /\ ArgsTyped'
    BY <2>2, <2>8, ArgsKept DEF RowTypes, RowTypesNext, KeepsAsking
  <2>10. EpisodesExplained'
    <3> SUFFICES ASSUME NEW d \in Callers, NEW e \in episodes', e.by = d
                 PROVE  call'[d].tool \in {"capture", "mem_update"} /\ e.body = BodyOf(d)'
      BY DEF EpisodesExplained, EpisodesOf
    <3>1. PICK f \in episodes : f.body = e.body /\ f.by = e.by
      BY <2>7 DEF EpisodesDescend
    <3>2. call[d].tool \in {"capture", "mem_update"} /\ f.body = BodyOf(d)
      BY <3>1 DEF RetryInv, EpisodesExplained, EpisodesOf
    <3> QED
      BY <3>1, <3>2, <2>2, BodiesKept
  <2>11. MemoriesExplained'
    <3> SUFFICES ASSUME NEW d \in Callers, MemoriesOf(d)' # {}
                 PROVE  /\ call'[d].tool = "consolidate"
                        /\ call'[d].calm => /\ TakenEpisodes(call[d].arg)' = {}
                                            /\ \A m, n \in MemoriesOf(d)' : m = n
      BY DEF MemoriesExplained
    <3>1. CASE d = c
      <4>1. call'[c].tool = "consolidate" /\ call'[c].calm = call[c].calm /\ call'[c].arg = call[c].arg
        BY <1>0, <2>2 DEF KeepsAsking
      <4>2. call[c].calm => MemoriesOf(c) = {}
        BY <1>2 DEF RetryInv, MemoriesExplained, taken
      <4>3. call[c].calm => \A m, n \in MemoriesOf(c)' : m = n
        BY <4>2, <2>1 DEF MemoriesOf
      <4>4. TakenEpisodes(call[c].arg)' = {}
        BY <4>1, <2>5, <2>7 DEF TakenEpisodes
      <4> QED
        BY <3>1, <4>1, <4>3, <4>4
    <3>2. CASE d # c
      <4>1. MemoriesOf(d)' = MemoriesOf(d)
        BY <3>2, <2>1, <2>4 DEF MemoriesOf
      <4>2. /\ call[d].tool = "consolidate"
            /\ call[d].calm => TakenEpisodes(call[d].arg) = {} /\ \A m, n \in MemoriesOf(d) : m = n
        BY <4>1 DEF RetryInv, MemoriesExplained
      <4>3. call'[d].tool = call[d].tool /\ call'[d].calm = call[d].calm /\ call'[d].arg = call[d].arg
        BY <4>2, <2>2 DEF KeepsAsking
      <4>4. TakenEpisodes(call[d].arg)' \subseteq TakenEpisodes(call[d].arg)
        BY <2>7, <4>3 DEF TakenEpisodes
      <4> QED
        BY <4>1, <4>2, <4>3, <4>4
    <3> QED
      BY <3>1, <3>2
  <2> QED
    BY <2>2, <2>7, <2>9, <2>10, <2>11 DEF RetryInv, KeepsAsking
<1> QED
  BY <1>1, <1>2

(***************************************************************************)
(* The other handlers add no episode and no memory, but for a mem_update   *)
(* of an id that is gone, which captures.                                  *)
(***************************************************************************)
LEMMA TraitsOnly ==
    ASSUME RetryInv, KeepsAsking, UNCHANGED <<episodes, memories>>, traits' \subseteq TraitRows,
           lastId' \in Nat, lastId <= lastId'
    PROVE  RetryInv'
<1>1. RowsDescend
  BY RowsStand
<1> QED
  BY <1>1, Descending DEF RowsDescend

LEMMA CrystallizeCallInv == ASSUME RetryInv, NEW c \in Callers, CrystallizeCall(c) PROVE RetryInv'
<1>0. call[c].tool = "crystallize" /\ Awaits(c) /\ UNCHANGED <<episodes, memories>>
  BY DEF CrystallizeCall, Asks
<1>1. KeepsAsking
  BY <1>0, AwaitsKeeps
<1>2. call[c].arg \in CallNames /\ lastId \in Nat /\ traits \subseteq TraitRows
  BY <1>0 DEF RetryInv, ArgsTyped, RowTypes
<1>3. lastId' \in Nat /\ lastId <= lastId'
  BY <1>2 DEF CrystallizeCall, NewId, NoNewId
<1>4. CASE Called(call[c].arg) = {}
  <2>1. lastId' = lastId + 1 /\ traits' = traits \cup {[id |-> lastId', name |-> call[c].arg, strength |-> 1]}
    BY <1>4 DEF CrystallizeCall, NewId
  <2>2. [id |-> lastId', name |-> call[c].arg, strength |-> 1] \in TraitRows
    BY <1>2, <2>1 DEF TraitRows
  <2> QED
    BY <1>0, <1>1, <1>2, <1>3, <2>1, <2>2, TraitsOnly
<1>5. CASE Called(call[c].arg) # {}
  <2>1. traits' = {IF t.name = call[c].arg THEN [t EXCEPT !.strength = t.strength + 1] ELSE t : t \in traits}
    BY <1>5 DEF CrystallizeCall
  <2>2. \A t \in traits : [t EXCEPT !.strength = t.strength + 1] \in TraitRows
    BY <1>2 DEF TraitRows
  <2>3. traits' \subseteq TraitRows
    BY <1>2, <2>1, <2>2
  <2> QED
    BY <1>0, <1>1, <1>3, <2>3, TraitsOnly
<1> QED
  BY <1>4, <1>5

LEMMA UpdateCallInv == ASSUME RetryInv, NEW c \in Callers, UpdateCall(c) PROVE RetryInv'
<1> DEFINE id == call[c].arg[1]
           content == call[c].arg[2]
           named == {t \in traits : t.id = id}
<1>1. call[c].tool = "mem_update" /\ call[c].tool # "none"
  BY DEF UpdateCall, Asks
<1>2. call[c].arg \in Updates
  BY <1>1 DEF RetryInv, ArgsTyped
<1>3. id \in Nat /\ content \in CallNames /\ BodyOf(c) = <<"update", id, content>>
  BY <1>1, <1>2 DEF Updates, BodyOf
<1>4. lastId \in Nat /\ traits \subseteq TraitRows
  BY DEF RetryInv, RowTypes
<1>5. CASE Responds(c, "ok", TRUE) /\ UNCHANGED <<episodes, memories, traits, lastId>>
  <2>1. KeepsAsking
    BY <1>1, <1>5, RespondsKeeps
  <2> QED
    BY <1>5, <2>1, SameRows
<1>6. CASE Responds(c, "error", FALSE) /\ UNCHANGED <<episodes, memories, traits, lastId>>
  <2>1. KeepsAsking
    BY <1>1, <1>6, RespondsKeeps
  <2> QED
    BY <1>6, <2>1, SameRows
<1>7. CASE Captures(c, <<"update", id, content>>)
  <2>1. BodyOf(c) \in Bodies
    BY <1>3 DEF Bodies
  <2> QED
    BY <1>1, <1>3, <1>7, <2>1, CapturesInv
<1>8. CASE /\ Awaits(c) /\ UNCHANGED <<episodes, memories, lastId>>
           /\ traits' = (traits \ named) \cup {[t EXCEPT !.name = content] : t \in named}
  <2>1. KeepsAsking
    BY <1>1, <1>8, AwaitsKeeps
  <2>2. \A t \in named : [t EXCEPT !.name = content] \in TraitRows
    BY <1>3, <1>4 DEF TraitRows
  <2>3. traits' \subseteq TraitRows
    BY <1>4, <1>8, <2>2
  <2>4. UNCHANGED <<episodes, memories, lastId>>
    BY <1>8
  <2> QED
    BY <1>4, <2>1, <2>3, <2>4, TraitsOnly
<1>9. \/ Responds(c, "ok", TRUE) /\ UNCHANGED <<episodes, memories, traits, lastId>>
      \/ Responds(c, "error", FALSE) /\ UNCHANGED <<episodes, memories, traits, lastId>>
      \/ Captures(c, <<"update", id, content>>)
      \/ /\ Awaits(c) /\ UNCHANGED <<episodes, memories, lastId>>
         /\ traits' = (traits \ named) \cup {[t EXCEPT !.name = content] : t \in named}
  BY DEF UpdateCall, NoNewId
<1> QED
  BY <1>5, <1>6, <1>7, <1>8, <1>9

LEMMA BoostCallInv == ASSUME RetryInv, NEW c \in Callers, BoostCall(c) PROVE RetryInv'
<1> DEFINE r == [call[c] EXCEPT !.phase = "boosted", !.wrote = TRUE, !.arg = @ \cap IdsOf(memories)]
<1>1. call \in [Callers -> CallRecords] /\ call[c].tool = "reinforce"
  BY DEF RetryInv, RowTypes, BoostCall, Asks
<1>2. call[c].arg \in SUBSET Nat
  BY <1>1 DEF RetryInv, ArgsTyped
<1>3. call[c].arg \cap IdsOf(memories) \in SUBSET Nat
  BY <1>2
<1>4. call' = [call EXCEPT ![c] = r]
  BY <1>1 DEF BoostCall
<1>5. r \in CallRecords /\ r.tool = "reinforce" /\ r.calm = call[c].calm /\ r.phase = "boosted" /\ r.arg \in SUBSET Nat
  BY <1>1, <1>3 DEF CallRecords
<1> HIDE DEF r
<1>6. call'[c] = r /\ \A d \in Callers \ {c} : call'[d] = call[d]
  BY <1>1, <1>4
<1>7. BoostsAreReinforce' /\ UnsentAreNew' /\ ErrorsWroteNothing'
  BY <1>5, <1>6 DEF RetryInv, BoostsAreReinforce, UnsentAreNew, ErrorsWroteNothing
<1>8. KeepsAsking
  BY <1>1, <1>4, <1>5, <1>6, <1>7 DEF KeepsAsking
<1> QED
  BY <1>8, SameRows DEF BoostCall

LEMMA RecordCallInv == ASSUME RetryInv, NEW c \in Callers, RecordCall(c) PROVE RetryInv'
<1>1. call[c].tool = "reinforce"
  BY DEF RecordCall, RetryInv, BoostsAreReinforce
<1>2. \E answer \in {"ok", "error"} : Responds(c, answer, TRUE)
  BY DEF RecordCall
<1>3. KeepsAsking
  BY <1>1, <1>2, RespondsKeeps
<1> QED
  BY <1>3, SameRows DEF RecordCall

LEMMA ForgetCallInv == ASSUME RetryInv, NEW c \in Callers, ForgetCall(c) PROVE RetryInv'
<1>1. call[c].tool = "forget" /\ Responds(c, "ok", TRUE)
  BY DEF ForgetCall, Asks
<1>2. KeepsAsking
  BY <1>1, RespondsKeeps
<1>3. PICK M \in SUBSET IdsOf(memories), E \in SUBSET IdsOf(episodes) : Erase(M, E)
  BY DEF ForgetCall
<1> QED
  BY <1>2, <1>3, EraseDescends, Descending DEF RowsDescend

LEMMA ReadCallInv == ASSUME RetryInv, NEW c \in Callers, ReadCall(c) PROVE RetryInv'
<1>1. call[c].tool = "read"
  BY DEF ReadCall, Asks
<1>2. \E answer \in {"ok", "error"} : Responds(c, answer, FALSE)
  BY DEF ReadCall
<1>3. KeepsAsking
  BY <1>1, <1>2, RespondsKeeps
<1> QED
  BY <1>3, SameRows DEF ReadCall

LEMMA EmbedEndsInv == ASSUME RetryInv, NEW c \in Callers, NEW how, EmbedEnds(c, how) PROVE RetryInv'
<1>1. call[c].tool # "none"
  BY DEF EmbedEnds, RetryInv, UnsentAreNew
<1>2. Responds(c, "ok", TRUE)
  BY DEF EmbedEnds, AnswerAfter
<1>3. KeepsAsking
  BY <1>1, <1>2, RespondsKeeps
<1> QED
  BY <1>3, SameRows DEF EmbedEnds

(***************************************************************************)
(* Other processes.                                                        *)
(***************************************************************************)
LEMMA EraseElsewhereInv == ASSUME RetryInv, NEW M, NEW E, EraseElsewhere(M, E) PROVE RetryInv'
<1>1. KeepsAsking
  BY CallsStand DEF EraseElsewhere
<1> QED
  BY <1>1, EraseDescends, Descending DEF EraseElsewhere, RowsDescend

(* The episodes of the memory are pending again, for every call: from here *)
(* on no call is calm.                                                     *)
LEMMA UndoElsewhereInv == ASSUME RetryInv, NEW m \in memories, UndoElsewhere(m) PROVE RetryInv'
<1> DEFINE Loud(c) == [call[c] EXCEPT !.calm = FALSE]
           Freed(e) == IF e.into = m.id THEN [e EXCEPT !.into = Pending] ELSE e
<1>1. /\ call \in [Callers -> CallRecords] /\ lastId \in Nat
      /\ episodes \subseteq EpisodeRows /\ traits \subseteq TraitRows
      /\ \A e \in episodes : e.id <= lastId
      /\ \A n \in memories : n.id \in 1 .. lastId
  BY DEF RetryInv, RowTypes
<1>2. call' = [c \in Callers |-> Loud(c)] /\ episodes' = {Freed(e) : e \in episodes}
  BY DEF UndoElsewhere
<1>3. memories' \subseteq memories /\ UNCHANGED <<traits, lastId>>
  BY DEF UndoElsewhere
<1>4. \A c \in Callers :
         /\ Loud(c) \in CallRecords /\ Loud(c).tool = call[c].tool /\ Loud(c).arg = call[c].arg
         /\ Loud(c).phase = call[c].phase /\ Loud(c).answer = call[c].answer
         /\ Loud(c).wrote = call[c].wrote /\ Loud(c).calm = FALSE
  BY <1>1 DEF CallRecords
<1>5. \A e \in episodes : /\ Freed(e) \in EpisodeRows /\ Freed(e).id = e.id
                          /\ Freed(e).body = e.body /\ Freed(e).by = e.by
  BY <1>1 DEF EpisodeRows, Pending
<1> HIDE DEF Loud, Freed
<1>6. \A e \in episodes' : \E f \in episodes : /\ e = Freed(f) /\ e \in EpisodeRows /\ e.id = f.id
                                              /\ e.body = f.body /\ e.by = f.by
  BY <1>2, <1>5
<1>7. RowTypes'
  <2>1. episodes' \subseteq EpisodeRows
    BY <1>6
  <2>2. \A e \in episodes' : e.id <= lastId'
    BY <1>1, <1>3, <1>6
  <2>3. call' \in [Callers -> CallRecords]
    BY <1>2, <1>4
  <2> QED
    BY <1>1, <1>3, <2>1, <2>2, <2>3 DEF RowTypes
<1>8. BodiesUnique'
  <2>1. \A f, g \in episodes : f.body = g.body => f = g
    BY DEF RetryInv, BodiesUnique
  <2> SUFFICES ASSUME NEW e1 \in episodes', NEW e2 \in episodes', e1.body = e2.body PROVE e1 = e2
    BY DEF BodiesUnique
  <2> QED
    BY <1>6, <2>1
<1>9. \A c \in Callers :
         /\ call'[c].tool = call[c].tool /\ call'[c].arg = call[c].arg /\ call'[c].calm = FALSE
         /\ call'[c].phase = call[c].phase /\ call'[c].answer = call[c].answer
         /\ call'[c].wrote = call[c].wrote
  BY <1>2, <1>4
<1>10. ArgsTyped'
  BY <1>3, <1>9 DEF RetryInv, ArgsTyped
<1>11. BoostsAreReinforce' /\ UnsentAreNew' /\ ErrorsWroteNothing'
  BY <1>9 DEF RetryInv, BoostsAreReinforce, UnsentAreNew, ErrorsWroteNothing
<1>12. EpisodesExplained'
  <2> SUFFICES ASSUME NEW c \in Callers, NEW e \in episodes', e.by = c
               PROVE  call'[c].tool \in {"capture", "mem_update"} /\ e.body = BodyOf(c)'
    BY DEF EpisodesExplained, EpisodesOf
  <2>1. PICK f \in episodes : f.body = e.body /\ f.by = e.by
    BY <1>6
  <2>2. call[c].tool \in {"capture", "mem_update"} /\ f.body = BodyOf(c)
    BY <2>1 DEF RetryInv, EpisodesExplained, EpisodesOf
  <2>3. BodyOf(c)' = BodyOf(c)
    BY <1>9 DEF BodyOf
  <2> QED
    BY <1>9, <2>1, <2>2, <2>3
<1>13. MemoriesExplained'
  <2> SUFFICES ASSUME NEW c \in Callers, MemoriesOf(c)' # {}
               PROVE  call'[c].tool = "consolidate" /\ ~call'[c].calm
    BY DEF MemoriesExplained
  <2>1. MemoriesOf(c) # {}
    BY <1>3 DEF MemoriesOf
  <2> QED
    BY <1>9, <2>1 DEF RetryInv, MemoriesExplained
<1> QED
  BY <1>7, <1>8, <1>10, <1>11, <1>12, <1>13 DEF RetryInv

LEMMA ConsolidateElsewhereInv ==
    ASSUME RetryInv, NEW taken \in SUBSET episodes, ConsolidateElsewhere(taken) PROVE RetryInv'
<1>1. KeepsAsking
  BY CallsStand DEF ConsolidateElsewhere
<1>2. /\ lastId' = lastId + 1 /\ UNCHANGED traits
      /\ memories' = memories \cup {[id |-> lastId', by |-> Others]}
      /\ episodes' = (episodes \ taken) \cup {[e EXCEPT !.into = lastId'] : e \in taken}
  BY DEF ConsolidateElsewhere, NewId
<1>3. /\ lastId \in Nat /\ traits \subseteq TraitRows /\ \A m \in memories : m.id \in 1 .. lastId
  BY DEF RetryInv, RowTypes
<1>4. /\ episodes' \subseteq EpisodeRows /\ \A e \in episodes' : e.id <= lastId'
      /\ BodiesUnique' /\ EpisodesDescend
  BY <1>2, TakenDescend
<1>5. RowTypesNext
  BY <1>2, <1>3, <1>4 DEF RowTypesNext
<1>6. MemoriesDescend
  BY <1>2 DEF MemoriesDescend
<1> QED
  BY <1>1, <1>4, <1>5, <1>6, Descending

LEMMA ForgetTraitElsewhereInv == ASSUME RetryInv, NEW t, ForgetTraitElsewhere(t) PROVE RetryInv'
<1>1. KeepsAsking
  BY CallsStand DEF ForgetTraitElsewhere
<1>2. traits' \subseteq TraitRows /\ lastId' \in Nat /\ lastId <= lastId'
  BY DEF ForgetTraitElsewhere, RetryInv, RowTypes
<1> QED
  BY <1>1, <1>2, TraitsOnly DEF ForgetTraitElsewhere

(***************************************************************************)
(* Every step, and what follows.                                           *)
(***************************************************************************)
LEMMA ServeInv == ASSUME RetryInv, NEW c \in Callers, Serve(c) PROVE RetryInv'
BY CaptureCallInv, ConsolidateCallInv, CrystallizeCallInv, UpdateCallInv, BoostCallInv,
   RecordCallInv, ForgetCallInv, ReadCallInv, EmbedEndsInv DEF Serve

LEMMA DispatchNextInv == RetryInv /\ [DispatchNext]_dispatchVars => RetryInv'
<1> SUFFICES ASSUME RetryInv, [DispatchNext]_dispatchVars PROVE RetryInv'
  OBVIOUS
<1>1. ASSUME NEW c \in Callers, NEW tool \in Tools, NEW arg \in Arguments(tool), SendCall(c, tool, arg)
      PROVE  RetryInv'
  BY <1>1, SendCallInv
<1>2. ASSUME NEW c \in Callers, LoseCall(c) \/ SendAgain(c) \/ Serve(c) PROVE RetryInv'
  BY <1>2, LoseCallInv, SendAgainInv, ServeInv
<1>3. ASSUME NEW M \in SUBSET IdsOf(memories), NEW E \in SUBSET IdsOf(episodes), EraseElsewhere(M, E)
      PROVE  RetryInv'
  BY <1>3, EraseElsewhereInv
<1>4. ASSUME NEW m \in memories, UndoElsewhere(m) PROVE RetryInv'
  BY <1>4, UndoElsewhereInv
<1>5. ASSUME NEW taken \in (SUBSET {e \in episodes : e.into = Pending}) \ {{}}, ConsolidateElsewhere(taken)
      PROVE  RetryInv'
  <2>1. taken \in SUBSET episodes
    OBVIOUS
  <2> QED
    BY <1>5, <2>1, ConsolidateElsewhereInv
<1>6. ASSUME NEW t \in traits, ForgetTraitElsewhere(t) PROVE RetryInv'
  BY <1>6, ForgetTraitElsewhereInv
<1>7. CASE UNCHANGED dispatchVars
  <2>1. KeepsAsking
    BY <1>7, CallsStand DEF dispatchVars
  <2> QED
    BY <1>7, <2>1, SameRows DEF dispatchVars
<1> QED
  BY <1>1, <1>2, <1>3, <1>4, <1>5, <1>6, <1>7 DEF DispatchNext

LEMMA RetryInvImplies == RetryInv => RetriesAreSafe
<1> SUFFICES ASSUME RetryInv PROVE RetriesAreSafe
  OBVIOUS
<1>1. ErrorsWroteNothing
  BY DEF RetryInv
<1>2. RetriesAddNothing
  <2> SUFFICES ASSUME NEW c \in Callers, call[c].calm
               PROVE  Cardinality({r \in episodes : r.by = c} \cup {r \in memories : r.by = c}) <= 1
    BY DEF RetriesAddNothing
  <2> DEFINE R == EpisodesOf(c) \cup MemoriesOf(c)
  <2>1. \A e, f \in EpisodesOf(c) : e = f
    BY DEF RetryInv, EpisodesExplained, EpisodesOf, BodiesUnique
  <2>2. \A m, n \in MemoriesOf(c) : m = n
    BY DEF RetryInv, MemoriesExplained
  <2>3. EpisodesOf(c) = {} \/ MemoriesOf(c) = {}
    BY DEF RetryInv, EpisodesExplained, MemoriesExplained
  <2>4. R = {} \/ \E r : R = {r}
    BY <2>1, <2>2, <2>3
  <2> HIDE DEF R
  <2>5. Cardinality(R) <= 1
    <3>1. CASE R = {}
      <4>1. Cardinality(R) = 0
        BY <3>1, FS_EmptySet
      <4> QED
        BY <4>1
    <3>2. CASE \E r : R = {r}
      <4>1. Cardinality(R) = 1
        BY <3>2, FS_Singleton
      <4> QED
        BY <4>1
    <3> QED
      BY <2>4, <3>1, <3>2
  <2> QED
    BY <2>5 DEF R, EpisodesOf, MemoriesOf
<1> QED
  BY <1>1, <1>2 DEF RetriesAreSafe

(* A client that got no good answer may send its call again: an error of   *)
(* any tool but reinforce stored nothing, and a repeated call leaves no    *)
(* second episode or memory, for any clients, texts, names and writes of   *)
(* other processes (server-core.ts, embed-write.ts, engram-update.ts).     *)
THEOREM RetriesAreSafeHolds == DispatchSpec => []RetriesAreSafe
<1>1. DispatchInit => RetryInv
  BY DispatchInitInv
<1>2. RetryInv /\ [DispatchNext]_dispatchVars => RetryInv'
  BY DispatchNextInv
<1>3. RetryInv => RetriesAreSafe
  BY RetryInvImplies
<1> QED
  BY <1>1, <1>2, <1>3, PTL DEF DispatchSpec

==============================================================================
