------------------------------ MODULE Retrieval ------------------------------
(***************************************************************************)
(* recall and recallHybrid: the strict search by words, the rescue when it *)
(* finds nothing, the search by meaning, the quotas of traits and episodes *)
(* and the fusion of the rankings, over records that other processes write,*)
(* index and delete between two calls.  recallHybrid reads no record until *)
(* the embedder has answered, so its wait is left out.                     *)
(*                                                                         *)
(* A text is the set of its words.  Two words of SameStem start alike, so  *)
(* the rescue takes one for the other.  Noise markers are in no search and *)
(* are left out, and so are the words only the rescue drops as too common; *)
(* what a recall reinforces is in HebbianIndex.                            *)
(*                                                                         *)
(* A list of records is their places, counted from 1: what orders it is a  *)
(* key for each record, and the records before it are those with a smaller *)
(* one.                                                                    *)
(***************************************************************************)
EXTENDS Integers, FiniteSets, Sequences, SequencesExt

CONSTANTS
    RMemories, RTraits, REpisodes,  \* records
    Elsewhere,     \* the records of another scope
    Salient,       \* the memories of high salience
    QueryWords,    \* words that carry meaning (searchTerms keeps them)
    SameStem,      \* those the rescue searches by one prefix
    Cosines,       \* cosines with the query, in hundredths
    MaxTerms, MaxPresence,       \* RELAXED_MAX_TERMS, RELAXED_PRESENCE_MAX_TERMS
    MinPresentPct, RareMinDocs,  \* RELAXED_MIN_PRESENT_RATIO, RELAXED_RARE_MIN_DOCS
    MaxRescued,    \* RELAXED_MAX_RESULTS
    MaxAsked,      \* bound on the words of a query
    MaxRecords     \* bound on the records alive at once

Records == RMemories \cup RTraits \cup REpisodes

ASSUME RecallAssumption ==
    /\ IsFiniteSet(Records) /\ IsFiniteSet(QueryWords)
    /\ {MaxTerms, MaxPresence, MinPresentPct, RareMinDocs, MaxRescued} \subseteq Nat
    /\ 2 <= MaxTerms /\ MaxTerms <= MaxPresence /\ MinPresentPct <= 100 /\ 1 <= MaxRescued

VARIABLES
    corpus,   \* corpus[r]: its words and its vector, or NoRecord
    answer    \* answer: the last result, what it was computed from, and what
              \* recall() would have said (history)

recallVars == <<corpus, answer>>

Queries == {SetToSeq(S) : S \in {S \in SUBSET QueryWords : S # {} /\ Cardinality(S) <= MaxAsked}}

NoRecord == [words |-> {}, vec |-> -1]
NoVec == 0
NoAnswer == [how |-> "none", q |-> <<>>, scoped |-> FALSE, hits |-> <<>>, plain |-> <<>>]

RecallInit ==
    /\ corpus = [r \in Records |-> NoRecord]
    /\ answer = NoAnswer

------------------------------------------------------------------------------
(* The records.                                                            *)

Stands == {r \in Records : corpus[r] # NoRecord}
InReach(scoped) == IF scoped THEN Stands \ Elsewhere ELSE Stands

ById == SetToSeq(Records)
IdOf(r) == CHOOSE i \in DOMAIN ById : ById[i] = r
Salience(r) == IF r \in Salient THEN 1 ELSE 0
FtsRank(r) == Cardinality(corpus[r].words)   \* bm25: the shorter of two that match

Smaller(k, l) == \E i \in DOMAIN k : k[i] < l[i] /\ \A j \in 1 .. i - 1 : k[j] = l[j]
Places(key) ==
    [r \in DOMAIN key |-> 1 + Cardinality({x \in DOMAIN key \ {r} : Smaller(key[x], key[r])})]
Firsts(list, n) == {r \in DOMAIN list : list[r] <= n}
Keep(list, S) == Places([r \in DOMAIN list \cap S |-> <<list[r]>>])
Layer(R, T, E) == [memories |-> R, traits |-> T, episodes |-> E]
NothingFound == Layer(<<>>, <<>>, <<>>)

------------------------------------------------------------------------------
(* lexicalCandidates: the strict search and the rescue.                    *)

(* A word of the text stands for a word of the query in the rescue.        *)
HasForm(r, w) == w \in corpus[r].words \/ (w \in SameStem /\ corpus[r].words \cap SameStem # {})

(* relaxedTerms: one word for each prefix.                                 *)
IsTerm(q, i) == q[i] \in SameStem => \A j \in 1 .. i - 1 : q[j] \notin SameStem
TermsAt(q) == {i \in DOMAIN q : IsTerm(q, i)}
FirstTerms(q, n) == {q[i] : i \in {i \in TermsAt(q) : Cardinality(TermsAt(q) \cap 1 .. i) <= n}}
AllTerms(q) == {q[i] : i \in TermsAt(q)}
Terms(q) == FirstTerms(q, MaxTerms)
GatedTerms(q) == FirstTerms(q, MaxPresence)

StrictlyFound(q, reach) == {r \in reach : Range(q) \subseteq corpus[r].words}
RelaxedFound(q, reach) == {r \in reach : \E w \in Terms(q) : HasForm(r, w)}

(* documentFrequencyCounter: over every memory, whatever the scope.        *)
AllMemories == Stands \cap RMemories
Frequency(w) == Cardinality({m \in AllMemories : HasForm(m, w)})
CeilPct(n, pct) == (n * pct + 99) \div 100
Rare == LET few == CeilPct(Cardinality(AllMemories), 5) IN IF few > RareMinDocs THEN few ELSE RareMinDocs
Informative(w) == Frequency(w) <= Rare \/ Frequency(w) = Cardinality(AllMemories)

(* planTerms: the words of the question that some record has.              *)
Present(q, rows) == {w \in GatedTerms(q) : \E r \in rows \cup AllMemories : HasForm(r, w)}

Matched(r, words) == {w \in words : HasForm(r, w)}

(* log(1 + N / (1 + df)) summed over the matches, as a product that keeps  *)
(* the order.                                                              *)
Weight(r, words) ==
    FoldSet(LAMBDA w, acc : acc * (1 + Frequency(w) + IF HasForm(r, w) THEN Cardinality(AllMemories) ELSE 0),
            1, words)

(* relaxRows: what clears the bar, the best explained first.               *)
Explains(matched, single) ==
    /\ Cardinality(matched) >= IF single THEN 1 ELSE 2
    /\ \E w \in matched : Informative(w)

GateOpen(q, present) == Cardinality(present) * 100 >= MinPresentPct * Cardinality(GatedTerms(q))

(* The most weight first, then the most matches.                           *)
ByWeight(S, words) ==
    Places([r \in S |-> <<-Weight(r, words), -Cardinality({w \in Matched(r, words) : Informative(w)}),
                          -Cardinality(Matched(r, words)), FtsRank(r), IdOf(r)>>])

Rescued(S, single, words) ==
    LET explained == ByWeight({r \in S : Explains(Matched(r, words), single)}, words)
    IN Restrict(explained, Firsts(explained, MaxRescued))

RescuedLayers(q, rows, present, words) ==
    IF GateOpen(q, present)
    THEN Layer(Rescued(rows \cap RMemories, Len(q) = 1, words), Rescued(rows \cap RTraits, Len(q) = 1, words),
               Rescued(rows \cap REpisodes, Len(q) = 1, words))
    ELSE NothingFound

ByRank(S) == Places([r \in S |-> <<FtsRank(r), -Salience(r), IdOf(r)>>])
Newest(S) == Places([r \in S |-> <<-IdOf(r)>>])

StrictLayers(strict) ==
    Layer(ByRank(strict \cap RMemories), ByRank(strict \cap RTraits), Newest(strict \cap REpisodes))

Lexical(q, reach, rescue) ==
    IF StrictlyFound(q, reach) # {} THEN StrictLayers(StrictlyFound(q, reach))
    ELSE IF rescue
    THEN RescuedLayers(q, RelaxedFound(q, reach), Present(q, RelaxedFound(q, reach)),
                       Present(q, RelaxedFound(q, reach)) \cap Terms(q))
    ELSE NothingFound

------------------------------------------------------------------------------
(* The search by meaning, the quotas and the fusion.                       *)

RrfK == 60
RrfScale == 10000000    \* reciprocals as integers
SalienceSlot == 2000    \* SALIENCE_RRF_WEIGHT at that scale
MinScore == 50
TraitMargin == 6
EpisodeMargin == 1
ConsolidatedPrior == 5
MaxTraitHits == 1
MaxEpisodeHits == 2

Close(S, margin) ==
    Places([r \in {r \in S : corpus[r].vec >= MinScore + margin} |->
               <<-corpus[r].vec, -Salience(r), IdOf(r)>>])

Comparable(S) == \E r \in S : corpus[r].vec # NoVec

(* Mutant: any vector turns the rescue off, a memory's or not.             *)
AnyVector(reach, heard) == heard /\ Comparable(reach)

(* Mutant: also when the query has no vector.                              *)
VectorsAnyway(reach, heard) == Comparable(reach \cap RMemories)

(* hasMemoryVectors: what turns the rescue off.                            *)
MemoryVectors(reach, heard) == heard /\ Comparable(reach \cap RMemories)

(* One list by meaning; ties keep memories, then traits, then episodes.    *)
Meant(r) == corpus[r].vec + (IF r \in RMemories THEN ConsolidatedPrior ELSE 0)
LayerOf(r) == IF r \in RMemories THEN 1 ELSE IF r \in RTraits THEN 2 ELSE 3
Listed(layers) == DOMAIN layers.memories \cup DOMAIN layers.traits \cup DOMAIN layers.episodes

ByMeaning(close) ==
    Places([r \in Listed(close) |-> <<-Meant(r), LayerOf(r), -corpus[r].vec, -Salience(r), IdOf(r)>>])

(* fuseHits: each list a record is in adds 1 / (K + place).                *)
Given(list, r) == IF r \in DOMAIN list THEN RrfScale \div (RrfK + list[r]) ELSE 0
Rrf(lex, meant, r) ==
    Given(lex.traits, r) + Given(lex.memories, r) + Given(lex.episodes, r) + Given(meant, r)
Score(lex, meant, r) == Rrf(lex, meant, r) + Salience(r) * SalienceSlot

Fused(lex, meant) ==
    Places([r \in Listed(lex) \cup DOMAIN meant |-> <<-Score(lex, meant, r), -Salience(r), -IdOf(r)>>])

Quota(near, byWords, max) == Firsts(IF DOMAIN near # {} THEN near ELSE byWords, max)

Near(S, margin, heard) == IF heard THEN Close(S, margin) ELSE <<>>

CloseLayers(reach, heard) ==
    Layer(Near(reach \cap RMemories, 0, heard), Near(reach \cap RTraits, TraitMargin, heard),
          Near(reach \cap REpisodes, EpisodeMargin, heard))

(* With vectors to compare, traits and episodes keep their quotas: those   *)
(* of the search by meaning, or when it finds none, of the words.          *)
Admitted(close, lex, semantic) ==
    IF semantic
    THEN RMemories \cup Quota(close.traits, lex.traits, MaxTraitHits)
                    \cup Quota(close.episodes, lex.episodes, MaxEpisodeHits)
    ELSE Records

Fuse(meant, lex, kept) == Keep(Fused(lex, Keep(meant, kept)), kept)

Hits(close, lex, semantic) == Fuse(ByMeaning(close), lex, Admitted(close, lex, semantic))

HybridHits(q, reach, heard) ==
    Hits(CloseLayers(reach, heard), Lexical(q, reach, ~MemoryVectors(reach, heard)),
         heard /\ Comparable(reach))

LexicalHits(q, reach) == Hits(NothingFound, Lexical(q, reach, TRUE), FALSE)

------------------------------------------------------------------------------
(* The calls and the writers.                                              *)

Answer(how, q, scoped, hits) ==
    /\ answer = NoAnswer
    /\ answer' = [how |-> how, q |-> q, scoped |-> scoped, hits |-> hits,
                   plain |-> LexicalHits(q, InReach(scoped))]
    /\ UNCHANGED corpus

(* The embedder gives a usable vector of the query, or none.               *)
RecallHybrid(q, scoped, heard) ==
    Answer(IF heard THEN "hybrid" ELSE "deaf", q, scoped, HybridHits(q, InReach(scoped), heard))

(* recall(), which asks for no vector.                                     *)
RecallByWords(q, scoped) == Answer("words", q, scoped, LexicalHits(q, InReach(scoped)))

(* Whoever asked has the answer.                                           *)
Settle == answer # NoAnswer /\ answer' = NoAnswer /\ UNCHANGED corpus

(* The writers.  An answer is judged against the records it was read from. *)
Change(r, record) ==
    /\ answer = NoAnswer /\ corpus[r] # record
    /\ corpus' = [corpus EXCEPT ![r] = record]
    /\ UNCHANGED answer

(* A record written or edited has no vector until the backfill.            *)
WriteRecord(r, W) ==
    /\ r \in Stands \/ Cardinality(Stands) < MaxRecords
    /\ Change(r, [words |-> W, vec |-> NoVec])

IndexRecord(r, cosine) == r \in Stands /\ Change(r, [corpus[r] EXCEPT !.vec = cosine])

DeleteRecord(r) == Change(r, NoRecord)

RecallNext ==
    \/ \E q \in Queries, scoped \in BOOLEAN :
          RecallByWords(q, scoped) \/ \E heard \in BOOLEAN : RecallHybrid(q, scoped, heard)
    \/ Settle
    \/ \E r \in Records :
          \/ \E W \in SUBSET QueryWords : WriteRecord(r, W)
          \/ \E cosine \in Cosines : IndexRecord(r, cosine)
          \/ DeleteRecord(r)

RecallSpec == RecallInit /\ [][RecallNext]_recallVars

------------------------------------------------------------------------------
(* With no vector for the query the result is that of `recall()`           *)
(* (recall.ts:93, "With no embedder available the result is identical"),   *)
(* whatever vectors the records hold.                                      *)
DegradesToLexical ==
    answer.how = "deaf" => answer.hits = answer.plain

(* A memory that has a form of every word of the question, none of them in *)
(* another memory, is found, however long the question is, when no record  *)
(* has all its exact words and no memory has a vector: a vector of another *)
(* layer does not turn the rescue off (recall.ts:131), and the cap on the  *)
(* terms does not close the gate (lexical.ts, "Both sides of the presence  *)
(* gate cover the whole question").                                        *)
RescueReaches ==
    LET reach == InReach(answer.scoped)
        asked == AllTerms(answer.q) IN
    (/\ answer.how # "none"
     /\ StrictlyFound(answer.q, reach) = {} /\ ~Comparable(reach \cap RMemories)
     /\ Cardinality(asked) > 1 \/ Len(answer.q) = 1) =>
        \A m \in reach \cap RMemories :
            (/\ \A w \in asked : HasForm(m, w)
             /\ \A n \in AllMemories \ {m} : \A w \in asked : ~HasForm(n, w))
              => m \in DOMAIN answer.hits

===============================================================================
