------------------------------- MODULE HookTurn -------------------------------
(***************************************************************************)
(* The two hooks around a turn of a conversation.  mismem-inject puts      *)
(* memories in front of the model before it answers; mismem-used reads the *)
(* transcript when the turn stops and reinforces the memories of that turn *)
(* whose words the answer repeats.  They share nothing but the transcript, *)
(* which the client writes: the lines are external, reading them is not.   *)
(*                                                                         *)
(* A text is the set of its distinctive words (domain/terms.ts), and every *)
(* row has one length, so the character budget is a number of rows.  What  *)
(* is injected is read back line by line: of a text of several lines only  *)
(* the words of the first one come back.  Texts do not change here, and no *)
(* line of one is written like a line of an injection.                     *)
(***************************************************************************)
EXTENDS Integers, FiniteSets, Sequences, SequencesExt

CONSTANTS
    KMemories, KTraits, KEpisodes,   \* the rows recall may return
    Words,        \* distinctive words
    MaxInjected,  \* maxMemories, and maxChars in rows
    MinTerms,     \* minPromptTerms
    MinShared, MinOverlapPct,   \* minShared, minOverlap in hundredths
    MaxLines      \* bound on the transcript

Known == KMemories \cup KTraits \cup KEpisodes

VARIABLES
    words,       \* words[m]: contentTerms of the text recall returns
    firstLine,   \* firstLine[m]: those of its first line
    private,     \* the rows in an excluded scope
    transcript,  \* the lines of the conversation
    injected, recalled, said, \* what this turn was given and answered (history)
    blind,       \* an injection could not read the transcript (history)
    credited     \* the ids the last run of mismem-used sent to reinforce

turnVars == <<words, firstLine, private, transcript, injected, recalled, said, blind, credited>>
texts == <<words, firstLine, private>>

Line(role, typed, tool, shows, says) ==
    [role |-> role, typed |-> typed, tool |-> tool, shows |-> shows, says |-> says]

TurnInit ==
    /\ words \in [Known -> SUBSET Words]
    /\ firstLine \in [Known -> SUBSET Words] /\ \A m \in Known : firstLine[m] \subseteq words[m]
    /\ private \in SUBSET Known
    /\ transcript = <<>>
    /\ injected = {} /\ recalled = {} /\ said = {} /\ blind = FALSE
    /\ credited = [ran |-> 0, ids |-> {}]

------------------------------------------------------------------------------
(* mismem-inject.                                                          *)

(* Mutant: what the context already holds is not looked at.                *)
PresentNotRead(hit, present) == hit \notin KEpisodes /\ hit \notin private

(* No episode, nothing present already, nothing of an excluded scope.      *)
MayTravel(hit, present) == hit \notin KEpisodes /\ hit \notin present /\ hit \notin private

(* selectForInjection: the first hits, in order, that fit.                 *)
Select(hits, present) ==
    LET fitting == {i \in DOMAIN hits : MayTravel(hits[i], present)} IN
    {hits[i] : i \in {i \in fitting : Cardinality({j \in fitting : j < i}) < MaxInjected}}

(* Every id the transcript holds, whoever wrote it.                        *)
InTranscript == UNION {transcript[i].shows : i \in DOMAIN transcript}

(* A prompt of the person: its hook searches when it says enough, when the *)
(* server is ready and answers (else hits is empty), and adds its lines.   *)
Prompt(asked, hits, readable) ==
    LET worth == Cardinality(asked) >= MinTerms
        chosen == IF worth THEN Select(hits, IF readable THEN InTranscript ELSE {}) ELSE {}
        opened == Append(transcript, Line("user", TRUE, FALSE, {}, asked)) IN
    /\ Len(transcript) < MaxLines
    /\ transcript' = IF chosen = {} THEN opened
                     ELSE Append(opened, Line("attachment", FALSE, FALSE, chosen, {}))
    /\ injected' = chosen /\ recalled' = {} /\ said' = {}
    /\ blind' = (blind \/ ~readable)
    /\ UNCHANGED <<texts, credited>>

(* The model calls recall: the result comes back as a line of the user,    *)
(* which may carry a text of the client as well.                           *)
RecallByModel(hits, withText) ==
    /\ transcript # <<>> /\ Len(transcript) < MaxLines
    /\ transcript' = Append(transcript, Line("user", withText, TRUE, hits, {}))
    /\ recalled' = recalled \cup hits
    /\ UNCHANGED <<texts, injected, said, blind, credited>>

Reply(W) ==
    /\ transcript # <<>> /\ Len(transcript) < MaxLines
    /\ transcript' = Append(transcript, Line("assistant", FALSE, FALSE, {}, W))
    /\ said' = said \cup W
    /\ UNCHANGED <<texts, injected, recalled, blind, credited>>

------------------------------------------------------------------------------
(* mismem-used.                                                            *)

(* Mutant: any line of the user opens a turn.                              *)
AnyUserLine(line) == line.role = "user"

(* A line that only carries a tool_result does not open a turn.            *)
OpensTurn(line) == line.role = "user" /\ line.typed /\ ~line.tool

(* lastTurn: from the last line that opens one; all of them if none does.  *)
LastTurn ==
    LET opening == {i \in DOMAIN transcript : OpensTurn(transcript[i])}
        first == IF opening = {} THEN 1 ELSE CHOOSE i \in opening : \A j \in opening : j <= i IN
    SubSeq(transcript, first, Len(transcript))

(* Mutant: the layer of a hit is not looked at.                            *)
RecalledOfAnyLayer(lines) ==
    UNION {lines[i].shows : i \in {i \in DOMAIN lines : lines[i].tool}}

(* recalledMemories: the hits of layer memory in the tool results.         *)
Recalled(lines) ==
    KMemories \cap UNION {lines[i].shows : i \in {i \in DOMAIN lines : lines[i].tool}}

(* injectedMemories: every id of an injection, a trait's too.              *)
Injected(lines) == UNION {lines[i].shows : i \in {i \in DOMAIN lines : lines[i].role = "attachment"}}
AssistantReply(lines) == UNION {lines[i].says : i \in {i \in DOMAIN lines : lines[i].role = "assistant"}}

(* overlap, usedMemoryIds.                                                 *)
UsedBy(text, reply) ==
    LET shared == Cardinality(text \cap reply) IN
    /\ reply # {} /\ text # {}
    /\ shared >= MinShared
    /\ shared * 100 >= MinOverlapPct * Cardinality(text)

(* A Map by id, recalled first: what was injected counts by its first line.*)
UsedIds(lines) ==
    LET reply == AssistantReply(lines) IN
    {m \in Injected(lines) : UsedBy(firstLine[m], reply)}
    \cup {m \in Recalled(lines) \ Injected(lines) : UsedBy(words[m], reply)}

(* The Stop hook reads, measures and sends; a hook that fails says so and  *)
(* changes nothing.  reinforce (HebbianIndex) boosts the memories of them. *)
Stop ==
    /\ transcript # <<>> /\ credited.ran < MaxLines
    /\ credited' = [ran |-> credited.ran + 1, ids |-> UsedIds(LastTurn)]
    /\ UNCHANGED <<texts, transcript, injected, recalled, said, blind>>

Orders == {s \in UNION {[1..n -> Known] : n \in 0..Cardinality(Known)} : IsInjective(s)}

TurnNext ==
    \/ \E asked \in SUBSET Words, hits \in Orders, readable \in BOOLEAN : Prompt(asked, hits, readable)
    \/ \E hits \in SUBSET Known, withText \in BOOLEAN : RecallByModel(hits, withText)
    \/ \E W \in SUBSET Words : Reply(W)
    \/ Stop

TurnSpec == TurnInit /\ [][TurnNext]_turnVars

------------------------------------------------------------------------------
(* The hook that stops a turn credits exactly what that turn put in front  *)
(* of the model and its answer used: what the hook injected, memory or     *)
(* trait, by the line it reads back, and what the model recalled besides,  *)
(* the memories only (usage.ts:88).  Nothing of an earlier turn, and none  *)
(* lost to the tool results in between (usage.ts:49, "A user message that  *)
(* only carries a `tool_result` does not open a new turn").                *)
CreditsTheTurn ==
    [][credited'.ran # credited.ran =>
         credited'.ids =
            {m \in injected : UsedBy(firstLine[m], said)}
            \cup {m \in (recalled \cap KMemories) \ injected : UsedBy(words[m], said)}]_turnVars

(* While the transcript can be read, an injection repeats nothing the      *)
(* context already holds, whether a hook or the model brought it           *)
(* (inject-cli.ts:65).                                                     *)
InjectedOnce ==
    ~blind => \A i, j \in DOMAIN transcript :
        (i < j /\ transcript[j].role = "attachment") =>
            transcript[i].shows \cap transcript[j].shows = {}

===============================================================================
