------------------------------- MODULE Dispatch -------------------------------
(***************************************************************************)
(* tools/call of the MCP server: one request to one operation of the store,*)
(* and what follows it before the answer leaves (the vector of the row just*)
(* written, a bounded backfill).  A handler runs alone in its process until*)
(* it awaits; other processes write in between, answers are lost, and a    *)
(* client that heard nothing sends the same call again.                    *)
(*                                                                         *)
(* A call is the operation its tool comes down to.  Scopes, search and     *)
(* formatting are left out; so is the decay that `forget` writes.          *)
(***************************************************************************)
EXTENDS Integers, FiniteSets

CONSTANTS
    Callers,      \* calls a client makes, each with its retries
    CallBodies,   \* (scope, body) pairs
    CallNames,    \* trait names, which mem_update may also give as content
    MaxIds, MaxSends, MaxElsewhere   \* bounds: rows, sends of one call, writes of others

ASSUME DispatchAssumption == "others" \notin Callers /\ CallNames # {}

VARIABLES
    episodes,  \* rows: [id, body, into, by]
    memories,  \* rows: [id, by]
    traits,    \* rows: [id, name, strength]
    lastId,
    call,      \* call[c]: what c asked and how far it is
    elsewhere  \* writes of other processes so far

dispatchVars == <<episodes, memories, traits, lastId, call, elsewhere>>

Pending == 0
Others == "others"
IdsOf(R) == {r.id : r \in R}

Unsent == [tool |-> "none", arg |-> {}, sends |-> 0, phase |-> "unsent",
           answer |-> "none", wrote |-> FALSE, calm |-> TRUE]

DispatchInit ==
    /\ episodes = {[id |-> i, body |-> <<"earlier", i>>, into |-> IF i = 2 THEN 3 ELSE Pending, by |-> Others] : i \in 1..2}
    /\ memories = {[id |-> 3, by |-> Others]}
    /\ traits = {[id |-> 4, name |-> CHOOSE n \in CallNames : TRUE, strength |-> 1]}
    /\ lastId = 4
    /\ call = [c \in Callers |-> Unsent]
    /\ elsewhere = 0

(* What a client may ask: the tools, and the mem_* aliases that come down  *)
(* to them (mem_save, mem_session_summary and mem_save_prompt capture).    *)
Tools == {"capture", "consolidate", "crystallize", "mem_update", "reinforce", "forget", "read"}
Arguments(tool) ==
    CASE tool = "capture"     -> {<<"said", b>> : b \in CallBodies}
      [] tool = "consolidate" -> (SUBSET IdsOf(episodes)) \ {{}}
      [] tool = "crystallize" -> CallNames
      [] tool = "mem_update"  -> (IdsOf(memories) \cup IdsOf(traits)) \X CallNames
      [] tool = "reinforce"   -> (SUBSET IdsOf(memories)) \ {{}}
      [] OTHER                -> {{}}

------------------------------------------------------------------------------
(* The client.                                                             *)

SendCall(c, tool, arg) ==
    /\ call[c].phase = "unsent"
    /\ call' = [call EXCEPT ![c] = [@ EXCEPT !.tool = tool, !.arg = arg, !.sends = 1, !.phase = "sent"]]
    /\ UNCHANGED <<episodes, memories, traits, lastId, elsewhere>>

(* The client stops waiting, or the process dies while it awaits.          *)
LoseCall(c) ==
    /\ call[c].phase \in {"embedding", "answered"} /\ call[c].sends < MaxSends
    /\ call' = [call EXCEPT ![c].phase = "lost"]
    /\ UNCHANGED <<episodes, memories, traits, lastId, elsewhere>>

SendAgain(c) ==
    /\ call[c].phase = "lost"
    /\ call' = [call EXCEPT ![c] = [@ EXCEPT !.phase = "sent", !.sends = call[c].sends + 1,
                                             !.answer = "none", !.wrote = FALSE]]
    /\ UNCHANGED <<episodes, memories, traits, lastId, elsewhere>>

------------------------------------------------------------------------------
(* The handlers.                                                           *)

Asks(c, tool) == call[c].phase = "sent" /\ call[c].tool = tool
Responds(c, answer, wrote) ==
    call' = [call EXCEPT ![c].phase = "answered", ![c].answer = answer, ![c].wrote = wrote]
Awaits(c) == call' = [call EXCEPT ![c].phase = "embedding", ![c].wrote = TRUE]
NewId == lastId < MaxIds /\ lastId' = lastId + 1
NoNewId == UNCHANGED lastId

(* captureAndEmbed.                                                        *)
Captures(c, body) ==
    /\ IF \E e \in episodes : e.body = body
       THEN Responds(c, "ok", FALSE) /\ NoNewId /\ UNCHANGED episodes
       ELSE /\ NewId /\ Awaits(c)
            /\ episodes' = episodes \cup {[id |-> lastId', body |-> body, into |-> Pending, by |-> c]}
    /\ UNCHANGED <<memories, traits>>

CaptureCall(c) == Asks(c, "capture") /\ Captures(c, call[c].arg)

(* Mutant: the UPDATE takes an episode from the memory that holds it.      *)
NamedEpisodes(ids) == {e \in episodes : e.id \in ids}

TakenEpisodes(ids) == {e \in episodes : e.id \in ids /\ e.into = Pending}

(* consolidate, then a backfill with the new id first.                     *)
ConsolidateCall(c) ==
    /\ Asks(c, "consolidate")
    /\ LET taken == TakenEpisodes(call[c].arg) IN
       IF taken = {} THEN Responds(c, "error", FALSE) /\ NoNewId /\ UNCHANGED <<episodes, memories>>
       ELSE /\ NewId /\ Awaits(c)
            /\ memories' = memories \cup {[id |-> lastId', by |-> c]}
            /\ episodes' = (episodes \ taken) \cup {[e EXCEPT !.into = lastId'] : e \in taken}
    /\ UNCHANGED traits

Called(n) == {t \in traits : t.name = n}

(* crystallize: one evidence more for the trait of that name.              *)
CrystallizeCall(c) ==
    /\ Asks(c, "crystallize")
    /\ Awaits(c)
    /\ IF Called(call[c].arg) = {}
       THEN NewId /\ traits' = traits \cup {[id |-> lastId', name |-> call[c].arg, strength |-> 1]}
       ELSE /\ NoNewId
            /\ traits' = {IF t.name = call[c].arg THEN [t EXCEPT !.strength = @ + 1] ELSE t : t \in traits}
    /\ UNCHANGED <<episodes, memories>>

(* mem_update of a memory, of a trait, or of neither: then it is appended. *)
UpdateCall(c) ==
    /\ Asks(c, "mem_update")
    /\ LET id == call[c].arg[1]
           content == call[c].arg[2]
           named == {t \in traits : t.id = id} IN
       IF id \in IdsOf(memories)
       THEN Responds(c, "ok", TRUE) /\ NoNewId /\ UNCHANGED <<episodes, memories, traits>>
       ELSE IF named = {} THEN Captures(c, <<"update", id, content>>)
       ELSE /\ NoNewId /\ UNCHANGED <<episodes, memories>>
            /\ IF named \subseteq Called(content) THEN Responds(c, "ok", TRUE) /\ UNCHANGED traits
               ELSE IF Called(content) # {}   \* UNIQUE(scope, name)
               THEN Responds(c, "error", FALSE) /\ UNCHANGED traits
               ELSE Awaits(c) /\ traits' = (traits \ named) \cup {[t EXCEPT !.name = content] : t \in named}

(* reinforce: the boost is committed, then the use: a memory deleted in    *)
(* between breaks a foreign key.                                           *)
BoostCall(c) ==
    /\ Asks(c, "reinforce")
    /\ call' = [call EXCEPT ![c].phase = "boosted", ![c].wrote = TRUE, ![c].arg = @ \cap IdsOf(memories)]
    /\ UNCHANGED <<episodes, memories, traits, lastId>>

RecordCall(c) ==
    /\ call[c].phase = "boosted"
    /\ Responds(c, IF call[c].arg \subseteq IdsOf(memories) THEN "ok" ELSE "error", TRUE)
    /\ UNCHANGED <<episodes, memories, traits, lastId>>

(* forget: any consolidated episodes, any memories with what backs them.   *)
Erase(M, E) ==
    /\ memories' = {m \in memories : m.id \notin M}
    /\ episodes' = {e \in episodes : e.into = Pending \/ (e.into \notin M /\ e.id \notin E)}
    /\ UNCHANGED <<traits, lastId>>

ForgetCall(c) ==
    /\ Asks(c, "forget") /\ Responds(c, "ok", TRUE)
    /\ \E M \in SUBSET IdsOf(memories), E \in SUBSET IdsOf(episodes) : Erase(M, E)

(* recall and the aliases that only read, one of them an id that may be    *)
(* gone; and arguments or a name of a tool that are refused.               *)
ReadCall(c) ==
    /\ Asks(c, "read")
    /\ Responds(c, "ok", FALSE) \/ Responds(c, "error", FALSE)
    /\ UNCHANGED <<episodes, memories, traits, lastId>>

(* Mutant: what the embedder throws is the answer of the call.             *)
AnswerOfEmbedder(how) == IF how = "throws" THEN "error" ELSE "ok"

(* embedWrittenLayer, and the catch around the backfill.                   *)
AnswerAfter(how) == "ok"

EmbedEnds(c, how) ==
    /\ call[c].phase = "embedding"
    /\ Responds(c, AnswerAfter(how), TRUE)
    /\ UNCHANGED <<episodes, memories, traits, lastId>>

Serve(c) ==
    /\ \/ CaptureCall(c) \/ ConsolidateCall(c) \/ CrystallizeCall(c) \/ UpdateCall(c)
       \/ BoostCall(c) \/ RecordCall(c) \/ ForgetCall(c) \/ ReadCall(c)
       \/ \E how \in {"vector", "nothing", "throws"} : EmbedEnds(c, how)
    /\ UNCHANGED elsewhere

------------------------------------------------------------------------------
(* Other processes: the viewer, a nightly run, another server.             *)

Outside == elsewhere < MaxElsewhere /\ elsewhere' = elsewhere + 1

EraseElsewhere(M, E) ==
    /\ Outside
    /\ Erase(M, E)
    /\ UNCHANGED call

UndoElsewhere(m) ==
    /\ Outside
    /\ memories' = memories \ {m}
    /\ episodes' = {IF e.into = m.id THEN [e EXCEPT !.into = Pending] ELSE e : e \in episodes}
    /\ call' = [c \in Callers |-> [call[c] EXCEPT !.calm = FALSE]]
    /\ UNCHANGED <<traits, lastId>>

ConsolidateElsewhere(taken) ==
    /\ Outside /\ NewId
    /\ memories' = memories \cup {[id |-> lastId', by |-> Others]}
    /\ episodes' = (episodes \ taken) \cup {[e EXCEPT !.into = lastId'] : e \in taken}
    /\ UNCHANGED <<traits, call>>

ForgetTraitElsewhere(t) ==
    /\ Outside
    /\ traits' = traits \ {t}
    /\ UNCHANGED <<episodes, memories, lastId, call>>

DispatchNext ==
    \/ \E c \in Callers :
          \/ \E tool \in Tools : \E arg \in Arguments(tool) : SendCall(c, tool, arg)
          \/ LoseCall(c) \/ SendAgain(c) \/ Serve(c)
    \/ \E M \in SUBSET IdsOf(memories), E \in SUBSET IdsOf(episodes) : EraseElsewhere(M, E)
    \/ \E m \in memories : UndoElsewhere(m)
    \/ \E taken \in (SUBSET {e \in episodes : e.into = Pending}) \ {{}} : ConsolidateElsewhere(taken)
    \/ \E t \in traits : ForgetTraitElsewhere(t)

DispatchSpec == DispatchInit /\ [][DispatchNext]_dispatchVars

------------------------------------------------------------------------------
(* An error means that nothing was stored, whatever failed after the write *)
(* (embed-write.ts:1, "A dead embedder must never fail the write").        *)
(* `reinforce` is the exception: it commits the boost before the use.      *)
ErrorsWroteNothing ==
    \A c \in Callers :
        (call[c].phase = "answered" /\ call[c].answer = "error" /\ call[c].tool # "reinforce")
            => ~call[c].wrote

(* A call sent again because its answer was lost leaves no second episode  *)
(* and no second memory, while nobody undoes a consolidation meanwhile     *)
(* (the episodes it releases are pending again, for this call too).        *)
RetriesAddNothing ==
    \A c \in Callers :
        call[c].calm => Cardinality({r \in episodes : r.by = c} \cup {r \in memories : r.by = c}) <= 1

(* A client that got no good answer may send its call again.               *)
RetriesAreSafe == ErrorsWroteNothing /\ RetriesAddNothing

===============================================================================
