-------------------------------- MODULE Atlas --------------------------------
(***************************************************************************)
(* The graph of the viewer.  graphData answers with one statement for each *)
(* layer, and other processes write between them; the page filters what    *)
(* came (layers, the words of the box, the neighbourhood of the selected   *)
(* node, orphans) and draws the rest.                                      *)
(*                                                                         *)
(* Which rows a cap leaves out depends on the salience: here, any.  A      *)
(* strength is a ratio of logarithms: here, the branch that computes it.   *)
(* hubs() repeats the two reads of coUseEdges for the halos, left out.     *)
(***************************************************************************)
EXTENDS Integers, FiniteSets

CONSTANTS
    GMemories, GTraits, GEpisodes,  \* rows
    Alike,        \* pairs of memories whose vectors relatedLinks joins
    MemoryCaps,   \* GRAPH_MAX_MEMORIES: any of these
    MaxTurns, MaxWrites   \* bounds

VARIABLES
    alive,    \* the rows there are
    cites,    \* cites[t]: evidence_memory_ids of a trait
    origin,   \* origin[e]: consolidated_into
    couse,    \* couse[p]: co_use.n of a pair
    turns,    \* the turns registered
    writes,   \* writes of others since the answer began
    body,     \* body: the answer of graphData so far
    drawing   \* drawing: what the page draws of it

atlasVars == <<alive, cites, origin, couse, turns, writes, body, drawing>>

Nodes == GMemories \cup GTraits \cup GEpisodes
PairsOf(S) == {p \in SUBSET S : Cardinality(p) = 2}
None == "none"
Link(a, b, kind) == [ends |-> {a, b}, kind |-> kind, n |-> 0, share |-> None]

Asking == [at |-> "memories", nodes |-> {}, links |-> {}, divisor |-> 0, turns |-> 0]
Undrawn == [nodes |-> {}, links |-> {}, center |-> None, depth |-> 0]

AtlasInit ==
    /\ alive \in {S \in SUBSET Nodes : GMemories \subseteq S}
    /\ cites \in [GTraits -> SUBSET GMemories]
    /\ origin \in [GEpisodes -> GMemories]
    /\ turns \in 0..MaxTurns
    /\ couse \in [PairsOf(GMemories) -> 0..turns]
    /\ writes = 0
    /\ body = Asking
    /\ drawing = Undrawn

Read(from, to, nodes, links) ==
    /\ body.at = from
    /\ body' = [body EXCEPT !.at = to, !.nodes = @ \cup nodes, !.links = @ \cup links]
    /\ UNCHANGED <<alive, cites, origin, couse, turns, writes, drawing>>

------------------------------------------------------------------------------
(* graphData, statement by statement.                                      *)

Ids == body.nodes \cap GMemories    \* memoryIds

ReadMemories ==
    \E cap \in MemoryCaps, M \in SUBSET (alive \cap GMemories) :
        /\ M = alive \cap GMemories \/ Cardinality(M) = cap
        /\ Cardinality(M) <= cap
        /\ Read("memories", "traits", M, {})

(* Mutant: every memory a trait cites.                                     *)
WhateverIsCited(t) == {Link(m, t, "evidence") : m \in cites[t]}

Evidence(t) == {Link(m, t, "evidence") : m \in cites[t] \cap Ids}

ReadTraits ==
    LET traits == alive \cap GTraits IN
    Read("traits", "episodes", traits, UNION {Evidence(t) : t \in traits})

(* The episodes of the memories drawn, when they are asked for.            *)
ReadEpisodes(wanted) ==
    LET episodes == IF wanted THEN {e \in alive \cap GEpisodes : origin[e] \in Ids} ELSE {} IN
    Read("episodes", "related", episodes, {Link(e, origin[e], "origin") : e \in episodes})

(* relatedLinks: a vector goes with its memory.                            *)
ReadRelated(wanted) ==
    Read("related", "couse", {},
         IF wanted THEN {Link(m, n, "related") : m \in Ids \cap alive, n \in Ids \cap alive}
                          \cap {[ends |-> p, kind |-> "related", n |-> 0, share |-> None] : p \in Alike}
         ELSE {})

(* coUseEdges reads the turns it divides by before the edges.              *)
ReadDivisor ==
    /\ body.at = "couse"
    /\ body' = [body EXCEPT !.at = "edges", !.divisor = turns]
    /\ UNCHANGED <<alive, cites, origin, couse, turns, writes, drawing>>

(* Mutant: the turn that makes the denominator vanish is not set apart,    *)
(* and what is not finite counts as unknown.                               *)
ShareOfLogarithms(n, among) ==
    IF among = 0 \/ n = among THEN "unknown" ELSE IF n > among THEN "every turn" ELSE "some turns"

(* associationStrength: of n uses together in that many turns, the branch. *)
Share(n, among) ==
    IF among = 0 THEN "unknown" ELSE IF n >= among THEN "every turn" ELSE "some turns"

(* coUseLinks: the pairs above the floor with both memories drawn.         *)
ReadCoUse(minN) ==
    Read("edges", "turns", {},
         {[ends |-> p, kind |-> "co_use", n |-> couse[p], share |-> Share(couse[p], body.divisor)] :
             p \in {p \in PairsOf(Ids \cap alive) : couse[p] >= minN}})

(* turnsRegistered once more, after the edges: the sample they go with.    *)
ReadTurns ==
    /\ body.at = "turns"
    /\ body' = [body EXCEPT !.at = "sent", !.turns = turns]
    /\ UNCHANGED <<alive, cites, origin, couse, turns, writes, drawing>>

------------------------------------------------------------------------------
(* The other processes, while the answer is built: what they do later is   *)
(* not in it.                                                              *)

Writes == body.at # "sent" /\ writes < MaxWrites /\ writes' = writes + 1 /\ UNCHANGED <<cites, body, drawing>>

(* A memory leaves with its counts and its vector; forget takes its        *)
(* episodes too, undoing the consolidation leaves them loose.              *)
DropMemory(m, withEpisodes) ==
    /\ m \in alive \cap GMemories
    /\ alive' = (alive \ {m}) \ (IF withEpisodes THEN {e \in GEpisodes : origin[e] = m} ELSE {})
    /\ origin' = [e \in GEpisodes |-> IF origin[e] = m THEN None ELSE origin[e]]
    /\ couse' = [p \in DOMAIN couse |-> IF m \in p THEN 0 ELSE couse[p]]
    /\ Writes /\ UNCHANGED turns

ConsolidateInto(e, m) ==
    /\ e \in alive /\ m \in alive /\ origin[e] = None
    /\ origin' = [origin EXCEPT ![e] = m]
    /\ Writes /\ UNCHANGED <<alive, couse, turns>>

(* A turn that used two memories together.                                 *)
TurnUses(p) ==
    /\ p \subseteq alive /\ turns < MaxTurns
    /\ turns' = turns + 1
    /\ couse' = [couse EXCEPT ![p] = @ + 1]
    /\ Writes /\ UNCHANGED <<alive, origin>>

------------------------------------------------------------------------------
(* filterGraph.                                                            *)

Within(links, S) == {l \in links : l.ends \subseteq S}

(* The local graph: what depth rounds of the search, breadth first from    *)
(* the centre, come to by links.                                           *)
Ball(links, center, depth) ==
    {node \in Nodes : \E steps \in 0..depth : \E walk \in [0..steps -> Nodes] :
        /\ walk[0] = center /\ walk[steps] = node
        /\ \A i \in 1..steps : \E l \in links : l.ends = {walk[i - 1], walk[i]}}

LayerNodes(off) ==
    body.nodes \ ((IF "traits" \in off THEN GTraits ELSE {}) \cup (IF "episodes" \in off THEN GEpisodes ELSE {}))

(* Mutant: the neighbourhood is walked before the layers are turned off.   *)
WalkedLinks(nodes, off) == body.links

(* The links that are left when the layers and the query are through.      *)
AliveLinks(nodes, off) == {l \in Within(body.links, nodes) : l.kind \notin off}

Filtered(off, matches, center, depth, orphans) ==
    LET nodes == LayerNodes(off) \cap matches
        links == AliveLinks(nodes, off)
        local == center \in nodes
        kept == IF local THEN nodes \cap Ball(links, center, depth) ELSE nodes
        near == Within(links, kept)
        linked == UNION {l.ends : l \in near}
        painted == IF orphans THEN kept ELSE kept \cap linked IN
    [nodes |-> painted, links |-> Within(near, painted),
     center |-> IF local THEN center ELSE None, depth |-> depth]

(* The page paints with some filters; a change of them paints it again.    *)
Paint(off, matches, center, depth, orphans) ==
    /\ body.at = "sent" /\ drawing = Undrawn
    /\ drawing' = Filtered(off, matches, center, depth, orphans)
    /\ UNCHANGED <<alive, cites, origin, couse, turns, writes, body>>

AtlasNext ==
    \/ ReadMemories \/ ReadTraits \/ ReadDivisor \/ ReadTurns
    \/ \E wanted \in BOOLEAN : ReadEpisodes(wanted) \/ ReadRelated(wanted)
    \/ \E minN \in 1..2 : ReadCoUse(minN)
    \/ \E m \in GMemories, withEpisodes \in BOOLEAN : DropMemory(m, withEpisodes)
    \/ \E e \in GEpisodes, m \in GMemories : ConsolidateInto(e, m)
    \/ \E p \in DOMAIN couse : TurnUses(p)
    \/ \E off \in SUBSET {"traits", "episodes", "related", "co_use"}, hidden \in body.nodes \cup {None},
          center \in body.nodes \cup {None}, depth \in 1..2, orphans \in BOOLEAN :
          Paint(off, body.nodes \ {hidden}, center, depth, orphans)

AtlasSpec == AtlasInit /\ [][AtlasNext]_atlasVars

------------------------------------------------------------------------------
(* No link leads nowhere, though memories go and episodes move between the *)
(* statements of one answer.                                               *)
NoDanglingEdge ==
    /\ \A l \in body.links : l.ends \subseteq body.nodes
    /\ \A l \in drawing.links : l.ends \subseteq drawing.nodes

(* The local graph is one piece: what is drawn is reached from the centre  *)
(* along links that are drawn (graph.ts, "trimming at the end would make   *)
(* the local graph walk links that already vanished").                     *)
LocalIsOnePiece ==
    drawing.center # None =>
        drawing.nodes \subseteq Ball(drawing.links, drawing.center, drawing.depth)

(* The sample the panel shows beside the edges is never smaller than the   *)
(* support of one of them, in whatever order turns and reads fall.         *)
SampleCoversEdges ==
    body.at = "sent" => \A l \in body.links : l.n <= body.turns

(* The strength was computed with an older count of turns than the sample  *)
(* shown beside it: it is off by the turns of the others meanwhile and by  *)
(* nothing else.  A pair measured in every turn is missing from no more of *)
(* the sample than that, one measured in some is missing from one at least,*)
(* and one of unknown strength has no turn from before the answer.         *)
StrengthNearSample ==
    body.at = "sent" => \A l \in body.links :
        /\ l.share = "every turn" => body.turns <= l.n + writes
        /\ l.share = "some turns" => l.n < body.turns
        /\ l.share = "unknown" => body.turns <= writes

(* What is drawn can be trusted: its links, its neighbourhood, its figures *)
(* (lib/graph.ts:225, queries/graph.ts:128 and store/connectome.ts:149).   *)
DrawnAsMeasured == NoDanglingEdge /\ LocalIsOnePiece /\ SampleCoversEdges /\ StrengthNearSample

===============================================================================
