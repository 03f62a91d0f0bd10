------------------------------ MODULE MCViewer ------------------------------
(* What a page of the viewer asks for and shows, side by side: a run of    *)
(* consolidation, a forget, a list, the graph, the picks of a trait, and   *)
(* the door of the server before all of them. They share no state here, so *)
(* a behaviour follows one of them (part) and the others do not start: the *)
(* instances add up instead of multiplying.                                *)
EXTENDS RunDialog, Desk, Paging, Atlas, Door, Picking

VARIABLE part

Parts == {"dialog", "desk", "paging", "atlas", "door", "picking"}

ViewerInit ==
    /\ part \in Parts
    /\ DialogInit /\ DeskInit /\ PageInit /\ AtlasInit /\ DoorInit /\ PickInit
    /\ part # "desk" => ~allowed /\ \A i \in Items : rows[i] = 0
    /\ part # "paging" => ~resets /\ order = <<>>
    /\ part # "door" => auth = Open /\ \A h \in Hours : hours <= h
    /\ turns < MaxTurns
    /\ part # "atlas" => alive = Nodes /\ (\A e \in GEpisodes : origin[e] = CHOOSE m \in GMemories : TRUE)
                       /\ (\A t \in GTraits : cites[t] = {}) /\ turns = 0

DialogMoves == DialogNext /\ UNCHANGED <<deskVars, pageVars, atlasVars, doorVars, pickVars>>
DeskMoves == DeskNext /\ UNCHANGED <<dialogVars, pageVars, atlasVars, doorVars, pickVars>>
PageMoves == PageNext /\ UNCHANGED <<dialogVars, deskVars, atlasVars, doorVars, pickVars>>
AtlasMoves == AtlasNext /\ UNCHANGED <<dialogVars, deskVars, pageVars, doorVars, pickVars>>
DoorMoves == DoorNext /\ UNCHANGED <<dialogVars, deskVars, pageVars, atlasVars, pickVars>>
PickMoves == PickNext /\ UNCHANGED <<dialogVars, deskVars, pageVars, atlasVars, doorVars>>

ViewerNext ==
    /\ UNCHANGED part
    /\ \/ part = "dialog" /\ DialogMoves
       \/ part = "desk" /\ DeskMoves
       \/ part = "paging" /\ PageMoves
       \/ part = "atlas" /\ AtlasMoves
       \/ part = "door" /\ DoorMoves
       \/ part = "picking" /\ PickMoves

ViewerSpec ==
    /\ ViewerInit
    /\ [][ViewerNext]_<<part, dialogVars, deskVars, pageVars, atlasVars, doorVars, pickVars>>
    /\ DialogFairness
===============================================================================
