------------------------------- MODULE MCPasses -------------------------------
(* The long passes over the store, side by side: the nights of             *)
(* mismem-consolidate with the record of what each run struck, and the     *)
(* exports of mismem-obsidian.  The two share no state here, so a          *)
(* behaviour follows one of them (part) and the other does not start: the  *)
(* instances add up instead of multiplying.                                *)
EXTENDS MCSleepCycle, StrikeHistory, Vault

VARIABLE part

Parts == {"nights", "vault"}

PassesInit ==
    /\ part \in Parts
    /\ HistInit /\ VaultInit
    /\ \A t \in VTraits : cites[t] = VMemories   \* a trait without evidence has no links to break
    /\ part # "vault" => \A i \in Rows : home[i] = (CHOOSE s \in VScopes : TRUE) /\ title[i] = NoTitle

NightMoves == HistNext /\ UNCHANGED vaultVars
VaultMoves == VaultNext /\ UNCHANGED histVars

PassesNext ==
    /\ UNCHANGED part
    /\ \/ part = "nights" /\ NightMoves
       \/ part = "vault" /\ VaultMoves

PassesSpec == PassesInit /\ [][PassesNext]_<<part, histVars, vaultVars>>
===============================================================================
