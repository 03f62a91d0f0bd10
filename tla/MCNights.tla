------------------------------- MODULE MCNights -------------------------------
(* Nights nobody disturbs, with the record of what each run struck: two    *)
(* episodes of one scope, read by two runs at once.                        *)
EXTENDS StrikeHistory

===============================================================================
