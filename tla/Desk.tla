--------------------------------- MODULE Desk ---------------------------------
(***************************************************************************)
(* Forgetting from the viewer.  The detail of a memory or a trait asks the *)
(* server what would be lost; the answer carries a single-use token, and   *)
(* only a second request with it deletes.  The person may dismiss, open    *)
(* again or look at another record while answers travel, and other         *)
(* processes delete and edit meanwhile.                                    *)
(*                                                                         *)
(* A detail is mounted once for each selection: an answer to one that is   *)
(* gone reaches no state of the next, but the callback of the page.        *)
(***************************************************************************)
EXTENDS Integers, FiniteSets, Sequences

CONSTANTS
    DMemories, DTraits,  \* records of the two layers
    MaxEpisodes,   \* bound on the episodes that back a memory
    ConfirmTtl,    \* CONFIRM_TTL_SECONDS
    MaxTime, MaxTokens, MaxMounts, MaxCalls   \* bounds

ASSUME DeskAssumption ==
    /\ "nothing" \notin DMemories \cup DTraits
    /\ MaxEpisodes \in Nat /\ ConfirmTtl \in Nat

VARIABLES
    allowed,   \* loadAllowDelete, when the server started
    rows,      \* rows[i]: the episodes that back it, or Gone
    issued,    \* issued[t]: the token t, with what its challenge said (history)
    pending,   \* ForgetConfirmations.pending: the tokens not spent yet
    now,       \* the clock of the server
    desk,      \* desk: the selection and the state of its detail
    calls,     \* calls: requests that travel, and answers
    deleted    \* deleted: what was deleted with a token (history)

deskVars == <<allowed, rows, issued, pending, now, desk, calls, deleted>>

Items == DMemories \cup DTraits
Gone == -1
Nothing == "nothing"
NoToken == 0

Mounted(i, n) ==
    [item |-> i, mount |-> n, confirm |-> "none", token |-> NoToken, busy |-> FALSE]

Call(kind, i, t) == [kind |-> kind, item |-> i, token |-> t, from |-> desk.mount, answer |-> "none"]

DeskInit ==
    /\ allowed \in BOOLEAN
    /\ rows \in {f \in [Items -> 0..MaxEpisodes] : \A i \in DTraits : f[i] = 0}
    /\ issued = <<>> /\ pending = {} /\ now = 0
    /\ desk = Mounted(Nothing, 0)
    /\ calls = {}
    /\ deleted = {}

------------------------------------------------------------------------------
(* The page.                                                               *)

Send(call) == Cardinality(calls) < MaxCalls /\ calls' = calls \cup {call}
Here == UNCHANGED <<allowed, rows, issued, pending, now, deleted>>

(* The dialog is modal: the selection changes only while it is closed.     *)
Select(i) ==
    /\ desk.confirm = "none" /\ desk.item # i /\ desk.mount < MaxMounts
    /\ desk' = Mounted(i, desk.mount + 1)
    /\ Here /\ UNCHANGED calls

(* askForget, of a memory or of a trait.                                   *)
AskForget ==
    /\ desk.item # Nothing /\ desk.confirm = "none"
    /\ desk' = [desk EXCEPT !.confirm = "forget", !.token = NoToken]
    /\ Send(Call("ask", desk.item, NoToken))
    /\ Here

OpenUnconsolidate ==
    /\ desk.item \in DMemories /\ desk.confirm = "none"
    /\ desk' = [desk EXCEPT !.confirm = "unconsolidate"]
    /\ Here /\ UNCHANGED calls

(* runAction: the button is disabled while busy or without a challenge.    *)
Confirm ==
    /\ ~desk.busy
    /\ desk.confirm = "unconsolidate" \/ (desk.confirm = "forget" /\ desk.token # NoToken)
    /\ desk' = [desk EXCEPT !.busy = TRUE]
    /\ Send(Call(desk.confirm, desk.item, IF desk.confirm = "forget" THEN desk.token ELSE NoToken))
    /\ Here

(* Cancel is disabled while busy; Escape is not.                           *)
Dismiss ==
    /\ desk.confirm # "none"
    /\ desk' = [desk EXCEPT !.confirm = "none", !.token = NoToken]
    /\ Here /\ UNCHANGED calls

------------------------------------------------------------------------------
(* The server.                                                             *)

Answered(call, answer, token) ==
    calls' = (calls \ {call}) \cup {[call EXCEPT !.answer = answer, !.token = token]}

(* Mutant: an expired token is as good as a fresh one.                     *)
SpentOrNot(t, i) == t \in pending /\ issued[t].item = i

(* ForgetConfirmations.consume.                                            *)
Consumes(t, i) == t \in pending /\ issued[t].item = i /\ issued[t].at + ConfirmTtl > now

(* issue: the expired ones go, and the new one remembers its target.       *)
Challenge(call) ==
    /\ Len(issued) < MaxTokens
    /\ issued' = Append(issued, [item |-> call.item, at |-> now, impact |-> rows[call.item]])
    /\ pending' = {t \in pending \ {call.token} : issued[t].at + ConfirmTtl > now} \cup {Len(issued')}
    /\ Answered(call, "challenge", Len(issued'))
    /\ UNCHANGED <<rows, deleted>>

(* forgetMemory and its episodes, or forgetTrait.                          *)
Delete(call) ==
    /\ pending' = pending \ {call.token}
    /\ rows' = [rows EXCEPT ![call.item] = Gone]
    /\ deleted' = deleted \cup {[item |-> call.item, token |-> call.token, lost |-> rows[call.item], at |-> now]}
    /\ Answered(call, "done", call.token)
    /\ UNCHANGED issued

Refuse(call) == Answered(call, "error", call.token) /\ UNCHANGED <<rows, issued, pending, deleted>>

ServeForget(call) ==
    /\ call.kind # "unconsolidate" /\ call.answer = "none"
    /\ IF rows[call.item] = Gone \/ ~allowed THEN Refuse(call)
       ELSE IF Consumes(call.token, call.item) THEN Delete(call)
       ELSE Challenge(call)
    /\ UNCHANGED <<allowed, now, desk>>

ServeUnconsolidate(call) ==
    /\ call.kind = "unconsolidate" /\ call.answer = "none"
    /\ IF rows[call.item] = Gone THEN Answered(call, "error", NoToken) /\ UNCHANGED rows
       ELSE Answered(call, "done", NoToken) /\ rows' = [rows EXCEPT ![call.item] = Gone]
    /\ UNCHANGED <<allowed, issued, pending, now, desk, deleted>>

------------------------------------------------------------------------------
(* The answers.                                                            *)

Alive(call) == call.from = desk.mount

(* forgetMemoryChallenge: only a 409 with a token is a challenge.          *)
Asked(call) ==
    /\ call.kind = "ask"
    /\ desk' = IF Alive(call) /\ call.answer = "challenge" THEN [desk EXCEPT !.token = call.token] ELSE desk
    /\ calls' = calls \ {call}

(* It worked: onChanged(null) closes the detail, whichever is open now.    *)
Worked(call) ==
    /\ call.kind # "ask" /\ call.answer = "done" /\ desk.mount < MaxMounts
    /\ desk' = Mounted(Nothing, desk.mount + 1)
    /\ calls' = calls \ {call}

(* It did not: the token is spent, so a new one is asked for.              *)
Failed(call) ==
    /\ call.kind # "ask" /\ call.answer # "done"
    /\ desk' = IF Alive(call) THEN [desk EXCEPT !.busy = FALSE,
                                                !.token = IF call.kind = "forget" THEN NoToken ELSE @]
               ELSE desk
    /\ calls' = (calls \ {call}) \cup
          (IF call.kind = "forget" THEN {[call EXCEPT !.kind = "ask", !.token = NoToken, !.answer = "none"]} ELSE {})

Arrives(call) ==
    /\ call.answer # "none"
    /\ Asked(call) \/ Worked(call) \/ Failed(call)
    /\ Here

(* The connection breaks before the server took the call, or after.        *)
Lost(call) ==
    /\ call.answer # "error"
    /\ calls' = (calls \ {call}) \cup {[call EXCEPT !.answer = "error"]}
    /\ Here /\ UNCHANGED desk

------------------------------------------------------------------------------
(* Other processes take episodes or whole records away; none gives an      *)
(* episode to a memory that exists (OwnershipSettled of MemStore).         *)
Elsewise(i) ==
    /\ rows[i] # Gone
    /\ rows' = [rows EXCEPT ![i] = @ - 1]
    /\ UNCHANGED <<allowed, issued, pending, now, desk, calls, deleted>>

DeskTick ==
    /\ now < MaxTime
    /\ now' = now + 1
    /\ UNCHANGED <<allowed, rows, issued, pending, desk, calls, deleted>>

DeskNext ==
    \/ \E i \in Items \cup {Nothing} : Select(i)
    \/ AskForget \/ OpenUnconsolidate \/ Confirm \/ Dismiss
    \/ \E call \in calls : ServeForget(call) \/ ServeUnconsolidate(call) \/ Arrives(call) \/ Lost(call)
    \/ \E i \in Items : Elsewise(i)
    \/ DeskTick

DeskSpec == DeskInit /\ [][DeskNext]_deskVars

------------------------------------------------------------------------------
(* What a dialog offers to delete is the record it is about, and what was  *)
(* deleted had been asked for within the minute and took no more episodes  *)
(* than the person was told, however answers crossed                       *)
(* (use-memory-actions.ts:19, "the server says what would be lost and      *)
(* gives the confirming token; without it nothing is deleted").            *)
DeletesAreConfirmed ==
    /\ desk.token # NoToken => issued[desk.token].item = desk.item
    /\ \A d \in deleted :
          LET challenge == issued[d.token] IN
          /\ challenge.item = d.item /\ d.at < challenge.at + ConfirmTtl
          /\ d.lost <= challenge.impact

===============================================================================
