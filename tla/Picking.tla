-------------------------------- MODULE Picking --------------------------------
(***************************************************************************)
(* The page of the viewer above its panels (App.tsx): the tab, the search  *)
(* box with its debounce, the memories picked for a trait and the dialog   *)
(* that crystallizes them.  The answer to a dialog that was cancelled      *)
(* still arrives, over whatever the person is doing by then, and other     *)
(* processes delete the memories that are picked.                          *)
(*                                                                         *)
(* The selected record is in Desk; here it only changes with the rest.     *)
(***************************************************************************)
EXTENDS Integers, FiniteSets

CONSTANTS
    PMemories,   \* memories the list shows
    FarMemories, \* those of another scope
    TermsTyped,  \* texts of the search box
    MaxDialogs   \* bound on the dialogs opened

VARIABLES
    view,     \* the tab
    box,      \* box: [draft, debounced, query], texts or Empty
    picked,   \* the memories picked, or NotPicking
    form,     \* form: whether it is open, and the mounted CrystallizeDialog
    pressed,  \* the picks when the dialog was asked for (history)
    posts,    \* posts: requests to crystallize, and answers
    stored    \* stored: the memories there are, and the evidence of the trait

pickVars == <<view, box, picked, form, pressed, posts, stored>>

Empty == ""
NotPicking == {"not picking"}
ListViews == {"memories", "traits", "topics", "pending"}
Views == ListViews \cup {"results", "graph"}
Shut == [on |-> FALSE, mount |-> 0, busy |-> FALSE]

PickInit ==
    /\ view = "memories"
    /\ box = [draft |-> Empty, debounced |-> Empty, query |-> Empty]
    /\ picked = NotPicking
    /\ form = Shut
    /\ pressed = {}
    /\ posts = {}
    /\ stored = [alive |-> PMemories, evidence |-> {}]

Scope(m) == IF m \in FarMemories THEN "far" ELSE "near"
ScopesOf(S) == {Scope(m) : m \in S}

(* The dialog is modal: nothing behind it answers while it is there.       *)
Shown == form.on /\ picked # NotPicking /\ Cardinality(ScopesOf(picked)) = 1
Behind == ~Shown

------------------------------------------------------------------------------
(* The box and the tabs.                                                   *)

(* viewAfterQuery.                                                         *)
ViewAfter(current, term) ==
    IF term = Empty THEN current ELSE IF current = "graph" THEN "graph" ELSE "results"

Type(term) ==
    /\ Behind /\ box.draft # term
    /\ box' = [box EXCEPT !.draft = term]
    /\ UNCHANGED <<view, picked, form, pressed, posts, stored>>

(* useDebounced, and the effect on its value: also behind a dialog.        *)
Debounce ==
    /\ box.debounced # box.draft
    /\ box' = [box EXCEPT !.debounced = box.draft, !.query = box.draft]
    /\ view' = ViewAfter(view, box.draft)
    /\ UNCHANGED <<picked, form, pressed, posts, stored>>

SubmitSearch ==
    /\ Behind
    /\ box' = [box EXCEPT !.query = box.draft]
    /\ view' = ViewAfter(view, box.draft)
    /\ UNCHANGED <<picked, form, pressed, posts, stored>>

(* Entering a list clears the box; leaving the memories drops the picks.   *)
ChangeView(next) ==
    /\ Behind /\ next # view
    /\ view' = next
    /\ box' = IF next \in ListViews THEN [box EXCEPT !.draft = Empty, !.query = Empty] ELSE box
    /\ picked' = IF next # "memories" THEN NotPicking ELSE picked
    /\ UNCHANGED <<form, pressed, posts, stored>>

------------------------------------------------------------------------------
(* Picking.                                                                *)

ChangeScope ==
    /\ Behind /\ picked # NotPicking
    /\ picked' = NotPicking
    /\ UNCHANGED <<view, box, form, pressed, posts, stored>>

TogglePicking ==
    /\ Behind /\ view = "memories"
    /\ picked' = IF picked = NotPicking THEN {} ELSE NotPicking
    /\ UNCHANGED <<view, box, form, pressed, posts, stored>>

(* A memory deleted meanwhile stays picked, and in the list until it is    *)
(* read again.                                                             *)
TogglePick(m) ==
    /\ Behind /\ view = "memories" /\ picked # NotPicking
    /\ picked' = IF m \in picked THEN picked \ {m} ELSE picked \cup {m}
    /\ UNCHANGED <<view, box, form, pressed, posts, stored>>

(* The bar stays while there are picks, also over the results.             *)
PressCrystallize ==
    /\ Behind /\ picked # NotPicking /\ Cardinality(ScopesOf(picked)) = 1
    /\ form.mount < MaxDialogs
    /\ form' = [on |-> TRUE, mount |-> form.mount + 1, busy |-> FALSE]
    /\ pressed' = picked
    /\ UNCHANGED <<view, box, picked, posts, stored>>

------------------------------------------------------------------------------
(* The dialog.                                                             *)

SubmitTrait ==
    /\ Shown /\ ~form.busy
    /\ form' = [form EXCEPT !.busy = TRUE]
    /\ posts' = posts \cup {[from |-> form.mount, ids |-> picked, answer |-> "none"]}
    /\ UNCHANGED <<view, box, picked, pressed, stored>>

(* Cancel and Escape work while the request travels.                       *)
CancelDialog ==
    /\ Shown
    /\ form' = [form EXCEPT !.on = FALSE, !.busy = FALSE]
    /\ UNCHANGED <<view, box, picked, pressed, posts, stored>>

(* crystallizeFromUi: every id is a memory, of the scope of the trait.     *)
Crystallizable(ids) == ids \subseteq stored.alive /\ Cardinality(ScopesOf(ids)) = 1

ServeTrait(post) ==
    /\ post.answer = "none"
    /\ posts' = (posts \ {post}) \cup
          {[post EXCEPT !.answer = IF Crystallizable(post.ids) THEN "done" ELSE "error"]}
    /\ stored' = [stored EXCEPT !.evidence = IF Crystallizable(post.ids) THEN post.ids ELSE @]
    /\ UNCHANGED <<view, box, picked, form, pressed>>

PostBreaks(post) ==
    /\ post.answer # "error"
    /\ posts' = (posts \ {post}) \cup {[post EXCEPT !.answer = "error"]}
    /\ UNCHANGED <<view, box, picked, form, pressed, stored>>

(* Mutant: the dialog is left marked as open.                              *)
StaysMarked == form

Closed == [form EXCEPT !.on = FALSE, !.busy = FALSE]

(* crystallized: it goes to the trait, whichever dialog is open now.       *)
TraitDone(post) ==
    /\ post.answer = "done"
    /\ posts' = posts \ {post}
    /\ form' = Closed
    /\ picked' = NotPicking
    /\ view' = "traits"
    /\ UNCHANGED <<box, pressed, stored>>

TraitFails(post) ==
    /\ post.answer = "error"
    /\ posts' = posts \ {post}
    /\ form' = IF post.from = form.mount THEN [form EXCEPT !.busy = FALSE] ELSE form
    /\ UNCHANGED <<view, box, picked, pressed, stored>>

------------------------------------------------------------------------------
DeletePicked(m) ==
    /\ m \in stored.alive
    /\ stored' = [stored EXCEPT !.alive = @ \ {m}]
    /\ UNCHANGED <<view, box, picked, form, pressed, posts>>

PickNext ==
    \/ \E term \in TermsTyped \cup {Empty} : Type(term)
    \/ Debounce \/ SubmitSearch
    \/ \E next \in Views : ChangeView(next)
    \/ ChangeScope \/ TogglePicking \/ PressCrystallize \/ SubmitTrait \/ CancelDialog
    \/ \E m \in PMemories : TogglePick(m) \/ DeletePicked(m)
    \/ \E post \in posts : ServeTrait(post) \/ PostBreaks(post) \/ TraitDone(post) \/ TraitFails(post)

PickSpec == PickInit /\ [][PickNext]_pickVars

------------------------------------------------------------------------------
(* A dialog is there because it was asked for, for the memories it offers, *)
(* whatever answers to earlier dialogs arrive (App.tsx:121, "the dialog    *)
(* stays marked as open and reappears when picking the first memory of the *)
(* next selection, without pressing").                                     *)
DialogWasAsked == form.on => Shown /\ picked = pressed

===============================================================================
