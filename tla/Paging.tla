-------------------------------- MODULE Paging --------------------------------
(***************************************************************************)
(* The paged lists of the viewer: memories, traits and pending episodes.   *)
(* The server sorts, counts and cuts by offset; the page asks for more     *)
(* while its last page says there is more, and reads all its pages again   *)
(* when a write invalidates them.  Other processes insert, delete and move *)
(* rows between any two reads, the count and the rows of one page          *)
(* included.                                                               *)
(***************************************************************************)
EXTENDS Integers, FiniteSets, Sequences, SequencesExt

CONSTANTS
    Rows,       \* rows of the layer
    PageSize,   \* PAGE_SIZE
    MaxShifts   \* bound on the writes of others

ASSUME PagingAssumption == IsFiniteSet(Rows) /\ PageSize \in Nat

VARIABLES
    resets,   \* TraitList, which starts again when it lost a row
    order,    \* order: the rows of the layer, as the server sorts them
    shown,    \* shown: the pages of the list
    fetch,    \* fetch: the pages of the fetch in progress, or Quiet
    shifts    \* shifts: the writes so far

pageVars == <<resets, order, shown, fetch, shifts>>

(* since: the rows there all the time since the first page was read;       *)
(* blind: a row was deleted meanwhile, or any write fell between the count *)
(* and the rows of one page, which offset paging cannot see (both history).*)
NoPages == [pages |-> <<>>, since |-> {}, blind |-> FALSE]
Quiet == [on |-> FALSE, list |-> NoPages, goal |-> 0, counted |-> -1]

PageInit ==
    /\ resets \in BOOLEAN
    /\ order \in UNION {Injection(1..n, Rows) : n \in 0..Cardinality(Rows)}
    /\ shown = NoPages
    /\ fetch = Quiet
    /\ shifts = 0

------------------------------------------------------------------------------
(* lib/pages.ts.                                                           *)

(* mergePages: each row once.  Its order is told apart by no property.     *)
Merged(pages) == UNION {Range(pages[i].rows) : i \in DOMAIN pages}

Raw(pages) == FoldLeft(LAMBDA n, p : n + Len(p.rows), 0, pages)

(* Mutant: the pages one after the other, repeated rows and all.           *)
Concatenated(pages) == Raw(pages)

Loaded(pages) == Cardinality(Merged(pages))

LostRows(pages) == Loaded(pages) < Raw(pages)

(* nextPageOffset of the last page: -1 is nothing.                         *)
NextOffset(pages) ==
    IF pages = <<>> THEN 0
    ELSE LET last == pages[Len(pages)]
             reached == last.offset + Len(last.rows) IN
         IF last.rows # <<>> /\ reached < last.total THEN reached ELSE -1

Total(pages) == pages[Len(pages)].total
Remaining(pages) ==
    LET left == Total(pages) - Loaded(pages) IN IF left > 0 THEN left ELSE 0

------------------------------------------------------------------------------
(* Fetching.                                                               *)

Fetching(list, goal) == [on |-> TRUE, list |-> list, goal |-> goal, counted |-> -1]

OpenList ==
    /\ ~fetch.on /\ shown.pages = <<>>
    /\ fetch' = Fetching(NoPages, 1)
    /\ UNCHANGED <<resets, order, shown, shifts>>

LoadMore ==
    /\ ~fetch.on /\ shown.pages # <<>> /\ NextOffset(shown.pages) # -1
    /\ fetch' = Fetching(shown, Len(shown.pages) + 1)
    /\ UNCHANGED <<resets, order, shown, shifts>>

(* A write invalidates the list: as many pages again, from the first.      *)
Refetch ==
    /\ ~fetch.on /\ shown.pages # <<>>
    /\ fetch' = Fetching(NoPages, Len(shown.pages))
    /\ UNCHANGED <<resets, order, shown, shifts>>

(* The effect of TraitList: resetQueries drops the pages and starts over.  *)
Restart ==
    /\ resets /\ LostRows(shown.pages)
    /\ shown' = NoPages
    /\ fetch' = Fetching(NoPages, 1)
    /\ UNCHANGED <<resets, order, shifts>>

(* The server: the count, then the rows.                                   *)
CountRows ==
    /\ fetch.on /\ fetch.counted = -1
    /\ fetch' = [fetch EXCEPT !.counted = Len(order),
                              !.list.since = IF fetch.list.pages = <<>> THEN Range(order) ELSE @]
    /\ UNCHANGED <<resets, order, shown, shifts>>

ReadRows ==
    /\ fetch.on /\ fetch.counted # -1
    /\ LET offset == NextOffset(fetch.list.pages)
           upto == IF offset + PageSize < Len(order) THEN offset + PageSize ELSE Len(order)
           page == [offset |-> offset, total |-> fetch.counted, rows |-> SubSeq(order, offset + 1, upto)]
           pages == Append(fetch.list.pages, page)
           list == [fetch.list EXCEPT !.pages = pages] IN
       IF Len(pages) < fetch.goal /\ NextOffset(pages) # -1
       THEN fetch' = [fetch EXCEPT !.list = list, !.counted = -1] /\ UNCHANGED shown
       ELSE fetch' = Quiet /\ shown' = list
    /\ UNCHANGED <<resets, order, shifts>>

(* A failed request keeps what the list already shows.                     *)
FetchBreaks ==
    /\ fetch.on
    /\ fetch' = Quiet
    /\ UNCHANGED <<resets, order, shown, shifts>>

------------------------------------------------------------------------------
(* The other processes.                                                    *)

Shift(new) == shifts < MaxShifts /\ shifts' = shifts + 1 /\ order' = new /\ UNCHANGED resets
BetweenPages == UNCHANGED shown /\ fetch' = [fetch EXCEPT !.list.blind = @ \/ fetch.counted # -1]

InsertRow(r, i) ==
    /\ r \notin Range(order)
    /\ Shift(InsertAt(order, i, r))
    /\ BetweenPages

(* A row used again, or reinforced, goes up.                               *)
RaiseRow(i, j) ==
    /\ j < i
    /\ Shift(InsertAt(RemoveAt(order, i), j, order[i]))
    /\ BetweenPages

Without(list, r) == [list EXCEPT !.since = @ \ {r}, !.blind = TRUE]

DeleteRow(i) ==
    /\ Shift(RemoveAt(order, i))
    /\ shown' = Without(shown, order[i])
    /\ fetch' = [fetch EXCEPT !.list = IF fetch.on THEN Without(@, order[i]) ELSE @]

PageNext ==
    \/ OpenList \/ LoadMore \/ Refetch \/ Restart \/ CountRows \/ ReadRows \/ FetchBreaks
    \/ \E r \in Rows, i \in 1..Len(order) + 1 : InsertRow(r, i)
    \/ \E i, j \in DOMAIN order : RaiseRow(i, j)
    \/ \E i \in DOMAIN order : DeleteRow(i)

PageSpec == PageInit /\ [][PageNext]_pageVars

------------------------------------------------------------------------------
(* A list with nothing more to load holds every row that was there all the *)
(* while, or its header counts the missing ones, whatever was written      *)
(* between the pages; a delete may hide one (TraitList.tsx:24, "Offset     *)
(* paging cannot see a delete ahead of the loaded pages").                 *)
NothingLostSilently ==
    (shown.pages # <<>> /\ NextOffset(shown.pages) = -1 /\ ~shown.blind) =>
        \/ shown.since \subseteq Merged(shown.pages)
        \/ Remaining(shown.pages) > 0

===============================================================================
