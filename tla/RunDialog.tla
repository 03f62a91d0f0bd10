------------------------------ MODULE RunDialog ------------------------------
(***************************************************************************)
(* "Consolidate now": the run the server keeps in the background           *)
(* (ConsolidationJob) and the dialog of a page that starts it and polls    *)
(* it.  Requests and answers travel on their own: an answer is the job as  *)
(* it was when the server took the request.  Other tabs start runs too.    *)
(*                                                                         *)
(* The page caches the last job it was told (TanStack Query).  An answer   *)
(* equal to the cached one changes nothing; a dialog opened again keeps    *)
(* the cached job and forgets what it had noticed of it.                   *)
(***************************************************************************)
EXTENDS Integers

CONSTANTS
    MaxRuns,     \* bound on the runs
    MaxLogged    \* bound on the lines a run logs (the code keeps the last 200)

VARIABLES
    job,     \* job: the JobState of the server
    dialog,  \* dialog: the state of the component and of its query
    lists    \* lists: the runs that had ended when the page last read its lists

dialogVars == <<job, dialog, lists>>

NoJob == [run |-> -1, running |-> FALSE, lines |-> 0]
Idle == [run |-> 0, running |-> FALSE, lines |-> 0]
Resting == [at |-> "none", job |-> NoJob]
InFlight == [at |-> "server", job |-> NoJob]
Reply(j) == [at |-> "page", job |-> j]

DialogInit ==
    /\ job = Idle
    /\ dialog = [open |-> FALSE, job |-> NoJob, failed |-> FALSE, wasRunning |-> FALSE,
                 startedHere |-> FALSE, fetch |-> Resting, start |-> Resting]
    /\ lists = 0

Ended == IF job.running THEN job.run - 1 ELSE job.run

------------------------------------------------------------------------------
(* ConsolidationJob.                                                       *)

(* start: refused while one runs, or without a key for the model.          *)
Starts(hasKey) == ~job.running /\ hasKey /\ job.run < MaxRuns
NextJob == [run |-> job.run + 1, running |-> TRUE, lines |-> 0]

StartElsewhere ==
    /\ Starts(TRUE)
    /\ job' = NextJob
    /\ UNCHANGED <<dialog, lists>>

LogLine ==
    /\ job.running /\ job.lines < MaxLogged
    /\ job' = [job EXCEPT !.lines = @ + 1]
    /\ UNCHANGED <<dialog, lists>>

(* It resolves with a summary or an error: either way it stops running.    *)
EndRun ==
    /\ job.running
    /\ job' = [job EXCEPT !.running = FALSE]
    /\ UNCHANGED <<dialog, lists>>

------------------------------------------------------------------------------
(* The dialog.                                                             *)

Confirming == dialog.job # NoJob /\ ~dialog.job.running /\ ~dialog.startedHere

(* Opening resets the component.  The query is fetched if what it holds is *)
(* stale (staleTime), missing or failed, unless a fetch is in flight.      *)
OpenDialog(stale) ==
    /\ ~dialog.open
    /\ stale \/ (dialog.job # NoJob /\ ~dialog.failed)
    /\ dialog' = [dialog EXCEPT !.open = TRUE, !.startedHere = FALSE, !.wasRunning = FALSE,
                                !.fetch = IF stale /\ @ = Resting THEN InFlight ELSE @]
    /\ UNCHANGED <<job, lists>>

CloseDialog ==
    /\ dialog.open
    /\ dialog' = [dialog EXCEPT !.open = FALSE]
    /\ UNCHANGED <<job, lists>>

(* Mutant: only the tab that started the run polls it.                     *)
PollsOwnRun == dialog.open /\ dialog.startedHere /\ dialog.job.running /\ ~dialog.failed

(* refetchInterval: while the cached job runs and the last poll worked.    *)
Polls == dialog.open /\ dialog.job.running /\ ~dialog.failed

Fetch ==
    /\ Polls \/ (dialog.open /\ dialog.failed)   \* the interval, or "Reintentar"
    /\ dialog.fetch = Resting
    /\ dialog' = [dialog EXCEPT !.fetch = InFlight]
    /\ UNCHANGED <<job, lists>>

Press ==
    /\ dialog.open /\ Confirming /\ dialog.start = Resting
    /\ dialog' = [dialog EXCEPT !.start = InFlight]
    /\ UNCHANGED <<job, lists>>

ServeFetch ==
    /\ dialog.fetch = InFlight
    /\ dialog' = [dialog EXCEPT !.fetch = Reply(job)]
    /\ UNCHANGED <<job, lists>>

(* POST /api/consolidation; NoJob in the reply is a refusal.               *)
ServeStart(hasKey) ==
    /\ dialog.start = InFlight
    /\ job' = IF Starts(hasKey) THEN NextJob ELSE job
    /\ dialog' = [dialog EXCEPT !.start = Reply(IF Starts(hasKey) THEN NextJob ELSE NoJob)]
    /\ UNCHANGED lists

(* The effect on the job: a run it had noticed is no longer running, so    *)
(* every query is read again, the job's own if the dialog is open.         *)
Told(d, j) ==
    LET over == j # dialog.job /\ ~j.running /\ dialog.wasRunning IN
    /\ dialog' = [d EXCEPT !.job = j, !.failed = FALSE,
                           !.wasRunning = IF j = dialog.job THEN @ ELSE j.running,
                           !.fetch = IF over /\ dialog.open /\ @ = Resting THEN InFlight ELSE @]
    /\ lists' = IF over THEN Ended ELSE lists

FetchArrives ==
    /\ dialog.fetch.at = "page"
    /\ Told([dialog EXCEPT !.fetch = Resting], dialog.fetch.job)
    /\ UNCHANGED job

FetchFails ==
    /\ dialog.fetch # Resting
    /\ dialog' = [dialog EXCEPT !.fetch = Resting, !.failed = TRUE]
    /\ UNCHANGED <<job, lists>>

StartArrives ==
    /\ dialog.start.at = "page"
    /\ IF dialog.start.job = NoJob
       THEN dialog' = [dialog EXCEPT !.start = Resting] /\ UNCHANGED lists
       ELSE Told([dialog EXCEPT !.start = Resting, !.startedHere = TRUE], dialog.start.job)
    /\ UNCHANGED job

(* The answer to the POST is lost: the run may have started.               *)
StartFails ==
    /\ dialog.start # Resting
    /\ dialog' = [dialog EXCEPT !.start = Resting]
    /\ UNCHANGED <<job, lists>>

DialogNext ==
    \/ StartElsewhere \/ LogLine \/ EndRun
    \/ \E stale \in BOOLEAN : OpenDialog(stale)
    \/ CloseDialog \/ Fetch \/ Press \/ ServeFetch
    \/ \E hasKey \in BOOLEAN : ServeStart(hasKey)
    \/ FetchArrives \/ FetchFails \/ StartArrives \/ StartFails

(* The interval ticks, the server answers and runs end (RunsEnd of         *)
(* SleepCycle); nobody has to press, open or close anything.               *)
DialogFairness ==
    /\ WF_dialogVars(EndRun) /\ WF_dialogVars(Polls /\ Fetch)
    /\ WF_dialogVars(ServeFetch) /\ WF_dialogVars(FetchArrives)

DialogSpec == DialogInit /\ [][DialogNext]_dialogVars /\ DialogFairness

------------------------------------------------------------------------------
(* An open dialog that shows a run, whoever started it and however often   *)
(* it was closed and opened meanwhile, comes to show its end, or says that *)
(* it lost the connection (Consolidate.tsx:31, "it shows that one").       *)
SeesTheEnd ==
    (dialog.open /\ dialog.job.running) ~>
        (~dialog.open \/ dialog.failed \/ ~dialog.job.running)

(* A page that showed a run and now shows it ended has read its lists      *)
(* again (Consolidate.tsx:59, "The run finished: lists and scopes can      *)
(* already read new memories").                                            *)
ListsCatchUp ==
    [][(dialog.job.running /\ dialog'.job = [dialog.job EXCEPT !.running = FALSE, !.lines = dialog'.job.lines])
         => lists' >= dialog'.job.run]_dialogVars

===============================================================================
