------------------------------ MODULE Readiness ------------------------------
(***************************************************************************)
(* hooks/readiness.ts: every injection hook asks whether its server knows  *)
(* `reinforce` before it searches there, because an older one would drop   *)
(* `reinforce: false` and count a search nobody asked for as use.  The     *)
(* answer is one file beside the database, shared by all hooks: it names   *)
(* the url it is about, and a "no" is believed for less time than a "yes". *)
(* Reading the file, probing and writing it back are separate steps;       *)
(* servers are deployed, rolled back and stopped in between.               *)
(***************************************************************************)
EXTENDS Integers

CONSTANTS
    Urls,             \* servers MISMEM_HOOK_URL may name
    Hooks,            \* hook processes that may run at once
    ReadyTtl, NotReadyTtl,   \* READY_TTL_MS, NOT_READY_TTL_MS in ticks
    MaxClock, MaxDeploys     \* bounds on the clock and on changes of a server

ASSUME ReadinessAssumption ==
    /\ ReadyTtl \in Nat /\ NotReadyTtl \in Nat \ {0} /\ NotReadyTtl < ReadyTtl

VARIABLES
    clock,
    server,    \* server[u]: knows `reinforce` ("new"), does not ("old"), or is "down"
    cache,     \* the file: [url, ready, checked], or NoFile
    hook,      \* hook[h]: where a hook is and when it started
    lastGood,  \* lastGood[u]: last tick u could have answered "yes" (history)
    lastBad,   \* lastBad[u]: last tick u could not, or a probe of it failed
    deploys

readyVars == <<clock, server, cache, hook, lastGood, lastBad, deploys>>

Never == -1000   \* before every clock
NoFile == [url |-> "", ready |-> FALSE, checked |-> Never]
AnyUrl == CHOOSE u \in Urls : TRUE
Asleep == [phase |-> "asleep", url |-> AnyUrl, at |-> 0, ready |-> FALSE]

ReadyInit ==
    /\ clock = 0
    /\ server \in [Urls -> {"old", "new", "down"}]
    /\ cache = NoFile
    /\ hook = [h \in Hooks |-> Asleep]
    /\ lastGood = [u \in Urls |-> IF server[u] = "new" THEN 0 ELSE Never]
    /\ lastBad = [u \in Urls |-> IF server[u] = "new" THEN Never ELSE 0]
    /\ deploys = 0

(* Mutant: one deadline for both answers.                                  *)
OneTtl(c, u, at) == c # NoFile /\ c.url = u /\ at - c.checked < ReadyTtl

IsFresh(c, u, at) ==
    /\ c # NoFile /\ c.url = u
    /\ at - c.checked < (IF c.ready THEN ReadyTtl ELSE NotReadyTtl)

(* serverReady: `at` is fixed, the file is read and believed while fresh.  *)
AskCache(h, u) ==
    /\ hook[h].phase = "asleep"
    /\ hook' = [hook EXCEPT ![h] =
          IF IsFresh(cache, u, clock)
          THEN [phase |-> "decided", url |-> u, at |-> clock, ready |-> cache.ready]
          ELSE [phase |-> "probing", url |-> u, at |-> clock, ready |-> FALSE]]
    /\ UNCHANGED <<clock, server, cache, lastGood, lastBad, deploys>>

(* tools/list answers, or throws: down, slow or past its timeout.          *)
Probe(h, answered) ==
    /\ hook[h].phase = "probing"
    /\ answered => server[hook[h].url] # "down"
    /\ hook' = [hook EXCEPT ![h].phase = "answered",
                            ![h].ready = answered /\ server[hook[h].url] = "new"]
    /\ lastBad' = IF answered THEN lastBad ELSE [lastBad EXCEPT ![hook[h].url] = clock]
    /\ UNCHANGED <<clock, server, cache, lastGood, deploys>>

(* Mutant: a failed probe leaves the answer there was.                     *)
KeptOnFailure(h) == IF hook[h].ready \/ cache = NoFile
                    THEN [url |-> hook[h].url, ready |-> hook[h].ready, checked |-> hook[h].at]
                    ELSE [cache EXCEPT !.checked = hook[h].at]

Answered(h) == [url |-> hook[h].url, ready |-> hook[h].ready, checked |-> hook[h].at]

(* The file is written with the `at` of before the probe; a write that     *)
(* fails, or one another hook reads half done, leaves no file to believe.  *)
WriteCache(h) ==
    /\ hook[h].phase = "answered"
    /\ cache' \in {Answered(h), cache, NoFile}
    /\ hook' = [hook EXCEPT ![h].phase = "decided"]
    /\ UNCHANGED <<clock, server, lastGood, lastBad, deploys>>

HookEnds(h) ==
    /\ hook[h].phase # "asleep"
    /\ hook' = [hook EXCEPT ![h] = Asleep]
    /\ UNCHANGED <<clock, server, cache, lastGood, lastBad, deploys>>

(* A deploy, a rollback, a stop or a start.                                *)
Deploy(u, what) ==
    /\ server[u] # what /\ deploys < MaxDeploys
    /\ server' = [server EXCEPT ![u] = what]
    /\ deploys' = deploys + 1
    /\ lastGood' = [lastGood EXCEPT ![u] = IF what = "new" THEN clock ELSE @]
    /\ lastBad' = [lastBad EXCEPT ![u] = IF what = "new" THEN @ ELSE clock]
    /\ UNCHANGED <<clock, cache, hook>>

(* Time passes, also for a hook between two of its steps.                  *)
HookTick ==
    /\ clock < MaxClock
    /\ clock' = clock + 1
    /\ lastGood' = [u \in Urls |-> IF server[u] = "new" THEN clock + 1 ELSE lastGood[u]]
    /\ lastBad' = [u \in Urls |-> IF server[u] = "new" THEN lastBad[u] ELSE clock + 1]
    /\ UNCHANGED <<server, cache, hook, deploys>>

ReadyNext ==
    \/ \E h \in Hooks : \/ \E u \in Urls : AskCache(h, u)
                        \/ \E answered \in BOOLEAN : Probe(h, answered)
                        \/ WriteCache(h) \/ HookEnds(h)
    \/ \E u \in Urls, what \in {"old", "new", "down"} : Deploy(u, what)
    \/ HookTick

ReadySpec == ReadyInit /\ [][ReadyNext]_readyVars

------------------------------------------------------------------------------
(* A hook that searches does so on the word of a server that could really  *)
(* answer "yes" less than the time to live before the hook began: the stale*)
(* "yes" after a rollback lasts six hours and no longer, whatever other    *)
(* hooks probed and wrote meanwhile.                                       *)
YesIsBacked ==
    \A h \in Hooks : (hook[h].phase = "decided" /\ hook[h].ready) =>
        hook[h].at - lastGood[hook[h].url] < ReadyTtl

(* "the "no" is short-lived so the hook turns itself on after a deploy"    *)
(* (readiness.ts:3): a hook stays quiet only for a server that was not     *)
(* ready less than ten minutes before, even when another hook's old "no"   *)
(* reached the file after the deploy.                                      *)
NoIsShort ==
    \A h \in Hooks : (hook[h].phase = "decided" /\ ~hook[h].ready) =>
        hook[h].at - lastBad[hook[h].url] < NotReadyTtl

(* What a hook decides on, yes or no, was true of its server recently.     *)
AnswersAreFresh == YesIsBacked /\ NoIsShort

===============================================================================
