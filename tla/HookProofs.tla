------------------------------ MODULE HookProofs -----------------------------
(***************************************************************************)
(* The hooks and what they rely on: the readiness of a server, the turn    *)
(* they read in a transcript, and a recall that no vector answers.         *)
(***************************************************************************)
EXTENDS Readiness, HookTurn, Retrieval, FiniteSetTheorems, SequenceTheorems, TLAPS

(***************************************************************************)
(* What a hook decides on was true of its server recently, for every set   *)
(* of servers and hooks and every pair of times to live.                   *)
(*                                                                         *)
(* The decision rests on the file, and the file on a probe that some other *)
(* hook made: the invariant carries the word of the server along that way, *)
(* from the server itself (HistoryInv) to a hook that heard it and has not *)
(* written yet (HookInv) and to the file (CacheInv).                       *)
(***************************************************************************)
Phases == {"asleep", "probing", "answered", "decided"}
HookStates == [phase : Phases, url : Urls \cup {AnyUrl}, at : Nat, ready : BOOLEAN]

ReadyTypeOK ==
    /\ clock \in Nat
    /\ server \in [Urls -> {"old", "new", "down"}]
    /\ cache \in [url : Urls \cup {""}, ready : BOOLEAN, checked : Int]
    /\ hook \in [Hooks -> HookStates]
    /\ lastGood \in [Urls -> Int]
    /\ lastBad \in [Urls -> Int]

(* The history never runs ahead of the clock, and is at it for what the    *)
(* server answers now.                                                     *)
HistoryInv ==
    \A u \in Urls :
        /\ lastGood[u] <= clock /\ lastBad[u] <= clock
        /\ server[u] = "new" => lastGood[u] = clock
        /\ server[u] # "new" => lastBad[u] = clock

(* Backed(u, ready, at): u gave that answer at `at` or since.              *)
Backed(u, ready, at) == IF ready THEN lastGood[u] >= at ELSE lastBad[u] >= at

CacheInv ==
    cache # NoFile =>
        cache.url \in Urls /\ cache.checked \in Nat /\ Backed(cache.url, cache.ready, cache.checked)

HookInv(h) ==
    /\ hook[h].phase # "asleep" => hook[h].url \in Urls /\ hook[h].at <= clock
    /\ hook[h].phase = "answered" => Backed(hook[h].url, hook[h].ready, hook[h].at)
    /\ (hook[h].phase = "decided" /\ hook[h].ready) => hook[h].at - lastGood[hook[h].url] < ReadyTtl
    /\ (hook[h].phase = "decided" /\ ~hook[h].ready) => hook[h].at - lastBad[hook[h].url] < NotReadyTtl

HooksInv == \A h \in Hooks : HookInv(h)

ReadyInv == ReadyTypeOK /\ HistoryInv /\ CacheInv /\ HooksInv

------------------------------------------------------------------------------
LEMMA AsleepType == Asleep \in HookStates /\ Asleep.phase = "asleep"
BY DEF Asleep, HookStates, Phases

LEMMA NeverType == Never \in Int /\ Never < 0
BY DEF Never

LEMMA InitReady == ReadyInit => ReadyInv
<1> SUFFICES ASSUME ReadyInit PROVE ReadyInv
  OBVIOUS
<1>1. ReadyTypeOK
  <2>1. clock \in Nat /\ server \in [Urls -> {"old", "new", "down"}]
    BY DEF ReadyInit
  <2>2. cache \in [url : Urls \cup {""}, ready : BOOLEAN, checked : Int]
    BY NeverType DEF ReadyInit, NoFile
  <2>3. hook \in [Hooks -> HookStates]
    BY AsleepType DEF ReadyInit
  <2>4. lastGood \in [Urls -> Int] /\ lastBad \in [Urls -> Int]
    BY NeverType DEF ReadyInit
  <2> QED
    BY <2>1, <2>2, <2>3, <2>4 DEF ReadyTypeOK
<1>2. HistoryInv
  <2> SUFFICES ASSUME NEW u \in Urls
               PROVE /\ lastGood[u] <= clock /\ lastBad[u] <= clock
                     /\ server[u] = "new" => lastGood[u] = clock
                     /\ server[u] # "new" => lastBad[u] = clock
    BY DEF HistoryInv
  <2>1. lastGood[u] = (IF server[u] = "new" THEN 0 ELSE Never)
        /\ lastBad[u] = (IF server[u] = "new" THEN Never ELSE 0)
    BY DEF ReadyInit
  <2>2. clock = 0
    BY DEF ReadyInit
  <2>3. CASE server[u] = "new"
    BY <2>1, <2>2, <2>3, NeverType
  <2>4. CASE server[u] # "new"
    BY <2>1, <2>2, <2>4, NeverType
  <2> QED
    BY <2>3, <2>4
<1>3. CacheInv
  BY DEF ReadyInit, CacheInv
<1>4. HooksInv
  BY AsleepType DEF ReadyInit, HooksInv, HookInv
<1> QED
  BY <1>1, <1>2, <1>3, <1>4 DEF ReadyInv

(* History only moves forward: what was backed stays backed.               *)
LEMMA BackedStays ==
    ASSUME ReadyTypeOK, ReadyTypeOK',
           \A u \in Urls : lastGood[u] <= lastGood'[u] /\ lastBad[u] <= lastBad'[u],
           NEW u \in Urls, NEW ready \in BOOLEAN, NEW at \in Nat, Backed(u, ready, at)
    PROVE  Backed(u, ready, at)'
<1>1. /\ lastGood[u] \in Int /\ lastGood'[u] \in Int /\ lastGood[u] <= lastGood'[u]
      /\ lastBad[u] \in Int /\ lastBad'[u] \in Int /\ lastBad[u] <= lastBad'[u]
  BY DEF ReadyTypeOK
<1>2. CASE ready
  BY <1>1, <1>2 DEF Backed
<1>3. CASE ~ready
  BY <1>1, <1>3 DEF Backed
<1> QED
  BY <1>2, <1>3

(* What the other hooks and the file rest on does not go away.             *)
LEMMA HookStays ==
    ASSUME ReadyTypeOK, ReadyTypeOK', clock <= clock',
           \A u \in Urls : lastGood[u] <= lastGood'[u] /\ lastBad[u] <= lastBad'[u],
           NEW h \in Hooks, hook'[h] = hook[h], HookInv(h)
    PROVE  HookInv(h)'
<1> DEFINE u == hook[h].url
<1>1. /\ clock \in Nat /\ clock' \in Nat
      /\ hook[h].at \in Nat /\ hook[h].ready \in BOOLEAN
      /\ ReadyTtl \in Nat /\ NotReadyTtl \in Nat
  BY ReadinessAssumption DEF ReadyTypeOK, HookStates
<1>2. CASE hook[h].phase = "asleep"
  BY <1>2 DEF HookInv
<1>3. CASE hook[h].phase # "asleep"
  <2>1. u \in Urls /\ hook[h].at <= clock
    BY <1>3 DEF HookInv
  <2>2. /\ lastGood[u] \in Int /\ lastGood'[u] \in Int /\ lastGood[u] <= lastGood'[u]
        /\ lastBad[u] \in Int /\ lastBad'[u] \in Int /\ lastBad[u] <= lastBad'[u]
    BY <2>1 DEF ReadyTypeOK
  <2>3. hook[h].phase = "answered" => Backed(u, hook[h].ready, hook[h].at)'
    <3> SUFFICES ASSUME hook[h].phase = "answered"
                 PROVE Backed(u, hook[h].ready, hook[h].at)'
      OBVIOUS
    <3>1. CASE hook[h].ready
      BY <1>1, <2>2, <3>1 DEF HookInv, Backed
    <3>2. CASE ~hook[h].ready
      BY <1>1, <2>2, <3>2 DEF HookInv, Backed
    <3> QED
      BY <3>1, <3>2
  <2>4. (hook[h].phase = "decided" /\ hook[h].ready) => hook[h].at - lastGood'[u] < ReadyTtl
    BY <1>1, <2>2 DEF HookInv
  <2>5. (hook[h].phase = "decided" /\ ~hook[h].ready) => hook[h].at - lastBad'[u] < NotReadyTtl
    BY <1>1, <2>2 DEF HookInv
  <2> QED
    BY <1>1, <2>1, <2>3, <2>4, <2>5 DEF HookInv
<1> QED
  BY <1>2, <1>3

LEMMA CacheStays ==
    ASSUME ReadyTypeOK, ReadyTypeOK', CacheInv, cache' = cache,
           \A u \in Urls : lastGood[u] <= lastGood'[u] /\ lastBad[u] <= lastBad'[u]
    PROVE  CacheInv'
<1> SUFFICES ASSUME cache # NoFile
             PROVE  cache.url \in Urls /\ cache.checked \in Nat
                    /\ Backed(cache.url, cache.ready, cache.checked)'
  BY DEF CacheInv
<1>1. cache.url \in Urls /\ cache.checked \in Nat /\ Backed(cache.url, cache.ready, cache.checked)
  BY DEF CacheInv
<1>2. cache.ready \in BOOLEAN
  BY DEF ReadyTypeOK
<1> QED
  BY <1>1, <1>2, BackedStays

LEMMA AskKeeps ==
    ASSUME ReadyInv, NEW h \in Hooks, NEW u \in Urls, AskCache(h, u)
    PROVE  ReadyInv'
<1> DEFINE new == IF IsFresh(cache, u, clock)
                  THEN [phase |-> "decided", url |-> u, at |-> clock, ready |-> cache.ready]
                  ELSE [phase |-> "probing", url |-> u, at |-> clock, ready |-> FALSE]
<1>1. hook' = [hook EXCEPT ![h] = new] /\ UNCHANGED <<clock, server, cache, lastGood, lastBad, deploys>>
  BY DEF AskCache
<1>2. new \in HookStates /\ new.url = u /\ new.at = clock /\ new.phase \in {"decided", "probing"}
  BY DEF ReadyInv, ReadyTypeOK, HookStates, Phases
<1>3. new.phase = "decided" => IsFresh(cache, u, clock) /\ new.ready = cache.ready
  OBVIOUS
<1>4. new.phase = "decided" =>
        IF new.ready THEN clock - lastGood[u] < ReadyTtl ELSE clock - lastBad[u] < NotReadyTtl
  <2> SUFFICES ASSUME new.phase = "decided"
               PROVE IF new.ready THEN clock - lastGood[u] < ReadyTtl ELSE clock - lastBad[u] < NotReadyTtl
    OBVIOUS
  <2>1. cache # NoFile /\ cache.url = u /\ new.ready = cache.ready
        /\ clock - cache.checked < (IF cache.ready THEN ReadyTtl ELSE NotReadyTtl)
    BY <1>3 DEF IsFresh
  <2>2. cache.checked \in Nat /\ Backed(u, cache.ready, cache.checked)
    BY <2>1 DEF ReadyInv, CacheInv
  <2>3. clock \in Nat /\ lastGood[u] \in Int /\ lastBad[u] \in Int
    BY DEF ReadyInv, ReadyTypeOK
  <2> QED
    BY <2>1, <2>2, <2>3, ReadinessAssumption DEF Backed
<1> HIDE DEF new
<1>5. ReadyTypeOK'
  BY <1>1, <1>2 DEF ReadyInv, ReadyTypeOK
<1>6. HistoryInv'
  BY <1>1 DEF ReadyInv, HistoryInv
<1>7. clock <= clock' /\ \A v \in Urls : lastGood[v] <= lastGood'[v] /\ lastBad[v] <= lastBad'[v]
  <2>1. clock \in Nat /\ lastGood \in [Urls -> Int] /\ lastBad \in [Urls -> Int]
    BY DEF ReadyInv, ReadyTypeOK
  <2> QED
    BY <1>1, <2>1
<1>8. CacheInv'
  BY <1>1, <1>5, <1>7, CacheStays DEF ReadyInv
<1>9. HookInv(h)'
  <2>1. hook'[h] = new /\ clock' = clock /\ lastGood' = lastGood /\ lastBad' = lastBad
    BY <1>1 DEF ReadyInv, ReadyTypeOK
  <2>2. new.at <= clock
    <3>1. clock \in Nat
      BY DEF ReadyInv, ReadyTypeOK
    <3> QED
      BY <1>2, <3>1
  <2> QED
    BY <1>2, <1>4, <2>1, <2>2 DEF HookInv
<1>10. HooksInv'
  <2> SUFFICES ASSUME NEW g \in Hooks, g # h PROVE HookInv(g)'
    BY <1>9 DEF HooksInv
  <2>1. hook'[g] = hook[g] /\ HookInv(g)
    BY <1>1 DEF ReadyInv, ReadyTypeOK, HooksInv
  <2> QED
    BY <1>5, <1>7, <2>1, HookStays DEF ReadyInv
<1> QED
  BY <1>5, <1>6, <1>8, <1>10 DEF ReadyInv

LEMMA ProbeKeeps ==
    ASSUME ReadyInv, NEW h \in Hooks, NEW answered \in BOOLEAN, Probe(h, answered)
    PROVE  ReadyInv'
<1> DEFINE u == hook[h].url
           yes == answered /\ server[u] = "new"
<1>1. /\ hook[h].phase = "probing"
      /\ hook' = [hook EXCEPT ![h].phase = "answered", ![h].ready = yes]
      /\ lastBad' = IF answered THEN lastBad ELSE [lastBad EXCEPT ![u] = clock]
      /\ UNCHANGED <<clock, server, cache, lastGood, deploys>>
  BY DEF Probe
<1>2. /\ u \in Urls /\ hook[h].at <= clock /\ hook[h].at \in Nat
      /\ hook[h] \in HookStates /\ clock \in Nat
      /\ lastGood \in [Urls -> Int] /\ lastBad \in [Urls -> Int]
  BY <1>1 DEF ReadyInv, HooksInv, HookInv, ReadyTypeOK, HookStates
<1>3. yes \in BOOLEAN
  OBVIOUS
<1> HIDE DEF yes
<1>4. hook' = [hook EXCEPT ![h] = [hook[h] EXCEPT !.phase = "answered", !.ready = yes]]
  BY <1>1
<1>5. [hook[h] EXCEPT !.phase = "answered", !.ready = yes] \in HookStates
  BY <1>2, <1>3 DEF HookStates, Phases
<1>6. lastBad' \in [Urls -> Int] /\ \A v \in Urls : lastBad[v] <= lastBad'[v] /\ lastBad'[v] <= clock
  BY <1>1, <1>2 DEF ReadyInv, HistoryInv
<1>7. ReadyTypeOK'
  <2>1. hook' \in [Hooks -> HookStates]
    BY <1>4, <1>5 DEF ReadyInv, ReadyTypeOK
  <2> QED
    BY <1>1, <1>6, <2>1 DEF ReadyInv, ReadyTypeOK
<1>8. HistoryInv'
  BY <1>1, <1>2, <1>6 DEF ReadyInv, HistoryInv
<1>9. clock <= clock' /\ \A v \in Urls : lastGood[v] <= lastGood'[v] /\ lastBad[v] <= lastBad'[v]
  BY <1>1, <1>2, <1>6
<1>10. CacheInv'
  BY <1>1, <1>7, <1>9, CacheStays DEF ReadyInv
<1>11. IF yes THEN lastGood[u] >= hook[h].at ELSE lastBad'[u] >= hook[h].at
  <2>1. CASE yes
    BY <1>2, <2>1 DEF yes, ReadyInv, HistoryInv
  <2>2. CASE ~yes /\ answered
    BY <1>1, <1>2, <2>2 DEF yes, ReadyInv, HistoryInv
  <2>3. CASE ~answered
    BY <1>1, <1>2, <2>3 DEF yes
  <2> QED
    BY <2>1, <2>2, <2>3
<1>12. HookInv(h)'
  <2>1. hook'[h] = [hook[h] EXCEPT !.phase = "answered", !.ready = yes]
    BY <1>4 DEF ReadyInv, ReadyTypeOK
  <2>2. hook'[h].phase = "answered" /\ hook'[h].ready = yes /\ hook'[h].url = u /\ hook'[h].at = hook[h].at
    BY <2>1, <1>2 DEF HookStates
  <2> QED
    BY <1>1, <1>2, <1>11, <2>2 DEF HookInv, Backed
<1>13. HooksInv'
  <2> SUFFICES ASSUME NEW g \in Hooks, g # h PROVE HookInv(g)'
    BY <1>12 DEF HooksInv
  <2>1. hook'[g] = hook[g] /\ HookInv(g)
    BY <1>4 DEF ReadyInv, ReadyTypeOK, HooksInv
  <2> QED
    BY <1>7, <1>9, <2>1, HookStays DEF ReadyInv
<1> QED
  BY <1>7, <1>8, <1>10, <1>13 DEF ReadyInv

LEMMA WriteKeeps ==
    ASSUME ReadyInv, NEW h \in Hooks, WriteCache(h)
    PROVE  ReadyInv'
<1> DEFINE u == hook[h].url
<1>1. /\ hook[h].phase = "answered"
      /\ cache' \in {Answered(h), cache, NoFile}
      /\ hook' = [hook EXCEPT ![h] = [hook[h] EXCEPT !.phase = "decided"]]
      /\ UNCHANGED <<clock, server, lastGood, lastBad, deploys>>
  BY DEF WriteCache
<1>2. /\ u \in Urls /\ hook[h].at <= clock /\ hook[h].at \in Nat /\ hook[h].ready \in BOOLEAN
      /\ hook[h] \in HookStates /\ clock \in Nat
      /\ lastGood \in [Urls -> Int] /\ lastBad \in [Urls -> Int]
      /\ Backed(u, hook[h].ready, hook[h].at)
  BY <1>1 DEF ReadyInv, HooksInv, HookInv, ReadyTypeOK, HookStates
<1>3. [hook[h] EXCEPT !.phase = "decided"] \in HookStates
  BY <1>2 DEF HookStates, Phases
<1>4. Answered(h) \in [url : Urls \cup {""}, ready : BOOLEAN, checked : Int]
  <2>1. u \in Urls \cup {""}
    BY <1>2
  <2>2. hook[h].at \in Int
    BY <1>2
  <2>3. hook[h].ready \in BOOLEAN
    BY <1>2, Zenon
  <2>4. [url |-> u, ready |-> hook[h].ready, checked |-> hook[h].at]
          \in [url : Urls \cup {""}, ready : BOOLEAN, checked : Int]
    BY <2>1, <2>2, <2>3
  <2> QED
    BY <2>4 DEF Answered
<1>5. NoFile \in [url : Urls \cup {""}, ready : BOOLEAN, checked : Int]
  BY NeverType DEF NoFile
<1>6. ReadyTypeOK'
  BY <1>1, <1>3, <1>4, <1>5 DEF ReadyInv, ReadyTypeOK
<1>7. HistoryInv'
  BY <1>1 DEF ReadyInv, HistoryInv
<1>8. clock <= clock' /\ \A v \in Urls : lastGood[v] <= lastGood'[v] /\ lastBad[v] <= lastBad'[v]
  BY <1>1, <1>2
<1>9. CacheInv'
  <2>1. CASE cache' = Answered(h)
    <3>1. cache'.url = u /\ cache'.checked = hook[h].at /\ cache'.ready = hook[h].ready
      BY <2>1 DEF Answered
    <3>2. Backed(u, hook[h].ready, hook[h].at) = (IF hook[h].ready THEN lastGood[u] >= hook[h].at
                                                                  ELSE lastBad[u] >= hook[h].at)
      BY DEF Backed
    <3> QED
      BY <1>1, <1>2, <3>1, <3>2 DEF CacheInv, Backed
  <2>2. CASE cache' = cache
    BY <2>2, <1>6, <1>8, CacheStays DEF ReadyInv
  <2>3. CASE cache' = NoFile
    BY <2>3 DEF CacheInv
  <2> QED
    BY <1>1, <2>1, <2>2, <2>3
<1>10. HookInv(h)'
  <2>1. hook'[h] = [hook[h] EXCEPT !.phase = "decided"]
    BY <1>1 DEF ReadyInv, ReadyTypeOK
  <2>2. /\ hook'[h].phase = "decided" /\ hook'[h].ready = hook[h].ready
        /\ hook'[h].url = u /\ hook'[h].at = hook[h].at
    BY <2>1, <1>2 DEF HookStates
  <2>3. lastGood[u] \in Int /\ lastBad[u] \in Int
    BY <1>2
  <2>4. hook[h].ready => hook[h].at - lastGood[u] < ReadyTtl
    BY <1>2, <2>3, ReadinessAssumption DEF Backed
  <2>5. ~hook[h].ready => hook[h].at - lastBad[u] < NotReadyTtl
    BY <1>2, <2>3, ReadinessAssumption DEF Backed
  <2> QED
    BY <1>1, <1>2, <2>2, <2>4, <2>5 DEF HookInv
<1>11. HooksInv'
  <2> SUFFICES ASSUME NEW g \in Hooks, g # h PROVE HookInv(g)'
    BY <1>10 DEF HooksInv
  <2>1. hook'[g] = hook[g] /\ HookInv(g)
    BY <1>1 DEF ReadyInv, ReadyTypeOK, HooksInv
  <2> QED
    BY <1>6, <1>8, <2>1, HookStays DEF ReadyInv
<1> QED
  BY <1>6, <1>7, <1>9, <1>11 DEF ReadyInv

LEMMA EndKeeps ==
    ASSUME ReadyInv, NEW h \in Hooks, HookEnds(h)
    PROVE  ReadyInv'
<1>1. hook' = [hook EXCEPT ![h] = Asleep] /\ UNCHANGED <<clock, server, cache, lastGood, lastBad, deploys>>
  BY DEF HookEnds
<1>2. ReadyTypeOK'
  BY <1>1, AsleepType DEF ReadyInv, ReadyTypeOK
<1>3. HistoryInv'
  BY <1>1 DEF ReadyInv, HistoryInv
<1>4. clock <= clock' /\ \A v \in Urls : lastGood[v] <= lastGood'[v] /\ lastBad[v] <= lastBad'[v]
  <2>1. clock \in Nat /\ lastGood \in [Urls -> Int] /\ lastBad \in [Urls -> Int]
    BY DEF ReadyInv, ReadyTypeOK
  <2> QED
    BY <1>1, <2>1
<1>5. CacheInv'
  BY <1>1, <1>2, <1>4, CacheStays DEF ReadyInv
<1>6. HookInv(h)'
  <2>1. hook'[h] = Asleep
    BY <1>1 DEF ReadyInv, ReadyTypeOK
  <2> QED
    BY <2>1, AsleepType DEF HookInv
<1>7. HooksInv'
  <2> SUFFICES ASSUME NEW g \in Hooks, g # h PROVE HookInv(g)'
    BY <1>6 DEF HooksInv
  <2>1. hook'[g] = hook[g] /\ HookInv(g)
    BY <1>1 DEF ReadyInv, ReadyTypeOK, HooksInv
  <2> QED
    BY <1>2, <1>4, <2>1, HookStays DEF ReadyInv
<1> QED
  BY <1>2, <1>3, <1>5, <1>7 DEF ReadyInv

(* A step of the world: the hooks and the file are where they were.        *)
LEMMA WorldKeeps ==
    ASSUME ReadyInv, ReadyTypeOK', HistoryInv', clock <= clock', UNCHANGED <<cache, hook>>,
           \A u \in Urls : lastGood[u] <= lastGood'[u] /\ lastBad[u] <= lastBad'[u]
    PROVE  ReadyInv'
<1>1. CacheInv'
  BY CacheStays DEF ReadyInv
<1>2. HooksInv'
  <2> SUFFICES ASSUME NEW g \in Hooks PROVE HookInv(g)'
    BY DEF HooksInv
  <2> QED
    BY HookStays DEF ReadyInv, HooksInv
<1> QED
  BY <1>1, <1>2 DEF ReadyInv

LEMMA DeployKeeps ==
    ASSUME ReadyInv, NEW u \in Urls, NEW what \in {"old", "new", "down"}, Deploy(u, what)
    PROVE  ReadyInv'
<1>1. /\ server' = [server EXCEPT ![u] = what]
      /\ lastGood' = [lastGood EXCEPT ![u] = IF what = "new" THEN clock ELSE lastGood[u]]
      /\ lastBad' = [lastBad EXCEPT ![u] = IF what = "new" THEN lastBad[u] ELSE clock]
      /\ UNCHANGED <<clock, cache, hook>>
  BY DEF Deploy
<1>2. clock \in Nat /\ lastGood \in [Urls -> Int] /\ lastBad \in [Urls -> Int]
  BY DEF ReadyInv, ReadyTypeOK
<1>3. ReadyTypeOK'
  <2>1. server' \in [Urls -> {"old", "new", "down"}]
    BY <1>1 DEF ReadyInv, ReadyTypeOK
  <2>2. lastGood' \in [Urls -> Int] /\ lastBad' \in [Urls -> Int]
    BY <1>1, <1>2
  <2> QED
    BY <1>1, <2>1, <2>2 DEF ReadyInv, ReadyTypeOK
<1>4. HistoryInv'
  BY <1>1, <1>2 DEF ReadyInv, ReadyTypeOK, HistoryInv
<1>5. clock <= clock' /\ \A v \in Urls : lastGood[v] <= lastGood'[v] /\ lastBad[v] <= lastBad'[v]
  BY <1>1, <1>2 DEF ReadyInv, HistoryInv
<1> QED
  BY <1>1, <1>3, <1>4, <1>5, WorldKeeps

LEMMA TickKeeps ==
    ASSUME ReadyInv, HookTick
    PROVE  ReadyInv'
<1>1. /\ clock' = clock + 1
      /\ lastGood' = [u \in Urls |-> IF server[u] = "new" THEN clock + 1 ELSE lastGood[u]]
      /\ lastBad' = [u \in Urls |-> IF server[u] = "new" THEN lastBad[u] ELSE clock + 1]
      /\ UNCHANGED <<server, cache, hook>>
  BY DEF HookTick
<1>2. clock \in Nat /\ lastGood \in [Urls -> Int] /\ lastBad \in [Urls -> Int]
  BY DEF ReadyInv, ReadyTypeOK
<1>3. ReadyTypeOK'
  <2>1. clock' \in Nat /\ lastGood' \in [Urls -> Int] /\ lastBad' \in [Urls -> Int]
    BY <1>1, <1>2
  <2> QED
    BY <1>1, <2>1 DEF ReadyInv, ReadyTypeOK
<1>4. HistoryInv'
  BY <1>1, <1>2 DEF ReadyInv, HistoryInv
<1>5. clock <= clock' /\ \A v \in Urls : lastGood[v] <= lastGood'[v] /\ lastBad[v] <= lastBad'[v]
  BY <1>1, <1>2 DEF ReadyInv, HistoryInv
<1> QED
  BY <1>1, <1>3, <1>4, <1>5, WorldKeeps

LEMMA NextReady == ReadyInv /\ [ReadyNext]_readyVars => ReadyInv'
<1> SUFFICES ASSUME ReadyInv, [ReadyNext]_readyVars PROVE ReadyInv'
  OBVIOUS
<1>1. ASSUME NEW h \in Hooks, NEW u \in Urls, AskCache(h, u) PROVE ReadyInv'
  BY <1>1, AskKeeps
<1>2. ASSUME NEW h \in Hooks, NEW answered \in BOOLEAN, Probe(h, answered) PROVE ReadyInv'
  BY <1>2, ProbeKeeps
<1>3. ASSUME NEW h \in Hooks, WriteCache(h) PROVE ReadyInv'
  BY <1>3, WriteKeeps
<1>4. ASSUME NEW h \in Hooks, HookEnds(h) PROVE ReadyInv'
  BY <1>4, EndKeeps
<1>5. ASSUME NEW u \in Urls, NEW what \in {"old", "new", "down"}, Deploy(u, what) PROVE ReadyInv'
  BY <1>5, DeployKeeps
<1>6. CASE HookTick
  BY <1>6, TickKeeps
<1>7. CASE UNCHANGED readyVars
  BY <1>7 DEF readyVars, ReadyInv, ReadyTypeOK, HistoryInv, CacheInv, HooksInv, HookInv, Backed
<1> QED
  BY <1>1, <1>2, <1>3, <1>4, <1>5, <1>6, <1>7 DEF ReadyNext

(* A hook that searches does so on a "yes" its server could still give     *)
(* less than ReadyTtl before, one that stays quiet on a "no" less than     *)
(* NotReadyTtl old, whatever the other hooks probe and write meanwhile.    *)
THEOREM AnswersAreFreshHolds == ReadySpec => []AnswersAreFresh
<1>1. ReadyInv => AnswersAreFresh
  BY DEF ReadyInv, HooksInv, HookInv, AnswersAreFresh, YesIsBacked, NoIsShort
<1> QED
  BY InitReady, NextReady, <1>1, PTL DEF ReadySpec

------------------------------------------------------------------------------
(***************************************************************************)
(* The two hooks around a turn.  TurnKept says what the second one relies  *)
(* on: since the last line that opens a turn, the transcript holds what    *)
(* the turn was given, in the lines the hook looks at, and what it said.   *)
(***************************************************************************)
Lines == [role : {"user", "attachment", "assistant"}, typed : BOOLEAN, tool : BOOLEAN,
          shows : SUBSET Known, says : SUBSET Words]

TurnTypes ==
    /\ transcript \in Seq(Lines)
    /\ injected \subseteq Known /\ recalled \subseteq Known /\ said \subseteq Words
    /\ blind \in BOOLEAN
    /\ credited \in [ran : Nat, ids : SUBSET Known]

InjectedIn(line) == line.role = "attachment"

TurnFrom(k) ==
    /\ OpensTurn(transcript[k])
    /\ \A i \in k + 1 .. Len(transcript) : ~OpensTurn(transcript[i])
    /\ \A m \in Known :
          m \in injected <=> \E i \in k .. Len(transcript) : InjectedIn(transcript[i]) /\ m \in transcript[i].shows
    /\ \A m \in Known :
          m \in recalled <=> \E i \in k .. Len(transcript) : transcript[i].tool /\ m \in transcript[i].shows
    /\ \A w \in Words :
          w \in said <=> \E i \in k .. Len(transcript) :
                            transcript[i].role = "assistant" /\ w \in transcript[i].says

TurnKept == transcript # <<>> => \E k \in 1 .. Len(transcript) : TurnFrom(k)

TurnInv == TurnTypes /\ TurnKept /\ InjectedOnce

LEMMA TurnInitInv == TurnInit => TurnInv
<1>1. <<>> \in Seq(Lines) /\ DOMAIN <<>> = {}
  OBVIOUS
<1> SUFFICES ASSUME TurnInit PROVE TurnInv
  OBVIOUS
<1>2. TurnTypes
  BY <1>1 DEF TurnInit, TurnTypes
<1>3. TurnKept /\ InjectedOnce
  BY <1>1 DEF TurnInit, TurnKept, InjectedOnce
<1> QED
  BY <1>2, <1>3 DEF TurnInv

(* A line that does not open a turn, and shows and says what it adds.      *)
LEMMA LineAdded ==
    ASSUME NEW k \in 1 .. Len(transcript), TurnTypes, TurnFrom(k),
           NEW line \in Lines, ~OpensTurn(line), transcript' = Append(transcript, line),
           injected' = injected \cup (IF InjectedIn(line) THEN line.shows ELSE {}),
           recalled' = recalled \cup (IF line.tool THEN line.shows ELSE {}),
           said' = said \cup (IF line.role = "assistant" THEN line.says ELSE {})
    PROVE  TurnFrom(k)'
<1>1. /\ Len(transcript) \in Nat /\ Len(transcript') = Len(transcript) + 1
      /\ \A i \in 1 .. Len(transcript) : transcript'[i] = transcript[i]
      /\ transcript'[Len(transcript) + 1] = line
  BY AppendProperties DEF TurnTypes
<1>2. k .. Len(transcript') = (k .. Len(transcript)) \cup {Len(transcript) + 1}
  BY <1>1
<1>3. \A i \in k .. Len(transcript) : transcript'[i] = transcript[i]
  BY <1>1
<1>4. transcript'[k] = transcript[k]
  BY <1>1
<1>5. \A i \in k + 1 .. Len(transcript') : ~OpensTurn(transcript'[i])
  <2> TAKE i \in k + 1 .. Len(transcript')
  <2>1. CASE i = Len(transcript) + 1
    BY <1>1, <2>1
  <2>2. CASE i # Len(transcript) + 1
    <3>1. i \in k + 1 .. Len(transcript) /\ i \in k .. Len(transcript)
      BY <1>1, <2>2
    <3> QED
      BY <1>3, <3>1 DEF TurnFrom
  <2> QED
    BY <2>1, <2>2
<1>6. \A m \in Known :
        m \in injected' <=> \E i \in k .. Len(transcript') : InjectedIn(transcript'[i]) /\ m \in transcript'[i].shows
  <2> TAKE m \in Known
  <2>1. (\E i \in k .. Len(transcript') : InjectedIn(transcript'[i]) /\ m \in transcript'[i].shows)
        <=> \/ \E i \in k .. Len(transcript) : InjectedIn(transcript[i]) /\ m \in transcript[i].shows
            \/ InjectedIn(line) /\ m \in line.shows
    BY <1>1, <1>2, <1>3
  <2> QED
    BY <2>1 DEF TurnFrom
<1>9. \A m \in Known :
        m \in recalled' <=> \E i \in k .. Len(transcript') : transcript'[i].tool /\ m \in transcript'[i].shows
  <2> TAKE m \in Known
  <2>1. (\E i \in k .. Len(transcript') : transcript'[i].tool /\ m \in transcript'[i].shows)
        <=> \/ \E i \in k .. Len(transcript) : transcript[i].tool /\ m \in transcript[i].shows
            \/ line.tool /\ m \in line.shows
    BY <1>1, <1>2, <1>3
  <2> QED
    BY <2>1 DEF TurnFrom
<1>7. \A w \in Words :
        w \in said' <=> \E i \in k .. Len(transcript') :
                           transcript'[i].role = "assistant" /\ w \in transcript'[i].says
  <2> TAKE w \in Words
  <2>1. (\E i \in k .. Len(transcript') : transcript'[i].role = "assistant" /\ w \in transcript'[i].says)
        <=> \/ \E i \in k .. Len(transcript) : transcript[i].role = "assistant" /\ w \in transcript[i].says
            \/ line.role = "assistant" /\ w \in line.says
    BY <1>1, <1>2, <1>3
  <2> QED
    BY <2>1 DEF TurnFrom
<1>8. OpensTurn(transcript'[k])
  BY <1>4 DEF TurnFrom
<1> QED
  BY <1>5, <1>6, <1>7, <1>8, <1>9 DEF TurnFrom

(* A line that is no attachment repeats nothing.                           *)
LEMMA NotInjected ==
    ASSUME TurnTypes, InjectedOnce, NEW line \in Lines, line.role # "attachment",
           transcript' = Append(transcript, line), UNCHANGED blind
    PROVE  InjectedOnce'
<1>1. /\ Len(transcript) \in Nat /\ DOMAIN transcript = 1 .. Len(transcript)
      /\ DOMAIN transcript' = 1 .. Len(transcript) + 1
      /\ \A i \in 1 .. Len(transcript) : transcript'[i] = transcript[i]
      /\ transcript'[Len(transcript) + 1] = line
  BY AppendProperties DEF TurnTypes
<1> SUFFICES ASSUME ~blind, NEW i \in DOMAIN transcript', NEW j \in DOMAIN transcript',
                    i < j, transcript'[j].role = "attachment"
             PROVE  transcript'[i].shows \cap transcript'[j].shows = {}
  BY DEF InjectedOnce
<1>2. j \in 1 .. Len(transcript) /\ i \in 1 .. Len(transcript)
  BY <1>1
<1> QED
  BY <1>1, <1>2 DEF InjectedOnce

(* What a hook chooses may travel.                                         *)
LEMMA SelectFits ==
    ASSUME NEW n \in Nat, NEW hits \in [1 .. n -> Known], NEW present
    PROVE  Select(hits, present) \subseteq Known /\ Select(hits, present) \cap present = {}
BY DEF Select, MayTravel

(* A prompt opens a turn, and its hook shows only what is not there yet.   *)
LEMMA PromptStep ==
    ASSUME TurnInv, NEW asked \in SUBSET Words, NEW hits \in Orders, NEW readable \in BOOLEAN,
           Prompt(asked, hits, readable)
    PROVE  TurnInv'
<1> DEFINE present == IF readable THEN InTranscript ELSE {}
           chosen == IF Cardinality(asked) >= MinTerms THEN Select(hits, present) ELSE {}
           first == Line("user", TRUE, FALSE, {}, asked)
           second == Line("attachment", FALSE, FALSE, chosen, {})
           opened == Append(transcript, first)
<1>1. /\ transcript' = IF chosen = {} THEN opened ELSE Append(opened, second)
      /\ injected' = chosen /\ recalled' = {} /\ said' = {} /\ blind' = (blind \/ ~readable) /\ UNCHANGED credited
  BY DEF Prompt
<1>2. Len(transcript) \in Nat
  BY DEF TurnInv, TurnTypes
<1>3. PICK n \in Nat : n = Len(transcript)
  BY <1>2
<1>4. transcript \in Seq(Lines) /\ Len(transcript) = n /\ DOMAIN transcript = 1 .. n
  BY <1>3 DEF TurnInv, TurnTypes
<1>5. chosen \subseteq Known /\ chosen \cap present = {}
  <2>1. PICK size \in 0 .. Cardinality(Known) : hits \in [1 .. size -> Known]
    BY DEF Orders
  <2>2. DOMAIN hits = 1 .. size /\ \A i \in DOMAIN hits : hits[i] \in Known
    BY <2>1
  <2> QED
    BY <2>2 DEF Select, MayTravel
<1> HIDE DEF chosen
<1>6. first \in Lines /\ second \in Lines
  BY <1>5 DEF Lines, Line
<1>7. /\ first.shows = {} /\ first.role = "user" /\ OpensTurn(first) /\ ~InjectedIn(first)
      /\ second.shows = chosen /\ second.role = "attachment" /\ ~OpensTurn(second) /\ InjectedIn(second)
      /\ second.says = {} /\ ~first.tool /\ ~second.tool
  BY DEF Line, OpensTurn, InjectedIn
<1> HIDE DEF first, second
<1>8. /\ opened \in Seq(Lines) /\ Len(opened) = n + 1 /\ opened # <<>>
      /\ \A i \in 1 .. n : opened[i] = transcript[i]
      /\ opened[n + 1] = first
  BY <1>4, <1>6, AppendProperties
<1> HIDE DEF opened
<1>9. CASE chosen = {}
  <2>1. transcript' = opened
    BY <1>1, <1>9
  <2>2. TurnTypes'
    BY <1>1, <1>8, <1>9, <2>1 DEF TurnInv, TurnTypes
  <2>3. TurnFrom(n + 1)'
    <3>1. n + 1 .. Len(transcript') = {n + 1} /\ n + 1 + 1 .. Len(transcript') = {}
      BY <1>4, <1>8, <2>1
    <3>2. transcript'[n + 1] = first
      BY <1>8, <2>1
    <3> QED
      BY <1>1, <1>7, <1>9, <3>1, <3>2 DEF TurnFrom
  <2>4. InjectedOnce'
    <3>1. DOMAIN transcript' = 1 .. n + 1
      BY <1>8, <2>1
    <3>2. ~blind' => ~blind
      BY <1>1
    <3> SUFFICES ASSUME ~blind, NEW i \in 1 .. n + 1, NEW j \in 1 .. n + 1,
                        i < j, opened[j].role = "attachment"
                 PROVE  opened[i].shows \cap opened[j].shows = {}
      BY <2>1, <3>1, <3>2 DEF InjectedOnce
    <3>3. j \in 1 .. n /\ i \in 1 .. n
      BY <1>4, <1>7, <1>8
    <3> QED
      BY <1>4, <1>8, <3>3 DEF TurnInv, InjectedOnce
  <2>5. n + 1 \in 1 .. Len(transcript')
    BY <1>4, <1>8, <2>1
  <2> QED
    BY <2>2, <2>3, <2>4, <2>5 DEF TurnInv, TurnKept
<1>10. CASE chosen # {}
  <2>1. transcript' = Append(opened, second)
    BY <1>1, <1>10
  <2>2. /\ transcript' \in Seq(Lines) /\ Len(transcript') = n + 2
        /\ \A i \in 1 .. n : transcript'[i] = transcript[i]
        /\ transcript'[n + 1] = first /\ transcript'[n + 2] = second
        /\ DOMAIN transcript' = 1 .. n + 2
    <3>1. /\ transcript' \in Seq(Lines) /\ Len(transcript') = (n + 1) + 1
          /\ \A i \in 1 .. n + 1 : transcript'[i] = opened[i]
          /\ transcript'[(n + 1) + 1] = second
      BY <1>6, <1>8, <2>1, AppendProperties
    <3>2. (n + 1) + 1 = n + 2 /\ n + 1 \in 1 .. n + 1 /\ \A i \in 1 .. n : i \in 1 .. n + 1
      BY <1>4
    <3>3. DOMAIN transcript' = 1 .. Len(transcript')
      BY <3>1
    <3> QED
      BY <1>8, <3>1, <3>2, <3>3
  <2>3. TurnTypes'
    BY <1>1, <1>5, <2>2 DEF TurnInv, TurnTypes
  <2>4. TurnFrom(n + 1)'
    <3>1. n + 1 .. Len(transcript') = {n + 1, n + 2} /\ n + 1 + 1 .. Len(transcript') = {n + 2}
      BY <1>4, <2>2
    <3>2. OpensTurn(transcript'[n + 1]) /\ ~OpensTurn(transcript'[n + 2])
      BY <1>7, <2>2
    <3>3. \A m \in Known :
            m \in injected' <=> \E i \in n + 1 .. Len(transcript') :
                                InjectedIn(transcript'[i]) /\ m \in transcript'[i].shows
      BY <1>1, <1>7, <2>2, <3>1
    <3>5. \A m \in Known :
            m \in recalled' <=> \E i \in n + 1 .. Len(transcript') :
                                transcript'[i].tool /\ m \in transcript'[i].shows
      BY <1>1, <1>7, <2>2, <3>1
    <3>4. \A w \in Words :
            w \in said' <=> \E i \in n + 1 .. Len(transcript') :
                               transcript'[i].role = "assistant" /\ w \in transcript'[i].says
      BY <1>1, <1>7, <2>2, <3>1
    <3> QED
      BY <3>1, <3>2, <3>3, <3>4, <3>5 DEF TurnFrom
  <2>5. InjectedOnce'
    <3> SUFFICES ASSUME ~blind, readable, NEW i \in 1 .. n + 2, NEW j \in 1 .. n + 2,
                        i < j, transcript'[j].role = "attachment"
                 PROVE  transcript'[i].shows \cap transcript'[j].shows = {}
      BY <1>1, <2>2 DEF InjectedOnce
    <3>1. CASE j \in 1 .. n
      <4>1. i \in 1 .. n
        BY <1>4, <3>1
      <4> QED
        BY <1>4, <2>2, <3>1, <4>1 DEF TurnInv, InjectedOnce
    <3>2. CASE j = n + 1
      BY <1>7, <2>2, <3>2
    <3>3. CASE j = n + 2 /\ i = n + 1
      BY <1>7, <2>2, <3>3
    <3>4. CASE j = n + 2 /\ i \in 1 .. n
      <4>1. transcript'[i].shows \subseteq InTranscript
        BY <1>4, <2>2, <3>4 DEF InTranscript
      <4> QED
        BY <1>5, <1>7, <2>2, <3>4, <4>1
    <3> QED
      BY <1>4, <3>1, <3>2, <3>3, <3>4
  <2>6. n + 1 \in 1 .. Len(transcript')
    BY <1>4, <2>2
  <2> QED
    BY <2>3, <2>4, <2>5, <2>6 DEF TurnInv, TurnKept
<1> QED
  BY <1>9, <1>10

LEMMA LineSteps ==
    ASSUME TurnInv,
           \/ \E hits \in SUBSET Known, withText \in BOOLEAN : RecallByModel(hits, withText)
           \/ \E W \in SUBSET Words : Reply(W)
    PROVE  TurnInv'
<1> DEFINE Adds(line) ==
             /\ line \in Lines /\ ~OpensTurn(line) /\ line.role # "attachment"
             /\ transcript' = Append(transcript, line)
             /\ injected' = injected \cup (IF InjectedIn(line) THEN line.shows ELSE {})
             /\ recalled' = recalled \cup (IF line.tool THEN line.shows ELSE {})
             /\ said' = said \cup (IF line.role = "assistant" THEN line.says ELSE {})
             /\ UNCHANGED <<blind, credited>> /\ transcript # <<>>
<1>1. \E line : Adds(line)
  <2>1. ASSUME NEW hits \in SUBSET Known, NEW withText \in BOOLEAN, RecallByModel(hits, withText)
        PROVE  Adds(Line("user", withText, TRUE, hits, {}))
    BY <2>1 DEF RecallByModel, Line, Lines, OpensTurn, InjectedIn
  <2>2. ASSUME NEW W \in SUBSET Words, Reply(W)
        PROVE  Adds(Line("assistant", FALSE, FALSE, {}, W))
    BY <2>2 DEF Reply, Line, Lines, OpensTurn, InjectedIn
  <2> HIDE DEF Adds
  <2> QED
    BY <2>1, <2>2
<1>2. PICK line : Adds(line)
  BY <1>1
<1>3. TurnTypes /\ InjectedOnce
  BY DEF TurnInv
<1>4. /\ transcript' \in Seq(Lines) /\ transcript' # <<>> /\ Len(transcript') = Len(transcript) + 1
      /\ Len(transcript) \in Nat
  BY <1>2, <1>3, AppendProperties DEF TurnTypes
<1>5. TurnTypes'
  BY <1>2, <1>3, <1>4 DEF TurnTypes, Lines
<1>6. PICK k \in 1 .. Len(transcript) : TurnFrom(k)
  BY <1>2 DEF TurnInv, TurnKept
<1>7. TurnFrom(k)' /\ k \in 1 .. Len(transcript')
  BY <1>2, <1>3, <1>4, <1>6, LineAdded
<1>8. InjectedOnce'
  BY <1>2, <1>3, NotInjected
<1> QED
  BY <1>5, <1>7, <1>8 DEF TurnInv, TurnKept

(* The turn the hook reads is the one that is open.                        *)
LEMMA LastTurnIs ==
    ASSUME TurnTypes, NEW k \in 1 .. Len(transcript), TurnFrom(k)
    PROVE  LastTurn = SubSeq(transcript, k, Len(transcript))
<1> DEFINE opening == {i \in DOMAIN transcript : OpensTurn(transcript[i])}
           last == CHOOSE i \in opening : \A j \in opening : j <= i
<1>1. DOMAIN transcript = 1 .. Len(transcript) /\ Len(transcript) \in Nat
  BY DEF TurnTypes
<1>2. k \in opening
  BY <1>1 DEF TurnFrom
<1>3. \A j \in opening : j <= k
  <2> SUFFICES ASSUME NEW j \in opening, j > k PROVE FALSE
    BY <1>1
  <2>1. j \in k + 1 .. Len(transcript)
    BY <1>1
  <2> QED
    BY <2>1 DEF TurnFrom
<1>4. \A i \in opening : (\A j \in opening : j <= i) => i = k
  BY <1>1, <1>2, <1>3
<1>5. last = k
  <2> HIDE DEF opening
  <2> QED
    BY <1>2, <1>3, <1>4
<1>6. opening # {}
  BY <1>2
<1> HIDE DEF last
<1> QED
  BY <1>5, <1>6 DEF LastTurn, last

(* It reads in its lines what the turn was given, and what it said.        *)
LEMMA TurnIsRead ==
    ASSUME TurnInv, transcript # <<>>
    PROVE  /\ Injected(LastTurn) = injected
           /\ Recalled(LastTurn) = recalled \cap KMemories
           /\ AssistantReply(LastTurn) = said
<1> DEFINE n == Len(transcript)
<1>1. transcript \in Seq(Lines) /\ n \in Nat
  BY DEF TurnInv, TurnTypes
<1>0. injected \subseteq Known /\ recalled \subseteq Known /\ said \subseteq Words
  BY DEF TurnInv, TurnTypes
<1>2. PICK k \in 1 .. n : TurnFrom(k)
  BY DEF TurnInv, TurnKept
<1> DEFINE lines == SubSeq(transcript, k, n)
<1>3. LastTurn = lines
  BY <1>2, LastTurnIs DEF TurnInv
<1>4. \A i \in k .. n : transcript[i] \in Lines
  BY <1>1
<1>5. /\ lines \in Seq(Lines) /\ Len(lines) = n - k + 1
      /\ \A i \in 1 .. n - k + 1 : lines[i] = transcript[k + i - 1]
  BY <1>1, <1>4, SubSeqProperties
<1> HIDE DEF lines, n
<1>6. DOMAIN lines = 1 .. n - k + 1
  BY <1>5
<1>7. \A i \in DOMAIN lines : k + i - 1 \in k .. n /\ lines[i] = transcript[k + i - 1]
  BY <1>1, <1>5, <1>6
<1>8. \A i \in k .. n : i - k + 1 \in DOMAIN lines /\ lines[i - k + 1] = transcript[i]
  <2> TAKE i \in k .. n
  <2>1. i - k + 1 \in 1 .. n - k + 1 /\ k + (i - k + 1) - 1 = i
    BY <1>1
  <2> QED
    BY <1>5, <1>6, <2>1
<1>9. ASSUME NEW m
      PROVE  /\ m \in Injected(lines)
                  <=> \E i \in k .. n : InjectedIn(transcript[i]) /\ m \in transcript[i].shows
             /\ m \in Recalled(lines)
                  <=> m \in KMemories /\ \E i \in k .. n : transcript[i].tool /\ m \in transcript[i].shows
  <2>1. m \in Injected(lines)
           <=> \E i \in DOMAIN lines : InjectedIn(lines[i]) /\ m \in lines[i].shows
    BY DEF Injected, InjectedIn
  <2>2. m \in Recalled(lines)
           <=> m \in KMemories /\ \E i \in DOMAIN lines : lines[i].tool /\ m \in lines[i].shows
    BY DEF Recalled
  <2>3. (\E i \in DOMAIN lines : InjectedIn(lines[i]) /\ m \in lines[i].shows)
           <=> \E i \in k .. n : InjectedIn(transcript[i]) /\ m \in transcript[i].shows
    BY <1>7, <1>8
  <2>4. (\E i \in DOMAIN lines : lines[i].tool /\ m \in lines[i].shows)
           <=> \E i \in k .. n : transcript[i].tool /\ m \in transcript[i].shows
    BY <1>7, <1>8
  <2> QED
    BY <2>1, <2>2, <2>3, <2>4
<1>10. ASSUME NEW w
       PROVE  w \in AssistantReply(lines)
                 <=> \E i \in k .. n : transcript[i].role = "assistant" /\ w \in transcript[i].says
  <2>1. w \in AssistantReply(lines)
           <=> \E i \in DOMAIN lines : lines[i].role = "assistant" /\ w \in lines[i].says
    BY DEF AssistantReply
  <2> QED
    BY <1>7, <1>8, <2>1
<1>11. \A i \in k .. n : transcript[i].shows \subseteq Known /\ transcript[i].says \subseteq Words
  BY <1>4 DEF Lines, n
<1>12. \A m \in Known :
         m \in injected <=> \E i \in k .. n : InjectedIn(transcript[i]) /\ m \in transcript[i].shows
  BY <1>2 DEF TurnFrom, n
<1>13. \A m \in Known :
         m \in recalled <=> \E i \in k .. n : transcript[i].tool /\ m \in transcript[i].shows
  BY <1>2 DEF TurnFrom, n
<1>14. Injected(lines) = injected
  BY <1>0, <1>9, <1>11, <1>12
<1>15. Recalled(lines) = recalled \cap KMemories
  BY <1>0, <1>9, <1>11, <1>13 DEF Known
<1>16. AssistantReply(lines) = said
  BY <1>0, <1>2, <1>10, <1>11 DEF TurnFrom, n
<1> QED
  BY <1>3, <1>14, <1>15, <1>16

(* What the answer used of what the turn was given.                        *)
UsedInTurn ==
    {m \in injected : UsedBy(firstLine[m], said)}
    \cup {m \in (recalled \cap KMemories) \ injected : UsedBy(words[m], said)}

LEMMA StopStep ==
    ASSUME TurnInv, Stop
    PROVE  TurnInv' /\ credited'.ids = UsedInTurn
<1>1. /\ transcript # <<>> /\ UNCHANGED <<transcript, injected, recalled, said, blind>>
      /\ credited' = [ran |-> credited.ran + 1, ids |-> UsedIds(LastTurn)]
  BY DEF Stop
<1>2. credited'.ids = UsedInTurn
  BY <1>1, TurnIsRead DEF UsedIds, UsedInTurn
<1>3. UsedInTurn \subseteq Known
  BY DEF TurnInv, TurnTypes, UsedInTurn
<1>4. credited' \in [ran : Nat, ids : SUBSET Known]
  BY <1>1, <1>2, <1>3 DEF TurnInv, TurnTypes
<1>5. TurnKept' /\ InjectedOnce'
  BY <1>1 DEF TurnInv, TurnKept, TurnFrom, InjectedOnce
<1> QED
  BY <1>1, <1>2, <1>4, <1>5 DEF TurnInv, TurnTypes

LEMMA TurnNextInv == TurnInv /\ [TurnNext]_turnVars => TurnInv'
<1> SUFFICES ASSUME TurnInv, [TurnNext]_turnVars PROVE TurnInv'
  OBVIOUS
<1>1. CASE UNCHANGED turnVars
  BY <1>1 DEF turnVars, TurnInv, TurnTypes, TurnKept, TurnFrom, InjectedOnce
<1> QED
  BY <1>1, PromptStep, LineSteps, StopStep DEF TurnNext

(* InjectedOnce of HookTurn, for any transcript and any recalls in it.     *)
THEOREM InjectedOnceHolds == TurnSpec => []InjectedOnce
<1>1. TurnInv => InjectedOnce
  BY DEF TurnInv
<1> QED
  BY <1>1, TurnInitInv, TurnNextInv, PTL DEF TurnSpec

(* CreditsTheTurn of HookTurn: what a Stop credits is what its turn put in *)
(* front of the model and its answer used, by the text the hook reads, and *)
(* of what the model recalled the memories only, however long the          *)
(* transcript before it and whatever tool results came in between.         *)
THEOREM CreditsTheTurnHolds == TurnSpec => CreditsTheTurn
<1> DEFINE Credits == credited'.ran # credited.ran => credited'.ids = UsedInTurn
<1>1. TurnInv /\ [TurnNext]_turnVars => [Credits]_turnVars
  <2> SUFFICES ASSUME TurnInv, [TurnNext]_turnVars PROVE Credits \/ UNCHANGED turnVars
    OBVIOUS
  <2>1. CASE Stop
    BY <2>1, StopStep
  <2>2. CASE UNCHANGED credited
    BY <2>2
  <2> QED
    BY <2>1, <2>2 DEF TurnNext, Prompt, RecallByModel, Reply
<1> QED
  BY <1>1, TurnInitInv, TurnNextInv, PTL DEF TurnSpec, CreditsTheTurn, UsedInTurn

(***************************************************************************)
(* Recall without a vector for the query.                                  *)
(***************************************************************************)

(* Unheard, the vectors of the records turn nothing on or off.             *)
LEMMA DeafIsLexical ==
    ASSUME NEW q, NEW reach
    PROVE  HybridHits(q, reach, FALSE) = LexicalHits(q, reach)
<1>1. CloseLayers(reach, FALSE) = NothingFound
  BY DEF CloseLayers, Near, NothingFound
<1>2. ~MemoryVectors(reach, FALSE) = TRUE /\ (FALSE /\ Comparable(reach)) = FALSE
  BY DEF MemoryVectors
<1> QED
  BY <1>1, <1>2 DEF HybridHits, LexicalHits

(* DegradesToLexical of Retrieval, for any records, vectors and query.     *)
THEOREM DegradesToLexicalHolds == RecallSpec => []DegradesToLexical
<1>1. RecallInit => DegradesToLexical
  BY DEF RecallInit, NoAnswer, DegradesToLexical
<1>2. DegradesToLexical /\ [RecallNext]_recallVars => DegradesToLexical'
  <2> SUFFICES ASSUME DegradesToLexical, [RecallNext]_recallVars
               PROVE  DegradesToLexical'
    OBVIOUS
  <2>1. ASSUME NEW q, NEW scoped, NEW heard \in BOOLEAN, RecallHybrid(q, scoped, heard)
        PROVE  DegradesToLexical'
    <3> DEFINE hits  == HybridHits(q, InReach(scoped), heard)
               plain == LexicalHits(q, InReach(scoped))
    <3>1. answer' = [how |-> IF heard THEN "hybrid" ELSE "deaf", q |-> q, scoped |-> scoped,
                     hits |-> hits, plain |-> plain]
      BY <2>1 DEF RecallHybrid, Answer
    <3>2. heard = FALSE => hits = plain
      BY DeafIsLexical
    <3> HIDE DEF hits, plain
    <3> QED
      BY <3>1, <3>2 DEF DegradesToLexical
  <2>2. ASSUME NEW q, NEW scoped, RecallByWords(q, scoped)
        PROVE  DegradesToLexical'
    <3> DEFINE plain == LexicalHits(q, InReach(scoped))
    <3>1. answer' = [how |-> "words", q |-> q, scoped |-> scoped, hits |-> plain, plain |-> plain]
      BY <2>2 DEF RecallByWords, Answer
    <3> HIDE DEF plain
    <3> QED
      BY <3>1 DEF DegradesToLexical
  <2>3. CASE Settle
    BY <2>3 DEF Settle, NoAnswer, DegradesToLexical
  <2>4. CASE UNCHANGED answer
    BY <2>4 DEF DegradesToLexical
  <2> QED
    BY <2>1, <2>2, <2>3, <2>4 DEF RecallNext, WriteRecord, IndexRecord, DeleteRecord, Change, recallVars
<1> QED
  BY <1>1, <1>2, PTL DEF RecallSpec

(***************************************************************************)
(* What the rescue reaches.  A memory that has every word of a question    *)
(* has its first ones, which open the gate and clear the bar, and when no  *)
(* other memory has any of them nothing ranks before it.                   *)
(***************************************************************************)

(* The query is its words one after another, none twice.                   *)
LEMMA QueryFacts ==
    ASSUME NEW q \in Queries
    PROVE  /\ Len(q) \in Nat /\ q \in [1 .. Len(q) -> QueryWords]
           /\ \A i, j \in 1 .. Len(q) : q[i] = q[j] => i = j
           /\ Len(q) >= 1
<1>1. PICK S \in SUBSET QueryWords : S # {} /\ q = SetToSeq(S)
  BY DEF Queries
<1>2. IsFiniteSet(S)
  BY RecallAssumption, FS_Subset
<1>3. Cardinality(S) \in Nat /\ Cardinality(S) # 0
  BY <1>1, <1>2, FS_CardinalityType, FS_EmptySet
<1>4. \E f \in [1 .. Cardinality(S) -> S] : IsInjective(f)
  <2>1. ExistsBijection(1 .. Cardinality(S), S)
    BY <1>2, FS_CardinalityType
  <2> QED
    BY <2>1 DEF ExistsBijection, Bijection, Injection
<1>5. q \in [1 .. Cardinality(S) -> S] /\ IsInjective(q)
  BY <1>1, <1>4 DEF SetToSeq
<1>6. Len(q) = Cardinality(S)
  BY <1>3, <1>5
<1> QED
  BY <1>3, <1>5, <1>6 DEF IsInjective

(* Two of a set of numbers that has two are among its first two.           *)
LEMMA FirstTwo ==
    ASSUME NEW n \in Nat, NEW T \in SUBSET (1 .. n), 1 \in T, NEW k \in T, k # 1
    PROVE  \E i \in T : i # 1 /\ Cardinality(T \cap 1 .. i) <= 2
<1> DEFINE R == T \ {1}
           rank(i) == Cardinality(R \cap 1 .. i)
           f == [i \in R |-> rank(i)]
<1>1. IsFiniteSet(R) /\ R # {} /\ R \subseteq 1 .. n
  <2>1. IsFiniteSet(1 .. n)
    BY FS_Interval
  <2>2. R \in SUBSET (1 .. n) /\ R # {}
    OBVIOUS
  <2> QED
    BY <2>1, <2>2, FS_Subset
<1>2. \A i \in R : IsFiniteSet(R \cap 1 .. i)
  BY <1>1, FS_Subset
<1>3. Cardinality(R) \in Nat
  BY <1>1, FS_CardinalityType
<1>4. \A i \in R : rank(i) \in 1 .. Cardinality(R)
  <2> TAKE i \in R
  <2>1. R \cap 1 .. i \subseteq R
    OBVIOUS
  <2>2. rank(i) \in Nat /\ rank(i) <= Cardinality(R)
    BY <1>1, <1>2, <2>1, FS_CardinalityType, FS_Subset
  <2>3. i \in R \cap 1 .. i
    BY <1>1
  <2>4. rank(i) # 0
    BY <1>2, <2>3, FS_EmptySet
  <2> QED
    BY <1>3, <2>2, <2>4
<1>5. \A i, j \in R : i < j => rank(i) < rank(j)
  <2> TAKE i \in R, j \in R
  <2> HAVE i < j
  <2>1. R \cap 1 .. i \subseteq R \cap 1 .. j
    BY <1>1
  <2>2. R \cap 1 .. i # R \cap 1 .. j
    <3>1. j \in R \cap 1 .. j
      BY <1>1
    <3>2. j \notin 1 .. i
      BY <1>1
    <3> QED
      BY <3>1, <3>2
  <2>3. rank(i) <= rank(j) /\ rank(i) # rank(j)
    <3>1. IsFiniteSet(R \cap 1 .. j) /\ R \cap 1 .. i \in SUBSET (R \cap 1 .. j)
      BY <1>2, <2>1
    <3> QED
      BY <2>2, <3>1, FS_Subset
  <2>4. rank(i) \in Int /\ rank(j) \in Int
    BY <1>4
  <2> HIDE DEF rank
  <2> QED
    BY <2>3, <2>4
<1>6. f \in Injection(R, 1 .. Cardinality(R))
  <2>1. \A i, j \in R : rank(i) = rank(j) => i = j
    <3> TAKE i \in R, j \in R
    <3>1. i \in Int /\ j \in Int /\ rank(i) \in Int /\ rank(j) \in Int
      BY <1>1, <1>4
    <3>2. (i < j => rank(i) < rank(j)) /\ (j < i => rank(j) < rank(i))
      BY <1>5
    <3> HIDE DEF rank
    <3> QED
      BY <3>1, <3>2
  <2>2. f \in [R -> 1 .. Cardinality(R)]
    BY <1>4
  <2>3. \A i \in R : f[i] = rank(i)
    OBVIOUS
  <2> HIDE DEF f, rank
  <2> QED
    BY <2>1, <2>2, <2>3 DEF Injection, IsInjective
<1> HIDE DEF f
<1>7. f \in Surjection(R, 1 .. Cardinality(R))
  <2>1. IsFiniteSet(1 .. Cardinality(R)) /\ Cardinality(1 .. Cardinality(R)) = Cardinality(R)
    BY <1>3, FS_Interval
  <2> QED
    BY <1>6, <2>1, FS_Injection
<1>8. 1 \in 1 .. Cardinality(R)
  BY <1>1, <1>3, FS_EmptySet
<1>9. PICK i \in R : f[i] = 1
  BY <1>7, <1>8 DEF Surjection
<1>10. rank(i) = 1
  BY <1>9 DEF f
<1>11. T \cap 1 .. i = (R \cap 1 .. i) \cup {1}
  BY <1>1
<1>12. Cardinality(T \cap 1 .. i) <= 2
  BY <1>2, <1>10, <1>11, FS_AddElement
<1> QED
  BY <1>9, <1>12

(* What a question of several words asks for: its first terms are terms,   *)
(* finitely many, and two of them when there are two to choose from.       *)
LEMMA TermFacts ==
    ASSUME NEW q \in Queries
    PROVE  /\ IsFiniteSet(GatedTerms(q)) /\ Terms(q) \subseteq GatedTerms(q)
           /\ GatedTerms(q) \subseteq AllTerms(q)
           /\ Terms(q) # {}
           /\ Cardinality(AllTerms(q)) > 1 => Cardinality(Terms(q)) >= 2
<1>1. /\ Len(q) \in Nat /\ q \in [1 .. Len(q) -> QueryWords] /\ Len(q) >= 1
      /\ \A i, j \in 1 .. Len(q) : q[i] = q[j] => i = j
  BY QueryFacts
<1> DEFINE T == TermsAt(q)
           c(i) == Cardinality(T \cap 1 .. i)
<1>2. T \subseteq 1 .. Len(q) /\ IsFiniteSet(T) /\ 1 \in T
  <2>1. T \subseteq 1 .. Len(q)
    BY <1>1 DEF TermsAt
  <2>2. 1 \in T
    BY <1>1 DEF TermsAt, IsTerm
  <2>3. IsFiniteSet(1 .. Len(q))
    BY <1>1, FS_Interval
  <2> QED
    BY <2>1, <2>2, <2>3, FS_Subset
<1>3. \A i \in T : c(i) \in Nat
  BY <1>2, FS_Intersection, FS_CardinalityType
<1>4. c(1) = 1
  <2>1. T \cap 1 .. 1 = {1}
    BY <1>2
  <2> QED
    BY <2>1, FS_Singleton
<1>5. GatedTerms(q) \subseteq AllTerms(q)
  BY DEF GatedTerms, FirstTerms, AllTerms
<1>6. Terms(q) \subseteq GatedTerms(q)
  <2>1. \A i \in T : c(i) <= MaxTerms => c(i) <= MaxPresence
    BY <1>3, RecallAssumption
  <2> QED
    BY <2>1 DEF Terms, GatedTerms, FirstTerms
<1>7. IsFiniteSet(GatedTerms(q))
  <2>1. GatedTerms(q) \subseteq QueryWords
    BY <1>1, <1>2 DEF GatedTerms, FirstTerms
  <2> QED
    BY <2>1, RecallAssumption, FS_Subset
<1>8. q[1] \in Terms(q)
  <2>1. c(1) <= MaxTerms
    BY <1>4, RecallAssumption
  <2> QED
    BY <1>2, <2>1 DEF Terms, FirstTerms
<1>9. ASSUME Cardinality(AllTerms(q)) > 1
      PROVE  Cardinality(Terms(q)) >= 2
  <2>1. \E k \in T : k # 1
    <3>1. SUFFICES ASSUME \A k \in T : k = 1 PROVE FALSE
      OBVIOUS
    <3>2. AllTerms(q) = {q[1]}
      BY <1>2, <3>1 DEF AllTerms
    <3> QED
      <4>1. Cardinality({q[1]}) = 1
        BY FS_Singleton
      <4> QED
        BY <1>9, <3>2, <4>1
  <2>2. PICK i \in T : i # 1 /\ c(i) <= 2
    BY <1>1, <1>2, <2>1, FirstTwo
  <2>3. q[i] \in Terms(q)
    <3>1. c(i) <= MaxTerms
      BY <1>3, <2>2, RecallAssumption
    <3> QED
      BY <2>2, <3>1 DEF Terms, FirstTerms
  <2>4. q[i] # q[1]
    BY <1>1, <1>2, <2>2
  <2>5. {q[1], q[i]} \subseteq Terms(q) /\ IsFiniteSet(Terms(q))
    BY <1>6, <1>7, <1>8, <2>3, FS_Subset
  <2>6. Cardinality({q[1]} \cup {q[i]}) = 2
    <3>1. IsFiniteSet({q[1]}) /\ Cardinality({q[1]}) = 1 /\ q[i] \notin {q[1]}
      BY <2>4, FS_Singleton
    <3> QED
      BY <3>1, FS_AddElement
  <2>7. {q[1]} \cup {q[i]} = {q[1], q[i]}
    OBVIOUS
  <2> QED
    BY <2>5, <2>6, <2>7, FS_Subset, FS_CardinalityType
<1> QED
  BY <1>5, <1>6, <1>7, <1>8, <1>9

(* The words of a memory that is the only one to have them are worth a     *)
(* rescue.                                                                 *)
LEMMA OnlyOnesInformative ==
    ASSUME NEW m \in AllMemories, NEW w, HasForm(m, w),
           \A n \in AllMemories \ {m} : ~HasForm(n, w)
    PROVE  Informative(w)
<1>1. {n \in AllMemories : HasForm(n, w)} = {m}
  OBVIOUS
<1>2. Frequency(w) = 1
  BY <1>1, FS_Singleton DEF Frequency
<1>3. IsFiniteSet(AllMemories)
  BY RecallAssumption, FS_Subset DEF AllMemories, Stands
<1>4. Cardinality(AllMemories) \in Nat /\ Cardinality(AllMemories) # 0
  BY <1>3, FS_CardinalityType, FS_EmptySet
<1>5. CeilPct(Cardinality(AllMemories), 5) >= 1
  BY <1>4 DEF CeilPct
<1>6. CeilPct(Cardinality(AllMemories), 5) \in Nat
  BY <1>4 DEF CeilPct
<1>7. 1 <= Rare
  <2> DEFINE few == CeilPct(Cardinality(AllMemories), 5)
  <2>1. few \in Nat /\ few >= 1
    BY <1>5, <1>6
  <2> HIDE DEF few
  <2>2. Rare = IF few > RareMinDocs THEN few ELSE RareMinDocs
    BY DEF Rare, few
  <2> QED
    BY <2>1, <2>2, RecallAssumption
<1> QED
  BY <1>2, <1>7 DEF Informative

LEMMA PlacesDomain == \A key : DOMAIN Places(key) = DOMAIN key
BY DEF Places

LEMMA KeepDomain == \A list, S : DOMAIN Keep(list, S) = DOMAIN list \cap S
BY PlacesDomain DEF Keep

(* Alone in its list, a record is its first.                               *)
LEMMA FirstAlone ==
    ASSUME NEW r, NEW key, DOMAIN key = {r}
    PROVE  Places(key)[r] = 1
<1>1. {x \in DOMAIN key \ {r} : Smaller(key[x], key[r])} = {}
  OBVIOUS
<1> QED
  BY <1>1, FS_EmptySet DEF Places

LEMMA RescueFinds ==
    ASSUME NEW q \in Queries, NEW reach \in SUBSET Stands, StrictlyFound(q, reach) = {},
           Cardinality(AllTerms(q)) > 1 \/ Len(q) = 1,
           NEW m \in reach \cap RMemories,
           \A w \in AllTerms(q) : HasForm(m, w),
           \A n \in AllMemories \ {m} : \A w \in AllTerms(q) : ~HasForm(n, w)
    PROVE  m \in DOMAIN Lexical(q, reach, TRUE).memories
<1> DEFINE rows == RelaxedFound(q, reach)
           present == Present(q, rows)
           asked == present \cap Terms(q)
           single == Len(q) = 1
           S == {r \in rows \cap RMemories : Explains(Matched(r, asked), single)}
<1>1. /\ IsFiniteSet(GatedTerms(q)) /\ Terms(q) \subseteq GatedTerms(q)
      /\ GatedTerms(q) \subseteq AllTerms(q) /\ Terms(q) # {}
      /\ Cardinality(AllTerms(q)) > 1 => Cardinality(Terms(q)) >= 2
  BY TermFacts
<1>2. m \in AllMemories
  BY DEF AllMemories
<1>3. m \in rows
  BY <1>1 DEF RelaxedFound
<1>4. present = GatedTerms(q)
  BY <1>1, <1>2 DEF Present
<1>5. GateOpen(q, present)
  <2> DEFINE g == Cardinality(GatedTerms(q))
  <2>1. g \in Nat
    BY <1>1, FS_CardinalityType
  <2>2. MinPresentPct \in Nat /\ MinPresentPct <= 100
    BY RecallAssumption
  <2> HIDE DEF g
  <2>3. g * 100 >= MinPresentPct * g
    BY <2>1, <2>2
  <2> QED
    BY <1>4, <2>3 DEF GateOpen, g
<1>6. asked = Terms(q)
  BY <1>1, <1>4
<1>7. Explains(Matched(m, asked), single)
  <2>1. Matched(m, asked) = Terms(q)
    BY <1>1, <1>6 DEF Matched
  <2>2. Cardinality(Terms(q)) >= IF single THEN 1 ELSE 2
    <3>1. IsFiniteSet(Terms(q))
      BY <1>1, FS_Subset
    <3>2. Cardinality(Terms(q)) \in Nat /\ Cardinality(Terms(q)) # 0
      BY <1>1, <3>1, FS_CardinalityType, FS_EmptySet
    <3> QED
      BY <1>1, <3>2
  <2>3. \A w \in Terms(q) : Informative(w)
    BY <1>1, <1>2, OnlyOnesInformative
  <2> QED
    BY <1>1, <2>1, <2>2, <2>3 DEF Explains
<1>8. S = {m}
  <2>1. ASSUME NEW n \in S PROVE n = m
    <3>1. SUFFICES ASSUME n # m PROVE FALSE
      OBVIOUS
    <3>2. n \in AllMemories
      BY <2>1 DEF AllMemories, RelaxedFound
    <3>3. Matched(n, asked) = {}
      BY <1>1, <1>6, <3>1, <3>2 DEF Matched
    <3> QED
      BY <2>1, <3>3 DEF Explains
  <2> HIDE DEF rows, asked, single
  <2> QED
    BY <1>3, <1>7, <2>1
<1>9. m \in DOMAIN Rescued(rows \cap RMemories, single, asked)
  <2> HIDE DEF rows, asked, single, S
  <2> DEFINE explained == ByWeight(S, asked)
  <2>1. DOMAIN explained = {m} /\ explained[m] = 1
    <3> DEFINE key == [r \in S |-> <<-Weight(r, asked),
                          -Cardinality({w \in Matched(r, asked) : Informative(w)}),
                          -Cardinality(Matched(r, asked)), FtsRank(r), IdOf(r)>>]
    <3>1. explained = Places(key) /\ DOMAIN key = S
      BY DEF ByWeight
    <3> HIDE DEF key
    <3> HIDE DEF explained
    <3> QED
      BY <1>8, <3>1, PlacesDomain, FirstAlone
  <2>2. Rescued(rows \cap RMemories, single, asked) = Restrict(explained, Firsts(explained, MaxRescued))
    BY DEF Rescued, S
  <2> HIDE DEF explained
  <2>3. m \in Firsts(explained, MaxRescued)
    BY <2>1, RecallAssumption DEF Firsts
  <2> QED
    BY <2>2, <2>3 DEF Restrict
<1>10. Lexical(q, reach, TRUE) = RescuedLayers(q, rows, present, asked)
  BY DEF Lexical
<1>11. RescuedLayers(q, rows, present, asked).memories = Rescued(rows \cap RMemories, single, asked)
  <2> HIDE DEF rows, asked, present
  <2> QED
    BY <1>5 DEF RescuedLayers, Layer, single
<1> QED
  BY <1>9, <1>10, <1>11

(* What the words found of the memories stays in the answer: the quotas    *)
(* and the fusion leave no memory out.                                     *)
LEMMA MemoriesStay ==
    ASSUME NEW close, NEW lex, NEW semantic, NEW m \in RMemories, m \in DOMAIN lex.memories
    PROVE  m \in DOMAIN Hits(close, lex, semantic)
<1> DEFINE kept == Admitted(close, lex, semantic)
           meant == Keep(ByMeaning(close), kept)
<1>1. m \in kept
  BY DEF Admitted, Records
<1>2. m \in DOMAIN Fused(lex, meant)
  <2> HIDE DEF meant
  <2> DEFINE key == [r \in Listed(lex) \cup DOMAIN meant |->
                        <<-Score(lex, meant, r), -Salience(r), -IdOf(r)>>]
  <2>1. Fused(lex, meant) = Places(key) /\ DOMAIN key = Listed(lex) \cup DOMAIN meant
    BY DEF Fused
  <2> HIDE DEF key
  <2> QED
    BY <2>1, PlacesDomain DEF Listed
<1>3. Hits(close, lex, semantic) = Keep(Fused(lex, meant), kept)
  BY DEF Hits, Fuse
<1> HIDE DEF kept, meant
<1> QED
  BY ZenonT(30), <1>1, <1>2, <1>3, KeepDomain

(* RescueReaches of Retrieval, for any records, vectors, caps and queries. *)
THEOREM RescueReachesHolds == RecallSpec => []RescueReaches
<1>1. RecallInit => RescueReaches
  BY DEF RecallInit, NoAnswer, RescueReaches
<1>2. RescueReaches /\ [RecallNext]_recallVars => RescueReaches'
  <2> SUFFICES ASSUME RescueReaches, [RecallNext]_recallVars
               PROVE  RescueReaches'
    OBVIOUS
  <2> DEFINE Reached(q, reach, hits) ==
        (/\ StrictlyFound(q, reach) = {} /\ ~Comparable(reach \cap RMemories)
         /\ Cardinality(AllTerms(q)) > 1 \/ Len(q) = 1) =>
            \A m \in reach \cap RMemories :
                (/\ \A w \in AllTerms(q) : HasForm(m, w)
                 /\ \A n \in AllMemories \ {m} : \A w \in AllTerms(q) : ~HasForm(n, w))
                  => m \in DOMAIN hits
  <2>1. ASSUME NEW how, NEW q \in Queries, NEW scoped \in BOOLEAN, NEW hits,
               Answer(how, q, scoped, hits), Reached(q, InReach(scoped), hits)
        PROVE  RescueReaches'
    <3>1. /\ corpus' = corpus /\ answer'.q = q /\ answer'.scoped = scoped /\ answer'.hits = hits
      BY <2>1 DEF Answer
    <3> QED
      BY <2>1, <3>1 DEF RescueReaches, InReach, Stands, StrictlyFound, Comparable, AllMemories, HasForm
  <2>2. ASSUME NEW q \in Queries, NEW scoped \in BOOLEAN, NEW heard \in BOOLEAN
        PROVE  Reached(q, InReach(scoped), HybridHits(q, InReach(scoped), heard))
    <3> DEFINE reach == InReach(scoped)
    <3>1. reach \in SUBSET Stands
      BY DEF InReach
    <3> HIDE DEF reach
    <3>2. ASSUME ~Comparable(reach \cap RMemories) PROVE ~MemoryVectors(reach, heard) = TRUE
      BY <3>2 DEF MemoryVectors
    <3>3. ASSUME ~Comparable(reach \cap RMemories)
          PROVE  HybridHits(q, reach, heard) =
                   Hits(CloseLayers(reach, heard), Lexical(q, reach, TRUE), heard /\ Comparable(reach))
      BY <3>2, <3>3 DEF HybridHits
    <3>4. Reached(q, reach, HybridHits(q, reach, heard))
      BY <3>1, <3>3, RescueFinds, MemoriesStay
    <3> QED
      BY <3>4 DEF reach
  <2>3. ASSUME NEW q \in Queries, NEW scoped \in BOOLEAN
        PROVE  Reached(q, InReach(scoped), LexicalHits(q, InReach(scoped)))
    <3> DEFINE reach == InReach(scoped)
    <3>1. reach \in SUBSET Stands
      BY DEF InReach
    <3> HIDE DEF reach
    <3>2. LexicalHits(q, reach) = Hits(NothingFound, Lexical(q, reach, TRUE), FALSE)
      BY DEF LexicalHits
    <3>3. Reached(q, reach, LexicalHits(q, reach))
      BY <3>1, <3>2, RescueFinds, MemoriesStay
    <3> QED
      BY <3>3 DEF reach
  <2> HIDE DEF Reached
  <2>4. CASE Settle
    BY <2>4 DEF Settle, NoAnswer, RescueReaches
  <2>5. ASSUME NEW r, NEW record, Change(r, record) PROVE RescueReaches'
    BY <2>5 DEF Change, NoAnswer, RescueReaches
  <2>6. CASE UNCHANGED recallVars
    BY <2>6 DEF recallVars, RescueReaches, InReach, Stands, StrictlyFound, Comparable, AllMemories, HasForm
  <2>7. CASE \E q \in Queries, scoped \in BOOLEAN :
                RecallByWords(q, scoped) \/ \E heard \in BOOLEAN : RecallHybrid(q, scoped, heard)
    BY <2>1, <2>2, <2>3, <2>7 DEF RecallByWords, RecallHybrid
  <2>8. CASE \E r \in Records : \/ \E W \in SUBSET QueryWords : WriteRecord(r, W)
                                \/ \E cosine \in Cosines : IndexRecord(r, cosine)
                                \/ DeleteRecord(r)
    BY <2>5, <2>8 DEF WriteRecord, IndexRecord, DeleteRecord
  <2> QED
    BY <2>4, <2>6, <2>7, <2>8 DEF RecallNext
<1> QED
  BY <1>1, <1>2, PTL DEF RecallSpec

==============================================================================
