--------------------------------- MODULE Door ---------------------------------
(***************************************************************************)
(* The HTTP server before any handler: the order of its checks, the form   *)
(* that signs a person in, the session it leaves, and bodies that take     *)
(* their time to arrive.  A restart may bring another password and another *)
(* length of session; a request in flight dies with the process.           *)
(*                                                                         *)
(* A request is what the checks tell apart of it.  What its handler does   *)
(* is in other modules.                                                    *)
(***************************************************************************)
EXTENDS Integers, FiniteSets, Sequences, SequencesExt

CONSTANTS
    Secrets,      \* credentials
    Hours,        \* lengths of session, MISMEM_SESSION_HOURS
    MaxAttempts, WindowLen,   \* MAX_ATTEMPTS, WINDOW_MS
    MaxHour, MaxFailed, MaxRestarts, MaxReading   \* bounds

ASSUME DoorAssumption == Hours \subseteq Nat /\ WindowLen \in Nat /\ MaxAttempts \in Nat

VARIABLES
    auth,      \* loadAuth: the credentials, or Open
    hours,     \* sessionTtlMs of this process
    hour,      \* the clock
    failures,  \* LoginAttempts.failures: which of failed it still holds
    cookie,    \* the session cookie of the browser, or NoCookie
    reading,   \* reading: the requests whose bodies are being read
    response,  \* response: the last answer
    restarts,
    failed     \* failed: the hour of every failed sign-in since the last good one (history)

doorVars == <<auth, hours, hour, failures, cookie, reading, response, restarts, failed>>

Open == "open"
NoCookie == [until |-> -1, key |-> Open, at |-> -1, lasts |-> 0]
Status(code) == [status |-> code, by |-> "none", cookie |-> NoCookie, at |-> hour]

DoorInit ==
    /\ auth \in Secrets \cup {Open}
    /\ hours \in Hours
    /\ hour = 0
    /\ failures = {}
    /\ cookie = NoCookie
    /\ reading = <<>>
    /\ response = [status |-> 0, by |-> "none", cookie |-> NoCookie, at |-> 0]
    /\ restarts = 0
    /\ failed = <<>>

Answering(code) == response' = Status(code) /\ UNCHANGED <<auth, hours, hour, restarts>>

Reading(request) ==
    /\ Len(reading) < MaxReading
    /\ reading' = Append(reading, request)
    /\ UNCHANGED <<auth, hours, hour, response, restarts>>

------------------------------------------------------------------------------
(* session.ts: the signature is keyed with the credentials of today.       *)

Issued == [until |-> hour + hours, key |-> auth, at |-> hour, lasts |-> hours]

(* Mutant: the hour it ends still counts.                                  *)
VerifiedThrough(c) == auth # Open /\ c.key = auth /\ c.until >= hour

Verified(c) == auth # Open /\ c.key = auth /\ c.until > hour

(* checkBasicAuth (basic: the header carries the credentials), or cookie.  *)
BasicAuth(basic) == auth = Open \/ basic
SignedIn(basic) == BasicAuth(basic) \/ Verified(cookie)

------------------------------------------------------------------------------
(* login.ts.                                                               *)

(* Mutant: old failures are not pruned.                                    *)
Unpruned == failures

Recent == {i \in failures : hour - failed[i] < WindowLen}

Failing ==
    /\ failures' = failures \cup {Len(failed) + 1}
    /\ failed' = Append(failed, hour)

(* POST /login: blocked before a byte of the body is read.                 *)
SubmitForm ==
    /\ auth # Open /\ Len(failed) < MaxFailed
    /\ failures' = Recent
    /\ IF Cardinality(Recent) >= MaxAttempts
       THEN Answering(429) /\ UNCHANGED reading
       ELSE Reading("login")
    /\ UNCHANGED <<cookie, failed>>

(* What a body holds is seen when it is whole, or too large.               *)
FormRead(i, fits, secret) ==
    /\ reading[i] = "login"
    /\ IF fits /\ secret = auth
       THEN failures' = {} /\ failed' = <<>> /\ cookie' = Issued
       ELSE Failing /\ UNCHANGED cookie
    /\ reading' = RemoveAt(reading, i)
    /\ Answering(302)

(* /logout expires the cookie; nothing is kept of it on the server.        *)
SignOut ==
    /\ cookie' = NoCookie
    /\ Answering(302)
    /\ UNCHANGED <<failures, reading, failed>>

------------------------------------------------------------------------------
(* routes.ts.                                                              *)

(* hostAllowed: without credentials only the local names.                  *)
HostAllowed(local) == auth # Open \/ local

(* GET of the viewer or of its API.                                        *)
Visit(local, basic) ==
    /\ IF ~HostAllowed(local) THEN Answering(403)
       ELSE IF ~SignedIn(basic) THEN Answering(401)   \* or 302 to the form
       ELSE /\ response' = [Status(200) EXCEPT !.by = IF BasicAuth(basic) THEN "basic" ELSE "cookie", !.cookie = cookie]
            /\ UNCHANGED <<auth, hours, hour, restarts>>
    /\ UNCHANGED <<failures, cookie, reading, failed>>

(* POST of the API: signed in, writeGuard, and then the body.  POST of     *)
(* /mcp: Basic alone, the type, and then the body.                         *)
Post(route, local, basic, kind) ==
    LET refusal ==
          IF ~HostAllowed(local) THEN 403
          ELSE IF route = "mcp" /\ ~BasicAuth(basic) THEN 401
          ELSE IF route = "api" /\ ~SignedIn(basic) THEN 401
          ELSE IF kind = "not JSON" THEN 415
          ELSE IF route = "api" /\ kind = "from elsewhere" THEN 403
          ELSE IF kind = "declared too large" THEN 413
          ELSE 0 IN
    /\ IF refusal # 0 THEN Answering(refusal) /\ UNCHANGED reading
       ELSE Reading("post")
    /\ UNCHANGED <<failures, cookie, failed>>

(* readJsonBody ends: cut (413), unreadable (400), or whole and handled.   *)
BodyRead(i, code) ==
    /\ reading[i] = "post"
    /\ reading' = RemoveAt(reading, i)
    /\ Answering(code)
    /\ UNCHANGED <<failures, cookie, failed>>

------------------------------------------------------------------------------
(* A restart, with other credentials or none, forgets the attempts.        *)
RestartServer(secret, length) ==
    /\ restarts < MaxRestarts
    /\ restarts' = restarts + 1
    /\ auth' = secret /\ hours' = length
    /\ failures' = {} /\ failed' = <<>>
    /\ reading' = <<>>
    /\ response' = Status(0)
    /\ UNCHANGED <<hour, cookie>>

AnHourPasses ==
    /\ hour < MaxHour
    /\ hour' = hour + 1
    /\ UNCHANGED <<auth, hours, failures, cookie, reading, response, restarts, failed>>

(* A header is told apart only where a check reads it.                     *)
Matters(read) == IF read THEN BOOLEAN ELSE {FALSE}

DoorNext ==
    \/ SubmitForm \/ SignOut \/ AnHourPasses
    \/ \E i \in DOMAIN reading :
          \/ \E fits \in BOOLEAN, secret \in Secrets : FormRead(i, fits, secret)
          \/ \E code \in {200, 400, 413} : BodyRead(i, code)
    \/ \E local \in Matters(auth = Open), basic \in Matters(auth # Open) :
          \/ Visit(local, basic)
          \/ \E route \in {"api", "mcp"}, kind \in {"not JSON", "from elsewhere", "declared too large", "own"} :
                Post(route, local, basic, kind)
    \/ \E secret \in Secrets \cup {Open}, length \in Hours : RestartServer(secret, length)

DoorSpec == DoorInit /\ [][DoorNext]_doorVars

------------------------------------------------------------------------------
(* A request that was let in by its session had a session that was issued  *)
(* under the credentials of now and had not lasted its hours, whatever     *)
(* restarts, rotations and lengths came between (session.ts:18, "rotating  *)
(* the password invalidates every live session").                          *)
SessionsEnd ==
    response.by = "cookie" =>
        response.cookie.key = auth /\ response.at < response.cookie.at + response.cookie.lasts

(* A person is turned away only while that many sign-ins have failed       *)
(* within the window since the last good one.                              *)
LockoutEnds ==
    response.status = 429 =>
        Cardinality({i \in DOMAIN failed : response.at - failed[i] < WindowLen}) >= MaxAttempts

(* Who may come in, and who may not, ends when it should.                  *)
TheDoorOpensAgain == SessionsEnd /\ LockoutEnds

===============================================================================
