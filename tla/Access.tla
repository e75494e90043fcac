------------------------------- MODULE Access -------------------------------
(***************************************************************************)
(* Access codes, sessions and the usage that is attributed to a code:      *)
(* the routes of src/src/app.ts, the gates of src/src/auth and the one     *)
(* Registry object of src/src/registry.                                    *)
(*                                                                         *)
(* The Worker keeps nothing between requests.  A handler runs in steps, one *)
(* per await; the Registry's calls are atomic (its storage is synchronous), *)
(* and other requests, the jobs and the clock go on between them.          *)
(***************************************************************************)
EXTENDS Integers, Sequences, FiniteSets

CONSTANTS
  Codes,       \* the strings generateCode may return
  Browsers,    \* each with its cookie jar
  Requests,    \* requests in flight at once
  Tokens,      \* identities of signed tokens, used again when nobody holds one
  Jobs,
  Admin,       \* ADMIN_SUBJECT
  Nobody,      \* no code, no subject, no token, no job
  MaxEvents    \* the log keeps its first MaxEvents events

ASSUME AccessAssumption ==
  /\ MaxEvents \in Nat
  /\ Nobody \notin Codes \cup Tokens \cup Jobs \cup {Admin}
  /\ Admin \notin Codes   \* ten characters of the alphabet are never "admin"
  /\ IsFiniteSet(Tokens) /\ IsFiniteSet(Requests) /\ Tokens \cap Requests = {}

VARIABLES
  codes,     \* the table codes, by code
  events,    \* the table usage_events
  token,     \* every signed token
  cookie,    \* the two cookies of every browser
  request,   \* the handlers that run
  job        \* what a job has of the session that started it

registry == <<codes, events>>
vars == <<registry, token, cookie, request, job>>

-----------------------------------------------------------------------------
(***************************************************************************)
(* The Registry                                                            *)
(***************************************************************************)
CodeState == {"unknown", "active", "revoked"}
EventTypes == {"session_start", "job_started", "job_completed"}
Event == [code : Codes, type : EventTypes, job : Jobs \cup {Nobody}]

\* What the check of validateCode would be without the revocation.
IsCodeKnown(code) == codes[code] # "unknown"

IsCodeActive(code) == codes[code] = "active"

\* No row has this code: the loop stops at the first such draw.  When every
\* draw collides it throws, and nothing changes.
CreateCode ==
  \E code \in Codes :
    /\ codes[code] = "unknown"
    /\ codes' = [codes EXCEPT ![code] = "active"]

\* A code without a row is answered with ok: false; one revoked already keeps
\* its time.
RevokeCode(code) ==
  codes' = [codes EXCEPT ![code] = IF @ = "active" THEN "revoked" ELSE @]

RecordEvent(code, type, of) ==
  events' = IF Len(events) < MaxEvents
              THEN Append(events, [code |-> code, type |-> type, job |-> of])
              ELSE events

\* The rows of a code, by their id, which is their order in the log.
CodeTimeline(code) == {n \in 1 .. Len(events) : events[n].code = code}

Count(code, type) == Cardinality({n \in CodeTimeline(code) : events[n].type = type})

AggregateUsage(code) ==
  [redeemed |-> Count(code, "session_start") > 0,
   sessions |-> Count(code, "session_start"),
   jobs     |-> Count(code, "job_started")]

-----------------------------------------------------------------------------
(***************************************************************************)
(* Tokens and gates                                                        *)
(***************************************************************************)
Token == [sub : Codes \cup {Admin, Nobody}, valid : BOOLEAN]

Expired == [sub |-> Nobody, valid |-> FALSE]

Valid(t) == t # Nobody /\ token[t].valid

\* The access code of a valid session cookie, or Nobody.
SessionCode(t) == IF Valid(t) /\ token[t].sub # Admin THEN token[t].sub ELSE Nobody

\* The middleware requireSession and requireAdmin.
PassesSession(t) == SessionCode(t) # Nobody
PassesAdmin(t) == Valid(t) /\ token[t].sub = Admin

HeldByBrowser(t) == \E b \in Browsers : t \in {cookie[b].session, cookie[b].admin}
Held(t) == HeldByBrowser(t) \/ \E r \in Requests : request[r].token = t

\* The new token, signed now, is in the answer of request r.
SignSession(r, subject) ==
  \E t \in Tokens :
    /\ ~Held(t)
    /\ token' = [token EXCEPT ![t] = [sub |-> subject, valid |-> TRUE]]
    /\ request' = [request EXCEPT ![r].token = t, ![r].step = "answer"]

\* now >= exp
Expires(t) ==
  /\ token[t].valid
  /\ token' = [token EXCEPT ![t] = Expired]
  /\ UNCHANGED <<registry, cookie, request, job>>

-----------------------------------------------------------------------------
(***************************************************************************)
(* Handlers                                                                *)
(***************************************************************************)
Kinds == {"none", "auth", "adminAuth", "extract", "create", "revoke"}
Steps == {"none", "gate", "validate", "record", "sign", "answer",
          "preflight", "call"}
Request == [kind : Kinds, step : Steps, by : Browsers \cup {Nobody},
            code : Codes \cup {Nobody}, token : Tokens \cup {Nobody}]

NoRequest == [kind |-> "none", step |-> "none", by |-> Nobody,
              code |-> Nobody, token |-> Nobody]

Over(r) == request' = [request EXCEPT ![r] = NoRequest]
GoesTo(r, step) == request' = [request EXCEPT ![r].step = step]
At(r, kind, step) == request[r].kind = kind /\ request[r].step = step

Init ==
  /\ codes = [code \in Codes |-> "unknown"]
  /\ events = <<>>
  /\ token = [t \in Tokens |-> Expired]
  /\ cookie = [b \in Browsers |-> [session |-> Nobody, admin |-> Nobody]]
  /\ request = [r \in Requests |-> NoRequest]
  /\ job = [j \in Jobs |-> [step |-> "none", code |-> Nobody, session |-> Nobody]]

Send(r) ==
  /\ request[r] = NoRequest
  /\ \E b \in Browsers :
       \/ \E code \in Codes :
            request' = [request EXCEPT ![r] =
              [kind |-> "auth", step |-> "validate", by |-> b, code |-> code, token |-> Nobody]]
       \/ request' = [request EXCEPT ![r] =
            [kind |-> "adminAuth", step |-> "sign", by |-> b, code |-> Nobody, token |-> Nobody]]
       \/ request' = [request EXCEPT ![r] =
            [kind |-> "extract", step |-> "gate", by |-> b, code |-> Nobody,
             token |-> cookie[b].session]]
       \/ request' = [request EXCEPT ![r] =
            [kind |-> "create", step |-> "gate", by |-> b, code |-> Nobody,
             token |-> cookie[b].admin]]
       \/ \E code \in Codes :
            request' = [request EXCEPT ![r] =
              [kind |-> "revoke", step |-> "gate", by |-> b, code |-> code,
               token |-> cookie[b].admin]]
  /\ UNCHANGED <<registry, token, cookie, job>>

\* POST /auth: the first call of the Registry, 401 when the code is not active.
Validate(r) ==
  /\ At(r, "auth", "validate")
  /\ IF IsCodeActive(request[r].code) THEN GoesTo(r, "record") ELSE Over(r)
  /\ UNCHANGED <<registry, token, cookie, job>>

\* What it would be if the call's failure were swallowed, as the job does.
RecordSessionBestEffort(r) ==
  /\ At(r, "auth", "record")
  /\ (RecordEvent(request[r].code, "session_start", Nobody) \/ UNCHANGED events)
  /\ SignSession(r, request[r].code)
  /\ UNCHANGED <<codes, cookie, job>>

\* The second call.  It may fail, before or after its effect: then the answer
\* is a 500 and no session is signed.
RecordSession(r) ==
  /\ At(r, "auth", "record")
  /\ \/ /\ RecordEvent(request[r].code, "session_start", Nobody)
        /\ SignSession(r, request[r].code)
     \/ /\ RecordEvent(request[r].code, "session_start", Nobody) \/ UNCHANGED events
        /\ Over(r)
        /\ UNCHANGED token
  /\ UNCHANGED <<codes, cookie, job>>

\* POST /admin/auth: the right key gives a token, another a 401.
SignAdmin(r) ==
  /\ At(r, "adminAuth", "sign")
  /\ \/ SignSession(r, Admin)
     \/ /\ Over(r)
        /\ UNCHANGED token
  /\ UNCHANGED <<registry, cookie, job>>

\* Set-Cookie reaches the browser, or the answer is lost.
Answer(r) ==
  /\ request[r].step = "answer"
  /\ LET name == IF request[r].kind = "auth" THEN "session" ELSE "admin" IN
     cookie' \in {cookie, [cookie EXCEPT ![request[r].by][name] = request[r].token]}
  /\ Over(r)
  /\ UNCHANGED <<registry, token, job>>

\* POST /logout and POST /admin/logout clear a cookie; the token stays good.
Logout(b) ==
  /\ \E name \in {"session", "admin"} : cookie' = [cookie EXCEPT ![b][name] = Nobody]
  /\ UNCHANGED <<registry, token, request, job>>

\* The middleware of the gated routes reads the token that came along.  Whose
\* it is at this moment is kept for the properties.
Gate(r) ==
  /\ request[r].step = "gate"
  /\ IF request[r].kind = "extract"
       THEN IF PassesSession(request[r].token)
              THEN request' = [request EXCEPT ![r].code = token[request[r].token].sub,
                                              ![r].step = "preflight"]
              ELSE Over(r)
       ELSE IF PassesAdmin(request[r].token) THEN GoesTo(r, "call") ELSE Over(r)
  /\ UNCHANGED <<registry, token, cookie, job>>

AdminCall(r) ==
  /\ request[r].step = "call"
  /\ \/ request[r].kind = "create" /\ CreateCode
     \/ request[r].kind = "create" /\ UNCHANGED codes   \* every draw collides
     \/ request[r].kind = "revoke" /\ RevokeCode(request[r].code)
  /\ Over(r)
  /\ UNCHANGED <<events, token, cookie, job>>

\* POST /extract reads the index of the source over the network, which takes
\* its time and may fail.
PreflightFails(r) ==
  /\ At(r, "extract", "preflight")
  /\ Over(r)
  /\ UNCHANGED <<registry, token, cookie, job>>

\* Then the cookie is verified a second time, for its code.  session is whose
\* cookie the gate let through; only the properties read it.
Start(r) ==
  /\ At(r, "extract", "preflight")
  /\ \E j \in Jobs :
       /\ job[j].step = "none"
       /\ job' = [job EXCEPT ![j] = [step |-> "indexing",
                                     code |-> SessionCode(request[r].token),
                                     session |-> request[r].code]]
  /\ Over(r)
  /\ UNCHANGED <<registry, token, cookie>>

-----------------------------------------------------------------------------
(***************************************************************************)
(* The job, as far as usage goes                                           *)
(***************************************************************************)
\* What it would be under the name of whoever is known.
RecordUsageOfAnyone(j, type) ==
  \/ \E code \in Codes : codes[code] # "unknown" /\ RecordEvent(code, type, j)
  \/ UNCHANGED events

\* Best effort: a failure is swallowed, and without a code nothing is sent.
RecordUsage(j, type) ==
  \/ job[j].code # Nobody /\ RecordEvent(job[j].code, type, j)
  \/ UNCHANGED events

JobStep == {"none", "indexing", "extracting", "over"}
Job == [step : JobStep, code : Codes \cup {Nobody}, session : Codes \cup {Nobody}]

JobStarted(j) ==
  /\ job[j].step = "indexing"
  /\ RecordUsage(j, "job_started")
  /\ job' = [job EXCEPT ![j].step = "extracting"]
  /\ UNCHANGED <<codes, token, cookie, request>>

JobCompleted(j) ==
  /\ job[j].step = "extracting"
  /\ RecordUsage(j, "job_completed")
  /\ job' = [job EXCEPT ![j].step = "over"]
  /\ UNCHANGED <<codes, token, cookie, request>>

JobFails(j) ==
  /\ job[j].step \in {"indexing", "extracting"}
  /\ job' = [job EXCEPT ![j].step = "over"]
  /\ UNCHANGED <<registry, token, cookie, request>>

-----------------------------------------------------------------------------
Handler(r) ==
  \/ Validate(r) \/ RecordSession(r) \/ SignAdmin(r) \/ Answer(r)
  \/ Gate(r) \/ AdminCall(r) \/ PreflightFails(r) \/ Start(r)

Next ==
  \/ \E r \in Requests : Send(r) \/ Handler(r)
  \/ \E b \in Browsers : Logout(b)
  \/ \E t \in Tokens : Expires(t)
  \/ \E j \in Jobs : JobStarted(j) \/ JobCompleted(j) \/ JobFails(j)

Spec == Init /\ [][Next]_vars

-----------------------------------------------------------------------------
AccessTypeOK ==
  /\ codes \in [Codes -> CodeState]
  /\ events \in Seq(Event) /\ Len(events) <= MaxEvents
  /\ token \in [Tokens -> Token]
  /\ cookie \in [Browsers -> [session : Tokens \cup {Nobody}, admin : Tokens \cup {Nobody}]]
  /\ request \in [Requests -> Request]
  /\ job \in [Jobs -> Job]

\* Every session that still passes the gate is in the numbers the panel shows
\* for its code ("aggregated from real usage events", README.md:158): the event
\* is recorded before the token is signed, or there is no token (app.ts:104).
EverySessionCounted ==
  Len(events) < MaxEvents =>
    \A code \in Codes :
      Cardinality({t \in Tokens : SessionCode(t) = code /\ Held(t)})
        <= AggregateUsage(code).sessions

\* A code's timeline tells a story that happened: a job of it is started once
\* at most and completed once at most, not before it started, by a session of
\* this very code that had started before (job.ts:380, job.ts:415, app.ts:104).
TimelineIsAStory ==
  \A code \in Codes : \A n \in CodeTimeline(code) : events[n].type # "session_start" =>
    LET before == {m \in CodeTimeline(code) : m < n} IN
    /\ job[events[n].job].session = code
    /\ \E m \in before : events[m].type = "session_start"
    /\ \A m \in before : events[m].job = events[n].job =>
         /\ events[m].type = "job_started"
         /\ events[n].type = "job_completed"

\* Types; and the log of usage says what happened: no session is missing in it
\* and no job in it is somebody else's (app.ts:104, job.ts:435).
UsageIsTrue == AccessTypeOK /\ EverySessionCounted /\ TimelineIsAStory

\* What a code still opens: the valid sessions somebody holds, and the sign-ins
\* whose code was checked already.
Ways(code) == {t \in Tokens : Held(t) /\ SessionCode(t) = code}
                \cup {r \in Requests : At(r, "auth", "record") /\ request[r].code = code}

\* "Revoke a code (it can no longer sign in; existing sessions expire on TTL)"
\* (README.md:159): from then on it stays revoked, whatever is created after
\* (registry.ts:100), and its ways in only become fewer, a sign-in that was
\* under way included (app.ts:100).
RevokedAccessDrains ==
  [][\A code \in Codes : codes[code] = "revoked" =>
       /\ codes'[code] = "revoked"
       /\ Cardinality(Ways(code)') <= Cardinality(Ways(code))]_vars

-----------------------------------------------------------------------------
(* Said of the program and not so: the README has the behaviours.          *)

\* "Attribute the job to the code that started this session" (app.ts:210).
EveryJobAttributed ==
  \A j \in Jobs : job[j].step # "none" => job[j].code = job[j].session

=============================================================================
