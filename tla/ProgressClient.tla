--------------------------- MODULE ProgressClient ---------------------------
(***************************************************************************)
(* The demo page's live tracking (src/src/ui.ts) against the job's side of *)
(* it (report, snapshot, broadcasts of src/src/job.ts): a WebSocket that   *)
(* may drop, a poll every two seconds, a countdown, and a stored job id    *)
(* that a reload goes on with, until its user signs out.                   *)
(*                                                                         *)
(* The page's handlers interleave at their awaits; answers arrive in any   *)
(* order.  A job is a number; 0 stands for none.                           *)
(***************************************************************************)
EXTENDS Integers, Sequences, FiniteSets

CONSTANTS
  MaxJobs,      \* how many jobs the user may extract
  MaxDone,      \* how far a job's count of settled files goes
  MaxPolls,     \* polls in flight at once
  MaxReloads, MaxDrops, MaxLost   \* bounds of what the environment does

ASSUME ClientAssumption ==
  /\ {MaxJobs, MaxDone, MaxPolls} \subseteq Nat \ {0}
  /\ {MaxReloads, MaxDrops, MaxLost} \subseteq Nat

Jobs == 1 .. MaxJobs
JobOrNone == 0 .. MaxJobs

VARIABLES
  \* the jobs
  server,
  \* on the way
  ws,            \* the page's WebSocket with the messages under way
  polls,         \* answers to polls
  listings,      \* onFinished, waiting for the list of the files
  extracting,    \* the job that POST /extract has started
  reconnecting,  \* the answer reconnect waits for
  \* the page
  currentJob, stored, pollTimer,
  expiresAt,     \* the job whose expiry is shown, or 0 for null
  countdownTimer,
  panel,         \* the job and status last rendered
  browser,       \* the job whose end the file browser was opened for
  files,         \* the job whose files are listed in it
  \* the session
  gate,          \* the page asks for the access code, and shows nothing else
  leaving,       \* Sign out waits for the answer to /logout
  left,          \* the jobs this page followed when its user signed out
  loads, drops, lost   \* counted up to their bounds

visit == <<gate, leaving, left>>
page == <<currentJob, stored, pollTimer, expiresAt, countdownTimer, panel, browser, files, visit>>
wires == <<ws, polls, listings, extracting, reconnecting>>
bounds == <<loads, drops, lost>>
vars == <<server, wires, page, bounds>>

-----------------------------------------------------------------------------
Status == {"running", "completed", "failed"}
Terminal(status) == status \in {"completed", "failed"}

(* What report() and the snapshot say of a job; expires: expiresAt is set. *)
Report == [job : JobOrNone, status : Status \union {"none"}, done : 0 .. MaxDone,
           expires : BOOLEAN]
Nothing == [job |-> 0, status |-> "none", done |-> 0, expires |-> FALSE]
ReportOf(j) == [job |-> j, status |-> server[j].status, done |-> server[j].done,
                expires |-> server[j].expires]

Message == [type : {"snapshot", "file", "done"}, body : Report]
NoSocket == [job |-> 0, open |-> FALSE, queue |-> <<>>]

Init ==
  /\ server = [j \in Jobs |-> [status |-> "none", done |-> 0, expires |-> FALSE, over |-> FALSE]]
  /\ ws = NoSocket
  /\ polls = {} /\ listings = {} /\ extracting = 0 /\ reconnecting = Nothing
  /\ currentJob = 0 /\ stored = 0 /\ pollTimer = 0
  /\ expiresAt = 0 /\ countdownTimer = FALSE
  /\ panel = Nothing /\ browser = 0 /\ files = 0
  /\ gate = TRUE /\ leaving = FALSE /\ left = {}
  /\ loads = 0 /\ drops = 0 /\ lost = 0

-----------------------------------------------------------------------------
(* The job.                                                                *)
\* broadcast: to the socket, if it is connected to this job.
Broadcast(j, type) ==
  ws' = IF ws.job = j /\ ws.open
        THEN [ws EXCEPT !.queue = Append(@, [type |-> type, body |-> ReportOf(j)'])]
        ELSE ws

Unsettled(j) == server[j].done < MaxDone

JobGoesOn(j) ==
  /\ server[j].status = "running" /\ Unsettled(j)
  /\ server' = [server EXCEPT ![j].done = @ + 1]
  /\ Broadcast(j, "file")
  /\ UNCHANGED <<polls, listings, extracting, reconnecting, page, bounds>>

\* A job of the demo bucket that completes gets its expiry.
JobEnds(j) ==
  /\ server[j].status = "running"
  /\ \/ /\ server[j].done = MaxDone
        /\ \E demo \in BOOLEAN :
             server' = [server EXCEPT ![j].status = "completed", ![j].expires = demo]
     \/ server' = [server EXCEPT ![j].status = "failed"]
  /\ Broadcast(j, "done")
  /\ UNCHANGED <<polls, listings, extracting, reconnecting, page, bounds>>

JobExpires(j) ==
  /\ server[j].expires /\ ~server[j].over
  /\ server' = [server EXCEPT ![j].over = TRUE]
  /\ UNCHANGED <<wires, page, bounds>>

\* The upgrade reaches the job, which greets the page with a snapshot.
SocketConnects ==
  /\ ws.job # 0 /\ ~ws.open
  /\ ws' = [ws EXCEPT !.open = TRUE,
                      !.queue = <<[type |-> "snapshot", body |-> ReportOf(ws.job)]>>]
  /\ UNCHANGED <<server, polls, listings, extracting, reconnecting, page, bounds>>

\* onclose does nothing: the socket stays away.
SocketDrops ==
  /\ ws.job # 0 /\ drops < MaxDrops
  /\ drops' = drops + 1
  /\ ws' = NoSocket
  /\ UNCHANGED <<server, polls, listings, extracting, reconnecting, page, loads, lost>>

-----------------------------------------------------------------------------
(* The page's parts, as changes of its variables.                          *)
OpenSocket(j) == ws' = [NoSocket EXCEPT !.job = j]

\* onFinished(j, s): asks for the files and waits.
AsksFiles(j, s) == [job |-> j, expires |-> s.expires, of |-> s.job]

\* Mutant: a job is taken for finished once all its files are settled.
FinishesWhenAllDone(s) == s.done = MaxDone \/ Terminal(s.status)

Finishes(s) == Terminal(s.status)

(* renderSnapshot(s): the panel, the expiry, and onFinished(currentJob, s),*)
(* which opens the browser; also: what onFinished is called for after it.  *)
RenderSnapshot(s, also) ==
  /\ panel' = s
  /\ expiresAt' = IF s.expires THEN s.job ELSE 0
  /\ listings' = listings \union also
                 \union (IF Finishes(s) THEN {AsksFiles(currentJob', s)} ELSE {})
  /\ \/ \E l \in also : browser' = l.job
     \/ also = {} /\ browser' = IF Finishes(s) THEN currentJob' ELSE browser

\* Mutant: an answer that was lost stops the poll.
PollOverLost(s) == s = Nothing \/ Terminal(s.status)

PollOver(s) == Terminal(s.status)

-----------------------------------------------------------------------------
(* The page's handlers.                                                    *)
\* doExtract: the button, until the answer is there.
Extract ==
  /\ ~gate /\ extracting = 0
  /\ \E j \in Jobs :
       /\ server[j].status = "none" /\ \A k \in 1 .. j - 1 : server[k].status # "none"
       /\ server' = [server EXCEPT ![j].status = "running"]
       /\ extracting' = j
  /\ UNCHANGED <<ws, polls, listings, reconnecting, page, bounds>>

\* Mutant: the job is tracked and not remembered.
RememberedNot(j) == stored

Remembered(j) == j

\* The answer: the job is remembered and tracked by socket and poll.
StartTracking ==
  /\ extracting # 0
  /\ extracting' = 0
  /\ currentJob' = extracting /\ stored' = Remembered(extracting) /\ pollTimer' = extracting
  /\ OpenSocket(extracting)
  /\ panel' = Nothing /\ browser' = 0
  /\ UNCHANGED <<server, polls, listings, reconnecting, expiresAt, countdownTimer, files, visit,
                 bounds>>

\* handleMessage, for the oldest message.
HandleMessage ==
  /\ ws.queue # <<>>
  /\ ws' = [ws EXCEPT !.queue = Tail(@)]
  /\ LET m == Head(ws.queue) IN
       \/ /\ m.type = "snapshot"
          /\ UNCHANGED currentJob
          /\ RenderSnapshot(m.body, {})
       \/ /\ m.type = "file"
          /\ panel' = [m.body EXCEPT !.status = panel.status]
          /\ UNCHANGED <<currentJob, expiresAt, listings, browser>>
       \/ /\ m.type = "done"
          /\ panel' = [m.body EXCEPT !.done = panel.done]
          /\ expiresAt' = IF m.body.expires THEN m.body.job ELSE 0
          /\ listings' = listings \union {AsksFiles(currentJob, m.body)}
          /\ browser' = currentJob
          /\ UNCHANGED currentJob
  /\ UNCHANGED <<server, polls, extracting, reconnecting, stored, pollTimer, countdownTimer,
                 files, visit, bounds>>

\* The interval ticks: the report is asked for, and answered or not.
PollTick ==
  /\ pollTimer # 0
  /\ Cardinality(polls) < MaxPolls
  /\ \/ /\ [of |-> pollTimer, body |-> ReportOf(pollTimer)] \notin polls
        /\ polls' = polls \union {[of |-> pollTimer, body |-> ReportOf(pollTimer)]}
        /\ UNCHANGED lost
     \/ /\ lost < MaxLost
        /\ polls' = polls \union {[of |-> pollTimer, body |-> Nothing]}
        /\ lost' = lost + 1
  /\ UNCHANGED <<server, ws, listings, extracting, reconnecting, page, loads, drops>>

\* An answer arrives: it is rendered whatever is tracked by now, and it may
\* stop the timer that is running by now.
PollAnswered(p) ==
  /\ p \in polls
  /\ polls' = polls \ {p}
  /\ UNCHANGED currentJob
  /\ IF p.body = Nothing THEN UNCHANGED <<panel, expiresAt, listings, browser>>
     ELSE RenderSnapshot(p.body, IF Terminal(p.body.status) THEN {AsksFiles(p.of, p.body)} ELSE {})
  /\ pollTimer' = IF PollOver(p.body) THEN 0 ELSE pollTimer
  /\ UNCHANGED <<server, ws, extracting, reconnecting, stored, countdownTimer, files,
                 visit, bounds>>

\* The rest of onFinished: the files are listed, or none if the request was
\* refused, and the countdown begins.
FilesListed(l) ==
  /\ l \in listings
  /\ listings' = listings \ {l}
  /\ files' \in {l.job, 0}
  /\ IF l.expires THEN expiresAt' = l.of /\ countdownTimer' = TRUE
     ELSE UNCHANGED <<expiresAt, countdownTimer>>
  /\ UNCHANGED <<server, ws, polls, extracting, reconnecting, currentJob, stored, pollTimer,
                 panel, browser, visit, bounds>>

\* The request for the files rejects: the rest of onFinished is not reached.
FilesLost(l) ==
  /\ l \in listings /\ lost < MaxLost
  /\ listings' = listings \ {l}
  /\ lost' = lost + 1
  /\ UNCHANGED <<server, ws, polls, extracting, reconnecting, page, loads, drops>>

\* expiresAt - Date.now() is positive; null counts as zero.
TimeLeft == expiresAt # 0 /\ ~server[expiresAt].over

\* tick: at the end the stored job is forgotten.
CountdownTick ==
  /\ countdownTimer /\ ~TimeLeft
  /\ countdownTimer' = FALSE
  /\ stored' = 0
  /\ UNCHANGED <<server, wires, currentJob, pollTimer, expiresAt, panel, browser, files, visit,
                 bounds>>

\* A page that is loaded has nothing but the stored job of the one before; in a
\* session, reconnect asks for it.
Loaded ==
  /\ ws' = NoSocket /\ polls' = {} /\ listings' = {} /\ extracting' = 0
  /\ currentJob' = 0 /\ pollTimer' = 0 /\ expiresAt' = 0 /\ countdownTimer' = FALSE
  /\ panel' = Nothing /\ browser' = 0 /\ files' = 0
  /\ leaving' = FALSE /\ left' = {}
  /\ reconnecting' = IF stored # 0 /\ ~gate' THEN ReportOf(stored) ELSE Nothing
  /\ UNCHANGED <<server, stored, drops, lost>>

\* The user reloads, and the session may be over by then.
Reload ==
  /\ loads < MaxReloads
  /\ loads' = loads + 1
  /\ gate' \in {gate, TRUE}
  /\ Loaded

\* Sign out: the job is forgotten at once and goes on being followed.
LogOut ==
  /\ ~gate
  /\ stored' = 0
  /\ left' = left \union ({currentJob, reconnecting.job} \ {0})
  /\ leaving' = TRUE
  /\ UNCHANGED <<server, wires, currentJob, pollTimer, expiresAt, countdownTimer, panel, browser,
                 files, gate, bounds>>

\* The answer: the page is loaded again; an answer that is an error keeps the cookie.
VisitEnds ==
  /\ leaving
  /\ gate' \in BOOLEAN
  /\ loads' = loads
  /\ Loaded

\* No answer: the page stays as it is.
LogoutLost ==
  /\ leaving /\ lost < MaxLost
  /\ lost' = lost + 1
  /\ leaving' = FALSE
  /\ UNCHANGED <<server, wires, currentJob, stored, pollTimer, expiresAt, countdownTimer, panel,
                 browser, files, gate, left, loads, drops>>

\* doEnter with the right code; no stored job is looked for.
SignIn ==
  /\ gate
  /\ gate' = FALSE
  /\ UNCHANGED <<server, wires, currentJob, stored, pollTimer, expiresAt, countdownTimer, panel,
                 browser, files, leaving, left, bounds>>

\* reconnect without an answer: the id stays stored for another reload.
ReconnectFails ==
  /\ reconnecting # Nothing /\ lost < MaxLost
  /\ lost' = lost + 1
  /\ reconnecting' = Nothing
  /\ UNCHANGED <<server, ws, polls, listings, extracting, page, loads, drops>>

\* reconnect: the report is rendered, and a job in flight tracked again.
Reconnected ==
  /\ reconnecting # Nothing
  /\ reconnecting' = Nothing
  /\ currentJob' = reconnecting.job
  /\ RenderSnapshot(reconnecting, {})
  /\ IF Terminal(reconnecting.status) THEN UNCHANGED <<ws, pollTimer>>
     ELSE OpenSocket(reconnecting.job) /\ pollTimer' = reconnecting.job
  /\ UNCHANGED <<server, polls, extracting, stored, countdownTimer, files, visit, bounds>>

Server(j) == JobGoesOn(j) \/ JobEnds(j) \/ JobExpires(j)

Page ==
  \/ Extract \/ StartTracking \/ HandleMessage \/ PollTick \/ CountdownTick
  \/ Reload \/ Reconnected \/ ReconnectFails
  \/ LogOut \/ VisitEnds \/ LogoutLost \/ SignIn
  \/ \E p \in polls : PollAnswered(p)
  \/ \E l \in listings : FilesListed(l) \/ FilesLost(l)

Next == Page \/ SocketConnects \/ SocketDrops \/ \E j \in Jobs : Server(j)

Spec == Init /\ [][Next]_vars

(* Jobs end; the timers tick, and polls under way are answered.  A socket  *)
(* need not connect, nor a message on it or a list of files arrive.        *)
Fairness ==
  /\ \A j \in Jobs : WF_vars(JobGoesOn(j)) /\ WF_vars(JobEnds(j))
  /\ WF_vars(StartTracking) /\ WF_vars(PollTick)
  /\ WF_vars(\E p \in polls : PollAnswered(p))

FairSpec == Spec /\ Fairness

-----------------------------------------------------------------------------
(* Every variable has its type (ui.ts:382-415, job.ts:76-95).              *)
ClientTypeOK ==
  /\ server \in [Jobs -> [status : Status \union {"none"}, done : 0 .. MaxDone,
                          expires : BOOLEAN, over : BOOLEAN]]
  /\ ws.job \in JobOrNone /\ ws.open \in BOOLEAN /\ ws.queue \in Seq(Message)
  /\ polls \subseteq [of : Jobs, body : Report]
  /\ listings \subseteq [job : Jobs, expires : BOOLEAN, of : Jobs]
  /\ extracting \in JobOrNone /\ reconnecting \in Report
  /\ {currentJob, stored, pollTimer, expiresAt, browser, files} \subseteq JobOrNone
  /\ countdownTimer \in BOOLEAN /\ panel \in Report
  /\ {gate, leaving} \subseteq BOOLEAN /\ left \subseteq Jobs
  /\ loads \in 0 .. MaxReloads /\ drops \in 0 .. MaxDrops /\ lost \in 0 .. MaxLost

(* The page never runs ahead of the job: no file settled that is not, no   *)
(* end that is not there, no browser of a job that still runs              *)
(* (ui.ts:626-656, 722-750).                                               *)
ShowsWhatWas ==
  /\ \A j \in {browser, files} \ {0} : Terminal(server[j].status)
  /\ panel.job # 0 =>
       /\ panel.done <= server[panel.job].done
       /\ Terminal(panel.status) => panel.status = server[panel.job].status

(* "persist so a reload re-attaches to this job" (ui.ts:581): a job that   *)
(* is tracked and still runs is the one that a reload goes on with, unless *)
(* the user has signed out of the page while it was followed               *)
(* (ui.ts:431, :451-482, :579-582, :759-763).                              *)
RunningIsRemembered ==
  (currentJob # 0 /\ server[currentJob].status = "running" /\ currentJob \notin left)
    => stored = currentJob

(* Types, a page that shows only what was, and a running job that a reload *)
(* finds again (ui.ts:563-657).                                            *)
ClientInv == ClientTypeOK /\ ShowsWhatWas /\ RunningIsRemembered

(* "Fallback poll in case the socket drops" (ui.ts:593): whatever becomes  *)
(* of the socket, the page comes to show the end of the job it tracks.     *)
LearnsTheEnd ==
  \A j \in Jobs :
    (currentJob = j /\ Terminal(server[j].status)) ~> (browser = j \/ currentJob # j)

-----------------------------------------------------------------------------
(* Said of the program and not so: the README has the behaviours.          *)

(* "persist so a reload re-attaches to this job" (ui.ts:581): whatever the *)
(* user does, what this page follows and still runs a reload would find.   *)
FollowedIsRemembered ==
  (currentJob # 0 /\ server[currentJob].status = "running" /\ ~leaving) => stored = currentJob

(* "The demo output has been cleaned up - drop the stored id"              *)
(* (ui.ts:760): a tracked job's id is dropped no earlier.                  *)
StoredUntilOver ==
  (currentJob # 0 /\ currentJob \notin left) => (stored = currentJob \/ server[currentJob].over)

(* "a terminal `done`" (README.md:315): a page that shows a job as ended   *)
(* does not go back to showing it as running.                              *)
EndStaysShown ==
  [][(Terminal(panel.status) /\ panel'.job = panel.job) => Terminal(panel'.status)]_panel

=============================================================================
