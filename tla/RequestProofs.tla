--------------------------- MODULE RequestProofs ---------------------------
(***************************************************************************)
(* Proofs about single requests: those the Worker sends to the source, for *)
(* any schedule, cap, latency and hint; and those that browsers send to    *)
(* the Worker, for any number of codes, browsers, requests, tokens, jobs   *)
(* and events.                                                             *)
(***************************************************************************)
EXTENDS Access, RangeFetch, FiniteSetTheorems, TLAPS

(***************************************************************************)
(* One range request                                                       *)
(***************************************************************************)
\* The ranges lie in the archive and are not empty: of an empty one the header
\* is invalid, and the run range_empty shows what comes of it.
CallsInside ==
  \A c \in Calls : c.kind = "range" => c.from < c.to /\ c.to <= ARCHIVE_SIZE

\* Each attempt but the one under way has used up one recurrence.
AttemptsAreCounted ==
  /\ sent = recurrences + (IF phase = "ready" THEN 0 ELSE 1)
  /\ recurrences <= RETRY_MAX_RECURRENCES
  /\ phase \in {"ready", "sent"} => status \in Retryable \union {0}

SpanOf(c) == IF c.kind = "probe" THEN [from |-> 0, to |-> 1] ELSE [from |-> c.from, to |-> c.to]

\* A source that knows ranges answers with the bytes of the range.
BodyIsSpan ==
  phase \in {"body", "done"} =>
    /\ status = 206 \/ (status = 200 /\ call.kind = "range")
    /\ (CallsInside /\ ~IgnoresRange) => body = SpanOf(call)

RetryInv ==
  /\ RangeTypeOK /\ RetriesBounded /\ CooldownHonoured /\ CountedOnce
  /\ AttemptsAreCounted /\ BodyIsSpan

-----------------------------------------------------------------------------
(* 2^n is the number of the sets of numbers up to n.                       *)
LEMMA PowerIsPositive == ASSUME NEW n \in Nat PROVE 2^n \in Nat /\ 2^n >= 1
<1>1. IsFiniteSet(1 .. n) /\ Cardinality(1 .. n) = n
  BY FS_Interval
<1>2. IsFiniteSet(SUBSET (1 .. n)) /\ Cardinality(SUBSET (1 .. n)) = 2^n
  BY <1>1, FS_SUBSET
<1>3. Cardinality(SUBSET (1 .. n)) \in Nat
  BY <1>2, FS_CardinalityType
<1>4. Cardinality(SUBSET (1 .. n)) # 0
  BY <1>2, FS_EmptySet
<1> QED BY <1>2, <1>3, <1>4

(* Every backoff takes some time, and none more than the longest.          *)
LEMMA BackoffTakesTime ==
  ASSUME NEW n \in Nat, NEW wait \in Backoff(n)
  PROVE  /\ MaxBackoff(n) \in Nat
         /\ wait \in Nat /\ wait >= 1 /\ wait <= MaxBackoff(n)
<1> DEFINE base == RETRY_BASE_DELAY * 2^n
<1>1. base \in Nat /\ base >= 2
  <2>1. /\ RETRY_BASE_DELAY \in Nat /\ RETRY_BASE_DELAY >= 2
        /\ 2^n \in Nat /\ 2^n >= 1
    BY RangeAssumption, PowerIsPositive
  <2>2. \A b, p \in Nat : b >= 2 /\ p >= 1 => b * p \in Nat /\ b * p >= 2
    OBVIOUS
  <2> QED BY <2>1, <2>2
<1>2. wait \in {(4 * base) \div 5, (6 * base) \div 5} /\ MaxBackoff(n) = (6 * base) \div 5
  BY DEF Backoff, MaxBackoff
<1> HIDE DEF base
<1> QED BY <1>1, <1>2

LEMMA CooldownIsCapped ==
  ASSUME NEW hint \in Hints
  PROVE  /\ Cooldown(hint) \in Nat /\ Cooldown(hint) <= RETRY_AFTER_CAP
         /\ Smaller(hint, RETRY_AFTER_CAP) <= Cooldown(hint)
<1>1. hint \in Int /\ RETRY_AFTER_CAP \in Nat
  BY RangeAssumption
<1> QED BY <1>1 DEF Cooldown, Smaller

LEMMA CallFacts ==
  ASSUME NEW c \in Calls
  PROVE  /\ c.kind \in {"probe", "range"} /\ c.from \in Nat /\ c.to \in Nat /\ c.from <= c.to
BY RangeAssumption

LEMMA BodiesAreSpans ==
  ASSUME NEW c \in Calls, NEW a \in Answers(RangeHeader(c)), a.status \in Usable
  PROVE  /\ a.body \in [from : Nat, to : Nat] /\ a.status \in {200, 206}
         /\ (CallsInside /\ ~IgnoresRange) => a.body = SpanOf(c) /\ a.status = 206
<1>1. /\ ARCHIVE_SIZE \in Nat /\ ARCHIVE_SIZE >= 1
      /\ c.kind \in {"probe", "range"} /\ c.from \in Nat /\ c.to \in Nat
  BY RangeAssumption, CallFacts
<1> DEFINE h == RangeHeader(c)
<1>2. h.first \in Nat /\ h.last + 1 \in Nat /\ h.last \in Int
  BY <1>1 DEF RangeHeader
<1>3. CASE a = [status |-> 206,
                body |-> [from |-> h.first, to |-> Smaller(h.last + 1, ARCHIVE_SIZE)]]
  <2>1. Smaller(h.last + 1, ARCHIVE_SIZE) \in Nat
    BY <1>1, <1>2 DEF Smaller
  <2>2. ASSUME CallsInside PROVE a.body = SpanOf(c)
    BY <1>1, <1>3, <2>2 DEF CallsInside, SpanOf, RangeHeader, Smaller
  <2> QED BY <1>2, <1>3, <2>1, <2>2
<1>4. CASE a = [status |-> 200, body |-> WholeArchive] /\ (~(h.first <= h.last) \/ IgnoresRange)
  <2>1. CallsInside => h.first <= h.last
    BY <1>1 DEF CallsInside, RangeHeader
  <2> QED BY <1>1, <1>4, <2>1 DEF WholeArchive
<1>5. a.status # 416
  BY DEF Usable
<1> QED BY <1>3, <1>4, <1>5 DEF Answers

-----------------------------------------------------------------------------
LEMMA RangeInitHolds == RangeInit => RetryInv
BY RangeAssumption DEF RangeInit, RetryInv, RangeTypeOK, RetriesBounded, CooldownHonoured,
   CountedOnce, AttemptsAreCounted, BodyIsSpan, NoBody, Usable, Retryable, Permanent

LEMMA FetchKeeps == RetryInv /\ Fetch => RetryInv'
<1> SUFFICES ASSUME RetryInv, Fetch PROVE RetryInv'
  OBVIOUS
<1>1. /\ phase = "ready" /\ phase' = "sent" /\ sent \in Nat /\ sent' = sent + 1
      /\ UNCHANGED <<call, status, clock, answeredAt, floor, firstFailed, recurrences, body, counted>>
  BY DEF RetryInv, RangeTypeOK, Fetch
<1>2. counted = {}
  BY <1>1 DEF RetryInv, AttemptsAreCounted, CountedOnce, Retryable
<1>3. RangeTypeOK'
  BY <1>1, <1>2 DEF RetryInv, RangeTypeOK
<1>4. AttemptsAreCounted' /\ BodyIsSpan'
  BY <1>1 DEF RetryInv, RangeTypeOK, AttemptsAreCounted, BodyIsSpan
<1>5. RetriesBounded' /\ CooldownHonoured'
  BY <1>1, RangeAssumption DEF RetryInv, RangeTypeOK, AttemptsAreCounted, RetriesBounded, CooldownHonoured
<1>6. CountedOnce'
  BY <1>1, <1>2 DEF RetryInv, AttemptsAreCounted, CountedOnce, Retryable
<1> QED BY <1>3, <1>4, <1>5, <1>6 DEF RetryInv

LEMMA ReadBodyKeeps == RetryInv /\ ReadBody => RetryInv'
<1> SUFFICES ASSUME RetryInv, ReadBody PROVE RetryInv'
  OBVIOUS
<1>1. /\ phase = "body" /\ phase' \in {"done", "failed"}
      /\ UNCHANGED <<call, status, clock, answeredAt, floor, firstFailed, recurrences, sent, body,
                     counted>>
  BY DEF ReadBody
<1>2. RangeTypeOK' /\ AttemptsAreCounted' /\ BodyIsSpan' /\ CountedOnce'
  BY <1>1 DEF RetryInv, RangeTypeOK, AttemptsAreCounted, BodyIsSpan, CountedOnce
<1>3. RetriesBounded' /\ CooldownHonoured'
  BY <1>1 DEF RetryInv, RetriesBounded, CooldownHonoured
<1> QED BY <1>2, <1>3 DEF RetryInv

(* An answer with a body: it is the span of its call, and counted for it.  *)
LEMMA AnswerUsableKeeps ==
  ASSUME RetryInv, NEW latency \in Latencies, AnswerUsable(latency)
  PROVE  RetryInv'
<1>1. PICK a \in Answers(RangeHeader(call)) :
        /\ a.status \in Usable
        /\ status' = a.status /\ body' = a.body
        /\ counted' = Counted(a.status)
        /\ phase' = IF call.kind = "probe" /\ a.status = 200 THEN "failed" ELSE "body"
  BY DEF AnswerUsable
<1>2. /\ phase = "sent" /\ clock' = clock + latency /\ answeredAt' = clock' /\ floor' = 0
      /\ UNCHANGED <<call, firstFailed, recurrences, sent>>
  BY DEF AnswerUsable
<1>3. /\ call \in Calls /\ {clock, recurrences, sent} \subseteq Nat /\ latency \in Nat
      /\ firstFailed \in Nat \union {-1}
      /\ counted = {} /\ sent = recurrences + 1 /\ recurrences <= RETRY_MAX_RECURRENCES
      /\ sent <= RETRY_MAX_RECURRENCES + 1
  BY <1>2, RangeAssumption
     DEF RetryInv, RangeTypeOK, RetriesBounded, AttemptsAreCounted, CountedOnce, Retryable
<1>4. /\ a.body \in [from : Nat, to : Nat] /\ a.status \in {200, 206}
      /\ (CallsInside /\ ~IgnoresRange) => a.body = SpanOf(call) /\ a.status = 206
  BY <1>1, <1>3, BodiesAreSpans
<1>5. /\ call.kind \in {"probe", "range"} /\ call.from \in Nat /\ call.to \in Nat
      /\ call.from <= call.to
  BY <1>3, CallFacts
<1>6. CountedOnce'
  BY <1>1, <1>2, <1>3, <1>4, <1>5 DEF CountedOnce, Counted, Usable
<1>7. \A c \in counted' : c[1] \in 1 .. sent' /\ c[2] <= c[3]
  BY <1>1, <1>2, <1>3, <1>4, <1>5 DEF Counted, Usable
<1>8. RangeTypeOK'
  BY <1>1, <1>2, <1>3, <1>4, <1>7 DEF RangeTypeOK, Usable
<1>9. AttemptsAreCounted' /\ BodyIsSpan'
  BY <1>1, <1>2, <1>3, <1>4, <1>5 DEF AttemptsAreCounted, BodyIsSpan
<1>10. RetriesBounded' /\ CooldownHonoured'
  BY <1>1, <1>2, <1>3 DEF RetriesBounded, CooldownHonoured
<1> QED BY <1>6, <1>8, <1>9, <1>10 DEF RetryInv

LEMMA AnswerPermanentKeeps ==
  ASSUME RetryInv, NEW latency \in Latencies, AnswerPermanent(latency)
  PROVE  RetryInv'
<1>1. /\ phase = "sent" /\ phase' = "failed" /\ status' \in Permanent
      /\ counted' = Counted(status')
      /\ clock' = clock + latency /\ answeredAt' = clock' /\ floor' = 0
      /\ UNCHANGED <<call, firstFailed, recurrences, sent, body>>
  BY DEF AnswerPermanent
<1>2. /\ call \in Calls /\ {clock, recurrences, sent} \subseteq Nat /\ latency \in Nat
      /\ counted = {} /\ sent = recurrences + 1 /\ recurrences <= RETRY_MAX_RECURRENCES
  BY <1>1, RangeAssumption DEF RetryInv, RangeTypeOK, AttemptsAreCounted, CountedOnce, Retryable
<1>3. counted' = {} /\ status' \notin {200, 206}
  BY <1>1, <1>2 DEF Counted, Usable, Permanent
<1>4. RangeTypeOK'
  BY <1>1, <1>2, <1>3 DEF RetryInv, RangeTypeOK
<1>5. AttemptsAreCounted' /\ BodyIsSpan' /\ CountedOnce'
  BY <1>1, <1>2, <1>3 DEF AttemptsAreCounted, BodyIsSpan, CountedOnce
<1>6. RetriesBounded' /\ CooldownHonoured'
  BY <1>1, <1>2, RangeAssumption DEF RetryInv, RetriesBounded, CooldownHonoured
<1> QED BY <1>4, <1>5, <1>6 DEF RetryInv

LEMMA AnswerTransientKeeps ==
  ASSUME RetryInv, NEW latency \in Latencies, NEW hint \in Hints, AnswerTransient(latency, hint)
  PROVE  RetryInv'
<1> DEFINE failedAt == clock + latency + Cooldown(hint)
           first == IF firstFailed = -1 THEN failedAt ELSE firstFailed
<1>1. /\ phase = "sent" /\ status' \in Retryable \union {0}
      /\ answeredAt' = clock + latency /\ floor' = hint
      /\ counted' = Counted(status')
      /\ UNCHANGED <<call, sent, body>>
  BY DEF AnswerTransient
<1>2. /\ call \in Calls /\ body \in [from : Nat, to : Nat]
      /\ {clock, recurrences, sent} \subseteq Nat /\ firstFailed \in Nat \union {-1}
      /\ counted = {} /\ sent = recurrences + 1 /\ recurrences <= RETRY_MAX_RECURRENCES
      /\ latency \in Nat /\ hint \in Int
      /\ RETRY_MAX_RECURRENCES \in Nat /\ RETRY_MAX_ELAPSED \in Nat /\ RETRY_AFTER_CAP \in Nat
  BY <1>1, RangeAssumption DEF RetryInv, RangeTypeOK, AttemptsAreCounted, CountedOnce, Retryable
<1>3. counted' = {} /\ status' \notin {200, 206}
  BY <1>1, <1>2 DEF Counted, Usable, Retryable
<1>4. /\ Cooldown(hint) \in Nat /\ Cooldown(hint) <= RETRY_AFTER_CAP
      /\ Smaller(hint, RETRY_AFTER_CAP) <= Cooldown(hint)
      /\ Smaller(hint, RETRY_AFTER_CAP) \in Int
  BY <1>2, CooldownIsCapped DEF Smaller
<1>5. failedAt \in Nat /\ first \in Nat
  BY <1>2, <1>4
<1>6. \/ /\ recurrences < RETRY_MAX_RECURRENCES /\ failedAt - first < RETRY_MAX_ELAPSED
         /\ \E wait \in Backoff(recurrences) : clock' = failedAt + wait
         /\ firstFailed' = first /\ recurrences' = recurrences + 1 /\ phase' = "ready"
      \/ clock' = failedAt /\ firstFailed' = first /\ phase' = "failed" /\ recurrences' = recurrences
  BY DEF AnswerTransient, MayRetry
<1>7. CASE clock' = failedAt /\ firstFailed' = first /\ phase' = "failed" /\ recurrences' = recurrences
  <2>1. RangeTypeOK'
    BY <1>1, <1>2, <1>3, <1>5, <1>7 DEF RangeTypeOK
  <2>2. AttemptsAreCounted' /\ BodyIsSpan' /\ CountedOnce'
    BY <1>1, <1>2, <1>3, <1>7 DEF AttemptsAreCounted, BodyIsSpan, CountedOnce
  <2>3. RetriesBounded' /\ CooldownHonoured'
    BY <1>1, <1>2, <1>7 DEF RetriesBounded, CooldownHonoured
  <2> QED BY <2>1, <2>2, <2>3 DEF RetryInv
<1>8. CASE /\ recurrences < RETRY_MAX_RECURRENCES /\ failedAt - first < RETRY_MAX_ELAPSED
           /\ \E wait \in Backoff(recurrences) : clock' = failedAt + wait
           /\ firstFailed' = first /\ recurrences' = recurrences + 1 /\ phase' = "ready"
  <2>1. PICK wait \in Backoff(recurrences) : clock' = failedAt + wait
    BY <1>8
  <2>2. /\ MaxBackoff(recurrences) \in Nat
        /\ wait \in Nat /\ wait >= 1 /\ wait <= MaxBackoff(recurrences)
    BY <1>2, BackoffTakesTime
  <2>3. /\ (recurrences' - 1) = recurrences
        /\ MaxBackoff(recurrences' - 1) = MaxBackoff(recurrences)
    BY <1>2, <1>8 DEF MaxBackoff
  <2>4. RangeTypeOK'
    BY <1>1, <1>2, <1>3, <1>5, <1>8, <2>1, <2>2 DEF RangeTypeOK
  <2>5. AttemptsAreCounted' /\ BodyIsSpan' /\ CountedOnce'
    BY <1>1, <1>2, <1>3, <1>8 DEF AttemptsAreCounted, BodyIsSpan, CountedOnce
  <2> HIDE DEF first
  <2>6. clock' < first + RETRY_MAX_ELAPSED + MaxBackoff(recurrences)
    BY <1>2, <1>4, <1>5, <1>8, <2>1, <2>2
  <2>7. RetriesBounded'
    BY <1>1, <1>2, <1>8, <2>3, <2>6 DEF RetriesBounded, MaxBackoff
  <2>8. /\ clock' - answeredAt' > Smaller(hint, RETRY_AFTER_CAP)
        /\ clock' - answeredAt' <= RETRY_AFTER_CAP + MaxBackoff(recurrences)
    BY <1>1, <1>2, <1>4, <2>1, <2>2
  <2>9. CooldownHonoured'
    BY <1>1, <2>3, <2>8 DEF CooldownHonoured, Smaller, MaxBackoff
  <2> QED BY <2>4, <2>5, <2>7, <2>9 DEF RetryInv
<1> QED BY <1>6, <1>7, <1>8

-----------------------------------------------------------------------------
THEOREM RetryInvariance == RangeSpec => []RetryInv
<1>1. RetryInv /\ [RangeNext]_rangeVars => RetryInv'
  <2> SUFFICES ASSUME RetryInv, [RangeNext]_rangeVars PROVE RetryInv'
    OBVIOUS
  <2>1. CASE UNCHANGED rangeVars
    <3>1. RangeTypeOK' /\ CountedOnce' /\ AttemptsAreCounted' /\ BodyIsSpan'
      BY <2>1 DEF RetryInv, rangeVars, RangeTypeOK, CountedOnce, AttemptsAreCounted, BodyIsSpan
    <3>2. RetriesBounded' /\ CooldownHonoured'
      BY <2>1 DEF RetryInv, rangeVars, RetriesBounded, CooldownHonoured
    <3> QED BY <3>1, <3>2 DEF RetryInv
  <2>2. CASE RangeNext
    BY <2>2, FetchKeeps, ReadBodyKeeps, AnswerUsableKeeps, AnswerPermanentKeeps,
       AnswerTransientKeeps DEF RangeNext
  <2> QED BY <2>1, <2>2
<1> QED BY RangeInitHolds, <1>1, PTL DEF RangeSpec

\* Whatever the source answers, and however long its answers take and its hints
\* ask to wait, a request is retried RETRY_MAX_RECURRENCES times at most and
\* soon enough, every cooldown is kept up to its cap, and its bytes are counted
\* once; from a source that knows ranges they are the bytes that came
\* (services.ts:35-55, 112-123, 152).
THEOREM RangeInvAlways == ASSUME CallsInside PROVE RangeSpec => []RangeInv
<1>1. RetryInv => RangeInv
  <2> SUFFICES ASSUME RetryInv, ~IgnoresRange, phase = "done",
                      NEW c \in counted
               PROVE  c[3] - c[2] = body.to - body.from
    BY DEF RetryInv, RangeInv, CountIsPulled
  <2>1. call \in Calls /\ body = SpanOf(call)
    BY DEF RetryInv, RangeTypeOK, BodyIsSpan
  <2>2. call.kind \in {"probe", "range"} /\ call.from \in Nat /\ call.to \in Nat
    BY <2>1, CallFacts
  <2> QED BY <2>1, <2>2 DEF RetryInv, CountedOnce, SpanOf, BodyIsSpan
<1> QED BY RetryInvariance, <1>1, PTL

\* Of a source that knows ranges readRange returns the bytes asked for, for
\* every range that lies in the archive and is not empty (services.ts:94).
THEOREM BodyAlwaysRange ==
  ASSUME CallsInside, ~IgnoresRange PROVE RangeSpec => []BodyIsRange
<1>1. RetryInv => BodyIsRange
  BY DEF RetryInv, BodyIsSpan, BodyIsRange, SpanOf
<1> QED BY RetryInvariance, <1>1, PTL

-----------------------------------------------------------------------------
(***************************************************************************)
(* Access codes, sessions and usage                                        *)
(***************************************************************************)
Starts(code) == {n \in CodeTimeline(code) : events[n].type = "session_start"}
Sessions(code) == {t \in Tokens : SessionCode(t) = code /\ Held(t)}

\* The log has a session of the code, or is full and takes nothing any more.
Begun(code) == Len(events) < MaxEvents => Starts(code) # {}

\* A token that is good was signed for somebody whose session is in the log.
TokensWereSigned ==
  \A t \in Tokens : token[t].valid =>
    /\ token[t].sub \in Codes \cup {Admin}
    /\ token[t].sub \in Codes => Begun(token[t].sub)

\* A request past the gate has a code whose session began, and a token that is
\* this code's as long as it is good: a token somebody holds is not signed again.
Gated(r) ==
  /\ (request[r].kind = "auth" /\ request[r].step \in {"validate", "record"}) =>
       request[r].code \in Codes
  /\ At(r, "extract", "preflight") =>
       /\ request[r].token \in Tokens /\ request[r].code \in Codes
       /\ Begun(request[r].code)
       /\ token[request[r].token].valid => token[request[r].token].sub = request[r].code

RequestsWereGated == \A r \in Requests : Gated(r)

\* A job is attributed to the session that started it, or to nobody.
JobsWereStarted ==
  \A j \in Jobs : job[j].step # "none" =>
    /\ job[j].session \in Codes /\ Begun(job[j].session)
    /\ job[j].code \in {job[j].session, Nobody}

\* What the log says of a job has been reached by it, once and in order.
EventIsDue(n) ==
  /\ events[n].job \in Jobs
  /\ job[events[n].job].session = events[n].code
  /\ job[events[n].job].step \in {"extracting", "over"}
  /\ job[events[n].job].step = "extracting" => events[n].type = "job_started"
  /\ \E m \in Starts(events[n].code) : m < n
  /\ \A m \in 1 .. n - 1 : events[m].job = events[n].job =>
       events[m].type = "job_started" /\ events[n].type = "job_completed"

LogWasDue ==
  \A n \in 1 .. Len(events) :
    IF events[n].type = "session_start" THEN events[n].job = Nobody ELSE EventIsDue(n)

AccessInv ==
  /\ AccessTypeOK /\ EverySessionCounted
  /\ TokensWereSigned /\ RequestsWereGated /\ JobsWereStarted /\ LogWasDue

-----------------------------------------------------------------------------
\* The log keeps what it has and takes one event more, or none.
LogGrows(e) ==
  /\ e \in Event
  /\ events' = IF Len(events) < MaxEvents THEN Append(events, e) ELSE events

LEMMA LogKeeps ==
  ASSUME AccessTypeOK, NEW e, LogGrows(e)
  PROVE  /\ events' \in Seq(Event) /\ Len(events') <= MaxEvents /\ Len(events') >= Len(events)
         /\ \A n \in 1 .. Len(events) : events'[n] = events[n]
         /\ \A n \in 1 .. Len(events') :
              n \in 1 .. Len(events)
                \/ (n = Len(events) + 1 /\ events'[n] = e /\ Len(events) < MaxEvents)
         /\ Len(events) < MaxEvents =>
              Len(events) + 1 \in 1 .. Len(events') /\ events'[Len(events) + 1] = e
<1>1. events \in Seq(Event) /\ Len(events) \in Nat /\ Len(events) <= MaxEvents /\ e \in Event
      /\ MaxEvents \in Nat
  BY AccessAssumption DEF AccessTypeOK, LogGrows
<1>2. CASE Len(events) < MaxEvents
  <2>1. events' = Append(events, e)
    BY <1>2 DEF LogGrows
  <2> QED BY <1>1, <1>2, <2>1
<1>3. CASE ~(Len(events) < MaxEvents)
  <2>1. events' = events
    BY <1>3 DEF LogGrows
  <2> QED BY <1>1, <1>3, <2>1
<1> QED BY <1>2, <1>3

(* The sessions in the log stay there.                                     *)
LEMMA StartsStay ==
  ASSUME AccessTypeOK, NEW e, LogGrows(e) \/ events' = events, NEW code
  PROVE  /\ Starts(code) \subseteq Starts(code)'
         /\ Begun(code) => Begun(code)'
<1>1. Starts(code) \subseteq Starts(code)'
  <2>1. CASE events' = events
    BY <2>1 DEF Starts, CodeTimeline
  <2>2. CASE LogGrows(e)
    <3>1. events \in Seq(Event) /\ Len(events) \in Nat
      BY DEF AccessTypeOK
    <3>2. /\ Len(events') \in Nat /\ Len(events') >= Len(events)
          /\ \A n \in 1 .. Len(events) : events'[n] = events[n]
      BY <2>2, LogKeeps
    <3> QED BY <3>1, <3>2 DEF Starts, CodeTimeline
  <2> QED BY <2>1, <2>2
<1>2. Len(events') < MaxEvents => Len(events) < MaxEvents
  <2>1. CASE events' = events
    BY <2>1
  <2>2. CASE LogGrows(e)
    <3>1. Len(events) \in Nat /\ Len(events') \in Nat /\ MaxEvents \in Nat
      BY <2>2, LogKeeps, AccessAssumption DEF AccessTypeOK
    <3> QED BY <2>2, <3>1, LogKeeps
  <2> QED BY <2>1, <2>2
<1> QED BY <1>1, <1>2 DEF Begun

(* A session that is recorded has begun.                                   *)
LEMMA RecordedBegins ==
  ASSUME AccessTypeOK, NEW code \in Codes,
         LogGrows([code |-> code, type |-> "session_start", job |-> Nobody])
  PROVE  Begun(code)'
<1> DEFINE e == [code |-> code, type |-> "session_start", job |-> Nobody]
<1>1. e.code = code /\ e.type = "session_start"
  OBVIOUS
<1> HIDE DEF e
<1>2. SUFFICES ASSUME Len(events') < MaxEvents PROVE Len(events) + 1 \in Starts(code)'
  BY DEF Begun
<1>3. Len(events) < MaxEvents
  <2>1. Len(events) \in Nat /\ Len(events') \in Nat /\ MaxEvents \in Nat /\ Len(events') >= Len(events)
    BY LogKeeps, AccessAssumption DEF AccessTypeOK, e
  <2> QED BY <1>2, <2>1
<1>4. Len(events) + 1 \in 1 .. Len(events') /\ events'[Len(events) + 1] = e
  BY <1>3, LogKeeps DEF e
<1> QED BY <1>1, <1>4 DEF Starts, CodeTimeline

LEMMA StartsFinite ==
  ASSUME AccessTypeOK, NEW code
  PROVE  IsFiniteSet(Starts(code)) /\ Cardinality(Starts(code)) \in Nat
<1>1. Len(events) \in Nat
  BY DEF AccessTypeOK
<1>2. IsFiniteSet(1 .. Len(events))
  BY <1>1, FS_Interval
<1>3. Starts(code) \subseteq 1 .. Len(events)
  BY DEF Starts, CodeTimeline
<1> QED BY <1>2, <1>3, FS_Subset, FS_CardinalityType

LEMMA SessionsFinite ==
  ASSUME NEW code
  PROVE  IsFiniteSet(Sessions(code)) /\ Cardinality(Sessions(code)) \in Nat
<1>1. Sessions(code) \subseteq Tokens
  BY DEF Sessions
<1> QED BY <1>1, AccessAssumption, FS_Subset, FS_CardinalityType

LEMMA CountsAreCardinalities ==
  EverySessionCounted <=>
    (Len(events) < MaxEvents =>
       \A code \in Codes : Cardinality(Sessions(code)) <= Cardinality(Starts(code)))
BY DEF EverySessionCounted, AggregateUsage, Count, Sessions, Starts

-----------------------------------------------------------------------------
(* The numbers hold when nobody has a new session,                         *)
LEMMA CountsStay ==
  ASSUME AccessInv, NEW e, LogGrows(e) \/ events' = events,
         \A code \in Codes : Sessions(code)' \subseteq Sessions(code)
  PROVE  EverySessionCounted'
<1> SUFFICES ASSUME Len(events') < MaxEvents, NEW code \in Codes
             PROVE  Cardinality(Sessions(code)') <= Cardinality(Starts(code)')
  BY DEF EverySessionCounted, AggregateUsage, Count, Sessions, Starts
<1>1. AccessTypeOK /\ Len(events) \in Nat /\ MaxEvents \in Nat
  BY AccessAssumption DEF AccessInv, AccessTypeOK
<1>2. Len(events') \in Nat /\ Len(events') >= Len(events)
  BY <1>1, LogKeeps
<1>3. Len(events) < MaxEvents
  BY <1>1, <1>2
<1>4. Cardinality(Sessions(code)) <= Cardinality(Starts(code))
  BY <1>3, CountsAreCardinalities DEF AccessInv
<1>5. Cardinality(Sessions(code)') <= Cardinality(Sessions(code))
  BY SessionsFinite, FS_Subset
<1>6. IsFiniteSet(Starts(code)')
  <2>1. Starts(code)' \subseteq 1 .. Len(events')
    BY DEF Starts, CodeTimeline
  <2>2. IsFiniteSet(1 .. Len(events'))
    BY <1>2, FS_Interval
  <2> QED BY <2>1, <2>2, FS_Subset
<1>7. Cardinality(Starts(code)) <= Cardinality(Starts(code)')
  BY <1>1, <1>6, StartsStay, FS_Subset
<1>8. /\ Cardinality(Sessions(code)) \in Nat /\ Cardinality(Starts(code)) \in Nat
      /\ Cardinality(Sessions(code)') \in Nat /\ Cardinality(Starts(code)') \in Nat
  BY <1>1, <1>5, <1>6, SessionsFinite, StartsFinite, FS_Subset, FS_CardinalityType
<1> QED BY <1>4, <1>5, <1>7, <1>8

(* and when one session that somebody has is new, and recorded.            *)
LEMMA CountsGrow ==
  ASSUME AccessInv, NEW code \in Codes, NEW t,
         LogGrows([code |-> code, type |-> "session_start", job |-> Nobody]),
         \A other \in Codes : Sessions(other)' \subseteq
           IF other = code THEN Sessions(code) \cup {t} ELSE Sessions(other)
  PROVE  EverySessionCounted'
<1> DEFINE e == [code |-> code, type |-> "session_start", job |-> Nobody]
<1>1. e.code = code /\ e.type = "session_start"
  OBVIOUS
<1>2. LogGrows(e)
  OBVIOUS
<1> HIDE DEF e
<1> SUFFICES ASSUME Len(events') < MaxEvents, NEW other \in Codes
             PROVE  Cardinality(Sessions(other)') <= Cardinality(Starts(other)')
  BY DEF EverySessionCounted, AggregateUsage, Count, Sessions, Starts
<1>3. AccessTypeOK /\ Len(events) \in Nat /\ MaxEvents \in Nat
  BY AccessAssumption DEF AccessInv, AccessTypeOK
<1>4. Len(events') \in Nat /\ Len(events') >= Len(events)
  BY <1>2, <1>3, LogKeeps
<1>5. Len(events) < MaxEvents
  BY <1>3, <1>4
<1>6. Cardinality(Sessions(other)) <= Cardinality(Starts(other))
  BY <1>5, CountsAreCardinalities DEF AccessInv
<1>7. IsFiniteSet(Starts(other)')
  <2>1. Starts(other)' \subseteq 1 .. Len(events')
    BY DEF Starts, CodeTimeline
  <2>2. IsFiniteSet(1 .. Len(events'))
    BY <1>4, FS_Interval
  <2> QED BY <2>1, <2>2, FS_Subset
<1>8. /\ Cardinality(Sessions(other)) \in Nat /\ Cardinality(Starts(other)) \in Nat
      /\ IsFiniteSet(Sessions(other)) /\ IsFiniteSet(Starts(other))
      /\ Cardinality(Starts(other)') \in Nat
  BY <1>3, <1>7, SessionsFinite, StartsFinite, FS_CardinalityType
<1>9. CASE other # code
  <2>1. /\ Cardinality(Sessions(other)') <= Cardinality(Sessions(other))
        /\ Cardinality(Sessions(other)') \in Nat
    BY <1>8, <1>9, FS_Subset, FS_CardinalityType
  <2>2. Cardinality(Starts(other)) <= Cardinality(Starts(other)')
    BY <1>2, <1>3, <1>7, StartsStay, FS_Subset
  <2> QED BY <1>6, <1>8, <2>1, <2>2
<1>10. CASE other = code
  <2> DEFINE new == Len(events) + 1
             S == Sessions(code) \cup {t}
             E == Starts(code) \cup {new}
  <2>1. new \notin Starts(code) /\ E \subseteq Starts(code)'
    <3>1. new \in 1 .. Len(events') /\ events'[new] = e
      BY <1>2, <1>3, <1>5, LogKeeps
    <3>2. Starts(code) \subseteq Starts(code)'
      BY <1>2, <1>3, StartsStay
    <3> QED BY <1>1, <1>3, <3>1, <3>2 DEF Starts, CodeTimeline
  <2>2. IsFiniteSet(S) /\ Cardinality(S) \in Nat /\ Cardinality(S) <= Cardinality(Sessions(code)) + 1
    <3>1. IsFiniteSet(Sessions(code)) /\ Cardinality(Sessions(code)) \in Nat
      BY <1>8, <1>10
    <3>2. /\ IsFiniteSet(S)
          /\ \/ Cardinality(S) = Cardinality(Sessions(code))
             \/ Cardinality(S) = Cardinality(Sessions(code)) + 1
      BY <3>1, FS_AddElement
    <3> HIDE DEF S
    <3> QED BY <3>1, <3>2
  <2>3. Cardinality(E) = Cardinality(Starts(code)) + 1
    BY <1>8, <1>10, <2>1, FS_AddElement
  <2>4. Cardinality(E) <= Cardinality(Starts(code)')
    BY <1>7, <1>10, <2>1, FS_Subset
  <2>5. Cardinality(Sessions(code)') <= Cardinality(S) /\ Cardinality(Sessions(code)') \in Nat
    BY <1>10, <2>2, FS_Subset, FS_CardinalityType
  <2> HIDE DEF S, E
  <2> QED BY <1>6, <1>8, <1>10, <2>2, <2>3, <2>4, <2>5
<1> QED BY <1>9, <1>10

(* What was due stays so when the job goes on.                             *)
LEMMA DueStays ==
  ASSUME AccessTypeOK, NEW e, LogGrows(e) \/ events' = events,
         NEW n \in 1 .. Len(events), EventIsDue(n),
         job'[events[n].job].session = job[events[n].job].session,
         job'[events[n].job].step \in {"extracting", "over"},
         job'[events[n].job].step = "extracting" => job[events[n].job].step = "extracting"
  PROVE  EventIsDue(n)'
<1>1. Len(events) \in Nat /\ \A m \in 1 .. Len(events) : events'[m] = events[m]
  BY LogKeeps DEF AccessTypeOK
<1>2. events'[n] = events[n] /\ \A m \in 1 .. n - 1 : events'[m] = events[m]
  BY <1>1
<1>3. PICK c : c = events[n].code
  OBVIOUS
<1>4. \E m \in Starts(c)' : m < n
  <2>1. \E m \in Starts(c) : m < n
    BY <1>3 DEF EventIsDue
  <2> QED BY <2>1, StartsStay
<1>5. (\E m \in Starts(events[n].code) : m < n)'
  BY <1>2, <1>3, <1>4 DEF Starts, CodeTimeline
<1> QED BY <1>2, <1>5 DEF EventIsDue

\* What the log takes that is no job's.
StartOf(code) == [code |-> code, type |-> "session_start", job |-> Nobody]

LEMMA StartFacts ==
  ASSUME NEW code \in Codes
  PROVE  /\ StartOf(code) \in Event
         /\ StartOf(code).type = "session_start" /\ StartOf(code).job = Nobody
BY DEF StartOf, Event, EventTypes

(* A step after which nobody holds a token that he did not hold before, and *)
(* no token is good for anybody else.                                      *)
LEMMA SessionsStay ==
  ASSUME AccessInv, NEW e, LogGrows(e) \/ events' = events,
         \A t \in Tokens : token'[t] = token[t] \/ ~token'[t].valid,
         \A t \in Tokens : Held(t)' => Held(t),
         \A r \in Requests : request'[r] = request[r] \/ Gated(r)'
  PROVE  EverySessionCounted' /\ TokensWereSigned' /\ RequestsWereGated'
<1>1. EverySessionCounted'
  <2>1. ASSUME NEW code \in Codes, NEW t \in Tokens, (SessionCode(t) = code)' PROVE SessionCode(t) = code
    <3>1. code # Nobody
      BY AccessAssumption
    <3> QED BY <2>1, <3>1 DEF SessionCode, Valid
  <2>2. \A code \in Codes : Sessions(code)' \subseteq Sessions(code)
    BY <2>1 DEF Sessions
  <2> QED BY <2>2, CountsStay
<1>2. TokensWereSigned'
  <2> SUFFICES ASSUME NEW t \in Tokens, token'[t].valid
               PROVE  /\ token'[t].sub \in Codes \cup {Admin}
                      /\ token'[t].sub \in Codes => (Begun(token[t].sub))'
    BY DEF TokensWereSigned
  <2>1. token'[t] = token[t] /\ token[t].sub \in Codes \cup {Admin}
        /\ (token[t].sub \in Codes => Begun(token[t].sub))
    BY DEF AccessInv, TokensWereSigned
  <2>2. PICK c : c = token[t].sub
    OBVIOUS
  <2>3. c \in Codes => Begun(c)'
    BY <2>1, <2>2, StartsStay DEF AccessInv
  <2>4. c = token'[t].sub
    BY <2>1, <2>2
  <2> QED BY <2>1, <2>3, <2>4 DEF Begun, Starts, CodeTimeline
<1>3. RequestsWereGated'
  <2> SUFFICES ASSUME NEW r \in Requests, request'[r] = request[r] PROVE Gated(r)'
    BY DEF RequestsWereGated
  <2>1. Gated(r)
    BY DEF AccessInv, RequestsWereGated
  <2>2. PICK c : c = request[r].code
    OBVIOUS
  <2>3. Begun(c) => Begun(c)'
    BY StartsStay DEF AccessInv
  <2>4. Begun(request[r].code) => (Begun(request[r].code))'
    BY <2>2, <2>3 DEF Begun, Starts, CodeTimeline
  <2>5. request[r].token \in Tokens /\ token[request[r].token].valid' => token'[request[r].token] = token[request[r].token]
    OBVIOUS
  <2> QED BY <2>1, <2>4, <2>5 DEF Gated, At
<1> QED BY <1>1, <1>2, <1>3

(* A step of no job.                                                       *)
LEMMA JobsStay ==
  ASSUME AccessInv, job' = job, NEW e, e.type = "session_start", e.job = Nobody,
         LogGrows(e) \/ events' = events
  PROVE  JobsWereStarted' /\ LogWasDue'
<1>1. JobsWereStarted'
  <2> SUFFICES ASSUME NEW j \in Jobs, job[j].step # "none"
               PROVE  (Begun(job[j].session))'
    BY DEF AccessInv, JobsWereStarted
  <2>1. PICK c : c = job[j].session
    OBVIOUS
  <2>2. Begun(c)'
    BY <2>1, StartsStay DEF AccessInv, JobsWereStarted
  <2> QED BY <2>1, <2>2 DEF Begun, Starts, CodeTimeline
<1>2. LogWasDue'
  <2>1. AccessTypeOK /\ LogWasDue
    BY DEF AccessInv
  <2> SUFFICES ASSUME NEW n \in 1 .. Len(events')
               PROVE  IF events'[n].type = "session_start" THEN events'[n].job = Nobody
                      ELSE EventIsDue(n)'
    BY DEF LogWasDue
  <2>2. CASE n \in 1 .. Len(events)
    <3>1. events'[n] = events[n]
      BY <2>1, <2>2, LogKeeps
    <3>2. CASE events[n].type = "session_start"
      BY <2>1, <2>2, <3>1, <3>2 DEF LogWasDue
    <3>3. CASE events[n].type # "session_start"
      <4>1. EventIsDue(n)
        BY <2>1, <2>2, <3>3 DEF LogWasDue
      <4>2. /\ job'[events[n].job].session = job[events[n].job].session
            /\ job'[events[n].job].step \in {"extracting", "over"}
            /\ job'[events[n].job].step = "extracting" => job[events[n].job].step = "extracting"
        BY <4>1 DEF EventIsDue
      <4>3. EventIsDue(n)'
        BY <2>1, <2>2, <4>1, <4>2, DueStays
      <4> QED BY <3>1, <3>3, <4>3
    <3> QED BY <3>2, <3>3
  <2>3. CASE n \notin 1 .. Len(events)
    <3>1. LogGrows(e) /\ events'[n] = e
      BY <2>1, <2>3, LogKeeps
    <3> QED BY <3>1
  <2> QED BY <2>2, <2>3
<1> QED BY <1>1, <1>2

-----------------------------------------------------------------------------
LEMMA AccessInitHolds == Init => AccessInv
<1> SUFFICES ASSUME Init PROVE AccessInv
  OBVIOUS
<1>1. MaxEvents \in Nat /\ Nobody \notin Codes \cup Tokens \cup Jobs \cup {Admin}
  BY AccessAssumption
<1>2. events = <<>> /\ Len(events) = 0
  BY DEF Init
<1>3. AccessTypeOK
  <2>1. codes \in [Codes -> CodeState] /\ token \in [Tokens -> Token] /\ job \in [Jobs -> Job]
    BY DEF Init, CodeState, Token, Expired, Job, JobStep
  <2>2. cookie \in [Browsers -> [session : Tokens \cup {Nobody}, admin : Tokens \cup {Nobody}]]
    BY DEF Init
  <2>3. request \in [Requests -> Request]
    BY DEF Init, NoRequest, Request, Kinds, Steps
  <2> QED BY <1>1, <1>2, <2>1, <2>2, <2>3 DEF AccessTypeOK
<1>4. EverySessionCounted
  <2>1. \A code \in Codes : Sessions(code) = {} /\ Starts(code) = {}
    BY <1>1, <1>2 DEF Init, Sessions, SessionCode, Valid, Expired, Starts, CodeTimeline
  <2>2. \A code \in Codes : Cardinality(Sessions(code)) = 0 /\ Cardinality(Starts(code)) = 0
    BY <2>1, FS_EmptySet
  <2> QED BY <2>2, CountsAreCardinalities
<1>5. TokensWereSigned /\ JobsWereStarted /\ LogWasDue
  BY <1>2 DEF Init, TokensWereSigned, Expired, JobsWereStarted, LogWasDue
<1>6. RequestsWereGated
  BY DEF Init, RequestsWereGated, Gated, NoRequest, At
<1> QED BY <1>3, <1>4, <1>5, <1>6 DEF AccessInv

\* A handler that ends leaves no token with the request.
LEMMA OverFacts ==
  ASSUME AccessTypeOK, NEW r \in Requests, Over(r)
  PROVE  /\ request' \in [Requests -> Request]
         /\ \A q \in Requests : request'[q] = request[q] \/ Gated(q)'
         /\ cookie' = cookie => \A t \in Tokens : Held(t)' => Held(t)
<1>1. request' = [request EXCEPT ![r] = NoRequest] /\ request \in [Requests -> Request]
  BY DEF Over, AccessTypeOK
<1>2. NoRequest \in Request /\ NoRequest.token = Nobody /\ NoRequest.kind = "none"
  BY DEF NoRequest, Request, Kinds, Steps
<1>3. \A t \in Tokens : t # Nobody
  BY AccessAssumption
<1>4. Gated(r)'
  BY <1>1, <1>2 DEF Gated, At
<1> QED BY <1>1, <1>2, <1>3, <1>4 DEF Held, HeldByBrowser

\* A handler that goes on has the token and the code that it had.
LEMMA GoesOnFacts ==
  ASSUME AccessTypeOK, NEW r \in Requests, NEW step \in Steps, GoesTo(r, step)
  PROVE  /\ request' \in [Requests -> Request]
         /\ \A q \in Requests : q # r => request'[q] = request[q]
         /\ request'[r].kind = request[r].kind /\ request'[r].code = request[r].code
         /\ request'[r].token = request[r].token /\ request'[r].step = step
         /\ cookie' = cookie => \A t \in Tokens : Held(t)' => Held(t)
<1>1. request' = [request EXCEPT ![r].step = step] /\ request \in [Requests -> Request]
  BY DEF GoesTo, AccessTypeOK
<1>2. request[r] \in Request
  BY <1>1
<1>3. /\ request'[r] \in Request
      /\ request'[r].kind = request[r].kind /\ request'[r].code = request[r].code
      /\ request'[r].token = request[r].token /\ request'[r].step = step
  BY <1>1, <1>2 DEF Request
<1>4. \A q \in Requests : q # r => request'[q] = request[q]
  BY <1>1
<1>5. request' \in [Requests -> Request]
  BY <1>1, <1>3, <1>4
<1>6. ASSUME cookie' = cookie, NEW t \in Tokens, Held(t)' PROVE Held(t)
  BY <1>3, <1>4, <1>6 DEF Held, HeldByBrowser
<1> QED BY <1>3, <1>4, <1>5, <1>6

\* No token is good that was not, and nobody holds one that nobody held.
NobodyGains ==
  /\ \A t \in Tokens : token'[t] = token[t] \/ ~token'[t].valid
  /\ \A t \in Tokens : Held(t)' => Held(t)

(* A step of a request that signs nothing and records nothing.             *)
LEMMA QuietStepKeeps ==
  ASSUME AccessInv, UNCHANGED <<events, job>>, AccessTypeOK',
         \A t \in Tokens : token'[t] = token[t] \/ ~token'[t].valid,
         \A t \in Tokens : Held(t)' => Held(t),
         \A r \in Requests : request'[r] = request[r] \/ Gated(r)'
  PROVE  AccessInv' /\ NobodyGains
<1>1. PICK e : e = [type |-> "session_start", job |-> Nobody]
  OBVIOUS
<1>2. e.type = "session_start" /\ e.job = Nobody
  BY <1>1
<1>3. EverySessionCounted' /\ TokensWereSigned' /\ RequestsWereGated'
  BY SessionsStay
<1>4. JobsWereStarted' /\ LogWasDue'
  BY <1>2, JobsStay
<1> QED BY <1>3, <1>4 DEF AccessInv, NobodyGains

LEMMA SendKeeps ==
  ASSUME AccessInv, NEW r \in Requests, Send(r) PROVE AccessInv' /\ NobodyGains
<1>1. request[r] = NoRequest /\ UNCHANGED <<registry, token, cookie, job>>
      /\ request \in [Requests -> Request] /\ AccessTypeOK
  BY DEF Send, AccessInv, AccessTypeOK
<1>2. PICK new : /\ request' = [request EXCEPT ![r] = new]
                 /\ new \in Request /\ new.step \in {"validate", "sign", "gate"}
                 /\ new.step = "validate" => new.code \in Codes
                 /\ \E b \in Browsers : new.token \in {Nobody, cookie[b].session, cookie[b].admin}
  <2>1. PICK b \in Browsers :
       \/ \E code \in Codes :
            request' = [request EXCEPT ![r] =
              [kind |-> "auth", step |-> "validate", by |-> b, code |-> code, token |-> Nobody]]
       \/ request' = [request EXCEPT ![r] =
            [kind |-> "adminAuth", step |-> "sign", by |-> b, code |-> Nobody, token |-> Nobody]]
       \/ request' = [request EXCEPT ![r] =
            [kind |-> "extract", step |-> "gate", by |-> b, code |-> Nobody,
             token |-> cookie[b].session]]
       \/ request' = [request EXCEPT ![r] =
            [kind |-> "create", step |-> "gate", by |-> b, code |-> Nobody,
             token |-> cookie[b].admin]]
       \/ \E code \in Codes :
            request' = [request EXCEPT ![r] =
              [kind |-> "revoke", step |-> "gate", by |-> b, code |-> code,
               token |-> cookie[b].admin]]
    BY DEF Send
  <2>2. cookie[b].session \in Tokens \cup {Nobody} /\ cookie[b].admin \in Tokens \cup {Nobody}
    BY <1>1 DEF AccessTypeOK
  <2> DEFINE Fits(new) == /\ new \in Request /\ new.step \in {"validate", "sign", "gate"}
                          /\ new.step = "validate" => new.code \in Codes
                          /\ \E c \in Browsers : new.token \in {Nobody, cookie[c].session, cookie[c].admin}
  <2>3. \A code \in Codes :
          Fits([kind |-> "auth", step |-> "validate", by |-> b, code |-> code, token |-> Nobody])
    BY DEF Request, Kinds, Steps
  <2>4. Fits([kind |-> "adminAuth", step |-> "sign", by |-> b, code |-> Nobody, token |-> Nobody])
    BY DEF Request, Kinds, Steps
  <2>5. Fits([kind |-> "extract", step |-> "gate", by |-> b, code |-> Nobody,
              token |-> cookie[b].session])
    BY <2>2 DEF Request, Kinds, Steps
  <2>6. Fits([kind |-> "create", step |-> "gate", by |-> b, code |-> Nobody,
              token |-> cookie[b].admin])
    BY <2>2 DEF Request, Kinds, Steps
  <2>7. \A code \in Codes :
          Fits([kind |-> "revoke", step |-> "gate", by |-> b, code |-> code,
                token |-> cookie[b].admin])
    BY <2>2 DEF Request, Kinds, Steps
  <2> HIDE DEF Fits
  <2>8. \E new : request' = [request EXCEPT ![r] = new] /\ Fits(new)
    BY <2>1, <2>3, <2>4, <2>5, <2>6, <2>7
  <2> QED BY <2>8 DEF Fits
<1>3. \A q \in Requests : q # r => request'[q] = request[q]
  BY <1>1, <1>2
<1>4. request'[r] = new
  BY <1>1, <1>2
<1>5. Gated(r)'
  BY <1>2, <1>4 DEF Gated, At
<1>6. ASSUME NEW t \in Tokens, Held(t)' PROVE Held(t)
  <2>1. t # Nobody
    BY AccessAssumption
  <2> QED BY <1>1, <1>2, <1>3, <1>4, <1>6, <2>1 DEF Held, HeldByBrowser
<1>7. AccessTypeOK'
  <2>1. request' \in [Requests -> Request]
    BY <1>1, <1>2
  <2> QED BY <1>1, <2>1 DEF AccessTypeOK, registry
<1> QED BY <1>1, <1>3, <1>5, <1>6, <1>7, QuietStepKeeps DEF registry

LEMMA ValidateKeeps ==
  ASSUME AccessInv, NEW r \in Requests, Validate(r) PROVE AccessInv' /\ NobodyGains
<1>1. /\ At(r, "auth", "validate") /\ UNCHANGED <<registry, token, cookie, job>> /\ AccessTypeOK
      /\ GoesTo(r, "record") \/ Over(r)
  BY DEF Validate, AccessInv
<1>2. CASE Over(r)
  <2>1. AccessTypeOK'
    BY <1>1, <1>2, OverFacts DEF AccessTypeOK, registry
  <2> QED BY <1>1, <1>2, <2>1, OverFacts, QuietStepKeeps DEF registry
<1>3. CASE GoesTo(r, "record")
  <2>1. "record" \in Steps
    BY DEF Steps
  <2>2. request[r].code \in Codes
    BY <1>1 DEF AccessInv, RequestsWereGated, Gated, At
  <2>3. Gated(r)'
    BY <1>1, <1>3, <2>1, <2>2, GoesOnFacts DEF Gated, At
  <2>4. AccessTypeOK'
    BY <1>1, <1>3, <2>1, GoesOnFacts DEF AccessTypeOK, registry
  <2> QED BY <1>1, <1>3, <2>1, <2>3, <2>4, GoesOnFacts, QuietStepKeeps DEF registry
<1> QED BY <1>1, <1>2, <1>3

\* A token is signed that nobody holds.
LEMMA SignFacts ==
  ASSUME AccessTypeOK, NEW r \in Requests, NEW subject \in Codes \cup {Admin},
         SignSession(r, subject), cookie' = cookie
  PROVE  \E t \in Tokens :
           /\ ~Held(t)
           /\ token' = [token EXCEPT ![t] = [sub |-> subject, valid |-> TRUE]]
           /\ token' \in [Tokens -> Token] /\ token'[t] = [sub |-> subject, valid |-> TRUE]
           /\ \A u \in Tokens : u # t => token'[u] = token[u]
           /\ \A u \in Tokens : Held(u)' => Held(u) \/ u = t
           /\ request' \in [Requests -> Request]
           /\ \A q \in Requests : q # r => request'[q] = request[q]
           /\ request'[r].step = "answer"
<1>1. PICK t \in Tokens :
        /\ ~Held(t)
        /\ token' = [token EXCEPT ![t] = [sub |-> subject, valid |-> TRUE]]
        /\ request' = [request EXCEPT ![r].token = t, ![r].step = "answer"]
  BY DEF SignSession
<1>2. token \in [Tokens -> Token] /\ request \in [Requests -> Request] /\ request[r] \in Request
  BY DEF AccessTypeOK
<1>3. [sub |-> subject, valid |-> TRUE] \in Token
  BY DEF Token
<1>4. /\ token' \in [Tokens -> Token] /\ token'[t] = [sub |-> subject, valid |-> TRUE]
      /\ \A u \in Tokens : u # t => token'[u] = token[u]
  BY <1>1, <1>2, <1>3
<1>5. \A q \in Requests : q # r => request'[q] = request[q]
  BY <1>1, <1>2
<1>6. request'[r] \in Request /\ request'[r].step = "answer" /\ request'[r].token = t
  BY <1>1, <1>2 DEF Request, Steps
<1>7. request' \in [Requests -> Request]
  BY <1>1, <1>2, <1>5, <1>6
<1>8. \A u \in Tokens : Held(u)' => Held(u) \/ u = t
  BY <1>5, <1>6 DEF Held, HeldByBrowser
<1> QED BY <1>1, <1>4, <1>5, <1>6, <1>7, <1>8

\* Who holds a token that was not signed keeps it as it was.
LEMMA GatedStays ==
  ASSUME AccessInv, NEW e, LogGrows(e) \/ events' = events, NEW q \in Requests,
         request'[q] = request[q], NEW t \in Tokens, ~Held(t),
         \A u \in Tokens : u # t => token'[u] = token[u]
  PROVE  Gated(q)'
<1>1. Gated(q)
  BY DEF AccessInv, RequestsWereGated
<1>2. request[q].token # t
  BY DEF Held
<1>3. PICK c : c = request[q].code
  OBVIOUS
<1>4. Begun(c) => Begun(c)'
  BY StartsStay DEF AccessInv
<1>5. Begun(request[q].code) => (Begun(request[q].code))'
  BY <1>3, <1>4 DEF Begun, Starts, CodeTimeline
<1>6. request[q].token \in Tokens => token'[request[q].token] = token[request[q].token]
  BY <1>2
<1> QED BY <1>1, <1>5, <1>6 DEF Gated, At

LEMMA SignAdminKeeps == ASSUME AccessInv, NEW r \in Requests, SignAdmin(r) PROVE AccessInv'
<1>1. /\ At(r, "adminAuth", "sign") /\ UNCHANGED <<registry, cookie, job>> /\ AccessTypeOK
      /\ SignSession(r, Admin) \/ (Over(r) /\ UNCHANGED token)
  BY DEF SignAdmin, AccessInv
<1>2. CASE Over(r) /\ UNCHANGED token
  <2>1. AccessTypeOK'
    BY <1>1, <1>2, OverFacts DEF AccessTypeOK, registry
  <2> QED BY <1>1, <1>2, <2>1, OverFacts, QuietStepKeeps DEF registry
<1>3. CASE SignSession(r, Admin)
  <2>1. PICK t \in Tokens :
           /\ ~Held(t)
           /\ token' \in [Tokens -> Token] /\ token'[t] = [sub |-> Admin, valid |-> TRUE]
           /\ \A u \in Tokens : u # t => token'[u] = token[u]
           /\ \A u \in Tokens : Held(u)' => Held(u) \/ u = t
           /\ request' \in [Requests -> Request]
           /\ \A q \in Requests : q # r => request'[q] = request[q]
           /\ request'[r].step = "answer"
    BY <1>1, <1>3, SignFacts
  <2>2. AccessTypeOK'
    BY <1>1, <2>1 DEF AccessTypeOK, registry
  <2>3. PICK e : e = [type |-> "session_start", job |-> Nobody]
    OBVIOUS
  <2>4. e.type = "session_start" /\ e.job = Nobody /\ events' = events
    BY <1>1, <2>3 DEF registry
  <2>5. EverySessionCounted'
    <3>1. ASSUME NEW code \in Codes, NEW u \in Tokens, (SessionCode(u) = code)', Held(u)'
          PROVE  SessionCode(u) = code /\ Held(u)
      <4>1. code # Nobody
        BY AccessAssumption
      <4>2. u # t
        BY <2>1, <3>1, <4>1 DEF SessionCode
      <4> QED BY <2>1, <3>1, <4>1, <4>2 DEF SessionCode, Valid
    <3>2. \A code \in Codes : Sessions(code)' \subseteq Sessions(code)
      BY <3>1 DEF Sessions
    <3> QED BY <2>4, <3>2, CountsStay
  <2>6. TokensWereSigned'
    <3> SUFFICES ASSUME NEW u \in Tokens, token'[u].valid
                 PROVE  /\ token'[u].sub \in Codes \cup {Admin}
                        /\ token'[u].sub \in Codes => (Begun(token[u].sub))'
      BY DEF TokensWereSigned
    <3>1. CASE u = t
      BY <2>1, <3>1, AccessAssumption
    <3>2. CASE u # t
      BY <2>1, <2>4, <3>2 DEF AccessInv, TokensWereSigned, Begun, Starts, CodeTimeline
    <3> QED BY <3>1, <3>2
  <2>7. RequestsWereGated'
    <3>1. Gated(r)'
      BY <2>1 DEF Gated, At
    <3>2. ASSUME NEW q \in Requests, q # r PROVE Gated(q)'
      BY <2>1, <2>4, <3>2, GatedStays
    <3> QED BY <3>1, <3>2 DEF RequestsWereGated
  <2>8. JobsWereStarted' /\ LogWasDue'
    BY <1>1, <2>4, JobsStay
  <2> QED BY <2>2, <2>5, <2>6, <2>7, <2>8 DEF AccessInv
<1> QED BY <1>1, <1>2, <1>3

LEMMA RecordSessionKeeps == ASSUME AccessInv, NEW r \in Requests, RecordSession(r) PROVE AccessInv'
<1>1. /\ At(r, "auth", "record") /\ UNCHANGED <<codes, cookie, job>> /\ AccessTypeOK
  BY DEF RecordSession, AccessInv
<1>2. PICK code \in Codes : code = request[r].code
  BY <1>1 DEF AccessInv, RequestsWereGated, Gated, At
<1> DEFINE e == StartOf(code)
<1>3. e \in Event /\ e.type = "session_start" /\ e.job = Nobody
  BY StartFacts
<1>4. RecordEvent(request[r].code, "session_start", Nobody) => LogGrows(e)
  BY <1>2, <1>3 DEF RecordEvent, LogGrows, StartOf
<1>5. \/ LogGrows(e) /\ SignSession(r, code)
      \/ (LogGrows(e) \/ events' = events) /\ Over(r) /\ UNCHANGED token
  BY <1>2, <1>4 DEF RecordSession
<1> HIDE DEF e
<1>6. events' \in Seq(Event) /\ Len(events') <= MaxEvents
  BY <1>1, <1>5, LogKeeps DEF AccessTypeOK
<1>7. JobsWereStarted' /\ LogWasDue'
  BY <1>1, <1>3, <1>5, JobsStay
<1>8. CASE (LogGrows(e) \/ events' = events) /\ Over(r) /\ UNCHANGED token
  <2>1. AccessTypeOK'
    BY <1>1, <1>6, <1>8, OverFacts DEF AccessTypeOK
  <2>2. EverySessionCounted' /\ TokensWereSigned' /\ RequestsWereGated'
    BY <1>1, <1>8, OverFacts, SessionsStay
  <2> QED BY <1>7, <2>1, <2>2 DEF AccessInv
<1>9. CASE LogGrows(e) /\ SignSession(r, code)
  <2>1. PICK t \in Tokens :
           /\ ~Held(t)
           /\ token' \in [Tokens -> Token] /\ token'[t] = [sub |-> code, valid |-> TRUE]
           /\ \A u \in Tokens : u # t => token'[u] = token[u]
           /\ \A u \in Tokens : Held(u)' => Held(u) \/ u = t
           /\ request' \in [Requests -> Request]
           /\ \A q \in Requests : q # r => request'[q] = request[q]
           /\ request'[r].step = "answer"
    BY <1>1, <1>9, SignFacts
  <2>2. AccessTypeOK'
    BY <1>1, <1>6, <2>1 DEF AccessTypeOK
  <2>3. EverySessionCounted'
    <3>1. ASSUME NEW other \in Codes, NEW u \in Tokens, u # t, (SessionCode(u) = other)', Held(u)'
          PROVE  SessionCode(u) = other /\ Held(u)
      BY <2>1, <3>1 DEF SessionCode, Valid
    <3>2. ASSUME NEW other \in Codes, other # code PROVE (SessionCode(t) # other)'
      BY <2>1, <3>2, AccessAssumption DEF SessionCode
    <3>3. \A other \in Codes : Sessions(other)' \subseteq
            IF other = code THEN Sessions(code) \cup {t} ELSE Sessions(other)
      BY <3>1, <3>2 DEF Sessions
    <3> QED BY <1>9, <3>3, CountsGrow DEF e, StartOf
  <2>4. Begun(code)'
    BY <1>1, <1>9, RecordedBegins DEF e, StartOf
  <2>5. TokensWereSigned'
    <3> SUFFICES ASSUME NEW u \in Tokens, token'[u].valid
                 PROVE  /\ token'[u].sub \in Codes \cup {Admin}
                        /\ token'[u].sub \in Codes => (Begun(token[u].sub))'
      BY DEF TokensWereSigned
    <3>1. CASE u = t
      BY <2>1, <2>4, <3>1 DEF Begun, Starts, CodeTimeline
    <3>2. CASE u # t
      <4>1. token'[u] = token[u] /\ token[u].sub \in Codes \cup {Admin}
            /\ (token[u].sub \in Codes => Begun(token[u].sub))
        BY <2>1, <3>2 DEF AccessInv, TokensWereSigned
      <4>2. PICK c : c = token[u].sub
        OBVIOUS
      <4>3. c \in Codes => Begun(c)'
        BY <1>1, <1>9, <4>1, <4>2, StartsStay
      <4>4. c = token'[u].sub
        BY <4>1, <4>2
      <4> QED BY <4>1, <4>3, <4>4 DEF Begun, Starts, CodeTimeline
    <3> QED BY <3>1, <3>2
  <2>6. RequestsWereGated'
    <3>1. Gated(r)'
      BY <2>1 DEF Gated, At
    <3>2. ASSUME NEW q \in Requests, q # r PROVE Gated(q)'
      BY <1>9, <2>1, <3>2, GatedStays
    <3> QED BY <3>1, <3>2 DEF RequestsWereGated
  <2> QED BY <1>7, <2>2, <2>3, <2>5, <2>6 DEF AccessInv
<1> QED BY <1>5, <1>8, <1>9

LEMMA AnswerKeeps ==
  ASSUME AccessInv, NEW r \in Requests, Answer(r) PROVE AccessInv' /\ NobodyGains
<1>1. request[r].step = "answer" /\ Over(r) /\ UNCHANGED <<registry, token, job>> /\ AccessTypeOK
  BY DEF Answer, AccessInv
<1>2. PICK name \in {"session", "admin"} :
        cookie' \in {cookie, [cookie EXCEPT ![request[r].by][name] = request[r].token]}
  BY DEF Answer
<1>3. /\ cookie \in [Browsers -> [session : Tokens \cup {Nobody}, admin : Tokens \cup {Nobody}]]
      /\ request \in [Requests -> Request] /\ request[r].token \in Tokens \cup {Nobody}
  BY <1>1 DEF AccessTypeOK, Request
<1>4. cookie' \in [Browsers -> [session : Tokens \cup {Nobody}, admin : Tokens \cup {Nobody}]]
  BY <1>2, <1>3
<1>5. \A b \in Browsers :
        /\ cookie'[b].session \in {cookie[b].session, request[r].token}
        /\ cookie'[b].admin \in {cookie[b].admin, request[r].token}
  BY <1>2, <1>3
<1>6. /\ request' \in [Requests -> Request]
      /\ \A q \in Requests : request'[q] = request[q] \/ Gated(q)'
  BY <1>1, OverFacts
<1>7. ASSUME NEW t \in Tokens, Held(t)' PROVE Held(t)
  <2>1. request' = [request EXCEPT ![r] = NoRequest] /\ NoRequest.token = Nobody /\ t # Nobody
    BY <1>1, AccessAssumption DEF Over, NoRequest
  <2>2. CASE HeldByBrowser(t)'
    BY <1>5, <2>2 DEF Held, HeldByBrowser
  <2>3. CASE \E q \in Requests : request'[q].token = t
    BY <1>3, <2>1, <2>3 DEF Held
  <2> QED BY <1>7, <2>2, <2>3 DEF Held
<1>8. AccessTypeOK'
  BY <1>1, <1>4, <1>6 DEF AccessTypeOK, registry
<1> QED BY <1>1, <1>6, <1>7, <1>8, QuietStepKeeps DEF registry

LEMMA LogoutKeeps ==
  ASSUME AccessInv, NEW b \in Browsers, Logout(b) PROVE AccessInv' /\ NobodyGains
<1>1. UNCHANGED <<registry, token, request, job>> /\ AccessTypeOK
  BY DEF Logout, AccessInv
<1>2. PICK name \in {"session", "admin"} : cookie' = [cookie EXCEPT ![b][name] = Nobody]
  BY DEF Logout
<1>3. cookie \in [Browsers -> [session : Tokens \cup {Nobody}, admin : Tokens \cup {Nobody}]]
  BY <1>1 DEF AccessTypeOK
<1>4. /\ cookie' \in [Browsers -> [session : Tokens \cup {Nobody}, admin : Tokens \cup {Nobody}]]
      /\ \A c \in Browsers : /\ cookie'[c].session \in {cookie[c].session, Nobody}
                             /\ cookie'[c].admin \in {cookie[c].admin, Nobody}
  BY <1>2, <1>3
<1>5. ASSUME NEW t \in Tokens, Held(t)' PROVE Held(t)
  BY <1>1, <1>4, <1>5, AccessAssumption DEF Held, HeldByBrowser
<1>6. AccessTypeOK'
  BY <1>1, <1>4 DEF AccessTypeOK, registry
<1> QED BY <1>1, <1>5, <1>6, QuietStepKeeps DEF registry

LEMMA ExpiresKeeps ==
  ASSUME AccessInv, NEW t \in Tokens, Expires(t) PROVE AccessInv' /\ NobodyGains
<1>1. /\ UNCHANGED <<registry, cookie, request, job>> /\ token' = [token EXCEPT ![t] = Expired]
      /\ AccessTypeOK /\ token \in [Tokens -> Token]
  BY DEF Expires, AccessInv, AccessTypeOK
<1>2. Expired \in Token /\ ~Expired.valid
  BY DEF Expired, Token
<1>3. AccessTypeOK'
  BY <1>1, <1>2 DEF AccessTypeOK, registry
<1>4. \A u \in Tokens : token'[u] = token[u] \/ ~token'[u].valid
  BY <1>1, <1>2
<1>5. \A u \in Tokens : Held(u)' => Held(u)
  BY <1>1 DEF Held, HeldByBrowser
<1> QED BY <1>1, <1>3, <1>4, <1>5, QuietStepKeeps DEF registry

LEMMA GateKeeps ==
  ASSUME AccessInv, NEW r \in Requests, Gate(r) PROVE AccessInv' /\ NobodyGains
<1>1. request[r].step = "gate" /\ UNCHANGED <<registry, token, cookie, job>> /\ AccessTypeOK
  BY DEF Gate, AccessInv
<1>2. CASE Over(r)
  <2>1. AccessTypeOK'
    BY <1>1, <1>2, OverFacts DEF AccessTypeOK, registry
  <2> QED BY <1>1, <1>2, <2>1, OverFacts, QuietStepKeeps DEF registry
<1>3. CASE GoesTo(r, "call")
  <2>1. "call" \in Steps
    BY DEF Steps
  <2>2. Gated(r)'
    BY <1>1, <1>3, <2>1, GoesOnFacts DEF Gated, At
  <2>3. AccessTypeOK'
    BY <1>1, <1>3, <2>1, GoesOnFacts DEF AccessTypeOK, registry
  <2> QED BY <1>1, <1>3, <2>1, <2>2, <2>3, GoesOnFacts, QuietStepKeeps DEF registry
<1>4. CASE /\ request[r].kind = "extract" /\ PassesSession(request[r].token)
           /\ request' = [request EXCEPT ![r].code = token[request[r].token].sub,
                                         ![r].step = "preflight"]
  <2> DEFINE t == request[r].token
             sub == token[t].sub
  <2>1. request \in [Requests -> Request] /\ request[r] \in Request /\ t \in Tokens \cup {Nobody}
    BY <1>1 DEF AccessTypeOK, Request
  <2>2. t \in Tokens /\ token[t].valid /\ sub # Admin
    BY <1>4, <2>1 DEF PassesSession, SessionCode, Valid
  <2>3. sub \in Codes /\ Begun(sub)
    BY <2>2 DEF AccessInv, TokensWereSigned
  <2>4. \A q \in Requests : q # r => request'[q] = request[q]
    BY <1>4, <2>1
  <2>5. /\ request'[r] \in Request /\ request'[r].step = "preflight" /\ request'[r].kind = "extract"
        /\ request'[r].token = t /\ request'[r].code = sub
    BY <1>4, <2>1, <2>3 DEF Request, Steps
  <2>6. request' \in [Requests -> Request]
    BY <1>4, <2>1, <2>4, <2>5
  <2>7. AccessTypeOK'
    BY <1>1, <2>6 DEF AccessTypeOK, registry
  <2>8. \A u \in Tokens : Held(u)' => Held(u)
    BY <1>1, <2>4, <2>5 DEF Held, HeldByBrowser
  <2>9. Gated(r)'
    BY <1>1, <2>2, <2>3, <2>5 DEF Gated, At, Begun, Starts, CodeTimeline, registry
  <2> HIDE DEF t, sub
  <2> QED BY <1>1, <2>4, <2>7, <2>8, <2>9, QuietStepKeeps DEF registry
<1> QED BY <1>2, <1>3, <1>4 DEF Gate

LEMMA AdminCallKeeps ==
  ASSUME AccessInv, NEW r \in Requests, AdminCall(r) PROVE AccessInv' /\ NobodyGains
<1>1. Over(r) /\ UNCHANGED <<events, token, cookie, job>> /\ AccessTypeOK
      /\ codes \in [Codes -> CodeState]
  BY DEF AdminCall, AccessInv, AccessTypeOK
<1>2. codes' \in [Codes -> CodeState]
  <2>1. CASE CreateCode
    BY <1>1, <2>1 DEF CreateCode, CodeState
  <2>2. CASE RevokeCode(request[r].code)
    BY <1>1, <2>2 DEF RevokeCode, CodeState
  <2> QED BY <1>1, <2>1, <2>2 DEF AdminCall
<1>3. AccessTypeOK'
  BY <1>1, <1>2, OverFacts DEF AccessTypeOK
<1> QED BY <1>1, <1>3, OverFacts, QuietStepKeeps

LEMMA PreflightFailsKeeps ==
  ASSUME AccessInv, NEW r \in Requests, PreflightFails(r) PROVE AccessInv' /\ NobodyGains
<1>1. Over(r) /\ UNCHANGED <<registry, token, cookie, job>> /\ AccessTypeOK
  BY DEF PreflightFails, AccessInv
<1>2. AccessTypeOK'
  BY <1>1, OverFacts DEF AccessTypeOK, registry
<1> QED BY <1>1, <1>2, OverFacts, QuietStepKeeps DEF registry

LEMMA StartKeeps ==
  ASSUME AccessInv, NEW r \in Requests, Start(r) PROVE AccessInv' /\ NobodyGains
<1>1. /\ At(r, "extract", "preflight") /\ Over(r) /\ UNCHANGED <<registry, token, cookie>>
      /\ AccessTypeOK /\ events' = events
  BY DEF Start, AccessInv, registry
<1> DEFINE code == SessionCode(request[r].token)
<1>0. PICK session : session = request[r].code
  OBVIOUS
<1>2. PICK j \in Jobs : /\ job[j].step = "none"
                        /\ job' = [job EXCEPT ![j] = [step |-> "indexing", code |-> code,
                                                      session |-> session]]
  BY <1>0 DEF Start
<1>3. /\ request[r].token \in Tokens /\ session \in Codes /\ Begun(session)
      /\ token[request[r].token].valid => token[request[r].token].sub = session
  BY <1>0, <1>1 DEF AccessInv, RequestsWereGated, Gated
<1>4. code \in {session, Nobody}
  BY <1>3 DEF SessionCode, Valid
<1> HIDE DEF code
<1>5. job \in [Jobs -> Job]
  BY <1>1 DEF AccessTypeOK
<1>6. job' \in [Jobs -> Job]
  <2>1. [step |-> "indexing", code |-> code, session |-> session] \in Job
    BY <1>3, <1>4 DEF Job, JobStep
  <2> QED BY <1>2, <1>5, <2>1
<1>7. job'[j].session = session /\ job'[j].code = code /\ job'[j].step = "indexing"
      /\ \A i \in Jobs : i # j => job'[i] = job[i]
  BY <1>2, <1>5
<1>8. AccessTypeOK'
  BY <1>1, <1>6, OverFacts DEF AccessTypeOK, registry
<1>9. EverySessionCounted' /\ TokensWereSigned' /\ RequestsWereGated'
  BY <1>1, OverFacts, SessionsStay DEF registry
<1>10. JobsWereStarted'
  <2>1. Begun(session)'
    BY <1>1, <1>3 DEF Begun, Starts, CodeTimeline
  <2>2. ASSUME NEW i \in Jobs, i # j, job'[i].step # "none"
        PROVE  /\ job'[i].session \in Codes /\ (Begun(job[i].session))'
               /\ job'[i].code \in {job'[i].session, Nobody}
    <3>1. job'[i] = job[i] /\ events' = events
      BY <1>1, <1>7, <2>2
    <3>2. job[i].session \in Codes /\ Begun(job[i].session) /\ job[i].code \in {job[i].session, Nobody}
      BY <2>2, <3>1 DEF AccessInv, JobsWereStarted
    <3>3. (Begun(job[i].session))'
      BY <3>1, <3>2 DEF Begun, Starts, CodeTimeline
    <3> QED BY <3>1, <3>2, <3>3
  <2>3. (Begun(job[j].session))'
    BY <1>1, <1>3, <1>7 DEF Begun, Starts, CodeTimeline
  <2> QED BY <1>3, <1>4, <1>7, <2>2, <2>3 DEF JobsWereStarted
<1>11. LogWasDue'
  <2> SUFFICES ASSUME NEW n \in 1 .. Len(events), events[n].type # "session_start"
               PROVE  EventIsDue(n)'
    BY <1>1 DEF AccessInv, LogWasDue
  <2>1. EventIsDue(n)
    BY DEF AccessInv, LogWasDue
  <2>2. events[n].job \in Jobs /\ events[n].job # j
    BY <1>2, <2>1 DEF EventIsDue
  <2>3. job'[events[n].job] = job[events[n].job]
    BY <1>7, <2>2
  <2> QED BY <1>1, <2>1, <2>3 DEF EventIsDue, Starts, CodeTimeline
<1>12. NobodyGains
  BY <1>1, OverFacts DEF NobodyGains
<1> QED BY <1>8, <1>9, <1>10, <1>11, <1>12 DEF AccessInv

(* A step of a job: what the log takes, if anything, is due.               *)
LEMMA JobStepKeeps ==
  ASSUME AccessInv, UNCHANGED <<codes, token, cookie, request>>, NEW j \in Jobs,
         NEW step \in {"extracting", "over"}, job' = [job EXCEPT ![j].step = step],
         job[j].step # "none", NEW e, e.job = j,
         events' = events \/ (LogGrows(e) /\ e.code = job[j].code),
         LogGrows(e) => e.type \in {"job_started", "job_completed"},
         \/ /\ job[j].step = "indexing"
            /\ LogGrows(e) => e.type = "job_started"
         \/ /\ job[j].step = "extracting" /\ step = "over"
            /\ LogGrows(e) => e.type = "job_completed"
  PROVE  AccessInv'
<1>1. AccessTypeOK /\ job \in [Jobs -> Job] /\ job[j] \in Job /\ events \in Seq(Event)
      /\ Len(events) \in Nat /\ Len(events) <= MaxEvents
  BY DEF AccessInv, AccessTypeOK
<1>2. /\ job'[j] \in Job /\ job'[j].step = step
      /\ job'[j].code = job[j].code /\ job'[j].session = job[j].session
      /\ \A i \in Jobs : i # j => job'[i] = job[i]
  BY <1>1 DEF Job, JobStep
<1>3. AccessTypeOK'
  <2>1. job' \in [Jobs -> Job]
    BY <1>1, <1>2
  <2>2. events' \in Seq(Event) /\ Len(events') <= MaxEvents
    BY <1>1, LogKeeps
  <2> QED BY <1>1, <2>1, <2>2 DEF AccessTypeOK
<1>4. EverySessionCounted' /\ TokensWereSigned' /\ RequestsWereGated'
  <2>1. \A t \in Tokens : Held(t)' => Held(t)
    BY DEF Held, HeldByBrowser
  <2> QED BY <2>1, SessionsStay
<1>5. JobsWereStarted'
  <2> SUFFICES ASSUME NEW i \in Jobs, job'[i].step # "none"
               PROVE  /\ job'[i].session \in Codes /\ (Begun(job[i].session))'
                      /\ job'[i].code \in {job'[i].session, Nobody}
    BY DEF JobsWereStarted
  <2>1. job'[i].session = job[i].session /\ job'[i].code = job[i].code /\ job[i].step # "none"
    BY <1>2
  <2>2. job[i].session \in Codes /\ Begun(job[i].session) /\ job[i].code \in {job[i].session, Nobody}
    BY <2>1 DEF AccessInv, JobsWereStarted
  <2>3. PICK c : c = job[i].session
    OBVIOUS
  <2>4. Begun(c)'
    BY <1>1, <2>2, <2>3, StartsStay
  <2>5. c = job'[i].session
    BY <2>1, <2>3
  <2> QED BY <2>1, <2>2, <2>4, <2>5 DEF Begun, Starts, CodeTimeline
<1>6. ASSUME NEW n \in 1 .. Len(events), events[n].type # "session_start", events[n].job = j
      PROVE  job[j].step = "extracting" /\ events[n].type = "job_started"
  BY <1>6 DEF AccessInv, LogWasDue, EventIsDue
<1>7. ASSUME NEW n \in 1 .. Len(events)
      PROVE  IF events'[n].type = "session_start" THEN events'[n].job = Nobody ELSE EventIsDue(n)'
  <2>1. events'[n] = events[n]
    BY <1>1, <1>7, LogKeeps
  <2>2. CASE events[n].type = "session_start"
    BY <1>7, <2>1, <2>2 DEF AccessInv, LogWasDue
  <2>3. CASE events[n].type # "session_start"
    <3>1. EventIsDue(n)
      BY <1>7, <2>3 DEF AccessInv, LogWasDue
    <3>2. /\ events[n].job \in Jobs
          /\ job[events[n].job].step \in {"extracting", "over"}
      BY <3>1 DEF EventIsDue
    <3>3. /\ job'[events[n].job].session = job[events[n].job].session
          /\ job'[events[n].job].step \in {"extracting", "over"}
          /\ job'[events[n].job].step = "extracting" => job[events[n].job].step = "extracting"
      BY <1>2, <1>6, <1>7, <2>3, <3>2
    <3>4. EventIsDue(n)'
      BY <1>1, <1>7, <3>1, <3>3, DueStays
    <3> QED BY <2>1, <2>3, <3>4
  <2> QED BY <2>2, <2>3
<1>8. ASSUME NEW n \in 1 .. Len(events'), n \notin 1 .. Len(events)
      PROVE  events'[n].type # "session_start" /\ EventIsDue(n)'
  <2>1. LogGrows(e) /\ events'[n] = e /\ n = Len(events) + 1 /\ Len(events) < MaxEvents
    BY <1>1, <1>8, LogKeeps
  <2>2. e \in Event /\ e.code = job[j].code /\ e.type \in {"job_started", "job_completed"}
    <3>1. events' # events
      BY <1>8
    <3> QED BY <2>1, <3>1 DEF LogGrows
  <2>3. e.code \in Codes /\ e.code = job[j].session /\ Begun(e.code)
    <3>1. e.code \in Codes /\ e.code # Nobody
      BY <2>2, AccessAssumption DEF Event
    <3>2. job[j].code \in {job[j].session, Nobody} /\ Begun(job[j].session)
      BY DEF AccessInv, JobsWereStarted
    <3> QED BY <2>2, <3>1, <3>2
  <2>4. \E m \in Starts(e.code)' : m < n
    <3>1. PICK m \in Starts(e.code) : TRUE
      BY <2>1, <2>3 DEF Begun
    <3>2. m \in 1 .. Len(events)
      BY <3>1 DEF Starts, CodeTimeline
    <3>3. m \in Starts(e.code)'
      BY <1>1, <2>1, <3>1, StartsStay
    <3> QED BY <1>1, <2>1, <3>2, <3>3
  <2>5. ASSUME NEW m \in 1 .. n - 1, events'[m].job = j
        PROVE  events'[m].type = "job_started" /\ e.type = "job_completed"
    <3>1. m \in 1 .. Len(events) /\ events'[m] = events[m]
      BY <1>1, <2>1, LogKeeps
    <3>2. events[m].type # "session_start"
      <4>1. j # Nobody
        BY AccessAssumption
      <4> QED BY <2>5, <3>1, <4>1 DEF AccessInv, LogWasDue
    <3>3. job[j].step = "extracting" /\ events[m].type = "job_started"
      BY <1>6, <2>5, <3>1, <3>2
    <3> QED BY <2>1, <3>1, <3>3
  <2>6. /\ job'[j].session = e.code /\ job'[j].step \in {"extracting", "over"}
        /\ job'[j].step = "extracting" => e.type = "job_started"
    BY <1>2, <2>1, <2>2, <2>3
  <2>7. (\E m \in Starts(events[n].code) : m < n)'
    BY <2>1, <2>4 DEF Starts, CodeTimeline
  <2>8. EventIsDue(n)'
    BY <2>1, <2>5, <2>6, <2>7 DEF EventIsDue
  <2> QED BY <2>1, <2>2, <2>8
<1>9. LogWasDue'
  BY <1>7, <1>8 DEF LogWasDue
<1> QED BY <1>3, <1>4, <1>5, <1>9 DEF AccessInv

LEMMA JobStartedKeeps == ASSUME AccessInv, NEW j \in Jobs, JobStarted(j) PROVE AccessInv'
<1> DEFINE e == [code |-> job[j].code, type |-> "job_started", job |-> j]
<1>1. /\ job[j].step = "indexing" /\ job' = [job EXCEPT ![j].step = "extracting"]
      /\ UNCHANGED <<codes, token, cookie, request>>
  BY DEF JobStarted
<1>2. e.code = job[j].code /\ e.type = "job_started" /\ e.job = j
  OBVIOUS
<1>3. job[j].code \in Codes => e \in Event
  BY DEF Event, EventTypes
<1>4. job[j].code \in Codes \cup {Nobody}
  BY DEF AccessInv, AccessTypeOK, Job
<1>5. events' = events \/ LogGrows(e)
  BY <1>3, <1>4 DEF JobStarted, RecordUsage, RecordEvent, LogGrows
<1> HIDE DEF e
<1> QED BY <1>1, <1>2, <1>5, JobStepKeeps

LEMMA JobCompletedKeeps == ASSUME AccessInv, NEW j \in Jobs, JobCompleted(j) PROVE AccessInv'
<1> DEFINE e == [code |-> job[j].code, type |-> "job_completed", job |-> j]
<1>1. /\ job[j].step = "extracting" /\ job' = [job EXCEPT ![j].step = "over"]
      /\ UNCHANGED <<codes, token, cookie, request>>
  BY DEF JobCompleted
<1>2. e.code = job[j].code /\ e.type = "job_completed" /\ e.job = j
  OBVIOUS
<1>3. job[j].code \in Codes => e \in Event
  BY DEF Event, EventTypes
<1>4. job[j].code \in Codes \cup {Nobody}
  BY DEF AccessInv, AccessTypeOK, Job
<1>5. events' = events \/ LogGrows(e)
  BY <1>3, <1>4 DEF JobCompleted, RecordUsage, RecordEvent, LogGrows
<1> HIDE DEF e
<1> QED BY <1>1, <1>2, <1>5, JobStepKeeps

LEMMA JobFailsKeeps == ASSUME AccessInv, NEW j \in Jobs, JobFails(j) PROVE AccessInv'
<1> DEFINE e == [code |-> Nobody, type |-> "job_completed", job |-> j]
<1>1. /\ job[j].step \in {"indexing", "extracting"} /\ job' = [job EXCEPT ![j].step = "over"]
      /\ UNCHANGED <<codes, token, cookie, request>> /\ events' = events
  BY DEF JobFails, registry
<1>2. e.type = "job_completed" /\ e.job = j
  OBVIOUS
<1>3. ~LogGrows(e)
  BY AccessAssumption DEF LogGrows, Event
<1> HIDE DEF e
<1> QED BY <1>1, <1>2, <1>3, JobStepKeeps

-----------------------------------------------------------------------------
LEMMA AccessStepKeeps == AccessInv /\ [Next]_vars => AccessInv'
<1> SUFFICES ASSUME AccessInv, [Next]_vars PROVE AccessInv'
  OBVIOUS
<1>1. CASE UNCHANGED vars
  <2>1. UNCHANGED <<codes, events, token, cookie, request, job>>
    BY <1>1 DEF vars, registry
  <2>2. AccessTypeOK'
    BY <2>1 DEF AccessInv, AccessTypeOK
  <2>3. \A t \in Tokens : Held(t)' => Held(t)
    BY <2>1 DEF Held, HeldByBrowser
  <2> QED BY <2>1, <2>2, <2>3, QuietStepKeeps
<1>2. CASE \E r \in Requests : Send(r) \/ Handler(r)
  BY <1>2, SendKeeps, ValidateKeeps, RecordSessionKeeps, SignAdminKeeps, AnswerKeeps, GateKeeps,
     AdminCallKeeps, PreflightFailsKeeps, StartKeeps DEF Handler
<1>3. CASE \E b \in Browsers : Logout(b)
  BY <1>3, LogoutKeeps
<1>4. CASE \E t \in Tokens : Expires(t)
  BY <1>4, ExpiresKeeps
<1>5. CASE \E j \in Jobs : JobStarted(j) \/ JobCompleted(j) \/ JobFails(j)
  BY <1>5, JobStartedKeeps, JobCompletedKeeps, JobFailsKeeps
<1> QED BY <1>1, <1>2, <1>3, <1>4, <1>5 DEF Next

THEOREM AccessInvariance == Spec => []AccessInv
BY AccessInitHolds, AccessStepKeeps, PTL DEF Spec

\* For any number of codes, browsers, requests and jobs at once, the log of
\* usage misses no session that a browser or a request still has, and has no
\* job but of a session of its code that began before, started and completed
\* once (app.ts:104, job.ts:380, 415, 435).
THEOREM UsageIsAlwaysTrue == Spec => []UsageIsTrue
<1>1. AccessInv => UsageIsTrue
  <2> SUFFICES ASSUME AccessInv PROVE TimelineIsAStory
    BY DEF AccessInv, UsageIsTrue
  <2> SUFFICES ASSUME NEW code \in Codes, NEW n \in CodeTimeline(code),
                      events[n].type # "session_start"
               PROVE  /\ job[events[n].job].session = code
                      /\ \E m \in CodeTimeline(code) : m < n /\ events[m].type = "session_start"
                      /\ \A m \in CodeTimeline(code) :
                           m < n /\ events[m].job = events[n].job =>
                             events[m].type = "job_started" /\ events[n].type = "job_completed"
    BY DEF TimelineIsAStory
  <2>1. n \in 1 .. Len(events) /\ events[n].code = code /\ Len(events) \in Nat
    BY DEF CodeTimeline, AccessInv, AccessTypeOK
  <2>2. EventIsDue(n)
    BY <2>1 DEF AccessInv, LogWasDue
  <2>3. \E m \in Starts(code) : m < n
    BY <2>1, <2>2 DEF EventIsDue
  <2>4. \A m \in CodeTimeline(code) : m < n => m \in 1 .. n - 1
    BY <2>1 DEF CodeTimeline
  <2> QED BY <2>1, <2>2, <2>3, <2>4 DEF EventIsDue, Starts
<1> QED BY AccessInvariance, <1>1, PTL

-----------------------------------------------------------------------------
(* What a code still opens.                                                *)
LEMMA WaysFinite ==
  ASSUME NEW code
  PROVE  IsFiniteSet(Ways(code)) /\ Cardinality(Ways(code)) \in Nat
<1>1. Ways(code) \subseteq Tokens \cup Requests
  BY DEF Ways
<1>2. IsFiniteSet(Tokens \cup Requests)
  BY AccessAssumption, FS_Union
<1> QED BY <1>1, <1>2, FS_Subset, FS_CardinalityType

(* A sign-in is under way for a revoked code only if it was before.        *)
LEMMA SignInsOnlyEnd ==
  ASSUME AccessInv, Next, NEW code \in Codes, codes[code] = "revoked", NEW q \in Requests,
         At(q, "auth", "record")', request'[q].code = code
  PROVE  At(q, "auth", "record") /\ request[q].code = code
<1>1. request \in [Requests -> Request] /\ request[q] \in Request
  BY DEF AccessInv, AccessTypeOK
<1>2. NoRequest.step # "record"
  BY DEF NoRequest
<1>3. ASSUME NEW r \in Requests, Over(r) PROVE request'[q] = request[q]
  BY <1>1, <1>2, <1>3 DEF Over, At
<1>4. ASSUME NEW r \in Requests, NEW step \in Steps, GoesTo(r, step), step # "record"
      PROVE  request'[q] = request[q]
  BY <1>1, <1>4, GoesOnFacts DEF At, AccessInv
<1>5. ASSUME NEW r \in Requests, Send(r) PROVE request'[q] = request[q]
  <2>1. CASE q # r
    BY <1>1, <1>5, <2>1 DEF Send
  <2>2. CASE q = r
    BY <1>1, <1>5, <2>2 DEF Send, At
  <2> QED BY <2>1, <2>2
<1>6. ASSUME NEW r \in Requests, Validate(r)
      PROVE  At(q, "auth", "record") /\ request[q].code = code
  <2>1. CASE Over(r)
    BY <1>3, <2>1 DEF At
  <2>2. CASE GoesTo(r, "record") /\ IsCodeActive(request[r].code)
    <3>1. "record" \in Steps
      BY DEF Steps
    <3>2. q # r
      <4>1. request'[r].code = request[r].code
        BY <2>2, <3>1, GoesOnFacts DEF AccessInv
      <4> QED BY <2>2, <4>1 DEF IsCodeActive
    <3>3. request'[q] = request[q]
      BY <2>2, <3>1, <3>2, GoesOnFacts DEF AccessInv
    <3> QED BY <3>3 DEF At
  <2> QED BY <1>6, <2>1, <2>2 DEF Validate
<1>7. ASSUME NEW r \in Requests, NEW subject, SignSession(r, subject)
      PROVE  request'[q] = request[q]
  BY <1>1, <1>7 DEF SignSession, At, Request
<1>8. ASSUME NEW r \in Requests, Gate(r) PROVE request'[q] = request[q]
  <2>1. CASE Over(r)
    BY <1>3, <2>1
  <2>2. CASE GoesTo(r, "call")
    BY <1>4, <2>2 DEF Steps
  <2>3. CASE request' = [request EXCEPT ![r].code = token[request[r].token].sub,
                                        ![r].step = "preflight"]
    BY <1>1, <2>3 DEF At, Request
  <2> QED BY <1>8, <2>1, <2>2, <2>3 DEF Gate
<1>9. CASE \E r \in Requests : Send(r) \/ Handler(r)
  BY <1>3, <1>5, <1>6, <1>7, <1>8, <1>9
     DEF Handler, RecordSession, SignAdmin, Answer, AdminCall, PreflightFails, Start, At
<1>10. CASE request' = request
  BY <1>10 DEF At
<1> QED BY <1>9, <1>10 DEF Next, Logout, Expires, JobStarted, JobCompleted, JobFails

LEMMA NobodyGainsAWay ==
  ASSUME AccessInv, Next, NobodyGains, NEW code \in Codes, codes[code] = "revoked"
  PROVE  Ways(code)' \subseteq Ways(code)
<1>1. code # Nobody
  BY AccessAssumption
<1>2. ASSUME NEW t \in Tokens, Held(t)', (SessionCode(t) = code)'
      PROVE  Held(t) /\ SessionCode(t) = code
  BY <1>1, <1>2 DEF NobodyGains, SessionCode, Valid
<1> QED BY <1>2, SignInsOnlyEnd DEF Ways

LEMMA SignedTakesOneWay ==
  ASSUME AccessInv, Next, NEW r \in Requests, NEW subject \in Codes \cup {Admin},
         SignSession(r, subject), cookie' = cookie,
         NEW code \in Codes, codes[code] = "revoked"
  PROVE  \/ Ways(code)' \subseteq Ways(code)
         \/ subject = code /\ \E t \in Tokens : Ways(code)' \subseteq (Ways(code) \ {r}) \cup {t}
<1>1. PICK t \in Tokens :
        /\ token'[t] = [sub |-> subject, valid |-> TRUE]
        /\ \A u \in Tokens : u # t => token'[u] = token[u]
        /\ \A u \in Tokens : Held(u)' => Held(u) \/ u = t
        /\ request'[r].step = "answer"
  BY SignFacts DEF AccessInv
<1>2. code # Nobody /\ r \notin Tokens
  BY AccessAssumption
<1>3. ASSUME NEW u \in Tokens, Held(u)', (SessionCode(u) = code)', u # t
      PROVE  Held(u) /\ SessionCode(u) = code
  BY <1>1, <1>2, <1>3 DEF SessionCode, Valid
<1>4. ~At(r, "auth", "record")'
  BY <1>1 DEF At
<1>5. subject # code => (SessionCode(t) # code)'
  BY <1>1, <1>2 DEF SessionCode
<1>6. Ways(code)' \subseteq (Ways(code) \ {r}) \cup {t}
  BY <1>2, <1>3, <1>4, SignInsOnlyEnd DEF Ways
<1>7. subject # code => Ways(code)' \subseteq Ways(code)
  BY <1>2, <1>3, <1>5, SignInsOnlyEnd DEF Ways
<1> QED BY <1>6, <1>7

LEMMA WaysOnlyEnd ==
  ASSUME AccessInv, Next, NEW code \in Codes, codes[code] = "revoked"
  PROVE  codes'[code] = "revoked" /\ Cardinality(Ways(code)') <= Cardinality(Ways(code))
<1>1. codes'[code] = "revoked"
  <2>1. codes \in [Codes -> CodeState]
    BY DEF AccessInv, AccessTypeOK
  <2>2. ASSUME NEW r \in Requests, AdminCall(r) PROVE codes'[code] = "revoked"
    <3>1. CASE CreateCode
      BY <2>1, <3>1 DEF CreateCode
    <3>2. CASE RevokeCode(request[r].code)
      BY <2>1, <3>2 DEF RevokeCode
    <3> QED BY <2>2, <3>1, <3>2 DEF AdminCall
  <2>3. codes' = codes => codes'[code] = "revoked"
    OBVIOUS
  <2> QED BY <2>2, <2>3 DEF Next, Handler, Send, Validate, RecordSession, SignAdmin, Answer, Gate,
            PreflightFails, Start, Logout, Expires, JobStarted, JobCompleted, JobFails, registry
<1>2. ASSUME Ways(code)' \subseteq Ways(code)
      PROVE  Cardinality(Ways(code)') <= Cardinality(Ways(code))
  BY <1>2, WaysFinite, FS_Subset
<1>3. ASSUME NEW r \in Requests, RecordSession(r)
      PROVE  Cardinality(Ways(code)') <= Cardinality(Ways(code))
  <2>1. At(r, "auth", "record") /\ cookie' = cookie /\ request[r].code \in Codes
    BY <1>3 DEF RecordSession, AccessInv, RequestsWereGated, Gated, At
  <2>2. CASE Over(r) /\ UNCHANGED token
    <3>1. NobodyGains
      BY <2>1, <2>2, OverFacts DEF NobodyGains, AccessInv
    <3> QED BY <1>2, <3>1, NobodyGainsAWay
  <2>3. CASE SignSession(r, request[r].code)
    <3>1. CASE /\ request[r].code = code
               /\ \E t \in Tokens : Ways(code)' \subseteq (Ways(code) \ {r}) \cup {t}
      <4>1. PICK t \in Tokens : Ways(code)' \subseteq (Ways(code) \ {r}) \cup {t}
        BY <3>1
      <4>2. r \in Ways(code)
        BY <2>1, <3>1 DEF Ways
      <4> DEFINE W == Ways(code) \ {r}
      <4>3. IsFiniteSet(W) /\ Cardinality(W) = Cardinality(Ways(code)) - 1
        BY <4>2, WaysFinite, FS_RemoveElement
      <4>4. Cardinality(W) \in Nat
        BY <4>3, FS_CardinalityType
      <4>5. /\ IsFiniteSet(W \cup {t})
            /\ \/ Cardinality(W \cup {t}) = Cardinality(W)
               \/ Cardinality(W \cup {t}) = Cardinality(W) + 1
        BY <4>3, FS_AddElement
      <4>6. /\ Cardinality(Ways(code)') <= Cardinality(W \cup {t})
            /\ IsFiniteSet(Ways(code)')
        BY <4>1, <4>5, FS_Subset
      <4>7. Cardinality(Ways(code)') \in Nat /\ Cardinality(Ways(code)) \in Nat
        BY <4>6, WaysFinite, FS_CardinalityType
      <4> HIDE DEF W
      <4> QED BY <4>3, <4>4, <4>5, <4>6, <4>7
    <3> QED BY <1>2, <2>1, <2>3, <3>1, SignedTakesOneWay
  <2> QED BY <1>3, <2>2, <2>3 DEF RecordSession
<1>4. ASSUME NEW r \in Requests, SignAdmin(r)
      PROVE  Cardinality(Ways(code)') <= Cardinality(Ways(code))
  <2>1. CASE Over(r) /\ UNCHANGED token
    <3>1. NobodyGains
      BY <1>4, <2>1, OverFacts DEF NobodyGains, AccessInv, SignAdmin
    <3> QED BY <1>2, <3>1, NobodyGainsAWay
  <2>2. CASE SignSession(r, Admin)
    BY <1>2, <1>4, <2>2, SignedTakesOneWay, AccessAssumption DEF SignAdmin
  <2> QED BY <1>4, <2>1, <2>2 DEF SignAdmin
<1>5. ASSUME NEW j \in Jobs, JobStarted(j) \/ JobCompleted(j) \/ JobFails(j)
      PROVE  NobodyGains
  <2>1. UNCHANGED <<token, cookie, request>>
    BY <1>5 DEF JobStarted, JobCompleted, JobFails
  <2> QED BY <2>1 DEF NobodyGains, Held, HeldByBrowser
<1>6. ASSUME NobodyGains
      PROVE  Cardinality(Ways(code)') <= Cardinality(Ways(code))
  BY <1>2, <1>6, NobodyGainsAWay
<1>7. Cardinality(Ways(code)') <= Cardinality(Ways(code))
  BY <1>3, <1>4, <1>5, <1>6, SendKeeps, ValidateKeeps, AnswerKeeps, GateKeeps, AdminCallKeeps,
     PreflightFailsKeeps, StartKeeps, LogoutKeeps, ExpiresKeeps DEF Next, Handler
<1> QED BY <1>1, <1>7

\* Once a code is revoked it stays so, whatever codes are created after, and
\* the sessions it still has and its sign-ins under way only become fewer: each
\* such sign-in gives one session at most, and no other starts
\* (README.md:159, registry.ts:100, app.ts:100).
THEOREM RevokedAccessAlwaysDrains == Spec => RevokedAccessDrains
<1>1. AccessInv /\ [Next]_vars =>
        [\A code \in Codes : codes[code] = "revoked" =>
           /\ codes'[code] = "revoked"
           /\ Cardinality(Ways(code)') <= Cardinality(Ways(code))]_vars
  BY WaysOnlyEnd
<1> QED BY <1>1, AccessInvariance, PTL DEF Spec, RevokedAccessDrains

=============================================================================
