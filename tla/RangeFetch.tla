---------------------------- MODULE RangeFetch ----------------------------
(***************************************************************************)
(* One range request of makeHttpSource (src/src/effect/services.ts): the   *)
(* fetch, the check of its status, the wait a Retry-After asks for, the    *)
(* backed-off retries and the reading of the body, for the size probe and  *)
(* for the reads of a byte range.                                          *)
(*                                                                         *)
(* Time is a number of ticks that the waits advance.  The source is        *)
(* external: it answers with any status, and a range as HTTP defines it.   *)
(***************************************************************************)
EXTENDS Integers

CONSTANTS
  ARCHIVE_SIZE,
  Calls,                 \* the requests made: [kind, from, to]
  RETRY_BASE_DELAY,
  RETRY_MAX_RECURRENCES,
  RETRY_MAX_ELAPSED,
  RETRY_AFTER_CAP,
  Hints,                 \* the waits a Retry-After header asks for (negative: a date in the past)
  Latencies,             \* how long an answer takes
  IgnoresRange           \* does the source answer some range requests with the whole archive

ASSUME RangeAssumption ==
  /\ ARCHIVE_SIZE \in Nat \ {0}
  /\ Calls \subseteq [kind : {"probe", "range"}, from : Nat, to : Nat]
  /\ \A c \in Calls : c.from <= c.to
  /\ RETRY_BASE_DELAY \in Nat \ {0, 1}     \* 250 ms: no backoff of it rounds down to nothing
  /\ RETRY_MAX_ELAPSED \in Nat \ {0}
  /\ {RETRY_MAX_RECURRENCES, RETRY_AFTER_CAP} \subseteq Nat
  /\ Hints \subseteq Int /\ Latencies \subseteq Nat
  /\ IgnoresRange \in BOOLEAN

VARIABLES
  call,        \* the request
  phase,       \* "ready", "sent", "body", "done" or "failed"
  status,      \* of the last answer; 0: none, or the fetch threw
  clock,
  answeredAt,  \* when the last answer came
  floor,       \* the wait the last answer asked for (0: none)
  firstFailed, \* when the retry schedule started, -1: it has not
  recurrences, \* of the retry schedule
  sent,        \* requests sent
  body,        \* the bytes [from, to) of the archive in the response
  counted      \* the calls of metrics.range: the spans recorded

rangeVars == <<call, phase, status, clock, answeredAt, floor, firstFailed, recurrences, sent,
               body, counted>>

Usable      == {200, 206}
Retryable   == {429, 500, 502, 503}
WithHint    == {429, 503}      \* statuses whose Retry-After is read
Permanent   == {403, 404, 416}
NoBody == [from |-> 0, to |-> 0]

Smaller(a, b) == IF a < b THEN a ELSE b

RangeInit ==
  /\ call \in Calls
  /\ phase = "ready" /\ status = 0
  /\ clock = 0 /\ answeredAt = 0 /\ floor = 0 /\ firstFailed = -1 /\ recurrences = 0
  /\ sent = 0 /\ body = NoBody
  /\ counted = {}

-----------------------------------------------------------------------------
\* Mutant: the end of the range is sent as if the header excluded it.
RangeHeaderExclusive(c) ==
  IF c.kind = "probe" THEN [first |-> 0, last |-> 0] ELSE [first |-> c.from, last |-> c.to]

\* `bytes=first-last`: the half-open range of a call as HTTP's closed one.
RangeHeader(c) ==
  IF c.kind = "probe" THEN [first |-> 0, last |-> 0] ELSE [first |-> c.from, last |-> c.to - 1]

WholeArchive == [from |-> 0, to |-> ARCHIVE_SIZE]

(* What an HTTP source may answer to a range header: the range, cut at the *)
(* archive's end; 416 when it begins beyond it; an invalid range (its last *)
(* byte before its first) is ignored, or refused.                          *)
Answers(h) ==
  LET valid == h.first <= h.last
      found == h.first < ARCHIVE_SIZE
  IN  (IF valid /\ found
         THEN {[status |-> 206,
                body |-> [from |-> h.first, to |-> Smaller(h.last + 1, ARCHIVE_SIZE)]]} ELSE {})
      \union (IF valid /\ found THEN {} ELSE {[status |-> 416, body |-> NoBody]})
      \union (IF ~valid \/ IgnoresRange
                THEN {[status |-> 200, body |-> WholeArchive]} ELSE {})

(* The fetch of an attempt.                                                *)
Fetch ==
  /\ phase = "ready"
  /\ phase' = "sent" /\ sent' = sent + 1
  /\ UNCHANGED <<call, status, clock, answeredAt, floor, firstFailed, recurrences, body, counted>>

\* Mutant: the span is counted when the request is answered, whatever the answer.
CountedAlways(s) == counted \union {<<sent, call.from, call.to>>}

\* The metric of a range is recorded where the status is found usable; that of
\* the probe when the total size was read, so only from a 206.
Counted(s) ==
  IF s \in Usable /\ call.kind = "range" THEN counted \union {<<sent, call.from, call.to>>}
  ELSE IF s = 206 THEN counted \union {<<sent, 0, 1>>}
  ELSE counted

(* A usable answer.  A probe that got the whole archive has no             *)
(* Content-Range: it fails, and is not retried.                            *)
AnswerUsable(latency) ==
  /\ phase = "sent"
  /\ \E a \in Answers(RangeHeader(call)) :
       /\ a.status \in Usable
       /\ status' = a.status /\ body' = a.body
       /\ counted' = Counted(a.status)
       /\ phase' = IF call.kind = "probe" /\ a.status = 200 THEN "failed" ELSE "body"
  /\ clock' = clock + latency /\ answeredAt' = clock'
  /\ floor' = 0
  /\ UNCHANGED <<call, firstFailed, recurrences, sent>>

(* A permanent error: the call fails at once.                              *)
AnswerPermanent(latency) ==
  /\ phase = "sent"
  /\ \E s \in Permanent :
       /\ s = 416 => \E a \in Answers(RangeHeader(call)) : a.status = 416
       /\ status' = s
       /\ counted' = Counted(s)
  /\ phase' = "failed"
  /\ clock' = clock + latency /\ answeredAt' = clock'
  /\ floor' = 0
  /\ UNCHANGED <<call, firstFailed, recurrences, sent, body>>

\* The n-th backoff, doubled each time and jittered by a fifth: its least and greatest value.
Backoff(n) ==
  {(4 * (RETRY_BASE_DELAY * 2^n)) \div 5, (6 * (RETRY_BASE_DELAY * 2^n)) \div 5}

\* Mutant: the elapsed time alone ends the retries.
MayRetryByTime(elapsed) == elapsed < RETRY_MAX_ELAPSED

(* The schedule goes on: neither the recurrences nor the time since the    *)
(* first failure are used up.                                              *)
MayRetry(elapsed) ==
  recurrences < RETRY_MAX_RECURRENCES /\ elapsed < RETRY_MAX_ELAPSED

\* Mutant: the hint is followed without its cap.
CooldownUncapped(hint) == IF hint < 0 THEN 0 ELSE hint

\* parseRetryAfterMs: capped, and a date in the past is no wait at all.
Cooldown(hint) == Smaller(IF hint < 0 THEN 0 ELSE hint, RETRY_AFTER_CAP)

(* A transient failure: a status worth retrying, or a fetch that threw     *)
(* (status 0).  The wait the source asked for is slept first; then the     *)
(* schedule decides, and its backoff is slept on top.                      *)
AnswerTransient(latency, hint) ==
  /\ phase = "sent"
  /\ status' \in Retryable \union {0}
  /\ status' \notin WithHint => hint = 0
  /\ answeredAt' = clock + latency
  /\ floor' = hint
  /\ LET failedAt == clock + latency + Cooldown(hint)
         first    == IF firstFailed = -1 THEN failedAt ELSE firstFailed
     IN  \/ /\ MayRetry(failedAt - first)
            /\ \E wait \in Backoff(recurrences) : clock' = failedAt + wait
            /\ firstFailed' = first
            /\ recurrences' = recurrences + 1
            /\ phase' = "ready"
         \/ /\ ~MayRetry(failedAt - first)
            /\ clock' = failedAt
            /\ firstFailed' = first
            /\ phase' = "failed"
            /\ UNCHANGED recurrences
  /\ counted' = Counted(status')
  /\ UNCHANGED <<call, sent, body>>

(* The body is read to its end, or breaks; a broken body is not retried.   *)
ReadBody ==
  /\ phase = "body"
  /\ phase' \in {"done", "failed"}
  /\ UNCHANGED <<call, status, clock, answeredAt, floor, firstFailed, recurrences, sent, body,
                 counted>>

RangeNext ==
  \/ Fetch
  \/ \E latency \in Latencies :
       \/ AnswerUsable(latency)
       \/ AnswerPermanent(latency)
       \/ \E hint \in Hints : AnswerTransient(latency, hint)
  \/ ReadBody

RangeSpec == RangeInit /\ [][RangeNext]_rangeVars

-----------------------------------------------------------------------------
(* Every variable has its type: one call of Source (services.ts:99-212).   *)
RangeTypeOK ==
  /\ call \in Calls
  /\ phase \in {"ready", "sent", "body", "done", "failed"}
  /\ status \in Usable \union Retryable \union Permanent \union {0}
  /\ {clock, answeredAt, recurrences, sent} \subseteq Nat /\ floor \in Int
  /\ firstFailed \in Nat \union {-1}
  /\ body \in [from : Nat, to : Nat]
  /\ \A c \in counted : c[1] \in 1 .. sent /\ c[2] <= c[3]

MaxBackoff(n) == (6 * (RETRY_BASE_DELAY * 2^n)) \div 5

(* A call that only ever meets transient failures fails in bounded time:   *)
(* "it stops at 5 retries or 30s elapsed" (services.ts:47), and the        *)
(* last retry goes out at most one backoff after the elapsed budget.       *)
RetriesBounded ==
  /\ sent <= RETRY_MAX_RECURRENCES + 1
  /\ (phase = "ready" /\ recurrences > 0) =>
       clock < firstFailed + RETRY_MAX_ELAPSED + MaxBackoff(recurrences - 1)

(* "Honour a server-requested cooldown as a FLOOR before the next retry"   *)
(* (services.ts:152), capped so that no header parks the call              *)
(* (services.ts:41), with the backoff on top.                              *)
CooldownHonoured ==
  (phase = "ready" /\ recurrences > 0) =>
    /\ clock - answeredAt > Smaller(floor, RETRY_AFTER_CAP)
    /\ clock - answeredAt <= RETRY_AFTER_CAP + MaxBackoff(recurrences - 1)

(* "retried 429s don't double-count bytes - the metric fires exactly once, *)
(* when the fetch finally lands" (services.ts:121-123).                    *)
CountedOnce ==
  counted = IF status = 206 \/ (status = 200 /\ call.kind = "range")
            THEN {<<sent, IF call.kind = "probe" THEN 0 ELSE call.from,
                          IF call.kind = "probe" THEN 1 ELSE call.to>>}
            ELSE {}

(* "Range-GET [start, end) and return the bytes" (services.ts:94).         *)
BodyIsRange ==
  (phase = "done" /\ call.kind = "range") => body = [from |-> call.from, to |-> call.to]

(* "reflects bytes actually pulled over the wire" (services.ts:112): what  *)
(* was counted for a call that is done is what its response carried.       *)
CountIsPulled ==
  phase = "done" => \A c \in counted : c[3] - c[2] = body.to - body.from

(* Types; the retries of a call are few, soon enough and late enough; its  *)
(* bytes are counted once and, from a source that knows ranges, they are   *)
(* the bytes that came (services.ts:35-55, 112-123, 152).  From one that   *)
(* does not, CountIsPulled is said and not so: the README has that.        *)
RangeInv ==
  /\ RangeTypeOK
  /\ RetriesBounded /\ CooldownHonoured
  /\ CountedOnce
  /\ ~IgnoresRange => CountIsPulled

=============================================================================
