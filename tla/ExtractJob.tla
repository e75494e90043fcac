----------------------------- MODULE ExtractJob -----------------------------
(***************************************************************************)
(* The coordinator Durable Object of one job (src/src/job.ts), composed    *)
(* with its workers (module ExtractWorker).                                *)
(*                                                                         *)
(* A step is one turn of the coordinator's event loop: what the code does  *)
(* between two waits for another party (a Range-GET, an RPC to a worker or *)
(* to the registry, a bucket call) is atomic, SQLite being synchronous and *)
(* the writes of a turn being committed together.  Variables are durable   *)
(* (job, file, alarm, tries: SQLite and the alarm) or volatile (lost when  *)
(* the object is evicted or crashes).                                      *)
(***************************************************************************)
EXTENDS ExtractWorker

CONSTANTS
  FILES_PER_WORKER,  \* filesPerWorker of the sharding options
  LIST_PAGE,         \* how many keys one bucket listing returns
  ALARM_TRIES        \* how often the platform runs an alarm whose handler throws

ASSUME JobAssumption ==
  /\ FILES_PER_WORKER \in Nat \ {0}
  /\ LIST_PAGE \in Nat \ {0}
  /\ ALARM_TRIES \in Nat \ {0}

VARIABLES
  job,             \* the row of table `job`
  file,            \* table `file`, by name
  alarm,           \* the storage alarm
  tries,           \* runs of the alarm handler that threw
  run,             \* where the background runJob waits
  selected,        \* runJob's local `selected`
  code,            \* does the job carry an access code
  byoConfig,       \* does the coordinator hold the user's credentials
  pending,         \* the shards whose promise is not resolved
  workerInFlight,  \* the workerInFlight map (0: no entry)
  sink,            \* the MetricsSink
  sweep            \* where the alarm handler's deletePrefix stands

durable  == <<job, file, alarm, tries>>
volatile == <<run, selected, code, byoConfig, pending, workerInFlight, sink, sweep>>
jobVars  == <<durable, volatile>>
vars     == <<workerVars, jobVars>>

Destination == {"demo", "byo"}
JobStatus   == {"pending", "running", "completed", "failed"}
FileStatus  == {"pending", "extracting", "done", "failed"}
Phase       == {"idle", "reading-index", "extracting", "done"}

\* What the properties tell apart of RawMetrics; `archived` says archiveSize > 0.
Metrics == [phase : Phase, archived : BOOLEAN, workers : Nat, peak : Nat, extracted : Nat]
FreshMetrics == [phase |-> "idle", archived |-> FALSE, workers |-> 0, peak |-> 0, extracted |-> 0]

Job == [status : JobStatus \union {"none"}, total : Nat, error : BOOLEAN,
        destination : Destination, expires : {"null", "future", "past"}, metrics : Metrics]
\* Columns key (and bytes, always set with it) and error: are they non-NULL.
Row   == [status : FileStatus, key : BOOLEAN, error : BOOLEAN]
NoRow == [status |-> "none", key |-> FALSE, error |-> FALSE]

NoSweep == [at |-> "off", cursor |-> 0, page |-> {}, more |-> FALSE]

InitVolatile ==
  /\ run            = "none"
  /\ selected       = {}
  /\ code           = FALSE
  /\ byoConfig      = FALSE
  /\ pending        = {}
  /\ workerInFlight = [w \in Worker |-> 0]
  /\ sink           = FreshMetrics
  /\ sweep          = NoSweep

JobInit ==
  /\ job  = [status |-> "none", total |-> 0, error |-> FALSE, destination |-> "demo",
             expires |-> "null", metrics |-> FreshMetrics]
  /\ file = [n \in Name |-> NoRow]
  /\ alarm = "unset"
  /\ tries = 0
  /\ InitVolatile

Init == WorkerInit /\ JobInit

-----------------------------------------------------------------------------
(* start, and runJob up to its first wait: the row is inserted 'pending'   *)
(* and is 'running' before anyone else can read it.                        *)
Start(destination, hasCode) ==
  /\ job.status = "none"
  /\ job' = [job EXCEPT !.status = "running", !.destination = destination]
  /\ code' = hasCode
  /\ byoConfig' = (destination = "byo")
  /\ workerInFlight' = [w \in Worker |-> 0]
  /\ sink' = [FreshMetrics EXCEPT !.phase = "reading-index"]
  /\ run' = "readIndex"
  /\ UNCHANGED <<workerVars, file, alarm, tries, selected, pending, sweep>>

(* runJob rejects before its try, for want of a runtime, and nobody waits  *)
(* for it: the row stays as start inserted it, the credentials are kept.   *)
StartsWithoutRuntime(destination) ==
  /\ "noRuntime" \in Faults
  /\ job.status = "none"
  /\ job' = [job EXCEPT !.status = "pending", !.destination = destination]
  /\ byoConfig' = (destination = "byo")
  /\ workerInFlight' = [w \in Worker |-> 0]
  /\ sink' = FreshMetrics
  /\ run' = "ended"
  /\ UNCHANGED <<workerVars, file, alarm, tries, selected, code, pending, sweep>>

FleetSize(n) ==
  LET byLoad == (n + FILES_PER_WORKER - 1) \div FILES_PER_WORKER
  IN  IF byLoad < MAX_WORKERS THEN byLoad ELSE MAX_WORKERS

\* Mutant: the job is completed only when something was extracted.
CompleteIfAny(jobRow, metrics) ==
  LET final == [metrics EXCEPT !.phase = "done"] IN
  /\ sink'  = final
  /\ job'   = [jobRow EXCEPT !.metrics = final,
                             !.status = IF metrics.extracted > 0 THEN "completed" ELSE @]
  /\ UNCHANGED alarm
  /\ run'   = "finishing"

\* Mutant: cleanup is scheduled only when something was extracted.
CompleteUnscheduled(jobRow, metrics) ==
  LET final == [metrics EXCEPT !.phase = "done"] IN
  /\ sink'  = final
  /\ job'   = [jobRow EXCEPT !.metrics = final, !.status = "completed"]
  /\ alarm' = IF jobRow.destination = "demo" /\ metrics.extracted > 0 THEN "set" ELSE alarm
  /\ run'   = "finishing"

\* Mutant: cleanup is scheduled whatever the destination.
CompleteAlarmed(jobRow, metrics) ==
  LET final == [metrics EXCEPT !.phase = "done"] IN
  /\ sink'  = final
  /\ job'   = [jobRow EXCEPT !.metrics = final, !.status = "completed"]
  /\ alarm' = "set"
  /\ run'   = "finishing"

(* The end of a run that did not fail, one turn: last metrics, 'completed' *)
(* and, for the demo bucket, the expiry and the alarm.                     *)
Complete(jobRow, metrics) ==
  LET final == [metrics EXCEPT !.phase = "done"]
      demo  == jobRow.destination = "demo"
  IN  /\ sink'  = final
      /\ job'   = [jobRow EXCEPT !.metrics = final, !.status = "completed",
                                 !.expires = IF demo THEN "future" ELSE @]
      /\ alarm' = IF demo THEN "set" ELSE alarm
      /\ run'   = "finishing"

(* setAlarm throws in that turn: the expiry is written, the catch of       *)
(* runJob takes 'completed' back.  A demo run has no credentials to drop.  *)
ScheduleRefused(jobRow, metrics) ==
  LET final == [metrics EXCEPT !.phase = "done"] IN
  /\ "alarmRefused" \in Faults /\ jobRow.destination = "demo"
  /\ sink' = final
  /\ job'  = [jobRow EXCEPT !.metrics = final, !.status = "failed", !.error = TRUE,
                            !.expires = "future"]
  /\ UNCHANGED alarm
  /\ run'  = "ended"

Finish(jobRow, metrics) == Complete(jobRow, metrics) \/ ScheduleRefused(jobRow, metrics)

(* The file table is seeded, the phase turns to extracting and the shards  *)
(* are called.  Which shard gets which entry depends on sizes (module      *)
(* Sharding): any assignment is allowed here.                              *)
FanOut(entries, metrics) ==
  LET seeded   == [n \in Name |-> IF \E e \in entries : NameOf[e] = n
                     THEN [status |-> "pending", key |-> FALSE, error |-> FALSE] ELSE file[n]]
      fleet    == 0 .. (FleetSize(Cardinality(entries)) - 1)
      started  == [metrics EXCEPT !.phase = "extracting", !.workers = Cardinality(fleet)]
      withRows == [job EXCEPT !.total = Cardinality(entries), !.metrics = started]
  IN  /\ file' = seeded
      /\ selected' = entries
      /\ \/ /\ entries = {}
            /\ Finish(withRows, started)
            /\ UNCHANGED <<workerVars, pending>>
         \/ /\ entries # {}
            /\ \E assignment \in [entries -> fleet] : Dispatch(entries, fleet, assignment)
            /\ pending' = fleet
            /\ job' = withRows
            /\ sink' = started
            /\ run' = "fanOut"
            /\ UNCHANGED alarm
      /\ UNCHANGED <<tries, code, byoConfig, workerInFlight, sweep>>

(* readIndex and selectEntries succeed.  With a code the run then waits    *)
(* for the registry to record job_started.                                 *)
ReadIndexOk(entries) ==
  /\ run = "readIndex"
  /\ \/ /\ code
        /\ run' = "recordStart"
        /\ selected' = entries
        /\ sink' = [sink EXCEPT !.archived = TRUE]
        /\ UNCHANGED <<workerVars, durable, code, byoConfig, pending, workerInFlight, sweep>>
     \/ /\ ~code
        /\ FanOut(entries, [sink EXCEPT !.archived = TRUE])

(* readIndex fails, before or after the archive's size was learnt.         *)
ReadIndexFails(sized) ==
  LET final == [sink EXCEPT !.phase = "done", !.archived = sized] IN
  /\ run = "readIndex"
  /\ sink' = final
  /\ job' = [job EXCEPT !.status = "failed", !.error = TRUE, !.metrics = final]
  /\ byoConfig' = FALSE
  /\ run' = "ended"
  /\ UNCHANGED <<workerVars, file, alarm, tries, selected, code, pending, workerInFlight, sweep>>

(* The registry answers the job_started call, or the call fails: recordUsage  *)
(* swallows the failure, so both go on the same way.                          *)
StartRecorded ==
  /\ run = "recordStart"
  /\ FanOut(selected, sink)

-----------------------------------------------------------------------------
TotalInFlight(counts) == Cardinality(UNION {{w} \X (1 .. counts[w]) : w \in Worker})

\* Mutant: what is observed is added to the peak.
PeakAdded(a, b) == a + b

Larger(a, b) == IF a > b THEN a ELSE b

(* What a report does to its file row (an UPDATE of a missing row is void): *)
(* done sets the key and clears the error, failed sets the error,           *)
(* extracting leaves both.                                                  *)
Settle(row, status) ==
  IF row = NoRow THEN row ELSE
  [status |-> status,
   key    |-> row.key \/ status = "done",
   error  |-> (row.error /\ status # "done") \/ status = "failed"]

(* RPC reportFileResult, run for the oldest unanswered report of worker w. *)
ReportFileResult(w) ==
  LET report == Head(outbox[w])
      counts == [workerInFlight EXCEPT ![w] = report.inFlight]
      seen   == [sink EXCEPT !.peak = Larger(@, TotalInFlight(counts))]
  IN  /\ ReportAnswered(w)
      /\ workerInFlight' = counts
      /\ sink' = seen
      /\ file' = [file EXCEPT ![NameOf[report.entry]] = Settle(@, report.status)]
      /\ job'  = [job EXCEPT !.metrics = seen]
      /\ UNCHANGED <<alarm, tries, run, selected, code, byoConfig, pending, sweep>>

(* The RPC of the oldest report fails before the coordinator ran it: a     *)
(* network failure, or one of the two isolates is lost.                    *)
ReportLost(w) ==
  /\ \/ "loseReport" \in Faults
     \/ "crash" \in Faults /\ run = "none"
     \/ wphase[w] = "dead"
  /\ ReportAnswered(w)
  /\ UNCHANGED jobVars

\* Mutant: the run goes on with the first shard.
AnyShard(w) == w \in pending

LastShard(w) == pending = {w}

Cleared(w) == [workerInFlight EXCEPT ![w] = 0]

(* The promise of shard w resolves; with the last one runJob goes on.      *)
ShardSettled(w, metrics) ==
  /\ pending' = pending \ {w}
  /\ workerInFlight' = Cleared(w)
  /\ \/ /\ LastShard(w)
        /\ Finish(job, metrics)
     \/ /\ ~LastShard(w)
        /\ sink' = metrics
        /\ job' = [job EXCEPT !.metrics = metrics]
        /\ UNCHANGED <<alarm, run>>
  /\ UNCHANGED <<workerVars, tries, selected, code, byoConfig, sweep>>

(* extractShard returned: its counters are merged into the job's.          *)
ApplyShardSummary(w) ==
  /\ w \in pending
  /\ wphase[w] = "returned"
  /\ ShardSettled(w, [sink EXCEPT !.extracted = @ + Cardinality(Extracted(w))])
  /\ UNCHANGED file

\* Mutant: the entries no loop had taken stay pending.
FailIfStarted(row) ==
  IF row.status # "extracting" THEN row ELSE [row EXCEPT !.status = "failed", !.error = TRUE]

\* Mutant: settled rows are overwritten.
FailAnyway(row) ==
  IF row = NoRow THEN row ELSE [row EXCEPT !.status = "failed", !.error = TRUE]

FailUnlessSettled(row) ==
  IF row = NoRow \/ row.status \in {"done", "failed"}
  THEN row ELSE [row EXCEPT !.status = "failed", !.error = TRUE]

(* extractShard threw, or its RPC broke while the worker may go on: the    *)
(* entries not settled yet are marked failed.  The coordinator learns of a *)
(* death after the reports the dead isolate had sent came through or were  *)
(* lost; that they come later still is a broken call too.                  *)
FailShard(w) ==
  /\ w \in pending
  /\ (wphase[w] = "dead" /\ outbox[w] = <<>>) \/ "callBreaks" \in Faults
  /\ LET owned == {NameOf[e] : e \in shard[w]} IN
     file' = [n \in Name |-> IF n \in owned THEN FailUnlessSettled(file[n]) ELSE file[n]]
  /\ ShardSettled(w, sink)

\* Mutant: the credentials stay until the object is evicted.
RunEndsKeepingCredentials ==
  /\ run = "finishing"
  /\ run' = "ended"
  /\ UNCHANGED <<workerVars, durable, selected, code, byoConfig, pending, workerInFlight, sink,
                 sweep>>

(* job_completed is recorded (or its recording failed), the terminal       *)
(* message is broadcast, the credentials are dropped.                      *)
RunEnds ==
  /\ run = "finishing"
  /\ run' = "ended"
  /\ byoConfig' = FALSE
  /\ UNCHANGED <<workerVars, durable, selected, code, pending, workerInFlight, sink, sweep>>

-----------------------------------------------------------------------------
\* Mutant: whatever the object has in memory is reported.
AlwaysLive == TRUE

\* Has the object measured anything since it was built.
HasLive == sink.archived \/ sink.extracted > 0

(* The metrics that report() and the snapshots show: those in memory, or   *)
(* those persisted when the object was built again since.                  *)
CurrentMetrics == IF HasLive THEN sink ELSE job.metrics

-----------------------------------------------------------------------------
(* The alarm goes off: demo jobs start deletePrefix with its first list.   *)
AlarmFires ==
  /\ alarm = "set"
  /\ alarm' = IF job.destination = "demo" THEN "running" ELSE "unset"
  /\ sweep' = IF job.destination = "demo" THEN [NoSweep EXCEPT !.at = "list"] ELSE NoSweep
  /\ UNCHANGED <<workerVars, job, file, tries, run, selected, code, byoConfig, pending,
                 workerInFlight, sink>>

Ahead(cursor) == {n \in bucket : n > cursor}

IsPage(page, cursor) ==
  /\ page \subseteq Ahead(cursor)
  /\ Cardinality(page) = LIST_PAGE \/ page = Ahead(cursor)
  /\ Cardinality(page) <= LIST_PAGE
  /\ \A p \in page, n \in Ahead(cursor) \ page : p < n

\* Mutant: a listing is never truncated.
NeverTruncated(page, cursor) == FALSE

Truncated(page, cursor) == page # Ahead(cursor)

SweepDone ==
  /\ alarm' = "unset"
  /\ sweep' = NoSweep
  /\ job' = [job EXCEPT !.expires = "past"]

(* One bucket listing from the cursor on; an empty prefix is all done.     *)
ListPrefix ==
  /\ sweep.at = "list"
  /\ \E page \in SUBSET bucket :
       /\ IsPage(page, sweep.cursor)
       /\ \/ page = {} /\ SweepDone
          \/ /\ page # {}
             /\ sweep' = [sweep EXCEPT !.at = "delete", !.page = page,
                                       !.more = Truncated(page, sweep.cursor)]
             /\ UNCHANGED <<job, alarm>>
  /\ UNCHANGED <<workerVars, file, tries, run, selected, code, byoConfig, pending,
                 workerInFlight, sink>>

DeletePage ==
  /\ sweep.at = "delete"
  /\ bucket' = bucket \ sweep.page
  /\ \/ ~sweep.more /\ SweepDone
     \/ /\ sweep.more
        /\ \E last \in sweep.page :
             /\ \A n \in sweep.page : n <= last
             /\ sweep' = [NoSweep EXCEPT !.at = "list", !.cursor = last]
        /\ UNCHANGED <<job, alarm>>
  /\ UNCHANGED <<wphase, shard, stage, inFlight, outbox, creds, file, tries, run, selected,
                 code, byoConfig, pending, workerInFlight, sink>>

(* The platform runs an interrupted alarm again, from its beginning, until *)
(* ALARM_TRIES runs have thrown.                                           *)
AlarmAgain ==
  /\ tries' = tries + 1
  /\ alarm' = IF tries + 1 < ALARM_TRIES THEN "set" ELSE "unset"

(* A bucket call throws; a failed delete may have removed some keys.       *)
SweepThrows ==
  /\ "bucketFails" \in Faults
  /\ sweep.at \in {"list", "delete"}
  /\ tries < ALARM_TRIES
  /\ \E removed \in SUBSET sweep.page : bucket' = bucket \ removed
  /\ sweep' = NoSweep
  /\ AlarmAgain
  /\ UNCHANGED <<wphase, shard, stage, inFlight, outbox, creds, job, file, run, selected,
                 code, byoConfig, pending, workerInFlight, sink>>

(* The coordinator is evicted or crashes and is built again by the next    *)
(* call: SQLite and the alarm remain, runJob and the maps do not.  An      *)
(* object with a run, or an alarm, in progress is only lost by a crash.    *)
Evict ==
  /\ (run \in {"none", "ended"} /\ sweep.at = "off") \/ "crash" \in Faults
  /\ \/ sweep.at = "off" /\ UNCHANGED <<alarm, tries>>
     \/ sweep.at # "off" /\ tries < ALARM_TRIES /\ AlarmAgain
  /\ run' = "none" /\ selected' = {} /\ code' = FALSE /\ byoConfig' = FALSE
  /\ pending' = {} /\ workerInFlight' = [w \in Worker |-> 0]
  /\ sink' = FreshMetrics /\ sweep' = NoSweep
  /\ UNCHANGED <<workerVars, job, file>>

-----------------------------------------------------------------------------
WorkerOnly(w) ==
  /\ \/ ExtractShard(w, job.destination = "byo")
     \/ RuntimeFails(w, job.destination = "byo")
     \/ \E e \in Entry : ExtractEntryOk(w, e) \/ ExtractEntryFails(w, e)
     \/ ShardReturns(w)
     \/ WorkerDies(w)
  /\ UNCHANGED jobVars

WorkerForgets(w) == WorkerEvicted(w) /\ UNCHANGED jobVars

Next ==
  \/ \E destination \in Destination, hasCode \in BOOLEAN : Start(destination, hasCode)
  \/ \E destination \in Destination : StartsWithoutRuntime(destination)
  \/ \E entries \in SUBSET Entry : ReadIndexOk(entries)
  \/ \E sized \in BOOLEAN : ReadIndexFails(sized)
  \/ StartRecorded
  \/ \E w \in Worker : \/ WorkerOnly(w)
                       \/ WorkerForgets(w)
                       \/ ReportFileResult(w)
                       \/ ReportLost(w)
                       \/ ApplyShardSummary(w)
                       \/ FailShard(w)
  \/ RunEnds
  \/ AlarmFires
  \/ ListPrefix
  \/ DeletePage
  \/ SweepThrows
  \/ Evict

Spec == Init /\ [][Next]_vars

=============================================================================
