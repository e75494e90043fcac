---------------------------- MODULE JobInvariant ----------------------------
(***************************************************************************)
(* The inductive invariant behind the theorems of JobProofs.               *)
(***************************************************************************)
EXTENDS JobProperties

\* The stage an entry is in while a report of that status is unanswered.
Announces(status) == CASE status = "extracting" -> "announcing"
                       [] status = "done"       -> "reportingDone"
                       [] status = "failed"     -> "reportingFailed"

ShardsDisjoint ==
  \A v, w \in Worker : v # w => shard[v] \intersect shard[w] = {}

\* Before a worker starts nothing has happened to its entries, nor to those of no worker.
Untouched ==
  /\ \A w \in Worker :
       /\ wphase[w] = "idle" => shard[w] = {}
       /\ wphase[w] \in {"idle", "called"} =>
            outbox[w] = <<>> /\ \A e \in shard[w] : stage[e] = "idle"
  /\ \A e \in Entry : (\A w \in Worker : e \notin shard[w]) => stage[e] = "idle"

\* Every unanswered report is about an entry of the worker's, in the stage that
\* waits for its answer, and no two are about the same entry.
ReportsMatchStages ==
  \A w \in Worker : \A i \in 1 .. Len(outbox[w]) :
    /\ outbox[w][i].entry \in shard[w]
    /\ stage[outbox[w][i].entry] = Announces(outbox[w][i].status)
    /\ \A j \in 1 .. Len(outbox[w]) :
         j # i => outbox[w][j].entry # outbox[w][i].entry

\* The counter is the number of entries in flight.
CountsAreExact ==
  \A w \in Worker : wphase[w] = "running" => inFlight[w] = Cardinality(InFlight(w))

\* Until the index is read the workers are idle and no file is listed.
NothingListed ==
  /\ job.status = "none" => run = "none"
  /\ (job.status = "none" \/ run \in {"readIndex", "recordStart"}) =>
       /\ \A w \in Worker : wphase[w] = "idle"
       /\ \A n \in Name : file[n] = NoRow

PoolInv == /\ ShardsDisjoint
           /\ Untouched
           /\ ReportsMatchStages
           /\ CountsAreExact

\* The entry is extracted and its worker has nothing more to say about it.
Said(e) ==
  /\ stage[e] \in {"reportingDone", "done"}
  /\ \A w \in Worker : \A i \in 1 .. Len(outbox[w]) : outbox[w][i].entry # e

\* A row is done when its entry is, and the last report about it was heard.
DoneIsSaid == \A e \in Entry : file[NameOf[e]].status = "done" => Said(e)

\* No count a worker keeps or has sent exceeds its pool, and no loop idles beside a queue.
LoopsBounded ==
  \A w \in Worker :
    /\ inFlight[w] <= WORKER_CONCURRENCY
    /\ \A i \in 1 .. Len(outbox[w]) : outbox[w][i].inFlight <= WORKER_CONCURRENCY
    /\ (wphase[w] = "running" /\ Queue(w) # {}) => inFlight[w] = WORKER_CONCURRENCY

\* What the coordinator heard stays within the pools, what it added up within the fleet.
PeakBounded ==
  /\ \A w \in Worker : workerInFlight[w] <= WORKER_CONCURRENCY
  /\ sink.peak <= MAX_WORKERS * WORKER_CONCURRENCY
  /\ job.metrics.peak <= MAX_WORKERS * WORKER_CONCURRENCY

\* A run that has not come to its end is that of a running job.
RunIsLive ==
  /\ run \in {"readIndex", "recordStart", "fanOut"} => job.status = "running"
  /\ pending # {} => run = "fanOut"

\* The alarm is only ever set by the end of a run on the demo bucket.
AlarmFollowsCompletion ==
  /\ job.status # "completed" => alarm = "unset"
  /\ job.destination = "byo" => alarm = "unset"
  /\ alarm # "running" => sweep.at = "off"

(* The inductive invariant, whatever names the entries have: reports and   *)
(* stages agree, counts stay within a pool, the alarm waits for completion.*)
IInv ==
  /\ TypeOK
  /\ PoolInv
  /\ LoopsBounded
  /\ NothingListed
  /\ PeakBounded
  /\ RunIsLive
  /\ AlarmFollowsCompletion
  /\ CredentialsAreTransient
  /\ CompletedDemoIsScheduled

(* With a name of its own for every entry, done rows are accounted for.    *)
DoneInv == IInv /\ DoneIsSaid /\ RowsAreConsistent

-----------------------------------------------------------------------------
\* A row is that of an entry: nothing else is ever listed.
RowsAreOfEntries ==
  \A n \in Name : file[n] # NoRow => \E e \in Entry : NameOf[e] = n

\* Until a cleanup has begun, what a worker counts as extracted is in the bucket.
ExtractedAreStored ==
  (job.expires # "past" /\ alarm # "running" /\ tries = 0) =>
    \A e \in Entry : stage[e] \in {"reportingDone", "done"} => NameOf[e] \in bucket

\* Only a completed job is cleaned up.
CleanupFollowsCompletion == job.status # "completed" => job.expires # "past" /\ tries = 0

(* With a name of its own for every entry, done files are stored ones.     *)
StoredInv ==
  /\ DoneInv
  /\ RowsAreOfEntries
  /\ ExtractedAreStored
  /\ CleanupFollowsCompletion

-----------------------------------------------------------------------------
\* The coordinator waits no more for worker w: its promise is resolved or the job is over.
Resolved(w) == job.status # "running" \/ (run = "fanOut" /\ w \notin pending)

\* A worker that is not waited for is over and has said all it had to say.
ResolvedIsQuiet ==
  \A w \in Worker :
    /\ wphase[w] = "returned" => outbox[w] = <<>>
    /\ Resolved(w) => wphase[w] \in {"idle", "returned", "dead"} /\ outbox[w] = <<>>

\* What a completed job has in memory, if anything, is what it has persisted.
MetricsAreKept == (job.status = "completed" /\ HasLive) => sink = job.metrics

\* The sweep has left nothing behind its cursor and lists in order.
SweepLeavesNone ==
  /\ sweep.at # "off" => \A n \in bucket : n > sweep.cursor
  /\ sweep.at = "delete" =>
       /\ \A p \in sweep.page, n \in bucket \ sweep.page : p < n
       /\ ~sweep.more => bucket \subseteq sweep.page
  /\ job.expires = "past" => bucket = {}

(* While the calls to the workers hold, nobody writes after completion.    *)
QuietInv ==
  /\ IInv
  /\ CleanupFollowsCompletion
  /\ ResolvedIsQuiet
  /\ MetricsAreKept
  /\ SweepLeavesNone

-----------------------------------------------------------------------------
\* The row of entry e.
RowOf(e) == file[NameOf[e]]

SettledStatus == {"done", "failed"}

ListedNames == {n \in Name : file[n] # NoRow}

\* The listed entries are those of the shards, and `total` counts them.
ShardsAreListed ==
  /\ \A e \in Entry : RowOf(e) # NoRow <=> \E w \in Worker : e \in shard[w]
  /\ job.total = Cardinality(ListedNames)
  /\ run = "fanOut" => ListedNames # {}

\* A row is failed when its worker will say nothing more about the entry.
FailedIsSaid ==
  \A e \in Entry : RowOf(e).status = "failed" =>
    /\ \A w \in Worker : \A i \in 1 .. Len(outbox[w]) : outbox[w][i].entry # e
    /\ \/ stage[e] \in {"reportingFailed", "failed"}
       \/ \E w \in Worker : e \in shard[w] /\ wphase[w] = "dead"

\* While the coordinator listens, an entry a live worker is through with has its row settled.
SettledIsHeard ==
  \A w \in Worker : wphase[w] \in {"running", "returned"} =>
    \A e \in shard[w] :
      /\ stage[e] # "idle"
      /\ wphase[w] = "returned" => stage[e] \in SettledStatus
      /\ (stage[e] \in SettledStatus /\ (run = "fanOut" \/ job.status # "running")) =>
           RowOf(e).status = stage[e]

\* Every row of a worker that is not waited for is settled.
ResolvedIsSettled ==
  \A w \in Worker : Resolved(w) => \A e \in shard[w] : RowOf(e).status \in SettledStatus

\* The entries whose worker's summary was merged into the job's metrics.
Counted ==
  {e \in Entry : \E w \in Worker \ pending : wphase[w] = "returned" /\ e \in Extracted(w)}

ExtractedAreCounted ==
  /\ run \in {"readIndex", "recordStart"} => sink.extracted = 0
  /\ run = "fanOut" => sink.extracted = Cardinality(Counted)
  /\ job.status = "completed" => job.metrics.extracted = Cardinality(Counted)

(* While the calls hold and no report is lost, a completed job has settled *)
(* every row and counted every file.                                       *)
HonestInv ==
  /\ DoneInv
  /\ QuietInv
  /\ RowsAreOfEntries
  /\ ShardsAreListed
  /\ FailedIsSaid
  /\ SettledIsHeard
  /\ ResolvedIsSettled
  /\ ExtractedAreCounted

=============================================================================
