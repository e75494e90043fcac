--------------------------- MODULE JobProperties ---------------------------
(***************************************************************************)
(* The properties of the extraction job: ExtractJob.tla's coordinator and  *)
(* workers, under the failures each configuration allows.                  *)
(***************************************************************************)
EXTENDS ExtractJob

JobTypeOK ==
  /\ job \in Job
  /\ file \in [Name -> Row \union {NoRow}]
  /\ alarm \in {"unset", "set", "running"}
  /\ tries \in Nat
  /\ run \in {"none", "readIndex", "recordStart", "fanOut", "finishing", "ended"}
  /\ selected \subseteq Entry
  /\ code \in BOOLEAN
  /\ byoConfig \in BOOLEAN
  /\ pending \subseteq Worker
  /\ workerInFlight \in [Worker -> Nat]
  /\ sink \in Metrics
  /\ sweep \in [at : {"off", "list", "delete"}, cursor : Nat, page : SUBSET Name,
                more : BOOLEAN]

(* Every variable has its type: what the coordinator and its workers keep  *)
(* (src/src/job.ts, src/src/extract-worker.ts).                            *)
TypeOK == WorkerTypeOK /\ JobTypeOK

Rows(status)  == {n \in Name : file[n].status = status}
SettledRows   == Rows("done") \union Rows("failed")


-----------------------------------------------------------------------------
(* The pool.  The `inFlight` counter of a running worker is the number of  *)
(* entries its loops hold, it never exceeds WORKER_CONCURRENCY, and no     *)
(* loop idles while the queue holds an entry ("saturates its own budget    *)
(* without exceeding it", extract-worker.ts:54-56).                        *)
PoolSaturated ==
  \A w \in Worker : wphase[w] = "running" =>
    /\ inFlight[w] = Cardinality(InFlight(w))
    /\ inFlight[w] <= WORKER_CONCURRENCY
    /\ Queue(w) # {} => inFlight[w] = WORKER_CONCURRENCY

(* A job reported completed has settled what it promised: as many rows are *)
(* done or failed as `total` says, so the percentage is 100.  Reports are  *)
(* awaited by the loops, the loops by extractShard, and that by fanOut.    *)
CompletedMeansSettled ==
  job.status = "completed" => Cardinality(SettledRows) = job.total

(* A file that was reported done stays done, with its key and without an   *)
(* error, whatever later report, shard failure, restart or cleanup comes.  *)
DoneIsFinal ==
  [][\A n \in Name : file[n].status = "done" => file'[n] = file[n]]_vars

(* A row says what its columns say: done rows have a key and no error,     *)
(* failed rows an error and no key.                                        *)
RowsAreConsistent ==
  \A n \in Name :
    /\ file[n].key <=> file[n].status = "done"
    /\ file[n].status = "failed" => file[n].error
    /\ file[n].error => file[n].status # "done"

(* What a client is told it can download is there: until the cleanup alarm *)
(* has gone off, a done file has its object under the job's prefix.        *)
DoneIsStored ==
  (job.expires # "past" /\ alarm # "running" /\ tries = 0) => Rows("done") \subseteq bucket

(* A completed job on the demo bucket cannot lose its cleanup: the alarm   *)
(* is set, or its handler runs, or it ran to its end, or the platform gave *)
(* it up after ALARM_TRIES runs that threw.                                *)
CompletedDemoIsScheduled ==
  (job.status = "completed" /\ job.destination = "demo") =>
    \/ alarm \in {"set", "running"}
    \/ job.expires = "past"
    \/ tries = ALARM_TRIES

(* After the cleanup nothing is left under the job's prefix: no worker can *)
(* still write when the alarm goes off, and the paged deletion skips none. *)
CleanedMeansEmpty == job.expires = "past" => bucket = {}

(* A user's own bucket only gains objects: no alarm is ever set for it and *)
(* no object is deleted from it (job.ts:313-314).                          *)
ByoIsKept ==
  [][job.destination = "byo" => bucket \subseteq bucket' /\ alarm' = "unset"]_vars

\* The call of worker w threw before any of its loops began.
NeverBegan(w) == wphase[w] = "dead" /\ \A e \in shard[w] : stage[e] = "idle"

(* The user's credentials do not outlive their use, except where it never  *)
(* began: the coordinator of a byo job holds them while runJob runs, a     *)
(* worker inside its extractShard call.  Both take them before they build  *)
(* their runtime and drop them in a finally whose try comes after it       *)
(* (job.ts:364, extract-worker.ts:165): only one that could not build its  *)
(* runtime keeps them, a coordinator's job then being pending for good.    *)
CredentialsAreTransient ==
  /\ byoConfig => /\ job.destination = "byo"
                  /\ run \notin {"none", "ended"} \/ job.status = "pending"
  /\ \A w \in Worker : creds[w] => /\ job.destination = "byo"
                                   /\ wphase[w] = "running" \/ NeverBegan(w)

(* The peak the job reports never exceeds what the fleet can run at once.  *)
PeakWithinFleet == Larger(sink.peak, job.metrics.peak) <= MAX_WORKERS * WORKER_CONCURRENCY

(* The files-extracted metric of a completed job: the rows that are done,  *)
(* less those whose worker died before its summary came back.              *)
ExtractedIsHonest ==
  job.status = "completed" =>
    /\ job.metrics.extracted <= Cardinality(Rows("done"))
    /\ (\A w \in Worker : wphase[w] # "dead") =>
         job.metrics.extracted = Cardinality(Rows("done"))

(* Both: what a completed job says of its files.                           *)
CompletedIsHonest == CompletedMeansSettled /\ ExtractedIsHonest

(* "so report() survives eviction" (job.ts:622): once a job is completed   *)
(* every poll reads the same numbers, from memory or, when the object was  *)
(* evicted and built again, from its table.                                *)
ReportedMetricsStay ==
  [][job.status = "completed" => CurrentMetrics' = CurrentMetrics]_vars

-----------------------------------------------------------------------------
(* Said of the program and not so: the README has the behaviours.          *)

(* "Persist the live metrics snapshot into SQLite so report() survives     *)
(* eviction" (job.ts:622): what was measured and persisted stays measured. *)
MetricsSurviveEviction == [][job.metrics.archived => job'.metrics.archived]_vars

(* "written to the demo bucket and auto-deleted after the TTL" (ui.ts:243):*)
(* the output of a demo job that has ended has a cleanup ahead of it.      *)
EndedDemoIsScheduled ==
  (run = "ended" /\ job.destination = "demo" /\ Rows("done") # {}) =>
    alarm \in {"set", "running"} \/ job.expires = "past" \/ tries = ALARM_TRIES

(* "max simultaneous in-flight extractions observed (bounded at 6)"        *)
(* (README.md:180), 6 being one worker's WORKER_CONCURRENCY.               *)
PeakWithinOnePool == sink.peak <= WORKER_CONCURRENCY

(* "Drop transient BYO credentials the moment the run ends" (job.ts:429),  *)
(* "the moment the shard ends" (extract-worker.ts:183): nobody else holds  *)
(* them.                                                                   *)
CredentialsEndWithRun ==
  /\ byoConfig => run \notin {"none", "ended"}
  /\ \A w \in Worker : creds[w] => wphase[w] = "running"

-----------------------------------------------------------------------------
(* The coordinator and its workers keep the promise made to the client.    *)
Promise == INSTANCE JobPromise WITH
  status <- job.status,
  row    <- [n \in Name |-> file[n].status]

KeepsPromise == Promise!Spec

-----------------------------------------------------------------------------
\* Every party takes its steps: the source and the registry answer, the isolates
\* run, reports are answered one way or the other, the alarm goes off.
RegistryFairness == WF_vars(StartRecorded) /\ WF_vars(RunEnds)

Fairness ==
  /\ WF_vars(\E entries \in SUBSET Entry : ReadIndexOk(entries))
  /\ \A w \in Worker :
       /\ WF_vars(WorkerOnly(w))
       /\ WF_vars(ReportFileResult(w) \/ ReportLost(w))
       /\ WF_vars(ApplyShardSummary(w))
       /\ WF_vars(wphase[w] = "dead" /\ FailShard(w))
  /\ WF_vars(AlarmFires) /\ WF_vars(ListPrefix) /\ WF_vars(DeletePage)

FairSpec == Spec /\ Fairness /\ RegistryFairness

\* The registry is a singleton every job calls: it may be slow for ever.
SlowRegistrySpec == Spec /\ Fairness

(* A job that runs comes to an end.                                        *)
JobSettles == Promise!Ends

(* The output of a completed demo job is eventually deleted for good, or   *)
(* every run of the alarm that the platform grants has thrown.             *)
OutputExpires ==
  (job.status = "completed" /\ job.destination = "demo")
    ~> []((bucket = {}) \/ tries = ALARM_TRIES)

=============================================================================
