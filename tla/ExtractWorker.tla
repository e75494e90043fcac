--------------------------- MODULE ExtractWorker ---------------------------
(***************************************************************************)
(* The extraction worker Durable Object (src/src/extract-worker.ts): one   *)
(* isolate that owns a shard of the archive's entries, runs them through a *)
(* pool of WORKER_CONCURRENCY loops and reports every transition back to   *)
(* the job's coordinator over RPC.                                         *)
(*                                                                         *)
(* The module describes all the workers of one job at once and the bucket  *)
(* they write to.  What the coordinator does with a report is not said     *)
(* here: module ExtractJob conjoins its handler to ReportAnswered.         *)
(*                                                                         *)
(* The loops of a pool are interchangeable, so the pool is described by    *)
(* the stage each entry is in; a loop is an entry in an active stage.      *)
(***************************************************************************)
EXTENDS Integers, FiniteSets, Sequences, Functions

CONSTANTS
  Entry,               \* the entries that can be selected for extraction
  Name,                \* the entry names, numbered in the bucket's listing order
  NameOf,              \* the name of each entry (two entries may share one)
  MAX_WORKERS,         \* the cap on the fleet
  WORKER_CONCURRENCY,  \* the loops of one worker's pool
  Faults               \* the failures a configuration lets happen

\* loseReport: the RPC of a report fails.  workerDies: a worker's isolate is lost.
\* callBreaks: the coordinator's call to a worker fails while the worker goes on.
\* crash: the coordinator is lost in the middle of a run.
\* bucketFails: a bucket call of the cleanup throws.
\* alarmRefused: the storage does not take the alarm.
\* noRuntime: createRuntime throws, in a worker or in the coordinator.
FaultKind == {"loseReport", "workerDies", "callBreaks", "crash", "bucketFails", "alarmRefused",
              "noRuntime"}

ASSUME WorkerAssumption ==
  /\ IsFiniteSet(Entry)
  /\ Name \subseteq Nat \ {0}
  /\ NameOf \in [Entry -> Name]
  /\ MAX_WORKERS \in Nat \ {0}
  /\ WORKER_CONCURRENCY \in Nat \ {0}
  /\ Faults \subseteq FaultKind

Worker == 0 .. (MAX_WORKERS - 1)

VARIABLES
  wphase,    \* per worker: where its one extractShard call stands
  shard,     \* per worker: the entries of its ShardInput
  stage,     \* per entry: how far its extraction is
  inFlight,  \* per worker: the `inFlight` counter
  outbox,    \* per worker: the reportFileResult calls not yet answered, in call order
  creds,     \* per worker: does `byoConfig` hold the user's credentials
  bucket     \* the names with an object under the job's prefix

workerVars == <<wphase, shard, stage, inFlight, outbox, creds, bucket>>

WPhase == {"idle", "called", "running", "returned", "dead"}

\* dead: the extractShard call ended without a summary.
\* announcing, reportingDone, reportingFailed: the loop awaits the answer to a report.
Active == {"announcing", "extracting", "reportingDone", "reportingFailed"}
Stage  == {"idle", "queued", "done", "failed"} \union Active

ReportStatus == {"extracting", "done", "failed"}
Report == [entry : Entry, status : ReportStatus, inFlight : Nat]

\* Mutant: filesExtracted counts the entries tried.
Tried(w) == shard[w]

Queue(w)     == {e \in shard[w] : stage[e] = "queued"}
InFlight(w)  == {e \in shard[w] : stage[e] \in Active}
Extracted(w) == {e \in shard[w] : stage[e] \in {"reportingDone", "done"}}

\* Mutant: a loop per entry.
PoolSizeUncapped(S) == Cardinality(S)

\* The length of the pool: Math.min(WORKER_CONCURRENCY, input.entries.length).
PoolSize(S) == IF Cardinality(S) < WORKER_CONCURRENCY
               THEN Cardinality(S) ELSE WORKER_CONCURRENCY

WorkerTypeOK ==
  /\ wphase \in [Worker -> WPhase]
  /\ shard \in [Worker -> SUBSET Entry]
  /\ stage \in [Entry -> Stage]
  /\ inFlight \in [Worker -> Nat]
  /\ outbox \in [Worker -> Seq(Report)]
  /\ creds \in [Worker -> BOOLEAN]
  /\ bucket \subseteq Name

WorkerInit ==
  /\ wphase   = [w \in Worker |-> "idle"]
  /\ shard    = [w \in Worker |-> {}]
  /\ stage    = [e \in Entry |-> "idle"]
  /\ inFlight = [w \in Worker |-> 0]
  /\ outbox   = [w \in Worker |-> <<>>]
  /\ creds    = [w \in Worker |-> FALSE]
  /\ bucket   = {}

-----------------------------------------------------------------------------
(* The extractShard calls go out: every entry of `selected` to the worker  *)
(* that `assignment` gives it, the workers of `fleet` called in one turn.  *)
Dispatch(selected, fleet, assignment) ==
  /\ \A w \in fleet : wphase[w] = "idle"
  /\ wphase' = [w \in Worker |-> IF w \in fleet THEN "called" ELSE wphase[w]]
  /\ shard'  = [w \in Worker |-> IF w \in fleet
                                 THEN {e \in selected : assignment[e] = w} ELSE shard[w]]
  /\ UNCHANGED <<stage, inFlight, outbox, creds, bucket>>

(* extractShard starts: every loop of the pool shifts an entry and sends   *)
(* its "extracting" report before any of them first waits, so the reports  *)
(* carry the counts 1, 2, ... in the order of the loops.                   *)
ExtractShard(w, byo) ==
  /\ wphase[w] = "called"
  /\ \E first \in [1 .. PoolSize(shard[w]) -> shard[w]] :
       /\ IsInjective(first)
       /\ stage' = [e \in Entry |-> CASE e \in Range(first) -> "announcing"
                                      [] e \in shard[w] \ Range(first) -> "queued"
                                      [] OTHER -> stage[e]]
       /\ outbox' = [outbox EXCEPT ![w] =
            [i \in 1 .. PoolSize(shard[w]) |->
               [entry |-> first[i], status |-> "extracting", inFlight |-> i]]]
  /\ inFlight' = [inFlight EXCEPT ![w] = PoolSize(shard[w])]
  /\ wphase'   = [wphase EXCEPT ![w] = "running"]
  /\ creds'    = [creds EXCEPT ![w] = byo]
  /\ UNCHANGED <<shard, bucket>>

Send(w, e, status) ==
  outbox' = [outbox EXCEPT ![w] =
    Append(@, [entry |-> e, status |-> status, inFlight |-> inFlight[w]])]

(* extractEntry succeeds: the object is in the bucket, the loop reports.   *)
ExtractEntryOk(w, e) ==
  /\ wphase[w] = "running" /\ e \in shard[w] /\ stage[e] = "extracting"
  /\ bucket' = bucket \union {NameOf[e]}
  /\ stage'  = [stage EXCEPT ![e] = "reportingDone"]
  /\ Send(w, e, "done")
  /\ UNCHANGED <<wphase, shard, inFlight, creds>>

\* Mutant: a failed write is reported as done.
ExtractEntryFailsSilently(w, e) ==
  /\ wphase[w] = "running" /\ e \in shard[w] /\ stage[e] = "extracting"
  /\ stage'  = [stage EXCEPT ![e] = "reportingFailed"]
  /\ Send(w, e, "done")
  /\ UNCHANGED <<wphase, shard, inFlight, creds, bucket>>

(* extractEntry fails: nothing was written, or the write took effect and   *)
(* the failure came after it (a put or a completeMultipart whose answer is *)
(* an error, a pump that fails beside a put that ended).                   *)
ExtractEntryFails(w, e) ==
  /\ wphase[w] = "running" /\ e \in shard[w] /\ stage[e] = "extracting"
  /\ bucket' \in {bucket, bucket \union {NameOf[e]}}
  /\ stage'  = [stage EXCEPT ![e] = "reportingFailed"]
  /\ Send(w, e, "failed")
  /\ UNCHANGED <<wphase, shard, inFlight, creds>>

EntrySettled(e) == IF stage[e] = "reportingDone" THEN "done" ELSE "failed"

\* Mutant: the count is given up where the report is answered and once more at the end.
ReleasedTwice(w) == inFlight[w] - 2

Released(w) == inFlight[w] - 1

(* The oldest report is answered (applied or refused: `report` swallows    *)
(* the failure) and its loop goes on.  After a terminal report the loop    *)
(* gives up its count and, in the same turn, shifts the next entry, counts *)
(* it and announces it.                                                    *)
LoopGoesOn(w, report) ==
  LET e == report.entry IN
  \/ /\ report.status = "extracting"
     /\ stage'  = [stage EXCEPT ![e] = "extracting"]
     /\ outbox' = [outbox EXCEPT ![w] = Tail(@)]
     /\ UNCHANGED inFlight
  \/ /\ report.status # "extracting"
     /\ \E next \in Queue(w) :
          /\ stage'  = [stage EXCEPT ![e] = EntrySettled(e), ![next] = "announcing"]
          /\ outbox' = [outbox EXCEPT ![w] =
               Append(Tail(@), [entry |-> next, status |-> "extracting",
                                inFlight |-> inFlight[w]])]
     /\ UNCHANGED inFlight
  \/ /\ report.status # "extracting"
     /\ Queue(w) = {}
     /\ stage'    = [stage EXCEPT ![e] = EntrySettled(e)]
     /\ outbox'   = [outbox EXCEPT ![w] = Tail(@)]
     /\ inFlight' = [inFlight EXCEPT ![w] = Released(w)]

ReportAnswered(w) ==
  /\ outbox[w] # <<>>
  /\ \/ /\ wphase[w] = "running"
        /\ LoopGoesOn(w, Head(outbox[w]))
     \/ /\ wphase[w] = "dead"        \* a call the dead isolate had already sent
        /\ outbox' = [outbox EXCEPT ![w] = Tail(@)]
        /\ UNCHANGED <<stage, inFlight>>
  /\ UNCHANGED <<wphase, shard, creds, bucket>>

(* Every loop of the pool has ended: the credentials are dropped, the      *)
(* summary is on its way to the coordinator.                               *)
ShardReturns(w) ==
  /\ wphase[w] = "running"
  /\ Queue(w) = {} /\ InFlight(w) = {}
  /\ wphase' = [wphase EXCEPT ![w] = "returned"]
  /\ creds'  = [creds EXCEPT ![w] = FALSE]
  /\ UNCHANGED <<shard, stage, inFlight, outbox, bucket>>

(* extractShard throws before its try: it has taken the credentials and    *)
(* cannot build its runtime.  The isolate lives on and keeps them.         *)
RuntimeFails(w, byo) ==
  /\ "noRuntime" \in Faults
  /\ wphase[w] = "called"
  /\ wphase' = [wphase EXCEPT ![w] = "dead"]
  /\ creds'  = [creds EXCEPT ![w] = byo]
  /\ UNCHANGED <<shard, stage, inFlight, outbox, bucket>>

(* The isolate of a worker whose call is over is let go, with its memory.  *)
WorkerEvicted(w) ==
  /\ wphase[w] \in {"returned", "dead"} /\ creds[w]
  /\ creds' = [creds EXCEPT ![w] = FALSE]
  /\ UNCHANGED <<wphase, shard, stage, inFlight, outbox, bucket>>

(* The isolate is lost during its call (reset, out of memory), and its     *)
(* memory with it.  Calls it had sent may still be delivered.              *)
WorkerDies(w) ==
  /\ "workerDies" \in Faults
  /\ wphase[w] \in {"called", "running"}
  /\ wphase' = [wphase EXCEPT ![w] = "dead"]
  /\ creds'  = [creds EXCEPT ![w] = FALSE]
  /\ UNCHANGED <<shard, stage, inFlight, outbox, bucket>>

=============================================================================
