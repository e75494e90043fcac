---------------------------- MODULE SettledProofs ----------------------------
(***************************************************************************)
(* Theorems about the file table of the extraction job and its end.        *)
(*                                                                         *)
(* A done file stays done, whatever reports, shard failures, restarts and  *)
(* cleanups come, as long as every entry has a name of its own, and it is  *)
(* stored until the cleanup begins.  While the calls to the workers hold,  *)
(* nobody writes once the job is over, so the cleanup leaves nothing and   *)
(* the reported metrics stay; while no report is lost either, a completed  *)
(* job has settled what it promised and keeps JobPromise.                  *)
(***************************************************************************)
EXTENDS JobProofs

\* The first step of a job, whether its run could begin or not.
Starts ==
  \/ \E destination \in Destination, hasCode \in BOOLEAN : Start(destination, hasCode)
  \/ \E destination \in Destination : StartsWithoutRuntime(destination)

\* A worker whose call is over loses its memory.
Forgets == \E w \in Worker : WorkerForgets(w)

LEMMA ForgetsFrame ==
  ASSUME Forgets
  PROVE  /\ UNCHANGED <<wphase, shard, stage, inFlight, outbox, bucket>>
         /\ UNCHANGED <<job, file, alarm, tries>>
         /\ UNCHANGED <<run, selected, code, byoConfig, pending, workerInFlight, sink, sweep>>
  BY DEF Forgets, WorkerForgets, WorkerEvicted, jobVars, durable, volatile

(***************************************************************************)
(* The file table                                                          *)
(***************************************************************************)
\* Head and tail of an outbox, and the entries its tail is about.
LEMMA AnsweredHead ==
  ASSUME IInv, NEW w \in Worker, ReportAnswered(w)
  PROVE  /\ Head(outbox[w]) \in Report
         /\ Head(outbox[w]).entry \in shard[w]
         /\ stage[Head(outbox[w]).entry] = Announces(Head(outbox[w]).status)
         /\ \E i \in 1 .. Len(outbox[w]) : outbox[w][i].entry = Head(outbox[w]).entry
         /\ \A i \in 1 .. Len(Tail(outbox[w])) :
              /\ Tail(outbox[w])[i].entry # Head(outbox[w]).entry
              /\ \E j \in 1 .. Len(outbox[w]) : Tail(outbox[w])[i] = outbox[w][j]
         /\ Tail(outbox[w]) \in Seq(Report)
<1>1. WInv /\ outbox[w] # <<>> /\ outbox[w] \in Seq(Report)
  BY Parts DEF ReportAnswered, WInv, WorkerTypeOK
<1>2. /\ Len(Tail(outbox[w])) = Len(outbox[w]) - 1
      /\ \A i \in 1 .. Len(Tail(outbox[w])) : Tail(outbox[w])[i] = outbox[w][i + 1]
      /\ Head(outbox[w]) = outbox[w][1] /\ Len(outbox[w]) \in Nat \ {0}
  BY <1>1, HeadTailProperties, EmptySeq
<1>3. \A i \in 1 .. Len(Tail(outbox[w])) : i + 1 \in 1 .. Len(outbox[w])
  BY <1>2
<1>4. QED
  BY <1>1, <1>2, <1>3, HeadOfOutbox

(* When a report is answered, what was said of an entry stays said, and    *)
(* the entry of a done report is said.                                     *)
LEMMA AnswerKeepsSaid ==
  ASSUME IInv, NEW w \in Worker, ReportAnswered(w), NEW d \in Entry,
         Said(d) \/ (d = Head(outbox[w]).entry /\ Head(outbox[w]).status = "done")
  PROVE  Said(d)'
<1> DEFINE h == Head(outbox[w])
           t == Tail(outbox[w])
           e == h.entry
<1>1. WInv
  BY Parts
<1>2. /\ h \in Report /\ e \in shard[w] /\ e \in Entry /\ stage[e] = Announces(h.status)
      /\ \E i \in 1 .. Len(outbox[w]) : outbox[w][i].entry = e
      /\ \A i \in 1 .. Len(t) :
           t[i].entry # e /\ \E j \in 1 .. Len(outbox[w]) : t[i] = outbox[w][j]
      /\ t \in Seq(Report)
      /\ stage \in [Entry -> Stage] /\ outbox \in [Worker -> Seq(Report)]
  BY <1>1, AnsweredHead DEF WInv, WorkerTypeOK
<1>3. Said(d) => d # e
  BY <1>2 DEF Said
<1>4. d = e => \A v \in Worker : v # w => \A i \in 1 .. Len(outbox[v]) : outbox[v][i].entry # d
  BY <1>1, <1>2 DEF WInv, PoolInv, ShardsDisjoint, ReportsMatchStages
<1>5. \A v \in Worker : v # w => \A i \in 1 .. Len(outbox[v]) : outbox[v][i].entry # d
  BY <1>4 DEF Said
<1>6. \A i \in 1 .. Len(t) : t[i].entry # d
  BY <1>2 DEF Said
<1>7. stage[d] \in {"reportingDone", "done"} /\ (d = e => stage[d] = "reportingDone")
  BY <1>2, <1>3 DEF Said, Announces
<1>8. \/ /\ outbox' = [outbox EXCEPT ![w] = t]
         /\ \/ stage' = stage
            \/ stage' = [stage EXCEPT ![e] = "extracting"] /\ h.status = "extracting"
            \/ stage' = [stage EXCEPT ![e] = EntrySettled(e)]
      \/ \E next \in Queue(w) :
           /\ stage' = [stage EXCEPT ![e] = EntrySettled(e), ![next] = "announcing"]
           /\ outbox' = [outbox EXCEPT ![w] =
                Append(t, [entry |-> next, status |-> "extracting", inFlight |-> inFlight[w]])]
  BY DEF ReportAnswered, LoopGoesOn, Released
<1> HIDE DEF h, t, e
<1>9. d = e => EntrySettled(e) = "done" /\ h.status # "extracting"
  BY <1>3, <1>7 DEF EntrySettled, h, e
<1>10. CASE /\ outbox' = [outbox EXCEPT ![w] = t]
            /\ \/ stage' = stage
               \/ stage' = [stage EXCEPT ![e] = "extracting"] /\ h.status = "extracting"
               \/ stage' = [stage EXCEPT ![e] = EntrySettled(e)]
  <2>1. stage'[d] \in {"reportingDone", "done"}
    BY <1>2, <1>7, <1>9, <1>10
  <2>2. \A v \in Worker : \A i \in 1 .. Len(outbox'[v]) : outbox'[v][i].entry # d
    BY <1>2, <1>5, <1>6, <1>10
  <2>3. QED
    BY <2>1, <2>2 DEF Said
<1>11. ASSUME NEW next \in Queue(w),
              stage' = [stage EXCEPT ![e] = EntrySettled(e), ![next] = "announcing"],
              outbox' = [outbox EXCEPT ![w] =
                Append(t, [entry |-> next, status |-> "extracting", inFlight |-> inFlight[w]])]
       PROVE  Said(d)'
  <2> DEFINE r == [entry |-> next, status |-> "extracting", inFlight |-> inFlight[w]]
  <2>1. next # d
    BY <1>7 DEF Queue
  <2>2. stage'[d] \in {"reportingDone", "done"}
    BY <1>2, <1>7, <1>9, <1>11, <2>1
  <2>3. r.entry # d /\ outbox' = [outbox EXCEPT ![w] = Append(t, r)]
    BY <1>11, <2>1
  <2> HIDE DEF r
  <2>4. \A i \in 1 .. Len(Append(t, r)) : Append(t, r)[i].entry # d
    <3>1. \A i \in 1 .. Len(Append(t, r)) :
            \/ i \in 1 .. Len(t) /\ Append(t, r)[i] = t[i]
            \/ Append(t, r)[i] = r
      <4>1. t \in Seq(Report)
        BY <1>2
      <4>2. QED
        BY <4>1
    <3>2. QED
      BY <1>6, <2>3, <3>1
  <2>5. \A v \in Worker : \A i \in 1 .. Len(outbox'[v]) : outbox'[v][i].entry # d
    BY <1>2, <1>5, <2>3, <2>4
  <2>6. QED
    BY <2>2, <2>5 DEF Said
<1>12. QED
  BY <1>8, <1>10, <1>11

(* The other steps of a worker.                                            *)
LEMMA WorkerKeepsSaid ==
  ASSUME IInv, NEW w \in Worker, WorkerOnly(w), NEW d \in Entry, Said(d)
  PROVE  Said(d)'
<1>1. WInv /\ stage \in [Entry -> Stage] /\ outbox \in [Worker -> Seq(Report)]
      /\ shard \in [Worker -> SUBSET Entry]
  BY Parts DEF WInv, WorkerTypeOK
<1>2. CASE ExtractShard(w, job.destination = "byo")
  <2>1. d \notin shard[w]
    BY <1>1, <1>2 DEF ExtractShard, WInv, PoolInv, Untouched, Said
  <2> DEFINE k == PoolSize(shard[w])
  <2>2. k \in Nat
    BY <1>1, PoolSizeNat
  <2>3. PICK first \in [1 .. k -> shard[w]] :
          /\ stage' = [e \in Entry |-> CASE e \in Range(first) -> "announcing"
                                        [] e \in shard[w] \ Range(first) -> "queued"
                                        [] OTHER -> stage[e]]
          /\ outbox' = [outbox EXCEPT ![w] =
              [i \in 1 .. k |-> [entry |-> first[i], status |-> "extracting", inFlight |-> i]]]
    BY <1>2 DEF ExtractShard
  <2> HIDE DEF k
  <2>4. stage'[d] = stage[d]
    BY <2>1, <2>3 DEF Range
  <2>5. \A i \in 1 .. Len(outbox'[w]) : outbox'[w][i].entry # d
    <3>1. outbox'[w] =
            [i \in 1 .. k |-> [entry |-> first[i], status |-> "extracting", inFlight |-> i]]
      BY <1>1, <2>3
    <3>2. Len(outbox'[w]) = k
      <4> DEFINE reports ==
            [i \in 1 .. k |-> [entry |-> first[i], status |-> "extracting", inFlight |-> i]]
      <4>1. DOMAIN reports = 1 .. k
        OBVIOUS
      <4>2. reports \in Seq({reports[i] : i \in 1 .. k})
        BY <2>2
      <4>3. Len(reports) = k
        BY <2>2, <4>1, <4>2
      <4>4. QED
        BY <3>1, <4>3
    <3>3. \A i \in 1 .. k : outbox'[w][i].entry = first[i]
      BY <3>1
    <3>4. \A i \in 1 .. k : first[i] # d
      BY <2>1, <2>3
    <3>5. QED
      BY <3>2, <3>3, <3>4
  <2>6. \A v \in Worker : v # w => outbox'[v] = outbox[v]
    BY <1>1, <2>3
  <2>7. QED
    BY <2>4, <2>5, <2>6 DEF Said
<1>3. ASSUME NEW e \in Entry, ExtractEntryOk(w, e) \/ ExtractEntryFails(w, e)
      PROVE  Said(d)'
  <2>1. PICK status \in {"done", "failed"} : Send(w, e, status)
    BY <1>3 DEF ExtractEntryOk, ExtractEntryFails
  <2>2. d # e /\ stage'[d] = stage[d]
    BY <1>1, <1>3 DEF ExtractEntryOk, ExtractEntryFails, Said
  <2> DEFINE r == [entry |-> e, status |-> status, inFlight |-> inFlight[w]]
  <2>3. outbox' = [outbox EXCEPT ![w] = Append(outbox[w], r)] /\ r.entry # d
    BY <2>1, <2>2 DEF Send
  <2> HIDE DEF r
  <2>4. \A i \in 1 .. Len(Append(outbox[w], r)) : Append(outbox[w], r)[i].entry # d
    <3>1. \A i \in 1 .. Len(Append(outbox[w], r)) :
            \/ i \in 1 .. Len(outbox[w]) /\ Append(outbox[w], r)[i] = outbox[w][i]
            \/ Append(outbox[w], r)[i] = r
      BY <1>1
    <3>2. QED
      BY <2>3, <3>1 DEF Said
  <2>5. \A v \in Worker : \A i \in 1 .. Len(outbox'[v]) : outbox'[v][i].entry # d
    BY <1>1, <2>3, <2>4 DEF Said
  <2>6. QED
    BY <2>2, <2>5 DEF Said
<1>4. CASE ShardReturns(w) \/ RuntimeFails(w, job.destination = "byo") \/ WorkerDies(w)
  BY <1>4 DEF ShardReturns, RuntimeFails, WorkerDies, Said
<1>5. QED
  BY <1>2, <1>3, <1>4 DEF WorkerOnly

-----------------------------------------------------------------------------
\* The done files after a step that settles none.
LEMMA NoneSettled ==
  ASSUME DoneInv, stage' = stage, outbox' = outbox,
         \A n \in Name : file'[n].status = "done" => file[n].status = "done"
  PROVE  DoneIsSaid'
<1>1. \A e \in Entry : NameOf[e] \in Name
  BY WorkerAssumption
<1>2. \A e \in Entry : Said(e)' = Said(e)
  BY DEF Said
<1>3. QED
  BY <1>1, <1>2 DEF DoneInv, DoneIsSaid

LEMMA FanOutSettlesNone ==
  ASSUME DoneInv, run \in {"readIndex", "recordStart"},
         NEW entries, NEW m, FanOut(entries, m)
  PROVE  /\ stage' = stage /\ outbox' = outbox
         /\ \A n \in Name : file[n].status # "done" /\ file'[n].status # "done"
         /\ RowsAreConsistent'
<1>1. \A n \in Name : file[n] = NoRow
  BY DEF DoneInv, IInv, NothingListed
<1>2. \A n \in Name : \/ file'[n] = NoRow
                      \/ file'[n] = [status |-> "pending", key |-> FALSE, error |-> FALSE]
  BY <1>1 DEF FanOut
<1>3. stage' = stage /\ outbox' = outbox
  BY DEF FanOut, Dispatch, workerVars
<1>4. QED
  BY <1>1, <1>2, <1>3 DEF NoRow, RowsAreConsistent

(* A report is applied.  Only the row of its entry changes, and it was not *)
(* done: what is done has nothing left to say.                             *)
LEMMA ReportKeepsDone ==
  ASSUME IsInjective(NameOf), DoneInv, NEW w \in Worker, ReportFileResult(w)
  PROVE  /\ DoneIsSaid' /\ RowsAreConsistent'
         /\ \A n \in Name : file[n].status = "done" => file'[n] = file[n]
<1> DEFINE h == Head(outbox[w])
           x == NameOf[h.entry]
<1>1. IInv /\ ReportAnswered(w)
      /\ file' = [file EXCEPT ![NameOf[h.entry]] = Settle(@, h.status)]
  BY DEF DoneInv, ReportFileResult
<1>2. /\ h.entry \in Entry /\ h.status \in ReportStatus /\ x \in Name
      /\ \E i \in 1 .. Len(outbox[w]) : outbox[w][i].entry = h.entry
      /\ stage[h.entry] = Announces(h.status)
  BY <1>1, AnsweredHead, WorkerAssumption DEF Report, IInv, TypeOK, WorkerTypeOK
<1> HIDE DEF h
<1>3. file[x].status # "done"
  BY <1>2 DEF DoneInv, DoneIsSaid, Said
<1>4. file \in [Name -> Row \union {NoRow}]
  BY <1>1 DEF IInv, TypeOK, JobTypeOK
<1>5. /\ \A n \in Name : n # x => file'[n] = file[n]
      /\ file'[x] = Settle(file[x], h.status)
  BY <1>1, <1>2, <1>4
<1>6. \A n \in Name : file[n].status = "done" => file'[n] = file[n]
  BY <1>3, <1>5
<1>7. /\ file'[x].status = "done" => h.status = "done"
      /\ file'[x].key <=> file'[x].status = "done"
      /\ file'[x].status = "failed" => file'[x].error
      /\ file'[x].error => file'[x].status # "done"
  <2>1. CASE file[x] = NoRow
    BY <1>5, <2>1 DEF Settle, NoRow
  <2>2. CASE file[x] # NoRow
    <3>1. /\ file'[x].status = h.status
          /\ file'[x].key = (file[x].key \/ h.status = "done")
          /\ file'[x].error = ((file[x].error /\ h.status # "done") \/ h.status = "failed")
      BY <1>5, <2>2 DEF Settle
    <3>2. ~file[x].key
      BY <1>2, <1>3 DEF DoneInv, RowsAreConsistent
    <3>3. QED
      BY <3>1, <3>2
  <2>3. QED
    BY <2>1, <2>2
<1>8. RowsAreConsistent'
  BY <1>5, <1>7 DEF DoneInv, RowsAreConsistent
<1>9. DoneIsSaid'
  <2> SUFFICES ASSUME NEW d \in Entry, file'[NameOf[d]].status = "done"
               PROVE  Said(d)'
    BY DEF DoneIsSaid
  <2>1. NameOf[d] \in Name
    BY WorkerAssumption
  <2>2. CASE d = h.entry
    BY <1>1, <1>7, <2>2, AnswerKeepsSaid DEF h
  <2>3. CASE d # h.entry
    <3>1. NameOf[d] # x
      BY <1>2, <2>3, WorkerAssumption DEF IsInjective
    <3>2. Said(d)
      BY <1>5, <2>1, <3>1 DEF DoneInv, DoneIsSaid
    <3>3. QED
      BY <1>1, <3>2, AnswerKeepsSaid
  <2>4. QED
    BY <2>2, <2>3
<1>10. QED
  BY <1>6, <1>8, <1>9

(* A shard that failed: its unsettled rows become failed.                  *)
LEMMA FailShardKeepsDone ==
  ASSUME DoneInv, NEW w \in Worker, FailShard(w)
  PROVE  /\ DoneIsSaid' /\ RowsAreConsistent'
         /\ \A n \in Name : file[n].status = "done" => file'[n] = file[n]
<1>1. stage' = stage /\ outbox' = outbox
  BY DEF FailShard, ShardSettled, workerVars
<1>2. \A n \in Name : file'[n] = file[n] \/ file'[n] = FailUnlessSettled(file[n])
  BY DEF FailShard
<1>3. \A n \in Name : file[n] \in Row \union {NoRow}
  BY DEF DoneInv, IInv, TypeOK, JobTypeOK
<1>4. ASSUME NEW n \in Name
      PROVE  \/ file'[n] = file[n]
             \/ /\ file[n].status \notin {"done", "failed"} /\ file'[n].status = "failed"
                /\ file'[n].key = file[n].key /\ file'[n].error = TRUE
  BY <1>2, <1>3 DEF FailUnlessSettled, Row, NoRow
<1>5. \A n \in Name : file[n].status = "done" => file'[n] = file[n]
  BY <1>4
<1>6. RowsAreConsistent'
  BY <1>4 DEF DoneInv, RowsAreConsistent
<1>7. DoneIsSaid'
  BY <1>1, <1>4, NoneSettled
<1>8. QED
  BY <1>5, <1>6, <1>7

LEMMA DoneStep ==
  ASSUME IsInjective(NameOf), DoneInv, [Next]_vars
  PROVE  /\ DoneInv'
         /\ \A n \in Name : file[n].status = "done" => file'[n] = file[n]
<1>1. IInv'
  BY StepKeeps DEF DoneInv
<1> SUFFICES /\ DoneIsSaid' /\ RowsAreConsistent'
             /\ \A n \in Name : file[n].status = "done" => file'[n] = file[n]
  BY <1>1 DEF DoneInv
<1>2. CASE stage' = stage /\ outbox' = outbox /\ file' = file
  BY <1>2, NoneSettled DEF DoneInv, RowsAreConsistent
<1>3. ASSUME NEW w \in Worker, WorkerOnly(w) \/ ReportLost(w)
      PROVE  /\ DoneIsSaid' /\ RowsAreConsistent'
             /\ \A n \in Name : file[n].status = "done" => file'[n] = file[n]
  <2>1. file' = file
    BY <1>3 DEF WorkerOnly, ReportLost, jobVars, durable
  <2>2. \A d \in Entry : Said(d) => Said(d)'
    BY <1>3, WorkerKeepsSaid, AnswerKeepsSaid DEF DoneInv, ReportLost
  <2>3. QED
    BY <2>1, <2>2 DEF DoneInv, DoneIsSaid, RowsAreConsistent
<1>4. CASE Starts
  BY <1>2, <1>4 DEF Starts, Start, StartsWithoutRuntime, workerVars
<1>5. CASE \/ \E entries \in SUBSET Entry : ReadIndexOk(entries)
           \/ StartRecorded
  <2>1. CASE stage' = stage /\ outbox' = outbox /\ file' = file
    BY <1>2, <2>1
  <2>2. ASSUME NEW entries, NEW m, run \in {"readIndex", "recordStart"}, FanOut(entries, m)
        PROVE  /\ DoneIsSaid' /\ RowsAreConsistent'
               /\ \A n \in Name : file[n].status = "done" => file'[n] = file[n]
    <3>1. /\ stage' = stage /\ outbox' = outbox /\ RowsAreConsistent'
          /\ \A n \in Name : file[n].status # "done" /\ file'[n].status # "done"
      BY <2>2, FanOutSettlesNone
    <3>2. QED
      BY <3>1, NoneSettled
  <2>3. QED
    BY <1>5, <2>1, <2>2 DEF ReadIndexOk, StartRecorded, workerVars, durable
<1>6. CASE \E sized \in BOOLEAN : ReadIndexFails(sized)
  BY <1>2, <1>6 DEF ReadIndexFails, workerVars
<1>7. ASSUME NEW w \in Worker, ReportFileResult(w) \/ ApplyShardSummary(w) \/ FailShard(w)
      PROVE  /\ DoneIsSaid' /\ RowsAreConsistent'
             /\ \A n \in Name : file[n].status = "done" => file'[n] = file[n]
  <2>1. CASE ReportFileResult(w)
    BY <2>1, ReportKeepsDone
  <2>2. CASE ApplyShardSummary(w)
    BY <1>2, <2>2 DEF ApplyShardSummary, ShardSettled, workerVars
  <2>3. CASE FailShard(w)
    BY <2>3, FailShardKeepsDone
  <2>4. QED
    BY <1>7, <2>1, <2>2, <2>3
<1>8. CASE RunEnds \/ Evict
  BY <1>2, <1>8 DEF RunEnds, Evict, workerVars, durable
<1>9. CASE AlarmFires \/ ListPrefix \/ DeletePage \/ SweepThrows
  BY <1>2, <1>9 DEF AlarmFires, ListPrefix, DeletePage, SweepThrows, workerVars
<1>10. CASE Forgets \/ UNCHANGED vars
  BY <1>2, <1>10, ForgetsFrame DEF vars, jobVars, durable, workerVars
<1>11. QED
  BY <1>3, <1>4, <1>5, <1>6, <1>7, <1>8, <1>9, <1>10 DEF Next, Starts, Forgets

-----------------------------------------------------------------------------
LEMMA DoneAtFirst == Init => DoneInv
<1>1. ASSUME Init PROVE DoneIsSaid /\ RowsAreConsistent
  BY <1>1, WorkerAssumption DEF Init, JobInit, DoneIsSaid, RowsAreConsistent, NoRow
<1>2. QED
  BY <1>1, InitHolds DEF DoneInv

(* With distinct names, a done file stays done with its key and no error,  *)
(* and every row's columns agree: reportFileResult (job.ts:573-604),       *)
(* failShard (549-560) and the seeding of the table (398-406) together.    *)
THEOREM DoneStaysDone ==
  ASSUME IsInjective(NameOf)
  PROVE  Spec => DoneIsFinal /\ []RowsAreConsistent
<1>1. Init => DoneInv
  BY DoneAtFirst
<1>2. DoneInv /\ [Next]_vars =>
        DoneInv' /\ [\A n \in Name : file[n].status = "done" => file'[n] = file[n]]_vars
  BY DoneStep
<1>3. DoneInv => RowsAreConsistent
  BY DEF DoneInv
<1>4. QED
  BY <1>1, <1>2, <1>3, PTL DEF Spec, DoneIsFinal

(* Which rows there are: reports and failing shards only change rows that  *)
(* are there, and the listing adds those of the selected entries.          *)
LEMMA StepKeepsRows ==
  ASSUME IInv, RowsAreOfEntries, [Next]_vars
  PROVE  RowsAreOfEntries'
<1>1. CASE file' = file
  BY <1>1 DEF RowsAreOfEntries
<1>2. ASSUME NEW entries \in SUBSET Entry, NEW m, FanOut(entries, m)
      PROVE  RowsAreOfEntries'
  BY <1>2 DEF FanOut, RowsAreOfEntries
<1>3. ASSUME NEW w \in Worker, ReportFileResult(w)
      PROVE  RowsAreOfEntries'
  <2>1. \A n \in Name : file'[n] # NoRow => file[n] # NoRow
    BY <1>3 DEF ReportFileResult, Settle
  <2>2. QED
    BY <2>1 DEF RowsAreOfEntries
<1>4. ASSUME NEW w \in Worker, FailShard(w)
      PROVE  RowsAreOfEntries'
  BY <1>4 DEF FailShard, FailUnlessSettled, RowsAreOfEntries
<1>5. CASE \/ \E entries \in SUBSET Entry : ReadIndexOk(entries)
           \/ StartRecorded
  BY <1>1, <1>2, <1>5 DEF ReadIndexOk, StartRecorded, durable, IInv, TypeOK, JobTypeOK
<1>6. CASE Starts \/ Forgets
  BY <1>1, <1>6, ForgetsFrame DEF Starts, Start, StartsWithoutRuntime
<1>7. QED
  BY <1>1, <1>3, <1>4, <1>5, <1>6
     DEF Next, Starts, Forgets, ReadIndexFails, WorkerOnly, ReportLost, ApplyShardSummary,
         RunEnds, AlarmFires, ListPrefix, DeletePage, SweepThrows, Evict, vars, jobVars, durable

(* Only the coordinator's end of a run completes a job, and only the alarm *)
(* of a completed job cleans up.                                           *)
LEMMA StepKeepsCleanup ==
  ASSUME IInv, CleanupFollowsCompletion, [Next]_vars
  PROVE  CleanupFollowsCompletion'
<1>1. /\ job \in Job /\ (sweep.at # "off" => job.status = "completed")
      /\ (job.status # "completed" => job.expires # "past" /\ tries = 0)
      /\ (run \in {"readIndex", "recordStart"} \/ pending # {} => job.status = "running")
  BY SweepIsLive DEF IInv, TypeOK, JobTypeOK, RunIsLive, CleanupFollowsCompletion
<1>2. CASE /\ tries' = tries
           /\ job'.status = job.status /\ job'.expires = job.expires
  BY <1>1, <1>2 DEF CleanupFollowsCompletion
<1>3. CASE job'.status = "completed"
  BY <1>3 DEF CleanupFollowsCompletion
<1>4. ASSUME NEW row \in Job, NEW m \in Metrics, Finish(row, m), tries' = tries,
             job.status = "running"
      PROVE  CleanupFollowsCompletion'
  BY <1>1, <1>4 DEF Finish, Complete, ScheduleRefused, CleanupFollowsCompletion, Job
<1>5. CASE Starts
  BY <1>1, <1>5 DEF Starts, Start, StartsWithoutRuntime, CleanupFollowsCompletion, Job
<1>6. ASSUME NEW entries \in SUBSET Entry, NEW m \in Metrics, FanOut(entries, m),
             job.status = "running"
      PROVE  CleanupFollowsCompletion'
  <2> DEFINE fleet == 0 .. (FleetSize(Cardinality(entries)) - 1)
             started == [m EXCEPT !.phase = "extracting", !.workers = Cardinality(fleet)]
             withRows == [job EXCEPT !.total = Cardinality(entries), !.metrics = started]
  <2>1. Cardinality(fleet) \in Nat /\ Cardinality(entries) \in Nat
    BY FleetWithinWorkers
  <2>2. started \in Metrics
    BY <2>1 DEF Metrics, Phase
  <2>3. withRows \in Job /\ withRows.status = job.status /\ withRows.expires = job.expires
    BY <1>1, <2>1, <2>2 DEF Job
  <2>4. tries' = tries /\ (Finish(withRows, started) \/ job' = withRows)
    BY <1>6 DEF FanOut
  <2> HIDE DEF started, withRows
  <2>5. QED
    BY <1>2, <1>4, <1>6, <2>2, <2>3, <2>4
<1>7. CASE \/ \E entries \in SUBSET Entry : ReadIndexOk(entries)
           \/ StartRecorded
  <2>1. /\ sink \in Metrics /\ selected \in SUBSET Entry
        /\ [sink EXCEPT !.archived = TRUE] \in Metrics
    BY DEF IInv, TypeOK, JobTypeOK, Metrics
  <2>2. CASE UNCHANGED durable
    BY <1>2, <2>2 DEF durable
  <2>3. QED
    BY <1>1, <1>6, <1>7, <2>1, <2>2 DEF ReadIndexOk, StartRecorded
<1>8. CASE \E sized \in BOOLEAN : ReadIndexFails(sized)
  BY <1>1, <1>8 DEF ReadIndexFails, CleanupFollowsCompletion, Job
<1>9. ASSUME NEW w \in Worker, ApplyShardSummary(w) \/ FailShard(w)
      PROVE  CleanupFollowsCompletion'
  <2>1. PICK m \in Metrics : ShardSettled(w, m)
    <3>1. sink \in Metrics
      BY DEF IInv, TypeOK, JobTypeOK
    <3>2. Cardinality(Extracted(w)) \in Nat
      BY Parts, ExtractedNat
    <3>3. [sink EXCEPT !.extracted = @ + Cardinality(Extracted(w))] \in Metrics
      BY <3>1, <3>2 DEF Metrics
    <3>4. QED
      BY <1>9, <3>1, <3>3 DEF ApplyShardSummary, FailShard
  <2>2. job.status = "running" /\ tries' = tries
    BY <1>1, <1>9, <2>1 DEF ApplyShardSummary, FailShard, ShardSettled
  <2>3. CASE job' = [job EXCEPT !.metrics = m]
    BY <1>1, <1>2, <2>2, <2>3 DEF Job
  <2>4. QED
    BY <1>1, <1>4, <2>1, <2>2, <2>3 DEF ShardSettled
<1>10. ASSUME NEW w \in Worker, WorkerOnly(w) \/ ReportFileResult(w) \/ ReportLost(w)
       PROVE  CleanupFollowsCompletion'
  BY <1>1, <1>2, <1>10 DEF WorkerOnly, ReportFileResult, ReportLost, jobVars, durable, Job
<1>11. CASE RunEnds \/ AlarmFires \/ Forgets \/ UNCHANGED vars
  BY <1>2, <1>11, ForgetsFrame DEF RunEnds, AlarmFires, vars, jobVars, durable
<1>12. CASE ListPrefix \/ DeletePage \/ SweepThrows
  <2>1. job'.status = job.status /\ job.status = "completed"
    BY <1>1, <1>12 DEF ListPrefix, DeletePage, SweepThrows, SweepDone, Job
  <2>2. QED
    BY <1>3, <2>1
<1>13. CASE Evict
  BY <1>1, <1>2, <1>3, <1>13 DEF Evict
<1>14. QED
  BY <1>5, <1>7, <1>8, <1>9, <1>10, <1>11, <1>12, <1>13 DEF Next, Starts, Forgets

(* What can still happen once a job is completed.                          *)
LEMMA AfterCompletion ==
  ASSUME IInv, job.status = "completed", [Next]_vars
  PROVE  \/ \E w \in Worker : WorkerOnly(w) \/ ReportFileResult(w) \/ ReportLost(w)
         \/ RunEnds \/ AlarmFires \/ ListPrefix \/ DeletePage \/ SweepThrows \/ Evict
         \/ Forgets \/ UNCHANGED vars
<1>1. run \notin {"readIndex", "recordStart"} /\ pending = {}
  BY DEF IInv, RunIsLive
<1>2. QED
  BY <1>1 DEF Next, Starts, Forgets, Start, StartsWithoutRuntime, ReadIndexOk, ReadIndexFails,
     StartRecorded, ApplyShardSummary, FailShard

(* Objects are only taken away by a cleanup.                               *)
LEMMA StepKeepsStored ==
  ASSUME IInv, CleanupFollowsCompletion, ExtractedAreStored, [Next]_vars
  PROVE  ExtractedAreStored'
<1> DEFINE open == job.expires # "past" /\ alarm # "running" /\ tries = 0
<1>1. /\ job \in Job /\ (sweep.at # "off" => alarm = "running")
      /\ stage \in [Entry -> Stage] /\ \A e \in Entry : NameOf[e] \in Name
      /\ open => \A e \in Entry : stage[e] \in {"reportingDone", "done"} => NameOf[e] \in bucket
  BY WorkerAssumption DEF IInv, TypeOK, JobTypeOK, WorkerTypeOK, AlarmFollowsCompletion,
     ExtractedAreStored
<1>2. ASSUME bucket \subseteq bucket', open' => open,
             \A e \in Entry : stage'[e] \in {"reportingDone", "done"} =>
               stage[e] \in {"reportingDone", "done"} \/ NameOf[e] \in bucket'
      PROVE  ExtractedAreStored'
  BY <1>1, <1>2 DEF ExtractedAreStored
<1>3. CASE open' => open
  <2>1. CASE stage' = stage /\ bucket' = bucket
    BY <1>2, <1>3, <2>1
  <2>2. ASSUME NEW w \in Worker, ReportAnswered(w)
        PROVE  ExtractedAreStored'
    <3>1. Head(outbox[w]).entry \in Entry
      BY <2>2, AnsweredHead DEF Report
    <3>2. \A e \in Entry : stage'[e] \in {"reportingDone", "done"} =>
            stage[e] \in {"reportingDone", "done"}
      BY <1>1, <2>2, <3>1 DEF ReportAnswered, LoopGoesOn, EntrySettled
    <3>3. QED
      BY <1>2, <1>3, <2>2, <3>2 DEF ReportAnswered
  <2>3. ASSUME NEW w \in Worker, WorkerOnly(w)
        PROVE  ExtractedAreStored'
    <3>1. CASE ExtractShard(w, job.destination = "byo")
      <4>1. \A e \in Entry : stage'[e] = stage[e] \/ stage'[e] \in {"announcing", "queued"}
        BY <3>1 DEF ExtractShard
      <4>2. QED
        BY <1>2, <1>3, <3>1, <4>1 DEF ExtractShard
    <3>2. CASE \E e \in Entry : ExtractEntryOk(w, e) \/ ExtractEntryFails(w, e)
      BY <1>1, <1>2, <1>3, <3>2 DEF ExtractEntryOk, ExtractEntryFails
    <3>3. CASE ShardReturns(w) \/ RuntimeFails(w, job.destination = "byo") \/ WorkerDies(w)
      BY <2>1, <3>3 DEF ShardReturns, RuntimeFails, WorkerDies
    <3>4. QED
      BY <2>3, <3>1, <3>2, <3>3 DEF WorkerOnly
  <2>4. CASE \/ Starts
             \/ \E sized \in BOOLEAN : ReadIndexFails(sized)
             \/ RunEnds \/ AlarmFires \/ ListPrefix \/ Evict \/ Forgets \/ UNCHANGED vars
    BY <2>1, <2>4, ForgetsFrame DEF Starts, Start, StartsWithoutRuntime, ReadIndexFails, RunEnds,
       AlarmFires, ListPrefix, Evict, vars, workerVars
  <2>5. CASE \/ \E entries \in SUBSET Entry : ReadIndexOk(entries)
             \/ StartRecorded
    BY <2>1, <2>5 DEF ReadIndexOk, StartRecorded, FanOut, Dispatch, workerVars
  <2>6. ASSUME NEW w \in Worker,
               ReportFileResult(w) \/ ReportLost(w) \/ ApplyShardSummary(w) \/ FailShard(w)
        PROVE  ExtractedAreStored'
    BY <2>1, <2>2, <2>6 DEF ReportFileResult, ReportLost, ApplyShardSummary, FailShard,
       ShardSettled, workerVars
  <2>7. CASE DeletePage \/ SweepThrows
    <3>1. alarm = "running" /\ (job'.expires = "past" \/ alarm' = "running" \/ tries' = tries + 1)
      BY <1>1, <2>7 DEF DeletePage, SweepThrows, SweepDone, AlarmAgain, Job
    <3>2. tries' = tries + 1 => tries' # 0
      BY DEF IInv, TypeOK, JobTypeOK
    <3>3. ~open'
      BY <3>1, <3>2
    <3>4. QED
      BY <3>3 DEF ExtractedAreStored
  <2>8. QED
    BY <2>3, <2>4, <2>5, <2>6, <2>7 DEF Next, Starts, Forgets
<1>4. CASE open' /\ ~open
  <2>1. job.status = "completed"
    BY <1>4 DEF CleanupFollowsCompletion, IInv, AlarmFollowsCompletion
  <2>2. CASE \E w \in Worker : WorkerOnly(w) \/ ReportFileResult(w) \/ ReportLost(w)
    BY <1>1, <1>4, <2>2 DEF WorkerOnly, ReportFileResult, ReportLost, jobVars, durable, Job
  <2>3. CASE RunEnds \/ Forgets \/ UNCHANGED vars
    BY <1>4, <2>3, ForgetsFrame DEF RunEnds, vars, jobVars, durable
  <2>4. CASE AlarmFires
    BY <1>4, <2>4 DEF AlarmFires
  <2>5. CASE ListPrefix \/ DeletePage
    BY <1>1, <1>4, <2>5 DEF ListPrefix, DeletePage, SweepDone, Job
  <2>6. CASE SweepThrows \/ Evict
    <3>1. tries' = tries \/ tries' = tries + 1
      BY <2>6 DEF SweepThrows, Evict, AlarmAgain
    <3>2. tries \in Nat /\ tries' = 0
      BY <1>4 DEF IInv, TypeOK, JobTypeOK
    <3>3. tries' = tries /\ tries' # tries + 1
      BY <3>1, <3>2
    <3>4. QED
      BY <1>4, <2>6, <3>3 DEF SweepThrows, Evict, AlarmAgain
  <2>7. QED
    BY <2>1, <2>2, <2>3, <2>4, <2>5, <2>6, AfterCompletion
<1>5. QED
  BY <1>3, <1>4

(* With distinct names, a file listed as done can be downloaded until the  *)
(* cleanup begins: the row is written after the object (extract-worker.ts: *)
(* 223-230, job.ts:573-604) and only the alarm deletes (job.ts:320-341).   *)
THEOREM DoneStaysStored ==
  ASSUME IsInjective(NameOf)
  PROVE  Spec => []DoneIsStored
<1>1. Init => StoredInv
  <2>1. ASSUME Init PROVE RowsAreOfEntries /\ ExtractedAreStored /\ CleanupFollowsCompletion
    BY <2>1 DEF Init, JobInit, WorkerInit, RowsAreOfEntries, ExtractedAreStored,
       CleanupFollowsCompletion
  <2>2. QED
    BY <2>1, DoneAtFirst DEF StoredInv
<1>2. StoredInv /\ [Next]_vars => StoredInv'
  BY DoneStep, StepKeepsRows, StepKeepsCleanup, StepKeepsStored DEF StoredInv, DoneInv
<1>3. StoredInv => DoneIsStored
  <2> SUFFICES ASSUME StoredInv, job.expires # "past", alarm # "running", tries = 0,
                      NEW n \in Name, file[n].status = "done"
               PROVE  n \in bucket
    BY DEF DoneIsStored, Rows
  <2>1. PICK e \in Entry : NameOf[e] = n
    BY DEF StoredInv, RowsAreOfEntries, NoRow
  <2>2. Said(e)
    BY <2>1 DEF StoredInv, DoneInv, DoneIsSaid
  <2>3. QED
    BY <2>1, <2>2 DEF StoredInv, ExtractedAreStored, Said
<1>4. QED
  BY <1>1, <1>2, <1>3, PTL DEF Spec

(* A user's own bucket is never cleaned: no alarm is set for a byo job and *)
(* no object is deleted from it (job.ts:313-314, 320-341, 460-466).        *)
THEOREM ByoStaysKept == Spec => ByoIsKept
<1>1. ASSUME IInv, [Next]_vars, job.destination = "byo"
      PROVE  bucket \subseteq bucket' /\ alarm' = "unset"
  <2>1. IInv' /\ alarm = "unset" /\ sweep.at = "off" /\ job \in Job
    BY <1>1, StepKeeps DEF IInv, AlarmFollowsCompletion, TypeOK, JobTypeOK
  <2>3. ASSUME NEW row, NEW m, Finish(row, m), row.destination = "byo", bucket' = bucket
        PROVE  bucket \subseteq bucket' /\ alarm' = "unset"
    BY <2>1, <2>3 DEF Finish, Complete, ScheduleRefused
  <2>4. CASE Starts
    BY <2>1, <2>4 DEF Starts, Start, StartsWithoutRuntime, workerVars
  <2>5. ASSUME NEW entries, NEW m, FanOut(entries, m)
        PROVE  bucket \subseteq bucket' /\ alarm' = "unset"
    <3> DEFINE fleet == 0 .. (FleetSize(Cardinality(entries)) - 1)
               started == [m EXCEPT !.phase = "extracting", !.workers = Cardinality(fleet)]
               withRows == [job EXCEPT !.total = Cardinality(entries), !.metrics = started]
    <3>1. withRows.destination = "byo"
      BY <1>1, <2>1 DEF Job
    <3>2. \/ Finish(withRows, started) /\ UNCHANGED workerVars
          \/ /\ \E assignment \in [entries -> fleet] : Dispatch(entries, fleet, assignment)
             /\ UNCHANGED alarm
      BY <2>5 DEF FanOut
    <3> HIDE DEF withRows, started
    <3>3. bucket' = bucket
      BY <3>2 DEF Dispatch, workerVars
    <3>4. QED
      BY <2>1, <2>3, <3>1, <3>2, <3>3
  <2>6. CASE \/ \E entries \in SUBSET Entry : ReadIndexOk(entries)
             \/ StartRecorded
    BY <2>1, <2>5, <2>6 DEF ReadIndexOk, StartRecorded, durable, workerVars
  <2>7. CASE \E sized \in BOOLEAN : ReadIndexFails(sized)
    BY <2>1, <2>7 DEF ReadIndexFails, workerVars
  <2>8. ASSUME NEW w \in Worker, ApplyShardSummary(w) \/ FailShard(w)
        PROVE  bucket \subseteq bucket' /\ alarm' = "unset"
    BY <1>1, <2>1, <2>3, <2>8 DEF ApplyShardSummary, FailShard, ShardSettled, workerVars
  <2>9. ASSUME NEW w \in Worker, WorkerOnly(w) \/ ReportFileResult(w) \/ ReportLost(w)
        PROVE  bucket \subseteq bucket' /\ alarm' = "unset"
    <3>1. alarm' = alarm
      BY <2>9 DEF WorkerOnly, ReportFileResult, ReportLost, jobVars, durable
    <3>2. bucket \subseteq bucket'
      BY <2>9 DEF WorkerOnly, ExtractShard, ExtractEntryOk, ExtractEntryFails, ShardReturns,
           RuntimeFails, WorkerDies, ReportFileResult, ReportLost, ReportAnswered
    <3>3. QED
      BY <2>1, <3>1, <3>2
  <2>10. CASE RunEnds \/ AlarmFires \/ ListPrefix \/ DeletePage \/ SweepThrows \/ Evict
    BY <2>1, <2>10 DEF RunEnds, AlarmFires, ListPrefix, DeletePage, SweepThrows, Evict,
         workerVars, durable
  <2>11. CASE Forgets \/ UNCHANGED vars
    BY <2>1, <2>11, ForgetsFrame DEF vars, jobVars, durable, workerVars
  <2>12. QED
    BY <1>1, <2>4, <2>6, <2>7, <2>8, <2>9, <2>10, <2>11 DEF Next, Starts, Forgets
<1>2. IInv /\ [Next]_vars =>
        [job.destination = "byo" => bucket \subseteq bucket' /\ alarm' = "unset"]_vars
  BY <1>1
<1>3. QED
  BY <1>2, Invariance, PTL DEF Spec, ByoIsKept

-----------------------------------------------------------------------------
(***************************************************************************)
(* The end of the job                                                      *)
(***************************************************************************)
\* The shape of the sweep and the sink, and what an unfinished job implies.
LEMMA QuietParts ==
  ASSUME QuietInv
  PROVE  /\ WInv /\ LoopsBounded /\ CInv
         /\ job \in Job /\ sink \in Metrics /\ selected \in SUBSET Entry /\ pending \subseteq Worker
         /\ wphase \in [Worker -> WPhase] /\ outbox \in [Worker -> Seq(Report)]
         /\ bucket \subseteq Name /\ Name \subseteq Nat
         /\ sweep.cursor \in Nat /\ sweep.page \subseteq Name
         /\ run \in {"readIndex", "recordStart"} =>
              /\ job.status = "running"
              /\ \A w \in Worker : wphase[w] = "idle" /\ outbox[w] = <<>>
         /\ pending # {} => run = "fanOut" /\ job.status = "running"
         /\ job.status # "completed" =>
              sweep.at = "off" /\ alarm = "unset" /\ job.expires # "past"
<1>1. WInv /\ LoopsBounded /\ CInv
  BY Parts DEF QuietInv
<1>2. /\ job \in Job /\ sink \in Metrics /\ selected \in SUBSET Entry /\ pending \subseteq Worker
      /\ wphase \in [Worker -> WPhase] /\ outbox \in [Worker -> Seq(Report)]
      /\ bucket \subseteq Name /\ Name \subseteq Nat
      /\ sweep.cursor \in Nat /\ sweep.page \subseteq Name
  BY WorkerAssumption DEF QuietInv, IInv, TypeOK, WorkerTypeOK, JobTypeOK
<1>3. run \in {"readIndex", "recordStart"} =>
        /\ job.status = "running"
        /\ \A w \in Worker : wphase[w] = "idle" /\ outbox[w] = <<>>
  BY <1>1 DEF CInv, NothingListed, RunIsLive, WInv, PoolInv, Untouched
<1>4. pending # {} => run = "fanOut" /\ job.status = "running"
  BY <1>1 DEF CInv, RunIsLive
<1>5. job.status # "completed" =>
        sweep.at = "off" /\ alarm = "unset" /\ job.expires # "past"
  BY SweepIsLive DEF QuietInv, IInv, AlarmFollowsCompletion, CleanupFollowsCompletion
<1>6. QED
  BY <1>1, <1>2, <1>3, <1>4, <1>5

(* Once a job is over its workers and their reports are, too: what is left *)
(* is the end of the run, the cleanup and the eviction.                    *)
LEMMA NobodyWrites ==
  ASSUME QuietInv, job.status = "completed", [Next]_vars
  PROVE  \/ RunEnds \/ AlarmFires \/ ListPrefix \/ DeletePage \/ SweepThrows \/ Evict
         \/ Forgets \/ UNCHANGED vars
<1>1. \A w \in Worker : wphase[w] \in {"idle", "returned", "dead"} /\ outbox[w] = <<>>
  BY DEF QuietInv, ResolvedIsQuiet, Resolved
<1>2. \A w \in Worker : ~WorkerOnly(w) /\ ~ReportFileResult(w) /\ ~ReportLost(w)
  BY <1>1 DEF WorkerOnly, ExtractShard, ExtractEntryOk, ExtractEntryFails, ShardReturns,
     RuntimeFails, WorkerDies, ReportFileResult, ReportLost, ReportAnswered
<1>3. QED
  BY <1>2, AfterCompletion DEF QuietInv

-----------------------------------------------------------------------------
\* A worker whose pool has ended has no report unanswered.
LEMMA ReturnsSilent ==
  ASSUME WInv, NEW w \in Worker, InFlight(w) = {}
  PROVE  outbox[w] = <<>>
<1>1. SUFFICES ASSUME outbox[w] # <<>> PROVE FALSE
  OBVIOUS
<1>2. outbox[w] \in Seq(Report) /\ 1 \in 1 .. Len(outbox[w])
  BY <1>1, EmptySeq DEF WInv, WorkerTypeOK
<1>3. outbox[w][1] \in Report
  BY <1>2
<1>4. /\ outbox[w][1].entry \in shard[w]
      /\ stage[outbox[w][1].entry] = Announces(outbox[w][1].status)
  BY <1>2 DEF WInv, PoolInv, ReportsMatchStages
<1>5. stage[outbox[w][1].entry] \in Active
  BY <1>3, <1>4 DEF Announces, Report, ReportStatus, Active
<1>6. QED
  BY <1>4, <1>5 DEF InFlight

LEMMA StepKeepsQuiet ==
  ASSUME "callBreaks" \notin Faults, QuietInv, [Next]_vars
  PROVE  ResolvedIsQuiet'
<1> DEFINE Quiet(w) ==
      /\ wphase[w] = "returned" => outbox[w] = <<>>
      /\ Resolved(w) => wphase[w] \in {"idle", "returned", "dead"} /\ outbox[w] = <<>>
<1>0. \A w \in Worker : Quiet(w)
  BY DEF QuietInv, ResolvedIsQuiet
<1>1. SUFFICES ASSUME NEW v \in Worker PROVE Quiet(v)'
  BY DEF ResolvedIsQuiet
<1>2. CASE /\ wphase' = wphase /\ outbox' = outbox
           /\ Resolved(v)' => Resolved(v)
  BY <1>0, <1>2
<1>3. CASE \/ Starts
           \/ \E sized \in BOOLEAN : ReadIndexFails(sized)
  <2>1. wphase' = wphase /\ outbox' = outbox
    BY <1>3 DEF Starts, Start, StartsWithoutRuntime, ReadIndexFails, workerVars
  <2>2. wphase[v] = "idle" /\ outbox[v] = <<>>
    BY <1>3, QuietParts DEF Starts, Start, StartsWithoutRuntime, ReadIndexFails, QuietInv, IInv,
       NothingListed, PoolInv, Untouched
  <2>3. QED
    BY <2>1, <2>2
<1>4. ASSUME NEW entries \in SUBSET Entry, NEW m, FanOut(entries, m),
             run \in {"readIndex", "recordStart"}
      PROVE  Quiet(v)'
  <2>1. wphase[v] = "idle" /\ outbox[v] = <<>> /\ job.status = "running" /\ job \in Job
        /\ wphase \in [Worker -> WPhase]
    BY <1>4, QuietParts
  <2>2. CASE wphase' = wphase /\ outbox' = outbox
    BY <2>1, <2>2
  <2>3. ASSUME NEW fleet, NEW assignment, Dispatch(entries, fleet, assignment),
               pending' = fleet, job'.status = "running"
        PROVE  Quiet(v)'
    BY <2>1, <2>3 DEF Dispatch, Resolved
  <2>4. QED
    BY <1>4, <2>1, <2>2, <2>3 DEF FanOut, workerVars, Job
<1>5. CASE \/ \E entries \in SUBSET Entry : ReadIndexOk(entries)
           \/ StartRecorded
  <2>1. CASE UNCHANGED workerVars /\ job' = job /\ run' = "recordStart"
    BY <1>2, <1>5, <2>1, QuietParts DEF Resolved, workerVars, ReadIndexOk, StartRecorded
  <2>2. QED
    BY <1>4, <1>5, <2>1, QuietParts DEF ReadIndexOk, StartRecorded, durable
<1>6. ASSUME NEW w \in Worker, WorkerOnly(w)
      PROVE  Quiet(v)'
  <2>1. wphase[w] \in {"called", "running"} /\ (Resolved(v)' <=> Resolved(v))
    BY <1>6 DEF WorkerOnly, ExtractShard, ExtractEntryOk, ExtractEntryFails, ShardReturns,
       RuntimeFails, WorkerDies, jobVars, durable, volatile, Resolved
  <2>2. CASE v # w
    <3>1. wphase'[v] = wphase[v] /\ outbox'[v] = outbox[v]
      BY <1>6, <2>2, QuietParts DEF WorkerOnly, ExtractShard, ExtractEntryOk, ExtractEntryFails,
         Send, ShardReturns, RuntimeFails, WorkerDies
    <3>2. QED
      BY <1>0, <2>1, <3>1
  <2>3. CASE v = w
    <3>1. ~Resolved(v)'
      BY <1>0, <2>1, <2>3
    <3>2. CASE ShardReturns(w)
      BY <2>3, <3>1, <3>2, QuietParts, ReturnsSilent DEF ShardReturns
    <3>3. wphase'[v] = "returned" => ShardReturns(w)
      BY <1>6, <2>1, <2>3, QuietParts DEF WorkerOnly, ExtractShard, ExtractEntryOk,
         ExtractEntryFails, RuntimeFails, WorkerDies
    <3>4. QED
      BY <3>1, <3>2, <3>3
  <2>4. QED
    BY <2>2, <2>3
<1>7. ASSUME NEW w \in Worker, ReportFileResult(w) \/ ReportLost(w)
      PROVE  Quiet(v)'
  <2>1. /\ outbox[w] # <<>> /\ wphase' = wphase /\ (v # w => outbox'[v] = outbox[v])
        /\ (Resolved(v)' <=> Resolved(v))
    BY <1>7, QuietParts DEF ReportFileResult, ReportLost, ReportAnswered, LoopGoesOn, jobVars,
       durable, volatile, Resolved, Job
  <2>2. QED
    BY <1>0, <2>1
<1>8. ASSUME NEW w \in Worker, ApplyShardSummary(w) \/ FailShard(w)
      PROVE  Quiet(v)'
  <2>1. /\ w \in pending /\ UNCHANGED workerVars /\ pending' = pending \ {w}
        /\ run = "fanOut" /\ job.status = "running" /\ job \in Job
    BY <1>8, QuietParts DEF ApplyShardSummary, FailShard, ShardSettled
  <2>2. wphase[w] \in {"returned", "dead"} /\ outbox[w] = <<>>
    BY <1>0, <1>8 DEF ApplyShardSummary, FailShard
  <2>3. LastShard(w) \/ job'.status = "running"
    BY <1>8, <2>1 DEF ApplyShardSummary, FailShard, ShardSettled, Job
  <2>4. v # w => (Resolved(v)' => Resolved(v))
    BY <2>1, <2>3 DEF Resolved, LastShard
  <2>5. wphase' = wphase /\ outbox' = outbox
    BY <2>1 DEF workerVars
  <2>6. QED
    BY <1>0, <2>2, <2>4, <2>5
<1>9. CASE RunEnds \/ AlarmFires \/ ListPrefix \/ DeletePage \/ SweepThrows \/ Evict
           \/ Forgets \/ UNCHANGED vars
  <2>1. job'.status = job.status /\ (run' = run \/ run' \in {"ended", "none"})
        /\ (run' = "fanOut" => pending' = pending)
    BY <1>9, QuietParts, ForgetsFrame DEF RunEnds, AlarmFires, ListPrefix, DeletePage,
       SweepThrows, Evict, SweepDone, vars, jobVars, durable, volatile, Job
  <2>2. wphase' = wphase /\ outbox' = outbox
    BY <1>9, ForgetsFrame DEF RunEnds, AlarmFires, ListPrefix, DeletePage, SweepThrows, Evict,
       vars, workerVars
  <2>3. Resolved(v)' => Resolved(v)
    BY <2>1 DEF Resolved
  <2>4. QED
    BY <1>2, <2>2, <2>3
<1>10. QED
  BY <1>3, <1>5, <1>6, <1>7, <1>8, <1>9 DEF Next, Starts, Forgets

-----------------------------------------------------------------------------
\* What Finish leaves in the metrics and the expiry.
LEMMA FinishKeepsQuiet ==
  ASSUME NEW row \in Job, row.expires # "past", NEW m \in Metrics, Finish(row, m)
  PROVE  job'.expires # "past" /\ sink' = job'.metrics
  BY DEF Finish, Complete, ScheduleRefused, Job

(* The step that completes a job persists its metrics and leaves its       *)
(* cleanup to come; before it there is none.                               *)
LEMMA BeforeCompletion ==
  ASSUME QuietInv, job.status # "completed", [Next]_vars
  PROVE  /\ sweep'.at = "off" /\ job'.expires # "past"
         /\ job'.status = "completed" => sink' = job'.metrics
<1>1. /\ sweep.at = "off" /\ alarm = "unset" /\ job.expires # "past"
      /\ job \in Job /\ sink \in Metrics /\ selected \in SUBSET Entry /\ WInv
      /\ run \in {"readIndex", "recordStart"} \/ pending # {} => job.status = "running"
  BY QuietParts
<1>2. CASE sweep' = sweep /\ job'.expires = job.expires /\ job'.status = job.status
  BY <1>1, <1>2
<1>3. CASE \/ Starts
           \/ \E sized \in BOOLEAN : ReadIndexFails(sized)
  BY <1>1, <1>3 DEF Starts, Start, StartsWithoutRuntime, ReadIndexFails, Job
<1>4. ASSUME NEW entries \in SUBSET Entry, NEW m \in Metrics, FanOut(entries, m)
      PROVE  /\ sweep'.at = "off" /\ job'.expires # "past"
             /\ job'.status = "completed" => sink' = job'.metrics
  <2> DEFINE fleet == 0 .. (FleetSize(Cardinality(entries)) - 1)
             started == [m EXCEPT !.phase = "extracting", !.workers = Cardinality(fleet)]
             withRows == [job EXCEPT !.total = Cardinality(entries), !.metrics = started]
  <2>1. Cardinality(fleet) \in Nat /\ Cardinality(entries) \in Nat
    BY FleetWithinWorkers
  <2>2. started \in Metrics
    BY <2>1 DEF Metrics, Phase
  <2>3. withRows \in Job /\ withRows.status = job.status /\ withRows.expires = job.expires
    BY <1>1, <2>1, <2>2 DEF Job
  <2>4. sweep' = sweep /\ (Finish(withRows, started) \/ job' = withRows)
    BY <1>4 DEF FanOut
  <2> HIDE DEF started, withRows
  <2>5. QED
    BY <1>1, <1>2, <2>2, <2>3, <2>4, FinishKeepsQuiet
<1>5. CASE \/ \E entries \in SUBSET Entry : ReadIndexOk(entries)
           \/ StartRecorded
  <2>1. [sink EXCEPT !.archived = TRUE] \in Metrics
    BY <1>1 DEF Metrics
  <2>2. CASE UNCHANGED durable /\ sweep' = sweep
    BY <1>2, <2>2 DEF durable
  <2>3. QED
    BY <1>1, <1>4, <1>5, <2>1, <2>2 DEF ReadIndexOk, StartRecorded
<1>6. ASSUME NEW w \in Worker, WorkerOnly(w) \/ ReportFileResult(w) \/ ReportLost(w)
      PROVE  sweep' = sweep /\ job'.expires = job.expires /\ job'.status = job.status
  BY <1>1, <1>6 DEF WorkerOnly, ReportFileResult, ReportLost, jobVars, durable, volatile, Job
<1>7. ASSUME NEW w \in Worker, ApplyShardSummary(w) \/ FailShard(w)
      PROVE  /\ sweep'.at = "off" /\ job'.expires # "past"
             /\ job'.status = "completed" => sink' = job'.metrics
  <2>1. PICK m \in Metrics : ShardSettled(w, m)
    <3>1. [sink EXCEPT !.extracted = @ + Cardinality(Extracted(w))] \in Metrics
      BY <1>1, ExtractedNat DEF Metrics
    <3>2. QED
      BY <1>1, <1>7, <3>1 DEF ApplyShardSummary, FailShard
  <2>2. CASE job' = [job EXCEPT !.metrics = m]
    BY <1>1, <1>2, <2>1, <2>2 DEF ShardSettled, Job
  <2>3. QED
    BY <1>1, <2>1, <2>2, FinishKeepsQuiet DEF ShardSettled
<1>8. CASE RunEnds \/ Forgets \/ UNCHANGED vars
  BY <1>2, <1>8, ForgetsFrame DEF RunEnds, vars, jobVars, durable, volatile
<1>9. CASE AlarmFires \/ ListPrefix \/ DeletePage \/ SweepThrows \/ Evict
  BY <1>1, <1>9 DEF AlarmFires, ListPrefix, DeletePage, SweepThrows, Evict, NoSweep
<1>10. QED
  BY <1>2, <1>3, <1>5, <1>6, <1>7, <1>8, <1>9 DEF Next, Starts, Forgets

(* The numbers of a completed job: persisted with it, and never measured   *)
(* again, by an object in memory or one built anew.                        *)
LEMMA StepKeepsMetrics ==
  ASSUME QuietInv, [Next]_vars
  PROVE  /\ MetricsAreKept'
         /\ job.status = "completed" => CurrentMetrics' = CurrentMetrics
<1>1. CASE job.status # "completed"
  BY <1>1, BeforeCompletion DEF MetricsAreKept
<1>2. CASE job.status = "completed"
  <2>1. job'.metrics = job.metrics /\ job'.status = job.status
        /\ (sink' = sink \/ sink' = FreshMetrics)
    BY <1>2, NobodyWrites, QuietParts, ForgetsFrame DEF RunEnds, AlarmFires, ListPrefix,
       DeletePage, SweepThrows, Evict, SweepDone, vars, jobVars, durable, volatile, Job
  <2>2. HasLive => sink = job.metrics
    BY <1>2 DEF QuietInv, MetricsAreKept
  <2>3. CASE sink' = sink
    <3>1. HasLive' = HasLive
      BY <2>3 DEF HasLive
    <3>2. QED
      BY <2>1, <2>2, <2>3, <3>1 DEF MetricsAreKept, CurrentMetrics
  <2>4. CASE sink' = FreshMetrics
    <3>1. ~HasLive'
      BY <2>4 DEF HasLive, FreshMetrics
    <3>2. QED
      BY <2>1, <2>2, <3>1 DEF MetricsAreKept, CurrentMetrics
  <2>5. QED
    BY <2>1, <2>3, <2>4
<1>3. QED
  BY <1>1, <1>2

(* The sweep: pages are taken in listing order, the cursor is the last key *)
(* of the page just deleted, and nothing is written behind it.             *)
LEMMA StepKeepsSweep ==
  ASSUME QuietInv, [Next]_vars
  PROVE  SweepLeavesNone'
<1>1. CASE job.status # "completed"
  BY <1>1, BeforeCompletion DEF SweepLeavesNone
<1> SUFFICES ASSUME job.status = "completed" PROVE SweepLeavesNone'
  BY <1>1
<1>2. /\ job \in Job /\ bucket \subseteq Name /\ Name \subseteq Nat
      /\ sweep.cursor \in Nat /\ sweep.page \subseteq Name
      /\ sweep \in [at : {"off", "list", "delete"}, cursor : Nat, page : SUBSET Name,
                    more : BOOLEAN]
  BY QuietParts DEF CInv, JobTypeOK
<1>3. /\ sweep.at # "off" => \A n \in bucket : n > sweep.cursor
      /\ sweep.at = "delete" =>
           /\ \A p \in sweep.page, n \in bucket \ sweep.page : p < n
           /\ ~sweep.more => bucket \subseteq sweep.page
      /\ job.expires = "past" => bucket = {}
  BY DEF QuietInv, SweepLeavesNone
<1>4. CASE RunEnds \/ Forgets \/ UNCHANGED vars
  BY <1>3, <1>4, ForgetsFrame
     DEF RunEnds, vars, jobVars, workerVars, durable, volatile, SweepLeavesNone
<1>5. CASE AlarmFires
  <2>1. /\ job' = job /\ bucket' = bucket /\ \A n \in bucket : n > 0
    BY <1>2, <1>5, WorkerAssumption DEF AlarmFires, workerVars
  <2>2. sweep' = [NoSweep EXCEPT !.at = "list"] \/ sweep' = NoSweep
    BY <1>5 DEF AlarmFires
  <2>3. QED
    BY <1>3, <2>1, <2>2 DEF SweepLeavesNone, NoSweep
<1>6. CASE ListPrefix
  <2>1. PICK page \in SUBSET bucket :
          /\ IsPage(page, sweep.cursor)
          /\ \/ page = {} /\ SweepDone
             \/ /\ sweep' = [sweep EXCEPT !.at = "delete", !.page = page,
                                          !.more = Truncated(page, sweep.cursor)]
                /\ UNCHANGED <<job, alarm>>
    BY <1>6 DEF ListPrefix
  <2>2. bucket' = bucket /\ Ahead(sweep.cursor) = bucket
    BY <1>3, <1>6 DEF ListPrefix, workerVars, Ahead
  <2>3. CASE page = {} /\ SweepDone
    <3>1. Cardinality(page) # LIST_PAGE
      BY <2>3, FS_EmptySet, JobAssumption
    <3>2. bucket = {}
      BY <2>1, <2>2, <2>3, <3>1 DEF IsPage
    <3>3. QED
      BY <2>2, <2>3, <3>2 DEF SweepDone, SweepLeavesNone, NoSweep
  <2>4. CASE /\ sweep' = [sweep EXCEPT !.at = "delete", !.page = page,
                                       !.more = Truncated(page, sweep.cursor)]
             /\ UNCHANGED <<job, alarm>>
    <3>1. sweep'.cursor = sweep.cursor /\ sweep'.page = page /\ sweep'.more = (page # bucket)
      BY <1>2, <2>2, <2>4 DEF Truncated
    <3>2. \A p \in page, n \in bucket \ page : p < n
      BY <2>1, <2>2 DEF IsPage
    <3>3. sweep.at = "list"
      BY <1>6 DEF ListPrefix
    <3>4. QED
      BY <1>3, <2>2, <2>4, <3>1, <3>2, <3>3 DEF SweepLeavesNone
  <2>5. QED
    BY <2>1, <2>3, <2>4
<1>7. CASE DeletePage
  <2>1. sweep.at = "delete" /\ bucket' = bucket \ sweep.page
    BY <1>7 DEF DeletePage
  <2>2. CASE ~sweep.more /\ SweepDone
    BY <1>3, <2>1, <2>2 DEF SweepDone, SweepLeavesNone, NoSweep
  <2>3. ASSUME NEW last \in sweep.page, sweep' = [NoSweep EXCEPT !.at = "list", !.cursor = last],
               job' = job
        PROVE  SweepLeavesNone'
    <3>1. \A n \in bucket' : n > last
      BY <1>2, <1>3, <2>1
    <3>2. QED
      BY <1>3, <2>1, <2>3, <3>1 DEF SweepLeavesNone, NoSweep
  <2>4. QED
    BY <1>7, <2>2, <2>3 DEF DeletePage
<1>8. CASE SweepThrows \/ Evict
  BY <1>3, <1>8 DEF SweepThrows, Evict, SweepLeavesNone, NoSweep, workerVars
<1>9. QED
  BY <1>4, <1>5, <1>6, <1>7, <1>8, NobodyWrites

LEMMA QuietAtFirst == Init => QuietInv
<1>1. ASSUME Init
      PROVE  CleanupFollowsCompletion /\ ResolvedIsQuiet /\ MetricsAreKept /\ SweepLeavesNone
  BY <1>1 DEF Init, JobInit, InitVolatile, WorkerInit, CleanupFollowsCompletion, ResolvedIsQuiet,
     MetricsAreKept, SweepLeavesNone, NoSweep
<1>2. QED
  BY <1>1, InitHolds DEF QuietInv

LEMMA QuietStep ==
  ASSUME "callBreaks" \notin Faults, QuietInv, [Next]_vars
  PROVE  QuietInv'
  BY StepKeeps, StepKeepsCleanup, StepKeepsQuiet, StepKeepsMetrics, StepKeepsSweep DEF QuietInv

-----------------------------------------------------------------------------
(* While the calls to the workers hold, the cleanup that ran to its end    *)
(* has left nothing under the job's prefix: no worker can still write when *)
(* the alarm goes off, and deletePrefix (job.ts:329-341) skips no object,  *)
(* over any number of pages, failed calls, crashes and runs of the alarm.  *)
THEOREM CleanedStaysEmpty ==
  ASSUME "callBreaks" \notin Faults
  PROVE  Spec => []CleanedMeansEmpty
<1>1. QuietInv => CleanedMeansEmpty
  BY DEF QuietInv, SweepLeavesNone, CleanedMeansEmpty
<1>2. QED
  BY <1>1, QuietAtFirst, QuietStep, PTL DEF Spec

(* While the calls to the workers hold, what report() shows of a completed *)
(* job never changes (job.ts:622-623, currentMetrics).                     *)
THEOREM ReportedMetricsStayAlways ==
  ASSUME "callBreaks" \notin Faults
  PROVE  Spec => ReportedMetricsStay
<1>1. QuietInv /\ [Next]_vars => QuietInv' /\ [job.status = "completed" =>
                                                 CurrentMetrics' = CurrentMetrics]_vars
  BY QuietStep, StepKeepsMetrics
<1>2. QED
  BY <1>1, QuietAtFirst, PTL DEF Spec, ReportedMetricsStay

-----------------------------------------------------------------------------
(* Distinct names: as many names as entries.                               *)
LEMMA NamesCount ==
  ASSUME IsInjective(NameOf), NEW S \in SUBSET Entry
  PROVE  /\ IsFiniteSet(S) /\ IsFiniteSet({NameOf[e] : e \in S})
         /\ Cardinality(S) \in Nat
         /\ Cardinality({NameOf[e] : e \in S}) = Cardinality(S)
<1> DEFINE T == {NameOf[e] : e \in S}
           f == [e \in S |-> NameOf[e]]
<1>1. IsFiniteSet(S) /\ Cardinality(S) \in Nat
  BY WorkerAssumption, FS_Subset, FS_CardinalityType
<1>2. f \in Surjection(S, T)
  BY Fun_IsSurj
<1>3. f \in Injection(S, T)
  BY WorkerAssumption DEF Injection, IsInjective
<1>4. QED
  BY <1>1, <1>2, <1>3, FS_Surjection

\* What a step of worker w leaves alone, its own or the answer to a report of its.
LEMMA WorkerFrame ==
  ASSUME IInv, NEW w \in Worker, WorkerOnly(w) \/ ReportAnswered(w)
  PROVE  /\ shard' = shard
         /\ \A e \in Entry : e \notin shard[w] => stage'[e] = stage[e]
         /\ \A v \in Worker : v # w => wphase'[v] = wphase[v] /\ outbox'[v] = outbox[v]
<1>1. /\ wphase \in [Worker -> WPhase] /\ outbox \in [Worker -> Seq(Report)]
      /\ stage \in [Entry -> Stage]
  BY DEF IInv, TypeOK, WorkerTypeOK
<1>2. CASE WorkerOnly(w)
  <2>1. CASE ExtractShard(w, job.destination = "byo")
    BY <1>1, <2>1 DEF ExtractShard, Range
  <2>2. CASE \E e \in Entry : ExtractEntryOk(w, e) \/ ExtractEntryFails(w, e)
    BY <1>1, <2>2 DEF ExtractEntryOk, ExtractEntryFails, Send
  <2>3. CASE ShardReturns(w) \/ RuntimeFails(w, job.destination = "byo") \/ WorkerDies(w)
    BY <1>1, <2>3 DEF ShardReturns, RuntimeFails, WorkerDies
  <2>4. QED
    BY <1>2, <2>1, <2>2, <2>3 DEF WorkerOnly
<1>3. CASE ReportAnswered(w)
  <2>1. Head(outbox[w]).entry \in shard[w]
    BY <1>3, AnsweredHead
  <2>2. QED
    BY <1>1, <1>3, <2>1 DEF ReportAnswered, LoopGoesOn, Queue
<1>4. QED
  BY <1>2, <1>3

\* What holds of names, shards and rows whenever the invariant does.
LEMMA HonestParts ==
  ASSUME IsInjective(NameOf), HonestInv
  PROVE  /\ \A e \in Entry : NameOf[e] \in Name
         /\ \A d, e \in Entry : NameOf[d] = NameOf[e] => d = e
         /\ \A v, w \in Worker : v # w => shard[v] \intersect shard[w] = {}
         /\ shard \in [Worker -> SUBSET Entry] /\ stage \in [Entry -> Stage]
         /\ wphase \in [Worker -> WPhase] /\ outbox \in [Worker -> Seq(Report)]
         /\ file \in [Name -> Row \union {NoRow}]
         /\ job \in Job /\ sink \in Metrics /\ selected \in SUBSET Entry
         /\ IInv /\ WInv /\ QuietInv
         /\ run \in {"readIndex", "recordStart"} \/ job.status = "none" =>
              /\ \A w \in Worker : wphase[w] = "idle" /\ shard[w] = {}
              /\ \A n \in Name : file[n] = NoRow
         /\ \A w \in Worker : outbox[w] # <<>> =>
              job.status = "running" /\ ~Resolved(w) /\ wphase[w] # "returned"
<1>1. /\ \A e \in Entry : NameOf[e] \in Name
      /\ \A d, e \in Entry : NameOf[d] = NameOf[e] => d = e
  BY WorkerAssumption DEF IsInjective
<1>2. QuietInv /\ IInv /\ WInv
  BY Parts DEF HonestInv, QuietInv
<1>3. /\ \A v, w \in Worker : v # w => shard[v] \intersect shard[w] = {}
      /\ shard \in [Worker -> SUBSET Entry] /\ stage \in [Entry -> Stage]
      /\ wphase \in [Worker -> WPhase] /\ outbox \in [Worker -> Seq(Report)]
      /\ file \in [Name -> Row \union {NoRow}]
      /\ job \in Job /\ sink \in Metrics /\ selected \in SUBSET Entry
  BY <1>2 DEF IInv, PoolInv, ShardsDisjoint, TypeOK, WorkerTypeOK, JobTypeOK
<1>4. run \in {"readIndex", "recordStart"} \/ job.status = "none" =>
        /\ \A w \in Worker : wphase[w] = "idle" /\ shard[w] = {}
        /\ \A n \in Name : file[n] = NoRow
  BY <1>2 DEF IInv, NothingListed, PoolInv, Untouched
<1>5. \A w \in Worker : outbox[w] # <<>> =>
        job.status = "running" /\ ~Resolved(w) /\ wphase[w] # "returned"
  BY <1>2 DEF QuietInv, ResolvedIsQuiet, Resolved
<1>6. QED
  BY <1>1, <1>2, <1>3, <1>4, <1>5

(* A report that is still to be heard is about a row that is not settled.  *)
LEMMA ReportedIsOpen ==
  ASSUME IsInjective(NameOf), HonestInv, NEW w \in Worker, ReportAnswered(w)
  PROVE  /\ Head(outbox[w]) \in Report
         /\ Head(outbox[w]).entry \in shard[w] /\ Head(outbox[w]).entry \in Entry
         /\ RowOf(Head(outbox[w]).entry) # NoRow
         /\ RowOf(Head(outbox[w]).entry).status \in {"pending", "extracting"}
<1> DEFINE e == Head(outbox[w]).entry
<1>1. /\ Head(outbox[w]) \in Report /\ e \in shard[w] /\ e \in Entry
      /\ \E i \in 1 .. Len(outbox[w]) : outbox[w][i].entry = e
  BY AnsweredHead, HonestParts DEF Report
<1> HIDE DEF e
<1>2. RowOf(e) # NoRow
  BY <1>1 DEF HonestInv, ShardsAreListed
<1>3. RowOf(e).status # "done" /\ RowOf(e).status # "failed"
  BY <1>1 DEF HonestInv, DoneInv, DoneIsSaid, Said, FailedIsSaid, RowOf
<1>4. RowOf(e) \in Row
  BY <1>1, <1>2, HonestParts DEF RowOf
<1>5. QED
  BY <1>1, <1>2, <1>3, <1>4 DEF Row, FileStatus, e

\* A report is applied: one row changes, to the status it reports.
LEMMA ReportApplied ==
  ASSUME IsInjective(NameOf), HonestInv, NEW w \in Worker, ReportFileResult(w)
  PROVE  LET h == Head(outbox[w])
         IN  /\ ReportAnswered(w)
             /\ file'[NameOf[h.entry]] # NoRow /\ file'[NameOf[h.entry]].status = h.status
             /\ \A n \in Name : n # NameOf[h.entry] => file'[n] = file[n]
             /\ job'.status = job.status /\ job'.total = job.total /\ run' = run
             /\ pending' = pending /\ sink'.extracted = sink.extracted
             /\ job.status = "running"
<1> DEFINE h == Head(outbox[w])
<1>1. ReportAnswered(w) /\ run' = run /\ pending' = pending
      /\ file' = [file EXCEPT ![NameOf[h.entry]] = Settle(@, h.status)]
  BY DEF ReportFileResult
<1>2. /\ h \in Report /\ h.entry \in Entry
      /\ RowOf(h.entry) # NoRow /\ NameOf[h.entry] \in Name
      /\ file \in [Name -> Row \union {NoRow}]
      /\ job \in Job /\ sink \in Metrics /\ job.status = "running"
  BY <1>1, ReportedIsOpen, HonestParts DEF ReportAnswered
<1>3. job'.status = job.status /\ job'.total = job.total /\ sink'.extracted = sink.extracted
  BY <1>2 DEF ReportFileResult, Job, Metrics
<1> HIDE DEF h
<1>4. file'[NameOf[h.entry]] = Settle(RowOf(h.entry), h.status)
      /\ \A n \in Name : n # NameOf[h.entry] => file'[n] = file[n]
  BY <1>1, <1>2 DEF RowOf
<1>5. file'[NameOf[h.entry]].status = h.status /\ h.status # "none"
  BY <1>2, <1>4 DEF Settle, Report, ReportStatus
<1>6. QED
  BY <1>1, <1>2, <1>3, <1>4, <1>5 DEF h, NoRow

\* A shard has failed: its worker is lost, every row of its entries is settled.
LEMMA ShardFailed ==
  ASSUME IsInjective(NameOf), "callBreaks" \notin Faults, HonestInv, NEW w \in Worker, FailShard(w)
  PROVE  /\ wphase[w] = "dead" /\ outbox[w] = <<>> /\ w \in pending /\ UNCHANGED workerVars
         /\ \A e \in shard[w] : RowOf(e)' # NoRow /\ RowOf(e)'.status \in SettledStatus
         /\ \A n \in Name : \/ file'[n] = file[n]
                            \/ /\ \E e \in shard[w] : NameOf[e] = n
                               /\ file[n].status \in {"pending", "extracting"}
                               /\ file'[n].status = "failed"
<1>1. /\ wphase[w] = "dead" /\ outbox[w] = <<>> /\ w \in pending /\ UNCHANGED workerVars
      /\ file' = [n \in Name |-> IF n \in {NameOf[e] : e \in shard[w]}
                                 THEN FailUnlessSettled(file[n]) ELSE file[n]]
  BY DEF FailShard, ShardSettled
<1>2. \A n \in Name : file[n] \in Row \union {NoRow}
  BY HonestParts
<1>3. ASSUME NEW n \in Name
      PROVE  \/ file'[n] = file[n]
             \/ /\ \E e \in shard[w] : NameOf[e] = n
                /\ file[n].status \in {"pending", "extracting"}
                /\ file'[n].status = "failed"
  BY <1>1, <1>2 DEF FailUnlessSettled, Row, FileStatus
<1>4. ASSUME NEW e \in shard[w]
      PROVE  RowOf(e)' # NoRow /\ RowOf(e)'.status \in SettledStatus
  <2>1. e \in Entry /\ NameOf[e] \in Name /\ RowOf(e) # NoRow
    BY HonestParts DEF HonestInv, ShardsAreListed
  <2>2. RowOf(e)' = FailUnlessSettled(RowOf(e)) /\ RowOf(e) \in Row
    BY <1>1, <1>2, <2>1 DEF RowOf
  <2>3. RowOf(e)'.status \in SettledStatus
    BY <2>1, <2>2 DEF FailUnlessSettled, SettledStatus, Row
  <2>4. QED
    BY <2>3 DEF NoRow, SettledStatus
<1>5. QED
  BY <1>1, <1>3, <1>4

\* What the listing does.
LEMMA Listing ==
  ASSUME IsInjective(NameOf), HonestInv, NEW entries \in SUBSET Entry, NEW m \in Metrics,
         FanOut(entries, m), run \in {"readIndex", "recordStart"}
  PROVE  /\ \A n \in Name : \/ n \in {NameOf[e] : e \in entries} /\ file'[n].status = "pending"
                            \/ n \notin {NameOf[e] : e \in entries} /\ file'[n] = NoRow
         /\ job'.total = Cardinality(entries)
         /\ outbox' = outbox /\ stage' = stage
         /\ \A w \in Worker : wphase'[w] \in {"idle", "called"}
         /\ \/ /\ entries = {} /\ UNCHANGED workerVars /\ run' \in {"finishing", "ended"}
               /\ job'.status \in {"completed", "failed"}
               /\ job'.metrics.extracted = m.extracted
            \/ /\ entries # {} /\ run' = "fanOut" /\ job'.status = "running"
               /\ sink'.extracted = m.extracted
               /\ \A w \in Worker : w \notin pending' => shard'[w] = {}
               /\ \A e \in Entry : e \in entries <=> \E w \in Worker : e \in shard'[w]
<1> DEFINE fleet == 0 .. (FleetSize(Cardinality(entries)) - 1)
           started == [m EXCEPT !.phase = "extracting", !.workers = Cardinality(fleet)]
           withRows == [job EXCEPT !.total = Cardinality(entries), !.metrics = started]
<1>1. Cardinality(fleet) \in Nat /\ Cardinality(entries) \in Nat /\ fleet \subseteq Worker
  BY FleetWithinWorkers
<1>2. started \in Metrics /\ started.extracted = m.extracted
  BY <1>1 DEF Metrics, Phase
<1>3. /\ \A w \in Worker : wphase[w] = "idle" /\ shard[w] = {}
      /\ \A n \in Name : file[n] = NoRow
      /\ wphase \in [Worker -> WPhase] /\ job \in Job /\ job.status = "running"
      /\ shard \in [Worker -> SUBSET Entry]
  BY HonestParts, QuietParts
<1>4. withRows \in Job /\ withRows.status = "running" /\ withRows.total = Cardinality(entries)
  BY <1>1, <1>2, <1>3 DEF Job
<1>5. \A n \in Name : \/ n \in {NameOf[e] : e \in entries} /\ file'[n].status = "pending"
                      \/ n \notin {NameOf[e] : e \in entries} /\ file'[n] = NoRow
  BY <1>3 DEF FanOut
<1>6. \/ entries = {} /\ Finish(withRows, started) /\ UNCHANGED <<workerVars, pending>>
      \/ /\ entries # {}
         /\ \E assignment \in [entries -> fleet] : Dispatch(entries, fleet, assignment)
         /\ pending' = fleet /\ job' = withRows /\ sink' = started /\ run' = "fanOut"
  BY DEF FanOut
<1> HIDE DEF fleet, started, withRows
<1>7. CASE entries = {} /\ Finish(withRows, started) /\ UNCHANGED <<workerVars, pending>>
  <2>1. job'.total = Cardinality(entries) /\ job'.status \in {"completed", "failed"}
        /\ run' \in {"finishing", "ended"} /\ job'.metrics = [started EXCEPT !.phase = "done"]
    BY <1>4, <1>7 DEF Finish, Complete, ScheduleRefused, Job
  <2>2. job'.metrics.extracted = m.extracted
    BY <1>2, <2>1 DEF Metrics
  <2>3. QED
    BY <1>3, <1>5, <1>7, <2>1, <2>2 DEF workerVars
<1>8. CASE /\ entries # {}
           /\ \E assignment \in [entries -> fleet] : Dispatch(entries, fleet, assignment)
           /\ pending' = fleet /\ job' = withRows /\ sink' = started /\ run' = "fanOut"
  <2>1. PICK assignment \in [entries -> fleet] : Dispatch(entries, fleet, assignment)
    BY <1>8
  <2>2. /\ outbox' = outbox /\ stage' = stage
        /\ \A w \in Worker : wphase'[w] \in {"idle", "called"}
        /\ \A w \in Worker : shard'[w] = IF w \in fleet THEN {e \in entries : assignment[e] = w}
                                         ELSE {}
    BY <1>3, <2>1 DEF Dispatch
  <2>3. \A e \in Entry : e \in entries <=> \E w \in Worker : e \in shard'[w]
    <3>1. \A e \in entries : assignment[e] \in fleet /\ assignment[e] \in Worker
      BY <1>1
    <3>2. ASSUME NEW e \in entries PROVE e \in shard'[assignment[e]]
      <4>1. shard'[assignment[e]] = {d \in entries : assignment[d] = assignment[e]}
        BY <2>2, <3>1
      <4>2. QED
        BY <4>1
    <3>3. \A w \in Worker : shard'[w] \subseteq entries
      <4> SUFFICES ASSUME NEW w \in Worker PROVE shard'[w] \subseteq entries
        OBVIOUS
      <4>1. shard'[w] = {e \in entries : assignment[e] = w} \/ shard'[w] = {}
        BY <2>2
      <4>2. QED
        BY <4>1
    <3>4. QED
      BY <3>1, <3>2, <3>3
  <2>4. QED
    BY <1>2, <1>4, <1>5, <1>8, <2>2, <2>3
<1>9. QED
  BY <1>6, <1>7, <1>8

-----------------------------------------------------------------------------
(* The steps that neither list files nor hear from a worker: rows, shards, *)
(* stages and reports stay, and the job ends only while nothing is listed. *)
Calm ==
  /\ UNCHANGED <<wphase, shard, stage, outbox, file>> /\ job'.total = job.total
  /\ \/ job'.status = job.status
     \/ /\ \/ job.status = "none" /\ job'.status \in {"pending", "running"}
           \/ run = "readIndex" /\ job.status = "running" /\ job'.status = "failed"
        /\ \A w \in Worker : wphase[w] = "idle" /\ shard[w] = {}
  /\ run' \in {"readIndex", "recordStart"} => sink'.extracted = 0
  /\ run' = "fanOut" => run = "fanOut" /\ sink' = sink /\ pending' = pending
  /\ job'.status = "completed" =>
       job.status = "completed" /\ job'.metrics = job.metrics /\ pending' = pending

LEMMA StepCases ==
  ASSUME IsInjective(NameOf), HonestInv, [Next]_vars
  PROVE  \/ Calm
         \/ \E entries \in SUBSET Entry, m \in Metrics :
              /\ FanOut(entries, m) /\ m.extracted = 0
              /\ run \in {"readIndex", "recordStart"}
         \/ \E w \in Worker : \/ WorkerOnly(w) \/ ReportFileResult(w) \/ ReportLost(w)
                              \/ ApplyShardSummary(w) \/ FailShard(w)
<1>1. /\ job \in Job /\ sink \in Metrics /\ selected \in SUBSET Entry
      /\ run \in {"readIndex", "recordStart"} \/ job.status = "none" =>
           \A w \in Worker : wphase[w] = "idle" /\ shard[w] = {}
      /\ run \in {"readIndex", "recordStart"} => job.status = "running" /\ sink.extracted = 0
      /\ job.status = "completed" => pending = {}
  BY HonestParts, QuietParts DEF HonestInv, ExtractedAreCounted
<1>2. CASE Starts
  <2>1. job'.total = job.total /\ job'.status \in {"pending", "running"} /\ sink'.extracted = 0
    <3>1. job'.total = job.total /\ job'.status \in {"pending", "running"}
      BY <1>1, <1>2 DEF Starts, Start, StartsWithoutRuntime, Job
    <3>2. sink' = FreshMetrics \/ sink' = [FreshMetrics EXCEPT !.phase = "reading-index"]
      BY <1>2 DEF Starts, Start, StartsWithoutRuntime
    <3>3. sink'.extracted = 0
      BY <3>2 DEF FreshMetrics
    <3>4. QED
      BY <3>1, <3>3
  <2>2. QED
    BY <1>1, <1>2, <2>1 DEF Starts, Start, StartsWithoutRuntime, Calm, workerVars
<1>3. CASE \E sized \in BOOLEAN : ReadIndexFails(sized)
  <2>1. job'.total = job.total /\ job'.status = "failed"
    BY <1>1, <1>3 DEF ReadIndexFails, Job
  <2>2. QED
    BY <1>1, <1>3, <2>1 DEF ReadIndexFails, Calm, workerVars
<1>4. CASE \/ \E entries \in SUBSET Entry : ReadIndexOk(entries)
           \/ StartRecorded
  <2>1. [sink EXCEPT !.archived = TRUE] \in Metrics
        /\ [sink EXCEPT !.archived = TRUE].extracted = sink.extracted
    BY <1>1 DEF Metrics
  <2>2. ASSUME run \in {"readIndex", "recordStart"}, run' = "recordStart",
               sink' = [sink EXCEPT !.archived = TRUE],
               UNCHANGED <<workerVars, durable>>
        PROVE  Calm
    BY <1>1, <2>1, <2>2 DEF Calm, workerVars, durable
  <2>3. ASSUME NEW entries \in SUBSET Entry, ReadIndexOk(entries)
        PROVE  \/ Calm
               \/ \E m \in Metrics : /\ FanOut(entries, m) /\ m.extracted = 0
                                     /\ run \in {"readIndex", "recordStart"}
    <3>1. \/ /\ run \in {"readIndex", "recordStart"} /\ run' = "recordStart"
             /\ sink' = [sink EXCEPT !.archived = TRUE]
             /\ UNCHANGED <<workerVars, durable>>
          \/ run = "readIndex" /\ FanOut(entries, [sink EXCEPT !.archived = TRUE])
      BY <2>3 DEF ReadIndexOk
    <3>2. CASE run = "readIndex" /\ FanOut(entries, [sink EXCEPT !.archived = TRUE])
      <4> DEFINE kept == [sink EXCEPT !.archived = TRUE]
      <4>1. kept \in Metrics /\ kept.extracted = 0 /\ FanOut(entries, kept)
        BY <1>1, <2>1, <3>2
      <4> HIDE DEF kept
      <4>2. QED
        BY <3>2, <4>1
    <3>3. QED
      BY <2>2, <3>1, <3>2
  <2>4. QED
    BY <1>1, <1>4, <2>3 DEF StartRecorded
<1>5. CASE RunEnds \/ AlarmFires \/ ListPrefix \/ DeletePage \/ SweepThrows \/ Evict
           \/ Forgets \/ UNCHANGED vars
  <2>1. /\ UNCHANGED <<wphase, shard, stage, outbox, file>>
        /\ job' = job \/ job' = [job EXCEPT !.expires = "past"]
    BY <1>5, ForgetsFrame DEF RunEnds, AlarmFires, ListPrefix, DeletePage, SweepThrows, Evict,
       SweepDone, vars, jobVars, workerVars, durable
  <2>2. \/ UNCHANGED <<run, sink, pending>>
        \/ run' = "ended" /\ UNCHANGED <<sink, pending>>
        \/ run' = "none" /\ pending' = {}
    BY <1>5, ForgetsFrame DEF RunEnds, AlarmFires, ListPrefix, DeletePage, SweepThrows, Evict, vars,
       jobVars, volatile
  <2>3. job'.status = job.status /\ job'.total = job.total /\ job'.metrics = job.metrics
    BY <1>1, <2>1 DEF Job
  <2>4. QED
    BY <1>1, <2>1, <2>2, <2>3 DEF Calm
<1>6. QED
  BY <1>2, <1>3, <1>4, <1>5 DEF Next, Starts, Forgets

-----------------------------------------------------------------------------
LEMMA StepKeepsListed ==
  ASSUME IsInjective(NameOf), "callBreaks" \notin Faults, HonestInv, [Next]_vars
  PROVE  ShardsAreListed'
<1>1. /\ \A e \in Entry : RowOf(e) # NoRow <=> \E w \in Worker : e \in shard[w]
      /\ job.total = Cardinality(ListedNames)
      /\ run = "fanOut" => ListedNames # {}
  BY DEF HonestInv, ShardsAreListed
<1>2. ASSUME shard' = shard, \A n \in Name : file'[n] = NoRow <=> file[n] = NoRow,
             job'.total = job.total, run' = "fanOut" => run = "fanOut"
      PROVE  ShardsAreListed'
  <2>1. ListedNames' = ListedNames
    BY <1>2 DEF ListedNames
  <2>2. \A e \in Entry : RowOf(e)' # NoRow <=> RowOf(e) # NoRow
    BY <1>2, HonestParts DEF RowOf
  <2>3. QED
    BY <1>1, <1>2, <2>1, <2>2 DEF ShardsAreListed
<1>3. CASE Calm
  BY <1>2, <1>3 DEF Calm
<1>4. ASSUME NEW entries \in SUBSET Entry, NEW m \in Metrics, FanOut(entries, m),
             run \in {"readIndex", "recordStart"}
      PROVE  ShardsAreListed'
  <2> DEFINE N == {NameOf[e] : e \in entries}
  <2>1. /\ \A n \in Name : \/ n \in N /\ file'[n].status = "pending"
                           \/ n \notin N /\ file'[n] = NoRow
        /\ job'.total = Cardinality(entries)
        /\ \/ entries = {} /\ shard' = shard /\ run' # "fanOut"
           \/ /\ entries # {}
              /\ \A e \in Entry : e \in entries <=> \E w \in Worker : e \in shard'[w]
    BY <1>4, Listing DEF workerVars
  <2>2. \A n \in Name : file'[n] # NoRow <=> n \in N
    BY <2>1 DEF NoRow
  <2>3. N \subseteq Name
    BY HonestParts
  <2>4. ListedNames' = N
    BY <2>2, <2>3 DEF ListedNames
  <2>5. Cardinality(N) = Cardinality(entries)
    BY NamesCount
  <2>6. \A e \in Entry : NameOf[e] \in N <=> e \in entries
    BY HonestParts
  <2>7. \A e \in Entry : RowOf(e)' # NoRow <=> e \in entries
    BY <2>2, <2>6, HonestParts DEF RowOf
  <2>8. \A e \in Entry : e \in entries <=> \E w \in Worker : e \in shard'[w]
    BY <1>4, <2>1, HonestParts
  <2>9. run' = "fanOut" => N # {}
    BY <2>1
  <2> HIDE DEF N
  <2>10. QED
    BY <2>1, <2>4, <2>5, <2>7, <2>8, <2>9 DEF ShardsAreListed
<1>5. ASSUME NEW w \in Worker, WorkerOnly(w) \/ ReportLost(w)
      PROVE  ShardsAreListed'
  BY <1>2, <1>5, WorkerFrame, HonestParts DEF WorkerOnly, ReportLost, jobVars, durable, volatile
<1>6. ASSUME NEW w \in Worker, ReportFileResult(w)
      PROVE  ShardsAreListed'
  <2>1. RowOf(Head(outbox[w]).entry) # NoRow
    BY <1>6, ReportedIsOpen DEF ReportFileResult
  <2>2. \A n \in Name : file'[n] = NoRow <=> file[n] = NoRow
    BY <1>6, <2>1, ReportApplied DEF RowOf
  <2>3. QED
    BY <1>2, <1>6, <2>2, ReportApplied, WorkerFrame, HonestParts
<1>7. ASSUME NEW w \in Worker, ApplyShardSummary(w) \/ FailShard(w)
      PROVE  ShardsAreListed'
  <2>1. shard' = shard /\ run = "fanOut" /\ job'.total = job.total
    BY <1>7, HonestParts, QuietParts
       DEF ApplyShardSummary, FailShard, ShardSettled, workerVars, Finish, Complete,
           ScheduleRefused, Job
  <2>2. \A n \in Name : file'[n] = NoRow <=> file[n] = NoRow
    BY <1>7, ShardFailed DEF ApplyShardSummary, NoRow
  <2>3. QED
    BY <1>2, <2>1, <2>2
<1>8. QED
  BY <1>3, <1>4, <1>5, <1>6, <1>7, StepCases

-----------------------------------------------------------------------------
\* No unanswered report is about entry e.
Silent(e) == \A w \in Worker : \A i \in 1 .. Len(outbox[w]) : outbox[w][i].entry # e

\* Entry e has failed, or its worker is lost.
GivenUp(e) == \/ stage[e] \in {"reportingFailed", "failed"}
              \/ \E w \in Worker : e \in shard[w] /\ wphase[w] = "dead"

LEMMA AnswerKeepsSilent ==
  ASSUME IInv, NEW w \in Worker, ReportAnswered(w), NEW d \in Entry,
         \/ Silent(d) /\ (stage[d] # "queued" \/ d \notin shard[w] \/ wphase[w] = "dead")
         \/ d = Head(outbox[w]).entry
  PROVE  Silent(d)'
<1> DEFINE h == Head(outbox[w])
           t == Tail(outbox[w])
<1>1. /\ h \in Report /\ h.entry \in shard[w] /\ stage[h.entry] = Announces(h.status)
      /\ \A i \in 1 .. Len(t) :
           t[i].entry # h.entry /\ \E j \in 1 .. Len(outbox[w]) : t[i] = outbox[w][j]
      /\ t \in Seq(Report) /\ outbox \in [Worker -> Seq(Report)]
  BY AnsweredHead DEF IInv, TypeOK, WorkerTypeOK
<1>2. \A v \in Worker : v # w => \A i \in 1 .. Len(outbox[v]) : outbox[v][i].entry # h.entry
  BY <1>1 DEF IInv, PoolInv, ShardsDisjoint, ReportsMatchStages
<1>3. \A i \in 1 .. Len(t) : t[i].entry # d
  BY <1>1 DEF Silent
<1>4. \A v \in Worker : v # w => \A i \in 1 .. Len(outbox[v]) : outbox[v][i].entry # d
  BY <1>2 DEF Silent
<1>5. stage[h.entry] # "queued"
  BY <1>1 DEF Announces, Report, ReportStatus
<1>6. \/ outbox' = [outbox EXCEPT ![w] = t]
      \/ \E next \in Queue(w) :
           /\ next # d
           /\ outbox' = [outbox EXCEPT ![w] =
                Append(t, [entry |-> next, status |-> "extracting", inFlight |-> inFlight[w]])]
  BY <1>5 DEF ReportAnswered, LoopGoesOn, Queue
<1> HIDE DEF h, t
<1>7. CASE outbox' = [outbox EXCEPT ![w] = t]
  BY <1>1, <1>3, <1>4, <1>7 DEF Silent
<1>8. ASSUME NEW r, r.entry # d, outbox' = [outbox EXCEPT ![w] = Append(t, r)]
      PROVE  Silent(d)'
  <2>1. \A i \in 1 .. Len(Append(t, r)) :
          \/ i \in 1 .. Len(t) /\ Append(t, r)[i] = t[i]
          \/ Append(t, r)[i] = r
    <3>1. t \in Seq(Report)
      BY <1>1
    <3>2. QED
      BY <3>1
  <2>2. \A v \in Worker : \A i \in 1 .. Len(outbox'[v]) : outbox'[v][i].entry # d
    BY <1>1, <1>3, <1>4, <1>8, <2>1
  <2>3. QED
    BY <2>2 DEF Silent
<1>9. ASSUME NEW next \in Queue(w), next # d,
             outbox' = [outbox EXCEPT ![w] =
                Append(t, [entry |-> next, status |-> "extracting", inFlight |-> inFlight[w]])]
      PROVE  Silent(d)'
  <2> DEFINE r == [entry |-> next, status |-> "extracting", inFlight |-> inFlight[w]]
  <2>1. r.entry # d /\ outbox' = [outbox EXCEPT ![w] = Append(t, r)]
    BY <1>9
  <2> HIDE DEF r
  <2>2. QED
    BY <1>8, <2>1
<1>10. QED
  BY <1>6, <1>7, <1>9

LEMMA AnswerKeepsGivenUp ==
  ASSUME IInv, NEW w \in Worker, ReportAnswered(w), NEW d \in Entry,
         \/ Silent(d) /\ GivenUp(d)
         \/ d = Head(outbox[w]).entry /\ Head(outbox[w]).status = "failed"
  PROVE  Silent(d)' /\ GivenUp(d)'
<1> DEFINE h == Head(outbox[w])
<1>1. /\ h \in Report /\ h.entry \in shard[w] /\ h.entry \in Entry
      /\ stage[h.entry] = Announces(h.status)
      /\ \E i \in 1 .. Len(outbox[w]) : outbox[w][i].entry = h.entry
      /\ wphase \in [Worker -> WPhase] /\ stage \in [Entry -> Stage]
      /\ shard \in [Worker -> SUBSET Entry]
      /\ \A v \in Worker : v # w => shard[v] \intersect shard[w] = {}
  BY AnsweredHead DEF Report, IInv, TypeOK, WorkerTypeOK, PoolInv, ShardsDisjoint
<1>2. wphase' = wphase /\ shard' = shard
  BY DEF ReportAnswered
<1>3. CASE wphase[w] = "dead"
  <2>1. stage' = stage
    BY <1>3 DEF ReportAnswered
  <2>2. GivenUp(d)'
    BY <1>1, <1>2, <1>3, <2>1 DEF GivenUp
  <2>3. QED
    BY <1>3, <2>2, AnswerKeepsSilent
<1>4. CASE wphase[w] = "running"
  <2>1. d \in shard[w] => stage[d] \in {"reportingFailed", "failed"}
    BY <1>1, <1>4 DEF GivenUp, Announces
  <2>2. Silent(d)'
    BY <2>1, AnswerKeepsSilent
  <2>3. d = h.entry => stage[d] = "reportingFailed" /\ h.status = "failed"
    BY <1>1 DEF Silent, Announces
  <2>4. LoopGoesOn(w, h)
    BY <1>4 DEF ReportAnswered
  <2> HIDE DEF h
  <2>5. d = h.entry => EntrySettled(d) = "failed"
    BY <2>3 DEF EntrySettled
  <2>6. stage[d] \in {"reportingFailed", "failed"} => stage'[d] \in {"reportingFailed", "failed"}
    BY <1>1, <2>3, <2>4, <2>5 DEF LoopGoesOn, Queue
  <2>7. GivenUp(d)'
    BY <1>1, <1>2, <1>4, <2>3, <2>6 DEF GivenUp, h
  <2>8. QED
    BY <2>2, <2>7
<1>5. QED
  BY <1>3, <1>4 DEF ReportAnswered

LEMMA WorkerKeepsGivenUp ==
  ASSUME IInv, NEW w \in Worker, WorkerOnly(w), NEW d \in Entry, Silent(d), GivenUp(d)
  PROVE  Silent(d)' /\ GivenUp(d)'
<1>1. /\ stage \in [Entry -> Stage] /\ outbox \in [Worker -> Seq(Report)]
      /\ shard \in [Worker -> SUBSET Entry] /\ wphase \in [Worker -> WPhase]
      /\ \A v \in Worker : v # w => shard[v] \intersect shard[w] = {}
      /\ wphase[w] = "called" => \A e \in shard[w] : stage[e] = "idle"
  BY DEF IInv, TypeOK, WorkerTypeOK, PoolInv, ShardsDisjoint, Untouched
<1>2. /\ shard' = shard /\ wphase[w] \in {"called", "running"}
      /\ \A e \in Entry : e \notin shard[w] => stage'[e] = stage[e]
      /\ \A v \in Worker : v # w => wphase'[v] = wphase[v] /\ outbox'[v] = outbox[v]
  BY WorkerFrame DEF WorkerOnly, ExtractShard, ExtractEntryOk, ExtractEntryFails, ShardReturns,
     RuntimeFails, WorkerDies
<1>3. d \in shard[w] => stage[d] \in {"reportingFailed", "failed"} /\ wphase[w] = "running"
  BY <1>1, <1>2 DEF GivenUp
<1>4. ASSUME stage'[d] = stage[d] PROVE GivenUp(d)'
  BY <1>1, <1>2, <1>4 DEF GivenUp
<1>5. CASE ExtractShard(w, job.destination = "byo")
  <2>1. d \notin shard[w] /\ stage'[d] = stage[d]
    BY <1>2, <1>3, <1>5 DEF ExtractShard
  <2>2. IInv'
    BY WorkerOnlyKeeps
  <2>3. \A i \in 1 .. Len(outbox'[w]) : outbox'[w][i].entry # d
    BY <1>2, <2>1, <2>2 DEF IInv, PoolInv, ReportsMatchStages
  <2>4. QED
    BY <1>2, <1>4, <2>1, <2>3 DEF Silent
<1>6. ASSUME NEW e \in Entry, ExtractEntryOk(w, e) \/ ExtractEntryFails(w, e)
      PROVE  Silent(d)' /\ GivenUp(d)'
  <2>1. PICK status \in {"done", "failed"} : Send(w, e, status)
    BY <1>6 DEF ExtractEntryOk, ExtractEntryFails
  <2>2. d # e /\ stage'[d] = stage[d]
    BY <1>1, <1>3, <1>6 DEF ExtractEntryOk, ExtractEntryFails
  <2> DEFINE r == [entry |-> e, status |-> status, inFlight |-> inFlight[w]]
  <2>3. outbox' = [outbox EXCEPT ![w] = Append(outbox[w], r)] /\ r.entry # d
    BY <2>1, <2>2 DEF Send
  <2> HIDE DEF r
  <2>4. \A i \in 1 .. Len(Append(outbox[w], r)) : Append(outbox[w], r)[i].entry # d
    <3>1. \A i \in 1 .. Len(Append(outbox[w], r)) :
            \/ i \in 1 .. Len(outbox[w]) /\ Append(outbox[w], r)[i] = outbox[w][i]
            \/ Append(outbox[w], r)[i] = r
      BY <1>1
    <3>2. QED
      BY <2>3, <3>1 DEF Silent
  <2>5. Silent(d)'
    BY <1>1, <2>3, <2>4 DEF Silent
  <2>6. QED
    BY <1>4, <2>2, <2>5
<1>7. CASE ShardReturns(w) \/ RuntimeFails(w, job.destination = "byo") \/ WorkerDies(w)
  BY <1>4, <1>7 DEF ShardReturns, RuntimeFails, WorkerDies, Silent
<1>8. QED
  BY <1>5, <1>6, <1>7 DEF WorkerOnly

LEMMA StepKeepsFailed ==
  ASSUME IsInjective(NameOf), "callBreaks" \notin Faults, HonestInv, [Next]_vars
  PROVE  FailedIsSaid'
<1> SUFFICES ASSUME NEW d \in Entry, RowOf(d)'.status = "failed"
             PROVE  Silent(d)' /\ GivenUp(d)'
  BY DEF FailedIsSaid, Silent, GivenUp
<1>1. RowOf(d).status = "failed" => Silent(d) /\ GivenUp(d)
  BY DEF HonestInv, FailedIsSaid, Silent, GivenUp
<1>2. CASE UNCHANGED <<wphase, shard, stage, outbox, file>>
  BY <1>1, <1>2 DEF RowOf, Silent, GivenUp
<1>3. ASSUME NEW entries \in SUBSET Entry, NEW m \in Metrics, FanOut(entries, m),
             run \in {"readIndex", "recordStart"}
      PROVE  FALSE
  <2>1. NameOf[d] \in Name
    BY HonestParts
  <2>2. QED
    BY <1>3, <2>1, Listing DEF RowOf, NoRow
<1>4. ASSUME NEW w \in Worker, WorkerOnly(w) \/ ReportLost(w)
      PROVE  Silent(d)' /\ GivenUp(d)'
  <2>1. Silent(d) /\ GivenUp(d)
    BY <1>1, <1>4 DEF WorkerOnly, ReportLost, jobVars, durable, RowOf
  <2>2. QED
    BY <1>4, <2>1, HonestParts, WorkerKeepsGivenUp, AnswerKeepsGivenUp DEF ReportLost
<1>5. ASSUME NEW w \in Worker, ReportFileResult(w)
      PROVE  Silent(d)' /\ GivenUp(d)'
  <2>1. CASE d = Head(outbox[w]).entry
    <3>1. Head(outbox[w]).status = "failed"
      BY <1>5, <2>1, ReportApplied DEF RowOf
    <3>2. QED
      BY <1>5, <2>1, <3>1, HonestParts, AnswerKeepsGivenUp DEF ReportFileResult
  <2>2. CASE d # Head(outbox[w]).entry
    <3>1. Head(outbox[w]).entry \in Entry
      BY <1>5, ReportedIsOpen DEF ReportFileResult
    <3>2. NameOf[d] \in Name /\ NameOf[d] # NameOf[Head(outbox[w]).entry]
      BY <2>2, <3>1, HonestParts
    <3>3. RowOf(d)' = RowOf(d)
      BY <1>5, <3>2, ReportApplied DEF RowOf
    <3>4. QED
      BY <1>1, <1>5, <3>3, HonestParts, AnswerKeepsGivenUp DEF ReportFileResult
  <2>3. QED
    BY <2>1, <2>2
<1>6. ASSUME NEW w \in Worker, ApplyShardSummary(w)
      PROVE  Silent(d)' /\ GivenUp(d)'
  BY <1>2, <1>6 DEF ApplyShardSummary, ShardSettled, workerVars
<1>7. ASSUME NEW w \in Worker, FailShard(w)
      PROVE  Silent(d)' /\ GivenUp(d)'
  <2>1. wphase[w] = "dead" /\ outbox[w] = <<>> /\ UNCHANGED workerVars
    BY <1>7, ShardFailed
  <2>2. RowOf(d).status = "failed" \/ \E e \in shard[w] : NameOf[e] = NameOf[d]
    <3>1. NameOf[d] \in Name
      BY HonestParts
    <3>2. \/ file'[NameOf[d]] = file[NameOf[d]]
          \/ \E e \in shard[w] : NameOf[e] = NameOf[d]
      BY <1>7, <3>1, ShardFailed
    <3>3. QED
      BY <3>2 DEF RowOf
  <2>3. CASE RowOf(d).status = "failed"
    BY <1>1, <2>1, <2>3 DEF workerVars, Silent, GivenUp
  <2>4. CASE \E e \in shard[w] : NameOf[e] = NameOf[d]
    <3>1. d \in shard[w]
      BY <2>4, HonestParts
    <3>2. GivenUp(d)
      BY <2>1, <3>1 DEF GivenUp
    <3>3. \A v \in Worker : v # w => \A i \in 1 .. Len(outbox[v]) : outbox[v][i].entry # d
      BY <3>1, HonestParts DEF IInv, PoolInv, ReportsMatchStages
    <3>4. Silent(d)
      BY <2>1, <3>3 DEF Silent
    <3>5. QED
      BY <2>1, <3>2, <3>4 DEF workerVars, Silent, GivenUp
  <2>5. QED
    BY <2>2, <2>3, <2>4
<1>8. QED
  BY <1>2, <1>3, <1>4, <1>5, <1>6, <1>7, StepCases DEF Calm

-----------------------------------------------------------------------------
(* A settled row stays as it is: what is reported next is about an open    *)
(* row, and failShard skips the settled ones.                              *)
LEMMA SettledStays ==
  ASSUME IsInjective(NameOf), "callBreaks" \notin Faults, HonestInv, [Next]_vars,
         NEW n \in Name, file[n].status \in SettledStatus
  PROVE  file'[n] = file[n]
<1>1. CASE Calm
  BY <1>1 DEF Calm
<1>2. ASSUME NEW entries \in SUBSET Entry, NEW m \in Metrics, FanOut(entries, m),
             run \in {"readIndex", "recordStart"}
      PROVE  FALSE
  BY <1>2, HonestParts DEF NoRow, SettledStatus
<1>3. ASSUME NEW w \in Worker, WorkerOnly(w) \/ ReportLost(w) \/ ApplyShardSummary(w)
      PROVE  file' = file
  BY <1>3 DEF WorkerOnly, ReportLost, ApplyShardSummary, jobVars, durable
<1>4. ASSUME NEW w \in Worker, ReportFileResult(w)
      PROVE  file'[n] = file[n]
  BY <1>4, ReportApplied, ReportedIsOpen DEF RowOf, SettledStatus, ReportFileResult
<1>5. ASSUME NEW w \in Worker, FailShard(w)
      PROVE  file'[n] = file[n]
  BY <1>5, ShardFailed DEF SettledStatus
<1>6. QED
  BY <1>1, <1>2, <1>3, <1>4, <1>5, StepCases

LEMMA StepKeepsHeard ==
  ASSUME IsInjective(NameOf), "callBreaks" \notin Faults, "loseReport" \notin Faults,
         HonestInv, [Next]_vars
  PROVE  SettledIsHeard'
<1> DEFINE Listens == run = "fanOut" \/ job.status # "running"
           Heard(w, e) ==
             /\ stage[e] # "idle"
             /\ wphase[w] = "returned" => stage[e] \in SettledStatus
             /\ (stage[e] \in SettledStatus /\ Listens) => RowOf(e).status = stage[e]
<1>1. \A w \in Worker : wphase[w] \in {"running", "returned"} => \A e \in shard[w] : Heard(w, e)
  BY DEF HonestInv, SettledIsHeard
<1> SUFFICES ASSUME NEW v \in Worker, wphase'[v] \in {"running", "returned"}, NEW e \in shard'[v]
             PROVE  Heard(v, e)'
  BY DEF SettledIsHeard
<1>2. /\ \A d \in Entry : NameOf[d] \in Name
      /\ \A c, d \in Entry : NameOf[c] = NameOf[d] => c = d
      /\ \A u, w \in Worker : u # w => shard[u] \intersect shard[w] = {}
      /\ shard \in [Worker -> SUBSET Entry] /\ stage \in [Entry -> Stage]
      /\ wphase \in [Worker -> WPhase] /\ outbox \in [Worker -> Seq(Report)]
      /\ job \in Job /\ IInv /\ WInv
      /\ \A w \in Worker : outbox[w] # <<>> =>
           job.status = "running" /\ ~Resolved(w) /\ wphase[w] # "returned"
  BY HonestParts
\* A step that changes nothing of the worker and the stage of the entry.
<1>3. ASSUME wphase'[v] = wphase[v], e \in shard[v], stage'[e] = stage[e], Listens' => Listens
      PROVE  Heard(v, e)'
  <2>1. Heard(v, e)
    BY <1>1, <1>3
  <2>2. ASSUME stage[e] \in SettledStatus, Listens PROVE RowOf(e)' = RowOf(e)
    <3>1. NameOf[e] \in Name /\ file[NameOf[e]].status \in SettledStatus
      BY <1>2, <1>3, <2>1, <2>2 DEF RowOf
    <3>2. QED
      BY <3>1, SettledStays DEF RowOf
  <2>3. QED
    BY <1>3, <2>1, <2>2
<1>4. CASE Calm
  BY <1>1, <1>3, <1>4 DEF Calm
<1>5. ASSUME NEW entries \in SUBSET Entry, NEW m \in Metrics, FanOut(entries, m),
             run \in {"readIndex", "recordStart"}
      PROVE  FALSE
  BY <1>5, Listing
<1>6. ASSUME NEW w \in Worker, WorkerOnly(w)
      PROVE  Heard(v, e)'
  <2>1. /\ shard' = shard /\ (Listens' <=> Listens) /\ file' = file
        /\ v # w => wphase'[v] = wphase[v]
        /\ e \notin shard[w] => stage'[e] = stage[e]
    BY <1>2, <1>6, WorkerFrame DEF WorkerOnly, jobVars, durable, volatile
  <2>2. CASE v # w
    BY <1>2, <1>3, <2>1, <2>2
  <2>3. CASE v = w
    <3>1. CASE ExtractShard(w, job.destination = "byo")
      BY <1>2, <2>1, <2>3, <3>1 DEF ExtractShard, SettledStatus, Range
    <3>2. ASSUME NEW d \in Entry, ExtractEntryOk(w, d) \/ ExtractEntryFails(w, d)
          PROVE  Heard(v, e)'
      BY <1>2, <1>3, <2>1, <2>3, <3>2 DEF ExtractEntryOk, ExtractEntryFails, SettledStatus
    <3>3. CASE ShardReturns(w)
      <4>1. stage'[e] = stage[e] /\ wphase[w] = "running" /\ e \in shard[w]
        BY <2>1, <2>3, <3>3 DEF ShardReturns
      <4>2. Heard(w, e)
        BY <1>1, <4>1
      <4>3. stage[e] \in SettledStatus
        BY <1>2, <3>3, <4>1, <4>2 DEF ShardReturns, Queue, InFlight, Stage, Active, SettledStatus
      <4>4. QED
        BY <2>1, <2>3, <4>1, <4>2, <4>3 DEF RowOf
    <3>4. CASE RuntimeFails(w, job.destination = "byo") \/ WorkerDies(w)
      BY <1>2, <2>3, <3>4 DEF RuntimeFails, WorkerDies
    <3>5. QED
      BY <1>6, <3>1, <3>2, <3>3, <3>4 DEF WorkerOnly
  <2>4. QED
    BY <2>2, <2>3
<1>7. ASSUME NEW w \in Worker, ReportFileResult(w) \/ ReportLost(w)
      PROVE  Heard(v, e)'
  <2> DEFINE h == Head(outbox[w])
  <2>1. /\ ReportAnswered(w) /\ outbox[w] # <<>> /\ job.status = "running"
        /\ wphase' = wphase /\ shard' = shard /\ job'.status = job.status /\ run' = run
        /\ (Listens' <=> Listens)
    BY <1>2, <1>7, ReportApplied DEF ReportFileResult, ReportLost, ReportAnswered, jobVars, durable,
       volatile
  <2>2. h \in Report /\ h.entry \in shard[w] /\ h.entry \in Entry
        /\ stage[h.entry] = Announces(h.status)
    BY <2>1, AnsweredHead, ReportedIsOpen, HonestParts
  <2>3. CASE v # w \/ wphase[w] # "running"
    <3>1. stage'[e] = stage[e]
      BY <1>2, <2>1, <2>3, WorkerFrame DEF ReportAnswered
    <3>2. QED
      BY <1>3, <2>1, <3>1
  <2>4. CASE v = w /\ wphase[w] = "running" /\ e # h.entry
    <3>1. stage'[e] = stage[e] \/ stage'[e] = "announcing"
      BY <1>2, <2>1, <2>2, <2>4 DEF ReportAnswered, LoopGoesOn, Queue
    <3>2. QED
      BY <1>3, <2>1, <2>4, <3>1 DEF SettledStatus
  <2>5. CASE v = w /\ wphase[w] = "running" /\ e = h.entry
    <3>1. LoopGoesOn(w, h)
      BY <2>1, <2>5 DEF ReportAnswered
    <3> HIDE DEF h
    <3>2. \/ h.status = "extracting" /\ stage'[e] = "extracting"
          \/ h.status # "extracting" /\ stage'[e] = EntrySettled(e)
      <4>1. \A next \in Queue(w) : next # e
        BY <2>2, <2>5 DEF Queue, Announces, Report, ReportStatus
      <4>2. QED
        BY <1>2, <2>2, <2>5, <3>1, <4>1 DEF LoopGoesOn
    <3>3. h.status # "extracting" => stage'[e] = h.status
      BY <2>2, <2>5, <3>2 DEF EntrySettled, Announces, Report, ReportStatus
    <3>4. Listens => ReportFileResult(w)
      BY <1>7, <2>1, <2>5 DEF ReportLost
    <3>5. Listens' => RowOf(e)'.status = h.status
      BY <2>1, <2>5, <3>4, ReportApplied DEF RowOf, h
    <3>6. wphase'[v] # "returned"
      BY <2>1, <2>5
    <3>7. QED
      BY <2>2, <3>2, <3>3, <3>5, <3>6 DEF SettledStatus, Report, ReportStatus
  <2>6. QED
    BY <1>2, <2>3, <2>4, <2>5
<1>8. ASSUME NEW w \in Worker, ApplyShardSummary(w) \/ FailShard(w)
      PROVE  Heard(v, e)'
  <2>1. UNCHANGED workerVars /\ run = "fanOut"
    BY <1>8, HonestParts, QuietParts DEF ApplyShardSummary, FailShard, ShardSettled
  <2>2. QED
    BY <1>3, <2>1 DEF workerVars
<1>9. QED
  BY <1>4, <1>5, <1>6, <1>7, <1>8, StepCases

\* What the resolution of a shard leaves.
LEMMA ShardResolved ==
  ASSUME IsInjective(NameOf), "callBreaks" \notin Faults, HonestInv,
         NEW w \in Worker, ApplyShardSummary(w) \/ FailShard(w)
  PROVE  /\ UNCHANGED workerVars /\ run = "fanOut" /\ job.status = "running"
         /\ w \in pending /\ pending' = pending \ {w}
         /\ \A v \in Worker : v # w => (Resolved(v)' => Resolved(v))
         /\ \A e \in shard[w] : RowOf(e)'.status \in SettledStatus
         /\ LET counted == IF ApplyShardSummary(w) THEN Cardinality(Extracted(w)) ELSE 0
            IN  \/ /\ pending = {w} /\ run' # "fanOut" /\ run' \notin {"readIndex", "recordStart"}
                   /\ job'.metrics.extracted = sink.extracted + counted
                   /\ job'.status \in {"completed", "failed"}
                \/ /\ pending # {w} /\ run' = "fanOut" /\ job'.status = "running"
                   /\ sink'.extracted = sink.extracted + counted
<1> DEFINE counted == IF ApplyShardSummary(w) THEN Cardinality(Extracted(w)) ELSE 0
<1>1. /\ UNCHANGED workerVars /\ w \in pending /\ pending' = pending \ {w}
      /\ run = "fanOut" /\ job.status = "running" /\ job \in Job /\ sink \in Metrics
      /\ Cardinality(Extracted(w)) \in Nat
  BY HonestParts, QuietParts, ExtractedNat DEF ApplyShardSummary, FailShard, ShardSettled
<1>2. \A e \in shard[w] : RowOf(e)'.status \in SettledStatus
  <2>1. CASE ApplyShardSummary(w)
    <3>1. file' = file /\ wphase[w] = "returned"
      BY <2>1 DEF ApplyShardSummary
    <3>2. \A e \in shard[w] : stage[e] \in SettledStatus /\ RowOf(e).status = stage[e]
      BY <1>1, <3>1 DEF HonestInv, SettledIsHeard
    <3>3. QED
      BY <3>1, <3>2 DEF RowOf
  <2>2. CASE FailShard(w)
    BY <2>2, ShardFailed
  <2>3. QED
    BY <2>1, <2>2
<1>3. PICK m \in Metrics : ShardSettled(w, m) /\ m.extracted = sink.extracted + counted
  <2>1. CASE ApplyShardSummary(w)
    <3> DEFINE merged == [sink EXCEPT !.extracted = @ + Cardinality(Extracted(w))]
    <3>1. merged \in Metrics /\ merged.extracted = sink.extracted + counted
      BY <1>1, <2>1 DEF Metrics
    <3>2. ShardSettled(w, merged)
      BY <2>1 DEF ApplyShardSummary
    <3> HIDE DEF merged, counted
    <3>3. QED
      BY <3>1, <3>2
  <2>2. CASE ~ApplyShardSummary(w) /\ FailShard(w)
    <3>1. ShardSettled(w, sink) /\ sink.extracted = sink.extracted + counted
      BY <1>1, <2>2 DEF FailShard, Metrics
    <3> HIDE DEF counted
    <3>2. QED
      BY <1>1, <3>1
  <2>3. QED
    BY <2>1, <2>2
<1> HIDE DEF counted
<1>4. \/ /\ pending = {w} /\ run' \in {"finishing", "ended"}
         /\ job'.metrics.extracted = m.extracted
         /\ job'.status \in {"completed", "failed"}
      \/ /\ pending # {w} /\ run' = "fanOut" /\ job'.status = "running"
         /\ sink'.extracted = m.extracted
  <2>1. CASE LastShard(w) /\ Finish(job, m)
    <3>1. /\ run' \in {"finishing", "ended"} /\ job'.status \in {"completed", "failed"}
          /\ job'.metrics = [m EXCEPT !.phase = "done"]
      BY <1>1, <2>1 DEF Finish, Complete, ScheduleRefused, Job
    <3>2. job'.metrics.extracted = m.extracted
      BY <3>1 DEF Metrics
    <3>3. QED
      BY <2>1, <3>1, <3>2 DEF LastShard
  <2>2. CASE ~LastShard(w) /\ sink' = m /\ job' = [job EXCEPT !.metrics = m] /\ run' = run
    BY <1>1, <2>2 DEF LastShard, Job
  <2>3. QED
    BY <1>3, <2>1, <2>2 DEF ShardSettled
<1>5. \A v \in Worker : v # w => (Resolved(v)' => Resolved(v))
  BY <1>1, <1>4 DEF Resolved
<1>6. QED
  BY <1>1, <1>2, <1>3, <1>4, <1>5 DEF counted

LEMMA StepKeepsSettled ==
  ASSUME IsInjective(NameOf), "callBreaks" \notin Faults, HonestInv, [Next]_vars
  PROVE  ResolvedIsSettled'
<1> SUFFICES ASSUME NEW v \in Worker, Resolved(v)', NEW e \in shard'[v]
             PROVE  RowOf(e)'.status \in SettledStatus
  BY DEF ResolvedIsSettled
<1>1. ASSUME Resolved(v), e \in shard[v]
      PROVE  RowOf(e)'.status \in SettledStatus
  <2>1. e \in Entry /\ NameOf[e] \in Name /\ file[NameOf[e]].status \in SettledStatus
    BY <1>1, HonestParts DEF HonestInv, ResolvedIsSettled, RowOf
  <2>2. QED
    BY <2>1, SettledStays DEF RowOf
<1>2. CASE Calm
  <2>1. shard[v] = {} \/ Resolved(v)
    BY <1>2 DEF Calm, Resolved
  <2>2. QED
    BY <1>1, <1>2, <2>1 DEF Calm
<1>3. ASSUME NEW entries \in SUBSET Entry, NEW m \in Metrics, FanOut(entries, m),
             run \in {"readIndex", "recordStart"}
      PROVE  FALSE
  <2>1. shard[v] = {}
    BY <1>3, HonestParts
  <2>2. \/ UNCHANGED workerVars
        \/ run' = "fanOut" /\ job'.status = "running" /\ (v \notin pending' => shard'[v] = {})
    BY <1>3, Listing
  <2>3. QED
    BY <2>1, <2>2 DEF Resolved, workerVars
<1>4. ASSUME NEW w \in Worker, WorkerOnly(w) \/ ReportFileResult(w) \/ ReportLost(w)
      PROVE  RowOf(e)'.status \in SettledStatus
  <2>1. shard' = shard
    BY <1>4, WorkerFrame, HonestParts DEF ReportFileResult, ReportLost
  <2>2. Resolved(v)
    BY <1>4, ReportApplied DEF WorkerOnly, ReportLost, jobVars, durable, volatile, Resolved
  <2>3. QED
    BY <1>1, <2>1, <2>2
<1>5. ASSUME NEW w \in Worker, ApplyShardSummary(w) \/ FailShard(w)
      PROVE  RowOf(e)'.status \in SettledStatus
  <2>1. shard' = shard /\ (v # w => Resolved(v))
    BY <1>5, ShardResolved DEF workerVars
  <2>2. CASE v = w
    BY <1>5, <2>1, <2>2, ShardResolved
  <2>3. QED
    BY <1>1, <2>1, <2>2
<1>6. QED
  BY <1>2, <1>3, <1>4, <1>5, StepCases

-----------------------------------------------------------------------------
\* What was counted stays so while only a worker that is waited for moves.
LEMMA CountedStays ==
  ASSUME IsInjective(NameOf), HonestInv, NEW w \in pending, pending' = pending, shard' = shard,
         \A e \in Entry : e \notin shard[w] => stage'[e] = stage[e],
         \A v \in Worker : v # w => wphase'[v] = wphase[v]
  PROVE  Counted' = Counted
<1>1. /\ \A v \in Worker : v # w => shard[v] \intersect shard[w] = {}
      /\ shard \in [Worker -> SUBSET Entry] /\ w \in Worker
  BY HonestParts, QuietParts
<1>2. \A v \in Worker \ pending, e \in Entry :
        /\ v # w /\ wphase'[v] = wphase[v]
        /\ e \in Extracted(v)' <=> e \in Extracted(v)
  <2> SUFFICES ASSUME NEW v \in Worker \ pending, NEW e \in Entry
               PROVE  /\ v # w /\ wphase'[v] = wphase[v]
                      /\ e \in Extracted(v)' <=> e \in Extracted(v)
    OBVIOUS
  <2>1. v # w /\ wphase'[v] = wphase[v] /\ (e \in shard[v] => stage'[e] = stage[e])
    BY <1>1
  <2>2. QED
    BY <2>1 DEF Extracted
<1>3. QED
  BY <1>2 DEF Counted

LEMMA StepKeepsCounted ==
  ASSUME IsInjective(NameOf), "callBreaks" \notin Faults, HonestInv, [Next]_vars
  PROVE  ExtractedAreCounted'
<1>1. /\ run \in {"readIndex", "recordStart"} => sink.extracted = 0
      /\ run = "fanOut" => sink.extracted = Cardinality(Counted)
      /\ job.status = "completed" => job.metrics.extracted = Cardinality(Counted)
  BY DEF HonestInv, ExtractedAreCounted
<1>2. CASE Calm
  <2>1. pending' = pending => Counted' = Counted
    BY <1>2 DEF Calm, Counted, Extracted
  <2>2. QED
    BY <1>1, <1>2, <2>1 DEF Calm, ExtractedAreCounted
<1>3. ASSUME NEW entries \in SUBSET Entry, NEW m \in Metrics, FanOut(entries, m),
             m.extracted = 0, run \in {"readIndex", "recordStart"}
      PROVE  ExtractedAreCounted'
  <2>1. /\ \A w \in Worker : wphase'[w] \in {"idle", "called"}
        /\ run' \in {"finishing", "ended", "fanOut"}
        /\ run' = "fanOut" => sink'.extracted = 0
        /\ job'.status = "completed" => job'.metrics.extracted = 0
    BY <1>3, Listing
  <2>2. Counted' = {}
    BY <2>1 DEF Counted
  <2>3. Cardinality(Counted') = 0
    BY <2>2, FS_EmptySet
  <2>4. QED
    BY <2>1, <2>3 DEF ExtractedAreCounted
<1>4. ASSUME NEW w \in Worker, WorkerOnly(w) \/ ReportFileResult(w) \/ ReportLost(w)
      PROVE  ExtractedAreCounted'
  <2>1. job.status # "completed" /\ ~Resolved(w)
    <3>1. CASE WorkerOnly(w)
      <4>1. wphase[w] \in {"called", "running"}
        BY <3>1 DEF WorkerOnly, ExtractShard, ExtractEntryOk, ExtractEntryFails, ShardReturns,
           RuntimeFails, WorkerDies
      <4>2. ~Resolved(w)
        BY <4>1 DEF HonestInv, QuietInv, ResolvedIsQuiet
      <4>3. QED
        BY <4>2 DEF Resolved
    <3>2. CASE outbox[w] # <<>>
      BY <3>2, HonestParts
    <3>3. QED
      BY <1>4, <3>1, <3>2 DEF ReportFileResult, ReportLost, ReportAnswered
  <2>2. /\ run' = run /\ pending' = pending /\ job'.status = job.status
        /\ sink'.extracted = sink.extracted
    BY <1>4, ReportApplied DEF WorkerOnly, ReportLost, jobVars, durable, volatile
  <2>3. run = "fanOut" => Counted' = Counted
    <3>1. ASSUME run = "fanOut" PROVE w \in pending
      BY <2>1, <3>1 DEF Resolved
    <3>2. WorkerOnly(w) \/ ReportAnswered(w)
      BY <1>4 DEF ReportFileResult, ReportLost
    <3>3. QED
      BY <2>2, <3>1, <3>2, WorkerFrame, CountedStays, HonestParts
  <2>4. QED
    BY <1>1, <2>1, <2>2, <2>3 DEF ExtractedAreCounted
<1>5. ASSUME NEW w \in Worker, ApplyShardSummary(w) \/ FailShard(w)
      PROVE  ExtractedAreCounted'
  <2> DEFINE counted == IF ApplyShardSummary(w) THEN Cardinality(Extracted(w)) ELSE 0
  <2>1. /\ UNCHANGED workerVars /\ run = "fanOut" /\ w \in pending /\ pending' = pending \ {w}
        /\ \/ /\ pending = {w} /\ run' # "fanOut" /\ run' \notin {"readIndex", "recordStart"}
              /\ job'.metrics.extracted = sink.extracted + counted
           \/ /\ pending # {w} /\ run' = "fanOut" /\ job'.status = "running"
              /\ sink'.extracted = sink.extracted + counted
    BY <1>5, ShardResolved
  <2>2. wphase' = wphase /\ shard' = shard /\ stage' = stage
        /\ \A v \in Worker : Extracted(v)' = Extracted(v)
    BY <2>1 DEF workerVars, Extracted
  <2>3. Counted' = {e \in Entry : \E v \in (Worker \ pending) \union {w} :
                                    wphase[v] = "returned" /\ e \in Extracted(v)}
    BY <2>1, <2>2 DEF Counted
  <2>4. Cardinality(Counted') = Cardinality(Counted) + counted
    <3>1. CASE ApplyShardSummary(w)
      <4>1. wphase[w] = "returned" /\ counted = Cardinality(Extracted(w))
        BY <3>1 DEF ApplyShardSummary
      <4>2. Extracted(w) \subseteq Entry /\ Counted \subseteq Entry
        BY HonestParts DEF Extracted, Counted
      <4>3. Counted' = Counted \union Extracted(w)
        BY <2>3, <4>1, <4>2 DEF Counted
      <4>4. Counted \intersect Extracted(w) = {}
        <5>1. \A v \in Worker \ pending : shard[v] \intersect shard[w] = {}
          BY <2>1, HonestParts
        <5>2. QED
          BY <5>1 DEF Counted, Extracted
      <4>5. /\ IsFiniteSet(Counted) /\ IsFiniteSet(Extracted(w))
            /\ Cardinality(Counted) \in Nat /\ Cardinality(Extracted(w)) \in Nat
        BY <4>2, WorkerAssumption, FS_Subset, FS_CardinalityType
      <4>6. Cardinality(Counted \union Extracted(w)) =
              Cardinality(Counted) + Cardinality(Extracted(w)) - Cardinality({})
        BY <4>4, <4>5, FS_Union
      <4>7. Cardinality({}) = 0
        BY FS_EmptySet
      <4> HIDE DEF counted
      <4>8. QED
        BY <4>1, <4>3, <4>5, <4>6, <4>7
    <3>2. CASE ~ApplyShardSummary(w)
      <4>1. wphase[w] = "dead" /\ counted = 0
        BY <1>5, <3>2, ShardFailed
      <4>2. Counted' = Counted
        BY <2>3, <4>1 DEF Counted
      <4>3. Cardinality(Counted) \in Nat
        BY WorkerAssumption, FS_Subset, FS_CardinalityType DEF Counted
      <4>4. QED
        BY <4>1, <4>2, <4>3
    <3>3. QED
      BY <3>1, <3>2
  <2> HIDE DEF counted
  <2>5. QED
    BY <1>1, <2>1, <2>4 DEF ExtractedAreCounted
<1>6. QED
  BY <1>2, <1>3, <1>4, <1>5, StepCases

-----------------------------------------------------------------------------
LEMMA HonestAtFirst == ASSUME IsInjective(NameOf), Init PROVE HonestInv
<1>1. DoneInv /\ QuietInv
  BY DoneAtFirst, QuietAtFirst
<1>2. /\ \A n \in Name : file[n] = NoRow
      /\ \A w \in Worker : shard[w] = {} /\ wphase[w] = "idle"
      /\ job.status = "none" /\ job.total = 0 /\ run = "none"
  BY DEF Init, JobInit, InitVolatile, WorkerInit
<1>3. RowsAreOfEntries /\ FailedIsSaid
  <2>1. \A e \in Entry : RowOf(e) = NoRow
    BY <1>2, WorkerAssumption DEF RowOf
  <2>2. \A e \in Entry : RowOf(e).status # "failed"
    BY <2>1 DEF NoRow
  <2>3. QED
    BY <1>2, <2>2 DEF RowsAreOfEntries, FailedIsSaid
<1>4. SettledIsHeard /\ ResolvedIsSettled /\ ExtractedAreCounted
  BY <1>2 DEF SettledIsHeard, ResolvedIsSettled, ExtractedAreCounted
<1>5. ShardsAreListed
  <2>1. ListedNames = {} /\ Cardinality({}) = 0
    BY <1>2, FS_EmptySet DEF ListedNames
  <2>2. job.total = Cardinality(ListedNames)
    BY <1>2, <2>1
  <2>3. QED
    BY <1>2, <2>2, WorkerAssumption DEF ShardsAreListed, RowOf
<1>6. QED
  BY <1>1, <1>3, <1>4, <1>5 DEF HonestInv

LEMMA HonestStep ==
  ASSUME IsInjective(NameOf), "callBreaks" \notin Faults, "loseReport" \notin Faults,
         HonestInv, [Next]_vars
  PROVE  HonestInv'
<1>1. DoneInv /\ IInv /\ QuietInv /\ RowsAreOfEntries
  BY DEF HonestInv, DoneInv
<1>2. DoneInv' /\ QuietInv' /\ RowsAreOfEntries'
  BY <1>1, DoneStep, QuietStep, StepKeepsRows
<1>3. ShardsAreListed' /\ FailedIsSaid' /\ SettledIsHeard'
  BY StepKeepsListed, StepKeepsFailed, StepKeepsHeard
<1>4. ResolvedIsSettled' /\ ExtractedAreCounted'
  BY StepKeepsSettled, StepKeepsCounted
<1>5. QED
  BY <1>2, <1>3, <1>4 DEF HonestInv

(* What a completed job has: every listed row settled, and the done rows   *)
(* counted, but those whose worker died.                                   *)
LEMMA HonestAtTheEnd ==
  ASSUME IsInjective(NameOf), HonestInv, job.status = "completed"
  PROVE  CompletedIsHonest
<1> DEFINE counted == {NameOf[e] : e \in Counted}
<1>1. /\ pending = {} /\ \A w \in Worker : Resolved(w)
      /\ \A w \in Worker : wphase[w] \in {"idle", "returned", "dead"}
      /\ \A w \in Worker : wphase[w] = "idle" => shard[w] = {}
  BY HonestParts, QuietParts DEF Resolved, QuietInv, ResolvedIsQuiet, IInv, PoolInv, Untouched
<1>2. ASSUME NEW n \in Name, file[n] # NoRow
      PROVE  \E e \in Entry : /\ NameOf[e] = n /\ file[n] = RowOf(e)
                              /\ \E w \in Worker : e \in shard[w]
                              /\ RowOf(e).status \in SettledStatus
  <2>1. PICK e \in Entry : NameOf[e] = n
    BY <1>2 DEF HonestInv, RowsAreOfEntries
  <2>2. PICK w \in Worker : e \in shard[w]
    BY <1>2, <2>1 DEF HonestInv, ShardsAreListed, RowOf
  <2>3. RowOf(e).status \in SettledStatus
    BY <1>1, <2>2 DEF HonestInv, ResolvedIsSettled
  <2>4. QED
    BY <2>1, <2>2, <2>3 DEF RowOf
<1>3. Rows("done") \subseteq ListedNames /\ SettledRows = ListedNames
  BY <1>2 DEF SettledRows, Rows, ListedNames, SettledStatus, NoRow
<1>4. CompletedMeansSettled
  BY <1>3 DEF CompletedMeansSettled, HonestInv, ShardsAreListed
<1>5. counted \subseteq Rows("done")
  <2>1. ASSUME NEW e \in Counted PROVE NameOf[e] \in Rows("done")
    <3>1. PICK w \in Worker : wphase[w] = "returned" /\ e \in Extracted(w)
      BY <2>1 DEF Counted
    <3>2. e \in Entry /\ e \in shard[w] /\ stage[e] = "done"
      BY <2>1, <3>1 DEF Extracted, Counted, HonestInv, SettledIsHeard, SettledStatus
    <3>3. RowOf(e).status = "done"
      BY <3>1, <3>2 DEF HonestInv, SettledIsHeard, SettledStatus
    <3>4. QED
      BY <3>2, <3>3, HonestParts DEF Rows, RowOf
  <2>2. QED
    BY <2>1
<1>6. ASSUME \A w \in Worker : wphase[w] # "dead" PROVE Rows("done") \subseteq counted
  <2> SUFFICES ASSUME NEW n \in Name, file[n].status = "done" PROVE n \in counted
    BY DEF Rows
  <2>1. PICK e \in Entry, w \in Worker : NameOf[e] = n /\ e \in shard[w]
    BY <1>2 DEF NoRow
  <2>2. wphase[w] = "returned"
    BY <1>1, <1>6, <2>1
  <2>3. stage[e] \in {"reportingDone", "done"}
    BY <2>1 DEF HonestInv, DoneInv, DoneIsSaid, Said
  <2>4. stage[e] \in SettledStatus
    BY <2>1, <2>2 DEF HonestInv, SettledIsHeard
  <2>5. e \in Extracted(w)
    BY <2>1, <2>3, <2>4 DEF Extracted, SettledStatus
  <2>6. e \in Counted
    BY <1>1, <2>2, <2>5 DEF Counted
  <2>7. QED
    BY <2>1, <2>6
<1>7. /\ Cardinality(counted) = Cardinality(Counted) /\ Cardinality(counted) \in Nat
      /\ job.metrics.extracted = Cardinality(Counted)
  <2>1. Counted \in SUBSET Entry
    BY DEF Counted
  <2>2. QED
    BY <2>1, NamesCount DEF HonestInv, ExtractedAreCounted
<1>8. ExtractedIsHonest
  <2>1. Rows("done") \subseteq {NameOf[e] : e \in Entry}
    BY <1>2 DEF Rows, NoRow
  <2>2. IsFiniteSet(Rows("done"))
    BY <2>1, NamesCount, FS_Subset
  <2>3. Cardinality(counted) <= Cardinality(Rows("done"))
    BY <1>5, <2>2, FS_Subset
  <2>4. (\A w \in Worker : wphase[w] # "dead") => Cardinality(counted) = Cardinality(Rows("done"))
    BY <1>5, <1>6
  <2>5. QED
    BY <1>7, <2>3, <2>4 DEF ExtractedIsHonest
<1>9. QED
  BY <1>4, <1>8 DEF CompletedIsHonest

(* While the calls hold and no report is lost, a job is completed when it  *)
(* has settled what `total` says, and its files-extracted metric is the    *)
(* number of files a client can download: runJob (job.ts:360-433), the fan *)
(* out (492-530), reportFileResult and failShard, whatever crashes come.   *)
THEOREM CompletedStaysHonest ==
  ASSUME IsInjective(NameOf), "callBreaks" \notin Faults, "loseReport" \notin Faults
  PROVE  Spec => []CompletedIsHonest
<1>1. HonestInv => CompletedIsHonest
  BY HonestAtTheEnd DEF CompletedIsHonest, CompletedMeansSettled, ExtractedIsHonest
<1>2. QED
  BY <1>1, HonestAtFirst, HonestStep, PTL DEF Spec

-----------------------------------------------------------------------------
LEMMA RowsHaveType ==
  ASSUME HonestInv'
  PROVE  [n \in Name |-> file'[n].status] \in [Name -> {"none"} \union FileStatus]
<1>1. \A n \in Name : file'[n] \in Row \union {NoRow}
  BY DEF HonestInv, DoneInv, IInv, TypeOK, JobTypeOK
<1>2. \A n \in Name : file'[n].status \in {"none"} \union FileStatus
  BY <1>1 DEF Row, NoRow
<1>3. QED
  BY <1>2

(* The two kinds of step by which a job's rows move on.                    *)
LEMMA ReportMovesOn ==
  ASSUME IsInjective(NameOf), "callBreaks" \notin Faults, HonestInv, HonestInv',
         NEW w \in Worker, ReportFileResult(w)
  PROVE  Promise!Progress
<1> DEFINE h == Head(outbox[w])
           name == NameOf[h.entry]
<1>1. /\ file'[name].status = h.status /\ \A n \in Name : n # name => file'[n] = file[n]
      /\ job'.status = "running" /\ job.status = "running" /\ ReportAnswered(w)
  BY ReportApplied
<1>2. /\ name \in Name /\ file[name].status \in {"pending", "extracting"}
      /\ h.status \in ReportStatus
  BY <1>1, ReportedIsOpen, HonestParts DEF RowOf, Report
<1> HIDE DEF h, name
<1>3. Promise!Forward
  BY <1>1, <1>2 DEF Promise!Forward, Promise!Settled, ReportStatus
<1>4. Promise!Listed # {}
  BY <1>2 DEF Promise!Listed
<1>5. Promise!RowsTypeOK'
  BY RowsHaveType DEF Promise!RowsTypeOK, Promise!Settled, FileStatus
<1>6. QED
  BY <1>1, <1>3, <1>4, <1>5 DEF Promise!Progress

LEMMA ShardMovesOn ==
  ASSUME IsInjective(NameOf), "callBreaks" \notin Faults, HonestInv, HonestInv', [Next]_vars,
         NEW w \in Worker, ApplyShardSummary(w) \/ FailShard(w)
  PROVE  Promise!Progress
<1>1. /\ run = "fanOut" /\ job.status = "running" /\ w \in pending
      /\ job'.status \in {"running", "completed", "failed"}
      /\ job'.status # "running" => pending = {w}
  BY ShardResolved
<1>2. \A n \in Name : \/ file'[n] = file[n]
                      \/ /\ file[n].status \in {"pending", "extracting"}
                         /\ file'[n].status = "failed"
  BY ShardFailed DEF ApplyShardSummary
<1>3. Promise!Forward
  BY <1>2 DEF Promise!Forward, Promise!Settled
<1>4. Promise!Listed # {}
  <2>1. PICK n \in Name : file[n] # NoRow
    BY <1>1 DEF HonestInv, ShardsAreListed, ListedNames
  <2>2. file[n].status # "none"
    BY <2>1, HonestParts DEF Row, FileStatus
  <2>3. QED
    BY <2>2 DEF Promise!Listed
<1>5. Promise!RowsTypeOK'
  BY RowsHaveType DEF Promise!RowsTypeOK, Promise!Settled, FileStatus
<1>6. ASSUME pending = {w}, NEW n \in Name, file[n].status # "none"
      PROVE  file'[n].status \in SettledStatus
  <2>1. PICK e \in Entry : NameOf[e] = n /\ file[n] = RowOf(e) /\ RowOf(e) # NoRow
    BY <1>6 DEF HonestInv, RowsAreOfEntries, RowOf, NoRow
  <2>2. PICK v \in Worker : e \in shard[v]
    BY <2>1 DEF HonestInv, ShardsAreListed
  <2>3. CASE v = w
    <3>1. RowOf(e)'.status \in SettledStatus
      BY <2>2, <2>3, ShardResolved
    <3>2. QED
      BY <2>1, <3>1 DEF RowOf
  <2>4. CASE v # w
    <3>1. Resolved(v)
      BY <1>1, <1>6, <2>4 DEF Resolved
    <3>2. file[n].status \in SettledStatus
      BY <2>1, <2>2, <3>1 DEF HonestInv, ResolvedIsSettled
    <3>3. QED
      BY <3>2, SettledStays
  <2>5. QED
    BY <2>3, <2>4
<1>7. job'.status # "running" =>
        \A n \in Promise!Listed : file'[n].status \in SettledStatus
  BY <1>1, <1>6 DEF Promise!Listed
<1>8. QED
  BY <1>1, <1>3, <1>4, <1>5, <1>7 DEF Promise!Progress, Promise!Settled, SettledStatus,
     Promise!Listed

LEMMA ListingListsAll ==
  ASSUME IsInjective(NameOf), HonestInv, NEW entries \in SUBSET Entry, NEW m \in Metrics,
         FanOut(entries, m), run \in {"readIndex", "recordStart"}
  PROVE  Promise!List
<1>1. /\ \A n \in Name : file[n] = NoRow /\ NoRow.status = "none"
      /\ \A e \in Entry : NameOf[e] \in Name
      /\ job.status = "running"
  BY HonestParts, QuietParts DEF NoRow
<1>2. /\ \A n \in Name : \/ n \in {NameOf[e] : e \in entries} /\ file'[n].status = "pending"
                         \/ n \notin {NameOf[e] : e \in entries} /\ file'[n].status = "none"
      /\ \/ entries = {} /\ job'.status \in {"completed", "failed"}
         \/ entries # {} /\ job'.status = "running"
  BY Listing, <1>1
<1> DEFINE before == [n \in Name |-> file[n].status]
           after  == [n \in Name |-> file'[n].status]
<1>3. Promise!Listed = {}
  BY <1>1 DEF Promise!Listed
<1>4. after \in [Name -> {"none", "pending"}]
  BY <1>2
<1>5. entries = {} => after = before
  BY <1>1, <1>2
<1>6. entries # {} => after # before
  <2>1. SUFFICES ASSUME NEW e \in entries PROVE after # before
    OBVIOUS
  <2>2. after[NameOf[e]] = "pending" /\ before[NameOf[e]] = "none"
    BY <1>1, <1>2
  <2>3. QED
    BY <2>2
<1>7. QED
  BY <1>1, <1>2, <1>3, <1>4, <1>5, <1>6 DEF Promise!List

LEMMA StepKeepsPromise ==
  ASSUME IsInjective(NameOf), "callBreaks" \notin Faults, HonestInv, HonestInv', [Next]_vars
  PROVE  [Promise!Next]_(Promise!promiseVars)
<1> USE DEF Promise!Next, Promise!promiseVars
<1>1. CASE Calm
  <2>1. file' = file
    BY <1>1 DEF Calm
  <2>2. CASE job'.status = job.status
    BY <2>1, <2>2
  <2>3. CASE job.status = "none" /\ job'.status \in {"pending", "running"}
    BY <2>1, <2>3 DEF Promise!Begin
  <2>4. CASE run = "readIndex" /\ job.status = "running" /\ job'.status = "failed"
    <3>1. \A n \in Name : file[n].status = "none"
      BY <2>4, HonestParts DEF NoRow
    <3>2. QED
      BY <2>1, <2>4, <3>1 DEF Promise!Refuse, Promise!Listed
  <2>5. QED
    BY <1>1, <2>2, <2>3, <2>4 DEF Calm
<1>2. ASSUME NEW entries \in SUBSET Entry, NEW m \in Metrics, FanOut(entries, m),
             run \in {"readIndex", "recordStart"}
      PROVE  Promise!List
  BY <1>2, ListingListsAll
<1>3. ASSUME NEW w \in Worker, WorkerOnly(w) \/ ReportLost(w)
      PROVE  UNCHANGED Promise!promiseVars
  BY <1>3 DEF WorkerOnly, ReportLost, jobVars, durable
<1>4. ASSUME NEW w \in Worker, ReportFileResult(w) \/ ApplyShardSummary(w) \/ FailShard(w)
      PROVE  Promise!Progress
  BY <1>4, ReportMovesOn, ShardMovesOn
<1>5. QED
  BY <1>1, <1>2, <1>3, <1>4, StepCases

(* While the calls hold and no report is lost, the coordinator and its     *)
(* workers (runJob, fanOut, reportFileResult, failShard in job.ts, the     *)
(* loops of extractShard) implement the promise made to the client: files  *)
(* move forward one way, and the job ends in the instant the last settles. *)
THEOREM JobKeepsPromise ==
  ASSUME IsInjective(NameOf), "callBreaks" \notin Faults, "loseReport" \notin Faults
  PROVE  Spec => KeepsPromise
<1>1. Init => Promise!Init
  BY DEF Init, JobInit, NoRow, Promise!Init
<1>2. HonestInv /\ [Next]_vars => HonestInv' /\ [Promise!Next]_(Promise!promiseVars)
  BY HonestStep, StepKeepsPromise
<1>3. Init => HonestInv
  BY HonestAtFirst
<1>4. QED
  BY <1>1, <1>2, <1>3, PTL DEF Spec, KeepsPromise, Promise!Spec

=============================================================================
