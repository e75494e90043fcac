----------------------------- MODULE JobProofs -----------------------------
(***************************************************************************)
(* Theorems about the extraction job, for any number of entries, workers   *)
(* and loops, any page size and any of the failures: types, the pool of    *)
(* loops of every worker and the coordinator's part of the invariant, with *)
(* one lemma per action of module ExtractWorker and one per action of      *)
(* module ExtractJob.                                                      *)
(***************************************************************************)
EXTENDS JobInvariant, FunctionTheorems, FiniteSetTheorems, SequenceTheorems, TLAPS

(***************************************************************************)
(* The workers                                                             *)
(***************************************************************************)
WInv == WorkerTypeOK /\ PoolInv

LEMMA PoolSizeNat ==
  ASSUME NEW S \in SUBSET Entry
  PROVE  /\ IsFiniteSet(S)
         /\ PoolSize(S) \in Nat
         /\ PoolSize(S) <= WORKER_CONCURRENCY
<1>1. IsFiniteSet(S)
  BY FS_Subset, WorkerAssumption
<1>2. Cardinality(S) \in Nat
  BY <1>1, FS_CardinalityType
<1>3. QED
  BY <1>1, <1>2, WorkerAssumption DEF PoolSize

LEMMA InFlightFinite ==
  ASSUME WorkerTypeOK, NEW w \in Worker
  PROVE  /\ IsFiniteSet(InFlight(w))
         /\ Cardinality(InFlight(w)) \in Nat
<1>1. InFlight(w) \subseteq Entry
  BY DEF InFlight, WorkerTypeOK
<1>2. QED
  BY <1>1, FS_Subset, FS_CardinalityType, WorkerAssumption

LEMMA DispatchKeepsPool ==
  ASSUME WInv, NEW entries \in SUBSET Entry, NEW fleet \in SUBSET Worker,
         NEW assignment \in [entries -> fleet],
         \A w \in Worker : wphase[w] = "idle",
         Dispatch(entries, fleet, assignment)
  PROVE  WInv'
<1> USE DEF WInv, PoolInv
<1>1. WorkerTypeOK'
  BY DEF Dispatch, WorkerTypeOK, WPhase
<1>2. \A w \in Worker : shard[w] = {} /\ outbox[w] = <<>>
  BY DEF Untouched
<1>3. ShardsDisjoint'
  BY <1>2 DEF ShardsDisjoint, Dispatch, WorkerTypeOK
<1>4. \A e \in Entry : stage[e] = "idle"
  BY <1>2 DEF Untouched
<1>5. Untouched'
  BY <1>2, <1>4 DEF Untouched, Dispatch, WorkerTypeOK
<1>6. ReportsMatchStages'
  BY <1>2 DEF ReportsMatchStages, Dispatch
<1>7. CountsAreExact'
  BY DEF CountsAreExact, Dispatch, WorkerTypeOK
<1>8. QED
  BY <1>1, <1>3, <1>5, <1>6, <1>7

LEMMA ExtractShardKeepsPool ==
  ASSUME WInv, NEW w \in Worker, NEW byo \in BOOLEAN, ExtractShard(w, byo)
  PROVE  WInv'
<1> USE DEF WInv, PoolInv
<1> DEFINE k == PoolSize(shard[w])
<1>1. k \in Nat /\ shard[w] \subseteq Entry
  BY PoolSizeNat DEF WorkerTypeOK
<1> HIDE DEF k
<1>2. PICK first \in [1 .. k -> shard[w]] :
        /\ IsInjective(first)
        /\ stage' = [e \in Entry |-> CASE e \in Range(first) -> "announcing"
                                      [] e \in shard[w] \ Range(first) -> "queued"
                                      [] OTHER -> stage[e]]
        /\ outbox' = [outbox EXCEPT ![w] =
            [i \in 1 .. k |-> [entry |-> first[i], status |-> "extracting", inFlight |-> i]]]
  BY DEF ExtractShard, k
<1>3. /\ wphase[w] = "called" /\ outbox[w] = <<>>
      /\ \A e \in shard[w] : stage[e] = "idle"
  BY DEF Untouched, ExtractShard
<1>4. Range(first) \subseteq shard[w]
  BY <1>2 DEF Range
<1>5. [i \in 1 .. k |-> [entry |-> first[i], status |-> "extracting", inFlight |-> i]]
        \in Seq(Report)
  <2>1. ASSUME NEW i \in 1 .. k
        PROVE  [entry |-> first[i], status |-> "extracting", inFlight |-> i] \in Report
    <3>1. first[i] \in Entry
      BY <1>1, <1>2
    <3>2. i \in Nat
      BY <1>1
    <3>3. QED
      BY <3>1, <3>2 DEF Report, ReportStatus
  <2>2. QED
    BY <1>1, <2>1
<1>6. WorkerTypeOK'
  <2>1. stage' \in [Entry -> Stage]
    BY <1>2 DEF WorkerTypeOK, Stage, Active
  <2>2. outbox' \in [Worker -> Seq(Report)]
    BY <1>2, <1>5 DEF WorkerTypeOK
  <2>3. inFlight' \in [Worker -> Nat]
    BY <1>1 DEF WorkerTypeOK, ExtractShard, k
  <2>4. QED
    BY <2>1, <2>2, <2>3 DEF WorkerTypeOK, ExtractShard, WPhase
<1>7. ShardsDisjoint'
  BY DEF ShardsDisjoint, ExtractShard
<1>8. \A e \in Entry : e \notin shard[w] => stage'[e] = stage[e]
  BY <1>2, <1>4 DEF WorkerTypeOK
<1>9. Untouched'
  <2>1. \A v \in Worker : v # w => /\ wphase'[v] = wphase[v]
                                   /\ outbox'[v] = outbox[v]
                                   /\ \A e \in shard[v] : stage'[e] = stage[e]
    BY <1>2, <1>8 DEF ExtractShard, WorkerTypeOK, ShardsDisjoint
  <2>2. wphase'[w] = "running" /\ shard' = shard
    BY DEF ExtractShard, WorkerTypeOK
  <2>3. QED
    BY <2>1, <2>2, <1>8 DEF Untouched
<1>10. ReportsMatchStages'
  <2> SUFFICES ASSUME NEW v \in Worker, NEW i \in 1 .. Len(outbox'[v])
               PROVE  /\ outbox'[v][i].entry \in shard[v]
                      /\ stage'[outbox'[v][i].entry] = Announces(outbox'[v][i].status)
                      /\ \A j \in 1 .. Len(outbox'[v]) :
                           j # i => outbox'[v][j].entry # outbox'[v][i].entry
    BY DEF ReportsMatchStages, ExtractShard
  <2>1. CASE v = w
    <3>1. outbox'[v] = [n \in 1 .. k |->
                          [entry |-> first[n], status |-> "extracting", inFlight |-> n]]
      BY <1>2, <2>1 DEF WorkerTypeOK
    <3>2. Len(outbox'[v]) = k
      BY <3>1, <1>1, <1>5
    <3>3. ASSUME NEW j \in 1 .. k
          PROVE  outbox'[v][j].entry = first[j] /\ outbox'[v][j].status = "extracting"
      <4>1. outbox'[v][j] = [entry |-> first[j], status |-> "extracting", inFlight |-> j]
        BY <3>1
      <4>2. QED
        BY <4>1
    <3>4. stage'[first[i]] = "announcing"
      <4>1. first[i] \in Range(first) /\ first[i] \in Entry
        BY <1>1, <1>2, <3>2 DEF Range
      <4>2. QED
        BY <4>1, <1>2
    <3>5. \A j \in 1 .. k : j # i => first[j] # first[i]
      BY <1>2, <3>2 DEF IsInjective
    <3>6. \A j \in 1 .. k : j # i => outbox'[v][j].entry # outbox'[v][i].entry
      BY <3>2, <3>3, <3>5
    <3>7. outbox'[v][i].entry \in shard[v]
      BY <2>1, <1>2, <3>2, <3>3
    <3>8. stage'[outbox'[v][i].entry] = Announces(outbox'[v][i].status)
      BY <3>2, <3>3, <3>4 DEF Announces
    <3>9. QED
      BY <3>2, <3>6, <3>7, <3>8
  <2>2. CASE v # w
    <3>1. outbox'[v] = outbox[v]
      BY <1>2, <2>2 DEF WorkerTypeOK
    <3>2. outbox[v][i].entry \in shard[v]
      BY <3>1 DEF ReportsMatchStages
    <3>3. outbox[v][i].entry \in Entry /\ outbox[v][i].entry \notin shard[w]
      BY <2>2, <3>2 DEF ShardsDisjoint, WorkerTypeOK
    <3>4. QED
      BY <3>1, <3>3, <1>8 DEF ReportsMatchStages
  <2>3. QED
    BY <2>1, <2>2
<1>11. CountsAreExact'
  <2> SUFFICES ASSUME NEW v \in Worker, wphase'[v] = "running"
               PROVE  inFlight'[v] = Cardinality(InFlight(v)')
    BY DEF CountsAreExact
  <2>1. CASE v = w
    <3>1. InFlight(w)' = Range(first)
      BY <1>1, <1>2, <1>3, <1>4 DEF InFlight, Active, ExtractShard, WorkerTypeOK
    <3>2. first \in Bijection(1 .. k, Range(first))
      <4>1. first \in Injection(1 .. k, shard[w])
        BY <1>2 DEF IsInjective, Injection
      <4>2. QED
        BY <4>1, Fun_InjMeansBijImage
    <3>3. ExistsBijection(1 .. k, Range(first))
      BY <3>2 DEF ExistsBijection
    <3>4. Cardinality(Range(first)) = k
      BY <1>1, <3>3, FS_CountingElements
    <3>5. inFlight'[w] = k
      BY DEF ExtractShard, WorkerTypeOK, k
    <3>6. QED
      BY <2>1, <3>1, <3>4, <3>5
  <2>2. CASE v # w
    <3>1. InFlight(v)' = InFlight(v)
      BY <2>2, <1>8 DEF InFlight, ExtractShard, ShardsDisjoint, WorkerTypeOK
    <3>2. inFlight'[v] = inFlight[v] /\ wphase[v] = "running"
      BY <2>2 DEF ExtractShard, WorkerTypeOK
    <3>3. QED
      BY <3>1, <3>2 DEF CountsAreExact
  <2>3. QED
    BY <2>1, <2>2
<1>12. QED
  BY <1>6, <1>7, <1>9, <1>10, <1>11

LEMMA SendKeepsPool ==
  ASSUME WInv, NEW w \in Worker, NEW e \in shard[w], NEW status \in {"done", "failed"},
         wphase[w] = "running", stage[e] = "extracting",
         stage' = [stage EXCEPT ![e] = Announces(status)],
         Send(w, e, status),
         bucket' \subseteq Name,
         UNCHANGED <<wphase, shard, inFlight, creds>>
  PROVE  WInv'
<1> USE DEF WInv, PoolInv
<1> DEFINE r == [entry |-> e, status |-> status, inFlight |-> inFlight[w]]
<1>1. e \in Entry /\ r \in Report
  BY DEF WorkerTypeOK, Report, ReportStatus
<1>2. Announces(status) \in {"reportingDone", "reportingFailed"}
  BY DEF Announces
<1>3. /\ outbox' = [outbox EXCEPT ![w] = Append(outbox[w], r)]
      /\ outbox[w] \in Seq(Report)
  BY DEF Send, WorkerTypeOK
<1> HIDE DEF r
<1>4. /\ Append(outbox[w], r) \in Seq(Report)
      /\ Len(Append(outbox[w], r)) = Len(outbox[w]) + 1
      /\ \A i \in 1 .. Len(outbox[w]) : Append(outbox[w], r)[i] = outbox[w][i]
      /\ Append(outbox[w], r)[Len(outbox[w]) + 1] = r
      /\ Len(outbox[w]) \in Nat
  BY <1>1, <1>3
<1>5. WorkerTypeOK'
  <2>1. stage' \in [Entry -> Stage]
    BY <1>1, <1>2 DEF WorkerTypeOK, Stage, Active
  <2>2. outbox' \in [Worker -> Seq(Report)]
    BY <1>3, <1>4 DEF WorkerTypeOK
  <2>3. QED
    BY <2>1, <2>2 DEF WorkerTypeOK
<1>6. ShardsDisjoint'
  BY DEF ShardsDisjoint
<1>7. \A d \in Entry : d # e => stage'[d] = stage[d]
  BY DEF WorkerTypeOK
<1>8. \A v \in Worker : v # w => outbox'[v] = outbox[v] /\ e \notin shard[v]
  BY <1>1, <1>3 DEF WorkerTypeOK, ShardsDisjoint
<1>9. Untouched'
  BY <1>1, <1>7, <1>8 DEF Untouched, WorkerTypeOK
<1>10. ReportsMatchStages'
  <2>1. \A i \in 1 .. Len(outbox[w]) : outbox[w][i].entry # e
    <3> SUFFICES ASSUME NEW i \in 1 .. Len(outbox[w]), outbox[w][i].entry = e
                 PROVE  FALSE
      OBVIOUS
    <3>1. outbox[w][i] \in Report
      BY <1>3
    <3>2. stage[e] = Announces(outbox[w][i].status)
      BY DEF ReportsMatchStages
    <3>3. QED
      BY <3>1, <3>2 DEF Announces, Report, ReportStatus
  <2>2. r.entry = e /\ r.status = status
    BY DEF r
  <2> SUFFICES ASSUME NEW v \in Worker, NEW i \in 1 .. Len(outbox'[v])
               PROVE  /\ outbox'[v][i].entry \in shard[v]
                      /\ stage'[outbox'[v][i].entry] = Announces(outbox'[v][i].status)
                      /\ \A j \in 1 .. Len(outbox'[v]) :
                           j # i => outbox'[v][j].entry # outbox'[v][i].entry
    BY DEF ReportsMatchStages
  <2>3. CASE v # w
    BY <2>3, <1>7, <1>8 DEF ReportsMatchStages, WorkerTypeOK
  <2>4. CASE v = w
    <3>1. outbox'[v] = Append(outbox[w], r)
      BY <2>4, <1>3 DEF WorkerTypeOK
    <3>2. stage'[e] = Announces(status)
      BY <1>1 DEF WorkerTypeOK
    <3>3. ASSUME NEW j \in 1 .. Len(outbox[w])
          PROVE  /\ outbox[w][j].entry \in shard[w]
                 /\ outbox[w][j].entry # e
                 /\ stage'[outbox[w][j].entry] = Announces(outbox[w][j].status)
                 /\ \A m \in 1 .. Len(outbox[w]) :
                      m # j => outbox[w][m].entry # outbox[w][j].entry
      BY <2>1, <1>7 DEF ReportsMatchStages, WorkerTypeOK
    <3>4. \A j \in 1 .. Len(outbox'[v]) :
            \/ j \in 1 .. Len(outbox[w]) /\ outbox'[v][j] = outbox[w][j]
            \/ j = Len(outbox[w]) + 1 /\ outbox'[v][j] = r
      BY <3>1, <1>4
    <3>5. CASE i = Len(outbox[w]) + 1
      BY <2>2, <2>4, <3>2, <3>3, <3>4, <3>5, <1>4
    <3>6. CASE i \in 1 .. Len(outbox[w])
      <4>1. outbox'[v][i] = outbox[w][i]
        BY <3>4, <3>6, <1>4
      <4>2. \A j \in 1 .. Len(outbox'[v]) :
              j # i => outbox'[v][j].entry # outbox[w][i].entry
        BY <2>2, <3>3, <3>4, <3>6
      <4>3. QED
        BY <2>4, <3>3, <3>6, <4>1, <4>2
    <3>7. QED
      BY <3>4, <3>5, <3>6
  <2>5. QED
    BY <2>3, <2>4
<1>11. CountsAreExact'
  <2>1. \A v \in Worker : InFlight(v)' = InFlight(v)
    BY <1>1, <1>2, <1>7 DEF InFlight, Active, WorkerTypeOK
  <2>2. QED
    BY <2>1 DEF CountsAreExact
<1>12. QED
  BY <1>5, <1>6, <1>9, <1>10, <1>11

LEMMA MatchFrame ==
  ASSUME WInv, NEW w \in Worker, NEW s \in Seq(Report), shard' = shard,
         outbox' = [outbox EXCEPT ![w] = s],
         \A d \in Entry : d \notin shard[w] => stage'[d] = stage[d],
         \A i \in 1 .. Len(s) :
           /\ s[i].entry \in shard[w]
           /\ stage'[s[i].entry] = Announces(s[i].status)
           /\ \A j \in 1 .. Len(s) : j # i => s[j].entry # s[i].entry
  PROVE  ReportsMatchStages'
<1> USE DEF WInv, PoolInv
<1>1. outbox'[w] = s
  BY DEF WorkerTypeOK
<1>2. ASSUME NEW v \in Worker, v # w
      PROVE  /\ outbox'[v] = outbox[v]
             /\ \A d \in shard[v] : stage'[d] = stage[d]
  BY <1>2 DEF WorkerTypeOK, ShardsDisjoint
<1>3. QED
  BY <1>1, <1>2 DEF ReportsMatchStages

LEMMA UntouchedFrame ==
  ASSUME WInv, NEW w \in Worker, NEW s \in Seq(Report), shard' = shard, wphase' = wphase,
         wphase[w] \notin {"idle", "called"},
         outbox' = [outbox EXCEPT ![w] = s],
         \A d \in Entry : d \notin shard[w] => stage'[d] = stage[d]
  PROVE  /\ Untouched'
         /\ \A v \in Worker : v # w => InFlight(v)' = InFlight(v)
<1> USE DEF WInv, PoolInv
<1>1. ASSUME NEW v \in Worker, v # w
      PROVE  /\ outbox'[v] = outbox[v]
             /\ \A d \in shard[v] : stage'[d] = stage[d]
  BY <1>1 DEF WorkerTypeOK, ShardsDisjoint
<1>2. \A v \in Worker :
        /\ wphase'[v] = "idle" => shard'[v] = {}
        /\ wphase'[v] \in {"idle", "called"} =>
             outbox'[v] = <<>> /\ \A d \in shard'[v] : stage'[d] = "idle"
  BY <1>1 DEF Untouched
<1>3. ASSUME NEW d \in Entry, \A v \in Worker : d \notin shard[v]
      PROVE  stage'[d] = "idle"
  BY <1>3 DEF Untouched
<1>4. Untouched'
  BY <1>2, <1>3 DEF Untouched
<1>5. ASSUME NEW v \in Worker, v # w
      PROVE  InFlight(v)' = InFlight(v)
  BY <1>1, <1>5 DEF InFlight
<1>6. QED
  BY <1>4, <1>5

(* The head of a worker's outbox and what is left without it.              *)
LEMMA HeadOfOutbox ==
  ASSUME WInv, NEW w \in Worker, outbox[w] # <<>>
  PROVE  LET h == Head(outbox[w])
             t == Tail(outbox[w])
         IN  /\ h \in Report
             /\ h.entry \in shard[w]
             /\ stage[h.entry] = Announces(h.status)
             /\ t \in Seq(Report)
             /\ \A i \in 1 .. Len(t) :
                  /\ t[i].entry \in shard[w]
                  /\ t[i].entry # h.entry
                  /\ stage[t[i].entry] = Announces(t[i].status)
                  /\ \A j \in 1 .. Len(t) : j # i => t[j].entry # t[i].entry
<1> USE DEF WInv, PoolInv
<1> DEFINE q == outbox[w]
           h == Head(q)
           t == Tail(q)
<1>1. q \in Seq(Report) /\ q # <<>>
  BY DEF WorkerTypeOK
<1> HIDE DEF q
<1>2. /\ h \in Report /\ t \in Seq(Report)
      /\ Len(t) = Len(q) - 1
      /\ \A i \in 1 .. Len(t) : t[i] = q[i + 1]
      /\ h = q[1] /\ Len(q) \in Nat \ {0}
  BY <1>1, HeadTailProperties, EmptySeq
<1>3. \A i \in 1 .. Len(q) :
        /\ q[i].entry \in shard[w]
        /\ stage[q[i].entry] = Announces(q[i].status)
        /\ \A j \in 1 .. Len(q) : j # i => q[j].entry # q[i].entry
  BY DEF ReportsMatchStages, q
<1> HIDE DEF h, t
<1>4. ASSUME NEW i \in 1 .. Len(t)
      PROVE  /\ t[i].entry \in shard[w]
             /\ t[i].entry # h.entry
             /\ stage[t[i].entry] = Announces(t[i].status)
             /\ \A j \in 1 .. Len(t) : j # i => t[j].entry # t[i].entry
  <2>1. t[i] = q[i + 1] /\ i + 1 \in 1 .. Len(q) /\ i + 1 # 1 /\ 1 \in 1 .. Len(q)
    BY <1>2
  <2>2. \A j \in 1 .. Len(t) : j # i =>
          t[j] = q[j + 1] /\ j + 1 \in 1 .. Len(q) /\ j + 1 # i + 1
    BY <1>2
  <2>3. QED
    BY <1>2, <1>3, <2>1, <2>2
<1>5. h.entry \in shard[w] /\ stage[h.entry] = Announces(h.status)
  BY <1>2, <1>3
<1>6. QED
  BY <1>2, <1>4, <1>5 DEF h, t, q

LEMMA ReportAnsweredKeepsPool ==
  ASSUME WInv, NEW w \in Worker, ReportAnswered(w)
  PROVE  WInv'
<1> USE DEF WInv, PoolInv
<1> DEFINE h == Head(outbox[w])
           t == Tail(outbox[w])
           e == h.entry
<1>1. outbox[w] # <<>>
  BY DEF ReportAnswered
<1>2. /\ h \in Report
      /\ e \in shard[w] /\ e \in Entry
      /\ stage[e] = Announces(h.status)
      /\ t \in Seq(Report)
      /\ \A i \in 1 .. Len(t) :
           /\ t[i].entry \in shard[w]
           /\ t[i].entry # e
           /\ stage[t[i].entry] = Announces(t[i].status)
           /\ \A j \in 1 .. Len(t) : j # i => t[j].entry # t[i].entry
  BY <1>1, HeadOfOutbox DEF WorkerTypeOK
<1>3. UNCHANGED <<wphase, shard, creds, bucket>>
  BY DEF ReportAnswered
<1>4. h.status \in ReportStatus /\ stage[e] \in Active
  BY <1>2 DEF Report, ReportStatus, Announces, Active
<1> HIDE DEF h, t, e
<1>5. wphase[w] \in {"running", "dead"}
  BY DEF ReportAnswered
<1>6. ShardsDisjoint'
  BY <1>3 DEF ShardsDisjoint
<1>7. \A v \in Worker : v # w => shard[v] \intersect shard[w] = {}
  BY DEF ShardsDisjoint
<1>8. CASE wphase[w] = "dead" /\ outbox' = [outbox EXCEPT ![w] = t]
           /\ UNCHANGED <<stage, inFlight>>
  <2>1. WorkerTypeOK'
    BY <1>2, <1>3, <1>8 DEF WorkerTypeOK
  <2>2. ReportsMatchStages'
    BY <1>2, <1>3, <1>8, MatchFrame
  <2>3. Untouched'
    BY <1>3, <1>5, <1>8 DEF Untouched, WorkerTypeOK
  <2>4. CountsAreExact'
    <3>1. \A v \in Worker : InFlight(v)' = InFlight(v)
      BY <1>3, <1>8 DEF InFlight
    <3>2. QED
      BY <1>3, <1>8, <3>1 DEF CountsAreExact
  <2>5. QED
    BY <2>1, <2>2, <2>3, <2>4, <1>6
<1>9. CASE /\ wphase[w] = "running"
           /\ h.status = "extracting"
           /\ stage' = [stage EXCEPT ![e] = "extracting"]
           /\ outbox' = [outbox EXCEPT ![w] = t]
           /\ UNCHANGED inFlight
  <2>1. WorkerTypeOK'
    BY <1>2, <1>3, <1>9 DEF WorkerTypeOK, Stage, Active
  <2>2. \A d \in Entry : d # e => stage'[d] = stage[d]
    BY <1>9 DEF WorkerTypeOK
  <2>3. ReportsMatchStages'
    <3>1. \A d \in Entry : d \notin shard[w] => stage'[d] = stage[d]
      BY <1>2, <2>2
    <3>2. \A i \in 1 .. Len(t) : stage'[t[i].entry] = stage[t[i].entry]
      BY <1>2, <2>2 DEF WorkerTypeOK
    <3>3. QED
      BY <1>2, <1>3, <1>9, <3>1, <3>2, MatchFrame
  <2>4. Untouched'
    BY <1>2, <1>3, <1>5, <1>7, <1>9, <2>2 DEF Untouched, WorkerTypeOK
  <2>5. CountsAreExact'
    <3>1. \A v \in Worker : InFlight(v)' = InFlight(v)
      BY <1>2, <1>3, <1>4, <1>9, <2>2 DEF InFlight, Active, WorkerTypeOK
    <3>2. QED
      BY <1>3, <1>9, <3>1 DEF CountsAreExact
  <2>6. QED
    BY <2>1, <2>3, <2>4, <2>5, <1>6
<1>10. ASSUME wphase[w] = "running",
              h.status # "extracting",
              NEW next \in Queue(w),
              stage' = [stage EXCEPT ![e] = EntrySettled(e), ![next] = "announcing"],
              outbox' = [outbox EXCEPT ![w] =
                 Append(t, [entry |-> next, status |-> "extracting", inFlight |-> inFlight[w]])],
              UNCHANGED inFlight
       PROVE  WInv'
  <2> DEFINE r == [entry |-> next, status |-> "extracting", inFlight |-> inFlight[w]]
  <2>1. /\ next \in shard[w] /\ next \in Entry /\ stage[next] = "queued"
        /\ next # e
    BY <1>4, <1>10 DEF Queue, WorkerTypeOK, Active
  <2>2. r \in Report
    BY <2>1 DEF Report, ReportStatus, WorkerTypeOK
  <2>3. r.entry = next /\ r.status = "extracting"
    OBVIOUS
  <2>4. outbox' = [outbox EXCEPT ![w] = Append(t, r)]
    BY <1>10
  <2> HIDE DEF r
  <2>5. /\ Append(t, r) \in Seq(Report)
        /\ Len(Append(t, r)) = Len(t) + 1
        /\ \A i \in 1 .. Len(Append(t, r)) :
             \/ i \in 1 .. Len(t) /\ Append(t, r)[i] = t[i]
             \/ i = Len(t) + 1 /\ Append(t, r)[i] = r
        /\ Len(t) \in Nat
    BY <1>2, <2>2
  <2>6. EntrySettled(e) \in {"done", "failed"}
    BY DEF EntrySettled
  <2>7. /\ stage'[e] = EntrySettled(e) /\ stage'[next] = "announcing"
        /\ \A d \in Entry : d # e /\ d # next => stage'[d] = stage[d]
    BY <1>2, <1>10, <2>1 DEF WorkerTypeOK
  <2>8. WorkerTypeOK'
    <3>1. stage' \in [Entry -> Stage]
      BY <1>10, <2>6 DEF WorkerTypeOK, Stage, Active
    <3>2. outbox' \in [Worker -> Seq(Report)]
      BY <2>4, <2>5 DEF WorkerTypeOK
    <3>3. QED
      BY <1>3, <1>10, <3>1, <3>2 DEF WorkerTypeOK
  <2>9. ReportsMatchStages'
    <3>1. \A d \in Entry : d \notin shard[w] => stage'[d] = stage[d]
      BY <1>2, <2>1, <2>7
    <3>2. ASSUME NEW i \in 1 .. Len(t)
          PROVE  /\ t[i].entry # next
                 /\ stage'[t[i].entry] = stage[t[i].entry]
      <4>1. t[i] \in Report
        BY <1>2
      <4>2. t[i].entry # next
        BY <1>2, <2>1, <4>1 DEF Announces, Report, ReportStatus
      <4>3. QED
        BY <1>2, <2>7, <4>1, <4>2 DEF Report
    <3>3. ASSUME NEW i \in 1 .. Len(Append(t, r))
          PROVE  /\ Append(t, r)[i].entry \in shard[w]
                 /\ stage'[Append(t, r)[i].entry] = Announces(Append(t, r)[i].status)
                 /\ \A j \in 1 .. Len(Append(t, r)) :
                      j # i => Append(t, r)[j].entry # Append(t, r)[i].entry
      <4>1. CASE i = Len(t) + 1 /\ Append(t, r)[i] = r
        <5>1. stage'[r.entry] = Announces(r.status)
          BY <2>3, <2>7 DEF Announces
        <5>2. \A j \in 1 .. Len(Append(t, r)) : j # i => Append(t, r)[j].entry # r.entry
          BY <2>3, <2>5, <3>2, <4>1
        <5>3. QED
          BY <2>1, <2>3, <4>1, <5>1, <5>2
      <4>2. CASE i \in 1 .. Len(t) /\ Append(t, r)[i] = t[i]
        <5>1. \A j \in 1 .. Len(Append(t, r)) : j # i => Append(t, r)[j].entry # t[i].entry
          BY <1>2, <2>3, <2>5, <3>2, <4>2
        <5>2. QED
          BY <1>2, <3>2, <4>2, <5>1
      <4>3. QED
        BY <2>5, <4>1, <4>2
    <3>4. QED
      BY <1>3, <2>4, <2>5, <3>1, <3>3, MatchFrame
  <2>10. Untouched' /\ \A v \in Worker : v # w => InFlight(v)' = InFlight(v)
    <3>1. \A d \in Entry : d \notin shard[w] => stage'[d] = stage[d]
      BY <1>2, <2>1, <2>7
    <3>2. Append(t, r) \in Seq(Report) /\ wphase[w] \notin {"idle", "called"}
      BY <2>5, <1>10
    <3>3. QED
      BY <1>3, <2>4, <3>1, <3>2, UntouchedFrame
  <2>11. CountsAreExact'
    <3>1. InFlight(w)' = (InFlight(w) \ {e}) \union {next}
      BY <1>2, <1>3, <2>1, <2>6, <2>7 DEF InFlight, Active, WorkerTypeOK
    <3>2. e \in InFlight(w) /\ next \notin InFlight(w)
      BY <1>2, <1>4, <2>1 DEF InFlight, Active
    <3>3. Cardinality(InFlight(w)') = Cardinality(InFlight(w))
      <4>1. IsFiniteSet(InFlight(w)) /\ Cardinality(InFlight(w)) \in Nat
        BY InFlightFinite
      <4>2. /\ IsFiniteSet(InFlight(w) \ {e})
            /\ Cardinality(InFlight(w) \ {e}) = Cardinality(InFlight(w)) - 1
        BY <3>2, <4>1, FS_RemoveElement
      <4>3. Cardinality((InFlight(w) \ {e}) \union {next}) = Cardinality(InFlight(w) \ {e}) + 1
        BY <3>2, <4>2, FS_AddElement
      <4>4. QED
        BY <3>1, <4>1, <4>2, <4>3
    <3>4. QED
      BY <1>3, <1>10, <2>10, <3>3 DEF CountsAreExact
  <2>12. QED
    BY <2>8, <2>9, <2>10, <2>11, <1>6
<1>11. CASE /\ wphase[w] = "running"
            /\ h.status # "extracting"
            /\ Queue(w) = {}
            /\ stage' = [stage EXCEPT ![e] = EntrySettled(e)]
            /\ outbox' = [outbox EXCEPT ![w] = t]
            /\ inFlight' = [inFlight EXCEPT ![w] = @ - 1]
  <2>1. EntrySettled(e) \in {"done", "failed"}
    BY DEF EntrySettled
  <2>2. stage'[e] = EntrySettled(e) /\ \A d \in Entry : d # e => stage'[d] = stage[d]
    BY <1>2, <1>11 DEF WorkerTypeOK
  <2>3. /\ inFlight[w] = Cardinality(InFlight(w))
        /\ Cardinality(InFlight(w)') = inFlight[w] - 1
        /\ inFlight[w] \in Nat \ {0}
    <3>1. InFlight(w)' = InFlight(w) \ {e} /\ e \in InFlight(w)
      BY <1>2, <1>3, <1>4, <2>1, <2>2 DEF InFlight, Active, WorkerTypeOK
    <3>2. IsFiniteSet(InFlight(w)) /\ Cardinality(InFlight(w)) \in Nat
      BY InFlightFinite
    <3>3. inFlight[w] = Cardinality(InFlight(w))
      BY <1>11 DEF CountsAreExact
    <3>4. Cardinality(InFlight(w)') = Cardinality(InFlight(w)) - 1
      BY <3>1, <3>2, FS_RemoveElement
    <3>5. Cardinality(InFlight(w)) # 0
      BY <3>1, <3>2, FS_EmptySet
    <3>6. QED
      BY <3>2, <3>3, <3>4, <3>5
  <2>4. WorkerTypeOK'
    <3>1. stage' \in [Entry -> Stage]
      BY <1>11, <2>1 DEF WorkerTypeOK, Stage, Active
    <3>2. inFlight' \in [Worker -> Nat]
      BY <1>11, <2>3 DEF WorkerTypeOK
    <3>3. QED
      BY <1>2, <1>3, <1>11, <3>1, <3>2 DEF WorkerTypeOK
  <2>5. ReportsMatchStages'
    <3>1. \A d \in Entry : d \notin shard[w] => stage'[d] = stage[d]
      BY <1>2, <2>2
    <3>2. \A i \in 1 .. Len(t) : stage'[t[i].entry] = stage[t[i].entry]
      BY <1>2, <2>2 DEF WorkerTypeOK
    <3>3. QED
      BY <1>2, <1>3, <1>11, <3>1, <3>2, MatchFrame
  <2>6. Untouched' /\ \A v \in Worker : v # w => InFlight(v)' = InFlight(v)
    <3>1. \A d \in Entry : d \notin shard[w] => stage'[d] = stage[d]
      BY <1>2, <2>2
    <3>2. wphase[w] \notin {"idle", "called"}
      BY <1>11
    <3>3. QED
      BY <1>2, <1>3, <1>11, <3>1, <3>2, UntouchedFrame
  <2>7. CountsAreExact'
    <3>2. \A v \in Worker : inFlight'[v] = IF v = w THEN inFlight[w] - 1 ELSE inFlight[v]
      BY <1>11 DEF WorkerTypeOK
    <3>3. QED
      BY <1>3, <2>3, <2>6, <3>2 DEF CountsAreExact
  <2>8. QED
    BY <2>4, <2>5, <2>6, <2>7, <1>6
<1>12. QED
  BY <1>8, <1>9, <1>10, <1>11 DEF ReportAnswered, LoopGoesOn, Released, h, t, e

LEMMA ExtractEntryKeepsPool ==
  ASSUME WInv, NEW w \in Worker, NEW e \in Entry,
         ExtractEntryOk(w, e) \/ ExtractEntryFails(w, e)
  PROVE  WInv'
<1>1. bucket' \subseteq Name
  <2>1. NameOf[e] \in Name /\ bucket \subseteq Name
    BY WorkerAssumption DEF WInv, WorkerTypeOK
  <2>2. bucket' = bucket \/ bucket' = bucket \union {NameOf[e]}
    BY DEF ExtractEntryOk, ExtractEntryFails
  <2>3. QED
    BY <2>1, <2>2
<1>2. CASE ExtractEntryOk(w, e)
  BY <1>1, <1>2, SendKeepsPool DEF ExtractEntryOk, Announces
<1>3. CASE ExtractEntryFails(w, e)
  BY <1>1, <1>3, SendKeepsPool DEF ExtractEntryFails, Announces
<1>4. QED
  BY <1>2, <1>3

LEMMA ShardReturnsKeepsPool ==
  ASSUME WInv, NEW w \in Worker,
         ShardReturns(w) \/ RuntimeFails(w, job.destination = "byo") \/ WorkerDies(w)
  PROVE  WInv'
<1> USE DEF WInv, PoolInv, ShardReturns, RuntimeFails, WorkerDies
<1>1. WorkerTypeOK'
  BY DEF WorkerTypeOK, WPhase
<1>2. ShardsDisjoint' /\ ReportsMatchStages'
  BY DEF ShardsDisjoint, ReportsMatchStages
<1>3. \A v \in Worker : wphase'[v] = wphase[v] \/ wphase'[v] \in {"returned", "dead"}
  BY DEF WorkerTypeOK
<1>4. Untouched'
  BY <1>3 DEF Untouched
<1>5. CountsAreExact'
  <2>1. \A v \in Worker : InFlight(v)' = InFlight(v)
    BY DEF InFlight
  <2>2. QED
    BY <1>3, <2>1 DEF CountsAreExact
<1>6. QED
  BY <1>1, <1>2, <1>4, <1>5

LEMMA EvictedKeepsPool ==
  ASSUME WInv, LoopsBounded, NEW w \in Worker, WorkerEvicted(w)
  PROVE  WInv' /\ LoopsBounded'
<1>1. \A v \in Worker : InFlight(v)' = InFlight(v) /\ Queue(v)' = Queue(v)
  BY DEF WorkerEvicted, InFlight, Queue
<1>2. QED
  BY <1>1 DEF WorkerEvicted, WInv, WorkerTypeOK, PoolInv, ShardsDisjoint, Untouched,
              ReportsMatchStages, CountsAreExact, LoopsBounded

LEMMA BucketOnlyKeepsPool ==
  ASSUME WInv, bucket' \subseteq Name,
         UNCHANGED <<wphase, shard, stage, inFlight, outbox, creds>>
  PROVE  WInv'
<1>1. \A v \in Worker : InFlight(v)' = InFlight(v)
  BY DEF InFlight
<1>2. QED
  BY <1>1 DEF WInv, WorkerTypeOK, PoolInv, ShardsDisjoint, Untouched, ReportsMatchStages,
              CountsAreExact

-----------------------------------------------------------------------------
(* The counts of the loops: no worker counts, or reports, more than its    *)
(* pool, and none of its loops idles while its queue holds an entry.       *)

LEMMA ExtractShardKeepsBound ==
  ASSUME WInv, LoopsBounded, NEW w \in Worker, NEW byo \in BOOLEAN, ExtractShard(w, byo)
  PROVE  LoopsBounded'
<1> USE DEF WInv
<1> DEFINE k == PoolSize(shard[w])
<1>1. /\ k \in Nat /\ k <= WORKER_CONCURRENCY
      /\ shard[w] \subseteq Entry /\ IsFiniteSet(shard[w])
  BY PoolSizeNat DEF WorkerTypeOK
<1>2. k # WORKER_CONCURRENCY => k = Cardinality(shard[w])
  BY DEF PoolSize
<1> HIDE DEF k
<1>3. PICK first \in [1 .. k -> shard[w]] :
        /\ IsInjective(first)
        /\ stage' = [e \in Entry |-> CASE e \in Range(first) -> "announcing"
                                      [] e \in shard[w] \ Range(first) -> "queued"
                                      [] OTHER -> stage[e]]
        /\ outbox' = [outbox EXCEPT ![w] =
            [i \in 1 .. k |-> [entry |-> first[i], status |-> "extracting", inFlight |-> i]]]
  BY DEF ExtractShard, k
<1>4. Range(first) \subseteq shard[w]
  BY <1>3 DEF Range
<1>5. inFlight' = [inFlight EXCEPT ![w] = k] /\ shard' = shard
  BY DEF ExtractShard, k
<1>6. Queue(w)' = shard[w] \ Range(first)
  BY <1>1, <1>3, <1>4, <1>5 DEF Queue, WorkerTypeOK
<1>7. Queue(w)' # {} => k = WORKER_CONCURRENCY
  <2> SUFFICES ASSUME k = Cardinality(shard[w]) PROVE Range(first) = shard[w]
    BY <1>2, <1>6
  <2>1. first \in Injection(1 .. k, shard[w])
    BY <1>3 DEF IsInjective, Injection
  <2>2. first \in Bijection(1 .. k, Range(first))
    BY <2>1, Fun_InjMeansBijImage
  <2>3. ExistsBijection(1 .. k, Range(first))
    BY <2>2 DEF ExistsBijection
  <2>4. Cardinality(Range(first)) = Cardinality(shard[w])
    BY <1>1, <2>3, FS_CountingElements
  <2>5. QED
    BY <1>1, <1>4, <2>4, FS_Subset
<1>8. ASSUME NEW v \in Worker, v # w
      PROVE  Queue(v)' = Queue(v) /\ outbox'[v] = outbox[v]
             /\ wphase'[v] = wphase[v] /\ inFlight'[v] = inFlight[v]
  <2>1. \A e \in shard[v] : stage'[e] = stage[e]
    BY <1>3, <1>4, <1>8 DEF WorkerTypeOK, PoolInv, ShardsDisjoint
  <2>2. Queue(v)' = Queue(v)
    BY <2>1, <1>5 DEF Queue
  <2>3. QED
    BY <2>2, <1>3, <1>5, <1>8 DEF ExtractShard, WorkerTypeOK
<1>9. outbox'[w] = [i \in 1 .. k |-> [entry |-> first[i], status |-> "extracting", inFlight |-> i]]
  BY <1>3 DEF WorkerTypeOK
<1>10. \A i \in 1 .. Len(outbox'[w]) : outbox'[w][i].inFlight <= WORKER_CONCURRENCY
  <2>1. Len(outbox'[w]) = k
    BY <1>1, <1>9
  <2>2. \A i \in 1 .. k : outbox'[w][i].inFlight = i
    BY <1>9
  <2>3. QED
    BY <1>1, <2>1, <2>2, WorkerAssumption
<1>11. inFlight'[w] = k
  BY <1>5 DEF WorkerTypeOK
<1>12. QED
  BY <1>1, <1>7, <1>8, <1>10, <1>11 DEF LoopsBounded

LEMMA SendKeepsBound ==
  ASSUME WInv, LoopsBounded, NEW w \in Worker, NEW e \in shard[w], NEW status \in {"done", "failed"},
         wphase[w] = "running", stage[e] = "extracting",
         stage' = [stage EXCEPT ![e] = Announces(status)],
         Send(w, e, status),
         UNCHANGED <<wphase, shard, inFlight>>
  PROVE  LoopsBounded'
<1> USE DEF WInv
<1> DEFINE r == [entry |-> e, status |-> status, inFlight |-> inFlight[w]]
<1>1. /\ outbox' = [outbox EXCEPT ![w] = Append(outbox[w], r)]
      /\ outbox[w] \in Seq(Report) /\ e \in Entry
  BY DEF Send, WorkerTypeOK
<1>2. r.inFlight <= WORKER_CONCURRENCY
  BY DEF LoopsBounded
<1> HIDE DEF r
<1>3. \A i \in 1 .. Len(Append(outbox[w], r)) :
        Append(outbox[w], r)[i].inFlight <= WORKER_CONCURRENCY
  <2>1. \A i \in 1 .. Len(Append(outbox[w], r)) :
          \/ i \in 1 .. Len(outbox[w]) /\ Append(outbox[w], r)[i] = outbox[w][i]
          \/ Append(outbox[w], r)[i] = r
    BY <1>1
  <2>2. QED
    BY <1>2, <2>1 DEF LoopsBounded
<1>4. \A v \in Worker : Queue(v)' = Queue(v)
  <2>1. Announces(status) # "queued"
    BY DEF Announces
  <2>2. \A d \in Entry : stage'[d] = "queued" <=> stage[d] = "queued"
    BY <1>1, <2>1 DEF WorkerTypeOK
  <2>3. QED
    BY <2>2 DEF Queue, WorkerTypeOK
<1>5. \A v \in Worker : outbox'[v] = IF v = w THEN Append(outbox[w], r) ELSE outbox[v]
  BY <1>1 DEF WorkerTypeOK
<1>6. QED
  BY <1>3, <1>4, <1>5 DEF LoopsBounded

LEMMA ReportAnsweredKeepsBound ==
  ASSUME WInv, LoopsBounded, NEW w \in Worker, ReportAnswered(w)
  PROVE  LoopsBounded'
<1> USE DEF WInv
<1> DEFINE h == Head(outbox[w])
           t == Tail(outbox[w])
           e == h.entry
<1>1. outbox[w] # <<>> /\ outbox[w] \in Seq(Report)
  BY DEF ReportAnswered, WorkerTypeOK
<1>2. /\ e \in shard[w] /\ e \in Entry
      /\ stage[e] \in Active
      /\ t \in Seq(Report)
  BY <1>1, HeadOfOutbox DEF WorkerTypeOK, Report, ReportStatus, Announces, Active
<1>3. \A i \in 1 .. Len(t) : t[i].inFlight <= WORKER_CONCURRENCY
  <2>1. Len(t) = Len(outbox[w]) - 1 /\ \A i \in 1 .. Len(t) : t[i] = outbox[w][i + 1]
    BY <1>1, HeadTailProperties, EmptySeq
  <2>2. QED
    BY <1>1, <2>1 DEF LoopsBounded
<1> HIDE DEF h, t, e
<1>4. UNCHANGED <<wphase, shard>>
  BY DEF ReportAnswered
<1>5. \A v \in Worker : v # w => shard[v] \intersect shard[w] = {}
  BY DEF PoolInv, ShardsDisjoint
<1>6. EntrySettled(e) # "queued"
  BY DEF EntrySettled
<1>7. CASE /\ outbox' = [outbox EXCEPT ![w] = t] /\ UNCHANGED inFlight
           /\ stage' = stage \/ stage' = [stage EXCEPT ![e] = "extracting"]
  <2>1. \A d \in Entry : stage'[d] = "queued" <=> stage[d] = "queued"
    BY <1>2, <1>7 DEF WorkerTypeOK, Active
  <2>2. \A v \in Worker : Queue(v)' = Queue(v)
    BY <1>4, <2>1 DEF Queue, WorkerTypeOK
  <2>3. \A v \in Worker : outbox'[v] = IF v = w THEN t ELSE outbox[v]
    BY <1>7 DEF WorkerTypeOK
  <2>4. QED
    BY <1>3, <1>4, <1>7, <2>2, <2>3 DEF LoopsBounded
<1>8. ASSUME NEW next \in Queue(w), wphase[w] = "running", UNCHANGED inFlight,
             stage' = [stage EXCEPT ![e] = EntrySettled(e), ![next] = "announcing"],
             outbox' = [outbox EXCEPT ![w] =
               Append(t, [entry |-> next, status |-> "extracting", inFlight |-> inFlight[w]])]
      PROVE  LoopsBounded'
  <2> DEFINE r == [entry |-> next, status |-> "extracting", inFlight |-> inFlight[w]]
  <2>1. next \in Entry /\ inFlight[w] = WORKER_CONCURRENCY
    BY <1>8 DEF Queue, LoopsBounded, WorkerTypeOK
  <2>2. r.inFlight <= WORKER_CONCURRENCY
    BY <2>1, WorkerAssumption
  <2>3. outbox' = [outbox EXCEPT ![w] = Append(t, r)]
    BY <1>8
  <2> HIDE DEF r
  <2>4. \A i \in 1 .. Len(Append(t, r)) : Append(t, r)[i].inFlight <= WORKER_CONCURRENCY
    <3>1. \A i \in 1 .. Len(Append(t, r)) :
            \/ i \in 1 .. Len(t) /\ Append(t, r)[i] = t[i]
            \/ Append(t, r)[i] = r
      BY <1>2
    <3>2. QED
      BY <1>3, <2>2, <3>1
  <2>5. \A d \in Entry : stage'[d] = "queued" => stage[d] = "queued"
    BY <1>2, <1>6, <1>8, <2>1 DEF WorkerTypeOK
  <2>6. \A v \in Worker : Queue(v)' \subseteq Queue(v)
    BY <1>4, <2>5 DEF Queue, WorkerTypeOK
  <2>7. \A v \in Worker : outbox'[v] = IF v = w THEN Append(t, r) ELSE outbox[v]
    BY <2>3 DEF WorkerTypeOK
  <2>8. QED
    BY <1>4, <1>8, <2>4, <2>6, <2>7 DEF LoopsBounded
<1>9. CASE /\ Queue(w) = {} /\ stage' = [stage EXCEPT ![e] = EntrySettled(e)]
           /\ outbox' = [outbox EXCEPT ![w] = t]
           /\ inFlight' = [inFlight EXCEPT ![w] = @ - 1]
  <2>1. \A d \in Entry : stage'[d] = "queued" => stage[d] = "queued"
    BY <1>2, <1>6, <1>9 DEF WorkerTypeOK
  <2>2. \A v \in Worker : Queue(v)' \subseteq Queue(v)
    BY <1>4, <2>1 DEF Queue, WorkerTypeOK
  <2>3. \A v \in Worker : outbox'[v] = IF v = w THEN t ELSE outbox[v]
    BY <1>9 DEF WorkerTypeOK
  <2>4. \A v \in Worker : inFlight'[v] = IF v = w THEN inFlight[w] - 1 ELSE inFlight[v]
    BY <1>9 DEF WorkerTypeOK
  <2>5. inFlight[w] - 1 <= WORKER_CONCURRENCY
    BY WorkerAssumption DEF LoopsBounded, WorkerTypeOK
  <2>6. Queue(w)' = {}
    BY <1>9, <2>2
  <2>7. QED
    BY <1>3, <1>4, <2>2, <2>3, <2>4, <2>5, <2>6 DEF LoopsBounded
<1>10. QED
  BY <1>7, <1>8, <1>9 DEF ReportAnswered, LoopGoesOn, Released, h, t, e

LEMMA FrameKeepsBound ==
  ASSUME WInv, LoopsBounded, UNCHANGED <<stage, inFlight, outbox>>,
         \A v \in Worker : wphase'[v] = "running" => wphase[v] = "running" /\ shard'[v] = shard[v]
  PROVE  LoopsBounded'
<1>1. \A v \in Worker : wphase'[v] = "running" => Queue(v)' = Queue(v)
  BY DEF Queue
<1>2. QED
  BY <1>1 DEF LoopsBounded

-----------------------------------------------------------------------------
(***************************************************************************)
(* The coordinator                                                         *)
(***************************************************************************)
\* The coordinator's part of the invariant.
CInv ==
  /\ JobTypeOK
  /\ NothingListed
  /\ PeakBounded
  /\ RunIsLive
  /\ AlarmFollowsCompletion
  /\ CredentialsAreTransient
  /\ CompletedDemoIsScheduled

LEMMA Parts == IInv <=> WInv /\ LoopsBounded /\ CInv
  BY DEF IInv, WInv, CInv, TypeOK

-----------------------------------------------------------------------------
(* The counts the coordinator adds up stay within the fleet.               *)
LEMMA TotalWithinFleet ==
  ASSUME NEW counts \in [Worker -> Nat], \A w \in Worker : counts[w] <= WORKER_CONCURRENCY
  PROVE  /\ TotalInFlight(counts) \in Nat
         /\ TotalInFlight(counts) <= MAX_WORKERS * WORKER_CONCURRENCY
<1> DEFINE U == UNION {{w} \X (1 .. counts[w]) : w \in Worker}
           B == Worker \X (1 .. WORKER_CONCURRENCY)
<1>1. U \subseteq B
  BY WorkerAssumption
<1>2. /\ IsFiniteSet(Worker) /\ Cardinality(Worker) = MAX_WORKERS
      /\ IsFiniteSet(1 .. WORKER_CONCURRENCY)
      /\ Cardinality(1 .. WORKER_CONCURRENCY) = WORKER_CONCURRENCY
  BY WorkerAssumption, FS_Interval DEF Worker
<1>3. IsFiniteSet(B) /\ Cardinality(B) = MAX_WORKERS * WORKER_CONCURRENCY
  BY <1>2, FS_Product
<1> HIDE DEF U, B
<1>4. IsFiniteSet(U) /\ Cardinality(U) <= Cardinality(B) /\ Cardinality(U) \in Nat
  BY <1>1, <1>3, FS_Subset, FS_CardinalityType
<1>5. QED
  BY <1>3, <1>4 DEF U, TotalInFlight

(* The metrics a report leaves behind.                                     *)
LEMMA SeenMetrics ==
  ASSUME NEW counts \in [Worker -> Nat], \A w \in Worker : counts[w] <= WORKER_CONCURRENCY,
         NEW m \in Metrics, m.peak <= MAX_WORKERS * WORKER_CONCURRENCY
  PROVE  LET seen == [m EXCEPT !.peak = Larger(@, TotalInFlight(counts))]
         IN  seen \in Metrics /\ seen.peak <= MAX_WORKERS * WORKER_CONCURRENCY
<1>1. /\ TotalInFlight(counts) \in Nat
      /\ TotalInFlight(counts) <= MAX_WORKERS * WORKER_CONCURRENCY
  BY TotalWithinFleet
<1>2. m.peak \in Nat
  BY DEF Metrics
<1>3. /\ Larger(m.peak, TotalInFlight(counts)) \in Nat
      /\ Larger(m.peak, TotalInFlight(counts)) <= MAX_WORKERS * WORKER_CONCURRENCY
  BY <1>1, <1>2 DEF Larger
<1>4. QED
  BY <1>3 DEF Metrics

LEMMA ExtractedNat ==
  ASSUME WInv, NEW w \in Worker
  PROVE  Cardinality(Extracted(w)) \in Nat
<1>1. Extracted(w) \subseteq Entry
  BY DEF Extracted, WInv, WorkerTypeOK
<1>2. QED
  BY <1>1, FS_Subset, FS_CardinalityType, WorkerAssumption

LEMMA FleetWithinWorkers ==
  ASSUME NEW entries \in SUBSET Entry
  PROVE  LET fleet == 0 .. (FleetSize(Cardinality(entries)) - 1)
         IN  /\ fleet \subseteq Worker
             /\ Cardinality(fleet) \in Nat
             /\ Cardinality(entries) \in Nat
<1> DEFINE n == Cardinality(entries)
<1>1. n \in Nat
  BY FS_Subset, FS_CardinalityType, WorkerAssumption
<1> HIDE DEF n
<1>2. FleetSize(n) \in Int /\ FleetSize(n) <= MAX_WORKERS
  BY <1>1, WorkerAssumption, JobAssumption DEF FleetSize
<1>3. 0 .. (FleetSize(n) - 1) \subseteq Worker
  BY <1>2, WorkerAssumption DEF Worker
<1>4. IsFiniteSet(0 .. (FleetSize(n) - 1))
  BY <1>2, FS_Interval
<1>5. Cardinality(0 .. (FleetSize(n) - 1)) \in Nat
  BY <1>4, FS_CardinalityType
<1>6. QED
  BY <1>1, <1>3, <1>5 DEF n

-----------------------------------------------------------------------------
LEMMA InitHolds == Init => IInv
<1> SUFFICES ASSUME Init PROVE IInv
  OBVIOUS
<1> USE DEF Init, WorkerInit, JobInit, InitVolatile
<1>1. WorkerTypeOK
  BY WorkerAssumption DEF WorkerTypeOK, WPhase, Stage
<1>2. JobTypeOK
  <2>1. FreshMetrics \in Metrics
    BY DEF FreshMetrics, Metrics, Phase
  <2>2. job \in Job
    BY <2>1 DEF Job, Destination, JobStatus
  <2>3. QED
    BY <2>1, <2>2 DEF JobTypeOK, NoSweep
<1>3. PoolInv
  BY DEF PoolInv, ShardsDisjoint, Untouched, ReportsMatchStages, CountsAreExact
<1>4. LoopsBounded
  BY WorkerAssumption DEF LoopsBounded
<1>5. NothingListed /\ RunIsLive /\ AlarmFollowsCompletion
  BY DEF NothingListed, RunIsLive, AlarmFollowsCompletion, NoSweep
<1>6. 0 <= MAX_WORKERS * WORKER_CONCURRENCY
  BY WorkerAssumption
<1>7. PeakBounded
  BY <1>6, WorkerAssumption DEF PeakBounded, FreshMetrics
<1>8. CredentialsAreTransient /\ CompletedDemoIsScheduled
  BY DEF CredentialsAreTransient, CompletedDemoIsScheduled
<1>9. QED
  BY <1>1, <1>2, <1>3, <1>4, <1>5, <1>7, <1>8 DEF IInv, TypeOK

\* A step of worker w, seen from the credentials.
LEMMA CredentialsFrame ==
  ASSUME WInv, CredentialsAreTransient, NEW w \in Worker,
         job'.destination = job.destination, job'.status = job.status,
         UNCHANGED <<run, byoConfig, shard>>,
         \A e \in Entry : e \notin shard[w] => stage'[e] = stage[e],
         \A v \in Worker : v # w => wphase'[v] = wphase[v] /\ creds'[v] = creds[v],
         creds'[w] => /\ job.destination = "byo"
                      /\ \/ wphase'[w] = "running"
                         \/ wphase'[w] = "dead" /\ \A e \in shard[w] : stage'[e] = "idle"
  PROVE  CredentialsAreTransient'
<1>1. ASSUME NEW v \in Worker, v # w, NeverBegan(v)
      PROVE  NeverBegan(v)'
  <2>1. \A e \in shard[v] : e \in Entry /\ e \notin shard[w]
    BY <1>1 DEF WInv, WorkerTypeOK, PoolInv, ShardsDisjoint
  <2>2. QED
    BY <1>1, <2>1 DEF NeverBegan
<1>2. creds'[w] => wphase'[w] = "running" \/ NeverBegan(w)'
  BY DEF NeverBegan
<1>3. QED
  BY <1>1, <1>2 DEF CredentialsAreTransient

LEMMA AnswerKeepsCredentials ==
  ASSUME WInv, CredentialsAreTransient, NEW w \in Worker, ReportAnswered(w),
         job'.destination = job.destination, job'.status = job.status,
         UNCHANGED <<run, byoConfig>>
  PROVE  CredentialsAreTransient'
<1>1. UNCHANGED <<wphase, shard, creds>> /\ stage \in [Entry -> Stage]
  BY DEF ReportAnswered, WInv, WorkerTypeOK
<1>2. Head(outbox[w]).entry \in shard[w]
  BY HeadOfOutbox DEF ReportAnswered
<1>3. \A e \in Entry : e \notin shard[w] => stage'[e] = stage[e]
  BY <1>1, <1>2 DEF ReportAnswered, LoopGoesOn, Queue
<1>4. wphase[w] = "running" \/ stage' = stage
  BY DEF ReportAnswered
<1>5. creds[w] => /\ job.destination = "byo"
                  /\ \/ wphase[w] = "running"
                     \/ wphase[w] = "dead" /\ \A e \in shard[w] : stage[e] = "idle"
  BY DEF CredentialsAreTransient, NeverBegan
<1>6. QED
  BY <1>1, <1>3, <1>4, <1>5, CredentialsFrame

(* Steps of the workers alone.                                             *)
LEMMA WorkerOnlyKeeps ==
  ASSUME IInv, NEW w \in Worker, WorkerOnly(w)
  PROVE  IInv'
<1>1. WInv /\ LoopsBounded /\ CInv /\ job' = job
  BY Parts DEF WorkerOnly, jobVars, durable
<1>2. /\ job' = job /\ file' = file /\ alarm' = alarm /\ tries' = tries /\ run' = run
      /\ selected' = selected /\ code' = code /\ byoConfig' = byoConfig /\ pending' = pending
      /\ workerInFlight' = workerInFlight /\ sink' = sink /\ sweep' = sweep
  BY DEF WorkerOnly, jobVars, durable, volatile
<1>3. CredentialsAreTransient /\ wphase \in [Worker -> WPhase] /\ creds \in [Worker -> BOOLEAN]
  BY <1>1 DEF CInv, WInv, WorkerTypeOK
<1>4. WInv' /\ LoopsBounded' /\ CredentialsAreTransient' /\ wphase[w] \in {"called", "running"}
  <2>1. CASE ExtractShard(w, job.destination = "byo")
    <3>0. /\ shard' = shard /\ wphase'[w] = "running"
          /\ creds'[w] = (job.destination = "byo")
          /\ \A v \in Worker : v # w => wphase'[v] = wphase[v] /\ creds'[v] = creds[v]
          /\ \A e \in Entry : e \notin shard[w] => stage'[e] = stage[e]
      BY <1>3, <2>1 DEF ExtractShard, Range
    <3>1. CredentialsAreTransient'
      BY <1>1, <1>2, <1>3, <3>0, CredentialsFrame
    <3>2. QED
      BY <1>1, <2>1, <3>1, ExtractShardKeepsPool, ExtractShardKeepsBound DEF ExtractShard
  <2>2. CASE \E e \in Entry : ExtractEntryOk(w, e) \/ ExtractEntryFails(w, e)
    <3>1. PICK e \in Entry : ExtractEntryOk(w, e) \/ ExtractEntryFails(w, e)
      BY <2>2
    <3>2. WInv'
      BY <1>1, <3>1, ExtractEntryKeepsPool
    <3>3. LoopsBounded'
      BY <1>1, <3>1, SendKeepsBound DEF ExtractEntryOk, ExtractEntryFails, Announces
    <3>4. CredentialsAreTransient'
      <4>1. /\ UNCHANGED <<shard, wphase, creds>> /\ wphase[w] = "running"
            /\ \A d \in Entry : d \notin shard[w] => stage'[d] = stage[d]
        BY <1>1, <3>1 DEF ExtractEntryOk, ExtractEntryFails, WInv, WorkerTypeOK
      <4>2. creds[w] => job.destination = "byo"
        BY <1>3 DEF CredentialsAreTransient
      <4>3. QED
        BY <1>1, <1>2, <1>3, <4>1, <4>2, CredentialsFrame
    <3>5. QED
      BY <3>1, <3>2, <3>3, <3>4 DEF ExtractEntryOk, ExtractEntryFails
  <2>3. CASE ShardReturns(w) \/ RuntimeFails(w, job.destination = "byo") \/ WorkerDies(w)
    <3>1. \A v \in Worker : wphase'[v] = "running" => wphase[v] = "running"
      BY <1>3, <2>3 DEF ShardReturns, RuntimeFails, WorkerDies
    <3>2. LoopsBounded'
      BY <1>1, <2>3, <3>1, FrameKeepsBound DEF ShardReturns, RuntimeFails, WorkerDies
    <3>3. CredentialsAreTransient'
      <4>1. /\ UNCHANGED <<shard, stage>>
            /\ \A v \in Worker : v # w => wphase'[v] = wphase[v] /\ creds'[v] = creds[v]
        BY <1>3, <2>3 DEF ShardReturns, RuntimeFails, WorkerDies
      <4>2. creds'[w] => /\ job.destination = "byo" /\ wphase'[w] = "dead"
                         /\ \A e \in shard[w] : stage[e] = "idle"
        BY <1>1, <1>3, <2>3 DEF ShardReturns, RuntimeFails, WorkerDies, WInv, PoolInv, Untouched
      <4>3. QED
        BY <1>1, <1>2, <1>3, <4>1, <4>2, CredentialsFrame
    <3>4. QED
      BY <1>1, <2>3, <3>2, <3>3, ShardReturnsKeepsPool
         DEF ShardReturns, RuntimeFails, WorkerDies
  <2>4. QED
    BY <2>1, <2>2, <2>3 DEF WorkerOnly
<1>5. JobTypeOK' /\ PeakBounded' /\ RunIsLive' /\ AlarmFollowsCompletion' /\ CompletedDemoIsScheduled'
  BY <1>1, <1>2 DEF CInv, JobTypeOK, PeakBounded, RunIsLive, AlarmFollowsCompletion,
                    CompletedDemoIsScheduled
<1>6. NothingListed'
  <2>1. ~(job.status = "none" \/ run \in {"readIndex", "recordStart"})
    BY <1>1, <1>4 DEF CInv, NothingListed
  <2>2. QED
    BY <1>2, <2>1 DEF NothingListed
<1>7. QED
  BY <1>4, <1>5, <1>6 DEF IInv, TypeOK, CInv, WInv

(* Steps of the coordinator that leave the workers alone.                  *)
LEMMA WorkersUnchanged ==
  ASSUME WInv, LoopsBounded, UNCHANGED workerVars
  PROVE  WInv' /\ LoopsBounded'
<1>1. UNCHANGED <<wphase, shard, stage, inFlight, outbox, creds>> /\ bucket' = bucket
  BY DEF workerVars
<1>2. bucket' \subseteq Name
  BY <1>1 DEF WInv, WorkerTypeOK
<1>3. QED
  BY <1>1, <1>2, BucketOnlyKeepsPool, FrameKeepsBound

LEMMA WorkerForgetsKeeps ==
  ASSUME IInv, NEW w \in Worker, WorkerForgets(w)
  PROVE  IInv'
<1>1. WInv /\ LoopsBounded /\ CInv
  BY Parts
<1>2. /\ UNCHANGED <<wphase, shard, stage>> /\ creds' = [creds EXCEPT ![w] = FALSE]
      /\ UNCHANGED <<job, file, alarm, tries>>
      /\ UNCHANGED <<run, selected, code, byoConfig, pending, workerInFlight, sink, sweep>>
  BY DEF WorkerForgets, WorkerEvicted, jobVars, durable, volatile
<1>3. WInv' /\ LoopsBounded'
  BY <1>1, EvictedKeepsPool DEF WorkerForgets
<1>4. CredentialsAreTransient'
  <2>1. /\ \A v \in Worker : v # w => creds'[v] = creds[v]
        /\ ~creds'[w]
    BY <1>1, <1>2 DEF WInv, WorkerTypeOK
  <2>2. QED
    BY <1>1, <1>2, <2>1, CredentialsFrame DEF CInv
<1>5. CInv'
  BY <1>1, <1>2, <1>4 DEF CInv, JobTypeOK, NothingListed, PeakBounded, RunIsLive,
       AlarmFollowsCompletion, CompletedDemoIsScheduled
<1>6. QED
  BY <1>3, <1>5 DEF IInv, TypeOK, CInv, WInv

LEMMA FreshTyped ==
  ASSUME NEW m \in {FreshMetrics, [FreshMetrics EXCEPT !.phase = "reading-index"]}
  PROVE  m \in Metrics /\ m.peak = 0
<1>1. CASE m = FreshMetrics
  BY <1>1 DEF FreshMetrics, Metrics, Phase
<1>2. CASE m = [FreshMetrics EXCEPT !.phase = "reading-index"]
  BY <1>2 DEF FreshMetrics, Metrics, Phase
<1>3. QED
  BY <1>1, <1>2

LEMMA StartKeeps ==
  ASSUME IInv, NEW destination \in Destination, NEW hasCode \in BOOLEAN,
         Start(destination, hasCode) \/ StartsWithoutRuntime(destination)
  PROVE  IInv'
<1> USE DEF Start, StartsWithoutRuntime
<1>1. WInv /\ LoopsBounded /\ CInv
  BY Parts
<1>2. WInv' /\ LoopsBounded'
  BY <1>1, WorkersUnchanged
<1>3. /\ job.status = "none" /\ alarm = "unset" /\ run = "none" /\ pending = {}
      /\ \A w \in Worker : wphase[w] = "idle"
      /\ \A n \in Name : file[n] = NoRow
  BY <1>1 DEF CInv, NothingListed, RunIsLive, AlarmFollowsCompletion
<1>4. job' \in Job /\ job'.status \in {"pending", "running"}
      /\ job'.destination = destination /\ job'.metrics = job.metrics
      /\ (job'.status = "pending" \/ run' = "readIndex")
      /\ (run' \in {"readIndex", "ended"}) /\ (run' = "readIndex" => job'.status = "running")
      /\ byoConfig' = (destination = "byo")
  BY <1>1 DEF CInv, JobTypeOK, Job, JobStatus
<1>5. sink' \in Metrics /\ sink'.peak = 0
  <2>1. sink' \in {FreshMetrics, [FreshMetrics EXCEPT !.phase = "reading-index"]}
    OBVIOUS
  <2>2. QED
    BY <2>1, FreshTyped
<1>6. JobTypeOK'
  BY <1>1, <1>4, <1>5 DEF CInv, JobTypeOK, Destination
<1>7. NothingListed' /\ RunIsLive' /\ AlarmFollowsCompletion' /\ CompletedDemoIsScheduled'
  BY <1>1, <1>3, <1>4 DEF CInv, NothingListed, RunIsLive, AlarmFollowsCompletion,
       CompletedDemoIsScheduled, workerVars
<1>8. PeakBounded'
  <2>1. 0 <= MAX_WORKERS * WORKER_CONCURRENCY /\ 0 <= WORKER_CONCURRENCY
    BY WorkerAssumption
  <2>2. QED
    BY <1>1, <1>4, <1>5, <2>1 DEF CInv, PeakBounded
<1>9. CredentialsAreTransient'
  <2>1. \A w \in Worker : ~creds'[w]
    BY <1>1, <1>3 DEF CInv, CredentialsAreTransient, NeverBegan, workerVars
  <2>2. QED
    BY <1>4, <2>1 DEF CredentialsAreTransient, NeverBegan
<1>10. QED
  BY <1>2, <1>6, <1>7, <1>8, <1>9 DEF IInv, TypeOK, CInv, WInv

(* What Finish does: the run ends completed, or failed without an alarm.   *)
LEMMA FinishSets ==
  ASSUME NEW row \in Job, NEW m \in Metrics, Finish(row, m)
  PROVE  /\ job' \in Job /\ sink' \in Metrics
         /\ job'.destination = row.destination
         /\ job'.metrics = sink' /\ sink'.peak = m.peak
         /\ \/ /\ job'.status = "completed" /\ run' = "finishing"
               /\ alarm' = IF row.destination = "demo" THEN "set" ELSE alarm
            \/ /\ job'.status = "failed" /\ row.destination = "demo" /\ run' = "ended"
               /\ alarm' = alarm
<1>1. sink' = [m EXCEPT !.phase = "done"]
  BY DEF Finish, Complete, ScheduleRefused
<1>2. sink' \in Metrics /\ sink'.peak = m.peak
  BY <1>1 DEF Metrics, Phase
<1>3. CASE Complete(row, m)
  <2>1. job' = [row EXCEPT !.metrics = sink', !.status = "completed",
                           !.expires = IF row.destination = "demo" THEN "future" ELSE @]
    BY <1>3 DEF Complete
  <2>2. job' \in Job
    BY <1>2, <2>1 DEF Job, JobStatus
  <2>3. job'.status = "completed" /\ job'.destination = row.destination /\ job'.metrics = sink'
    BY <2>1 DEF Job
  <2> QED
    BY <1>2, <1>3, <2>2, <2>3 DEF Complete
<1>4. CASE ScheduleRefused(row, m)
  <2>1. job' = [row EXCEPT !.metrics = sink', !.status = "failed", !.error = TRUE,
                           !.expires = "future"]
    BY <1>4 DEF ScheduleRefused
  <2>2. job' \in Job
    BY <1>2, <2>1 DEF Job, JobStatus
  <2>3. job'.status = "failed" /\ job'.destination = row.destination /\ job'.metrics = sink'
    BY <2>1 DEF Job
  <2> QED
    BY <1>2, <1>4, <2>2, <2>3 DEF ScheduleRefused
<1> QED
  BY <1>3, <1>4 DEF Finish

(* The listing of the files and the calls to the fleet, whatever metrics   *)
(* the run has reached.                                                    *)
LEMMA FanOutKeeps ==
  ASSUME IInv, run \in {"readIndex", "recordStart"}, NEW entries \in SUBSET Entry,
         NEW m \in Metrics, m.peak <= MAX_WORKERS * WORKER_CONCURRENCY,
         FanOut(entries, m)
  PROVE  IInv'
<1>1. WInv /\ LoopsBounded /\ CInv
  BY Parts
<1>2. /\ job.status = "running" /\ alarm = "unset" /\ pending = {} /\ sweep.at = "off"
      /\ \A w \in Worker : wphase[w] = "idle"
  BY <1>1 DEF CInv, NothingListed, RunIsLive, AlarmFollowsCompletion
<1> DEFINE fleet == 0 .. (FleetSize(Cardinality(entries)) - 1)
           started == [m EXCEPT !.phase = "extracting", !.workers = Cardinality(fleet)]
           withRows == [job EXCEPT !.total = Cardinality(entries), !.metrics = started]
<1>3. /\ file' = [n \in Name |-> IF \E e \in entries : NameOf[e] = n
                     THEN [status |-> "pending", key |-> FALSE, error |-> FALSE] ELSE file[n]]
      /\ selected' = entries
      /\ UNCHANGED <<tries, code, byoConfig, workerInFlight, sweep>>
  BY DEF FanOut
<1>4. fleet \subseteq Worker /\ Cardinality(fleet) \in Nat /\ Cardinality(entries) \in Nat
  BY FleetWithinWorkers
<1>5. started \in Metrics /\ started.peak = m.peak
  BY <1>4 DEF Metrics, Phase
<1>6. withRows \in Job /\ withRows.status = "running" /\ withRows.destination = job.destination
      /\ withRows.metrics = started
  BY <1>1, <1>2, <1>4, <1>5 DEF CInv, JobTypeOK, Job
<1>7. /\ file' \in [Name -> Row \union {NoRow}]
      /\ selected' \subseteq Entry
      /\ tries' \in Nat /\ code' \in BOOLEAN /\ byoConfig' \in BOOLEAN
      /\ workerInFlight' \in [Worker -> Nat]
      /\ sweep' \in [at : {"off", "list", "delete"}, cursor : Nat, page : SUBSET Name,
                     more : BOOLEAN]
  BY <1>1, <1>3 DEF CInv, JobTypeOK, Row, FileStatus
<1>8. CASE /\ entries = {} /\ Finish(withRows, started)
           /\ UNCHANGED <<workerVars, pending>>
  <2> HIDE DEF fleet, started, withRows
  <2>1. /\ job' \in Job /\ sink' \in Metrics
        /\ job'.destination = job.destination
        /\ job'.metrics = sink' /\ sink'.peak = m.peak
        /\ \/ /\ job'.status = "completed" /\ run' = "finishing"
              /\ alarm' = IF job.destination = "demo" THEN "set" ELSE alarm
           \/ /\ job'.status = "failed" /\ job.destination = "demo" /\ run' = "ended"
              /\ alarm' = alarm
    BY <1>5, <1>6, <1>8, FinishSets
  <2>2. WInv' /\ LoopsBounded'
    BY <1>1, <1>8, WorkersUnchanged
  <2>3. JobTypeOK'
    BY <1>1, <1>2, <1>7, <1>8, <2>1 DEF CInv, JobTypeOK
  <2>4. NothingListed' /\ RunIsLive' /\ PeakBounded'
    BY <1>1, <1>2, <1>3, <1>8, <2>1 DEF CInv, NothingListed, RunIsLive, PeakBounded
  <2>5. AlarmFollowsCompletion' /\ CompletedDemoIsScheduled'
    BY <1>1, <1>2, <1>3, <2>1 DEF AlarmFollowsCompletion, CompletedDemoIsScheduled,
         CInv, JobTypeOK, Job, Destination
  <2>6. CredentialsAreTransient'
    BY <1>1, <1>2, <1>3, <1>8, <2>1 DEF CInv, CredentialsAreTransient, NeverBegan, workerVars
  <2>7. QED
    BY <2>2, <2>3, <2>4, <2>5, <2>6 DEF IInv, TypeOK, CInv, WInv
<1>9. CASE /\ \E assignment \in [entries -> fleet] : Dispatch(entries, fleet, assignment)
           /\ pending' = fleet /\ job' = withRows /\ sink' = started
           /\ run' = "fanOut" /\ UNCHANGED alarm
  <2>1. PICK assignment \in [entries -> fleet] : Dispatch(entries, fleet, assignment)
    BY <1>9
  <2> HIDE DEF fleet, started, withRows
  <2>2. WInv'
    BY <1>1, <1>2, <1>4, <2>1, DispatchKeepsPool
  <2>3. LoopsBounded'
    <3>1. \A v \in Worker : wphase'[v] # "running"
      BY <1>2, <2>1 DEF Dispatch
    <3>2. QED
      BY <1>1, <2>1, <3>1, FrameKeepsBound DEF Dispatch
  <2>4. JobTypeOK'
    BY <1>1, <1>2, <1>4, <1>5, <1>6, <1>7, <1>9 DEF CInv, JobTypeOK
  <2>5. NothingListed' /\ RunIsLive' /\ PeakBounded'
    BY <1>1, <1>3, <1>5, <1>6, <1>9 DEF CInv, NothingListed, RunIsLive, PeakBounded
  <2>6. AlarmFollowsCompletion' /\ CompletedDemoIsScheduled'
    BY <1>2, <1>3, <1>6, <1>9 DEF AlarmFollowsCompletion, CompletedDemoIsScheduled
  <2>7. CredentialsAreTransient'
    <3>1. creds' = creds
      BY <2>1 DEF Dispatch
    <3>2. QED
      BY <1>1, <1>2, <1>3, <1>6, <1>9, <3>1 DEF CInv, CredentialsAreTransient, NeverBegan
  <2>8. QED
    BY <2>2, <2>3, <2>4, <2>5, <2>6, <2>7 DEF IInv, TypeOK, CInv, WInv
<1>10. QED
  BY <1>8, <1>9 DEF FanOut

LEMMA ReadIndexKeeps ==
  ASSUME IInv,
         \/ \E entries \in SUBSET Entry : ReadIndexOk(entries)
         \/ \E sized \in BOOLEAN : ReadIndexFails(sized)
         \/ StartRecorded
  PROVE  IInv'
<1>1. WInv /\ LoopsBounded /\ CInv
  BY Parts
<1>2. sink \in Metrics /\ sink.peak <= MAX_WORKERS * WORKER_CONCURRENCY
  BY <1>1 DEF CInv, JobTypeOK, PeakBounded
<1>3. [sink EXCEPT !.archived = TRUE] \in Metrics /\ [sink EXCEPT !.archived = TRUE].peak = sink.peak
  BY <1>2 DEF Metrics
<1>4. ASSUME NEW entries \in SUBSET Entry, ReadIndexOk(entries)
      PROVE  IInv'
  <2>1. CASE /\ code
             /\ run' = "recordStart" /\ selected' = entries
             /\ sink' = [sink EXCEPT !.archived = TRUE]
             /\ UNCHANGED <<workerVars, durable, code, byoConfig, pending, workerInFlight, sweep>>
    <3>1. UNCHANGED workerVars /\ UNCHANGED <<job, file, alarm, tries>> /\ run = "readIndex"
      BY <1>4, <2>1 DEF durable, ReadIndexOk
    <3>2. WInv' /\ LoopsBounded'
      BY <1>1, <3>1, WorkersUnchanged
    <3>3. JobTypeOK' /\ NothingListed' /\ PeakBounded' /\ RunIsLive'
      BY <1>1, <1>2, <1>3, <2>1, <3>1 DEF CInv, JobTypeOK, NothingListed, PeakBounded, RunIsLive, workerVars
    <3>4. AlarmFollowsCompletion' /\ CompletedDemoIsScheduled' /\ CredentialsAreTransient'
      BY <1>1, <2>1, <3>1 DEF CInv, AlarmFollowsCompletion, CompletedDemoIsScheduled,
           CredentialsAreTransient, NeverBegan, workerVars
    <3>5. QED
      BY <3>2, <3>3, <3>4 DEF IInv, TypeOK, CInv, WInv
  <2>2. CASE run = "readIndex" /\ FanOut(entries, [sink EXCEPT !.archived = TRUE])
    BY <1>2, <1>3, <2>2, FanOutKeeps
  <2>3. QED
    BY <1>4, <2>1, <2>2 DEF ReadIndexOk
<1>5. ASSUME NEW sized \in BOOLEAN, ReadIndexFails(sized)
      PROVE  IInv'
  <2> DEFINE final == [sink EXCEPT !.phase = "done", !.archived = sized]
  <2>1. final \in Metrics /\ final.peak = sink.peak
    BY <1>2 DEF Metrics, Phase
  <2>2. /\ run = "readIndex" /\ run' = "ended" /\ sink' = final /\ byoConfig' = FALSE
        /\ job' = [job EXCEPT !.status = "failed", !.error = TRUE, !.metrics = final]
        /\ UNCHANGED workerVars
        /\ UNCHANGED <<file, alarm, tries, selected, code, pending, workerInFlight, sweep>>
    BY <1>5 DEF ReadIndexFails
  <2> HIDE DEF final
  <2>3. job' \in Job /\ job'.status = "failed" /\ job'.destination = job.destination
        /\ job'.metrics = final /\ job.status = "running"
    BY <1>1, <2>1, <2>2 DEF CInv, JobTypeOK, Job, JobStatus, RunIsLive
  <2>4. WInv' /\ LoopsBounded'
    BY <1>1, <2>2, WorkersUnchanged
  <2>5. JobTypeOK' /\ NothingListed' /\ PeakBounded' /\ RunIsLive'
    BY <1>1, <2>1, <2>2, <2>3 DEF CInv, JobTypeOK, NothingListed, PeakBounded, RunIsLive
  <2>6. AlarmFollowsCompletion' /\ CompletedDemoIsScheduled' /\ CredentialsAreTransient'
    BY <1>1, <2>2, <2>3 DEF CInv, AlarmFollowsCompletion, CompletedDemoIsScheduled,
         CredentialsAreTransient, NeverBegan, workerVars
  <2>7. QED
    BY <2>4, <2>5, <2>6 DEF IInv, TypeOK, CInv, WInv
<1>6. ASSUME StartRecorded PROVE IInv'
  BY <1>1, <1>2, <1>6, FanOutKeeps DEF StartRecorded, CInv, JobTypeOK
<1>7. QED
  BY <1>4, <1>5, <1>6

LEMMA ReportFileResultKeeps ==
  ASSUME IInv, NEW w \in Worker, ReportFileResult(w)
  PROVE  IInv'
<1>1. WInv /\ LoopsBounded /\ CInv
  BY Parts
<1> DEFINE report == Head(outbox[w])
           counts == [workerInFlight EXCEPT ![w] = report.inFlight]
           seen   == [sink EXCEPT !.peak = Larger(@, TotalInFlight(counts))]
<1>2. /\ ReportAnswered(w)
      /\ workerInFlight' = counts
      /\ sink' = seen
      /\ file' = [file EXCEPT ![NameOf[report.entry]] = Settle(@, report.status)]
      /\ job'  = [job EXCEPT !.metrics = seen]
      /\ UNCHANGED <<alarm, tries, run, selected, code, byoConfig, pending, sweep>>
      /\ UNCHANGED <<wphase, shard, creds, bucket>>
  BY DEF ReportFileResult, ReportAnswered
<1>3. WInv' /\ LoopsBounded'
  BY <1>1, <1>2, ReportAnsweredKeepsPool, ReportAnsweredKeepsBound
<1>4. outbox[w] \in Seq(Report) /\ outbox[w] # <<>> /\ wphase[w] \in {"running", "dead"}
  BY <1>1, <1>2 DEF ReportAnswered, WInv, WorkerTypeOK
<1>5. report \in Report /\ report.inFlight <= WORKER_CONCURRENCY
  <2>1. report = outbox[w][1] /\ 1 \in 1 .. Len(outbox[w]) /\ outbox[w][1] \in Report
    BY <1>4
  <2>2. QED
    BY <1>1, <2>1 DEF LoopsBounded
<1> HIDE DEF report
<1>6. counts \in [Worker -> Nat] /\ \A v \in Worker : counts[v] <= WORKER_CONCURRENCY
  BY <1>1, <1>5 DEF CInv, JobTypeOK, PeakBounded, Report
<1> HIDE DEF counts
<1>7. seen \in Metrics /\ seen.peak <= MAX_WORKERS * WORKER_CONCURRENCY
  BY <1>1, <1>6, SeenMetrics DEF CInv, JobTypeOK, PeakBounded
<1> HIDE DEF seen
<1>8. file' \in [Name -> Row \union {NoRow}]
  <2>1. NameOf[report.entry] \in Name /\ report.status \in ReportStatus
    BY <1>5, WorkerAssumption DEF Report
  <2>2. ASSUME NEW row \in Row \union {NoRow}
        PROVE  Settle(row, report.status) \in Row \union {NoRow}
    BY <2>1 DEF Settle, Row, NoRow, FileStatus, ReportStatus
  <2>3. QED
    BY <1>1, <1>2, <2>1, <2>2 DEF CInv, JobTypeOK
<1>9. job' \in Job /\ job'.status = job.status /\ job'.destination = job.destination
      /\ job'.expires = job.expires /\ job'.metrics = seen
  BY <1>1, <1>2, <1>7 DEF CInv, JobTypeOK, Job
<1>10. JobTypeOK'
  BY <1>1, <1>2, <1>6, <1>7, <1>8, <1>9 DEF CInv, JobTypeOK
<1>11. NothingListed'
  <2>1. ~(job.status = "none" \/ run \in {"readIndex", "recordStart"})
    BY <1>1, <1>4 DEF CInv, NothingListed
  <2>2. QED
    BY <1>2, <1>9, <2>1 DEF NothingListed
<1>12. PeakBounded' /\ RunIsLive' /\ AlarmFollowsCompletion' /\ CompletedDemoIsScheduled'
  BY <1>1, <1>2, <1>6, <1>7, <1>9 DEF CInv, PeakBounded, RunIsLive, AlarmFollowsCompletion,
       CompletedDemoIsScheduled
<1>13. CredentialsAreTransient'
  BY <1>1, <1>2, <1>9, AnswerKeepsCredentials DEF CInv
<1>14. QED
  BY <1>3, <1>10, <1>11, <1>12, <1>13 DEF IInv, TypeOK, CInv, WInv

LEMMA ReportLostKeeps ==
  ASSUME IInv, NEW w \in Worker, ReportLost(w)
  PROVE  IInv'
<1>1. WInv /\ LoopsBounded /\ CInv
  BY Parts
<1>2. ReportAnswered(w) /\ UNCHANGED <<wphase, shard, creds, bucket>>
      /\ UNCHANGED <<job, file, alarm, tries>>
      /\ UNCHANGED <<run, selected, code, byoConfig, pending, workerInFlight, sink, sweep>>
  BY DEF ReportLost, ReportAnswered, jobVars, durable, volatile
<1>3. WInv' /\ LoopsBounded'
  BY <1>1, <1>2, ReportAnsweredKeepsPool, ReportAnsweredKeepsBound
<1>4. CInv'
  <2>1. CredentialsAreTransient'
    BY <1>1, <1>2, AnswerKeepsCredentials DEF CInv
  <2>2. QED
    BY <1>1, <1>2, <2>1 DEF CInv, JobTypeOK, NothingListed, PeakBounded, RunIsLive,
         AlarmFollowsCompletion, CompletedDemoIsScheduled
<1>5. QED
  BY <1>3, <1>4 DEF IInv, TypeOK, CInv, WInv

(* A resolved shard, whatever metrics it brings.                           *)
LEMMA ShardSettledKeeps ==
  ASSUME IInv, NEW w \in pending, NEW m \in Metrics, m.peak <= MAX_WORKERS * WORKER_CONCURRENCY,
         file' \in [Name -> Row \union {NoRow}],
         ShardSettled(w, m)
  PROVE  IInv'
<1>1. WInv /\ LoopsBounded /\ CInv
  BY Parts
<1>2. /\ run = "fanOut" /\ job.status = "running" /\ alarm = "unset" /\ sweep.at = "off"
      /\ job \in Job /\ w \in Worker /\ workerInFlight \in [Worker -> Nat]
  BY <1>1 DEF CInv, RunIsLive, AlarmFollowsCompletion, JobTypeOK
<1>3. /\ pending' = pending \ {w}
      /\ workerInFlight' = [workerInFlight EXCEPT ![w] = 0]
      /\ UNCHANGED workerVars
      /\ UNCHANGED <<tries, selected, code, byoConfig, sweep>>
  BY DEF ShardSettled, Cleared
<1>4. WInv' /\ LoopsBounded'
  BY <1>1, <1>3, WorkersUnchanged
<1>5. /\ workerInFlight' \in [Worker -> Nat]
      /\ \A v \in Worker : workerInFlight'[v] <= WORKER_CONCURRENCY
  BY <1>1, <1>2, <1>3, WorkerAssumption DEF CInv, PeakBounded
<1>6. /\ job' \in Job /\ sink' \in Metrics /\ job'.destination = job.destination
      /\ job'.metrics = sink' /\ sink'.peak = m.peak
      /\ \/ /\ pending' = {} /\ run' = "finishing" /\ job'.status = "completed"
            /\ alarm' = IF job.destination = "demo" THEN "set" ELSE alarm
         \/ /\ pending' = {} /\ run' = "ended" /\ job'.status = "failed"
            /\ job.destination = "demo" /\ alarm' = alarm
         \/ run' = run /\ job'.status = "running" /\ alarm' = alarm
  <2>1. CASE LastShard(w) /\ Finish(job, m)
    <3>1. pending' = {}
      BY <1>3, <2>1 DEF LastShard
    <3>2. QED
      BY <1>2, <2>1, <3>1, FinishSets
  <2>2. CASE sink' = m /\ job' = [job EXCEPT !.metrics = m] /\ UNCHANGED <<alarm, run>>
    BY <1>2, <2>2 DEF Job
  <2>3. QED
    BY <2>1, <2>2 DEF ShardSettled
<1>7. JobTypeOK'
  BY <1>1, <1>2, <1>3, <1>5, <1>6 DEF CInv, JobTypeOK
<1>8. NothingListed' /\ PeakBounded' /\ RunIsLive'
  BY <1>1, <1>2, <1>3, <1>5, <1>6 DEF CInv, NothingListed, PeakBounded, RunIsLive
<1>9. AlarmFollowsCompletion' /\ CompletedDemoIsScheduled'
  BY <1>2, <1>3, <1>6 DEF AlarmFollowsCompletion, CompletedDemoIsScheduled, Job, Destination
<1>10. CredentialsAreTransient'
  BY <1>1, <1>2, <1>3, <1>6 DEF CInv, CredentialsAreTransient, NeverBegan, workerVars
<1>11. QED
  BY <1>4, <1>7, <1>8, <1>9, <1>10 DEF IInv, TypeOK, CInv, WInv

LEMMA ShardResolvedKeeps ==
  ASSUME IInv, NEW w \in Worker, ApplyShardSummary(w) \/ FailShard(w)
  PROVE  IInv'
<1>1. WInv /\ CInv
  BY Parts
<1>2. sink \in Metrics /\ sink.peak <= MAX_WORKERS * WORKER_CONCURRENCY
      /\ file \in [Name -> Row \union {NoRow}]
  BY <1>1 DEF CInv, JobTypeOK, PeakBounded
<1>3. CASE ApplyShardSummary(w)
  <2> DEFINE m == [sink EXCEPT !.extracted = @ + Cardinality(Extracted(w))]
  <2>1. Cardinality(Extracted(w)) \in Nat
    BY <1>1, ExtractedNat
  <2>2. m \in Metrics /\ m.peak = sink.peak
    BY <1>2, <2>1 DEF Metrics
  <2>3. w \in pending /\ ShardSettled(w, m) /\ file' = file
    BY <1>3 DEF ApplyShardSummary
  <2> HIDE DEF m
  <2>4. QED
    BY <1>2, <2>2, <2>3, ShardSettledKeeps
<1>4. CASE FailShard(w)
  <2>1. ASSUME NEW row \in Row \union {NoRow}
        PROVE  FailUnlessSettled(row) \in Row \union {NoRow}
    BY DEF FailUnlessSettled, Row, NoRow, FileStatus
  <2>2. file' \in [Name -> Row \union {NoRow}]
    BY <1>2, <1>4, <2>1 DEF FailShard
  <2>3. QED
    BY <1>2, <1>4, <2>2, ShardSettledKeeps DEF FailShard
<1>5. QED
  BY <1>3, <1>4

LEMMA RunEndsKeeps ==
  ASSUME IInv, RunEnds
  PROVE  IInv'
<1>1. WInv /\ LoopsBounded /\ CInv
  BY Parts
<1>2. /\ run = "finishing" /\ run' = "ended" /\ byoConfig' = FALSE
      /\ UNCHANGED workerVars /\ UNCHANGED <<job, file, alarm, tries>>
      /\ UNCHANGED <<selected, code, pending, workerInFlight, sink, sweep>>
  BY DEF RunEnds, durable
<1>3. WInv' /\ LoopsBounded'
  BY <1>1, <1>2, WorkersUnchanged
<1>4. CInv'
  BY <1>1, <1>2 DEF CInv, JobTypeOK, NothingListed, PeakBounded, RunIsLive, AlarmFollowsCompletion,
       CompletedDemoIsScheduled, CredentialsAreTransient, NeverBegan, workerVars
<1>5. QED
  BY <1>3, <1>4 DEF IInv, TypeOK, CInv, WInv

(* The steps of the alarm: whatever they do to the bucket, the alarm and   *)
(* the sweep, they change nothing else but the expiry.                     *)
LEMMA AlarmFrame ==
  ASSUME IInv,
         bucket' \subseteq Name,
         UNCHANGED <<wphase, shard, stage, inFlight, outbox, creds>>,
         UNCHANGED <<file, run, selected, code, byoConfig, pending, workerInFlight, sink>>,
         tries' \in Nat,
         alarm' \in {"unset", "set", "running"},
         sweep' \in [at : {"off", "list", "delete"}, cursor : Nat, page : SUBSET Name,
                     more : BOOLEAN],
         \/ job' = job
         \/ job' = [job EXCEPT !.expires = "past"],
         AlarmFollowsCompletion', CompletedDemoIsScheduled'
  PROVE  IInv'
<1>1. WInv /\ LoopsBounded /\ CInv
  BY Parts
<1>2. WInv' /\ LoopsBounded'
  BY <1>1, BucketOnlyKeepsPool, FrameKeepsBound
<1>3. job' \in Job /\ job'.status = job.status /\ job'.destination = job.destination
      /\ job'.metrics = job.metrics
  BY <1>1 DEF CInv, JobTypeOK, Job
<1>4. JobTypeOK'
  BY <1>1, <1>3 DEF CInv, JobTypeOK
<1>5. NothingListed' /\ PeakBounded' /\ RunIsLive'
  BY <1>1, <1>3 DEF CInv, NothingListed, PeakBounded, RunIsLive
<1>6. CredentialsAreTransient'
  BY <1>1, <1>3 DEF CInv, CredentialsAreTransient, NeverBegan
<1>7. QED
  BY <1>2, <1>4, <1>5, <1>6 DEF IInv, TypeOK, CInv, WInv

\* A sweep under way is that of a completed demo job.
LEMMA SweepIsLive ==
  ASSUME IInv, sweep.at # "off"
  PROVE  /\ alarm = "running" /\ job.status = "completed" /\ job.destination = "demo"
         /\ bucket \subseteq Name /\ job \in Job
         /\ sweep.cursor \in Nat /\ sweep.page \subseteq Name /\ sweep.more \in BOOLEAN
  BY DEF IInv, AlarmFollowsCompletion, TypeOK, JobTypeOK, WorkerTypeOK, Job, Destination

\* The end of the sweep.
LEMMA SweepDoneEnds ==
  ASSUME IInv, SweepDone, tries' = tries
  PROVE  AlarmFollowsCompletion' /\ CompletedDemoIsScheduled'
  BY DEF IInv, SweepDone, AlarmFollowsCompletion, CompletedDemoIsScheduled, NoSweep,
         TypeOK, JobTypeOK, Job

LEMMA AlarmKeeps ==
  ASSUME IInv, AlarmFires \/ ListPrefix \/ DeletePage \/ SweepThrows
  PROVE  IInv'
<1>1. /\ job \in Job /\ alarm \in {"unset", "set", "running"} /\ tries \in Nat
      /\ bucket \subseteq Name
      /\ AlarmFollowsCompletion /\ CompletedDemoIsScheduled
  BY DEF IInv, TypeOK, JobTypeOK, WorkerTypeOK
<1>2. NoSweep \in [at : {"off", "list", "delete"}, cursor : Nat, page : SUBSET Name,
                   more : BOOLEAN]
  BY DEF NoSweep
<1>3. CASE AlarmFires
  <2>1. sweep' \in [at : {"off", "list", "delete"}, cursor : Nat, page : SUBSET Name,
                    more : BOOLEAN]
    BY <1>2, <1>3 DEF AlarmFires, NoSweep
  <2>2. AlarmFollowsCompletion' /\ CompletedDemoIsScheduled'
    BY <1>1, <1>3 DEF AlarmFires, AlarmFollowsCompletion, CompletedDemoIsScheduled, NoSweep,
         Job, Destination
  <2>3. QED
    BY <1>1, <1>3, <2>1, <2>2, AlarmFrame DEF AlarmFires, workerVars
<1>4. CASE ListPrefix
  <2>1. /\ sweep.at = "list" /\ tries' = tries
        /\ UNCHANGED <<wphase, shard, stage, inFlight, outbox, creds>> /\ bucket' = bucket
        /\ UNCHANGED <<file, run, selected, code, byoConfig, pending, workerInFlight, sink>>
    BY <1>4 DEF ListPrefix, workerVars
  <2>2. /\ alarm = "running" /\ job.status = "completed" /\ job.destination = "demo"
        /\ sweep \in [at : {"off", "list", "delete"}, cursor : Nat, page : SUBSET Name,
                      more : BOOLEAN]
    BY <2>1, SweepIsLive DEF IInv, TypeOK, JobTypeOK
  <2>3. PICK page \in SUBSET bucket :
          \/ page = {} /\ SweepDone
          \/ /\ sweep' = [sweep EXCEPT !.at = "delete", !.page = page,
                                       !.more = Truncated(page, sweep.cursor)]
             /\ UNCHANGED <<job, alarm>>
    BY <1>4 DEF ListPrefix
  <2>4. CASE SweepDone
    <3>1. AlarmFollowsCompletion' /\ CompletedDemoIsScheduled'
      BY <2>1, <2>4, SweepDoneEnds
    <3>2. QED
      BY <1>1, <1>2, <2>1, <2>4, <3>1, AlarmFrame DEF SweepDone
  <2>5. CASE /\ sweep' = [sweep EXCEPT !.at = "delete", !.page = page,
                                       !.more = Truncated(page, sweep.cursor)]
             /\ UNCHANGED <<job, alarm>>
    <3>1. Truncated(page, sweep.cursor) \in BOOLEAN
      BY DEF Truncated
    <3>2. sweep' \in [at : {"off", "list", "delete"}, cursor : Nat, page : SUBSET Name,
                      more : BOOLEAN]
      BY <1>1, <2>2, <2>5, <3>1
    <3>3. AlarmFollowsCompletion' /\ CompletedDemoIsScheduled'
      BY <1>1, <2>1, <2>2, <2>5 DEF AlarmFollowsCompletion, CompletedDemoIsScheduled
    <3>4. QED
      BY <1>1, <2>1, <2>5, <3>2, <3>3, AlarmFrame
  <2>6. QED
    BY <2>3, <2>4, <2>5
<1>5. CASE DeletePage
  <2>1. /\ sweep.at = "delete" /\ tries' = tries
        /\ bucket' = bucket \ sweep.page
        /\ UNCHANGED <<wphase, shard, stage, inFlight, outbox, creds>>
        /\ UNCHANGED <<file, run, selected, code, byoConfig, pending, workerInFlight, sink>>
    BY <1>5 DEF DeletePage
  <2>2. /\ alarm = "running" /\ job.status = "completed" /\ job.destination = "demo"
        /\ sweep.page \subseteq Name
    BY <2>1, SweepIsLive
  <2>3. CASE SweepDone
    <3>1. AlarmFollowsCompletion' /\ CompletedDemoIsScheduled'
      BY <2>1, <2>3, SweepDoneEnds
    <3>2. QED
      BY <1>1, <1>2, <2>1, <2>3, <3>1, AlarmFrame DEF SweepDone
  <2>4. ASSUME NEW last \in sweep.page,
               sweep' = [NoSweep EXCEPT !.at = "list", !.cursor = last],
               UNCHANGED <<job, alarm>>
        PROVE  IInv'
    <3>1. last \in Nat
      BY <2>2, WorkerAssumption
    <3>2. sweep' \in [at : {"off", "list", "delete"}, cursor : Nat, page : SUBSET Name,
                      more : BOOLEAN]
      BY <2>4, <3>1 DEF NoSweep
    <3>3. AlarmFollowsCompletion' /\ CompletedDemoIsScheduled'
      BY <1>1, <2>1, <2>2, <2>4 DEF AlarmFollowsCompletion, CompletedDemoIsScheduled
    <3>4. QED
      BY <1>1, <2>1, <2>4, <3>2, <3>3, AlarmFrame
  <2>5. QED
    BY <1>5, <2>3, <2>4 DEF DeletePage
<1>6. CASE SweepThrows
  <2>1. /\ sweep.at \in {"list", "delete"} /\ tries < ALARM_TRIES /\ AlarmAgain
        /\ sweep' = NoSweep
        /\ UNCHANGED <<wphase, shard, stage, inFlight, outbox, creds>>
        /\ UNCHANGED <<job, file, run, selected, code, byoConfig, pending, workerInFlight, sink>>
        /\ bucket' \subseteq bucket
    BY <1>6 DEF SweepThrows
  <2>2. alarm = "running" /\ job.status = "completed" /\ job.destination = "demo"
    BY <2>1, SweepIsLive
  <2>3. AlarmFollowsCompletion' /\ CompletedDemoIsScheduled'
    BY <1>1, <2>1, <2>2, JobAssumption
       DEF AlarmFollowsCompletion, CompletedDemoIsScheduled, AlarmAgain, NoSweep
  <2>4. QED
    BY <1>1, <1>2, <2>1, <2>3, AlarmFrame DEF AlarmAgain
<1>7. QED
  BY <1>3, <1>4, <1>5, <1>6

LEMMA EvictKeeps ==
  ASSUME IInv, Evict
  PROVE  IInv'
<1>1. WInv /\ LoopsBounded /\ CInv
  BY Parts
<1>2. /\ run' = "none" /\ selected' = {} /\ code' = FALSE /\ byoConfig' = FALSE
      /\ pending' = {} /\ workerInFlight' = [w \in Worker |-> 0]
      /\ sink' = FreshMetrics /\ sweep' = NoSweep
      /\ UNCHANGED workerVars /\ UNCHANGED <<job, file>>
  BY DEF Evict
<1>3. WInv' /\ LoopsBounded'
  BY <1>1, <1>2, WorkersUnchanged
<1>4. /\ tries' \in Nat /\ alarm' \in {"unset", "set", "running"}
      /\ \/ alarm' = alarm /\ tries' = tries
         \/ /\ alarm = "running" /\ job.status = "completed" /\ job.destination = "demo"
            /\ tries' <= ALARM_TRIES
            /\ alarm' = IF tries' < ALARM_TRIES THEN "set" ELSE "unset"
  <2>1. CASE UNCHANGED <<alarm, tries>>
    BY <1>1, <2>1 DEF CInv, JobTypeOK
  <2>2. CASE sweep.at # "off" /\ tries < ALARM_TRIES /\ AlarmAgain
    BY <1>1, <2>2, SweepIsLive, JobAssumption DEF CInv, JobTypeOK, AlarmAgain
  <2>3. QED
    BY <2>1, <2>2 DEF Evict
<1>5. FreshMetrics \in Metrics /\ FreshMetrics.peak = 0
  BY DEF FreshMetrics, Metrics, Phase
<1>6. JobTypeOK'
  BY <1>1, <1>2, <1>4, <1>5 DEF CInv, JobTypeOK, NoSweep
<1>7. PeakBounded'
  <2>1. 0 <= MAX_WORKERS * WORKER_CONCURRENCY /\ 0 <= WORKER_CONCURRENCY
    BY WorkerAssumption
  <2>2. QED
    BY <1>1, <1>2, <1>5, <2>1 DEF CInv, PeakBounded
<1>8. NothingListed' /\ RunIsLive' /\ CredentialsAreTransient'
  BY <1>1, <1>2 DEF CInv, NothingListed, RunIsLive, CredentialsAreTransient, NeverBegan, workerVars
<1>9. AlarmFollowsCompletion' /\ CompletedDemoIsScheduled'
  BY <1>1, <1>2, <1>4, JobAssumption DEF CInv, AlarmFollowsCompletion, CompletedDemoIsScheduled, NoSweep
<1>10. QED
  BY <1>3, <1>6, <1>7, <1>8, <1>9 DEF IInv, TypeOK, CInv, WInv

LEMMA StutterKeeps ==
  ASSUME IInv, UNCHANGED vars
  PROVE  IInv'
<1>1. WInv /\ LoopsBounded /\ CInv
  BY Parts
<1>2. /\ UNCHANGED workerVars
      /\ UNCHANGED <<job, file, alarm, tries>>
      /\ UNCHANGED <<run, selected, code, byoConfig, pending, workerInFlight, sink, sweep>>
  BY DEF vars, jobVars, durable, volatile
<1>3. WInv' /\ LoopsBounded'
  BY <1>1, <1>2, WorkersUnchanged
<1>4. CInv'
  BY <1>1, <1>2 DEF CInv, JobTypeOK, NothingListed, PeakBounded, RunIsLive, AlarmFollowsCompletion,
       CompletedDemoIsScheduled, CredentialsAreTransient, NeverBegan, workerVars
<1>5. QED
  BY <1>3, <1>4 DEF IInv, TypeOK, CInv, WInv

LEMMA StepKeeps ==
  ASSUME IInv, [Next]_vars
  PROVE  IInv'
<1>1. CASE \/ \E destination \in Destination, hasCode \in BOOLEAN : Start(destination, hasCode)
           \/ \E destination \in Destination : StartsWithoutRuntime(destination)
  BY <1>1, StartKeeps
<1>2. CASE \/ \E entries \in SUBSET Entry : ReadIndexOk(entries)
           \/ \E sized \in BOOLEAN : ReadIndexFails(sized)
           \/ StartRecorded
  BY <1>2, ReadIndexKeeps
<1>3. ASSUME NEW w \in Worker,
             \/ WorkerOnly(w) \/ WorkerForgets(w) \/ ReportFileResult(w) \/ ReportLost(w)
             \/ ApplyShardSummary(w) \/ FailShard(w)
      PROVE  IInv'
  BY <1>3, WorkerOnlyKeeps, WorkerForgetsKeeps, ReportFileResultKeeps, ReportLostKeeps,
     ShardResolvedKeeps
<1>4. CASE RunEnds
  BY <1>4, RunEndsKeeps
<1>5. CASE AlarmFires \/ ListPrefix \/ DeletePage \/ SweepThrows
  BY <1>5, AlarmKeeps
<1>6. CASE Evict
  BY <1>6, EvictKeeps
<1>7. CASE UNCHANGED vars
  BY <1>7, StutterKeeps
<1>8. QED
  BY <1>1, <1>2, <1>3, <1>4, <1>5, <1>6, <1>7 DEF Next

-----------------------------------------------------------------------------
(* The invariant, and with it the types of every variable the coordinator  *)
(* and its workers keep (job.ts, extract-worker.ts).                       *)
THEOREM Invariance == Spec => []IInv
  BY InitHolds, StepKeeps, PTL DEF Spec

(* Every variable keeps its type.                                          *)
THEOREM TypeCorrect == Spec => []TypeOK
<1>1. IInv => TypeOK
  BY DEF IInv
<1>2. QED
  BY <1>1, Invariance, PTL

(* The pool of extractShard (extract-worker.ts:184-193) never runs more    *)
(* than WORKER_CONCURRENCY loops, counts them exactly, and none idles.     *)
THEOREM PoolIsSaturated == Spec => []PoolSaturated
<1>1. IInv => PoolSaturated
  BY DEF IInv, PoolInv, CountsAreExact, LoopsBounded, PoolSaturated
<1>2. QED
  BY <1>1, Invariance, PTL

(* The peak reportFileResult adds up (job.ts:573-604) never exceeds what   *)
(* the whole fleet can run at once.                                        *)
THEOREM PeakIsWithinFleet == Spec => []PeakWithinFleet
<1>1. IInv => PeakWithinFleet
  BY DEF IInv, PeakBounded, PeakWithinFleet, Larger
<1>2. QED
  BY <1>1, Invariance, PTL

(* A completed demo job has its cleanup ahead, under way or behind it,     *)
(* through evictions, crashes and failing bucket calls.                    *)
THEOREM CompletedDemoStaysScheduled == Spec => []CompletedDemoIsScheduled
<1>1. IInv => CompletedDemoIsScheduled
  BY DEF IInv
<1>2. QED
  BY <1>1, Invariance, PTL

(* Neither the coordinator nor a worker holds the user's credentials       *)
(* outside the run and the call they were given for, except one whose      *)
(* createRuntime threw (job.ts:364, extract-worker.ts:165).                *)
THEOREM CredentialsStayTransient == Spec => []CredentialsAreTransient
<1>1. IInv => CredentialsAreTransient
  BY DEF IInv
<1>2. QED
  BY <1>1, Invariance, PTL

=============================================================================
