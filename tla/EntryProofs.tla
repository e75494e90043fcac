---------------------------- MODULE EntryProofs ----------------------------
(***************************************************************************)
(* Proofs about one entry's extraction, for every size, part size, number  *)
(* of fibers and fault: the planned parts cover the entry, no object is    *)
(* ever partial, and the extraction keeps the promise workers rely on.     *)
(***************************************************************************)
EXTENDS ExtractEntry, FiniteSetTheorems, TLAPS

(* The number of parts is the least that holds every byte: what            *)
(* Math.ceil(size / partSize) computes in planMultipartParts.              *)
LEMMA PartCountIsLeast ==
  ASSUME NEW total \in Nat, NEW p \in Nat \ {0}
  PROVE  /\ PartCount(total, p) \in Nat
         /\ PartCount(total, p) * p >= total
         /\ total > 0 => /\ PartCount(total, p) >= 1
                         /\ (PartCount(total, p) - 1) * p < total
<1> DEFINE q == (total + p - 1) \div p
           r == (total + p - 1) % p
<1>1. q \in Int /\ r \in 0 .. (p - 1) /\ total + p - 1 = p * q + r
  OBVIOUS
<1>2. q >= 0
  BY <1>1
<1>3. q * p >= total
  BY <1>1
<1>4. (q - 1) * p < total
  BY <1>1
<1>5. total > 0 => q >= 1
  BY <1>1, <1>2
<1> QED
  BY <1>1, <1>2, <1>3, <1>4, <1>5 DEF PartCount

(* planMultipartParts: the ranges of the planned parts, in the order of    *)
(* their numbers, are the entry's bytes without gap or overlap; each is    *)
(* non-empty, and all but the last have the size of a part.                *)
THEOREM PlanCovers ==
  ASSUME NEW offset \in Nat, NEW total \in Nat \ {0}, NEW p \in Nat \ {0}
  PROVE  LET n == PartCount(total, p)
             range(i) == PartRange(offset, total, p, i)
         IN  /\ n \in Nat \ {0}
             /\ \A i \in 1 .. n : range(i) \in [from : Nat, to : Nat] /\ range(i).from < range(i).to
             /\ range(1).from = offset
             /\ range(n).to = offset + total
             /\ \A i \in 1 .. (n - 1) : /\ range(i).to = range(i + 1).from
                                        /\ range(i).to - range(i).from = p
<1> DEFINE n == PartCount(total, p)
           range(i) == PartRange(offset, total, p, i)
<1>1. n \in Nat /\ n >= 1 /\ n * p >= total /\ (n - 1) * p < total
  BY PartCountIsLeast
<1>2. ASSUME NEW i \in 1 .. n
      PROVE  (i - 1) * p \in Nat /\ (i - 1) * p < total
  <2>1. (i - 1) * p <= (n - 1) * p
    <3>1. (n - i) \in Nat /\ (n - i) * p >= 0
      BY <1>1
    <3>2. (n - 1) * p - (i - 1) * p = (n - i) * p
      BY <1>1
    <3> QED BY <3>1, <3>2, <1>1
  <2>2. (i - 1) * p \in Nat
    BY <1>1
  <2> QED BY <2>1, <2>2, <1>1
<1>3. ASSUME NEW i \in 1 .. n
      PROVE  range(i) \in [from : Nat, to : Nat] /\ range(i).from < range(i).to
  BY <1>2, <1>1 DEF PartRange, Smaller
<1>4. range(1).from = offset
  BY <1>1 DEF PartRange
<1>5. range(n).to = offset + total
  <2>1. total - (n - 1) * p <= p
    BY <1>1
  <2> QED BY <2>1, <1>1, <1>2 DEF PartRange, Smaller
<1>6. ASSUME NEW i \in 1 .. (n - 1)
      PROVE  range(i).to = range(i + 1).from /\ range(i).to - range(i).from = p
  <2>1. i * p \in Nat /\ i * p < total /\ (i - 1) * p \in Nat /\ i * p = (i - 1) * p + p
    <3>1. i + 1 \in 1 .. n /\ (i + 1) - 1 = i
      BY <1>1
    <3>2. i * p \in Nat /\ i * p < total
      BY <3>1, <1>2
    <3>3. (i - 1) * p \in Nat /\ i * p = (i - 1) * p + p
      BY <1>1
    <3> QED BY <3>2, <3>3
  <2>2. (i + 1) - 1 = i
    BY <1>1
  <2>3. Smaller(p, total - (i - 1) * p) = p
    BY <2>1 DEF Smaller
  <2> QED BY <2>1, <2>2, <2>3 DEF PartRange
<1> HIDE DEF n, range
<1>7. n \in Nat \ {0}
  BY <1>1
<1> QED
  BY <1>3, <1>4, <1>5, <1>6, <1>7 DEF n, range
-----------------------------------------------------------------------------
\* The multipart path is taken only with a valid plan, and never with a put under way.
Paths ==
  /\ ctl \in {"create", "parts", "complete", "abort"} =>
       size > 0 /\ pump = "none" /\ put = "none"
  /\ ctl \in {"localHeader", "create"} =>
       /\ flying = {} /\ upload = "none" /\ pump = "none" /\ put = "none"
       /\ \A i \in Parts : part[i] = "todo"
  /\ ctl \in {"streamRange", "single"} \/ put # "none" =>
       /\ flying = {} /\ upload = "none"
       /\ ctl \notin {"create", "parts", "complete", "abort"}
  /\ ctl = "streamRange" => pump = "none" /\ put = "none"
  /\ flying # {} => size > 0

\* A part's fiber, its call and what the bucket holds of it agree.
PartsAgree ==
  \A i \in Parts :
    /\ held[i] \in {NoRange, Plan(i)}
    /\ part[i] = "uploaded" => held[i] = Plan(i)
    /\ part[i] = "uploading" => i \in flying
    /\ i \in flying => part[i] \in {"uploading", "interrupted", "failed"}
    /\ ctl = "parts" => part[i] \notin {"interrupted", "failed"}
    /\ ctl # "parts" => part[i] \notin {"fetching", "uploading"}
    /\ ctl = "complete" => part[i] = "uploaded"

\* The object is the joined parts or the one range of a put; it appears once.
ObjectIsPlanned ==
  /\ object \in {NoObject, <<WholeRange>>} \/ (size > 0 /\ object = [i \in Parts |-> Plan(i)])
  /\ ctl \notin {"abort", "done", "failed"} \/ put = "sent" => object = NoObject
  /\ ctl = "done" => object # NoObject

\* The metric counts the entry that is done.
WritesCount == writes = IF ctl = "done" THEN 1 ELSE 0

\* Fibers at work are bounded, and so are the calls they leave behind.
FibersBounded ==
  /\ ctl = "parts" => Cardinality(Busy) <= PART_CONCURRENCY
  /\ Cardinality(flying) <= PART_CONCURRENCY

EntryInv == EntryTypeOK /\ Paths /\ PartsAgree /\ ObjectIsPlanned /\ WritesCount /\ FibersBounded

LEMMA PartsFinite ==
  ASSUME size \in Nat
  PROVE  /\ PartCount(size, PART_SIZE) \in Nat
         /\ IsFiniteSet(Parts) /\ Parts \subseteq Nat
<1>1. PartCount(size, PART_SIZE) \in Nat
  BY PartCountIsLeast, EntryAssumption
<1> QED
  BY <1>1, FS_Interval DEF Parts

LEMMA PlanInRanges ==
  ASSUME size \in Nat, size > 0, NEW i \in Parts
  PROVE  Plan(i) \in Ranges
<1>1. size \in Nat \ {0} /\ PART_SIZE \in Nat \ {0} /\ DATA_OFFSET \in Nat
  BY EntryAssumption
<1>2. Plan(i) \in [from : Nat, to : Nat] /\ Plan(i).from < Plan(i).to
  BY <1>1, PlanCovers DEF Parts, Plan
<1> QED
  BY <1>2 DEF Ranges

LEMMA InitInv == Init => EntryInv
<1> SUFFICES ASSUME Init PROVE EntryInv
  OBVIOUS
<1>1. size \in Nat
  BY EntryAssumption DEF Init
<1>2. EntryTypeOK
  BY <1>1 DEF Init, EntryTypeOK, Ranges, NoRange, NoObject
<1>3. Cardinality({}) = 0
  BY FS_EmptySet
<1> QED
  BY <1>2, <1>3, EntryAssumption DEF Init, EntryInv, Paths, PartsAgree, ObjectIsPlanned, WritesCount,
     FibersBounded

\* What an entry is does not change, and with it the plan.
LEMMA PlanFixed ==
  ASSUME size' = size
  PROVE  /\ Parts' = Parts /\ WholeRange' = WholeRange
         /\ \A i : Plan(i)' = Plan(i)
BY DEF Parts, Plan, WholeRange

LEMMA OneMore ==
  ASSUME NEW S, NEW x, IsFiniteSet(S)
  PROVE  /\ Cardinality(S \union {x}) \in Nat
         /\ Cardinality(S \union {x}) <= Cardinality(S) + 1
<1>1. Cardinality(S) \in Nat
  BY FS_CardinalityType
<1>2. Cardinality(S \union {x}) = IF x \in S THEN Cardinality(S) ELSE Cardinality(S) + 1
  BY FS_AddElement
<1> QED
  BY <1>1, <1>2

LEMMA StepInv == EntryInv /\ [Next]_vars => EntryInv'
<1> SUFFICES ASSUME EntryInv, [Next]_vars PROVE EntryInv'
  OBVIOUS
<1>0. size' = size /\ stored' = stored
  BY DEF Next, vars, ReadLocalHeader, CreateMultipart, StartPart, FetchPart, UploadPart, PartsDone,
     CompleteMultipart, AbortMultipart, StreamRange, PumpEnds, PutEnds
<1>P. Parts' = Parts /\ WholeRange' = WholeRange /\ \A i : Plan(i)' = Plan(i)
  BY <1>0, PlanFixed
<1>N. size \in Nat /\ PART_CONCURRENCY \in Nat \ {0}
  BY EntryAssumption DEF EntryInv, EntryTypeOK
<1>F. IsFiniteSet(Parts) /\ IsFiniteSet(flying) /\ Cardinality(flying) \in Nat
  BY <1>N, PartsFinite, FS_Subset, FS_CardinalityType DEF EntryInv, EntryTypeOK
<1>R. NoRange \in Ranges /\ NoObject \in Seq(Ranges)
  BY DEF NoRange, Ranges, NoObject
<1> USE <1>0, <1>P DEF EntryInv, Paths, PartsAgree, ObjectIsPlanned, WritesCount, FibersBounded
<1>1. CASE ReadLocalHeader
  <2>1. ctl' = "create" => size > 0
    BY <1>1 DEF ReadLocalHeader, PlanOk
  <2>2. EntryTypeOK'
    BY <1>1 DEF ReadLocalHeader, EntryTypeOK
  <2> QED BY <1>1, <2>1, <2>2 DEF ReadLocalHeader, Busy
<1>2. CASE CreateMultipart
  <2>1. EntryTypeOK'
    BY <1>2 DEF CreateMultipart, EntryTypeOK
  <2>2. Busy' = {}
    BY <1>2 DEF CreateMultipart, Busy
  <2>3. Cardinality({}) = 0
    BY FS_EmptySet
  <2> QED BY <1>2, <2>1, <2>2, <2>3, <1>N DEF CreateMultipart
<1>3. ASSUME NEW i \in Parts, StartPart(i) PROVE EntryInv'
  <2>1. EntryTypeOK'
    BY <1>3 DEF StartPart, EntryTypeOK
  <2>2. Busy' = Busy \union {i} /\ Cardinality(Busy') <= PART_CONCURRENCY
    <3>1. Busy' = Busy \union {i}
      BY <1>3 DEF StartPart, Busy, EntryTypeOK
    <3>2. IsFiniteSet(Busy) /\ Cardinality(Busy) \in Nat
      BY <1>F, FS_Subset, FS_CardinalityType DEF Busy
    <3>3. /\ Cardinality(Busy \union {i}) \in Nat
          /\ Cardinality(Busy \union {i}) <= Cardinality(Busy) + 1
      BY <3>2, OneMore
    <3>4. Cardinality(Busy) < PART_CONCURRENCY
      BY <1>3 DEF StartPart
    <3> QED BY <3>1, <3>2, <3>3, <3>4, <1>N
  <2>3. PartsAgree'
    BY <1>3 DEF StartPart, EntryTypeOK
  <2> QED BY <1>3, <2>1, <2>2, <2>3 DEF StartPart
<1>4. ASSUME NEW i \in Parts, FetchPart(i) PROVE EntryInv'
  <2>1. EntryTypeOK'
    BY <1>4 DEF FetchPart, PartFails, EntryTypeOK
  <2>2. PartsAgree'
    BY <1>4 DEF FetchPart, PartFails, EntryTypeOK
  <2>3. flying' \subseteq Busy \/ flying' = flying
    BY <1>4 DEF FetchPart, Busy, EntryTypeOK
  <2>4. IsFiniteSet(Busy) /\ Cardinality(Busy) \in Nat
    BY <1>F, FS_Subset, FS_CardinalityType DEF Busy
  <2>5. Cardinality(flying') <= PART_CONCURRENCY
    <3>1. CASE flying' \subseteq Busy
      <4>1. Cardinality(flying') <= Cardinality(Busy) /\ Cardinality(flying') \in Nat
        BY <3>1, <2>4, FS_Subset, FS_CardinalityType
      <4> QED BY <4>1, <2>4, <1>4, <1>N DEF FetchPart
    <3>2. CASE flying' = flying
      BY <3>2
    <3> QED BY <3>1, <3>2, <2>3
  <2>6. ctl' = "parts" => Busy' = Busy
    BY <1>4 DEF FetchPart, PartFails, Busy, EntryTypeOK
  <2> QED BY <1>4, <2>1, <2>2, <2>5, <2>6 DEF FetchPart, PartFails
<1>5. ASSUME NEW i \in Parts, UploadPart(i) PROVE EntryInv'
  <2>0. size > 0 => Plan(i) \in Ranges
    BY <1>N, PlanInRanges
  <2>1. EntryTypeOK'
    <3>1. held' \in [Parts -> Ranges]
      BY <1>5, <2>0 DEF UploadPart, EntryTypeOK
    <3> QED BY <1>5, <3>1 DEF UploadPart, PartFails, EntryTypeOK
  <2>2. PartsAgree'
    BY <1>5 DEF UploadPart, PartFails, EntryTypeOK
  <2>3. Cardinality(flying') <= PART_CONCURRENCY
    <3>1. flying' \subseteq flying
      BY <1>5 DEF UploadPart
    <3> QED BY <3>1, <1>F, <1>N, FS_Subset, FS_CardinalityType
  <2>4. ctl' = "parts" => ctl = "parts" /\ Busy' \subseteq Busy
    BY <1>5 DEF UploadPart, PartFails, Busy, EntryTypeOK
  <2>5. ctl' = "parts" => Cardinality(Busy') <= PART_CONCURRENCY
    <3>1. IsFiniteSet(Busy) /\ Cardinality(Busy) \in Nat
      BY <1>F, FS_Subset, FS_CardinalityType DEF Busy
    <3> QED BY <2>4, <3>1, <1>N, FS_Subset, FS_CardinalityType
  <2> QED BY <1>5, <2>1, <2>2, <2>3, <2>5 DEF UploadPart, PartFails
<1>6. CASE PartsDone
  <2>1. EntryTypeOK'
    BY <1>6 DEF PartsDone, EntryTypeOK
  <2> QED BY <1>6, <2>1 DEF PartsDone, EveryPartUploaded
<1>7. CASE CompleteMultipart
  <2>1. [j \in Parts |-> held[j]] \in Seq(Ranges)
    <3>1. held \in [Parts -> Ranges] /\ PartCount(size, PART_SIZE) \in Nat
      BY <1>N, PartsFinite DEF EntryTypeOK
    <3> QED BY <3>1 DEF Parts
  <2>2. EntryTypeOK'
    BY <1>7, <2>1 DEF CompleteMultipart, EntryTypeOK
  <2>3. object' = object \/ object' = [j \in Parts |-> Plan(j)]
    BY <1>7 DEF CompleteMultipart
  <2>4. ctl' = "done" => object' # NoObject
    <3>1. PartCount(size, PART_SIZE) \in Nat /\ PartCount(size, PART_SIZE) >= 1
      BY <1>7, <1>N, PartCountIsLeast, EntryAssumption DEF CompleteMultipart
    <3>2. 1 \in Parts
      BY <3>1 DEF Parts
    <3>3. [j \in Parts |-> held[j]] # <<>>
      BY <3>2
    <3> QED BY <1>7, <3>3 DEF CompleteMultipart, NoObject
  <2> QED BY <1>7, <2>2, <2>3, <2>4 DEF CompleteMultipart
<1>8. CASE AbortMultipart
  <2>1. EntryTypeOK'
    BY <1>8 DEF AbortMultipart, EntryTypeOK
  <2> QED BY <1>8, <2>1 DEF AbortMultipart
<1>9. CASE StreamRange
  <2>1. EntryTypeOK'
    BY <1>9 DEF StreamRange, EntryTypeOK
  <2> QED BY <1>9, <2>1 DEF StreamRange
<1>10. CASE PumpEnds
  <2>1. EntryTypeOK'
    BY <1>10 DEF PumpEnds, EntryTypeOK
  <2> QED BY <1>10, <2>1 DEF PumpEnds
<1>11. CASE PutEnds
  <2>1. WholeRange \in Ranges
    BY <1>N, EntryAssumption DEF WholeRange, Ranges
  <2>4. <<WholeRange>> \in Seq(Ranges)
    BY <2>1
  <2>2. EntryTypeOK'
    <3>1. object' \in Seq(Ranges)
      BY <1>11, <2>4 DEF PutEnds, EntryTypeOK
    <3>2. writes' \in Nat
      BY <1>11 DEF PutEnds, EntryTypeOK
    <3> QED BY <1>11, <3>1, <3>2 DEF PutEnds, EntryTypeOK
  <2>3. <<WholeRange>> # NoObject
    BY DEF NoObject
  <2>5. ctl \in {"single", "failed"}
    BY <1>11 DEF PutEnds, EntryTypeOK
  <2>6. PartsAgree' /\ Paths' /\ FibersBounded'
    BY <1>11, <2>5 DEF PutEnds, Busy
  <2>7. ObjectIsPlanned' /\ WritesCount'
    BY <1>11, <2>3, <2>5 DEF PutEnds
  <2> QED BY <2>2, <2>6, <2>7
<1>12. CASE UNCHANGED vars
  BY <1>12 DEF vars, EntryTypeOK, Busy
<1> QED
  BY <1>1, <1>2, <1>3, <1>4, <1>5, <1>6, <1>7, <1>8, <1>9, <1>10, <1>11, <1>12 DEF Next

(* The inductive invariant holds of every behaviour.                       *)
THEOREM EntryInvariance == Spec => []EntryInv
BY InitInv, StepInv, PTL DEF Spec

-----------------------------------------------------------------------------
LEMMA PlannedIsWhole == EntryInv => (object # NoObject => IsWhole(object))
<1> SUFFICES ASSUME EntryInv, object # NoObject PROVE IsWhole(object)
  OBVIOUS
<1>1. size \in Nat /\ DATA_OFFSET \in Nat /\ PART_SIZE \in Nat \ {0}
  BY EntryAssumption DEF EntryInv, EntryTypeOK
<1>2. CASE object = <<WholeRange>>
  BY <1>1, <1>2 DEF IsWhole, WholeRange
<1>3. CASE size > 0 /\ object = [i \in Parts |-> Plan(i)]
  <2> DEFINE n == PartCount(size, PART_SIZE)
  <2>1. /\ n \in Nat \ {0}
        /\ Plan(1).from = DATA_OFFSET
        /\ Plan(n).to = DATA_OFFSET + size
        /\ \A i \in 1 .. (n - 1) : Plan(i).to = Plan(i + 1).from
    BY <1>1, <1>3, PlanCovers DEF Plan
  <2>2. object = [i \in 1 .. n |-> Plan(i)]
    BY <1>3 DEF Parts
  <2> HIDE DEF n
  <2>3. Len(object) = n
    BY <2>1, <2>2
  <2> QED
    BY <2>1, <2>2, <2>3 DEF IsWhole
<1> QED
  BY <1>2, <1>3 DEF EntryInv, ObjectIsPlanned

(* Every variable keeps its type.                                          *)
THEOREM EntryTypeCorrect == Spec => []EntryTypeOK
<1>1. EntryInv => EntryTypeOK
  BY DEF EntryInv
<1> QED BY <1>1, EntryInvariance, PTL

(* No object is ever partial, whatever the size, the part size, the number *)
(* of fibers, the failures and the calls that land late.                   *)
THEOREM NoObjectIsPartial == Spec => []NeverPartial
<1>1. EntryInv => NeverPartial
  BY PlannedIsWhole DEF NeverPartial
<1> QED BY <1>1, EntryInvariance, PTL

(* The calls on their way never exceed the fibers of one entry.            *)
THEOREM FlyingStaysBounded == Spec => []FlyingBounded
<1>1. EntryInv => FlyingBounded
  BY DEF EntryInv, FibersBounded, FlyingBounded
<1> QED BY <1>1, EntryInvariance, PTL

(* The write metric counts an object that exists, once, when it is done.   *)
THEOREM WritesStayReal == Spec => []WritesAreReal
<1>1. EntryInv => WritesAreReal
  BY DEF EntryInv, WritesCount, ObjectIsPlanned, WritesAreReal
<1> QED BY <1>1, EntryInvariance, PTL

(* The extraction implements EntryPromise: each step settles the entry,    *)
(* makes its object appear whole, or is not seen by the worker.            *)
THEOREM EntryKeepsPromise == Spec => KeepsEntryPromise
<1> USE DEF Promise!Init, Promise!Next, Promise!Land, Promise!Succeed, Promise!Fail,
            Promise!promiseVars
<1>1. Init => Promise!Init
  BY DEF Init, NoObject
<1>2. EntryInv /\ EntryInv' /\ NeverPartial /\ NeverPartial' /\ [Next]_vars
        => [Promise!Next]_(Promise!promiseVars)
  <2> SUFFICES ASSUME EntryInv, EntryInv', NeverPartial, NeverPartial', [Next]_vars
               PROVE  [Promise!Next]_(Promise!promiseVars)
    OBVIOUS
  <2>1. object # NoObject => IsWhole(object)
    BY DEF NeverPartial
  <2>2. object' # NoObject' => IsWhole(object)'
    BY DEF NeverPartial
  <2>3. ctl' = "done" => object' # NoObject
    BY DEF EntryInv, ObjectIsPlanned, NoObject
  <2>4. UNCHANGED size
    BY DEF Next, vars, ReadLocalHeader, CreateMultipart, StartPart, FetchPart, UploadPart, PartsDone,
       CompleteMultipart, AbortMultipart, StreamRange, PumpEnds, PutEnds
  <2>5. object # NoObject => object' = object
    BY DEF EntryInv, ObjectIsPlanned, Paths, Next, vars, ReadLocalHeader, CreateMultipart, StartPart,
       FetchPart, UploadPart, PartsDone, CompleteMultipart, AbortMultipart, StreamRange, PumpEnds,
       PutEnds
  <2>6. /\ ctl = "done" => ctl' = "done" /\ object' = object
        /\ ctl = "failed" => ctl' = "failed"
    BY DEF EntryInv, ObjectIsPlanned, PartsAgree, Paths, Next, vars, ReadLocalHeader,
       CreateMultipart, StartPart, FetchPart, UploadPart, PartFails, PartsDone, CompleteMultipart,
       AbortMultipart, StreamRange, PumpEnds, PutEnds, EntryTypeOK
  <2> QED
    BY <2>1, <2>2, <2>3, <2>5, <2>6 DEF NoObject
<1> QED
  BY <1>1, <1>2, EntryInvariance, NoObjectIsPartial, PTL DEF Spec, KeepsEntryPromise, Promise!Spec

=============================================================================
