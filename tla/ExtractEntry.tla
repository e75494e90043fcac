---------------------------- MODULE ExtractEntry ----------------------------
(***************************************************************************)
(* extractEntry (src/src/extract.ts): one entry's bytes are range-fetched  *)
(* and written to the bucket, in one streamed put or, for a large STORED   *)
(* entry, in a multipart upload whose parts are fetched and uploaded by a  *)
(* bounded number of fibers.  The two bucket backends are makeR2Bucket     *)
(* (src/src/effect/services.ts) and makeByoBucket (src/src/destination.ts).*)
(*                                                                         *)
(* A bucket call has two ends.  What it does at the bucket and what the    *)
(* caller hears of it may differ (the answer is lost), and interrupting    *)
(* the fiber that waits for a call does not recall it: when one part fails *)
(* its siblings' calls are still on their way and may land later.          *)
(***************************************************************************)
EXTENDS Integers, FiniteSets, Sequences

CONSTANTS
  Sizes,                \* uncompressed sizes of an entry
  DATA_OFFSET,          \* where the entry's data begins in the archive
  MULTIPART_THRESHOLD,  \* STORED entries of this size or more are split
  PART_SIZE,
  PART_CONCURRENCY,     \* fibers uploading parts of one entry
  R2_MIN_PART_BYTES,
  R2_MAX_PARTS,
  Faults                \* the failures a configuration lets happen

\* fails: a call is refused before it took effect.  answerLost: it took effect,
\* the caller hears of a failure.
FaultKind == {"fails", "answerLost"}

ASSUME EntryAssumption ==
  /\ Sizes \subseteq Nat
  /\ DATA_OFFSET \in Nat
  /\ MULTIPART_THRESHOLD \in Nat \ {0}
  /\ PART_SIZE \in Nat \ {0}
  /\ PART_CONCURRENCY \in Nat \ {0}
  /\ R2_MIN_PART_BYTES \in Nat \ {0}
  /\ R2_MAX_PARTS \in Nat \ {0}
  /\ Faults \subseteq FaultKind

VARIABLES
  size,     \* entry.uncompressedSize
  stored,   \* compressionMethod = STORED
  ctl,      \* where extractEntry stands
  part,     \* per planned part: where its fiber stands
  flying,   \* the uploadPart calls that have not reached the bucket
  held,     \* per part the bucket holds in the upload: the bytes of the archive it is
  upload,   \* the multipart upload, at the bucket
  pump,     \* the single path's stream pump
  put,      \* the single path's put call
  object,   \* the byte ranges the object at the key is made of
  writes    \* the r2Write metric

vars == <<size, stored, ctl, part, flying, held, upload, pump, put, object, writes>>

-----------------------------------------------------------------------------
PartCount(total, partSize) == (total + partSize - 1) \div partSize

Smaller(a, b) == IF a < b THEN a ELSE b

\* Mutant: the last part is as long as the others.
PartRangeFull(offset, total, partSize, i) ==
  [from |-> offset + (i - 1) * partSize, to |-> offset + i * partSize]

\* The bytes [from, to) of the archive that part i carries.
PartRange(offset, total, partSize, i) ==
  [from |-> offset + (i - 1) * partSize,
   to   |-> offset + (i - 1) * partSize + Smaller(partSize, total - (i - 1) * partSize)]

(* planMultipartParts: it refuses an empty entry, parts below the bucket's *)
(* floor and plans with too many parts.                                    *)
PlanOk(total, partSize) ==
  /\ total > 0
  /\ partSize >= R2_MIN_PART_BYTES
  /\ PartCount(total, partSize) <= R2_MAX_PARTS

Parts == 1 .. PartCount(size, PART_SIZE)
Plan(i) == PartRange(DATA_OFFSET, size, PART_SIZE, i)
NoRange == [from |-> 0, to |-> 0]
NoObject == <<>>

Init ==
  /\ size \in Sizes
  /\ stored \in BOOLEAN
  /\ ctl    = "localHeader"
  /\ part   = [i \in Parts |-> "todo"]
  /\ flying = {}
  /\ held   = [i \in Parts |-> NoRange]
  /\ upload = "none"
  /\ pump   = "none"
  /\ put    = "none"
  /\ object = NoObject
  /\ writes = 0

Fails == "fails" \in Faults
AnswerLost == "answerLost" \in Faults

Large == stored /\ size >= MULTIPART_THRESHOLD

(* The local header is read: the path is chosen.  The multipart path plans *)
(* its parts and fails when no plan is valid.                              *)
ReadLocalHeader ==
  /\ ctl = "localHeader"
  /\ \/ /\ ctl' = IF ~Large THEN "streamRange"
                  ELSE IF PlanOk(size, PART_SIZE) THEN "create" ELSE "failed"
     \/ Fails /\ ctl' = "failed"
  /\ UNCHANGED <<size, stored, part, flying, held, upload, pump, put, object, writes>>

-----------------------------------------------------------------------------
(* The multipart path.  An upload whose creation is not heard of cannot be *)
(* aborted: the handle is lost.                                            *)
CreateMultipart ==
  /\ ctl = "create"
  /\ \/ upload' = "open" /\ ctl' = "parts"
     \/ AnswerLost /\ upload' = "open" /\ ctl' = "failed"
     \/ Fails /\ UNCHANGED upload /\ ctl' = "failed"
  /\ UNCHANGED <<size, stored, part, flying, held, pump, put, object, writes>>

Busy == {i \in Parts : part[i] \in {"fetching", "uploading"}}

\* Mutant: the fibers are not bounded.
StartPartUnbounded(i) ==
  /\ ctl = "parts" /\ part[i] = "todo"
  /\ \A j \in Parts : j < i => part[j] # "todo"
  /\ part' = [part EXCEPT ![i] = "fetching"]
  /\ UNCHANGED <<size, stored, ctl, flying, held, upload, pump, put, object, writes>>

\* A fiber takes the next part of the plan.
StartPart(i) ==
  /\ ctl = "parts" /\ part[i] = "todo"
  /\ \A j \in Parts : j < i => part[j] # "todo"
  /\ Cardinality(Busy) < PART_CONCURRENCY
  /\ part' = [part EXCEPT ![i] = "fetching"]
  /\ UNCHANGED <<size, stored, ctl, flying, held, upload, pump, put, object, writes>>

\* The first failure interrupts every fiber; the upload is then aborted.
PartFails(i) ==
  /\ part' = [j \in Parts |-> IF j = i THEN "failed"
                              ELSE IF part[j] = "uploaded" THEN part[j] ELSE "interrupted"]
  /\ ctl' = "abort"

(* The part's bytes are requested; their stream is the body of uploadPart. *)
FetchPart(i) ==
  /\ ctl = "parts" /\ part[i] = "fetching"
  /\ \/ /\ part' = [part EXCEPT ![i] = "uploading"]
        /\ flying' = flying \union {i}
        /\ UNCHANGED ctl
     \/ /\ Fails /\ PartFails(i)
        /\ UNCHANGED flying
  /\ UNCHANGED <<size, stored, held, upload, pump, put, object, writes>>

(* uploadPart reaches the bucket, or never does.  The bucket takes a part  *)
(* only while the upload is open; a fiber that still waits hears of it.    *)
UploadPart(i) ==
  /\ i \in flying
  /\ flying' = flying \ {i}
  /\ \/ /\ upload = "open"
        /\ held' = [held EXCEPT ![i] = Plan(i)]
        /\ \/ /\ part[i] = "uploading"
              /\ part' = [part EXCEPT ![i] = "uploaded"]
              /\ UNCHANGED ctl
           \/ /\ part[i] = "uploading" /\ AnswerLost
              /\ PartFails(i)
           \/ /\ part[i] # "uploading"
              /\ UNCHANGED <<part, ctl>>
     \/ /\ upload # "open" \/ Fails
        /\ UNCHANGED held
        /\ IF part[i] = "uploading" THEN PartFails(i) ELSE UNCHANGED <<part, ctl>>
  /\ UNCHANGED <<size, stored, upload, pump, put, object, writes>>

\* Mutant: the upload is completed while parts are still on their way.
EveryPartStarted == \A i \in Parts : part[i] # "todo"

EveryPartUploaded == \A i \in Parts : part[i] = "uploaded"

PartsDone ==
  /\ ctl = "parts" /\ EveryPartUploaded
  /\ ctl' = "complete"
  /\ UNCHANGED <<size, stored, part, flying, held, upload, pump, put, object, writes>>

(* completeMultipart: the bucket joins the listed parts, in order.  A      *)
(* refusal (an error status, or <Error> in the body of a 200) and a lost   *)
(* answer both lead to the abort.                                          *)
CompleteMultipart ==
  /\ ctl = "complete"
  /\ \/ /\ object' = [i \in Parts |-> held[i]]
        /\ upload' = "completed"
        /\ \/ ctl' = "done" /\ writes' = writes + 1
           \/ AnswerLost /\ ctl' = "abort" /\ UNCHANGED writes
     \/ /\ Fails /\ ctl' = "abort"
        /\ UNCHANGED <<object, upload, writes>>
  /\ UNCHANGED <<size, stored, part, flying, held, pump, put>>

\* abortMultipart, best effort: its failure is swallowed.
AbortMultipart ==
  /\ ctl = "abort"
  /\ ctl' = "failed"
  /\ \/ upload' = IF upload = "open" THEN "aborted" ELSE upload
     \/ Fails /\ UNCHANGED upload
  /\ UNCHANGED <<size, stored, part, flying, held, pump, put, object, writes>>

-----------------------------------------------------------------------------
(* The single path: the pump (range-GET, inflate, FixedLengthStream) and   *)
(* the put that drains it run side by side.                                *)
StreamRange ==
  /\ ctl = "streamRange"
  /\ \/ ctl' = "single" /\ pump' = "running" /\ put' = "sent"
     \/ Fails /\ ctl' = "failed" /\ UNCHANGED <<pump, put>>
  /\ UNCHANGED <<size, stored, part, flying, held, upload, object, writes>>

WholeRange == [from |-> DATA_OFFSET, to |-> DATA_OFFSET + size]

(* The pump ends: with the exact bytes, short of them (the stream breaks   *)
(* or inflates to less) or with more than FixedLengthStream takes.         *)
PumpEnds ==
  /\ pump = "running"
  /\ \/ pump' = "exact" /\ UNCHANGED ctl
     \/ /\ Fails /\ pump' \in {"short", "surplus"}
        /\ ctl' = IF ctl = "single" THEN "failed" ELSE ctl
  /\ UNCHANGED <<size, stored, part, flying, held, upload, put, object, writes>>

\* The body the put drains has its full length: the sized stream was filled.
BodyEnds == pump \in {"exact", "surplus"}

(* The put lands with its full body, and is heard of or not; or it fails.  *)
(* r2Write is counted by the fiber that waits for it, if it still does.    *)
PutEnds ==
  /\ put = "sent"
  /\ \/ /\ BodyEnds
        /\ object' = <<WholeRange>>
        /\ \/ /\ put' = "acknowledged"
              /\ writes' = IF ctl = "single" THEN writes + 1 ELSE writes
              /\ ctl' = IF ctl = "single" THEN "done" ELSE ctl
           \/ /\ AnswerLost /\ put' = "failed"
              /\ ctl' = IF ctl = "single" THEN "failed" ELSE ctl
              /\ UNCHANGED writes
     \/ /\ Fails \/ pump = "short"
        /\ put' = "failed"
        /\ ctl' = IF ctl = "single" THEN "failed" ELSE ctl
        /\ UNCHANGED <<object, writes>>
  /\ UNCHANGED <<size, stored, part, flying, held, upload, pump>>

-----------------------------------------------------------------------------
Next ==
  \/ ReadLocalHeader
  \/ CreateMultipart
  \/ \E i \in Parts : StartPart(i) \/ FetchPart(i) \/ UploadPart(i)
  \/ PartsDone
  \/ CompleteMultipart
  \/ AbortMultipart
  \/ StreamRange
  \/ PumpEnds
  \/ PutEnds

Spec == Init /\ [][Next]_vars
-----------------------------------------------------------------------------
Ranges == {r \in [from : Nat, to : Nat] : r.from <= r.to}

(* Every variable has its type: where extractEntry stands and what the     *)
(* bucket holds (src/src/extract.ts:170-315).                              *)
EntryTypeOK ==
  /\ size \in Sizes /\ stored \in BOOLEAN
  /\ ctl \in {"localHeader", "create", "parts", "complete", "abort", "streamRange", "single",
              "done", "failed"}
  /\ part \in [Parts -> {"todo", "fetching", "uploading", "uploaded", "interrupted", "failed"}]
  /\ flying \subseteq Parts
  /\ held \in [Parts -> Ranges]
  /\ upload \in {"none", "open", "completed", "aborted"}
  /\ pump \in {"none", "running", "exact", "short", "surplus"}
  /\ put \in {"none", "sent", "acknowledged", "failed"}
  /\ object \in Seq(Ranges)
  /\ writes \in Nat

\* The ranges, joined, are the entry's data: no gap, no overlap, nothing missing.
IsWhole(ranges) ==
  /\ Len(ranges) > 0
  /\ ranges[1].from = DATA_OFFSET
  /\ ranges[Len(ranges)].to = DATA_OFFSET + size
  /\ \A i \in 1 .. (Len(ranges) - 1) : ranges[i].to = ranges[i + 1].from

(* Nobody ever reads a part of a file: whatever fails and whatever lands   *)
(* late, an object at the key is the entry's data, all of it, in order.    *)
NeverPartial == object # NoObject => IsWhole(object)

(* "Max parts uploaded concurrently for one entry" (extract.ts:75): also   *)
(* when a failure has interrupted the fibers, no more calls than that are  *)
(* on their way.                                                           *)
FlyingBounded == Cardinality(flying) <= PART_CONCURRENCY

(* The write metric counts objects that exist: one for an entry that is    *)
(* done, none where nothing was written.                                   *)
WritesAreReal ==
  /\ writes <= 1
  /\ writes = 1 => object # NoObject
  /\ ctl = "done" => writes = 1

(* "On any failure the upload is aborted" (extract.ts:262): not so, the    *)
(* README has the behaviour.                                               *)
FailureAborts == ctl = "failed" => upload # "open"

(* What a worker relies on: done means the whole object is there.          *)
Promise == INSTANCE EntryPromise WITH
  outcome <- IF ctl \in {"done", "failed"} THEN ctl ELSE "running",
  object  <- IF object = NoObject THEN "none" ELSE IF IsWhole(object) THEN "whole" ELSE "part"

KeepsEntryPromise == Promise!Spec

=============================================================================
