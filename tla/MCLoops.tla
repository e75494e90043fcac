------------------------------ MODULE MCLoops ------------------------------
(* The three loops that compute something and wait for nothing, each by    *)
(* itself: the shards of a job, the plan of a sample, a checksum.          *)
EXTENDS Sharding, SamplePlan, Checksum, TLC

VARIABLE loop

\* The entries to be sharded are interchangeable.
SymmetricFiles == Permutations(Files)

\* The sizes of plan.ts, in halves of a megabyte.
MCMediaSizes == <<30, 36, 40, 44, 50, 34, 38, 48>>
MCTextSizes  == <<1, 2, 3, 4, 5, 6>>

\* Nothing, less than the floor, around the first sizes and around the first
\* and the second text entry.
MCTargets == (0 .. 3) \union (28 .. 34) \union (465 .. 500) \union {960, 1000}

\* The loops that do not run have one input only.
OneInput ==
  /\ loop # "sharding" => entries = {} /\ options = [maxWorkers |-> 0, filesPerWorker |-> 0]
  /\ loop # "plan"     => targetBytes = 0
  /\ loop # "checksum" => uncompressedSize = 0

LoopsInit ==
  loop \in {"sharding", "plan", "checksum"} /\ Init /\ PlanInit /\ ChecksumInit /\ OneInput

LoopsNext ==
  /\ UNCHANGED loop
  /\ \/ loop = "sharding" /\ Next         /\ UNCHANGED <<planVars, checksumVars>>
     \/ loop = "plan"     /\ PlanNext     /\ UNCHANGED <<vars, checksumVars>>
     \/ loop = "checksum" /\ ChecksumNext /\ UNCHANGED <<vars, planVars>>

LoopsSpec == LoopsInit /\ [][LoopsNext]_<<loop, vars, planVars, checksumVars>>

=============================================================================
