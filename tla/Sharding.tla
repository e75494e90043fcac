------------------------------ MODULE Sharding ------------------------------
(***************************************************************************)
(* shardEntries (src/src/shard.ts): the loop that gives the entries of a   *)
(* job to its workers, the largest first, each to the worker that has the  *)
(* fewest bytes.                                                           *)
(***************************************************************************)
EXTENDS Integers, FiniteSets, FiniteSetsExt, Functions

CONSTANTS
  Files,            \* the entries a job may be made of
  Sizes,            \* what uncompressedSize may be
  WorkerLimits,     \* what options.maxWorkers may be
  FilesPerWorker    \* what options.filesPerWorker may be

ASSUME ShardingAssumption ==
  /\ Sizes \subseteq Nat
  /\ WorkerLimits \cup FilesPerWorker \subseteq Nat

VARIABLES
  entries, size, options,   \* the arguments
  todo,      \* the entries the loop has still to place
  shard      \* the accumulators, by index

input == <<entries, size, options>>
vars == <<input, todo, shard>>

-----------------------------------------------------------------------------
Larger(a, b) == IF a < b THEN b ELSE a
Smaller(a, b) == IF a < b THEN a ELSE b

CeilDiv(a, b) == (a + b - 1) \div b

ChooseWorkerCount(fileCount, opt) ==
  IF fileCount = 0 THEN 0
  ELSE Larger(1, Smaller(opt.maxWorkers,
                         CeilDiv(fileCount, Larger(1, opt.filesPerWorker))))

ShardCount(files, opt) ==
  Smaller(ChooseWorkerCount(Cardinality(files), opt), Cardinality(files))

Index == 0 .. ShardCount(entries, options) - 1

\* What these would be in a loop over the entries as they come, and in a scan
\* that compares with the first shard only.
AnyEntry(e) == TRUE
LighterThanFirst(i) ==
  LET lighter == {j \in Index : shard[j].totalBytes < shard[0].totalBytes} IN
  IF lighter = {} THEN i = 0 ELSE i = Max(lighter)

\* Where the loop is: the largest of the entries that are left (the sort is
\* stable, so the archive's order decides among equals; here either may come).
Largest(e) == \A other \in todo : size[other] <= size[e]

\* The first of the lightest.
Lightest(i) ==
  \A j \in Index :
    \/ shard[i].totalBytes < shard[j].totalBytes
    \/ shard[i].totalBytes = shard[j].totalBytes /\ i <= j

Init ==
  /\ entries \in SUBSET Files
  /\ size \in [entries -> Sizes]
  /\ options \in [maxWorkers : WorkerLimits, filesPerWorker : FilesPerWorker]
  /\ todo = entries
  /\ shard = [i \in Index |-> [entries |-> {}, totalBytes |-> 0]]

Give(e, i) ==
  shard' = [shard EXCEPT ![i] = [entries |-> @.entries \cup {e},
                                 totalBytes |-> @.totalBytes + size[e]]]

\* What it would be if the entry went on to the next one, too.
PlaceAndKeep ==
  \E e \in todo, i \in Index :
    /\ Largest(e) /\ Lightest(i)
    /\ Give(e, i)
    /\ todo' \in {todo, todo \ {e}}
    /\ UNCHANGED input

\* One turn of the loop.
Place ==
  \E e \in todo, i \in Index :
    /\ Largest(e) /\ Lightest(i)
    /\ Give(e, i)
    /\ todo' = todo \ {e}
    /\ UNCHANGED input

Next == Place

Spec == Init /\ [][Next]_vars

-----------------------------------------------------------------------------
(***************************************************************************)
(* What is promised                                                        *)
(***************************************************************************)
Returned == todo = {}

ShardingTypeOK ==
  /\ entries \subseteq Files
  /\ size \in [entries -> Nat]
  /\ todo \subseteq entries
  /\ shard \in [Index -> [entries : SUBSET entries, totalBytes : Nat]]

\* "Every input entry appears in EXACTLY ONE shard (no drops, no dupes)"
\* (shard.ts:81): at every turn an entry is left and in none, or in one.
Holds(e) == {i \in Index : e \in shard[i].entries}
ExactlyOnce ==
  \A e \in entries :
    IF e \in todo THEN Holds(e) = {} ELSE \E i \in Index : Holds(e) = {i}

\* "Shard byte totals are within one max-entry of each other (LPT bound)"
\* (shard.ts:84), at every turn.
WithinOneEntry ==
  \A i, j \in Index :
    \/ shard[i].totalBytes <= shard[j].totalBytes
    \/ \E e \in entries : shard[i].totalBytes - shard[j].totalBytes <= size[e]

\* "totalBytes: Sum of uncompressedSize over entries" (shard.ts:26).
SumOfSizes(files) == SumFunctionOnSet(size, files)

\* "the classic multiprocessor-scheduling approximation" (shard.ts:76): the
\* heaviest shard has at most 4/3 - 1/(3 n) of what the best of all the ways
\* to split the entries among n workers would leave to its heaviest.
Heaviest == Max({shard[i].totalBytes : i \in Index})
HeaviestOf(split) == Max({SumOfSizes({e \in entries : split[e] = i}) : i \in Index})
Optimum == Min({HeaviestOf(split) : split \in [entries -> Index]})
NearTheOptimum ==
  Returned /\ entries # {} =>
    LET n == Cardinality(Index) IN 3 * n * Heaviest <= (4 * n - 1) * Optimum

-----------------------------------------------------------------------------
(* Said of the program and not so: the README has the behaviours.          *)

\* "it never exceeds the number of entries (no empty shards)" (shard.ts:83).
NoEmptyShard == Returned => \A i \in Index : shard[i].entries # {}

=============================================================================
