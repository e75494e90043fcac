----------------------------- MODULE SamplePlan -----------------------------
(***************************************************************************)
(* buildPlan (src/scripts/sample-builder/src/plan.ts): the loop that lists *)
(* the entries of a sample until their data reaches the target.            *)
(***************************************************************************)
EXTENDS Integers, Sequences

CONSTANTS
  PlanTargets,     \* what targetBytes may be
  MB,              \* the least size of a media entry
  MEDIA_SIZES, TEXT_SIZES,       \* the sizes of the entries, in turn
  MEDIA_FOLDERS, TEXT_FOLDERS,   \* how many folders they go to, in turn
  TEXT_EVERY                     \* the media entries between two text entries

ASSUME PlanAssumption ==
  /\ PlanTargets \subseteq Nat
  /\ {MB, MEDIA_FOLDERS, TEXT_FOLDERS, TEXT_EVERY} \subseteq Nat \ {0}
  /\ MEDIA_SIZES \in Seq(Nat \ {0}) /\ MEDIA_SIZES # <<>>
  /\ TEXT_SIZES \in Seq(Nat \ {0}) /\ TEXT_SIZES # <<>>

\* kind decides the method; folder and number are the name.
PlannedEntry == [kind : {"media", "text"}, folder : Nat, number : Nat, uncompressedSize : Nat]

VARIABLES targetBytes, plan, dataTotal, mediaIdx, textIdx

planVars == <<targetBytes, plan, dataTotal, mediaIdx, textIdx>>

-----------------------------------------------------------------------------
PlanInit ==
  /\ targetBytes \in PlanTargets
  /\ plan = <<>>
  /\ dataTotal = 0
  /\ mediaIdx = 0
  /\ textIdx = 0

\* sizes[i % sizes.length]
InTurn(sizes, i) == sizes[(i % Len(sizes)) + 1]

TextEntry == [kind |-> "text", folder |-> textIdx % TEXT_FOLDERS, number |-> textIdx,
              uncompressedSize |-> InTurn(TEXT_SIZES, textIdx)]

TextIsDue == mediaIdx > 0 /\ mediaIdx % TEXT_EVERY = 0

AtLeast(a, b) == IF a < b THEN b ELSE a

\* Mutant: the last entry is not trimmed.
Untrimmed(remaining) == InTurn(MEDIA_SIZES, mediaIdx)

\* The next size in turn, or what remains when that is less, but no less than MB.
MediaSize(remaining) ==
  IF remaining < InTurn(MEDIA_SIZES, mediaIdx) THEN AtLeast(remaining, MB)
  ELSE InTurn(MEDIA_SIZES, mediaIdx)

MediaEntry == [kind |-> "media", folder |-> mediaIdx % MEDIA_FOLDERS, number |-> mediaIdx,
               uncompressedSize |-> MediaSize(targetBytes - dataTotal)]

\* One turn of the loop: a text entry if one is due, and a media entry.
PlanTurn ==
  /\ dataTotal < targetBytes
  /\ plan' = (IF TextIsDue THEN plan \o <<TextEntry>> ELSE plan) \o <<MediaEntry>>
  /\ textIdx' = IF TextIsDue THEN textIdx + 1 ELSE textIdx
  /\ dataTotal' = dataTotal + MediaEntry.uncompressedSize
  /\ mediaIdx' = mediaIdx + 1
  /\ UNCHANGED targetBytes

PlanNext == PlanTurn

PlanSpec == PlanInit /\ [][PlanNext]_planVars

-----------------------------------------------------------------------------
PlanTypeOK ==
  /\ targetBytes \in PlanTargets
  /\ plan \in Seq(PlannedEntry)
  /\ {dataTotal, mediaIdx, textIdx} \subseteq Nat

\* "so we land just at/above the target" (plan.ts:87): the data never exceeds
\* the target by as much as the floor of the last entry, and what the loop
\* counted is the data of the media entries in the plan.
LandsAtTarget == dataTotal < targetBytes + MB
DataOf(e) == IF e.kind = "media" THEN e.uncompressedSize ELSE 0
CountsItsData ==
  LET total[n \in 0 .. Len(plan)] == IF n = 0 THEN 0 ELSE total[n - 1] + DataOf(plan[n])
  IN  dataTotal = total[Len(plan)]

\* No two entries of a plan have one name (plan.ts:72, 93): the records of a
\* build and its cache of compressed texts are kept by name.
SameName(a, b) == a.kind = b.kind /\ a.folder = b.folder /\ a.number = b.number
PlanNamesDiffer == \A i, j \in DOMAIN plan : SameName(plan[i], plan[j]) => i = j

\* "Emit one text entry every 12 media entries" (plan.ts:67).
TextsBetween == textIdx = IF mediaIdx = 0 THEN 0 ELSE (mediaIdx - 1) \div TEXT_EVERY

\* A plan for a target holds that much data, under names that differ, with a
\* text entry after every so many media entries (plan.ts:60-103).
PlanIsSound ==
  PlanTypeOK /\ LandsAtTarget /\ CountsItsData /\ PlanNamesDiffer /\ TextsBetween

=============================================================================
