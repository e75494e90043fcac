------------------------------ MODULE Checksum ------------------------------
(***************************************************************************)
(* The checksum of a STORED entry of the sample (entrySizes of             *)
(* src/scripts/sample-builder/src/builder-do.ts): the data is one pattern  *)
(* over and over and a rest of it, and its CRC-32 is combined from theirs  *)
(* with crc32Combine (src/crc32.ts), whose loop is here in single turns.   *)
(*                                                                         *)
(* CRC-32 is linear: the checksum of blocks one after another is the xor   *)
(* of their checksums, each advanced over the zero bits that stand for     *)
(* what follows it.  An operator of the code (a 32 by 32 matrix of bits)   *)
(* is here the number of zero bits it advances over: squaring a matrix     *)
(* doubles it, applying one adds it; a checksum is the sequence of how far *)
(* each of its blocks was advanced.                                        *)
(***************************************************************************)
EXTENDS Integers, Sequences

CONSTANTS
  StoredSizes,    \* what uncompressedSize may be
  PATTERN_SIZE,
  WORD            \* 2^32: what the operators on bits take their operands modulo

ASSUME ChecksumAssumption ==
  /\ StoredSizes \subseteq Nat
  /\ WORD \in Nat /\ PATTERN_SIZE \in Nat \ {0}
  /\ PATTERN_SIZE < WORD

VARIABLES
  uncompressedSize,
  crc,              \* per block combined so far, the bits it was advanced over
  half,             \* where crc32Combine is: "even", "odd", "done"; or "idle"
  len2, len,        \* the length of the second block, and what is left of it
  even, odd,        \* the two operators
  advanced          \* what crc1 was advanced over

combineVars  == <<half, len2, len, even, odd, advanced>>
checksumVars == <<uncompressedSize, crc, combineVars>>

-----------------------------------------------------------------------------
FullPatterns == uncompressedSize \div PATTERN_SIZE
Rest         == uncompressedSize % PATTERN_SIZE
Blocks       == FullPatterns + (IF Rest > 0 THEN 1 ELSE 0)
BlockSize(k) == IF k <= FullPatterns THEN PATTERN_SIZE ELSE Rest

\* The first block's own checksum, if there is one.
ChecksumInit ==
  /\ uncompressedSize \in StoredSizes
  /\ crc = IF uncompressedSize > 0 THEN <<0>> ELSE <<>>
  /\ half = "idle"
  /\ len2 = 0 /\ len = 0 /\ even = 0 /\ odd = 0 /\ advanced = 0

\* crc32Combine is called for the next block: one zero bit is squared twice.
Combine ==
  /\ half = "idle" /\ Len(crc) \in 1 .. Blocks - 1
  /\ len2' = BlockSize(Len(crc) + 1)
  /\ len' = len2'
  /\ even' = 2
  /\ odd' = 4
  /\ advanced' = 0
  /\ half' = "even"
  /\ UNCHANGED <<uncompressedSize, crc>>

\* len >>>= 1
Halved(n) == (n % WORD) \div 2

\* The lowest bit decides whether the operator is applied.
Applied(operator) == IF len % 2 = 1 THEN advanced + operator ELSE advanced

EvenTurn ==
  /\ half = "even"
  /\ even' = 2 * odd
  /\ advanced' = Applied(even')
  /\ len' = Halved(len)
  /\ half' = IF len' = 0 THEN "done" ELSE "odd"
  /\ UNCHANGED <<uncompressedSize, crc, len2, odd>>

\* Mutant: an operator is squared into itself.
OddAlone ==
  /\ half = "odd"
  /\ odd' = 2 * odd
  /\ advanced' = Applied(odd')
  /\ len' = Halved(len)
  /\ half' = IF len' = 0 THEN "done" ELSE "even"
  /\ UNCHANGED <<uncompressedSize, crc, len2, even>>

OddTurn ==
  /\ half = "odd"
  /\ odd' = 2 * even
  /\ advanced' = Applied(odd')
  /\ len' = Halved(len)
  /\ half' = IF len' = 0 THEN "done" ELSE "even"
  /\ UNCHANGED <<uncompressedSize, crc, len2, even>>

\* crc32Combine returns: the second block joins the first.
Combined ==
  /\ half = "done"
  /\ crc' = [k \in 1 .. Len(crc) + 1 |-> IF k <= Len(crc) THEN crc[k] + advanced ELSE 0]
  /\ half' = "idle"
  /\ UNCHANGED <<uncompressedSize, len2, len, even, odd, advanced>>

ChecksumNext == Combine \/ EvenTurn \/ OddTurn \/ Combined

ChecksumSpec == ChecksumInit /\ [][ChecksumNext]_checksumVars

-----------------------------------------------------------------------------
ChecksumTypeOK ==
  /\ uncompressedSize \in StoredSizes
  /\ crc \in Seq(Nat)
  /\ half \in {"idle", "even", "odd", "done"}
  /\ {len2, len, even, odd, advanced} \subseteq Nat

\* Where block k ends in the data.
EndOf(k) == IF k <= FullPatterns THEN k * PATTERN_SIZE ELSE uncompressedSize

\* "Returns the CRC of the concatenation" (crc32.ts:60): whenever a call has
\* returned, each block's checksum was advanced over exactly the eight bits of
\* every byte behind it.
ChecksumIsExact ==
  /\ ChecksumTypeOK
  /\ Len(crc) <= Blocks
  /\ \A k \in DOMAIN crc : crc[k] = 8 * (EndOf(Len(crc)) - EndOf(k))
  /\ half = "done" => advanced = 8 * len2

=============================================================================
