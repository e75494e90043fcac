------------------------------ MODULE ZipIndex ------------------------------
(***************************************************************************)
(* readIndex (src/src/extract.ts) over the ZIP parsers of src/src/zip: the *)
(* archive's end is read, the end-of-central-directory record is looked    *)
(* for in it (classic or ZIP64), the window is grown once when that fails, *)
(* and the central directory is read and parsed, resolving the fields that *)
(* ZIP64 has promoted.                                                     *)
(*                                                                         *)
(* An archive is described by the lengths and the values that decide where *)
(* things are, not by its bytes.                                           *)
(***************************************************************************)
EXTENDS Integers, Sequences

CONSTANTS
  EOCD, EOCD64_LOCATOR, EOCD64,  \* lengths of the records at the archive's end
  CENTRAL_FILE_HEADER,           \* length of an entry's header in the directory
  INITIAL_TAIL_BYTES, MAX_TAIL_BYTES,
  MAX_COMMENT,                   \* the longest archive comment
  U16, U32,                      \* the sentinels of 16- and 32-bit fields
  Archives                       \* the archives read

ASSUME ZipAssumption ==
  /\ {EOCD, EOCD64_LOCATOR, EOCD64, CENTRAL_FILE_HEADER, U16, U32} \subseteq Nat \ {0}
  /\ MAX_COMMENT \in Nat
  /\ INITIAL_TAIL_BYTES \in Nat \ {0}
  /\ MAX_TAIL_BYTES \in Nat
  /\ INITIAL_TAIL_BYTES <= MAX_TAIL_BYTES /\ MAX_TAIL_BYTES <= 2 * INITIAL_TAIL_BYTES
  /\ EOCD + EOCD64_LOCATOR + EOCD64 + MAX_COMMENT <= MAX_TAIL_BYTES

Entry == [uncompressed : Nat, compressed : Nat, localOffset : Nat]

(* data: the length of what precedes the directory.  promoted: the fields  *)
(* the writer promotes to ZIP64 whether they overflow or not.  fake: the   *)
(* EOCD signature in the comment, counted from the comment's start, 0 for  *)
(* none.  says: what the bytes after that signature say, which may be      *)
(* anything.  decoy: the headers one after the other in the bytes that it  *)
(* points to, which may be some of the directory's own or those of an      *)
(* archive stored inside this one.  broken: the directory header whose     *)
(* signature is damaged, or 0.                                             *)
Location == [offset : Nat, size : Nat, entryCount : Nat]

Archive == [data : Nat, entries : Seq(Entry),
            promoted : SUBSET {"uncompressed", "compressed", "localOffset"},
            zip64 : BOOLEAN, comment : 0 .. MAX_COMMENT, fake : Nat,
            says : Location, decoy : Seq(Entry), broken : Nat]

ASSUME ArchivesAssumption == Archives \subseteq Archive

VARIABLES
  archive,
  ctl,        \* "tail", "directory", "done" or "failed"
  tailBytes,  \* how much of the archive's end is read
  location,   \* where the central directory was found
  index,      \* the entries parsed
  reads       \* the reads of the source

vars == <<archive, ctl, tailBytes, location, index, reads>>

-----------------------------------------------------------------------------
(* The layout of an archive, as its writer laid it out.                    *)
CdOffset(a) == a.data
CdSize(a)   == CENTRAL_FILE_HEADER * Len(a.entries)
Eocd64At(a) == CdOffset(a) + CdSize(a)
LocatorAt(a) == Eocd64At(a) + EOCD64
EocdAt(a)   == IF a.zip64 THEN LocatorAt(a) + EOCD64_LOCATOR ELSE Eocd64At(a)
CommentAt(a) == EocdAt(a) + EOCD
Size(a)     == CommentAt(a) + a.comment

Directory(a) == [offset |-> CdOffset(a), size |-> CdSize(a), entryCount |-> Len(a.entries)]

\* The archive's comment has the EOCD signature in it.
Misleads(a) == a.fake \in 1 .. a.comment

\* The offsets at which the archive has the EOCD signature, from its own record on.
EocdSignatures(a) ==
  {EocdAt(a)} \union (IF Misleads(a) THEN {CommentAt(a) + a.fake - 1} ELSE {})

\* The fields of the record at `at`: the directory, sentinels, or what the comment says.
EocdFields(a, at) ==
  IF at # EocdAt(a) THEN a.says
  ELSE IF a.zip64 THEN [offset |-> U32, size |-> U32, entryCount |-> U16]
  ELSE Directory(a)

(* A promoted field holds the sentinel and its value goes to the extra     *)
(* field, in the order uncompressed, compressed, local offset.             *)
Promotes(a, f, value) == f \in a.promoted \/ value >= U32

CentralHeader(a, e) ==
  LET u == Promotes(a, "uncompressed", e.uncompressed)
      c == Promotes(a, "compressed", e.compressed)
      o == Promotes(a, "localOffset", e.localOffset)
  IN  [uncompressed |-> IF u THEN U32 ELSE e.uncompressed,
       compressed   |-> IF c THEN U32 ELSE e.compressed,
       localOffset  |-> IF o THEN U32 ELSE e.localOffset,
       extra |-> (IF u THEN <<e.uncompressed>> ELSE <<>>)
                 \o (IF c THEN <<e.compressed>> ELSE <<>>)
                 \o (IF o THEN <<e.localOffset>> ELSE <<>>)]

-----------------------------------------------------------------------------
Init ==
  /\ archive \in Archives
  /\ ctl = "tail"
  /\ tailBytes = INITIAL_TAIL_BYTES
  /\ location = [offset |-> 0, size |-> 0, entryCount |-> 0]
  /\ index = <<>>
  /\ reads = 0

Larger(a, b) == IF a > b THEN a ELSE b
Smaller(a, b) == IF a < b THEN a ELSE b

\* Where the window on the archive's end begins.
TailStart(a, bytes) == Larger(0, Size(a) - bytes)

\* Mutant: only the record at the very end of the window is looked for.
FoundNoComment(a, start) == {at \in EocdSignatures(a) : at >= start /\ at + EOCD = Size(a)}

\* findLastSignature: the signatures inside the window.
Found(a, start) == {at \in EocdSignatures(a) : at >= start}

NeedsZip64(f) == f.offset = U32 \/ f.size = U32 \/ f.entryCount = U16

\* locateViaZip64 finds the locator and, in the window, the record it points to.
ZipLocated(a, start, at) ==
  /\ at - EOCD64_LOCATOR >= start
  /\ a.zip64 /\ at - EOCD64_LOCATOR = LocatorAt(a)
  /\ Eocd64At(a) >= start

(* locateCentralDirectory of the window that begins at start, with the     *)
(* record at `at` the last one in it: the location found, if any.          *)
Located(a, start, at) ==
  LET f == EocdFields(a, at) IN
  IF at + EOCD > Size(a) THEN {}
  ELSE IF ~NeedsZip64(f) THEN {f}
  ELSE IF ZipLocated(a, start, at) THEN {Directory(a)} ELSE {}

LastOf(S) == {x \in S : \A y \in S : y <= x}

LocatedIn(a, start) == UNION {Located(a, start, at) : at \in LastOf(Found(a, start))}

CanGrow(start) == start > 0 /\ tailBytes < MAX_TAIL_BYTES

Grown(bytes) == Smaller(2 * bytes, MAX_TAIL_BYTES)

(* The tail is read and searched; when it does not help it is doubled.     *)
ReadTail ==
  LET start == TailStart(archive, tailBytes)
      found == LocatedIn(archive, start)
  IN  /\ ctl = "tail"
      /\ reads' = reads + 1
      /\ \/ /\ found # {}
            /\ location' \in found
            /\ ctl' = "directory"
            /\ UNCHANGED tailBytes
         \/ /\ found = {} /\ CanGrow(start)
            /\ tailBytes' = Grown(tailBytes)
            /\ UNCHANGED <<ctl, location>>
         \/ /\ found = {} /\ ~CanGrow(start)
            /\ ctl' = "failed"
            /\ UNCHANGED <<tailBytes, location>>
      /\ UNCHANGED <<archive, index>>

\* Mutant: a value is taken from the extra field whether the field needs it or not.
ResolveAll(h) ==
  IF Len(h.extra) < 3 THEN [uncompressed |-> h.uncompressed, compressed |-> h.compressed,
                            localOffset |-> h.localOffset]
  ELSE [uncompressed |-> h.extra[1], compressed |-> h.extra[2], localOffset |-> h.extra[3]]

(* resolveSizes: the extra field is walked in its fixed order, a value     *)
(* taken for each field that holds the sentinel.                           *)
ResolveSizes(h) ==
  LET u == IF h.uncompressed = U32 THEN 1 ELSE 0
      c == IF h.compressed = U32 THEN u + 1 ELSE u
      o == c + 1
  IN  [uncompressed |-> IF h.uncompressed = U32 THEN h.extra[1] ELSE h.uncompressed,
       compressed   |-> IF h.compressed = U32 THEN h.extra[c] ELSE h.compressed,
       localOffset  |-> IF h.localOffset = U32 THEN h.extra[o] ELSE h.localOffset]

(* The entries of the headers the parser goes through: those in the        *)
(* located range, up to a damaged one.                                     *)
Headers(a, loc) ==
  IF loc # Directory(a) THEN a.decoy
  ELSE IF a.broken \in 1 .. Len(a.entries) THEN SubSeq(a.entries, 1, a.broken - 1)
  ELSE a.entries

\* parseCentralDirectory: each header gives an entry.
Parsed(a, loc) ==
  LET headers == Headers(a, loc)
  IN  [i \in DOMAIN headers |-> ResolveSizes(CentralHeader(a, headers[i]))]

(* The directory is read and parsed; the loop ends where the signatures    *)
(* end and does not ask whether it saw as many entries as were declared.   *)
ReadDirectory ==
  /\ ctl = "directory"
  /\ reads' = reads + 1
  /\ index' = Parsed(archive, location)
  /\ ctl' = IF Len(Parsed(archive, location)) > location.entryCount THEN "failed" ELSE "done"
  /\ UNCHANGED <<archive, tailBytes, location>>

(* A read of the source fails for good, or what was read does not parse: a *)
(* header that its range cuts off, or one of an unknown method.            *)
ReadFails ==
  /\ ctl \in {"tail", "directory"}
  /\ reads' = reads + 1
  /\ ctl' = "failed"
  /\ UNCHANGED <<archive, tailBytes, location, index>>

Next == ReadTail \/ ReadDirectory \/ ReadFails

Spec == Init /\ [][Next]_vars

-----------------------------------------------------------------------------
WellFormed(a) == a.fake = 0 /\ a.broken = 0

\* A count at the sentinel without ZIP64 records is ambiguous.
Ambiguous(a) == ~a.zip64 /\ NeedsZip64(Directory(a))

(* Every variable has its type (extract.ts:73-131).                        *)
ZipTypeOK ==
  /\ archive \in Archive
  /\ ctl \in {"tail", "directory", "done", "failed"}
  /\ tailBytes \in INITIAL_TAIL_BYTES .. MAX_TAIL_BYTES
  /\ location \in Location
  /\ index \in Seq(Entry)
  /\ reads \in Nat

(* The index of a well-formed archive is its entries, each with its sizes  *)
(* and its offset, however they were promoted; and the location found in   *)
(* the window, before or after it grew, is that of the directory.          *)
IndexIsExact ==
  WellFormed(archive) =>
    /\ ctl \in {"directory", "done"} => location = Directory(archive)
    /\ ctl = "done" => index = archive.entries

(* "~128 KB always covers EOCD + ZIP64 records + a maximal comment"        *)
(* (extract.ts:35): the index of a well-formed archive is always found     *)
(* unless a read fails, in at most three reads.                            *)
GrowthSuffices ==
  /\ reads <= 3
  /\ (WellFormed(archive) /\ ~Ambiguous(archive) /\ ctl = "tail") =>
       (LocatedIn(archive, TailStart(archive, tailBytes)) = {}
          => CanGrow(TailStart(archive, tailBytes)))

(* Types, and the window that is large enough.                             *)
ZipInv == ZipTypeOK /\ GrowthSuffices

-----------------------------------------------------------------------------
(* Said of the program and not so: the README has the behaviours.          *)

(* "Read and parse the central directory, returning every entry"           *)
(* (extract.ts:70).                                                        *)
EveryEntry == ctl = "done" => Len(index) = location.entryCount

(* "we scan backwards to find it reliably even when the same signature     *)
(* bytes happen to appear earlier in the data" (byte-reader.ts:58).        *)
FoundReliably == ctl \in {"directory", "done"} => location = Directory(archive)

=============================================================================
