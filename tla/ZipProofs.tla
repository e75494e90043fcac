------------------------------ MODULE ZipProofs ------------------------------
(***************************************************************************)
(* What readIndex promises, for archives of any size, any promotion and    *)
(* any comment, and what the verifier of the samples (verify-disk.ts)      *)
(* promises of every archive that it passes.                               *)
(***************************************************************************)
EXTENDS VerifyDisk, TLAPS

-----------------------------------------------------------------------------
(* The inductive invariant: what is parsed are entries, each window has    *)
(* its read, and what is known of a well-formed archive is right.          *)
ZipIInv ==
  /\ ZipTypeOK
  /\ ctl = "tail" => \/ (reads = 0 /\ tailBytes = INITIAL_TAIL_BYTES)
                     \/ (reads = 1 /\ tailBytes = MAX_TAIL_BYTES)
  /\ ctl = "directory" => reads <= 2
  /\ reads <= 3
  /\ IndexIsExact

-----------------------------------------------------------------------------
(* One header.                                                             *)

(* The positional walk inverts the promotion: whatever fields the writer   *)
(* promoted, every field is resolved to its value                          *)
(* (central-directory.ts:124-168).                                         *)
LEMMA Resolves ==
  ASSUME NEW a \in Archive, NEW e \in Entry
  PROVE  ResolveSizes(CentralHeader(a, e)) = e
<1> DEFINE u == Promotes(a, "uncompressed", e.uncompressed)
           c == Promotes(a, "compressed", e.compressed)
           o == Promotes(a, "localOffset", e.localOffset)
           h == CentralHeader(a, e)
           x == IF u THEN <<e.uncompressed>> ELSE <<>>
           y == IF c THEN <<e.compressed>> ELSE <<>>
           z == IF o THEN <<e.localOffset>> ELSE <<>>
<1>1. /\ e.uncompressed \in Nat /\ e.compressed \in Nat /\ e.localOffset \in Nat
      /\ e = [uncompressed |-> e.uncompressed, compressed |-> e.compressed,
              localOffset |-> e.localOffset]
  BY DEF Entry
<1>2. U32 \in Nat
  BY ZipAssumption
<1>3. /\ (h.uncompressed = U32) <=> u
      /\ (h.compressed = U32) <=> c
      /\ (h.localOffset = U32) <=> o
  BY <1>1, <1>2 DEF CentralHeader, Promotes
<1>4. /\ ~u => h.uncompressed = e.uncompressed
      /\ ~c => h.compressed = e.compressed
      /\ ~o => h.localOffset = e.localOffset
      /\ h.extra = x \o y \o z
  BY DEF CentralHeader
<1> HIDE DEF h, u, c, o
<1>5. /\ u => h.extra[1] = e.uncompressed
      /\ c => h.extra[IF u THEN 2 ELSE 1] = e.compressed
      /\ o => h.extra[(IF c THEN (IF u THEN 2 ELSE 1) ELSE (IF u THEN 1 ELSE 0)) + 1] = e.localOffset
  <2>1. CASE u /\ c /\ o
    BY <2>1, <1>1, <1>4
  <2>2. CASE u /\ c /\ ~o
    BY <2>2, <1>1, <1>4
  <2>3. CASE u /\ ~c /\ o
    BY <2>3, <1>1, <1>4
  <2>4. CASE u /\ ~c /\ ~o
    BY <2>4, <1>1, <1>4
  <2>5. CASE ~u /\ c /\ o
    BY <2>5, <1>1, <1>4
  <2>6. CASE ~u /\ c /\ ~o
    BY <2>6, <1>1, <1>4
  <2>7. CASE ~u /\ ~c /\ o
    BY <2>7, <1>1, <1>4
  <2>8. CASE ~u /\ ~c /\ ~o
    BY <2>8
  <2>9. QED
    BY <2>1, <2>2, <2>3, <2>4, <2>5, <2>6, <2>7, <2>8
<1>6. ResolveSizes(h) = [uncompressed |-> e.uncompressed, compressed |-> e.compressed,
                         localOffset |-> e.localOffset]
  BY <1>3, <1>4, <1>5 DEF ResolveSizes
<1>7. QED
  BY <1>1, <1>6 DEF h

-----------------------------------------------------------------------------
(* The end of the archive.                                                 *)

(* The lengths of an archive are numbers.                                  *)
LEMMA Lengths ==
  ASSUME NEW a \in Archive
  PROVE  /\ a.comment \in 0 .. MAX_COMMENT /\ a.zip64 \in BOOLEAN /\ a.entries \in Seq(Entry)
         /\ Len(a.entries) \in Nat /\ a.fake \in Nat /\ a.broken \in Nat
         /\ CdOffset(a) \in Nat /\ CdSize(a) \in Nat /\ Eocd64At(a) \in Nat
         /\ EocdAt(a) = (IF a.zip64 THEN Eocd64At(a) + EOCD64 + EOCD64_LOCATOR ELSE Eocd64At(a))
         /\ EocdAt(a) \in Nat /\ Size(a) \in Nat /\ Size(a) = EocdAt(a) + EOCD + a.comment
         /\ Directory(a) \in Location /\ a.says \in Location /\ a.decoy \in Seq(Entry)
<1>1. /\ a.comment \in 0 .. MAX_COMMENT /\ a.zip64 \in BOOLEAN /\ a.entries \in Seq(Entry)
      /\ a.data \in Nat /\ a.fake \in Nat /\ a.broken \in Nat
      /\ a.says \in Location /\ a.decoy \in Seq(Entry)
  BY DEF Archive
<1>2. {EOCD, EOCD64, EOCD64_LOCATOR, CENTRAL_FILE_HEADER} \subseteq Nat /\ MAX_COMMENT \in Nat
  BY ZipAssumption
<1>3. Len(a.entries) \in Nat
  BY <1>1
<1>4. CdOffset(a) \in Nat /\ CdSize(a) \in Nat
  BY <1>1, <1>2, <1>3 DEF CdOffset, CdSize
<1>5. Eocd64At(a) \in Nat
  BY <1>4 DEF Eocd64At
<1>6. /\ EocdAt(a) = (IF a.zip64 THEN Eocd64At(a) + EOCD64 + EOCD64_LOCATOR ELSE Eocd64At(a))
      /\ EocdAt(a) \in Nat
  BY <1>2, <1>5 DEF EocdAt, LocatorAt
<1>7. Size(a) \in Nat /\ Size(a) = EocdAt(a) + EOCD + a.comment
  BY <1>1, <1>2, <1>6 DEF Size, CommentAt
<1>8. QED
  BY <1>1, <1>3, <1>4, <1>5, <1>6, <1>7 DEF Directory, Location

(* Whatever the window, what is found in an archive whose comment does not *)
(* mislead is its directory; and in any archive it is a location.          *)
LEMMA OnlyItsDirectory ==
  ASSUME NEW a \in Archive, NEW start \in Nat, NEW f \in LocatedIn(a, start)
  PROVE  /\ f \in Location
         /\ ~Misleads(a) => f = Directory(a)
<1>1. PICK at \in LastOf(Found(a, start)) : f \in Located(a, start, at)
  BY DEF LocatedIn
<1>2. at \in EocdSignatures(a)
  BY <1>1 DEF LastOf, Found
<1>3. Directory(a) \in Location
  BY Lengths
<1>4. (f = EocdFields(a, at) /\ ~NeedsZip64(EocdFields(a, at))) \/ f = Directory(a)
  BY <1>1 DEF Located
<1>5. U32 \in Nat /\ U16 \in Nat
  BY ZipAssumption
<1>6. EocdFields(a, at) \in Location
  BY <1>3, <1>5, Lengths DEF EocdFields, Location
<1>7. ASSUME ~Misleads(a) PROVE f = Directory(a)
  <2>1. at = EocdAt(a)
    BY <1>2, <1>7 DEF EocdSignatures
  <2>2. a.zip64 => NeedsZip64(EocdFields(a, at))
    BY <2>1 DEF EocdFields, NeedsZip64
  <2>3. ~a.zip64 => EocdFields(a, at) = Directory(a)
    BY <2>1 DEF EocdFields
  <2>4. QED
    BY <1>4, <2>2, <2>3
<1>8. QED
  BY <1>3, <1>4, <1>6, <1>7

(* A window that cannot grow any more holds all that is needed.            *)
LEMMA LargeEnough ==
  ASSUME NEW a \in Archive, WellFormed(a), ~Ambiguous(a),
         NEW bytes \in Nat, TailStart(a, bytes) = 0 \/ bytes >= MAX_TAIL_BYTES
  PROVE  LocatedIn(a, TailStart(a, bytes)) # {}
<1> DEFINE start == TailStart(a, bytes)
<1>1. /\ {EOCD, EOCD64, EOCD64_LOCATOR, MAX_COMMENT, MAX_TAIL_BYTES} \subseteq Nat
      /\ EOCD + EOCD64_LOCATOR + EOCD64 + MAX_COMMENT <= MAX_TAIL_BYTES
  BY ZipAssumption
<1>2. start = (IF Size(a) - bytes < 0 THEN 0 ELSE Size(a) - bytes)
  BY Lengths DEF TailStart, Larger
<1>3. start \in Nat /\ EocdAt(a) >= start /\ EocdAt(a) + EOCD <= Size(a)
      /\ (a.zip64 => Eocd64At(a) >= start)
  <2>1. /\ Size(a) \in Nat /\ EocdAt(a) \in Nat /\ Eocd64At(a) \in Nat
        /\ a.comment \in Nat /\ a.comment <= MAX_COMMENT
        /\ Size(a) = EocdAt(a) + EOCD + a.comment
    BY <1>1, Lengths
  <2>2. start \in Nat
    BY <2>1, <1>2
  <2>3. start = 0 \/ start + MAX_TAIL_BYTES <= Size(a)
    BY <2>1, <1>1, <1>2
  <2>4. start = 0 \/ start + EOCD64_LOCATOR + EOCD64 <= EocdAt(a)
    BY <2>1, <2>2, <2>3, <1>1
  <2>5. CASE a.zip64
    <3>1. EocdAt(a) = Eocd64At(a) + EOCD64 + EOCD64_LOCATOR
      BY <2>5, Lengths
    <3>2. QED
      BY <3>1, <2>1, <2>2, <2>4, <1>1
  <2>6. CASE ~a.zip64
    BY <2>6, <2>1, <2>2, <2>4, <1>1
  <2>7. QED
    BY <2>5, <2>6
<1>4. EocdSignatures(a) = {EocdAt(a)}
  BY Lengths DEF WellFormed, Misleads, EocdSignatures
<1> HIDE DEF start
<1>5. LastOf(Found(a, start)) = {EocdAt(a)}
  BY <1>3, <1>4, Lengths DEF LastOf, Found
<1>6. Directory(a) \in Located(a, start, EocdAt(a))
  <2>1. CASE a.zip64
    <3>1. EocdAt(a) - EOCD64_LOCATOR = LocatorAt(a) /\ EocdAt(a) - EOCD64_LOCATOR >= start
      <4>1. EocdAt(a) = Eocd64At(a) + EOCD64 + EOCD64_LOCATOR /\ Eocd64At(a) \in Nat
        BY <2>1, Lengths
      <4>2. LocatorAt(a) = Eocd64At(a) + EOCD64
        BY DEF LocatorAt
      <4>3. QED
        BY <4>1, <4>2, <2>1, <1>1, <1>3
    <3>2. ZipLocated(a, start, EocdAt(a))
      BY <2>1, <3>1, <1>3 DEF ZipLocated
    <3>3. NeedsZip64(EocdFields(a, EocdAt(a)))
      BY <2>1 DEF EocdFields, NeedsZip64
    <3>4. ~(EocdAt(a) + EOCD > Size(a))
      BY <1>1, <1>3, Lengths
    <3>5. QED
      BY <3>2, <3>3, <3>4 DEF Located
  <2>2. CASE ~a.zip64
    <3>1. EocdFields(a, EocdAt(a)) = Directory(a) /\ ~NeedsZip64(Directory(a))
      BY <2>2 DEF EocdFields, Ambiguous
    <3>2. ~(EocdAt(a) + EOCD > Size(a))
      BY <1>1, <1>3, Lengths
    <3>3. QED
      BY <3>1, <3>2 DEF Located
  <2>3. QED
    BY <2>1, <2>2
<1>7. QED
  BY <1>5, <1>6 DEF LocatedIn, start

-----------------------------------------------------------------------------
(* The run.                                                                *)

(* The reader starts with no read made.                                    *)
LEMMA ZipInit == Init => ZipIInv
<1> SUFFICES ASSUME Init PROVE ZipIInv
  OBVIOUS
<1>1. INITIAL_TAIL_BYTES \in INITIAL_TAIL_BYTES .. MAX_TAIL_BYTES
  BY ZipAssumption
<1>2. ZipTypeOK
  BY <1>1, ArchivesAssumption DEF Init, ZipTypeOK, Location
<1>3. QED
  BY <1>2 DEF Init, ZipIInv, IndexIsExact

(* Every header that the parser goes through gives its entry back, and     *)
(* those of a directory that is not damaged are all its entries.           *)
LEMMA ParsedIsHeaders ==
  ASSUME NEW a \in Archive, NEW loc
  PROVE  /\ Headers(a, loc) \in Seq(Entry)
         /\ Parsed(a, loc) = Headers(a, loc)
         /\ loc = Directory(a) =>
              \/ Headers(a, loc) = a.entries
              \/ (a.broken # 0 /\ Len(Headers(a, loc)) # Len(a.entries))
<1> DEFINE h == Headers(a, loc)
<1>1. /\ a.entries \in Seq(Entry) /\ Len(a.entries) \in Nat /\ a.broken \in Nat
      /\ a.decoy \in Seq(Entry)
  BY Lengths
<1>2. ASSUME a.broken \in 1 .. Len(a.entries)
      PROVE  /\ SubSeq(a.entries, 1, a.broken - 1) \in Seq(Entry)
             /\ Len(SubSeq(a.entries, 1, a.broken - 1)) = a.broken - 1
             /\ a.broken - 1 # Len(a.entries) /\ a.broken # 0
  BY <1>1, <1>2
<1>3. h \in Seq(Entry)
  BY <1>1, <1>2 DEF Headers
<1>4. loc = Directory(a) =>
        h = a.entries \/ (a.broken # 0 /\ Len(h) # Len(a.entries))
  <2> DEFINE front == SubSeq(a.entries, 1, a.broken - 1)
             cut == a.broken \in 1 .. Len(a.entries)
  <2>1. cut => Len(front) # Len(a.entries) /\ a.broken # 0
    BY <1>2
  <2>2. loc = Directory(a) => h = IF cut THEN front ELSE a.entries
    BY DEF Headers
  <2> HIDE DEF front, cut, h
  <2>3. QED
    BY <2>1, <2>2
<1> HIDE DEF h
<1>5. \A i \in DOMAIN h : ResolveSizes(CentralHeader(a, h[i])) = h[i]
  BY <1>3, Resolves
<1>6. Parsed(a, loc) = [i \in DOMAIN h |-> h[i]]
  BY <1>5 DEF Parsed, h
<1>7. h = [i \in DOMAIN h |-> h[i]]
  BY <1>3
<1>8. QED
  BY <1>3, <1>4, <1>6, <1>7 DEF h

(* The tail read: what is found is the directory, and the window grows at  *)
(* most once, to its largest (extract.ts:73-115).                          *)
LEMMA TailStep == ZipIInv /\ ReadTail => ZipIInv'
<1> SUFFICES ASSUME ZipIInv, ReadTail PROVE ZipIInv'
  OBVIOUS
<1> DEFINE start == TailStart(archive, tailBytes)
<1>1. /\ archive \in Archive /\ reads \in Nat
      /\ tailBytes \in INITIAL_TAIL_BYTES .. MAX_TAIL_BYTES
      /\ location \in Location
      /\ index \in Seq(Entry)
  BY DEF ZipIInv, ZipTypeOK
<1>2. /\ ctl = "tail" /\ reads' = reads + 1
      /\ UNCHANGED <<archive, index>>
      /\ \/ (reads = 0 /\ tailBytes = INITIAL_TAIL_BYTES)
         \/ (reads = 1 /\ tailBytes = MAX_TAIL_BYTES)
  BY DEF ReadTail, ZipIInv
<1>3. /\ INITIAL_TAIL_BYTES \in Nat /\ MAX_TAIL_BYTES \in Nat
      /\ INITIAL_TAIL_BYTES <= MAX_TAIL_BYTES /\ MAX_TAIL_BYTES <= 2 * INITIAL_TAIL_BYTES
  BY ZipAssumption
<1>4. start \in Nat
  BY <1>1, <1>3, Lengths DEF TailStart, Larger
<1>5. CASE LocatedIn(archive, start) # {} /\ location' \in LocatedIn(archive, start)
           /\ ctl' = "directory" /\ UNCHANGED tailBytes
  <2>1. /\ location' \in Location
        /\ WellFormed(archive) => location' = Directory(archive)
    BY <1>1, <1>4, <1>5, OnlyItsDirectory DEF WellFormed, Misleads
  <2>2. ZipTypeOK'
    BY <2>1, <1>1, <1>2, <1>5 DEF ZipTypeOK
  <2>3. IndexIsExact'
    BY <2>1, <1>2, <1>5 DEF IndexIsExact, WellFormed, Directory, CdOffset, CdSize
  <2>4. QED
    BY <2>2, <2>3, <1>2, <1>5 DEF ZipIInv
<1>6. CASE CanGrow(start) /\ tailBytes' = Grown(tailBytes) /\ UNCHANGED <<ctl, location>>
  <2>1. reads = 0 /\ tailBytes = INITIAL_TAIL_BYTES
    BY <1>2, <1>3, <1>6 DEF CanGrow
  <2>2. tailBytes' = MAX_TAIL_BYTES
    BY <2>1, <1>3, <1>6 DEF Grown, Smaller
  <2>3. ZipTypeOK'
    BY <2>1, <2>2, <1>1, <1>2, <1>3, <1>6 DEF ZipTypeOK
  <2>4. IndexIsExact'
    BY <1>2, <1>6 DEF IndexIsExact
  <2>5. QED
    BY <2>1, <2>2, <2>3, <2>4, <1>2, <1>6 DEF ZipIInv
<1>7. CASE ctl' = "failed" /\ UNCHANGED <<tailBytes, location>>
  <2>1. ZipTypeOK'
    BY <1>1, <1>2, <1>7 DEF ZipTypeOK
  <2>2. QED
    BY <2>1, <1>1, <1>2, <1>7 DEF ZipIInv, IndexIsExact
<1>8. QED
  BY <1>5, <1>6, <1>7 DEF ReadTail

(* The directory read: every header gives its entry back                   *)
(* (extract.ts:117-131, central-directory.ts:39-103).                      *)
LEMMA DirectoryStep == ZipIInv /\ ReadDirectory => ZipIInv'
<1> SUFFICES ASSUME ZipIInv, ReadDirectory PROVE ZipIInv'
  OBVIOUS
<1>1. /\ archive \in Archive /\ reads \in Nat /\ reads <= 2
      /\ tailBytes \in INITIAL_TAIL_BYTES .. MAX_TAIL_BYTES
      /\ location \in Location
      /\ WellFormed(archive) => location = Directory(archive)
  BY DEF ZipIInv, ZipTypeOK, ReadDirectory, IndexIsExact
<1>2. /\ reads' = reads + 1 /\ ctl' \in {"failed", "done"}
      /\ index' = Parsed(archive, location)
      /\ UNCHANGED <<archive, tailBytes, location>>
  BY DEF ReadDirectory
<1>3. index' \in Seq(Entry)
  BY <1>1, <1>2, ParsedIsHeaders
<1>4. WellFormed(archive) => index' = archive.entries
  BY <1>1, <1>2, ParsedIsHeaders DEF WellFormed
<1>5. ZipTypeOK'
  BY <1>1, <1>2, <1>3 DEF ZipTypeOK
<1>6. IndexIsExact'
  BY <1>1, <1>2, <1>4 DEF IndexIsExact, WellFormed, Directory, CdOffset, CdSize
<1>7. QED
  BY <1>1, <1>2, <1>5, <1>6 DEF ZipIInv

(* A read that fails leaves what was found.                                *)
LEMMA FailStep == ZipIInv /\ ReadFails => ZipIInv'
<1> SUFFICES ASSUME ZipIInv, ReadFails PROVE ZipIInv'
  OBVIOUS
<1>1. ZipTypeOK'
  BY DEF ZipIInv, ZipTypeOK, ReadFails
<1>2. reads \in Nat /\ reads <= 2 /\ reads' = reads + 1 /\ ctl' = "failed"
  BY DEF ZipIInv, ZipTypeOK, ReadFails
<1>3. IndexIsExact'
  BY <1>2 DEF IndexIsExact
<1>4. QED
  BY <1>1, <1>2, <1>3 DEF ZipIInv

(* The invariant of every state the reader can be in.                      *)
LEMMA ZipInvariance == Spec => []ZipIInv
<1>1. ZipIInv /\ [Next]_vars => ZipIInv'
  <2>1. CASE UNCHANGED vars
    BY <2>1 DEF vars, ZipIInv, ZipTypeOK, IndexIsExact
  <2>2. QED
    BY <2>1, TailStep, DirectoryStep, FailStep DEF Next
<1>2. QED
  BY <1>1, ZipInit, PTL DEF Spec

(* The index of a well-formed archive is its entries, whatever their       *)
(* number, the fields promoted, the comment and the window                 *)
(* (extract.ts:73-131, central-directory.ts:124-168).                      *)
THEOREM IndexAlwaysExact == Spec => []IndexIsExact
<1>1. ZipIInv => IndexIsExact
  BY DEF ZipIInv
<1>2. QED
  BY <1>1, ZipInvariance, PTL

(* ~128 KB always suffice: the largest window holds the record, the ZIP64  *)
(* records and the longest comment, and it is reached in three reads       *)
(* (extract.ts:32-36).                                                     *)
THEOREM ZipInvAlways == Spec => []ZipInv
<1>1. ZipIInv => ZipInv
  <2> SUFFICES ASSUME ZipIInv PROVE ZipInv
    OBVIOUS
  <2>1. /\ archive \in Archive /\ tailBytes \in Nat /\ MAX_TAIL_BYTES \in Nat
    BY ZipAssumption DEF ZipIInv, ZipTypeOK
  <2>2. TailStart(archive, tailBytes) \in Nat
    BY <2>1, Lengths DEF TailStart, Larger
  <2>3. ~CanGrow(TailStart(archive, tailBytes)) =>
           TailStart(archive, tailBytes) = 0 \/ tailBytes >= MAX_TAIL_BYTES
    BY <2>1, <2>2 DEF CanGrow
  <2>4. GrowthSuffices
    BY <2>1, <2>3, LargeEnough DEF GrowthSuffices, ZipIInv
  <2>5. QED
    BY <2>4 DEF ZipInv, ZipIInv
<1>2. QED
  BY <1>1, ZipInvariance, PTL

-----------------------------------------------------------------------------
(* The verifier.                                                           *)

\* At most one place is the first of some.
LEMMA FirstIsOne ==
  ASSUME NEW entries \in Seq(Entry)
  PROVE  /\ JpegsOf(entries) \subseteq DOMAIN entries
         /\ \A places \in SUBSET DOMAIN entries :
              FirstOf(places) \subseteq places /\ \A i, j \in FirstOf(places) : i = j
         /\ DeepestOf(entries) \subseteq DOMAIN entries
         /\ \A i, j \in DeepestOf(entries) : i = j
         /\ \A i \in DeepestOf(entries), j \in DOMAIN entries :
              entries[j].localOffset <= entries[i].localOffset
<1>1. DOMAIN entries = 1 .. Len(entries) /\ Len(entries) \in Nat
  OBVIOUS
<1>2. \A places \in SUBSET DOMAIN entries :
        FirstOf(places) \subseteq places /\ \A i, j \in FirstOf(places) : i = j
  BY <1>1 DEF FirstOf
<1> DEFINE deepest == {i \in DOMAIN entries :
                         \A j \in DOMAIN entries : entries[j].localOffset <= entries[i].localOffset}
<1>3. deepest \in SUBSET DOMAIN entries /\ DeepestOf(entries) = FirstOf(deepest)
  BY DEF DeepestOf
<1>4. DeepestOf(entries) \subseteq deepest /\ \A i, j \in DeepestOf(entries) : i = j
  BY <1>2, <1>3
<1>5. QED
  BY <1>2, <1>3, <1>4 DEF JpegsOf

(* Picking an entry keeps those picked before, and picks it if there is    *)
(* room and its name is not among theirs (verify-disk.ts:191-195).         *)
LEMMA WithPicks ==
  ASSUME NEW D, NEW chosen \in Seq(D), NEW place \in SUBSET D, \A i, j \in place : i = j
  PROVE  /\ With(chosen, place) \in Seq(D)
         /\ Len(With(chosen, place)) <= Len(chosen) + 1
         /\ \A k \in 1 .. Len(chosen) : /\ k \in 1 .. Len(With(chosen, place))
                                        /\ With(chosen, place)[k] = chosen[k]
         /\ \A i \in place :
              \/ ~(Len(chosen) < PICKS)
              \/ \E k \in 1 .. Len(chosen) : traits[chosen[k]].name = traits[i].name
              \/ \E k \in 1 .. Len(With(chosen, place)) : With(chosen, place)[k] = i
<1> DEFINE new == {i \in place : \A k \in DOMAIN chosen : traits[chosen[k]].name # traits[i].name}
           one == CHOOSE i \in new : TRUE
<1>1. With(chosen, place) = IF Len(chosen) < PICKS /\ new # {} THEN Append(chosen, one) ELSE chosen
  BY DEF With
<1>2. DOMAIN chosen = 1 .. Len(chosen) /\ Len(chosen) \in Nat
  OBVIOUS
<1>3. new # {} => one \in new
  OBVIOUS
<1>4. \A i \in place : i \in new => i = one
  BY <1>3
<1>5. \A i \in place : i \in new \/ \E k \in 1 .. Len(chosen) : traits[chosen[k]].name = traits[i].name
  BY <1>2
<1>6. new \subseteq D
  OBVIOUS
<1> HIDE DEF new, one
<1>7. CASE Len(chosen) < PICKS /\ new # {}
  <2>1. one \in D /\ With(chosen, place) = Append(chosen, one)
    BY <1>1, <1>3, <1>6, <1>7
  <2>2. /\ Append(chosen, one) \in Seq(D) /\ Len(Append(chosen, one)) = Len(chosen) + 1
        /\ Append(chosen, one)[Len(chosen) + 1] = one
        /\ \A k \in 1 .. Len(chosen) : Append(chosen, one)[k] = chosen[k]
    BY <1>2, <2>1
  <2>3. QED
    BY <1>2, <1>4, <1>5, <2>1, <2>2
<1>8. CASE ~(Len(chosen) < PICKS /\ new # {})
  <2>1. With(chosen, place) = chosen
    BY <1>1, <1>8
  <2>2. QED
    BY <1>2, <1>5, <1>8, <2>1
<1>9. QED
  BY <1>7, <1>8

(* The first JPEG is picked and, when names differ and two may be picked,  *)
(* the entry that begins the furthest.                                     *)
LEMMA PicksHold ==
  ASSUME NEW entries \in Seq(Entry)
  PROVE  /\ Picked(entries) \in Seq(DOMAIN entries)
         /\ \A i \in FirstOf(JpegsOf(entries)) :
              PICKS >= 1 => \E k \in 1 .. Len(Picked(entries)) : Picked(entries)[k] = i
         /\ \A i \in DeepestOf(entries) :
              (/\ PICKS >= 2
               /\ \A d, e \in DOMAIN entries : traits[d].name = traits[e].name => d = e)
              => \E k \in 1 .. Len(Picked(entries)) : Picked(entries)[k] = i
<1> DEFINE D == DOMAIN entries
           jpeg == FirstOf(JpegsOf(entries))
           deepest == DeepestOf(entries)
           deflated == FirstOf({i \in DOMAIN entries : traits[i].deflated})
           stored == FirstOf(DOMAIN entries \ {i \in DOMAIN entries : traits[i].deflated})
           none == <<>>
           p1 == With(none, jpeg)
           p2 == With(p1, deepest)
           p3 == With(p2, deflated)
           p4 == With(p3, stored)
<1>1. /\ jpeg \in SUBSET D /\ \A i, j \in jpeg : i = j
      /\ deepest \in SUBSET D /\ \A i, j \in deepest : i = j
      /\ deflated \in SUBSET D /\ \A i, j \in deflated : i = j
      /\ stored \in SUBSET D /\ \A i, j \in stored : i = j
  <2> DEFINE shrunk == {i \in DOMAIN entries : traits[i].deflated}
  <2>1. /\ JpegsOf(entries) \in SUBSET DOMAIN entries /\ shrunk \in SUBSET DOMAIN entries
        /\ DOMAIN entries \ shrunk \in SUBSET DOMAIN entries
    BY FirstIsOne
  <2> HIDE DEF shrunk
  <2>2. \A places \in SUBSET DOMAIN entries :
          FirstOf(places) \in SUBSET DOMAIN entries /\ \A i, j \in FirstOf(places) : i = j
    BY FirstIsOne
  <2>3. DeepestOf(entries) \in SUBSET DOMAIN entries /\ \A i, j \in DeepestOf(entries) : i = j
    BY FirstIsOne
  <2>4. QED
    BY <2>1, <2>2, <2>3 DEF shrunk
<1>2. Picked(entries) = p4
  BY DEF Picked
<1>3. PICKS \in Nat \ {0}
  BY VerifyAssumption
<1> HIDE DEF D, jpeg, deepest, deflated, stored, p1, p2, p3, p4, none
<1>4. none \in Seq(D) /\ Len(none) = 0
  BY DEF none
<1>5. /\ p1 \in Seq(D) /\ Len(p1) <= 1
      /\ \A i \in jpeg : \E k \in 1 .. Len(p1) : p1[k] = i
  <2>1. Len(none) < PICKS /\ 1 .. Len(none) = {} /\ Len(none) + 1 = 1
    BY <1>3, <1>4
  <2>2. jpeg \in SUBSET D /\ \A i, j \in jpeg : i = j
    BY <1>1
  <2>3. p1 \in Seq(D) /\ Len(p1) <= Len(none) + 1
    BY <1>4, <2>2, WithPicks DEF p1
  <2>4. ASSUME NEW i \in jpeg PROVE \E k \in 1 .. Len(p1) : p1[k] = i
    <3>1. \/ ~(Len(none) < PICKS)
          \/ \E k \in 1 .. Len(none) : traits[none[k]].name = traits[i].name
          \/ \E k \in 1 .. Len(With(none, jpeg)) : With(none, jpeg)[k] = i
      <4>1. none \in Seq(D)
        BY <1>4
      <4>2. QED
        BY <4>1, <2>2, <2>4, WithPicks
    <3>2. QED
      BY <2>1, <3>1 DEF p1
  <2>5. QED
    BY <2>1, <2>3, <2>4
<1>6. /\ p2 \in Seq(D)
      /\ \A k \in 1 .. Len(p1) : k \in 1 .. Len(p2) /\ p2[k] = p1[k]
      /\ \A i \in deepest : \/ ~(Len(p1) < PICKS)
                            \/ \E k \in 1 .. Len(p1) : traits[p1[k]].name = traits[i].name
                            \/ \E k \in 1 .. Len(p2) : p2[k] = i
  BY <1>1, <1>5, WithPicks DEF p2
<1>7. /\ p3 \in Seq(D) /\ \A k \in 1 .. Len(p2) : k \in 1 .. Len(p3) /\ p3[k] = p2[k]
  BY <1>1, <1>6, WithPicks DEF p3
<1>8. /\ p4 \in Seq(D) /\ \A k \in 1 .. Len(p3) : k \in 1 .. Len(p4) /\ p4[k] = p3[k]
  BY <1>1, <1>7, WithPicks DEF p4
<1>9. \A i : (\E k \in 1 .. Len(p2) : p2[k] = i) => \E k \in 1 .. Len(p4) : p4[k] = i
  BY <1>7, <1>8
<1>10. \A i \in jpeg : \E k \in 1 .. Len(p4) : p4[k] = i
  BY <1>5, <1>6, <1>9
<1>11. ASSUME NEW i \in deepest, PICKS >= 2,
              \A d, e \in D : traits[d].name = traits[e].name => d = e
       PROVE  \E k \in 1 .. Len(p4) : p4[k] = i
  <2>1. Len(p1) < PICKS
    BY <1>3, <1>5, <1>11
  <2>2. i \in D /\ \A k \in 1 .. Len(p1) : p1[k] \in D
    BY <1>1, <1>5
  <2>3. \E k \in 1 .. Len(p2) : p2[k] = i
    BY <1>6, <1>11, <2>1, <2>2
  <2>4. QED
    BY <1>9, <2>3
<1>12. QED
  BY <1>2, <1>8, <1>10, <1>11 DEF D, jpeg, deepest

\* What a directory that was not rejected is (verify-disk.ts:166-174).
LEMMA JudgedIsExact ==
  ASSUME archive \in Archive, Counted(Entries), location = Directory(archive)
  PROVE  Entries = archive.entries
<1>1. Len(Entries) = Len(archive.entries)
  BY DEF Counted, Directory
<1>2. QED
  BY <1>1, ParsedIsHeaders DEF Entries

(* The verifier's inductive invariant: it has followed the archive's own   *)
(* end record unless the comment misled it; once it has judged a           *)
(* directory, it has as many entries as were declared, all the archive's   *)
(* if the record was its own, and what must be extracted of them is sound  *)
(* or is still to be extracted.                                            *)
VerifyIInv ==
  /\ archive \in Archive /\ tailBytes \in Nat
  /\ (ctl \in {"directory", "done"} /\ ~Misleads(archive)) => location = Directory(archive)
  /\ verdict = "verified" => ctl = "done" /\ picks = <<>>
  /\ ctl = "done" =>
       /\ Len(index) = location.entryCount
       /\ ~Misleads(archive) => index = archive.entries
       /\ index \in Seq(Entry)
       /\ Exercised(index)
       /\ picks \in Seq(DOMAIN index)
       /\ \A i \in FirstOf(JpegsOf(index)) :
            traits[i].damage = "none" \/ \E k \in 1 .. Len(picks) : picks[k] = i
       /\ \A i \in DeepestOf(index) : NamesDiffer =>
            traits[i].damage = "none" \/ \E k \in 1 .. Len(picks) : picks[k] = i

LEMMA VerifyTailKeeps ==
  ASSUME VerifyIInv, VerifyTail
  PROVE  VerifyIInv'
<1>1. /\ archive' = archive /\ traits' = traits /\ archive \in Archive /\ tailBytes' = tailBytes
      /\ tailBytes \in Nat /\ ctl = "tail"
  BY DEF VerifyIInv, VerifyTail, Reject
<1>2. CASE Reject
  BY <1>1, <1>2 DEF VerifyIInv, Reject
<1>3. CASE /\ location' \in LocatedIn(archive, TailStart(archive, tailBytes))
           /\ ctl' = "directory" /\ verdict' = verdict
  <2>1. TailStart(archive, tailBytes) \in Nat
    BY <1>1, Lengths DEF TailStart, Larger
  <2>2. ~Misleads(archive) => location' = Directory(archive)
    BY <1>1, <1>3, <2>1, OnlyItsDirectory
  <2>3. ~Misleads(archive)' => (location = Directory(archive))'
    BY <1>1, <2>2 DEF Misleads, Directory, CdOffset, CdSize
  <2>4. verdict' # "verified"
    BY <1>1, <1>3 DEF VerifyIInv
  <2>5. QED
    BY <1>1, <1>3, <2>3, <2>4 DEF VerifyIInv
<1>4. QED
  BY <1>2, <1>3 DEF VerifyTail

LEMMA VerifyDirectoryKeeps ==
  ASSUME PICKS >= 2, VerifyIInv, VerifyDirectory
  PROVE  VerifyIInv'
<1>1. /\ archive' = archive /\ traits' = traits /\ archive \in Archive /\ tailBytes' = tailBytes
      /\ tailBytes \in Nat /\ location' = location
      /\ ctl = "directory" /\ verdict' # "verified"
  BY DEF VerifyIInv, VerifyDirectory, Reject
<1>2. CASE Reject
  BY <1>1, <1>2 DEF VerifyIInv, Reject
<1>3. CASE /\ Counted(Entries) /\ Exercised(Entries) /\ JpegsOf(Entries) # {}
           /\ index' = Entries /\ picks' = Picked(Entries) /\ ctl' = "done"
  <2> DEFINE entries == Entries
  <2>1. entries \in Seq(Entry) /\ index' = entries /\ picks' = Picked(entries)
    BY <1>1, <1>3, ParsedIsHeaders DEF Entries
  <2>2. ~Misleads(archive)' => (location = Directory(archive) /\ index = archive.entries)'
    <3>1. ~Misleads(archive) => location = Directory(archive)
      BY <1>1 DEF VerifyIInv
    <3>2. ~Misleads(archive) => entries = archive.entries
      BY <1>1, <1>3, <3>1, JudgedIsExact
    <3>3. QED
      BY <1>1, <2>1, <3>1, <3>2 DEF Misleads, Directory, CdOffset, CdSize
  <2>3. (Len(index) = location.entryCount)'
    BY <1>1, <1>3 DEF Counted
  <2>4. Exercised(index)'
    BY <1>1, <1>3 DEF Exercised, Size, CommentAt, EocdAt, LocatorAt, Eocd64At, CdOffset, CdSize
  <2> HIDE DEF entries
  <2>5. /\ Picked(entries) \in Seq(DOMAIN entries)
        /\ \A i \in FirstOf(JpegsOf(entries)) :
             \E k \in 1 .. Len(Picked(entries)) : Picked(entries)[k] = i
        /\ \A i \in DeepestOf(entries) :
             (\A d, e \in DOMAIN entries : traits[d].name = traits[e].name => d = e) =>
               \E k \in 1 .. Len(Picked(entries)) : Picked(entries)[k] = i
    <3>1. entries \in Seq(Entry) /\ PICKS >= 1
      BY <2>1, VerifyAssumption
    <3>2. /\ Picked(entries) \in Seq(DOMAIN entries)
          /\ \A i \in FirstOf(JpegsOf(entries)) :
               \E k \in 1 .. Len(Picked(entries)) : Picked(entries)[k] = i
      BY <3>1, PicksHold
    <3>3. ASSUME NEW i \in DeepestOf(entries),
                 \A d, e \in DOMAIN entries : traits[d].name = traits[e].name => d = e
          PROVE  \E k \in 1 .. Len(Picked(entries)) : Picked(entries)[k] = i
      BY <3>1, <3>3, PicksHold
    <3>4. QED
      BY <3>2, <3>3
  <2>6. /\ FirstOf(JpegsOf(index))' = FirstOf(JpegsOf(entries))
        /\ DeepestOf(index)' = DeepestOf(entries)
        /\ NamesDiffer' <=> \A d, e \in DOMAIN entries : traits[d].name = traits[e].name => d = e
    BY <1>1, <2>1 DEF FirstOf, JpegsOf, IsJpeg, DeepestOf, NamesDiffer
  <2>7. QED
    BY <1>1, <1>3, <2>1, <2>2, <2>3, <2>4, <2>5, <2>6 DEF VerifyIInv
<1>4. QED
  BY <1>2, <1>3 DEF VerifyDirectory

LEMMA VerifyEntryKeeps ==
  ASSUME VerifyIInv, VerifyEntry
  PROVE  VerifyIInv'
<1>1. /\ archive' = archive /\ traits' = traits /\ archive \in Archive /\ tailBytes' = tailBytes
      /\ tailBytes \in Nat /\ ctl = "done" /\ picks # <<>>
  BY DEF VerifyIInv, VerifyEntry, Reject, vars
<1>2. CASE Reject
  BY <1>1, <1>2 DEF VerifyIInv, Reject
<1>3. CASE /\ traits[Head(picks)].damage = "none"
           /\ picks' = Tail(picks)
           /\ UNCHANGED <<vars, traits, verdict>>
  <2>1. /\ index' = index /\ location' = location /\ ctl' = ctl /\ verdict' = verdict
        /\ picks \in Seq(DOMAIN index)
    BY <1>1, <1>3 DEF vars, VerifyIInv
  <2>2. /\ Head(picks) \in DOMAIN index /\ picks' \in Seq(DOMAIN index)
        /\ \A k \in 1 .. Len(picks) : \/ picks[k] = Head(picks)
                                      \/ \E l \in 1 .. Len(picks') : picks'[l] = picks[k]
    <3>1. /\ Len(picks) \in Nat /\ Len(picks) # 0 /\ Head(picks) = picks[1]
          /\ Len(Tail(picks)) = Len(picks) - 1 /\ Tail(picks) \in Seq(DOMAIN index)
          /\ \A l \in 1 .. Len(picks) - 1 : Tail(picks)[l] = picks[l + 1]
      BY <1>1, <2>1
    <3>2. ASSUME NEW k \in 1 .. Len(picks), k # 1
          PROVE  k - 1 \in 1 .. Len(picks') /\ picks'[k - 1] = picks[k]
      BY <1>3, <3>1, <3>2
    <3>3. Head(picks) \in DOMAIN index
      BY <2>1, <3>1
    <3>4. \A k \in 1 .. Len(picks) : k = 1 \/ \E l \in 1 .. Len(picks') : picks'[l] = picks[k]
      BY <3>2
    <3>5. QED
      BY <1>3, <3>1, <3>3, <3>4
  <2>3. traits[Head(picks)].damage = "none"
    BY <1>3
  <2>4. ASSUME NEW i, traits[i].damage = "none" \/ \E k \in 1 .. Len(picks) : picks[k] = i
        PROVE  traits'[i].damage = "none" \/ \E k \in 1 .. Len(picks') : picks'[k] = i
    BY <1>1, <2>2, <2>3, <2>4
  <2>5. verdict' # "verified"
    BY <1>1, <2>1 DEF VerifyIInv
  <2>6. /\ FirstOf(JpegsOf(index))' = FirstOf(JpegsOf(index))
        /\ DeepestOf(index)' = DeepestOf(index) /\ (NamesDiffer' <=> NamesDiffer)
        /\ (Exercised(index)' <=> Exercised(index)) /\ Directory(archive)' = Directory(archive)
        /\ Misleads(archive)' = Misleads(archive)
    BY <1>1, <2>1 DEF Misleads, FirstOf, JpegsOf, IsJpeg, DeepestOf, NamesDiffer, Exercised, Size, CommentAt,
       EocdAt, LocatorAt, Eocd64At, CdOffset, CdSize, Directory
  <2>7. QED
    BY <1>1, <2>1, <2>2, <2>4, <2>5, <2>6 DEF VerifyIInv
<1>4. QED
  BY <1>2, <1>3 DEF VerifyEntry

(* Whatever archive it is given, whatever its comment holds and whatever   *)
(* is wrong with its entries, what the verifier passes is whole as far as  *)
(* the end record that it followed goes: main (verify-disk.ts:142-263),    *)
(* which picks three of the entries.                                       *)
THEOREM VerifiedAlwaysWhole ==
  ASSUME PICKS >= 2
  PROVE  VerifySpec => []VerifiedIsWhole
<1>1. ASSUME VerifyInit PROVE VerifyIInv
  BY <1>1, ArchivesAssumption, ZipAssumption DEF VerifyInit, Init, VerifyIInv
<1>2. ASSUME VerifyIInv, [VerifyNext]_verifyVars PROVE VerifyIInv'
  <2>1. CASE VerifyFails
    <3>1. /\ archive' = archive /\ traits' = traits
          /\ tailBytes' = tailBytes /\ ctl' = "failed" /\ verdict' # "verified"
      BY <2>1 DEF VerifyFails, Reject
    <3>2. QED
      BY <1>2, <3>1 DEF VerifyIInv
  <2>2. CASE VerifyTail
    BY <1>2, <2>2, VerifyTailKeeps
  <2>3. CASE VerifyDirectory
    BY <1>2, <2>3, VerifyDirectoryKeeps
  <2>4. CASE VerifyEntry
    BY <1>2, <2>4, VerifyEntryKeeps
  <2>5. CASE Verify \/ UNCHANGED verifyVars
    <3>1. /\ UNCHANGED <<vars, traits, picks>>
          /\ verdict' = verdict \/ (ctl = "done" /\ picks = <<>>)
      BY <2>5 DEF Verify, verifyVars
    <3>2. QED
      BY <1>2, <3>1 DEF vars, VerifyIInv, Exercised, NamesDiffer, FirstOf, JpegsOf,
         IsJpeg, DeepestOf, Misleads, Directory, Size, CommentAt, EocdAt, LocatorAt, Eocd64At,
         CdOffset, CdSize
  <2>6. QED
    BY <1>2, <2>1, <2>2, <2>3, <2>4, <2>5 DEF VerifyNext
<1>3. ASSUME VerifyIInv PROVE VerifiedIsWhole
  <2> SUFFICES ASSUME verdict = "verified" PROVE VerifiedIsWhole
    BY DEF VerifiedIsWhole
  <2>1. /\ Len(index) = location.entryCount
        /\ ~Misleads(archive) => location = Directory(archive) /\ index = archive.entries
        /\ Exercised(index) /\ Len(picks) = 0 /\ index \in Seq(Entry)
    BY <1>3 DEF VerifyIInv
  <2>2. /\ \A i \in FirstOf(JpegsOf(index)) : traits[i].damage = "none"
        /\ \A i \in DeepestOf(index) : NamesDiffer => traits[i].damage = "none"
    BY <1>3, <2>1 DEF VerifyIInv
  <2>3. ASSUME NEW i \in DeepestOf(index), Size(archive) > FOUR_GIB
        PROVE  index[i].localOffset >= FOUR_GIB
    <3>1. PICK j \in DOMAIN index : index[j].localOffset >= FOUR_GIB
      BY <2>1, <2>3 DEF Exercised
    <3>2. /\ i \in DOMAIN index /\ index[j].localOffset <= index[i].localOffset
          /\ index[i] \in Entry /\ index[j] \in Entry
      BY <2>1, <2>3, FirstIsOne
    <3>3. FOUR_GIB \in Nat
      BY ZipAssumption DEF FOUR_GIB
    <3>4. QED
      BY <3>1, <3>2, <3>3 DEF Entry
  <2>4. QED
    BY <2>1, <2>2, <2>3 DEF VerifiedIsWhole
<1>4. QED
  BY <1>1, <1>2, <1>3, PTL DEF VerifySpec

=============================================================================
