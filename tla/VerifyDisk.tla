----------------------------- MODULE VerifyDisk -----------------------------
(***************************************************************************)
(* The verifier of a published sample                                      *)
(* (src/scripts/sample-builder/verify-disk.ts): the parsers of ZipIndex    *)
(* over one window on the archive's end, a count of what they parsed, and  *)
(* up to three entries extracted and compared with what is declared.       *)
(*                                                                         *)
(* Its variables are those of ZipIndex, read by another reader, and the    *)
(* ones below; `reads` counts the coordinator's reads and not these.       *)
(***************************************************************************)
EXTENDS ZipIndex

CONSTANTS
  Jpegs,       \* the names that end in .jpg or .jpeg
  PICKS        \* how many entries are extracted

ASSUME VerifyAssumption == PICKS \in Nat \ {0}

\* What extracting an entry finds wrong: its local header, the length of its
\* data, their checksum, or the bytes of the source entry of the same shape.
Damages == {"header", "length", "checksum", "source"}

VARIABLES
  traits,   \* per entry the parser finds: its name, its method, the damage to its data
  picks,    \* the entries to extract, by their place in the index
  verdict   \* "none", "verified" or "rejected"

verifyVars == <<vars, traits, picks, verdict>>

FOUR_GIB == U32 + 1

-----------------------------------------------------------------------------
VerifyInit ==
  /\ Init
  /\ picks = <<>>
  /\ verdict = "none"

Reject ==
  /\ verdict' = "rejected"
  /\ ctl' = "failed"
  /\ UNCHANGED <<archive, tailBytes, location, index, reads, traits, picks>>

\* One window on the end and no second one.
VerifyTail ==
  LET found == LocatedIn(archive, TailStart(archive, tailBytes)) IN
  /\ ctl = "tail"
  /\ \/ found = {} /\ Reject
     \/ /\ location' \in found
        /\ ctl' = "directory"
        /\ UNCHANGED <<archive, tailBytes, index, reads, traits, picks, verdict>>

Entries == Parsed(archive, location)

\* Mutant: the parser's own bound on the count is all that is asked.
BoundOnly(entries) == Len(entries) <= location.entryCount

Counted(entries) == Len(entries) = location.entryCount

\* In an archive past 4 GiB some entry must begin past it.
Exercised(entries) ==
  Size(archive) > FOUR_GIB => \E i \in DOMAIN entries : entries[i].localOffset >= FOUR_GIB

\* The first of the places, if there is one.
FirstOf(places) == {i \in places : \A j \in places : i <= j}

IsJpeg(i) == traits[i].name \in Jpegs

JpegsOf(entries) == {i \in DOMAIN entries : IsJpeg(i)}

\* The first of the entries that begin the furthest.
DeepestOf(entries) ==
  FirstOf({i \in DOMAIN entries :
             \A j \in DOMAIN entries : entries[j].localOffset <= entries[i].localOffset})

\* The entry at this place, if there is one, is picked unless its name is, or enough are.
With(chosen, place) ==
  LET new == {i \in place : \A k \in DOMAIN chosen : traits[chosen[k]].name # traits[i].name}
  IN  IF Len(chosen) < PICKS /\ new # {} THEN Append(chosen, CHOOSE i \in new : TRUE) ELSE chosen

(* A JPEG, the deepest, a DEFLATE and a STORED entry, in this order.       *)
Picked(entries) ==
  LET deflated == {i \in DOMAIN entries : traits[i].deflated}
      two      == With(With(<<>>, FirstOf(JpegsOf(entries))), DeepestOf(entries))
  IN  With(With(two, FirstOf(deflated)), FirstOf(DOMAIN entries \ deflated))

(* The directory is parsed, what was parsed is judged, and the entries to  *)
(* extract are picked.                                                     *)
VerifyDirectory ==
  /\ ctl = "directory"
  /\ \/ /\ \/ ~Counted(Entries) \/ ~Exercised(Entries) \/ JpegsOf(Entries) = {}
        /\ Reject
     \/ /\ Counted(Entries) /\ Exercised(Entries) /\ JpegsOf(Entries) # {}
        /\ index' = Entries
        /\ picks' = Picked(Entries)
        /\ ctl' = "done"
        /\ UNCHANGED <<archive, tailBytes, location, reads, traits, verdict>>

\* The next of the picks is extracted; any damage ends the verification.
VerifyEntry ==
  /\ ctl = "done" /\ picks # <<>>
  /\ \/ traits[Head(picks)].damage # "none" /\ Reject
     \/ /\ traits[Head(picks)].damage = "none"
        /\ picks' = Tail(picks)
        /\ UNCHANGED <<vars, traits, verdict>>

Verify ==
  /\ ctl = "done" /\ picks = <<>> /\ verdict = "none"
  /\ verdict' = "verified"
  /\ UNCHANGED <<vars, traits, picks>>

\* A read of the file ends early, or the source it is compared with cannot be read.
VerifyFails == verdict = "none" /\ Reject

VerifyNext == VerifyTail \/ VerifyDirectory \/ VerifyEntry \/ Verify \/ VerifyFails

VerifySpec == VerifyInit /\ [][VerifyNext]_verifyVars

-----------------------------------------------------------------------------
(* A name is in the index once.                                            *)
NamesDiffer == \A i, j \in DOMAIN index : traits[i].name = traits[j].name => i = j

(* What the verifier passes is whole, as far as the end record that it     *)
(* followed goes (verify-disk.ts:157-262).  It has read as many entries as *)
(* that record declares, so that a damaged header hides none, and unless   *)
(* the comment holds the signature of an end record, they are all the      *)
(* entries of the archive.  Of what it has read, the first JPEG and, when  *)
(* no two entries share a name, the entry that begins the furthest can be  *)
(* extracted; and in an archive past 4 GiB the latter begins past 4 GiB.   *)
VerifiedIsWhole ==
  verdict = "verified" =>
    /\ Len(index) = location.entryCount
    /\ ~Misleads(archive) => location = Directory(archive) /\ index = archive.entries
    /\ \A i \in FirstOf(JpegsOf(index)) : traits[i].damage = "none"
    /\ \A i \in DeepestOf(index) :
         /\ NamesDiffer => traits[i].damage = "none"
         /\ Size(archive) > FOUR_GIB => index[i].localOffset >= FOUR_GIB

-----------------------------------------------------------------------------
(* Said of the program and not so: the README has the behaviours.          *)

(* "Parses the full central directory (all entries) and asserts the entry  *)
(* count" (verify-disk.ts:5): what passes has been read to its last entry, *)
(* whatever its comment holds.                                             *)
AllEntriesVerified == verdict = "verified" => index = archive.entries

(* "Extracts 3 entries (a JPEG, plus a STORED and a DEFLATE if distinct)"  *)
(* (verify-disk.ts:8): an archive of entries that differ in name passes    *)
(* only if one of each method it has can be extracted.                     *)
BothMethodsExtracted ==
  verdict = "verified" /\ NamesDiffer =>
    \A deflated \in BOOLEAN :
      (\E i \in DOMAIN index : traits[i].deflated = deflated)
        => \E i \in DOMAIN index : traits[i].deflated = deflated /\ traits[i].damage = "none"

=============================================================================
