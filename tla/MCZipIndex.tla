----------------------------- MODULE MCZipIndex -----------------------------
(* Small archives: the lengths of the records and the windows are scaled   *)
(* down together, the sentinels too.  Each archive is read by the          *)
(* coordinator or by the verifier.                                         *)
EXTENDS VerifyDisk, Functions

CONSTANTS jpg1, jpg2, png, txt
MCNames == {jpg1, jpg2, png, txt}
MCJpegs == {jpg1, jpg2}

\* Entries whose fields are below, at and above the 32-bit sentinel.
Values == {0, 2, 3, 5}
SomeEntries == {[uncompressed |-> x, compressed |-> y, localOffset |-> z] :
                  x \in Values, y \in {1, 4}, z \in {2, 4}}
Fixed == [uncompressed |-> 1, compressed |-> 1, localOffset |-> 1]

Lists == {<<>>} \union {<<e>> : e \in SomeEntries} \union {<<e, Fixed>> : e \in SomeEntries}

At(offset, size, count) == [offset |-> offset, size |-> size, entryCount |-> count]

Plain(data, list, promoted, zip64, comment) ==
  [data |-> data, entries |-> list, promoted |-> promoted, zip64 |-> zip64,
   comment |-> comment, fake |-> 0, says |-> At(0, 0, 0), decoy |-> <<>>, broken |-> 0]

\* Well-formed archives: promoted or not, ZIP64 or not, with comments up to the longest.
PlainArchives ==
  {Plain(data, list, promoted, zip64, comment) :
     data \in {0, 9}, list \in Lists,
     promoted \in {{}, {"uncompressed", "compressed"}, {"localOffset"}},
     zip64 \in BOOLEAN, comment \in {0, 1, 4, 5}}

Deep(offset) == [Fixed EXCEPT !.localOffset = offset]

\* The second header of a directory of two is damaged.
BrokenArchives == {[Plain(9, <<Deep(4), Fixed>>, {}, FALSE, 0) EXCEPT !.broken = 2]}

\* Where an end record in a comment points, and the headers found there: nothing, the
\* first header of two, the second, an archive stored in the data, with the count of
\* the headers or another one; or ZIP64 records, of which the comment has none.
Decoys ==
  {[says |-> At(0, 0, 0), decoy |-> <<>>], [says |-> At(U32, 2, 1), decoy |-> <<>>]}
  \union {[says |-> At(9, 2, count), decoy |-> <<Deep(4)>>] : count \in 0 .. 2}
  \union {[says |-> At(11, 2, 1), decoy |-> <<Fixed>>]}
  \union {[says |-> At(1, 4, 2), decoy |-> <<Deep(5), Fixed>>]}

\* The comment holds the signature of the end record, with room for a record or without.
FakeArchives ==
  {[Plain(9, <<Deep(4), Fixed>>, {}, zip64, 5)
      EXCEPT !.fake = at, !.says = d.says, !.decoy = d.decoy] :
     zip64 \in BOOLEAN, at \in {2, 5}, d \in Decoys}

\* Four entries of which the second, the last or none begins past the scaled 4 GiB.
FourEntries == {Plain(9, <<Deep(1), Deep(second), Deep(2), Deep(last)>>, {}, TRUE, 0) :
                  second \in {3, 4}, last \in {2, 5}}

\* Names that all differ, or one name throughout.
NameLists(n) == {f \in [1 .. n -> MCNames] : IsInjective(f) \/ Range(f) = {jpg1}}

Whole(n) ==
  {[i \in 1 .. n |-> [name |-> names[i], deflated |-> d[i], damage |-> "none"]] :
     names \in NameLists(n), d \in [1 .. n -> BOOLEAN]}

\* The traits of n entries of which at most one is damaged.
Traits(n) ==
  Whole(n) \union {[w EXCEPT ![i].damage = d] : w \in Whole(n), i \in 1 .. n, d \in Damages}

MCArchives == PlainArchives \union BrokenArchives \union FakeArchives \union FourEntries

VARIABLE reader   \* "coordinator" or "verifier"

readersVars == <<verifyVars, reader>>

ReadersInit ==
  /\ VerifyInit
  /\ \/ reader = "coordinator" /\ traits = <<>>
     \/ /\ reader = "verifier"
        /\ archive \in BrokenArchives \union FakeArchives \union FourEntries
                       \union {Plain(9, <<Fixed, Deep(4)>>, {"localOffset"}, FALSE, 4)}
        /\ traits \in Traits(Len(archive.entries))

ReadersNext ==
  \/ reader = "coordinator" /\ Next /\ UNCHANGED <<traits, picks, verdict, reader>>
  \/ reader = "verifier" /\ VerifyNext /\ UNCHANGED reader

ReadersSpec == ReadersInit /\ [][ReadersNext]_readersVars

=============================================================================
