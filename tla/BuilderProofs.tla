---------------------------- MODULE BuilderProofs ----------------------------
(***************************************************************************)
(* Proofs about the sample builder, for any plans, any sizes of parts,     *)
(* patterns and headers, any number of runs, starts, aborts, restarts and  *)
(* failures: what a later run goes on from is what R2 holds, all parts but *)
(* the last have one size, and an archive that is completed can be read.   *)
(***************************************************************************)
EXTENDS SampleBuilder, TLAPS

-----------------------------------------------------------------------------
(***************************************************************************)
(* The builder: joining parts.                                             *)
(***************************************************************************)
Joins(f, parts) ==
  f = [n \in 0 .. Len(parts) |-> IF n = 0 THEN <<>> ELSE f[n - 1] \o parts[n].body]

\* The parts can be joined, and however they are, these are the bytes.
JoinsTo(parts, bytes) ==
  /\ \E f : Joins(f, parts)
  /\ \A f : Joins(f, parts) => f[Len(parts)] = bytes

LEMMA JoinedIs ==
  ASSUME NEW parts, NEW bytes, JoinsTo(parts, bytes)
  PROVE  Joined(parts) = bytes
BY DEF Joined, JoinsTo, Joins

LEMMA NothingJoins == JoinsTo(<<>>, <<>>)
<1>1. \A f : Joins(f, <<>>) <=> f = [n \in {0} |-> <<>>]
  BY DEF Joins
<1>2. QED
  BY <1>1 DEF JoinsTo

LEMMA OneMoreJoins ==
  ASSUME NEW parts \in Seq(Part), NEW part \in Part, NEW bytes, JoinsTo(parts, bytes)
  PROVE  JoinsTo(Append(parts, part), bytes \o part.body)
<1> DEFINE more == Append(parts, part)
           N == Len(parts)
<1>1. N \in Nat /\ Len(more) = N + 1 /\ more[N + 1] = part /\ \A n \in 1 .. N : more[n] = parts[n]
  OBVIOUS
<1> HIDE DEF more, N
<1>2. \A f : Joins(f, parts) <=>
        f = [n \in 0 .. N |-> IF n = 0 THEN <<>> ELSE f[n - 1] \o parts[n].body]
  BY DEF Joins, N
<1>3. \A f : Joins(f, more) <=>
        f = [n \in 0 .. N + 1 |-> IF n = 0 THEN <<>> ELSE f[n - 1] \o more[n].body]
  BY <1>1 DEF Joins
<1>4. \E f : Joins(f, more)
  <2>1. PICK g : Joins(g, parts)
    BY DEF JoinsTo
  <2> DEFINE h == [n \in 0 .. N + 1 |-> IF n = N + 1 THEN g[N] \o part.body ELSE g[n]]
  <2>2. \A n \in 0 .. N : g[n] = IF n = 0 THEN <<>> ELSE g[n - 1] \o parts[n].body
    BY <1>2, <2>1
  <2>3. \A n \in 0 .. N + 1 : h[n] = IF n = 0 THEN <<>> ELSE h[n - 1] \o more[n].body
    <3> SUFFICES ASSUME NEW n \in 0 .. N + 1
                 PROVE  h[n] = IF n = 0 THEN <<>> ELSE h[n - 1] \o more[n].body
      OBVIOUS
    <3>1. CASE n = 0
      BY <1>1, <2>2, <3>1
    <3>2. CASE n \in 1 .. N
      <4>1. h[n] = g[n] /\ h[n - 1] = g[n - 1] /\ more[n] = parts[n]
        BY <1>1, <3>2
      <4>2. QED
        BY <1>1, <2>2, <3>2, <4>1
    <3>3. CASE n = N + 1
      <4>1. n - 1 = N /\ n # 0 /\ more[n] = part
        BY <1>1, <3>3
      <4>2. h[n] = g[N] \o part.body
        BY <3>3
      <4>3. N \in 0 .. N + 1 /\ N # N + 1
        BY <1>1
      <4>4. h[N] = g[N]
        BY <4>3
      <4>5. QED
        BY <4>1, <4>2, <4>4
    <3>4. QED
      BY <1>1, <3>1, <3>2, <3>3
  <2>4. h = [n \in 0 .. N + 1 |-> h[n]]
    OBVIOUS
  <2> HIDE DEF h
  <2>5. h = [n \in 0 .. N + 1 |-> IF n = 0 THEN <<>> ELSE h[n - 1] \o more[n].body]
    BY <2>3, <2>4
  <2>6. Joins(h, more)
    BY <1>3, <2>5
  <2>7. QED
    BY <2>6
<1>5. ASSUME NEW h, Joins(h, more) PROVE h[N + 1] = bytes \o part.body
  <2> DEFINE g == [n \in 0 .. N |-> h[n]]
  <2>1. \A n \in 0 .. N + 1 : h[n] = IF n = 0 THEN <<>> ELSE h[n - 1] \o more[n].body
    BY <1>3, <1>5
  <2>2. \A n \in 0 .. N : g[n] = IF n = 0 THEN <<>> ELSE g[n - 1] \o parts[n].body
    <3> SUFFICES ASSUME NEW n \in 0 .. N
                 PROVE  g[n] = IF n = 0 THEN <<>> ELSE g[n - 1] \o parts[n].body
      OBVIOUS
    <3>1. CASE n = 0
      BY <1>1, <2>1, <3>1
    <3>2. CASE n \in 1 .. N
      <4>1. g[n] = h[n] /\ g[n - 1] = h[n - 1] /\ more[n] = parts[n]
        BY <1>1, <3>2
      <4>2. QED
        BY <1>1, <2>1, <3>2, <4>1
    <3>3. QED
      BY <1>1, <3>1, <3>2
  <2>3. g = [n \in 0 .. N |-> g[n]]
    OBVIOUS
  <2>4. g[N] = h[N]
    BY <1>1
  <2> HIDE DEF g
  <2>5. g = [n \in 0 .. N |-> IF n = 0 THEN <<>> ELSE g[n - 1] \o parts[n].body]
    BY <2>2, <2>3
  <2>6. g[N] = bytes
    BY <1>2, <2>5 DEF JoinsTo, N
  <2>7. h[N + 1] = h[N] \o more[N + 1].body
    <3>1. N + 1 \in 0 .. N + 1 /\ N + 1 # 0 /\ (N + 1) - 1 = N
      BY <1>1
    <3>2. h[N + 1] = h[(N + 1) - 1] \o more[N + 1].body
      BY <2>1, <3>1
    <3>3. QED
      BY <3>1, <3>2
  <2>8. QED
    BY <1>1, <2>4, <2>6, <2>7
<1>6. \A f : Joins(f, more) => f[Len(more)] = bytes \o part.body
  BY <1>1, <1>5
<1>7. QED
  BY <1>4, <1>6 DEF JoinsTo, more

-----------------------------------------------------------------------------
(***************************************************************************)
(* The builder: what a run knows of the bytes it has written.  `whole` is  *)
(* what it has uploaded, what it has in its buffer and what it is about to *)
(* append: appending moves bytes from one to the other and changes nothing.*)
(***************************************************************************)
RunType == [phase : {"idle", "write", "yield", "completed"}, kind : {"start", "alarm"},
            state : BuilderState, buffer : Seq(Byte), todo : Seq(Byte),
            source : {"none", "header", "data", "directory"}, headerOffset : Nat,
            yieldRequested : BOOLEAN]

HeaderByte(i, k) == [of |-> "header", entry |-> i, at |-> k]

SizeOf(st, i) == PlanOf(st.upload)[i].size

\* The data of the entry under way, with what is about to be appended.
Coming(run) == run.state.written + (IF run.source = "data" THEN Len(run.todo) ELSE 0)

\* At an offset there is the header of entry i and behind it n bytes of its data.
EntryLies(whole, i, at, n) ==
  /\ \A k \in 1 .. HEADER_SIZE : whole[at + k] = HeaderByte(i, k)
  /\ \A p \in 1 .. n : /\ whole[at + HEADER_SIZE + p].of = "data"
                       /\ whole[at + HEADER_SIZE + p].entry = i

\* Each record tells where its entry lies; the one under way is the last thing there is.
RecordsLie(run, whole) ==
  LET st == run.state IN
  /\ Len(st.records) = IF st.header THEN st.entry - 1 ELSE st.entry
  /\ \A i \in 1 .. Len(st.records) :
       /\ st.records[i].entry = i
       /\ st.records[i].offset + HEADER_SIZE
            + (IF i < st.entry THEN SizeOf(st, i) ELSE st.written) <= st.offset
       /\ EntryLies(whole, i, st.records[i].offset,
                    IF i < st.entry THEN SizeOf(st, i) ELSE Coming(run))
  /\ ~st.header => st.records[st.entry].offset + HEADER_SIZE + Coming(run) = Len(whole)

\* A header under way is the last thing there is.
HeaderLies(run, whole) ==
  run.source = "header" =>
    /\ run.headerOffset + HEADER_SIZE = Len(whole)
    /\ EntryLies(whole, run.state.entry, run.headerOffset, 0)

\* The directory says where it begins itself.
DirectoryLies(run, whole) ==
  run.source = "directory" =>
    \E cdOffset \in Nat :
      /\ Len(whole) = cdOffset + Len(run.state.records) + 1
      /\ \A j \in 1 .. Len(run.state.records) + 1 :
           whole[cdOffset + j] = Directory(run.state.records, cdOffset)[j]

Lies(run, whole) ==
  /\ Len(whole) = run.state.offset + Len(run.todo)
  /\ RecordsLie(run, whole) /\ HeaderLies(run, whole) /\ DirectoryLies(run, whole)

\* The cursor and what is being appended agree.
CursorAgrees(run) ==
  LET st == run.state IN
  /\ st.status = IF run.source = "directory" THEN "completing" ELSE "running"
  /\ st.entry <= Len(PlanOf(st.upload)) + 1
  /\ st.header => st.written = 0
  /\ EntriesLeft(st) => Coming(run) <= EntrySize(st)
  /\ ~EntriesLeft(st) => st.header
  /\ run.source = "none" => run.todo = <<>>
  /\ run.source = "header" => EntriesLeft(st) /\ st.header
  /\ run.source = "data" => ~st.header
  /\ run.source = "directory" => ~EntriesLeft(st)

\* All parts that are listed have a number and a size that R2 takes, and R2 has them.
PartsFit(st) ==
  \A n \in 1 .. Len(st.parts) :
    /\ st.parts[n].number = n /\ Len(st.parts[n].body) \in 1 .. PART_SIZE
    /\ n < Len(st.parts) => Len(st.parts[n].body) = PART_SIZE

\* A short part is the last.
PartsFull(run) ==
  /\ (\A n \in 1 .. Len(run.state.parts) : Len(run.state.parts[n].body) = PART_SIZE)
       \/ (run.source = "directory" /\ run.todo = <<>> /\ run.buffer = <<>>)
  /\ run.source # "directory" =>
       run.state.offset = PART_SIZE * Len(run.state.parts) + Len(run.buffer)

\* The archive of a build is under the key, unless that of another is.
Stored(st) ==
  /\ uploads[st.upload].status = "complete"
  /\ \/ object.upload = st.upload /\ Len(object.bytes) = st.offset
     \/ object.upload \notin {0, st.upload}

\* The archive as far as a run knows it, when its parts hold these bytes.
Whole(run, bytes) == (bytes \o run.buffer) \o run.todo

Live(run) ==
  /\ run.state.upload \in 1 .. Len(uploads)
  /\ Len(run.buffer) <= PART_SIZE
  /\ Len(run.state.parts) <= Len(uploads[run.state.upload].parts)
  /\ CursorAgrees(run) /\ PartsFit(run.state) /\ PartsFull(run)
  /\ \E bytes \in Seq(Byte) : /\ JoinsTo(run.state.parts, bytes)
                              /\ Lies(run, Whole(run, bytes))
  /\ run.phase = "yield" => run.buffer = <<>> /\ EntriesLeft(run.state)
  /\ run.phase = "completed" => Stored(run.state)

RunFits(run) == run \in RunType /\ (run = NoRun \/ (run.phase # "idle" /\ Live(run)))

\* A state that may be saved: a later run can go on from it.
StateFits(st) ==
  /\ st \in BuilderState /\ st.status # "completing"
  /\ st.status = "none" => st = Blank
  /\ st.status # "none" => /\ st.upload \in 1 .. Len(uploads)
                           /\ WithinEntry(st) /\ PartsFit(st)
  /\ st.status = "running" => Live(Run("alarm", st))
  /\ st.status = "done" => Stored(st)

Upload == [target : Targets, status : {"open", "aborted", "complete"}, parts : Seq(Seq(Byte))]

(* The inductive invariant of the builder.                                 *)
BuiltInv ==
  /\ alarm \in BOOLEAN
  /\ uploads \in Seq(Upload)
  /\ object.upload \in 0 .. Len(uploads) /\ object.bytes \in Seq(Byte)
  /\ starting \subseteq 1 .. Len(uploads) /\ aborting \subseteq 1 .. Len(uploads)
  /\ aborts \in 0 .. MaxAborts /\ crashes \in 0 .. MaxCrashes /\ failures \in 0 .. MaxFailures
  /\ ArchiveIsReadable
  /\ StateFits(saved)
  /\ runs \in [Runs -> RunType] /\ \A r \in Runs : RunFits(runs[r])

-----------------------------------------------------------------------------
LEMMA SizesAreNat ==
  /\ PART_SIZE \in Nat \ {0} /\ PATTERN_SIZE \in Nat \ {0} /\ HEADER_SIZE \in Nat \ {0}
  /\ {MaxStarts, MaxAborts, MaxCrashes, MaxFailures} \subseteq Nat
BY BuilderAssumption

\* Adding what has been copied to both sides.
LEMMA BothGrow ==
  ASSUME NEW a \in Nat, NEW h \in Nat, NEW w \in Nat, NEW o \in Nat, NEW n \in Nat
  PROVE  /\ a + h + w <= o => a + h + w <= o + n /\ a + h + (w + n) <= o + n
         /\ o = a + w => o + n = a + (w + n)
OBVIOUS

LEMMA BehindTheData ==
  ASSUME NEW a \in Nat, NEW h \in Nat, NEW w \in Nat, NEW d \in Nat, NEW base,
         a + h + w = base, NEW p \in w + 1 .. w + d
  PROVE  p - w \in 1 .. d /\ a + h + p = base + (p - w)
OBVIOUS

LEMMA PartSize == PART_SIZE \in Nat /\ PART_SIZE > 0
BY BuilderAssumption

LEMMA HeaderSize == HEADER_SIZE \in Nat /\ HEADER_SIZE > 0
BY BuilderAssumption

PlanEntry == [method : {"STORED", "DEFLATE"}, size : Nat]

LEMMA PlansAreLists ==
  ASSUME uploads \in Seq(Upload), NEW u \in 1 .. Len(uploads)
  PROVE  PlanOf(u) \in Seq(PlanEntry)
<1>1. uploads[u] \in Upload
  OBVIOUS
<1>2. uploads[u].target \in Targets
  BY <1>1 DEF Upload
<1>3. QED
  BY <1>2, BuilderAssumption DEF PlanOf, PlanEntry

LEMMA RunFacts ==
  ASSUME NEW run \in RunType
  PROVE  /\ run.state \in BuilderState /\ run.buffer \in Seq(Byte) /\ run.todo \in Seq(Byte)
         /\ run.headerOffset \in Nat
         /\ run.state.upload \in Nat /\ run.state.entry \in Nat \ {0} /\ run.state.written \in Nat
         /\ run.state.header \in BOOLEAN /\ run.state.offset \in Nat
         /\ run.state.parts \in Seq(Part) /\ run.state.records \in Seq(Record)
         /\ Coming(run) \in Nat
<1>1. run.state \in BuilderState /\ run.buffer \in Seq(Byte) /\ run.todo \in Seq(Byte)
      /\ run.headerOffset \in Nat
  BY DEF RunType
<1>2. /\ run.state.upload \in Nat /\ run.state.entry \in Nat \ {0} /\ run.state.written \in Nat
      /\ run.state.header \in BOOLEAN /\ run.state.offset \in Nat
      /\ run.state.parts \in Seq(Part) /\ run.state.records \in Seq(Record)
  BY <1>1 DEF BuilderState
<1>3. Coming(run) \in Nat
  BY <1>1, <1>2 DEF Coming
<1>4. QED
  BY <1>1, <1>2, <1>3

\* The sizes in the plan of a run.
LEMMA PlanFacts ==
  ASSUME uploads \in Seq(Upload), NEW run \in RunType, run.state.upload \in 1 .. Len(uploads)
  PROVE  /\ Len(PlanOf(run.state.upload)) \in Nat
         /\ \A i \in 1 .. Len(PlanOf(run.state.upload)) : SizeOf(run.state, i) \in Nat
         /\ EntriesLeft(run.state) =>
              /\ run.state.entry \in 1 .. Len(PlanOf(run.state.upload))
              /\ EntrySize(run.state) \in Nat
              /\ EntrySize(run.state) = SizeOf(run.state, run.state.entry)
<1> DEFINE plan == PlanOf(run.state.upload)
<1>1. plan \in Seq(PlanEntry)
  BY PlansAreLists
<1> HIDE DEF plan
<1>2. Len(plan) \in Nat /\ \A i \in 1 .. Len(plan) : plan[i] \in PlanEntry
  BY <1>1
<1>3. \A i \in 1 .. Len(plan) : plan[i].size \in Nat
  BY <1>2 DEF PlanEntry
<1>4. run.state.entry \in Nat \ {0}
  BY RunFacts
<1>5. QED
  BY <1>2, <1>3, <1>4 DEF SizeOf, EntriesLeft, EntrySize, plan

(* Uploads take more parts, are completed once and keep their target; what *)
(* is put under the key was not complete before.                           *)
WorldGoesOn ==
  /\ uploads \in Seq(Upload) /\ uploads' \in Seq(Upload)
  /\ Len(uploads') >= Len(uploads)
  /\ \A u \in 1 .. Len(uploads) :
       /\ uploads'[u].target = uploads[u].target
       /\ Len(uploads'[u].parts) >= Len(uploads[u].parts)
       /\ uploads[u].status = "complete" => uploads'[u].status = "complete"
  /\ \/ object' = object
     \/ /\ object'.upload \in 1 .. Len(uploads)
        /\ uploads[object'.upload].status # "complete"

LEMMA PlansStay ==
  ASSUME WorldGoesOn, NEW u \in 1 .. Len(uploads)
  PROVE  u \in 1 .. Len(uploads') /\ PlanOf(u)' = PlanOf(u)
<1>1. Len(uploads) \in Nat /\ Len(uploads') \in Nat /\ Len(uploads') >= Len(uploads)
  BY DEF WorldGoesOn
<1>2. uploads'[u].target = uploads[u].target
  BY DEF WorldGoesOn
<1>3. QED
  BY <1>1, <1>2 DEF PlanOf

LEMMA StoredStays ==
  ASSUME WorldGoesOn, NEW st, st.upload \in 1 .. Len(uploads), Stored(st)
  PROVE  Stored(st)'
<1>1. uploads[st.upload].status = "complete" /\ uploads'[st.upload].status = "complete"
  BY DEF Stored, WorldGoesOn
<1>2. CASE object' = object
  BY <1>1, <1>2 DEF Stored
<1>3. CASE /\ object'.upload \in 1 .. Len(uploads)
           /\ uploads[object'.upload].status # "complete"
  <2>1. object'.upload \notin {0, st.upload}
    BY <1>1, <1>3 DEF WorldGoesOn
  <2>2. QED
    BY <1>1, <2>1 DEF Stored
<1>4. QED
  BY <1>2, <1>3 DEF WorldGoesOn

LEMMA LiesStays ==
  ASSUME WorldGoesOn, NEW run, run.state.upload \in 1 .. Len(uploads), NEW whole, Lies(run, whole)
  PROVE  Lies(run, whole)'
<1>1. PlanOf(run.state.upload)' = PlanOf(run.state.upload)
  BY PlansStay
<1>2. \A i : SizeOf(run.state, i)' = SizeOf(run.state, i)
  BY <1>1 DEF SizeOf
<1>3. RecordsLie(run, whole)'
  <2>1. RecordsLie(run, whole) /\ Coming(run)' = Coming(run)
    BY DEF Lies, Coming
  <2>2. \A i, at, n : EntryLies(whole, i, at, n)' <=> EntryLies(whole, i, at, n)
    BY DEF EntryLies, HeaderByte
  <2>3. QED
    BY <1>2, <2>1, <2>2 DEF RecordsLie
<1>4. HeaderLies(run, whole)' /\ DirectoryLies(run, whole)'
  BY DEF Lies, HeaderLies, DirectoryLies, EntryLies, HeaderByte, Directory
<1>5. QED
  BY <1>3, <1>4 DEF Lies

LEMMA LiveStays ==
  ASSUME WorldGoesOn, NEW run \in RunType, Live(run)
  PROVE  Live(run)'
<1>1. run.state.upload \in 1 .. Len(uploads)
  BY DEF Live
<1>2. /\ run.state.upload \in 1 .. Len(uploads')
      /\ PlanOf(run.state.upload)' = PlanOf(run.state.upload)
  BY <1>1, PlansStay
<1>3. /\ EntriesLeft(run.state)' <=> EntriesLeft(run.state)
      /\ EntrySize(run.state)' = EntrySize(run.state)
  BY <1>2 DEF EntriesLeft, EntrySize
<1>4. Len(run.state.parts) <= Len(uploads'[run.state.upload].parts)
  <2>1. /\ Len(run.state.parts) <= Len(uploads[run.state.upload].parts)
        /\ Len(uploads'[run.state.upload].parts) >= Len(uploads[run.state.upload].parts)
    BY <1>1 DEF Live, WorldGoesOn
  <2>2. /\ uploads[run.state.upload] \in Upload /\ uploads'[run.state.upload] \in Upload
    BY <1>1, <1>2 DEF WorldGoesOn
  <2>3. Len(uploads[run.state.upload].parts) \in Nat
    BY <2>2 DEF Upload
  <2>4. Len(uploads'[run.state.upload].parts) \in Nat
    BY <2>2 DEF Upload
  <2>5. Len(run.state.parts) \in Nat
    BY RunFacts
  <2>6. PICK l \in Nat, m \in Nat, n \in Nat :
          /\ l = Len(run.state.parts) /\ m = Len(uploads[run.state.upload].parts)
          /\ n = Len(uploads'[run.state.upload].parts)
    BY <2>3, <2>4, <2>5
  <2>7. l <= m /\ m <= n
    BY <2>1, <2>6
  <2>8. QED
    BY <2>6, <2>7
<1>5. CursorAgrees(run)'
  <2>1. CursorAgrees(run)
    BY DEF Live
  <2>2. Coming(run)' = Coming(run)
    BY DEF Coming
  <2>3. QED
    BY <1>2, <1>3, <2>1, <2>2 DEF CursorAgrees
<1>6. PartsFit(run.state)' /\ PartsFull(run)' /\ Len(run.buffer) <= PART_SIZE
  BY DEF Live, PartsFit, PartsFull
<1>7. PICK bytes \in Seq(Byte) : JoinsTo(run.state.parts, bytes) /\ Lies(run, Whole(run, bytes))
  BY DEF Live
<1>8. Lies(run, Whole(run, bytes))' /\ JoinsTo(run.state.parts, bytes)'
  <2>1. PICK whole : whole = Whole(run, bytes)
    OBVIOUS
  <2>2. Lies(run, whole)'
    BY <1>1, <1>7, <2>1, LiesStays
  <2>3. Lies(run, Whole(run, bytes))'
    BY <2>1, <2>2 DEF Whole
  <2>4. QED
    BY <1>7, <2>3 DEF JoinsTo, Joins
<1>9. run.phase = "completed" => Stored(run.state)'
  BY <1>1, StoredStays DEF Live
<1>10. run.phase = "yield" => run.buffer = <<>> /\ EntriesLeft(run.state)'
  BY <1>3 DEF Live
<1>11. QED
  BY <1>2, <1>4, <1>5, <1>6, <1>7, <1>8, <1>9, <1>10 DEF Live

-----------------------------------------------------------------------------
(* The bytes that are appended.                                            *)
LEMMA HeaderIsBytes ==
  ASSUME NEW i \in Nat
  PROVE  /\ Header(i) \in Seq(Byte) /\ Len(Header(i)) = HEADER_SIZE
         /\ \A k \in 1 .. HEADER_SIZE : Header(i)[k] = HeaderByte(i, k)
<1>1. \A k \in 1 .. HEADER_SIZE : HeaderByte(i, k) \in Byte
  BY SizesAreNat DEF HeaderByte, Byte
<1>2. Header(i) = [k \in 1 .. HEADER_SIZE |-> HeaderByte(i, k)]
  BY DEF Header, HeaderByte
<1>3. QED
  BY <1>1, <1>2, SizesAreNat

LEMMA DataIsBytes ==
  ASSUME NEW i \in Nat, NEW from \in Nat, NEW n \in Nat
  PROVE  /\ Data(i, from, n) \in Seq(Byte) /\ Len(Data(i, from, n)) = n
         /\ \A p \in 1 .. n : Data(i, from, n)[p].of = "data" /\ Data(i, from, n)[p].entry = i
<1> DEFINE byte(k) == [of |-> "data", entry |-> i, at |-> from + k - 1]
<1>1. \A k \in 1 .. n : byte(k) \in Byte /\ byte(k).of = "data" /\ byte(k).entry = i
  BY DEF Byte
<1>2. Data(i, from, n) = [k \in 1 .. n |-> byte(k)]
  BY DEF Data
<1> HIDE DEF byte
<1>3. QED
  BY <1>1, <1>2

CentralByte(record) == [of |-> "central", entry |-> record.entry, at |-> record.offset]
EndByte(n, cdOffset) == [of |-> "end", entry |-> n, at |-> cdOffset]

LEMMA DirectoryIsBytes ==
  ASSUME NEW records \in Seq(Record), NEW cdOffset \in Nat
  PROVE  LET directory == Directory(records, cdOffset) IN
         /\ directory \in Seq(Byte) /\ Len(directory) = Len(records) + 1
         /\ \A j \in 1 .. Len(records) : directory[j] = CentralByte(records[j])
         /\ directory[Len(records) + 1] = EndByte(Len(records), cdOffset)
<1> DEFINE headers == [k \in 1 .. Len(records) |-> CentralByte(records[k])]
           end == EndByte(Len(records), cdOffset)
<1>1. Len(records) \in Nat /\ \A k \in 1 .. Len(records) : records[k] \in Record
  OBVIOUS
<1>2. \A k \in 1 .. Len(records) : CentralByte(records[k]) \in Byte
  BY <1>1 DEF CentralByte, Byte, Record
<1>3. end \in Byte
  BY <1>1 DEF EndByte, Byte
<1>4. headers \in Seq(Byte) /\ Len(headers) = Len(records)
  BY <1>1, <1>2
<1>5. Directory(records, cdOffset) = headers \o <<end>>
  BY DEF Directory, CentralByte, EndByte
<1>6. \A k \in 1 .. Len(records) : headers[k] = CentralByte(records[k])
  OBVIOUS
<1> HIDE DEF headers, end
<1>7. /\ headers \o <<end>> \in Seq(Byte) /\ Len(headers \o <<end>>) = Len(records) + 1
      /\ \A j \in 1 .. Len(records) : (headers \o <<end>>)[j] = headers[j]
      /\ (headers \o <<end>>)[Len(records) + 1] = end
  BY <1>1, <1>3, <1>4
<1>8. QED
  BY <1>5, <1>6, <1>7 DEF end

LEMMA NextDataIsBytes ==
  ASSUME uploads \in Seq(Upload), NEW run \in RunType, run.state.upload \in 1 .. Len(uploads),
         EntriesLeft(run.state), run.state.written <= EntrySize(run.state)
  PROVE  /\ NextData(run.state) \in Seq(Byte)
         /\ run.state.written + Len(NextData(run.state)) <= EntrySize(run.state)
         /\ \A p \in 1 .. Len(NextData(run.state)) :
              /\ NextData(run.state)[p].of = "data"
              /\ NextData(run.state)[p].entry = run.state.entry
<1> DEFINE st == run.state
           left == EntrySize(st) - st.written
<1>1. st.written \in Nat /\ st.entry \in Nat /\ EntrySize(st) \in Nat
  BY RunFacts, PlanFacts
<1>2. left \in Nat /\ st.written + left = EntrySize(st) /\ left = EntrySize(st) - st.written
  BY <1>1
<1> HIDE DEF left
<1>3. PICK n \in 0 .. left : \E from \in Nat : NextData(st) = Data(st.entry, from, n)
  <2>1. CASE PlanOf(st.upload)[st.entry].method = "STORED"
    <3>1. NextData(st) = Data(st.entry, 0, IF left < PATTERN_SIZE THEN left ELSE PATTERN_SIZE)
      BY <2>1 DEF NextData, EntrySize, left
    <3>2. (IF left < PATTERN_SIZE THEN left ELSE PATTERN_SIZE) \in 0 .. left
      BY <1>2, SizesAreNat
    <3>3. QED
      BY <3>1, <3>2
  <2>2. CASE PlanOf(st.upload)[st.entry].method # "STORED"
    <3>1. NextData(st) = Data(st.entry, st.written, left)
      BY <2>2 DEF NextData, EntrySize, left
    <3>2. QED
      BY <3>1, <1>1, <1>2
  <2>3. QED
    BY <2>1, <2>2
<1>4. PICK from \in Nat : NextData(st) = Data(st.entry, from, n)
  BY <1>3
<1>5. n \in Nat /\ st.written + n <= EntrySize(st)
  BY <1>1, <1>2, <1>3
<1> DEFINE data == Data(st.entry, from, n)
<1>6. /\ data \in Seq(Byte) /\ Len(data) = n
      /\ \A p \in 1 .. n : data[p].of = "data" /\ data[p].entry = st.entry
  <2>1. PICK i \in Nat : i = st.entry
    BY <1>1
  <2>2. /\ Data(i, from, n) \in Seq(Byte) /\ Len(Data(i, from, n)) = n
        /\ \A p \in 1 .. n : Data(i, from, n)[p].of = "data" /\ Data(i, from, n)[p].entry = i
    BY <1>5, DataIsBytes
  <2>3. data = Data(i, from, n)
    BY <2>1
  <2> HIDE DEF data
  <2>4. QED
    BY <2>1, <2>2, <2>3
<1>7. NextData(st) = data
  BY <1>4
<1> HIDE DEF data
<1>8. st.written + Len(data) <= EntrySize(st)
  BY <1>5, <1>6
<1>9. \A p \in 1 .. Len(data) : data[p].of = "data" /\ data[p].entry = st.entry
  BY <1>6
<1>10. QED
  BY <1>6, <1>7, <1>8, <1>9

\* What lies within the first bytes lies there whatever follows them.
LEMMA LiesWithin ==
  ASSUME NEW a \in Seq(Byte), NEW b \in Seq(Byte), NEW i, NEW at \in Nat,
         NEW n \in Nat, NEW m \in 0 .. n, at + HEADER_SIZE + m <= Len(a)
  PROVE  /\ EntryLies(a, i, at, n) => EntryLies(a \o b, i, at, m)
         /\ EntryLies(a \o b, i, at, n) => EntryLies(a, i, at, m)
<1>1. Len(a) \in Nat /\ \A k \in 1 .. Len(a) : (a \o b)[k] = a[k]
  OBVIOUS
<1>2. \A k \in 1 .. HEADER_SIZE : (a \o b)[at + k] = a[at + k]
  <2> SUFFICES ASSUME NEW k \in 1 .. HEADER_SIZE PROVE (a \o b)[at + k] = a[at + k]
    OBVIOUS
  <2>1. at + k \in 1 .. Len(a)
    BY <1>1, SizesAreNat
  <2>2. QED
    BY <1>1, <2>1
<1>3. \A p \in 1 .. m : (a \o b)[at + HEADER_SIZE + p] = a[at + HEADER_SIZE + p] /\ p \in 1 .. n
  <2> SUFFICES ASSUME NEW p \in 1 .. m
               PROVE  (a \o b)[at + HEADER_SIZE + p] = a[at + HEADER_SIZE + p] /\ p \in 1 .. n
    OBVIOUS
  <2>1. at + HEADER_SIZE + p \in 1 .. Len(a)
    BY <1>1, SizesAreNat
  <2>2. QED
    BY <1>1, <2>1
<1>4. QED
  BY <1>2, <1>3 DEF EntryLies

LEMMA SameList ==
  ASSUME NEW S, NEW a \in Seq(S), NEW b \in Seq(S), Len(a) = Len(b),
         \A k \in 1 .. Len(a) : a[k] = b[k]
  PROVE  a = b
OBVIOUS

LEMMA JoinFacts ==
  ASSUME NEW S, NEW a \in Seq(S), NEW b \in Seq(S)
  PROVE  /\ a \o b \in Seq(S) /\ Len(a \o b) = Len(a) + Len(b)
         /\ \A k \in 1 .. Len(a) : (a \o b)[k] = a[k]
         /\ \A k \in 1 .. Len(b) : (a \o b)[Len(a) + k] = b[k]
OBVIOUS

LEMMA AppendFacts ==
  ASSUME NEW S, NEW a \in Seq(S), NEW x \in S
  PROVE  /\ Append(a, x) \in Seq(S) /\ Len(Append(a, x)) = Len(a) + 1
         /\ Append(a, x)[Len(a) + 1] = x
         /\ \A k \in 1 .. Len(a) : Append(a, x)[k] = a[k]
OBVIOUS

JoinAlike(a, b, c, d) == (a \o (b \o c)) \o d = (a \o b) \o (c \o d)

LEMMA ListsJoinAlike ==
  ASSUME NEW S, NEW a \in Seq(S), NEW b \in Seq(S), NEW c \in Seq(S), NEW d \in Seq(S)
  PROVE  JoinAlike(a, b, c, d)
BY SMTT(40) DEF JoinAlike

\* The first n of a list and the rest of it.
LEMMA SplitJoins ==
  ASSUME NEW S, NEW todo \in Seq(S), NEW n \in 0 .. Len(todo)
  PROVE  /\ SubSeq(todo, 1, n) \in Seq(S) /\ Len(SubSeq(todo, 1, n)) = n
         /\ SubSeq(todo, n + 1, Len(todo)) \in Seq(S)
         /\ Len(SubSeq(todo, n + 1, Len(todo))) = Len(todo) - n
         /\ SubSeq(todo, 1, n) \o SubSeq(todo, n + 1, Len(todo)) = todo
<1> DEFINE first == SubSeq(todo, 1, n)
           rest == SubSeq(todo, n + 1, Len(todo))
<1>1. Len(todo) \in Nat /\ n \in Nat /\ n <= Len(todo)
  OBVIOUS
<1>2. first \in Seq(S) /\ Len(first) = n /\ rest \in Seq(S) /\ Len(rest) = Len(todo) - n
  OBVIOUS
<1>3. \A k \in 1 .. n : first[k] = todo[k]
  OBVIOUS
<1>4. \A k \in 1 .. Len(todo) - n : rest[k] = todo[n + k]
  OBVIOUS
<1> HIDE DEF first, rest
<1>5. first \o rest \in Seq(S) /\ Len(first \o rest) = Len(todo)
  <2>1. first \o rest \in Seq(S) /\ Len(first \o rest) = Len(first) + Len(rest)
    BY <1>2, JoinFacts
  <2>2. QED
    BY <1>1, <1>2, <2>1
<1>6. \A k \in 1 .. n : (first \o rest)[k] = first[k]
  BY <1>2, JoinFacts
<1>7. \A k \in 1 .. Len(rest) : (first \o rest)[n + k] = rest[k]
  BY <1>2, JoinFacts
<1>8. \A k \in 1 .. Len(todo) : (first \o rest)[k] = todo[k]
  <2> SUFFICES ASSUME NEW k \in 1 .. Len(todo) PROVE (first \o rest)[k] = todo[k]
    OBVIOUS
  <2>1. CASE k \in 1 .. n
    BY <1>3, <1>6, <2>1
  <2>2. CASE k \in n + 1 .. Len(todo)
    <3>1. k - n \in 1 .. Len(rest) /\ n + (k - n) = k
      BY <1>1, <1>2, <2>2
    <3>2. (first \o rest)[n + (k - n)] = rest[k - n] /\ rest[k - n] = todo[n + (k - n)]
      BY <1>4, <1>7, <1>2, <3>1
    <3>3. QED
      BY <3>1, <3>2
  <2>3. k \in 1 .. n \/ k \in n + 1 .. Len(todo)
    BY <1>1
  <2>4. QED
    BY <2>1, <2>2, <2>3
<1>9. first \o rest = todo
  BY <1>5, <1>8, SameList
<1>10. QED
  BY <1>2, <1>9 DEF first, rest

-----------------------------------------------------------------------------
(* A run goes on: the lemmas of its steps.                                 *)
LEMMA LiveAgain ==
  ASSUME NEW run \in RunType, Live(run), NEW new \in RunType, new.phase = "write",
         new.state.upload = run.state.upload, new.state.parts = run.state.parts,
         Len(new.buffer) <= PART_SIZE, CursorAgrees(new), PartsFull(new),
         \A bytes \in Seq(Byte) : Lies(run, Whole(run, bytes)) => Lies(new, Whole(new, bytes))
  PROVE  Live(new)
<1>1. PartsFit(new.state)
  BY DEF Live, PartsFit
<1>2. \E bytes \in Seq(Byte) : JoinsTo(new.state.parts, bytes) /\ Lies(new, Whole(new, bytes))
  <2>1. PICK bytes \in Seq(Byte) : JoinsTo(run.state.parts, bytes) /\ Lies(run, Whole(run, bytes))
    BY DEF Live
  <2>2. QED
    BY <2>1
<1>3. QED
  BY <1>1, <1>2 DEF Live

\* A run that begins to append what it decides on: there is nothing else to append.
LEMMA BeginsAgain ==
  ASSUME NEW run \in RunType, Live(run), run.todo = <<>>, run.source # "directory",
         NEW new \in RunType, new.phase = "write", new.buffer = run.buffer,
         new.state.upload = run.state.upload, new.state.parts = run.state.parts,
         new.state.offset = run.state.offset, CursorAgrees(new),
         \A base \in Seq(Byte) : Lies(run, base) => Lies(new, base \o new.todo)
  PROVE  Live(new)
<1>1. PartsFull(new) /\ Len(new.buffer) <= PART_SIZE
  BY DEF Live, PartsFull
<1>2. run.buffer \in Seq(Byte)
  BY RunFacts
<1>3. ASSUME NEW bytes \in Seq(Byte), Lies(run, Whole(run, bytes))
      PROVE  Lies(new, Whole(new, bytes))
  <2> DEFINE base == bytes \o run.buffer
  <2>1. base \in Seq(Byte) /\ base \o <<>> = base
    BY <1>2
  <2> HIDE DEF base
  <2>2. Lies(run, base)
    BY <1>3, <2>1 DEF Whole, base
  <2>3. Lies(new, base \o new.todo)
    BY <2>1, <2>2
  <2>4. QED
    BY <2>3 DEF Whole, base
<1>4. QED
  BY <1>1, <1>3, LiveAgain

\* What the records say is still so when bytes are added behind.
LEMMA RecordFacts ==
  ASSUME NEW run \in RunType, NEW i \in 1 .. Len(run.state.records)
  PROVE  /\ run.state.records[i].offset \in Nat /\ run.state.records[i].entry \in Nat
         /\ Len(run.state.records) \in Nat /\ i \in Nat
<1>1. run.state.records \in Seq(Record)
  BY RunFacts
<1>2. run.state.records[i] \in Record /\ Len(run.state.records) \in Nat /\ i \in Nat
  BY <1>1
<1>3. run.state.records[i].offset \in Nat /\ run.state.records[i].entry \in Nat
  BY <1>2 DEF Record
<1>4. QED
  BY <1>2, <1>3

LEMMA EarlierLie ==
  ASSUME uploads \in Seq(Upload), NEW run \in RunType, run.state.upload \in 1 .. Len(uploads),
         run.state.entry <= Len(PlanOf(run.state.upload)) + 1,
         NEW base \in Seq(Byte), NEW more \in Seq(Byte), Lies(run, base),
         NEW i \in 1 .. Len(run.state.records), i < run.state.entry
  PROVE  /\ run.state.records[i].entry = i
         /\ SizeOf(run.state, i) \in Nat
         /\ run.state.records[i].offset + HEADER_SIZE + SizeOf(run.state, i) <= run.state.offset
         /\ EntryLies(base \o more, i, run.state.records[i].offset, SizeOf(run.state, i))
<1> DEFINE at == run.state.records[i].offset
           size == SizeOf(run.state, i)
<1>1. at \in Nat /\ i \in Nat /\ run.state.entry \in Nat /\ run.state.offset \in Nat
      /\ Len(run.todo) \in Nat
  <2>1. at \in Nat /\ i \in Nat
    BY RecordFacts
  <2>2. run.state.entry \in Nat /\ run.state.offset \in Nat /\ run.todo \in Seq(Byte)
    BY RunFacts
  <2>3. Len(run.todo) \in Nat
    BY <2>2
  <2>4. QED
    BY <2>1, <2>2, <2>3
<1>2. i \in 1 .. Len(PlanOf(run.state.upload)) /\ size \in Nat
  BY <1>1, PlanFacts
<1>3. run.state.records[i].entry = i /\ EntryLies(base, i, at, size)
  BY DEF Lies, RecordsLie
<1>4. at + HEADER_SIZE + size <= run.state.offset
  BY DEF Lies, RecordsLie
<1>5. Len(base) = run.state.offset + Len(run.todo)
  BY DEF Lies
<1>6. at + HEADER_SIZE + size <= Len(base) /\ size \in 0 .. size
  <2> HIDE DEF at, size
  <2>1. QED
    BY <1>1, <1>2, <1>4, <1>5, HeaderSize
<1> HIDE DEF at, size
<1>7. EntryLies(base \o more, i, at, size)
  BY <1>1, <1>2, <1>3, <1>6, LiesWithin
<1>8. QED
  BY <1>2, <1>3, <1>4, <1>7 DEF at, size

\* A header is begun behind all there is.
LEMMA HeaderBegins ==
  ASSUME uploads \in Seq(Upload), NEW run \in RunType, Live(run), run.todo = <<>>,
         run.source # "header", EntriesLeft(run.state), run.state.header,
         NEW new \in RunType, new.phase = "write", new.buffer = run.buffer,
         new.state = run.state, new.source = "header",
         new.todo = Header(run.state.entry), new.headerOffset = run.state.offset
  PROVE  Live(new)
<1> DEFINE st == run.state
           header == Header(st.entry)
<1>1. /\ st.upload \in 1 .. Len(uploads) /\ st.entry \in Nat /\ st.offset \in Nat
      /\ st.entry <= Len(PlanOf(st.upload)) + 1
  BY RunFacts DEF Live, CursorAgrees
<1>2. run.source # "directory" /\ CursorAgrees(new)
  BY DEF Live, CursorAgrees, Coming
<1>3. /\ header \in Seq(Byte) /\ Len(header) = HEADER_SIZE
      /\ \A k \in 1 .. HEADER_SIZE : header[k] = HeaderByte(st.entry, k)
  BY <1>1, HeaderIsBytes
<1> HIDE DEF header
<1>4. ASSUME NEW base \in Seq(Byte), Lies(run, base)
      PROVE  Lies(new, base \o header)
  <2>1. Len(base) = st.offset
    BY <1>1, <1>4 DEF Lies
  <2> DEFINE whole == base \o header
  <2>2. whole \in Seq(Byte) /\ Len(whole) = st.offset + HEADER_SIZE
    <3>1. whole \in Seq(Byte) /\ Len(whole) = Len(base) + Len(header)
      BY <1>3, JoinFacts
    <3> HIDE DEF whole
    <3>2. QED
      BY <1>3, <2>1, <3>1
  <2>3. \A k \in 1 .. HEADER_SIZE : whole[st.offset + k] = HeaderByte(st.entry, k)
    <3>1. \A k \in 1 .. Len(header) : whole[Len(base) + k] = header[k]
      BY <1>3, JoinFacts
    <3>2. QED
      BY <1>3, <2>1, <3>1
  <2>4. RecordsLie(new, base \o header)
    <3>1. Len(st.records) = st.entry - 1
      BY <1>4 DEF Lies, RecordsLie
    <3>2. ASSUME NEW i \in 1 .. Len(st.records)
          PROVE  /\ i < st.entry
                 /\ st.records[i].entry = i
                 /\ st.records[i].offset + HEADER_SIZE + SizeOf(st, i) <= st.offset
                 /\ EntryLies(base \o header, i, st.records[i].offset, SizeOf(st, i))
      <4>1. i < st.entry
        BY <1>1, <3>1
      <4>2. QED
        BY <1>1, <1>3, <1>4, <4>1, EarlierLie
    <3>3. QED
      BY <3>1, <3>2 DEF RecordsLie
  <2>5. HeaderLies(new, base \o header)
    <3> HIDE DEF whole
    <3>1. EntryLies(whole, st.entry, st.offset, 0)
      BY <2>3 DEF EntryLies
    <3>2. HeaderLies(new, whole)
      BY <2>2, <3>1 DEF HeaderLies
    <3>3. QED
      BY <3>2 DEF whole
  <2>6. DirectoryLies(new, base \o header)
    BY DEF DirectoryLies
  <2>7. QED
    BY <1>3, <2>2, <2>4, <2>5, <2>6 DEF Lies, header
<1>5. QED
  BY <1>2, <1>4, BeginsAgain DEF header

\* A header is written: its entry is recorded where it began.
LEMMA HeaderEnds ==
  ASSUME uploads \in Seq(Upload), NEW run \in RunType, Live(run), run.todo = <<>>,
         run.source = "header",
         NEW new \in RunType, new.phase = "write", new.buffer = run.buffer,
         new.state = HeaderWritten(run.state, run.headerOffset), new.source = "none",
         new.todo = <<>>
  PROVE  Live(new)
<1> DEFINE st == run.state
           record == [entry |-> st.entry, offset |-> run.headerOffset]
           e == st.entry
           at == run.headerOffset
<1>1. /\ st.upload \in 1 .. Len(uploads) /\ e \in Nat \ {0} /\ st.offset \in Nat /\ at \in Nat
      /\ e <= Len(PlanOf(st.upload)) + 1 /\ EntriesLeft(st) /\ st.header
  BY RunFacts DEF Live, CursorAgrees
<1>2. /\ new.state.upload = st.upload /\ new.state.parts = st.parts /\ new.state.entry = e
      /\ new.state.offset = st.offset /\ new.state.status = st.status
      /\ new.state.header = FALSE /\ new.state.written = 0
      /\ new.state.records = Append(st.records, record)
  BY RunFacts DEF HeaderWritten, BuilderState
<1>3. EntriesLeft(new.state) /\ EntrySize(new.state) = EntrySize(st) /\ EntrySize(st) \in Nat
      /\ \A i : SizeOf(new.state, i) = SizeOf(st, i)
  BY <1>1, <1>2, PlanFacts DEF EntriesLeft, EntrySize, SizeOf
<1>4. CursorAgrees(new)
  <2>1. st.status = "running" /\ Coming(new) = 0
    BY <1>2 DEF Live, CursorAgrees, Coming
  <2>2. QED
    BY <1>1, <1>2, <1>3, <2>1 DEF CursorAgrees
<1>5. ASSUME NEW base \in Seq(Byte), Lies(run, base)
      PROVE  Lies(new, base \o <<>>)
  <2>1. Len(base) = st.offset /\ Len(st.records) = e - 1 /\ st.records \in Seq(Record)
    BY <1>1, <1>5, RunFacts DEF Lies, RecordsLie
  <2>2. at + HEADER_SIZE = Len(base) /\ EntryLies(base, e, at, 0)
    BY <1>5 DEF Lies, HeaderLies
  <2> DEFINE records == Append(st.records, record)
  <2>3. /\ Len(records) = e /\ records[e] = record
        /\ \A i \in 1 .. e : i < e => records[i] = st.records[i]
    <3>1. record \in Record
      BY <1>1 DEF Record
    <3>2. /\ Len(records) = Len(st.records) + 1 /\ records[Len(st.records) + 1] = record
          /\ \A k \in 1 .. Len(st.records) : records[k] = st.records[k]
      BY <2>1, <3>1, AppendFacts
    <3> HIDE DEF records, record
    <3>3. Len(st.records) + 1 = e /\ \A i \in 1 .. e : i < e => i \in 1 .. Len(st.records)
      BY <1>1, <2>1
    <3>4. QED
      BY <3>2, <3>3
  <2> HIDE DEF records
  <2>4. base \o <<>> = base /\ <<>> \in Seq(Byte)
    OBVIOUS
  <2>5. ASSUME NEW i \in 1 .. e
        PROVE  /\ records[i].entry = i
               /\ records[i].offset + HEADER_SIZE + (IF i < e THEN SizeOf(st, i) ELSE 0) <= st.offset
               /\ EntryLies(base, i, records[i].offset, IF i < e THEN SizeOf(st, i) ELSE 0)
    <3>1. CASE i < e
      <4>1. records[i] = st.records[i] /\ i \in 1 .. Len(st.records)
        BY <1>1, <2>1, <2>3, <3>1
      <4>2. /\ st.records[i].entry = i
            /\ st.records[i].offset + HEADER_SIZE + SizeOf(st, i) <= st.offset
            /\ EntryLies(base \o <<>>, i, st.records[i].offset, SizeOf(st, i))
        BY <1>1, <1>5, <2>4, <3>1, <4>1, EarlierLie
      <4>3. QED
        BY <2>4, <3>1, <4>1, <4>2
    <3>2. CASE ~(i < e)
      <4>1. i = e
        BY <1>1, <3>2
      <4>2. records[i].entry = i /\ records[i].offset = at
        BY <2>3, <4>1
      <4>3. at + HEADER_SIZE + 0 <= st.offset
        BY <1>1, <2>1, <2>2, HeaderSize
      <4>4. QED
        BY <2>2, <3>2, <4>1, <4>2, <4>3
    <3>3. QED
      BY <3>1, <3>2
  <2>6. RecordsLie(new, base)
    <3>1. Coming(new) = 0
      BY <1>2 DEF Coming
    <3>2. new.state.records = records
      BY <1>2 DEF records
    <3>3. records[e].offset + HEADER_SIZE + 0 = Len(base)
      BY <1>1, <2>2, <2>3, HeaderSize
    <3>4. QED
      BY <1>2, <1>3, <2>3, <2>5, <3>1, <3>2, <3>3 DEF RecordsLie
  <2>7. HeaderLies(new, base) /\ DirectoryLies(new, base)
    BY DEF HeaderLies, DirectoryLies
  <2>8. Len(base) = new.state.offset + Len(new.todo)
    BY <1>1, <1>2, <2>1
  <2>9. QED
    BY <2>4, <2>6, <2>7, <2>8 DEF Lies
<1>6. QED
  BY <1>2, <1>4, <1>5, BeginsAgain

\* More of an entry's data is begun behind all there is.
LEMMA DataBegins ==
  ASSUME uploads \in Seq(Upload), NEW run \in RunType, Live(run), run.todo = <<>>,
         run.source # "header", EntriesLeft(run.state), ~run.state.header,
         run.state.written < EntrySize(run.state),
         NEW new \in RunType, new.phase = "write", new.buffer = run.buffer,
         new.state = run.state, new.source = "data", new.todo = NextData(run.state)
  PROVE  Live(new)
<1> DEFINE st == run.state
           e == st.entry
           w == st.written
<1>1. /\ st.upload \in 1 .. Len(uploads) /\ e \in Nat \ {0} /\ st.offset \in Nat /\ w \in Nat
      /\ e <= Len(PlanOf(st.upload)) + 1 /\ st.records \in Seq(Record)
  BY RunFacts DEF Live, CursorAgrees
<1>2. EntrySize(st) \in Nat /\ w <= EntrySize(st)
  BY <1>1, PlanFacts
<1>3. PICK data \in Seq(Byte) :
        /\ data = NextData(st) /\ w + Len(data) <= EntrySize(st)
        /\ \A p \in 1 .. Len(data) : data[p].of = "data" /\ data[p].entry = e
  BY <1>1, <1>2, NextDataIsBytes
<1>4. /\ new.todo = data /\ Coming(new) = w + Len(data) /\ Coming(run) = w
      /\ Len(data) \in Nat
  <2>1. Len(<<>>) = 0 /\ Len(data) \in Nat
    OBVIOUS
  <2>2. QED
    BY <1>1, <1>3, <2>1 DEF Coming
<1>5. run.source # "directory" /\ CursorAgrees(new)
  BY <1>3, <1>4 DEF Live, CursorAgrees
<1>6. ASSUME NEW base \in Seq(Byte), Lies(run, base)
      PROVE  Lies(new, base \o data)
  <2> DEFINE whole == base \o data
             at == st.records[e].offset
  <2>1. Len(base) = st.offset /\ Len(st.records) = e
    BY <1>1, <1>6 DEF Lies, RecordsLie
  <2>2. /\ at \in Nat /\ st.records[e].entry = e /\ at + HEADER_SIZE + w <= st.offset
        /\ EntryLies(base, e, at, w) /\ at + HEADER_SIZE + w = Len(base)
    <3>1. e \in 1 .. Len(st.records) /\ ~(e < e)
      BY <1>1, <2>1
    <3>2. QED
      BY <1>4, <1>6, <3>1, RecordFacts DEF Lies, RecordsLie
  <2>3. whole \in Seq(Byte) /\ Len(whole) = Len(base) + Len(data)
    BY JoinFacts
  <2>4. \A p \in 1 .. Len(data) : whole[Len(base) + p] = data[p]
    BY JoinFacts
  <2> HIDE DEF whole, at
  <2>4a. /\ at \in Nat /\ w \in Nat /\ Len(data) \in Nat /\ HEADER_SIZE \in Nat
         /\ Len(base) \in Nat /\ at + HEADER_SIZE + w = Len(base)
    <3>1. Len(base) \in Nat
      OBVIOUS
    <3>2. QED
      BY <1>1, <1>4, <2>2, <3>1, HeaderSize
  <2>5. EntryLies(whole, e, at, w)
    <3>1. w \in 0 .. w /\ at + HEADER_SIZE + w <= Len(base)
      BY <1>1, <2>2, HeaderSize
    <3>2. EntryLies(base \o data, e, at, w)
      BY <1>1, <2>2, <3>1, LiesWithin
    <3>3. QED
      BY <3>2 DEF whole
  <2>6. EntryLies(whole, e, at, w + Len(data))
    <3>1. ASSUME NEW p \in 1 .. w + Len(data)
          PROVE  whole[at + HEADER_SIZE + p].of = "data" /\ whole[at + HEADER_SIZE + p].entry = e
      <4>1. CASE p \in 1 .. w
        BY <2>5, <4>1 DEF EntryLies
      <4>2. CASE p \in w + 1 .. w + Len(data)
        <5>1. p - w \in 1 .. Len(data) /\ at + HEADER_SIZE + p = Len(base) + (p - w)
          <6>1. PICK a \in Nat, h \in Nat, v \in Nat, d \in Nat, b \in Nat :
                  a = at /\ h = HEADER_SIZE /\ v = w /\ d = Len(data) /\ b = Len(base)
            BY <2>4a
          <6>2. a + h + v = b /\ p \in v + 1 .. v + d
            BY <2>4a, <4>2, <6>1
          <6>3. p - v \in 1 .. d /\ a + h + p = b + (p - v)
            BY <6>2, BehindTheData
          <6>4. QED
            BY <6>1, <6>3
        <5>2. whole[Len(base) + (p - w)] = data[p - w]
          BY <2>4, <5>1
        <5>3. QED
          BY <1>3, <5>1, <5>2
      <4>3. p \in 1 .. w \/ p \in w + 1 .. w + Len(data)
        BY <1>1, <1>4
      <4>4. QED
        BY <4>1, <4>2, <4>3
    <3>2. QED
      BY <2>5, <3>1 DEF EntryLies
  <2>7. at + HEADER_SIZE + (w + Len(data)) = Len(whole)
    <3>1. Len(whole) = Len(base) + Len(data)
      BY <2>3
    <3>2. at + HEADER_SIZE + (w + Len(data)) = (at + HEADER_SIZE + w) + Len(data)
      BY <2>4a
    <3>3. QED
      BY <2>4a, <3>1, <3>2
  <2>8. ASSUME NEW i \in 1 .. Len(st.records)
        PROVE  /\ st.records[i].entry = i
               /\ st.records[i].offset + HEADER_SIZE
                    + (IF i < e THEN SizeOf(st, i) ELSE w) <= st.offset
               /\ EntryLies(whole, i, st.records[i].offset,
                            IF i < e THEN SizeOf(st, i) ELSE w + Len(data))
    <3>1. CASE i < e
      <4>1. /\ st.records[i].entry = i
            /\ st.records[i].offset + HEADER_SIZE + SizeOf(st, i) <= st.offset
            /\ EntryLies(base \o data, i, st.records[i].offset, SizeOf(st, i))
        BY <1>1, <1>6, <3>1, EarlierLie
      <4>2. QED
        BY <3>1, <4>1 DEF whole
    <3>2. CASE ~(i < e)
      <4>1. i = e
        BY <1>1, <2>1, <3>2
      <4>2. QED
        BY <2>2, <2>6, <3>2, <4>1 DEF at
    <3>3. QED
      BY <3>1, <3>2
  <2>9. RecordsLie(new, whole)
    BY <1>4, <2>1, <2>7, <2>8 DEF RecordsLie, at
  <2>10. HeaderLies(new, whole) /\ DirectoryLies(new, whole)
    BY DEF HeaderLies, DirectoryLies
  <2>11. Len(whole) = new.state.offset + Len(new.todo)
    BY <1>1, <1>4, <2>1, <2>3
  <2>12. QED
    BY <2>9, <2>10, <2>11 DEF Lies, whole
<1>7. QED
  BY <1>4, <1>5, <1>6, BeginsAgain

\* An entry is over: all its data lies where its record tells.
LEMMA EntryEnds ==
  ASSUME uploads \in Seq(Upload), NEW run \in RunType, Live(run), run.todo = <<>>,
         run.source # "header", EntriesLeft(run.state), ~run.state.header,
         run.state.written = EntrySize(run.state),
         NEW new \in RunType, new.phase = "write", new.buffer = run.buffer,
         new.state = EntryOver(run.state), new.source = "none", new.todo = <<>>
  PROVE  Live(new)
<1> DEFINE st == run.state
           e == st.entry
<1>1. /\ st.upload \in 1 .. Len(uploads) /\ e \in Nat \ {0} /\ st.offset \in Nat
      /\ e <= Len(PlanOf(st.upload)) + 1 /\ st.records \in Seq(Record)
  BY RunFacts DEF Live, CursorAgrees
<1>2. /\ new.state.upload = st.upload /\ new.state.parts = st.parts /\ new.state.entry = e + 1
      /\ new.state.offset = st.offset /\ new.state.status = st.status
      /\ new.state.header = TRUE /\ new.state.written = 0 /\ new.state.records = st.records
  BY RunFacts DEF EntryOver, BuilderState
<1>3. /\ e \in 1 .. Len(PlanOf(st.upload)) /\ EntrySize(st) = SizeOf(st, e)
      /\ Len(PlanOf(st.upload)) \in Nat
  BY <1>1, PlanFacts
<1>4. Coming(new) = 0 /\ Coming(run) = SizeOf(st, e)
  <2>1. Len(<<>>) = 0 /\ st.written \in Nat
    BY RunFacts
  <2>2. QED
    BY <1>2, <1>3, <2>1 DEF Coming
<1>5. run.source # "directory" /\ CursorAgrees(new)
  <2>1. run.source # "directory" /\ st.status = "running"
    BY DEF Live, CursorAgrees
  <2>2. EntriesLeft(new.state) => 0 <= EntrySize(new.state)
    <3>1. ASSUME EntriesLeft(new.state) PROVE 0 <= EntrySize(new.state)
      <4>1. EntrySize(new.state) \in Nat
        BY <1>1, <1>2, <3>1, PlanFacts
      <4>2. QED
        BY <4>1
    <3>2. QED
      BY <3>1
  <2>3. e + 1 <= Len(PlanOf(st.upload)) + 1
    BY <1>1, <1>3
  <2>4. QED
    BY <1>2, <1>4, <2>1, <2>2, <2>3 DEF CursorAgrees
<1>6. ASSUME NEW base \in Seq(Byte), Lies(run, base)
      PROVE  Lies(new, base \o <<>>)
  <2>1. Len(base) = st.offset /\ Len(st.records) = e
    BY <1>1, <1>6 DEF Lies, RecordsLie
  <2>2. base \o <<>> = base /\ <<>> \in Seq(Byte)
    OBVIOUS
  <2>3. ASSUME NEW i \in 1 .. Len(st.records)
        PROVE  /\ i < e + 1
               /\ st.records[i].entry = i
               /\ st.records[i].offset + HEADER_SIZE + SizeOf(st, i) <= st.offset
               /\ EntryLies(base, i, st.records[i].offset, SizeOf(st, i))
    <3>1. i < e + 1 /\ (i < e \/ i = e) /\ ~(e < e)
      BY <1>1, <2>1
    <3>2. CASE i < e
      <4>1. /\ st.records[i].entry = i
            /\ st.records[i].offset + HEADER_SIZE + SizeOf(st, i) <= st.offset
            /\ EntryLies(base \o <<>>, i, st.records[i].offset, SizeOf(st, i))
        BY <1>1, <1>6, <2>2, <3>2, EarlierLie
      <4>2. QED
        BY <2>2, <3>1, <4>1
    <3>3. CASE i = e
      BY <1>3, <1>4, <1>6, <3>1, <3>3 DEF Lies, RecordsLie
    <3>4. QED
      BY <3>1, <3>2, <3>3
  <2>4. RecordsLie(new, base)
    <3>1. \A i : SizeOf(new.state, i) = SizeOf(st, i)
      BY <1>2 DEF SizeOf
    <3>2. Len(st.records) = (e + 1) - 1
      BY <1>1, <2>1
    <3>3. QED
      BY <1>2, <2>3, <3>1, <3>2 DEF RecordsLie
  <2>5. HeaderLies(new, base) /\ DirectoryLies(new, base)
    BY DEF HeaderLies, DirectoryLies
  <2>6. Len(base) = new.state.offset + Len(new.todo)
    BY <1>1, <1>2, <2>1
  <2>7. QED
    BY <2>2, <2>4, <2>5, <2>6 DEF Lies
<1>7. QED
  BY <1>2, <1>5, <1>6, BeginsAgain

Completing(st) == [st EXCEPT !.status = "completing"]

\* The directory is begun behind all entries.
LEMMA DirectoryBegins ==
  ASSUME uploads \in Seq(Upload), NEW run \in RunType, Live(run), run.todo = <<>>,
         run.source \notin {"header", "directory"}, ~EntriesLeft(run.state),
         NEW new \in RunType, new.phase = "write", new.buffer = run.buffer,
         new.state = Completing(run.state), new.source = "directory",
         new.todo = Directory(run.state.records, run.state.offset)
  PROVE  Live(new)
<1> DEFINE st == run.state
           directory == Directory(st.records, st.offset)
<1>1. /\ st.upload \in 1 .. Len(uploads) /\ st.entry \in Nat \ {0} /\ st.offset \in Nat
      /\ st.entry <= Len(PlanOf(st.upload)) + 1 /\ st.records \in Seq(Record) /\ st.header
      /\ st.written = 0
  BY RunFacts DEF Live, CursorAgrees
<1>2. /\ new.state.upload = st.upload /\ new.state.parts = st.parts /\ new.state.entry = st.entry
      /\ new.state.offset = st.offset /\ new.state.status = "completing"
      /\ new.state.header = st.header /\ new.state.written = st.written
      /\ new.state.records = st.records
  BY RunFacts DEF Completing, BuilderState
<1>3. CursorAgrees(new)
  <2>1. ~EntriesLeft(new.state)
    BY <1>2 DEF EntriesLeft
  <2>2. QED
    BY <1>1, <1>2, <2>1 DEF CursorAgrees
<1>4. directory \in Seq(Byte) /\ Len(directory) = Len(st.records) + 1 /\ Len(st.records) \in Nat
  <2>1. PICK records \in Seq(Record), cdOffset \in Nat : records = st.records /\ cdOffset = st.offset
    BY <1>1
  <2>2. Len(records) \in Nat
    BY <2>1
  <2>3. /\ Directory(records, cdOffset) \in Seq(Byte)
        /\ Len(Directory(records, cdOffset)) = Len(records) + 1
    BY DirectoryIsBytes
  <2>4. QED
    BY <2>1, <2>2, <2>3
<1> HIDE DEF directory
<1>5. ASSUME NEW base \in Seq(Byte), Lies(run, base)
      PROVE  Lies(new, base \o directory)
  <2>1. Len(base) = st.offset /\ Len(st.records) = st.entry - 1
    BY <1>1, <1>5 DEF Lies, RecordsLie
  <2> DEFINE whole == base \o directory
  <2>2. whole \in Seq(Byte) /\ Len(whole) = Len(base) + Len(directory)
    BY <1>4, JoinFacts
  <2>3. \A k \in 1 .. Len(directory) : whole[Len(base) + k] = directory[k]
    BY <1>4, JoinFacts
  <2>4. ASSUME NEW i \in 1 .. Len(st.records)
        PROVE  /\ i < st.entry
               /\ st.records[i].entry = i
               /\ st.records[i].offset + HEADER_SIZE + SizeOf(st, i) <= st.offset
               /\ EntryLies(whole, i, st.records[i].offset, SizeOf(st, i))
    <3>1. i < st.entry
      BY <1>1, <2>1
    <3>2. QED
      BY <1>1, <1>4, <1>5, <3>1, EarlierLie
  <2> HIDE DEF whole
  <2>5. RecordsLie(new, whole)
    <3>1. \A i : SizeOf(new.state, i) = SizeOf(st, i)
      BY <1>2 DEF SizeOf
    <3>2. QED
      BY <1>1, <1>2, <2>1, <2>4, <3>1 DEF RecordsLie
  <2>6. Len(whole) = st.offset + Len(st.records) + 1
    <3>1. Len(whole) = st.offset + (Len(st.records) + 1)
      BY <1>4, <2>1, <2>2
    <3>2. st.offset \in Nat /\ Len(st.records) \in Nat
      BY <1>1, <1>4
    <3>3. st.offset + (Len(st.records) + 1) = st.offset + Len(st.records) + 1
      BY <3>2
    <3>4. QED
      BY <3>1, <3>3
  <2>7. HeaderLies(new, whole) /\ DirectoryLies(new, whole)
    <3>1. \A j \in 1 .. Len(st.records) + 1 : whole[st.offset + j] = directory[j]
      BY <1>4, <2>1, <2>3
    <3>2. PICK cdOffset \in Nat : cdOffset = st.offset
      BY <1>1
    <3>3. directory = Directory(new.state.records, cdOffset)
      BY <1>2, <3>2 DEF directory
    <3>4. /\ Len(whole) = cdOffset + Len(new.state.records) + 1
          /\ \A j \in 1 .. Len(new.state.records) + 1 :
               whole[cdOffset + j] = Directory(new.state.records, cdOffset)[j]
      BY <1>2, <2>6, <3>1, <3>2, <3>3
    <3>5. QED
      BY <3>4 DEF HeaderLies, DirectoryLies
  <2>8. Len(whole) = new.state.offset + Len(new.todo)
    BY <1>2, <2>1, <2>2 DEF directory
  <2>9. QED
    BY <2>5, <2>7, <2>8 DEF Lies, whole, directory
<1>6. QED
  BY <1>2, <1>3, <1>5, BeginsAgain DEF directory

\* What copying n bytes changes.
MovesBytes(run, new, n) ==
  /\ new.buffer = run.buffer \o SubSeq(run.todo, 1, n)
  /\ new.todo = SubSeq(run.todo, n + 1, Len(run.todo))
  /\ new.state = Advanced(run.state, run.source, n)

LEMMA WholeStays ==
  ASSUME NEW run \in RunType, NEW n \in 0 .. Len(run.todo), NEW new, MovesBytes(run, new, n),
         NEW bytes \in Seq(Byte)
  PROVE  /\ Len(new.todo) = Len(run.todo) - n /\ Len(new.buffer) = Len(run.buffer) + n
         /\ Whole(new, bytes) = Whole(run, bytes)
<1>1. PICK todo \in Seq(Byte), buffer \in Seq(Byte) : todo = run.todo /\ buffer = run.buffer
  BY RunFacts
<1> DEFINE first == SubSeq(todo, 1, n)
           rest == SubSeq(todo, n + 1, Len(todo))
<1>2. n \in 0 .. Len(todo)
  BY <1>1
<1>3. /\ first \in Seq(Byte) /\ Len(first) = n /\ rest \in Seq(Byte)
      /\ Len(rest) = Len(todo) - n /\ first \o rest = todo
  BY <1>2, SplitJoins
<1>4. new.buffer = buffer \o first /\ new.todo = rest
  BY <1>1 DEF MovesBytes
<1> HIDE DEF first, rest
<1>5. Len(buffer \o first) = Len(buffer) + n
  BY <1>3, JoinFacts
<1>6. (bytes \o (buffer \o first)) \o rest = (bytes \o buffer) \o (first \o rest)
  <2>1. first \in Seq(Byte) /\ rest \in Seq(Byte)
    BY <1>3
  <2>2. JoinAlike(bytes, buffer, first, rest)
    BY <2>1, ListsJoinAlike
  <2>3. QED
    BY <2>2 DEF JoinAlike
<1>7. QED
  BY <1>1, <1>3, <1>4, <1>5, <1>6 DEF Whole

\* Bytes are copied into the part: they only move, and the cursor with them.
LEMMA BytesMove ==
  ASSUME uploads \in Seq(Upload), NEW run \in RunType, Live(run), run.todo # <<>>,
         NEW n \in 0 .. Len(run.todo), n <= PART_SIZE - Len(run.buffer),
         NEW new \in RunType, new.phase = "write", new.source = run.source,
         new.headerOffset = run.headerOffset, MovesBytes(run, new, n)
  PROVE  Live(new)
<1> DEFINE st == run.state
           e == st.entry
<1>1. /\ st.upload \in 1 .. Len(uploads) /\ e \in Nat \ {0} /\ st.offset \in Nat
      /\ st.written \in Nat /\ run.buffer \in Seq(Byte) /\ run.todo \in Seq(Byte)
      /\ st.parts \in Seq(Part)
      /\ e <= Len(PlanOf(st.upload)) + 1 /\ st.records \in Seq(Record)
  BY RunFacts DEF Live, CursorAgrees
<1>2. /\ new.state.upload = st.upload /\ new.state.parts = st.parts /\ new.state.entry = e
      /\ new.state.offset = st.offset + n /\ new.state.status = st.status
      /\ new.state.header = st.header /\ new.state.records = st.records
      /\ new.state.written = IF run.source = "data" THEN st.written + n ELSE st.written
  BY RunFacts DEF MovesBytes, Advanced, BuilderState
<1>3. n \in Nat /\ Len(run.todo) \in Nat /\ Len(run.buffer) \in Nat /\ n <= Len(run.todo)
  BY <1>1
<1>4. Len(new.todo) = Len(run.todo) - n /\ Len(new.buffer) = Len(run.buffer) + n
  <2>1. <<>> \in Seq(Byte)
    OBVIOUS
  <2>2. QED
    BY <2>1, WholeStays
<1>5. n \in Nat /\ st.offset \in Nat /\ st.written \in Nat
  BY <1>1, <1>3
<1>5a. PICK m \in Nat, t \in Nat, o \in Nat, w \in Nat, l \in Nat :
         m = n /\ t = Len(run.todo) /\ o = st.offset /\ w = st.written /\ l = Len(run.buffer)
  BY <1>3, <1>5
<1>5b. /\ w + m + (t - m) = w + t /\ o + m + (t - m) = o + t
       /\ \A p \in Nat : m <= p - l => l + m <= p
  OBVIOUS
<1>6. Coming(new) = Coming(run)
  <2>1. st.written + n + (Len(run.todo) - n) = st.written + Len(run.todo)
    BY <1>5a, <1>5b
  <2>2. QED
    BY <1>2, <1>4, <2>1 DEF Coming
<1>7. CursorAgrees(new)
  <2>1. EntriesLeft(new.state) = EntriesLeft(st) /\ EntrySize(new.state) = EntrySize(st)
    BY <1>2 DEF EntriesLeft, EntrySize
  <2>2. run.source # "none" /\ CursorAgrees(run)
    BY DEF Live, CursorAgrees
  <2>3. QED
    BY <1>2, <1>6, <2>1, <2>2 DEF CursorAgrees
<1>8. Len(new.buffer) <= PART_SIZE /\ PartsFull(new)
  <2>1. PART_SIZE \in Nat /\ Len(st.parts) \in Nat
    BY <1>1, SizesAreNat
  <2>2. Len(run.buffer) + n <= PART_SIZE
    BY <1>5a, <1>5b, <2>1
  <2>3. \A k \in 1 .. Len(st.parts) : Len(st.parts[k].body) = PART_SIZE
    BY DEF Live, PartsFull
  <2>4. ASSUME run.source # "directory"
        PROVE  st.offset + n = PART_SIZE * Len(st.parts) + (Len(run.buffer) + n)
    <3>1. st.offset = PART_SIZE * Len(st.parts) + Len(run.buffer)
      BY <2>4 DEF Live, PartsFull
    <3>2. PART_SIZE * Len(st.parts) \in Nat
      BY <2>1
    <3>3. QED
      BY <1>3, <1>5, <3>1, <3>2, BothGrow
  <2>5. QED
    BY <1>2, <1>4, <2>2, <2>3, <2>4 DEF PartsFull
<1>9. ASSUME NEW bytes \in Seq(Byte), Lies(run, Whole(run, bytes))
      PROVE  Lies(new, Whole(new, bytes))
  <2>1. PICK whole : whole = Whole(run, bytes)
    OBVIOUS
  <2>2. Lies(run, whole) /\ Whole(new, bytes) = whole
    BY <1>9, <2>1, WholeStays
  <2>3. Len(whole) = st.offset + Len(run.todo)
    BY <2>2 DEF Lies
  <2>4. Len(whole) = new.state.offset + Len(new.todo)
    <3>1. st.offset + n + (Len(run.todo) - n) = st.offset + Len(run.todo)
      BY <1>5a, <1>5b
    <3>2. QED
      BY <1>2, <1>4, <2>3, <3>1
  <2>5. RecordsLie(run, whole)
    BY <2>2 DEF Lies
  <2>6. \A i : SizeOf(new.state, i) = SizeOf(st, i)
    BY <1>2 DEF SizeOf
  <2>7. ASSUME NEW i \in 1 .. Len(st.records)
        PROVE  st.records[i].offset + HEADER_SIZE
                 + (IF i < e THEN SizeOf(st, i) ELSE new.state.written) <= st.offset + n
    <3> DEFINE at == st.records[i].offset
    <3>1. at \in Nat /\ HEADER_SIZE \in Nat
      BY RecordFacts, HeaderSize
    <3>2. at + HEADER_SIZE + (IF i < e THEN SizeOf(st, i) ELSE st.written) <= st.offset
      BY <2>5 DEF RecordsLie
    <3> HIDE DEF at
    <3>3. CASE i < e
      <4>1. SizeOf(st, i) \in Nat
        <5>1. Len(PlanOf(st.upload)) \in Nat
              /\ \A j \in 1 .. Len(PlanOf(st.upload)) : SizeOf(st, j) \in Nat
          BY <1>1, PlanFacts
        <5>2. PICK last \in Nat : last = Len(PlanOf(st.upload))
          BY <5>1
        <5>3. i \in Nat /\ i >= 1 /\ e \in Nat /\ e <= last + 1
          BY <1>1, <5>2
        <5>4. i \in 1 .. last
          BY <3>3, <5>3
        <5>5. QED
          BY <5>1, <5>2, <5>4
      <4>2. at + HEADER_SIZE + SizeOf(st, i) <= st.offset
        BY <3>2, <3>3
      <4>3. at + HEADER_SIZE + SizeOf(st, i) <= st.offset + n
        BY <1>5, <3>1, <4>1, <4>2, BothGrow
      <4>4. QED
        BY <3>3, <4>3 DEF at
    <3>4. CASE ~(i < e)
      <4>1. at + HEADER_SIZE + st.written <= st.offset
        BY <3>2, <3>4
      <4>2. new.state.written = st.written + n \/ new.state.written = st.written
        BY <1>2
      <4>3. at + HEADER_SIZE + new.state.written <= st.offset + n
        BY <1>5, <3>1, <4>1, <4>2, BothGrow
      <4>4. QED
        BY <3>4, <4>3 DEF at
    <3>5. QED
      BY <3>3, <3>4
  <2>8. RecordsLie(new, whole)
    BY <1>2, <1>6, <2>5, <2>6, <2>7 DEF RecordsLie
  <2>9. HeaderLies(new, whole) /\ DirectoryLies(new, whole)
    <3>1. HeaderLies(run, whole) /\ DirectoryLies(run, whole)
      BY <2>2 DEF Lies
    <3>2. HeaderLies(new, whole)
      BY <1>2, <3>1 DEF HeaderLies
    <3>3. DirectoryLies(new, whole)
      BY <1>2, <3>1 DEF DirectoryLies
    <3>4. QED
      BY <3>2, <3>3
  <2>10. QED
    BY <2>2, <2>4, <2>8, <2>9 DEF Lies
<1>10. QED
  BY <1>2, <1>7, <1>8, <1>9, LiveAgain

-----------------------------------------------------------------------------
(* What an action leaves alone stays as it should be.                      *)
LEMMA RunsAreTyped ==
  /\ Blank \in BuilderState /\ NoRun \in RunType
  /\ \A u \in Nat : Fresh(u) \in BuilderState
  /\ \A kind \in {"start", "alarm"} : \A st \in BuilderState :
       /\ Run(kind, st) \in RunType /\ Run(kind, st).phase = "write"
       /\ Run(kind, st).state = st /\ Run(kind, st).buffer = <<>> /\ Run(kind, st).todo = <<>>
       /\ Run(kind, st).source = "none"
<1>1. Blank \in BuilderState
  BY DEF Blank, BuilderState
<1>2. NoRun \in RunType
  BY <1>1 DEF NoRun, RunType
<1>3. \A u \in Nat : Fresh(u) \in BuilderState
  BY <1>1 DEF Fresh, BuilderState
<1>4. ASSUME NEW kind \in {"start", "alarm"}, NEW st \in BuilderState
      PROVE  /\ Run(kind, st) \in RunType /\ Run(kind, st).phase = "write"
             /\ Run(kind, st).state = st /\ Run(kind, st).buffer = <<>>
             /\ Run(kind, st).todo = <<>> /\ Run(kind, st).source = "none"
  <2>1. Run(kind, st) \in RunType
    BY <1>2 DEF Run, RunType
  <2>2. NoRun.buffer = <<>> /\ NoRun.todo = <<>> /\ NoRun.source = "none"
    BY DEF NoRun
  <2>3. /\ Run(kind, st).phase = "write" /\ Run(kind, st).state = st
        /\ Run(kind, st).buffer = NoRun.buffer /\ Run(kind, st).todo = NoRun.todo
        /\ Run(kind, st).source = NoRun.source
    BY <1>2 DEF Run, RunType
  <2>4. QED
    BY <2>1, <2>2, <2>3
<1>5. QED
  BY <1>1, <1>2, <1>3, <1>4

LEMMA WorldStays ==
  ASSUME BuiltInv, UNCHANGED <<uploads, object>>
  PROVE  WorldGoesOn
<1>1. uploads \in Seq(Upload) /\ Len(uploads) \in Nat
  BY DEF BuiltInv
<1>2. \A u \in 1 .. Len(uploads) : Len(uploads[u].parts) >= Len(uploads[u].parts)
  <2> SUFFICES ASSUME NEW u \in 1 .. Len(uploads)
               PROVE  Len(uploads[u].parts) >= Len(uploads[u].parts)
    OBVIOUS
  <2>1. uploads[u] \in Upload
    BY <1>1
  <2>2. Len(uploads[u].parts) \in Nat
    BY <2>1 DEF Upload
  <2>3. QED
    BY <2>2
<1>3. QED
  BY <1>1, <1>2 DEF WorldGoesOn

LEMMA RunFitsStays ==
  ASSUME WorldGoesOn, NEW run, RunFits(run)
  PROVE  RunFits(run)'
<1>1. CASE run = NoRun
  BY <1>1 DEF RunFits
<1>2. CASE run # NoRun
  <2>1. run \in RunType /\ run.phase # "idle" /\ Live(run)
    BY <1>2 DEF RunFits
  <2>2. Live(run)'
    BY <2>1, LiveStays
  <2>3. QED
    BY <2>1, <2>2 DEF RunFits
<1>3. QED
  BY <1>1, <1>2

LEMMA StateFitsStays ==
  ASSUME WorldGoesOn, NEW st, StateFits(st)
  PROVE  StateFits(st)'
<1>1. ASSUME st.status # "none"
      PROVE  st.upload \in 1 .. Len(uploads') /\ WithinEntry(st)' /\ PartsFit(st)'
  <2>1. st.upload \in 1 .. Len(uploads) /\ WithinEntry(st) /\ PartsFit(st)
    BY <1>1 DEF StateFits
  <2>2. st.upload \in 1 .. Len(uploads') /\ PlanOf(st.upload)' = PlanOf(st.upload)
    BY <2>1, PlansStay
  <2>3. QED
    BY <2>1, <2>2 DEF WithinEntry, EntriesLeft, EntrySize, PartsFit
<1>2. ASSUME st.status = "running" PROVE Live(Run("alarm", st))'
  <2>1. PICK run \in RunType : run = Run("alarm", st) /\ Live(run)
    BY <1>2, RunsAreTyped DEF StateFits
  <2>2. Live(run)'
    BY <2>1, LiveStays
  <2>3. QED
    BY <2>1, <2>2
<1>3. ASSUME st.status = "done" PROVE Stored(st)'
  BY <1>3, StoredStays DEF StateFits
<1>4. QED
  BY <1>1, <1>2, <1>3 DEF StateFits

LEMMA ArchiveStays ==
  ASSUME BuiltInv, WorldGoesOn, UNCHANGED object
  PROVE  /\ object'.upload \in 0 .. Len(uploads') /\ object'.bytes \in Seq(Byte)
         /\ ArchiveIsReadable'
<1>1. /\ object.upload \in 0 .. Len(uploads) /\ object.bytes \in Seq(Byte) /\ ArchiveIsReadable
      /\ Len(uploads) \in Nat /\ Len(uploads') \in Nat /\ Len(uploads') >= Len(uploads)
  BY DEF BuiltInv, WorldGoesOn
<1>2. object.upload # 0 => PlanOf(object.upload)' = PlanOf(object.upload)
  <2>1. ASSUME object.upload # 0 PROVE PlanOf(object.upload)' = PlanOf(object.upload)
    <3>1. PICK u \in 1 .. Len(uploads) : u = object.upload
      BY <1>1, <2>1
    <3>2. PlanOf(u)' = PlanOf(u)
      BY PlansStay
    <3>3. QED
      BY <3>1, <3>2 DEF PlanOf
  <2>2. QED
    BY <2>1
<1>3. ArchiveIsReadable'
  <2>1. PICK bytes, plan : bytes = object.bytes /\ plan = PlanOf(object.upload)
    OBVIOUS
  <2>2. object.upload # 0 => Readable(bytes, plan)
    BY <1>1, <2>1 DEF ArchiveIsReadable
  <2>3. Readable(bytes, plan)' <=> Readable(bytes, plan)
    BY DEF Readable, EntryAt, Header
  <2>4. QED
    BY <1>2, <2>1, <2>2, <2>3 DEF ArchiveIsReadable
<1>4. QED
  BY <1>1, <1>3

\* One run has changed, and fits.
LEMMA RunsGoOn ==
  ASSUME BuiltInv, WorldGoesOn, NEW r \in Runs, NEW new, RunFits(new)',
         runs' = [runs EXCEPT ![r] = new]
  PROVE  runs' \in [Runs -> RunType] /\ \A q \in Runs : RunFits(runs[q])'
<1>1. new \in RunType /\ runs \in [Runs -> RunType]
  BY DEF RunFits, BuiltInv
<1>2. ASSUME NEW q \in Runs PROVE RunFits(runs[q])'
  <2>1. CASE q = r
    <3>1. runs'[q] = new
      BY <1>1, <2>1
    <3>2. QED
      BY <3>1
  <2>2. CASE q # r
    <3>1. PICK run : run = runs[q] /\ run = runs'[q]
      BY <1>1, <2>2
    <3>2. RunFits(run)'
      BY <3>1, RunFitsStays DEF BuiltInv
    <3>3. QED
      BY <3>1, <3>2
  <2>3. QED
    BY <2>1, <2>2
<1>3. QED
  BY <1>1, <1>2

LEMMA RunsStay ==
  ASSUME BuiltInv, WorldGoesOn, UNCHANGED runs
  PROVE  runs' \in [Runs -> RunType] /\ \A q \in Runs : RunFits(runs[q])'
<1>1. runs \in [Runs -> RunType]
  BY DEF BuiltInv
<1>2. ASSUME NEW q \in Runs PROVE RunFits(runs[q])'
  <2>1. PICK run : run = runs[q] /\ run = runs'[q]
    OBVIOUS
  <2>2. RunFits(run)'
    BY <2>1, RunFitsStays DEF BuiltInv
  <2>3. QED
    BY <2>1, <2>2
<1>3. QED
  BY <1>1, <1>2

LEMMA SavedStays ==
  ASSUME BuiltInv, WorldGoesOn, UNCHANGED saved
  PROVE  StateFits(saved)'
<1>1. PICK st : st = saved /\ st = saved'
  OBVIOUS
<1>2. StateFits(st)'
  BY <1>1, StateFitsStays DEF BuiltInv
<1>3. QED
  BY <1>1, <1>2

-----------------------------------------------------------------------------
(* The actions of the builder.                                             *)
LEMMA LiveRun ==
  ASSUME BuiltInv, NEW r \in Runs, runs[r].phase # "idle"
  PROVE  runs[r] \in RunType /\ Live(runs[r])
<1>1. runs[r] \in RunType /\ RunFits(runs[r]) /\ NoRun.phase = "idle"
  BY DEF BuiltInv, NoRun
<1>2. QED
  BY <1>1 DEF RunFits

LEMMA LocalGoesOn ==
  ASSUME BuiltInv, NEW r \in Runs, NEW new \in RunType, new.phase # "idle", Live(new),
         Local(r, new)
  PROVE  BuiltInv'
<1>1. /\ runs' = [runs EXCEPT ![r] = new]
      /\ UNCHANGED <<saved, alarm, uploads, object, starting, aborting, aborts, crashes, failures>>
  BY DEF Local
<1>2. WorldGoesOn
  BY <1>1, WorldStays
<1>3. RunFits(new)'
  BY <1>2, RunFitsStays DEF RunFits
<1>4. runs' \in [Runs -> RunType] /\ \A q \in Runs : RunFits(runs[q])'
  BY <1>1, <1>2, <1>3, RunsGoOn
<1>5. StateFits(saved)'
  BY <1>1, <1>2, SavedStays
<1>6. object'.upload \in 0 .. Len(uploads') /\ object'.bytes \in Seq(Byte) /\ ArchiveIsReadable'
  BY <1>1, <1>2, ArchiveStays
<1>7. QED
  BY <1>1, <1>4, <1>5, <1>6 DEF BuiltInv

\* What a run makes of its copy of the state is a state.
LEMMA HeaderWrittenIsState ==
  ASSUME NEW st \in BuilderState, NEW at \in Nat
  PROVE  HeaderWritten(st, at) \in BuilderState
<1> DEFINE record == [entry |-> st.entry, offset |-> at]
           records == Append(st.records, record)
<1>1. st.entry \in Nat /\ st.records \in Seq(Record)
  BY DEF BuilderState
<1>2. record \in Record
  BY <1>1 DEF Record
<1> HIDE DEF record
<1>3. records \in Seq(Record)
  BY <1>1, <1>2, AppendFacts
<1>4. HeaderWritten(st, at) = [st EXCEPT !.records = records, !.header = FALSE, !.written = 0]
  BY DEF HeaderWritten, record
<1> HIDE DEF records
<1>5. [st EXCEPT !.records = records, !.header = FALSE, !.written = 0] \in BuilderState
  BY <1>3 DEF BuilderState
<1>6. QED
  BY <1>4, <1>5

LEMMA EntryOverIsState ==
  ASSUME NEW st \in BuilderState
  PROVE  EntryOver(st) \in BuilderState
<1> DEFINE next == st.entry + 1
<1>1. next \in Nat \ {0}
  BY DEF BuilderState
<1>2. EntryOver(st) = [st EXCEPT !.entry = next, !.header = TRUE, !.written = 0]
  BY DEF EntryOver
<1> HIDE DEF next
<1>3. [st EXCEPT !.entry = next, !.header = TRUE, !.written = 0] \in BuilderState
  BY <1>1 DEF BuilderState
<1>4. QED
  BY <1>2, <1>3

LEMMA AdvancedIsState ==
  ASSUME NEW st \in BuilderState, NEW source, NEW n \in Nat
  PROVE  Advanced(st, source, n) \in BuilderState
<1> DEFINE offset == st.offset + n
           written == IF source = "data" THEN st.written + n ELSE st.written
<1>1. offset \in Nat /\ written \in Nat
  BY DEF BuilderState
<1>2. Advanced(st, source, n) = [st EXCEPT !.offset = offset, !.written = written]
  BY DEF Advanced
<1> HIDE DEF offset, written
<1>3. [st EXCEPT !.offset = offset, !.written = written] \in BuilderState
  BY <1>1 DEF BuilderState
<1>4. QED
  BY <1>2, <1>3

LEMMA CompletingIsState ==
  ASSUME NEW st \in BuilderState
  PROVE  Completing(st) \in BuilderState
BY DEF Completing, BuilderState

LEMMA FillsGoOn ==
  ASSUME BuiltInv, NEW r \in Runs, Fills(r)
  PROVE  BuiltInv'
<1> PICK run : run = runs[r]
  OBVIOUS
<1> DEFINE st == run.state
<1>1. run.phase = "write" /\ Len(run.buffer) < PART_SIZE
  BY DEF Fills, BeginHeader, HeaderDone, BeginData, EntryDone, BeginDirectory, Copy, Writing
<1>2. run \in RunType /\ Live(run) /\ uploads \in Seq(Upload)
  BY <1>1, LiveRun DEF BuiltInv
<1>3. /\ st \in BuilderState /\ st.upload \in 1 .. Len(uploads) /\ st.entry \in Nat \ {0}
      /\ st.offset \in Nat /\ st.written \in Nat /\ st.records \in Seq(Record)
      /\ run.headerOffset \in Nat /\ run.todo \in Seq(Byte) /\ run.buffer \in Seq(Byte)
  BY <1>2, RunFacts DEF Live
<1>4. CASE BeginHeader(r)
  <2> PICK todo : todo = Header(st.entry)
    OBVIOUS
  <2> DEFINE new == [run EXCEPT !.todo = todo, !.source = "header", !.headerOffset = st.offset]
  <2>1. /\ run.todo = <<>> /\ run.source # "header" /\ EntriesLeft(st) /\ st.header
        /\ Local(r, new)
    BY <1>4 DEF BeginHeader
  <2>2. todo \in Seq(Byte)
    BY <1>3, HeaderIsBytes
  <2>3. /\ new \in RunType /\ new.phase = run.phase /\ new.buffer = run.buffer
        /\ new.state = st /\ new.source = "header" /\ new.todo = todo
        /\ new.headerOffset = st.offset
    BY <1>2, <1>3, <2>2 DEF RunType
  <2> HIDE DEF new
  <2>4. Live(new)
    BY <1>1, <1>2, <2>1, <2>3, HeaderBegins
  <2>5. QED
    BY <1>1, <2>1, <2>3, <2>4, LocalGoesOn
<1>5. CASE HeaderDone(r)
  <2> PICK state : state = HeaderWritten(st, run.headerOffset)
    OBVIOUS
  <2> DEFINE new == [run EXCEPT !.source = "none", !.state = state]
  <2>1. run.todo = <<>> /\ run.source = "header" /\ Local(r, new)
    BY <1>5 DEF HeaderDone
  <2>2. state \in BuilderState
    BY <1>3, HeaderWrittenIsState
  <2>3. /\ new \in RunType /\ new.phase = run.phase /\ new.buffer = run.buffer
        /\ new.state = state /\ new.source = "none" /\ new.todo = run.todo
    BY <1>2, <2>2 DEF RunType
  <2> HIDE DEF new
  <2>4. Live(new)
    BY <1>1, <1>2, <2>1, <2>3, HeaderEnds
  <2>5. QED
    BY <1>1, <2>1, <2>3, <2>4, LocalGoesOn
<1>6. CASE BeginData(r)
  <2> PICK todo : todo = NextData(st)
    OBVIOUS
  <2> DEFINE new == [run EXCEPT !.todo = todo, !.source = "data"]
  <2>1. /\ run.todo = <<>> /\ run.source # "header" /\ EntriesLeft(st) /\ ~st.header
        /\ st.written < EntrySize(st) /\ Local(r, new)
    BY <1>6 DEF BeginData
  <2>2. todo \in Seq(Byte)
    <3>1. st.written <= EntrySize(st)
      BY <1>2, <1>3, <2>1, PlanFacts
    <3>2. QED
      BY <1>2, <1>3, <2>1, <3>1, NextDataIsBytes
  <2>3. /\ new \in RunType /\ new.phase = run.phase /\ new.buffer = run.buffer
        /\ new.state = st /\ new.source = "data" /\ new.todo = todo
    BY <1>2, <1>3, <2>2 DEF RunType
  <2> HIDE DEF new
  <2>4. Live(new)
    BY <1>1, <1>2, <2>1, <2>3, DataBegins
  <2>5. QED
    BY <1>1, <2>1, <2>3, <2>4, LocalGoesOn
<1>7. CASE EntryDone(r)
  <2> PICK state : state = EntryOver(st)
    OBVIOUS
  <2> PICK late \in BOOLEAN :
        Local(r, [run EXCEPT !.source = "none", !.state = EntryOver(st), !.yieldRequested = @ \/ late])
    BY <1>7 DEF EntryDone
  <2> PICK yield : yield = (run.yieldRequested \/ late)
    OBVIOUS
  <2> DEFINE new == [run EXCEPT !.source = "none", !.state = state, !.yieldRequested = yield]
  <2>1. /\ run.todo = <<>> /\ run.source # "header" /\ EntriesLeft(st) /\ ~st.header
        /\ st.written = EntrySize(st)
    BY <1>7 DEF EntryDone
  <2>2. state \in BuilderState
    BY <1>3, EntryOverIsState
  <2>3. yield \in BOOLEAN
    OBVIOUS
  <2>4. /\ new \in RunType /\ new.phase = run.phase /\ new.buffer = run.buffer
        /\ new.state = state /\ new.source = "none" /\ new.todo = run.todo
    BY <1>2, <1>3, <2>2, <2>3 DEF RunType
  <2>5. Local(r, new)
    OBVIOUS
  <2> HIDE DEF new
  <2>6. Live(new)
    BY <1>1, <1>2, <2>1, <2>4, EntryEnds
  <2>7. QED
    BY <1>1, <2>4, <2>5, <2>6, LocalGoesOn
<1>8. CASE BeginDirectory(r)
  <2> PICK todo, state : todo = Directory(st.records, st.offset) /\ state = Completing(st)
    OBVIOUS
  <2> DEFINE new == [run EXCEPT !.todo = todo, !.source = "directory", !.state = state]
  <2>1. run.todo = <<>> /\ run.source \notin {"header", "directory"} /\ ~EntriesLeft(st)
    BY <1>8 DEF BeginDirectory
  <2>2. Local(r, new)
    <3>1. [run EXCEPT !.todo = todo, !.source = "directory", !.state.status = "completing"] = new
      BY <1>2 DEF Completing, RunType
    <3>2. QED
      BY <1>8, <3>1 DEF BeginDirectory
  <2>3. todo \in Seq(Byte)
    BY <1>3, DirectoryIsBytes
  <2>4. state \in BuilderState
    BY <1>3, CompletingIsState
  <2>5. /\ new \in RunType /\ new.phase = run.phase /\ new.buffer = run.buffer
        /\ new.state = state /\ new.source = "directory" /\ new.todo = todo
    BY <1>2, <1>3, <2>3, <2>4 DEF RunType
  <2> HIDE DEF new
  <2>6. Live(new)
    BY <1>1, <1>2, <2>1, <2>5, DirectoryBegins
  <2>7. QED
    BY <1>1, <2>2, <2>5, <2>6, LocalGoesOn
<1>9. CASE Copy(r)
  <2> DEFINE space == PART_SIZE - Len(run.buffer)
             n == IF Len(run.todo) < space THEN Len(run.todo) ELSE space
             buffer == run.buffer \o SubSeq(run.todo, 1, n)
             todo == SubSeq(run.todo, n + 1, Len(run.todo))
             state == Advanced(st, run.source, n)
             new == [run EXCEPT !.buffer = buffer, !.todo = todo, !.state = state]
  <2>1. run.todo # <<>> /\ Local(r, new)
    BY <1>9 DEF Copy
  <2>2. n \in 0 .. Len(run.todo) /\ n <= PART_SIZE - Len(run.buffer) /\ n \in Nat
    <3>1. Len(run.buffer) \in Nat /\ Len(run.todo) \in Nat /\ PART_SIZE \in Nat
      <4>1. PICK done \in Seq(Byte), coming \in Seq(Byte) : done = run.buffer /\ coming = run.todo
        BY <1>3
      <4>2. Len(done) \in Nat /\ Len(coming) \in Nat
        OBVIOUS
      <4>3. QED
        BY <4>1, <4>2, PartSize
    <3>2. space \in Nat
      BY <1>1, <3>1
    <3> HIDE DEF space
    <3>3. n \in Nat /\ n <= Len(run.todo) /\ n <= space
      BY <3>1, <3>2
    <3> HIDE DEF n
    <3>4. QED
      BY <3>1, <3>3 DEF space
  <2> HIDE DEF space, n
  <2>3. buffer \in Seq(Byte) /\ todo \in Seq(Byte)
    BY <1>3, <2>2, SplitJoins, JoinFacts
  <2>4. state \in BuilderState
    BY <1>3, <2>2, AdvancedIsState
  <2> HIDE DEF buffer, todo, state
  <2>5. /\ new \in RunType /\ new.phase = run.phase /\ new.source = run.source
        /\ new.headerOffset = run.headerOffset
        /\ new.buffer = buffer /\ new.todo = todo /\ new.state = state
    BY <1>2, <2>3, <2>4 DEF RunType
  <2> HIDE DEF new
  <2>6. MovesBytes(run, new, n)
    BY <2>5 DEF MovesBytes, buffer, todo, state
  <2>7. Live(new)
    BY <1>1, <1>2, <2>1, <2>2, <2>5, <2>6, BytesMove
  <2>8. QED
    BY <1>1, <2>1, <2>5, <2>7, LocalGoesOn
<1>10. QED
  BY <1>4, <1>5, <1>6, <1>7, <1>8, <1>9 DEF Fills

\* What a state that is saved from a live run has.
LEMMA LiveStateFits ==
  ASSUME uploads \in Seq(Upload), NEW run \in RunType, Live(run)
  PROVE  /\ run.state.upload \in 1 .. Len(uploads) /\ WithinEntry(run.state)
         /\ PartsFit(run.state)
<1> DEFINE st == run.state
<1>1. st.upload \in 1 .. Len(uploads) /\ PartsFit(st) /\ CursorAgrees(run) /\ st.upload # 0
  BY DEF Live
<1>2. st.written \in Nat /\ Coming(run) \in Nat /\ st.written <= Coming(run)
  <2>1. st.written \in Nat /\ Len(run.todo) \in Nat
    BY RunFacts
  <2>2. QED
    BY <2>1 DEF Coming
<1>3. st.entry <= Len(PlanOf(st.upload)) + 1
  BY <1>1 DEF CursorAgrees
<1>4. CASE EntriesLeft(st)
  <2>1. EntrySize(st) \in Nat /\ Coming(run) <= EntrySize(st)
    BY <1>1, <1>4, PlanFacts DEF CursorAgrees
  <2>2. st.written <= EntrySize(st)
    BY <1>2, <2>1
  <2>3. QED
    BY <1>1, <1>3, <1>4, <2>2 DEF WithinEntry
<1>5. CASE ~EntriesLeft(st)
  <2>1. st.written = 0
    BY <1>1, <1>5 DEF CursorAgrees
  <2>2. st.written <= 0
    BY <2>1
  <2>3. QED
    BY <1>1, <1>3, <1>5, <2>2 DEF WithinEntry
<1>6. QED
  BY <1>4, <1>5

\* A state that differs only in its status, saved as done or as failed.
LEMMA EndedStateFits ==
  ASSUME uploads \in Seq(Upload), NEW run \in RunType, Live(run),
         NEW status \in {"error", "done"}, status = "done" => Stored(run.state)
  PROVE  StateFits([run.state EXCEPT !.status = status])
<1> DEFINE st == run.state
           ended == [st EXCEPT !.status = status]
<1>1. st \in BuilderState /\ st.upload \in 1 .. Len(uploads) /\ WithinEntry(st) /\ PartsFit(st)
      /\ st.upload # 0
  BY RunFacts, LiveStateFits
<1>2. /\ ended \in BuilderState /\ ended.status = status /\ ended.upload = st.upload
      /\ ended.entry = st.entry /\ ended.written = st.written /\ ended.parts = st.parts
      /\ ended.offset = st.offset
  BY <1>1 DEF BuilderState
<1> HIDE DEF ended
<1>3. WithinEntry(ended)
  BY <1>1, <1>2 DEF WithinEntry, EntriesLeft, EntrySize
<1>4. PartsFit(ended)
  BY <1>1, <1>2 DEF PartsFit
<1>5. status = "done" => Stored(ended)
  BY <1>2 DEF Stored
<1>6. StateFits(ended)
  BY <1>1, <1>2, <1>3, <1>4, <1>5 DEF StateFits
<1>7. QED
  BY <1>6 DEF ended

\* A run with nothing written yet.
LEMMA FreshFits ==
  ASSUME uploads \in Seq(Upload), NEW u \in 1 .. Len(uploads), NEW kind \in {"start", "alarm"}
  PROVE  Live(Run(kind, Fresh(u)))
<1> PICK run, st : run = Run(kind, Fresh(u)) /\ st = Fresh(u)
  OBVIOUS
<1>1. u \in Nat /\ u # 0
  OBVIOUS
<1>2. /\ st.upload = u /\ st.status = "running" /\ st.entry = 1 /\ st.written = 0
      /\ st.header = TRUE /\ st.offset = 0 /\ st.parts = <<>> /\ st.records = <<>>
  BY DEF Fresh, Blank
<1>3. /\ run \in RunType /\ run.phase = "write" /\ run.state = st /\ run.buffer = <<>>
      /\ run.todo = <<>> /\ run.source = "none"
  BY <1>1, RunsAreTyped
<1>4. Len(<<>>) = 0 /\ <<>> \o <<>> = <<>> /\ <<>> \in Seq(Byte)
  OBVIOUS
<1>5. PlanOf(u) \in Seq(PlanEntry) /\ Len(PlanOf(u)) \in Nat
  BY PlansAreLists
<1>6. CursorAgrees(run)
  <2>1. Coming(run) = 0
    BY <1>2, <1>3 DEF Coming
  <2>2. EntriesLeft(st) => 0 <= EntrySize(st)
    <3>1. ASSUME EntriesLeft(st) PROVE EntrySize(st) \in Nat
      BY <1>2, <1>3, <3>1, PlanFacts
    <3>2. QED
      BY <3>1
  <2>3. st.entry <= Len(PlanOf(st.upload)) + 1
    BY <1>2, <1>5
  <2>4. QED
    BY <1>2, <1>3, <2>1, <2>2, <2>3 DEF CursorAgrees
<1>7. PartsFit(st) /\ PartsFull(run) /\ Len(run.buffer) <= PART_SIZE
  <2>1. PART_SIZE \in Nat /\ 0 <= PART_SIZE /\ 0 = PART_SIZE * 0 + 0
    BY SizesAreNat
  <2>2. Len(st.parts) = 0 /\ Len(run.buffer) = 0 /\ \A n \in 1 .. Len(st.parts) : FALSE
    BY <1>2, <1>3, <1>4
  <2>3. PartsFit(st)
    BY <2>2 DEF PartsFit
  <2>4. PartsFull(run)
    BY <1>2, <1>3, <2>1, <2>2 DEF PartsFull
  <2>5. QED
    BY <2>1, <2>2, <2>3, <2>4
<1>8. Lies(run, <<>>)
  BY <1>2, <1>3, <1>4 DEF Lies, RecordsLie, HeaderLies, DirectoryLies
<1>9. JoinsTo(st.parts, <<>>) /\ Lies(run, Whole(run, <<>>))
  BY <1>2, <1>3, <1>4, <1>8, NothingJoins DEF Whole
<1>10. Len(st.parts) <= Len(uploads[u].parts)
  <2>1. uploads[u] \in Upload
    OBVIOUS
  <2>2. Len(uploads[u].parts) \in Nat
    BY <2>1 DEF Upload
  <2>3. QED
    BY <1>2, <1>4, <2>2
<1>11. QED
  BY <1>2, <1>3, <1>4, <1>6, <1>7, <1>9, <1>10 DEF Live

\* A run that yields leaves a state that a later run can go on from.
LEMMA YieldedStateFits ==
  ASSUME uploads \in Seq(Upload), NEW run \in RunType, Live(run), run.phase = "yield"
  PROVE  StateFits(run.state)
<1> PICK st, next : st = run.state /\ next = Run("alarm", run.state)
  OBVIOUS
<1>1. /\ st \in BuilderState /\ st.upload \in 1 .. Len(uploads) /\ WithinEntry(st) /\ PartsFit(st)
      /\ st.written \in Nat /\ st.offset \in Nat /\ st.entry \in Nat \ {0}
      /\ st.records \in Seq(Record) /\ Len(run.todo) \in Nat
  BY RunFacts, LiveStateFits
<1>2. run.buffer = <<>> /\ EntriesLeft(st) /\ CursorAgrees(run)
  BY DEF Live
<1>3. run.source # "directory" /\ st.status = "running"
  BY <1>2 DEF CursorAgrees
<1>4. /\ next \in RunType /\ next.phase = "write" /\ next.state = st /\ next.buffer = <<>>
      /\ next.todo = <<>> /\ next.source = "none"
  BY <1>1, RunsAreTyped
<1>5. Len(<<>>) = 0 /\ Coming(next) = st.written /\ st.written <= Coming(run)
  BY <1>1, <1>4 DEF Coming
<1>6. st.entry <= Len(PlanOf(st.upload)) + 1 /\ Coming(run) \in Nat /\ EntrySize(st) \in Nat
      /\ Coming(run) <= EntrySize(st)
  BY <1>1, <1>2, RunFacts, PlanFacts DEF CursorAgrees
<1>7. CursorAgrees(next)
  <2>1. st.written <= EntrySize(st)
    BY <1>1, <1>5, <1>6
  <2>2. st.header => st.written = 0
    BY <1>2 DEF CursorAgrees
  <2>3. QED
    BY <1>2, <1>3, <1>4, <1>5, <1>6, <2>1, <2>2 DEF CursorAgrees
<1>8. PartsFull(next) /\ Len(next.buffer) <= PART_SIZE
  <2>1. PartsFull(run) /\ 0 <= PART_SIZE
    BY SizesAreNat DEF Live
  <2>2. QED
    BY <1>2, <1>3, <1>4, <1>5, <2>1 DEF PartsFull
<1>9. PICK bytes \in Seq(Byte) : JoinsTo(st.parts, bytes) /\ Lies(run, Whole(run, bytes))
  BY DEF Live
<1>10. Whole(run, bytes) = bytes \o run.todo /\ Whole(next, bytes) = bytes
  <2>1. bytes \o <<>> = bytes
    OBVIOUS
  <2>2. QED
    BY <1>2, <1>4, <2>1 DEF Whole
<1>11. Lies(next, bytes)
  <2>1. Lies(run, bytes \o run.todo)
    BY <1>9, <1>10
  <2>2. Len(bytes) = st.offset
    <3>1. Len(bytes \o run.todo) = Len(bytes) + Len(run.todo) /\ Len(bytes) \in Nat
      BY RunFacts, JoinFacts
    <3>2. Len(bytes \o run.todo) = st.offset + Len(run.todo)
      BY <2>1 DEF Lies
    <3>3. QED
      BY <1>1, <3>1, <3>2
  <2>3. RecordsLie(run, bytes \o run.todo)
    BY <2>1 DEF Lies
  <2>4. ASSUME NEW i \in 1 .. Len(st.records),
               NEW n \in Nat, n = (IF i < st.entry THEN SizeOf(st, i) ELSE st.written)
        PROVE  EntryLies(bytes, i, st.records[i].offset, n)
    <3> PICK m : m = IF i < st.entry THEN SizeOf(st, i) ELSE Coming(run)
      OBVIOUS
    <3>1. /\ EntryLies(bytes \o run.todo, i, st.records[i].offset, m)
          /\ st.records[i].offset + HEADER_SIZE + n <= st.offset
      BY <2>3, <2>4 DEF RecordsLie
    <3>2. m \in Nat /\ n \in 0 .. m
      BY <1>1, <1>5, <1>6, <2>4
    <3>3. PICK at \in Nat, todo \in Seq(Byte) : at = st.records[i].offset /\ todo = run.todo
      BY RecordFacts, RunFacts
    <3>4. EntryLies(bytes \o todo, i, at, m) /\ at + HEADER_SIZE + n <= Len(bytes)
      BY <2>2, <3>1, <3>3
    <3>5. EntryLies(bytes, i, at, n)
      BY <3>2, <3>4, LiesWithin
    <3>6. QED
      BY <3>3, <3>5
  <2>5. ASSUME NEW i \in 1 .. Len(st.records)
        PROVE  EntryLies(bytes, i, st.records[i].offset,
                         IF i < st.entry THEN SizeOf(st, i) ELSE st.written)
    <3>1. (IF i < st.entry THEN SizeOf(st, i) ELSE st.written) \in Nat
      <4>1. ASSUME i < st.entry PROVE SizeOf(st, i) \in Nat
        <5>1. i \in 1 .. Len(PlanOf(st.upload))
          BY <1>1, <1>6, <4>1, PlanFacts
        <5>2. QED
          BY <1>1, <5>1, PlanFacts
      <4>2. QED
        BY <1>1, <4>1
    <3>2. QED
      BY <2>4, <3>1
  <2>6. ~st.header => st.records[st.entry].offset + HEADER_SIZE + st.written = Len(bytes)
    <3>1. ASSUME ~st.header
          PROVE  st.records[st.entry].offset + HEADER_SIZE + st.written = Len(bytes)
      <4> DEFINE at == st.records[st.entry].offset
      <4>1. at \in Nat /\ HEADER_SIZE \in Nat
        <5>1. st.entry \in 1 .. Len(st.records)
          BY <1>1, <2>3, <3>1 DEF RecordsLie
        <5>2. QED
          BY <5>1, RecordFacts, HeaderSize
      <4>2. at + HEADER_SIZE + Coming(run) = st.offset + Len(run.todo)
        BY <2>1, <3>1 DEF Lies, RecordsLie
      <4>3. Coming(run) = st.written + Len(run.todo)
        <5>1. run.source \in {"none", "data"} /\ (run.source = "none" => run.todo = <<>>)
          BY <1>2, <1>3, <3>1 DEF CursorAgrees, RunType
        <5>2. QED
          BY <1>1, <1>5, <5>1 DEF Coming
      <4>4. st.written \in Nat /\ st.offset \in Nat /\ Len(run.todo) \in Nat
        BY <1>1
      <4>5. PICK w \in Nat, o \in Nat, t \in Nat, a \in Nat :
              w = st.written /\ o = st.offset /\ t = Len(run.todo) /\ a = at
        BY <4>1, <4>4
      <4>6. a + HEADER_SIZE + (w + t) = o + t
        BY <4>2, <4>3, <4>5
      <4>7. a + HEADER_SIZE + w = o
        BY <4>1, <4>6
      <4>8. QED
        BY <2>2, <4>5, <4>7
    <3>2. QED
      BY <3>1
  <2>7. RecordsLie(next, bytes)
    <3>1. \A i : SizeOf(next.state, i) = SizeOf(st, i)
      BY <1>4 DEF SizeOf
    <3>2. /\ Len(st.records) = IF st.header THEN st.entry - 1 ELSE st.entry
          /\ \A i \in 1 .. Len(st.records) :
               /\ st.records[i].entry = i
               /\ st.records[i].offset + HEADER_SIZE
                    + (IF i < st.entry THEN SizeOf(st, i) ELSE st.written) <= st.offset
      BY <2>3 DEF RecordsLie
    <3>3. QED
      BY <1>4, <1>5, <2>5, <2>6, <3>1, <3>2 DEF RecordsLie
  <2>8. HeaderLies(next, bytes) /\ DirectoryLies(next, bytes)
    BY <1>4 DEF HeaderLies, DirectoryLies
  <2>9. Len(bytes) = next.state.offset + Len(next.todo)
    BY <1>1, <1>4, <1>5, <2>2
  <2>10. QED
    BY <2>7, <2>8, <2>9 DEF Lies
<1>12. Live(next)
  <2>1. Len(st.parts) <= Len(uploads[st.upload].parts)
    BY DEF Live
  <2>2. QED
    BY <1>1, <1>4, <1>7, <1>8, <1>9, <1>10, <1>11, <2>1 DEF Live
<1>13. QED
  BY <1>1, <1>3, <1>12 DEF StateFits

NextPart(st, body) == [number |-> Len(st.parts) + 1, body |-> body]

LEMMA FlushIsState ==
  ASSUME NEW st \in BuilderState, NEW body \in Seq(Byte)
  PROVE  /\ NextPart(st, body) \in Part /\ st.parts \in Seq(Part)
         /\ Flush(st, body) \in BuilderState
         /\ Flush(st, body).parts = Append(st.parts, NextPart(st, body))
         /\ Flush(st, body).upload = st.upload /\ Flush(st, body).status = st.status
         /\ Flush(st, body).entry = st.entry /\ Flush(st, body).written = st.written
         /\ Flush(st, body).header = st.header /\ Flush(st, body).offset = st.offset
         /\ Flush(st, body).records = st.records
<1> DEFINE part == NextPart(st, body)
           parts == Append(st.parts, part)
<1>1. st.parts \in Seq(Part)
  BY DEF BuilderState
<1>2. Len(st.parts) + 1 \in Nat \ {0}
  BY <1>1
<1>3. part \in Part
  BY <1>2 DEF Part, NextPart
<1>4. Flush(st, body) = [st EXCEPT !.parts = parts]
  BY DEF Flush, NextPart
<1> HIDE DEF part
<1>5. parts \in Seq(Part)
  BY <1>1, <1>3, AppendFacts
<1> HIDE DEF parts
<1>6. [st EXCEPT !.parts = parts] \in BuilderState
  BY <1>5 DEF BuilderState
<1> DEFINE flushed == [st EXCEPT !.parts = parts]
<1>7. /\ flushed.parts = parts /\ flushed.upload = st.upload /\ flushed.status = st.status
      /\ flushed.entry = st.entry /\ flushed.written = st.written /\ flushed.header = st.header
      /\ flushed.offset = st.offset /\ flushed.records = st.records
  BY DEF BuilderState
<1> HIDE DEF flushed
<1>8. Flush(st, body) = flushed /\ flushed \in BuilderState
  BY <1>4, <1>6 DEF flushed
<1>9. QED
  BY <1>1, <1>3, <1>7, <1>8 DEF part, parts

\* A part that lands adds one to what R2 holds, or takes the place of an earlier one.
LEMMA UploadedGoesOn ==
  ASSUME uploads \in Seq(Upload), NEW u \in 1 .. Len(uploads), NEW number \in Nat,
         number <= Len(uploads[u].parts) + 1, number # 0,
         NEW body \in Seq(Byte), uploads' = Uploaded(u, number, body), UNCHANGED object
  PROVE  WorldGoesOn /\ number <= Len(uploads'[u].parts)
<1> DEFINE old == uploads[u].parts
           more == IF number <= Len(old) THEN [old EXCEPT ![number] = body] ELSE Append(old, body)
<1>1. uploads[u] \in Upload /\ old \in Seq(Seq(Byte)) /\ Len(old) \in Nat
  <2>1. uploads[u] \in Upload
    OBVIOUS
  <2>2. old \in Seq(Seq(Byte))
    BY <2>1 DEF Upload
  <2>3. QED
    BY <2>1, <2>2
<1>2. uploads' = [uploads EXCEPT ![u].parts = more]
  BY DEF Uploaded
<1>3. more \in Seq(Seq(Byte)) /\ Len(more) \in Nat /\ Len(more) >= Len(old) /\ number <= Len(more)
  <2>1. CASE number <= Len(old)
    <3>1. number \in 1 .. Len(old)
      BY <1>1, <2>1
    <3>2. [old EXCEPT ![number] = body] \in Seq(Seq(Byte))
          /\ Len([old EXCEPT ![number] = body]) = Len(old)
      BY <1>1, <3>1
    <3>3. QED
      BY <1>1, <2>1, <3>2
  <2>2. CASE ~(number <= Len(old))
    <3>1. Append(old, body) \in Seq(Seq(Byte)) /\ Len(Append(old, body)) = Len(old) + 1
      BY <1>1, AppendFacts
    <3>2. QED
      BY <1>1, <2>2, <3>1
  <2>3. QED
    BY <2>1, <2>2
<1> HIDE DEF more, old
<1>4. PICK upload : upload = [uploads[u] EXCEPT !.parts = more]
  OBVIOUS
<1>5. /\ upload \in Upload /\ upload.parts = more /\ upload.target = uploads[u].target
      /\ upload.status = uploads[u].status
  BY <1>1, <1>3, <1>4 DEF Upload
<1>6. uploads' = [uploads EXCEPT ![u] = upload]
  BY <1>2, <1>4
<1>7. uploads' \in Seq(Upload) /\ Len(uploads') = Len(uploads) /\ Len(uploads) \in Nat
  BY <1>5, <1>6
<1>8. uploads'[u] = upload /\ \A v \in 1 .. Len(uploads) : v # u => uploads'[v] = uploads[v]
  BY <1>6
<1>9. ASSUME NEW v \in 1 .. Len(uploads)
      PROVE  /\ uploads'[v].target = uploads[v].target
             /\ Len(uploads'[v].parts) >= Len(uploads[v].parts)
             /\ uploads[v].status = "complete" => uploads'[v].status = "complete"
  <2>1. CASE v = u
    BY <1>3, <1>5, <1>8, <2>1 DEF old
  <2>2. CASE v # u
    <3>1. uploads'[v] = uploads[v] /\ uploads[v] \in Upload
      BY <1>8, <2>2
    <3>2. Len(uploads[v].parts) \in Nat
      BY <3>1 DEF Upload
    <3>3. QED
      BY <3>1, <3>2
  <2>3. QED
    BY <2>1, <2>2
<1>10. Len(uploads') >= Len(uploads)
  BY <1>7
<1>11. QED
  BY <1>3, <1>5, <1>7, <1>8, <1>9, <1>10 DEF WorldGoesOn

\* What a run knows of its bytes when its buffer has become a part.
LEMMA FlushedIsLive ==
  ASSUME WorldGoesOn, NEW run \in RunType, Live(run), run.phase = "write",
         Flushable(run) \/ (Finished(run) /\ run.buffer # <<>>),
         Len(run.state.parts) + 1 <= Len(uploads'[run.state.upload].parts),
         NEW new \in RunType, new.state = Flush(run.state, run.buffer), new.buffer = <<>>,
         new.phase = IF Yields(run) THEN "yield" ELSE "write",
         new.todo = run.todo, new.source = run.source, new.headerOffset = run.headerOffset
  PROVE  Live(new)'
<1> DEFINE st == run.state
           part == NextPart(st, run.buffer)
           L == Len(st.parts)
<1>1. /\ st \in BuilderState /\ run.buffer \in Seq(Byte) /\ run.todo \in Seq(Byte)
      /\ st.upload \in 1 .. Len(uploads) /\ L \in Nat /\ Len(run.buffer) \in Nat
  BY RunFacts DEF Live
<1>2. /\ part \in Part /\ st.parts \in Seq(Part) /\ new.state.parts = Append(st.parts, part)
      /\ new.state.upload = st.upload /\ new.state.status = st.status
      /\ new.state.entry = st.entry /\ new.state.written = st.written
      /\ new.state.header = st.header /\ new.state.offset = st.offset
      /\ new.state.records = st.records
  <2>1. PICK state \in BuilderState, body \in Seq(Byte) : state = st /\ body = run.buffer
    BY <1>1
  <2>2. PICK flushed : flushed = Flush(state, body)
    OBVIOUS
  <2>3. new.state = flushed
    BY <2>1, <2>2
  <2>4. NextPart(state, body) \in Part /\ state.parts \in Seq(Part)
        /\ flushed.parts = Append(state.parts, NextPart(state, body))
    BY <2>2, FlushIsState
  <2>5. /\ flushed.upload = state.upload /\ flushed.status = state.status
        /\ flushed.entry = state.entry /\ flushed.written = state.written
        /\ flushed.header = state.header /\ flushed.offset = state.offset
        /\ flushed.records = state.records
    BY <2>2, FlushIsState
  <2>6. part = NextPart(state, body)
    BY <2>1
  <2> HIDE DEF part
  <2>7. part \in Part /\ st.parts \in Seq(Part) /\ new.state.parts = Append(st.parts, part)
    BY <2>1, <2>3, <2>4, <2>6
  <2>8. QED
    BY <2>1, <2>3, <2>5, <2>7
<1>3. part.number = L + 1 /\ part.body = run.buffer
  BY DEF NextPart
<1> HIDE DEF part
<1>4. /\ Len(new.state.parts) = L + 1 /\ new.state.parts[L + 1] = part
      /\ \A n \in 1 .. L : new.state.parts[n] = st.parts[n]
  BY <1>2, AppendFacts
<1> HIDE DEF L
<1>5. PART_SIZE \in Nat /\ PART_SIZE > 0 /\ Len(<<>>) = 0
  BY SizesAreNat
<1>6. Len(run.buffer) \in 1 .. PART_SIZE
  <2>1. Len(run.buffer) <= PART_SIZE
    BY DEF Live
  <2>2. CASE Flushable(run)
    BY <1>5, <2>2 DEF Flushable
  <2>3. CASE run.buffer # <<>>
    <3>1. Len(run.buffer) # 0
      BY <1>1, <2>3
    <3>2. QED
      BY <1>1, <1>5, <2>1, <3>1
  <2>4. QED
    BY <2>2, <2>3
<1>7. \A n \in 1 .. L : Len(st.parts[n].body) = PART_SIZE
  BY <1>5, <1>6 DEF Live, PartsFull, L
<1>8. PartsFit(new.state)'
  <2>1. ASSUME NEW n \in 1 .. L + 1
        PROVE  /\ new.state.parts[n].number = n
               /\ Len(new.state.parts[n].body) \in 1 .. PART_SIZE
               /\ n < L + 1 => Len(new.state.parts[n].body) = PART_SIZE
    <3>1. CASE n \in 1 .. L
      <4>1. new.state.parts[n] = st.parts[n] /\ st.parts[n].number = n
        BY <1>4, <3>1 DEF Live, PartsFit, L
      <4>2. QED
        BY <1>5, <1>7, <3>1, <4>1
    <3>2. CASE n = L + 1
      <4>1. new.state.parts[n] = part /\ ~(n < L + 1)
        BY <1>1, <1>4, <3>2
      <4>2. QED
        BY <1>3, <1>6, <3>2, <4>1
    <3>3. n \in 1 .. L \/ n = L + 1
      BY <1>1
    <3>4. QED
      BY <3>1, <3>2, <3>3
  <2>2. QED
    BY <1>4, <2>1 DEF PartsFit
<1>9. PartsFull(new)'
  <2>1. \/ \A n \in 1 .. L + 1 : Len(new.state.parts[n].body) = PART_SIZE
        \/ new.source = "directory" /\ new.todo = <<>> /\ new.buffer = <<>>
    <3>1. CASE Flushable(run)
      <4>1. ASSUME NEW n \in 1 .. L + 1 PROVE Len(new.state.parts[n].body) = PART_SIZE
        <5>1. n \in 1 .. L \/ n = L + 1
          BY <1>1
        <5>2. Len(part.body) = PART_SIZE
          BY <1>3, <3>1 DEF Flushable
        <5>3. QED
          BY <1>4, <1>7, <5>1, <5>2
      <4>2. QED
        BY <4>1
    <3>2. CASE Finished(run)
      BY <3>2 DEF Finished
    <3>3. QED
      BY <3>1, <3>2
  <2>2. ASSUME run.source # "directory"
        PROVE  st.offset = PART_SIZE * (L + 1) + 0
    <3>1. Len(run.buffer) = PART_SIZE
      BY <2>2 DEF Flushable, Finished
    <3>2. st.offset = PART_SIZE * L + PART_SIZE
      BY <2>2, <3>1 DEF Live, PartsFull, L
    <3>3. PART_SIZE * (L + 1) = PART_SIZE * L + PART_SIZE /\ PART_SIZE * L \in Nat
      BY <1>1, <1>5
    <3>4. QED
      BY <1>5, <3>2, <3>3
  <2>3. QED
    BY <1>2, <1>4, <1>5, <2>1, <2>2 DEF PartsFull
<1>10. /\ st.upload \in 1 .. Len(uploads') /\ PlanOf(st.upload)' = PlanOf(st.upload)
       /\ EntriesLeft(new.state)' <=> EntriesLeft(st)
       /\ EntrySize(new.state)' = EntrySize(st)
  <2>1. st.upload \in 1 .. Len(uploads') /\ PlanOf(st.upload)' = PlanOf(st.upload)
    BY <1>1, PlansStay
  <2>2. QED
    BY <1>2, <2>1 DEF EntriesLeft, EntrySize
<1>11. CursorAgrees(new)'
  <2>1. Coming(new) = Coming(run)
    BY <1>2 DEF Coming
  <2>2. QED
    BY <1>2, <1>10, <2>1 DEF Live, CursorAgrees, Coming
<1>12. PICK bytes \in Seq(Byte) : JoinsTo(st.parts, bytes) /\ Lies(run, Whole(run, bytes))
  BY DEF Live
<1>13. PICK more \in Seq(Byte) : more = bytes \o run.buffer
  <2>1. bytes \o run.buffer \in Seq(Byte)
    BY <1>1, JoinFacts
  <2>2. QED
    BY <2>1
<1>14. JoinsTo(new.state.parts, more)'
  <2>1. JoinsTo(Append(st.parts, part), bytes \o part.body)
    BY <1>2, <1>12, OneMoreJoins
  <2>2. JoinsTo(new.state.parts, more)
    BY <1>2, <1>3, <1>13, <2>1
  <2>3. QED
    BY <2>2 DEF JoinsTo, Joins
<1>15. Lies(new, Whole(new, more))'
  <2>1. PICK whole : whole = Whole(run, bytes)
    OBVIOUS
  <2>2. Lies(run, whole)'
    BY <1>1, <1>12, <2>1, LiesStays
  <2>3. Whole(new, more) = whole
    <3>1. more \o <<>> = more
      OBVIOUS
    <3>2. QED
      BY <1>13, <2>1, <3>1 DEF Whole
  <2>4. Lies(new, whole)'
    <3>1. /\ \A i : SizeOf(new.state, i)' = SizeOf(st, i)'
          /\ Coming(new) = Coming(run)
      BY <1>2 DEF SizeOf, Coming
    <3>2. RecordsLie(new, whole)'
      BY <1>2, <2>2, <3>1 DEF Lies, RecordsLie, Coming
    <3>3. HeaderLies(new, whole)' /\ DirectoryLies(new, whole)'
      BY <1>2, <2>2 DEF Lies, HeaderLies, DirectoryLies
    <3>4. QED
      BY <1>2, <2>2, <3>2, <3>3 DEF Lies
  <2>5. QED
    BY <2>3, <2>4 DEF Whole
<1>16. new.phase = "yield" => new.buffer = <<>> /\ EntriesLeft(new.state)'
  BY <1>10 DEF Yields
<1>17. new.phase # "completed" /\ Len(new.buffer) <= PART_SIZE
  BY <1>5
<1>18. QED
  BY <1>2, <1>4, <1>8, <1>9, <1>10, <1>11, <1>14, <1>15, <1>16, <1>17 DEF Live, L

\* The record of a run whose part has landed.
Landed(run) == [run EXCEPT !.phase = IF Yields(run) THEN "yield" ELSE "write",
                           !.state = Flush(run.state, run.buffer), !.buffer = <<>>]

LEMMA LandedIsRun ==
  ASSUME NEW run \in RunType
  PROVE  /\ Landed(run) \in RunType
         /\ Landed(run).state = Flush(run.state, run.buffer) /\ Landed(run).buffer = <<>>
         /\ Landed(run).phase = IF Yields(run) THEN "yield" ELSE "write"
         /\ Landed(run).todo = run.todo /\ Landed(run).source = run.source
         /\ Landed(run).headerOffset = run.headerOffset
<1> PICK state, phase : state = Flush(run.state, run.buffer)
                        /\ phase = IF Yields(run) THEN "yield" ELSE "write"
  OBVIOUS
<1>1. state \in BuilderState
  BY RunFacts, FlushIsState
<1>2. phase \in {"yield", "write"}
  OBVIOUS
<1>3. <<>> \in Seq(Byte)
  OBVIOUS
<1>4. PICK new : new = [run EXCEPT !.phase = phase, !.state = state, !.buffer = <<>>]
  OBVIOUS
<1>5. Landed(run) = new
  BY <1>4 DEF Landed
<1>6. /\ new \in RunType /\ new.state = state /\ new.buffer = <<>> /\ new.phase = phase
      /\ new.todo = run.todo /\ new.source = run.source
      /\ new.headerOffset = run.headerOffset
  BY <1>1, <1>2, <1>3, <1>4 DEF RunType
<1>7. QED
  BY <1>5, <1>6

LEMMA PartGoesOn ==
  ASSUME BuiltInv, NEW r \in Runs, PartLands(r)
  PROVE  BuiltInv'
<1> PICK run, new : run = runs[r] /\ new = Landed(runs[r])
  OBVIOUS
<1>1. runs[r].phase = "write" /\ uploads \in Seq(Upload) /\ runs \in [Runs -> RunType]
  BY DEF PartLands, BuiltInv
<1>2. run \in RunType /\ Live(run) /\ run.phase = "write"
  BY <1>1, LiveRun
<1>3. /\ new \in RunType /\ new.state = Flush(run.state, run.buffer) /\ new.buffer = <<>>
      /\ new.phase = IF Yields(run) THEN "yield" ELSE "write"
      /\ new.todo = run.todo /\ new.source = run.source
      /\ new.headerOffset = run.headerOffset
  BY <1>2, LandedIsRun
<1>4. runs' = [runs EXCEPT ![r] = new]
  BY <1>1 DEF PartLands, Landed
<1>5. /\ Flushable(run) \/ (Finished(run) /\ run.buffer # <<>>)
      /\ uploads' = Uploaded(run.state.upload, Len(run.state.parts) + 1, run.buffer)
  BY DEF PartLands
<1>6. UNCHANGED <<saved, alarm, object, starting, aborting, aborts, crashes, failures>>
  BY DEF PartLands
<1>7. WorldGoesOn /\ Len(run.state.parts) + 1 <= Len(uploads'[run.state.upload].parts)
  <2>1. PICK u \in 1 .. Len(uploads), number \in Nat, body \in Seq(Byte) :
          u = run.state.upload /\ number = Len(run.state.parts) + 1 /\ body = run.buffer
    <3>1. run.state.upload \in 1 .. Len(uploads)
      BY <1>2 DEF Live
    <3>2. run.state.parts \in Seq(Part) /\ run.buffer \in Seq(Byte)
      BY <1>2, RunFacts
    <3>3. Len(run.state.parts) + 1 \in Nat
      BY <3>2
    <3>4. QED
      BY <3>1, <3>2, <3>3
  <2>2. uploads' = Uploaded(u, number, body) /\ UNCHANGED object
    BY <1>5, <1>6, <2>1
  <2>3. number # 0 /\ number <= Len(uploads[u].parts) + 1
    <3>1. Len(run.state.parts) \in Nat /\ Len(run.state.parts) <= Len(uploads[u].parts)
      BY <1>2, <2>1, RunFacts DEF Live
    <3>2. Len(uploads[u].parts) \in Nat
      BY <1>1 DEF Upload
    <3>3. QED
      BY <2>1, <3>1, <3>2
  <2>4. WorldGoesOn /\ number <= Len(uploads'[u].parts)
    BY <1>1, <2>2, <2>3, UploadedGoesOn
  <2>5. QED
    BY <2>1, <2>4
<1>8. Live(new)'
  BY <1>2, <1>3, <1>5, <1>7, FlushedIsLive
<1>9. RunFits(new)'
  BY <1>3, <1>8 DEF RunFits
<1>10. runs' \in [Runs -> RunType] /\ \A q \in Runs : RunFits(runs[q])'
  BY <1>4, <1>7, <1>9, RunsGoOn
<1>11. StateFits(saved)'
  BY <1>6, <1>7, SavedStays
<1>12. object'.upload \in 0 .. Len(uploads') /\ object'.bytes \in Seq(Byte) /\ ArchiveIsReadable'
  BY <1>6, <1>7, ArchiveStays
<1>13. starting' \subseteq 1 .. Len(uploads') /\ aborting' \subseteq 1 .. Len(uploads')
       /\ uploads' \in Seq(Upload)
  BY <1>6, <1>7 DEF BuiltInv, WorldGoesOn
<1>14. QED
  BY <1>6, <1>10, <1>11, <1>12, <1>13 DEF BuiltInv

\* What is saved when a call returns or fails; the run is over.
LEMMA EndingGoesOn ==
  ASSUME BuiltInv, NEW r \in Runs, runs' = [runs EXCEPT ![r] = NoRun],
         NEW st, saved' = st, StateFits(st), alarm' \in BOOLEAN,
         failures' \in 0 .. MaxFailures,
         UNCHANGED <<uploads, object, starting, aborting, aborts, crashes>>
  PROVE  BuiltInv'
<1>1. WorldGoesOn
  BY WorldStays
<1>2. RunFits(NoRun)'
  BY RunsAreTyped DEF RunFits
<1>3. runs' \in [Runs -> RunType] /\ \A q \in Runs : RunFits(runs[q])'
  BY <1>1, <1>2, RunsGoOn
<1>4. StateFits(saved)'
  <2>1. StateFits(st)'
    BY <1>1, StateFitsStays
  <2>2. QED
    BY <2>1
<1>5. object'.upload \in 0 .. Len(uploads') /\ object'.bytes \in Seq(Byte) /\ ArchiveIsReadable'
  BY <1>1, ArchiveStays
<1>6. QED
  BY <1>3, <1>4, <1>5 DEF BuiltInv

LEMMA ReturnsGoOn ==
  ASSUME BuiltInv, NEW r \in Runs, PartReturns(r) \/ CompleteReturns(r) \/ CallFails(r)
  PROVE  BuiltInv'
<1> PICK run : run = runs[r]
  OBVIOUS
<1>1. run \in RunType /\ Live(run) /\ uploads \in Seq(Upload)
      /\ alarm \in BOOLEAN /\ failures \in 0 .. MaxFailures /\ MaxFailures \in Nat
  <2>1. runs[r].phase # "idle"
    BY DEF PartReturns, CompleteReturns, CallFails
  <2>2. QED
    BY <2>1, LiveRun, SizesAreNat DEF BuiltInv
<1>2. CASE PartReturns(r)
  <2>1. StateFits(run.state)
    BY <1>1, <1>2, YieldedStateFits DEF PartReturns
  <2>2. QED
    BY <1>1, <1>2, <2>1, EndingGoesOn DEF PartReturns, SetsAlarm
<1>3. CASE CompleteReturns(r)
  <2>1. PICK st : st = [run.state EXCEPT !.status = "done"]
    OBVIOUS
  <2>2. StateFits(st)
    <3>1. Stored(run.state)
      BY <1>1, <1>3 DEF Live, CompleteReturns
    <3>2. QED
      BY <1>1, <2>1, <3>1, EndedStateFits
  <2>3. QED
    BY <1>1, <1>3, <2>1, <2>2, EndingGoesOn DEF CompleteReturns
<1>4. CASE CallFails(r)
  <2>1. PICK st : st = [run.state EXCEPT !.status = "error"]
    OBVIOUS
  <2>2. StateFits(st)
    BY <1>1, <2>1, EndedStateFits
  <2>3. failures' \in 0 .. MaxFailures
    BY <1>1, <1>4 DEF CallFails
  <2>4. QED
    BY <1>1, <1>4, <2>1, <2>2, <2>3, EndingGoesOn DEF CallFails
<1>5. QED
  BY <1>2, <1>3, <1>4

-----------------------------------------------------------------------------
(* The archive that a run completes can be read from its end.              *)
LEMMA PieceIs ==
  ASSUME NEW S, NEW s \in Seq(S), NEW a \in Nat, NEW n \in Nat, a + n <= Len(s),
         NEW piece, piece = [k \in 1 .. n |-> s[a + k]]
  PROVE  SubSeq(s, a + 1, a + n) = piece
<1>1. SubSeq(s, a + 1, a + n) \in Seq(S) /\ Len(SubSeq(s, a + 1, a + n)) = n
      /\ \A k \in 1 .. n : SubSeq(s, a + 1, a + n)[k] = s[a + k]
  OBVIOUS
<1> PICK sub : sub = SubSeq(s, a + 1, a + n)
  OBVIOUS
<1>2. \A k \in 1 .. n : s[a + k] \in S
  OBVIOUS
<1>3. piece \in Seq(S) /\ Len(piece) = n /\ \A k \in 1 .. n : piece[k] = s[a + k]
  BY <1>2
<1>4. sub \in Seq(S) /\ Len(sub) = n /\ \A k \in 1 .. n : sub[k] = s[a + k]
  BY <1>1
<1>5. sub = piece
  BY <1>3, <1>4, SameList
<1>6. QED
  BY <1>5

LEMMA CompletedIsReadable ==
  ASSUME uploads \in Seq(Upload), NEW run \in RunType, run.state.upload \in 1 .. Len(uploads),
         CursorAgrees(run), run.source = "directory", run.todo = <<>>,
         NEW bytes \in Seq(Byte), Lies(run, bytes)
  PROVE  Readable(bytes, PlanOf(run.state.upload)) /\ Len(bytes) = run.state.offset
<1> PICK st, plan : st = run.state /\ plan = PlanOf(run.state.upload)
  OBVIOUS
<1> DEFINE N == Len(plan)
<1>1. /\ N \in Nat /\ \A i \in 1 .. N : plan[i].size \in Nat /\ plan[i].size = SizeOf(st, i)
      /\ st.entry \in Nat \ {0} /\ st.offset \in Nat /\ st.records \in Seq(Record)
      /\ Len(bytes) \in Nat
  BY PlanFacts, RunFacts DEF SizeOf
<1>2. Len(bytes) = st.offset
  <2>1. Len(bytes) = st.offset + Len(run.todo) /\ Len(<<>>) = 0
    BY DEF Lies
  <2>2. QED
    BY <1>1, <2>1
<1>3. st.entry = N + 1 /\ st.header
  <2>1. ~(st.entry <= N) /\ st.entry <= N + 1 /\ st.header
    BY DEF CursorAgrees, EntriesLeft
  <2>2. QED
    BY <1>1, <2>1
<1> HIDE DEF N
<1>4. Len(st.records) = N /\ RecordsLie(run, bytes)
  BY <1>1, <1>3 DEF Lies, RecordsLie
<1>5. PICK cdOffset \in Nat :
        /\ Len(bytes) = cdOffset + N + 1
        /\ \A j \in 1 .. N + 1 : bytes[cdOffset + j] = Directory(st.records, cdOffset)[j]
  BY <1>4 DEF Lies, DirectoryLies
<1>6. /\ \A j \in 1 .. N : bytes[cdOffset + j] = CentralByte(st.records[j])
      /\ bytes[cdOffset + N + 1] = EndByte(N, cdOffset)
  <2>1. PICK directory : directory = Directory(st.records, cdOffset)
    OBVIOUS
  <2>2. /\ \A j \in 1 .. N : directory[j] = CentralByte(st.records[j])
        /\ directory[N + 1] = EndByte(N, cdOffset)
    BY <1>1, <1>4, <2>1, DirectoryIsBytes
  <2>3. N + 1 \in 1 .. N + 1 /\ \A j \in 1 .. N : j \in 1 .. N + 1
    BY <1>1
  <2>4. \A j \in 1 .. N + 1 : bytes[cdOffset + j] = directory[j]
    BY <1>5, <2>1
  <2>5. cdOffset + N + 1 = cdOffset + (N + 1)
    BY <1>1
  <2>6. QED
    BY <2>2, <2>3, <2>4, <2>5
<1> DEFINE end == bytes[Len(bytes)]
<1>7. end = EndByte(N, cdOffset)
  BY <1>5, <1>6
<1>8. end = [of |-> "end", entry |-> N, at |-> Len(bytes) - 1 - N] /\ end.at = cdOffset
  <2>1. Len(bytes) - 1 - N = cdOffset
    BY <1>1, <1>5
  <2>2. QED
    BY <1>7, <2>1 DEF EndByte
<1> HIDE DEF end
<1>9. ASSUME NEW i \in 1 .. N
      PROVE  /\ bytes[end.at + i].of = "central" /\ bytes[end.at + i].entry = i
             /\ SubSeq(bytes, EntryAt(bytes, i) + 1, EntryAt(bytes, i) + HEADER_SIZE) = Header(i)
             /\ \A p \in 1 .. plan[i].size :
                  /\ bytes[EntryAt(bytes, i) + HEADER_SIZE + p].of = "data"
                  /\ bytes[EntryAt(bytes, i) + HEADER_SIZE + p].entry = i
  <2>1. PICK at \in Nat : at = st.records[i].offset
    BY <1>4, RecordFacts
  <2>2. bytes[end.at + i] = CentralByte(st.records[i])
    BY <1>6, <1>8
  <2>3. EntryAt(bytes, i) = at
    BY <2>1, <2>2 DEF EntryAt, CentralByte, end
  <2>4. i < st.entry /\ plan[i].size \in Nat
    BY <1>1, <1>3
  <2>5. /\ st.records[i].entry = i /\ at + HEADER_SIZE + plan[i].size <= st.offset
        /\ EntryLies(bytes, i, at, plan[i].size)
    BY <1>1, <1>4, <2>1, <2>4 DEF RecordsLie
  <2>6. SubSeq(bytes, at + 1, at + HEADER_SIZE) = Header(i)
    <3>1. at + HEADER_SIZE <= Len(bytes) /\ HEADER_SIZE \in Nat
      BY <1>1, <1>2, <2>4, <2>5, HeaderSize
    <3>2. Header(i) = [k \in 1 .. HEADER_SIZE |-> bytes[at + k]]
      BY <2>5 DEF Header, EntryLies, HeaderByte
    <3>3. QED
      BY <3>1, <3>2, PieceIs
  <2>7. bytes[end.at + i].of = "central" /\ bytes[end.at + i].entry = i
    BY <2>2, <2>5 DEF CentralByte
  <2>8. \A p \in 1 .. plan[i].size : /\ bytes[at + HEADER_SIZE + p].of = "data"
                                     /\ bytes[at + HEADER_SIZE + p].entry = i
    BY <2>5 DEF EntryLies
  <2>9. QED
    BY <2>3, <2>6, <2>7, <2>8
<1>10. Readable(bytes, plan)
  BY <1>8, <1>9 DEF Readable, end, N
<1>11. QED
  BY <1>2, <1>10

LEMMA CompletedIsRun ==
  ASSUME NEW run \in RunType
  PROVE  LET new == [run EXCEPT !.phase = "completed"] IN
         /\ new \in RunType /\ new.state = run.state /\ new.buffer = run.buffer
         /\ new.todo = run.todo /\ new.source = run.source /\ new.phase = "completed"
         /\ new.headerOffset = run.headerOffset
BY DEF RunType

\* The upload is complete and its archive is under the key.
LEMMA CompletedWorldGoesOn ==
  ASSUME uploads \in Seq(Upload), NEW u \in 1 .. Len(uploads), uploads[u].status = "open",
         uploads' = [uploads EXCEPT ![u].status = "complete"], object'.upload = u
  PROVE  WorldGoesOn /\ uploads'[u].status = "complete"
<1> PICK upload : upload = [uploads[u] EXCEPT !.status = "complete"]
  OBVIOUS
<1>1. uploads[u] \in Upload
  OBVIOUS
<1>2. /\ upload \in Upload /\ upload.parts = uploads[u].parts
      /\ upload.target = uploads[u].target /\ upload.status = "complete"
  BY <1>1 DEF Upload
<1>3. uploads' = [uploads EXCEPT ![u] = upload]
  OBVIOUS
<1>4. /\ uploads' \in Seq(Upload) /\ Len(uploads') = Len(uploads) /\ Len(uploads) \in Nat
      /\ uploads'[u] = upload /\ \A v \in 1 .. Len(uploads) : v # u => uploads'[v] = uploads[v]
  BY <1>2, <1>3
<1>5. ASSUME NEW v \in 1 .. Len(uploads)
      PROVE  /\ uploads'[v].target = uploads[v].target
             /\ Len(uploads'[v].parts) >= Len(uploads[v].parts)
             /\ uploads[v].status = "complete" => uploads'[v].status = "complete"
  <2>1. uploads[v] \in Upload
    OBVIOUS
  <2>2. Len(uploads[v].parts) \in Nat
    BY <2>1 DEF Upload
  <2>3. QED
    BY <1>2, <1>4, <2>2
<1>6. Len(uploads') >= Len(uploads) /\ uploads[u].status # "complete"
  BY <1>4
<1>7. QED
  BY <1>2, <1>4, <1>5, <1>6 DEF WorldGoesOn

LEMMA CompletedIsLive ==
  ASSUME NEW run, NEW new, Live(run)', Stored(run.state)', new.phase = "completed",
         new.state = run.state, new.buffer = run.buffer, new.todo = run.todo,
         new.source = run.source, new.headerOffset = run.headerOffset
  PROVE  Live(new)'
<1>1. CursorAgrees(new)' /\ PartsFull(new)'
  BY DEF Live, CursorAgrees, PartsFull, Coming
<1>2. PICK bytes \in Seq(Byte) : JoinsTo(run.state.parts, bytes)' /\ Lies(run, Whole(run, bytes))'
  BY DEF Live
<1>3. PICK whole : whole = Whole(run, bytes)
  OBVIOUS
<1>4. Whole(new, bytes) = whole /\ Lies(run, whole)'
  BY <1>2, <1>3 DEF Whole
<1>5. Lies(new, whole)'
  <2>1. RecordsLie(new, whole)'
    BY <1>4 DEF Lies, RecordsLie, Coming
  <2>2. HeaderLies(new, whole)' /\ DirectoryLies(new, whole)'
    BY <1>4 DEF Lies, HeaderLies, DirectoryLies
  <2>3. QED
    BY <1>4, <2>1, <2>2 DEF Lies
<1>6. JoinsTo(new.state.parts, bytes)' /\ Lies(new, Whole(new, bytes))'
  BY <1>2, <1>4, <1>5 DEF Whole
<1>7. QED
  BY <1>1, <1>6 DEF Live

LEMMA CompleteGoesOn ==
  ASSUME BuiltInv, NEW r \in Runs, CompleteLands(r)
  PROVE  BuiltInv'
<1> PICK run, new : run = runs[r] /\ new = [runs[r] EXCEPT !.phase = "completed"]
  OBVIOUS
<1>1. /\ run \in RunType /\ Live(run) /\ uploads \in Seq(Upload) /\ runs \in [Runs -> RunType]
      /\ Len(uploads) \in Nat
  <2>1. runs[r].phase # "idle"
    BY DEF CompleteLands
  <2>2. QED
    BY <2>1, LiveRun DEF BuiltInv
<1>2. /\ new \in RunType /\ new.state = run.state /\ new.buffer = run.buffer
      /\ new.todo = run.todo /\ new.source = run.source /\ new.phase = "completed"
      /\ new.headerOffset = run.headerOffset
  BY <1>1, CompletedIsRun
<1>3. runs' = [runs EXCEPT ![r] = new]
  BY <1>1 DEF CompleteLands
<1>4. PICK u \in 1 .. Len(uploads), bytes \in Seq(Byte) :
        /\ u = run.state.upload
        /\ JoinsTo(run.state.parts, bytes) /\ Lies(run, Whole(run, bytes))
  BY <1>1 DEF Live
<1>5. run.source = "directory" /\ run.todo = <<>> /\ run.buffer = <<>>
  BY DEF CompleteLands, Finished
<1>6. Whole(run, bytes) = bytes
  <2>1. bytes \o <<>> = bytes
    OBVIOUS
  <2>2. QED
    BY <1>5, <2>1 DEF Whole
<1>7. uploads[u].status = "open" /\ uploads' = [uploads EXCEPT ![u].status = "complete"]
      /\ object' = [upload |-> u, bytes |-> Joined(run.state.parts)]
  BY <1>4 DEF CompleteLands, Completes
<1>8. UNCHANGED <<saved, alarm, starting, aborting, aborts, crashes, failures>>
  BY DEF CompleteLands
<1>9. object'.upload = u /\ object'.bytes = bytes
  <2>1. Joined(run.state.parts) = bytes
    BY <1>4, JoinedIs
  <2>2. QED
    BY <1>7, <2>1
<1>10. WorldGoesOn /\ uploads'[u].status = "complete"
  BY <1>1, <1>7, <1>9, CompletedWorldGoesOn
<1>11. Readable(bytes, PlanOf(u)) /\ Len(bytes) = run.state.offset
  <2>1. CursorAgrees(run) /\ Lies(run, bytes)
    BY <1>1, <1>4, <1>6 DEF Live
  <2>2. QED
    BY <1>1, <1>4, <1>5, <2>1, CompletedIsReadable
<1>12. object'.upload \in 0 .. Len(uploads') /\ object'.bytes \in Seq(Byte) /\ ArchiveIsReadable'
  <2>1. u \in 1 .. Len(uploads') /\ PlanOf(u)' = PlanOf(u) /\ Len(uploads') \in Nat
    BY <1>10, PlansStay DEF WorldGoesOn
  <2>2. PICK plan : plan = PlanOf(u)
    OBVIOUS
  <2>3. Readable(bytes, plan)'
    BY <1>11, <2>2 DEF Readable, EntryAt, Header
  <2>4. ArchiveIsReadable'
    BY <1>9, <2>1, <2>2, <2>3 DEF ArchiveIsReadable
  <2>5. QED
    BY <1>9, <2>1, <2>4
<1>13. RunFits(new)'
  <2>1. Live(run)'
    BY <1>1, <1>10, LiveStays
  <2>2. Stored(run.state)'
    BY <1>4, <1>9, <1>10, <1>11 DEF Stored
  <2>3. Live(new)'
    BY <1>2, <2>1, <2>2, CompletedIsLive, ZenonT(40)
  <2>4. QED
    BY <1>2, <2>3 DEF RunFits
<1>14. runs' \in [Runs -> RunType] /\ \A q \in Runs : RunFits(runs[q])'
  BY <1>3, <1>10, <1>13, RunsGoOn
<1>15. StateFits(saved)'
  BY <1>8, <1>10, SavedStays
<1>16. starting' \subseteq 1 .. Len(uploads') /\ aborting' \subseteq 1 .. Len(uploads')
       /\ uploads' \in Seq(Upload)
  BY <1>8, <1>10 DEF BuiltInv, WorldGoesOn
<1>17. QED
  BY <1>8, <1>12, <1>14, <1>15, <1>16 DEF BuiltInv

-----------------------------------------------------------------------------
(* The requests.                                                           *)
LEMMA FreshStateFits ==
  ASSUME uploads \in Seq(Upload), NEW u \in 1 .. Len(uploads)
  PROVE  StateFits(Fresh(u))
<1> PICK st, run : st = Fresh(u) /\ run = Run("alarm", Fresh(u))
  OBVIOUS
<1>1. u \in Nat /\ u # 0
  OBVIOUS
<1>2. st \in BuilderState /\ st.status = "running" /\ st.upload = u
  BY <1>1, RunsAreTyped DEF Fresh, Blank
<1>3. run \in RunType /\ run.state = st /\ Live(run)
  BY <1>2, RunsAreTyped, FreshFits
<1>4. WithinEntry(st) /\ PartsFit(st)
  BY <1>3, LiveStateFits
<1>5. StateFits(st)
  BY <1>2, <1>3, <1>4 DEF StateFits
<1>6. QED
  BY <1>5

LEMMA StartReturnsGoesOn ==
  ASSUME BuiltInv, NEW u \in 1 .. Len(uploads), NEW r \in Runs, StartReturns(u, r)
  PROVE  BuiltInv'
<1> PICK st, new : st = Fresh(u) /\ new = Run("start", Fresh(u))
  OBVIOUS
<1>1. WorldGoesOn /\ uploads \in Seq(Upload)
  BY WorldStays DEF StartReturns, BuiltInv
<1>2. u \in Nat
  OBVIOUS
<1>3. RunFits(new)'
  <2>1. new \in RunType /\ new.phase # "idle"
    BY <1>2, RunsAreTyped
  <2>2. Live(new)
    BY <1>1, FreshFits
  <2>3. Live(new)'
    BY <1>1, <2>1, <2>2, LiveStays
  <2>4. QED
    BY <2>1, <2>3 DEF RunFits
<1>4. runs' \in [Runs -> RunType] /\ \A q \in Runs : RunFits(runs[q])'
  <2>1. runs' = [runs EXCEPT ![r] = new]
    BY DEF StartReturns
  <2>2. QED
    BY <1>1, <1>3, <2>1, RunsGoOn
<1>5. StateFits(saved)'
  <2>1. StateFits(st)
    BY <1>1, FreshStateFits
  <2>2. StateFits(st)'
    BY <1>1, <2>1, StateFitsStays
  <2>3. QED
    BY <2>2 DEF StartReturns
<1>6. UNCHANGED <<alarm, uploads, object, aborting, aborts, crashes, failures>>
      /\ starting' = starting \ {u}
  BY DEF StartReturns
<1>7. object'.upload \in 0 .. Len(uploads') /\ object'.bytes \in Seq(Byte) /\ ArchiveIsReadable'
  BY <1>1, <1>6, ArchiveStays
<1>8. QED
  BY <1>4, <1>5, <1>6, <1>7 DEF BuiltInv

LEMMA StartCreatesGoesOn ==
  ASSUME BuiltInv, StartCreates
  PROVE  BuiltInv'
<1>1. UNCHANGED <<saved, alarm, runs, object, aborting, aborts, crashes, failures>>
      /\ starting' = starting \union {Len(uploads) + 1}
      /\ uploads \in Seq(Upload)
  BY DEF StartCreates, BuiltInv
<1>2. PICK t \in Targets : uploads' = Append(uploads, [target |-> t, status |-> "open", parts |-> <<>>])
  BY DEF StartCreates
<1>3. PICK upload \in Upload : upload = [target |-> t, status |-> "open", parts |-> <<>>]
  <2>1. <<>> \in Seq(Seq(Byte))
    OBVIOUS
  <2>2. [target |-> t, status |-> "open", parts |-> <<>>] \in Upload
    BY <2>1 DEF Upload
  <2>3. QED
    BY <2>2
<1>4. /\ uploads' \in Seq(Upload) /\ Len(uploads') = Len(uploads) + 1 /\ Len(uploads) \in Nat
      /\ \A u \in 1 .. Len(uploads) : uploads'[u] = uploads[u]
  <2>1. uploads' = Append(uploads, upload)
    BY <1>2, <1>3
  <2>2. QED
    BY <1>1, <2>1, AppendFacts
<1>5. WorldGoesOn
  <2>1. ASSUME NEW u \in 1 .. Len(uploads)
        PROVE  Len(uploads'[u].parts) >= Len(uploads[u].parts)
    <3>1. uploads[u] \in Upload
      BY <1>1
    <3>2. Len(uploads[u].parts) \in Nat
      BY <3>1 DEF Upload
    <3>3. QED
      BY <1>4, <3>2
  <2>2. Len(uploads') >= Len(uploads)
    BY <1>4
  <2>3. QED
    BY <1>1, <1>4, <2>1, <2>2 DEF WorldGoesOn
<1>6. runs' \in [Runs -> RunType] /\ \A q \in Runs : RunFits(runs[q])'
  BY <1>1, <1>5, RunsStay
<1>7. StateFits(saved)'
  BY <1>1, <1>5, SavedStays
<1>8. object'.upload \in 0 .. Len(uploads') /\ object'.bytes \in Seq(Byte) /\ ArchiveIsReadable'
  BY <1>1, <1>5, ArchiveStays
<1>9. starting' \subseteq 1 .. Len(uploads') /\ aborting' \subseteq 1 .. Len(uploads')
  <2>1. starting \subseteq 1 .. Len(uploads) /\ aborting \subseteq 1 .. Len(uploads)
    BY DEF BuiltInv
  <2>2. PICK n \in Nat : n = Len(uploads) /\ Len(uploads') = n + 1
    BY <1>4
  <2>3. 1 .. n \subseteq 1 .. n + 1 /\ n + 1 \in 1 .. n + 1
    OBVIOUS
  <2>4. starting' = starting \union {n + 1} /\ aborting' = aborting
    BY <1>1, <2>2
  <2>5. QED
    BY <2>1, <2>2, <2>3, <2>4
<1>10. QED
  BY <1>1, <1>4, <1>6, <1>7, <1>8, <1>9 DEF BuiltInv

LEMMA AbortLandsGoesOn ==
  ASSUME BuiltInv, NEW u \in 1 .. Len(uploads), AbortLands(u)
  PROVE  BuiltInv'
<1>1. UNCHANGED <<saved, alarm, runs, object, starting, aborting, aborts, crashes, failures>>
      /\ uploads \in Seq(Upload) /\ uploads[u].status = "open"
      /\ uploads' = [uploads EXCEPT ![u].status = "aborted"]
  BY DEF AbortLands, BuiltInv
<1>2. PICK upload : upload = [uploads[u] EXCEPT !.status = "aborted"]
  OBVIOUS
<1>3. uploads[u] \in Upload
  BY <1>1
<1>4. /\ upload \in Upload /\ upload.parts = uploads[u].parts
      /\ upload.target = uploads[u].target
  BY <1>2, <1>3 DEF Upload
<1>5. /\ uploads' \in Seq(Upload) /\ Len(uploads') = Len(uploads) /\ Len(uploads) \in Nat
      /\ uploads'[u] = upload /\ \A v \in 1 .. Len(uploads) : v # u => uploads'[v] = uploads[v]
  <2>1. uploads' = [uploads EXCEPT ![u] = upload]
    BY <1>1, <1>2
  <2>2. QED
    BY <1>1, <1>4, <2>1
<1>6. WorldGoesOn
  <2>1. ASSUME NEW v \in 1 .. Len(uploads)
        PROVE  /\ uploads'[v].target = uploads[v].target
               /\ Len(uploads'[v].parts) >= Len(uploads[v].parts)
               /\ uploads[v].status = "complete" => uploads'[v].status = "complete"
    <3>1. uploads[v] \in Upload
      BY <1>1
    <3>2. Len(uploads[v].parts) \in Nat
      BY <3>1 DEF Upload
    <3>3. QED
      BY <1>1, <1>4, <1>5, <3>2
  <2>2. Len(uploads') >= Len(uploads)
    BY <1>5
  <2>3. QED
    BY <1>1, <1>5, <2>1, <2>2 DEF WorldGoesOn
<1>7. runs' \in [Runs -> RunType] /\ \A q \in Runs : RunFits(runs[q])'
  BY <1>1, <1>6, RunsStay
<1>8. StateFits(saved)'
  BY <1>1, <1>6, SavedStays
<1>9. object'.upload \in 0 .. Len(uploads') /\ object'.bytes \in Seq(Byte) /\ ArchiveIsReadable'
  BY <1>1, <1>6, ArchiveStays
<1>10. QED
  BY <1>1, <1>5, <1>7, <1>8, <1>9 DEF BuiltInv

\* Nothing but the object's own variables changes.
LEMMA BlankFits == StateFits(Blank)
<1>1. Blank.status = "none"
  BY DEF Blank
<1>2. QED
  BY <1>1, RunsAreTyped DEF StateFits

LEMMA AbortGoesOn ==
  ASSUME BuiltInv, AbortRequested \/ \E u \in 1 .. Len(uploads) : AbortReturns(u)
  PROVE  BuiltInv'
<1>1. UNCHANGED <<runs, uploads, object, starting, crashes, failures>>
  BY DEF AbortRequested, AbortReturns
<1>2. WorldGoesOn
  BY <1>1, WorldStays
<1>3. runs' \in [Runs -> RunType] /\ \A q \in Runs : RunFits(runs[q])'
  BY <1>1, <1>2, RunsStay
<1>4. object'.upload \in 0 .. Len(uploads') /\ object'.bytes \in Seq(Byte) /\ ArchiveIsReadable'
  BY <1>1, <1>2, ArchiveStays
<1>5. CASE AbortRequested
  <2>1. UNCHANGED <<saved, alarm>> /\ aborting' = aborting \union {saved.upload}
        /\ saved.status # "none" /\ aborts < MaxAborts /\ aborts' = aborts + 1
    BY <1>5 DEF AbortRequested
  <2>2. aborts' \in 0 .. MaxAborts
    BY <2>1, SizesAreNat DEF BuiltInv
  <2>3. aborting' \subseteq 1 .. Len(uploads')
    BY <1>1, <2>1 DEF BuiltInv, StateFits
  <2>4. StateFits(saved)'
    BY <1>2, <2>1, SavedStays
  <2>5. QED
    BY <1>1, <1>3, <1>4, <2>1, <2>2, <2>3, <2>4 DEF BuiltInv
<1>6. CASE \E u \in 1 .. Len(uploads) : AbortReturns(u)
  <2>1. aborting' \subseteq aborting /\ saved' = Blank /\ alarm' = FALSE /\ aborts' = aborts
    BY <1>6 DEF AbortReturns
  <2>2. PICK st : st = Blank
    OBVIOUS
  <2>3. StateFits(st)'
    BY <1>2, <2>2, BlankFits, StateFitsStays
  <2>4. StateFits(saved)'
    BY <2>1, <2>2, <2>3
  <2>5. aborting' \subseteq 1 .. Len(uploads')
    BY <1>1, <2>1 DEF BuiltInv
  <2>6. QED
    BY <1>1, <1>3, <1>4, <2>1, <2>4, <2>5 DEF BuiltInv
<1>7. QED
  BY <1>5, <1>6

LEMMA AlarmGoesOn ==
  ASSUME BuiltInv, NEW r \in Runs, AlarmFires(r)
  PROVE  BuiltInv'
<1> PICK st, new : st = saved /\ new = Run("alarm", saved)
  OBVIOUS
<1>1. UNCHANGED <<saved, uploads, object, starting, aborting, aborts, crashes, failures>>
      /\ alarm' = FALSE /\ StateFits(st)
  BY DEF AlarmFires, BuiltInv
<1>2. WorldGoesOn
  BY <1>1, WorldStays
<1>3. runs' \in [Runs -> RunType] /\ \A q \in Runs : RunFits(runs[q])'
  <2>1. CASE st.status \in {"none", "done", "error"}
    <3>1. UNCHANGED runs
      BY <2>1 DEF AlarmFires
    <3>2. QED
      BY <1>2, <3>1, RunsStay
  <2>2. CASE st.status \notin {"none", "done", "error"}
    <3>1. runs' = [runs EXCEPT ![r] = new]
      BY <2>2 DEF AlarmFires
    <3>2. st \in BuilderState /\ st.status = "running"
      BY <1>1, <2>2 DEF StateFits, BuilderState
    <3>3. new \in RunType /\ new.phase # "idle" /\ Live(new)
      BY <1>1, <3>2, RunsAreTyped DEF StateFits
    <3>4. RunFits(new)
      BY <3>3 DEF RunFits
    <3>5. RunFits(new)'
      BY <1>2, <3>4, RunFitsStays
    <3>6. QED
      BY <1>2, <3>1, <3>5, RunsGoOn
  <2>3. QED
    BY <2>1, <2>2
<1>4. StateFits(saved)'
  BY <1>1, <1>2, SavedStays
<1>5. object'.upload \in 0 .. Len(uploads') /\ object'.bytes \in Seq(Byte) /\ ArchiveIsReadable'
  BY <1>1, <1>2, ArchiveStays
<1>6. QED
  BY <1>1, <1>3, <1>4, <1>5 DEF BuiltInv

LEMMA CrashGoesOn ==
  ASSUME BuiltInv, Crash
  PROVE  BuiltInv'
<1>1. UNCHANGED <<saved, uploads, object, aborts, failures>>
      /\ starting' = {} /\ aborting' = {} /\ runs' = [r \in Runs |-> NoRun]
      /\ crashes < MaxCrashes /\ crashes' = crashes + 1
  BY DEF Crash
<1>2. WorldGoesOn
  BY <1>1, WorldStays
<1>3. alarm' \in BOOLEAN
  <2>1. alarm' = (alarm \/ \E r \in Alive : runs[r].kind = "alarm")
    BY DEF Crash
  <2>2. QED
    BY <2>1
<1>4. crashes' \in 0 .. MaxCrashes
  BY <1>1, SizesAreNat DEF BuiltInv
<1>5. runs' \in [Runs -> RunType] /\ \A q \in Runs : RunFits(runs[q])'
  <2>1. \A q \in Runs : runs'[q] = NoRun
    BY <1>1
  <2>2. RunFits(NoRun)'
    BY RunsAreTyped DEF RunFits
  <2>3. runs' \in [Runs -> RunType]
    BY <1>1, RunsAreTyped
  <2>4. ASSUME NEW q \in Runs PROVE RunFits(runs[q])'
    <3>1. PICK run : run = runs'[q]
      OBVIOUS
    <3>2. RunFits(run)'
      BY <2>1, <2>2, <3>1
    <3>3. QED
      BY <3>1, <3>2
  <2>5. QED
    BY <2>3, <2>4
<1>6. StateFits(saved)'
  BY <1>1, <1>2, SavedStays
<1>7. object'.upload \in 0 .. Len(uploads') /\ object'.bytes \in Seq(Byte) /\ ArchiveIsReadable'
  BY <1>1, <1>2, ArchiveStays
<1>8. QED
  BY <1>1, <1>3, <1>4, <1>5, <1>6, <1>7 DEF BuiltInv

-----------------------------------------------------------------------------
LEMMA CallsGoOn ==
  ASSUME BuiltInv, NEW r \in Runs, Calls(r)
  PROVE  BuiltInv'
BY PartGoesOn, CompleteGoesOn, ReturnsGoOn DEF Calls

LEMMA RequestsGoOn ==
  ASSUME BuiltInv, Requests
  PROVE  BuiltInv'
<1>1. \/ StartCreates \/ AbortRequested \/ Crash
      \/ \E u \in 1 .. Len(uploads) : AbortLands(u) \/ AbortReturns(u)
  BY DEF Requests
<1>2. QED
  BY <1>1, StartCreatesGoesOn, AbortGoesOn, CrashGoesOn, AbortLandsGoesOn

LEMMA StartsGoOn ==
  ASSUME BuiltInv, NEW r \in Runs, Starts(r)
  PROVE  BuiltInv'
BY AlarmGoesOn, StartReturnsGoesOn DEF Starts

LEMMA BuiltStays ==
  ASSUME BuiltInv, UNCHANGED vars
  PROVE  BuiltInv'
<1>1. UNCHANGED <<saved, alarm, runs, uploads, object, starting, aborting, aborts, crashes, failures>>
  BY DEF vars
<1>2. WorldGoesOn
  BY <1>1, WorldStays
<1>3. runs' \in [Runs -> RunType] /\ \A q \in Runs : RunFits(runs[q])'
  BY <1>1, <1>2, RunsStay
<1>4. StateFits(saved)'
  BY <1>1, <1>2, SavedStays
<1>5. object'.upload \in 0 .. Len(uploads') /\ object'.bytes \in Seq(Byte) /\ ArchiveIsReadable'
  BY <1>1, <1>2, ArchiveStays
<1>6. QED
  BY <1>1, <1>3, <1>4, <1>5 DEF BuiltInv

LEMMA BuiltAtFirst == Init => BuiltInv
<1> SUFFICES ASSUME Init PROVE BuiltInv
  OBVIOUS
<1>1. uploads = <<>> /\ object = [upload |-> 0, bytes |-> <<>>] /\ saved = Blank
      /\ runs = [r \in Runs |-> NoRun] /\ starting = {} /\ aborting = {} /\ alarm = FALSE
      /\ aborts = 0 /\ crashes = 0 /\ failures = 0
  BY DEF Init
<1>2. uploads \in Seq(Upload) /\ Len(uploads) = 0 /\ <<>> \in Seq(Byte)
  BY <1>1
<1>3. object.upload \in 0 .. Len(uploads) /\ object.bytes \in Seq(Byte) /\ ArchiveIsReadable
  BY <1>1, <1>2 DEF ArchiveIsReadable
<1>4. StateFits(saved)
  BY <1>1, BlankFits
<1>5. runs \in [Runs -> RunType] /\ \A r \in Runs : RunFits(runs[r])
  BY <1>1, RunsAreTyped DEF RunFits
<1>6. aborts \in 0 .. MaxAborts /\ crashes \in 0 .. MaxCrashes /\ failures \in 0 .. MaxFailures
  BY <1>1, SizesAreNat
<1>7. QED
  BY <1>1, <1>2, <1>3, <1>4, <1>5, <1>6 DEF BuiltInv

(* What R2 holds, what each run has in its buffer and its cursor, and what *)
(* is saved fit together, through every interleaving of runs, aborts and   *)
(* restarts (builder-do.ts:90-316).                                        *)
THEOREM BuiltInvAlways == Spec => []BuiltInv
<1>1. Init => BuiltInv
  BY BuiltAtFirst
<1>2. BuiltInv /\ [Next]_vars => BuiltInv'
  <2> SUFFICES ASSUME BuiltInv, [Next]_vars
               PROVE  BuiltInv'
    OBVIOUS
  <2>1. CASE UNCHANGED vars
    BY <2>1, BuiltStays
  <2>2. CASE Requests
    BY <2>2, RequestsGoOn
  <2>3. ASSUME NEW r \in Runs, Fills(r) \/ Calls(r) \/ Starts(r) PROVE BuiltInv'
    BY <2>3, FillsGoOn, CallsGoOn, StartsGoOn
  <2>4. QED
    BY <2>1, <2>2, <2>3 DEF Next
<1>3. QED
  BY <1>1, <1>2, PTL DEF Spec

(* What the invariant says of the properties that are checked.             *)
LEMMA BuiltIsTyped ==
  ASSUME BuiltInv
  PROVE  BuilderTypeOK
<1>1. saved \in BuilderState /\ WithinEntry(saved)
  <2>1. CASE saved.status = "none"
    <3>1. saved = Blank /\ saved \in BuilderState /\ Blank.upload = 0
      BY <2>1 DEF BuiltInv, StateFits, Blank
    <3>2. QED
      BY <3>1 DEF WithinEntry
  <2>2. CASE saved.status # "none"
    BY <2>2 DEF BuiltInv, StateFits
  <2>3. QED
    BY <2>1, <2>2
<1>2. ASSUME NEW r \in Runs
      PROVE  /\ runs[r].phase \in {"idle", "write", "yield", "completed"}
             /\ runs[r].kind \in {"start", "alarm"}
             /\ runs[r].state \in BuilderState
             /\ runs[r].buffer \in Seq(Byte) /\ Len(runs[r].buffer) <= PART_SIZE
             /\ runs[r].todo \in Seq(Byte)
             /\ runs[r].source \in {"none", "header", "data", "directory"}
             /\ runs[r].headerOffset \in Nat
             /\ runs[r].yieldRequested \in BOOLEAN
  <2> PICK run : run = runs[r]
    OBVIOUS
  <2>1. run \in RunType /\ (run = NoRun \/ Live(run))
    BY DEF BuiltInv, RunFits
  <2>2. Len(run.buffer) <= PART_SIZE
    <3>1. CASE run = NoRun
      <4>1. run.buffer = <<>> /\ Len(<<>>) = 0 /\ 0 <= PART_SIZE
        BY <3>1, SizesAreNat DEF NoRun
      <4>2. QED
        BY <4>1
    <3>2. CASE Live(run)
      BY <3>2 DEF Live
    <3>3. QED
      BY <2>1, <3>1, <3>2
  <2>3. QED
    BY <2>1, <2>2 DEF RunType
<1>3. QED
  BY <1>1, <1>2 DEF BuiltInv, BuilderTypeOK, Upload

LEMMA BuiltIsUniform ==
  ASSUME BuiltInv
  PROVE  PartsUniform
<1>1. ASSUME NEW st, st = Blank
      PROVE  \A n \in 1 .. Len(st.parts) : FALSE
  <2>1. st.parts = <<>> /\ Len(<<>>) = 0
    BY <1>1 DEF Blank
  <2>2. QED
    BY <2>1
<1>2. ASSUME NEW run, run \in RunType, Live(run), NEW n \in 1 .. Len(run.state.parts)
      PROVE  /\ n < Len(run.state.parts) \/ run.state.status = "running"
                  => Len(run.state.parts[n].body) = PART_SIZE
             /\ run.state.parts[n].number = n
             /\ Len(run.state.parts[n].body) \in 1 .. PART_SIZE
  <2>1. /\ run.state.parts[n].number = n /\ Len(run.state.parts[n].body) \in 1 .. PART_SIZE
        /\ n < Len(run.state.parts) => Len(run.state.parts[n].body) = PART_SIZE
    BY <1>2 DEF Live, PartsFit
  <2>2. run.state.status = "running" => Len(run.state.parts[n].body) = PART_SIZE
    <3>1. run.state.status = "running" => run.source # "directory"
      BY <1>2 DEF Live, CursorAgrees
    <3>2. QED
      BY <1>2, <3>1 DEF Live, PartsFull
  <2>3. QED
    BY <2>1, <2>2
<1>3. ASSUME NEW st \in {saved} \union {runs[r].state : r \in Runs}, NEW n \in 1 .. Len(st.parts)
      PROVE  /\ n < Len(st.parts) \/ st.status = "running" => Len(st.parts[n].body) = PART_SIZE
             /\ st.parts[n].number = n /\ Len(st.parts[n].body) \in 1 .. PART_SIZE
  <2>1. CASE st = saved
    <3>1. st # Blank /\ StateFits(st)
      BY <1>1, <2>1 DEF BuiltInv
    <3>2. PartsFit(st) /\ st.status \in {"running", "done", "error"}
      BY <3>1 DEF StateFits, BuilderState
    <3>3. st.status = "running" => Len(st.parts[n].body) = PART_SIZE
      <4>1. ASSUME st.status = "running" PROVE Len(st.parts[n].body) = PART_SIZE
        <5>1. PICK run : run = Run("alarm", st)
          OBVIOUS
        <5>2. run \in RunType /\ run.state = st /\ Live(run)
          BY <3>1, <4>1, <5>1, RunsAreTyped DEF StateFits
        <5>3. QED
          BY <1>2, <4>1, <5>2
      <4>2. QED
        BY <4>1
    <3>4. QED
      BY <3>2, <3>3 DEF PartsFit
  <2>2. CASE \E r \in Runs : st = runs[r].state
    <3>1. PICK r \in Runs : st = runs[r].state
      BY <2>2
    <3>2. runs[r].state # Blank
      BY <1>1, <3>1
    <3>3. runs[r] \in RunType /\ Live(runs[r])
      BY <3>2 DEF BuiltInv, RunFits, NoRun
    <3>4. QED
      BY <1>2, <3>1, <3>3
  <2>3. QED
    BY <2>1, <2>2
<1>4. QED
  BY <1>3 DEF PartsUniform

LEMMA BuiltIsUploaded ==
  ASSUME BuiltInv
  PROVE  SavedIsUploaded
<1> SUFFICES ASSUME saved.status = "running"
             PROVE  /\ saved.offset = PART_SIZE * Len(saved.parts)
                    /\ Len(saved.parts) <= Len(uploads[saved.upload].parts)
  BY DEF SavedIsUploaded
<1>1. PICK run : run = Run("alarm", saved)
  OBVIOUS
<1>2. /\ saved \in BuilderState /\ run.state = saved /\ run.buffer = <<>>
      /\ run.source = "none" /\ Live(run)
  BY <1>1, RunsAreTyped DEF BuiltInv, StateFits
<1>3. saved.offset = PART_SIZE * Len(saved.parts) + Len(run.buffer) /\ Len(<<>>) = 0
  BY <1>2 DEF Live, PartsFull
<1>4. PART_SIZE * Len(saved.parts) \in Nat
  BY <1>2, SizesAreNat DEF BuilderState
<1>5. QED
  BY <1>2, <1>3, <1>4 DEF Live

(* Every variable of the builder has its type, all parts but the last of a *)
(* build have one size, and what a later run goes on from is what R2 holds *)
(* (builder-do.ts:143-212), in every state.                                *)
THEOREM BuilderInvAlways == Spec => []BuilderInv
<1>1. BuiltInv => BuilderInv
  BY BuiltIsTyped, BuiltIsUniform, BuiltIsUploaded DEF BuilderInv
<1>2. QED
  BY <1>1, BuiltInvAlways, PTL

(* Whatever was interrupted, repeated, restarted or aborted on the way:    *)
(* the archive under the key can be read from its end, and a build that is *)
(* reported as done was completed, and its archive is there, of the size   *)
(* reported, or another build's in its place (builder-do.ts:247-309).      *)
THEOREM PublishedAlwaysWhole == Spec => []PublishedIsWhole
<1>1. BuiltInv => PublishedIsWhole
  BY DEF BuiltInv, StateFits, Stored, PublishedIsWhole, BuildIsStored
<1>2. QED
  BY <1>1, BuiltInvAlways, PTL

=============================================================================
