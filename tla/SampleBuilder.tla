---------------------------- MODULE SampleBuilder ----------------------------
(***************************************************************************)
(* The sample builder (scripts/sample-builder/src): a Durable Object that  *)
(* writes a planned ZIP64 archive into an R2 multipart upload, part after  *)
(* part, and leaves the rest to an alarm when its time is up.              *)
(*                                                                         *)
(* A run works on its own copy of the state and saves it only when it      *)
(* yields, fails or is done.  The handlers (start, abort, the alarm, the   *)
(* runs) interleave at their awaits.  A byte of the archive is a record of *)
(* what it is: a byte of a header, of an entry's data, of the directory.   *)
(***************************************************************************)
EXTENDS Integers, Sequences

CONSTANTS
  Targets,       \* the sizes a build may be asked for
  Plan,          \* buildPlan: the entries for a target, each [method, size]
  PART_SIZE, PATTERN_SIZE,
  HEADER_SIZE,   \* the length of a local file header
  Runs,          \* the slots of the invocations that may be alive at once
  MaxStarts, MaxAborts, MaxCrashes, MaxFailures   \* bounds of the environment

ASSUME BuilderAssumption ==
  /\ \A t \in Targets : Plan[t] \in Seq([method : {"STORED", "DEFLATE"}, size : Nat])
  /\ {PART_SIZE, PATTERN_SIZE, HEADER_SIZE} \subseteq Nat \ {0}
  /\ {MaxStarts, MaxAborts, MaxCrashes, MaxFailures} \subseteq Nat

VARIABLES
  saved,      \* the BuilderState in the object's storage
  alarm,      \* an alarm is set
  runs,       \* the invocations of runUntilBudget
  uploads,    \* R2's multipart uploads, in the order they were created
  object,     \* the archive under the key, with the upload it came from
  starting,   \* start requests that wait for createMultipartUpload
  aborting,   \* abort requests that wait for the upload's abort
  aborts, crashes, failures   \* counted up to their bounds

vars == <<saved, alarm, runs, uploads, object, starting, aborting, aborts, crashes, failures>>

-----------------------------------------------------------------------------
(* The bytes.                                                              *)
\* A directory header and the end records stand as one byte each.
Byte == [of : {"header", "data", "central", "end"}, entry : Nat, at : Nat]

Header(i) == [k \in 1 .. HEADER_SIZE |-> [of |-> "header", entry |-> i, at |-> k]]

Data(i, from, n) == [k \in 1 .. n |-> [of |-> "data", entry |-> i, at |-> from + k - 1]]

\* centralFileHeader of every record, then endRecords.
Directory(records, cdOffset) ==
  [k \in 1 .. Len(records) |-> [of |-> "central", entry |-> records[k].entry,
                                at |-> records[k].offset]]
  \o <<[of |-> "end", entry |-> Len(records), at |-> cdOffset]>>

\* What is planned at byte p of an entry's data: the pattern over and over, or the text.
DataAt(entry, p) == IF entry.method = "STORED" THEN p % PATTERN_SIZE ELSE p

(* The builder's state.                                                    *)
Record == [entry : Nat, offset : Nat]
Part   == [number : Nat \ {0}, body : Seq(Byte)]   \* the etag stands for the body

BuilderState == [upload : Nat, status : {"none", "running", "completing", "done", "error"},
                 entry : Nat \ {0}, written : Nat, header : BOOLEAN,
                 offset : Nat, parts : Seq(Part), records : Seq(Record)]

Blank == [upload |-> 0, status |-> "none", entry |-> 1, written |-> 0, header |-> TRUE,
          offset |-> 0, parts |-> <<>>, records |-> <<>>]

\* The plan of the archive that an upload was created for.
PlanOf(u) == Plan[uploads[u].target]

Fresh(u) == [Blank EXCEPT !.upload = u, !.status = "running"]

(* A run: its copy of the state, the part buffer, the bytes that are being *)
(* appended and what they are, and whether its time is up.                 *)
NoRun == [phase |-> "idle", kind |-> "start", state |-> Blank, buffer |-> <<>>,
          todo |-> <<>>, source |-> "none", headerOffset |-> 0, yieldRequested |-> FALSE]

Run(kind, state) == [NoRun EXCEPT !.phase = "write", !.kind = kind, !.state = state]

Alive == {r \in Runs : runs[r].phase # "idle"}

\* The slot of a new invocation: which one does not matter.
Free(r) == r \notin Alive /\ r = CHOOSE q \in Runs : q \notin Alive

Init ==
  /\ saved = Blank
  /\ alarm = FALSE
  /\ runs = [r \in Runs |-> NoRun]
  /\ uploads = <<>>
  /\ object = [upload |-> 0, bytes |-> <<>>]
  /\ starting = {}
  /\ aborting = {}
  /\ aborts = 0 /\ crashes = 0 /\ failures = 0

-----------------------------------------------------------------------------
(* The requests.                                                           *)

MayStart(st) == st.status \in {"none", "error"}

\* start: nothing runs or is done, as far as the saved state tells.
StartCreates ==
  /\ Len(uploads) < MaxStarts
  /\ MayStart(saved)
  /\ \E t \in Targets :
       uploads' = Append(uploads, [target |-> t, status |-> "open", parts |-> <<>>])
  /\ starting' = starting \union {Len(uploads) + 1}
  /\ UNCHANGED <<saved, alarm, runs, object, aborting, aborts, crashes, failures>>

\* The upload is there: the state is saved and the build goes on in the background.
StartReturns(u, r) ==
  /\ u \in starting /\ Free(r)
  /\ starting' = starting \ {u}
  /\ saved' = Fresh(u)
  /\ runs' = [runs EXCEPT ![r] = Run("start", Fresh(u))]
  /\ UNCHANGED <<alarm, uploads, object, aborting, aborts, crashes, failures>>

AbortRequested ==
  /\ saved.status # "none"
  /\ aborts < MaxAborts
  /\ aborts' = aborts + 1
  /\ aborting' = aborting \union {saved.upload}
  /\ UNCHANGED <<saved, alarm, runs, uploads, object, starting, crashes, failures>>

\* R2 aborts the upload, unless it is complete or R2 fails; that is ignored.
AbortLands(u) ==
  /\ u \in aborting
  /\ uploads[u].status = "open"
  /\ uploads' = [uploads EXCEPT ![u].status = "aborted"]
  /\ UNCHANGED <<saved, alarm, runs, object, starting, aborting, aborts, crashes, failures>>

AbortReturns(u) ==
  /\ u \in aborting
  /\ aborting' = aborting \ {u}
  /\ saved' = Blank
  /\ alarm' = FALSE
  /\ UNCHANGED <<runs, uploads, object, starting, aborts, crashes, failures>>

\* alarm(): a run on whatever is saved.
AlarmFires(r) ==
  /\ alarm /\ Free(r)
  /\ alarm' = FALSE
  /\ runs' = IF saved.status \notin {"none", "done", "error"}
             THEN [runs EXCEPT ![r] = Run("alarm", saved)]
             ELSE runs
  /\ UNCHANGED <<saved, uploads, object, starting, aborting, aborts, crashes, failures>>

-----------------------------------------------------------------------------
(* A run: runUntilBudget.                                                  *)
Writing(r) == runs[r].phase = "write" /\ Len(runs[r].buffer) < PART_SIZE

\* Only the run's own record changes.
Local(r, new) ==
  /\ runs' = [runs EXCEPT ![r] = new]
  /\ UNCHANGED <<saved, alarm, uploads, object, starting, aborting, aborts, crashes, failures>>

EntriesLeft(st) == st.entry <= Len(PlanOf(st.upload))

EntrySize(st) == PlanOf(st.upload)[st.entry].size

\* The next bytes of an entry, from its cursor: the pattern from its beginning.
NextData(st) ==
  LET entry == PlanOf(st.upload)[st.entry]
      left  == entry.size - st.written
  IN
  IF entry.method = "STORED"
  THEN Data(st.entry, 0, IF left < PATTERN_SIZE THEN left ELSE PATTERN_SIZE)
  ELSE Data(st.entry, st.written, left)

BeginHeader(r) ==
  LET run == runs[r] IN
  /\ Writing(r) /\ run.todo = <<>> /\ run.source # "header"
  /\ EntriesLeft(run.state) /\ run.state.header
  /\ Local(r, [run EXCEPT !.todo = Header(run.state.entry), !.source = "header",
                          !.headerOffset = run.state.offset])

\* Mutant: the record takes the offset behind the header.
HeaderWrittenLate(st, headerOffset) ==
  [st EXCEPT !.records = Append(@, [entry |-> st.entry, offset |-> st.offset]),
             !.header = FALSE, !.written = 0]

HeaderWritten(st, headerOffset) ==
  [st EXCEPT !.records = Append(@, [entry |-> st.entry, offset |-> headerOffset]),
             !.header = FALSE, !.written = 0]

HeaderDone(r) ==
  LET run == runs[r] IN
  /\ Writing(r) /\ run.todo = <<>> /\ run.source = "header"
  /\ Local(r, [run EXCEPT !.source = "none",
                          !.state = HeaderWritten(run.state, run.headerOffset)])

BeginData(r) ==
  LET run == runs[r] IN
  /\ Writing(r) /\ run.todo = <<>> /\ run.source # "header"
  /\ EntriesLeft(run.state) /\ ~run.state.header
  /\ run.state.written < EntrySize(run.state)
  /\ Local(r, [run EXCEPT !.todo = NextData(run.state), !.source = "data"])

\* Mutant: the cursor of the finished entry stays.
EntryOverStale(st) == [st EXCEPT !.entry = @ + 1, !.header = TRUE]

EntryOver(st) == [st EXCEPT !.entry = @ + 1, !.header = TRUE, !.written = 0]

\* An entry is over; the clock is looked at.
EntryDone(r) ==
  LET run == runs[r] IN
  /\ Writing(r) /\ run.todo = <<>> /\ run.source # "header"
  /\ EntriesLeft(run.state) /\ ~run.state.header
  /\ run.state.written = EntrySize(run.state)
  /\ \E late \in BOOLEAN :
       Local(r, [run EXCEPT !.source = "none", !.state = EntryOver(run.state),
                            !.yieldRequested = @ \/ late])

BeginDirectory(r) ==
  LET run == runs[r] IN
  /\ Writing(r) /\ run.todo = <<>> /\ run.source \notin {"header", "directory"}
  /\ ~EntriesLeft(run.state)
  /\ Local(r, [run EXCEPT !.todo = Directory(run.state.records, run.state.offset),
                          !.source = "directory", !.state.status = "completing"])

\* Mutant: structural bytes are not counted.
AdvancedByData(st, source, n) ==
  IF source = "data" THEN [st EXCEPT !.offset = @ + n, !.written = @ + n] ELSE st

Advanced(st, source, n) ==
  [st EXCEPT !.offset = @ + n, !.written = IF source = "data" THEN @ + n ELSE @]

\* append and appendData: as much as fits into the part.
Copy(r) ==
  LET run == runs[r]
      space == PART_SIZE - Len(run.buffer)
      n == IF Len(run.todo) < space THEN Len(run.todo) ELSE space
  IN  /\ Writing(r) /\ run.todo # <<>>
      /\ Local(r, [run EXCEPT !.buffer = @ \o SubSeq(run.todo, 1, n),
                              !.todo = SubSeq(run.todo, n + 1, Len(run.todo)),
                              !.state = Advanced(run.state, run.source, n)])

\* R2 holds the part under its number, in place of an earlier one.
Uploaded(u, number, body) ==
  [uploads EXCEPT ![u].parts =
     IF number <= Len(@) THEN [@ EXCEPT ![number] = body] ELSE Append(@, body)]

\* Mutant: a yield is taken as soon as it is asked for, full part or not.
FlushableAny(run) == run.buffer # <<>> /\ (run.yieldRequested \/ Len(run.buffer) = PART_SIZE)

Flushable(run) == Len(run.buffer) = PART_SIZE

Flush(st, body) == [st EXCEPT !.parts = Append(@, [number |-> Len(@) + 1, body |-> body])]

\* Mutant: only the first run sets the alarm.
SetsAlarmFirst(run) == alarm \/ run.kind = "start"

SetsAlarm(run) == TRUE

Finished(run) == run.source = "directory" /\ run.todo = <<>> /\ Len(run.buffer) < PART_SIZE

Yields(run) == run.yieldRequested /\ EntriesLeft(run.state)

\* uploadPart: a full part, or the last one, of any size but none, reaches R2.
\* A run that does not yield goes on: that, no other handler can tell from the landing.
PartLands(r) ==
  LET run == runs[r] IN
  /\ run.phase = "write" /\ (Flushable(run) \/ (Finished(run) /\ run.buffer # <<>>))
  /\ uploads[run.state.upload].status = "open"
  /\ uploads' = Uploaded(run.state.upload, Len(run.state.parts) + 1, run.buffer)
  /\ runs' = [runs EXCEPT ![r].phase = IF Yields(run) THEN "yield" ELSE "write",
                          ![r].state = Flush(run.state, run.buffer), ![r].buffer = <<>>]
  /\ UNCHANGED <<saved, alarm, object, starting, aborting, aborts, crashes, failures>>

\* uploadCurrentPartAndMaybeYield: the rest is left to an alarm.
PartReturns(r) ==
  /\ runs[r].phase = "yield"
  /\ saved' = runs[r].state
  /\ alarm' = SetsAlarm(runs[r])
  /\ runs' = [runs EXCEPT ![r] = NoRun]
  /\ UNCHANGED <<uploads, object, starting, aborting, aborts, crashes, failures>>

\* R2 completes an open upload from the parts listed, if it holds them as listed.
Completes(st) ==
  /\ uploads[st.upload].status = "open"
  /\ \A n \in DOMAIN st.parts : uploads[st.upload].parts[st.parts[n].number] = st.parts[n].body

\* The bodies of the parts that are listed, in the order of the list.
Joined(parts) ==
  LET upTo[n \in 0 .. Len(parts)] == IF n = 0 THEN <<>> ELSE upTo[n - 1] \o parts[n].body
  IN  upTo[Len(parts)]

CompleteLands(r) ==
  LET st == runs[r].state IN
  /\ runs[r].phase = "write" /\ Finished(runs[r]) /\ runs[r].buffer = <<>>
  /\ Completes(st)
  /\ uploads' = [uploads EXCEPT ![st.upload].status = "complete"]
  /\ object' = [upload |-> st.upload, bytes |-> Joined(st.parts)]
  /\ runs' = [runs EXCEPT ![r].phase = "completed"]
  /\ UNCHANGED <<saved, alarm, starting, aborting, aborts, crashes, failures>>

CompleteReturns(r) ==
  /\ runs[r].phase = "completed"
  /\ saved' = [runs[r].state EXCEPT !.status = "done"]
  /\ runs' = [runs EXCEPT ![r] = NoRun]
  /\ UNCHANGED <<alarm, uploads, object, starting, aborting, aborts, crashes, failures>>

\* A call to R2 that must fail: the upload is over, or holds other parts.
Refused(run) ==
  \/ uploads[run.state.upload].status # "open"
  \/ Finished(run) /\ run.buffer = <<>> /\ ~Completes(run.state)

\* A call to R2 fails, whatever it did there: the error is saved and nothing follows.
CallFails(r) ==
  LET run == runs[r] IN
  /\ \/ run.phase = "write" /\ (Flushable(run) \/ Finished(run))
     \/ run.phase \in {"yield", "completed"}
  /\ \/ run.phase = "write" /\ Refused(run) /\ UNCHANGED failures
     \/ failures < MaxFailures /\ failures' = failures + 1
  /\ saved' = [run.state EXCEPT !.status = "error"]
  /\ runs' = [runs EXCEPT ![r] = NoRun]
  /\ UNCHANGED <<alarm, uploads, object, starting, aborting, aborts, crashes>>

\* The object is restarted; an alarm whose handler was cut off is given again.
Crash ==
  /\ crashes < MaxCrashes
  /\ Alive # {} \/ starting # {} \/ aborting # {}
  /\ crashes' = crashes + 1
  /\ runs' = [r \in Runs |-> NoRun]
  /\ alarm' = (alarm \/ \E r \in Alive : runs[r].kind = "alarm")
  /\ starting' = {} /\ aborting' = {}
  /\ UNCHANGED <<saved, uploads, object, aborts, failures>>

\* What a run does by itself up to its next call to R2: no handler comes in
\* between, for the functions that fill a part wait for nothing else.
Fills(r) ==
  \/ BeginHeader(r) \/ HeaderDone(r) \/ BeginData(r) \/ EntryDone(r) \/ BeginDirectory(r)
  \/ Copy(r)

Filling(r) == runs[r].phase = "write" /\ ~Flushable(runs[r]) /\ ~Finished(runs[r])

Undisturbed == \A r \in Runs : ~Filling(r)

Calls(r) ==
  /\ Undisturbed
  /\ \/ PartLands(r) \/ PartReturns(r)
     \/ CompleteLands(r) \/ CompleteReturns(r) \/ CallFails(r)

Starts(r) == Undisturbed /\ (AlarmFires(r) \/ \E u \in 1 .. Len(uploads) : StartReturns(u, r))

Requests ==
  /\ Undisturbed
  /\ \/ StartCreates \/ AbortRequested \/ Crash
     \/ \E u \in 1 .. Len(uploads) : AbortLands(u) \/ AbortReturns(u)

Next == Requests \/ \E r \in Runs : Fills(r) \/ Calls(r) \/ Starts(r)

Spec == Init /\ [][Next]_vars

(* The event loop goes on with what is under way and alarms are delivered. *)
Fairness ==
  /\ \A r \in Runs : WF_vars(Fills(r)) /\ WF_vars(Calls(r)) /\ WF_vars(Starts(r))
  /\ \A u \in 1 .. MaxStarts : WF_vars(Undisturbed /\ AbortReturns(u))

FairSpec == Spec /\ Fairness

-----------------------------------------------------------------------------
(* Every variable has its type, and a cursor stays within its entry        *)
(* (builder-do.ts:37-55).                                                  *)
WithinEntry(st) ==
  IF st.upload = 0 THEN st = Blank
  ELSE /\ st.entry <= Len(PlanOf(st.upload)) + 1
       /\ st.written <= (IF EntriesLeft(st) THEN EntrySize(st) ELSE 0)

BuilderTypeOK ==
  /\ saved \in BuilderState /\ WithinEntry(saved)
  /\ alarm \in BOOLEAN
  /\ \A r \in Runs :
       /\ runs[r].phase \in {"idle", "write", "yield", "completed"}
       /\ runs[r].kind \in {"start", "alarm"}
       /\ runs[r].state \in BuilderState
       /\ runs[r].buffer \in Seq(Byte) /\ Len(runs[r].buffer) <= PART_SIZE
       /\ runs[r].todo \in Seq(Byte)
       /\ runs[r].source \in {"none", "header", "data", "directory"}
       /\ runs[r].headerOffset \in Nat
       /\ runs[r].yieldRequested \in BOOLEAN
  /\ uploads \in Seq([target : Targets, status : {"open", "aborted", "complete"}, parts : Seq(Seq(Byte))])
  /\ object.upload \in 0 .. Len(uploads) /\ object.bytes \in Seq(Byte)
  /\ starting \subseteq 1 .. Len(uploads) /\ aborting \subseteq 1 .. Len(uploads)
  /\ aborts \in 0 .. MaxAborts /\ crashes \in 0 .. MaxCrashes /\ failures \in 0 .. MaxFailures

(* "R2 requires uniform part sizes (except the last)": through every yield *)
(* and every repetition after a restart no part but the last that a run    *)
(* lists is short, and none before the directory (builder-do.ts:176-181).  *)
PartsUniform ==
  \A st \in {saved} \union {runs[r].state : r \in Runs} : \A n \in 1 .. Len(st.parts) :
    /\ n < Len(st.parts) \/ st.status = "running" => Len(st.parts[n].body) = PART_SIZE
    /\ st.parts[n].number = n /\ Len(st.parts[n].body) \in 1 .. PART_SIZE

(* The state a later run goes on from is matched by what R2 holds: as many *)
(* bytes as its offset says, part by part as listed, whatever a run that   *)
(* was cut off uploaded after it (builder-do.ts:178-181).                  *)
SavedIsUploaded ==
  saved.status = "running" =>
    /\ saved.offset = PART_SIZE * Len(saved.parts)
    /\ Len(saved.parts) <= Len(uploads[saved.upload].parts)

(* Types, and what a later run relies on (builder-do.ts:143-212).          *)
BuilderInv == BuilderTypeOK /\ PartsUniform /\ SavedIsUploaded

\* The offset of an entry's header, as the archive's directory has it.
EntryAt(bytes, i) == bytes[bytes[Len(bytes)].at + i].at

\* The directory is where the end record says, lists every planned entry, and each is
\* where it is listed, its whole header and then as many bytes of its data as planned.
Readable(bytes, plan) ==
  LET end == bytes[Len(bytes)] IN
  /\ end = [of |-> "end", entry |-> Len(plan), at |-> Len(bytes) - 1 - Len(plan)]
  /\ \A i \in 1 .. Len(plan) :
       /\ bytes[end.at + i].of = "central" /\ bytes[end.at + i].entry = i
       /\ SubSeq(bytes, EntryAt(bytes, i) + 1, EntryAt(bytes, i) + HEADER_SIZE) = Header(i)
       /\ \A p \in 1 .. plan[i].size :
            /\ bytes[EntryAt(bytes, i) + HEADER_SIZE + p].of = "data"
            /\ bytes[EntryAt(bytes, i) + HEADER_SIZE + p].entry = i

(* However a build was interrupted and resumed, the archive it completes   *)
(* can be read from its end (builder-do.ts:247-309).                       *)
ArchiveIsReadable ==
  object.upload # 0 => Readable(object.bytes, PlanOf(object.upload))

(* A build reported as done was completed, and its archive is under the    *)
(* key, of the size reported, or the archive of another build in its place *)
(* (builder-do.ts:304-308).                                                *)
BuildIsStored ==
  saved.status = "done" =>
    /\ uploads[saved.upload].status = "complete"
    /\ \/ object.upload = saved.upload /\ Len(object.bytes) = saved.offset
       \/ object.upload \notin {0, saved.upload}

(* Both: what is under the key, and what is said of it.                    *)
PublishedIsWhole == ArchiveIsReadable /\ BuildIsStored

(* "the 30 GB build completes across as many invocations as needed"        *)
(* (builder-do.ts:13): a build that has yielded once ends, however often   *)
(* the object is restarted, another build starts or an abort comes in.     *)
YieldedBuildEnds ==
  (saved.status = "running" /\ saved.parts # <<>>)
    ~> (saved.status \in {"done", "error", "none"})

-----------------------------------------------------------------------------
(* Said of the program and not so: the README has the behaviours.          *)

(* What YieldedBuildEnds says, of every build: the first run has no alarm  *)
(* yet that would repeat it after a restart.                               *)
BuildEnds == (saved.status = "running") ~> (saved.status \in {"done", "error", "none"})

(* "state is persisted to the DO's SQLite at every PART boundary"          *)
(* (builder-do.ts:8).                                                      *)
PersistedAtEveryPart ==
  \A r \in Alive : EntriesLeft(runs[r].state) => runs[r].state.parts = saved.parts

(* "On resume the entry continues from there with no gap and no            *)
(* duplication" (builder-do.ts:231): an entry's bytes are those that its   *)
(* checksum was computed from.                                             *)
DataIsPlanned ==
  object.upload # 0 =>
    LET plan == PlanOf(object.upload) IN
    \A i \in 1 .. Len(plan) : \A p \in 1 .. plan[i].size :
      object.bytes[EntryAt(object.bytes, i) + HEADER_SIZE + p].at = DataAt(plan[i], p - 1)

(* "the persisted state is exactly consistent with the uploaded parts"     *)
(* (builder-do.ts:180): a header still to be written has no byte there.    *)
NoHeaderTwice ==
  (saved.status = "running" /\ saved.header /\ saved.parts # <<>>) =>
    LET body == saved.parts[Len(saved.parts)].body IN body[Len(body)].of # "header"

(* "already running/done" (builder-do.ts:99): no second build is started   *)
(* while one is running.                                                   *)
OneBuild == \A q, r \in Alive : runs[q].state.upload = runs[r].state.upload

=============================================================================
