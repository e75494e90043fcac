----------------------------- MODULE PageProofs -----------------------------
(***************************************************************************)
(* Proofs about what a browser works with, for any number of jobs, files,  *)
(* clients, forms, checks, codes and requests and any page size.           *)
(*                                                                         *)
(* The shared bucket and its readers: nobody is served another job's       *)
(* object, no job takes another's away, and what is done can be read.      *)
(* The destination form: what is sent to a user's bucket was checked.  The *)
(* admin page: what the panel shows was so, and to a patient user is so.   *)
(* The demo page: it never runs ahead of the one job that it follows.      *)
(***************************************************************************)
EXTENDS ByoForm, AdminPage, JobOutput, ProgressClient, TLAPS

\* An object lies under the key of the file it holds.
ObjectsAreTheirs == \A o \in bucket : o.key = KeyOf(o.from, o.file)

\* A cleanup has keys of its own job only, and belongs to a completed demo job.
PagesAreTheirs ==
  \A j \in JobId :
    /\ \A k \in sweep[j].page : k.prefix = JobPrefix(j)
    /\ sweep[j].at # "off" => job[j].status = "completed"

\* A job that has not begun has no rows and has written nothing.
NothingYet ==
  \A j \in JobId : job[j].status = "none" =>
    written[j] = {} /\ \A f \in File : row[j][f] = "none"

\* What a client was given so far.
FoundIsTheirs ==
  \A c \in Requester : call[c] # NoCall =>
    /\ \A o \in call[c].found :
         /\ o.key = KeyOf(o.from, o.file) /\ o.key.prefix = JobPrefix(call[c].job)
         /\ call[c].answer = "body" => o.key = KeyOf(call[c].job, call[c].file)
    /\ call[c].at = "list" => call[c].answer = "none"
    /\ call[c].at = "get" => call[c].answer = "none"

\* Until its cleanup begins, what a demo job wrote is there.
InPlace(j) == job[j].destination = "demo" /\ sweep[j].at = "off"

WrittenIsThere ==
  \A j \in JobId, f \in File :
    /\ row[j][f] = "done" => f \in written[j]
    /\ (InPlace(j) /\ f \in written[j]) => \E o \in bucket : o.key = KeyOf(j, f)

\* What was done when the client asked is done still; a listing has it as far as it got.
KnownIsDone ==
  \A c \in Requester : call[c] # NoCall =>
    /\ \A f \in call[c].known : row[call[c].job][f] = "done"
    /\ (call[c].at = "list" /\ InPlace(call[c].job)) =>
         \A f \in call[c].known : f.rest <= call[c].cursor =>
           \E o \in call[c].found : o.key.rest = f.rest

OutInv ==
  /\ OutputTypeOK
  /\ ObjectsAreTheirs
  /\ PagesAreTheirs
  /\ NothingYet
  /\ FoundIsTheirs
  /\ WrittenIsThere
  /\ KnownIsDone
  /\ DoneCanBeRead

-----------------------------------------------------------------------------
(* Keys tell jobs apart, and names up to the slashes in front: joinKey.    *)
LEMMA KeysTellApart ==
  ASSUME NEW i, NEW j, NEW f, NEW g
  PROVE  KeyOf(i, f) = KeyOf(j, g) <=> (i = j /\ f.rest = g.rest)
  BY DEF KeyOf, JobPrefix

LEMMA KeyType ==
  ASSUME NEW j \in JobId, NEW f \in File
  PROVE  KeyOf(j, f) \in Key /\ f.rest \in Nat \ {0}
  BY OutputAssumption DEF KeyOf, JobPrefix, Key, Rest

LEMMA InitHolds == OutputInit => OutInv
<1> SUFFICES ASSUME OutputInit PROVE OutInv
  OBVIOUS
<1> USE DEF OutputInit, NoSweep
<1>1. OutputTypeOK
  BY DEF OutputTypeOK, Job, RowStatus, Sweep
<1>2. ObjectsAreTheirs /\ PagesAreTheirs /\ NothingYet
  BY DEF ObjectsAreTheirs, PagesAreTheirs, NothingYet
<1>3. FoundIsTheirs /\ KnownIsDone
  BY DEF FoundIsTheirs, KnownIsDone
<1>4. WrittenIsThere
  BY DEF WrittenIsThere
<1>5. DoneCanBeRead
  BY DEF DoneCanBeRead, NoCall
<1> QED
  BY <1>1, <1>2, <1>3, <1>4, <1>5 DEF OutInv

(* Begin.                                                                  *)
LEMMA BeginKeeps ==
  ASSUME OutInv, NEW j \in JobId, NEW destination \in {"demo", "byo"}, NEW selected \in SUBSET File,
         Begin(j, destination, selected)
  PROVE  OutInv'
<1> USE DEF OutInv, Begin
<1>1. OutputTypeOK'
  BY DEF OutputTypeOK, Job, RowStatus
<1>2. \A i \in JobId : i # j => job'[i] = job[i] /\ row'[i] = row[i]
  BY DEF OutputTypeOK
<1>3. job'[j].status = "running" /\ sweep[j].at = "off" /\ \A f \in File : row[j][f] = "none"
  BY DEF OutputTypeOK, PagesAreTheirs, NothingYet, Job
<1>4. ObjectsAreTheirs' /\ PagesAreTheirs' /\ NothingYet' /\ FoundIsTheirs'
  BY <1>2, <1>3 DEF ObjectsAreTheirs, PagesAreTheirs, NothingYet, FoundIsTheirs
<1>5. WrittenIsThere'
  BY <1>2, <1>3 DEF WrittenIsThere, InPlace, NothingYet, OutputTypeOK
<1>6. \A c \in Requester : call[c] # NoCall /\ call[c].job = j => call[c].known = {}
  BY <1>3 DEF KnownIsDone, OutputTypeOK, Call
<1>7. KnownIsDone'
  BY <1>2, <1>6 DEF KnownIsDone, InPlace, OutputTypeOK, Call
<1>8. DoneCanBeRead'
  BY <1>2, <1>6 DEF DoneCanBeRead, OutputTypeOK, Call, NoCall
<1> QED
  BY <1>1, <1>4, <1>5, <1>7, <1>8

(* Put.                                                                    *)
LEMMA PutKeeps ==
  ASSUME OutInv, NEW j \in JobId, NEW f \in File, Put(j, f)
  PROVE  OutInv'
<1> USE DEF OutInv, Put
<1> DEFINE new == [key |-> KeyOf(j, f), from |-> j, file |-> f]
<1>1. new \in Object /\ new.key = KeyOf(new.from, new.file)
  BY KeyType DEF Object
<1>2. bucket' \subseteq bucket \union {new}
  OBVIOUS
<1>3. OutputTypeOK'
  BY <1>1, <1>2 DEF OutputTypeOK
<1>4. ObjectsAreTheirs' /\ PagesAreTheirs' /\ FoundIsTheirs'
  BY <1>1, <1>2 DEF ObjectsAreTheirs, PagesAreTheirs, FoundIsTheirs
<1>5. NothingYet'
  BY DEF NothingYet, OutputTypeOK
<1>6. WrittenIsThere'
  <2> SUFFICES ASSUME NEW i \in JobId, NEW g \in File
               PROVE  /\ row[i][g] = "done" => g \in written'[i]
                      /\ (InPlace(i) /\ g \in written'[i]) =>
                           \E o \in bucket' : o.key = KeyOf(i, g)
    BY DEF WrittenIsThere, InPlace
  <2>1. row[i][g] = "done" => g \in written'[i]
    BY DEF WrittenIsThere, OutputTypeOK
  <2>2. ASSUME InPlace(i), g \in written'[i]
        PROVE  \E o \in bucket' : o.key = KeyOf(i, g)
    <3>1. CASE KeyOf(i, g) = KeyOf(j, f)
      <4>1. new \in bucket'
        BY <2>2, <3>1, KeysTellApart DEF InPlace
      <4> QED
        BY <4>1, <3>1
    <3>2. CASE KeyOf(i, g) # KeyOf(j, f)
      BY <2>2, <3>2 DEF WrittenIsThere, OutputTypeOK
    <3> QED
      BY <3>1, <3>2
  <2> QED
    BY <2>1, <2>2
<1>7. KnownIsDone' /\ DoneCanBeRead'
  BY DEF KnownIsDone, DoneCanBeRead, InPlace
<1> QED
  BY <1>3, <1>4, <1>5, <1>6, <1>7

(* RowSettles.                                                             *)
LEMMA RowSettlesKeeps ==
  ASSUME OutInv, NEW j \in JobId, NEW f \in File, NEW status \in {"done", "failed"},
         RowSettles(j, f, status)
  PROVE  OutInv'
<1> USE DEF OutInv, RowSettles
<1>1. OutputTypeOK'
  BY DEF OutputTypeOK, RowStatus
<1>2. \A i \in JobId, g \in File : row'[i][g] = IF i = j /\ g = f THEN status ELSE row[i][g]
  BY DEF OutputTypeOK
<1>3. \A i \in JobId, g \in File : row[i][g] = "done" => row'[i][g] = "done"
  BY <1>2
<1>4. ObjectsAreTheirs' /\ PagesAreTheirs' /\ FoundIsTheirs'
  BY DEF ObjectsAreTheirs, PagesAreTheirs, FoundIsTheirs
<1>5. NothingYet'
  BY <1>2 DEF NothingYet
<1>6. WrittenIsThere'
  BY <1>2 DEF WrittenIsThere, InPlace
<1>7. KnownIsDone' /\ DoneCanBeRead'
  BY <1>3 DEF KnownIsDone, DoneCanBeRead, InPlace, OutputTypeOK, Call
<1> QED
  BY <1>1, <1>4, <1>5, <1>6, <1>7

(* Completes.                                                              *)
LEMMA CompletesKeeps ==
  ASSUME OutInv, NEW j \in JobId, Completes(j)
  PROVE  OutInv'
<1> USE DEF OutInv, Completes
<1>1. OutputTypeOK'
  BY DEF OutputTypeOK, Job
<1>2. \A i \in JobId : /\ job'[i].destination = job[i].destination
                       /\ job'[i].status = IF i = j THEN "completed" ELSE job[i].status
  BY DEF OutputTypeOK, Job
<1>3. ObjectsAreTheirs' /\ PagesAreTheirs' /\ NothingYet' /\ FoundIsTheirs'
  BY <1>2 DEF ObjectsAreTheirs, PagesAreTheirs, NothingYet, FoundIsTheirs
<1>4. WrittenIsThere' /\ KnownIsDone' /\ DoneCanBeRead'
  BY <1>2 DEF WrittenIsThere, KnownIsDone, DoneCanBeRead, InPlace, OutputTypeOK, Call, NoCall
<1> QED
  BY <1>1, <1>3, <1>4

(* SweepLists: a page has objects of the job whose cleanup it is.          *)
LEMMA SweepListsKeeps ==
  ASSUME OutInv, NEW j \in JobId, SweepLists(j)
  PROVE  OutInv'
<1> USE DEF OutInv
<1>1. PICK leaf \in SUBSET bucket :
        /\ IsPage(leaf, Ahead(j, sweep[j].cursor))
        /\ sweep' = [sweep EXCEPT ![j] =
             [NoSweep EXCEPT !.at = IF leaf = {} THEN "over" ELSE "delete",
                             !.page = {o.key : o \in leaf},
                             !.more = leaf # Ahead(j, sweep[j].cursor)]]
  BY DEF SweepLists
<1>2. /\ job[j].status = "completed"
      /\ UNCHANGED <<job, row, written, bucket, call>>
  BY DEF SweepLists, jobVars
<1> DEFINE next == [NoSweep EXCEPT !.at = IF leaf = {} THEN "over" ELSE "delete",
                                   !.page = {o.key : o \in leaf},
                                   !.more = leaf # Ahead(j, sweep[j].cursor)]
<1>3. \A o \in leaf : o.key \in Key /\ o.key.prefix = JobPrefix(j)
  BY <1>1 DEF IsPage, Ahead, OutputTypeOK, Object
<1>4. /\ next \in Sweep /\ next.at # "off"
      /\ \A k \in next.page : k.prefix = JobPrefix(j)
  BY <1>3 DEF Sweep, NoSweep
<1> HIDE DEF next
<1>5. /\ sweep' = [sweep EXCEPT ![j] = next]
  BY <1>1 DEF next
<1>6. /\ \A i \in JobId : sweep'[i] = IF i = j THEN next ELSE sweep[i]
      /\ sweep' \in [JobId -> Sweep]
  BY <1>4, <1>5 DEF OutputTypeOK
<1>7. OutputTypeOK'
  BY <1>2, <1>6 DEF OutputTypeOK
<1>8. ObjectsAreTheirs' /\ NothingYet' /\ FoundIsTheirs'
  BY <1>2 DEF ObjectsAreTheirs, NothingYet, FoundIsTheirs
<1>9. PagesAreTheirs'
  BY <1>2, <1>4, <1>6 DEF PagesAreTheirs
<1>10. WrittenIsThere'
  BY <1>2, <1>4, <1>6 DEF WrittenIsThere, InPlace
<1>11. \A i \in JobId : sweep'[i].at = "off" => sweep[i].at = "off"
  BY <1>4, <1>6
<1>12. \A c \in Requester : call[c] # NoCall => call[c].job \in JobId
  BY DEF OutputTypeOK, Call
<1>13. \A c \in Requester : call[c].at = "answered" => call[c].job \in JobId
  BY <1>12 DEF NoCall
<1>14. KnownIsDone'
  BY <1>2, <1>11, <1>12 DEF KnownIsDone, InPlace
<1>15. DoneCanBeRead'
  BY <1>2, <1>11, <1>13 DEF DoneCanBeRead
<1> QED
  BY <1>7, <1>8, <1>9, <1>10, <1>14, <1>15

(* What the deletion of a page takes is the job's own.                     *)
LEMMA PageIsItsOwn ==
  ASSUME OutInv, NEW j \in JobId, NEW o \in bucket, o.key \in sweep[j].page
  PROVE  o.from = j
<1>1. o.key.prefix = JobPrefix(j) /\ o.key = KeyOf(o.from, o.file)
  BY DEF OutInv, PagesAreTheirs, ObjectsAreTheirs
<1> QED
  BY <1>1 DEF KeyOf, JobPrefix

(* SweepDeletes.                                                           *)
LEMMA SweepDeletesKeeps ==
  ASSUME OutInv, NEW j \in JobId, SweepDeletes(j)
  PROVE  OutInv'
<1> USE DEF OutInv
<1>1. /\ sweep[j].at = "delete"
      /\ bucket' = {o \in bucket : o.key \notin sweep[j].page}
      /\ UNCHANGED <<job, row, written, call>>
  BY DEF SweepDeletes, jobVars
<1>2. PICK next \in Sweep : /\ sweep' = [sweep EXCEPT ![j] = next]
                           /\ next.at # "off" /\ next.page = {}
  <2>1. \A k \in sweep[j].page : k.rest \in Nat
    BY OutputAssumption DEF OutputTypeOK, Sweep, Key, Rest
  <2>2. [NoSweep EXCEPT !.at = "over"] \in Sweep
    BY DEF NoSweep, Sweep
  <2>3. \A n \in Nat : [NoSweep EXCEPT !.at = "list", !.cursor = n] \in Sweep
    BY DEF NoSweep, Sweep
  <2>4. CASE ~sweep[j].more
    BY <2>2, <2>4 DEF SweepDeletes, NoSweep
  <2>5. CASE sweep[j].more
    BY <2>1, <2>3, <2>5 DEF SweepDeletes, NoSweep
  <2> QED
    BY <2>4, <2>5 DEF OutputTypeOK, Sweep
<1>3. /\ \A i \in JobId : sweep'[i] = IF i = j THEN next ELSE sweep[i]
      /\ sweep' \in [JobId -> Sweep]
  BY <1>2 DEF OutputTypeOK
<1>4. OutputTypeOK'
  BY <1>1, <1>3 DEF OutputTypeOK
<1>5. ObjectsAreTheirs' /\ NothingYet' /\ FoundIsTheirs'
  BY <1>1 DEF ObjectsAreTheirs, NothingYet, FoundIsTheirs
<1>6. PagesAreTheirs'
  BY <1>1, <1>2, <1>3 DEF PagesAreTheirs
<1>7. WrittenIsThere'
  <2> SUFFICES ASSUME NEW i \in JobId, NEW g \in File, i # j, InPlace(i), g \in written[i]
               PROVE  \E o \in bucket' : o.key = KeyOf(i, g)
    BY <1>1, <1>2, <1>3 DEF WrittenIsThere, InPlace
  <2>1. PICK o \in bucket : o.key = KeyOf(i, g)
    BY DEF WrittenIsThere
  <2>2. o.key.prefix # JobPrefix(j)
    BY <2>1 DEF KeyOf, JobPrefix
  <2>3. o \in bucket'
    BY <1>1, <2>2 DEF PagesAreTheirs
  <2> QED
    BY <2>1, <2>3
<1>8. KnownIsDone' /\ DoneCanBeRead'
  BY <1>1, <1>2, <1>3 DEF KnownIsDone, DoneCanBeRead, InPlace, OutputTypeOK, Call, NoCall
<1> QED
  BY <1>4, <1>5, <1>6, <1>7, <1>8

-----------------------------------------------------------------------------
(* Reported: the call of a client that had none becomes one with nothing   *)
(* found yet.                                                              *)
LEMMA ReportedKeeps ==
  ASSUME OutInv, NEW c \in Requester, NEW new \in Call,
         call[c] = NoCall, call' = [call EXCEPT ![c] = new],
         UNCHANGED <<jobVars, bucket, sweep>>,
         new.found = {}, new.cursor = 0, new.known = DoneAmong(new.job, new.known),
         new.at \in {"list", "get"} => new.answer = "none",
         new.answer # "noFile",
         new.answer = "files" => job[new.job].destination = "byo"
  PROVE  OutInv'
<1> USE DEF OutInv
<1>1. UNCHANGED <<job, row, written, bucket, sweep>>
  BY DEF jobVars
<1>2. /\ \A d \in Requester : call'[d] = IF d = c THEN new ELSE call[d]
      /\ call' \in [Requester -> Call \union {NoCall}]
  BY DEF OutputTypeOK
<1>3. OutputTypeOK' /\ ObjectsAreTheirs' /\ PagesAreTheirs' /\ NothingYet' /\ WrittenIsThere'
  BY <1>1, <1>2 DEF OutputTypeOK, ObjectsAreTheirs, PagesAreTheirs, NothingYet, WrittenIsThere,
                    InPlace
<1>4. FoundIsTheirs'
  BY <1>1, <1>2 DEF FoundIsTheirs
<1>5. \A f \in new.known : row[new.job][f] = "done" /\ f.rest > 0
  BY OutputAssumption DEF DoneAmong, Call
<1>6. \A f \in File : f.rest \in Nat
  BY OutputAssumption
<1>7. KnownIsDone'
  BY <1>1, <1>2, <1>5, <1>6 DEF KnownIsDone, InPlace, Call
<1>8. DoneCanBeRead'
  BY <1>1, <1>2 DEF DoneCanBeRead
<1> QED
  BY <1>3, <1>4, <1>7, <1>8
(* The files route, up to the listing.                                     *)
LEMMA AskFilesKeeps ==
  ASSUME OutInv, NEW c \in Requester, NEW j \in JobId, AskFiles(c, j)
  PROVE  OutInv'
<1> DEFINE asked == Asked(j, AnyFile, DoneAmong(j, File))
           new   == CASE job[j].status = "none"     -> [asked EXCEPT !.answer = "noJob"]
                      [] job[j].destination = "byo" -> [asked EXCEPT !.answer = "files"]
                      [] OTHER                      -> [asked EXCEPT !.at = "list"]
<1>1. /\ call[c] = NoCall /\ call' = [call EXCEPT ![c] = new]
      /\ UNCHANGED <<jobVars, bucket, sweep>>
  BY DEF AskFiles, Reported
<1>2. AnyFile \in File
  BY OutputAssumption DEF AnyFile
<1>3. new \in Call /\ new.known = DoneAmong(new.job, new.known)
  BY <1>2 DEF Asked, DoneAmong, Call, Answer
<1>4. /\ new.found = {} /\ new.cursor = 0
      /\ new.at \in {"list", "get"} => new.answer = "none"
      /\ new.answer # "noFile"
      /\ new.answer = "files" => job[new.job].destination = "byo"
  BY DEF Asked
<1> HIDE DEF new
<1> QED
  BY <1>1, <1>3, <1>4, ReportedKeeps

(* The download route, up to the look into the bucket.                     *)
LEMMA AskFileKeeps ==
  ASSUME OutInv, NEW c \in Requester, NEW j \in JobId, NEW f \in File, AskFile(c, j, f)
  PROVE  OutInv'
<1> DEFINE asked == Asked(j, f, DoneAmong(j, {f}))
           new   == CASE job[j].status = "none"     -> [asked EXCEPT !.answer = "noJob"]
                      [] job[j].destination = "byo" -> [asked EXCEPT !.answer = "byo"]
                      [] OTHER                      -> CheckName(f, asked)
<1>1. /\ call[c] = NoCall /\ call' = [call EXCEPT ![c] = new]
      /\ UNCHANGED <<jobVars, bucket, sweep>>
  BY DEF AskFile, Reported
<1>2. new \in Call /\ new.known = DoneAmong(new.job, new.known)
  BY DEF Asked, DoneAmong, Call, Answer, CheckName
<1>3. /\ new.found = {} /\ new.cursor = 0
      /\ new.at \in {"list", "get"} => new.answer = "none"
      /\ new.answer # "noFile" /\ new.answer # "files"
  BY DEF Asked, CheckName
<1> HIDE DEF new
<1> QED
  BY <1>1, <1>2, <1>3, ReportedKeeps

(* ListFiles: what lies between two cursors is in the page between them.   *)
LEMMA ListFilesKeeps ==
  ASSUME OutInv, NEW c \in Requester, ListFiles(c)
  PROVE  OutInv'
<1> USE DEF OutInv
<1> DEFINE ahead == Ahead(call[c].job, call[c].cursor)
<1>1. /\ call[c].at = "list" /\ call[c] \in Call /\ call[c] # NoCall
      /\ UNCHANGED <<job, row, written, bucket, sweep>>
  BY DEF ListFiles, jobVars, OutputTypeOK, NoCall
<1>2. PICK leaf \in SUBSET bucket :
        /\ IsPage(leaf, ahead)
        /\ \/ \E n \in Rest :
                /\ IsLast(n, leaf)
                /\ call' = [call EXCEPT ![c].cursor = n, ![c].found = @ \union leaf]
           \/ /\ leaf = ahead
              /\ call' = [call EXCEPT ![c].at = "answered", ![c].answer = "files",
                                      ![c].found = @ \union leaf]
  BY DEF ListFiles, Truncated
<1> HIDE DEF ahead
<1>3. PICK new \in Call :
        /\ call' = [call EXCEPT ![c] = new]
        /\ new.job = call[c].job /\ new.known = call[c].known
        /\ new.found = call[c].found \union leaf
        /\ \/ new.at = "list" /\ new.answer = call[c].answer /\ IsLast(new.cursor, leaf)
           \/ new.at = "answered" /\ new.answer = "files" /\ leaf = ahead
  <2>1. leaf \subseteq Object /\ Rest \subseteq Nat
    BY OutputAssumption DEF OutputTypeOK, Rest
  <2>2. CASE \E n \in Rest :
               /\ IsLast(n, leaf)
               /\ call' = [call EXCEPT ![c].cursor = n, ![c].found = @ \union leaf]
    <3>1. PICK n \in Rest :
            /\ IsLast(n, leaf)
            /\ call' = [call EXCEPT ![c].cursor = n, ![c].found = @ \union leaf]
      BY <2>2
    <3> DEFINE next == [call[c] EXCEPT !.cursor = n, !.found = @ \union leaf]
    <3>2. /\ next \in Call /\ next.at = "list" /\ next.cursor = n
          /\ next.job = call[c].job /\ next.known = call[c].known
          /\ next.found = call[c].found \union leaf /\ next.answer = call[c].answer
      BY <1>1, <2>1 DEF Call
    <3>3. call' = [call EXCEPT ![c] = next]
      BY <3>1 DEF OutputTypeOK
    <3> QED
      BY <3>1, <3>2, <3>3
  <2>3. CASE /\ leaf = ahead
             /\ call' = [call EXCEPT ![c].at = "answered", ![c].answer = "files",
                                     ![c].found = @ \union leaf]
    <3> DEFINE next == [call[c] EXCEPT !.at = "answered", !.answer = "files",
                                       !.found = @ \union leaf]
    <3>1. /\ next \in Call /\ next.at = "answered" /\ next.answer = "files"
          /\ next.job = call[c].job /\ next.known = call[c].known
          /\ next.found = call[c].found \union leaf
      BY <1>1, <2>1 DEF Call, Answer
    <3>2. call' = [call EXCEPT ![c] = next]
      BY <2>3 DEF OutputTypeOK
    <3> QED
      BY <2>3, <3>1, <3>2
  <2> QED
    BY <1>2, <2>2, <2>3
<1>4. /\ \A d \in Requester : call'[d] = IF d = c THEN new ELSE call[d]
      /\ call' \in [Requester -> Call \union {NoCall}]
  BY <1>3 DEF OutputTypeOK
<1>5. OutputTypeOK' /\ ObjectsAreTheirs' /\ PagesAreTheirs' /\ NothingYet' /\ WrittenIsThere'
  BY <1>1, <1>4 DEF OutputTypeOK, ObjectsAreTheirs, PagesAreTheirs, NothingYet, WrittenIsThere,
                    InPlace
<1>6. \A o \in leaf : /\ o \in bucket /\ o.key = KeyOf(o.from, o.file)
                      /\ o.key.prefix = JobPrefix(call[c].job)
  BY <1>2 DEF IsPage, Ahead, ahead, ObjectsAreTheirs
<1>7. call[c].answer = "none"
  BY <1>1 DEF FoundIsTheirs
<1>8. FoundIsTheirs'
  BY <1>1, <1>3, <1>4, <1>6, <1>7 DEF FoundIsTheirs
<1>9. ASSUME InPlace(call[c].job), NEW f \in call[c].known,
             leaf = ahead \/ (IsLast(new.cursor, leaf) /\ f.rest <= new.cursor)
      PROVE  \E o \in new.found : o.key.rest = f.rest
  <2>1. f \in File /\ f.rest \in Nat /\ call[c].cursor \in Nat /\ new.cursor \in Nat
    BY <1>1, OutputAssumption DEF Call
  <2>2. CASE f.rest <= call[c].cursor
    BY <1>1, <1>3, <1>9, <2>2 DEF KnownIsDone
  <2>3. CASE f.rest > call[c].cursor
    <3>1. f \in written[call[c].job]
      BY <1>1, <2>1 DEF KnownIsDone, WrittenIsThere, Call
    <3>2. PICK o \in bucket : o.key = KeyOf(call[c].job, f)
      BY <1>1, <1>9, <2>1, <3>1 DEF WrittenIsThere, Call
    <3>3. o \in ahead /\ o.key.rest = f.rest
      BY <2>3, <3>2 DEF ahead, Ahead, KeyOf
    <3>4. o \in leaf
      BY <1>2, <1>9, <2>1, <3>3 DEF IsPage, IsLast
    <3> QED
      BY <1>3, <3>3, <3>4
  <2> QED
    BY <2>1, <2>2, <2>3
<1>10. KnownIsDone'
  BY <1>1, <1>3, <1>4, <1>9 DEF KnownIsDone, InPlace
<1>11. DoneCanBeRead'
  BY <1>1, <1>3, <1>4, <1>9 DEF DoneCanBeRead, InPlace
<1> QED
  BY <1>5, <1>8, <1>10, <1>11

(* GetFile: what was done when the client asked is found under its key.    *)
LEMMA GetFileKeeps ==
  ASSUME OutInv, NEW c \in Requester, GetFile(c)
  PROVE  OutInv'
<1> USE DEF OutInv
<1> DEFINE object == {o \in bucket : o.key = KeyOf(call[c].job, call[c].file)}
           new    == [call[c] EXCEPT !.at = "answered", !.found = object,
                                     !.answer = IF object = {} THEN "noFile" ELSE "body"]
<1>1. /\ call[c].at = "get" /\ call[c] \in Call /\ call[c] # NoCall
      /\ UNCHANGED <<job, row, written, bucket, sweep>>
  <2>1. call[c].at = "get" /\ UNCHANGED <<job, row, written, bucket, sweep>>
    BY DEF GetFile, jobVars
  <2>2. call[c] # NoCall
    BY <2>1 DEF NoCall
  <2> QED
    BY <2>1, <2>2 DEF OutputTypeOK
<1>2. /\ new \in Call /\ new.at = "answered" /\ new.found = object
      /\ new.job = call[c].job /\ new.file = call[c].file /\ new.known = call[c].known
      /\ new.answer = IF object = {} THEN "noFile" ELSE "body"
  BY <1>1 DEF Call, Answer, OutputTypeOK
<1>3. /\ \A d \in Requester : call'[d] = IF d = c THEN new ELSE call[d]
      /\ call' \in [Requester -> Call \union {NoCall}]
  BY <1>1, <1>2 DEF OutputTypeOK, GetFile
<1>4. \A o \in object : /\ o \in bucket /\ o.key = KeyOf(o.from, o.file)
                        /\ o.key = KeyOf(call[c].job, call[c].file)
                        /\ o.key.prefix = JobPrefix(call[c].job)
  BY DEF ObjectsAreTheirs, KeyOf
<1>5. (InPlace(call[c].job) /\ object = {}) => call[c].file \notin call[c].known
  BY <1>1 DEF KnownIsDone, WrittenIsThere, Call
<1> HIDE DEF object, new
<1>6. OutputTypeOK' /\ ObjectsAreTheirs' /\ PagesAreTheirs' /\ NothingYet' /\ WrittenIsThere'
  BY <1>1, <1>3 DEF OutputTypeOK, ObjectsAreTheirs, PagesAreTheirs, NothingYet, WrittenIsThere,
                    InPlace
<1>7. FoundIsTheirs'
  BY <1>1, <1>2, <1>3, <1>4 DEF FoundIsTheirs
<1>8. KnownIsDone'
  BY <1>1, <1>2, <1>3 DEF KnownIsDone, InPlace
<1>9. DoneCanBeRead'
  BY <1>1, <1>2, <1>3, <1>5 DEF DoneCanBeRead, InPlace
<1> QED
  BY <1>6, <1>7, <1>8, <1>9

-----------------------------------------------------------------------------
(* Every step of the bucket and its readers keeps the invariant.           *)
LEMMA NextKeeps ==
  ASSUME OutInv, [OutputNext]_outputVars
  PROVE  OutInv'
<1>1. CASE UNCHANGED outputVars
  BY <1>1 DEF outputVars, jobVars, OutInv, OutputTypeOK, ObjectsAreTheirs, PagesAreTheirs,
              NothingYet, FoundIsTheirs, WrittenIsThere, InPlace, KnownIsDone, DoneCanBeRead
<1>2. CASE OutputNext
  BY <1>2, BeginKeeps, PutKeeps, RowSettlesKeeps, CompletesKeeps, SweepListsKeeps,
     SweepDeletesKeeps, AskFilesKeeps, AskFileKeeps, ListFilesKeeps, GetFileKeeps DEF OutputNext
<1> QED
  BY <1>1, <1>2

(* The inductive invariant of the bucket and its readers: deletePrefix and *)
(* joinKey of the workers, the cleanup and both routes.                    *)
THEOREM OutputInvariance == OutputSpec => []OutInv
<1> QED
  BY InitHolds, NextKeeps, PTL DEF OutputSpec

(* A listing or a download has the asked job's objects only: the routes    *)
(* look under its prefix.                                                  *)
THEOREM ServesItsOwnAlways == OutputSpec => []ServesItsOwn
<1>1. OutInv => ServesItsOwn
  <2> SUFFICES ASSUME OutInv, NEW c \in Requester, NEW o \in call[c].found
               PROVE  /\ o.from = call[c].job
                      /\ call[c].answer = "body" => o.file.rest = call[c].file.rest
    BY DEF ServesItsOwn
  <2>1. call[c] # NoCall
    BY DEF NoCall
  <2>2. /\ o.key = KeyOf(o.from, o.file) /\ o.key.prefix = JobPrefix(call[c].job)
        /\ call[c].answer = "body" => o.key = KeyOf(call[c].job, call[c].file)
    BY <2>1 DEF OutInv, FoundIsTheirs
  <2>3. o.from = call[c].job
    BY <2>2 DEF KeyOf, JobPrefix
  <2>4. call[c].answer = "body" => o.file.rest = call[c].file.rest
    BY <2>2, KeysTellApart
  <2> QED
    BY <2>3, <2>4
<1> QED
  BY <1>1, OutputInvariance, PTL

(* What was done when it was asked for is listed and served until the      *)
(* cleanup of its own job begins.                                          *)
THEOREM DoneCanBeReadAlways == OutputSpec => []DoneCanBeRead
<1>1. OutInv => DoneCanBeRead
  BY DEF OutInv
<1> QED
  BY <1>1, OutputInvariance, PTL

(* No worker's write and no cleanup takes an object of another job.        *)
THEOREM OnlyItsJobTakesItAlways == OutputSpec => OnlyItsJobTakesIt
<1> DEFINE Taken(o) == \/ sweep[o.from].at = "delete"
                       \/ \E other \in bucket' : other.key = o.key /\ other.from = o.from
<1>1. ASSUME OutInv, OutputNext, NEW o \in bucket, o \notin bucket'
      PROVE  Taken(o)
  <2>1. CASE \E j \in JobId, f \in File : Put(j, f)
    <3>1. PICK j \in JobId, f \in File : Put(j, f)
      BY <2>1
    <3>2. /\ o.key = KeyOf(j, f) /\ o.key = KeyOf(o.from, o.file)
          /\ [key |-> KeyOf(j, f), from |-> j, file |-> f] \in bucket'
      BY <1>1, <3>1 DEF Put, OutInv, ObjectsAreTheirs
    <3> QED
      BY <3>2 DEF KeyOf, JobPrefix
  <2>2. CASE \E j \in JobId : SweepDeletes(j)
    <3>1. PICK j \in JobId : SweepDeletes(j)
      BY <2>2
    <3>2. sweep[j].at = "delete" /\ o.key \in sweep[j].page
      BY <1>1, <3>1 DEF SweepDeletes
    <3> QED
      BY <1>1, <3>2, PageIsItsOwn
  <2>3. CASE UNCHANGED bucket
    BY <1>1, <2>3
  <2>4. \/ \E j \in JobId, f \in File : Put(j, f)
        \/ \E j \in JobId : SweepDeletes(j)
        \/ UNCHANGED bucket
    BY <1>1 DEF OutputNext, Begin, RowSettles, Completes, SweepLists, AskFiles, AskFile, Reported,
                ListFiles, GetFile
  <2> QED
    BY <2>1, <2>2, <2>3, <2>4
<1>2. OutInv /\ [OutputNext]_outputVars =>
        [\A o \in bucket \ bucket' : Taken(o)]_outputVars
  BY <1>1
<1> HIDE DEF Taken
<1> QED
  BY <1>2, OutputInvariance, PTL DEF OutputSpec, OnlyItsJobTakesIt, Taken

-----------------------------------------------------------------------------
(***************************************************************************)
(* The destination form                                                    *)
(***************************************************************************)
LEMMA FormInitHolds == FormInit => FormInv
<1>1. FormInit => LeftoverIsReported
  BY DEF FormInit, LeftoverIsReported
<1>2. FormInit => {byoValidated, extractDisabled, meddled, overruled} \subseteq BOOLEAN
  BY DEF FormInit
<1>3. FormInit => /\ extracts \in 0 .. MaxExtracts /\ edits \in 0 .. MaxEdits
  BY FormAssumption DEF FormInit
<1>4. FormInit => /\ form \in Forms /\ destMode \in DestModes
  BY DEF FormInit, DestModes
<1>5. FormInit =>
        check \in [Checks -> {Idle} \cup [step : CheckSteps, form : Forms, heard : BOOLEAN]]
  BY DEF FormInit
<1>6. FormInit => probe \in [Forms -> BOOLEAN]
  BY DEF FormInit
<1>7. FormInit => /\ passed \cup refused \cup unheard \subseteq Forms
      /\ sent \subseteq [form : Forms, overruled : BOOLEAN]
  BY DEF FormInit
<1>8. FormInit => UnheardIsKnown
  BY DEF FormInit, UnheardIsKnown
<1> QED
  BY <1>1, <1>2, <1>3, <1>4, <1>5, <1>6, <1>7, <1>8 DEF FormInv, FormTypeOK

(* What the page itself does leaves the buckets and what was told of them. *)
LEMMA PageStepKeeps ==
  ASSUME FormInv, ChooseDestination \/ EditField \/ DoExtract \/ ExtractAnswered
  PROVE  FormInv'
<1> USE FormAssumption DEF FormInv
<1>1. UNCHANGED <<check, probe, passed, refused, unheard>>
  BY DEF ChooseDestination, EditField, DoExtract, ExtractAnswered, told
<1>2. LeftoverIsReported' /\ UnheardIsKnown'
  BY <1>1 DEF LeftoverIsReported, UnheardIsKnown
<1>3. /\ form' \in Forms /\ destMode' \in DestModes
      /\ sent' \subseteq [form : Forms, overruled : BOOLEAN]
  <2>1. form' \in Forms /\ destMode' \in DestModes
    BY DEF FormTypeOK, ChooseDestination, EditField, DoExtract, ExtractAnswered
  <2>2. overruled \in BOOLEAN /\ form \in Forms
    BY DEF FormTypeOK
  <2>3. Payload \subseteq [form : Forms, overruled : BOOLEAN]
    BY <2>2 DEF Payload
  <2>4. sent' = sent \/ sent' = sent \cup Payload
    BY DEF ChooseDestination, EditField, DoExtract, ExtractAnswered
  <2> QED
    BY <2>1, <2>3, <2>4 DEF FormTypeOK
<1>4. {byoValidated, extractDisabled, meddled, overruled}' \subseteq BOOLEAN
  <2>1. byoValidated' \in BOOLEAN
    BY DEF FormTypeOK, ChooseDestination, EditField, DoExtract, ExtractAnswered
  <2>2. extractDisabled' \in BOOLEAN
    BY DEF FormTypeOK, ChooseDestination, EditField, DoExtract, ExtractAnswered,
           UpdateExtractEnabled, ShowExtractErr
  <2>3. meddled' \in BOOLEAN
    BY DEF FormTypeOK, ChooseDestination, EditField, DoExtract, ExtractAnswered, Touch
  <2>4. overruled' \in BOOLEAN
    BY DEF FormTypeOK, ChooseDestination, EditField, DoExtract, ExtractAnswered,
           UpdateExtractEnabled, ShowExtractErr
  <2> QED
    BY <2>1, <2>2, <2>3, <2>4
<1>5. extracts' \in 0 .. MaxExtracts /\ edits' \in 0 .. MaxEdits
  <2>1. /\ MaxEdits \in Nat /\ MaxExtracts \in Nat
        /\ extracts \in 0 .. MaxExtracts /\ edits \in 0 .. MaxEdits
    BY DEF FormTypeOK
  <2>2. /\ extracts' = extracts \/ (extracts < MaxExtracts /\ extracts' = extracts + 1)
           \/ (extracts > 0 /\ extracts' = extracts - 1)
        /\ edits' = edits \/ (edits < MaxEdits /\ edits' = edits + 1)
    BY DEF ChooseDestination, EditField, DoExtract, ExtractAnswered, Touch
  <2> QED
    BY <2>1, <2>2
<1>6. FormTypeOK'
  BY <1>1, <1>3, <1>4, <1>5 DEF FormTypeOK
<1> QED
  BY <1>2, <1>6

(* A check that begins has written nothing; one that was answered was told *)
(* of, and one that was given up is known to be so.                        *)
LEMMA CheckStepKeeps ==
  ASSUME FormInv, NEW c \in Checks, ValidateClicked(c) \/ Validated(c) \/ ValidateFails(c)
  PROVE  FormInv'
<1> USE DEF FormInv
<1>1. UNCHANGED <<form, destMode, probe, extracts, sent, meddled, edits>>
  BY DEF ValidateClicked, Validated, ValidateFails, formPage, clicked
<1>2. PICK new \in {Idle} \cup [step : CheckSteps, form : Forms, heard : BOOLEAN] :
        /\ check' = [check EXCEPT ![c] = new]
        /\ new # Idle /\ ~new.heard => new.form \in unheard'
        /\ check[c].step \in {"delete", "invalid", "lost"} =>
             \/ check[c].form \in refused' \cup unheard'
             \/ new.step = check[c].step /\ new.form = check[c].form
  <2> DEFINE Check == [step : CheckSteps, form : Forms, heard : BOOLEAN]
  <2>1. CASE ValidateClicked(c)
    <3>1. [step |-> "put", form |-> form, heard |-> TRUE] \in Check
      BY DEF CheckSteps, FormTypeOK
    <3>2. Idle.step = "idle"
      BY DEF Idle
    <3> QED
      BY <2>1, <3>1, <3>2 DEF ValidateClicked
  <2>2. CASE Validated(c)
    BY <2>2 DEF Validated
  <2>3. CASE ValidateFails(c)
    <3>1. check[c] \in Check
      BY <2>3 DEF ValidateFails, FormTypeOK, Idle
    <3>2. check[c].form \in unheard'
      BY <2>3 DEF ValidateFails
    <3>3. CASE check[c].step \in {"put", "delete"}
      <4>1. [check[c] EXCEPT !.heard = FALSE] \in Check
        BY <3>1
      <4>2. [check[c] EXCEPT !.heard = FALSE].form = check[c].form
        BY <3>1
      <4> QED
        BY <2>3, <3>2, <3>3, <4>1, <4>2 DEF ValidateFails
    <3>4. CASE check[c].step \notin {"put", "delete"}
      BY <2>3, <3>2, <3>4 DEF ValidateFails
    <3> QED
      BY <3>3, <3>4
  <2> QED
    BY <2>1, <2>2, <2>3
<1>3. \A d \in Checks : check'[d] = IF d = c THEN new ELSE check[d]
  BY <1>2 DEF FormTypeOK
<1>4. refused \subseteq refused' /\ unheard \subseteq unheard'
  BY DEF ValidateClicked, Validated, ValidateFails, told
<1>5. LeftoverIsReported'
  BY <1>1, <1>2, <1>3, <1>4 DEF LeftoverIsReported
<1>6. UnheardIsKnown'
  BY <1>2, <1>3, <1>4 DEF UnheardIsKnown
<1>7. {byoValidated, extractDisabled, meddled, overruled}' \subseteq BOOLEAN
  BY DEF ValidateClicked, Validated, ValidateFails, formPage, clicked, UpdateExtractEnabled,
         FormTypeOK
<1>8. passed' \cup refused' \cup unheard' \subseteq Forms
  <2>1. Validated(c) \/ ValidateFails(c) => check[c].form \in Forms
    <3>1. Validated(c) \/ ValidateFails(c) =>
            check[c].heard \/ check[c].step \in {"valid", "invalid"}
      BY DEF Validated, ValidateFails
    <3>2. ~Idle.heard /\ Idle.step = "idle"
      BY DEF Idle
    <3> QED
      BY <3>1, <3>2 DEF FormTypeOK
  <2>2. CASE ValidateClicked(c)
    BY <2>2 DEF ValidateClicked, told, FormTypeOK
  <2>3. CASE Validated(c)
    BY <2>1, <2>3 DEF Validated, FormTypeOK
  <2>4. CASE ValidateFails(c)
    BY <2>1, <2>4 DEF ValidateFails, FormTypeOK
  <2> QED
    BY <2>2, <2>3, <2>4
<1>9. FormTypeOK'
  BY <1>1, <1>2, <1>7, <1>8 DEF FormTypeOK
<1> QED
  BY <1>5, <1>6, <1>9

(* A step of the Worker's check: the object is only left behind with the   *)
(* verdict or the loss on its way to the page, with the cleanup to come, or *)
(* by a check that nobody waits for.                                       *)
LEMMA ProbeStepKeeps ==
  ASSUME FormInv, NEW c \in Checks, PutProbe(c) \/ DeleteProbe(c) \/ CheckLost(c)
  PROVE  FormInv'
<1> USE DEF FormInv
<1> DEFINE f == check[c].form
<1>1. /\ UNCHANGED <<form, destMode, byoValidated, extractDisabled, passed, refused, unheard,
                     extracts, sent, meddled, overruled, edits>>
      /\ check[c].step \in {"put", "delete"}
  BY DEF PutProbe, DeleteProbe, CheckLost, formPage, told, clicked
<1>2. f \in Forms /\ check[c] \in [step : CheckSteps, form : Forms, heard : BOOLEAN]
  BY <1>1 DEF FormTypeOK, Idle
<1>3. PICK step \in {"delete", "valid", "invalid", "lost"} :
        /\ check' = [check EXCEPT ![c] = IF check[c].heard \/ step = "delete"
                                           THEN [check[c] EXCEPT !.step = step] ELSE Idle]
        /\ \A g \in Forms : probe'[g] => probe[g] \/ g = f
        /\ probe'[f] => step # "valid"
        /\ probe' \in [Forms -> BOOLEAN]
  <2>1. \A there \in BOOLEAN : Bucket(f, there) =>
          /\ probe' \in [Forms -> BOOLEAN] /\ probe'[f] = there
          /\ \A g \in Forms : g # f => probe'[g] = probe[g]
    BY <1>2 DEF Bucket, FormTypeOK
  <2>2. UNCHANGED probe => probe' \in [Forms -> BOOLEAN] /\ \A g \in Forms : probe'[g] = probe[g]
    BY DEF FormTypeOK
  <2>3. CASE PutProbe(c)
    BY <1>2, <2>1, <2>2, <2>3 DEF PutProbe, Says, FormTypeOK
  <2>4. CASE DeleteProbe(c)
    BY <1>2, <2>1, <2>2, <2>4 DEF DeleteProbe, Says, FormTypeOK
  <2>5. CASE CheckLost(c)
    BY <1>2, <2>1, <2>2, <2>5 DEF CheckLost, Says, FormTypeOK
  <2> QED
    BY <2>3, <2>4, <2>5
<1> DEFINE new == IF check[c].heard \/ step = "delete"
                    THEN [check[c] EXCEPT !.step = step] ELSE Idle
<1>4. /\ new \in {Idle} \cup [step : CheckSteps, form : Forms, heard : BOOLEAN]
      /\ check[c].heard \/ step = "delete" =>
           new.step = step /\ new.form = f /\ new.heard = check[c].heard
  BY <1>2, <1>3 DEF CheckSteps
<1>5. /\ check' \in [Checks -> {Idle} \cup [step : CheckSteps, form : Forms, heard : BOOLEAN]]
      /\ \A d \in Checks : check'[d] = IF d = c THEN new ELSE check[d]
  <2> HIDE DEF new
  <2> QED
    BY <1>3, <1>4 DEF new, FormTypeOK
<1> HIDE DEF new
<1>6. FormTypeOK'
  BY <1>1, <1>3, <1>5 DEF FormTypeOK
<1>7. check[c].heard \/ f \in unheard
  BY <1>1 DEF UnheardIsKnown, Idle
<1>8. UnheardIsKnown'
  BY <1>1, <1>4, <1>5, <1>7 DEF UnheardIsKnown, new
<1>9. LeftoverIsReported'
  <2> SUFFICES ASSUME NEW g \in Forms, probe'[g], g \notin refused' \cup unheard'
               PROVE  \E d \in Checks : /\ check'[d].form = g
                                        /\ check'[d].step \in {"delete", "invalid", "lost"}
    BY DEF LeftoverIsReported
  <2>1. CASE g = f
    BY <1>1, <1>3, <1>4, <1>5, <1>7, <2>1
  <2>2. CASE g # f
    BY <1>1, <1>3, <1>5, <2>2 DEF LeftoverIsReported
  <2> QED
    BY <2>1, <2>2
<1> QED
  BY <1>6, <1>8, <1>9

LEMMA FormStepKeeps == FormInv /\ [FormNext]_formVars => FormInv'
<1>1. FormInv /\ UNCHANGED formVars => FormInv'
  BY DEF formVars, formPage, told, clicked, FormInv, FormTypeOK, UnheardIsKnown, LeftoverIsReported
<1> QED
  BY <1>1, PageStepKeeps, CheckStepKeeps, ProbeStepKeeps DEF FormNext

(* Types, and nobody's bucket keeps the small object of a check without a  *)
(* word (destination.ts, validateDestination), unless a check of it was    *)
(* lost: whatever the user does meanwhile.                                 *)
THEOREM FormInvAlways == FormSpec => []FormInv
<1> QED
  BY FormInitHolds, FormStepKeeps, PTL DEF FormSpec

(* What the fields hold while a user who waits for the checks types: a     *)
(* check that is waited for is one of these very fields, the flag and the  *)
(* button say only what the page was told of them, but for a button that a *)
(* failed extraction enabled; and that happens only to fields which were   *)
(* changed meanwhile, the others having passed when they were sent.        *)
FieldsWereChecked ==
  /\ \A c \in Checks : check[c].heard => check[c].form = form
  /\ \A c \in Checks : check[c].step \in {"valid", "invalid"} => check[c].heard
  /\ byoValidated => form \in passed
  /\ (destMode = "byo" /\ ~extractDisabled) => overruled \/ form \in passed
  /\ overruled => meddled
  /\ (destMode = "byo" /\ ~meddled /\ extracts > 0) => form \in passed

CheckedInv == FormInv /\ FieldsWereChecked /\ ExtractsWhatPassed

\* The page's steps: a change of the fields takes the flag back.
LEMMA PageStepChecked ==
  ASSUME Patient, CheckedInv, ChooseDestination \/ EditField \/ DoExtract \/ ExtractAnswered
  PROVE  FieldsWereChecked' /\ ExtractsWhatPassed'
<1> USE DEF CheckedInv
<1>1. UNCHANGED <<check, passed>>
  BY DEF ChooseDestination, EditField, DoExtract, ExtractAnswered, told
<1>2. extracts \in Nat
  BY FormAssumption DEF FormInv, FormTypeOK
<1>3. CASE ChooseDestination
  <2>1. UNCHANGED <<form, extracts, sent>> /\ meddled' = (meddled \/ extracts > 0)
    BY <1>3 DEF ChooseDestination, Touch
  <2>2. ~byoValidated' /\ ~overruled' /\ (destMode' = "byo" => extractDisabled')
    BY <1>3 DEF ChooseDestination, UpdateExtractEnabled
  <2> QED
    BY <1>1, <2>1, <2>2 DEF FieldsWereChecked, ExtractsWhatPassed
<1>4. CASE EditField
  <2>1. \A c \in Checks : ~check[c].heard
    BY <1>4 DEF EditField, Touch, Waiting
  <2>2. UNCHANGED <<destMode, extracts, sent>> /\ meddled' = (meddled \/ extracts > 0)
    BY <1>4 DEF EditField, Touch
  <2>3. ~byoValidated' /\ ~overruled' /\ (destMode' = "byo" => extractDisabled')
    BY <1>4 DEF EditField, UpdateExtractEnabled
  <2> QED
    BY <1>1, <2>1, <2>2, <2>3 DEF FieldsWereChecked, ExtractsWhatPassed
<1>5. CASE DoExtract
  <2>1. UNCHANGED <<form, destMode, byoValidated, meddled>> /\ ~extractDisabled
    BY <1>5 DEF DoExtract
  <2>2. destMode = "byo" => overruled \/ form \in passed
    BY <2>1 DEF FieldsWereChecked
  <2>3. extractDisabled' /\ ~overruled'
    BY <1>5 DEF DoExtract
  <2>4. FieldsWereChecked'
    BY <1>1, <2>1, <2>2, <2>3 DEF FieldsWereChecked
  <2>5. \A x \in Payload : x.overruled \/ x.form \in passed
    BY <2>2 DEF Payload
  <2>6. ExtractsWhatPassed'
    BY <1>1, <1>5, <2>5 DEF DoExtract, ExtractsWhatPassed
  <2> QED
    BY <2>4, <2>6
<1>6. CASE ExtractAnswered
  <2>1. UNCHANGED <<form, destMode, byoValidated, sent, meddled>>
        /\ extracts > 0
    BY <1>6 DEF ExtractAnswered
  <2>2. \/ (destMode = "byo" /\ ~extractDisabled' => byoValidated) /\ ~overruled'
        \/ overruled' = meddled
        \/ UNCHANGED <<extractDisabled, overruled>>
    BY <1>6 DEF ExtractAnswered, UpdateExtractEnabled, ShowExtractErr
  <2>3. (destMode = "byo" /\ ~extractDisabled') => overruled' \/ form \in passed
    BY <2>1, <2>2 DEF FieldsWereChecked
  <2>4. overruled' => meddled
    BY <2>2 DEF FieldsWereChecked
  <2> QED
    BY <1>1, <2>1, <2>3, <2>4 DEF FieldsWereChecked, ExtractsWhatPassed
<1> QED
  BY <1>3, <1>4, <1>5, <1>6

\* A check is of the fields as they are, and its answer finds them so.
LEMMA CheckStepChecked ==
  ASSUME CheckedInv, NEW c \in Checks, ValidateClicked(c) \/ Validated(c) \/ ValidateFails(c)
  PROVE  FieldsWereChecked' /\ ExtractsWhatPassed'
<1> USE DEF CheckedInv
<1>1. /\ UNCHANGED <<form, destMode, extracts, sent, meddled>>
      /\ passed \subseteq passed'
  BY DEF ValidateClicked, Validated, ValidateFails, formPage, told, clicked
<1>2. /\ Idle.step = "idle" /\ ~Idle.heard
      /\ check[c] # Idle => check[c] \in [step : CheckSteps, form : Forms, heard : BOOLEAN]
  BY DEF Idle, FormInv, FormTypeOK
<1>3. PICK new : /\ check' = [check EXCEPT ![c] = new]
                 /\ new.heard => new.form = form
                 /\ new.step \notin {"valid", "invalid"}
  <2>1. CASE ValidateClicked(c)
    <3> DEFINE asked == [step |-> "put", form |-> form, heard |-> TRUE]
    <3>1. check' = [check EXCEPT ![c] = asked] /\ asked.step = "put" /\ asked.form = form
      BY <2>1 DEF ValidateClicked
    <3> QED
      BY <3>1
  <2>2. CASE Validated(c)
    BY <1>2, <2>2 DEF Validated
  <2>3. CASE ValidateFails(c)
    <3> DEFINE gone == [check[c] EXCEPT !.heard = FALSE]
    <3>1. check[c] \in [step : CheckSteps, form : Forms, heard : BOOLEAN]
      BY <1>2, <2>3 DEF ValidateFails
    <3>2. ~gone.heard /\ gone.step = check[c].step
      BY <3>1
    <3>3. \/ check' = [check EXCEPT ![c] = Idle]
          \/ check[c].step \in {"put", "delete"} /\ check' = [check EXCEPT ![c] = gone]
      BY <2>3 DEF ValidateFails
    <3> QED
      BY <1>2, <3>2, <3>3
  <2> QED
    BY <2>1, <2>2, <2>3
<1>4. \A d \in Checks : check'[d] = IF d = c THEN new ELSE check[d]
  BY <1>3 DEF FormInv, FormTypeOK
<1>5. /\ \A d \in Checks : check'[d].heard => check'[d].form = form'
      /\ \A d \in Checks : check'[d].step \in {"valid", "invalid"} => check'[d].heard
  BY <1>1, <1>3, <1>4 DEF FieldsWereChecked
<1>6. byoValidated' => form \in passed'
  <2>1. CASE Validated(c)
    BY <2>1 DEF Validated, FieldsWereChecked
  <2>2. CASE ValidateClicked(c) \/ ValidateFails(c)
    BY <1>1, <2>2 DEF ValidateClicked, ValidateFails, formPage, FieldsWereChecked
  <2> QED
    BY <2>1, <2>2
<1>7. \/ (destMode = "byo" /\ ~extractDisabled' => byoValidated') /\ ~overruled'
      \/ UNCHANGED <<extractDisabled, overruled>>
  BY DEF ValidateClicked, Validated, ValidateFails, formPage, UpdateExtractEnabled
<1> QED
  BY <1>1, <1>5, <1>6, <1>7 DEF FieldsWereChecked, ExtractsWhatPassed

\* The Worker says what it says of the form that it was asked about.
LEMMA ProbeStepChecked ==
  ASSUME CheckedInv, NEW c \in Checks, PutProbe(c) \/ DeleteProbe(c) \/ CheckLost(c)
  PROVE  FieldsWereChecked' /\ ExtractsWhatPassed'
<1> USE DEF CheckedInv
<1>1. /\ UNCHANGED <<form, destMode, byoValidated, extractDisabled, passed, extracts, sent,
                     meddled, overruled>>
      /\ check[c].step \in {"put", "delete"}
  BY DEF PutProbe, DeleteProbe, CheckLost, formPage, told, clicked
<1>2. PICK step \in {"delete", "valid", "invalid", "lost"} :
        check' = [check EXCEPT ![c] = IF check[c].heard \/ step = "delete"
                                        THEN [check[c] EXCEPT !.step = step] ELSE Idle]
  <2>1. CASE PutProbe(c)
    BY <2>1 DEF PutProbe, Says
  <2>2. CASE DeleteProbe(c)
    BY <2>2 DEF DeleteProbe, Says
  <2>3. CASE CheckLost(c)
    BY <2>3 DEF CheckLost, Says
  <2> QED
    BY <2>1, <2>2, <2>3
<1>3. check[c] \in [step : CheckSteps, form : Forms, heard : BOOLEAN]
  BY <1>1 DEF Idle, FormInv, FormTypeOK
<1> DEFINE new == IF check[c].heard \/ step = "delete"
                    THEN [check[c] EXCEPT !.step = step] ELSE Idle
<1>4. /\ new.heard => check[c].heard /\ new.form = check[c].form
      /\ new.step \in {"valid", "invalid"} => new.heard
  BY <1>3 DEF Idle
<1>5. \A d \in Checks : check'[d] = IF d = c THEN new ELSE check[d]
  <2> HIDE DEF new
  <2> QED
    BY <1>2 DEF new, FormInv, FormTypeOK
<1> HIDE DEF new
<1>6. /\ \A d \in Checks : check'[d].heard => check'[d].form = form'
      /\ \A d \in Checks : check'[d].step \in {"valid", "invalid"} => check'[d].heard
  BY <1>1, <1>4, <1>5 DEF FieldsWereChecked
<1> QED
  BY <1>1, <1>6 DEF FieldsWereChecked, ExtractsWhatPassed

(* A user who waits for the answer to a check sends an extraction to a     *)
(* bucket of his own only with fields that passed it (README.md:270), but  *)
(* for a button that a failed extraction enabled over a form that was      *)
(* changed meanwhile (ui.ts:584).                                          *)
THEOREM PatientExtractsWhatPassed ==
  ASSUME Patient
  PROVE  FormSpec => []ExtractsWhatPassed
<1>1. FormInit => CheckedInv
  BY FormInitHolds DEF FormInit, CheckedInv, FieldsWereChecked, ExtractsWhatPassed, Idle
<1>2. CheckedInv /\ [FormNext]_formVars => CheckedInv'
  <2>1. CheckedInv /\ UNCHANGED formVars => CheckedInv'
    BY FormStepKeeps DEF formVars, formPage, told, clicked, CheckedInv, FieldsWereChecked,
                         ExtractsWhatPassed
  <2>2. CheckedInv /\ FormNext => FieldsWereChecked' /\ ExtractsWhatPassed'
    BY PageStepChecked, CheckStepChecked, ProbeStepChecked DEF FormNext
  <2> QED
    BY <2>1, <2>2, FormStepKeeps DEF CheckedInv
<1>3. CheckedInv => ExtractsWhatPassed
  BY DEF CheckedInv
<1> QED
  BY <1>1, <1>2, <1>3, PTL DEF FormSpec

-----------------------------------------------------------------------------
(***************************************************************************)
(* The admin page                                                          *)
(***************************************************************************)
(* What a request or its answer says of a code has been: what is listed,   *)
(* drawn or revoked stays so in the Registry.                              *)
AskWasSo(a) ==
  /\ a.kind = "revoke" => a.code \in AccessCode
  /\ (a.kind = "create" /\ a.ok) => a.code \in AccessCode /\ registered[a.code] # "unused"
  /\ (\/ a.kind = "list" /\ a.code # NoCode
      \/ a.kind = "revoke" /\ a.ok) => registered[a.code] = "revoked"
  /\ \A r \in a.rows : /\ registered[r.code] # "unused"
                       /\ r.revoked => registered[r.code] = "revoked"

\* A listing on its way knows what this page revoked; a timeline is the one of the heading.
AskIsCalm(a) ==
  /\ \A r \in a.rows :
       (r.code \in revokedHere \/ (a.kind = "list" /\ r.code = a.code)) => r.revoked
  /\ a.kind = "timeline" => a.code = heading

AsksWereSo ==
  /\ \A s \in Slot : AskWasSo(ask[s])
  /\ \A c \in revokedHere : registered[c] = "revoked"

(* A user who waits has one request at most on its way, and what is not    *)
(* yet right about the timeline or the button waits for that one.          *)
CalmInv ==
  calm =>
    /\ \A s, t \in Slot : Free(s) \/ Free(t) \/ s = t
    /\ \A r \in table : r.code \in revokedHere => r.revoked
    /\ \A s \in Slot : AskIsCalm(ask[s])
    /\ timeline \in {NoCode, heading} \/ \E s \in Slot : ask[s].kind = "timeline"
    /\ genDisabled => \E s \in Slot : ask[s].kind = "create"

AdminInv == ShownWasSo /\ AsksWereSo /\ CalmInv

LEMMA NoAskFacts ==
  /\ NoAsk \in Ask /\ NoAsk.kind = "none" /\ NoAsk.rows = {} /\ ~NoAsk.ok /\ NoAsk.code = NoCode
  /\ \A kind \in Kind, code \in AccessCode \union {NoCode} :
       /\ Asks(kind, code) \in Ask /\ Asks(kind, code).kind = kind
       /\ Asks(kind, code).code = code /\ Asks(kind, code).rows = {} /\ ~Asks(kind, code).ok
BY DEF NoAsk, Ask, Asks, Kind

\* A page that was just loaded has one request at most.
LEMMA FirstAskFacts ==
  /\ FirstAsk \in [Slot -> Ask]
  /\ \A s \in Slot : /\ FirstAsk[s].kind \in {"none", "probe"} /\ FirstAsk[s].rows = {}
                     /\ ~FirstAsk[s].ok
  /\ \A s, t \in Slot : FirstAsk[s] = NoAsk \/ FirstAsk[t] = NoAsk \/ s = t
<1>1. "probe" \in Kind
  BY DEF Kind
<1> QED
  BY <1>1, NoAskFacts DEF FirstAsk

LEMMA AdminInitHolds == AdminInit => AdminInv
<1> SUFFICES ASSUME AdminInit
             PROVE  AdminInv
  OBVIOUS
<1> USE FirstAskFacts DEF AdminInit
<1>1. AdminTypeOK
  <2>1. {session, genDisabled, calm} \subseteq BOOLEAN
    OBVIOUS
  <2>2. /\ registered \in [AccessCode -> CodeStatus] /\ shown \in {"gate", "main"}
        /\ table \subseteq Row /\ {newCode, heading, timeline} \subseteq AccessCode \union {NoCode}
        /\ ask \in [Slot -> Ask] /\ revokedHere \subseteq AccessCode
    BY DEF CodeStatus
  <2>3. clicks \in 0 .. MaxClicks
    BY AdminAssumption
  <2> QED
    BY <2>1, <2>2, <2>3 DEF AdminTypeOK
<1>2. AsksWereSo
  BY DEF AsksWereSo, AskWasSo
<1>3. CalmInv
  BY DEF CalmInv, AskIsCalm, Free
<1> QED
  BY <1>1, <1>2, <1>3 DEF AdminInv, ShownWasSo

(* A click: its request says nothing yet, and if the user waited it is the *)
(* only one.                                                               *)
LEMMA ClickKeeps ==
  ASSUME AdminInv, NEW s \in Slot,
         \/ Enter(s) \/ DoGenerate(s) \/ SignOut(s)
         \/ \E c \in AccessCode : Revoke(s, c) \/ ShowTimeline(s, c)
  PROVE  AdminInv'
<1> USE DEF AdminInv
<1>1. PICK kind \in Kind \ {"none", "list", "probe"}, code \in AccessCode \union {NoCode} :
        /\ Clicks(s, kind, code)
        /\ kind = "revoke" => code \in AccessCode
        /\ heading' = IF kind = "timeline" THEN code ELSE heading
        /\ genDisabled' = IF kind = "create" THEN TRUE ELSE genDisabled
        /\ UNCHANGED <<shown, table, newCode, timeline, revokedHere>>
  BY DEF Enter, DoGenerate, SignOut, Revoke, ShowTimeline, adminPage, Kind
<1> DEFINE new == Asks(kind, code)
<1>2. /\ new \in Ask /\ new.kind = kind /\ new.code = code /\ new.rows = {} /\ ~new.ok
  BY <1>1, NoAskFacts
<1> HIDE DEF new
<1>3. /\ ask' \in [Slot -> Ask]
      /\ \A t \in Slot : ask'[t] = IF t = s THEN new ELSE ask[t]
      /\ UNCHANGED <<registered, session>>
      /\ clicks < MaxClicks /\ clicks' = clicks + 1
      /\ calm' = (calm /\ \A t \in Slot : Free(t))
  BY <1>1, <1>2 DEF Clicks, ShownWasSo, AdminTypeOK, new
<1>4. AdminTypeOK'
  <2>1. calm' \in BOOLEAN /\ genDisabled' \in BOOLEAN /\ session' \in BOOLEAN
    BY <1>1, <1>3 DEF ShownWasSo, AdminTypeOK
  <2>2. clicks' \in 0 .. MaxClicks
    BY <1>3, AdminAssumption DEF ShownWasSo, AdminTypeOK
  <2> QED
    BY <1>1, <1>3, <2>1, <2>2 DEF ShownWasSo, AdminTypeOK
<1>5. ShownWasSo'
  BY <1>1, <1>3, <1>4 DEF ShownWasSo
<1>6. AsksWereSo'
  BY <1>1, <1>2, <1>3 DEF AsksWereSo, AskWasSo
<1>7. CalmInv'
  <2> SUFFICES ASSUME calm'
               PROVE  CalmInv'
    BY DEF CalmInv
  <2>1. calm /\ \A t \in Slot : Free(t)
    BY <1>3
  <2>2. /\ \A r \in table : r.code \in revokedHere => r.revoked
        /\ timeline \in {NoCode, heading} /\ ~genDisabled
    BY <2>1, NoAskFacts DEF CalmInv, Free
  <2>3. \A t \in Slot \ {s} : Free(t)'
    BY <1>3, <2>1 DEF Free
  <2>4. \A t \in Slot : AskIsCalm(ask[t])'
    BY <1>1, <1>2, <1>3, <2>1, NoAskFacts DEF AskIsCalm, Free
  <2>5. \/ timeline' \in {NoCode, heading'}
        \/ ask'[s].kind = "timeline"
    BY <1>1, <1>2, <1>3, <2>2
  <2>6. genDisabled' => ask'[s].kind = "create"
    BY <1>1, <1>2, <1>3, <2>2
  <2> QED
    BY <1>1, <2>2, <2>3, <2>4, <2>5, <2>6 DEF CalmInv
<1> QED
  BY <1>5, <1>6, <1>7

(* The Registry serves: what it says of a code is so when it says it.      *)
LEMMA ServeKeeps ==
  ASSUME AdminInv, NEW s \in Slot, Serve(s)
  PROVE  AdminInv'
<1> USE DEF AdminInv
<1>1. ask[s] \in Ask /\ ask[s].kind # "none" /\ UNCHANGED <<adminPage, user>>
  BY DEF Serve, ShownWasSo, AdminTypeOK
<1>2. \A r \in ListCodes : /\ r.code \in AccessCode /\ r \in Row /\ registered[r.code] # "unused"
                           /\ r.revoked <=> registered[r.code] = "revoked"
  <2> SUFFICES ASSUME NEW r \in ListCodes
               PROVE  /\ r.code \in AccessCode /\ r \in Row /\ registered[r.code] # "unused"
                      /\ r.revoked <=> registered[r.code] = "revoked"
    OBVIOUS
  <2>1. PICK c \in AccessCode :
          registered[c] # "unused" /\ r = [code |-> c, revoked |-> registered[c] = "revoked"]
    BY DEF ListCodes
  <2>2. (registered[c] = "revoked") \in BOOLEAN
    OBVIOUS
  <2>3. r.code = c /\ r.revoked = (registered[c] = "revoked")
    BY <2>1
  <2>4. r \in Row
    BY <2>1, <2>2 DEF Row
  <2> QED
    BY <2>1, <2>3, <2>4
<1>3. PICK new \in Ask :
        /\ ask' = [ask EXCEPT ![s] = new]
        /\ new.kind = ask[s].kind
        /\ \/ UNCHANGED registered /\ new.code = ask[s].code
              /\ new.rows = ask[s].rows /\ (new.kind \in {"create", "revoke"} => new.ok = ask[s].ok)
           \/ UNCHANGED registered /\ new.code = ask[s].code
              /\ new.kind \in {"list", "probe"} /\ new.rows = ListCodes
           \/ /\ new.kind = "create" /\ new.code \in AccessCode /\ new.rows = ask[s].rows
              /\ registered[new.code] = "unused"
              /\ registered' = [registered EXCEPT ![new.code] = "active"]
           \/ /\ new.kind = "revoke" /\ new.code = ask[s].code /\ new.rows = ask[s].rows
              /\ registered' = [registered EXCEPT ![new.code] = "revoked"]
  <2> DEFINE answer == [ask[s] EXCEPT !.answered = TRUE]
  <2>1. \A ok \in BOOLEAN, code \in AccessCode \union {NoCode}, rows \in SUBSET Row :
          LET a == [answer EXCEPT !.ok = ok]
              b == [answer EXCEPT !.ok = ok, !.rows = rows]
              d == [answer EXCEPT !.ok = ok, !.code = code]
          IN  /\ answer \in Ask /\ answer.kind = ask[s].kind /\ answer.code = ask[s].code
              /\ answer.rows = ask[s].rows /\ answer.ok = ask[s].ok
              /\ a \in Ask /\ a.kind = ask[s].kind /\ a.code = ask[s].code /\ a.rows = ask[s].rows
              /\ b \in Ask /\ b.kind = ask[s].kind /\ b.code = ask[s].code /\ b.rows = rows
              /\ d \in Ask /\ d.kind = ask[s].kind /\ d.code = code /\ d.rows = ask[s].rows
    BY <1>1 DEF Ask
  <2>2. ListCodes \in SUBSET Row
    BY <1>2
  <2> HIDE DEF answer
  <2>3. CASE \/ \E ok \in BOOLEAN : ask' = [ask EXCEPT ![s] = [answer EXCEPT !.ok = ok]]
             /\ UNCHANGED registered /\ ask[s].kind \notin {"create", "revoke"}
    BY <2>1, <2>3
  <2>4. CASE ask' = [ask EXCEPT ![s] = answer] /\ UNCHANGED registered
    BY <2>1, <2>4
  <2>5. CASE /\ ask' = [ask EXCEPT ![s] = [answer EXCEPT !.ok = TRUE, !.rows = ListCodes]]
             /\ UNCHANGED registered /\ ask[s].kind \in {"list", "probe"}
    <3> DEFINE b == [answer EXCEPT !.ok = TRUE, !.rows = ListCodes]
    <3>1. b \in Ask /\ b.kind = ask[s].kind /\ b.code = ask[s].code /\ b.rows = ListCodes
      BY <2>1, <2>2
    <3>2. ask' = [ask EXCEPT ![s] = b]
      BY <2>5
    <3> HIDE DEF b
    <3> QED
      BY <2>5, <3>1, <3>2
  <2>6. CASE \E c \in AccessCode :
               /\ ask[s].kind = "create" /\ registered[c] = "unused"
               /\ registered' = [registered EXCEPT ![c] = "active"]
               /\ ask' = [ask EXCEPT ![s] = [answer EXCEPT !.ok = TRUE, !.code = c]]
    <3>1. PICK c \in AccessCode :
            /\ ask[s].kind = "create" /\ registered[c] = "unused"
            /\ registered' = [registered EXCEPT ![c] = "active"]
            /\ ask' = [ask EXCEPT ![s] = [answer EXCEPT !.ok = TRUE, !.code = c]]
      BY <2>6
    <3> DEFINE d == [answer EXCEPT !.ok = TRUE, !.code = c]
    <3>2. d \in Ask /\ d.kind = ask[s].kind /\ d.code = c /\ d.rows = ask[s].rows
      BY <2>1
    <3>3. ask' = [ask EXCEPT ![s] = d]
      BY <3>1
    <3> HIDE DEF d
    <3> QED
      BY <3>1, <3>2, <3>3
  <2>7. CASE /\ ask[s].kind = "revoke"
             /\ registered' = [registered EXCEPT ![ask[s].code] = "revoked"]
             /\ ask' = [ask EXCEPT ![s] = [answer EXCEPT !.ok = TRUE]]
    <3> DEFINE a == [answer EXCEPT !.ok = TRUE]
    <3>1. a \in Ask /\ a.kind = ask[s].kind /\ a.code = ask[s].code /\ a.rows = ask[s].rows
      BY <1>1, <2>1
    <3>2. ask' = [ask EXCEPT ![s] = a]
      BY <2>7
    <3> HIDE DEF a
    <3> QED
      BY <2>7, <3>1, <3>2
  <2> QED
    BY <2>3, <2>4, <2>5, <2>6, <2>7 DEF Serve, answer
<1>4. /\ ask' \in [Slot -> Ask] /\ new \in Ask
      /\ \A t \in Slot : ask'[t] = IF t = s THEN new ELSE ask[t]
      /\ UNCHANGED <<adminPage, calm, clicks>> /\ session' \in BOOLEAN
  BY <1>1, <1>3 DEF user, Serve, ShownWasSo, AdminTypeOK
<1>5. /\ registered' \in [AccessCode -> CodeStatus]
      /\ \A c \in AccessCode : /\ registered[c] # "unused" => registered'[c] # "unused"
                               /\ registered[c] = "revoked" => registered'[c] = "revoked"
  <2>1. registered \in [AccessCode -> CodeStatus] /\ {"active", "revoked"} \subseteq CodeStatus
    BY DEF ShownWasSo, AdminTypeOK, CodeStatus
  <2> QED
    BY <1>3, <2>1
<1>6. AdminTypeOK'
  BY <1>4, <1>5 DEF ShownWasSo, AdminTypeOK, adminPage
<1>7. ShownWasSo'
  <2>1. /\ \A r \in table : r.code \in AccessCode
        /\ newCode \in AccessCode \union {NoCode}
    BY DEF ShownWasSo, AdminTypeOK, Row
  <2> QED
    BY <1>4, <1>5, <1>6, <2>1 DEF ShownWasSo, adminPage
<1>8. AsksWereSo'
  <2>1. ASSUME NEW t \in Slot
        PROVE  AskWasSo(ask[t])'
    <3>1. \A u \in Slot : /\ \A r \in ask[u].rows : r.code \in AccessCode
                          /\ ask[u].code \in AccessCode \union {NoCode}
      BY DEF ShownWasSo, AdminTypeOK, Ask, Row
    <3>2. AskWasSo(ask[t]) /\ AskWasSo(ask[s])
      BY DEF AsksWereSo
    <3>3. CASE t # s
      BY <1>4, <1>5, <3>1, <3>2, <3>3 DEF AskWasSo
    <3>4. CASE t = s
      <4>1. ask'[t] = new
        BY <1>4, <3>4
      <4>2. \A r \in new.rows : /\ registered'[r.code] # "unused"
                                /\ r.revoked => registered'[r.code] = "revoked"
        BY <1>2, <1>3, <1>5, <3>1, <3>2 DEF AskWasSo
      <4>3. new.kind = "revoke" => new.code \in AccessCode
        BY <1>3, <3>2 DEF AskWasSo
      <4>4. (new.kind = "create" /\ new.ok) =>
              new.code \in AccessCode /\ registered'[new.code] # "unused"
        BY <1>3, <1>5, <3>2 DEF AskWasSo, ShownWasSo, AdminTypeOK
      <4>5. (\/ new.kind = "list" /\ new.code # NoCode
             \/ new.kind = "revoke" /\ new.ok) => registered'[new.code] = "revoked"
        BY <1>3, <1>5, <3>1, <3>2, <4>3 DEF AskWasSo, ShownWasSo, AdminTypeOK
      <4> QED
        BY <4>1, <4>2, <4>3, <4>4, <4>5 DEF AskWasSo
    <3> QED
      BY <3>3, <3>4
  <2>2. \A c \in revokedHere : c \in AccessCode
    BY DEF ShownWasSo, AdminTypeOK
  <2> QED
    BY <1>4, <1>5, <2>1, <2>2 DEF AsksWereSo, adminPage
<1>9. CalmInv'
  <2> SUFFICES ASSUME calm'
               PROVE  CalmInv'
    BY DEF CalmInv
  <2>1. /\ \A t, u \in Slot : Free(t) \/ Free(u) \/ t = u
        /\ \A r \in table : r.code \in revokedHere => r.revoked
        /\ \A t \in Slot : AskIsCalm(ask[t])
        /\ timeline \in {NoCode, heading} \/ \E t \in Slot : ask[t].kind = "timeline"
        /\ genDisabled => \E t \in Slot : ask[t].kind = "create"
    BY <1>4 DEF CalmInv
  <2>2. \A t \in Slot : ask'[t].kind = ask[t].kind
    BY <1>3, <1>4
  <2>3. ~Free(s)
    BY <1>1, NoAskFacts DEF Free
  <2>4. \A t, u \in Slot : Free(t)' \/ Free(u)' \/ t = u
    BY <1>4, <2>1, <2>3 DEF Free
  <2>5. AskIsCalm(ask[s])'
    <3>1. ASSUME NEW r \in new.rows,
                 r.code \in revokedHere \/ (new.kind = "list" /\ r.code = new.code)
          PROVE  r.revoked
      <4>1. CASE new.rows = ask[s].rows /\ (new.kind = "list" => new.code = ask[s].code)
        BY <1>3, <2>1, <3>1, <4>1 DEF AskIsCalm
      <4>2. CASE new.rows = ListCodes /\ new.code = ask[s].code
        <5>1. r.code \in AccessCode /\ r.code # NoCode
          BY <1>2, <3>1, <4>2, AdminAssumption
        <5>2. registered[r.code] = "revoked"
          BY <1>3, <3>1, <4>2, <5>1 DEF AsksWereSo, AskWasSo
        <5> QED
          BY <1>2, <3>1, <4>2, <5>2
      <4> QED
        BY <1>3, <4>1, <4>2
    <3>2. new.kind = "timeline" => new.code = heading
      BY <1>3, <2>1 DEF AskIsCalm
    <3> QED
      BY <1>4, <3>1, <3>2 DEF AskIsCalm, adminPage
  <2>6. \A t \in Slot : AskIsCalm(ask[t])'
    BY <1>4, <2>1, <2>5 DEF AskIsCalm, adminPage
  <2> QED
    BY <1>4, <2>1, <2>2, <2>4, <2>6 DEF CalmInv, adminPage
<1> QED
  BY <1>7, <1>8, <1>9

(* An answer is used: the panel takes from it what was so, and if the user *)
(* waited nothing else is on its way.                                      *)
LEMMA AnswerKeeps ==
  ASSUME AdminInv, NEW s \in Slot,
         Entered(s) \/ Probed(s) \/ Listed(s) \/ Generated(s) \/ Revoked(s) \/ TimelineShown(s)
  PROVE  AdminInv'
<1> USE DEF AdminInv
<1>1. ask[s] \in Ask /\ AskWasSo(ask[s])
  BY DEF ShownWasSo, AdminTypeOK, AsksWereSo
<1>2. UNCHANGED <<registered, session, heading, calm, clicks>>
  BY DEF Entered, Probed, Listed, Generated, Revoked, TimelineShown, user, adminPage
<1>3. PICK new \in Ask :
        /\ ask' = [ask EXCEPT ![s] = new]
        /\ new.rows = {} /\ ~new.ok
        /\ \/ new = NoAsk
           \/ new.kind = "list" /\ new.code = NoCode
           \/ new.kind = "list" /\ new.code \in AccessCode /\ registered[new.code] = "revoked"
  <2>1. CASE Ends(s)
    BY <2>1, NoAskFacts DEF Ends
  <2>2. \A code \in AccessCode \union {NoCode} :
          /\ Asks("list", code) \in Ask /\ Asks("list", code).kind = "list"
          /\ Asks("list", code).code = code /\ Asks("list", code).rows = {}
          /\ ~Asks("list", code).ok
    <3>1. "list" \in Kind
      BY DEF Kind
    <3> QED
      BY <3>1, NoAskFacts
  <2>3. CASE LoadCodes(s, NoCode)
    BY <2>2, <2>3 DEF LoadCodes
  <2>4. CASE LoadCodes(s, ask[s].code) /\ ask[s].kind = "revoke" /\ ask[s].ok
    <3>1. ask[s].code \in AccessCode /\ registered[ask[s].code] = "revoked"
      BY <1>1, <2>4 DEF AskWasSo
    <3> DEFINE new == Asks("list", ask[s].code)
    <3>2. /\ new \in Ask /\ new.kind = "list" /\ new.code = ask[s].code
          /\ new.rows = {} /\ ~new.ok
      BY <2>2, <3>1
    <3>3. ask' = [ask EXCEPT ![s] = new]
      BY <2>4 DEF LoadCodes
    <3> HIDE DEF new
    <3> QED
      BY <3>1, <3>2, <3>3
  <2> QED
    BY <2>1, <2>3, <2>4 DEF Entered, Probed, Listed, Generated, Revoked, TimelineShown
<1>4. /\ ask' \in [Slot -> Ask]
      /\ \A t \in Slot : ask'[t] = IF t = s THEN new ELSE ask[t]
  BY <1>3 DEF ShownWasSo, AdminTypeOK
<1>5. /\ ask[s].kind # "none"
      /\ \/ table' = table /\ revokedHere' = revokedHere
         \/ /\ table' = ask[s].rows
            /\ \/ revokedHere' = revokedHere
               \/ /\ ask[s].kind = "list"
                  /\ revokedHere' = revokedHere \union ({ask[s].code} \ {NoCode})
  BY DEF Entered, Probed, Listed, Generated, Revoked, TimelineShown, RenderCodes, adminPage
<1>6. /\ newCode' = newCode \/ (ask[s].kind = "create" /\ ask[s].ok /\ newCode' = ask[s].code)
      /\ \/ timeline' = timeline /\ ask[s].kind # "timeline"
         \/ ask[s].kind = "timeline" /\ timeline' \in {NoCode, ask[s].code}
      /\ \/ genDisabled' = genDisabled /\ ask[s].kind # "create"
         \/ genDisabled' = FALSE
      /\ shown' = shown \/ shown' = "main"
  BY DEF Entered, Probed, Listed, Generated, Revoked, TimelineShown, adminPage
<1>7. AdminTypeOK'
  <2>1. /\ genDisabled' \in BOOLEAN /\ shown' \in {"gate", "main"}
        /\ session' \in BOOLEAN /\ calm' \in BOOLEAN
    BY <1>2, <1>6 DEF ShownWasSo, AdminTypeOK
  <2>2. table' \subseteq Row /\ revokedHere' \subseteq AccessCode
    BY <1>1, <1>5 DEF ShownWasSo, AdminTypeOK, Ask
  <2>3. {newCode', timeline', heading'} \subseteq AccessCode \union {NoCode}
    BY <1>1, <1>2, <1>6 DEF ShownWasSo, AdminTypeOK, Ask
  <2> QED
    BY <1>2, <1>4, <2>1, <2>2, <2>3 DEF ShownWasSo, AdminTypeOK
<1>8. ShownWasSo'
  BY <1>1, <1>2, <1>5, <1>6, <1>7 DEF ShownWasSo, AskWasSo
<1>9. AsksWereSo'
  <2>1. \A t \in Slot : AskWasSo(ask[t])'
    BY <1>2, <1>3, <1>4, NoAskFacts DEF AsksWereSo, AskWasSo
  <2>2. \A c \in revokedHere' : registered[c] = "revoked"
    BY <1>1, <1>5 DEF AsksWereSo, AskWasSo
  <2> QED
    BY <1>2, <2>1, <2>2 DEF AsksWereSo
<1>10. CalmInv'
  <2> SUFFICES ASSUME calm'
               PROVE  CalmInv'
    BY DEF CalmInv
  <2>1. /\ \A t, u \in Slot : Free(t) \/ Free(u) \/ t = u
        /\ \A r \in table : r.code \in revokedHere => r.revoked
        /\ AskIsCalm(ask[s])
        /\ timeline \in {NoCode, heading} \/ \E t \in Slot : ask[t].kind = "timeline"
        /\ genDisabled => \E t \in Slot : ask[t].kind = "create"
    BY <1>2 DEF CalmInv
  <2>2. \A t \in Slot \ {s} : ask[t] = NoAsk /\ ask[t].kind = "none"
    BY <1>5, <2>1, NoAskFacts DEF Free
  <2>3. \A t, u \in Slot : Free(t)' \/ Free(u)' \/ t = u
    BY <1>4, <2>2 DEF Free
  <2>4. \A r \in table' : r.code \in revokedHere' => r.revoked
    BY <1>5, <2>1 DEF AskIsCalm
  <2>5. \A t \in Slot : AskIsCalm(ask[t])'
    BY <1>3, <1>4, <2>2, NoAskFacts DEF AskIsCalm
  <2>6. timeline' \in {NoCode, heading'}
    BY <1>2, <1>6, <2>1, <2>2 DEF AskIsCalm
  <2>7. ~genDisabled'
    BY <1>6, <2>1, <2>2
  <2> QED
    BY <2>3, <2>4, <2>5, <2>6, <2>7 DEF CalmInv
<1> QED
  BY <1>8, <1>9, <1>10

(* Signing out loads the page again: nothing is shown.                     *)
LEMMA SignedOutKeeps ==
  ASSUME AdminInv, NEW s \in Slot, SignedOut(s)
  PROVE  AdminInv'
<1> USE DEF AdminInv
<1>1. /\ UNCHANGED <<registered, session, calm, clicks>> /\ ask' = FirstAsk
      /\ shown' = "gate" /\ table' = {} /\ newCode' = NoCode /\ genDisabled' = FALSE
      /\ heading' = NoCode /\ timeline' = NoCode /\ revokedHere' = {}
  BY DEF SignedOut, user
<1>2. AdminTypeOK'
  <2>1. genDisabled' \in BOOLEAN /\ session' \in BOOLEAN /\ calm' \in BOOLEAN
    BY <1>1 DEF ShownWasSo, AdminTypeOK
  <2> QED
    BY <1>1, <2>1, FirstAskFacts DEF ShownWasSo, AdminTypeOK
<1>3. ShownWasSo'
  BY <1>1, <1>2 DEF ShownWasSo
<1>4. AsksWereSo'
  BY <1>1, FirstAskFacts DEF AsksWereSo, AskWasSo
<1>5. CalmInv'
  BY <1>1, FirstAskFacts DEF CalmInv, AskIsCalm, Free
<1> QED
  BY <1>3, <1>4, <1>5

(* A lost answer shows nothing; the user is not a patient one any more.    *)
LEMMA AskLostKeeps ==
  ASSUME AdminInv, NEW s \in Slot, AskLost(s)
  PROVE  AdminInv'
<1> USE DEF AdminInv
<1>1. /\ UNCHANGED <<registered, session, adminPage, clicks>> /\ calm' = FALSE
      /\ ask' = [ask EXCEPT ![s] = NoAsk]
  BY DEF AskLost, Ends
<1>2. /\ ask' \in [Slot -> Ask]
      /\ \A t \in Slot : ask'[t] = IF t = s THEN NoAsk ELSE ask[t]
  BY <1>1, NoAskFacts DEF ShownWasSo, AdminTypeOK
<1>3. AdminTypeOK'
  <2>1. calm' \in BOOLEAN
    BY <1>1
  <2> QED
    BY <1>1, <1>2, <2>1 DEF ShownWasSo, AdminTypeOK, adminPage
<1>4. ShownWasSo'
  BY <1>1, <1>3 DEF ShownWasSo, adminPage
<1>5. AsksWereSo'
  BY <1>1, <1>2, NoAskFacts DEF AsksWereSo, AskWasSo, adminPage
<1>6. CalmInv'
  BY <1>1 DEF CalmInv
<1> QED
  BY <1>4, <1>5, <1>6

(* Other administrators issue and revoke, and nobody takes that back.      *)
LEMMA ElsewhereKeeps ==
  ASSUME AdminInv, Elsewhere
  PROVE  AdminInv'
<1> USE DEF AdminInv
<1>1. UNCHANGED <<adminPage, ask, user>> /\ session' \in BOOLEAN
  BY DEF Elsewhere, ShownWasSo, AdminTypeOK
<1>2. /\ registered' \in [AccessCode -> CodeStatus]
      /\ \A c \in AccessCode : /\ registered[c] # "unused" => registered'[c] # "unused"
                               /\ registered[c] = "revoked" => registered'[c] = "revoked"
  BY DEF Elsewhere, ShownWasSo, AdminTypeOK, CodeStatus
<1>3. AdminTypeOK'
  BY <1>1, <1>2 DEF ShownWasSo, AdminTypeOK, adminPage, user
<1>4. /\ \A r \in table : r.code \in AccessCode
      /\ newCode \in AccessCode \union {NoCode} /\ revokedHere \subseteq AccessCode
      /\ \A s \in Slot : /\ \A r \in ask[s].rows : r.code \in AccessCode
                         /\ ask[s].code \in AccessCode \union {NoCode}
  BY DEF ShownWasSo, AdminTypeOK, Row, Ask
<1>5. ShownWasSo'
  BY <1>1, <1>2, <1>3, <1>4 DEF ShownWasSo, adminPage
<1>6. AsksWereSo'
  BY <1>1, <1>2, <1>4 DEF AsksWereSo, AskWasSo, adminPage
<1>7. CalmInv'
  BY <1>1 DEF CalmInv, AskIsCalm, Free, adminPage, user
<1> QED
  BY <1>5, <1>6, <1>7

(* Whatever the order of the requests and of the answers, the panel shows  *)
(* only what was so; and to a user who waits, what is so (admin-ui.ts).    *)
THEOREM PanelIsAlwaysRight == AdminSpec => []PanelIsRight
<1>1. AdminInv /\ UNCHANGED adminVars => AdminInv'
  BY DEF adminVars, adminPage, user, AdminInv, ShownWasSo, AdminTypeOK, AsksWereSo, AskWasSo,
         CalmInv, AskIsCalm, Free
<1>2. AdminInv /\ [AdminNext]_adminVars => AdminInv'
  BY <1>1, ClickKeeps, ServeKeeps, AnswerKeeps, SignedOutKeeps, AskLostKeeps, ElsewhereKeeps
     DEF AdminNext
<1>3. AdminInv => PanelIsRight
  <2> SUFFICES ASSUME AdminInv
               PROVE  CalmPageIsRight
    BY DEF AdminInv, PanelIsRight
  <2>1. \A s \in Slot : Free(s) => ask[s].kind = "none"
    BY NoAskFacts DEF Free
  <2> QED
    BY <2>1 DEF AdminInv, CalmInv, CalmPageIsRight
<1> QED
  BY <1>2, <1>3, AdminInitHolds, PTL DEF AdminSpec

-----------------------------------------------------------------------------
(***************************************************************************)
(* Proofs about the demo page's live tracking while the user extracts one  *)
(* job, for any number of files, polls, reloads, drops and lost answers,   *)
(* and of times that its user signs out and in: the page never runs ahead  *)
(* of the job, and a running job is the one that a reload goes on with     *)
(* unless its user left it.  With a second job neither is so of the        *)
(* program: answers about the first are taken for the one tracked by then. *)
(***************************************************************************)
ServerState == [status : Status \union {"none"}, done : 0 .. MaxDone,
                expires : BOOLEAN, over : BOOLEAN]

Socket == [job : JobOrNone, open : BOOLEAN, queue : Seq(Message)]

Ended == Terminal(server[1].status)

\* What a report says of the job has become so, and stays so.
WasSo(r) ==
  \/ r = Nothing
  \/ /\ r.job = 1 /\ server[1].status # "none"
     /\ r.done <= server[1].done
     /\ Terminal(r.status) => r.status = server[1].status

MessageWasSo(m) ==
  /\ WasSo(m.body) /\ m.body.job = 1
  /\ m.type = "done" => Terminal(m.body.status)

\* Everything that is on the way to the page was so when it was sent.
WiresWereSo ==
  /\ ws \in Socket
  /\ \A i \in 1 .. Len(ws.queue) : MessageWasSo(ws.queue[i])
  /\ \A p \in polls : WasSo(p.body)
  /\ WasSo(reconnecting) /\ WasSo(panel)

\* Only the end of the job is followed by a listing and a countdown.
EndIsFollowed ==
  /\ listings # {} => Ended
  /\ (browser # 0 \/ files # 0) => Ended
  /\ countdownTimer => Ended

\* Sockets and polls are the tracked job's; a job that is known of has begun.
TracksItsJob ==
  /\ (ws.job # 0 \/ pollTimer # 0 \/ polls # {}) => currentJob = 1
  /\ ws.job = 0 => ws.queue = <<>>
  /\ (currentJob # 0 \/ extracting # 0 \/ stored # 0) => server[1].status # "none"
  /\ (server[1].status = "running" /\ (currentJob # 0 \/ reconnecting # Nothing)) =>
       stored = 1 \/ 1 \in left

TrackInv == ClientTypeOK /\ WiresWereSo /\ EndIsFollowed /\ TracksItsJob

-----------------------------------------------------------------------------
LEMMA OneJob == ASSUME MaxJobs = 1
                PROVE  Jobs = {1} /\ JobOrNone = {0, 1}
BY DEF Jobs, JobOrNone

LEMMA ReportFacts ==
  ASSUME MaxJobs = 1
  PROVE  /\ Nothing \in Report /\ Nothing.job = 0 /\ Nothing.done = 0 /\ Nothing.status = "none"
         /\ Nothing.expires = FALSE
         /\ \A s \in ServerState :
              LET r == [job |-> 1, status |-> s.status, done |-> s.done, expires |-> s.expires]
              IN  /\ r \in Report /\ r # Nothing /\ r.job = 1 /\ r.status = s.status
                  /\ r.done = s.done /\ r.expires = s.expires
         /\ \A r \in Report : r.job \in {0, 1} /\ r.done \in 0 .. MaxDone /\ r.expires \in BOOLEAN
<1> USE OneJob, ClientAssumption
<1>1. Nothing \in Report /\ Nothing.job = 0 /\ Nothing.done = 0 /\ Nothing.status = "none"
      /\ Nothing.expires = FALSE
  BY DEF Nothing, Report
<1>2. ASSUME NEW s \in ServerState
      PROVE  LET r == [job |-> 1, status |-> s.status, done |-> s.done, expires |-> s.expires]
             IN  /\ r \in Report /\ r # Nothing /\ r.job = 1 /\ r.status = s.status
                 /\ r.done = s.done /\ r.expires = s.expires
  BY DEF ServerState, Report, Nothing
<1>3. \A r \in Report : r.job \in {0, 1} /\ r.done \in 0 .. MaxDone /\ r.expires \in BOOLEAN
  BY DEF Report
<1> QED
  BY <1>1, <1>2, <1>3

LEMMA NoSocketFacts ==
  ASSUME MaxJobs = 1
  PROVE  \A j \in JobOrNone :
           /\ [NoSocket EXCEPT !.job = j] \in Socket /\ [NoSocket EXCEPT !.job = j].queue = <<>>
           /\ [NoSocket EXCEPT !.job = j].job = j
           /\ NoSocket \in Socket /\ NoSocket.job = 0 /\ NoSocket.queue = <<>>
<1>1. <<>> \in Seq(Message) /\ 0 \in JobOrNone
  BY OneJob
<1>2. NoSocket \in Socket /\ NoSocket.job = 0 /\ NoSocket.queue = <<>>
  BY <1>1 DEF NoSocket, Socket
<1>3. ASSUME NEW j \in JobOrNone
      PROVE  /\ [NoSocket EXCEPT !.job = j] \in Socket /\ [NoSocket EXCEPT !.job = j].queue = <<>>
             /\ [NoSocket EXCEPT !.job = j].job = j
  BY <1>2 DEF Socket
<1> QED
  BY <1>2, <1>3

LEMMA InitTracks == ASSUME MaxJobs = 1 PROVE Init => TrackInv
<1> SUFFICES ASSUME Init
             PROVE  TrackInv
  OBVIOUS
<1> USE OneJob, ReportFacts, NoSocketFacts, ClientAssumption
<1>1. server \in [Jobs -> ServerState]
  BY DEF Init, ServerState, Status
<1>2. ClientTypeOK
  <2>1. countdownTimer \in BOOLEAN
    BY DEF Init
  <2>2. /\ loads \in 0 .. MaxReloads /\ drops \in 0 .. MaxDrops /\ lost \in 0 .. MaxLost
        /\ extracting \in JobOrNone /\ polls = {} /\ listings = {}
    BY DEF Init
  <2>3. ws.job \in JobOrNone /\ ws.open \in BOOLEAN /\ ws.queue \in Seq(Message)
    BY DEF Init, Socket
  <2>4. reconnecting \in Report /\ panel \in Report
    BY DEF Init
  <2>5. /\ {currentJob, stored, pollTimer, expiresAt, browser, files} \subseteq JobOrNone
        /\ {gate, leaving} \subseteq BOOLEAN /\ left \subseteq Jobs
    BY DEF Init
  <2> QED
    BY <1>1, <2>1, <2>2, <2>3, <2>4, <2>5 DEF ClientTypeOK, ServerState
<1>3. WiresWereSo
  <2>1. ws \in Socket /\ Len(ws.queue) = 0 /\ polls = {}
    BY DEF Init
  <2>2. reconnecting = Nothing /\ panel = Nothing
    BY DEF Init
  <2> QED
    BY <2>1, <2>2 DEF WiresWereSo, WasSo
<1>4. EndIsFollowed
  BY DEF Init, EndIsFollowed
<1>5. TracksItsJob
  BY DEF Init, TracksItsJob, NoSocket
<1> QED
  BY <1>2, <1>3, <1>4, <1>5 DEF TrackInv

-----------------------------------------------------------------------------
(* What was so stays so, for a count only grows and an end is final.       *)
LEMMA WasSoStays ==
  ASSUME server[1].done \in Nat, server'[1].done \in Nat, server[1].done <= server'[1].done,
         server[1].status # "none" => server'[1].status # "none",
         Ended => server'[1].status = server[1].status,
         NEW r \in Report, WasSo(r), r.done \in Nat
  PROVE  /\ r = Nothing \/ /\ r.job = 1 /\ server'[1].status # "none"
                           /\ r.done <= server'[1].done
                           /\ Terminal(r.status) => r.status = server'[1].status
BY DEF WasSo, Ended, Terminal

(* The job: it only goes on, and what it broadcasts is so.                 *)
LEMMA JobKeeps ==
  ASSUME MaxJobs = 1, TrackInv, NEW j \in Jobs, Server(j)
  PROVE  TrackInv'
<1> USE OneJob, ClientAssumption DEF TrackInv
<1>1. j = 1 /\ server \in [Jobs -> ServerState] /\ server[1] \in ServerState
  BY DEF ClientTypeOK, ServerState
<1>2. PICK new \in ServerState :
        /\ server' = [server EXCEPT ![1] = new]
        /\ server[1].done <= new.done
        /\ server[1].status # "none" => new.status # "none"
        /\ Ended => new.status = server[1].status
        /\ new.status = "running" => server[1].status = "running"
  <2>1. CASE JobGoesOn(1)
    <3> DEFINE new == [server[1] EXCEPT !.done = @ + 1]
    <3>1. /\ new \in ServerState /\ new.status = server[1].status
          /\ server[1].done <= new.done
      BY <1>1, <2>1 DEF ServerState, JobGoesOn, Unsettled
    <3>2. server' = [server EXCEPT ![1] = new]
      BY <1>1, <2>1 DEF JobGoesOn
    <3> HIDE DEF new
    <3> QED
      BY <3>1, <3>2
  <2>2. CASE JobEnds(1)
    <3>1. PICK status \in {"completed", "failed"}, demo \in BOOLEAN :
            /\ server' = [server EXCEPT ![1].status = status, ![1].expires = demo]
            /\ server[1].status = "running"
      <4>1. server[1].status = "running"
        BY <2>2 DEF JobEnds
      <4>2. CASE \E demo \in BOOLEAN :
                   server' = [server EXCEPT ![1].status = "completed", ![1].expires = demo]
        BY <4>1, <4>2
      <4>3. CASE server' = [server EXCEPT ![1].status = "failed"]
        <5>1. server' = [server EXCEPT ![1].status = "failed", ![1].expires = server[1].expires]
          BY <1>1, <4>3 DEF ServerState
        <5>2. server[1].expires \in BOOLEAN
          BY <1>1 DEF ServerState
        <5> QED
          BY <4>1, <5>1, <5>2
      <4> QED
        BY <2>2, <4>2, <4>3 DEF JobEnds
    <3> DEFINE new == [server[1] EXCEPT !.status = status, !.expires = demo]
    <3>2. new \in ServerState /\ new.status = status /\ new.done = server[1].done
      BY <1>1, <3>1 DEF ServerState, Status
    <3>3. server' = [server EXCEPT ![1] = new]
      BY <1>1, <3>1
    <3>4. server[1].done <= server[1].done
      BY <1>1 DEF ServerState
    <3> HIDE DEF new
    <3> QED
      BY <3>1, <3>2, <3>3, <3>4 DEF Ended, Terminal
  <2>3. CASE JobExpires(1)
    <3> DEFINE new == [server[1] EXCEPT !.over = TRUE]
    <3>1. /\ new \in ServerState /\ new.status = server[1].status
          /\ new.done = server[1].done
      BY <1>1 DEF ServerState
    <3>2. server' = [server EXCEPT ![1] = new]
      BY <1>1, <2>3 DEF JobExpires
    <3>3. server[1].done <= server[1].done
      BY <1>1 DEF ServerState
    <3> HIDE DEF new
    <3> QED
      BY <3>1, <3>2, <3>3
  <2> QED
    BY <1>1, <2>1, <2>2, <2>3 DEF Server
<1>3. /\ server' \in [Jobs -> ServerState] /\ server'[1] = new
      /\ server[1].done \in Nat /\ server'[1].done \in Nat
  BY <1>1, <1>2 DEF ServerState
<1>4. \A r \in Report : WasSo(r) =>
        r = Nothing \/ /\ r.job = 1 /\ server'[1].status # "none"
                       /\ r.done <= server'[1].done
                       /\ Terminal(r.status) => r.status = server'[1].status
  BY <1>2, <1>3, WasSoStays, ReportFacts
<1>5. /\ UNCHANGED <<polls, listings, extracting, reconnecting, page, bounds>>
      /\ \/ ws' = ws
         \/ \E type \in {"file", "done"} :
              /\ ws.job = 1 /\ ws.open /\ server'[1].status # "none"
              /\ ws' = [ws EXCEPT !.queue = Append(@, [type |-> type, body |-> ReportOf(1)'])]
              /\ type = "done" => Terminal(server'[1].status)
  <2>1. CASE JobGoesOn(1)
    <3>1. server'[1].status # "none"
      BY <1>2, <1>3, <2>1 DEF JobGoesOn
    <3> QED
      BY <1>1, <2>1, <3>1 DEF JobGoesOn, Broadcast
  <2>2. CASE JobEnds(1)
    <3>1. Terminal(server'[1].status) /\ server'[1].status # "none"
      BY <1>1, <2>2 DEF JobEnds, Terminal, ServerState
    <3> QED
      BY <1>1, <2>2, <3>1 DEF JobEnds, Broadcast
  <2>3. CASE JobExpires(1)
    BY <2>3 DEF JobExpires, wires
  <2> QED
    BY <1>1, <2>1, <2>2, <2>3 DEF Server
<1>6. /\ ReportOf(1)' \in Report /\ ReportOf(1)'.job = 1
      /\ ReportOf(1)'.status = server'[1].status /\ ReportOf(1)'.done = server'[1].done
  <2> DEFINE s == server'[1]
  <2>1. s \in ServerState
    BY <1>1, <1>3
  <2>2. ReportOf(1)' = [job |-> 1, status |-> s.status, done |-> s.done, expires |-> s.expires]
    BY DEF ReportOf
  <2> HIDE DEF s
  <2>3. s = server'[1]
    BY DEF s
  <2> QED
    BY <2>1, <2>2, <2>3, ReportFacts
<1>7. /\ ws' \in Socket /\ ws'.job = ws.job
      /\ \A i \in 1 .. Len(ws'.queue) : MessageWasSo(ws.queue[i])'
  <2>1. \A i \in 1 .. Len(ws.queue) :
          /\ ws.queue[i] \in Message /\ ws.queue[i].body \in Report
          /\ MessageWasSo(ws.queue[i])
    <3>1. ws.queue \in Seq(Message)
      BY DEF WiresWereSo, Socket
    <3>2. \A m \in Message : m.body \in Report
      BY DEF Message
    <3> QED
      BY <3>1, <3>2 DEF WiresWereSo
  <2>2. ASSUME NEW m \in Message, MessageWasSo(m)
        PROVE  MessageWasSo(m)'
    <3>1. m.body \in Report
      BY DEF Message
    <3> QED
      BY <1>4, <2>2, <3>1 DEF MessageWasSo, WasSo
  <2>4. CASE ws' = ws
    <3>1. \A i \in 1 .. Len(ws'.queue) : ws'.queue[i] = ws.queue[i] /\ ws.queue[i] \in Message
      BY <2>1, <2>4
    <3>2. \A i \in 1 .. Len(ws'.queue) : MessageWasSo(ws.queue[i])'
      BY <2>1, <2>2, <2>4, <3>1
    <3> QED
      BY <2>4, <3>2 DEF WiresWereSo
  <2>3. ASSUME NEW type \in {"file", "done"},
               ws.job = 1, ws.open, server'[1].status # "none",
               ws' = [ws EXCEPT !.queue = Append(@, [type |-> type, body |-> ReportOf(1)'])],
               type = "done" => Terminal(server'[1].status)
        PROVE  /\ ws' \in Socket /\ ws'.job = ws.job
               /\ \A i \in 1 .. Len(ws'.queue) : MessageWasSo(ws.queue[i])'
    <3> DEFINE m == [type |-> type, body |-> ReportOf(1)']
    <3>1. m \in Message /\ m.type = type /\ m.body = ReportOf(1)'
      BY <1>6 DEF Message
    <3> HIDE DEF m
    <3>2. /\ ws \in Socket /\ ws' = [ws EXCEPT !.queue = Append(@, m)]
      BY <2>3 DEF m, WiresWereSo
    <3>3. /\ ws' \in Socket /\ ws'.job = ws.job /\ ws'.queue = Append(ws.queue, m)
      <4>1. Append(ws.queue, m) \in Seq(Message)
        BY <3>1, <3>2 DEF Socket
      <4> QED
        BY <3>2, <4>1 DEF Socket
    <3>4. ws.queue \in Seq(Message)
      BY <3>2 DEF Socket
    <3>5. /\ Len(ws'.queue) = Len(ws.queue) + 1
          /\ \A i \in 1 .. Len(ws.queue) : ws'.queue[i] = ws.queue[i]
          /\ ws'.queue[Len(ws.queue) + 1] = m
      BY <3>1, <3>3, <3>4
    <3>6. ASSUME NEW i \in 1 .. Len(ws'.queue)
          PROVE  MessageWasSo(ws.queue[i])'
      <4>1. CASE i \in 1 .. Len(ws.queue)
        BY <2>1, <2>2, <3>5, <4>1
      <4>2. CASE i = Len(ws.queue) + 1
        <5>1. ReportOf(1)'.done <= server'[1].done
          BY <1>3, <1>6
        <5> QED
          BY <1>6, <2>3, <3>1, <3>5, <4>2, <5>1 DEF MessageWasSo, WasSo
      <4> QED
        BY <3>4, <3>5, <4>1, <4>2
    <3> QED
      BY <3>3, <3>6
  <2> QED
    BY <1>5, <2>3, <2>4
<1>8. WiresWereSo'
  <2>1. /\ panel \in Report /\ reconnecting \in Report
        /\ \A p \in polls : p.body \in Report
    BY DEF ClientTypeOK
  <2>2. UNCHANGED <<polls, reconnecting, panel>>
    BY <1>5 DEF page
  <2>3. WasSo(panel)' /\ WasSo(reconnecting)'
    BY <1>4, <2>1, <2>2 DEF WiresWereSo, WasSo
  <2>4. \A p \in polls' : WasSo(p.body)'
    BY <1>4, <2>1, <2>2 DEF WiresWereSo, WasSo
  <2> QED
    BY <1>7, <2>3, <2>4 DEF WiresWereSo
<1>9. ClientTypeOK'
  <2>1. ws'.job \in JobOrNone /\ ws'.open \in BOOLEAN /\ ws'.queue \in Seq(Message)
    BY <1>7 DEF Socket
  <2>2. server' \in [Jobs -> [status : Status \union {"none"}, done : 0 .. MaxDone,
                              expires : BOOLEAN, over : BOOLEAN]]
    BY <1>3 DEF ServerState
  <2> QED
    BY <1>5, <2>1, <2>2 DEF ClientTypeOK, page, visit, bounds
<1>10. EndIsFollowed'
  BY <1>2, <1>3, <1>5 DEF EndIsFollowed, Ended, page, visit
<1>11. TracksItsJob'
  <2>1. ws'.job = 0 => ws'.queue = <<>>
    BY <1>5, <1>7 DEF TracksItsJob
  <2> QED
    BY <1>2, <1>3, <1>5, <1>7, <2>1 DEF TracksItsJob, page, visit
<1> QED
  BY <1>8, <1>9, <1>10, <1>11

-----------------------------------------------------------------------------
(* The first extraction starts the job: nothing was known of it before.    *)
LEMMA ExtractKeeps ==
  ASSUME MaxJobs = 1, TrackInv, Extract
  PROVE  TrackInv'
<1> USE OneJob, ClientAssumption DEF TrackInv
<1>1. /\ server \in [Jobs -> ServerState] /\ server[1].status = "none"
      /\ server' = [server EXCEPT ![1].status = "running"] /\ extracting' = 1
      /\ UNCHANGED <<ws, polls, listings, reconnecting, page, bounds>>
  BY DEF Extract, ClientTypeOK, ServerState
<1>2. server' \in [Jobs -> ServerState] /\ server'[1].status = "running"
  BY <1>1 DEF ServerState, Status
<1>3. UNCHANGED <<currentJob, stored, pollTimer, expiresAt, countdownTimer, panel, browser, files,
                  gate, leaving, left>>
  BY <1>1 DEF page, visit
<1>4. /\ \A r : WasSo(r) <=> r = Nothing
      /\ currentJob = 0 /\ stored = 0 /\ ~Ended /\ ws.job = 0
  <2>1. currentJob = 0 /\ stored = 0 /\ ~Ended
    BY <1>1 DEF TracksItsJob, Ended, Terminal, ClientTypeOK
  <2>2. ws.job = 0
    BY <2>1 DEF TracksItsJob
  <2> QED
    BY <1>1, <2>1, <2>2 DEF WasSo
<1>5. ClientTypeOK'
  BY <1>1, <1>2, <1>3 DEF ClientTypeOK, bounds, ServerState
<1>6. WiresWereSo'
  <2>1. Len(ws.queue) = 0
    BY <1>4 DEF TracksItsJob
  <2> QED
    BY <1>1, <1>3, <1>4, <2>1 DEF WiresWereSo, WasSo
<1>7. EndIsFollowed'
  BY <1>1, <1>3, <1>4 DEF EndIsFollowed
<1>8. TracksItsJob'
  BY <1>1, <1>2, <1>3, <1>4, <1>6 DEF TracksItsJob, WiresWereSo, WasSo
<1> QED
  BY <1>5, <1>6, <1>7, <1>8

(* What does not touch the job leaves true what was so.                    *)
LEMMA StartTrackingKeeps ==
  ASSUME MaxJobs = 1, TrackInv, StartTracking
  PROVE  TrackInv'
<1> USE OneJob, ClientAssumption, ReportFacts, NoSocketFacts DEF TrackInv
<1>1. /\ extracting = 1 /\ extracting' = 0
      /\ currentJob' = 1 /\ stored' = 1 /\ pollTimer' = 1
      /\ ws' = [NoSocket EXCEPT !.job = 1]
      /\ panel' = Nothing /\ browser' = 0
      /\ UNCHANGED <<server, polls, listings, reconnecting, expiresAt, countdownTimer, files, gate,
                     leaving, left, bounds>>
  BY DEF StartTracking, Remembered, OpenSocket, ClientTypeOK, visit
<1>2. ws' \in Socket /\ ws'.queue = <<>> /\ ws'.job = 1
  BY <1>1
<1>3. ClientTypeOK'
  <2>1. ws'.job \in JobOrNone /\ ws'.open \in BOOLEAN /\ ws'.queue \in Seq(Message)
    BY <1>2 DEF Socket
  <2> QED
    BY <1>1, <2>1 DEF ClientTypeOK, bounds
<1>4. WiresWereSo'
  <2>1. Len(ws'.queue) = 0
    BY <1>2
  <2> QED
    BY <1>1, <1>2, <2>1 DEF WiresWereSo, WasSo
<1>5. EndIsFollowed'
  BY <1>1 DEF EndIsFollowed, Ended
<1>6. TracksItsJob'
  BY <1>1, <1>2 DEF TracksItsJob
<1> QED
  BY <1>3, <1>4, <1>5, <1>6

(* What renderSnapshot does with a report of the job.                      *)
Listing == [job : Jobs, expires : BOOLEAN, of : Jobs]

LEMMA AsksItsFiles ==
  ASSUME MaxJobs = 1, NEW s \in Report, s.job = 1
  PROVE  AsksFiles(1, s) \in Listing
BY OneJob, ReportFacts DEF AsksFiles, Listing

LEMMA Rendered ==
  ASSUME MaxJobs = 1, ClientTypeOK, NEW s \in Report, s.job = 1, WasSo(s), currentJob' = 1,
         NEW also \in SUBSET Listing, also # {} => Ended,
         RenderSnapshot(s, also)
  PROVE  /\ panel' = s /\ expiresAt' \in JobOrNone /\ listings' \subseteq Listing
         /\ listings' # {} => listings # {} \/ Ended
         /\ browser' \in JobOrNone /\ (browser' # 0 => browser # 0 \/ Ended)
<1>1. Finishes(s) => Ended
  BY ReportFacts DEF Finishes, WasSo, Ended
<1>2. AsksFiles(currentJob', s) \in Listing
  BY AsksItsFiles
<1>3. listings \subseteq Listing
  BY DEF ClientTypeOK, Listing
<1>4. panel' = s /\ expiresAt' \in JobOrNone
  BY OneJob DEF RenderSnapshot
<1>5. browser' \in JobOrNone /\ (browser' # 0 => browser # 0 \/ Ended)
  <2>1. CASE \E l \in also : browser' = l.job
    BY <2>1, OneJob DEF Listing
  <2>2. CASE browser' = IF Finishes(s) THEN currentJob' ELSE browser
    BY <1>1, <2>2, OneJob DEF ClientTypeOK
  <2> QED
    BY <2>1, <2>2 DEF RenderSnapshot
<1> QED
  BY <1>1, <1>2, <1>3, <1>4, <1>5 DEF RenderSnapshot

LEMMA HandleMessageKeeps ==
  ASSUME MaxJobs = 1, TrackInv, HandleMessage
  PROVE  TrackInv'
<1> USE OneJob, ClientAssumption, ReportFacts DEF TrackInv
<1> DEFINE m == Head(ws.queue)
<1>1. /\ ws.queue # <<>> /\ ws' = [ws EXCEPT !.queue = Tail(@)]
      /\ UNCHANGED <<server, polls, extracting, reconnecting, stored, pollTimer, countdownTimer,
                     files, gate, leaving, left, bounds, currentJob>>
  BY DEF HandleMessage, visit
<1>2. ws \in Socket /\ ws.queue \in Seq(Message) /\ currentJob = 1
  BY <1>1 DEF WiresWereSo, Socket, TracksItsJob
<1>3. m \in Message /\ MessageWasSo(m) /\ m.body \in Report
  <2>1. m = ws.queue[1] /\ 1 \in 1 .. Len(ws.queue)
    BY <1>1, <1>2
  <2>2. m \in Message /\ MessageWasSo(m)
    BY <1>2, <2>1 DEF WiresWereSo
  <2> QED
    BY <2>2 DEF Message
<1>4. ws' \in Socket /\ ws'.job = ws.job /\ ws'.queue = Tail(ws.queue)
  <2>1. Tail(ws.queue) \in Seq(Message)
    BY <1>1, <1>2
  <2> QED
    BY <1>1, <1>2, <2>1 DEF Socket
<1>5. /\ panel' \in Report /\ WasSo(panel') /\ expiresAt' \in JobOrNone
      /\ listings' \subseteq Listing /\ browser' \in JobOrNone
      /\ (listings' # {} \/ browser' # 0) => Ended
  <2>1. CASE m.type = "snapshot" /\ RenderSnapshot(m.body, {})
    BY <1>1, <1>2, <1>3, <2>1, Rendered DEF MessageWasSo, EndIsFollowed
  <2>2. CASE /\ panel' = [m.body EXCEPT !.status = panel.status]
             /\ UNCHANGED <<expiresAt, listings, browser>>
    <3>1. /\ panel' \in Report /\ panel'.job = m.body.job
          /\ panel'.status = panel.status /\ panel'.done = m.body.done
      BY <1>3, <2>2 DEF ClientTypeOK, Report
    <3>2. WasSo(panel')
      BY <1>3, <3>1 DEF WiresWereSo, MessageWasSo, WasSo, Terminal
    <3> QED
      BY <2>2, <3>1, <3>2 DEF ClientTypeOK, EndIsFollowed, Listing
  <2>3. CASE /\ m.type = "done"
             /\ panel' = [m.body EXCEPT !.done = panel.done]
             /\ expiresAt' = IF m.body.expires THEN m.body.job ELSE 0
             /\ listings' = listings \union {AsksFiles(currentJob, m.body)} /\ browser' = currentJob
    <3>1. /\ panel' \in Report /\ panel'.job = m.body.job
          /\ panel'.status = m.body.status /\ panel'.done = panel.done
      BY <1>3, <2>3 DEF ClientTypeOK, Report
    <3>2. panel.done <= server[1].done
      <4>1. server[1].done \in Nat
        BY DEF ClientTypeOK
      <4> QED
        BY <4>1 DEF WiresWereSo, WasSo
    <3>3. WasSo(panel') /\ Ended
      BY <1>3, <2>3, <3>1, <3>2 DEF MessageWasSo, WasSo, Ended
    <3>4. AsksFiles(currentJob, m.body) \in Listing
      BY <1>2, <1>3, AsksItsFiles DEF MessageWasSo
    <3> QED
      BY <1>2, <1>3, <2>3, <3>1, <3>3, <3>4 DEF ClientTypeOK, Listing
  <2> QED
    BY <2>1, <2>2, <2>3 DEF HandleMessage
<1>6. ClientTypeOK'
  <2>1. ws'.job \in JobOrNone /\ ws'.open \in BOOLEAN /\ ws'.queue \in Seq(Message)
    BY <1>4 DEF Socket
  <2> QED
    BY <1>1, <1>5, <2>1 DEF ClientTypeOK, bounds, Listing
<1>7. WiresWereSo'
  <2>1. ASSUME NEW i \in 1 .. Len(ws'.queue)
        PROVE  MessageWasSo(ws.queue[i])'
    <3>1. i + 1 \in 1 .. Len(ws.queue) /\ ws'.queue[i] = ws.queue[i + 1]
      BY <1>1, <1>2, <1>4
    <3> QED
      BY <1>1, <3>1 DEF WiresWereSo, MessageWasSo, WasSo
  <2> QED
    BY <1>1, <1>4, <1>5, <2>1 DEF WiresWereSo, WasSo
<1>8. EndIsFollowed'
  BY <1>1, <1>5 DEF EndIsFollowed, Ended
<1>9. TracksItsJob'
  BY <1>1, <1>2, <1>4 DEF TracksItsJob
<1> QED
  BY <1>6, <1>7, <1>8, <1>9

\* The report of a job that has begun is so.
LEMMA ReportIsSo ==
  ASSUME MaxJobs = 1, server \in [Jobs -> ServerState], server[1].status # "none"
  PROVE  /\ ReportOf(1) \in Report /\ ReportOf(1).job = 1 /\ ReportOf(1) # Nothing
         /\ ReportOf(1).status = server[1].status /\ WasSo(ReportOf(1))
<1> USE OneJob, ClientAssumption
<1>1. server[1] \in ServerState /\ server[1].done \in Nat
  BY DEF ServerState
<1>2. /\ ReportOf(1) \in Report /\ ReportOf(1).job = 1 /\ ReportOf(1) # Nothing
      /\ ReportOf(1).status = server[1].status /\ ReportOf(1).done = server[1].done
  BY <1>1, ReportFacts DEF ReportOf
<1> QED
  BY <1>1, <1>2 DEF WasSo

LEMMA PollTickKeeps ==
  ASSUME MaxJobs = 1, TrackInv, PollTick
  PROVE  TrackInv'
<1> USE OneJob, ClientAssumption, ReportFacts DEF TrackInv
<1>1. pollTimer = 1 /\ currentJob = 1 /\ server[1].status # "none"
  BY DEF PollTick, ClientTypeOK, TracksItsJob
<1>2. ReportOf(1) \in Report /\ WasSo(ReportOf(1))
  BY <1>1, ReportIsSo DEF ClientTypeOK, ServerState
<1>3. UNCHANGED <<server, ws, listings, extracting, reconnecting, currentJob, stored, pollTimer,
                  expiresAt, countdownTimer, panel, browser, files, gate, leaving,
                   left, loads, drops>>
  BY DEF PollTick, page, visit
<1>4. PICK body \in {ReportOf(1), Nothing} : polls' = polls \union {[of |-> 1, body |-> body]}
  BY <1>1 DEF PollTick
<1>5. lost' \in 0 .. MaxLost
  <2>1. lost \in 0 .. MaxLost /\ MaxLost \in Nat
    BY DEF ClientTypeOK
  <2>2. lost' = lost \/ (lost < MaxLost /\ lost' = lost + 1)
    BY DEF PollTick
  <2> QED
    BY <2>1, <2>2
<1>6. body \in Report /\ WasSo(body)
  BY <1>2, <1>4 DEF WasSo
<1>7. polls' \subseteq [of : Jobs, body : Report] /\ \A p \in polls' : WasSo(p.body)
  BY <1>4, <1>6 DEF ClientTypeOK, WiresWereSo
<1>8. ClientTypeOK'
  BY <1>3, <1>5, <1>7 DEF ClientTypeOK
<1>9. WiresWereSo'
  BY <1>3, <1>7 DEF WiresWereSo, MessageWasSo, WasSo
<1>10. EndIsFollowed' /\ TracksItsJob'
  BY <1>1, <1>3 DEF EndIsFollowed, Ended, TracksItsJob
<1> QED
  BY <1>8, <1>9, <1>10

LEMMA PollAnsweredKeeps ==
  ASSUME MaxJobs = 1, TrackInv, NEW p \in polls, PollAnswered(p)
  PROVE  TrackInv'
<1> USE OneJob DEF TrackInv
<1>1. /\ currentJob = 1 /\ p.of = 1 /\ p.body \in Report /\ WasSo(p.body)
  BY DEF ClientTypeOK, TracksItsJob, WiresWereSo
<1>2. /\ polls' = polls \ {p} /\ pollTimer' \in {0, pollTimer}
      /\ UNCHANGED <<server, ws, extracting, reconnecting, stored, countdownTimer, files, gate,
                     leaving, left, bounds, currentJob>>
  BY DEF PollAnswered, visit
<1>3. /\ panel' \in Report /\ WasSo(panel') /\ expiresAt' \in JobOrNone
      /\ listings' \subseteq Listing /\ browser' \in JobOrNone
      /\ (listings' # {} \/ browser' # 0) => Ended
  <2>1. CASE p.body = Nothing
    BY <2>1 DEF PollAnswered, ClientTypeOK, Listing, EndIsFollowed, WiresWereSo
  <2>2. CASE p.body # Nothing
    <3> DEFINE also == IF Terminal(p.body.status) THEN {AsksFiles(p.of, p.body)} ELSE {}
    <3>1. p.body.job = 1 /\ (Terminal(p.body.status) => Ended)
      BY <1>1, <2>2 DEF WasSo, Ended
    <3>2. also \in SUBSET Listing /\ (also # {} => Ended)
      BY <1>1, <3>1, AsksItsFiles
    <3>3. RenderSnapshot(p.body, also) /\ currentJob' = 1
      BY <1>1, <1>2, <2>2 DEF PollAnswered
    <3> HIDE DEF also
    <3> QED
      BY <1>1, <3>1, <3>2, <3>3, Rendered DEF EndIsFollowed
  <2> QED
    BY <2>1, <2>2
<1>4. ClientTypeOK'
  <2>1. pollTimer' \in JobOrNone
    BY <1>2 DEF ClientTypeOK
  <2>2. /\ UNCHANGED <<server, ws, extracting, reconnecting, stored, files, gate, leaving, left,
                       loads, drops, lost>>
        /\ currentJob' = currentJob
    BY <1>2 DEF bounds
  <2>3. countdownTimer' \in BOOLEAN
    BY <1>2 DEF ClientTypeOK
  <2>4. polls' \subseteq [of : Jobs, body : Report]
    BY <1>2 DEF ClientTypeOK
  <2>5. {currentJob, stored, pollTimer, expiresAt, browser, files}' \subseteq JobOrNone
    BY <1>3, <2>1, <2>2 DEF ClientTypeOK
  <2> QED
    BY <1>3, <2>2, <2>3, <2>4, <2>5 DEF ClientTypeOK, Listing
<1>5. WiresWereSo'
  BY <1>2, <1>3 DEF WiresWereSo, MessageWasSo, WasSo
<1>6. EndIsFollowed' /\ TracksItsJob'
  <2>1. EndIsFollowed'
    <3>1. Ended' <=> Ended
      BY <1>2 DEF Ended
    <3> QED
      BY <1>2, <1>3, <3>1 DEF EndIsFollowed
  <2>2. TracksItsJob'
    BY <1>1, <1>2 DEF TracksItsJob
  <2> QED
    BY <2>1, <2>2
<1> QED
  BY <1>4, <1>5, <1>6

LEMMA FilesListedKeeps ==
  ASSUME MaxJobs = 1, TrackInv, NEW l \in listings, FilesListed(l) \/ FilesLost(l)
  PROVE  TrackInv'
<1> USE OneJob, ClientAssumption DEF TrackInv
<1>1. Ended /\ l.job \in Jobs /\ l.of \in Jobs
  BY DEF EndIsFollowed, ClientTypeOK
<1>2. /\ listings' \subseteq listings /\ files' \in JobOrNone /\ expiresAt' \in JobOrNone
      /\ countdownTimer' \in BOOLEAN /\ lost' \in 0 .. MaxLost
      /\ UNCHANGED <<server, ws, polls, extracting, reconnecting, currentJob, stored, pollTimer,
                     panel, browser, gate, leaving, left, loads, drops>>
  <2>1. CASE FilesListed(l)
    <3>1. countdownTimer' \in BOOLEAN
      BY <2>1 DEF FilesListed, ClientTypeOK
    <3>2. files' \in JobOrNone /\ expiresAt' \in JobOrNone
      BY <1>1, <2>1 DEF FilesListed, ClientTypeOK
    <3> QED
      BY <2>1, <3>1, <3>2 DEF FilesListed, visit, bounds, ClientTypeOK
  <2>2. CASE FilesLost(l)
    <3>1. lost' \in 0 .. MaxLost
      BY <2>2 DEF FilesLost, ClientTypeOK
    <3> QED
      BY <2>2, <3>1 DEF FilesLost, page, visit, ClientTypeOK
  <2> QED
    BY <2>1, <2>2
<1>3. ClientTypeOK'
  BY <1>2 DEF ClientTypeOK
<1>4. WiresWereSo'
  BY <1>2 DEF WiresWereSo, MessageWasSo, WasSo
<1>5. EndIsFollowed' /\ TracksItsJob'
  BY <1>1, <1>2 DEF EndIsFollowed, Ended, TracksItsJob
<1> QED
  BY <1>3, <1>4, <1>5

\* The countdown begins when the job has ended, so only then the id is dropped.
LEMMA CountdownTickKeeps ==
  ASSUME MaxJobs = 1, TrackInv, CountdownTick
  PROVE  TrackInv'
<1> USE OneJob DEF TrackInv
<1>1. /\ countdownTimer /\ countdownTimer' = FALSE /\ stored' = 0
      /\ UNCHANGED <<server, ws, polls, listings, extracting, reconnecting, currentJob, pollTimer,
                     expiresAt, panel, browser, files, gate, leaving, left, loads, drops, lost>>
  BY DEF CountdownTick, wires, visit, bounds
<1>2. server[1].status # "running"
  BY <1>1 DEF EndIsFollowed, Ended, Terminal
<1>3. ClientTypeOK'
  BY <1>1 DEF ClientTypeOK
<1>4. WiresWereSo'
  BY <1>1 DEF WiresWereSo, MessageWasSo, WasSo
<1>5. EndIsFollowed' /\ TracksItsJob'
  BY <1>1, <1>2 DEF EndIsFollowed, Ended, TracksItsJob
<1> QED
  BY <1>3, <1>4, <1>5

\* Loading a page leaves nothing on the way but what reconnect asks of a stored job.
LEMMA LoadedKeeps ==
  ASSUME MaxJobs = 1, TrackInv, Loaded, gate' \in BOOLEAN, loads' \in 0 .. MaxReloads
  PROVE  TrackInv'
<1> USE OneJob, ClientAssumption DEF TrackInv
<1>1. /\ ws' = NoSocket /\ polls' = {} /\ listings' = {} /\ extracting' = 0
      /\ currentJob' = 0 /\ pollTimer' = 0 /\ expiresAt' = 0 /\ countdownTimer' = FALSE
      /\ panel' = Nothing /\ browser' = 0 /\ files' = 0 /\ leaving' = FALSE /\ left' = {}
      /\ reconnecting' \in {IF stored # 0 THEN ReportOf(stored) ELSE Nothing, Nothing}
      /\ UNCHANGED <<server, stored, drops, lost>>
  BY DEF Loaded
<1>2. reconnecting' \in Report /\ WasSo(reconnecting') /\ (reconnecting' # Nothing => stored = 1)
  <2>1. CASE reconnecting' = Nothing
    BY <2>1, ReportFacts DEF WasSo
  <2>2. CASE reconnecting' # Nothing
    <3>1. stored = 1 /\ reconnecting' = ReportOf(1)
      BY <1>1, <2>2 DEF ClientTypeOK
    <3>2. server \in [Jobs -> ServerState] /\ server[1].status # "none"
      BY <3>1 DEF ClientTypeOK, ServerState, TracksItsJob
    <3> QED
      BY <3>1, <3>2, ReportIsSo
  <2> QED
    BY <2>1, <2>2
<1>3. ws' \in Socket /\ ws'.job = 0 /\ ws'.queue = <<>> /\ Len(ws'.queue) = 0
  BY <1>1, NoSocketFacts
<1>4. panel' \in Report
  BY <1>1, ReportFacts
<1>5. ClientTypeOK'
  <2>1. ws'.job \in JobOrNone /\ ws'.open \in BOOLEAN /\ ws'.queue \in Seq(Message)
    BY <1>3 DEF Socket
  <2> QED
    BY <1>1, <1>2, <1>4, <2>1 DEF ClientTypeOK
<1>6. WiresWereSo'
  BY <1>1, <1>2, <1>3 DEF WiresWereSo, WasSo
<1>7. EndIsFollowed' /\ TracksItsJob'
  BY <1>1, <1>2, <1>3 DEF EndIsFollowed, TracksItsJob
<1> QED
  BY <1>5, <1>6, <1>7

LEMMA ReloadKeeps ==
  ASSUME MaxJobs = 1, TrackInv, Reload
  PROVE  TrackInv'
<1>1. loads' \in 0 .. MaxReloads
  <2>1. loads \in 0 .. MaxReloads /\ MaxReloads \in Nat
    BY ClientAssumption DEF TrackInv, ClientTypeOK
  <2> QED
    BY <2>1 DEF Reload
<1>2. gate' \in BOOLEAN
  BY DEF Reload, TrackInv, ClientTypeOK
<1> QED
  BY <1>1, <1>2, LoadedKeeps DEF Reload

(* Sign out forgets the job that is followed, which is why it is excepted; *)
(* when no answer comes it goes on being followed.                         *)
LEMMA SignStepKeeps ==
  ASSUME MaxJobs = 1, TrackInv, LogOut \/ VisitEnds \/ LogoutLost \/ SignIn
  PROVE  TrackInv'
<1> USE OneJob, ClientAssumption DEF TrackInv
<1>1. CASE VisitEnds
  <2>1. gate' \in BOOLEAN /\ loads' \in 0 .. MaxReloads
    BY <1>1 DEF VisitEnds, ClientTypeOK
  <2> QED
    BY <1>1, <2>1, LoadedKeeps DEF VisitEnds
<1>2. CASE LogOut \/ LogoutLost \/ SignIn
  <2>1. UNCHANGED <<server, ws, polls, listings, extracting, reconnecting, currentJob, pollTimer,
                    expiresAt, countdownTimer, panel, browser, files, loads, drops>>
    BY <1>2 DEF LogOut, LogoutLost, SignIn, wires, bounds
  <2>2. lost' \in 0 .. MaxLost
    <3>1. lost \in 0 .. MaxLost /\ MaxLost \in Nat
      BY DEF ClientTypeOK
    <3>2. lost' = lost \/ (lost < MaxLost /\ lost' = lost + 1)
      BY <1>2 DEF LogOut, LogoutLost, SignIn, bounds
    <3> QED
      BY <3>1, <3>2
  <2>3. reconnecting.job \in {0, 1} /\ currentJob \in {0, 1}
    BY ReportFacts DEF ClientTypeOK
  <2>4. /\ gate' \in BOOLEAN /\ leaving' \in BOOLEAN /\ left' \subseteq Jobs /\ left \subseteq left'
        /\ \/ stored' = stored
           \/ stored' = 0 /\ left' = left \union ({currentJob, reconnecting.job} \ {0})
    BY <1>2, <2>3 DEF LogOut, LogoutLost, SignIn, ClientTypeOK
  <2>5. ClientTypeOK'
    <3>1. {currentJob, stored, pollTimer, expiresAt, browser, files}' \subseteq JobOrNone
      BY <2>1, <2>4 DEF ClientTypeOK
    <3> QED
      BY <2>1, <2>2, <2>4, <3>1 DEF ClientTypeOK
  <2>6. WiresWereSo'
    BY <2>1 DEF WiresWereSo, MessageWasSo, WasSo
  <2>7. EndIsFollowed'
    BY <2>1 DEF EndIsFollowed, Ended
  <2>8. TracksItsJob'
    <3>1. (currentJob # 0 \/ reconnecting # Nothing) => stored' = stored \/ 1 \in left'
      BY <2>3, <2>4 DEF WiresWereSo, WasSo
    <3> QED
      BY <2>1, <2>4, <3>1 DEF TracksItsJob
  <2> QED
    BY <2>5, <2>6, <2>7, <2>8
<1> QED
  BY <1>1, <1>2

LEMMA ReconnectFailsKeeps ==
  ASSUME MaxJobs = 1, TrackInv, ReconnectFails
  PROVE  TrackInv'
<1> USE OneJob, ClientAssumption DEF TrackInv
<1>1. /\ reconnecting' = Nothing
      /\ UNCHANGED <<server, ws, polls, listings, extracting, currentJob, stored, pollTimer,
                     expiresAt, countdownTimer, panel, browser, files, gate, leaving, left, loads,
                     drops>>
  BY DEF ReconnectFails, page, visit
<1>2. lost' \in 0 .. MaxLost
  <2>1. lost \in 0 .. MaxLost /\ MaxLost \in Nat
    BY DEF ClientTypeOK
  <2> QED
    BY <2>1 DEF ReconnectFails
<1>3. ClientTypeOK'
  BY <1>1, <1>2, ReportFacts DEF ClientTypeOK
<1>4. WiresWereSo'
  BY <1>1 DEF WiresWereSo, MessageWasSo, WasSo
<1>5. EndIsFollowed' /\ TracksItsJob'
  BY <1>1 DEF EndIsFollowed, Ended, TracksItsJob
<1> QED
  BY <1>3, <1>4, <1>5

LEMMA ReconnectedKeeps ==
  ASSUME MaxJobs = 1, TrackInv, Reconnected
  PROVE  TrackInv'
<1> USE OneJob, ClientAssumption DEF TrackInv
<1>1. /\ reconnecting # Nothing /\ reconnecting \in Report /\ reconnecting.job = 1
      /\ WasSo(reconnecting) /\ server[1].status # "none"
  BY DEF Reconnected, WiresWereSo, WasSo, ClientTypeOK
<1>2. /\ reconnecting' = Nothing /\ currentJob' = 1 /\ RenderSnapshot(reconnecting, {})
      /\ UNCHANGED <<server, polls, extracting, stored, countdownTimer, files, gate, leaving, left,
                     bounds>>
      /\ \/ UNCHANGED <<ws, pollTimer>>
         \/ ws' = [NoSocket EXCEPT !.job = 1] /\ pollTimer' = 1
  BY <1>1 DEF Reconnected, OpenSocket, visit
<1>3. /\ panel' = reconnecting /\ expiresAt' \in JobOrNone /\ listings' \subseteq Listing
      /\ browser' \in JobOrNone
      /\ (listings' # {} \/ browser' # 0) => Ended
  BY <1>1, <1>2, Rendered DEF EndIsFollowed
<1>4. /\ ws'.job = 0 => ws'.queue = <<>>
      /\ \A i \in 1 .. Len(ws'.queue) : MessageWasSo(ws.queue[i])'
  <2>1. CASE UNCHANGED ws
    BY <1>2, <2>1 DEF WiresWereSo, MessageWasSo, WasSo, TracksItsJob
  <2>2. CASE ws' = [NoSocket EXCEPT !.job = 1]
    <3>1. ws' \in Socket /\ ws'.queue = <<>> /\ Len(ws'.queue) = 0
      BY <2>2, NoSocketFacts
    <3> QED
      BY <3>1
  <2> QED
    BY <1>2, <2>1, <2>2
<1>5. ws' \in Socket
  BY <1>2, NoSocketFacts DEF WiresWereSo
<1>6. ClientTypeOK'
  <2>1. ws'.job \in JobOrNone /\ ws'.open \in BOOLEAN /\ ws'.queue \in Seq(Message)
    BY <1>5 DEF Socket
  <2>2. {currentJob, stored, pollTimer, expiresAt, browser, files}' \subseteq JobOrNone
    BY <1>2, <1>3 DEF ClientTypeOK
  <2>3. panel' \in Report /\ reconnecting' \in Report
    BY <1>1, <1>2, <1>3, ReportFacts
  <2> QED
    BY <1>2, <1>3, <2>1, <2>2, <2>3 DEF ClientTypeOK, bounds, Listing
<1>7. WiresWereSo'
  BY <1>1, <1>2, <1>3, <1>4, <1>5 DEF WiresWereSo, WasSo
<1>8. EndIsFollowed'
  BY <1>2, <1>3 DEF EndIsFollowed, Ended
<1>9. TracksItsJob'
  BY <1>1, <1>2, <1>4, <1>5 DEF TracksItsJob
<1> QED
  BY <1>6, <1>7, <1>8, <1>9

\* The greeting of a socket is the job's own report.
LEMMA SocketStepKeeps ==
  ASSUME MaxJobs = 1, TrackInv, SocketConnects \/ SocketDrops
  PROVE  TrackInv'
<1> USE OneJob, ClientAssumption DEF TrackInv
<1>1. /\ ws \in Socket /\ ws.job = 1 /\ server[1].status # "none" /\ currentJob = 1
      /\ server \in [Jobs -> ServerState]
  BY DEF SocketConnects, SocketDrops, WiresWereSo, Socket, TracksItsJob, ClientTypeOK, ServerState
<1>2. UNCHANGED <<server, polls, listings, extracting, reconnecting, currentJob, stored, pollTimer,
                  expiresAt, countdownTimer, panel, browser, files, gate, leaving,
                   left, loads, lost>>
  BY DEF SocketConnects, SocketDrops, page, visit, bounds
<1>3. drops' \in 0 .. MaxDrops
  <2>1. drops \in 0 .. MaxDrops /\ MaxDrops \in Nat
    BY DEF ClientTypeOK
  <2> QED
    BY <2>1 DEF SocketConnects, SocketDrops, bounds
<1>4. /\ ws' \in Socket
      /\ ws'.job = 0 => ws'.queue = <<>>
      /\ \A i \in 1 .. Len(ws'.queue) : MessageWasSo(ws.queue[i])'
  <2>1. CASE SocketDrops
    <3>1. ws' \in Socket /\ ws'.queue = <<>> /\ Len(ws'.queue) = 0
      BY <2>1, NoSocketFacts DEF SocketDrops
    <3> QED
      BY <3>1
  <2>2. CASE SocketConnects
    <3> DEFINE m == [type |-> "snapshot", body |-> ReportOf(1)]
    <3>1. m \in Message /\ m.type = "snapshot" /\ m.body = ReportOf(1) /\ MessageWasSo(m)
      BY <1>1, ReportIsSo DEF Message, MessageWasSo
    <3>2. ws' = [ws EXCEPT !.open = TRUE, !.queue = <<m>>]
      BY <1>1, <2>2 DEF SocketConnects
    <3> HIDE DEF m
    <3>3. <<m>> \in Seq(Message) /\ Len(<<m>>) = 1 /\ <<m>>[1] = m
      BY <3>1
    <3>4. ws' \in Socket /\ ws'.job = 1 /\ ws'.queue = <<m>>
      BY <1>1, <3>2, <3>3 DEF Socket
    <3>5. ASSUME NEW i \in 1 .. Len(ws'.queue)
          PROVE  MessageWasSo(ws.queue[i])'
      <4>1. ws'.queue[i] = m
        BY <3>3, <3>4
      <4> QED
        BY <1>2, <3>1, <4>1 DEF MessageWasSo, WasSo
    <3> QED
      BY <3>4, <3>5
  <2> QED
    BY <2>1, <2>2
<1>5. ClientTypeOK'
  <2>1. ws'.job \in JobOrNone /\ ws'.open \in BOOLEAN /\ ws'.queue \in Seq(Message)
    BY <1>4 DEF Socket
  <2> QED
    BY <1>2, <1>3, <2>1 DEF ClientTypeOK
<1>6. WiresWereSo'
  BY <1>2, <1>4 DEF WiresWereSo, WasSo
<1>7. EndIsFollowed' /\ TracksItsJob'
  BY <1>1, <1>2, <1>4 DEF EndIsFollowed, Ended, TracksItsJob
<1> QED
  BY <1>5, <1>6, <1>7

-----------------------------------------------------------------------------
(* With one job, the page never runs ahead of it, whatever is lost, late   *)
(* or out of order, and a running job is remembered until its user signs   *)
(* out (ui.ts:389-482, 563-763).                                           *)
THEOREM ClientInvAlways ==
  ASSUME MaxJobs = 1
  PROVE  Spec => []ClientInv
<1>1. TrackInv /\ UNCHANGED vars => TrackInv'
  <2> SUFFICES ASSUME TrackInv, UNCHANGED vars
               PROVE  TrackInv'
    OBVIOUS
  <2>1. /\ server' = server /\ ws' = ws /\ polls' = polls /\ listings' = listings
        /\ extracting' = extracting /\ reconnecting' = reconnecting
    BY DEF vars, wires
  <2>2. /\ currentJob' = currentJob /\ stored' = stored /\ pollTimer' = pollTimer
        /\ expiresAt' = expiresAt /\ countdownTimer' = countdownTimer /\ panel' = panel
        /\ browser' = browser /\ files' = files /\ gate' = gate /\ leaving' = leaving
        /\ left' = left /\ loads' = loads /\ drops' = drops /\ lost' = lost
    BY DEF vars, page, visit, bounds
  <2>3. ClientTypeOK'
    BY <2>1, <2>2 DEF TrackInv, ClientTypeOK
  <2>4. WiresWereSo'
    BY <2>1, <2>2 DEF TrackInv, WiresWereSo, MessageWasSo, WasSo
  <2>5. EndIsFollowed' /\ TracksItsJob'
    BY <2>1, <2>2 DEF TrackInv, EndIsFollowed, Ended, TracksItsJob
  <2>6. QED
    BY <2>3, <2>4, <2>5 DEF TrackInv
<1>2. TrackInv /\ Page => TrackInv'
  BY ExtractKeeps, StartTrackingKeeps, HandleMessageKeeps, PollTickKeeps, CountdownTickKeeps,
     ReloadKeeps, ReconnectedKeeps, ReconnectFailsKeeps, PollAnsweredKeeps, FilesListedKeeps,
     SignStepKeeps
     DEF Page
<1>3. TrackInv /\ [Next]_vars => TrackInv'
  BY <1>1, <1>2, SocketStepKeeps, JobKeeps DEF Next
<1>4. TrackInv => ClientInv
  <2> SUFFICES ASSUME TrackInv
               PROVE  ShowsWhatWas /\ RunningIsRemembered
    BY DEF TrackInv, ClientInv
  <2>1. ShowsWhatWas
    BY OneJob, ReportFacts
       DEF TrackInv, ClientTypeOK, WiresWereSo, WasSo, EndIsFollowed, Ended, ShowsWhatWas
  <2>2. RunningIsRemembered
    BY OneJob DEF TrackInv, ClientTypeOK, TracksItsJob, RunningIsRemembered
  <2> QED
    BY <2>1, <2>2
<1> QED
  BY InitTracks, <1>3, <1>4, PTL DEF Spec

=============================================================================
