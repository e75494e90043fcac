----------------------------- MODULE JobOutput -----------------------------
(***************************************************************************)
(* The demo bucket that all jobs share, and the routes of src/src/app.ts   *)
(* that read it for a client: the listing of a job's files and the         *)
(* download of one.  Each route asks the job's coordinator for its report  *)
(* and then goes to the bucket, the listing page by page, while workers    *)
(* write and the cleanups of expired jobs delete.                          *)
(*                                                                         *)
(* What ExtractJob says of one job is coarser here: rows settle one by     *)
(* one, the job ends when all have.  What it leaves out is here: many jobs *)
(* in one bucket, their keys, and whose content an object holds.           *)
(***************************************************************************)
EXTENDS Integers, FiniteSets

CONSTANTS
  JobId,      \* the ids of the jobs (crypto.randomUUID)
  File,       \* names: does it begin with "/", and what is left without it
  Dotted,     \* the rests that contain ".."
  Requester,  \* the clients; each asks once
  PAGE,       \* how many keys one bucket listing returns
  MaxFiles    \* bound: the files of all jobs together

ASSUME OutputAssumption ==
  /\ File # {} /\ File \subseteq [slash : BOOLEAN, rest : Nat \ {0}]
  /\ Dotted \subseteq Nat
  /\ PAGE \in Nat \ {0}
  /\ MaxFiles \in Nat

VARIABLES
  job,      \* per job: status, destination
  row,      \* per job and file: the status in table `file`
  written,  \* per job: the files a worker has written
  bucket,   \* the objects of env.OUTPUT
  sweep,    \* per job: where the cleanup's deletePrefix stands
  call      \* per client: its request

jobVars    == <<job, row, written>>
outputVars == <<jobVars, bucket, sweep, call>>

Job       == [status : {"none", "running", "completed"}, destination : {"demo", "byo"}]
RowStatus == {"none", "pending", "done", "failed"}

\* Names without a slash in front, in the bucket's listing order.
Rest == {f.rest : f \in File}

Key    == [prefix : JobId, rest : Rest]
Object == [key : Key, from : JobId, file : File]
Sweep  == [at : {"off", "list", "delete", "over"}, cursor : Nat, page : SUBSET Key, more : BOOLEAN]
Answer == {"none", "noJob", "byo", "badName", "noFile", "files", "body"}
Call   == [at : {"list", "get", "answered"}, job : JobId, file : File, cursor : Nat,
           found : SUBSET Object, answer : Answer, known : SUBSET File]

NoSweep == [at |-> "off", cursor |-> 0, page |-> {}, more |-> FALSE]

\* Mutant: the prefix is not scoped by the job.
OnePrefix(id) == "output"

\* composePrefix of no bucket prefix and the id.
JobPrefix(id) == id

\* joinKey, and the same in the download route: slashes in front of the name are dropped.
KeyOf(id, f) == [prefix |-> JobPrefix(id), rest |-> f.rest]

\* The objects under a job's prefix from a listing cursor on.
Ahead(id, cursor) == {o \in bucket : o.key.prefix = JobPrefix(id) /\ o.key.rest > cursor}

IsPage(page, ahead) ==
  /\ page \subseteq ahead
  /\ page = ahead \/ Cardinality(page) = PAGE
  /\ Cardinality(page) <= PAGE
  /\ \A o \in page, other \in ahead \ page : o.key.rest < other.key.rest

IsLast(n, page) == (\E o \in page : o.key.rest = n) /\ \A o \in page : o.key.rest <= n

\* A request as it is asked; `known` has the files whose row is done by then.
Asked(j, f, known) == [at |-> "answered", job |-> j, file |-> f, cursor |-> 0, found |-> {},
                       answer |-> "none", known |-> known]

AnyFile == CHOOSE f \in File : TRUE

NoCall == [at |-> "none", found |-> {}, answer |-> "none"]

DoneAmong(j, files) == {f \in files : row[j][f] = "done"}

OutputTypeOK ==
  /\ job \in [JobId -> Job]
  /\ row \in [JobId -> [File -> RowStatus]]
  /\ written \in [JobId -> SUBSET File]
  /\ bucket \subseteq Object
  /\ sweep \in [JobId -> Sweep]
  /\ call \in [Requester -> Call \union {NoCall}]

OutputInit ==
  /\ job     = [j \in JobId |-> [status |-> "none", destination |-> "demo"]]
  /\ row     = [j \in JobId |-> [f \in File |-> "none"]]
  /\ written = [j \in JobId |-> {}]
  /\ bucket  = {}
  /\ sweep   = [j \in JobId |-> NoSweep]
  /\ call    = [c \in Requester |-> NoCall]

-----------------------------------------------------------------------------
Requested == {jf \in JobId \X File : row[jf[1]][jf[2]] # "none"}

(* A job starts and lists the files it will extract.                       *)
Begin(j, destination, selected) ==
  /\ job[j].status = "none"
  /\ Cardinality(Requested) + Cardinality(selected) <= MaxFiles
  /\ job' = [job EXCEPT ![j] = [status |-> "running", destination |-> destination]]
  /\ row' = [row EXCEPT ![j] = [f \in File |-> IF f \in selected THEN "pending" ELSE "none"]]
  /\ UNCHANGED <<written, bucket, sweep, call>>

(* A worker's write lands and replaces what the key held.  After a broken  *)
(* call the worker of a shard already failed may write still.  The bucket  *)
(* of a user is another one.                                               *)
Put(j, f) ==
  /\ row[j][f] \in {"pending", "failed"} /\ f \notin written[j]
  /\ written' = [written EXCEPT ![j] = @ \union {f}]
  /\ bucket'  = IF job[j].destination = "byo" THEN bucket
                ELSE {o \in bucket : o.key # KeyOf(j, f)}
                       \union {[key |-> KeyOf(j, f), from |-> j, file |-> f]}
  /\ UNCHANGED <<job, row, sweep, call>>

(* The coordinator hears that a file is done, or that it or its shard      *)
(* failed.                                                                 *)
RowSettles(j, f, status) ==
  /\ \/ status = "done" /\ row[j][f] \in {"pending", "failed"} /\ f \in written[j]
     \/ status = "failed" /\ row[j][f] = "pending"
  /\ row' = [row EXCEPT ![j][f] = status]
  /\ UNCHANGED <<job, written, bucket, sweep, call>>

Completes(j) ==
  /\ job[j].status = "running"
  /\ \A f \in File : row[j][f] # "pending"
  /\ job' = [job EXCEPT ![j].status = "completed"]
  /\ UNCHANGED <<row, written, bucket, sweep, call>>

(* The alarm of a completed demo job lists a page ...                      *)
SweepLists(j) ==
  /\ job[j] = [status |-> "completed", destination |-> "demo"]
  /\ sweep[j].at \in {"off", "list"}
  /\ \E page \in SUBSET bucket :
       LET ahead == Ahead(j, sweep[j].cursor) IN
       /\ IsPage(page, ahead)
       /\ sweep' = [sweep EXCEPT ![j] =
            [NoSweep EXCEPT !.at = IF page = {} THEN "over" ELSE "delete",
                            !.page = {o.key : o \in page}, !.more = page # ahead]]
  /\ UNCHANGED <<jobVars, bucket, call>>

(* ... and deletes its keys, whatever they hold by now.                    *)
SweepDeletes(j) ==
  /\ sweep[j].at = "delete"
  /\ LET page == {o \in bucket : o.key \in sweep[j].page} IN
     /\ bucket' = bucket \ page
     /\ \/ ~sweep[j].more /\ sweep' = [sweep EXCEPT ![j] = [NoSweep EXCEPT !.at = "over"]]
        \/ /\ sweep[j].more
           /\ \E k \in sweep[j].page :
                /\ \A other \in sweep[j].page : other.rest <= k.rest
                /\ sweep' = [sweep EXCEPT ![j] = [NoSweep EXCEPT !.at = "list", !.cursor = k.rest]]
  /\ UNCHANGED <<jobVars, call>>

-----------------------------------------------------------------------------
(* Both routes begin with the coordinator's report; what they make of it.  *)
Reported(c, j, asked, ofUserBucket, goesOn) ==
  /\ call[c] = NoCall
  /\ call' = [call EXCEPT ![c] =
       CASE job[j].status = "none"     -> [asked EXCEPT !.answer = "noJob"]
         [] job[j].destination = "byo" -> [asked EXCEPT !.answer = ofUserBucket]
         [] OTHER                      -> goesOn]
  /\ UNCHANGED <<jobVars, bucket, sweep>>

(* GET /jobs/:id/files: the list of a job on a user's bucket is empty.     *)
AskFiles(c, j) ==
  LET asked == Asked(j, AnyFile, DoneAmong(j, File))
  IN  Reported(c, j, asked, "files", [asked EXCEPT !.at = "list"])

\* Mutant: only the first page is listed.
FirstPage(page, ahead) == FALSE

Truncated(page, ahead) == page # ahead

(* One page of the listing; the last one is the answer.                    *)
ListFiles(c) ==
  /\ call[c].at = "list"
  /\ \E page \in SUBSET bucket :
       LET ahead == Ahead(call[c].job, call[c].cursor) IN
       /\ IsPage(page, ahead)
       /\ \/ /\ Truncated(page, ahead)
             /\ \E n \in Rest : /\ IsLast(n, page)
                                /\ call' = [call EXCEPT ![c].cursor = n, ![c].found = @ \union page]
          \/ /\ ~Truncated(page, ahead)
             /\ call' = [call EXCEPT ![c].at = "answered", ![c].answer = "files",
                                     ![c].found = @ \union page]
  /\ UNCHANGED <<jobVars, bucket, sweep>>

\* A name that contains ".." is refused.
CheckName(f, asked) ==
  IF f.rest \in Dotted THEN [asked EXCEPT !.answer = "badName"] ELSE [asked EXCEPT !.at = "get"]

(* GET /jobs/:id/files/:name, up to the look into the bucket.              *)
AskFile(c, j, f) ==
  LET asked == Asked(j, f, DoneAmong(j, {f}))
  IN  Reported(c, j, asked, "byo", CheckName(f, asked))

(* The bucket answers the download.                                        *)
GetFile(c) ==
  /\ call[c].at = "get"
  /\ LET object == {o \in bucket : o.key = KeyOf(call[c].job, call[c].file)} IN
     call' = [call EXCEPT ![c].at = "answered", ![c].found = object,
                          ![c].answer = IF object = {} THEN "noFile" ELSE "body"]
  /\ UNCHANGED <<jobVars, bucket, sweep>>

-----------------------------------------------------------------------------
OutputNext ==
  \/ \E j \in JobId :
       \/ \E destination \in {"demo", "byo"}, selected \in SUBSET File :
            Begin(j, destination, selected)
       \/ \E f \in File : Put(j, f) \/ RowSettles(j, f, "done") \/ RowSettles(j, f, "failed")
       \/ Completes(j) \/ SweepLists(j) \/ SweepDeletes(j)
  \/ \E c \in Requester :
       \/ \E j \in JobId : AskFiles(c, j) \/ \E f \in File : AskFile(c, j, f)
       \/ ListFiles(c) \/ GetFile(c)

OutputSpec == OutputInit /\ [][OutputNext]_outputVars

-----------------------------------------------------------------------------
(* "two concurrent jobs can never collide (... serve the wrong download":  *)
(* whatever a client is listed or served was extracted by the job it asked *)
(* for, and a download is the file of that name.                           *)
ServesItsOwn ==
  \A c \in Requester : \A o \in call[c].found :
    /\ o.from = call[c].job
    /\ call[c].answer = "body" => o.file.rest = call[c].file.rest

(* Until its cleanup begins, a listing has every file that was done when   *)
(* the client asked, however many pages it takes and whatever other jobs   *)
(* write or delete meanwhile; and a download of one is served.             *)
DoneCanBeRead ==
  \A c \in Requester :
    (/\ call[c].at = "answered"
     /\ job[call[c].job].destination = "demo" /\ sweep[call[c].job].at = "off") =>
      /\ call[c].answer = "files" =>
           \A f \in call[c].known : \E o \in call[c].found : o.key.rest = f.rest
      /\ call[c].answer = "noFile" => call[c].file \notin call[c].known

(* "overwrite each other's objects, ... or wipe each other's data on       *)
(* cleanup": an object goes only when its own job replaces it or sweeps.   *)
OnlyItsJobTakesIt ==
  [][\A o \in bucket \ bucket' :
       \/ sweep[o.from].at = "delete"
       \/ \E other \in bucket' : other.key = o.key /\ other.from = o.from]_outputVars

-----------------------------------------------------------------------------
(* Said of the program and not so: the README has the behaviours.          *)

(* "stream one extracted object back" (app.ts:19): a done file is never    *)
(* refused.  Names that contain ".." are, though they leave no prefix.     *)
DoneIsNeverRefused ==
  \A c \in Requester : call[c].answer = "badName" => call[c].file \notin call[c].known

(* The object of a done file holds that file: "/a" and "a" share one.      *)
DoneHoldsItsFile ==
  \A c \in Requester : \A o \in call[c].found :
    (call[c].answer = "body" /\ call[c].file \in call[c].known) => o.file = call[c].file

=============================================================================
