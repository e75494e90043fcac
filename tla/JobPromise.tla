----------------------------- MODULE JobPromise -----------------------------
(***************************************************************************)
(* What a job promises to the client that started it and polls its report: *)
(* it runs, every requested file moves forward on its own from pending to  *)
(* done or failed and stays there, and the job is completed in the same    *)
(* instant its last file is settled, never before.  It fails before any    *)
(* file was listed, when the archive's index could not be read, or in that *)
(* instant, when the cleanup of its output could not be scheduled.  A job  *)
(* that could not even begin stays pending, with no file listed.           *)
(*                                                                         *)
(* Nothing is said of workers, reports or shards.  Module JobProperties    *)
(* shows the coordinator and its workers to implement this.                *)
(***************************************************************************)
CONSTANT Name

VARIABLES
  status,  \* the job's status
  row      \* per name: the status of its file, "none" when it is not listed

promiseVars == <<status, row>>

Settled == {"done", "failed"}

RowsTypeOK == row \in [Name -> {"none", "pending", "extracting"} \union Settled]

Listed == {n \in Name : row[n] # "none"}

Init ==
  /\ status = "none"
  /\ row = [n \in Name |-> "none"]

Begin ==
  /\ status = "none" /\ status' \in {"pending", "running"}
  /\ UNCHANGED row

\* The index is read: the files are listed.  With nothing to extract the job is over.
List ==
  /\ status = "running" /\ Listed = {}
  /\ row' \in [Name -> {"none", "pending"}]
  /\ status' \in IF row' = row THEN {"completed", "failed"} ELSE {"running"}

\* The index cannot be read.
Refuse ==
  /\ status = "running" /\ Listed = {}
  /\ status' = "failed"
  /\ UNCHANGED row

\* Each listed file stays where it is or moves forward; a settled one stays.
Forward ==
  \A n \in Name : \/ row'[n] = row[n]
                  \/ /\ row[n] \in {"pending", "extracting"}
                     /\ row'[n] \in {"extracting"} \union Settled

Progress ==
  /\ status = "running" /\ Listed # {}
  /\ RowsTypeOK' /\ Forward
  /\ status' \in {"running", "completed", "failed"}
  /\ status' # "running" => \A n \in Listed : row'[n] \in Settled

Next == Begin \/ List \/ Refuse \/ Progress

Spec == Init /\ [][Next]_promiseVars

\* A job that runs comes to an end.
Ends == (status = "running") ~> (status \in {"completed", "failed"})

=============================================================================
