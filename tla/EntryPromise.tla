---------------------------- MODULE EntryPromise ----------------------------
(***************************************************************************)
(* What the extraction of one entry promises to the worker that asked for  *)
(* it, and what module ExtractWorker relies on: it succeeds only when the  *)
(* whole object is in the bucket; when it fails the bucket holds nothing   *)
(* or, if the failure came after the write, the whole object; a call that  *)
(* was still on its way may land after the failure was reported.           *)
(***************************************************************************)
VARIABLES
  outcome,  \* of the extraction: "running", "done" or "failed"
  object    \* what the bucket holds: "none", "part" or "whole"

promiseVars == <<outcome, object>>

Init == outcome = "running" /\ object = "none"

\* The object appears, in one piece, before or after the extraction has failed.
Land ==
  /\ outcome \in {"running", "failed"} /\ object = "none"
  /\ object' = "whole"
  /\ UNCHANGED outcome

Succeed ==
  /\ outcome = "running"
  /\ outcome' = "done" /\ object' = "whole"

Fail ==
  /\ outcome = "running"
  /\ outcome' = "failed" /\ object' \in {object, "whole"}

Next == Land \/ Succeed \/ Fail

Spec == Init /\ [][Next]_promiseVars

=============================================================================
