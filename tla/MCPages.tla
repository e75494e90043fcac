------------------------------ MODULE MCPages ------------------------------
(* Three parts of what a browser works with, each by itself: they share    *)
(* neither state nor messages, and a behaviour is one of one of them.      *)
EXTENDS ByoForm, AdminPage, JobOutput, TLC

VARIABLE part

Plain(n)   == [slash |-> FALSE, rest |-> n]
Slashed(n) == [slash |-> TRUE, rest |-> n]

\* Two names that share a key, and one that a download refuses.
Names == {Plain(1), Slashed(1), Plain(2)}

\* Codes, forms, checks and ids are compared only.
Interchangeable ==
  UNION {Permutations(Forms), Permutations(Checks), Permutations(AccessCode), Permutations(JobId)}

\* The parts that do not move begin in one state only.
AtRest ==
  /\ part # "admin" => session

PagesInit == part \in {"form", "admin", "output"} /\ FormInit /\ AdminInit /\ OutputInit /\ AtRest

PagesNext ==
  /\ UNCHANGED part
  /\ \/ part = "form"   /\ FormNext   /\ UNCHANGED <<adminVars, outputVars>>
     \/ part = "admin"  /\ AdminNext  /\ UNCHANGED <<formVars, outputVars>>
     \/ part = "output" /\ OutputNext /\ UNCHANGED <<formVars, adminVars>>

PagesSpec == PagesInit /\ [][PagesNext]_<<part, formVars, adminVars, outputVars>>

=============================================================================
