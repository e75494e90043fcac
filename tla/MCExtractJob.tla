--------------------------- MODULE MCExtractJob ---------------------------
(* Small instances of the extraction job. *)
EXTENDS JobInvariant

\* Every entry has a name of its own.
NameOfDistinct == [e \in Entry |-> e]

\* Two entries share the first name: it was requested twice, or is twice in the archive.
NameOfShared == [e \in Entry |-> IF e = 2 THEN 1 ELSE e]

=============================================================================
