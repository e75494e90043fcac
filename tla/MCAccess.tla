------------------------------ MODULE MCAccess ------------------------------
(* Access with interchangeable codes, requests, tokens and jobs. *)
EXTENDS Access, TLC

SymmetricIds ==
  Permutations(Codes) \cup Permutations(Requests) \cup Permutations(Tokens) \cup Permutations(Jobs)

=============================================================================
