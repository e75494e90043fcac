-------------------------- MODULE MCExtractEntry --------------------------
(* Small instances of one entry's extraction. *)
EXTENDS ExtractEntry

=============================================================================
