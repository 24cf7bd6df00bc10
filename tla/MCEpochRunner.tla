------------------------------ MODULE MCEpochRunner ------------------------------
(* Small instances of EpochRunner for TLC. *)
EXTENDS EpochRunner

OneProvider == [b \in Batches |-> CHOOSE a \in Accounts : TRUE]
================================================================================
