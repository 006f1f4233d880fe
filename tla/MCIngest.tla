------------------------------ MODULE MCIngest ------------------------------
(***************************************************************************)
(* Instances of Ingest for TLC: two records, two days, batches of two.      *)
(***************************************************************************)
EXTENDS Ingest

=============================================================================
