----------------------------- MODULE MCLifecycle -----------------------------
(***************************************************************************)
(* Instances of Lifecycle for TLC: one record, one day, one restart.        *)
(***************************************************************************)
EXTENDS Lifecycle

=============================================================================
