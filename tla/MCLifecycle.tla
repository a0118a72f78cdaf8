---------------------------- MODULE MCLifecycle -----------------------------
(* Model values for checking Lifecycle. *)
EXTENDS Lifecycle
=============================================================================
