------------------------------ MODULE MCPlayit ------------------------------
(* Playit for model checking. *)
EXTENDS Playit
=============================================================================
