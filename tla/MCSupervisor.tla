---------------------------- MODULE MCSupervisor ----------------------------
(* Small instances of Supervisor; the cfgs choose threads, policy, bounds. *)
EXTENDS Supervisor
=============================================================================
