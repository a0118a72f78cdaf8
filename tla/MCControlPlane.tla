--------------------------- MODULE MCControlPlane ---------------------------
(* Two requests of the web process. *)
EXTENDS ControlPlane, TLC

CONSTANTS r1, r2, web

OneProcess == (r1 :> web) @@ (r2 :> web)
=============================================================================
