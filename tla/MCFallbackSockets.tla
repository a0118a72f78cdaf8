-------------------------- MODULE MCFallbackSockets --------------------------
(* ControlPlane without systemd (one request of the web process) and       *)
(* Sockets in one run.  They share nothing: a behaviour is one of the one  *)
(* or of the other.  No fair action of either is enabled in the state it   *)
(* rests in, so neither's fairness takes a behaviour from the other.       *)
EXTENDS ControlPlane, Sockets, TLC

CONSTANTS r1, web

VARIABLE part

OneRequest == r1 :> web

MCInit == part \in {"lifecycle", "sockets"} /\ Init /\ SocketsInit

MCNext ==
    \/ part = "lifecycle" /\ Next /\ UNCHANGED <<part, socketVars>>
    \/ part = "sockets" /\ SocketsNext /\ UNCHANGED <<part, vars>>

MCSpec ==
    MCInit /\ [][MCNext]_<<part, vars, socketVars>> /\ RequestFairness /\ SocketsFairness
=============================================================================
