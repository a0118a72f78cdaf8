------------------------------- MODULE MCHost -------------------------------
(* Backups, OpLock, the lock the backup jobs take, and Playit, the parts    *)
(* that work on the host's files and services, in one run.  Backups models *)
(* what the lock is to its holders, so that the three share no state: a    *)
(* behaviour is one of one of them.  OpLock has three goroutines: two in   *)
(* the control plane, one in the process that dies.                        *)
EXTENDS Backups, OpLock, Playit, TLC

CONSTANTS a1, a2, a3, before, after

VARIABLE part

MCPidOf == (a1 :> after) @@ (a2 :> after) @@ (a3 :> before)
MCSymmetry == Permutations(Ids)

MCInit ==
    /\ part \in {"backups", "lock", "playit"} /\ BackupsInit /\ Init /\ PlayitInit
    /\ part = "backups" \/ (server /\ panel)
    /\ part = "playit" \/ userManager

MCNext ==
    \/ part = "backups" /\ BackupsNext /\ UNCHANGED <<part, lockVars, playitVars>>
    \/ part = "lock" /\ Next /\ UNCHANGED <<part, backupVars, playitVars>>
    \/ part = "playit" /\ PlayitNext /\ UNCHANGED <<part, backupVars, lockVars>>

MCSpec == MCInit /\ [][MCNext]_<<part, backupVars, lockVars, playitVars>>
=============================================================================
