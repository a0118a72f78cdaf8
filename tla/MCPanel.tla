------------------------------ MODULE MCPanel -------------------------------
(* Console, RolePermissions and DiscordGateway in one run.  They share     *)
(* nothing: a behaviour is one of one of them, while the others rest.      *)
(* Nothing of the gateway is enabled in the state it rests in; the         *)
(* console's fairness is restricted to the behaviours that are its own.    *)
EXTENDS Console, RolePermissions, DiscordGateway

VARIABLE part

(* A part of the catalogue: a chain of three permissions, one of admins   *)
(* alone, and a build that adds a requirement at the bottom of the chain. *)
AllPermissions ==
    {"server.view", "console.view", "console.use", "roles.manage", "host.view"}
Entry(requires, roles) == [requires |-> requires, roles |-> roles]
OldCatalog ==
    [p \in AllPermissions \ {"host.view"} |->
        CASE p = "server.view" -> Entry({}, {"admin", "member"})
          [] p = "console.view" -> Entry({"server.view"}, {"admin", "member"})
          [] p = "console.use" -> Entry({"console.view"}, {"admin", "member"})
          [] OTHER -> Entry({}, {"admin"})]
MCCatalog ==
    [b \in Builds |->
        IF b = "old" THEN OldCatalog
        ELSE [p \in AllPermissions |->
                CASE p = "server.view" -> Entry({"host.view"}, {"admin", "member"})
                  [] p = "host.view" -> Entry({}, {"admin", "member"})
                  [] OTHER -> OldCatalog[p]]]
MCDefaults ==
    [b \in Builds |->
        [r \in Roles |->
            IF r = "admin" THEN DOMAIN MCCatalog[b] \ {"roles.manage"}
            ELSE {"server.view"} \cup (DOMAIN MCCatalog[b] \cap {"host.view"})]]

MCInit ==
    /\ part \in {"console", "roles", "gateway"}
    /\ ConsoleInit /\ RolesInit /\ GatewayInit

MCNext ==
    \/ part = "console" /\ ConsoleNext /\ UNCHANGED <<part, roleVars, gatewayVars>>
    \/ part = "roles" /\ RolesNext /\ UNCHANGED <<part, consoleVars, gatewayVars>>
    \/ part = "gateway" /\ GatewayNext /\ UNCHANGED <<part, consoleVars, roleVars>>

Here == part = "console"

MCSpec ==
    /\ MCInit /\ [][MCNext]_<<part, consoleVars, roleVars, gatewayVars>>
    /\ WF_consoleVars(Here /\ (\E echoes \in BOOLEAN : Answers(echoes)))
    /\ WF_consoleVars(Here /\ Poll)
    /\ WF_consoleVars(Here /\ SuppressionEnds)
    /\ WF_consoleVars(Here /\ LeaseEnds)
    /\ WF_consoleVars(Here /\ readConsole)
    /\ WF_consoleVars(Here /\ attachConsole)
    /\ WF_consoleVars(Here /\ Replays)
    /\ WF_consoleVars(Here /\ handleConsoleLine)
    /\ WF_consoleVars(Here /\ handleInternalConsoleLine)
    /\ GatewayFairness
=============================================================================
