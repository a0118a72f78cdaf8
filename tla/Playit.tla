------------------------------- MODULE Playit -------------------------------
(***************************************************************************)
(* The Playit.gg integration: the one settings row (playit.Store), the     *)
(* handlers that talk to the provider under playitMu, the refresh that     *)
(* talks to it without, and the agent that runs as a user service or       *)
(* inside the control plane.  Addresses, ports, names and agent ids are    *)
(* left out; a tunnel is a number in the order the provider made them.     *)
(***************************************************************************)
EXTENDS Naturals

CONSTANTS
    MaxTunnels,     \* bound: tunnels the provider makes
    MaxReboots      \* bound: how often the control plane is restarted

ASSUME PlayitAssumption == MaxTunnels \in Nat /\ MaxReboots \in Nat

NoTunnel == 0

VARIABLES
    settings,   \* the row: enabled, mode ("none", "external" or "bonghos"), linked (it
                \* has a secret), tunnel, claim
    holder,     \* the request that holds playitMu: where it is, and its tunnel
    refresh,    \* the tunnel a refresh read from the row, while it asks the provider
    account,    \* the tunnels that exist at the provider
    unit,       \* bonghos-playit.service: "off", "checking", "on", "waiting"
    foreground, \* the agent inside the control plane: "off", "on", "waiting"
    files,      \* the agent's credential and socket are in the runtime directory
    userManager,\* systemd.Available()
    boot,       \* bootPlayit: "read", then what it read until it has acted, "done"
    reboots,
    untracked,  \* tunnels whose identifier a lost reply, a death or a stale save cost
    leftRunning \* the agent was left running by a stop that failed or a stale boot

playitVars == <<settings, holder, refresh, account, unit, foreground, files, userManager,
                boot, reboots, untracked, leftRunning>>
agentVars == <<unit, foreground, files, leftRunning>>

NoHolder == [at |-> "free", tunnel |-> NoTunnel]

PlayitInit ==
    /\ settings = [enabled |-> FALSE, mode |-> "none", linked |-> FALSE,
                   tunnel |-> NoTunnel, claim |-> FALSE]
    /\ holder = NoHolder /\ refresh = NoTunnel /\ account = {}
    /\ unit = "off" /\ foreground = "off" /\ files = FALSE
    /\ userManager \in BOOLEAN /\ boot = "read" /\ reboots = 0
    /\ untracked = {} /\ leftRunning = FALSE

-----------------------------------------------------------------------------
(* The agent.                                                              *)
ShouldRun == settings.enabled /\ settings.mode = "bonghos" /\ settings.linked

IsActive == unit \in {"checking", "on"}

AgentRunning == files /\ (unit = "on" \/ foreground = "on")

\* With a user manager the service, or the control plane itself when the service
\* does not start; fg and rt are what was left of the agent inside and the files.
StartManagedAgent(fg, rt) ==
    \/ /\ userManager
       /\ unit' = IF IsActive THEN unit ELSE "checking"
       /\ foreground' = fg /\ files' = rt
    \/ /\ foreground' = IF fg = "off" THEN "on" ELSE fg
       /\ files' = (fg = "off" \/ (rt /\ unit # "on"))
       /\ unit' = "off"

StopServiceOnly ==
    /\ files' = FALSE /\ unit' = IF IsActive THEN "off" ELSE unit
    /\ leftRunning' = FALSE /\ UNCHANGED foreground

\* stopForegroundPlayit, then the service if it is active, then CleanupRuntime.
StopManagedAgent ==
    /\ foreground' = "off" /\ files' = FALSE
    /\ unit' = IF IsActive THEN "off" ELSE unit
    /\ leftRunning' = FALSE

CannotStopService ==
    /\ userManager /\ IsActive
    /\ foreground' = "off" /\ files' = FALSE /\ leftRunning' = TRUE
    /\ UNCHANGED unit

reconcilePlayitService ==
    \/ /\ ShouldRun /\ UNCHANGED leftRunning
       /\ IF userManager THEN StartManagedAgent("off", FALSE)  \* stopForegroundPlayit
                         ELSE StartManagedAgent(foreground, files)
    \/ ShouldRun /\ UNCHANGED agentVars             \* playitd is not installed
    \/ ~ShouldRun /\ (StopManagedAgent \/ CannotStopService)

\* The in-process loop: run playitd, and again five seconds after it ended.
ForegroundLoop ==
    /\ \/ foreground = "on" /\ foreground' = "waiting" /\ files' = FALSE
       \/ foreground = "waiting" /\ foreground' = "on" /\ files' = TRUE
    /\ UNCHANGED <<settings, holder, refresh, account, unit, userManager, boot, reboots,
                   untracked, leftRunning>>

\* The service asks the settings whether it should run before it does.
cmdPlayitAgent ==
    /\ \/ /\ unit = "checking"
          /\ unit' = IF ShouldRun THEN "on" ELSE "waiting"
          /\ files' = (files \/ ShouldRun)
       \/ unit = "on" /\ unit' = "waiting" /\ files' = FALSE
       \/ unit = "waiting" /\ unit' = "checking" /\ UNCHANGED files
    /\ UNCHANGED <<settings, holder, refresh, account, foreground, userManager, boot, reboots,
                   untracked, leftRunning>>

\* bootPlayit reads the settings and acts on what it read, without playitMu.
bootPlayit ==
    /\ \/ /\ boot = "read" /\ boot' = (IF ShouldRun THEN "run" ELSE "stop")
          /\ UNCHANGED agentVars
       \/ /\ boot = "run" /\ boot' = "done"
          /\ \/ StartManagedAgent(foreground, files) /\ leftRunning' = (leftRunning \/ ~ShouldRun)
             \/ UNCHANGED agentVars                 \* playitd is not installed
       \/ /\ boot = "stop" /\ boot' = "done"
          /\ StopManagedAgent \/ CannotStopService
    /\ UNCHANGED <<settings, holder, refresh, account, userManager, reboots, untracked>>

-----------------------------------------------------------------------------
(* The handlers under playitMu.  A call to the provider may fail before or *)
(* after it took effect.                                                   *)
Unlocked == UNCHANGED <<refresh, userManager, boot, reboots>>
LockFree == holder = NoHolder
MoveTo(at, t) == holder' = [at |-> at, tunnel |-> t]
Finish == holder' = NoHolder

SaveExternalConfig(on) ==
    settings' = [settings EXCEPT !.enabled = on, !.mode = "external", !.claim = FALSE]

SetPreference(on, mode) ==
    /\ on => mode # "none"
    /\ settings' = [settings EXCEPT !.enabled = on, !.mode = mode, !.claim = @ /\ on]

PlayitUpdate ==
    /\ LockFree /\ MoveTo("reconcile", NoTunnel)
    /\ \E on \in BOOLEAN :
        \/ SaveExternalConfig(on)
        \/ \E mode \in {"none", "bonghos"} : SetPreference(on, mode)
    /\ UNCHANGED <<account, agentVars, untracked>> /\ Unlocked

Reconcile ==
    /\ holder.at = "reconcile" /\ reconcilePlayitService /\ Finish
    /\ UNCHANGED <<settings, account, untracked>> /\ Unlocked

BeginClaim == settings' = [settings EXCEPT !.mode = "bonghos", !.claim = TRUE]

PlayitClaimStart ==
    /\ LockFree /\ BeginClaim
    /\ UNCHANGED <<holder, account, agentVars, untracked>> /\ Unlocked

\* CancelClaim, after the user's refusal or twenty minutes.
ClaimEnds ==
    /\ LockFree /\ settings.claim /\ settings' = [settings EXCEPT !.claim = FALSE]
    /\ UNCHANGED <<holder, account, agentVars, untracked>> /\ Unlocked

\* The user accepted: the old agent's tunnel goes first.
PlayitClaimPoll ==
    /\ LockFree /\ settings.claim
    /\ IF settings.tunnel # NoTunnel /\ settings.linked
       THEN MoveTo("unlink", settings.tunnel)
       ELSE MoveTo("exchange", NoTunnel)
    /\ UNCHANGED <<settings, account, agentVars, untracked>> /\ Unlocked

ClearTunnel == settings' = [settings EXCEPT !.tunnel = NoTunnel]

DeleteTakesAnyError(t, then) ==
    account' \in {account, account \ {t}} /\ ClearTunnel /\ then

\* DeleteTunnel and ClearTunnel, when a relink (then = "exchange") or the user
\* deletes the tunnel; one that is not there any more counts as deleted.
DeleteTunnel(t, then) ==
    \/ account' = account \ {t} /\ ClearTunnel /\ then
    \/ account' \in {account, account \ {t}} /\ Finish /\ UNCHANGED settings

Relink ==
    /\ holder.at = "unlink" /\ DeleteTunnel(holder.tunnel, MoveTo("exchange", NoTunnel))
    /\ UNCHANGED <<agentVars, untracked>> /\ Unlocked

CompleteClaim ==
    /\ holder.at = "exchange"
    /\ \/ /\ settings' = [settings EXCEPT !.mode = "bonghos", !.linked = TRUE,
                                          !.tunnel = NoTunnel, !.claim = FALSE]
          /\ MoveTo("reconcile", NoTunnel)
       \/ Finish /\ UNCHANGED settings              \* ClaimExchange failed
    /\ UNCHANGED <<account, agentVars, untracked>> /\ Unlocked

PlayitTunnelDelete ==
    /\ LockFree /\ settings.tunnel # NoTunnel /\ settings.linked /\ settings.mode = "bonghos"
    /\ DeleteTunnel(settings.tunnel, Finish)
    /\ UNCHANGED <<agentVars, untracked>> /\ Unlocked

PlayitTunnel ==
    /\ LockFree /\ ShouldRun /\ AgentRunning
    /\ MoveTo(IF settings.tunnel = NoTunnel THEN "create" ELSE "port", settings.tunnel)
    /\ UNCHANGED <<settings, account, agentVars, untracked>> /\ Unlocked

SyncPlayitTunnelPort ==
    /\ LockFree /\ ShouldRun /\ AgentRunning /\ settings.tunnel # NoTunnel
    /\ MoveTo("sync", settings.tunnel)
    /\ UNCHANGED <<settings, account, agentVars, untracked>> /\ Unlocked

\* The tunnel handler replaces a tunnel that is gone, the sync forgets it.
UpdateTunnelPort ==
    /\ holder.at \in {"port", "sync"}
    /\ \/ holder.tunnel \in account /\ MoveTo("save", holder.tunnel) /\ UNCHANGED settings
       \/ /\ holder.tunnel \notin account /\ ClearTunnel
          /\ IF holder.at = "port" THEN MoveTo("create", NoTunnel) ELSE Finish
       \/ Finish /\ UNCHANGED settings              \* any other error
    /\ UNCHANGED <<account, agentVars, untracked>> /\ Unlocked

NewTunnel == CHOOSE t \in 1..(MaxTunnels + 1) :
                 t \notin account \cup untracked /\ t \notin {settings.tunnel, refresh}

CreateMinecraftTunnel ==
    /\ holder.at = "create"
    /\ \/ /\ NewTunnel <= MaxTunnels /\ account' = account \cup {NewTunnel}
          /\ \/ MoveTo("save", NewTunnel) /\ UNCHANGED untracked
             \/ Finish /\ untracked' = untracked \cup {NewTunnel}
       \/ Finish /\ UNCHANGED <<account, untracked>>
    /\ UNCHANGED <<settings, agentVars>> /\ Unlocked

SaveTunnel(t) == settings' = [settings EXCEPT !.tunnel = t]

TunnelSaved ==
    /\ holder.at = "save" /\ SaveTunnel(holder.tunnel) /\ Finish
    /\ UNCHANGED <<account, agentVars, untracked>> /\ Unlocked

-----------------------------------------------------------------------------
(* A refresh holds no lock between reading the row and writing it back.    *)
PlayitRefresh ==
    /\ \/ /\ refresh = NoTunnel /\ ShouldRun /\ AgentRunning
          /\ refresh' = settings.tunnel /\ UNCHANGED <<settings, untracked>>
       \/ /\ refresh # NoTunnel /\ refresh' = NoTunnel
          /\ \/ UNCHANGED <<settings, untracked>>   \* RunData failed
             \/ /\ SaveTunnel(refresh)
                /\ untracked' = untracked \cup
                       ((account \cap {settings.tunnel}) \ {refresh})
    /\ UNCHANGED <<holder, account, agentVars, userManager, boot, reboots>>

(* The user deletes a tunnel on the provider's site.                       *)
ProviderDeletes ==
    /\ \E t \in account : account' = account \ {t}
    /\ UNCHANGED <<settings, holder, refresh, agentVars, userManager, boot, reboots, untracked>>

(* The control plane dies and is started again.                            *)
ControlPlaneDies ==
    /\ reboots < MaxReboots /\ reboots' = reboots + 1
    /\ Finish /\ refresh' = NoTunnel /\ foreground' = "off" /\ boot' = "read"
    /\ untracked' = untracked \cup (IF holder.at = "save" THEN {holder.tunnel} ELSE {})
    /\ UNCHANGED <<settings, account, unit, files, userManager, leftRunning>>

PlayitNext ==
    \/ ForegroundLoop \/ cmdPlayitAgent \/ bootPlayit
    \/ PlayitUpdate \/ Reconcile \/ PlayitClaimStart \/ ClaimEnds
    \/ PlayitClaimPoll \/ Relink \/ CompleteClaim
    \/ PlayitTunnelDelete \/ PlayitTunnel \/ SyncPlayitTunnelPort \/ UpdateTunnelPort
    \/ CreateMinecraftTunnel \/ TunnelSaved
    \/ PlayitRefresh \/ ProviderDeletes \/ ControlPlaneDies

PlayitSpec == PlayitInit /\ [][PlayitNext]_playitVars

-----------------------------------------------------------------------------
\* A tunnel that exists at the provider is the one in the settings or in the
\* hands of the request that made it, so that a relink or a deletion reaches it
\* and the next one is no second tunnel beside it; unless its identifier was
\* never received, died with the control plane, or was overwritten by a refresh
\* that had read the row before.
TunnelsAreKnown ==
    \A t \in account \ untracked :
        settings.tunnel = t \/ (holder.at = "save" /\ holder.tunnel = t)

\* Once a request has switched the managed agent off (or away) and answered, no
\* agent runs and its credential is not on disk; unless the service could not
\* be stopped, or bootPlayit started the agent on settings it read before.
DisabledMeansStopped ==
    LockFree /\ boot = "done" /\ ~ShouldRun /\ ~leftRunning =>
        foreground = "off" /\ unit # "on" /\ ~files

\* No connection to the agent's socket means that it is stopped or starting:
\* saving the settings does not take the socket from the service agent it leaves
\* running.
SaveKeepsTheSocket ==
    [][Reconcile /\ unit = "on" /\ unit' = "on" /\ files => files']_playitVars
=============================================================================
