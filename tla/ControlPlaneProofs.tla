-------------------------- MODULE ControlPlaneProofs --------------------------
(***************************************************************************)
(* Theorems about ControlPlane, for any number of requests, supervisors    *)
(* and Minecraft processes.                                                *)
(***************************************************************************)
EXTENDS ControlPlane, FiniteSetTheorems, TLAPS

USE DEF agentVars, supVars, hostVars, vars

\* The record that is written is one, and it is the only one.
LEMMA PersistType ==
    ASSUME NEW st \in {"starting", "running", "stopping", "stopped", "crashed"},
           NEW p \in 0..MaxServers, Persist(st, p)
    PROVE  file' \in {{}} \cup {{f} : f \in Records}
<1>1. [state |-> st, pid |-> p] \in Records
  BY DEF Records
<1> QED BY <1>1 DEF Persist

\* The end of a request and a change of its line keep the types of its variables.
LEMMA FinishType ==
    ASSUME TypeOK, NEW a \in Agents, Finish(a) PROVE TypeOK'
BY DEF TypeOK, Finish, Goto, Lines

LEMMA MovesType ==
    ASSUME TypeOK, NEW a \in Agents, NEW line \in Lines, Goto(a, line), OnlyMoves PROVE TypeOK'
BY DEF TypeOK, Goto, OnlyMoves

\* Every variable keeps its type.
THEOREM TypeCorrect == Spec => []TypeOK
<1> USE ProcAssumption, BoundsAssumption, SystemdAssumption, JobsAssumption
<1>1. Init => TypeOK
  BY DEF Init, TypeOK, Lines, Phases, Sups
<1>2. TypeOK /\ [Next]_vars => TypeOK'
  <2> SUFFICES ASSUME TypeOK, [Next]_vars PROVE TypeOK'
    OBVIOUS
  <2>1. ASSUME NEW s \in Sups, SupStep(s) PROVE TypeOK'
    <3>0. mine[s] \in 0..MaxServers
      BY DEF TypeOK
    <3> USE DEF Become
    <3>1. CASE SupBoot(s)
      <4>1. phase' \in [Sups -> Phases]
        BY <3>1 DEF SupBoot, TypeOK, Phases
      <4>2. sock' \in 0..MaxSups
        BY <3>1 DEF SupBoot, TypeOK, Sups
      <4> QED BY <3>1, <4>1, <4>2 DEF SupBoot, TypeOK
    <3>2. CASE SupHead(s)
      <4>1. file' \in {{}} \cup {{f} : f \in Records}
        BY <3>0, <3>2, PersistType DEF SupHead
      <4> QED BY <3>2, <4>1 DEF SupHead, TypeOK, Phases
    <3>3. CASE SupSpawn(s)
      <4>1. servers' \in 0..MaxServers /\ servers' \in 1..MaxServers
        BY <3>3 DEF SupSpawn, TypeOK
      <4> QED BY <3>3, <4>1 DEF SupSpawn, TypeOK, Phases
    <3>4. CASE SupRecord(s)
      <4>1. file' \in {{}} \cup {{f} : f \in Records}
        BY <3>0, <3>4, PersistType DEF SupRecord
      <4> QED BY <3>4, <4>1 DEF SupRecord, TypeOK, Phases
    <3>5. CASE SupReady(s)
      <4>1. file' \in {{}} \cup {{f} : f \in Records}
        BY <3>0, <3>5, PersistType DEF SupReady
      <4> QED BY <3>5, <4>1 DEF SupReady, TypeOK, Phases
    <3>6. CASE SupVerdict(s)
      <4>1. file' \in {{}} \cup {{f} : f \in Records}
        BY <3>0, <3>6, PersistType DEF SupVerdict
      <4>2. phase' \in [Sups -> Phases] /\ intent' \in [Sups -> BOOLEAN]
        BY <3>6 DEF SupVerdict, TypeOK, Phases
      <4> QED BY <3>6, <4>1, <4>2 DEF SupVerdict, TypeOK
    <3>7. CASE SupBackoffOver(s) BY <3>7 DEF SupBackoffOver, TypeOK, Phases
    <3>8. CASE SupStop(s)
      <4>1. file' \in {{}} \cup {{f} : f \in Records}
        <5>1. CASE phase[s] \in {"head", "backoff", "return", "looping"}
          BY <3>8, <5>1 DEF SupStop, TypeOK
        <5>2. CASE phase[s] \notin {"head", "backoff", "return", "looping"}
          <6>1. Persist("stopping", IF phase[s] = "record" THEN 0 ELSE mine[s])
            BY <3>8, <5>2 DEF SupStop
          <6>2. (IF phase[s] = "record" THEN 0 ELSE mine[s]) \in 0..MaxServers
            BY <3>0
          <6> QED BY <6>1, <6>2, PersistType
        <5> QED BY <5>1, <5>2
      <4>2. /\ phase' \in [Sups -> Phases] /\ intent' \in [Sups -> BOOLEAN]
            /\ told' \in [Sups -> SUBSET {"stop", "force"}]
        BY <3>8 DEF SupStop, TypeOK, Phases
      <4> QED BY <3>8, <4>1, <4>2 DEF SupStop, TypeOK
    <3>9. CASE SupEscalate(s) BY <3>9 DEF SupEscalate, TypeOK
    <3>10. CASE SupForceStop(s) BY <3>10 DEF SupForceStop, TypeOK
    <3>11. CASE SupExit(s) BY <3>11 DEF SupExit, TypeOK, Phases
    <3> QED BY <2>1, <3>1, <3>2, <3>3, <3>4, <3>5, <3>6, <3>7, <3>8, <3>9, <3>10, <3>11
            DEF SupStep
  <2>2. ASSUME NEW p \in mcs, McExit(p) PROVE TypeOK'
    BY <2>2 DEF McExit, TypeOK
  <2>3. ASSUME Spawn PROVE last' \in 0..MaxSups /\ phase' \in [Sups -> Phases]
    BY <2>3 DEF Spawn, Become, TypeOK, Phases, Sups
  <2>4. CASE UnitRestart
    BY <2>3, <2>4 DEF UnitRestart, TypeOK
  <2>5. CASE UnitKill
    BY <2>5 DEF UnitKill, Become, TypeOK, Phases
  <2>6. ASSUME NEW a \in Agents, NEW j \in Jobs, Request(a, j) PROVE TypeOK'
    <3>1. pc' \in [Agents -> Lines] /\ busy' \in [Procs -> Agents \cup {Nobody}]
      BY <2>6 DEF Request, TypeOK, Goto, TakeLock, Lines
    <3> QED BY <2>6, <3>1 DEF Request, TypeOK
  <2>7. ASSUME StartUnit PROVE /\ unit' \in {"inactive", "active", "stopping", "waiting"}
                               /\ last' \in 0..MaxSups /\ phase' \in [Sups -> Phases]
                               /\ UNCHANGED <<mine, intent, told>>
    BY <2>3, <2>7 DEF StartUnit, TypeOK
  <2>8. ASSUME StopUnit PROVE /\ unit' \in {"inactive", "active", "stopping", "waiting"}
                              /\ told' \in [Sups -> SUBSET {"stop", "force"}]
    BY <2>8 DEF StopUnit, TypeOK
  <2>9. ASSUME NEW a \in Agents, AgentStep(a) PROVE TypeOK'
    <3>0. ASSUME NEW line \in Lines, Goto(a, line) PROVE pc' \in [Agents -> Lines]
      BY <3>0 DEF Goto, TypeOK
    <3>1. CASE Finish(a)
      BY <3>1, FinishType
    <3>2. ASSUME NEW line \in Lines, Goto(a, line), OnlyMoves PROVE TypeOK'
      BY <3>2, MovesType
    <3>3. CASE Wipe(a)
      <4>1. pc' \in [Agents -> Lines]
        BY <3>0, <3>3 DEF Wipe, Lines
      <4> QED BY <3>3, <4>1 DEF Wipe, TypeOK
    <3>4. CASE Launch(a)
      <4>1. pc' \in [Agents -> Lines]
        BY <3>0, <3>4 DEF Launch, Lines
      <4>2. CASE Systemd
        BY <2>7, <3>4, <4>1, <4>2 DEF Launch, TypeOK
      <4>3. CASE ~Systemd
        BY <2>3, <3>4, <4>1, <4>3 DEF Launch, TypeOK
      <4> QED BY <4>2, <4>3
    <3>5. CASE Dial(a)
      <4>1. pc' \in [Agents -> Lines]
        BY <3>0, <3>5 DEF Dial, Lines
      <4>2. /\ unit' \in {"inactive", "active", "stopping", "waiting"}
            /\ told' \in [Sups -> SUBSET {"stop", "force"}]
        BY <2>8, <3>5 DEF Dial, Tell, TypeOK
      <4> QED BY <3>5, <4>1, <4>2 DEF Dial, TypeOK
    <3>6. CASE KillPgid(a) \/ SeesDown(a)
      <4>1. pc' \in [Agents -> Lines]
        BY <3>0, <3>6 DEF KillPgid, SeesDown, Lines
      <4>2. /\ unit' \in {"inactive", "active", "stopping", "waiting"}
            /\ told' \in [Sups -> SUBSET {"stop", "force"}]
        BY <2>8, <3>6 DEF KillPgid, SeesDown, TypeOK
      <4>3. mcs' \subseteq 1..MaxServers
        BY <3>6 DEF KillPgid, SeesDown, TypeOK
      <4> QED BY <3>6, <4>1, <4>2, <4>3 DEF KillPgid, SeesDown, TypeOK
    <3>7. CASE Stopped(a)
      <4>1. CASE Finish(a)
        BY <3>1, <4>1
      <4>2. CASE /\ Goto(a, "check") /\ job' = [job EXCEPT ![a] = "start"] /\ job[a] = "restart"
                 /\ UNCHANGED <<busy, opLock, supVars, hostVars>>
        <5>1. pc' \in [Agents -> Lines]
          BY <3>0, <4>2 DEF Lines
        <5> QED BY <4>2, <5>1 DEF TypeOK
      <4> QED BY <3>7, <4>1, <4>2 DEF Stopped
    <3>8. CASE TakeOpLock(a)
      <4>1. pc' \in [Agents -> Lines]
        BY <3>8 DEF TakeOpLock, Finish, Goto, TypeOK, Lines
      <4> QED BY <3>1, <3>8, <4>1 DEF TakeOpLock, TypeOK
    <3>9. CASE ResetLock(a)
      <4>1. CASE Finish(a)
        BY <3>1, <4>1
      <4>2. CASE LockFree(a) /\ TakeLock(a) /\ Goto(a, "recheck") /\ UNCHANGED <<opLock, job, supVars, hostVars>>
        <5>1. pc' \in [Agents -> Lines]
          BY <3>0, <4>2 DEF Lines
        <5> QED BY <4>2, <5>1 DEF TakeLock, TypeOK
      <4> QED BY <3>9, <4>1, <4>2 DEF ResetLock
    <3>10. CASE Safety(a)
      <4>1. CASE Finish(a)
        BY <3>1, <4>1
      <4>2. CASE ~Finish(a)
        <5>1. pc' \in [Agents -> Lines]
          BY <3>0, <3>10, <4>2 DEF Safety, Lines
        <5> QED BY <3>10, <4>2, <5>1 DEF Safety, TypeOK
      <4> QED BY <4>1, <4>2
    <3>11. CASE \/ Check(a) \/ NotStartable(a) \/ Clear(a) \/ LaunchFails(a) \/ Await(a) \/ DialFails(a)
                \/ Halted(a) \/ StopTimesOut(a) \/ UnitStopped(a) \/ Begin(a) \/ Recheck(a) \/ Replaced(a)
      <4>1. Finish(a) \/ \E line \in Lines : Goto(a, line) /\ OnlyMoves
        BY <3>11 DEF Check, NotStartable, Clear, LaunchFails, Await, DialFails, Halted,
                     StopTimesOut, UnitStopped, Begin, Recheck, Replaced, Lines
      <4> QED BY <3>1, <3>2, <4>1
    <3> QED BY <2>9, <3>3, <3>4, <3>5, <3>6, <3>7, <3>8, <3>9, <3>10, <3>11 DEF AgentStep
  <2>10. CASE UNCHANGED vars
    BY <2>10 DEF TypeOK
  <2> QED BY <2>1, <2>2, <2>4, <2>5, <2>6, <2>9, <2>10 DEF Next
<1> QED BY <1>1, <1>2, PTL DEF Spec

-----------------------------------------------------------------------------
\* Under systemd the unit has the only supervisor: the last one spawned.  It
\* lives while the unit is active or stopping and is gone otherwise, and a
\* Minecraft process is the one it has recorded, or is about to record.
OnlyTheLast == \A s \in Sups : Alive(s) => s = last
UnitHasIt == Systemd => (unit \in {"active", "stopping"} <=> \E s \in Sups : Alive(s))
ItsMinecraft ==
    \A p \in mcs : \E s \in Sups :
        Alive(s) /\ p = mine[s] /\ phase[s] \in {"record", "starting", "running", "stopping"}
Unborn == \A s \in Sups : s > last => phase[s] = "off"
UnitInv == OnlyTheLast /\ UnitHasIt /\ ItsMinecraft /\ Unborn

LEMMA UnitInvImplies ==
    ASSUME TypeOK, UnitInv PROVE OneMinecraft
<1>1. \A p, q \in mcs : p = q
  BY DEF UnitInv, OnlyTheLast, ItsMinecraft
<1>2. CASE mcs = {}
  BY <1>2, FS_EmptySet DEF OneMinecraft
<1>3. CASE mcs # {}
  <2>1. PICK p : mcs = {p}
    BY <1>1, <1>3
  <2>2. Cardinality(mcs) = 1
    BY <2>1, FS_Singleton
  <2> QED BY <2>2 DEF OneMinecraft
<1> QED BY <1>2, <1>3

\* A step that changes neither phases, processes nor the unit.
LEMMA UnitUntouched ==
    ASSUME UnitInv, UNCHANGED <<phase, last, mine, unit>>, mcs' \subseteq mcs PROVE UnitInv'
BY DEF UnitInv, OnlyTheLast, UnitHasIt, ItsMinecraft, Unborn, Alive

\* A new supervisor, where there is none.
LEMMA SpawnAlone ==
    ASSUME Systemd, TypeOK, UnitInv, unit \in {"inactive", "waiting"}, Spawn, unit' = "active",
           UNCHANGED <<mine, mcs>>
    PROVE  UnitInv'
<1>1. \A s \in Sups : ~Alive(s)
  BY DEF UnitInv, UnitHasIt
<1>2. mcs = {}
  BY <1>1 DEF UnitInv, ItsMinecraft
<1>3. /\ last' = last + 1 /\ last' \in Sups /\ last \in Nat
      /\ phase'[last'] = "boot" /\ \A s \in Sups : s # last' => phase'[s] = phase[s]
  BY BoundsAssumption DEF Spawn, Become, TypeOK, Sups
<1>4. OnlyTheLast' /\ UnitHasIt'
  BY <1>1, <1>3 DEF OnlyTheLast, UnitHasIt, Alive
<1>5. ItsMinecraft' /\ Unborn'
  BY <1>2, <1>3 DEF ItsMinecraft, UnitInv, Unborn, Sups
<1> QED BY <1>4, <1>5 DEF UnitInv

\* `systemctl stop` changes no phase: the supervisor lives while the unit stops.
LEMMA StopUnitKeeps ==
    ASSUME UnitInv, StopUnit, UNCHANGED <<phase, last, mine>>, mcs' \subseteq mcs PROVE UnitInv'
BY DEF UnitInv, OnlyTheLast, UnitHasIt, ItsMinecraft, Unborn, Alive, StopUnit

\* A step of a living supervisor that goes on, with its Minecraft process in
\* the lines where it has one.
LEMMA SupGoesOn ==
    ASSUME TypeOK, UnitInv, NEW s \in Sups, Alive(s), NEW ph \in Phases \ {"off", "gone", "looped"},
           phase' = [phase EXCEPT ![s] = ph], UNCHANGED <<last, unit>>,
           \A x \in Sups \ {s} : mine'[x] = mine[x],
           \A p \in mcs' : p = mine'[s] /\ ph \in {"record", "starting", "running", "stopping"}
    PROVE  UnitInv'
<1>1. s = last /\ phase'[s] = ph /\ \A x \in Sups \ {s} : phase'[x] = phase[x]
  BY DEF UnitInv, OnlyTheLast, TypeOK
<1>2. OnlyTheLast' /\ UnitHasIt'
  BY <1>1 DEF UnitInv, OnlyTheLast, UnitHasIt, Alive
<1>3. ItsMinecraft'
  BY <1>1 DEF ItsMinecraft, Alive
<1>4. Unborn'
  BY <1>1, BoundsAssumption DEF UnitInv, Unborn, TypeOK, Sups
<1> QED BY <1>2, <1>3, <1>4 DEF UnitInv

\* What is alive of Minecraft is the stepping supervisor's own.
LEMMA Own ==
    ASSUME UnitInv, NEW s \in Sups, Alive(s)
    PROVE  \A p \in mcs : p = mine[s] /\ phase[s] \in {"record", "starting", "running", "stopping"}
BY DEF UnitInv, OnlyTheLast, ItsMinecraft

LEMMA UnitInvInductive ==
    ASSUME Systemd, TypeOK, UnitInv, [Next]_vars PROVE UnitInv'
<1>1. ASSUME NEW s \in Sups, SupStep(s) PROVE UnitInv'
  <2> USE DEF Become, Phases
  <2>0. phase \in [Sups -> Phases] /\ mine \in [Sups -> 0..MaxServers]
    BY DEF TypeOK
  <2>1. CASE SupBoot(s) \/ SupHead(s) \/ SupRecord(s) \/ SupReady(s) \/ SupBackoffOver(s)
    <3>1. /\ Alive(s) /\ UNCHANGED <<last, unit, mine, mcs>>
          /\ phase[s] \in {"boot", "head", "record", "starting", "backoff"}
      BY <2>1 DEF SupBoot, SupHead, SupRecord, SupReady, SupBackoffOver, Alive
    <3>2. PICK ph \in {"refused", "head", "spawn", "starting", "running"} :
             /\ phase' = [phase EXCEPT ![s] = ph]
             /\ phase[s] \in {"record", "starting"} => ph \in {"starting", "running"}
      BY <2>1 DEF SupBoot, SupHead, SupRecord, SupReady, SupBackoffOver
    <3> QED BY <3>1, <3>2, Own, SupGoesOn
  <2>2. CASE SupSpawn(s)
    <3>1. Alive(s) /\ phase[s] = "spawn" /\ UNCHANGED <<last, unit>>
      BY <2>2 DEF SupSpawn, Alive
    <3>2. mcs = {}
      BY <3>1, Own
    <3>3. /\ phase' = [phase EXCEPT ![s] = "record"]
          /\ mcs' = {mine'[s]} /\ \A x \in Sups \ {s} : mine'[x] = mine[x]
      BY <2>0, <2>2, <3>2 DEF SupSpawn
    <3> QED BY <3>1, <3>3, SupGoesOn
  <2>3. CASE SupVerdict(s)
    <3>1. Alive(s) /\ UNCHANGED <<last, unit, mine, mcs>>
      BY <2>3 DEF SupVerdict, Alive, Up
    <3>2. mcs = {}
      BY <2>3, <3>1, Own DEF SupVerdict, Up
    <3>3. PICK ph \in {"return", "backoff", "looping"} : phase' = [phase EXCEPT ![s] = ph]
      BY <2>3 DEF SupVerdict
    <3> QED BY <3>1, <3>2, <3>3, SupGoesOn
  <2>4. CASE SupStop(s)
    <3>1. Alive(s) /\ UNCHANGED <<last, unit, mine, mcs>>
      BY <2>4 DEF SupStop
    <3>2. CASE UNCHANGED phase
      BY <3>1, <3>2, UnitUntouched
    <3>3. CASE phase' = [phase EXCEPT ![s] = "stopping"]
      BY <3>1, <3>3, Own, SupGoesOn
    <3> QED BY <2>4, <3>2, <3>3 DEF SupStop
  <2>5. CASE SupEscalate(s) \/ SupForceStop(s)
    BY <2>5, UnitUntouched DEF SupEscalate, SupForceStop
  <2>6. CASE SupExit(s)
    <3>1. Alive(s) /\ UNCHANGED <<last, mine, mcs>>
      BY <2>6 DEF SupExit, Alive
    <3>2. mcs = {}
      BY <2>6, <3>1, Own DEF SupExit
    <3>3. /\ phase'[s] \in {"gone", "looped"} /\ \A x \in Sups \ {s} : phase'[x] = phase[x]
          /\ unit' \in {"waiting", "inactive"}
      BY <2>0, <2>6 DEF SupExit
    <3>4. \A x \in Sups : ~Alive(x)'
      BY <3>1, <3>3 DEF UnitInv, OnlyTheLast, Alive
    <3>5. Unborn'
      BY <3>1, <3>3, BoundsAssumption DEF UnitInv, OnlyTheLast, Unborn, TypeOK, Sups
    <3> QED BY <3>1, <3>2, <3>3, <3>4, <3>5 DEF UnitInv, OnlyTheLast, UnitHasIt, ItsMinecraft
  <2> QED BY <1>1, <2>1, <2>2, <2>3, <2>4, <2>5, <2>6 DEF SupStep
<1>2. ASSUME NEW p \in mcs, McExit(p) PROVE UnitInv'
  BY <1>2, UnitUntouched DEF McExit
<1>3. CASE UnitRestart
  BY <1>3, SpawnAlone DEF UnitRestart
<1>4. CASE UnitKill
  <2>1. /\ UNCHANGED <<last, mine>> /\ mcs' = {} /\ unit' = "inactive"
        /\ \A s \in Sups : phase'[s] = IF s = last THEN "gone" ELSE phase[s]
    BY <1>4 DEF UnitKill, Become, TypeOK
  <2>2. \A s \in Sups : ~Alive(s)'
    BY <2>1 DEF UnitInv, OnlyTheLast, Alive
  <2>3. Unborn'
    BY <2>1, BoundsAssumption DEF UnitInv, Unborn, TypeOK, Sups
  <2> QED BY <2>1, <2>2, <2>3 DEF UnitInv, OnlyTheLast, UnitHasIt, ItsMinecraft
<1>5. ASSUME NEW a \in Agents, NEW j \in Jobs, Request(a, j) PROVE UnitInv'
  BY <1>5, UnitUntouched DEF Request
<1>6. ASSUME NEW a \in Agents, AgentStep(a) PROVE UnitInv'
  <2>1. CASE Launch(a)
    <3>1. StartUnit /\ UNCHANGED <<mcs>>
      BY <2>1 DEF Launch
    <3>2. CASE UNCHANGED <<unit, supVars>>
      BY <3>1, <3>2, UnitUntouched
    <3>3. CASE unit \in {"inactive", "waiting"} /\ unit' = "active" /\ Spawn /\ UNCHANGED mine
      BY <3>1, <3>3, SpawnAlone
    <3> QED BY <3>1, <3>2, <3>3 DEF StartUnit
  <2>2. CASE Dial(a) \/ KillPgid(a) \/ SeesDown(a)
    <3>1. /\ UNCHANGED <<phase, last, mine>> /\ mcs' \subseteq mcs
          /\ UNCHANGED unit \/ StopUnit
      BY <2>2 DEF Dial, KillPgid, SeesDown
    <3> QED BY <3>1, UnitUntouched, StopUnitKeeps
  <2>3. CASE ~Launch(a) /\ ~(Dial(a) \/ KillPgid(a) \/ SeesDown(a))
    <3>1. UNCHANGED <<phase, last, mine, unit, mcs>>
      BY <1>6, <2>3 DEF AgentStep, Finish, OnlyMoves, Check, NotStartable, Clear, Wipe, LaunchFails,
         Await, DialFails, Halted, StopTimesOut, UnitStopped, Stopped, Begin, TakeOpLock, Safety,
         ResetLock, Recheck, Replaced
    <3> QED BY <3>1, UnitUntouched
  <2> QED BY <2>1, <2>2, <2>3
<1>7. CASE UNCHANGED vars
  BY <1>7, UnitUntouched
<1> QED BY <1>1, <1>2, <1>3, <1>4, <1>5, <1>6, <1>7 DEF Next

\* Under systemd there is one Minecraft process at a time, whatever is asked for
\* by however many requests of however many processes, with crashes, backoffs,
\* restarts of the unit and its TimeoutStopSec.
THEOREM OneMinecraftHolds == Systemd => (Spec => []OneMinecraft)
<1>1. Init /\ Systemd => UnitInv
  BY DEF Init, UnitInv, OnlyTheLast, UnitHasIt, ItsMinecraft, Unborn, Alive
<1>2. Systemd /\ TypeOK /\ UnitInv /\ [Next]_vars => UnitInv'
  BY UnitInvInductive
<1>3. TypeOK /\ UnitInv => OneMinecraft
  BY UnitInvImplies
<1>4. SUFFICES ASSUME Systemd PROVE Spec => []OneMinecraft
  OBVIOUS
<1> QED BY <1>1, <1>2, <1>3, <1>4, TypeCorrect, PTL DEF Spec

-----------------------------------------------------------------------------
\* A lifecycle request has its process's lock until it ends; when a stop returns
\* the unit is down, and only a request with that lock could start it again.
UnderLock == {"check", "clear", "wipe", "launch", "await", "dial", "halt", "down", "unit",
              "stopped", "pgid"}
HoldsLock == \A a \in Agents : pc[a] \in UnderLock => busy[ProcOf[a]] = a
DownWhenStopped == \A a \in Agents : pc[a] = "stopped" => unit = "inactive"
LockInv == HoldsLock /\ DownWhenStopped

\* The requests run in one process.
OneLock == \A a, b \in Agents : ProcOf[a] = ProcOf[b]

LEMMA FinishKeepsLock ==
    ASSUME TypeOK, LockInv, NEW a \in Agents, Finish(a) PROVE LockInv'
<1>1. /\ pc'[a] = "idle" /\ \A b \in Agents \ {a} : pc'[b] = pc[b]
      /\ \A p \in Procs : busy[p] # a => busy'[p] = busy[p]
  BY DEF Finish, Goto, TypeOK
<1> QED BY <1>1, ProcAssumption DEF LockInv, HoldsLock, DownWhenStopped, UnderLock, Finish

LEMMA MovesKeepLock ==
    ASSUME TypeOK, LockInv, NEW a \in Agents, NEW line, Goto(a, line), UNCHANGED <<busy, unit>>,
           line \in UnderLock => pc[a] \in UnderLock, line = "stopped" => unit = "inactive"
    PROVE  LockInv'
<1>1. pc'[a] = line /\ \A b \in Agents \ {a} : pc'[b] = pc[b]
  BY DEF Goto, TypeOK
<1> QED BY <1>1 DEF LockInv, HoldsLock, DownWhenStopped, UnderLock

\* A unit that goes on being down, and no change of a line or of a lock.
LEMMA UnitStaysDown ==
    ASSUME LockInv, UNCHANGED <<busy, pc>>, unit = "inactive" => unit' = "inactive" PROVE LockInv'
BY DEF LockInv, HoldsLock, DownWhenStopped

LEMMA LockInvInductive ==
    ASSUME Systemd, OneLock, TypeOK, LockInv, [Next]_vars PROVE LockInv'
<1>1. ASSUME NEW s \in Sups, SupStep(s) PROVE LockInv'
  <2>1. UNCHANGED <<busy, pc>> /\ (unit = "inactive" => unit' = "inactive")
    BY <1>1 DEF SupStep, SupBoot, SupHead, SupSpawn, SupRecord, SupReady, SupVerdict,
                SupBackoffOver, SupStop, SupEscalate, SupForceStop, SupExit
  <2> QED BY <2>1, UnitStaysDown
<1>2. ASSUME NEW p \in mcs, McExit(p) PROVE LockInv'
  BY <1>2, UnitStaysDown DEF McExit
<1>3. CASE UnitRestart \/ UnitKill
  BY <1>3, UnitStaysDown DEF UnitRestart, UnitKill
<1>4. ASSUME NEW a \in Agents, NEW j \in Jobs, Request(a, j) PROVE LockInv'
  <2>1. /\ \A b \in Agents \ {a} : pc'[b] = pc[b]
        /\ unit' = unit /\ pc'[a] # "stopped"
    BY <1>4 DEF Request, Goto, TypeOK
  <2>2. CASE j \in Lifecycle
    <3>1. busy[ProcOf[a]] = Nobody /\ busy' = [busy EXCEPT ![ProcOf[a]] = a]
      BY <1>4, <2>2 DEF Request, LockFree, TakeLock
    <3>2. \A b \in Agents : pc[b] \notin UnderLock
      BY <3>1, ProcAssumption DEF OneLock, LockInv, HoldsLock
    <3>3. busy'[ProcOf[a]] = a
      BY <3>1, ProcAssumption DEF TypeOK
    <3> QED BY <2>1, <3>2, <3>3 DEF LockInv, HoldsLock, DownWhenStopped
  <2>3. CASE j \notin Lifecycle
    <3>1. busy' = busy /\ pc'[a] = "begin"
      BY <1>4, <2>3 DEF Request, Goto, TypeOK
    <3> QED BY <2>1, <3>1 DEF LockInv, HoldsLock, DownWhenStopped, UnderLock
  <2> QED BY <2>2, <2>3
<1>5. ASSUME NEW a \in Agents, AgentStep(a) PROVE LockInv'
  <2>1. CASE Launch(a)
    <3>1. pc[a] = "launch" /\ Goto(a, "await") /\ busy' = busy
      BY <2>1 DEF Launch
    <3>2. \A b \in Agents : pc[b] # "stopped"
      BY <3>1, ProcAssumption DEF OneLock, LockInv, HoldsLock, UnderLock
    <3>3. pc'[a] = "await" /\ \A b \in Agents \ {a} : pc'[b] = pc[b]
      BY <3>1 DEF Goto, TypeOK
    <3> QED BY <3>1, <3>2, <3>3 DEF LockInv, HoldsLock, DownWhenStopped, UnderLock
  <2>2. CASE Dial(a) \/ KillPgid(a) \/ SeesDown(a)
    <3>1. /\ pc[a] \in {"dial", "pgid", "down"} /\ busy' = busy
          /\ unit = "inactive" => unit' = "inactive"
      BY <2>2 DEF Dial, KillPgid, SeesDown, StopUnit
    <3>2. PICK line \in {"down", "halt", "pgid", "unit"} : Goto(a, line)
      BY <2>2 DEF Dial, KillPgid, SeesDown
    <3>3. pc'[a] = line /\ \A b \in Agents \ {a} : pc'[b] = pc[b]
      BY <3>2 DEF Goto, TypeOK
    <3> QED BY <3>1, <3>3 DEF LockInv, HoldsLock, DownWhenStopped, UnderLock
  <2>3. CASE ResetLock(a) /\ ~Finish(a)
    <3>1. /\ pc[a] = "lock" /\ busy[ProcOf[a]] = Nobody /\ Goto(a, "recheck") /\ unit' = unit
      BY <2>3 DEF ResetLock, LockFree
    <3>2. \A b \in Agents : pc[b] \notin UnderLock
      BY <3>1, ProcAssumption DEF OneLock, LockInv, HoldsLock
    <3>3. pc'[a] = "recheck" /\ \A b \in Agents \ {a} : pc'[b] = pc[b]
      BY <3>1 DEF Goto, TypeOK
    <3> QED BY <3>2, <3>3 DEF LockInv, HoldsLock, DownWhenStopped, UnderLock
  <2>4. CASE UnitStopped(a)
    BY <2>4, MovesKeepLock DEF UnitStopped, UnitDown, OnlyMoves, UnderLock
  <2>5. CASE /\ \/ Check(a) \/ NotStartable(a) \/ Clear(a) \/ Wipe(a) \/ LaunchFails(a) \/ Await(a)
                \/ DialFails(a) \/ Halted(a) \/ StopTimesOut(a) \/ Stopped(a) \/ Begin(a)
                \/ TakeOpLock(a) \/ Safety(a) \/ Recheck(a) \/ Replaced(a)
             /\ ~Finish(a)
    <3>1. \E line : /\ Goto(a, line) /\ UNCHANGED <<busy, unit>> /\ line # "stopped"
                    /\ line \in UnderLock => pc[a] \in UnderLock
      BY <2>5 DEF Check, NotStartable, Clear, Wipe, LaunchFails, Await, DialFails, Halted,
                  StopTimesOut, Stopped, Begin, TakeOpLock, Safety, Recheck, Replaced,
                  OnlyMoves, UnderLock
    <3> QED BY <3>1, MovesKeepLock
  <2> QED BY <1>5, <2>1, <2>2, <2>3, <2>4, <2>5, FinishKeepsLock DEF AgentStep
<1>6. CASE UNCHANGED vars
  BY <1>6, UnitStaysDown
<1> QED BY <1>1, <1>2, <1>3, <1>4, <1>5, <1>6 DEF Next

\* Under systemd a Stop or ForceStop of the only process with requests reports
\* success when nothing runs, is being started or waits to be restarted.
THEOREM StoppedMeansDownHolds == Systemd /\ OneLock => (Spec => []StoppedMeansDown)
<1>1. Init => LockInv
  BY DEF Init, LockInv, HoldsLock, DownWhenStopped, UnderLock
<1>2. Init /\ Systemd => UnitInv
  BY DEF Init, UnitInv, OnlyTheLast, UnitHasIt, ItsMinecraft, Unborn, Alive
<1>3. Systemd /\ OneLock /\ TypeOK /\ LockInv /\ [Next]_vars => LockInv'
  BY LockInvInductive
<1>4. Systemd /\ TypeOK /\ UnitInv /\ [Next]_vars => UnitInv'
  BY UnitInvInductive
<1>5. Systemd /\ LockInv /\ UnitInv => StoppedMeansDown
  BY DEF LockInv, DownWhenStopped, UnitInv, UnitHasIt, ItsMinecraft, StoppedMeansDown
<1>6. SUFFICES ASSUME Systemd, OneLock PROVE Spec => []StoppedMeansDown
  OBVIOUS
<1> QED BY <1>1, <1>2, <1>3, <1>4, <1>5, <1>6, TypeCorrect, PTL DEF Spec
=============================================================================
