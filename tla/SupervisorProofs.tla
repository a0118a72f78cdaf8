-------------------------- MODULE SupervisorProofs --------------------------
(***************************************************************************)
(* Theorems about Supervisor, for every set of control connections, every  *)
(* policy, crash limit and bound.                                          *)
(***************************************************************************)
EXTENDS Supervisor, TLAPS

USE DEF vars, supVars, runVars, ctlVars, diskVars, readVars, osVars

\* The snapshot persist() takes is a snapshot.
LEMMA SnapshotType == TypeOK => CurrentSnapshot \in Snapshots
BY DEF TypeOK, CurrentSnapshot, Snapshots

\* Run's classification of an exit is one of the states.
LEMMA VerdictType == Verdict \in States
BY DEF Verdict, States

\* Every variable keeps its type.
THEOREM TypeCorrect == Spec => []TypeOK
<1> USE BoundsAssumption, MaxCrashLoopAssumption, ThreadAssumption
<1>1. Init => TypeOK
  <2> SUFFICES ASSUME Init PROVE TypeOK
    OBVIOUS
  <2>1. NoSnapshot \in Snapshots
    BY DEF NoSnapshot, Snapshots, States
  <2>2. /\ 0 \in 0..MaxStarts /\ 0 \in 0..MaxSignals
    BY BoundsAssumption
  <2>3. state \in States /\ decided \in States /\ runPc \in RunPcs
    BY DEF Init, States, RunPcs
  <2>4. /\ snap \in [Threads -> Snapshots] /\ disk \in Snapshots
        /\ pend \in [Threads -> {"none", "due", "write"}]
    BY <2>1 DEF Init
  <2>5. /\ ctlPc \in [Controls -> {"idle", "stop", "ask", "grace", "term", "kill"}]
        /\ ctlPid \in [Controls -> Nat] /\ ctlTty \in [Controls -> Nat]
    BY DEF Init
  <2> QED BY <2>2, <2>3, <2>4, <2>5 DEF Init, TypeOK
<1>2. TypeOK /\ [Next]_vars => TypeOK'
  <2> SUFFICES ASSUME TypeOK, [Next]_vars PROVE TypeOK'
    OBVIOUS
  <2> USE DEF TypeOK
  <2>1. ASSUME RunStep PROVE TypeOK'
    <3>1. CASE RunBegin
      BY <3>1 DEF RunBegin, PersistDue, RunPcs, States
    <3>2. CASE RunSpawn
      BY <3>2 DEF RunSpawn, RunPcs, Servers
    <3>3. CASE RunSpawnFails
      BY <3>3 DEF RunSpawnFails, RunPcs
    <3>4. CASE RunFailed
      BY <3>4 DEF RunFailed, PersistDue, RunPcs, States
    <3>5. CASE RunRecord
      BY <3>5 DEF RunRecord, PersistDue, RunPcs, States
    <3>6. CASE RunAwait
      <4>1. cmd # 0 => cmd \in Servers
        BY DEF Servers
      <4>2. reading' \subseteq Servers /\ runPc' \in RunPcs
        BY <3>6, <4>1 DEF RunAwait, RunPcs
      <4> QED BY <3>6, <4>2 DEF RunAwait
    <3>7. CASE RunReap
      BY <3>7 DEF RunReap, RunPcs
    <3>8. CASE RunClear
      BY <3>8 DEF RunClear, RunPcs
    <3>9. CASE RunSweep
      BY <3>9 DEF RunSweep, KillGroup, RunPcs
    <3>10. CASE RunClassify
      <4>1. crashes' \in Nat /\ exitOk' \in BOOLEAN
        BY <3>10 DEF RunClassify
      <4>2. state' \in States /\ decided' \in States /\ runPc' \in RunPcs
        BY <3>10, VerdictType DEF RunClassify, RunPcs
      <4>3. pend' \in [Threads -> {"none", "due", "write"}]
        BY <3>10 DEF RunClassify, PersistDue
      <4> QED BY <3>10, <4>1, <4>2, <4>3 DEF RunClassify
    <3>11. CASE RunDecide
      BY <3>11 DEF RunDecide, RunPcs
    <3>12. CASE RunDelayOver
      BY <3>12 DEF RunDelayOver, RunPcs, States
    <3>13. CASE RunCancelled
      BY <3>13 DEF RunCancelled, RunPcs
    <3>14. CASE Exit
      BY <3>14 DEF Exit, RunPcs
    <3> QED BY <2>1, <3>1, <3>2, <3>3, <3>4, <3>5, <3>6, <3>7, <3>8, <3>9, <3>10,
               <3>11, <3>12, <3>13, <3>14 DEF RunStep
  <2>2. ASSUME NEW c \in Controls, ControlStep(c) PROVE TypeOK'
    <3>1. CASE BeginStop(c)
      <4>1. state' \in States /\ stopIntent' \in BOOLEAN
        BY <3>1 DEF BeginStop, States
      <4>2. ctlPc' \in [Controls -> {"idle", "stop", "ask", "grace", "term", "kill"}]
        BY <2>2, <3>1 DEF BeginStop
      <4>3. ctlPid' \in [Controls -> Nat] /\ ctlTty' \in [Controls -> Nat]
        BY <2>2, <3>1 DEF BeginStop
      <4>4. pend' \in [Threads -> {"none", "due", "write"}]
        BY <3>1 DEF BeginStop, PersistDue
      <4> QED BY <3>1, <4>1, <4>2, <4>3, <4>4 DEF BeginStop
    <3>2. CASE StopIgnored(c)
      BY <2>2, <3>2 DEF StopIgnored, Return
    <3>3. CASE StopAsk(c)
      BY <2>2, <3>3 DEF StopAsk, Goto, Return
    <3>4. CASE StopSeesExit(c)
      BY <2>2, <3>4 DEF StopSeesExit, Return
    <3>5. CASE StopDeadline(c)
      BY <2>2, <3>5 DEF StopDeadline, Goto
    <3>6. CASE Kill(c)
      BY <2>2, <3>6 DEF Kill, KillGroup, Return
    <3> QED BY <2>2, <3>1, <3>2, <3>3, <3>4, <3>5, <3>6 DEF ControlStep
  <2>3. ASSUME NEW c \in Clients, BeginRestart(c) \/ BeginForceStop(c) PROVE TypeOK'
    <3>1. c \in Controls
      BY DEF Controls
    <3>2. CASE BeginRestart(c)
      BY <3>1, <3>2 DEF BeginRestart
    <3>3. CASE BeginForceStop(c)
      BY <3>1, <3>3 DEF BeginForceStop, ForceStopSection
    <3> QED BY <2>3, <3>2, <3>3
  <2>4. ASSUME Signal \/ SigStep PROVE TypeOK'
    <3>1. SigHandler \in Controls
      BY DEF Controls
    <3>2. CASE Signal
      BY <3>2 DEF Signal
    <3>3. CASE SigFirst
      BY <3>1, <3>3 DEF SigFirst
    <3>4. CASE SigStopReturned
      BY <3>4 DEF SigStopReturned
    <3>5. CASE SigSecond
      BY <3>1, <3>5 DEF SigSecond, ForceStopSection
    <3>6. CASE SigCancel
      BY <3>6 DEF SigCancel
    <3> QED BY <2>4, <3>2, <3>3, <3>4, <3>5, <3>6 DEF SigStep
  <2>5. ASSUME NEW g \in Servers, ReaderDone(g) PROVE TypeOK'
    <3>1. state' \in States /\ reading' \subseteq reading
      BY <2>5 DEF ReaderDone, AfterDone, States
    <3> QED BY <2>5, <3>1 DEF ReaderDone, PersistDue
  <2>6. ASSUME NEW t \in Threads, PersistSnapshot(t) \/ PersistWrite(t) PROVE TypeOK'
    <3>1. CASE PersistSnapshot(t)
      BY <2>6, <3>1, SnapshotType DEF PersistSnapshot
    <3>2. CASE PersistWrite(t)
      <4>1. NoSnapshot \in Snapshots
        BY DEF NoSnapshot, Snapshots, States
      <4> QED BY <2>6, <3>2, <4>1 DEF PersistWrite
    <3> QED BY <2>6, <3>1, <3>2
  <2>7. ASSUME Environment PROVE TypeOK'
    <3>1. ASSUME NEW g \in Servers, JavaStarts(g) PROVE TypeOK'
      BY <3>1 DEF JavaStarts
    <3>2. ASSUME NEW g \in Servers, JavaExits(g) PROVE TypeOK'
      BY <3>2 DEF JavaExits
    <3>3. ASSUME NEW g \in Servers, ScriptExits(g) PROVE TypeOK'
      BY <3>3 DEF ScriptExits
    <3>4. CASE CrashForgotten
      BY <3>4 DEF CrashForgotten
    <3> QED BY <2>7, <3>1, <3>2, <3>3, <3>4 DEF Environment
  <2>8. CASE UNCHANGED vars
    BY <2>8
  <2> QED BY <2>1, <2>2, <2>3, <2>4, <2>5, <2>6, <2>7, <2>8 DEF Next
<1> QED BY <1>1, <1>2, PTL DEF Spec

-----------------------------------------------------------------------------
(* Steps of every thread but the Run loop *)

Bystands ==
    /\ UNCHANGED <<cmd, pid, runPc, decided, started>>
    /\ Processes' \subseteq Processes
    /\ live' \cup zombie' \subseteq live \cup zombie
    /\ live \cap zombie = {} => live' \cap zombie' = {}
    /\ \/ crashes' = crashes
       \/ crashes > 0 /\ crashes' = crashes - 1 /\ Processes' = Processes
    /\ state' \in {"running", "starting"} => state \in {"running", "starting"}
    /\ state' \in Terminal => state' = state

\* A SIGKILL to a process group only removes processes and changes no state of
\* the supervisor that it does not own.
LEMMA KillShrinks ==
    ASSUME NEW p, KillGroup(p)
    PROVE  /\ Processes' \subseteq Processes
           /\ live' \cup zombie' \subseteq live \cup zombie
           /\ live \cap zombie = {} => live' \cap zombie' = {}
           /\ started' = started
BY DEF KillGroup, Processes

\* No thread but the Run loop starts a process, records one or moves the loop.
LEMMA OthersBystand ==
    ASSUME TypeOK, [Next]_vars, ~RunStep
    PROVE  Bystands
<1>1. ASSUME NEW c \in Controls, ControlStep(c) PROVE Bystands
  <2>1. CASE BeginStop(c)
    BY <2>1 DEF BeginStop, Bystands, Processes, Terminal
  <2>2. CASE StopIgnored(c)
    BY <2>2 DEF StopIgnored, Return, Bystands, Processes, Terminal
  <2>3. CASE StopAsk(c)
    BY <2>3 DEF StopAsk, Goto, Return, Bystands, Processes, Terminal
  <2>4. CASE StopSeesExit(c)
    BY <2>4 DEF StopSeesExit, Return, Bystands, Processes, Terminal
  <2>5. CASE StopDeadline(c)
    BY <2>5 DEF StopDeadline, Goto, Bystands, Processes, Terminal
  <2>6. CASE Kill(c)
    BY <2>6, KillShrinks DEF Kill, Return, Bystands, Terminal
  <2> QED BY <1>1, <2>1, <2>2, <2>3, <2>4, <2>5, <2>6 DEF ControlStep
<1>2. ASSUME NEW c \in Clients, BeginRestart(c) \/ BeginForceStop(c) PROVE Bystands
  BY <1>2 DEF BeginRestart, BeginForceStop, ForceStopSection, Bystands, Processes, Terminal
<1>3. ASSUME Signal \/ SigStep PROVE Bystands
  <2>1. CASE Signal
    BY <2>1 DEF Signal, Bystands, Processes, Terminal
  <2>2. CASE SigFirst
    BY <2>2 DEF SigFirst, Bystands, Processes, Terminal
  <2>3. CASE SigStopReturned
    BY <2>3 DEF SigStopReturned, Bystands, Processes, Terminal
  <2>4. CASE SigSecond
    BY <2>4 DEF SigSecond, ForceStopSection, Bystands, Processes, Terminal
  <2>5. CASE SigCancel
    BY <2>5 DEF SigCancel, Bystands, Processes, Terminal
  <2> QED BY <1>3, <2>1, <2>2, <2>3, <2>4, <2>5 DEF SigStep
<1>4. ASSUME NEW g \in Servers, ReaderDone(g) PROVE Bystands
  BY <1>4 DEF ReaderDone, AfterDone, Bystands, Processes, Terminal
<1>5. ASSUME NEW t \in Threads, PersistSnapshot(t) \/ PersistWrite(t) PROVE Bystands
  BY <1>5 DEF PersistSnapshot, PersistWrite, Bystands, Processes, Terminal
<1>6. ASSUME Environment PROVE Bystands
  <2>1. ASSUME NEW g \in Servers, JavaStarts(g) PROVE Bystands
    BY <2>1 DEF JavaStarts, Bystands, Processes, Terminal
  <2>2. ASSUME NEW g \in Servers, JavaExits(g) PROVE Bystands
    BY <2>2 DEF JavaExits, Bystands, Processes, Terminal
  <2>3. ASSUME NEW g \in Servers, ScriptExits(g) PROVE Bystands
    BY <2>3 DEF ScriptExits, Bystands, Processes, Terminal
  <2>4. CASE CrashForgotten
    BY <2>4 DEF CrashForgotten, Bystands, Processes, Terminal
  <2> QED BY <1>6, <2>1, <2>2, <2>3, <2>4 DEF Environment
<1>7. CASE UNCHANGED vars
  BY <1>7 DEF Bystands, Processes, Terminal
<1> QED BY <1>1, <1>2, <1>3, <1>4, <1>5, <1>6, <1>7 DEF Next

-----------------------------------------------------------------------------
(* The inductive invariant *)

\* What the threads beside the Run loop do keeps the inductive invariant.
LEMMA BystandersKeepInv ==
    ASSUME TypeOK, SupervisorInv, Bystands
    PROVE  SupervisorInv'
<1>1. OnlyTheNewest' /\ QuietIsEmpty'
  BY DEF SupervisorInv, Bystands, OnlyTheNewest, QuietIsEmpty
<1>2. CommandIsTheNewest' /\ ReapedIsGone'
  BY DEF SupervisorInv, Bystands, CommandIsTheNewest, ReapedIsGone
<1>3. VerdictIsIdle'
  BY MaxCrashLoopAssumption DEF TypeOK, SupervisorInv, Bystands, VerdictIsIdle
<1>4. CrashBudget'
  BY MaxCrashLoopAssumption DEF TypeOK, SupervisorInv, Bystands, CrashBudget
<1> QED BY <1>1, <1>2, <1>3, <1>4 DEF SupervisorInv

\* Every step of the Run loop keeps the inductive invariant.
LEMMA RunKeepsInv ==
    ASSUME TypeOK, SupervisorInv, RunStep
    PROVE  SupervisorInv'
<1> USE DEF SupervisorInv, OnlyTheNewest, QuietIsEmpty, CommandIsTheNewest,
            ReapedIsGone, VerdictIsIdle, CrashBudget, Quiet, Runs
<1>1. CASE RunBegin
  BY <1>1 DEF RunBegin, Processes
<1>2. CASE RunSpawn
  BY <1>2 DEF RunSpawn, Processes, TypeOK
<1>3. CASE RunSpawnFails
  BY <1>3 DEF RunSpawnFails, Processes
<1>4. CASE RunFailed
  BY <1>4 DEF RunFailed, Processes
<1>5. CASE RunRecord
  BY <1>5 DEF RunRecord, Processes
<1>6. CASE RunAwait
  BY <1>6 DEF RunAwait, Processes
<1>7. CASE RunReap
  BY <1>7 DEF RunReap, Processes
<1>8. CASE RunClear
  BY <1>8 DEF RunClear, Processes
<1>9. CASE RunSweep
  BY <1>9 DEF RunSweep, KillGroup, Processes
<1>10. CASE RunClassify
  BY <1>10, MaxCrashLoopAssumption DEF RunClassify, Verdict, Processes, TypeOK
<1>11. CASE RunDecide
  BY <1>11, MaxCrashLoopAssumption DEF RunDecide, Final, CrashLooping, Processes, TypeOK
<1>12. CASE RunDelayOver
  BY <1>12 DEF RunDelayOver, Processes
<1>13. CASE RunCancelled
  BY <1>13 DEF RunCancelled, Processes
<1>14. CASE Exit
  BY <1>14 DEF Exit, Processes
<1> QED BY <1>1, <1>2, <1>3, <1>4, <1>5, <1>6, <1>7, <1>8, <1>9, <1>10, <1>11,
           <1>12, <1>13, <1>14 DEF RunStep

\* The inductive invariant holds in every reachable state.
THEOREM InvHolds == Spec => []SupervisorInv
<1>1. Init => SupervisorInv
  BY MaxCrashLoopAssumption
  DEF Init, SupervisorInv, OnlyTheNewest, QuietIsEmpty, CommandIsTheNewest, ReapedIsGone,
      VerdictIsIdle, CrashBudget, Quiet, Processes
<1>2. TypeOK /\ SupervisorInv /\ [Next]_vars => SupervisorInv'
  BY RunKeepsInv, OthersBystand, BystandersKeepInv
<1> QED BY <1>1, <1>2, TypeCorrect, PTL DEF Spec

\* One Minecraft process group at a time.
THEOREM OneServerHolds == Spec => []OneServer
<1>1. SupervisorInv => OneServer
  BY DEF SupervisorInv, OnlyTheNewest, Processes, OneServer
<1> QED BY <1>1, InvHolds, PTL

\* startOnce never refuses because of a state another thread left behind.
THEOREM HeadIsIdleHolds == Spec => []HeadIsIdle
<1>1. SupervisorInv => HeadIsIdle
  BY DEF SupervisorInv, VerdictIsIdle, HeadIsIdle
<1> QED BY <1>1, InvHolds, PTL

\* No server is started with MaxCrashLoop recent crashes on record.
THEOREM CrashBudgetHolds == Spec => []CrashBudget
<1>1. SupervisorInv => CrashBudget
  BY DEF SupervisorInv
<1> QED BY <1>1, InvHolds, PTL

\* Nothing of the server outlives the Run loop.
THEOREM NoOrphansHolds == Spec => []NoOrphans
<1>1. SupervisorInv => NoOrphans
  BY DEF SupervisorInv, QuietIsEmpty, Quiet, NoOrphans
<1> QED BY <1>1, InvHolds, PTL

-----------------------------------------------------------------------------
(* Snapshots *)

\* What makes a terminal snapshot harmless for good: the server it names was
\* started, has no process, and so never has one again.
Buried(s) == s.state \in Terminal => s.pid <= started /\ s.pid \notin Processes /\ s.java = 0

\* The state is terminal only where Run holds no command, and every snapshot,
\* written or still in the hands of a thread, is harmless.
SnapshotInv ==
    /\ pid <= started
    /\ state \in Terminal =>
           \/ runPc \in {"head", "decide", "backoff", "returned", "exited"}
           \/ runPc \in {"await", "classify"} /\ cmd = 0
    /\ Buried(disk) /\ \A t \in Threads : Buried(snap[t])

\* A new process is one of a server that was not started before.
LEMMA ProcessesAreNew ==
    ASSUME TypeOK, [Next]_vars
    PROVE  started <= started' /\ \A p \in Processes' : p \in Processes \/ p > started
<1>0. started \in Nat
  BY BoundsAssumption DEF TypeOK
<1>1. CASE RunStep
  <2>1. CASE RunSpawn
    BY <1>0, <2>1 DEF RunSpawn, Processes
  <2>2. CASE RunReap
    BY <1>0, <2>2 DEF RunReap, Processes
  <2>3. CASE RunSweep
    BY <1>0, <2>3, KillShrinks DEF RunSweep
  <2>4. CASE ~(RunSpawn \/ RunReap \/ RunSweep)
    <3>1. UNCHANGED <<started, live, zombie, javas>>
      BY <1>1, <2>4 DEF RunStep, RunBegin, RunSpawnFails, RunFailed, RunRecord, RunAwait,
                       RunClear, RunClassify, RunDecide, RunDelayOver, RunCancelled, Exit
    <3> QED BY <1>0, <3>1 DEF Processes
  <2> QED BY <2>1, <2>2, <2>3, <2>4
<1>2. CASE ~RunStep
  BY <1>0, <1>2, OthersBystand DEF Bystands
<1> QED BY <1>1, <1>2

\* What is buried stays buried, whatever the step.
LEMMA BuriedStays ==
    ASSUME TypeOK, [Next]_vars, NEW s \in Snapshots, Buried(s)
    PROVE  Buried(s)'
<1>1. started \in Nat /\ started' \in Nat /\ s.pid \in Nat
  <2>1. started' = started \/ started' = started + 1
    <3>1. CASE RunStep
      BY <3>1 DEF RunStep, RunBegin, RunSpawn, RunSpawnFails, RunFailed, RunRecord, RunAwait,
                  RunReap, RunClear, RunSweep, KillGroup, RunClassify, RunDecide, RunDelayOver,
                  RunCancelled, Exit
    <3>2. CASE ~RunStep
      BY <3>2, OthersBystand DEF Bystands
    <3> QED BY <3>1, <3>2
  <2> QED BY <2>1, BoundsAssumption DEF TypeOK, Snapshots
<1>2. started <= started' /\ \A p \in Processes' : p \in Processes \/ p > started
  BY ProcessesAreNew
<1> QED BY <1>1, <1>2 DEF Buried

\* The state and the newest server as Run's steps leave them.
LEMMA RunKeepsIdle ==
    ASSUME TypeOK, SupervisorInv, SnapshotInv, RunStep
    PROVE  /\ pid' <= started' /\ UNCHANGED <<snap, disk>>
           /\ state' \in Terminal =>
                  \/ runPc' \in {"head", "decide", "backoff", "returned", "exited"}
                  \/ runPc' \in {"await", "classify"} /\ cmd' = 0
<1> USE DEF SnapshotInv, Runs, Terminal
<1>0. started \in Nat /\ pid \in Nat /\ (cmd # 0 => runPc \in {"await", "waiting", "cleared"})
  BY BoundsAssumption DEF TypeOK, SupervisorInv, CommandIsTheNewest
<1>1. CASE RunBegin
  BY <1>1 DEF RunBegin
<1>2. CASE RunSpawn
  BY <1>0, <1>2 DEF RunSpawn
<1>3. CASE RunSpawnFails
  BY <1>3 DEF RunSpawnFails
<1>4. CASE RunFailed
  BY <1>0, <1>4 DEF RunFailed
<1>5. CASE RunRecord
  BY <1>0, <1>5 DEF RunRecord
<1>6. CASE RunAwait
  BY <1>6 DEF RunAwait
<1>7. CASE RunReap
  BY <1>7 DEF RunReap
<1>8. CASE RunClear
  BY <1>8 DEF RunClear
<1>9. CASE RunSweep
  BY <1>9 DEF RunSweep, KillGroup
<1>10. CASE RunClassify
  BY <1>10 DEF RunClassify
<1>11. CASE RunDecide
  BY <1>11 DEF RunDecide
<1>12. CASE RunDelayOver
  BY <1>12 DEF RunDelayOver
<1>13. CASE RunCancelled
  BY <1>13 DEF RunCancelled
<1>14. CASE Exit
  BY <1>14 DEF Exit
<1> QED BY <1>1, <1>2, <1>3, <1>4, <1>5, <1>6, <1>7, <1>8, <1>9, <1>10, <1>11,
           <1>12, <1>13, <1>14 DEF RunStep

\* Only the two halves of persist() touch a snapshot.
LEMMA SnapshotsRest ==
    ASSUME [Next]_vars, ~RunStep, ~\E t \in Threads : PersistSnapshot(t) \/ PersistWrite(t)
    PROVE  UNCHANGED <<snap, disk>>
<1>1. ASSUME NEW c \in Controls, ControlStep(c) PROVE UNCHANGED <<snap, disk>>
  BY <1>1 DEF ControlStep, BeginStop, StopIgnored, StopAsk, StopSeesExit, StopDeadline, Kill,
              Return, Goto
<1>2. ASSUME NEW c \in Clients, BeginRestart(c) \/ BeginForceStop(c) PROVE UNCHANGED <<snap, disk>>
  BY <1>2 DEF BeginRestart, BeginForceStop, ForceStopSection
<1>3. ASSUME Signal \/ SigStep PROVE UNCHANGED <<snap, disk>>
  BY <1>3 DEF Signal, SigStep, SigFirst, SigStopReturned, SigSecond, SigCancel, ForceStopSection
<1>4. ASSUME NEW g \in Servers, ReaderDone(g) PROVE UNCHANGED <<snap, disk>>
  BY <1>4 DEF ReaderDone
<1>5. ASSUME Environment PROVE UNCHANGED <<snap, disk>>
  BY <1>5 DEF Environment, JavaStarts, JavaExits, ScriptExits, CrashForgotten
<1> QED BY <1>1, <1>2, <1>3, <1>4, <1>5 DEF Next

\* A snapshot taken in a terminal state is of a server that is gone.
LEMMA SnapshotIsBuried ==
    ASSUME TypeOK, SupervisorInv, SnapshotInv
    PROVE  Buried(CurrentSnapshot)
<1>1. CurrentSnapshot.state = state /\ CurrentSnapshot.pid = pid
      /\ CurrentSnapshot.java = IF pid \in javas THEN pid ELSE 0
  BY DEF CurrentSnapshot
<1>2. state \in Terminal => Processes = {}
  BY DEF SnapshotInv, SupervisorInv, QuietIsEmpty, Quiet, CommandIsTheNewest
<1> QED BY <1>1, <1>2 DEF Buried, SnapshotInv, Processes

\* However late a thread writes the snapshot it took, it is harmless.
THEOREM SnapshotInvHolds == Spec => []SnapshotInv
<1>1. Init => SnapshotInv
  BY DEF Init, SnapshotInv, Buried, NoSnapshot, Processes
<1>2. TypeOK /\ TypeOK' /\ SupervisorInv /\ SnapshotInv /\ [Next]_vars => SnapshotInv'
  <2> SUFFICES ASSUME TypeOK, TypeOK', SupervisorInv, SnapshotInv, [Next]_vars
               PROVE  SnapshotInv'
    OBVIOUS
  <2>0. Buried(disk) /\ disk \in Snapshots /\ CurrentSnapshot \in Snapshots
        /\ \A t \in Threads : Buried(snap[t]) /\ snap[t] \in Snapshots
    BY SnapshotType DEF SnapshotInv, TypeOK
  <2>1. /\ pid' <= started'
        /\ state' \in Terminal =>
               \/ runPc' \in {"head", "decide", "backoff", "returned", "exited"}
               \/ runPc' \in {"await", "classify"} /\ cmd' = 0
    <3>1. CASE RunStep
      BY <3>1, RunKeepsIdle
    <3>2. CASE ~RunStep
      BY <3>2, OthersBystand DEF Bystands, SnapshotInv
    <3> QED BY <3>1, <3>2
  <2>2. Buried(disk)' /\ \A t \in Threads : Buried(snap[t])'
    <3>1. \A s \in Snapshots : Buried(s) /\ s.state \in Terminal =>
              s.pid <= started' /\ s.pid \notin Processes' /\ s.java = 0
      BY BuriedStays DEF Buried
    <3>2. CASE UNCHANGED <<snap, disk>>
      BY <2>0, <3>1, <3>2 DEF Buried
    <3>3. ASSUME NEW u \in Threads, PersistSnapshot(u) PROVE Buried(disk)' /\ \A t \in Threads : Buried(snap[t])'
      <4>1. disk' = disk /\ \A t \in Threads : snap'[t] \in {snap[t], CurrentSnapshot}
        BY <3>3 DEF PersistSnapshot, TypeOK
      <4> QED BY <2>0, <3>1, <4>1, SnapshotIsBuried DEF Buried
    <3>4. ASSUME NEW u \in Threads, PersistWrite(u) PROVE Buried(disk)' /\ \A t \in Threads : Buried(snap[t])'
      <4>1. disk' = snap[u] /\ \A t \in Threads : snap'[t] \in {snap[t], NoSnapshot}
        BY <3>4 DEF PersistWrite, TypeOK
      <4>2. NoSnapshot \in Snapshots /\ Buried(NoSnapshot)
        BY BoundsAssumption DEF NoSnapshot, Snapshots, States, Buried, TypeOK, Processes, Servers
      <4> QED BY <2>0, <3>1, <4>1, <4>2 DEF Buried
    <3> QED BY <3>2, <3>3, <3>4, RunKeepsIdle, SnapshotsRest
  <2> QED BY <2>1, <2>2 DEF SnapshotInv
<1> QED BY <1>1, <1>2, TypeCorrect, InvHolds, PTL DEF Spec

\* A terminal snapshot on disk names no live process.
THEOREM TerminalSnapshotIsDeadHolds == Spec => []TerminalSnapshotIsDead
<1>1. TypeOK /\ SnapshotInv => TerminalSnapshotIsDead
  BY DEF TypeOK, SnapshotInv, Buried, TerminalSnapshotIsDead, Alive, Processes, Servers
<1> QED BY <1>1, TypeCorrect, SnapshotInvHolds, PTL

-----------------------------------------------------------------------------
(* The supervisor implements ServerSlot *)

\* Seen from the slot, the other threads only end processes, forget crashes or
\* stutter.
LEMMA BystandersKeepSlot ==
    ASSUME TypeOK, SupervisorInv, Bystands
    PROVE  [Slot!SlotNext]_(Slot!slotVars)
<1> USE DEF Slot!SlotNext, Slot!slotVars
<1>1. CASE Processes' = Processes /\ crashes' = crashes
  BY <1>1 DEF Bystands
<1>2. CASE Processes' = Processes /\ crashes' # crashes
  BY <1>2 DEF Bystands, Slot!Forget
<1>3. CASE Processes' # Processes
  <2>1. Processes # {} /\ crashes' = crashes /\ runPc \notin {"returned", "exited"}
    BY <1>3 DEF Bystands, SupervisorInv, QuietIsEmpty, Quiet
  <2> QED BY <2>1 DEF Bystands, Slot!Vacate
<1> QED BY <1>1, <1>2, <1>3

\* Seen from the slot, the Run loop launches, vacates, charges, closes or stutters.
LEMMA RunKeepsSlot ==
    ASSUME TypeOK, SupervisorInv, RunStep
    PROVE  [Slot!SlotNext]_(Slot!slotVars)
<1> USE DEF Slot!SlotNext, Slot!slotVars, Runs
<1>0. QuietIsEmpty /\ CrashBudget
  BY DEF SupervisorInv
<1>1. CASE RunBegin
  BY <1>1 DEF RunBegin, Processes
<1>2. CASE RunSpawn
  <2>1. Processes = {} /\ Processes' = {started'} /\ crashes < MaxCrashLoop
    BY <1>0, <1>2 DEF RunSpawn, Processes, QuietIsEmpty, Quiet, CrashBudget
  <2> QED BY <1>2, <2>1 DEF RunSpawn, Slot!Launch
<1>3. CASE RunSpawnFails
  BY <1>3 DEF RunSpawnFails, Processes
<1>4. CASE RunFailed
  BY <1>4 DEF RunFailed, Processes
<1>5. CASE RunRecord
  BY <1>5 DEF RunRecord, Processes
<1>6. CASE RunAwait
  BY <1>6 DEF RunAwait, Processes
<1>7. CASE RunReap
  <2>1. Processes' \subseteq Processes
    BY <1>7 DEF RunReap, Processes
  <2> QED BY <1>7, <2>1 DEF RunReap, Slot!Vacate
<1>8. CASE RunClear
  BY <1>8 DEF RunClear, Processes
<1>9. CASE RunSweep
  <2>1. Processes' \subseteq Processes /\ started' = started
    BY <1>9, KillShrinks DEF RunSweep
  <2> QED BY <1>9, <2>1 DEF RunSweep, Slot!Vacate
<1>10. CASE RunClassify
  <2>1. Processes = {} /\ Processes' = {} /\ crashes < MaxCrashLoop
    BY <1>0, <1>10 DEF RunClassify, Processes, QuietIsEmpty, Quiet, CrashBudget
  <2> QED BY <1>10, <2>1 DEF RunClassify, Slot!Charge
<1>11. CASE RunDecide
  BY <1>0, <1>11 DEF RunDecide, Processes, QuietIsEmpty, Quiet, Slot!Close
<1>12. CASE RunDelayOver
  BY <1>12 DEF RunDelayOver, Processes
<1>13. CASE RunCancelled
  BY <1>0, <1>13 DEF RunCancelled, Processes, QuietIsEmpty, Quiet, Slot!Close
<1>14. CASE Exit
  BY <1>14 DEF Exit, Processes
<1> QED BY <1>1, <1>2, <1>3, <1>4, <1>5, <1>6, <1>7, <1>8, <1>9, <1>10, <1>11,
           <1>12, <1>13, <1>14 DEF RunStep

\* Every behaviour of the supervisor is one of the slot it promises.
THEOREM ImplementsSlot == Spec => SlotSpec
<1>1. Init => Slot!SlotInit
  BY DEF Init, Slot!SlotInit, Processes
<1>2. TypeOK /\ SupervisorInv /\ [Next]_vars => [Slot!SlotNext]_(Slot!slotVars)
  BY RunKeepsSlot, OthersBystand, BystandersKeepSlot
<1> QED BY <1>1, <1>2, TypeCorrect, InvHolds, PTL DEF Spec, SlotSpec, Slot!Spec
=============================================================================
