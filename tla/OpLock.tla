------------------------------- MODULE OpLock -------------------------------
(***************************************************************************)
(* The cross-process operation lock, a file created with O_EXCL that names *)
(* its holder's PID (operations.Lock), and the repair command that removes *)
(* a stale one (portability.Doctor).                                       *)
(*                                                                         *)
(* Agents are the goroutines that take the lock; several share a process.  *)
(* A step is one system call.  A process may die between any two of them;  *)
(* a restarted control plane is another member of Pids (no pid reuse).     *)
(***************************************************************************)
EXTENDS Naturals

CONSTANTS
    Agents,         \* goroutines: HTTP handlers, import jobs, the CLI
    Pids,           \* processes
    PidOf,          \* the process an agent belongs to
    NoPid           \* what a reader finds in a lock that is still empty

ASSUME PidAssumption == PidOf \in [Agents -> Pids] /\ NoPid \notin Pids

VARIABLES
    lock,           \* the file: {}, or {[by, pid]}: its creator, its content
    pc,             \* where each agent is
    seen,           \* the PID an agent read from the lock
    attempt,        \* the loop counter of Acquire
    dead            \* processes that have died

lockVars == <<lock, pc, seen, attempt, dead>>

Lines == {"idle", "open", "write", "read", "check", "remove", "held",
          "inspect", "judge", "repair"}

TypeOK ==
    /\ lock \subseteq [by : Agents, pid : Pids \cup {NoPid}]
    /\ \A l, m \in lock : l = m
    /\ pc \in [Agents -> Lines] /\ seen \in [Agents -> Pids \cup {NoPid}]
    /\ attempt \in [Agents -> 0..1] /\ dead \subseteq Pids

Init ==
    /\ lock = {} /\ dead = {}
    /\ pc = [a \in Agents |-> "idle"]
    /\ seen = [a \in Agents |-> NoPid]
    /\ attempt = [a \in Agents |-> 0]

-----------------------------------------------------------------------------
At(a, line) == pc[a] = line /\ PidOf[a] \notin dead
Goto(a, line) == pc' = [pc EXCEPT ![a] = line]
Absent == lock = {}

Begin(a) ==
    /\ At(a, "idle")
    /\ Goto(a, "open")
    /\ attempt' = [attempt EXCEPT ![a] = 0]
    /\ UNCHANGED <<lock, seen, dead>>

\* OpenFile with O_CREATE|O_EXCL.
Open(a) ==
    /\ At(a, "open")
    /\ \/ Absent /\ lock' = {[by |-> a, pid |-> NoPid]} /\ Goto(a, "write")
       \/ ~Absent /\ Goto(a, "read") /\ UNCHANGED lock
    /\ UNCHANGED <<seen, attempt, dead>>

\* The new holder records itself, in the file it created: another agent may
\* have unlinked it meanwhile.
Write(a) ==
    /\ At(a, "write")
    /\ lock' = {IF l.by = a THEN [l EXCEPT !.pid = PidOf[a]] ELSE l : l \in lock}
    /\ Goto(a, "held")
    /\ UNCHANGED <<seen, attempt, dead>>

\* ReadFile; a lock released meanwhile is reported as unreadable.
Read(a) ==
    /\ At(a, "read")
    /\ \/ Absent /\ Goto(a, "idle") /\ UNCHANGED seen
       \/ \E l \in lock : seen' = [seen EXCEPT ![a] = l.pid] /\ Goto(a, "check")
    /\ UNCHANGED <<lock, attempt, dead>>

\* (mutant) an empty lock counts as stale
VerifiedStaleOrEmpty(a) == seen[a] = NoPid \/ seen[a] \in dead
VerifiedStale(a) == seen[a] \in dead

\* /proc/<pid> decides whether the holder is dead; otherwise Acquire refuses.
Check(a) ==
    /\ At(a, "check")
    /\ Goto(a, IF VerifiedStale(a) THEN "remove" ELSE "idle")
    /\ seen' = [seen EXCEPT ![a] = NoPid]
    /\ UNCHANGED <<lock, attempt, dead>>

\* os.Remove takes whatever file has the name by now; then the second and
\* last attempt.
Remove(a) ==
    /\ At(a, "remove")
    /\ lock' = {}
    /\ Goto(a, IF attempt[a] = 0 THEN "open" ELSE "idle")
    /\ attempt' = [attempt EXCEPT ![a] = 1]
    /\ UNCHANGED <<seen, dead>>

\* release() removes the file by name too.
Release(a) ==
    /\ At(a, "held")
    /\ lock' = {} /\ Goto(a, "idle")
    /\ UNCHANGED <<seen, attempt, dead>>

Acquire(a) == Open(a) \/ Write(a) \/ Read(a) \/ Check(a) \/ Remove(a)

\* `bonghos doctor --repair`: the same read, check and remove, without taking
\* the lock.
Inspect(a) ==
    \/ At(a, "idle") /\ Goto(a, "inspect") /\ UNCHANGED <<lock, seen, attempt, dead>>
    \/ /\ At(a, "inspect")
       /\ \/ Absent /\ Goto(a, "idle") /\ UNCHANGED seen
          \/ \E l \in lock : seen' = [seen EXCEPT ![a] = l.pid] /\ Goto(a, "judge")
       /\ UNCHANGED <<lock, attempt, dead>>
    \/ /\ At(a, "judge")
       /\ Goto(a, IF VerifiedStale(a) THEN "repair" ELSE "idle")
       /\ seen' = [seen EXCEPT ![a] = NoPid]
       /\ UNCHANGED <<lock, attempt, dead>>

Repair(a) ==
    /\ At(a, "repair")
    /\ lock' = {} /\ Goto(a, "idle")
    /\ UNCHANGED <<seen, attempt, dead>>

Die(p) ==
    /\ p \notin dead /\ dead' = dead \cup {p}
    /\ pc' = [a \in Agents |-> IF PidOf[a] = p THEN "idle" ELSE pc[a]]
    /\ UNCHANGED <<lock, seen, attempt>>

Next ==
    \/ \E a \in Agents : Begin(a) \/ Acquire(a) \/ Release(a) \/ Inspect(a) \/ Repair(a)
    \/ \E p \in Pids : Die(p)

Spec == Init /\ [][Next]_lockVars

-----------------------------------------------------------------------------
Owners == {a \in Agents : pc[a] \in {"write", "held"}}

\* While no process has died, the lock excludes: at most one operation runs
\* under it, its file is still there, and no agent, `doctor` included, is about
\* to remove it as stale.
ExclusiveUntilADeath ==
    dead = {} =>
        /\ \A a, b \in Owners : a = b
        /\ \A a \in Owners : \E l \in lock : l.by = a
        /\ \A a \in Agents : pc[a] \notin {"remove", "repair"}

\* No lock is left behind by operations that live: one that was refused or has
\* finished leaves nothing that would refuse the next.
NoLeftover == dead = {} => \A l \in lock : l.by \in Owners
=============================================================================
