------------------------------ MODULE Scheduler ------------------------------
(***************************************************************************)
(* The persistent scheduler (internal/scheduler/scheduler.go): the polling *)
(* loop, its leases, the goroutine of every run, and the requests that     *)
(* create, change, delete and trigger a schedule meanwhile.                *)
(*                                                                         *)
(* One schedule, from its creation to its deletion: schedules share only   *)
(* the loop that visits them in turn.  A step is one SQL statement (the    *)
(* database serialises them) or one call of the Executor.  A rule stands   *)
(* for a schedule expression: the instants it names, or an interval.       *)
(***************************************************************************)
EXTENDS Naturals

CONSTANTS
    Settings,       \* what a user may configure: rule, action and policies
    MaxTime,        \* bound: instants at which runs can be due
    MaxRequests,    \* bound: requests about the schedule
    MaxCrashes      \* bound: deaths of the control plane

Actions == {"lifecycle", "console", "backup"}
ASSUME SettingsAssumption ==
    Settings \subseteq [on : BOOLEAN, at : SUBSET (Nat \ {0}), every : Nat, action : Actions,
                        missed : {"skip", "run_once"}, conflict : {"skip", "retry"},
                        offline : {"skip", "wait", "start"}]
ASSUME BoundsAssumption == MaxTime \in Nat /\ MaxRequests \in Nat /\ MaxCrashes \in Nat

VARIABLES
    clock,          \* time.Now()
    row,            \* the schedule's row: {} or {[cfg, next]}; next 0 is NULL
    runs,           \* schedule_runs by planned time ("none": no row)
    loop,           \* where the loop is
    seen, now,      \* the row it read and the time it read it at
    jobs,           \* the goroutines of runs: [manual, plan, cfg, pc]
    boot,           \* when the control plane last came up
    crashes,        \* how often it died
    began,          \* how often the action of a planned time was begun
    requests        \* how many requests there were

schedVars == <<clock, row, runs, loop, seen, now, jobs, boot, crashes, began, requests>>

Times == 0..MaxTime
Recordable == {"queued", "running", "succeeded", "failed", "skipped"}

-----------------------------------------------------------------------------
(* NextRun: the first instant of the rule after t; 0 if there is none *)
NextRun(cfg, t) ==
    LET later == {u \in cfg.at : u > t} \cup {t + n : n \in {cfg.every} \ {0}}
    IN  IF later = {} THEN 0 ELSE CHOOSE u \in later : \A v \in later : u <= v

\* A row of an earlier session may be there when the control plane starts.
Init ==
    /\ clock = 0 /\ boot = 0 /\ now = 0 /\ crashes = 0
    /\ row \in {{}} \cup {{[cfg |-> c, next |-> NextRun(c, 0)]} : c \in Settings}
    /\ runs = [t \in Times |-> "none"] /\ began = [t \in Times |-> 0]
    /\ loop = "off" /\ seen = {} /\ jobs = {}
    /\ requests = 0

Running == loop # "off"
Due(r) == r.cfg.on /\ r.next # 0 /\ r.next <= clock
LoopVars == <<loop, seen, now>>
WorldVars == <<clock, boot, crashes>>
Job(m, p, c, pc) == [manual |-> m, plan |-> p, cfg |-> c, pc |-> pc]

\* recordRun.  Without the schedule the foreign key, with an unknown status the
\* CHECK of schedule_runs rejects the row, and nobody looks at the error.
RecordRun(p, status) ==
    runs' = IF row = {} \/ status \notin Recordable THEN runs
            ELSE [runs EXCEPT ![p] = status]

-----------------------------------------------------------------------------
(* The loop: handleMissed once, then tick *)

Start ==
    /\ loop = "off"
    /\ loop' = "missed" /\ boot' = clock
    /\ UNCHANGED <<clock, row, runs, seen, now, jobs, crashes, began, requests>>

\* List, and the tests of the loop's body.
Look ==
    /\ loop \in {"missed", "idle"}
    /\ IF \E r \in row : Due(r)
       THEN loop' = (IF loop = "missed" THEN "due" ELSE "lease") /\ seen' = row /\ now' = clock
       ELSE loop' = "idle" /\ UNCHANGED <<seen, now>>
    /\ UNCHANGED <<row, runs, jobs, began, requests, WorldVars>>

\* (mutant) the missed-run policy is not consulted
MissedAlwaysRuns ==
    /\ loop = "due" /\ loop' = "advance"
    /\ \E s \in seen : jobs' = jobs \cup {Job(FALSE, s.next, s.cfg, "begin")}
    /\ UNCHANGED <<row, runs, seen, now, began, requests, WorldVars>>

Missed ==
    /\ loop = "due" /\ loop' = "advance"
    /\ \E s \in seen :
         \/ /\ s.cfg.missed = "run_once"
            /\ jobs' = jobs \cup {Job(FALSE, s.next, s.cfg, "begin")}
            /\ UNCHANGED runs
         \/ s.cfg.missed = "skip" /\ RecordRun(s.next, "skipped") /\ UNCHANGED jobs
    /\ UNCHANGED <<row, seen, now, began, requests, WorldVars>>

\* The insert succeeds once per planned time.  Any error of it counts as
\* taken: the planned time's row is there, or the schedule is not.
Lease ==
    /\ loop = "lease" /\ loop' = "advance"
    /\ \E s \in seen :
         \/ /\ row # {} /\ runs[s.next] = "none"
            /\ runs' = [runs EXCEPT ![s.next] = "queued"]
            /\ jobs' = jobs \cup {Job(FALSE, s.next, s.cfg, "begin")}
         \/ (row = {} \/ runs[s.next] # "none") /\ UNCHANGED <<runs, jobs>>
    /\ UNCHANGED <<row, seen, now, began, requests, WorldVars>>

\* (mutant) next_run_at is left alone
AdvanceForgotten ==
    /\ loop = "advance" /\ loop' = "idle" /\ seen' = {}
    /\ UNCHANGED <<row, runs, now, jobs, began, requests, WorldVars>>

\* next_run_at is computed from the row as it was read.
Advance ==
    /\ loop = "advance" /\ loop' = "idle" /\ seen' = {}
    /\ row' = {[r EXCEPT !.next = NextRun(s.cfg, now)] : r \in row, s \in seen}
    /\ UNCHANGED <<runs, now, jobs, began, requests, WorldVars>>

LoopStep == Look \/ Missed \/ Lease \/ Advance

-----------------------------------------------------------------------------
(* One run: execute and runAction *)

Planned(p) == {j \in jobs : ~j.manual /\ j.plan = p}
Moves(j, pc) == jobs' = (jobs \ {j}) \cup {[j EXCEPT !.pc = pc]}
Ends(j, status) == jobs' = jobs \ {j} /\ RecordRun(j.plan, status)
JobFrame == UNCHANGED <<row, LoopVars, requests, WorldVars>>

Begin(j) ==
    /\ j.pc = "begin" /\ Moves(j, "conflict")
    /\ runs' = [runs EXCEPT ![j.plan] = IF @ = "none" THEN @ ELSE "running"]
    /\ UNCHANGED began /\ JobFrame

\* (mutant) the conflict policy is not consulted
ConflictAlwaysRetries(j) ==
    /\ j.pc = "conflict"
    /\ \/ Moves(j, "online") /\ UNCHANGED runs
       \/ Moves(j, "retry") /\ RecordRun(j.plan, "queued")
    /\ UNCHANGED began /\ JobFrame

\* Executor.OperationInProgress answers either way; a backup does not ask: it
\* takes the operation lock.
Conflict(j) ==
    /\ j.pc = "conflict"
    /\ \/ Moves(j, "online") /\ UNCHANGED runs
       \/ /\ j.cfg.action # "backup" /\ j.cfg.conflict = "retry"
          /\ Moves(j, "retry") /\ RecordRun(j.plan, "queued")
       \/ /\ j.cfg.action # "backup" /\ j.cfg.conflict = "skip"
          /\ Ends(j, "skipped")
    /\ UNCHANGED began /\ JobFrame

\* time.AfterFunc calls execute again with the schedule as it was.
Retry(j) ==
    /\ j.pc = "retry" /\ Moves(j, "begin")
    /\ UNCHANGED <<runs, began>> /\ JobFrame

\* Executor.ServerOnline answers either way; only console actions ask it.
CheckOnline(j) ==
    /\ j.pc = "online"
    /\ \/ Moves(j, "act") /\ UNCHANGED runs
       \/ /\ j.cfg.action = "console" /\ j.cfg.offline # "skip"
          /\ Moves(j, j.cfg.offline) /\ UNCHANGED runs
       \/ j.cfg.action = "console" /\ j.cfg.offline = "skip" /\ Ends(j, "skipped")
    /\ UNCHANGED began /\ JobFrame

\* start_then_execute: the action follows at once, or the run has failed.
StartServer(j) ==
    /\ j.pc = "start"
    /\ \/ Moves(j, "act") /\ UNCHANGED runs
       \/ Ends(j, "failed")
    /\ UNCHANGED began /\ JobFrame

\* wait_until_online: polls for ten minutes.
WaitOnline(j) ==
    /\ j.pc = "wait"
    /\ \/ Moves(j, "act") /\ UNCHANGED runs
       \/ Ends(j, "skipped")
    /\ UNCHANGED began /\ JobFrame

\* The call of the Executor begins ...
Act(j) ==
    /\ j.pc = "act" /\ Moves(j, "acting")
    /\ began' = IF j.manual THEN began ELSE [began EXCEPT ![j.plan] = @ + 1]
    /\ UNCHANGED <<runs>> /\ JobFrame

Fails(j) ==
    /\ j.pc = "acting" /\ Ends(j, "failed")
    /\ UNCHANGED began /\ JobFrame

\* (mutant) a success is not recorded
SucceedsUnrecorded(j) ==
    /\ j.pc = "acting" /\ jobs' = jobs \ {j} /\ UNCHANGED <<runs, began>>
    /\ JobFrame

\* ... and ends.  RunNow reports a success under a name of its own.
Succeeds(j) ==
    /\ j.pc = "acting" /\ Ends(j, IF j.manual THEN "success" ELSE "succeeded")
    /\ UNCHANGED began /\ JobFrame

JobStep(j) ==
    \/ Begin(j) \/ Conflict(j) \/ Retry(j) \/ CheckOnline(j) \/ StartServer(j)
    \/ WaitOnline(j) \/ Act(j) \/ Fails(j) \/ Succeeds(j)

-----------------------------------------------------------------------------
(* Requests *)

Request ==
    /\ Running /\ requests < MaxRequests /\ requests' = requests + 1
    /\ UNCHANGED <<LoopVars, WorldVars>>

\* A new schedule has an identity of its own and no runs.  One schedule at a
\* time: the next one comes when nothing is left of the last.
Create(c) ==
    /\ Request /\ row = {} /\ seen = {} /\ jobs = {}
    /\ row' = {[cfg |-> c, next |-> NextRun(c, clock)]}
    /\ runs' = [t \in Times |-> "none"] /\ began' = [t \in Times |-> 0]
    /\ UNCHANGED jobs

\* Update computes next_run_at anew, from the present; without a row its
\* statement has no effect.
Update(c) ==
    /\ Request /\ row # {}
    /\ row' = {[cfg |-> c, next |-> NextRun(c, clock)]}
    /\ UNCHANGED <<runs, jobs, began>>

\* The runs go with the schedule (ON DELETE CASCADE).
Delete ==
    /\ Request /\ row # {} /\ row' = {}
    /\ runs' = [t \in Times |-> "none"]
    /\ UNCHANGED <<jobs, began>>

\* The planned time of a manual run is now.  Neither lease nor policies apply.
RunNow ==
    /\ Request
    /\ \E r \in row : jobs' = jobs \cup {Job(TRUE, clock, r.cfg, "act")}
    /\ UNCHANGED <<row, runs, began>>

-----------------------------------------------------------------------------
(* The world around *)

Crash ==
    /\ Running /\ crashes < MaxCrashes
    /\ crashes' = crashes + 1
    /\ loop' = "off" /\ seen' = {} /\ jobs' = {}
    /\ UNCHANGED <<clock, row, runs, now, boot, began, requests>>

Tick ==
    /\ clock < MaxTime /\ clock' = clock + 1
    /\ UNCHANGED <<row, runs, LoopVars, jobs, boot, crashes, began, requests>>

Next ==
    \/ Start \/ LoopStep
    \/ \E j \in jobs : JobStep(j)
    \/ \E c \in Settings : Create(c) \/ Update(c)
    \/ Delete \/ RunNow
    \/ Crash \/ Tick

Spec == Init /\ [][Next]_schedVars

\* Goroutines run and the Executor's calls return: Start and Stop have
\* deadlines, commands and backups end.
FairSpec ==
    Spec /\ \A p \in Times : WF_schedVars(\E j \in Planned(p) : JobStep(j))

-----------------------------------------------------------------------------
(* Properties *)

\* "duplicate-run protection" (scheduler.go:3) as far as it reaches: until the
\* control plane dies, the action of a planned time is begun at most once,
\* missed runs, retries, and changes of the schedule under way included.
RunsOnceUntilACrash == crashes = 0 => \A p \in Times : began[p] <= 1

\* skip_missed_run: no run is started for a time that passed before the control
\* plane came up, also when the schedule was edited right after.
MissedRunsAreSkipped ==
    \A j \in jobs : ~j.manual /\ j.cfg.missed = "skip" => j.plan >= boot

\* The history tells how a run ended, whatever runs of other times, manual
\* runs and edits did meanwhile: until the control plane dies.
HistoryTellsTheEnd ==
    \A p \in Times :
        crashes = 0 /\ row # {} /\ began[p] > 0 /\ Planned(p) = {}
            => runs[p] \in {"succeeded", "failed"}

\* A run that does not retry ends: a server that never comes online and an
\* operation that never ends hold it up for a bounded time.
RunsEnd ==
    \A p \in Times : (\E j \in Planned(p) : j.cfg.conflict = "skip") ~> Planned(p) = {}
=============================================================================
