--------------------------- MODULE SchedulerProofs ---------------------------
(***************************************************************************)
(* Theorems about Scheduler, for every set of settings and every bound.    *)
(***************************************************************************)
EXTENDS Scheduler, WellFoundedInduction, TLAPS

Pcs == {"begin", "conflict", "retry", "online", "start", "wait", "act", "acting"}
JobType == [manual : BOOLEAN, plan : Times, cfg : Settings, pc : Pcs]
RowType == [cfg : Settings, next : Nat]

SchedTypeOK ==
    /\ clock \in Times /\ boot \in Times /\ now \in Times
    /\ crashes \in Nat /\ requests \in Nat
    /\ row \subseteq RowType /\ seen \subseteq RowType
    /\ runs \in [Times -> {"none"} \cup Recordable]
    /\ began \in [Times -> Nat]
    /\ jobs \subseteq JobType
    /\ loop \in {"off", "missed", "due", "lease", "advance", "idle"}

-----------------------------------------------------------------------------
(* Lemmas about the operators *)

\* The least instant of a rule: there is one, since instants are naturals.
LEMMA LeastInstant ==
    ASSUME NEW T \in SUBSET Nat, T # {}
    PROVE  \E x \in T : \A y \in T : x <= y
<1> DEFINE less == {ss \in Nat \X Nat : ss[1] < ss[2]}
<1>1. IsWellFoundedOn(less, Nat)
  BY NatLessThanWellFounded DEF OpToRel
<1> HIDE DEF less
<1>2. PICK x \in T : \A y \in T : ~(<<y, x>> \in less)
  BY <1>1, WFMin
<1>3. \A y \in T : ~(y < x)
  BY <1>2 DEF less
<1> QED BY <1>3

\* NextRun never answers with a time that has passed.
LEMMA NextRunIsLater ==
    ASSUME NEW cfg \in Settings, NEW t \in Nat
    PROVE  NextRun(cfg, t) \in Nat /\ (NextRun(cfg, t) # 0 => NextRun(cfg, t) > t)
<1> DEFINE later == {u \in cfg.at : u > t} \cup {t + n : n \in {cfg.every} \ {0}}
<1>1. cfg.at \subseteq Nat /\ cfg.every \in Nat
  BY SettingsAssumption
<1>2. \A u \in later : u \in Nat /\ u > t
  BY <1>1
<1>3. later # {} => NextRun(cfg, t) \in later
  BY <1>2, LeastInstant DEF NextRun
<1>4. later = {} => NextRun(cfg, t) = 0
  BY DEF NextRun
<1> QED BY <1>2, <1>3, <1>4

-----------------------------------------------------------------------------
(* The inductive invariants *)

\* What the loop read is due, and was read after the control plane came up;
\* with the missed runs dealt with, a row that is on is due at no earlier time.
OneSchedule == (\A r, s \in row : r = s) /\ (\A r, s \in seen : r = s)
NowIsPast == now <= clock /\ boot <= clock
NothingRunsWhenOff == loop = "off" => jobs = {}
SeenOnlyWhileVisited == loop \in {"off", "missed", "idle"} => seen = {}
ReadSinceBoot == loop \in {"due", "lease", "advance"} => boot <= now
SeenIsDue == \A s \in seen : Due(s) /\ s.next <= now
NoOldTimeIsLeft ==
    loop \in {"idle", "lease"} => \A r \in row \cup seen : r.cfg.on /\ r.next # 0 => r.next >= boot

LoopInv ==
    /\ OneSchedule /\ NowIsPast /\ NothingRunsWhenOff /\ SeenOnlyWhileVisited /\ ReadSinceBoot
    /\ SeenIsDue /\ NoOldTimeIsLeft /\ MissedRunsAreSkipped

\* Every planned time that has a goroutine or was begun is before t.
AllBefore(t) ==
    /\ \A p \in Times : began[p] > 0 => p < t
    /\ \A j \in jobs : ~j.manual => j.plan < t

\* Until the control plane dies a planned time belongs to one goroutine, or
\* its action was begun, and no row and no reading of one is due at it again.
ManualRunsAct == \A j \in jobs : j.manual => j.pc \in {"act", "acting"}
PlannedOnce == \A j, k \in jobs : ~j.manual /\ ~k.manual /\ j.plan = k.plan => j = k
NotBegunBefore == \A j \in jobs : ~j.manual /\ j.pc # "acting" => began[j.plan] = 0
BegunOnce == \A p \in Times : began[p] <= 1
IssuedIsPast == AllBefore(now + 1)
NextIsNew == loop # "advance" => \A r \in row : r.next # 0 => AllBefore(r.next)
SeenIsNew == loop \in {"due", "lease"} => \A s \in seen : AllBefore(s.next)
EndIsRecorded ==
    \A p \in Times : row # {} /\ began[p] > 0 /\ Planned(p) = {} => runs[p] \in {"succeeded", "failed"}

OnceInv ==
    crashes = 0 =>
        /\ PlannedOnce /\ NotBegunBefore /\ BegunOnce /\ IssuedIsPast
        /\ NextIsNew /\ SeenIsNew /\ EndIsRecorded
SchedInv == SchedTypeOK /\ LoopInv /\ ManualRunsAct /\ OnceInv

-----------------------------------------------------------------------------
(* Steps *)

\* The steps that are no goroutine's: the loop's, the requests', the world's.
OtherStep ==
    \/ Start \/ Look \/ Missed \/ Lease \/ Advance
    \/ \E c \in Settings : Create(c) \/ Update(c)
    \/ Delete \/ RunNow \/ Crash \/ Tick

LEMMA NextSplits == Next <=> OtherStep \/ \E j \in jobs : JobStep(j)
BY DEF Next, OtherStep, LoopStep

\* What a step of a goroutine does: it goes on with another program counter or
\* ends; a run that is under way leaves row, loop and clock alone.
LEMMA JobStepShape ==
    ASSUME SchedTypeOK, ManualRunsAct, NEW j \in jobs, JobStep(j)
    PROVE  /\ UNCHANGED <<clock, row, loop, seen, now, boot, crashes, requests>>
           /\ \/ \E pc \in Pcs : /\ jobs' = (jobs \ {j}) \cup {[j EXCEPT !.pc = pc]}
                                 /\ j.manual => pc \in {"act", "acting"}
                                 /\ j.pc \in {"act", "acting"} => pc = "acting"
              \/ jobs' = jobs \ {j} /\ j.pc # "act"
<1> USE DEF JobFrame, LoopVars, WorldVars
<1>0. j \in JobType
  BY DEF SchedTypeOK
<1>1. CASE Begin(j)
  BY <1>1 DEF Begin, Moves, Pcs, ManualRunsAct
<1>2. CASE Conflict(j)
  BY <1>2 DEF Conflict, Moves, Ends, Pcs, ManualRunsAct
<1>3. CASE Retry(j)
  BY <1>3 DEF Retry, Moves, Pcs, ManualRunsAct
<1>4. CASE CheckOnline(j)
  <2>1. j.cfg.offline # "skip" => j.cfg.offline \in Pcs
    BY <1>0, SettingsAssumption DEF JobType, Pcs
  <2> QED BY <1>4, <2>1 DEF CheckOnline, Moves, Ends, Pcs, ManualRunsAct
<1>5. CASE StartServer(j)
  BY <1>5 DEF StartServer, Moves, Ends, Pcs, ManualRunsAct
<1>6. CASE WaitOnline(j)
  BY <1>6 DEF WaitOnline, Moves, Ends, Pcs, ManualRunsAct
<1>7. CASE Act(j)
  BY <1>7 DEF Act, Moves, Pcs
<1>8. CASE Fails(j)
  BY <1>8 DEF Fails, Ends
<1>9. CASE Succeeds(j)
  BY <1>9 DEF Succeeds, Ends
<1> QED BY <1>1, <1>2, <1>3, <1>4, <1>5, <1>6, <1>7, <1>8, <1>9 DEF JobStep

\* The history and the count of begun actions change for the job's time only.
LEMMA JobStepHistory ==
    ASSUME SchedTypeOK, ManualRunsAct, NEW j \in jobs, JobStep(j)
    PROVE  /\ runs' \in [Times -> {"none"} \cup Recordable]
           /\ \A p \in Times \ {j.plan} : runs'[p] = runs[p]
           /\ began' = IF j.pc = "act" /\ ~j.manual THEN [began EXCEPT ![j.plan] = @ + 1] ELSE began
           /\ Planned(j.plan)' = {} /\ ~j.manual /\ row # {} /\ j.pc = "acting"
                  => runs'[j.plan] \in {"succeeded", "failed"}
           /\ j.manual => runs'[j.plan] \in {runs[j.plan], "failed"}
<1> USE DEF JobFrame, SchedTypeOK, ManualRunsAct
<1>0. j \in JobType /\ j.plan \in Times
  BY DEF JobType
<1>r. ASSUME NEW p \in Times, NEW status, RecordRun(p, status)
      PROVE  /\ runs' \in [Times -> {"none"} \cup Recordable]
             /\ \A q \in Times \ {p} : runs'[q] = runs[q]
             /\ row # {} /\ status \in Recordable => runs'[p] = status
             /\ runs'[p] \in {runs[p], status}
             /\ status \notin Recordable => runs'[p] = runs[p]
  BY <1>r DEF RecordRun
<1>1. CASE Begin(j)
  BY <1>0, <1>1 DEF Begin, Recordable
<1>2. CASE Conflict(j)
  BY <1>0, <1>2, <1>r DEF Conflict, Ends
<1>3. CASE Retry(j)
  BY <1>0, <1>3 DEF Retry
<1>4. CASE CheckOnline(j)
  BY <1>0, <1>4, <1>r DEF CheckOnline, Ends
<1>5. CASE StartServer(j)
  BY <1>0, <1>5, <1>r DEF StartServer, Ends
<1>6. CASE WaitOnline(j)
  BY <1>0, <1>6, <1>r DEF WaitOnline, Ends
<1>7. CASE Act(j)
  BY <1>0, <1>7 DEF Act
<1>8. CASE Fails(j)
  BY <1>0, <1>8, <1>r DEF Fails, Ends, Recordable
<1>9. CASE Succeeds(j)
  BY <1>0, <1>9, <1>r DEF Succeeds, Ends, Recordable
<1> QED BY <1>1, <1>2, <1>3, <1>4, <1>5, <1>6, <1>7, <1>8, <1>9 DEF JobStep

\* Only the program counter of a goroutine changes.
LEMMA SameRun ==
    ASSUME NEW j \in JobType, NEW pc \in Pcs
    PROVE  /\ [j EXCEPT !.pc = pc] \in JobType
           /\ [j EXCEPT !.pc = pc].manual = j.manual /\ [j EXCEPT !.pc = pc].plan = j.plan
           /\ [j EXCEPT !.pc = pc].cfg = j.cfg /\ [j EXCEPT !.pc = pc].pc = pc
BY DEF JobType

\* A new goroutine is one of a due row or of a manual run.
LEMMA NewRun ==
    ASSUME NEW m \in BOOLEAN, NEW p \in Times, NEW c \in Settings, NEW pc \in Pcs
    PROVE  /\ Job(m, p, c, pc) \in JobType
           /\ Job(m, p, c, pc).manual = m /\ Job(m, p, c, pc).plan = p
           /\ Job(m, p, c, pc).cfg = c /\ Job(m, p, c, pc).pc = pc
BY DEF Job, JobType

\* So after a step of j every goroutine there is was there before, as j or as itself.
LEMMA JobsAfter ==
    ASSUME SchedTypeOK, ManualRunsAct, NEW j \in jobs, JobStep(j)
    PROVE  /\ jobs' \subseteq JobType
           /\ \A k \in jobs' : \/ k \in jobs \ {j}
                               \/ /\ k.manual = j.manual /\ k.plan = j.plan /\ k.cfg = j.cfg
                                  /\ j.manual => k.pc \in {"act", "acting"}
                                  /\ j.pc \in {"act", "acting"} => k.pc = "acting"
                                  /\ jobs' = (jobs \ {j}) \cup {k}
           /\ \A k \in jobs \ {j} : k \in jobs'
           /\ j.pc = "act" => \E k \in jobs' : k.manual = j.manual /\ k.plan = j.plan
<1>1. j \in JobType
  BY DEF SchedTypeOK
<1>2. CASE jobs' = jobs \ {j} /\ j.pc # "act"
  BY <1>2 DEF SchedTypeOK
<1>3. ASSUME NEW pc \in Pcs, jobs' = (jobs \ {j}) \cup {[j EXCEPT !.pc = pc]},
             j.manual => pc \in {"act", "acting"},
             j.pc \in {"act", "acting"} => pc = "acting"
      PROVE  /\ jobs' \subseteq JobType
             /\ \A k \in jobs' : \/ k \in jobs \ {j}
                                 \/ /\ k.manual = j.manual /\ k.plan = j.plan /\ k.cfg = j.cfg
                                    /\ j.manual => k.pc \in {"act", "acting"}
                                    /\ j.pc \in {"act", "acting"} => k.pc = "acting"
                                    /\ jobs' = (jobs \ {j}) \cup {k}
             /\ \A k \in jobs \ {j} : k \in jobs'
             /\ \E k \in jobs' : k.manual = j.manual /\ k.plan = j.plan
  <2> DEFINE moved == [j EXCEPT !.pc = pc]
  <2>1. /\ moved \in JobType /\ moved.manual = j.manual /\ moved.plan = j.plan
        /\ moved.cfg = j.cfg /\ moved.pc = pc
    BY <1>1, SameRun
  <2>2. jobs' = (jobs \ {j}) \cup {moved}
    BY <1>3
  <2> HIDE DEF moved
  <2> QED BY <1>3, <2>1, <2>2 DEF SchedTypeOK
<1> QED BY <1>2, <1>3, JobStepShape

\* A row that is computed anew is due later than t, if at all.
LEMMA RowAfter ==
    ASSUME NEW c \in Settings, NEW t \in Nat, row' = {[cfg |-> c, next |-> NextRun(c, t)]}
    PROVE  /\ row' \subseteq RowType
           /\ \A r \in row' : r.next # 0 => r.next > t
BY NextRunIsLater DEF RowType

LEMMA AdvanceRow ==
    ASSUME SchedTypeOK, Advance
    PROVE  /\ row' \subseteq RowType
           /\ \A r \in row' : r.next # 0 => r.next > now
           /\ row' # {} => row # {}
           /\ OneSchedule => \A r, s \in row' : r = s
<1>1. ASSUME NEW r \in row, NEW s \in seen
      PROVE  /\ [r EXCEPT !.next = NextRun(s.cfg, now)] \in RowType
             /\ [r EXCEPT !.next = NextRun(s.cfg, now)].next = NextRun(s.cfg, now)
             /\ NextRun(s.cfg, now) \in Nat
             /\ NextRun(s.cfg, now) # 0 => NextRun(s.cfg, now) > now
  <2>1. r \in RowType /\ s.cfg \in Settings /\ now \in Nat
    BY BoundsAssumption DEF SchedTypeOK, RowType, Times
  <2> QED BY <2>1, NextRunIsLater DEF RowType
<1>2. ASSUME NEW x \in row'
      PROVE  x \in RowType /\ (x.next # 0 => x.next > now) /\ row # {}
  <2>1. PICK r \in row, s \in seen : x = [r EXCEPT !.next = NextRun(s.cfg, now)]
    BY <1>2 DEF Advance
  <2> QED BY <1>1, <2>1
<1>3. OneSchedule => \A r, s \in row' : r = s
  BY DEF Advance, OneSchedule
<1> QED BY <1>2, <1>3

-----------------------------------------------------------------------------
(* Types *)

LEMMA OtherStepType ==
    ASSUME SchedTypeOK, LoopInv, OtherStep
    PROVE  SchedTypeOK'
<1> USE BoundsAssumption DEF LoopVars, WorldVars
<1>0. /\ \A r \in row \cup seen : r.cfg \in Settings /\ r.next \in Nat
      /\ clock \in Nat /\ now \in Nat
      /\ \A s \in seen : s.next \in Times /\ Job(FALSE, s.next, s.cfg, "begin") \in JobType
  <2>1. \A r \in row \cup seen : r.cfg \in Settings /\ r.next \in Nat
    BY DEF SchedTypeOK, RowType
  <2>2. clock \in Nat /\ now \in Nat
    BY DEF SchedTypeOK, Times
  <2>3. \A s \in seen : s.next \in Times
    BY <2>1, <2>2 DEF LoopInv, SeenIsDue, SchedTypeOK, Times
  <2>4. \A s \in seen : Job(FALSE, s.next, s.cfg, "begin") \in JobType
    <3>1. "begin" \in Pcs
      BY DEF Pcs
    <3> QED BY <2>1, <2>3, <3>1, NewRun
  <2> QED BY <2>1, <2>2, <2>3, <2>4
<1>1. CASE Start
  BY <1>1 DEF Start, SchedTypeOK
<1>2. CASE Look
  BY <1>2 DEF Look, SchedTypeOK
<1>3. CASE Missed
  <2>1. PICK s \in seen :
          \/ jobs' = jobs \cup {Job(FALSE, s.next, s.cfg, "begin")} /\ UNCHANGED runs
          \/ RecordRun(s.next, "skipped") /\ UNCHANGED jobs
    BY <1>3 DEF Missed
  <2>2. jobs' \subseteq JobType /\ runs' \in [Times -> {"none"} \cup Recordable]
    BY <1>0, <2>1 DEF RecordRun, SchedTypeOK
  <2> QED BY <1>3, <2>2 DEF Missed, SchedTypeOK
<1>4. CASE Lease
  <2>1. PICK s \in seen :
          \/ /\ runs' = [runs EXCEPT ![s.next] = "queued"]
             /\ jobs' = jobs \cup {Job(FALSE, s.next, s.cfg, "begin")}
          \/ UNCHANGED <<runs, jobs>>
    BY <1>4 DEF Lease
  <2>2. jobs' \subseteq JobType /\ runs' \in [Times -> {"none"} \cup Recordable]
    BY <1>0, <2>1 DEF Recordable, SchedTypeOK
  <2> QED BY <1>4, <2>2 DEF Lease, SchedTypeOK
<1>5. CASE Advance
  BY <1>5, AdvanceRow DEF Advance, SchedTypeOK
<1>6. ASSUME NEW c \in Settings, Create(c) PROVE SchedTypeOK'
  <2>1. row' \subseteq RowType
    BY <1>0, <1>6, RowAfter DEF Create
  <2>2. /\ runs' \in [Times -> {"none"} \cup Recordable] /\ began' \in [Times -> Nat]
        /\ requests' \in Nat
    BY <1>6 DEF Create, Request, SchedTypeOK
  <2> QED BY <1>6, <2>1, <2>2 DEF Create, Request, SchedTypeOK
<1>7. ASSUME NEW c \in Settings, Update(c) PROVE SchedTypeOK'
  <2>1. row' \subseteq RowType /\ requests' \in Nat
    BY <1>0, <1>7, RowAfter DEF Update, Request, SchedTypeOK
  <2> QED BY <1>7, <2>1 DEF Update, Request, SchedTypeOK
<1>8. CASE Delete
  <2>1. runs' \in [Times -> {"none"} \cup Recordable] /\ requests' \in Nat
    BY <1>8 DEF Delete, Request, SchedTypeOK
  <2> QED BY <1>8, <2>1 DEF Delete, Request, SchedTypeOK
<1>9. CASE RunNow
  <2>1. PICK r \in row : jobs' = jobs \cup {Job(TRUE, clock, r.cfg, "act")}
    BY <1>9 DEF RunNow
  <2>2. Job(TRUE, clock, r.cfg, "act") \in JobType
    BY <1>0, NewRun DEF Pcs, SchedTypeOK
  <2>3. jobs' \subseteq JobType
    BY <2>1, <2>2 DEF SchedTypeOK
  <2>4. requests' = requests + 1 /\ UNCHANGED <<clock, row, runs, loop, seen, now, boot, crashes, began>>
    BY <1>9 DEF RunNow, Request
  <2> QED BY <2>3, <2>4 DEF SchedTypeOK
<1>10. CASE Crash
  BY <1>10 DEF Crash, SchedTypeOK
<1>11. CASE Tick
  BY <1>11 DEF Tick, SchedTypeOK, Times
<1> QED BY <1>1, <1>2, <1>3, <1>4, <1>5, <1>6, <1>7, <1>8, <1>9, <1>10, <1>11 DEF OtherStep

LEMMA JobStepType ==
    ASSUME SchedTypeOK, ManualRunsAct, NEW j \in jobs, JobStep(j)
    PROVE  SchedTypeOK'
<1>1. j.plan \in Times
  BY DEF SchedTypeOK, JobType
<1>2. began' \in [Times -> Nat]
  BY <1>1, JobStepHistory DEF SchedTypeOK
<1> QED BY <1>2, JobsAfter, JobStepShape, JobStepHistory DEF SchedTypeOK

-----------------------------------------------------------------------------
(* The loop *)

LEMMA OtherStepLoop ==
    ASSUME SchedTypeOK, LoopInv, OtherStep
    PROVE  LoopInv'
<1> USE BoundsAssumption DEF LoopVars, WorldVars, LoopInv, OneSchedule, NowIsPast, NothingRunsWhenOff,
        SeenOnlyWhileVisited, ReadSinceBoot, SeenIsDue, NoOldTimeIsLeft, MissedRunsAreSkipped, Due
<1>0. /\ clock \in Nat /\ now \in Nat /\ boot \in Nat
      /\ \A r \in row \cup seen : r.cfg \in Settings /\ r.next \in Nat
      /\ \A j \in jobs : j.plan \in Nat
  BY DEF SchedTypeOK, Times, RowType, JobType
<1>1. CASE Start
  BY <1>0, <1>1 DEF Start
<1>2. CASE Look
  <2>1. UNCHANGED <<row, jobs, clock, boot>> /\ loop \in {"missed", "idle"} /\ seen = {}
    BY <1>2 DEF Look
  <2>2. CASE \E r \in row : Due(r)
    <3>1. /\ loop' = (IF loop = "missed" THEN "due" ELSE "lease") /\ seen' = row /\ now' = clock
      BY <1>2, <2>2 DEF Look
    <3>2. SeenIsDue'
      BY <1>0, <2>1, <2>2, <3>1
    <3>3. NoOldTimeIsLeft'
      BY <1>0, <2>1, <3>1
    <3> QED BY <1>0, <2>1, <3>1, <3>2, <3>3
  <2>3. CASE ~\E r \in row : Due(r)
    <3>1. loop' = "idle" /\ UNCHANGED <<seen, now>>
      BY <1>2, <2>3 DEF Look
    <3> QED BY <1>0, <2>1, <2>3, <3>1
  <2> QED BY <2>2, <2>3
<1>3. CASE Missed
  <2>1. PICK s \in seen :
          \/ /\ s.cfg.missed = "run_once"
             /\ jobs' = jobs \cup {Job(FALSE, s.next, s.cfg, "begin")} /\ UNCHANGED runs
          \/ RecordRun(s.next, "skipped") /\ UNCHANGED jobs
    BY <1>3 DEF Missed
  <2> QED BY <1>0, <1>3, <2>1 DEF Missed, Job
<1>4. CASE Lease
  <2>1. PICK s \in seen :
          \/ jobs' = jobs \cup {Job(FALSE, s.next, s.cfg, "begin")}
          \/ UNCHANGED jobs
    BY <1>4 DEF Lease
  <2>2. s.next >= boot
    BY <1>0, <1>4 DEF Lease
  <2> QED BY <1>0, <1>4, <2>1, <2>2 DEF Lease, Job
<1>5. CASE Advance
  <2>1. /\ \A r \in row' : r.next # 0 => r.next > now
        /\ row' \subseteq RowType
    BY <1>5, AdvanceRow
  <2> QED BY <1>0, <1>5, <2>1 DEF Advance, RowType
<1>6. ASSUME NEW c \in Settings, Create(c) \/ Update(c) PROVE LoopInv'
  <2>1. /\ row' \subseteq RowType
        /\ \A r \in row' : r.next # 0 => r.next > clock
    BY <1>0, <1>6, RowAfter DEF Create, Update
  <2> QED BY <1>0, <1>6, <2>1 DEF Create, Update, Request, Running, RowType
<1>7. CASE Delete
  BY <1>0, <1>7 DEF Delete, Request
<1>8. CASE RunNow
  BY <1>0, <1>8 DEF RunNow, Request, Running, Job
<1>9. CASE Crash
  BY <1>0, <1>9 DEF Crash
<1>10. CASE Tick
  BY <1>0, <1>10 DEF Tick
<1> QED BY <1>1, <1>2, <1>3, <1>4, <1>5, <1>6, <1>7, <1>8, <1>9, <1>10 DEF OtherStep

LEMMA JobStepLoop ==
    ASSUME SchedTypeOK, ManualRunsAct, LoopInv, NEW j \in jobs, JobStep(j)
    PROVE  LoopInv'
<1>1. UNCHANGED <<clock, row, loop, seen, now, boot>> /\ loop # "off"
  BY JobStepShape DEF LoopInv, NothingRunsWhenOff
<1>2. MissedRunsAreSkipped'
  BY <1>1, JobsAfter DEF LoopInv, MissedRunsAreSkipped
<1> QED BY <1>1, <1>2
        DEF LoopInv, OneSchedule, NowIsPast, NothingRunsWhenOff, SeenOnlyWhileVisited, ReadSinceBoot,
            SeenIsDue, NoOldTimeIsLeft, Due

-----------------------------------------------------------------------------
(* Once per planned time *)

LEMMA JobStepOnce ==
    ASSUME SchedTypeOK, ManualRunsAct, OnceInv, NEW j \in jobs, JobStep(j)
    PROVE  ManualRunsAct' /\ OnceInv'
<1>0. UNCHANGED <<clock, row, loop, seen, now, boot, crashes, requests>>
  BY JobStepShape
<1>1. ManualRunsAct'
  BY JobsAfter DEF ManualRunsAct
<1>2. ASSUME crashes = 0
      PROVE  /\ PlannedOnce' /\ NotBegunBefore' /\ BegunOnce' /\ IssuedIsPast'
             /\ NextIsNew' /\ SeenIsNew' /\ EndIsRecorded'
  <2> USE DEF OnceInv
  <2>0. /\ PlannedOnce /\ NotBegunBefore /\ BegunOnce /\ IssuedIsPast
        /\ NextIsNew /\ SeenIsNew /\ EndIsRecorded
    BY <1>2
  <2>1. /\ \A k \in jobs : k \in JobType /\ k.plan \in Times /\ k.manual \in BOOLEAN
        /\ began \in [Times -> Nat] /\ Times \subseteq Nat /\ now \in Nat
    BY DEF SchedTypeOK, JobType, Times
  <2>2. PlannedOnce'
    BY <2>0, JobsAfter DEF PlannedOnce
  <2>3. /\ began'[j.plan] = began[j.plan] \/ (began[j.plan] = 0 /\ began'[j.plan] = 1 /\ j.pc = "act" /\ ~j.manual)
        /\ \A p \in Times \ {j.plan} : began'[p] = began[p]
        /\ j.manual => began' = began
    BY <2>0, <2>1, JobStepHistory DEF NotBegunBefore
  <2>4. NotBegunBefore'
    <3> SUFFICES ASSUME NEW k \in jobs', ~k.manual, k.pc # "acting"
                 PROVE  began'[k.plan] = 0
      BY DEF NotBegunBefore
    <3>1. CASE k \in jobs \ {j}
      <4>1. k.plan # j.plan \/ j.manual
        BY <2>0, <3>1 DEF PlannedOnce
      <4> QED BY <2>0, <2>1, <2>3, <3>1, <4>1 DEF NotBegunBefore
    <3>2. CASE k \notin jobs \ {j}
      <4>1. k.plan = j.plan /\ k.manual = j.manual /\ j.pc \notin {"act", "acting"}
        BY <3>2, JobsAfter
      <4> QED BY <2>0, <2>3, <4>1 DEF NotBegunBefore
    <3> QED BY <3>1, <3>2
  <2>5. BegunOnce'
    BY <2>0, <2>1, <2>3 DEF BegunOnce
  <2>6. ASSUME NEW t \in Nat, AllBefore(t) PROVE AllBefore(t)'
    <3>1. ASSUME NEW p \in Times, began'[p] > 0 PROVE p < t
      BY <2>1, <2>3, <2>6, <3>1 DEF AllBefore
    <3>2. ASSUME NEW k \in jobs', ~k.manual PROVE k.plan < t
      BY <2>6, <3>2, JobsAfter DEF AllBefore
    <3> QED BY <3>1, <3>2 DEF AllBefore
  <2>7. IssuedIsPast'
    <3>1. AllBefore(now + 1)'
      BY <1>0, <2>0, <2>1, <2>6 DEF IssuedIsPast, AllBefore
    <3> QED BY <3>1 DEF IssuedIsPast
  <2>8. \A r \in row \cup seen : r.next \in Nat
    BY DEF SchedTypeOK, RowType
  <2>9. NextIsNew' /\ SeenIsNew'
    BY <1>0, <2>0, <2>6, <2>8 DEF NextIsNew, SeenIsNew
  <2>10. EndIsRecorded'
    <3> SUFFICES ASSUME NEW p \in Times, row' # {}, began'[p] > 0, Planned(p)' = {}
                 PROVE  runs'[p] \in {"succeeded", "failed"}
      BY DEF EndIsRecorded
    <3>1. CASE p = j.plan /\ ~j.manual
      <4>1. j.pc # "act"
        BY <3>1, JobsAfter DEF Planned
      <4>2. j.pc = "acting"
        BY <2>0, <2>1, <2>3, <3>1, <4>1 DEF NotBegunBefore
      <4> QED BY <1>0, <3>1, <4>2, JobStepHistory
    <3>2. CASE p # j.plan \/ j.manual
      <4>1. Planned(p) = {}
        BY <3>2, JobsAfter DEF Planned
      <4>2. runs[p] \in {"succeeded", "failed"}
        BY <1>0, <2>0, <2>3, <3>2, <4>1 DEF EndIsRecorded
      <4> QED BY <3>2, <4>2, JobStepHistory
    <3> QED BY <3>1, <3>2
  <2> QED BY <2>2, <2>4, <2>5, <2>7, <2>9, <2>10
<1> QED BY <1>0, <1>1, <1>2 DEF OnceInv

LEMMA LaterStill == \A p, n, m \in Nat : p < n + 1 /\ n <= m => p < m + 1
OBVIOUS

\* A step that issues nothing, takes nothing away and moves rows only forward.
LEMMA QuietStepOnce ==
    ASSUME SchedTypeOK, SchedTypeOK', OnceInv, UNCHANGED <<jobs, runs, began, crashes>>, now <= now',
           loop' # "advance" => \A r \in row' : (r \in row /\ loop # "advance") \/ r.next = 0 \/ r.next > now,
           loop' \in {"due", "lease"} =>
               \/ seen' \subseteq row /\ loop # "advance" /\ \A s \in seen' : s.next # 0
               \/ seen' = seen /\ loop' = loop,
           row = {} => row' = {}
    PROVE  OnceInv'
<1> SUFFICES ASSUME crashes = 0
             PROVE  /\ PlannedOnce' /\ NotBegunBefore' /\ BegunOnce' /\ IssuedIsPast'
                    /\ NextIsNew' /\ SeenIsNew' /\ EndIsRecorded'
  BY DEF OnceInv
<1>0. /\ PlannedOnce /\ NotBegunBefore /\ BegunOnce /\ IssuedIsPast
      /\ NextIsNew /\ SeenIsNew /\ EndIsRecorded
  BY DEF OnceInv
<1>1. /\ now \in Nat /\ now' \in Nat /\ Times \subseteq Nat /\ \A j \in jobs : j.plan \in Nat
      /\ \A r \in row \cup row' \cup seen \cup seen' : r.next \in Nat
  BY DEF SchedTypeOK, Times, JobType, RowType
<1>2. \A t, u \in Nat : AllBefore(t) /\ t <= u => AllBefore(u)'
  BY <1>1 DEF AllBefore
<1>3. PlannedOnce' /\ NotBegunBefore' /\ BegunOnce' /\ EndIsRecorded'
  BY <1>0 DEF PlannedOnce, NotBegunBefore, BegunOnce, EndIsRecorded, Planned
<1>4. IssuedIsPast'
  <2>1. ASSUME NEW p \in Times, began'[p] > 0 PROVE p < now' + 1
    <3>1. p \in Nat /\ began[p] > 0
      BY <1>1, <2>1
    <3>2. p < now + 1
      BY <1>0, <3>1 DEF IssuedIsPast, AllBefore
    <3> QED BY <1>1, <3>1, <3>2, LaterStill
  <2>2. ASSUME NEW j \in jobs', ~j.manual PROVE j.plan < now' + 1
    <3>1. j.plan \in Nat /\ j.plan < now + 1
      BY <1>0, <1>1, <2>2 DEF IssuedIsPast, AllBefore
    <3> QED BY <1>1, <3>1
  <2> QED BY <2>1, <2>2 DEF IssuedIsPast, AllBefore
<1>5. NextIsNew'
  <2> SUFFICES ASSUME loop' # "advance", NEW r \in row', r.next # 0 PROVE AllBefore(r.next)'
    BY DEF NextIsNew
  <2>1. CASE r \in row /\ loop # "advance"
    BY <1>0, <1>1, <1>2, <2>1 DEF NextIsNew
  <2>2. CASE r.next > now
    BY <1>0, <1>1, <1>2, <2>2 DEF IssuedIsPast
  <2> QED BY <2>1, <2>2
<1>6. SeenIsNew'
  <2> SUFFICES ASSUME loop' \in {"due", "lease"}, NEW s \in seen' PROVE AllBefore(s.next)'
    BY DEF SeenIsNew
  <2>1. CASE s \in row /\ loop # "advance" /\ s.next # 0
    BY <1>0, <1>1, <1>2, <2>1 DEF NextIsNew
  <2>2. CASE s \in seen /\ loop' = loop
    BY <1>0, <1>1, <1>2, <2>2 DEF SeenIsNew
  <2> QED BY <2>1, <2>2
<1> QED BY <1>3, <1>4, <1>5, <1>6

\* The loop issues a planned time: the one it read.
LEMMA IssueOnce ==
    ASSUME SchedTypeOK, SchedTypeOK', LoopInv, OnceInv, NEW s \in seen, loop \in {"due", "lease"},
           loop' = "advance", UNCHANGED <<row, now, began, crashes>>,
           jobs' \in {jobs, jobs \cup {Job(FALSE, s.next, s.cfg, "begin")}},
           \A p \in Times \ {s.next} : runs'[p] = runs[p]
    PROVE  OnceInv'
<1> SUFFICES ASSUME crashes = 0
             PROVE  /\ PlannedOnce' /\ NotBegunBefore' /\ BegunOnce' /\ IssuedIsPast'
                    /\ NextIsNew' /\ SeenIsNew' /\ EndIsRecorded'
  BY DEF OnceInv
<1>0. /\ PlannedOnce /\ NotBegunBefore /\ BegunOnce /\ IssuedIsPast
      /\ NextIsNew /\ SeenIsNew /\ EndIsRecorded
  BY DEF OnceInv
<1> DEFINE new == Job(FALSE, s.next, s.cfg, "begin")
<1>1. /\ now \in Nat /\ Times \subseteq Nat /\ \A j \in jobs : j.plan \in Times
      /\ s.next \in Times /\ s.next \in Nat /\ s.next <= now /\ began \in [Times -> Nat]
      /\ new.manual = FALSE /\ new.plan = s.next /\ new.pc = "begin"
  <2>1. now \in Nat /\ Times \subseteq Nat /\ \A j \in jobs : j.plan \in Times
    BY DEF SchedTypeOK, Times, JobType
  <2>2. s.next \in Nat /\ s.next <= now /\ now <= MaxTime
    BY BoundsAssumption DEF SchedTypeOK, LoopInv, SeenIsDue, RowType, Times
  <2>3. s.next \in Times
    BY <2>1, <2>2, BoundsAssumption DEF Times
  <2>4. new.manual = FALSE /\ new.plan = s.next /\ new.pc = "begin"
    BY DEF Job
  <2> QED BY <2>1, <2>2, <2>3, <2>4 DEF SchedTypeOK
<1>2. AllBefore(s.next)
  BY <1>0 DEF SeenIsNew
<1>3. /\ began[s.next] = 0
      /\ \A j \in jobs : ~j.manual => j.plan # s.next
  <2>1. began[s.next] \in Nat /\ ~(s.next < s.next)
    BY <1>1
  <2>2. ~(began[s.next] > 0)
    BY <1>1, <1>2, <2>1 DEF AllBefore
  <2>3. \A j \in jobs : ~j.manual => j.plan # s.next
    BY <1>2, <2>1 DEF AllBefore
  <2> QED BY <2>1, <2>2, <2>3
<1>4. jobs' \in {jobs, jobs \cup {new}}
  OBVIOUS
<1> HIDE DEF new
<1>5. PlannedOnce' /\ NotBegunBefore' /\ BegunOnce'
  BY <1>0, <1>1, <1>3, <1>4 DEF PlannedOnce, NotBegunBefore, BegunOnce
<1>6. IssuedIsPast'
  <2>1. s.next < now + 1
    BY <1>1
  <2> QED BY <1>0, <1>1, <1>4, <2>1 DEF IssuedIsPast, AllBefore
<1>7. EndIsRecorded'
  <2> SUFFICES ASSUME NEW p \in Times, row' # {}, began'[p] > 0, Planned(p)' = {}
               PROVE  runs'[p] \in {"succeeded", "failed"}
    BY DEF EndIsRecorded
  <2>1. p # s.next /\ Planned(p) = {}
    BY <1>1, <1>3, <1>4 DEF Planned
  <2> QED BY <1>0, <2>1 DEF EndIsRecorded
<1> QED BY <1>5, <1>6, <1>7 DEF NextIsNew, SeenIsNew

LEMMA OtherStepOnce ==
    ASSUME SchedTypeOK, SchedTypeOK', LoopInv, ManualRunsAct, OnceInv, OtherStep
    PROVE  ManualRunsAct' /\ OnceInv'
<1> USE DEF LoopVars, WorldVars
<1>0. /\ clock \in Nat /\ now \in Nat /\ now <= clock /\ crashes \in Nat
      /\ \A r \in row \cup seen : r.cfg \in Settings /\ r.next \in Nat
  BY DEF SchedTypeOK, Times, RowType, LoopInv, NowIsPast
<1>1. CASE Start
  BY <1>0, <1>1, QuietStepOnce DEF Start, ManualRunsAct
<1>2. CASE Look
  <2>1. \A s \in row : Due(s) => s.next # 0
    BY DEF Due
  <2>2. /\ UNCHANGED <<row, jobs, runs, began, crashes>> /\ loop # "advance" /\ loop' # "advance"
        /\ ManualRunsAct'
    BY <1>2 DEF Look, ManualRunsAct
  <2>3. CASE \E r \in row : Due(r)
    <3>1. seen' = row /\ now' = clock
      BY <1>2, <2>3 DEF Look
    <3>2. \A s \in seen' : s.next # 0
      BY <2>1, <2>3, <3>1 DEF LoopInv, OneSchedule
    <3>3. now <= now' /\ seen' \subseteq row
      BY <1>0, <3>1
    <3>4. \A r \in row' : r \in row /\ loop # "advance"
      BY <2>2
    <3>5. row = {} => row' = {}
      BY <2>2
    <3>6. OnceInv'
      BY <2>2, <3>2, <3>3, <3>4, <3>5, QuietStepOnce
    <3> QED BY <2>2, <3>6
  <2>4. CASE ~\E r \in row : Due(r)
    <3>1. loop' = "idle" /\ now' = now
      BY <1>2, <2>4 DEF Look
    <3> QED BY <1>0, <2>2, <3>1, QuietStepOnce
  <2> QED BY <2>3, <2>4
<1>3. CASE Missed
  <2>1. PICK s \in seen :
          \/ jobs' = jobs \cup {Job(FALSE, s.next, s.cfg, "begin")} /\ UNCHANGED runs
          \/ RecordRun(s.next, "skipped") /\ UNCHANGED jobs
    BY <1>3 DEF Missed
  <2>2. \A p \in Times \ {s.next} : runs'[p] = runs[p]
    BY <2>1 DEF RecordRun, SchedTypeOK
  <2>3. ManualRunsAct'
    BY <2>1 DEF ManualRunsAct, Job
  <2>4. /\ loop \in {"due", "lease"} /\ loop' = "advance"
        /\ UNCHANGED <<row, now, began, crashes>>
    BY <1>3 DEF Missed
  <2> QED BY <2>1, <2>2, <2>3, <2>4, IssueOnce
<1>4. CASE Lease
  <2>1. PICK s \in seen :
          \/ /\ runs' = [runs EXCEPT ![s.next] = "queued"]
             /\ jobs' = jobs \cup {Job(FALSE, s.next, s.cfg, "begin")}
          \/ UNCHANGED <<runs, jobs>>
    BY <1>4 DEF Lease
  <2>2. \A p \in Times \ {s.next} : runs'[p] = runs[p]
    BY <2>1 DEF SchedTypeOK
  <2>3. ManualRunsAct'
    BY <2>1 DEF ManualRunsAct, Job
  <2>4. /\ loop \in {"due", "lease"} /\ loop' = "advance"
        /\ UNCHANGED <<row, now, began, crashes>>
    BY <1>4 DEF Lease
  <2> QED BY <2>1, <2>2, <2>3, <2>4, IssueOnce
<1>5. CASE Advance
  BY <1>0, <1>5, AdvanceRow, QuietStepOnce DEF Advance, ManualRunsAct
<1>6. ASSUME NEW c \in Settings, Create(c) PROVE ManualRunsAct' /\ OnceInv'
  <2>1. /\ jobs' = {} /\ seen' = {} /\ \A p \in Times : began'[p] = 0
    BY <1>6 DEF Create, Request
  <2>2. \A t : AllBefore(t)'
    BY <2>1 DEF AllBefore
  <2> QED BY <2>1, <2>2
          DEF ManualRunsAct, OnceInv, PlannedOnce, NotBegunBefore, BegunOnce, IssuedIsPast,
              NextIsNew, SeenIsNew, EndIsRecorded
<1>7. ASSUME NEW c \in Settings, Update(c) PROVE ManualRunsAct' /\ OnceInv'
  <2>1. \A r \in row' : r.next = 0 \/ r.next > now
    <3>1. row' \subseteq RowType /\ \A r \in row' : r.next # 0 => r.next > clock
      BY <1>0, <1>7, RowAfter DEF Update
    <3> QED BY <1>0, <3>1 DEF RowType
  <2> QED BY <1>0, <1>7, <2>1, QuietStepOnce DEF Update, Request, ManualRunsAct
<1>8. CASE Delete
  <2>1. /\ row' = {} /\ UNCHANGED <<jobs, began, loop, seen, now, crashes>>
    BY <1>8 DEF Delete, Request
  <2> QED BY <2>1
          DEF ManualRunsAct, OnceInv, PlannedOnce, NotBegunBefore, BegunOnce, IssuedIsPast,
              NextIsNew, SeenIsNew, EndIsRecorded, AllBefore
<1>9. CASE RunNow
  <2>1. PICK r \in row : jobs' = jobs \cup {Job(TRUE, clock, r.cfg, "act")}
    BY <1>9 DEF RunNow
  <2> DEFINE new == Job(TRUE, clock, r.cfg, "act")
  <2>2. new.manual = TRUE /\ new.pc = "act" /\ jobs' = jobs \cup {new}
    BY <2>1 DEF Job
  <2> HIDE DEF new
  <2>3. UNCHANGED <<row, runs, began, loop, seen, now, crashes>>
    BY <1>9 DEF RunNow, Request
  <2>4. \A p \in Times : Planned(p)' = Planned(p)
    BY <2>2 DEF Planned
  <2> QED BY <2>2, <2>3, <2>4
          DEF ManualRunsAct, OnceInv, PlannedOnce, NotBegunBefore, BegunOnce, IssuedIsPast,
              NextIsNew, SeenIsNew, EndIsRecorded, AllBefore
<1>10. CASE Crash
  BY <1>0, <1>10 DEF Crash, ManualRunsAct, OnceInv
<1>11. CASE Tick
  BY <1>0, <1>11, QuietStepOnce DEF Tick, ManualRunsAct
<1> QED BY <1>1, <1>2, <1>3, <1>4, <1>5, <1>6, <1>7, <1>8, <1>9, <1>10, <1>11 DEF OtherStep

-----------------------------------------------------------------------------
(* The theorems *)

\* The inductive invariant holds in every reachable state.
THEOREM SchedInvHolds == Spec => []SchedInv
<1>1. Init => SchedInv
  <2> SUFFICES ASSUME Init PROVE SchedInv
    OBVIOUS
  <2>1. 0 \in Times
    BY BoundsAssumption DEF Times
  <2>2. row \subseteq RowType /\ OneSchedule
    BY NextRunIsLater DEF Init, RowType, OneSchedule
  <2>3. SchedTypeOK
    BY <2>1, <2>2 DEF Init, SchedTypeOK
  <2>4. LoopInv
    BY <2>2 DEF Init, LoopInv, NowIsPast, NothingRunsWhenOff, SeenOnlyWhileVisited,
                ReadSinceBoot, SeenIsDue, NoOldTimeIsLeft, MissedRunsAreSkipped
  <2>5. ManualRunsAct /\ OnceInv
    <3>1. \A t : AllBefore(t)
      BY DEF Init, AllBefore
    <3> QED BY <3>1
            DEF Init, ManualRunsAct, OnceInv, PlannedOnce, NotBegunBefore, BegunOnce,
                IssuedIsPast, NextIsNew, SeenIsNew, EndIsRecorded
  <2> QED BY <2>3, <2>4, <2>5 DEF SchedInv
<1>2. SchedInv /\ [Next]_schedVars => SchedInv'
  <2> SUFFICES ASSUME SchedInv, [Next]_schedVars PROVE SchedInv'
    OBVIOUS
  <2> USE DEF SchedInv
  <2>1. ASSUME NEW j \in jobs, JobStep(j) PROVE SchedInv'
    BY <2>1, JobStepType, JobStepLoop, JobStepOnce
  <2>2. CASE OtherStep
    BY <2>2, OtherStepType, OtherStepLoop, OtherStepOnce
  <2>3. CASE UNCHANGED schedVars
    BY <2>3
    DEF schedVars, SchedTypeOK, LoopInv, OneSchedule, NowIsPast, NothingRunsWhenOff,
        SeenOnlyWhileVisited, ReadSinceBoot, SeenIsDue, NoOldTimeIsLeft, MissedRunsAreSkipped,
        Due, ManualRunsAct, OnceInv, PlannedOnce, NotBegunBefore, BegunOnce, IssuedIsPast,
        NextIsNew, SeenIsNew, EndIsRecorded, AllBefore, Planned
  <2> QED BY <2>1, <2>2, <2>3, NextSplits
<1> QED BY <1>1, <1>2, PTL DEF Spec

\* Until the control plane dies an action is begun once per planned time: the
\* lease and the row's next time keep each other, whatever is edited, retried
\* or missed (scheduler.go's duplicate-run protection).
THEOREM RunsOnceHolds == Spec => []RunsOnceUntilACrash
<1>1. SchedInv => RunsOnceUntilACrash
  BY DEF SchedInv, OnceInv, BegunOnce, RunsOnceUntilACrash
<1> QED BY <1>1, SchedInvHolds, PTL

\* With skip_missed_run nothing is started for a time before the boot, through
\* any number of deaths and edits (handleMissed).
THEOREM MissedRunsAreSkippedHolds == Spec => []MissedRunsAreSkipped
<1>1. SchedInv => MissedRunsAreSkipped
  BY DEF SchedInv, LoopInv
<1> QED BY <1>1, SchedInvHolds, PTL

\* Until the control plane dies the history has the outcome of every begun run
\* that is over, unless its schedule was deleted (recordRun).
THEOREM HistoryTellsTheEndHolds == Spec => []HistoryTellsTheEnd
<1>1. SchedInv => HistoryTellsTheEnd
  BY DEF SchedInv, OnceInv, EndIsRecorded, HistoryTellsTheEnd
<1> QED BY <1>1, SchedInvHolds, PTL
=============================================================================
