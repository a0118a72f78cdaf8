----------------------------- MODULE HostProofs -----------------------------
(***************************************************************************)
(* Theorems about the parts the run Host holds: Backups, for any requests, *)
(* commands, backups and storages; OpLock, for every set of agents and     *)
(* processes; Playit, for any number of tunnels and restarts.              *)
(***************************************************************************)
EXTENDS Backups, OpLock, Playit, TLAPS

-----------------------------------------------------------------------------
(* Backups: types *)

Contents == Versions \cup {Torn, Gone}
Steps == {"idle", "acquire", "begin", "read", "reading", "verify", "record", "savings", "decide",
          "check", "aside", "place", "release", "copy", "switch", "remove"}
Tasks == {"none", "offline", "online", "restore", "unsafe restore", "move"}
Statuses == {"none", "unverified", "failed", "verified"}

WorkTypes ==
    /\ task \in [Workers -> Tasks] /\ at \in [Workers -> Steps] /\ root \in [Workers -> Roots]
    /\ mine \in [Workers -> Ids \cup {Gone}] /\ source \in [Workers -> Ids \cup Roots \cup {Gone}]
    /\ image \in [Workers -> Contents] /\ held \in [Workers -> BOOLEAN]
    /\ oplock \in Workers \cup {Gone}
StoreTypes ==
    /\ status \in [Ids -> Statuses] /\ archive \in [Roots -> [Ids -> Contents]] /\ cfgRoot \in Roots
    /\ live \in Contents /\ aside \in Contents /\ server \in BOOLEAN /\ saving \in BOOLEAN
    /\ panel \in BOOLEAN /\ deathCount \in 0..MaxDeaths /\ begun \in 0..MaxTasks
    /\ disturbed \subseteq Workers /\ misplaced \subseteq Ids
\* What a task is about.
Targets == \A w \in Workers :
    /\ Restores(w) => source[w] \in Ids
    /\ at[w] \in {"decide", "check"} => Restores(w)
    /\ at[w] = "copy" => task[w] = "move"
    /\ at[w] = "switch" => source[w] \in Roots
BackupsTypeOK == WorkTypes /\ StoreTypes /\ Targets

LEMMA CountsUp == ASSUME NEW n, NEW m \in Nat, n \in 0..m, n < m PROVE n + 1 \in 0..m
  OBVIOUS

\* A worker that goes on to a step that fits its task keeps what tasks are about.
LEMMA MovesOn ==
    ASSUME BackupsTypeOK, NEW w \in Workers, NEW x \in Steps \ {"switch"},
           at' = [at EXCEPT ![w] = x], UNCHANGED <<task, source>>,
           x \in {"decide", "check"} => Restores(w), x = "copy" => task[w] = "move"
    PROVE  at' \in [Workers -> Steps] /\ Targets'
<1>1. at \in [Workers -> Steps] /\ Targets
  BY DEF BackupsTypeOK, WorkTypes
<1>2. \A v \in Workers : at'[v] = IF v = w THEN x ELSE at[v]
  BY <1>1
<1> QED BY <1>1, <1>2 DEF Targets, Restores

\* The steps of a worker at its task keep the types.
LEMMA WorksTypes ==
    ASSUME BackupsTypeOK, NEW w \in Workers, Works(w)
    PROVE  BackupsTypeOK'
<1> USE BackupsAssumption DEF BackupsTypeOK, WorkTypes, StoreTypes,
        Is, Go, workVars, storeVars, worldVars, panelVars, ghostVars
<1>0. Gone \in Contents /\ Torn \in Contents
  BY DEF Contents
<1>1. ASSUME AcquireOpLock(w) PROVE BackupsTypeOK'
  <2>1. at' \in [Workers -> Steps] /\ Targets'
    <3>1. PICK x \in {"copy", "check", "begin", "release"} :
            /\ at' = [at EXCEPT ![w] = x]
            /\ (x = "copy" => task[w] = "move") /\ (x = "check" => Restores(w))
      BY <1>1 DEF AcquireOpLock, Restores
    <3>2. UNCHANGED <<task, source>> /\ x \in Steps \ {"switch"}
      BY <1>1 DEF AcquireOpLock, Steps
    <3> HIDE DEF BackupsTypeOK
    <3> QED BY <3>1, <3>2, MovesOn
  <2>2. oplock' \in Workers \cup {Gone}
    BY <1>1, <1>0 DEF AcquireOpLock
  <2> QED BY <1>1, <2>1, <2>2 DEF AcquireOpLock
<1>2. ASSUME Prepare(w) PROVE BackupsTypeOK'
  <2>1. at' \in [Workers -> Steps] /\ Targets'
    <3>1. PICK x \in {"read", "savings"} : at' = [at EXCEPT ![w] = x]
      BY <1>2 DEF Prepare
    <3>2. UNCHANGED <<task, source>> /\ x \in Steps \ {"switch"}
      BY <1>2 DEF Prepare, Steps
    <3> HIDE DEF BackupsTypeOK
    <3> QED BY <3>1, <3>2, MovesOn
  <2>2. mine' \in [Workers -> Ids \cup {Gone}]
    BY <1>2, <1>0 DEF Prepare
  <2>3. held' \in [Workers -> BOOLEAN]
    BY <1>2, <1>0 DEF Prepare
  <2>5. status' \in [Ids -> Statuses]
    BY <1>2, <1>0 DEF Prepare, Statuses
  <2>6. misplaced' \subseteq Ids
    BY <1>2, <1>0 DEF Prepare
  <2>7. saving' \in BOOLEAN
    BY <1>2, <1>0 DEF Prepare
  <2> QED BY <1>2, <2>1, <2>2, <2>3, <2>5, <2>6, <2>7 DEF Prepare
<1>3. ASSUME ReadWorld(w) PROVE BackupsTypeOK'
  <2>1. at' \in [Workers -> Steps] /\ Targets'
    <3>1. PICK x \in {"reading"} : at' = [at EXCEPT ![w] = x]
      BY <1>3 DEF ReadWorld
    <3>2. UNCHANGED <<task, source>> /\ x \in Steps \ {"switch"}
      BY <1>3 DEF ReadWorld, Steps
    <3> HIDE DEF BackupsTypeOK
    <3> QED BY <3>1, <3>2, MovesOn
  <2>2. image' \in [Workers -> Contents]
    BY <1>3, <1>0 DEF ReadWorld, World
  <2> QED BY <1>3, <2>1, <2>2 DEF ReadWorld
<1>4. ASSUME ReadRest(w) PROVE BackupsTypeOK'
  <2>1. at' \in [Workers -> Steps] /\ Targets'
    <3>1. PICK x \in {"verify", "savings"} : at' = [at EXCEPT ![w] = x]
      BY <1>4 DEF ReadRest
    <3>2. UNCHANGED <<task, source>> /\ x \in Steps \ {"switch"}
      BY <1>4 DEF ReadRest, Steps
    <3> HIDE DEF BackupsTypeOK
    <3> QED BY <3>1, <3>2, MovesOn
  <2>2. image' \in [Workers -> Contents]
    BY <1>4, <1>0 DEF ReadRest, World, Mark
  <2>4. status' \in [Ids -> Statuses]
    BY <1>4, <1>0 DEF ReadRest, World, Mark, Statuses
  <2> QED BY <1>4, <2>1, <2>2, <2>4 DEF ReadRest
<1>5. ASSUME Verify(w) PROVE BackupsTypeOK'
  <2>1. at' \in [Workers -> Steps] /\ Targets'
    <3>1. PICK x \in {"record", "savings"} : at' = [at EXCEPT ![w] = x]
      BY <1>5 DEF Verify
    <3>2. UNCHANGED <<task, source>> /\ x \in Steps \ {"switch"}
      BY <1>5 DEF Verify, Steps
    <3> HIDE DEF BackupsTypeOK
    <3> QED BY <3>1, <3>2, MovesOn
  <2>2. image' \in [Workers -> Contents]
    BY <1>5, <1>0 DEF Verify, Mark
  <2>4. archive' \in [Roots -> [Ids -> Contents]]
    <3>1. \/ archive' = archive
          \/ archive' = [archive EXCEPT ![root[w]] = [@ EXCEPT ![mine[w]] = image[w]]]
      BY <1>5 DEF Verify
    <3>2. [archive[root[w]] EXCEPT ![mine[w]] = image[w]] \in [Ids -> Contents]
      <4>1. archive[root[w]] \in [Ids -> Contents] /\ image[w] \in Contents
        OBVIOUS
      <4> QED BY <4>1
    <3> QED BY <3>1, <3>2
  <2>5. status' \in [Ids -> Statuses]
    BY <1>5, <1>0 DEF Verify, Mark, Statuses
  <2> QED BY <1>5, <2>1, <2>2, <2>4, <2>5 DEF Verify
<1>6. ASSUME Record(w) PROVE BackupsTypeOK'
  <2>1. at' \in [Workers -> Steps] /\ Targets'
    <3>1. PICK x \in {"savings"} : at' = [at EXCEPT ![w] = x]
      BY <1>6 DEF Record
    <3>2. UNCHANGED <<task, source>> /\ x \in Steps \ {"switch"}
      BY <1>6 DEF Record, Steps
    <3> HIDE DEF BackupsTypeOK
    <3> QED BY <3>1, <3>2, MovesOn
  <2>3. status' \in [Ids -> Statuses]
    BY <1>6, <1>0 DEF Record, Mark, Statuses
  <2> QED BY <1>6, <2>1, <2>3 DEF Record
<1>7. ASSUME SaveOn(w) PROVE BackupsTypeOK'
  <2>1. at' \in [Workers -> Steps] /\ Targets'
    <3>1. PICK x \in {"decide", "release"} :
            /\ at' = [at EXCEPT ![w] = x]
            /\ (x = "decide" => Restores(w))
      BY <1>7 DEF SaveOn, Restores
    <3>2. UNCHANGED <<task, source>> /\ x \in Steps \ {"switch"}
      BY <1>7 DEF SaveOn, Steps
    <3> HIDE DEF BackupsTypeOK
    <3> QED BY <3>1, <3>2, MovesOn
  <2>2. held' \in [Workers -> BOOLEAN]
    BY <1>7, <1>0 DEF SaveOn, Restores
  <2>4. saving' \in BOOLEAN
    BY <1>7, <1>0 DEF SaveOn, Restores
  <2> QED BY <1>7, <2>1, <2>2, <2>4 DEF SaveOn
<1>8. ASSUME Decide(w) PROVE BackupsTypeOK'
  <2>1. at' \in [Workers -> Steps] /\ Targets'
    <3>1. PICK x \in {"check", "release"} :
            /\ at' = [at EXCEPT ![w] = x]
            /\ (x = "check" => Restores(w))
      BY <1>8 DEF Decide, Restores, Targets
    <3>2. UNCHANGED <<task, source>> /\ x \in Steps \ {"switch"}
      BY <1>8 DEF Decide, Steps
    <3> HIDE DEF BackupsTypeOK
    <3> QED BY <3>1, <3>2, MovesOn
  <2>2. oplock' \in Workers \cup {Gone}
    BY <1>8, <1>0 DEF Decide
  <2> QED BY <1>8, <2>1, <2>2 DEF Decide
<1>9. ASSUME CheckArchive(w) PROVE BackupsTypeOK'
  <2>1. at' \in [Workers -> Steps] /\ Targets'
    <3>1. PICK x \in {"aside", "release"} : at' = [at EXCEPT ![w] = x]
      BY <1>9 DEF CheckArchive
    <3>2. UNCHANGED <<task, source>> /\ x \in Steps \ {"switch"}
      BY <1>9 DEF CheckArchive, Steps
    <3> HIDE DEF BackupsTypeOK
    <3> QED BY <3>1, <3>2, MovesOn
  <2>2. image' \in [Workers -> Contents]
    <3>1. \/ image' = image
          \/ at[w] = "check" /\ image' = [image EXCEPT ![w] = archive[root[w]][source[w]]]
      BY <1>9 DEF CheckArchive
    <3>2. at[w] = "check" => archive[root[w]][source[w]] \in Contents
      BY DEF Targets
    <3> QED BY <3>1, <3>2
  <2>4. status' \in [Ids -> Statuses]
    BY <1>9, <1>0 DEF CheckArchive, Rechecked, Statuses
  <2> QED BY <1>9, <2>1, <2>2, <2>4 DEF CheckArchive
<1>10. ASSUME SetAside(w) PROVE BackupsTypeOK'
  <2>1. at' \in [Workers -> Steps] /\ Targets'
    <3>1. PICK x \in {"place", "release"} : at' = [at EXCEPT ![w] = x]
      BY <1>10 DEF SetAside
    <3>2. UNCHANGED <<task, source>> /\ x \in Steps \ {"switch"}
      BY <1>10 DEF SetAside, Steps
    <3> HIDE DEF BackupsTypeOK
    <3> QED BY <3>1, <3>2, MovesOn
  <2>3. live' \in Contents
    BY <1>10, <1>0 DEF SetAside, Disturbs, Reading
  <2>4. aside' \in Contents
    BY <1>10, <1>0 DEF SetAside, Disturbs, Reading
  <2>5. disturbed' \subseteq Workers
    BY <1>10, <1>0 DEF SetAside, Disturbs, Reading
  <2> QED BY <1>10, <2>1, <2>3, <2>4, <2>5 DEF SetAside
<1>11. ASSUME Place(w) PROVE BackupsTypeOK'
  <2>1. at' \in [Workers -> Steps] /\ Targets'
    <3>1. PICK x \in {"release"} : at' = [at EXCEPT ![w] = x]
      BY <1>11 DEF Place
    <3>2. UNCHANGED <<task, source>> /\ x \in Steps \ {"switch"}
      BY <1>11 DEF Place, Steps
    <3> HIDE DEF BackupsTypeOK
    <3> QED BY <3>1, <3>2, MovesOn
  <2>3. live' \in Contents
    BY <1>11, <1>0 DEF Place, Disturbs, Reading
  <2>4. aside' \in Contents
    BY <1>11, <1>0 DEF Place, Disturbs, Reading
  <2>5. disturbed' \subseteq Workers
    BY <1>11, <1>0 DEF Place, Disturbs, Reading
  <2> QED BY <1>11, <2>1, <2>3, <2>4, <2>5 DEF Place
<1>12. ASSUME ReleaseOpLock(w) PROVE BackupsTypeOK'
  <2>1. at' \in [Workers -> Steps]
    BY <1>12, <1>0 DEF ReleaseOpLock, Forget, Steps
  <2>2. task' \in [Workers -> Tasks]
    BY <1>12, <1>0 DEF ReleaseOpLock, Forget, Tasks
  <2>3. mine' \in [Workers -> Ids \cup {Gone}]
    BY <1>12, <1>0 DEF ReleaseOpLock, Forget
  <2>4. source' \in [Workers -> Ids \cup Roots \cup {Gone}]
    BY <1>12, <1>0 DEF ReleaseOpLock, Forget
  <2>5. image' \in [Workers -> Contents]
    BY <1>12, <1>0 DEF ReleaseOpLock, Forget
  <2>6. oplock' \in Workers \cup {Gone}
    BY <1>12, <1>0 DEF ReleaseOpLock, Forget
  <2>7. Targets'
    BY <1>12, <1>0 DEF ReleaseOpLock, Forget, Targets, Restores
  <2>8. disturbed' \subseteq Workers
    BY <1>12, <1>0 DEF ReleaseOpLock, Forget
  <2> QED BY <1>12, <2>1, <2>2, <2>3, <2>4, <2>5, <2>6, <2>7, <2>8 DEF ReleaseOpLock, Forget
<1>13. ASSUME CopyStorage(w) PROVE BackupsTypeOK'
  <2>1. at' \in [Workers -> Steps]
    <3>1. PICK x \in {"switch", "release"} : at' = [at EXCEPT ![w] = x]
      BY <1>13 DEF CopyStorage
    <3> QED BY <3>1 DEF Steps
  <2>2. source' \in [Workers -> Ids \cup Roots \cup {Gone}]
    BY <1>13, <1>0 DEF CopyStorage, Rechecked
  <2>3. Targets'
    <3>1. /\ at[w] = "copy" /\ task' = task
          /\ \/ at' = [at EXCEPT ![w] = "release"] /\ source' = source
             \/ \E t \in Roots : /\ at' = [at EXCEPT ![w] = "switch"]
                              /\ source' = [source EXCEPT ![w] = t]
      BY <1>13 DEF CopyStorage
    <3>2. CASE at' = [at EXCEPT ![w] = "release"] /\ source' = source
      BY <3>1, <3>2, MovesOn DEF Steps
    <3>3. ASSUME NEW t \in Roots, at' = [at EXCEPT ![w] = "switch"], source' = [source EXCEPT ![w] = t]
          PROVE Targets'
      <4>1. ~Restores(w) /\ at'[w] = "switch" /\ source'[w] = t
        BY <3>1, <3>3 DEF Restores, Targets
      <4>2. \A v \in Workers \ {w} : at'[v] = at[v] /\ source'[v] = source[v]
        BY <3>3
      <4> QED BY <3>1, <4>1, <4>2 DEF Targets, Restores
    <3> QED BY <3>1, <3>2, <3>3
  <2>4. archive' \in [Roots -> [Ids -> Contents]]
    BY <1>13, <1>0 DEF CopyStorage, Rechecked
  <2>5. status' \in [Ids -> Statuses]
    BY <1>13, <1>0 DEF CopyStorage, Rechecked, Statuses
  <2> QED BY <1>13, <2>1, <2>2, <2>3, <2>4, <2>5 DEF CopyStorage
<1>14. ASSUME SwitchStorage(w) PROVE BackupsTypeOK'
  <2>1. at' \in [Workers -> Steps] /\ Targets'
    <3>1. PICK x \in {"remove"} : at' = [at EXCEPT ![w] = x]
      BY <1>14 DEF SwitchStorage
    <3>2. UNCHANGED <<task, source>> /\ x \in Steps \ {"switch"}
      BY <1>14 DEF SwitchStorage, Steps
    <3> HIDE DEF BackupsTypeOK
    <3> QED BY <3>1, <3>2, MovesOn
  <2>3. cfgRoot' \in Roots
    BY <1>14 DEF SwitchStorage, Targets
  <2>4. misplaced' \subseteq Ids
    BY <1>14 DEF SwitchStorage, Targets
  <2> QED BY <1>14, <2>1, <2>3, <2>4 DEF SwitchStorage
<1>15. ASSUME RemoveStorage(w) PROVE BackupsTypeOK'
  <2>1. at' \in [Workers -> Steps] /\ Targets'
    <3>1. PICK x \in {"release"} : at' = [at EXCEPT ![w] = x]
      BY <1>15 DEF RemoveStorage
    <3>2. UNCHANGED <<task, source>> /\ x \in Steps \ {"switch"}
      BY <1>15 DEF RemoveStorage, Steps
    <3> HIDE DEF BackupsTypeOK
    <3> QED BY <3>1, <3>2, MovesOn
  <2>3. archive' \in [Roots -> [Ids -> Contents]]
    BY <1>15, <1>0 DEF RemoveStorage
  <2> QED BY <1>15, <2>1, <2>3 DEF RemoveStorage
<1> HIDE DEF BackupsTypeOK
<1> QED BY <1>1, <1>2, <1>3, <1>4, <1>5, <1>6, <1>7, <1>8, <1>9, <1>10, <1>11, <1>12, <1>13, <1>14, <1>15 DEF Works

\* All others too.
LEMMA BackupsTypeStep == BackupsTypeOK /\ [BackupsNext]_backupVars => BackupsTypeOK'
<1> SUFFICES ASSUME BackupsTypeOK, [BackupsNext]_backupVars PROVE BackupsTypeOK'
  OBVIOUS
<1> USE BackupsAssumption DEF BackupsTypeOK, WorkTypes, StoreTypes,
        Is, Go, workVars, storeVars, worldVars, panelVars, ghostVars
<1>0. Gone \in Contents /\ Torn \in Contents
  BY DEF Contents
<1>1. ASSUME NEW w \in Workers, BeginBackup(w) PROVE BackupsTypeOK'
  <2>1. task' \in [Workers -> Tasks]
    BY <1>1, <1>0 DEF BeginBackup, BeginTask, Tasks
  <2>2. at' \in [Workers -> Steps]
    BY <1>1, <1>0 DEF BeginBackup, BeginTask, Steps
  <2>3. Targets'
    BY <1>1, <1>0 DEF BeginBackup, BeginTask, Targets, Restores
  <2>4. begun' \in 0..MaxTasks
    BY <1>1, <1>0 DEF BeginBackup, BeginTask
  <2> QED BY <1>1, <2>1, <2>2, <2>3, <2>4 DEF BeginBackup, BeginTask
<1>2. ASSUME NEW w \in Workers, BeginMove(w) PROVE BackupsTypeOK'
  <2>1. task' \in [Workers -> Tasks]
    BY <1>2, <1>0 DEF BeginMove, BeginTask, Tasks
  <2>2. at' \in [Workers -> Steps]
    BY <1>2, <1>0 DEF BeginMove, BeginTask, Steps
  <2>3. Targets'
    BY <1>2, <1>0 DEF BeginMove, BeginTask, Targets, Restores
  <2>4. begun' \in 0..MaxTasks
    BY <1>2, <1>0 DEF BeginMove, BeginTask
  <2> QED BY <1>2, <2>1, <2>2, <2>3, <2>4 DEF BeginMove, BeginTask
<1>3. ASSUME NEW w \in Workers, LoadConfig(w) PROVE BackupsTypeOK'
  <2>1. root' \in [Workers -> Roots]
    BY <1>3, <1>0 DEF LoadConfig
  <2>2. Targets'
    BY <1>3, <1>0 DEF LoadConfig, Targets, Restores
  <2> QED BY <1>3, <2>1, <2>2 DEF LoadConfig
<1>4. ASSUME NEW w \in Workers, CommandDies(w) PROVE BackupsTypeOK'
  <2>1. at' \in [Workers -> Steps]
    BY <1>4, <1>0 DEF CommandDies, Dies, Forget, Steps
  <2>2. task' \in [Workers -> Tasks]
    BY <1>4, <1>0 DEF CommandDies, Dies, Forget, Tasks
  <2>3. mine' \in [Workers -> Ids \cup {Gone}]
    BY <1>4, <1>0 DEF CommandDies, Dies, Forget
  <2>4. source' \in [Workers -> Ids \cup Roots \cup {Gone}]
    BY <1>4, <1>0 DEF CommandDies, Dies, Forget
  <2>5. image' \in [Workers -> Contents]
    BY <1>4, <1>0 DEF CommandDies, Dies, Forget
  <2>6. held' \in [Workers -> BOOLEAN]
    BY <1>4, <1>0 DEF CommandDies, Dies, Forget
  <2>7. oplock' \in Workers \cup {Gone}
    BY <1>4, <1>0 DEF CommandDies, Dies, Forget
  <2>8. Targets'
    BY <1>4, <1>0 DEF CommandDies, Dies, Forget, Targets, Restores
  <2>9. deathCount' \in 0..MaxDeaths
    BY <1>4, <1>0 DEF CommandDies, Dies, Forget
  <2>10. disturbed' \subseteq Workers
    BY <1>4, <1>0 DEF CommandDies, Dies, Forget
  <2> QED BY <1>4, <2>1, <2>2, <2>3, <2>4, <2>5, <2>6, <2>7, <2>8, <2>9, <2>10 DEF CommandDies, Forget, Dies
<1>5. ASSUME NEW w \in Workers, NEW b \in Ids,
             NEW t \in {"restore", "unsafe restore"}, BeginRestore(w, b, t)
      PROVE BackupsTypeOK'
  <2>1. task' \in [Workers -> Tasks]
    BY <1>5, <1>0 DEF BeginRestore, BeginTask, Tasks
  <2>2. at' \in [Workers -> Steps]
    BY <1>5, <1>0 DEF BeginRestore, BeginTask, Steps
  <2>3. source' \in [Workers -> Ids \cup Roots \cup {Gone}]
    BY <1>5, <1>0 DEF BeginRestore, BeginTask
  <2>4. Targets'
    BY <1>5, <1>0 DEF BeginRestore, BeginTask, Targets, Restores
  <2>5. begun' \in 0..MaxTasks
    <3>1. begun < MaxTasks /\ begun' = begun + 1 /\ begun \in 0..MaxTasks /\ MaxTasks \in Nat
      BY <1>5 DEF BeginRestore, BeginTask
    <3> QED BY <3>1, CountsUp
  <2> QED BY <1>5, <2>1, <2>2, <2>3, <2>4, <2>5 DEF BeginRestore, BeginTask
<1>6. ASSUME NEW b \in Ids, Delete(b) PROVE BackupsTypeOK'
  <2>1. archive' \in [Roots -> [Ids -> Contents]]
    BY <1>6, <1>0 DEF Delete
  <2>2. status' \in [Ids -> Statuses]
    BY <1>6, <1>0 DEF Delete, Statuses
  <2>3. disturbed' \subseteq Workers
    BY <1>6, <1>0 DEF Delete
  <2>4. Targets'
    BY <1>6, <1>0 DEF Delete, Targets, Restores
  <2> QED BY <1>6, <2>1, <2>2, <2>3, <2>4 DEF Delete
<1>7. ASSUME NEW b \in Ids, VerifyRequest(b) PROVE BackupsTypeOK'
  <2>1. status' \in [Ids -> Statuses]
    BY <1>7, <1>0 DEF VerifyRequest, Rechecked, Statuses
  <2>2. Targets'
    BY <1>7, <1>0 DEF VerifyRequest, Targets, Restores
  <2> QED BY <1>7, <2>1, <2>2 DEF VerifyRequest
<1>8. ASSUME ServerStarts PROVE BackupsTypeOK'
  <2>1. live' \in Contents
    BY <1>8, <1>0 DEF ServerStarts, Reading, Contents, Versions
  <2>2. disturbed' \subseteq Workers
    BY <1>8, <1>0 DEF ServerStarts, Reading, Contents, Versions
  <2>3. Targets'
    BY <1>8, <1>0 DEF ServerStarts, Contents, Versions, Targets, Restores
  <2> QED BY <1>8, <2>1, <2>2, <2>3 DEF ServerStarts
<1>9. ASSUME ServerStops PROVE BackupsTypeOK'
  <2>1. disturbed' \subseteq Workers
    BY <1>9, <1>0 DEF ServerStops, Reading
  <2>2. Targets'
    BY <1>9, <1>0 DEF ServerStops, Targets, Restores
  <2> QED BY <1>9, <2>1, <2>2 DEF ServerStops
<1>10. ASSUME WorldChanges PROVE BackupsTypeOK'
  <2>1. live' \in Contents
    BY <1>10 DEF WorldChanges, Contents, Versions
  <2> QED BY <1>10, <2>1 DEF WorldChanges, Targets, Restores
<1>11. ASSUME PanelDies PROVE BackupsTypeOK'
  <2>1. at' \in [Workers -> Steps]
    BY <1>11, <1>0 DEF PanelDies, Dies, Forget, Steps
  <2>2. task' \in [Workers -> Tasks]
    BY <1>11, <1>0 DEF PanelDies, Dies, Forget, Tasks
  <2>3. mine' \in [Workers -> Ids \cup {Gone}]
    BY <1>11, <1>0 DEF PanelDies, Dies, Forget
  <2>4. source' \in [Workers -> Ids \cup Roots \cup {Gone}]
    BY <1>11, <1>0 DEF PanelDies, Dies, Forget
  <2>5. image' \in [Workers -> Contents]
    BY <1>11, <1>0 DEF PanelDies, Dies, Forget
  <2>6. held' \in [Workers -> BOOLEAN]
    BY <1>11, <1>0 DEF PanelDies, Dies, Forget
  <2>7. oplock' \in Workers \cup {Gone}
    BY <1>11, <1>0 DEF PanelDies, Dies, Forget
  <2>8. Targets'
    BY <1>11, <1>0 DEF PanelDies, Dies, Forget, Targets, Restores
  <2>9. deathCount' \in 0..MaxDeaths
    BY <1>11, <1>0 DEF PanelDies, Dies, Forget
  <2>10. disturbed' \subseteq Workers
    BY <1>11, <1>0 DEF PanelDies, Dies, Forget
  <2> QED BY <1>11, <2>1, <2>2, <2>3, <2>4, <2>5, <2>6, <2>7, <2>8, <2>9, <2>10 DEF PanelDies, Forget, Dies
<1>12. ASSUME PanelStarts PROVE BackupsTypeOK'
  <2>1. root' \in [Workers -> Roots]
    BY <1>12, <1>0 DEF PanelStarts
  <2>2. Targets'
    BY <1>12, <1>0 DEF PanelStarts, Targets, Restores
  <2> QED BY <1>12, <2>1, <2>2 DEF PanelStarts
<1>13. CASE UNCHANGED backupVars
  BY <1>13 DEF backupVars, Targets, Restores
<1>14. ASSUME NEW w \in Workers, Works(w) PROVE BackupsTypeOK'
  BY <1>14, WorksTypes
<1> HIDE DEF BackupsTypeOK
<1> QED BY <1>1, <1>2, <1>3, <1>4, <1>5, <1>6, <1>7, <1>8, <1>9, <1>10, <1>11, <1>12, <1>13, <1>14 DEF BackupsNext

-----------------------------------------------------------------------------
(* Backups: one worker at a time *)

\* What one worker does, and what it leaves another.
Acts(w) ==
    \/ BeginBackup(w) \/ BeginMove(w) \/ LoadConfig(w) \/ CommandDies(w) \/ Works(w)
    \/ \E b \in Ids, t \in {"restore", "unsafe restore"} : BeginRestore(w, b, t)
Stands(v) ==
    /\ at'[v] = at[v] /\ task'[v] = task[v] /\ root'[v] = root[v] /\ mine'[v] = mine[v]
    /\ source'[v] = source[v] /\ image'[v] = image[v] /\ held'[v] = held[v]

LEMMA OthersStand ==
    ASSUME BackupsTypeOK, NEW w \in Workers, Acts(w), NEW v \in Workers \ {w}
    PROVE  Stands(v) /\ panel' = panel
<1> USE BackupsAssumption DEF BackupsTypeOK, WorkTypes, Is, Go, workVars, storeVars, worldVars,
        panelVars, ghostVars, Stands
<1>1. ASSUME BeginBackup(w) PROVE Stands(v) /\ panel' = panel
  BY <1>1 DEF BeginBackup, BeginTask
<1>2. ASSUME BeginMove(w) PROVE Stands(v) /\ panel' = panel
  BY <1>2 DEF BeginMove, BeginTask
<1>3. ASSUME LoadConfig(w) PROVE Stands(v) /\ panel' = panel
  BY <1>3 DEF LoadConfig
<1>4. ASSUME CommandDies(w) PROVE Stands(v) /\ panel' = panel
  BY <1>4 DEF CommandDies, Dies, Forget
<1>5. ASSUME AcquireOpLock(w) PROVE Stands(v) /\ panel' = panel
  BY <1>5 DEF AcquireOpLock
<1>6. ASSUME Prepare(w) PROVE Stands(v) /\ panel' = panel
  BY <1>6 DEF Prepare
<1>7. ASSUME ReadWorld(w) PROVE Stands(v) /\ panel' = panel
  BY <1>7 DEF ReadWorld
<1>8. ASSUME ReadRest(w) PROVE Stands(v) /\ panel' = panel
  BY <1>8 DEF ReadRest
<1>9. ASSUME Verify(w) PROVE Stands(v) /\ panel' = panel
  BY <1>9 DEF Verify
<1>10. ASSUME Record(w) PROVE Stands(v) /\ panel' = panel
  BY <1>10 DEF Record
<1>11. ASSUME SaveOn(w) PROVE Stands(v) /\ panel' = panel
  BY <1>11 DEF SaveOn
<1>12. ASSUME Decide(w) PROVE Stands(v) /\ panel' = panel
  BY <1>12 DEF Decide
<1>13. ASSUME CheckArchive(w) PROVE Stands(v) /\ panel' = panel
  BY <1>13 DEF CheckArchive
<1>14. ASSUME SetAside(w) PROVE Stands(v) /\ panel' = panel
  BY <1>14 DEF SetAside
<1>15. ASSUME Place(w) PROVE Stands(v) /\ panel' = panel
  BY <1>15 DEF Place
<1>16. ASSUME ReleaseOpLock(w) PROVE Stands(v) /\ panel' = panel
  BY <1>16 DEF ReleaseOpLock, Forget
<1>17. ASSUME CopyStorage(w) PROVE Stands(v) /\ panel' = panel
  BY <1>17 DEF CopyStorage
<1>18. ASSUME SwitchStorage(w) PROVE Stands(v) /\ panel' = panel
  BY <1>18 DEF SwitchStorage
<1>19. ASSUME RemoveStorage(w) PROVE Stands(v) /\ panel' = panel
  BY <1>19 DEF RemoveStorage
<1>20. ASSUME NEW b \in Ids, NEW t \in {"restore", "unsafe restore"}, BeginRestore(w, b, t)
     PROVE  Stands(v) /\ panel' = panel
  BY <1>20 DEF BeginRestore, BeginTask
<1> HIDE DEF BackupsTypeOK, Stands, Go, Is
<1> QED BY <1>1, <1>2, <1>3, <1>4, <1>5, <1>6, <1>7, <1>8, <1>9, <1>10, <1>11, <1>12, <1>13, <1>14, <1>15, <1>16, <1>17, <1>18, <1>19, <1>20 DEF Acts, Works

\* The lock, and what a worker that is between two steps is doing.
Making == {"read", "reading", "verify", "record"}
Locked(w) ==
    \/ at[w] \in Making \cup {"begin", "savings", "decide", "copy", "switch", "remove"}
    \/ at[w] \in {"check", "aside", "place"} /\ w \notin Commands
Places(w) ==
    /\ Locked(w) => oplock = w
    /\ w \notin Commands /\ ~panel => at[w] = "idle"
    /\ task[w] = "move" => w \in Commands
    /\ at[w] \in {"copy", "switch", "remove"} => task[w] = "move"
    /\ at[w] \in Making \cup {"begin", "savings", "decide"} => task[w] \in {"offline", "online", "restore"}
    /\ at[w] = "idle" <=> task[w] = "none"
    /\ at[w] \in {"idle", "acquire", "begin"} => mine[w] = Gone
    /\ held[w] => at[w] \in Making \cup {"savings"}
LockInv == \A w \in Workers : Places(w)

LEMMA LockActs ==
    ASSUME BackupsTypeOK, LockInv, NEW w \in Workers, Acts(w)
    PROVE  LockInv' /\ \A v \in Workers \ {w} : oplock = v => oplock' = v
<1> DEFINE Goal == Places(w)' /\ \A v \in Workers \ {w} : oplock = v => oplock' = v
<1>0. Places(w)
  BY DEF LockInv
<1> USE BackupsAssumption DEF BackupsTypeOK, WorkTypes, Is, Go, workVars, storeVars, worldVars,
        panelVars, ghostVars,
        Places, Locked, Making, Targets, Restores
<1>1. ASSUME BeginBackup(w) PROVE Goal
  BY <1>0, <1>1 DEF BeginBackup, BeginTask
<1>2. ASSUME BeginMove(w) PROVE Goal
  BY <1>0, <1>2 DEF BeginMove, BeginTask
<1>3. ASSUME LoadConfig(w) PROVE Goal
  BY <1>0, <1>3 DEF LoadConfig
<1>4. ASSUME CommandDies(w) PROVE Goal
  BY <1>0, <1>4 DEF CommandDies, Dies, Forget
<1>5. ASSUME AcquireOpLock(w) PROVE Goal
  <2>1. /\ at[w] = "acquire" /\ task' = task /\ mine' = mine /\ held' = held /\ panel' = panel
        /\ \/ oplock' = oplock /\ at'[w] = "release"
           \/ /\ oplock = Gone /\ oplock' = w
              /\ \/ at'[w] = "copy" /\ task[w] = "move"
                 \/ at'[w] = "check" /\ task[w] = "unsafe restore"
                 \/ at'[w] = "begin" /\ task[w] \notin {"move", "unsafe restore"}
    BY <1>5 DEF AcquireOpLock
  <2>2. task[w] \in {"none", "offline", "online", "restore", "unsafe restore", "move"}
    BY DEF Tasks
  <2> QED BY <1>0, <2>1, <2>2
<1>6. ASSUME Prepare(w) PROVE Goal
  <2>1. /\ at[w] = "begin" /\ task' = task /\ oplock' = oplock /\ panel' = panel
        /\ at'[w] \in {"read", "savings"}
    BY <1>6 DEF Prepare
  <2> QED BY <1>0, <2>1
<1>7. ASSUME ReadWorld(w) PROVE Goal
  BY <1>0, <1>7 DEF ReadWorld
<1>8. ASSUME ReadRest(w) PROVE Goal
  <2>1. /\ at[w] \in {"read", "reading"} /\ at'[w] \in {"verify", "savings"}
        /\ task' = task /\ mine' = mine /\ held' = held /\ oplock' = oplock /\ panel' = panel
    BY <1>8 DEF ReadRest
  <2> QED BY <1>0, <2>1
<1>9. ASSUME Verify(w) PROVE Goal
  BY <1>0, <1>9 DEF Verify
<1>10. ASSUME Record(w) PROVE Goal
  BY <1>0, <1>10 DEF Record
<1>11. ASSUME SaveOn(w) PROVE Goal
  BY <1>0, <1>11 DEF SaveOn
<1>12. ASSUME Decide(w) PROVE Goal
  BY <1>0, <1>12 DEF Decide
<1>13. ASSUME CheckArchive(w) PROVE Goal
  <2>1. /\ at[w] = "check" /\ at'[w] \in {"aside", "release"}
        /\ task' = task /\ mine' = mine /\ held' = held /\ oplock' = oplock /\ panel' = panel
    BY <1>13 DEF CheckArchive
  <2> QED BY <1>0, <2>1
<1>14. ASSUME SetAside(w) PROVE Goal
  <2>1. /\ at[w] = "aside" /\ at'[w] \in {"place", "release"}
        /\ task' = task /\ mine' = mine /\ held' = held /\ oplock' = oplock /\ panel' = panel
    BY <1>14 DEF SetAside
  <2> QED BY <1>0, <2>1
<1>15. ASSUME Place(w) PROVE Goal
  BY <1>0, <1>15 DEF Place
<1>16. ASSUME ReleaseOpLock(w) PROVE Goal
  BY <1>0, <1>16 DEF ReleaseOpLock, Forget
<1>17. ASSUME CopyStorage(w) PROVE Goal
  <2>1. /\ at[w] = "copy" /\ at'[w] \in {"switch", "release"}
        /\ task' = task /\ mine' = mine /\ held' = held /\ oplock' = oplock /\ panel' = panel
    BY <1>17 DEF CopyStorage
  <2> QED BY <1>0, <2>1
<1>18. ASSUME SwitchStorage(w) PROVE Goal
  BY <1>0, <1>18 DEF SwitchStorage
<1>19. ASSUME RemoveStorage(w) PROVE Goal
  BY <1>0, <1>19 DEF RemoveStorage
<1>20. ASSUME NEW b \in Ids, NEW t \in {"restore", "unsafe restore"}, BeginRestore(w, b, t)
     PROVE  Goal
  BY <1>0, <1>20 DEF BeginRestore, BeginTask
<1> HIDE DEF BackupsTypeOK, Goal, Go, Is
<1>21. Goal
  BY <1>1, <1>2, <1>3, <1>4, <1>5, <1>6, <1>7, <1>8, <1>9, <1>10, <1>11, <1>12, <1>13, <1>14, <1>15, <1>16, <1>17, <1>18, <1>19, <1>20 DEF Acts, Works
<1>22. ASSUME NEW v \in Workers \ {w} PROVE Places(v)'
  <2>1. Stands(v) /\ panel' = panel /\ (oplock = v => oplock' = v)
    BY <1>21, OthersStand, <1>22 DEF Goal
  <2>2. Places(v)
    BY DEF LockInv
  <2> QED BY <2>1, <2>2 DEF Stands
<1> QED BY <1>21, <1>22 DEF Goal, LockInv

\* Deaths of the panel keep it too, and nothing else touches it.
LEMMA LockStep == BackupsTypeOK /\ LockInv /\ [BackupsNext]_backupVars => LockInv'
<1> SUFFICES ASSUME BackupsTypeOK, LockInv, [BackupsNext]_backupVars PROVE LockInv'
  OBVIOUS
<1>1. ASSUME NEW w \in Workers, Acts(w) PROVE LockInv'
  BY <1>1, LockActs
<1>2. ASSUME UNCHANGED <<at, task, mine, held, oplock>>, panel => panel' PROVE LockInv'
  BY <1>2 DEF LockInv, Places, Locked
<1>3. CASE PanelDies
  <2>1. SUFFICES ASSUME NEW w \in Workers PROVE Places(w)'
    BY DEF LockInv
  <2>2. Places(w)
    BY DEF LockInv
  <2>3. CASE w \in Commands
    <3>1. at'[w] = at[w] /\ task'[w] = task[w] /\ mine'[w] = mine[w] /\ (held'[w] <=> held[w])
      BY <1>3, <2>3 DEF PanelDies, Dies, Forget, BackupsTypeOK, WorkTypes
    <3>2. oplock = w => oplock' = w
      BY <1>3, <2>3 DEF PanelDies, Dies
    <3> QED BY <2>2, <2>3, <3>1, <3>2 DEF Places, Locked
  <2>4. CASE w \notin Commands
    <3>1. at'[w] = "idle" /\ task'[w] = "none" /\ mine'[w] = Gone /\ ~held'[w]
      BY <1>3, <2>4 DEF PanelDies, Dies, Forget
    <3> QED BY <3>1 DEF Places, Locked, Making
  <2> QED BY <2>3, <2>4
<1>4. CASE PanelStarts
  BY <1>2, <1>4 DEF PanelStarts
<1>5. ASSUME NEW b \in Ids, Delete(b) \/ VerifyRequest(b) PROVE LockInv'
  BY <1>2, <1>5 DEF Delete, VerifyRequest, workVars, panelVars
<1>6. CASE ServerStarts \/ ServerStops \/ WorldChanges \/ UNCHANGED backupVars
  BY <1>2, <1>6 DEF ServerStarts, ServerStops, WorldChanges, backupVars, workVars, panelVars
<1> QED BY <1>1, <1>3, <1>4, <1>5, <1>6 DEF BackupsNext, Acts

\* Saving that is off is in the hands of a backup.
SavingInv == BackupsTypeOK /\ LockInv /\ SavingOffIsHeld

LEMMA SavingStep == SavingInv /\ [BackupsNext]_backupVars => SavingOffIsHeld'
<1> SUFFICES ASSUME BackupsTypeOK, LockInv, SavingOffIsHeld, [BackupsNext]_backupVars,
                    ~saving', server', deathCount' = 0
             PROVE  \E w \in Workers : held'[w]
  BY DEF SavingInv, SavingOffIsHeld
<1> USE DEF workVars, storeVars, worldVars, panelVars, ghostVars
<1>1. ASSUME UNCHANGED <<saving, server, deathCount, held>> PROVE \E w \in Workers : held'[w]
  BY <1>1 DEF SavingOffIsHeld
<1>2. ASSUME NEW w \in Workers, Prepare(w) PROVE \E v \in Workers : held'[v]
  <2>1. /\ held' = [held EXCEPT ![w] = (task[w] = "online" /\ server)]
        /\ saving' = (saving /\ ~(task[w] = "online" /\ server))
        /\ at[w] = "begin" /\ server' = server /\ deathCount' = deathCount
    BY <1>2 DEF Prepare, Is
  <2>2. ~held[w]
    BY <2>1 DEF LockInv, Places, Making
  <2>3. CASE task[w] = "online" /\ server
    BY <2>1, <2>3 DEF BackupsTypeOK, WorkTypes
  <2>4. CASE ~(task[w] = "online" /\ server)
    <3>1. PICK v \in Workers : held[v]
      BY <2>1, <2>4 DEF SavingOffIsHeld, BackupsTypeOK, StoreTypes
    <3> QED BY <2>1, <2>2, <3>1 DEF BackupsTypeOK, WorkTypes
  <2> QED BY <2>3, <2>4
<1>3. ASSUME NEW w \in Workers, SaveOn(w) PROVE \E v \in Workers : held'[v]
  <2>1. /\ held' = [held EXCEPT ![w] = FALSE] /\ saving' = (IF held[w] THEN TRUE ELSE saving)
        /\ server' = server /\ deathCount' = deathCount
    BY <1>3 DEF SaveOn
  <2>2. ~held[w] /\ ~saving
    BY <2>1
  <2>3. PICK v \in Workers : held[v]
    BY <2>1, <2>2 DEF SavingOffIsHeld
  <2> QED BY <2>1, <2>2, <2>3 DEF BackupsTypeOK, WorkTypes
<1>4. ASSUME NEW gone, Dies(gone) PROVE FALSE
  BY <1>4 DEF Dies, BackupsTypeOK, StoreTypes
<1>5. ASSUME NEW w \in Workers, Acts(w) PROVE \E v \in Workers : held'[v]
  <2>1. CASE BeginBackup(w) \/ BeginMove(w) \/ \E b \in Ids, t \in {"restore", "unsafe restore"} : BeginRestore(w, b, t)
    BY <1>1, <2>1 DEF BeginBackup, BeginMove, BeginRestore, BeginTask
  <2>2. CASE LoadConfig(w) \/ CommandDies(w)
    BY <1>1, <1>4, <2>2 DEF LoadConfig, CommandDies
  <2>3. CASE AcquireOpLock(w) \/ ReadWorld(w) \/ ReadRest(w) \/ Verify(w) \/ Record(w) \/ Decide(w)
    BY <1>1, <2>3 DEF AcquireOpLock, ReadWorld, ReadRest, Verify, Record, Decide
  <2>4. CASE CheckArchive(w) \/ SetAside(w) \/ Place(w) \/ ReleaseOpLock(w)
    BY <1>1, <2>4 DEF CheckArchive, SetAside, Place, ReleaseOpLock
  <2>5. CASE CopyStorage(w) \/ SwitchStorage(w) \/ RemoveStorage(w)
    BY <1>1, <2>5 DEF CopyStorage, SwitchStorage, RemoveStorage
  <2> QED BY <1>2, <1>3, <1>5, <2>1, <2>2, <2>3, <2>4, <2>5 DEF Acts, Works
<1>6. ASSUME NEW b \in Ids, Delete(b) \/ VerifyRequest(b) PROVE \E v \in Workers : held'[v]
  BY <1>1, <1>6 DEF Delete, VerifyRequest
<1>7. CASE ServerStarts \/ ServerStops \/ WorldChanges \/ PanelDies \/ PanelStarts \/ UNCHANGED backupVars
  BY <1>1, <1>4, <1>7 DEF ServerStarts, ServerStops, WorldChanges, PanelDies, PanelStarts, backupVars
<1> QED BY <1>5, <1>6, <1>7 DEF BackupsNext, Acts

LEMMA BackupsStart == BackupsInit => BackupsTypeOK /\ LockInv
  BY BackupsAssumption DEF BackupsInit, BackupsTypeOK, WorkTypes, StoreTypes, Targets, Restores, LockInv,
     Places, Locked, Making, Contents, Versions, Steps, Tasks, Statuses

\* Saving that was turned off for a backup is going to be turned on by one that
\* lives, however many requests and commands there are.
THEOREM SavingOffIsHeldHolds == BackupsSpec => []SavingOffIsHeld
<1>1. BackupsInit => SavingInv
  BY BackupsStart DEF SavingInv, BackupsInit, SavingOffIsHeld
<1>2. SavingInv /\ [BackupsNext]_backupVars => SavingInv'
  BY BackupsTypeStep, LockStep, SavingStep DEF SavingInv
<1>3. SavingInv => SavingOffIsHeld
  BY DEF SavingInv
<1> QED BY <1>1, <1>2, <1>3, PTL DEF BackupsSpec

-----------------------------------------------------------------------------
(* Backups: verified backups stay within reach *)

\* What a backup under way has stored, and what a move has copied.
Makes(w) == at[w] \in Making =>
    /\ mine[w] \in Ids /\ status[mine[w]] # "verified"
    /\ mine[w] \notin misplaced => root[w] = cfgRoot
    /\ at[w] \in {"reading", "verify"} => image[w] # Gone
    /\ at[w] = "record" /\ status[mine[w]] # "none" => archive[root[w]][mine[w]] # Gone
Moves(w) == at[w] \in {"switch", "remove"} =>
    /\ source[w] \in Roots /\ source[w] # root[w]
    /\ \A b \in Ids : status[b] # "none" => archive[source[w]][b] = archive[root[w]][b]
    /\ at[w] = "remove" => cfgRoot = source[w]
Stored == VerifiedIsInStorage /\ \A w \in Workers : Makes(w) /\ Moves(w)
StorageInv == BackupsTypeOK /\ LockInv /\ Stored

\* Two that hold the lock are one.
LEMMA OneLocked ==
    ASSUME LockInv, NEW w \in Workers, Locked(w), NEW v \in Workers \ {w}
    PROVE  at[v] \notin Making \cup {"begin", "savings", "decide", "copy", "switch", "remove"}
  BY DEF LockInv, Places, Locked

\* A backup that fails to verify was not verified, and stays in the list.
StatusStays(b) == /\ status'[b] = "verified" <=> status[b] = "verified"
                  /\ status'[b] = "none" <=> status[b] = "none"
LEMMA RecheckedKeeps ==
    ASSUME BackupsTypeOK, NEW b, NEW r, Rechecked(b, r)
    PROVE  \A c \in Ids : StatusStays(c)
  BY DEF StatusStays, Rechecked, Available, BackupsTypeOK, StoreTypes

\* Steps that bring a worker to none of the critical places and change nothing
\* stored but a status to "failed".
LEMMA StoredRests ==
    ASSUME StorageInv, UNCHANGED <<archive, cfgRoot, misplaced>>,
           \A c \in Ids : StatusStays(c),
           \A v \in Workers : Stands(v) \/ at'[v] \notin Making \cup {"switch", "remove"}
    PROVE  Stored'
<1> USE DEF StatusStays
<1>1. VerifiedIsInStorage'
  BY DEF StorageInv, Stored, VerifiedIsInStorage
<1>2. ASSUME NEW v \in Workers, Stands(v) PROVE Makes(v)' /\ Moves(v)'
  <2>1. Makes(v) /\ Moves(v) /\ mine[v] \in Ids \cup {Gone}
    BY DEF StorageInv, Stored, BackupsTypeOK, WorkTypes
  <2>2. Makes(v)'
    BY <1>2, <2>1 DEF Stands, Makes
  <2>3. Moves(v)'
    BY <1>2, <2>1 DEF Stands, Moves
  <2> QED BY <2>2, <2>3
<1>3. ASSUME NEW v \in Workers, at'[v] \notin Making \cup {"switch", "remove"}
      PROVE  Makes(v)' /\ Moves(v)'
  BY <1>3 DEF Makes, Moves, Making
<1> QED BY <1>1, <1>2, <1>3 DEF Stored

\* The steps of a backup and of a move that change what is stored.
LEMMA StoredActs ==
    ASSUME StorageInv, NEW w \in Workers, Locked(w), Works(w),
           VerifiedIsInStorage', Makes(w)', Moves(w)'
    PROVE  Stored'
<1>1. ASSUME NEW v \in Workers \ {w} PROVE Makes(v)' /\ Moves(v)'
  <2>1. at[v] \notin Making \cup {"switch", "remove"}
    BY OneLocked DEF StorageInv
  <2>2. at'[v] = at[v]
    BY OthersStand DEF StorageInv, Stands, Acts
  <2> QED BY <2>1, <2>2 DEF Makes, Moves
<1> QED BY <1>1 DEF Stored

LEMMA StorageActs == ASSUME StorageInv, NEW w \in Workers, Acts(w) PROVE Stored'
<1> USE DEF Is, Go, workVars, storeVars, worldVars, panelVars, ghostVars
<1>1. /\ BackupsTypeOK /\ LockInv /\ VerifiedIsInStorage /\ Makes(w) /\ Moves(w) /\ Places(w)
      /\ mine[w] \in Ids \cup {Gone} /\ root[w] \in Roots /\ cfgRoot \in Roots
  BY DEF StorageInv, Stored, LockInv, BackupsTypeOK, WorkTypes, StoreTypes
<1>2. \A v \in Workers \ {w} : Stands(v)
  BY <1>1, OthersStand
<1>3. ASSUME UNCHANGED <<storeVars, misplaced>>, at'[w] \notin Making \cup {"switch", "remove"}
      PROVE  Stored'
  BY <1>2, <1>3, StoredRests DEF StatusStays, storeVars
<1>4. ASSUME BeginBackup(w) \/ BeginMove(w) \/ LoadConfig(w)
             \/ \E b \in Ids, t \in {"restore", "unsafe restore"} : BeginRestore(w, b, t)
      PROVE  Stored'
  BY <1>1, <1>3, <1>4 DEF BeginBackup, BeginMove, BeginRestore, BeginTask, LoadConfig, Making,
     BackupsTypeOK, WorkTypes
<1>5. ASSUME CommandDies(w) \/ ReleaseOpLock(w) PROVE Stored'
  BY <1>1, <1>3, <1>5 DEF CommandDies, Dies, ReleaseOpLock, Forget, Making
<1>6. ASSUME AcquireOpLock(w) PROVE Stored'
  <2>1. UNCHANGED <<storeVars, misplaced>> /\ at'[w] \in {"copy", "check", "begin", "release"}
    BY <1>1, <1>6 DEF AcquireOpLock, BackupsTypeOK, WorkTypes
  <2> QED BY <1>3, <2>1 DEF Making
<1>7. ASSUME SaveOn(w) \/ Decide(w) PROVE Stored'
  BY <1>1, <1>3, <1>7 DEF SaveOn, Decide, Making, BackupsTypeOK, WorkTypes
<1>8. ASSUME SetAside(w) PROVE Stored'
  <2>1. UNCHANGED <<storeVars, misplaced>> /\ at'[w] \in {"place", "release"}
    BY <1>1, <1>8 DEF SetAside, BackupsTypeOK, WorkTypes
  <2> QED BY <1>3, <2>1 DEF Making
<1>9. ASSUME Place(w) PROVE Stored'
  BY <1>1, <1>3, <1>9 DEF Place, Making, BackupsTypeOK, WorkTypes
<1>10. ASSUME CheckArchive(w) PROVE Stored'
  <2>1. at'[w] \in {"aside", "release"} /\ UNCHANGED <<archive, cfgRoot, misplaced>>
        /\ (UNCHANGED status \/ Rechecked(source[w], root[w]))
    BY <1>1, <1>10 DEF CheckArchive, BackupsTypeOK, WorkTypes
  <2>2. \A c \in Ids : StatusStays(c)
    BY <1>1, <2>1, RecheckedKeeps DEF StatusStays
  <2> QED BY <1>2, <2>1, <2>2, StoredRests DEF Making
<1>11. ASSUME ReadWorld(w) PROVE Stored'
  <2>1. /\ at[w] = "read" /\ at'[w] = "reading" /\ image'[w] # Gone /\ mine' = mine /\ root' = root
        /\ UNCHANGED <<storeVars, misplaced>>
    BY <1>1, <1>11 DEF ReadWorld, BackupsTypeOK, WorkTypes
  <2>2. Makes(w)' /\ Moves(w)' /\ VerifiedIsInStorage'
    BY <1>1, <2>1 DEF Makes, Moves, Making, VerifiedIsInStorage
  <2> QED BY <1>11, <2>1, <2>2, StoredActs DEF Works, Locked, Making
<1>12. ASSUME Prepare(w) PROVE Stored'
  <2>1. at[w] = "begin" /\ UNCHANGED <<root, archive, cfgRoot>>
    BY <1>12 DEF Prepare
  <2>2. CASE /\ at'[w] = "savings" /\ UNCHANGED <<status, misplaced>>
    BY <1>3, <2>1, <2>2 DEF Making
  <2>3. ASSUME NEW b \in Ids, status[b] = "none", mine'[w] = b, at'[w] = "read",
               status' = [status EXCEPT ![b] = "unverified"],
               misplaced' = IF root[w] = cfgRoot THEN misplaced ELSE misplaced \cup {b}
        PROVE  Stored'
    <3>1. \A c \in Ids : status'[c] = IF c = b THEN "unverified" ELSE status[c]
      BY <1>1, <2>3 DEF BackupsTypeOK, StoreTypes
    <3>2. VerifiedIsInStorage'
      BY <1>1, <2>1, <2>3, <3>1 DEF VerifiedIsInStorage
    <3>3. Makes(w)' /\ Moves(w)'
      BY <2>1, <2>3, <3>1 DEF Makes, Moves, Making
    <3> QED BY <1>12, <2>1, <3>2, <3>3, StoredActs DEF Works, Locked
  <2>4. \/ at' = [at EXCEPT ![w] = "savings"] /\ UNCHANGED <<status, misplaced>>
        \/ \E b \in Ids :
             /\ status[b] = "none" /\ mine' = [mine EXCEPT ![w] = b] /\ at' = [at EXCEPT ![w] = "read"]
             /\ status' = [status EXCEPT ![b] = "unverified"]
             /\ misplaced' = IF root[w] = cfgRoot THEN misplaced ELSE misplaced \cup {b}
    BY <1>12 DEF Prepare
  <2> QED BY <1>1, <2>2, <2>3, <2>4 DEF BackupsTypeOK, WorkTypes
<1>13. ASSUME ReadRest(w) \/ Verify(w) \/ Record(w), at'[w] = "savings", archive' = archive,
             status' = status \/ Mark(w, "failed") \/ (Mark(w, "verified") /\ at[w] = "record")
       PROVE Stored'
  <2>1. /\ UNCHANGED <<cfgRoot, misplaced>> /\ Locked(w) /\ Works(w) /\ at[w] \in Making
        /\ status \in [Ids -> Statuses]
    BY <1>1, <1>13 DEF ReadRest, Verify, Record, Locked, Making, Works, BackupsTypeOK, StoreTypes
  <2>2. ASSUME NEW b \in Ids, b \notin misplaced, status'[b] = "verified" PROVE archive[cfgRoot][b] # Gone
    <3>1. CASE status[b] = "verified"
      BY <1>1, <2>2, <3>1 DEF VerifiedIsInStorage
    <3>2. CASE b = mine[w] /\ at[w] = "record" /\ status[b] # "none"
      BY <1>1, <2>1, <2>2, <3>2 DEF Makes
    <3> QED BY <1>13, <2>1, <2>2, <3>1, <3>2 DEF Mark
  <2>3. VerifiedIsInStorage'
    BY <1>13, <2>1, <2>2 DEF VerifiedIsInStorage
  <2>4. Makes(w)' /\ Moves(w)'
    BY <1>13 DEF Makes, Moves, Making
  <2> QED BY <2>1, <2>3, <2>4, StoredActs
<1>14. ASSUME Record(w) PROVE Stored'
  <2>1. at[w] = "record" /\ at'[w] = "savings" /\ archive' = archive /\ Mark(w, "verified")
    BY <1>1, <1>14 DEF Record, BackupsTypeOK, WorkTypes
  <2> QED BY <1>13, <1>14, <2>1
<1>15. ASSUME ReadRest(w) PROVE Stored'
  <2>1. at[w] \in {"read", "reading"} /\ archive' = archive /\ UNCHANGED <<mine, root, cfgRoot, misplaced>>
    BY <1>15 DEF ReadRest
  <2>2. CASE Mark(w, "failed") /\ at' = [at EXCEPT ![w] = "savings"]
    BY <1>1, <1>13, <1>15, <2>1, <2>2 DEF BackupsTypeOK, WorkTypes
  <2>3. CASE /\ at[w] = "reading" /\ World # Gone /\ at' = [at EXCEPT ![w] = "verify"] /\ status' = status
             /\ image' = [image EXCEPT ![w] = IF World = image[w] THEN image[w] ELSE Torn]
    <3>1. at'[w] = "verify" /\ image'[w] # Gone
      BY <1>1, <2>3, BackupsAssumption DEF BackupsTypeOK, WorkTypes
    <3>2. Makes(w)' /\ Moves(w)' /\ VerifiedIsInStorage'
      BY <1>1, <2>1, <2>3, <3>1 DEF Makes, Moves, Making, VerifiedIsInStorage
    <3> QED BY <1>15, <2>3, <3>2, StoredActs DEF Works, Locked, Making
  <2> QED BY <1>15, <2>2, <2>3 DEF ReadRest
<1>16. ASSUME Verify(w) PROVE Stored'
  <2>1. at[w] = "verify" /\ UNCHANGED <<mine, root, cfgRoot, misplaced>>
    BY <1>16 DEF Verify
  <2>2. CASE /\ at' = [at EXCEPT ![w] = "savings"] /\ archive' = archive
             /\ Mark(w, "failed") \/ status' = status
    BY <1>1, <1>13, <1>16, <2>1, <2>2 DEF BackupsTypeOK, WorkTypes
  <2>3. CASE /\ archive' = [archive EXCEPT ![root[w]][mine[w]] = image[w]]
             /\ at' = [at EXCEPT ![w] = "record"] /\ status' = status
    <3>1. at'[w] = "record"
      BY <1>1, <2>3 DEF BackupsTypeOK, WorkTypes
    <3>2. /\ mine[w] \in Ids /\ image[w] # Gone
          /\ \A r \in Roots, b \in Ids :
               archive'[r][b] = IF r = root[w] /\ b = mine[w] THEN image[w] ELSE archive[r][b]
      BY <1>1, <2>1, <2>3 DEF Makes, Making, BackupsTypeOK, StoreTypes
    <3>3. Makes(w)' /\ Moves(w)' /\ VerifiedIsInStorage'
      BY <1>1, <2>1, <2>3, <3>1, <3>2 DEF Makes, Moves, Making, VerifiedIsInStorage
    <3> QED BY <1>16, <2>1, <3>3, StoredActs DEF Works, Locked, Making
  <2> QED BY <1>16, <2>2, <2>3 DEF Verify
<1>17. ASSUME CopyStorage(w) PROVE Stored'
  <2>1. at[w] = "copy" /\ UNCHANGED <<mine, root, cfgRoot, misplaced>>
    BY <1>17 DEF CopyStorage
  <2>2. ASSUME NEW b \in Ids, at' = [at EXCEPT ![w] = "release"], archive' = archive, Rechecked(b, root[w])
        PROVE  Stored'
    <3>1. at'[w] = "release"
      BY <1>1, <2>2 DEF BackupsTypeOK, WorkTypes
    <3>2. \A c \in Ids : StatusStays(c)
      BY <1>1, <2>2, RecheckedKeeps
    <3> QED BY <1>2, <2>1, <2>2, <3>1, <3>2, StoredRests DEF Making
  <2>3. ASSUME NEW target \in Roots \ {root[w]}, at' = [at EXCEPT ![w] = "switch"], status' = status,
               source' = [source EXCEPT ![w] = target], \A b \in Ids : archive[target][b] = Gone,
               archive' = [archive EXCEPT ![target] = archive[root[w]]]
        PROVE  Stored'
    <3>1. at'[w] = "switch" /\ source'[w] = target
      BY <1>1, <2>3 DEF BackupsTypeOK, WorkTypes
    <3>2. \A r \in Roots, b \in Ids :
            archive'[r][b] = IF r = target THEN archive[root[w]][b] ELSE archive[r][b]
      BY <1>1, <2>3 DEF BackupsTypeOK, StoreTypes
    <3>3. Makes(w)' /\ Moves(w)' /\ VerifiedIsInStorage'
      BY <1>1, <2>1, <2>3, <3>1, <3>2 DEF Makes, Moves, Making, VerifiedIsInStorage
    <3> QED BY <1>17, <2>1, <3>3, StoredActs DEF Works, Locked
  <2> QED BY <1>17, <2>2, <2>3 DEF CopyStorage
<1>18. ASSUME SwitchStorage(w) PROVE Stored'
  <2>1. /\ at[w] = "switch" /\ at'[w] = "remove" /\ UNCHANGED <<source, root, status, archive>>
        /\ cfgRoot' = source[w]
        /\ misplaced' = IF root[w] = cfgRoot THEN misplaced
                        ELSE misplaced \cup {b \in Ids : status[b] # "none"}
    BY <1>1, <1>18 DEF SwitchStorage, BackupsTypeOK, WorkTypes
  <2>2. Makes(w)' /\ Moves(w)' /\ VerifiedIsInStorage'
    BY <1>1, <2>1 DEF Makes, Moves, Making, VerifiedIsInStorage
  <2> QED BY <1>18, <2>1, <2>2, StoredActs DEF Works, Locked
<1>19. ASSUME RemoveStorage(w) PROVE Stored'
  <2>1. /\ at[w] = "remove" /\ at'[w] = "release" /\ UNCHANGED <<source, root, status, cfgRoot, misplaced>>
        /\ \A r \in Roots, b \in Ids : r # root[w] => archive'[r][b] = archive[r][b]
    BY <1>1, <1>19 DEF RemoveStorage, BackupsTypeOK, WorkTypes, StoreTypes
  <2>2. Makes(w)' /\ Moves(w)' /\ VerifiedIsInStorage'
    BY <1>1, <2>1 DEF Makes, Moves, Making, VerifiedIsInStorage
  <2> QED BY <1>19, <2>1, <2>2, StoredActs DEF Works, Locked
<1> HIDE DEF Is, Go
<1> QED BY <1>4, <1>5, <1>6, <1>7, <1>8, <1>9, <1>10, <1>11, <1>12, <1>14, <1>15, <1>16, <1>17, <1>18, <1>19
       DEF Acts, Works

LEMMA StorageStep == StorageInv /\ [BackupsNext]_backupVars => Stored'
<1> SUFFICES ASSUME StorageInv, [BackupsNext]_backupVars PROVE Stored'
  OBVIOUS
<1> USE DEF workVars, storeVars, worldVars, panelVars, ghostVars
<1>0. BackupsTypeOK /\ LockInv
  BY DEF StorageInv
<1>1. ASSUME NEW w \in Workers, Acts(w) PROVE Stored'
  BY <1>1, StorageActs
<1>2. ASSUME UNCHANGED <<workVars, storeVars, misplaced>> PROVE Stored'
  <2>1. \A v \in Workers : Stands(v)
    BY <1>2 DEF Stands
  <2> QED BY <1>2, <2>1, StoredRests DEF StatusStays
<1>3. ASSUME NEW b \in Ids, Delete(b) PROVE Stored'
  <2>1. UNCHANGED <<workVars, cfgRoot, misplaced>>
    BY <1>3 DEF Delete
  <2>2. /\ \A c \in Ids : status'[c] = IF c = b THEN "none" ELSE status[c]
        /\ \A r \in Roots, c \in Ids : c # b => archive'[r][c] = archive[r][c]
    BY <1>0, <1>3 DEF Delete, BackupsTypeOK, StoreTypes, WorkTypes
  <2>3. VerifiedIsInStorage'
    BY <1>0, <2>1, <2>2 DEF StorageInv, Stored, VerifiedIsInStorage, BackupsTypeOK, StoreTypes
  <2>4. ASSUME NEW w \in Workers PROVE Makes(w)' /\ Moves(w)'
    <3>1. Makes(w) /\ Moves(w) /\ root[w] \in Roots
      BY <1>0 DEF StorageInv, Stored, BackupsTypeOK, WorkTypes
    <3>2. Makes(w)'
      BY <2>1, <2>2, <3>1 DEF Makes
    <3>3. Moves(w)'
      BY <2>1, <2>2, <3>1 DEF Moves
    <3> QED BY <3>2, <3>3
  <2> QED BY <2>3, <2>4 DEF Stored
<1>4. ASSUME NEW b \in Ids, VerifyRequest(b) PROVE Stored'
  <2>1. UNCHANGED <<workVars, archive, cfgRoot, misplaced>> /\ \E r : Rechecked(b, r)
    BY <1>4 DEF VerifyRequest
  <2>2. \A c \in Ids : StatusStays(c)
    BY <1>0, <2>1, RecheckedKeeps
  <2>3. \A v \in Workers : Stands(v)
    BY <2>1 DEF Stands
  <2> QED BY <2>1, <2>2, <2>3, StoredRests
<1>5. CASE ServerStarts \/ ServerStops \/ WorldChanges \/ UNCHANGED backupVars
  BY <1>2, <1>5 DEF ServerStarts, ServerStops, WorldChanges, backupVars
<1>6. CASE PanelDies
  <2>1. UNCHANGED <<storeVars, misplaced>>
    BY <1>6 DEF PanelDies, Dies
  <2>2. \A v \in Workers : Stands(v) \/ at'[v] = "idle"
    BY <1>0, <1>6 DEF PanelDies, Dies, Forget, Stands, BackupsTypeOK, WorkTypes
  <2> QED BY <2>1, <2>2, StoredRests DEF Making, StatusStays
<1>7. CASE PanelStarts
  <2>1. ~panel /\ UNCHANGED <<at, task, mine, source, image, held, storeVars, misplaced>>
        /\ \A v \in Commands : root'[v] = root[v]
    BY <1>7, BackupsAssumption DEF PanelStarts
  <2>2. \A v \in Workers : Stands(v) \/ at'[v] = "idle"
    BY <1>0, <2>1 DEF LockInv, Places, Stands
  <2> QED BY <2>1, <2>2, StoredRests DEF Making, StatusStays
<1> QED BY <1>1, <1>3, <1>4, <1>5, <1>6, <1>7 DEF BackupsNext, Acts

\* Whatever is moved, deleted, restored and made at the same time, and whoever
\* dies: a verified backup that was written to the storage in use is in it.
THEOREM VerifiedIsInStorageHolds == BackupsSpec => []VerifiedIsInStorage
<1>1. BackupsInit => StorageInv
  BY BackupsStart DEF StorageInv, Stored, BackupsInit, VerifiedIsInStorage, Makes, Moves, Making
<1>2. StorageInv /\ [BackupsNext]_backupVars => StorageInv'
  BY BackupsTypeStep, LockStep, StorageStep DEF StorageInv
<1>3. StorageInv => VerifiedIsInStorage
  BY DEF StorageInv, Stored
<1> QED BY <1>1, <1>2, <1>3, PTL DEF BackupsSpec

-----------------------------------------------------------------------------
(* Backups: what is archived, and the safety copy of a restore *)

\* A storage has an archive of this content.
Kept(b, content) == content # Gone /\ \E r \in Roots : archive[r][b] = content
\* Nobody else is making the backup this worker made.
Apart(w) == \A v \in Workers \ {w} : at[v] \in Making => mine[v] # mine[w]
\* A worker whose mode was right when it was chosen reads one state of the
\* world, and the safety copy of a restore stays that of the world.
Undisturbed(w) ==
    /\ task[w] \in {"offline", "restore"} => ~server
    /\ task[w] = "online" => server
    /\ task[w] = "online" /\ at[w] \in {"read", "reading"} => ~saving
    /\ at[w] = "reading" => image[w] = World
    /\ mine[w] # Gone => status[mine[w]] # "none" /\ Apart(w)
    /\ task[w] = "restore" =>
         /\ at[w] = "verify" => image[w] = World
         /\ at[w] = "record" => Kept(mine[w], World)
         /\ at[w] \in {"savings", "decide"} /\ mine[w] # Gone /\ status[mine[w]] = "verified" =>
              Kept(mine[w], World)
         /\ at[w] \in {"check", "aside", "place"} => mine[w] # Gone /\ status[mine[w]] = "verified"
         /\ at[w] \in {"check", "aside"} => Kept(mine[w], World)
         /\ at[w] = "place" /\ aside # Gone => Kept(mine[w], aside)
CopyInv == StorageInv /\ \A w \in Workers \ disturbed : Undisturbed(w)

\* A worker that another one's step leaves alone.
LEMMA UndisturbedRests ==
    ASSUME StorageInv, NEW v \in Workers, Undisturbed(v), Stands(v), mine[v] # Gone => Apart(v)',
           server' = server, saving' => saving \/ at[v] \notin {"read", "reading"},
           UNCHANGED <<live, aside>> \/ at[v] \in {"idle", "acquire", "begin", "read", "release"},
           \A c \in Ids : c = mine[v] => StatusStays(c),
           \A c \in Ids : c = mine[v] => \A x : Kept(c, x) => Kept(c, x)'
    PROVE  Undisturbed(v)'
<1>1. mine[v] \in Ids \cup {Gone} /\ mine'[v] = mine[v] /\ at'[v] = at[v] /\ task'[v] = task[v]
      /\ image'[v] = image[v]
  BY DEF StorageInv, BackupsTypeOK, WorkTypes, Stands
<1>2. ASSUME mine[v] # Gone
      PROVE  mine[v] \in Ids /\ StatusStays(mine[v])
  BY <1>1, <1>2
<1> USE DEF StatusStays
<1>3. UNCHANGED <<live, aside>> => World' = World
  BY DEF World
<1>4. /\ task[v] \in {"offline", "restore"} => ~server'
      /\ task[v] = "online" => server'
      /\ task[v] = "online" /\ at[v] \in {"read", "reading"} => ~saving'
      /\ at[v] = "reading" => image[v] = World'
      /\ mine[v] # Gone => status'[mine[v]] # "none"
  BY <1>2, <1>3 DEF Undisturbed
<1>5. ASSUME task[v] = "restore", at[v] = "verify" PROVE image[v] = World'
  BY <1>3, <1>5 DEF Undisturbed
<1>6. ASSUME task[v] = "restore", mine[v] # Gone,
             \/ at[v] \in {"record", "check", "aside"}
             \/ at[v] \in {"savings", "decide"} /\ status'[mine[v]] = "verified"
      PROVE  Kept(mine[v], World)'
  <2>1. Kept(mine[v], World) /\ World' = World
    BY <1>2, <1>3, <1>6 DEF Undisturbed
  <2> QED BY <1>1, <1>2, <2>1, <1>6 DEF Kept
<1>7. ASSUME task[v] = "restore", at[v] \in {"check", "aside", "place"}
      PROVE  mine[v] # Gone /\ status'[mine[v]] = "verified"
  BY <1>2, <1>7 DEF Undisturbed
<1>8. ASSUME task[v] = "restore", at[v] = "place", aside' # Gone PROVE Kept(mine[v], aside)'
  <2>1. Kept(mine[v], aside) /\ aside' = aside /\ mine[v] # Gone
    BY <1>8 DEF Undisturbed
  <2> QED BY <1>1, <2>1 DEF Kept
<1>9. at[v] = "record" => mine[v] # Gone
  BY BackupsAssumption DEF StorageInv, Stored, Makes, Making
<1> QED BY <1>1, <1>4, <1>5, <1>6, <1>7, <1>8, <1>9 DEF Undisturbed

\* A worker that is not at a task.
LEMMA IdleIsUndisturbed ==
    ASSUME BackupsTypeOK', LockInv', NEW v \in Workers, at'[v] = "idle"
    PROVE  Undisturbed(v)'
<1>1. task'[v] = "none" /\ mine'[v] = Gone
  BY DEF LockInv, Places
<1> QED BY <1>1 DEF Undisturbed

\* What a step of one worker is to another that is not disturbed.
LEMMA OthersUndisturbed ==
    ASSUME CopyInv, NEW w \in Workers, Acts(w), NEW v \in Workers \ {w}, v \notin disturbed'
    PROVE  Undisturbed(v)'
<1> USE DEF Is, Go, workVars, storeVars, worldVars, panelVars, ghostVars
<1>0. /\ StorageInv /\ BackupsTypeOK /\ LockInv /\ Stands(v) /\ Places(w) /\ Places(v) /\ Makes(w) /\ Moves(w)
      /\ at \in [Workers -> Steps] /\ mine \in [Workers -> Ids \cup {Gone}]
      /\ mine[v] \in Ids \cup {Gone} /\ root[w] \in Roots
  BY OthersStand DEF CopyInv, StorageInv, Stored, LockInv, BackupsTypeOK, WorkTypes
<1>1. v \notin disturbed /\ Undisturbed(v)
  <2>1. v \notin disturbed
    <3>1. ASSUME AcquireOpLock(w) \/ Prepare(w) \/ ReadWorld(w) \/ ReadRest(w) \/ Verify(w) \/ Record(w)
          PROVE  disturbed' = disturbed
      BY <3>1 DEF AcquireOpLock, Prepare, ReadWorld, ReadRest, Verify, Record
    <3>2. ASSUME SaveOn(w) \/ Decide(w) \/ CheckArchive(w) \/ CopyStorage(w) \/ SwitchStorage(w) \/ RemoveStorage(w)
          PROVE  disturbed' = disturbed
      BY <3>2 DEF SaveOn, Decide, CheckArchive, CopyStorage, SwitchStorage, RemoveStorage
    <3>3. ASSUME SetAside(w) \/ Place(w) PROVE disturbed \subseteq disturbed'
      BY <3>3 DEF SetAside, Place, Disturbs
    <3>4. ASSUME ReleaseOpLock(w) \/ CommandDies(w) PROVE disturbed' = disturbed \ {w}
      BY <3>4 DEF ReleaseOpLock, CommandDies, Dies
    <3>5. ASSUME \/ BeginBackup(w) \/ BeginMove(w) \/ LoadConfig(w)
                 \/ \E b \in Ids, t \in {"restore", "unsafe restore"} : BeginRestore(w, b, t)
          PROVE  disturbed' = disturbed
      BY <3>5 DEF BeginBackup, BeginMove, LoadConfig, BeginRestore, BeginTask
    <3> HIDE DEF Is, Go
    <3> QED BY <3>1, <3>2, <3>3, <3>4, <3>5 DEF Acts, Works
  <2> QED BY <2>1 DEF CopyInv
<1>2. mine[v] # Gone => mine[v] \in Ids /\ status[mine[v]] # "none" /\ Apart(v)
  BY <1>0, <1>1 DEF Undisturbed
<1>3. ASSUME \/ at'[w] \notin Making
             \/ at[w] \in Making /\ mine'[w] = mine[w]
             \/ mine'[w] \in Ids /\ status[mine'[w]] = "none"
      PROVE  mine[v] # Gone => Apart(v)'
  <2> SUFFICES ASSUME mine[v] # Gone, NEW u \in Workers \ {v}, at'[u] \in Making PROVE mine'[u] # mine'[v]
    BY DEF Apart
  <2>1. mine'[v] = mine[v] /\ Apart(v) /\ status[mine[v]] # "none"
    BY <1>0, <1>2 DEF Stands
  <2>2. CASE u = w
    BY <1>3, <2>1, <2>2 DEF Apart
  <2>3. CASE u # w
    <3>1. Stands(u)
      BY <1>0, <2>3, OthersStand
    <3> QED BY <2>1, <3>1 DEF Stands, Apart
  <2> QED BY <2>2, <2>3
<1>4. ASSUME at'[w] \notin Making \/ (at[w] \in Making /\ mine'[w] = mine[w]),
             UNCHANGED <<status, archive, live, aside, server, saving>>
      PROVE  Undisturbed(v)'
  <2>1. \A c, x : Kept(c, x) => Kept(c, x)'
    BY <1>4 DEF Kept
  <2>2. \A c \in Ids : StatusStays(c)
    BY <1>4 DEF StatusStays
  <2>3. mine[v] # Gone => Apart(v)'
    BY <1>3, <1>4
  <2> QED BY <1>0, <1>1, <1>4, <2>1, <2>2, <2>3, UndisturbedRests
<1>5. ASSUME BeginBackup(w) \/ BeginMove(w) \/ LoadConfig(w)
             \/ \E b \in Ids, t \in {"restore", "unsafe restore"} : BeginRestore(w, b, t)
      PROVE  Undisturbed(v)'
  BY <1>0, <1>4, <1>5 DEF BeginBackup, BeginMove, BeginRestore, BeginTask, LoadConfig, Making
<1>6. ASSUME CommandDies(w) \/ ReleaseOpLock(w) PROVE Undisturbed(v)'
  BY <1>0, <1>4, <1>6 DEF CommandDies, Dies, ReleaseOpLock, Forget, Making
<1>7. ASSUME AcquireOpLock(w) PROVE Undisturbed(v)'
  <2>1. /\ at'[w] \in {"copy", "check", "begin", "release"}
        /\ UNCHANGED <<status, archive, live, aside, server, saving>>
    BY <1>0, <1>7 DEF AcquireOpLock
  <2> QED BY <1>4, <2>1 DEF Making
<1>8. ASSUME ReadWorld(w) \/ SwitchStorage(w) \/ Decide(w) PROVE Undisturbed(v)'
  BY <1>0, <1>4, <1>8 DEF ReadWorld, SwitchStorage, Decide, Making
\* Nobody else holds the lock.
<1>9. ASSUME Locked(w)
      PROVE  at[v] \notin Making \cup {"begin", "savings", "decide", "copy", "switch", "remove"}
  BY <1>0, <1>9, OneLocked
<1>10. ASSUME Prepare(w) PROVE Undisturbed(v)'
  <2>1. /\ at[w] = "begin" /\ (saving' => saving) /\ UNCHANGED <<archive, live, aside, server>>
        /\ \/ at'[w] = "savings" /\ status' = status
           \/ \E b \in Ids : /\ status[b] = "none" /\ mine'[w] = b
                             /\ status' = [status EXCEPT ![b] = "unverified"]
    BY <1>0, <1>10 DEF Prepare
  <2>2. \A c \in Ids : c = mine[v] => StatusStays(c)
    BY <1>0, <1>2, <2>1, BackupsAssumption DEF StatusStays, BackupsTypeOK, StoreTypes
  <2>3. \A c, x : Kept(c, x) => Kept(c, x)'
    BY <2>1 DEF Kept
  <2>4. mine[v] # Gone => Apart(v)'
    BY <1>3, <2>1 DEF Making
  <2> QED BY <1>0, <1>1, <2>1, <2>2, <2>3, <2>4, UndisturbedRests
<1>11. ASSUME at[w] \in Making, mine' = mine, UNCHANGED <<live, aside, server, saving>>,
              status' = status \/ Mark(w, "failed") \/ Mark(w, "verified"),
              \A r \in Roots, c \in Ids : c # mine[w] => archive'[r][c] = archive[r][c]
       PROVE  Undisturbed(v)'
  <2>1. mine[v] # Gone => mine[v] # mine[w]
    BY <1>2, <1>11 DEF Apart
  <2>2. \A c \in Ids : c = mine[v] => StatusStays(c)
    BY <1>0, <1>11, <2>1, BackupsAssumption DEF StatusStays, Mark, BackupsTypeOK, StoreTypes
  <2>3. \A c \in Ids : c = mine[v] => \A x : Kept(c, x) => Kept(c, x)'
    BY <1>11, <2>1, BackupsAssumption DEF Kept
  <2>4. mine[v] # Gone => Apart(v)'
    BY <1>3, <1>11
  <2> QED BY <1>0, <1>1, <1>11, <2>2, <2>3, <2>4, UndisturbedRests
<1>12. ASSUME ReadRest(w) PROVE Undisturbed(v)'
  <2>1. /\ at[w] \in Making /\ mine' = mine /\ UNCHANGED <<live, aside, server, saving, archive>>
        /\ status' = status \/ Mark(w, "failed")
    BY <1>12 DEF ReadRest, Making
  <2> QED BY <1>11, <2>1
<1>13. ASSUME Verify(w) PROVE Undisturbed(v)'
  <2>1. /\ at[w] \in Making /\ mine' = mine /\ UNCHANGED <<live, aside, server, saving>>
        /\ status' = status \/ Mark(w, "failed")
        /\ \/ archive' = archive
           \/ archive' = [archive EXCEPT ![root[w]][mine[w]] = image[w]]
    BY <1>13 DEF Verify, Making
  <2>2. \A r \in Roots, c \in Ids : c # mine[w] => archive'[r][c] = archive[r][c]
    BY <1>0, <2>1 DEF BackupsTypeOK, StoreTypes
  <2> QED BY <1>11, <2>1, <2>2
<1>14. ASSUME Record(w) PROVE Undisturbed(v)'
  BY <1>11, <1>14 DEF Record, Making
<1>15. ASSUME SaveOn(w) PROVE Undisturbed(v)'
  <2>1. /\ at[w] = "savings" /\ at'[w] \in {"decide", "release"}
        /\ UNCHANGED <<status, archive, live, aside, server>>
    BY <1>0, <1>15 DEF SaveOn
  <2>2. at[v] \notin {"read", "reading"}
    BY <1>9, <2>1 DEF Locked, Making
  <2>3. \A c, x : Kept(c, x) => Kept(c, x)'
    BY <2>1 DEF Kept
  <2>4. \A c \in Ids : StatusStays(c)
    BY <2>1 DEF StatusStays
  <2>5. mine[v] # Gone => Apart(v)'
    BY <1>3, <2>1 DEF Making
  <2> QED BY <1>0, <1>1, <2>1, <2>2, <2>3, <2>4, <2>5, UndisturbedRests
<1>16. ASSUME CheckArchive(w) PROVE Undisturbed(v)'
  <2>1. /\ at'[w] \in {"aside", "release"} /\ UNCHANGED <<archive, live, aside, server, saving>>
        /\ status' = status \/ Rechecked(source[w], root[w])
    BY <1>0, <1>16 DEF CheckArchive
  <2>2. \A c \in Ids : StatusStays(c)
    BY <1>0, <2>1, RecheckedKeeps DEF StatusStays
  <2>3. \A c, x : Kept(c, x) => Kept(c, x)'
    BY <2>1 DEF Kept
  <2>4. mine[v] # Gone => Apart(v)'
    BY <1>3, <2>1 DEF Making
  <2> QED BY <1>0, <1>1, <2>1, <2>2, <2>3, <2>4, UndisturbedRests
\* A world is replaced under the lock, or it disturbs.
<1>17. ASSUME SetAside(w) \/ Place(w) PROVE Undisturbed(v)'
  <2>1. /\ at[w] \in {"aside", "place"} /\ at'[w] \in {"place", "release"}
        /\ UNCHANGED <<status, archive, server, saving>> /\ Disturbs(w)
    BY <1>0, <1>17 DEF SetAside, Place
  <2>2. at[v] \in {"idle", "acquire", "begin", "read", "release"}
    <3>1. at[v] \in {"idle", "acquire"} \/ (~Lockless(w) /\ ~Lockless(v))
      BY <2>1 DEF Disturbs, Reading
    <3>2. CASE ~Lockless(w) /\ ~Lockless(v)
      <4>1. oplock = w /\ Locked(w)
        BY <1>0, <2>1, <3>2 DEF Lockless, Locked, Places
      <4>2. ~Locked(v)
        BY <1>0, <4>1 DEF Places
      <4> QED BY <1>0, <3>2, <4>2 DEF Locked, Making, Lockless, BackupsTypeOK, WorkTypes, Steps
    <3> QED BY <3>1, <3>2
  <2>3. \A c, x : Kept(c, x) => Kept(c, x)'
    BY <2>1 DEF Kept
  <2>4. \A c \in Ids : StatusStays(c)
    BY <2>1 DEF StatusStays
  <2>5. mine[v] # Gone => Apart(v)'
    BY <1>3, <2>1 DEF Making
  <2> QED BY <1>0, <1>1, <2>1, <2>2, <2>3, <2>4, <2>5, UndisturbedRests
\* A move takes every backup along.
<1>18. ASSUME at'[w] \notin Making, UNCHANGED <<live, aside, server, saving>>,
              \A c \in Ids : StatusStays(c),
              \A c \in Ids : \A x : status[c] # "none" /\ Kept(c, x) => Kept(c, x)'
       PROVE  Undisturbed(v)'
  <2>1. \A c \in Ids : c = mine[v] => \A x : Kept(c, x) => Kept(c, x)'
    BY <1>2, <1>18, BackupsAssumption
  <2>2. mine[v] # Gone => Apart(v)'
    BY <1>3, <1>18
  <2> QED BY <1>0, <1>1, <1>18, <2>1, <2>2, UndisturbedRests
<1>19. ASSUME CopyStorage(w) PROVE Undisturbed(v)'
  <2>1. at'[w] \in {"switch", "release"} /\ UNCHANGED <<live, aside, server, saving>>
    BY <1>0, <1>19 DEF CopyStorage
  <2>2. CASE archive' = archive /\ \E b \in Ids : Rechecked(b, root[w])
    <3>1. \A c \in Ids : StatusStays(c)
      BY <1>0, <2>2, RecheckedKeeps
    <3>2. \A c \in Ids : \A x : Kept(c, x) => Kept(c, x)'
      BY <2>2 DEF Kept
    <3> QED BY <1>18, <2>1, <3>1, <3>2 DEF Making
  <2>3. ASSUME NEW target \in Roots \ {root[w]}, \A b \in Ids : archive[target][b] = Gone, status' = status,
               archive' = [archive EXCEPT ![target] = archive[root[w]]]
        PROVE  Undisturbed(v)'
    <3>1. \A c \in Ids : \A x : Kept(c, x) => Kept(c, x)'
      <4>1. \A r \in Roots : r # target => archive'[r] = archive[r]
        BY <1>0, <2>3 DEF BackupsTypeOK, StoreTypes
      <4> QED BY <2>3, <4>1 DEF Kept
    <3> QED BY <1>18, <2>1, <2>3, <3>1 DEF Making, StatusStays
  <2> QED BY <1>19, <2>2, <2>3 DEF CopyStorage
<1>20. ASSUME RemoveStorage(w) PROVE Undisturbed(v)'
  <2>1. /\ at[w] = "remove" /\ at'[w] = "release" /\ UNCHANGED <<live, aside, server, saving, status>>
        /\ \A r \in Roots, c \in Ids : r # root[w] => archive'[r][c] = archive[r][c]
    BY <1>0, <1>20 DEF RemoveStorage, BackupsTypeOK, StoreTypes
  <2>2. /\ source[w] \in Roots /\ source[w] # root[w]
        /\ \A c \in Ids : status[c] # "none" => archive[source[w]][c] = archive[root[w]][c]
    BY <1>0, <2>1 DEF Moves
  <2>3. \A c \in Ids : \A x : status[c] # "none" /\ Kept(c, x) => Kept(c, x)'
    BY <2>1, <2>2 DEF Kept
  <2> QED BY <1>18, <2>1, <2>3 DEF Making, StatusStays
<1> HIDE DEF Is, Go
<1> QED BY <1>5, <1>6, <1>7, <1>8, <1>10, <1>12, <1>13, <1>14, <1>15, <1>16, <1>17, <1>19, <1>20
       DEF Acts, Works

\* What a step of an undisturbed worker is to itself.
LEMMA OwnUndisturbed ==
    ASSUME CopyInv, LockInv', BackupsTypeOK', NEW w \in Workers, Works(w), w \notin disturbed, at'[w] # "idle"
    PROVE  Undisturbed(w)'
<1> USE DEF Is, Go, workVars, storeVars, worldVars, panelVars, ghostVars
<1>0. /\ StorageInv /\ BackupsTypeOK /\ LockInv /\ Undisturbed(w) /\ Places(w) /\ Places(w)' /\ Makes(w)
      /\ task[w] \in Tasks /\ mine[w] \in Ids \cup {Gone} /\ root[w] \in Roots
  BY DEF CopyInv, StorageInv, Stored, LockInv, BackupsTypeOK, WorkTypes
<1>1. mine[w] # Gone => mine[w] \in Ids /\ status[mine[w]] # "none" /\ Apart(w)
  BY <1>0 DEF Undisturbed
<1>2. \A v \in Workers \ {w} : Stands(v)
  BY <1>0, OthersStand DEF Acts
<1>3. mine' = mine => (Apart(w) => Apart(w)')
  BY <1>2 DEF Apart, Stands
\* The world and the verified copy stay while the worker goes on.
<1>4. ASSUME UNCHANGED <<task, mine, status, archive, live, aside, server>>, saving' => saving,
             at'[w] \in {"copy", "switch", "remove", "release", "begin", "check"},
             at'[w] = "check" /\ task[w] = "restore" =>
                 mine[w] # Gone /\ status[mine[w]] = "verified" /\ Kept(mine[w], World)
      PROVE  Undisturbed(w)'
  <2>1. World' = World /\ \A c, x : Kept(c, x) => Kept(c, x)'
    BY <1>4 DEF World, Kept
  <2> QED BY <1>0, <1>1, <1>3, <1>4, <2>1 DEF Undisturbed
<1>5. ASSUME AcquireOpLock(w) PROVE Undisturbed(w)'
  <2>1. /\ at'[w] \in {"copy", "begin", "release"} \/ (at'[w] = "check" /\ task[w] = "unsafe restore")
        /\ UNCHANGED <<task, mine, status, archive, live, aside, server, saving>>
    BY <1>0, <1>5 DEF AcquireOpLock, BackupsTypeOK, WorkTypes
  <2> QED BY <1>4, <2>1
<1>6. ASSUME Prepare(w) PROVE Undisturbed(w)'
  <2>1. /\ at[w] = "begin" /\ mine[w] = Gone /\ UNCHANGED <<task, archive, live, aside, server>>
        /\ saving' = (saving /\ ~(task[w] = "online" /\ server))
        /\ \/ at'[w] = "savings" /\ mine' = mine
           \/ \E b \in Ids : /\ at'[w] = "read" /\ mine'[w] = b
                             /\ status' = [status EXCEPT ![b] = "unverified"]
    BY <1>0, <1>6 DEF Prepare, Places, BackupsTypeOK, WorkTypes
  <2>2. Apart(w)'
    <3>1. ASSUME NEW v \in Workers \ {w} PROVE at'[v] \notin Making
      BY <1>0, <1>2, <2>1, OneLocked DEF Locked, Stands
    <3> QED BY <3>1 DEF Apart
  <2>3. CASE at'[w] = "savings" /\ mine' = mine
    BY <1>0, <2>1, <2>3 DEF Undisturbed
  <2>4. CASE at'[w] = "read" /\ \E b \in Ids : mine'[w] = b /\ status' = [status EXCEPT ![b] = "unverified"]
    <3>1. mine'[w] \in Ids /\ status'[mine'[w]] = "unverified"
      BY <1>0, <2>4 DEF BackupsTypeOK, StoreTypes
    <3> QED BY <1>0, <2>1, <2>2, <2>4, <3>1 DEF Undisturbed
  <2> QED BY <2>1, <2>3, <2>4
<1>7. ASSUME ReadWorld(w) PROVE Undisturbed(w)'
  <2>1. /\ at[w] = "read" /\ at'[w] = "reading" /\ image'[w] = World /\ World' = World
        /\ UNCHANGED <<task, mine, status, server, saving>>
    BY <1>0, <1>7 DEF ReadWorld, World, BackupsTypeOK, WorkTypes
  <2> QED BY <1>0, <1>1, <1>3, <2>1 DEF Undisturbed
<1>8. ASSUME at[w] \in Making, UNCHANGED <<task, mine, server>>, at'[w] = "savings",
             status' = status \/ Mark(w, "failed")
      PROVE  Undisturbed(w)'
  <2>1. mine[w] # Gone => status'[mine[w]] # "none" /\ status'[mine[w]] # "verified"
    BY <1>0, <1>1, <1>8 DEF Mark, Makes, BackupsTypeOK, StoreTypes, Statuses
  <2> QED BY <1>0, <1>1, <1>3, <1>8, <2>1 DEF Undisturbed
<1>9. ASSUME ReadRest(w) PROVE Undisturbed(w)'
  <2>1. at[w] \in Making /\ UNCHANGED <<task, mine, archive, live, aside, server, saving>>
    BY <1>9 DEF ReadRest, Making
  <2>2. CASE Mark(w, "failed") /\ at' = [at EXCEPT ![w] = "savings"]
    BY <1>0, <1>8, <2>1, <2>2 DEF BackupsTypeOK, WorkTypes
  <2>3. CASE /\ at[w] = "reading" /\ at' = [at EXCEPT ![w] = "verify"] /\ status' = status
             /\ image' = [image EXCEPT ![w] = IF World = image[w] THEN image[w] ELSE Torn]
    <3>1. at'[w] = "verify" /\ image'[w] = World /\ World' = World
      BY <1>0, <2>1, <2>3 DEF World, Undisturbed, BackupsTypeOK, WorkTypes
    <3> QED BY <1>0, <1>1, <1>3, <2>1, <2>3, <3>1 DEF Undisturbed
  <2> QED BY <1>9, <2>2, <2>3 DEF ReadRest
<1>10. ASSUME Verify(w) PROVE Undisturbed(w)'
  <2>1. at[w] = "verify" /\ UNCHANGED <<task, mine, live, aside, server, saving>>
    BY <1>10 DEF Verify
  <2>2. CASE /\ at' = [at EXCEPT ![w] = "savings"]
             /\ Mark(w, "failed") \/ status' = status
    BY <1>0, <1>8, <2>1, <2>2 DEF BackupsTypeOK, WorkTypes, Making
  <2>3. CASE /\ archive' = [archive EXCEPT ![root[w]][mine[w]] = image[w]]
             /\ at' = [at EXCEPT ![w] = "record"] /\ status' = status
    <3>1. at'[w] = "record" /\ World' = World
      BY <1>0, <2>1, <2>3 DEF World, BackupsTypeOK, WorkTypes
    <3>2. mine[w] \in Ids /\ image[w] # Gone /\ archive'[root[w]][mine[w]] = image[w]
      BY <1>0, <2>1, <2>3 DEF Makes, Making, BackupsTypeOK, StoreTypes
    <3>3. task[w] = "restore" => Kept(mine[w], World)'
      BY <1>0, <2>1, <3>1, <3>2 DEF Kept, Undisturbed
    <3> QED BY <1>0, <1>1, <1>3, <2>1, <2>3, <3>1, <3>3 DEF Undisturbed
  <2> QED BY <1>10, <2>2, <2>3 DEF Verify
<1>11. ASSUME Record(w) \/ SaveOn(w) PROVE Undisturbed(w)'
  <2>1. /\ \/ at[w] = "record" /\ at'[w] = "savings" /\ Mark(w, "verified")
           \/ at[w] = "savings" /\ at'[w] \in {"decide", "release"} /\ status' = status
        /\ UNCHANGED <<task, mine, archive, live, aside, server>>
    BY <1>0, <1>11 DEF Record, SaveOn, BackupsTypeOK, WorkTypes
  <2>2. World' = World /\ \A c, x : Kept(c, x) => Kept(c, x)'
    BY <2>1 DEF World, Kept
  <2>3. mine[w] # Gone => /\ status'[mine[w]] # "none"
                          /\ at[w] = "savings" => status'[mine[w]] = status[mine[w]]
    BY <1>1, <2>1, <1>0 DEF Mark, BackupsTypeOK, StoreTypes
  <2> QED BY <1>0, <1>1, <1>3, <2>1, <2>2, <2>3 DEF Undisturbed
<1>12. ASSUME Decide(w) PROVE Undisturbed(w)'
  <2>1. /\ at[w] = "decide" /\ UNCHANGED <<task, mine, status, archive, live, aside, server, saving>>
        /\ \/ at'[w] = "check" /\ mine[w] # Gone /\ status[mine[w]] = "verified"
           \/ at'[w] = "release"
    BY <1>0, <1>12 DEF Decide, BackupsTypeOK, WorkTypes
  <2> QED BY <1>0, <1>4, <2>1 DEF Undisturbed
<1>13. ASSUME CheckArchive(w) PROVE Undisturbed(w)'
  <2>1. /\ at[w] = "check" /\ at'[w] \in {"aside", "release"}
        /\ UNCHANGED <<task, mine, archive, live, aside, server, saving>>
        /\ status' = status \/ Rechecked(source[w], root[w])
    BY <1>0, <1>13 DEF CheckArchive, BackupsTypeOK, WorkTypes
  <2>2. World' = World /\ \A c, x : Kept(c, x) => Kept(c, x)'
    BY <2>1 DEF World, Kept
  <2>3. \A c \in Ids : StatusStays(c)
    BY <1>0, <2>1, RecheckedKeeps DEF StatusStays
  <2> QED BY <1>0, <1>1, <1>3, <2>1, <2>2, <2>3 DEF Undisturbed, StatusStays
<1>14. ASSUME SetAside(w) PROVE Undisturbed(w)'
  <2>1. /\ at[w] = "aside" /\ UNCHANGED <<task, mine, status, archive, server, saving>>
        /\ \/ at'[w] = "place" /\ live # Gone /\ aside' = live
           \/ at'[w] = "place" /\ aside' = Gone
           \/ at'[w] = "release"
    BY <1>0, <1>14 DEF SetAside, BackupsTypeOK, WorkTypes
  <2>2. live # Gone => World = live
    BY DEF World
  <2>3. \A c, x : Kept(c, x) => Kept(c, x)'
    BY <2>1 DEF Kept
  <2> QED BY <1>0, <1>1, <1>3, <2>1, <2>2, <2>3 DEF Undisturbed
<1>15. ASSUME Place(w) PROVE Undisturbed(w)'
  <2>1. /\ at[w] = "place" /\ at'[w] = "release" /\ UNCHANGED <<task, mine, status, server, saving>>
    BY <1>0, <1>15 DEF Place, BackupsTypeOK, WorkTypes
  <2> QED BY <1>0, <1>1, <1>3, <2>1 DEF Undisturbed
<1>16. ASSUME CopyStorage(w) \/ SwitchStorage(w) \/ RemoveStorage(w) PROVE Undisturbed(w)'
  <2>1. /\ at'[w] \in {"switch", "remove", "release"} /\ UNCHANGED <<task, mine, server, saving>>
        /\ at[w] \in {"copy", "switch", "remove"}
        /\ status' = status \/ \E b \in Ids : Rechecked(b, root[w])
    BY <1>0, <1>16 DEF CopyStorage, SwitchStorage, RemoveStorage, BackupsTypeOK, WorkTypes
  <2>2. \A c \in Ids : StatusStays(c)
    BY <1>0, <2>1, RecheckedKeeps DEF StatusStays
  <2>3. task[w] = "move"
    BY <1>0, <2>1 DEF Places
  <2> QED BY <1>0, <1>1, <1>3, <2>1, <2>2, <2>3 DEF Undisturbed, StatusStays
<1>17. ASSUME ReleaseOpLock(w) PROVE FALSE
  BY <1>0, <1>17 DEF ReleaseOpLock, Forget
<1> HIDE DEF Is, Go
<1> QED BY <1>5, <1>6, <1>7, <1>9, <1>10, <1>11, <1>12, <1>13, <1>14, <1>15, <1>16, <1>17 DEF Works

\* A task begins with the mode that is right.
LEMMA BegunUndisturbed ==
    ASSUME BackupsTypeOK, LockInv, NEW w \in Workers,
           BeginBackup(w) \/ BeginMove(w)
             \/ \E b \in Ids, t \in {"restore", "unsafe restore"} : BeginRestore(w, b, t)
    PROVE  Undisturbed(w)'
<1>1. /\ at[w] = "idle" /\ at'[w] = "acquire" /\ mine' = mine /\ server' = server
      /\ task'[w] \in {"offline", "restore"} => ~server
      /\ task'[w] = "online" => server
  BY DEF BeginBackup, BeginMove, BeginRestore, BeginTask, Is, Go, worldVars, BackupsTypeOK, WorkTypes
<1>2. mine[w] = Gone
  BY <1>1 DEF LockInv, Places
<1> QED BY <1>1, <1>2 DEF Undisturbed

LEMMA CopyStep == CopyInv /\ [BackupsNext]_backupVars => \A v \in Workers \ disturbed' : Undisturbed(v)'
<1> SUFFICES ASSUME CopyInv, [BackupsNext]_backupVars, NEW v \in Workers, v \notin disturbed'
             PROVE  Undisturbed(v)'
  OBVIOUS
<1> USE DEF workVars, storeVars, worldVars, panelVars, ghostVars
<1>0. StorageInv /\ BackupsTypeOK /\ LockInv /\ BackupsTypeOK' /\ LockInv'
  BY BackupsTypeStep, LockStep DEF CopyInv, StorageInv
<1>1. CASE at'[v] = "idle"
  BY <1>0, <1>1, IdleIsUndisturbed
<1>2. ASSUME at'[v] # "idle", Acts(v) PROVE Undisturbed(v)'
  <2>1. CASE BeginBackup(v) \/ BeginMove(v)
             \/ \E b \in Ids, t \in {"restore", "unsafe restore"} : BeginRestore(v, b, t)
    BY <1>0, <2>1, BegunUndisturbed
  <2>2. CASE LoadConfig(v) \/ CommandDies(v)
    BY <1>2, <2>2 DEF LoadConfig, Is, CommandDies, Dies, Forget
  <2>3. CASE Works(v)
    <3>1. ASSUME AcquireOpLock(v) \/ Prepare(v) \/ ReadWorld(v) \/ ReadRest(v) \/ Verify(v) \/ Record(v)
          PROVE  disturbed' = disturbed
      BY <3>1 DEF AcquireOpLock, Prepare, ReadWorld, ReadRest, Verify, Record
    <3>2. ASSUME SaveOn(v) \/ Decide(v) \/ CheckArchive(v) \/ CopyStorage(v) \/ SwitchStorage(v) \/ RemoveStorage(v)
          PROVE  disturbed' = disturbed
      BY <3>2 DEF SaveOn, Decide, CheckArchive, CopyStorage, SwitchStorage, RemoveStorage
    <3>3. ASSUME SetAside(v) \/ Place(v) PROVE disturbed \subseteq disturbed'
      BY <3>3 DEF SetAside, Place, Disturbs
    <3>4. ~ReleaseOpLock(v)
      BY <1>2 DEF ReleaseOpLock, Forget
    <3>5. v \notin disturbed
      BY <2>3, <3>1, <3>2, <3>3, <3>4 DEF Works
    <3> QED BY <1>0, <1>2, <2>3, <3>5, OwnUndisturbed
  <2> QED BY <1>2, <2>1, <2>2, <2>3 DEF Acts
<1>3. ASSUME NEW w \in Workers, Acts(w) PROVE Undisturbed(v)'
  <2>1. CASE w # v
    BY <1>3, <2>1, OthersUndisturbed
  <2>2. CASE w = v
    BY <1>1, <1>2, <1>3, <2>2
  <2> QED BY <2>1, <2>2
\* Nobody is at a task in these.
<1>4. ASSUME UNCHANGED workVars, server' = server, v \notin disturbed,
             UNCHANGED <<live, aside>> \/ at[v] \in {"idle", "acquire", "begin", "read", "release"},
             saving' = saving,
             \A c \in Ids : c = mine[v] => StatusStays(c),
             \A c \in Ids : c = mine[v] => \A r \in Roots : archive'[r][c] = archive[r][c]
      PROVE  Undisturbed(v)'
  <2>1. Stands(v) /\ Undisturbed(v)
    BY <1>4 DEF Stands, CopyInv
  <2>2. mine[v] # Gone => Apart(v)'
    BY <1>4, <2>1 DEF Undisturbed, Apart
  <2>3. \A c \in Ids : c = mine[v] => \A x : Kept(c, x) => Kept(c, x)'
    BY <1>4 DEF Kept
  <2> QED BY <1>0, <1>4, <2>1, <2>2, <2>3, UndisturbedRests
<1>5. ASSUME NEW b \in Ids, Delete(b) PROVE Undisturbed(v)'
  <2>1. /\ UNCHANGED workVars /\ UNCHANGED worldVars /\ disturbed' = disturbed \cup {w \in Workers : mine[w] = b}
        /\ \A c \in Ids : c # b => status'[c] = status[c]
        /\ \A r \in Roots, c \in Ids : c # b => archive'[r][c] = archive[r][c]
    BY <1>0, <1>5 DEF Delete, BackupsTypeOK, WorkTypes, StoreTypes
  <2>2. mine[v] # b /\ v \notin disturbed
    BY <2>1
  <2> QED BY <1>4, <2>1, <2>2 DEF StatusStays
<1>6. ASSUME NEW b \in Ids, VerifyRequest(b) PROVE Undisturbed(v)'
  <2>1. /\ UNCHANGED workVars /\ UNCHANGED worldVars /\ disturbed' = disturbed /\ archive' = archive
        /\ \E r : Rechecked(b, r)
    BY <1>6 DEF VerifyRequest
  <2>2. \A c \in Ids : StatusStays(c)
    BY <1>0, <2>1, RecheckedKeeps
  <2> QED BY <1>4, <2>1, <2>2
<1>7. ASSUME ServerStarts \/ ServerStops PROVE at'[v] = "idle"
  BY <1>7 DEF ServerStarts, ServerStops, Reading
<1>8. CASE WorldChanges
  <2>1. /\ server /\ saving /\ UNCHANGED workVars /\ UNCHANGED storeVars /\ UNCHANGED ghostVars
        /\ server' = server /\ saving' = saving
    BY <1>8 DEF WorldChanges
  <2>2. at[v] \in {"idle", "acquire", "begin", "read", "release"} \/ (task[v] # "restore" /\ at[v] # "reading")
    <3>1. Undisturbed(v) /\ Places(v) /\ at[v] \in Steps
      BY <1>0, <2>1 DEF CopyInv, LockInv, BackupsTypeOK, WorkTypes
    <3> QED BY <2>1, <3>1 DEF Undisturbed, Places, Making
  <2>3. CASE at[v] \in {"idle", "acquire", "begin", "read", "release"}
    BY <1>4, <2>1, <2>3 DEF StatusStays
  <2>4. CASE task[v] # "restore" /\ at[v] # "reading"
    BY <2>1, <2>4 DEF CopyInv, Undisturbed, Apart
  <2> QED BY <2>2, <2>3, <2>4
<1>9. CASE PanelDies
  <2>1. CASE v \in Commands
    <3>1. /\ Stands(v) /\ v \notin disturbed /\ UNCHANGED storeVars /\ UNCHANGED worldVars
          /\ \A u \in Workers : at'[u] = "idle" \/ (at'[u] = at[u] /\ mine'[u] = mine[u])
      BY <1>0, <1>9, <2>1 DEF PanelDies, Dies, Forget, Stands, BackupsTypeOK, WorkTypes
    <3>2. Undisturbed(v) /\ mine'[v] = mine[v]
      BY <3>1 DEF CopyInv, Stands
    <3>3. mine[v] # Gone => Apart(v)'
      BY <3>1, <3>2 DEF Undisturbed, Apart, Making
    <3>4. \A c, x : Kept(c, x) => Kept(c, x)'
      BY <3>1 DEF Kept
    <3> QED BY <1>0, <3>1, <3>2, <3>3, <3>4, UndisturbedRests DEF StatusStays
  <2>2. CASE v \notin Commands
    BY <1>1, <1>9, <2>2 DEF PanelDies, Dies, Forget
  <2> QED BY <2>1, <2>2
<1>10. CASE PanelStarts
  <2>1. /\ UNCHANGED <<task, at, mine, image, status, archive, live, aside, server, saving, disturbed>>
    BY <1>10 DEF PanelStarts
  <2>2. World' = World /\ \A c, x : Kept(c, x) => Kept(c, x)'
    BY <2>1 DEF World, Kept
  <2> QED BY <2>1, <2>2 DEF CopyInv, Undisturbed, Apart
<1>11. CASE UNCHANGED backupVars
  BY <1>4, <1>11 DEF backupVars, StatusStays
<1> QED BY <1>1, <1>3, <1>5, <1>6, <1>7, <1>8, <1>9, <1>10, <1>11 DEF BackupsNext, Acts

LEMMA CopyInvHolds == BackupsSpec => []CopyInv
<1>1. BackupsInit => CopyInv
  BY BackupsStart DEF CopyInv, StorageInv, Stored, BackupsInit, VerifiedIsInStorage, Makes, Moves, Making,
     Undisturbed
<1>2. CopyInv /\ [BackupsNext]_backupVars => CopyInv'
  BY BackupsTypeStep, LockStep, StorageStep, CopyStep DEF CopyInv, StorageInv
<1> QED BY <1>1, <1>2, PTL DEF BackupsSpec

\* A restore that is replacing the world has a verified copy of what it replaces.
THEOREM SafetyCopyIsCurrentHolds == BackupsSpec => []SafetyCopyIsCurrent
<1>1. CopyInv => SafetyCopyIsCurrent
  BY DEF CopyInv, Undisturbed, SafetyCopyIsCurrent, Kept
<1> QED BY <1>1, CopyInvHolds, PTL

\* An archive that was read to its end holds one state of the world.
THEOREM ArchivesHoldOneStateHolds == BackupsSpec => ArchivesHoldOneState
<1>1. CopyInv /\ [BackupsNext]_backupVars =>
        [\A w \in Workers \ disturbed :
            at[w] = "reading" /\ at'[w] = "verify" => image'[w] = image[w]]_backupVars
  <2> SUFFICES ASSUME CopyInv, BackupsNext, NEW w \in Workers, w \notin disturbed,
                      at[w] = "reading", at'[w] = "verify"
               PROVE  image'[w] = image[w]
    OBVIOUS
  <2> USE DEF workVars, storeVars, worldVars, panelVars, ghostVars
  <2>1. BackupsTypeOK /\ at \in [Workers -> Steps] /\ image \in [Workers -> Contents] /\ image[w] = World
    BY DEF CopyInv, StorageInv, BackupsTypeOK, WorkTypes, Undisturbed
  <2>2. ASSUME NEW v \in Workers, v # w, Acts(v) PROVE FALSE
    BY <2>1, <2>2, OthersStand DEF Stands
  <2>3. CASE Acts(w)
    <3>1. CASE ReadRest(w)
      BY <2>1, <3>1 DEF ReadRest, Go
    <3>2. CASE CommandDies(w)
      BY <3>2 DEF CommandDies, Dies, Forget
    <3>3. CASE \/ BeginBackup(w) \/ BeginMove(w) \/ LoadConfig(w)
               \/ \E b \in Ids, t \in {"restore", "unsafe restore"} : BeginRestore(w, b, t)
      BY <3>3 DEF BeginBackup, BeginMove, LoadConfig, BeginRestore, BeginTask, Is
    <3>4. CASE AcquireOpLock(w) \/ Prepare(w) \/ ReadWorld(w) \/ Verify(w) \/ Record(w) \/ SaveOn(w) \/ Decide(w)
      BY <3>4 DEF AcquireOpLock, Prepare, ReadWorld, Verify, Record, SaveOn, Decide, Is
    <3>5. CASE CheckArchive(w) \/ SetAside(w) \/ Place(w) \/ ReleaseOpLock(w) \/ CopyStorage(w)
               \/ SwitchStorage(w) \/ RemoveStorage(w)
      BY <3>5 DEF CheckArchive, SetAside, Place, ReleaseOpLock, CopyStorage, SwitchStorage, RemoveStorage, Is
    <3> QED BY <2>3, <3>1, <3>2, <3>3, <3>4, <3>5 DEF Acts, Works
  <2>4. ASSUME NEW b \in Ids, Delete(b) \/ VerifyRequest(b) PROVE FALSE
    BY <2>4 DEF Delete, VerifyRequest
  <2>5. CASE ServerStarts \/ ServerStops \/ WorldChanges \/ PanelStarts
    BY <2>5 DEF ServerStarts, ServerStops, WorldChanges, PanelStarts
  <2>6. CASE PanelDies
    BY <2>6 DEF PanelDies, Dies, Forget
  <2> QED BY <2>2, <2>3, <2>4, <2>5, <2>6 DEF BackupsNext, Acts
<1> QED BY <1>1, CopyInvHolds, PTL DEF BackupsSpec, ArchivesHoldOneState

-----------------------------------------------------------------------------
(* OpLock *)

\* Every variable keeps its type; the lock is one file.
THEOREM LockTypeCorrect == Spec => []TypeOK
<1>1. Init => TypeOK
  BY PidAssumption DEF Init, TypeOK, Lines
<1>2. TypeOK /\ [Next]_lockVars => TypeOK'
  <2> SUFFICES ASSUME TypeOK, [Next]_lockVars PROVE TypeOK'
    OBVIOUS
  <2> USE DEF TypeOK, Lines, Goto
  <2>1. ASSUME NEW a \in Agents, Begin(a) PROVE TypeOK'
    BY <2>1 DEF Begin
  <2>2. ASSUME NEW a \in Agents, Open(a) PROVE TypeOK'
    BY <2>2 DEF Open
  <2>3. ASSUME NEW a \in Agents, Write(a) PROVE TypeOK'
    <3>1. \A l \in lock : [l EXCEPT !.pid = PidOf[a]] \in [by : Agents, pid : Pids \cup {NoPid}]
      BY PidAssumption
    <3>2. lock' \subseteq [by : Agents, pid : Pids \cup {NoPid}]
      BY <2>3, <3>1 DEF Write
    <3>3. \A l, m \in lock' : l = m
      BY <2>3 DEF Write
    <3>4. pc' \in [Agents -> Lines] /\ UNCHANGED <<seen, attempt, dead>>
      BY <2>3 DEF Write
    <3> QED BY <3>2, <3>3, <3>4
  <2>4. ASSUME NEW a \in Agents, Read(a) PROVE TypeOK'
    BY <2>4 DEF Read
  <2>5. ASSUME NEW a \in Agents, Check(a) PROVE TypeOK'
    BY <2>5 DEF Check
  <2>6. ASSUME NEW a \in Agents, Remove(a) PROVE TypeOK'
    BY <2>6 DEF Remove
  <2>7. ASSUME NEW a \in Agents, Release(a) PROVE TypeOK'
    BY <2>7 DEF Release
  <2>8. ASSUME NEW a \in Agents, Inspect(a) PROVE TypeOK'
    BY <2>8 DEF Inspect
  <2>9. ASSUME NEW a \in Agents, Repair(a) PROVE TypeOK'
    BY <2>9 DEF Repair
  <2>10. ASSUME NEW p \in Pids, Die(p) PROVE TypeOK'
    BY <2>10 DEF Die
  <2>11. CASE UNCHANGED lockVars
    BY <2>11 DEF lockVars
  <2> QED BY <2>1, <2>2, <2>3, <2>4, <2>5, <2>6, <2>7, <2>8, <2>9, <2>10, <2>11
             DEF Next, Acquire
<1> QED BY <1>1, <1>2, PTL DEF Spec

\* ExclusiveUntilADeath and NoLeftover are inductive together: the file is
\* absent or the one owner's, so nobody can create it, and no agent has read a
\* dead PID.
Exclusive == ExclusiveUntilADeath /\ NoLeftover

\* Every step but a death keeps it: Acquire's four system calls, the release,
\* and doctor's look at the lock and removal of it.
LEMMA ExclusiveStep == TypeOK /\ Exclusive /\ [Next]_lockVars => Exclusive'
<1> SUFFICES ASSUME TypeOK, Exclusive, [Next]_lockVars, dead' = {} PROVE Exclusive'
  BY DEF Exclusive, ExclusiveUntilADeath, NoLeftover
<1>1. dead = {}
  BY DEF Next, Begin, Acquire, Open, Write, Read, Check, Remove, Release, Inspect, Repair,
         Die, lockVars
<1> USE <1>1 DEF Exclusive, ExclusiveUntilADeath, NoLeftover, Owners, TypeOK, At, Goto, Absent
<1>2. ASSUME NEW a \in Agents, Begin(a) PROVE Exclusive'
  BY <1>2 DEF Begin
<1>3. ASSUME NEW a \in Agents, Open(a) PROVE Exclusive'
  <2>1. CASE Absent
    <3>1. Owners = {} /\ lock' = {[by |-> a, pid |-> NoPid]}
      BY <1>3, <2>1 DEF Open
    <3>2. Owners' = {a}
      BY <1>3, <2>1, <3>1 DEF Open
    <3> QED BY <1>3, <2>1, <3>1, <3>2 DEF Open
  <2>2. CASE ~Absent
    BY <1>3, <2>2 DEF Open
  <2> QED BY <2>1, <2>2
<1>4. ASSUME NEW a \in Agents, Write(a) PROVE Exclusive'
  <2>1. Owners' = Owners /\ a \in Owners
    BY <1>4 DEF Write
  <2>2. \A l \in lock : l.by = a
    BY <2>1
  <2>3. lock' = {[l EXCEPT !.pid = PidOf[a]] : l \in lock}
    BY <1>4, <2>2 DEF Write
  <2>4. \A l \in lock' : l.by = a
    BY <2>2, <2>3
  <2>5. \E l \in lock' : l.by = a
    <3>1. PICK l \in lock : l.by = a
      BY <2>1
    <3>2. [l EXCEPT !.pid = PidOf[a]] \in lock'
      BY <2>3
    <3> QED BY <2>4, <3>2
  <2> QED BY <1>4, <2>1, <2>4, <2>5 DEF Write
<1>5. ASSUME NEW a \in Agents, Read(a) PROVE Exclusive'
  BY <1>5 DEF Read
<1>6. ASSUME NEW a \in Agents, Check(a) PROVE Exclusive'
  BY <1>6 DEF Check, VerifiedStale
<1>7. ASSUME NEW a \in Agents, Remove(a) PROVE Exclusive'
  BY <1>7 DEF Remove
<1>8. ASSUME NEW a \in Agents, Release(a) PROVE Exclusive'
  BY <1>8 DEF Release
<1>9. ASSUME NEW a \in Agents, Inspect(a) PROVE Exclusive'
  BY <1>9 DEF Inspect, VerifiedStale
<1>10. ASSUME NEW a \in Agents, Repair(a) PROVE Exclusive'
  BY <1>10 DEF Repair
<1>11. ASSUME NEW p \in Pids, Die(p) PROVE Exclusive'
  BY <1>11 DEF Die
<1>12. CASE UNCHANGED lockVars
  BY <1>12 DEF lockVars
<1> QED BY <1>2, <1>3, <1>4, <1>5, <1>6, <1>7, <1>8, <1>9, <1>10, <1>11, <1>12
           DEF Next, Acquire

\* While no process has died, at most one operation runs under the lock and
\* its file stays, however many agents race for it.
THEOREM ExclusiveHolds == Spec => []ExclusiveUntilADeath
<1>1. Init => Exclusive
  BY DEF Init, Exclusive, ExclusiveUntilADeath, NoLeftover, Owners
<1>2. Exclusive => ExclusiveUntilADeath
  BY DEF Exclusive
<1> QED BY <1>1, <1>2, ExclusiveStep, LockTypeCorrect, PTL DEF Spec

\* While no process has died, no lock outlives its operation.
THEOREM NoLeftoverHolds == Spec => []NoLeftover
<1>1. Init => Exclusive
  BY DEF Init, Exclusive, ExclusiveUntilADeath, NoLeftover, Owners
<1>2. Exclusive => NoLeftover
  BY DEF Exclusive
<1> QED BY <1>1, <1>2, ExclusiveStep, LockTypeCorrect, PTL DEF Spec

-----------------------------------------------------------------------------
(* Playit *)

\* The requests that hold playitMu and know a tunnel, or are about to.
Handling == {"unlink", "exchange", "create", "port", "sync", "save"}

\* The tunnels that exist and whose identifier was not lost.
Tracked == account \ untracked

PlayitTypes ==
    /\ settings \in [enabled : BOOLEAN, mode : {"none", "external", "bonghos"}, linked : BOOLEAN,
                     tunnel : 0..MaxTunnels, claim : BOOLEAN]
    /\ holder \in [at : Handling \cup {"free", "reconcile"}, tunnel : 0..MaxTunnels]
    /\ refresh \in 0..MaxTunnels /\ account \subseteq 1..MaxTunnels
    /\ untracked \subseteq 0..MaxTunnels

\* The row names no other tracked tunnel than the request in progress does: the
\* one that is to be deleted, or the one that is to be saved over it.
HolderInv ==
    /\ holder.at \in {"free", "reconcile", "exchange", "create"} => holder.tunnel = NoTunnel
    /\ holder.at \in Handling /\ settings.tunnel \in Tracked => settings.tunnel = holder.tunnel
    /\ ~settings.linked => /\ settings.tunnel = NoTunnel /\ refresh = NoTunnel
                           /\ holder.at \notin Handling \ {"exchange"}
TunnelInv == PlayitTypes /\ HolderInv /\ TunnelsAreKnown

\* A tunnel made now is new: there is one more identifier than the provider has
\* tunnels.
LEMMA NewTunnelIsNew ==
    ASSUME PlayitTypes
    PROVE  NewTunnel \notin account \cup untracked /\ NewTunnel \notin {settings.tunnel, refresh}
           /\ NewTunnel \in 1..(MaxTunnels + 1)
<1>1. MaxTunnels + 1 \notin account \cup untracked /\ MaxTunnels + 1 \notin {settings.tunnel, refresh}
      /\ MaxTunnels + 1 \in 1..(MaxTunnels + 1)
  BY PlayitAssumption DEF PlayitTypes
<1> QED BY <1>1 DEF NewTunnel

\* A request that takes the lock with the tunnel of the row keeps the invariant.
LEMMA TunnelTaken ==
    ASSUME PlayitTypes, HolderInv, TunnelsAreKnown, NEW to \in Handling,
           UNCHANGED <<settings, refresh, account, untracked>>, settings.linked,
           to \in {"exchange", "create"} => settings.tunnel = NoTunnel, holder.at = "free",
           holder' = [at |-> to, tunnel |-> settings.tunnel]
    PROVE  TunnelInv'
<1>1. holder'.at = to /\ holder'.tunnel = settings.tunnel /\ to # "free" /\ to # "reconcile"
  BY DEF Handling
<1>2. settings.tunnel \in 0..MaxTunnels
  BY DEF PlayitTypes
<1>3. PlayitTypes'
  <2>1. holder' \in [at : Handling \cup {"free", "reconcile"}, tunnel : 0..MaxTunnels]
    BY <1>2
  <2> QED BY <2>1 DEF PlayitTypes
<1>4. HolderInv'
  <2>1. settings'.linked /\ settings'.tunnel = settings.tunnel
    OBVIOUS
  <2>2. holder'.at \in {"free", "reconcile", "exchange", "create"} => holder'.tunnel = NoTunnel
    BY <1>1
  <2>3. settings'.tunnel = holder'.tunnel
    BY <1>1, <2>1
  <2> QED BY <2>1, <2>2, <2>3 DEF HolderInv
<1>5. TunnelsAreKnown'
  BY <1>1 DEF TunnelsAreKnown
<1> QED BY <1>3, <1>4, <1>5 DEF TunnelInv

LEMMA TunnelInvHolds == PlayitSpec => []TunnelInv
<1> USE PlayitAssumption DEF NoTunnel, Unlocked, agentVars, MoveTo, Finish
<1>1. PlayitInit => TunnelInv
  BY DEF PlayitInit, TunnelInv, PlayitTypes, HolderInv, TunnelsAreKnown, NoHolder, Handling, Tracked
<1>2. TunnelInv /\ [PlayitNext]_playitVars => TunnelInv'
  <2> SUFFICES ASSUME TunnelInv, [PlayitNext]_playitVars PROVE TunnelInv'
    OBVIOUS
  <2>0. PlayitTypes /\ HolderInv /\ TunnelsAreKnown
    BY DEF TunnelInv
  <2> USE DEF Handling, Tracked
  <2>1. ASSUME UNCHANGED <<settings, holder, refresh, account, untracked>> PROVE TunnelInv'
    BY <2>0, <2>1 DEF TunnelInv, PlayitTypes, HolderInv, TunnelsAreKnown
  <2>2. CASE ForegroundLoop \/ cmdPlayitAgent \/ bootPlayit
    BY <2>1, <2>2 DEF ForegroundLoop, cmdPlayitAgent, bootPlayit
  <2>3. CASE PlayitUpdate
    <3>1. PlayitTypes'
      BY <2>0, <2>3 DEF PlayitUpdate, SaveExternalConfig, SetPreference, LockFree, NoHolder, PlayitTypes
    <3>2. HolderInv'
      BY <2>0, <2>3 DEF PlayitUpdate, SaveExternalConfig, SetPreference, LockFree, NoHolder, PlayitTypes, HolderInv, TunnelsAreKnown
    <3>3. TunnelsAreKnown'
      BY <2>0, <2>3 DEF PlayitUpdate, SaveExternalConfig, SetPreference, LockFree, NoHolder, PlayitTypes, HolderInv, TunnelsAreKnown
    <3> QED BY <3>1, <3>2, <3>3 DEF TunnelInv
  <2>4. CASE Reconcile
    <3>1. PlayitTypes'
      BY <2>0, <2>4 DEF Reconcile, NoHolder, PlayitTypes
    <3>2. HolderInv'
      BY <2>0, <2>4 DEF Reconcile, NoHolder, PlayitTypes, HolderInv, TunnelsAreKnown
    <3>3. TunnelsAreKnown'
      BY <2>0, <2>4 DEF Reconcile, NoHolder, PlayitTypes, HolderInv, TunnelsAreKnown
    <3> QED BY <3>1, <3>2, <3>3 DEF TunnelInv
  <2>5. CASE PlayitClaimStart
    <3>1. PlayitTypes'
      BY <2>0, <2>5 DEF PlayitClaimStart, BeginClaim, PlayitTypes
    <3>2. HolderInv'
      BY <2>0, <2>5 DEF PlayitClaimStart, BeginClaim, PlayitTypes, HolderInv, TunnelsAreKnown
    <3>3. TunnelsAreKnown'
      BY <2>0, <2>5 DEF PlayitClaimStart, BeginClaim, PlayitTypes, HolderInv, TunnelsAreKnown
    <3> QED BY <3>1, <3>2, <3>3 DEF TunnelInv
  <2>6. CASE ClaimEnds
    <3>1. PlayitTypes'
      BY <2>0, <2>6 DEF ClaimEnds, PlayitTypes
    <3>2. HolderInv'
      BY <2>0, <2>6 DEF ClaimEnds, PlayitTypes, HolderInv, TunnelsAreKnown
    <3>3. TunnelsAreKnown'
      BY <2>0, <2>6 DEF ClaimEnds, PlayitTypes, HolderInv, TunnelsAreKnown
    <3> QED BY <3>1, <3>2, <3>3 DEF TunnelInv
  <2>7. CASE PlayitClaimPoll
    <3>1. /\ UNCHANGED <<settings, refresh, account, untracked>>
          /\ \/ settings.linked /\ holder' = [at |-> "unlink", tunnel |-> settings.tunnel]
             \/ /\ settings.tunnel = NoTunnel \/ ~settings.linked
                /\ holder' = [at |-> "exchange", tunnel |-> NoTunnel]
      BY <2>7 DEF PlayitClaimPoll
    <3>2. holder.at = "free"
      BY <2>7 DEF PlayitClaimPoll, LockFree, NoHolder
    <3>3. CASE settings.linked /\ holder' = [at |-> "unlink", tunnel |-> settings.tunnel]
      BY <2>0, <3>1, <3>2, <3>3, TunnelTaken
    <3>4. CASE /\ settings.tunnel = NoTunnel \/ ~settings.linked
               /\ holder' = [at |-> "exchange", tunnel |-> NoTunnel]
      <4>1. settings.tunnel = NoTunnel
        BY <2>0, <3>2, <3>4 DEF HolderInv
      <4> QED BY <2>0, <3>1, <3>2, <3>4, <4>1 DEF TunnelInv, PlayitTypes, HolderInv, TunnelsAreKnown
    <3> QED BY <3>1, <3>3, <3>4
  <2>8. CASE Relink
    <3>1. PlayitTypes'
      BY <2>0, <2>8 DEF Relink, DeleteTunnel, ClearTunnel, NoHolder, PlayitTypes
    <3>2. HolderInv'
      BY <2>0, <2>8 DEF Relink, DeleteTunnel, ClearTunnel, NoHolder, PlayitTypes, HolderInv, TunnelsAreKnown
    <3>3. TunnelsAreKnown'
      BY <2>0, <2>8 DEF Relink, DeleteTunnel, ClearTunnel, NoHolder, PlayitTypes, HolderInv, TunnelsAreKnown
    <3> QED BY <3>1, <3>2, <3>3 DEF TunnelInv
  <2>9. CASE CompleteClaim
    <3>1. CASE holder' = NoHolder /\ UNCHANGED <<settings, refresh, account, untracked>>
      <4>1. holder.at = "exchange"
        BY <2>9 DEF CompleteClaim
      <4>2. PlayitTypes'
        BY <2>0, <3>1 DEF PlayitTypes, NoHolder
      <4>3. HolderInv' /\ TunnelsAreKnown'
        BY <2>0, <3>1, <4>1 DEF HolderInv, TunnelsAreKnown, NoHolder
      <4> QED BY <4>2, <4>3 DEF TunnelInv
    <3>2. CASE /\ holder' = [at |-> "reconcile", tunnel |-> NoTunnel] /\ UNCHANGED <<refresh, account, untracked>>
               /\ settings' = [settings EXCEPT !.mode = "bonghos", !.linked = TRUE,
                                               !.tunnel = NoTunnel, !.claim = FALSE]
      <4>1. settings' = [enabled |-> settings.enabled, mode |-> "bonghos", linked |-> TRUE,
                         tunnel |-> NoTunnel, claim |-> FALSE]
        BY <2>0, <3>2 DEF PlayitTypes
      <4>2. holder.at = "exchange"
        BY <2>9 DEF CompleteClaim
      <4>3. PlayitTypes'
        <5>1. settings' \in [enabled : BOOLEAN, mode : {"none", "external", "bonghos"},
                              linked : BOOLEAN, tunnel : 0..MaxTunnels, claim : BOOLEAN]
          <6>1. settings.enabled \in BOOLEAN /\ 0 \in 0..MaxTunnels
            BY <2>0 DEF PlayitTypes
          <6> QED BY <4>1, <6>1
        <5>2. holder' \in [at : Handling \cup {"free", "reconcile"}, tunnel : 0..MaxTunnels]
          BY <3>2
        <5> QED BY <2>0, <3>2, <5>1, <5>2 DEF PlayitTypes
      <4>4. settings'.tunnel = NoTunnel /\ settings'.linked
        BY <4>1
      <4>5. HolderInv' /\ TunnelsAreKnown'
        BY <2>0, <3>2, <4>2, <4>4 DEF PlayitTypes, HolderInv, TunnelsAreKnown
      <4> QED BY <4>3, <4>5 DEF TunnelInv
    <3> QED BY <2>9, <3>1, <3>2 DEF CompleteClaim
  <2>10. CASE PlayitTunnelDelete
    <3>1. PlayitTypes'
      BY <2>0, <2>10 DEF PlayitTunnelDelete, DeleteTunnel, ClearTunnel, LockFree, NoHolder, PlayitTypes
    <3>2. HolderInv'
      BY <2>0, <2>10 DEF PlayitTunnelDelete, DeleteTunnel, ClearTunnel, LockFree, NoHolder, PlayitTypes, HolderInv, TunnelsAreKnown
    <3>3. TunnelsAreKnown'
      BY <2>0, <2>10 DEF PlayitTunnelDelete, DeleteTunnel, ClearTunnel, LockFree, NoHolder, PlayitTypes, HolderInv, TunnelsAreKnown
    <3> QED BY <3>1, <3>2, <3>3 DEF TunnelInv
  <2>11. CASE PlayitTunnel
    <3>1. /\ UNCHANGED <<settings, refresh, account, untracked>> /\ settings.linked
          /\ \/ settings.tunnel = NoTunnel /\ holder' = [at |-> "create", tunnel |-> settings.tunnel]
             \/ settings.tunnel # NoTunnel /\ holder' = [at |-> "port", tunnel |-> settings.tunnel]
      BY <2>11 DEF PlayitTunnel, ShouldRun
    <3>2. holder.at = "free"
      BY <2>11 DEF PlayitTunnel, LockFree, NoHolder
    <3> QED BY <2>0, <3>1, <3>2, TunnelTaken
  <2>12. CASE SyncPlayitTunnelPort
    <3>1. /\ UNCHANGED <<settings, refresh, account, untracked>> /\ settings.linked
          /\ holder' = [at |-> "sync", tunnel |-> settings.tunnel] /\ settings.tunnel # NoTunnel
      BY <2>12 DEF SyncPlayitTunnelPort, ShouldRun
    <3>2. holder.at = "free"
      BY <2>12 DEF SyncPlayitTunnelPort, LockFree, NoHolder
    <3> QED BY <2>0, <3>1, <3>2, TunnelTaken
  <2>13. CASE UpdateTunnelPort
    <3>1. PlayitTypes'
      BY <2>0, <2>13 DEF UpdateTunnelPort, ClearTunnel, NoHolder, PlayitTypes
    <3>2. HolderInv'
      BY <2>0, <2>13 DEF UpdateTunnelPort, ClearTunnel, NoHolder, PlayitTypes, HolderInv, TunnelsAreKnown
    <3>3. TunnelsAreKnown'
      BY <2>0, <2>13 DEF UpdateTunnelPort, ClearTunnel, NoHolder, PlayitTypes, HolderInv, TunnelsAreKnown
    <3> QED BY <3>1, <3>2, <3>3 DEF TunnelInv
  <2>14. CASE CreateMinecraftTunnel
    <3>1. PlayitTypes'
      <4>1. NewTunnel <= MaxTunnels => NewTunnel \in 1..MaxTunnels
        BY <2>0, NewTunnelIsNew
      <4>2. /\ UNCHANGED <<settings, refresh>>
            /\ account' = account \/ (NewTunnel <= MaxTunnels /\ account' = account \cup {NewTunnel})
            /\ untracked' = untracked \/ (NewTunnel <= MaxTunnels /\ untracked' = untracked \cup {NewTunnel})
            /\ \/ holder' = [at |-> "free", tunnel |-> NoTunnel]
               \/ NewTunnel <= MaxTunnels /\ holder' = [at |-> "save", tunnel |-> NewTunnel]
        BY <2>14 DEF CreateMinecraftTunnel, NoHolder
      <4>3. account' \subseteq 1..MaxTunnels /\ untracked' \subseteq 0..MaxTunnels
        <5>1. account \subseteq 1..MaxTunnels /\ untracked \subseteq 0..MaxTunnels
          BY <2>0 DEF PlayitTypes
        <5>2. NewTunnel <= MaxTunnels => NewTunnel \in 0..MaxTunnels
          BY <4>1
        <5>3. account' \subseteq 1..MaxTunnels
          BY <4>1, <4>2, <5>1
        <5>4. untracked' \subseteq 0..MaxTunnels
          BY <4>2, <5>1, <5>2
        <5> QED BY <5>3, <5>4
      <4>4. holder' \in [at : Handling \cup {"free", "reconcile"}, tunnel : 0..MaxTunnels]
        BY <4>1, <4>2
      <4> QED BY <2>0, <4>2, <4>3, <4>4 DEF PlayitTypes
    <3>2. HolderInv'
      <4>1. /\ holder.at = "create" /\ UNCHANGED <<settings, refresh>>
            /\ account' \subseteq account \cup {NewTunnel} /\ untracked \subseteq untracked'
            /\ \/ holder'.at = "free" /\ holder'.tunnel = NoTunnel
               \/ holder'.at = "save"
        BY <2>14 DEF CreateMinecraftTunnel, NoHolder
      <4>2. settings.linked /\ settings.tunnel \notin Tracked
        <5>1. NoTunnel \notin account
          BY <2>0 DEF PlayitTypes
        <5> QED BY <2>0, <4>1, <5>1 DEF HolderInv
      <4>3. settings'.tunnel \notin Tracked'
        BY <2>0, <4>1, <4>2, NewTunnelIsNew
      <4> QED BY <4>1, <4>2, <4>3 DEF HolderInv
    <3>3. TunnelsAreKnown'
      <4>1. holder.at = "create" /\ UNCHANGED settings
        BY <2>14 DEF CreateMinecraftTunnel
      <4>2. \A t \in account \ untracked : settings'.tunnel = t
        BY <2>0, <4>1 DEF TunnelsAreKnown
      <4>3. CASE UNCHANGED <<account, untracked>>
        BY <4>2, <4>3 DEF TunnelsAreKnown
      <4>4. CASE /\ account' = account \cup {NewTunnel} /\ UNCHANGED untracked
                 /\ holder' = [at |-> "save", tunnel |-> NewTunnel]
        BY <4>2, <4>4 DEF TunnelsAreKnown
      <4>5. CASE account' = account \cup {NewTunnel} /\ untracked' = untracked \cup {NewTunnel}
        BY <4>2, <4>5 DEF TunnelsAreKnown
      <4> QED BY <2>14, <4>3, <4>4, <4>5 DEF CreateMinecraftTunnel
    <3> QED BY <3>1, <3>2, <3>3 DEF TunnelInv
  <2>15. CASE TunnelSaved
    <3>1. PlayitTypes'
      BY <2>0, <2>15 DEF TunnelSaved, SaveTunnel, NoHolder, PlayitTypes
    <3>2. HolderInv'
      BY <2>0, <2>15 DEF TunnelSaved, SaveTunnel, NoHolder, PlayitTypes, HolderInv, TunnelsAreKnown
    <3>3. TunnelsAreKnown'
      BY <2>0, <2>15 DEF TunnelSaved, SaveTunnel, NoHolder, PlayitTypes, HolderInv, TunnelsAreKnown
    <3> QED BY <3>1, <3>2, <3>3 DEF TunnelInv
  <2>16. CASE PlayitRefresh
    <3>1. PlayitTypes'
      BY <2>0, <2>16 DEF PlayitRefresh, SaveTunnel, ShouldRun, PlayitTypes
    <3>2. HolderInv'
      BY <2>0, <2>16 DEF PlayitRefresh, SaveTunnel, ShouldRun, PlayitTypes, HolderInv, TunnelsAreKnown
    <3>3. TunnelsAreKnown'
      BY <2>0, <2>16 DEF PlayitRefresh, SaveTunnel, ShouldRun, PlayitTypes, HolderInv, TunnelsAreKnown
    <3> QED BY <3>1, <3>2, <3>3 DEF TunnelInv
  <2>17. CASE ProviderDeletes
    <3>1. PlayitTypes'
      BY <2>0, <2>17 DEF ProviderDeletes, PlayitTypes
    <3>2. HolderInv'
      BY <2>0, <2>17 DEF ProviderDeletes, PlayitTypes, HolderInv, TunnelsAreKnown
    <3>3. TunnelsAreKnown'
      BY <2>0, <2>17 DEF ProviderDeletes, PlayitTypes, HolderInv, TunnelsAreKnown
    <3> QED BY <3>1, <3>2, <3>3 DEF TunnelInv
  <2>18. CASE ControlPlaneDies
    <3>1. PlayitTypes'
      <4>1. holder.tunnel \in 0..MaxTunnels /\ 0 \in 0..MaxTunnels
        BY <2>0 DEF PlayitTypes
      <4>2. /\ UNCHANGED <<settings, account>> /\ holder' = NoHolder /\ refresh' = 0
            /\ untracked' = untracked \cup {holder.tunnel} \/ untracked' = untracked
        BY <2>18 DEF ControlPlaneDies
      <4> QED BY <2>0, <4>1, <4>2 DEF PlayitTypes, NoHolder
    <3>2. HolderInv'
      BY <2>0, <2>18 DEF ControlPlaneDies, NoHolder, PlayitTypes, HolderInv, TunnelsAreKnown
    <3>3. TunnelsAreKnown'
      BY <2>0, <2>18 DEF ControlPlaneDies, NoHolder, PlayitTypes, HolderInv, TunnelsAreKnown
    <3> QED BY <3>1, <3>2, <3>3 DEF TunnelInv
  <2>19. CASE UNCHANGED playitVars
    BY <2>1, <2>19 DEF playitVars
  <2> QED BY <2>2, <2>3, <2>4, <2>5, <2>6, <2>7, <2>8, <2>9, <2>10, <2>11, <2>12, <2>13, <2>14, <2>15, <2>16, <2>17, <2>18, <2>19 DEF PlayitNext
<1> QED BY <1>1, <1>2, PTL DEF PlayitSpec

\* A tunnel that exists is the one in the row or in the hands of a request,
\* whatever fails or dies in between.
THEOREM TunnelsAreKnownHolds == PlayitSpec => []TunnelsAreKnown
<1>1. TunnelInv => TunnelsAreKnown
  BY DEF TunnelInv
<1> QED BY <1>1, TunnelInvHolds, PTL

\* Without a request that has yet to stop it, an agent that is switched off has
\* stopped, from the moment bootPlayit has read the settings.
StoppedInv ==
    /\ boot \in {"read", "run", "stop", "done"} /\ files \in BOOLEAN /\ leftRunning \in BOOLEAN
    /\ holder.at # "reconcile" /\ boot \in {"run", "done"} /\ ~ShouldRun /\ ~leftRunning =>
         foreground = "off" /\ unit # "on" /\ ~files

\* Once a request has switched the agent off, none runs and its credential is gone.
THEOREM DisabledMeansStoppedHolds == PlayitSpec => []DisabledMeansStopped
<1> USE DEF Unlocked, agentVars, MoveTo, Finish, NoHolder
<1>1. PlayitInit => StoppedInv
  BY DEF PlayitInit, StoppedInv
<1>2. TunnelInv /\ StoppedInv /\ [PlayitNext]_playitVars => StoppedInv'
  <2> SUFFICES ASSUME PlayitTypes, StoppedInv, [PlayitNext]_playitVars PROVE StoppedInv'
    BY DEF TunnelInv
  <2> USE DEF PlayitTypes, StoppedInv, ShouldRun
  <2>1. CASE ForegroundLoop
    BY <2>1 DEF ForegroundLoop
  <2>2. CASE cmdPlayitAgent
    <3>1. UNCHANGED <<settings, holder, foreground, boot, leftRunning>>
      BY <2>2 DEF cmdPlayitAgent
    <3>2. CASE ShouldRun
      BY <2>2, <3>1, <3>2 DEF cmdPlayitAgent
    <3>3. CASE ~ShouldRun
      <4>1. ~ShouldRun' /\ unit' # "on" /\ files' \in {files, FALSE}
        <5>1. CASE unit = "checking" /\ unit' = "waiting" /\ files' = (files \/ ShouldRun)
          BY <3>1, <3>3, <5>1
        <5>2. CASE unit = "on" /\ unit' = "waiting" /\ files' = FALSE
          BY <3>1, <3>3, <5>2
        <5>3. CASE unit = "waiting" /\ unit' = "checking" /\ UNCHANGED files
          BY <3>1, <3>3, <5>3
        <5> QED BY <2>2, <3>3, <5>1, <5>2, <5>3 DEF cmdPlayitAgent
      <4>2. ~files => ~files'
        BY <4>1
      <4> QED BY <3>1, <3>3, <4>1, <4>2
    <3> QED BY <3>2, <3>3
  <2>3. CASE bootPlayit
    <3>1. UNCHANGED <<settings, holder>>
      BY <2>3 DEF bootPlayit
    <3>2. CASE boot = "read" /\ boot' = (IF ShouldRun THEN "run" ELSE "stop") /\ UNCHANGED agentVars
      BY <3>1, <3>2
    <3>3. CASE boot = "stop" /\ boot' = "done" /\ (StopManagedAgent \/ CannotStopService)
      BY <3>1, <3>3 DEF StopManagedAgent, CannotStopService, IsActive
    <3>4. CASE boot = "run" /\ boot' = "done" /\ UNCHANGED agentVars
      BY <3>1, <3>4
    <3>5. CASE /\ boot = "run" /\ boot' = "done" /\ StartManagedAgent(foreground, files)
               /\ leftRunning' = (leftRunning \/ ~ShouldRun)
      <4>1. files' \in BOOLEAN
        BY <3>5 DEF StartManagedAgent
      <4> QED BY <3>1, <3>5, <4>1
    <3> QED BY <2>3, <3>2, <3>3, <3>4, <3>5 DEF bootPlayit
  <2>4. CASE PlayitUpdate
    BY <2>4 DEF PlayitUpdate
  <2>5. CASE Reconcile
    <3>1. UNCHANGED <<settings, boot>> /\ holder'.at = "free" /\ reconcilePlayitService
      BY <2>5 DEF Reconcile
    <3>2. CASE ShouldRun
      <4>1. UNCHANGED leftRunning /\ ShouldRun'
        BY <3>1, <3>2 DEF reconcilePlayitService
      <4>2. files' \in BOOLEAN
        BY <3>1, <3>2 DEF reconcilePlayitService, StartManagedAgent
      <4> QED BY <3>1, <4>1, <4>2
    <3>3. CASE ~ShouldRun /\ StopManagedAgent
      BY <3>1, <3>3 DEF StopManagedAgent, IsActive
    <3>4. CASE ~ShouldRun /\ CannotStopService
      BY <3>1, <3>4 DEF CannotStopService
    <3> QED BY <3>1, <3>2, <3>3, <3>4 DEF reconcilePlayitService
  <2>6. CASE PlayitClaimStart
    BY <2>6 DEF PlayitClaimStart, BeginClaim, LockFree
  <2>7. CASE ClaimEnds
    BY <2>7 DEF ClaimEnds, LockFree
  <2>8. CASE PlayitClaimPoll
    BY <2>8 DEF PlayitClaimPoll, LockFree
  <2>9. CASE Relink
    BY <2>9 DEF Relink, DeleteTunnel, ClearTunnel
  <2>10. CASE CompleteClaim
    BY <2>10 DEF CompleteClaim
  <2>11. CASE PlayitTunnelDelete
    BY <2>11 DEF PlayitTunnelDelete, DeleteTunnel, ClearTunnel, LockFree
  <2>12. CASE PlayitTunnel
    BY <2>12 DEF PlayitTunnel, LockFree
  <2>13. CASE SyncPlayitTunnelPort
    BY <2>13 DEF SyncPlayitTunnelPort, LockFree
  <2>14. CASE UpdateTunnelPort
    BY <2>14 DEF UpdateTunnelPort, ClearTunnel
  <2>15. CASE CreateMinecraftTunnel
    BY <2>15 DEF CreateMinecraftTunnel
  <2>16. CASE TunnelSaved
    BY <2>16 DEF TunnelSaved, SaveTunnel
  <2>17. CASE PlayitRefresh
    BY <2>17 DEF PlayitRefresh, SaveTunnel
  <2>18. CASE ProviderDeletes
    BY <2>18 DEF ProviderDeletes
  <2>19. CASE ControlPlaneDies
    BY <2>19 DEF ControlPlaneDies
  <2>20. CASE UNCHANGED playitVars
    BY <2>20 DEF playitVars
  <2> HIDE DEF StoppedInv, Unlocked, Finish, MoveTo
  <2> QED BY <2>1, <2>2, <2>3, <2>4, <2>5, <2>6, <2>7, <2>8, <2>9, <2>10, <2>11, <2>12, <2>13, <2>14, <2>15, <2>16, <2>17, <2>18, <2>19, <2>20 DEF PlayitNext
<1>3. StoppedInv => DisabledMeansStopped
  BY DEF StoppedInv, DisabledMeansStopped, LockFree
<1> QED BY <1>1, <1>2, <1>3, TunnelInvHolds, PTL DEF PlayitSpec
=============================================================================
