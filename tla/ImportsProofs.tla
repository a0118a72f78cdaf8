---------------------------- MODULE ImportsProofs -----------------------------
(***************************************************************************)
(* Theorems about Imports, for any number of imports, slugs and deaths.    *)
(***************************************************************************)
EXTENDS Imports, TLAPS

USE DEF requestVars, deathVars

\* The steps of one import, and those of the rest of the control plane.
RequestStep(o) ==
    \E s \in Slugs :
        \/ handleImportUploadStart(o, s) \/ handleImportUpload(o, s) \/ handleImportURL(o, s)
        \/ handleImportLocal(o, s) \/ handleImportExisting(o, s) \/ ImportDirectoryCLI(o, s)
SessionStep(o) ==
    \/ \E part \in Parts : AppendChunk(o, part)
    \/ FinishUpload(o) \/ CancelLooks(o) \/ CancelActs(o) \/ Cancel(o)
OtherStep ==
    \/ \E s \in Slugs : DeleteProject(s) \/ Select(s)
    \/ OtherOperation \/ ControlPlaneDies \/ (\E o \in Ops : CommandDies(o)) \/ Restart

LEMMA NextSplits ==
    ImportsNext <=> (\E o \in Ops : RequestStep(o) \/ SessionStep(o) \/ Installing(o)) \/ OtherStep
BY DEF ImportsNext, RequestStep, SessionStep, OtherStep

\* A request is one of a kind that is asked for.
LEMMA RequestKind ==
    ASSUME NEW o \in Ops, NEW s \in Slugs,
           \/ handleImportUploadStart(o, s) \/ handleImportUpload(o, s) \/ handleImportURL(o, s)
           \/ handleImportLocal(o, s) \/ handleImportExisting(o, s) \/ ImportDirectoryCLI(o, s)
    PROVE  \E k \in Kinds :
             \/ Receives(o, k, s, "session") \/ Receives(o, k, s, "stream")
             \/ RefusedUpload(o, k, s) \/ BeginProject(o, k, s)
<1>1. \A k, line : Receives(o, k, s, line) => k \in Kinds
  BY DEF Receives, Request
<1>2. \A k : RefusedUpload(o, k, s) => k \in Kinds
  BY DEF RefusedUpload, Request
<1>3. \A k : BeginProject(o, k, s) => k \in Kinds
  BY DEF BeginProject, Request
<1> QED
  BY <1>1, <1>2, <1>3 DEF handleImportUploadStart, handleImportUpload, handleImportURL,
     handleImportLocal, handleImportExisting, ImportDirectoryCLI

-----------------------------------------------------------------------------
\* Every variable keeps its type.
THEOREM TypeCorrect == ImportsSpec => []ImportsTypeOK
<1> USE ImportsAssumption
<1>1. ImportsInit => ImportsTypeOK
  BY DEF ImportsInit, ImportsTypeOK, Jobs, Holders
<1>2. ImportsTypeOK /\ [ImportsNext]_importVars => ImportsTypeOK'
  <2> SUFFICES ASSUME ImportsTypeOK, [ImportsNext]_importVars PROVE ImportsTypeOK'
    OBVIOUS
  <2> USE DEF ImportsTypeOK, Jobs, Holders, Goto, SetStage, Fails, DropUpload
  <2>0. <<>> \in Seq(Parts) /\ <<1, 2>> \in Seq(Parts)
    BY DEF Parts
  <2>1. ASSUME NEW o \in Ops, RequestStep(o) PROVE ImportsTypeOK'
    <3>1. PICK s \in Slugs, k \in Kinds :
             \/ Receives(o, k, s, "session") \/ Receives(o, k, s, "stream")
             \/ RefusedUpload(o, k, s) \/ BeginProject(o, k, s)
      BY <2>1, RequestKind DEF RequestStep
    <3>2. CASE Receives(o, k, s, "session") \/ Receives(o, k, s, "stream")
      <4>1. upload' = [upload EXCEPT ![o] = <<>>]
        BY <3>2 DEF Receives
      <4>2. upload' \in [Ops -> Seq(Parts) \cup {Missing}]
        BY <2>0, <4>1
      <4>3. /\ kind' \in [Ops -> Kinds \cup {Missing}] /\ slug' \in [Ops -> Slugs \cup {Missing}]
            /\ job' \in [Ops -> Jobs]
        BY <3>2 DEF Receives, Request
      <4> QED BY <3>2, <4>2, <4>3 DEF Receives, Request
    <3>3. CASE RefusedUpload(o, k, s) BY <3>3 DEF RefusedUpload, Request
    <3>4. CASE BeginProject(o, k, s) BY <3>4 DEF BeginProject, Request, CreateProject
    <3> QED BY <3>1, <3>2, <3>3, <3>4
  <2>2. ASSUME NEW o \in Ops, SessionStep(o) PROVE ImportsTypeOK'
    <3>1. ASSUME NEW part \in Parts, AppendChunk(o, part) PROVE ImportsTypeOK'
      <4>1. upload[o] \in Seq(Parts) /\ Append(upload[o], part) \in Seq(Parts)
        BY <3>1 DEF AppendChunk
      <4> QED BY <3>1, <4>1 DEF AppendChunk
    <3>2. CASE FinishUpload(o) BY <3>2 DEF FinishUpload
    <3>3. CASE CancelLooks(o) BY <3>3 DEF CancelLooks
    <3>4. CASE CancelActs(o) BY <3>4 DEF CancelActs
    <3>5. CASE Cancel(o) BY <3>5 DEF Cancel
    <3> QED BY <2>2, <3>1, <3>2, <3>3, <3>4, <3>5 DEF SessionStep
  <2>3. ASSUME NEW o \in Ops, Installing(o) PROVE ImportsTypeOK'
    <3>1. CASE Stream(o)
      <4>1. upload' = [upload EXCEPT ![o] = <<1, 2>>] \/ upload' = [upload EXCEPT ![o] = Missing]
        BY <3>1 DEF Stream, Arrives
      <4>2. upload' \in [Ops -> Seq(Parts) \cup {Missing}]
        BY <2>0, <4>1
      <4> QED BY <3>1, <4>2 DEF Stream, Arrives
    <3>2. CASE ProjectAfterUpload(o)
      <4>1. upload' \in [Ops -> Seq(Parts) \cup {Missing}]
        BY <3>2 DEF ProjectAfterUpload
      <4>2. project' \in [Slugs -> Ops \cup {Missing}]
        BY <3>2 DEF ProjectAfterUpload, CreateProject
      <4>3. CASE CreateProject(o, slug[o]) /\ Goto(o, "acquire") /\ UNCHANGED <<stage, upload>>
        BY <3>2, <4>1, <4>2, <4>3 DEF ProjectAfterUpload
      <4>4. CASE Fails(o, "dead") /\ DropUpload(o) /\ UNCHANGED project
        BY <3>2, <4>1, <4>2, <4>4 DEF ProjectAfterUpload
      <4> QED BY <3>2, <4>3, <4>4 DEF ProjectAfterUpload
    <3>3. CASE Acquire(o) BY <3>3 DEF Acquire
    <3>4. CASE Extract(o) BY <3>4 DEF Extract
    <3>5. CASE Validate(o) BY <3>5 DEF Validate
    <3>6. CASE Move(o)
      <4>1. dest' \in [Slugs -> SUBSET (Ops \X Parts)]
        BY <3>6 DEF Move, Put, Whole, Parts
      <4> QED BY <3>6, <4>1 DEF Move
    <3>7. CASE CopyTree(o)
      <4>1. dest' \in [Slugs -> SUBSET (Ops \X Parts)]
        BY <3>7 DEF CopyTree, Put, Parts
      <4> QED BY <3>7, <4>1 DEF CopyTree
    <3>8. CASE Install(o) BY <3>8 DEF Install
    <3>9. CASE Activate(o) BY <3>9 DEF Activate
    <3>10. CASE Complete(o) BY <3>10 DEF Complete
    <3>11. CASE Cleanup(o) BY <3>11 DEF Cleanup
    <3> QED BY <2>3, <3>1, <3>2, <3>3, <3>4, <3>5, <3>6, <3>7, <3>8, <3>9, <3>10, <3>11
            DEF Installing
  <2>4. CASE OtherStep
    <3>1. ASSUME NEW s \in Slugs, DeleteProject(s) PROVE ImportsTypeOK'
      BY <3>1 DEF DeleteProject
    <3>2. ASSUME NEW s \in Slugs, Select(s) PROVE ImportsTypeOK'
      BY <3>2 DEF Select
    <3>3. CASE OtherOperation BY <3>3 DEF OtherOperation
    <3>4. CASE ControlPlaneDies
      <4>1. job' \in [Ops -> Jobs] /\ deaths' \in 0..MaxDeaths
        BY <3>4 DEF ControlPlaneDies, Dies
      <4> QED BY <3>4, <4>1 DEF ControlPlaneDies, Dies
    <3>5. ASSUME NEW o \in Ops, CommandDies(o) PROVE ImportsTypeOK'
      BY <3>5 DEF CommandDies, Dies
    <3>6. CASE Restart BY <3>6 DEF Restart
    <3> QED BY <2>4, <3>1, <3>2, <3>3, <3>4, <3>5, <3>6 DEF OtherStep
  <2>5. CASE UNCHANGED importVars
    BY <2>5 DEF importVars
  <2> QED BY <2>1, <2>2, <2>3, <2>4, <2>5, NextSplits
<1> QED BY <1>1, <1>2, PTL DEF ImportsSpec

-----------------------------------------------------------------------------
\* The file of a session holds its parts in their order: a chunk is taken only
\* where the file ends.
THEOREM UploadInOrderHolds == ImportsSpec => []UploadInOrder
<1>1. ImportsInit => UploadInOrder
  BY DEF ImportsInit, UploadInOrder
<1>2. ImportsTypeOK /\ UploadInOrder /\ [ImportsNext]_importVars => UploadInOrder'
  <2> SUFFICES ASSUME ImportsTypeOK, UploadInOrder, [ImportsNext]_importVars
               PROVE  UploadInOrder'
    OBVIOUS
  <2>0. upload \in [Ops -> Seq(Parts) \cup {Missing}]
    BY DEF ImportsTypeOK
  <2> USE DEF UploadInOrder, DropUpload
  <2>1. ASSUME NEW o \in Ops, RequestStep(o) PROVE UploadInOrder'
    <3>1. PICK s \in Slugs, k \in Kinds :
             \/ Receives(o, k, s, "session") \/ Receives(o, k, s, "stream")
             \/ RefusedUpload(o, k, s) \/ BeginProject(o, k, s)
      BY <2>1, RequestKind DEF RequestStep
    <3>2. upload' = upload \/ upload' = [upload EXCEPT ![o] = <<>>]
      BY <3>1 DEF Receives, RefusedUpload, BeginProject
    <3> QED BY <2>0, <3>2
  <2>2. ASSUME NEW o \in Ops, SessionStep(o) PROVE UploadInOrder'
    <3>1. ASSUME NEW part \in Parts, AppendChunk(o, part) PROVE UploadInOrder'
      <4>1. upload[o] \in Seq(Parts)
        BY <2>0, <3>1 DEF AppendChunk
      <4>2. /\ DOMAIN Append(upload[o], part) = 1..Len(upload[o]) + 1
            /\ \A i \in 1..Len(upload[o]) : Append(upload[o], part)[i] = upload[o][i]
            /\ Append(upload[o], part)[Len(upload[o]) + 1] = part
        BY <4>1
      <4>3. Len(upload[o]) \in Nat /\ part \in Nat /\ Len(upload[o]) = part - 1
        BY <3>1, <4>1 DEF AppendChunk, Parts
      <4>4. \A i \in DOMAIN Append(upload[o], part) : Append(upload[o], part)[i] = i
        BY <3>1, <4>1, <4>2, <4>3 DEF AppendChunk
      <4> QED BY <2>0, <3>1, <4>4 DEF AppendChunk
    <3>2. CASE CancelActs(o) BY <2>0, <3>2 DEF CancelActs
    <3>3. CASE FinishUpload(o) \/ CancelLooks(o) \/ Cancel(o)
      BY <3>3 DEF FinishUpload, CancelLooks, Cancel
    <3> QED BY <2>2, <3>1, <3>2, <3>3 DEF SessionStep
  <2>3. ASSUME NEW o \in Ops, Installing(o) PROVE UploadInOrder'
    <3>1. \/ upload' = upload \/ upload' = [upload EXCEPT ![o] = Missing]
          \/ upload' = [upload EXCEPT ![o] = <<1, 2>>]
      BY <2>3 DEF Installing, Stream, Arrives, ProjectAfterUpload, Acquire, Extract, Validate,
                  Move, CopyTree, Install, Activate, Complete, Cleanup
    <3> QED BY <2>0, <3>1
  <2>4. CASE OtherStep
    BY <2>4 DEF OtherStep, DeleteProject, Select, OtherOperation, ControlPlaneDies, CommandDies,
                Dies, Restart
  <2>5. CASE UNCHANGED importVars
    BY <2>5 DEF importVars
  <2> QED BY <2>1, <2>2, <2>3, <2>4, <2>5, NextSplits
<1> QED BY <1>1, <1>2, TypeCorrect, PTL DEF ImportsSpec
-----------------------------------------------------------------------------
\* What an installation may rely on.  It has the lock from its first phase to
\* its last, so that no other import and no deletion touches its directory; an
\* archive moves into an empty one; what a copy has placed is still there.
Locked == {"extract", "validate", "move", "copying", "install", "activate", "complete", "cleanup"}
Asked ==
    \A o \in Ops : /\ job[o] # "none" => kind[o] # Missing
                   /\ kind[o] # Missing => slug[o] \in Slugs
HasLock == \A o \in Ops : job[o] \in Locked => lock = o
MovesIntoEmpty == \A o \in Ops : job[o] = "move" /\ kind[o] \in Archives => dest[slug[o]] = {}
CopiedHalf ==
    \A o \in Ops : job[o] = "copying" =>
        /\ <<o, 1>> \in dest[slug[o]]
        /\ kind[o] \in Archives => dest[slug[o]] \subseteq Whole(o)
Placed ==
    \A o \in Ops : job[o] \in {"install", "activate", "complete"} =>
        kind[o] = "link" \/ Whole(o) \subseteq dest[slug[o]]
InstallInv == Asked /\ HasLock /\ MovesIntoEmpty /\ CopiedHalf /\ Placed

\* A step outside the lock: it lets nobody into the locked phases and leaves
\* their holder's lock, the directories and what was asked for alone.
LEMMA OutsideTheLock ==
    ASSUME InstallInv, UNCHANGED <<kind, slug, dest>>,
           \A x \in Ops : job'[x] # job[x] => kind[x] # Missing /\ job'[x] \notin Locked,
           \A x \in Ops : job'[x] \in Locked => lock' = lock
    PROVE  InstallInv'
<1>1. \A x \in Ops : job'[x] \in Locked => job'[x] = job[x]
  OBVIOUS
<1>2. Asked' /\ HasLock'
  BY <1>1 DEF InstallInv, Asked, HasLock
<1>3. MovesIntoEmpty' /\ CopiedHalf' /\ Placed'
  BY <1>1 DEF InstallInv, MovesIntoEmpty, CopiedHalf, Placed, Locked
<1> QED BY <1>2, <1>3 DEF InstallInv

\* A step of the lock's holder has to keep only its own part of the invariant.
LEMMA HolderMoves ==
    ASSUME ImportsTypeOK, InstallInv, NEW o \in Ops, job[o] \in Locked, NEW line,
           UNCHANGED <<kind, slug>>, job' = [job EXCEPT ![o] = line],
           line \in Locked => lock' = lock,
           line = "move" /\ kind[o] \in Archives => dest'[slug[o]] = {},
           line = "copying" => /\ <<o, 1>> \in dest'[slug[o]]
                               /\ kind[o] \in Archives => dest'[slug[o]] \subseteq Whole(o),
           line \in {"install", "activate", "complete"} =>
               kind[o] = "link" \/ Whole(o) \subseteq dest'[slug[o]]
    PROVE  InstallInv'
<1>1. lock = o /\ \A x \in Ops \ {o} : job[x] \notin Locked
  BY DEF InstallInv, HasLock
<1>2. job'[o] = line /\ \A x \in Ops \ {o} : job'[x] = job[x]
  BY DEF ImportsTypeOK
<1>3. Asked'
  BY <1>2 DEF InstallInv, Asked, Locked
<1>4. HasLock'
  BY <1>1, <1>2 DEF HasLock
<1>5. MovesIntoEmpty' /\ CopiedHalf' /\ Placed'
  BY <1>1, <1>2 DEF MovesIntoEmpty, CopiedHalf, Placed, Locked
<1> QED BY <1>3, <1>4, <1>5 DEF InstallInv

\* While no import has the lock, none is in a locked phase.
LEMMA NobodyInside ==
    ASSUME ImportsTypeOK, InstallInv, lock \in {Missing, "other"}
    PROVE  \A x \in Ops : job[x] \notin Locked
BY ImportsAssumption DEF InstallInv, HasLock

\* The holder's steps.
LEMMA HolderStep ==
    ASSUME ImportsTypeOK, InstallInv, NEW o \in Ops,
           \/ Extract(o) \/ Validate(o) \/ Move(o) \/ CopyTree(o)
           \/ Install(o) \/ Activate(o) \/ Complete(o) \/ Cleanup(o)
    PROVE  InstallInv'
<1> USE DEF Goto, SetStage, Fails, At, Locked
<1>0. /\ dest \in [Slugs -> SUBSET (Ops \X Parts)]
      /\ job[o] \in Locked => slug[o] \in Slugs
  BY DEF ImportsTypeOK, InstallInv, Asked
<1>1. CASE Extract(o)
  <2>1. PICK line \in {"validate", "cleanup"} : job' = [job EXCEPT ![o] = line]
    BY <1>1 DEF Extract
  <2> QED BY <1>1, <2>1, HolderMoves DEF Extract
<1>2. CASE Validate(o)
  <2>1. CASE dest[slug[o]] = {} /\ job' = [job EXCEPT ![o] = "move"]
    BY <1>2, <2>1, HolderMoves DEF Validate
  <2>2. CASE job' = [job EXCEPT ![o] = "cleanup"]
    BY <1>2, <2>2, HolderMoves DEF Validate
  <2> QED BY <1>2, <2>1, <2>2 DEF Validate
<1>3. CASE Move(o)
  <2>0. job[o] = "move" /\ UNCHANGED <<kind, slug, lock>>
    BY <1>3 DEF Move
  <2>1. CASE kind[o] = "link" /\ job' = [job EXCEPT ![o] = "install"]
    BY <2>0, <2>1, HolderMoves
  <2>2. CASE job' = [job EXCEPT ![o] = "install"] /\ Put(o, Whole(o))
    <3>1. Whole(o) \subseteq dest'[slug[o]]
      BY <1>0, <2>0, <2>2 DEF Put
    <3> QED BY <2>0, <2>2, <3>1, HolderMoves
  <2>3. CASE job' = [job EXCEPT ![o] = "copying"] /\ Put(o, {<<o, 1>>})
    <3>1. dest'[slug[o]] = dest[slug[o]] \cup {<<o, 1>>}
      BY <1>0, <2>0, <2>3 DEF Put
    <3>2. kind[o] \in Archives => dest[slug[o]] = {}
      BY <2>0 DEF InstallInv, MovesIntoEmpty
    <3>3. <<o, 1>> \in Whole(o)
      BY DEF Whole, Parts
    <3>4. kind[o] \in Archives => dest'[slug[o]] \subseteq Whole(o)
      BY <3>1, <3>2, <3>3
    <3> QED BY <2>0, <2>3, <3>1, <3>4, HolderMoves
  <2>4. CASE job' = [job EXCEPT ![o] = "cleanup"]
    BY <2>0, <2>4, HolderMoves
  <2> QED BY <1>3, <2>1, <2>2, <2>3, <2>4 DEF Move
<1>4. CASE CopyTree(o)
  <2>0. job[o] = "copying" /\ UNCHANGED <<kind, slug, lock>>
    BY <1>4 DEF CopyTree
  <2>1. CASE job' = [job EXCEPT ![o] = "install"] /\ Put(o, {<<o, 2>>})
    <3>1. dest'[slug[o]] = dest[slug[o]] \cup {<<o, 2>>}
      BY <1>0, <2>0, <2>1 DEF Put
    <3>2. <<o, 1>> \in dest[slug[o]]
      BY <2>0 DEF InstallInv, CopiedHalf
    <3>3. Whole(o) = {<<o, 1>>, <<o, 2>>}
      BY DEF Whole, Parts
    <3>4. Whole(o) \subseteq dest'[slug[o]]
      BY <3>1, <3>2, <3>3
    <3> QED BY <2>0, <2>1, <3>4, HolderMoves
  <2>2. CASE job' = [job EXCEPT ![o] = "cleanup"]
    BY <2>0, <2>2, HolderMoves
  <2> QED BY <1>4, <2>1, <2>2 DEF CopyTree
<1>5. CASE Install(o) \/ Activate(o)
  <2>0. job[o] \in {"install", "activate"} /\ UNCHANGED <<kind, slug, lock, dest>>
    BY <1>5 DEF Install, Activate
  <2>1. PICK line \in {"activate", "complete", "cleanup"} : job' = [job EXCEPT ![o] = line]
    BY <1>5 DEF Install, Activate
  <2>2. kind[o] = "link" \/ Whole(o) \subseteq dest'[slug[o]]
    BY <2>0 DEF InstallInv, Placed
  <2> QED BY <2>0, <2>1, <2>2, HolderMoves
<1>6. CASE Complete(o)
  BY <1>6, HolderMoves DEF Complete
<1>7. CASE Cleanup(o)
  BY <1>7, HolderMoves DEF Cleanup
<1> QED BY <1>1, <1>2, <1>3, <1>4, <1>5, <1>6, <1>7

LEMMA InstallInvInductive ==
    ASSUME ImportsTypeOK, InstallInv, [ImportsNext]_importVars PROVE InstallInv'
<1> USE DEF Goto, SetStage, Fails
<1>0. /\ kind \in [Ops -> Kinds \cup {Missing}] /\ slug \in [Ops -> Slugs \cup {Missing}]
      /\ job \in [Ops -> Jobs] /\ dest \in [Slugs -> SUBSET (Ops \X Parts)]
  BY DEF ImportsTypeOK
<1>1. ASSUME NEW o \in Ops, RequestStep(o) PROVE InstallInv'
  <2>1. PICK s \in Slugs, k \in Kinds :
           \/ Receives(o, k, s, "session") \/ Receives(o, k, s, "stream")
           \/ RefusedUpload(o, k, s) \/ BeginProject(o, k, s)
    BY <1>1, RequestKind DEF RequestStep
  <2>2. /\ kind[o] = Missing /\ kind' = [kind EXCEPT ![o] = k] /\ slug' = [slug EXCEPT ![o] = s]
        /\ UNCHANGED <<lock, dest>>
    BY <2>1 DEF Receives, RefusedUpload, BeginProject, Request
  <2>3. \E line \in {"session", "stream", "fetch", "acquire", "dead"} :
              job' = [job EXCEPT ![o] = line]
    BY <2>1 DEF Receives, RefusedUpload, BeginProject
  <2>4. /\ \A x \in Ops \ {o} : kind'[x] = kind[x] /\ slug'[x] = slug[x] /\ job'[x] = job[x]
        /\ job'[o] \notin Locked /\ kind'[o] = k /\ slug'[o] = s
    BY <1>0, <2>2, <2>3 DEF Locked
  <2>5. k # Missing
    BY ImportsAssumption
  <2>6. Asked' /\ HasLock'
    BY <2>2, <2>4, <2>5 DEF InstallInv, Asked, HasLock
  <2>7. MovesIntoEmpty' /\ CopiedHalf' /\ Placed'
    BY <2>2, <2>4 DEF InstallInv, MovesIntoEmpty, CopiedHalf, Placed, Locked
  <2> QED BY <2>6, <2>7 DEF InstallInv
<1>2. ASSUME NEW o \in Ops, SessionStep(o) PROVE InstallInv'
  <2>1. UNCHANGED <<kind, slug, dest, lock>>
    BY <1>2 DEF SessionStep, AppendChunk, FinishUpload, CancelLooks, CancelActs, Cancel
  <2>2. \A x \in Ops : job'[x] # job[x] => kind[x] # Missing /\ job'[x] \notin Locked
    <3>1. CASE FinishUpload(o)
      BY <3>1, <1>0, ImportsAssumption DEF FinishUpload, Receiving, Locked, Archives
    <3>2. CASE CancelActs(o)
      BY <3>2, <1>0 DEF CancelActs, InstallInv, Asked, Locked
    <3>3. CASE UNCHANGED job
      BY <3>3
    <3> QED BY <1>2, <3>1, <3>2, <3>3 DEF SessionStep, AppendChunk, CancelLooks, Cancel
  <2> QED BY <2>1, <2>2, OutsideTheLock
<1>3. ASSUME NEW o \in Ops, Installing(o) PROVE InstallInv'
  <2>1. CASE Stream(o) \/ ProjectAfterUpload(o)
    <3>1. /\ UNCHANGED <<kind, slug, dest, lock>> /\ job[o] # "none"
          /\ \E line \in {"project", "acquire", "dead"} : job' = [job EXCEPT ![o] = line]
      BY <2>1 DEF Stream, Arrives, ProjectAfterUpload, At
    <3>2. \A x \in Ops : job'[x] # job[x] => kind[x] # Missing /\ job'[x] \notin Locked
      BY <3>1, <1>0 DEF Locked, InstallInv, Asked
    <3> QED BY <3>1, <3>2, OutsideTheLock
  <2>2. CASE Acquire(o)
    <3>0. job[o] = "acquire" /\ UNCHANGED <<kind, slug, dest>>
      BY <2>2 DEF Acquire, At
    <3>1. CASE job' = [job EXCEPT ![o] = "dead"] /\ UNCHANGED lock
      <4>1. \A x \in Ops : job'[x] # job[x] => kind[x] # Missing /\ job'[x] \notin Locked
        BY <3>0, <3>1, <1>0 DEF Locked, InstallInv, Asked
      <4> QED BY <3>0, <3>1, <4>1, OutsideTheLock
    <3>2. CASE /\ lock = Missing /\ lock' = o
               /\ job' = [job EXCEPT ![o] = IF kind[o] \in Archives THEN "extract" ELSE "move"]
      <4>1. \A x \in Ops : job[x] \notin Locked
        BY <3>2, NobodyInside
      <4>2. /\ \A x \in Ops \ {o} : job'[x] = job[x]
            /\ job'[o] = IF kind[o] \in Archives THEN "extract" ELSE "move"
        BY <3>2, <1>0
      <4>3. Asked' /\ HasLock'
        BY <3>0, <3>2, <4>1, <4>2 DEF InstallInv, Asked, HasLock
      <4>4. MovesIntoEmpty' /\ CopiedHalf' /\ Placed'
        BY <3>0, <4>1, <4>2 DEF MovesIntoEmpty, CopiedHalf, Placed, Locked
      <4> QED BY <4>3, <4>4 DEF InstallInv
    <3> QED BY <2>2, <3>1, <3>2 DEF Acquire
  <2> QED BY <1>3, <2>1, <2>2, HolderStep DEF Installing
<1>4. CASE OtherStep
  <2>1. ASSUME NEW s \in Slugs, DeleteProject(s) PROVE InstallInv'
    <3>1. \A x \in Ops : job[x] \notin Locked
      BY <2>1, NobodyInside DEF DeleteProject
    <3>2. UNCHANGED <<kind, slug, job, lock>>
      BY <2>1 DEF DeleteProject
    <3> QED BY <3>1, <3>2 DEF InstallInv, Asked, HasLock, MovesIntoEmpty, CopiedHalf, Placed, Locked
  <2>2. CASE OtherOperation
    <3>1. \A x \in Ops : job[x] \notin Locked
      BY <2>2, NobodyInside DEF OtherOperation
    <3>2. UNCHANGED <<kind, slug, job, dest>>
      BY <2>2 DEF OtherOperation
    <3> QED BY <3>1, <3>2, OutsideTheLock
  <2>3. ASSUME NEW gone \in SUBSET Ops, Dies(gone) PROVE InstallInv'
    <3>1. UNCHANGED <<kind, slug, dest>>
      BY <2>3 DEF Dies
    <3>2. \A x \in Ops : job'[x] = IF x \in gone /\ job[x] # "none" THEN "dead" ELSE job[x]
      BY <2>3 DEF Dies
    <3>3. \A x \in Ops : job'[x] \in Locked => lock' = lock
      BY <2>3, <3>2 DEF Dies, InstallInv, HasLock, Locked
    <3>4. \A x \in Ops : job'[x] # job[x] => kind[x] # Missing /\ job'[x] \notin Locked
      BY <3>2 DEF InstallInv, Asked, Locked
    <3> QED BY <3>1, <3>3, <3>4, OutsideTheLock
  <2>4. ASSUME \/ ControlPlaneDies \/ (\E o \in Ops : CommandDies(o)) PROVE InstallInv'
    <3>1. \E gone \in SUBSET Ops : Dies(gone)
      BY <2>4 DEF ControlPlaneDies, CommandDies
    <3> QED BY <2>3, <3>1
  <2>5. ASSUME \/ (\E s \in Slugs : Select(s)) \/ Restart PROVE InstallInv'
    BY <2>5, OutsideTheLock DEF Select, Restart
  <2> QED BY <1>4, <2>1, <2>2, <2>4, <2>5 DEF OtherStep
<1>5. CASE UNCHANGED importVars
  BY <1>5, OutsideTheLock DEF importVars
<1> QED BY <1>1, <1>2, <1>3, <1>4, <1>5, NextSplits

LEMMA InstallInvHolds == ImportsSpec => [](ImportsTypeOK /\ InstallInv)
<1>1. ImportsInit => InstallInv
  BY DEF ImportsInit, InstallInv, Asked, HasLock, MovesIntoEmpty, CopiedHalf, Placed, Locked
<1>2. ImportsTypeOK /\ InstallInv /\ [ImportsNext]_importVars => InstallInv'
  BY InstallInvInductive
<1> QED BY <1>1, <1>2, TypeCorrect, PTL DEF ImportsSpec

-----------------------------------------------------------------------------
\* Only the last step of an installation completes an import, and it finds the
\* whole tree in its place.
THEOREM CompletedIsWholeHolds == ImportsSpec => CompletedIsWhole
<1>1. ASSUME ImportsTypeOK, InstallInv, [ImportsNext]_importVars, NEW o \in Ops,
             stage'[o] = "completed", stage[o] # "completed"
      PROVE  kind[o] = "link" \/ Whole(o) \subseteq dest[slug[o]]
  <2> USE DEF Goto, SetStage, Fails
  <2>0. stage \in [Ops -> {"none", "queued", "receiving_upload", "verifying_download",
                           "extracting", "moving_to_destination",
                           "completed", "failed", "cancelled"}]
    BY <1>1 DEF ImportsTypeOK
  <2>1. ASSUME NEW x \in Ops, RequestStep(x) PROVE FALSE
    <3>1. PICK s \in Slugs, k \in Kinds :
             \/ Receives(x, k, s, "session") \/ Receives(x, k, s, "stream")
             \/ RefusedUpload(x, k, s) \/ BeginProject(x, k, s)
      BY <2>1, RequestKind DEF RequestStep
    <3>2. \E st \in {"receiving_upload", "failed", "queued"} : stage' = [stage EXCEPT ![x] = st]
      BY <3>1 DEF Receives, RefusedUpload, BeginProject
    <3> QED BY <1>1, <2>0, <3>2
  <2>2. ASSUME NEW x \in Ops, SessionStep(x) PROVE FALSE
    <3>1. \/ stage' = stage
          \/ \E st \in {"verifying_download", "cancelled"} : stage' = [stage EXCEPT ![x] = st]
      BY <2>2 DEF SessionStep, AppendChunk, FinishUpload, CancelLooks, CancelActs, Cancel
    <3> QED BY <1>1, <2>0, <3>1
  <2>3. ASSUME NEW x \in Ops, Installing(x), ~Complete(x) PROVE FALSE
    <3>1. \/ stage' = stage
          \/ \E st \in {"receiving_upload", "verifying_download", "extracting",
                          "moving_to_destination", "failed"} : stage' = [stage EXCEPT ![x] = st]
      BY <2>3 DEF Installing, Stream, Arrives, ProjectAfterUpload, Acquire, Extract, Validate,
                  Move, CopyTree, Install, Activate, Cleanup
    <3> QED BY <1>1, <2>0, <3>1
  <2>4. ASSUME OtherStep PROVE FALSE
    <3>1. \/ stage' = stage
          \/ stage' = [x \in Ops |-> IF stage[x] = "none" \/ Terminal(stage[x])
                                     THEN stage[x] ELSE "failed"]
      BY <2>4 DEF OtherStep, DeleteProject, Select, OtherOperation, ControlPlaneDies, CommandDies,
                  Dies, Restart
    <3> QED BY <1>1, <2>0, <3>1
  <2>5. ASSUME UNCHANGED importVars PROVE FALSE
    BY <1>1, <2>5 DEF importVars
  <2>6. PICK x \in Ops : Complete(x)
    BY <1>1, <2>1, <2>2, <2>3, <2>4, <2>5, NextSplits
  <2>7. x = o
    BY <1>1, <2>0, <2>6 DEF Complete
  <2>8. job[o] = "complete"
    BY <2>6, <2>7 DEF Complete, At
  <2> QED BY <1>1, <2>8 DEF InstallInv, Placed
<1>2. ImportsTypeOK /\ InstallInv /\ [ImportsNext]_importVars
      => [\A o \in Ops : stage'[o] = "completed" /\ stage[o] # "completed"
              => kind[o] = "link" \/ Whole(o) \subseteq dest[slug[o]]]_importVars
  BY <1>1
<1> QED BY <1>2, InstallInvHolds, PTL DEF ImportsSpec, CompletedIsWhole

\* Files of an archive's import appear in a directory only by its own steps, and
\* those started in an empty one.
THEOREM ArchivesNeverMixHolds == ImportsSpec => ArchivesNeverMix
<1>1. ASSUME ImportsTypeOK, InstallInv, [ImportsNext]_importVars, NEW o \in Ops, NEW s \in Slugs,
             kind[o] \in Archives, (dest'[s] \ dest[s]) \cap Whole(o) # {}
      PROVE  dest'[s] \subseteq Whole(o)
  <2>0. dest \in [Slugs -> SUBSET (Ops \X Parts)]
    BY <1>1 DEF ImportsTypeOK
  <2>1. ASSUME NEW x \in Ops, Move(x) \/ CopyTree(x) PROVE dest'[s] \subseteq Whole(o)
    <3>0. dest' # dest
      BY <1>1
    <3>1. PICK parts \in SUBSET Whole(x) :
             Put(x, parts) /\ job[x] \in {"move", "copying"}
      <4>1. <<x, 1>> \in Whole(x) /\ <<x, 2>> \in Whole(x)
        BY DEF Whole, Parts
      <4>2. Put(x, Whole(x)) \/ Put(x, {<<x, 1>>}) \/ Put(x, {<<x, 2>>})
        BY <2>1, <3>0 DEF Move, CopyTree
      <4> QED BY <2>1, <4>1, <4>2 DEF Move, CopyTree, At
    <3>2. s = slug[x] /\ dest'[s] = dest[s] \cup parts
      BY <1>1, <2>0, <3>1 DEF Put
    <3>3. x = o
      BY <1>1, <3>2 DEF Whole
    <3>4. dest[s] \subseteq Whole(o)
      BY <1>1, <3>1, <3>2, <3>3 DEF InstallInv, CopiedHalf, MovesIntoEmpty
    <3> QED BY <3>2, <3>3, <3>4
  <2>2. ASSUME dest' = dest PROVE FALSE
    BY <1>1, <2>2
  <2>3. ASSUME NEW x \in Slugs, DeleteProject(x) PROVE FALSE
    BY <1>1, <2>0, <2>3 DEF DeleteProject
  <2>4. ASSUME NEW x \in Ops, RequestStep(x) PROVE FALSE
    <3>1. PICK y \in Slugs, k \in Kinds :
             \/ Receives(x, k, y, "session") \/ Receives(x, k, y, "stream")
             \/ RefusedUpload(x, k, y) \/ BeginProject(x, k, y)
      BY <2>4, RequestKind DEF RequestStep
    <3> QED BY <2>2, <3>1 DEF Receives, RefusedUpload, BeginProject, Request
  <2>5. ASSUME NEW x \in Ops, SessionStep(x) PROVE FALSE
    BY <2>2, <2>5 DEF SessionStep, AppendChunk, FinishUpload, CancelLooks, CancelActs, Cancel
  <2>6. ASSUME NEW x \in Ops, Installing(x), ~(Move(x) \/ CopyTree(x)) PROVE FALSE
    BY <2>2, <2>6 DEF Installing, Stream, ProjectAfterUpload, Acquire, Extract, Validate,
                      Install, Activate, Complete, Cleanup
  <2>7. CASE OtherStep
    BY <2>2, <2>3, <2>7 DEF OtherStep, Select, OtherOperation, ControlPlaneDies, CommandDies,
                            Dies, Restart
  <2>8. CASE UNCHANGED importVars
    BY <2>2, <2>8 DEF importVars
  <2> QED BY <1>1, <2>1, <2>4, <2>5, <2>6, <2>7, <2>8, NextSplits
<1>2. ImportsTypeOK /\ InstallInv /\ [ImportsNext]_importVars
      => [\A o \in Ops, s \in Slugs :
              kind[o] \in Archives /\ (dest'[s] \ dest[s]) \cap Whole(o) # {}
              => dest'[s] \subseteq Whole(o)]_importVars
  BY <1>1
<1> QED BY <1>2, InstallInvHolds, PTL DEF ImportsSpec, ArchivesNeverMix
=============================================================================
