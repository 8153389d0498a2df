------------------------ MODULE ServiceRequests_proofs ------------------------
(***************************************************************************)
(* Proofs about ServiceRequests, for every number of requests, semaphore   *)
(* files and branches and every bound on the clock.                        *)
(***************************************************************************)
EXTENDS ServiceRequests, FiniteSetTheorems, TLAPS

(***************************************************************************)
(* Typing.  A process that is past the lookup has a Project in hand; that  *)
(* is what makes the values it writes to Redis records again.              *)
(***************************************************************************)
ObjectsInHand ==
    /\ \A r \in Req : \/ snap[r] \in Project
                      \/ frame[r] = "outer" /\ pc[r] \in {"lookup", "status", "done"}
    /\ snap[Evictor] \in Project \/ pc[Evictor] \in {"idle", "scan"}

TypeInv ==
    /\ TypeOK
    /\ ObjectsInHand
    /\ \A r \in Req : pc[r] \in RequestPcs
    /\ pc[Evictor] \in SweepPcs

USE DEF Procs

LEMMA InitTyped == Init => TypeInv
  BY ProcessesAreDistinct, DefaultBranchIsKnown, TimesAreNaturals, WorkloadIsTyped, CrashesAreBounded
  DEF Init, StoreInit, TypeInv, TypeOK, StoreTypeOK, ObjectsInHand, Time, FolderStates, LockModes,
      RequestPcs, GetPcs, PurgePcs, LocalPcs, StatusPcs, SweepPcs, Outcomes, Requests

(* A new object is a record of the time it is made.                        *)
LEMMA NewProjectTyped ==
  ASSUME TypeInv, NEW r \in Req, NEW b
  PROVE  NewProject(r, b) \in Project
  BY DefaultBranchIsKnown DEF TypeInv, TypeOK, StoreTypeOK, NewProject, Project, StoredBranch

(* Saving an object adds a record and forgets others, at most.             *)
LEMMA SavedTyped ==
  ASSUME records \subseteq Project, NEW o \in Project
  PROVE  Saved(o) \subseteq Project
  BY DEF Saved

LEMMA DeletedTyped ==
  ASSUME records \subseteq Project, NEW id
  PROVE  Deleted(id) \subseteq Project
  BY DEF Deleted

(* An answer leaves a request typed and without an object.                 *)
LEMMA AnswerTyped ==
  ASSUME TypeInv, NEW r \in Req, NEW answer \in Outcomes, Answer(r, answer),
         holds' \in [Procs -> LockModes], slot' \in [Slots -> Req \cup {Free}],
         records' \subseteq Project, dir' \in FolderStates, head' \in Branches, tree' \subseteq Req,
         remote' \subseteq Req, side' \subseteq Req, now' \in Time, req' = req, todo' = todo,
         crashes' \in 0 .. MaxCrashes
  PROVE  TypeInv'
  <1>1. TypeOK'
    BY ProcessesAreDistinct
    DEF Answer, Goto, Hold, TypeInv, TypeOK, StoreTypeOK, LockModes, RequestPcs
  <1>2. ObjectsInHand' /\ (\A q \in Req : pc'[q] \in RequestPcs) /\ pc'[Evictor] \in SweepPcs
    BY ProcessesAreDistinct
    DEF Answer, Goto, Hold, TypeInv, TypeOK, StoreTypeOK, ObjectsInHand, RequestPcs
  <1> QED BY <1>1, <1>2 DEF TypeInv

LEMMA FinishTyped ==
  ASSUME TypeInv, NEW r \in Req, NEW answer \in Outcomes, Finish(r, answer),
         records' \subseteq Project, dir' \in FolderStates, head' \in Branches, tree' \subseteq Req,
         remote' \subseteq Req, side' \subseteq Req, now' \in Time, req' = req, todo' = todo,
         crashes' \in 0 .. MaxCrashes
  PROVE  TypeInv'
  BY AnswerTyped DEF Finish, Drop, AllSlotsReturned, TypeInv, TypeOK, StoreTypeOK, LockModes

(* A step of get that answers nothing.                                     *)
LEMMA StepTyped ==
  ASSUME TypeInv, NEW r \in Req, NEW label \in RequestPcs \ {"lookup", "status", "done"},
         NEW o \in Project, Step(r, label), snap' = snap \/ Hold(r, o), snap[r] \in Project \/ Hold(r, o),
         holds' \in [Procs -> LockModes], records' \subseteq Project, dir' \in FolderStates,
         head' \in Branches, tree' \subseteq Req, UNCHANGED envVars
  PROVE  TypeInv'
  <1>1. TypeOK'
    BY ProcessesAreDistinct
    DEF Step, Goto, Hold, TypeInv, TypeOK, StoreTypeOK, envVars
  <1>2. ObjectsInHand' /\ (\A q \in Req : pc'[q] \in RequestPcs) /\ pc'[Evictor] \in SweepPcs
    BY ProcessesAreDistinct
    DEF Step, Goto, Hold, TypeInv, TypeOK, StoreTypeOK, ObjectsInHand, RequestPcs, envVars
  <1> QED BY <1>1, <1>2 DEF TypeInv

LEMMA GetTyped ==
  ASSUME TypeInv, NEW r \in Req, Get(r)
  PROVE  TypeInv'
  <1> USE ProcessesAreDistinct
  <1> USE DEF envVars, storeVars, RequestPcs, GetPcs, PurgePcs, LocalPcs
  <1>a. /\ records \subseteq Project /\ dir \in FolderStates /\ head \in Branches
        /\ tree \subseteq Req /\ remote \subseteq Req /\ side \subseteq Req /\ now \in Time
        /\ holds \in [Procs -> LockModes] /\ crashes \in 0 .. MaxCrashes
        /\ snap \in [Procs -> Project \cup {NoProject}]
    BY DEF TypeInv, TypeOK, StoreTypeOK
  <1>b. ASSUME NEW o \in Project
        PROVE  [o EXCEPT !.accessed = now] \in Project /\ [o EXCEPT !.fetched = now] \in Project
    BY <1>a, <1>b DEF Project
  <1>c. pc[r] \notin {"lookup", "status", "done"} => snap[r] \in Project
    BY DEF TypeInv, ObjectsInHand
  <1>d. NewProject(r, Branch(r)) \in Project
    BY NewProjectTyped
  <1>1. CASE Lookup(r)
    <2>1. CASE NotFound(r)
      BY <1>1, <1>a, <1>d, <2>1, StepTyped DEF Lookup, NotFound, FolderStates
    <2>2. CASE ~NotFound(r)
      BY <1>1, <1>a, <2>2, StepTyped DEF Lookup
    <2> QED BY <2>1, <2>2
  <1>2. CASE CheckFolder(r)
    BY <1>2, <1>a, <1>c, StepTyped DEF CheckFolder
  <1>3. CASE DropRecord(r)
    BY <1>3, <1>a, <1>d, DeletedTyped, StepTyped DEF DropRecord, NotFound, FolderStates
  <1>4. CASE Touch(r)
    <2>1. CASE snap[r].initialized
      <3> DEFINE o == [snap[r] EXCEPT !.accessed = now]
      <3>1. o \in Project
        BY <1>4, <1>b, <1>c DEF Touch
      <3>2. records' = Saved(o) /\ Hold(r, o) /\ Step(r, "slot") /\ UNCHANGED holds
        BY <1>4, <2>1 DEF Touch
      <3>3. Saved(o) \subseteq Project
        BY <1>a, <3>1, SavedTyped
      <3> QED BY <1>4, <1>a, <3>1, <3>2, <3>3, StepTyped DEF Touch
    <2>2. CASE ~snap[r].initialized
      BY <1>4, <1>a, <2>2, FinishTyped DEF Touch, Outcomes
    <2> QED BY <2>1, <2>2
  <1>5. CASE UpdateLock(r)
    BY <1>5, <1>a, <1>c, StepTyped DEF UpdateLock, Take, LockModes
  <1>6. CASE Update(r)
    BY <1>6, <1>a, <1>c, StepTyped DEF Update
  <1>7. CASE UpdateFails(r)
    BY <1>7, <1>a, <1>c, StepTyped DEF UpdateFails
  <1>8. CASE NothingToUpdate(r)
    BY <1>8, <1>a, FinishTyped DEF NothingToUpdate, Outcomes
  <1>9. CASE UpdateSave(r)
    <2> DEFINE o == [snap[r] EXCEPT !.fetched = now]
    <2>1. o \in Project
      BY <1>9, <1>b, <1>c DEF UpdateSave
    <2>2. records' = Saved(o) /\ Hold(r, o) /\ Step(r, "touch")
      BY <1>9 DEF UpdateSave
    <2>3. Saved(o) \subseteq Project
      BY <1>a, <2>1, SavedTyped
    <2> QED BY <1>9, <1>a, <2>1, <2>2, <2>3, StepTyped DEF UpdateSave, Drop, LockModes
  <1>10. CASE CloneLock(r)
    BY <1>10, <1>a, <1>c, StepTyped DEF CloneLock, Take, LockModes
  <1>11. CASE CloneCheck(r)
    BY <1>11, <1>a, <1>c, StepTyped DEF CloneCheck
  <1>12. CASE CloneTouch(r)
    <2> DEFINE o == [snap[r] EXCEPT !.accessed = now]
    <2>1. o \in Project
      BY <1>12, <1>b, <1>c DEF CloneTouch
    <2>2. records' = Saved(o) /\ Hold(r, o) /\ Step(r, "slot")
      BY <1>12 DEF CloneTouch
    <2>3. Saved(o) \subseteq Project
      BY <1>a, <2>1, SavedTyped
    <2> QED BY <1>12, <1>a, <2>1, <2>2, <2>3, StepTyped DEF CloneTouch, Drop, LockModes
  <1>13. CASE Wipe(r)
    BY <1>13, <1>a, <1>c, StepTyped DEF Wipe, FolderStates
  <1>14. CASE Clone(r)
    <2>1. PICK b \in BOOLEAN : Hold(r, [snap[r] EXCEPT !.initialized = b])
      BY <1>14 DEF Clone
    <2>2. snap[r] \in Project
      BY <1>14, <1>c DEF Clone
    <2>3. [snap[r] EXCEPT !.initialized = b] \in Project /\ snap[r].branch \in Branches
      BY <2>2 DEF Project
    <2> QED BY <1>14, <1>a, <2>1, <2>3, StepTyped DEF Clone, FolderStates
  <1>15. CASE CloneFails(r)
    BY <1>15, <1>a, FinishTyped DEF CloneFails, Outcomes, FolderStates
  <1>16. CASE CloneSave(r)
    <2>1. CASE snap[r].initialized
      <3>1. snap[r] \in Project
        BY <1>16, <1>c DEF CloneSave
      <3>2. Saved(snap[r]) \subseteq Project
        BY <1>a, <3>1, SavedTyped
      <3> QED BY <1>16, <1>a, <2>1, <3>1, <3>2, StepTyped DEF CloneSave, Drop, LockModes
    <2>2. CASE ~snap[r].initialized
      BY <1>16, <1>a, <1>c, <2>2, SavedTyped, FinishTyped DEF CloneSave, Outcomes
    <2> QED BY <2>1, <2>2
  <1>17. CASE PurgeFolder(r)
    BY <1>17, <1>a, <1>c, StepTyped DEF PurgeFolder, FolderStates
  <1>18. CASE PurgeFails(r)
    BY <1>18, <1>a, FinishTyped DEF PurgeFails, RemovalDisturbed, Outcomes, FolderStates
  <1>19. CASE PurgeRecord(r)
    BY <1>19, <1>a, DeletedTyped, FinishTyped DEF PurgeRecord, Outcomes
  <1> QED
    BY <1>1, <1>2, <1>3, <1>4, <1>5, <1>6, <1>7, <1>8, <1>9, <1>10, <1>11, <1>12, <1>13, <1>14,
       <1>15, <1>16, <1>17, <1>18, <1>19 DEF Get

(* A step of the sweep.                                                    *)
LEMMA SweepStepTyped ==
  ASSUME TypeInv, NEW label \in SweepPcs, Goto(Evictor, label),
         snap' \in [Procs -> Project \cup {NoProject}],
         \A r \in Req : snap'[r] = snap[r],
         label \in {"idle", "scan"} \/ snap'[Evictor] \in Project,
         holds' \in [Procs -> LockModes], records' \subseteq Project, dir' \in FolderStates,
         head' = head, tree' \subseteq Req, todo' \subseteq Req, slot' = slot, frame' = frame,
         outcome' = outcome, req' = req, remote' = remote, side' = side, now' = now,
         crashes' \in 0 .. MaxCrashes
  PROVE  TypeInv'
  BY ProcessesAreDistinct
  DEF Goto, TypeInv, TypeOK, StoreTypeOK, ObjectsInHand

LEMMA SweepTyped ==
  ASSUME TypeInv, Sweep
  PROVE  TypeInv'
  <1> USE ProcessesAreDistinct
  <1> USE DEF SweepOnly, storeVars, SweepPcs, PurgePcs
  <1>a. /\ records \subseteq Project /\ dir \in FolderStates /\ head \in Branches
        /\ tree \subseteq Req /\ todo \subseteq Req /\ crashes \in 0 .. MaxCrashes
        /\ holds \in [Procs -> LockModes] /\ snap \in [Procs -> Project \cup {NoProject}]
        /\ pc[Evictor] \in SweepPcs /\ pc \in [Procs -> RequestPcs \cup SweepPcs]
    BY DEF TypeInv, TypeOK, StoreTypeOK
  <1>b. pc[Evictor] \notin {"idle", "scan"} => snap[Evictor] \in Project
    BY DEF TypeInv, ObjectsInHand
  <1>1. CASE StartSweep
    <2>1. todo' \subseteq Req
      BY <1>1, <1>a DEF StartSweep, Project
    <2> QED BY <1>1, <1>a, <2>1, SweepStepTyped DEF StartSweep
  <1>2. ASSUME NEW id \in todo, ScanExpired(id)
        PROVE  TypeInv'
    BY <1>2, <1>a, SweepStepTyped DEF ScanExpired, WithId, Hold
  <1>3. ASSUME NEW id \in todo, ScanKept(id)
        PROVE  TypeInv'
    <2>1. pc[Evictor] = "scan" /\ pc' = [pc EXCEPT ![Evictor] = "scan"]
      BY <1>3, <1>a DEF ScanKept
    <2> QED BY <1>3, <1>a, <2>1, SweepStepTyped DEF ScanKept, Goto
  <1>4. CASE EndSweep
    BY <1>4, <1>a, SweepStepTyped DEF EndSweep
  <1>5. CASE EvictLock
    <2>1. CASE dir = "lost"
      BY <1>5, <1>a, <2>1, DeletedTyped, SweepStepTyped DEF EvictLock, Hold
    <2>2. CASE dir # "lost"
      BY <1>5, <1>a, <1>b, <2>2, SweepStepTyped DEF EvictLock, Take, LockModes
    <2> QED BY <2>1, <2>2
  <1>6. CASE EvictFails
    BY <1>6, <1>a, SweepStepTyped DEF EvictFails, RemovalDisturbed, Drop, Hold, LockModes, FolderStates
  <1>7. CASE EvictRecord
    BY <1>7, <1>a, DeletedTyped, SweepStepTyped DEF EvictRecord, Drop, Hold, LockModes
  <1>8. CASE PurgeFolder(Evictor)
    BY <1>8, <1>a, <1>b, SweepStepTyped DEF PurgeFolder, Step, envVars, FolderStates
  <1> QED BY <1>1, <1>2, <1>3, <1>4, <1>5, <1>6, <1>7, <1>8 DEF Sweep

LEMMA LocalTyped ==
  ASSUME TypeInv, NEW r \in Req, Local(r)
  PROVE  TypeInv'
  <1> USE ProcessesAreDistinct
  <1> USE DEF envVars, storeVars, RequestPcs, LocalPcs, GetPcs, StatusPcs
  <1>a. /\ records \subseteq Project /\ dir \in FolderStates /\ head \in Branches
        /\ tree \subseteq Req /\ remote \subseteq Req /\ side \subseteq Req /\ now \in Time
        /\ holds \in [Procs -> LockModes] /\ crashes \in 0 .. MaxCrashes
    BY DEF TypeInv, TypeOK, StoreTypeOK
  <1>c. pc[r] \notin {"lookup", "status", "done"} => snap[r] \in Project
    BY DEF TypeInv, ObjectsInHand
  <1>1. CASE AcquireSlot(r)
    BY <1>1, <1>c
    DEF AcquireSlot, FreeSlots, Goto, TypeInv, TypeOK, StoreTypeOK, ObjectsInHand
  <1>2. CASE SlotTimeout(r)
    BY <1>2, <1>a, FinishTyped DEF SlotTimeout, Outcomes
  <1>3. CASE AcquireLock(r)
    BY <1>3, <1>a, <1>c, StepTyped DEF AcquireLock, Take, LockModes, LockMode
  <1>4. CASE ReadLockTimeout(r)
    BY <1>4, <1>a, FinishTyped DEF ReadLockTimeout, Outcomes
  <1>5. CASE Load(r)
    BY <1>5, <1>a DEF Load, WithId, Hold, Goto, TypeInv, TypeOK, StoreTypeOK, ObjectsInHand
  <1>6. CASE LoadFails(r)
    BY <1>6, <1>a, FinishTyped DEF LoadFails, Outcomes
  <1>7. CASE Read(r)
    BY <1>7, <1>a, FinishTyped DEF Read, Finish, LeaveOuter, Outcomes
  <1>8. CASE Write(r)
    BY <1>8, <1>c
    DEF Write, LeaveOuter, Drop, AllSlotsReturned, Goto, LockModes, TypeInv, TypeOK, StoreTypeOK,
        ObjectsInHand
  <1>9. CASE Migrate(r)
    BY <1>9, <1>c DEF Migrate, LeaveInner, SlotsOf, Goto, TypeInv, TypeOK, StoreTypeOK, ObjectsInHand
  <1>10. CASE OpFails(r)
    BY <1>10, <1>a, FinishTyped DEF OpFails, Outcomes
  <1>11. CASE Push(r)
    <2>1. CASE frame[r] = "inner"
      BY <1>11, <1>a, <1>c, <2>1
      DEF Push, Synced, Goto, TypeInv, TypeOK, StoreTypeOK, ObjectsInHand
    <2>2. CASE frame[r] # "inner"
      BY <1>11, <1>a, <1>c, <2>2, AnswerTyped DEF Push, Synced, Outcomes, TypeInv, TypeOK, StoreTypeOK
    <2> QED BY <2>1, <2>2
  <1>12. CASE PushToNewBranch(r)
    <2>1. CASE frame[r] = "inner"
      BY <1>12, <1>a, <1>c, <2>1
      DEF PushToNewBranch, Synced, Goto, TypeInv, TypeOK, StoreTypeOK, ObjectsInHand
    <2>2. CASE frame[r] # "inner"
      BY <1>12, <1>a, <1>c, <2>2, AnswerTyped
      DEF PushToNewBranch, Synced, Outcomes, TypeInv, TypeOK, StoreTypeOK
    <2> QED BY <2>1, <2>2
  <1>13. CASE PushFails(r)
    BY <1>13, <1>a, <1>c, FinishTyped, AnswerTyped
    DEF PushFails, Outcomes, TypeInv, TypeOK, StoreTypeOK
  <1>14. CASE Status(r)
    BY <1>14, <1>a, FinishTyped, StepTyped DEF Status, Outcomes
  <1>15. CASE TryRead(r)
    BY <1>15, <1>a, FinishTyped DEF TryRead, Outcomes
  <1> QED
    BY <1>1, <1>2, <1>3, <1>4, <1>5, <1>6, <1>7, <1>8, <1>9, <1>10, <1>11, <1>12, <1>13, <1>14,
       <1>15 DEF Local

LEMMA EnvironmentTyped ==
  ASSUME TypeInv, Tick \/ Restart \/ SweepCrash \/ (\E r \in Req : Crash(r))
  PROVE  TypeInv'
  <1> USE ProcessesAreDistinct, TimesAreNaturals, CrashesAreBounded
  <1> USE DEF RequestPcs, SweepPcs, FolderStates, LockModes
  <1>a. crashes \in 0 .. MaxCrashes /\ now \in 0 .. MaxTime /\ dir \in FolderStates
    BY DEF TypeInv, TypeOK, StoreTypeOK, Time
  <1>b. crashes < MaxCrashes => crashes + 1 \in 0 .. MaxCrashes
    BY <1>a
  <1>1. CASE Tick
    <2>1. now' \in Time
      BY <1>1, <1>a DEF Tick, Time
    <2> QED
      BY <1>1, <2>1
      DEF Tick, storeVars, remoteVars, lockVars, TypeInv, TypeOK, StoreTypeOK, ObjectsInHand
  <1>2. CASE Restart
    BY <1>2, <1>b DEF Restart, TypeInv, TypeOK, StoreTypeOK, ObjectsInHand, Outcomes
  <1>3. CASE SweepCrash
    <2>1. dir' \in FolderStates
      BY <1>3, <1>a DEF SweepCrash, LeavesFolder
    <2> QED
      BY <1>3, <1>b, <2>1
      DEF SweepCrash, Goto, Hold, Drop, TypeInv, TypeOK, StoreTypeOK, ObjectsInHand
  <1>4. ASSUME NEW r \in Req, Crash(r)
        PROVE  TypeInv'
    <2>1. dir' \in FolderStates
      BY <1>4, <1>a DEF Crash, LeavesFolder
    <2>2. Finish(r, "crashed") /\ "crashed" \in Outcomes
      BY <1>4 DEF Crash, Outcomes
    <2> QED
      BY <1>4, <1>b, <2>1, <2>2, FinishTyped DEF Crash, TypeInv, TypeOK, StoreTypeOK
  <1> QED BY <1>1, <1>2, <1>3, <1>4

(* TypeInv is inductive.                                                   *)
LEMMA NextTyped == TypeInv /\ [Next]_vars => TypeInv'
  <1> SUFFICES ASSUME TypeInv, [Next]_vars
               PROVE  TypeInv'
    OBVIOUS
  <1>1. CASE UNCHANGED vars
    BY <1>1 DEF vars, TypeInv, TypeOK, StoreTypeOK, ObjectsInHand
  <1>2. ASSUME NEW r \in Req, Request(r)
        PROVE  TypeInv'
    BY <1>2, GetTyped, LocalTyped DEF Request
  <1>3. CASE Sweep
    BY <1>3, SweepTyped
  <1>4. CASE Tick \/ Restart \/ SweepCrash \/ \E r \in Req : Crash(r)
    BY <1>4, EnvironmentTyped
  <1> QED BY <1>1, <1>2, <1>3, <1>4 DEF Next, Idle

(* Every variable keeps its type, whatever requests run: in particular the *)
(* records written back to Redis are records again, with a branch and      *)
(* times in range.                                                         *)
THEOREM TypeCorrect == Spec => []TypeOK
  <1>1. Spec => []TypeInv
    BY InitTyped, NextTyped, PTL DEF Spec
  <1>2. TypeInv => TypeOK
    BY DEF TypeInv
  <1> QED BY <1>1, <1>2, PTL

-----------------------------------------------------------------------------
(***************************************************************************)
(* The project lock.  What a process holds follows from where it stands,   *)
(* and who holds the lock exclusively holds it alone.                      *)
(***************************************************************************)
ProperlyHeld(p) ==
    \/ Rebuilds(p) /\ holds[p] = "exclusive"
    \/ /\ p \in Req
       /\ frame[p] = "inner"
       /\ holds[p] = "exclusive"
    \/ /\ p \in Req
       /\ pc[p] \in {"load", "op"}
       /\ frame[p] = "outer"
       /\ holds[p] = LockMode(p)
    \/ /\ ~Rebuilds(p)
       /\ p \in Req => pc[p] \notin {"load", "op"} /\ frame[p] = "outer"
       /\ holds[p] = "none"

MigratesInside(r) ==
    frame[r] = "inner" =>
       /\ req[r].migrate
       /\ pc[r] \in {"lookup", "exists", "drop", "updateLock", "touch", "cloneLock",
                     "slot", "load", "op", "sync"}

LockInv ==
    /\ \A p \in Procs : ProperlyHeld(p)
    /\ \A r \in Req : MigratesInside(r)
    /\ \A p, q \in Procs : holds[p] = "exclusive" /\ p # q => holds[q] = "none"

(* The semaphore: a request keeps one file from the semaphore to the end   *)
(* of its operation, and a second one in the operation of its migration.   *)
SlotsKept(r) ==
    /\ frame[r] = "inner" \/ pc[r] \in {"lock", "load", "op"} => SlotsOf(r) # {}
    /\ frame[r] = "inner" /\ pc[r] \in {"load", "op"} =>
          \E s, t \in SlotsOf(r) : s # t
    /\ frame[r] = "outer" /\ pc[r] \notin {"lock", "load", "op"} => SlotsOf(r) = {}

SlotInv == \A r \in Req : SlotsKept(r)

(* A step of one process keeps LockInv when the process ends up holding    *)
(* what it should, and took the lock only when that was allowed.           *)
LEMMA OneProcessMoves ==
  ASSUME LockInv, NEW p \in Procs, req' = req,
         \A q \in Procs \ {p} : pc'[q] = pc[q] /\ holds'[q] = holds[q],
         \A r \in Req \ {p} : frame'[r] = frame[r],
         ProperlyHeld(p)', p \in Req => MigratesInside(p)',
         \/ holds'[p] \in {"none", holds[p]}
         \/ holds'[p] = "shared" /\ SharedFree
         \/ ExclusiveFree
  PROVE  LockInv'
  <1>1. \A q \in Procs : ProperlyHeld(q)'
    BY DEF LockInv, ProperlyHeld, Rebuilds, LockMode, IsWrite
  <1>2. \A r \in Req : MigratesInside(r)'
    BY DEF LockInv, MigratesInside
  <1>3. ASSUME NEW q \in Procs, NEW t \in Procs, holds'[q] = "exclusive", q # t
        PROVE  holds'[t] = "none"
    BY <1>3 DEF LockInv, SharedFree, ExclusiveFree
  <1> QED BY <1>1, <1>2, <1>3 DEF LockInv

(* An answered request holds nothing.                                      *)
LEMMA FinishKeepsLockInv ==
  ASSUME TypeInv, LockInv, NEW r \in Req, NEW answer, Finish(r, answer), req' = req
  PROVE  LockInv'
  BY OneProcessMoves
  DEF Finish, Answer, Goto, Drop, TypeInv, TypeOK, StoreTypeOK, ProperlyHeld, Rebuilds, PurgePcs,
      MigratesInside

(* After the `with` blocks a request holds nothing to give back.           *)
LEMMA AnswerKeepsLockInv ==
  ASSUME TypeInv, LockInv, NEW r \in Req, NEW answer, Answer(r, answer), req' = req,
         pc[r] = "sync", frame[r] # "inner", UNCHANGED holds
  PROVE  LockInv'
  BY OneProcessMoves
  DEF Answer, Goto, LockInv, TypeInv, TypeOK, StoreTypeOK, ProperlyHeld, Rebuilds, PurgePcs,
      MigratesInside

LEMMA GetKeepsLockInv ==
  ASSUME TypeInv, LockInv, NEW r \in Req, Get(r)
  PROVE  LockInv'
  <1> USE ProcessesAreDistinct
  <1>a. /\ pc \in [Procs -> RequestPcs \cup SweepPcs] /\ holds \in [Procs -> LockModes]
        /\ frame \in [Req -> {"outer", "inner"}]
        /\ ProperlyHeld(r) /\ MigratesInside(r)
    BY DEF TypeInv, TypeOK, StoreTypeOK, LockInv
  <1>b. ASSUME pc' = [pc EXCEPT ![r] = pc'[r]], frame' = frame, req' = req,
               \/ holds' = holds
               \/ holds' = [holds EXCEPT ![r] = "none"]
               \/ holds' = [holds EXCEPT ![r] = "exclusive"] /\ ExclusiveFree,
               ProperlyHeld(r)', MigratesInside(r)'
        PROVE  LockInv'
    BY <1>a, <1>b, OneProcessMoves
  <1> USE DEF Step, Goto, Take, Drop, envVars, ProperlyHeld, MigratesInside, Rebuilds, PurgePcs
  <1>1. CASE Lookup(r)
    BY <1>1, <1>a, <1>b DEF Lookup, NotFound
  <1>2. CASE CheckFolder(r)
    BY <1>2, <1>a, <1>b DEF CheckFolder
  <1>3. CASE DropRecord(r)
    BY <1>3, <1>a, <1>b DEF DropRecord, NotFound
  <1>4. CASE Touch(r)
    <2>1. CASE snap[r].initialized
      BY <1>4, <1>a, <1>b, <2>1 DEF Touch
    <2>2. CASE ~snap[r].initialized
      BY <1>4, <2>2, FinishKeepsLockInv DEF Touch
    <2> QED BY <2>1, <2>2
  <1>5. CASE UpdateLock(r)
    BY <1>5, <1>a, <1>b DEF UpdateLock, ExclusiveFree
  <1>6. CASE Update(r)
    BY <1>6, <1>a, <1>b DEF Update
  <1>7. CASE UpdateFails(r)
    BY <1>7, <1>a, <1>b DEF UpdateFails
  <1>8. CASE NothingToUpdate(r)
    BY <1>8, FinishKeepsLockInv DEF NothingToUpdate
  <1>9. CASE UpdateSave(r)
    BY <1>9, <1>a, <1>b DEF UpdateSave
  <1>10. CASE CloneLock(r)
    BY <1>10, <1>a, <1>b DEF CloneLock, ExclusiveFree
  <1>11. CASE CloneCheck(r)
    BY <1>11, <1>a, <1>b DEF CloneCheck
  <1>12. CASE CloneTouch(r)
    BY <1>12, <1>a, <1>b DEF CloneTouch
  <1>13. CASE Wipe(r)
    BY <1>13, <1>a, <1>b DEF Wipe
  <1>14. CASE Clone(r)
    BY <1>14, <1>a, <1>b DEF Clone
  <1>15. CASE CloneFails(r)
    BY <1>15, FinishKeepsLockInv DEF CloneFails
  <1>16. CASE CloneSave(r)
    <2>1. CASE snap[r].initialized
      BY <1>16, <1>a, <1>b, <2>1 DEF CloneSave
    <2>2. CASE ~snap[r].initialized
      BY <1>16, <2>2, FinishKeepsLockInv DEF CloneSave
    <2> QED BY <2>1, <2>2
  <1>17. CASE PurgeFolder(r)
    BY <1>17, <1>a, <1>b DEF PurgeFolder
  <1>18. CASE PurgeFails(r)
    BY <1>18, FinishKeepsLockInv DEF PurgeFails, RemovalDisturbed
  <1>19. CASE PurgeRecord(r)
    BY <1>19, FinishKeepsLockInv DEF PurgeRecord
  <1> QED
    BY <1>1, <1>2, <1>3, <1>4, <1>5, <1>6, <1>7, <1>8, <1>9, <1>10,
       <1>11, <1>12, <1>13, <1>14, <1>15, <1>16, <1>17, <1>18, <1>19 DEF Get

LEMMA LocalKeepsLockInv ==
  ASSUME TypeInv, LockInv, NEW r \in Req, Local(r)
  PROVE  LockInv'
  <1> USE ProcessesAreDistinct
  <1>a. /\ pc \in [Procs -> RequestPcs \cup SweepPcs] /\ holds \in [Procs -> LockModes]
        /\ frame \in [Req -> {"outer", "inner"}]
        /\ ProperlyHeld(r) /\ MigratesInside(r)
    BY DEF TypeInv, TypeOK, StoreTypeOK, LockInv
  <1>b. ASSUME pc' = [pc EXCEPT ![r] = pc'[r]], frame' = [frame EXCEPT ![r] = frame'[r]], req' = req,
               \/ holds' = holds
               \/ holds' = [holds EXCEPT ![r] = "none"]
               \/ holds' = [holds EXCEPT ![r] = "shared"] /\ SharedFree
               \/ holds' = [holds EXCEPT ![r] = "exclusive"] /\ ExclusiveFree,
               ProperlyHeld(r)', MigratesInside(r)'
        PROVE  LockInv'
    BY <1>a, <1>b, OneProcessMoves
  <1>c. req' = req => LockMode(r)' = LockMode(r)
    BY DEF LockMode, IsWrite
  <1>d. LockMode(r) \in {"shared", "exclusive"} /\ (req[r].migrate => LockMode(r) = "exclusive")
    BY DEF LockMode
  <1>e. frame' = frame => frame' = [frame EXCEPT ![r] = frame'[r]]
    BY <1>a
  <1> USE DEF Goto, Step, Take, Drop, envVars, ProperlyHeld, MigratesInside, Rebuilds, PurgePcs
  <1>1. CASE AcquireSlot(r)
    BY <1>1, <1>a, <1>b, <1>c, <1>d, <1>e DEF AcquireSlot
  <1>2. CASE SlotTimeout(r)
    BY <1>2, FinishKeepsLockInv DEF SlotTimeout
  <1>3. CASE AcquireLock(r)
    BY <1>3, <1>a, <1>b, <1>c, <1>d, <1>e DEF AcquireLock, LockIsFree
  <1>4. CASE ReadLockTimeout(r)
    BY <1>4, FinishKeepsLockInv DEF ReadLockTimeout
  <1>5. CASE Load(r)
    BY <1>5, <1>a, <1>b, <1>c, <1>d, <1>e DEF Load
  <1>6. CASE LoadFails(r)
    BY <1>6, FinishKeepsLockInv DEF LoadFails
  <1>7. CASE Read(r)
    BY <1>7, FinishKeepsLockInv DEF Read, Finish, LeaveOuter
  <1>8. CASE Write(r)
    BY <1>8, <1>a, <1>b, <1>c, <1>d, <1>e DEF Write, LeaveOuter
  <1>9. CASE Migrate(r)
    BY <1>9, <1>a, <1>b, <1>c, <1>d, <1>e DEF Migrate, LeaveInner
  <1>10. CASE OpFails(r)
    BY <1>10, FinishKeepsLockInv DEF OpFails
  <1>11. CASE Push(r)
    <2>1. CASE frame[r] = "inner"
      BY <1>11, <1>a, <1>b, <1>c, <1>d, <2>1 DEF Push, Synced
    <2>2. CASE frame[r] # "inner"
      BY <1>11, <2>2, AnswerKeepsLockInv DEF Push, Synced
    <2> QED BY <2>1, <2>2
  <1>12. CASE PushToNewBranch(r)
    <2>1. CASE frame[r] = "inner"
      BY <1>12, <1>a, <1>b, <1>c, <1>d, <2>1 DEF PushToNewBranch, Synced
    <2>2. CASE frame[r] # "inner"
      BY <1>12, <2>2, AnswerKeepsLockInv DEF PushToNewBranch, Synced
    <2> QED BY <2>1, <2>2
  <1>13. CASE PushFails(r)
    BY <1>13, FinishKeepsLockInv, AnswerKeepsLockInv DEF PushFails, envVars
  <1>14. CASE Status(r)
    BY <1>14, <1>a, <1>b, <1>e, FinishKeepsLockInv DEF Status
  <1>15. CASE TryRead(r)
    BY <1>15, FinishKeepsLockInv DEF TryRead
  <1> QED
    BY <1>1, <1>2, <1>3, <1>4, <1>5, <1>6, <1>7, <1>8, <1>9, <1>10, <1>11, <1>12, <1>13, <1>14,
       <1>15 DEF Local

LEMMA SweepKeepsLockInv ==
  ASSUME TypeInv, LockInv, Sweep \/ SweepCrash
  PROVE  LockInv'
  <1> USE ProcessesAreDistinct
  <1>a. /\ pc \in [Procs -> RequestPcs \cup SweepPcs] /\ holds \in [Procs -> LockModes]
        /\ ProperlyHeld(Evictor)
    BY DEF TypeInv, TypeOK, StoreTypeOK, LockInv
  <1>b. ASSUME pc' = [pc EXCEPT ![Evictor] = pc'[Evictor]], frame' = frame, req' = req,
               \/ holds' = holds
               \/ holds' = [holds EXCEPT ![Evictor] = "none"]
               \/ holds' = [holds EXCEPT ![Evictor] = "exclusive"] /\ ExclusiveFree,
               ProperlyHeld(Evictor)'
        PROVE  LockInv'
    BY <1>a, <1>b, OneProcessMoves
  <1> USE DEF Goto, SweepOnly, Take, Drop, ProperlyHeld, Rebuilds, PurgePcs
  <1>1. CASE StartSweep
    BY <1>1, <1>a, <1>b DEF StartSweep
  <1>2. ASSUME NEW id \in todo, ScanExpired(id)
        PROVE  LockInv'
    BY <1>2, <1>a, <1>b DEF ScanExpired
  <1>3. ASSUME NEW id \in todo, ScanKept(id)
        PROVE  LockInv'
    BY <1>3, <1>a, <1>b DEF ScanKept
  <1>4. CASE EndSweep
    BY <1>4, <1>a, <1>b DEF EndSweep
  <1>5. CASE EvictLock
    BY <1>5, <1>a, <1>b DEF EvictLock
  <1>6. CASE EvictFails
    BY <1>6, <1>a, <1>b DEF EvictFails, RemovalDisturbed
  <1>7. CASE EvictRecord
    BY <1>7, <1>a, <1>b DEF EvictRecord
  <1>8. CASE PurgeFolder(Evictor)
    BY <1>8, <1>a, <1>b DEF PurgeFolder, Step, envVars
  <1>9. CASE SweepCrash
    BY <1>9, <1>a, <1>b DEF SweepCrash
  <1> QED BY <1>1, <1>2, <1>3, <1>4, <1>5, <1>6, <1>7, <1>8, <1>9 DEF Sweep

LEMMA LockInvInductive ==
  /\ Init => LockInv
  /\ TypeInv /\ LockInv /\ [Next]_vars => LockInv'
  <1>1. Init => LockInv
    BY ProcessesAreDistinct
    DEF Init, StoreInit, LockInv, ProperlyHeld, MigratesInside, Rebuilds, PurgePcs
  <1>2. ASSUME TypeInv, LockInv, [Next]_vars
        PROVE  LockInv'
    <2>1. CASE UNCHANGED vars
      BY <1>2, <2>1 DEF vars, LockInv, ProperlyHeld, MigratesInside, Rebuilds, LockMode, IsWrite
    <2>2. ASSUME NEW r \in Req, Request(r)
          PROVE  LockInv'
      BY <1>2, <2>2, GetKeepsLockInv, LocalKeepsLockInv DEF Request
    <2>3. ASSUME NEW r \in Req, Crash(r)
          PROVE  LockInv'
      BY <1>2, <2>3, FinishKeepsLockInv DEF Crash
    <2>4. CASE Sweep \/ SweepCrash
      BY <1>2, <2>4, SweepKeepsLockInv
    <2>5. CASE Tick
      BY <1>2, <2>5
      DEF Tick, lockVars, LockInv, ProperlyHeld, MigratesInside, Rebuilds, LockMode, IsWrite
    <2>6. CASE Restart
      BY <1>2, <2>6, ProcessesAreDistinct
      DEF Restart, LockInv, ProperlyHeld, MigratesInside, Rebuilds, PurgePcs
    <2> QED BY <1>2, <2>1, <2>2, <2>3, <2>4, <2>5, <2>6 DEF Next, Idle
  <1> QED BY <1>1, <1>2

-----------------------------------------------------------------------------
(* A step of one request keeps SlotInv when it leaves the semaphore files  *)
(* of the others alone.                                                    *)
LEMMA OneRequestMoves ==
  ASSUME SlotInv, NEW r \in Req,
         \A q \in Req \ {r} : /\ pc'[q] = pc[q] /\ frame'[q] = frame[q]
                              /\ SlotsOf(q)' = SlotsOf(q),
         SlotsKept(r)'
  PROVE  SlotInv'
  BY DEF SlotInv, SlotsKept

LEMMA FinishKeepsSlotInv ==
  ASSUME TypeInv, SlotInv, NEW r \in Req, NEW answer, Finish(r, answer)
  PROVE  SlotInv'
  <1>1. pc'[r] = "done" /\ frame'[r] = "outer" /\ SlotsOf(r)' = {}
    BY ProcessesAreDistinct
    DEF Finish, Answer, Goto, AllSlotsReturned, SlotsOf, TypeInv, TypeOK, StoreTypeOK
  <1>2. ASSUME NEW q \in Req \ {r}
        PROVE  pc'[q] = pc[q] /\ frame'[q] = frame[q] /\ SlotsOf(q)' = SlotsOf(q)
    BY <1>2, ProcessesAreDistinct
    DEF Finish, Answer, Goto, AllSlotsReturned, SlotsOf, TypeInv, TypeOK, StoreTypeOK
  <1> QED BY <1>1, <1>2, OneRequestMoves DEF SlotsKept

LEMMA AnswerKeepsSlotInv ==
  ASSUME TypeInv, SlotInv, NEW r \in Req, NEW answer, Answer(r, answer), UNCHANGED slot,
         pc[r] = "sync", frame[r] # "inner"
  PROVE  SlotInv'
  <1>1. \A q \in Req : SlotsOf(q)' = SlotsOf(q)
    BY DEF SlotsOf
  <1>2. SlotsKept(r)'
    BY <1>1, ProcessesAreDistinct
    DEF Answer, Goto, SlotInv, SlotsKept, TypeInv, TypeOK, StoreTypeOK
  <1>3. \A q \in Req \ {r} : pc'[q] = pc[q] /\ frame'[q] = frame[q]
    BY DEF Answer, Goto, TypeInv, TypeOK, StoreTypeOK
  <1> QED BY <1>1, <1>2, <1>3, OneRequestMoves

(* A step of get moves neither a semaphore file nor a frame, and stays     *)
(* outside of the operation.                                               *)
LEMMA GetKeepsSlotInv ==
  ASSUME TypeInv, SlotInv, NEW r \in Req, Get(r)
  PROVE  SlotInv'
  <1>a. pc \in [Procs -> RequestPcs \cup SweepPcs]
    BY DEF TypeInv, TypeOK
  <1>b. ASSUME pc' = [pc EXCEPT ![r] = pc'[r]], frame' = frame, slot' = slot,
               {pc[r], pc'[r]} \cap {"lock", "load", "op"} = {}
        PROVE  SlotInv'
    <2>1. \A q \in Req : SlotsOf(q)' = SlotsOf(q)
      BY <1>b DEF SlotsOf
    <2>2. SlotsKept(r)'
      BY <1>b, <2>1 DEF SlotInv, SlotsKept
    <2> QED BY <1>a, <1>b, <2>1, <2>2, OneRequestMoves
  <1>c. \/ \E answer : Finish(r, answer)
        \/ /\ pc' = [pc EXCEPT ![r] = pc'[r]] /\ frame' = frame /\ slot' = slot
           /\ {pc[r], pc'[r]} \cap {"lock", "load", "op"} = {}
    <2> USE DEF Step, Goto, envVars
    <2>1. CASE Lookup(r)
      BY <1>a, <2>1 DEF Lookup, NotFound
    <2>2. CASE CheckFolder(r)
      BY <1>a, <2>2 DEF CheckFolder
    <2>3. CASE DropRecord(r)
      BY <1>a, <2>3 DEF DropRecord, NotFound
    <2>4. CASE Touch(r)
      BY <1>a, <2>4 DEF Touch
    <2>5. CASE UpdateLock(r)
      BY <1>a, <2>5 DEF UpdateLock
    <2>6. CASE Update(r)
      BY <1>a, <2>6 DEF Update
    <2>7. CASE UpdateFails(r)
      BY <1>a, <2>7 DEF UpdateFails
    <2>8. CASE NothingToUpdate(r)
      BY <1>a, <2>8 DEF NothingToUpdate
    <2>9. CASE UpdateSave(r)
      BY <1>a, <2>9 DEF UpdateSave
    <2>10. CASE CloneLock(r)
      BY <1>a, <2>10 DEF CloneLock
    <2>11. CASE CloneCheck(r)
      BY <1>a, <2>11 DEF CloneCheck
    <2>12. CASE CloneTouch(r)
      BY <1>a, <2>12 DEF CloneTouch
    <2>13. CASE Wipe(r)
      BY <1>a, <2>13 DEF Wipe
    <2>14. CASE Clone(r)
      BY <1>a, <2>14 DEF Clone
    <2>15. CASE CloneFails(r)
      BY <1>a, <2>15 DEF CloneFails
    <2>16. CASE CloneSave(r)
      BY <1>a, <2>16 DEF CloneSave
    <2>17. CASE PurgeFolder(r)
      BY <1>a, <2>17 DEF PurgeFolder
    <2>18. CASE PurgeFails(r)
      BY <1>a, <2>18 DEF PurgeFails
    <2>19. CASE PurgeRecord(r)
      BY <1>a, <2>19 DEF PurgeRecord
    <2> QED
      BY <2>1, <2>2, <2>3, <2>4, <2>5, <2>6, <2>7, <2>8, <2>9, <2>10, <2>11, <2>12, <2>13, <2>14,
         <2>15, <2>16, <2>17, <2>18, <2>19 DEF Get
  <1> QED BY <1>b, <1>c, FinishKeepsSlotInv

LEMMA LocalKeepsSlotInv ==
  ASSUME TypeInv, LockInv, SlotInv, NEW r \in Req, Local(r)
  PROVE  SlotInv'
  <1> USE ProcessesAreDistinct
  <1>a. /\ pc \in [Procs -> RequestPcs \cup SweepPcs] /\ slot \in [Slots -> Req \cup {Free}]
        /\ frame \in [Req -> {"outer", "inner"}]
        /\ SlotsKept(r) /\ MigratesInside(r)
    BY DEF TypeInv, TypeOK, StoreTypeOK, SlotInv, LockInv
  <1>b. ASSUME pc' = [pc EXCEPT ![r] = pc'[r]], frame' = [frame EXCEPT ![r] = frame'[r]],
               \A s \in Slots : slot'[s] = slot[s] \/ {slot[s], slot'[s]} \subseteq {r, Free},
               SlotsKept(r)'
        PROVE  SlotInv'
    <2>1. \A q \in Req \ {r} : SlotsOf(q)' = SlotsOf(q)
      BY <1>b DEF SlotsOf
    <2> QED BY <1>a, <1>b, <2>1, OneRequestMoves
  <1>e. frame' = frame => frame' = [frame EXCEPT ![r] = frame'[r]]
    BY <1>a
  <1>f. slot' = slot => SlotsOf(r)' = SlotsOf(r)
    BY DEF SlotsOf
  <1> USE DEF Goto, Step, SlotsKept
  <1>1. CASE AcquireSlot(r)
    <2>1. PICK s \in FreeSlots : slot' = [slot EXCEPT ![s] = r]
      BY <1>1 DEF AcquireSlot
    <2>2. s \in Slots /\ slot[s] = Free /\ s \notin SlotsOf(r) /\ SlotsOf(r)' = SlotsOf(r) \cup {s}
      BY <1>a, <2>1 DEF FreeSlots, SlotsOf
    <2>3. \A t \in Slots : slot'[t] = slot[t] \/ {slot[t], slot'[t]} \subseteq {r, Free}
      BY <1>a, <2>1, <2>2
    <2>4. frame' = frame /\ pc[r] = "slot" /\ pc'[r] \in {"load", "lock"} /\ pc' = [pc EXCEPT ![r] = pc'[r]]
          /\ (pc'[r] = "load" <=> frame[r] = "inner")
      BY <1>1, <1>a DEF AcquireSlot
    <2>5. SlotsKept(r)'
      BY <1>a, <2>2, <2>4
    <2> QED BY <1>b, <1>e, <2>3, <2>4, <2>5
  <1>2. CASE SlotTimeout(r)
    BY <1>2, FinishKeepsSlotInv DEF SlotTimeout
  <1>3. CASE AcquireLock(r)
    BY <1>3, <1>a, <1>b, <1>e, <1>f DEF AcquireLock, MigratesInside
  <1>4. CASE ReadLockTimeout(r)
    BY <1>4, FinishKeepsSlotInv DEF ReadLockTimeout
  <1>5. CASE Load(r)
    BY <1>5, <1>a, <1>b, <1>e, <1>f DEF Load
  <1>6. CASE LoadFails(r)
    BY <1>6, FinishKeepsSlotInv DEF LoadFails
  <1>7. CASE Read(r)
    BY <1>7, FinishKeepsSlotInv DEF Read, Finish, LeaveOuter
  <1>8. CASE Write(r)
    <2>1. SlotsOf(r)' = {} /\ \A s \in Slots : slot'[s] = slot[s] \/ {slot[s], slot'[s]} \subseteq {r, Free}
      BY <1>8 DEF Write, LeaveOuter, AllSlotsReturned, SlotsOf
    <2> QED BY <1>8, <1>a, <1>b, <1>e, <2>1 DEF Write
  <1>9. CASE Migrate(r)
    <2>1. PICK s \in SlotsOf(r) : slot' = [slot EXCEPT ![s] = Free]
      BY <1>9 DEF Migrate, LeaveInner
    <2>2. SlotsOf(r)' = SlotsOf(r) \ {s}
      BY <1>a, <2>1 DEF SlotsOf
    <2>3. \A t \in Slots : slot'[t] = slot[t] \/ {slot[t], slot'[t]} \subseteq {r, Free}
      BY <1>a, <2>1 DEF SlotsOf
    <2>4. frame' = frame /\ frame[r] = "inner" /\ pc[r] = "op" /\ pc'[r] = "sync" /\ pc' = [pc EXCEPT ![r] = pc'[r]]
      BY <1>9, <1>a DEF Migrate
    <2>5. SlotsKept(r)'
      BY <1>a, <2>2, <2>4
    <2> QED BY <1>b, <1>e, <2>3, <2>4, <2>5
  <1>10. CASE OpFails(r)
    BY <1>10, FinishKeepsSlotInv DEF OpFails
  <1>11. CASE Push(r)
    <2>1. CASE frame[r] = "inner"
      BY <1>11, <1>a, <1>b, <1>f, <2>1 DEF Push, Synced
    <2>2. CASE frame[r] # "inner"
      BY <1>11, <2>2, AnswerKeepsSlotInv DEF Push, Synced
    <2> QED BY <2>1, <2>2
  <1>12. CASE PushToNewBranch(r)
    <2>1. CASE frame[r] = "inner"
      BY <1>12, <1>a, <1>b, <1>f, <2>1 DEF PushToNewBranch, Synced
    <2>2. CASE frame[r] # "inner"
      BY <1>12, <2>2, AnswerKeepsSlotInv DEF PushToNewBranch, Synced
    <2> QED BY <2>1, <2>2
  <1>13. CASE PushFails(r)
    BY <1>13, FinishKeepsSlotInv, AnswerKeepsSlotInv DEF PushFails
  <1>14. CASE Status(r)
    BY <1>14, <1>a, <1>b, <1>e, <1>f, FinishKeepsSlotInv DEF Status
  <1>15. CASE TryRead(r)
    BY <1>15, FinishKeepsSlotInv DEF TryRead
  <1> QED
    BY <1>1, <1>2, <1>3, <1>4, <1>5, <1>6, <1>7, <1>8, <1>9, <1>10, <1>11, <1>12, <1>13, <1>14,
       <1>15 DEF Local

LEMMA SlotInvInductive ==
  /\ Init => SlotInv
  /\ TypeInv /\ LockInv /\ SlotInv /\ [Next]_vars => SlotInv'
  <1>1. Init => SlotInv
    BY ProcessesAreDistinct DEF Init, StoreInit, SlotInv, SlotsKept, SlotsOf
  <1>2. ASSUME TypeInv, LockInv, SlotInv, [Next]_vars
        PROVE  SlotInv'
    <2>a. ASSUME slot' = slot, frame' = frame, \A r \in Req : pc'[r] = pc[r]
          PROVE  SlotInv'
      BY <1>2, <2>a DEF SlotInv, SlotsKept, SlotsOf
    <2>b. pc \in [Procs -> RequestPcs \cup SweepPcs]
      BY <1>2 DEF TypeInv, TypeOK
    <2>1. CASE UNCHANGED vars
      BY <2>1, <2>a DEF vars
    <2>2. ASSUME NEW r \in Req, Request(r)
          PROVE  SlotInv'
      BY <1>2, <2>2, GetKeepsSlotInv, LocalKeepsSlotInv DEF Request
    <2>3. ASSUME NEW r \in Req, Crash(r)
          PROVE  SlotInv'
      BY <1>2, <2>3, FinishKeepsSlotInv DEF Crash
    <2>4. CASE Sweep \/ SweepCrash
      BY <2>4, <2>a, <2>b, ProcessesAreDistinct
      DEF Sweep, SweepCrash, StartSweep, EndSweep, EvictLock, EvictFails, EvictRecord, PurgeFolder,
          ScanExpired, ScanKept, SweepOnly, Step, Goto
    <2>5. CASE Tick
      BY <2>5, <2>a DEF Tick, lockVars
    <2>6. CASE Restart
      BY <1>2, <2>6, ProcessesAreDistinct DEF Restart, SlotInv, SlotsKept, SlotsOf
    <2> QED BY <1>2, <2>1, <2>2, <2>3, <2>4, <2>5, <2>6 DEF Next, Idle
  <1> QED BY <1>1, <1>2

-----------------------------------------------------------------------------
(***************************************************************************)
(* The theorems.                                                           *)
(***************************************************************************)
IInv == TypeInv /\ LockInv /\ SlotInv

LEMMA IInvHolds == Spec => []IInv
  <1>1. Init => IInv
    BY InitTyped, LockInvInductive, SlotInvInductive DEF IInv
  <1>2. IInv /\ [Next]_vars => IInv'
    BY NextTyped, LockInvInductive, SlotInvInductive DEF IInv
  <1> QED BY <1>1, <1>2, PTL DEF Spec

(* Where a process stands tells how it holds the lock.                     *)
LEMMA HeldBy ==
  ASSUME IInv
  PROVE  /\ \A p \in Procs : Rebuilds(p) => holds[p] = "exclusive"
         /\ \A r \in Req : InOperation(r) => holds[r] # "none" /\ ~Rebuilds(r)
         /\ \A r \in Req : InOperation(r) /\ (IsWrite(r) \/ req[r].migrate)
                            => holds[r] = "exclusive"
  BY DEF IInv, LockInv, ProperlyHeld, MigratesInside, Rebuilds, PurgePcs, InOperation, LockMode

(* While an operation runs in the clone nobody rebuilds or removes it, and *)
(* no two processes rebuild it: get, local and evict exclude each other.   *)
THEOREM ClonesAreRebuiltAlone == Spec => []RebuildsRunAlone
  <1>1. IInv => RebuildsRunAlone
    BY HeldBy DEF RebuildsRunAlone, IInv, LockInv
  <1> QED BY <1>1, IInvHolds, PTL

(* A write or a migrating request runs its operation alone.                *)
THEOREM WritesExcludeEveryone == Spec => []WritesRunAlone
  <1>1. IInv => WritesRunAlone
    BY HeldBy DEF WritesRunAlone, IInv, LockInv
  <1> QED BY <1>1, IInvHolds, PTL

(* Whoever needs the clone for itself, to rebuild it or to write into it,  *)
(* has it for itself.                                                      *)
THEOREM LockedWorkExcludesEveryone == Spec => []LockedWorkRunsAlone
  BY ClonesAreRebuiltAlone, WritesExcludeEveryone, PTL DEF LockedWorkRunsAlone

(* An answered request has given back the lock and every semaphore file,   *)
(* and the semaphore bounds the requests past it: each of them owns a file *)
(* of its own.                                                             *)
THEOREM AnswersLeakNothing == Spec => []NothingLeaks
  <1>1. ASSUME IInv, NEW r \in Req, pc[r] = "done"
        PROVE  holds[r] = "none" /\ SlotsOf(r) = {}
    BY <1>1
    DEF IInv, LockInv, ProperlyHeld, MigratesInside, Rebuilds, PurgePcs, SlotInv, SlotsKept,
        TypeInv, TypeOK
  <1>2. ASSUME IInv
        PROVE  Cardinality({r \in Req : pc[r] \in {"lock", "load", "op"}}) <= Cardinality(Slots)
    <2> DEFINE Past == {r \in Req : pc[r] \in {"lock", "load", "op"}}
               own == [r \in Past |-> CHOOSE s \in Slots : slot[s] = r]
    <2>1. \A r \in Past : own[r] \in Slots /\ slot[own[r]] = r
      BY <1>2 DEF IInv, SlotInv, SlotsKept, SlotsOf
    <2>2. own \in [Past -> Slots]
      BY <2>1
    <2>3. \A a, b \in Past : own[a] = own[b] => a = b
      BY <2>1
    <2>4. own \in Injection(Past, Slots)
      <3> HIDE DEF own, Past
      <3> QED BY <2>2, <2>3 DEF Injection, IsInjective
    <2> QED BY <2>4, SlotsAreFinite, FS_Injection
  <1>3. IInv => NothingLeaks
    BY <1>1, <1>2 DEF NothingLeaks
  <1> QED BY <1>3, IInvHolds, PTL

-----------------------------------------------------------------------------
(***************************************************************************)
(* One clone for everybody.  This holds as long as nothing takes the clone *)
(* away from the requests that share it: no sweep, no crash, no second     *)
(* branch (its record would be a second one of the same folder) and no     *)
(* fetch that fails (the project is purged then).                          *)
(***************************************************************************)
NothingRemovesClone ==
    /\ ~Sweeping
    /\ MaxCrashes = 0
    /\ Branches = {NoBranch}
    /\ GitMayFail => FetchTime > MaxTime

FetchPcs == {"updateLock", "update", "updateSave"}
ClonePcs == {"wipe", "clone", "cloneSave"}

UsesClone(r) ==
    \/ frame[r] = "inner"
    \/ pc[r] \in {"exists", "touch", "cloneTouch", "slot", "lock", "load", "op", "sync"} \cup FetchPcs

MakesClone(r) == pc[r] \in {"cloneLock", "cloneCheck"} \cup ClonePcs

(* Whoever uses the clone has the record of it in hand; whoever is about   *)
(* to make one has a new record, and clones only when there is none yet.   *)
Shares(r) ==
    /\ UsesClone(r) => Known(snap[r].id)
    /\ MakesClone(r) => frame[r] = "outer" /\ snap[r].id = r /\ ~Known(r)
    /\ pc[r] \in ClonePcs => records = {}
    /\ pc[r] = "cloneSave" => dir = "clone"
    /\ pc[r] \in FetchPcs => FetchTime <= MaxTime
    /\ pc[r] \notin {"drop"} \cup PurgePcs

SharingInv ==
    /\ \A o, other \in records : o = other
    /\ records # {} => dir = "clone"
    /\ pc[Evictor] = "idle"
    /\ \A r \in Req : Shares(r)

(* An object that is saved is the only record afterwards, whether it takes *)
(* the place of the one there was or is the first.                         *)
LEMMA SavedAlone ==
  ASSUME SharingInv, NEW o, Known(o.id) \/ records = {}
  PROVE  Saved(o) = {o}
  BY DEF SharingInv, Saved, Known, WithId

LEMMA AllRecordsMatch ==
  ASSUME TypeInv, NothingRemovesClone, NEW r \in Req
  PROVE  OfBranch(Branch(r)) = records /\ NewProject(r, Branch(r)).id = r
  <1>1. \A o \in Project : o.branch = NoBranch
    BY DEF NothingRemovesClone, Project
  <1>2. Branch(r) = NoBranch
    BY <1>1, WorkloadIsTyped DEF NothingRemovesClone, Branch, TypeInv, TypeOK, ObjectsInHand, Requests
  <1>3. records \subseteq Project
    BY DEF TypeInv, TypeOK, StoreTypeOK
  <1> QED BY <1>1, <1>2, <1>3 DEF OfBranch, NewProject

LEMMA NoRecordWithoutId == (\A id \in Req : ~Known(id)) /\ records \subseteq Project => records = {}
  BY DEF Known, WithId, Project

(* A step of one request keeps SharingInv for the others when it forgets   *)
(* no record, and makes one only while it alone works on the folder.       *)
LEMMA OneRequestShares ==
  ASSUME IInv, SharingInv, NEW r \in Req,
         \A p \in Procs \ {r} : pc'[p] = pc[p] /\ snap'[p] = snap[p],
         \A q \in Req \ {r} : frame'[q] = frame[q],
         \A id \in Req : Known(id) => Known(id)',
         \A id \in Req : Known(id)' => Known(id) \/ id = r,
         \A o, other \in records' : o = other,
         records' # {} => dir' = "clone",
         \/ Rebuilds(r)
         \/ (records = {} => records' = {}) /\ (dir = "clone" => dir' = "clone"),
         Shares(r)'
  PROVE  SharingInv'
  <1>1. ASSUME NEW q \in Req \ {r}
        PROVE  Shares(q)'
    <2>1. UsesClone(q) => snap[q] \in Project
      BY DEF UsesClone, FetchPcs, IInv, TypeInv, ObjectsInHand
    <2>2. UsesClone(q)' = UsesClone(q) /\ MakesClone(q)' = MakesClone(q)
      BY DEF UsesClone, MakesClone
    <2>3. Rebuilds(r) => pc[q] \notin ClonePcs
      BY HeldBy DEF Rebuilds, ClonePcs, IInv, LockInv
    <2>4. UsesClone(q) => Known(snap[q].id)'
      BY <2>1 DEF SharingInv, Shares, Project
    <2>5. MakesClone(q) => frame'[q] = "outer" /\ snap'[q].id = q /\ ~Known(q)'
      BY DEF SharingInv, Shares
    <2>6. pc'[q] \in ClonePcs => records' = {}
      BY <2>3 DEF SharingInv, Shares
    <2>7. pc'[q] = "cloneSave" => dir' = "clone"
      BY <2>3 DEF SharingInv, Shares, ClonePcs
    <2> QED BY <2>2, <2>4, <2>5, <2>6, <2>7 DEF SharingInv, Shares
  <1>2. pc'[Evictor] = "idle"
    BY ProcessesAreDistinct DEF SharingInv
  <1> QED BY <1>1, <1>2 DEF SharingInv

(* A request that is answered shares nothing any more.                     *)
LEMMA FinishKeepsSharing ==
  ASSUME IInv, SharingInv, NEW r \in Req, NEW answer, Answer(r, answer),
         \A id \in Req : Known(id) => Known(id)',
         \A id \in Req : Known(id)' => Known(id) \/ id = r,
         \A o, other \in records' : o = other,
         records' # {} => dir' = "clone",
         \/ Rebuilds(r)
         \/ (records = {} => records' = {}) /\ (dir = "clone" => dir' = "clone")
  PROVE  SharingInv'
  <1>1. pc'[r] = "done" /\ frame'[r] = "outer"
    BY DEF Answer, Goto, IInv, TypeInv, TypeOK
  <1>2. Shares(r)'
    BY <1>1 DEF Shares, UsesClone, MakesClone, FetchPcs, ClonePcs, PurgePcs
  <1>3. \A p \in Procs \ {r} : pc'[p] = pc[p] /\ snap'[p] = snap[p]
    BY DEF Answer, Goto, Hold, IInv, TypeInv, TypeOK
  <1>4. \A q \in Req \ {r} : frame'[q] = frame[q]
    BY DEF Answer, IInv, TypeInv, TypeOK
  <1> QED BY <1>2, <1>3, <1>4, OneRequestShares

LEMMA SameRecords ==
  ASSUME SharingInv, UNCHANGED <<records, dir>>
  PROVE  /\ \A id : Known(id)' = Known(id)
         /\ \A o, other \in records' : o = other
         /\ records' # {} => dir' = "clone"
         /\ (records = {} => records' = {}) /\ (dir = "clone" => dir' = "clone")
  BY DEF SharingInv, Known, WithId

(* A record that is saved again replaces itself.                           *)
LEMMA SameRecordSaved ==
  ASSUME SharingInv, NEW o, Known(o.id), records' = Saved(o), UNCHANGED dir
  PROVE  /\ \A id : Known(id)' = Known(id)
         /\ \A one, other \in records' : one = other
         /\ records' # {} => dir' = "clone"
         /\ (records = {} => records' = {}) /\ (dir = "clone" => dir' = "clone")
  BY SavedAlone DEF SharingInv, Known, WithId

LEMMA GetKeepsSharing ==
  ASSUME NothingRemovesClone, IInv, SharingInv, NEW r \in Req, Get(r)
  PROVE  SharingInv'
  <1> USE ProcessesAreDistinct
  <1>a. /\ pc \in [Procs -> RequestPcs \cup SweepPcs] /\ frame \in [Req -> {"outer", "inner"}]
        /\ snap \in [Procs -> Project \cup {NoProject}] /\ records \subseteq Project
        /\ FetchTime \in Nat /\ MaxTime \in Nat /\ now \in 0 .. MaxTime
    BY TimesAreNaturals DEF IInv, TypeInv, TypeOK, StoreTypeOK, Time
  <1>b. pc[r] \notin {"lookup", "status", "done"} => snap[r] \in Project
    BY DEF IInv, TypeInv, ObjectsInHand
  <1>c. Shares(r) /\ (\A o, other \in records : o = other) /\ (records # {} => dir = "clone")
    BY DEF SharingInv
  <1>e. ASSUME pc' = [pc EXCEPT ![r] = pc'[r]], frame' = frame,
               snap' = [snap EXCEPT ![r] = snap'[r]],
               \A id \in Req : Known(id) => Known(id)',
               \A id \in Req : Known(id)' => Known(id) \/ id = r,
               \A o, other \in records' : o = other,
               records' # {} => dir' = "clone",
               \/ Rebuilds(r)
               \/ (records = {} => records' = {}) /\ (dir = "clone" => dir' = "clone"),
               Shares(r)'
        PROVE  SharingInv'
    BY <1>a, <1>e, OneRequestShares
  <1>f. snap' = snap => snap' = [snap EXCEPT ![r] = snap'[r]]
    BY <1>a
  <1> USE DEF Step, Goto, Hold, envVars, storeVars, Shares, UsesClone, MakesClone, FetchPcs, ClonePcs,
              PurgePcs
  <1>1. CASE Lookup(r)
    <2>0. OfBranch(Branch(r)) = records /\ NewProject(r, Branch(r)).id = r
      BY AllRecordsMatch DEF IInv
    <2>1. ASSUME NEW o \in records, Hold(r, o), Step(r, "exists"), UNCHANGED <<records, dir>>
          PROVE  SharingInv'
      <3>1. Known(o.id)'
        BY <2>1 DEF Known, WithId
      <3> QED BY <1>a, <1>c, <1>e, <2>1, <3>1, SameRecords
    <2>2. CASE NoSingle(records) /\ NotFound(r) /\ UNCHANGED records
      <3>1. records = {}
        BY <1>c, <2>2 DEF NoSingle, IsOnly
      <3>2. frame[r] = "outer" /\ \A id : ~Known(id) /\ ~Known(id)'
        BY <1>a, <1>c, <2>2, <3>1 DEF Known, WithId
      <3>3. snap'[r].id = r /\ snap' = [snap EXCEPT ![r] = snap'[r]]
        BY <1>a, <2>0, <2>2 DEF NotFound
      <3>4. pc'[r] = "cloneLock" /\ pc' = [pc EXCEPT ![r] = pc'[r]] /\ frame' = frame /\ records' = {}
            /\ (dir = "clone" => dir' = "clone")
        BY <1>a, <2>2, <3>1 DEF NotFound
      <3> QED BY <1>e, <3>1, <3>2, <3>3, <3>4
    <2> QED BY <1>1, <2>0, <2>1, <2>2 DEF Lookup
  <1>2. CASE CheckFolder(r)
    <2>1. FolderExists
      BY <1>2, <1>c DEF CheckFolder, FolderExists, Known, WithId
    <2>2. NeedsFetch(snap[r]) => FetchTime <= MaxTime
      BY <1>2, <1>a, <1>b DEF CheckFolder, NeedsFetch, Project, Time
    <2> QED BY <1>2, <1>a, <1>c, <1>e, <1>f, <2>1, <2>2, SameRecords DEF CheckFolder
  <1>3. CASE DropRecord(r)
    BY <1>3, <1>c DEF DropRecord
  <1>4. CASE Touch(r)
    <2>1. CASE snap[r].initialized
      <3> DEFINE o == [snap[r] EXCEPT !.accessed = now]
      <3>1. o.id = snap[r].id /\ Known(o.id)
        BY <1>4, <1>b, <1>c DEF Touch, Project
      <3>2. records' = Saved(o) /\ Hold(r, o) /\ Step(r, "slot") /\ dir' = dir
        BY <1>4, <2>1 DEF Touch
      <3>3. snap' = [snap EXCEPT ![r] = o] /\ snap'[r] = o
        BY <1>a, <3>2
      <3> HIDE DEF o
      <3> QED BY <1>4, <1>a, <1>e, <3>1, <3>2, <3>3, SameRecordSaved DEF Touch
    <2>2. CASE ~snap[r].initialized
      BY <1>4, <2>2, SameRecords, FinishKeepsSharing DEF Touch, Finish
    <2> QED BY <2>1, <2>2
  <1>5. CASE UpdateLock(r)
    BY <1>5, <1>a, <1>c, <1>e, <1>f, SameRecords DEF UpdateLock
  <1>6. CASE Update(r)
    BY <1>6, <1>a, <1>c, <1>e, <1>f, SameRecords DEF Update
  <1>7. CASE UpdateFails(r)
    BY <1>7, <1>a, <1>c DEF UpdateFails, NothingRemovesClone, Known, WithId
  <1>8. CASE NothingToUpdate(r)
    BY <1>8, SameRecords, FinishKeepsSharing DEF NothingToUpdate, Finish
  <1>9. CASE UpdateSave(r)
    <2> DEFINE o == [snap[r] EXCEPT !.fetched = now]
    <2>1. o.id = snap[r].id /\ Known(o.id)
      BY <1>9, <1>b, <1>c DEF UpdateSave, Project
    <2>2. records' = Saved(o) /\ Hold(r, o) /\ Step(r, "touch") /\ dir' = dir
      BY <1>9 DEF UpdateSave
    <2>3. snap' = [snap EXCEPT ![r] = o] /\ snap'[r] = o
      BY <1>a, <2>2
    <2> HIDE DEF o
    <2> QED BY <1>9, <1>a, <1>e, <2>1, <2>2, <2>3, SameRecordSaved DEF UpdateSave
  <1>10. CASE CloneLock(r)
    BY <1>10, <1>a, <1>c, <1>e, <1>f, SameRecords DEF CloneLock
  <1>11. CASE CloneCheck(r)
    <2>0. OthersOf(r) = records
      <3>1. OfBranch(Branch(r)) = records
        BY AllRecordsMatch DEF IInv
      <3> QED BY <1>11, <1>c, <3>1 DEF CloneCheck, OthersOf, Known, WithId
    <2>1. ASSUME NEW o \in records, Hold(r, o), Step(r, "cloneTouch"), UNCHANGED <<records, dir>>
          PROVE  SharingInv'
      <3>1. Known(o.id)'
        BY <2>1 DEF Known, WithId
      <3> QED BY <1>a, <1>c, <1>e, <2>1, <3>1, SameRecords
    <2>2. CASE (NoSingle(records) \/ ~FolderExists) /\ Step(r, "wipe") /\ UNCHANGED <<records, dir, snap>>
      <3>1. records = {}
        BY <1>c, <2>2 DEF NoSingle, IsOnly, FolderExists
      <3> QED BY <1>11, <1>a, <1>c, <1>e, <1>f, <2>2, <3>1, SameRecords DEF CloneCheck
    <2> QED BY <1>11, <2>0, <2>1, <2>2 DEF CloneCheck
  <1>12. CASE CloneTouch(r)
    <2> DEFINE o == [snap[r] EXCEPT !.accessed = now]
    <2>1. o.id = snap[r].id /\ Known(o.id)
      BY <1>12, <1>b, <1>c DEF CloneTouch, Project
    <2>2. records' = Saved(o) /\ Hold(r, o) /\ Step(r, "slot") /\ dir' = dir
      BY <1>12 DEF CloneTouch
    <2>3. snap' = [snap EXCEPT ![r] = o] /\ snap'[r] = o
      BY <1>a, <2>2
    <2> HIDE DEF o
    <2> QED BY <1>12, <1>a, <1>e, <2>1, <2>2, <2>3, SameRecordSaved DEF CloneTouch
  <1>13. CASE Wipe(r)
    <2>1. records' = {} /\ records = {} /\ \A id : ~Known(id) /\ ~Known(id)'
      BY <1>13, <1>c DEF Wipe, Known, WithId
    <2> QED BY <1>13, <1>a, <1>c, <1>e, <1>f, <2>1 DEF Wipe, Rebuilds
  <1>14. CASE Clone(r)
    <2>1. records' = {} /\ records = {} /\ \A id : ~Known(id) /\ ~Known(id)'
      BY <1>14, <1>c DEF Clone, Known, WithId
    <2>2. snap' = [snap EXCEPT ![r] = snap'[r]] /\ snap'[r].id = r
      BY <1>14, <1>a, <1>b, <1>c DEF Clone, Project
    <2> QED BY <1>14, <1>a, <1>c, <1>e, <2>1, <2>2 DEF Clone, Rebuilds
  <1>15. CASE CloneFails(r)
    <2>1. records' = {} /\ records = {} /\ \A id : ~Known(id) /\ ~Known(id)'
      BY <1>15, <1>c DEF CloneFails, Known, WithId
    <2> QED BY <1>15, <2>1, FinishKeepsSharing DEF CloneFails, Finish, Rebuilds
  <1>16. CASE CloneSave(r)
    <2>1. records = {} /\ snap[r].id = r /\ dir' = "clone" /\ frame[r] = "outer" /\ Rebuilds(r)
      BY <1>16, <1>c DEF CloneSave, Rebuilds
    <2>2. records' = {snap[r]}
      BY <1>16, <2>1, SavedAlone DEF CloneSave
    <2>3. (\A id : ~Known(id)) /\ Known(r)' /\ \A id : Known(id)' => id = r
      BY <2>1, <2>2 DEF Known, WithId
    <2>4. CASE snap[r].initialized
      BY <1>16, <1>a, <1>e, <1>f, <2>1, <2>2, <2>3, <2>4 DEF CloneSave
    <2>5. CASE ~snap[r].initialized
      BY <1>16, <2>1, <2>2, <2>3, <2>5, FinishKeepsSharing DEF CloneSave, Finish
    <2> QED BY <2>4, <2>5
  <1>17. CASE PurgeFolder(r) \/ PurgeFails(r) \/ PurgeRecord(r)
    BY <1>17, <1>c DEF PurgeFolder, PurgeFails, PurgeRecord, RemovalDisturbed
  <1> QED
    BY <1>1, <1>2, <1>3, <1>4, <1>5, <1>6, <1>7, <1>8, <1>9, <1>10, <1>11, <1>12, <1>13, <1>14,
       <1>15, <1>16, <1>17 DEF Get

LEMMA LocalKeepsSharing ==
  ASSUME IInv, SharingInv, NEW r \in Req, Local(r)
  PROVE  SharingInv'
  <1> USE ProcessesAreDistinct
  <1>a. /\ pc \in [Procs -> RequestPcs \cup SweepPcs] /\ frame \in [Req -> {"outer", "inner"}]
        /\ snap \in [Procs -> Project \cup {NoProject}] /\ records \subseteq Project
        /\ Shares(r)
    BY DEF IInv, TypeInv, TypeOK, StoreTypeOK, SharingInv
  <1>b. ASSUME pc' = [pc EXCEPT ![r] = pc'[r]], frame' = [frame EXCEPT ![r] = frame'[r]],
               snap' = [snap EXCEPT ![r] = snap'[r]], UNCHANGED <<records, dir>>, Shares(r)'
        PROVE  SharingInv'
    BY <1>a, <1>b, OneRequestShares, SameRecords
  <1>c. ASSUME UNCHANGED <<records, dir>>, \E answer : Answer(r, answer)
        PROVE  SharingInv'
    BY <1>c, FinishKeepsSharing, SameRecords
  <1>d. (snap' = snap => snap' = [snap EXCEPT ![r] = snap'[r]])
        /\ (frame' = frame => frame' = [frame EXCEPT ![r] = frame'[r]])
    BY <1>a
  <1>e. UNCHANGED records => \A id : Known(id)' = Known(id)
    BY DEF Known, WithId
  <1> USE DEF Step, Goto, Hold, envVars, storeVars, Finish, Shares, UsesClone, MakesClone, FetchPcs,
              ClonePcs, PurgePcs
  <1>1. CASE AcquireSlot(r)
    BY <1>1, <1>a, <1>b, <1>d, <1>e DEF AcquireSlot
  <1>2. CASE SlotTimeout(r)
    BY <1>2, <1>c DEF SlotTimeout
  <1>3. CASE AcquireLock(r)
    BY <1>3, <1>a, <1>b, <1>d, <1>e DEF AcquireLock
  <1>4. CASE ReadLockTimeout(r)
    BY <1>4, <1>c DEF ReadLockTimeout
  <1>5. CASE Load(r)
    <2>1. PICK o \in WithId(snap[r].id) : Hold(r, o)
      BY <1>5 DEF Load
    <2>2. Known(o.id)' /\ snap' = [snap EXCEPT ![r] = o] /\ snap'[r] = o
      BY <1>5, <1>a, <1>e, <2>1 DEF Load, Known, WithId
    <2> QED BY <1>5, <1>a, <1>b, <1>d, <2>2 DEF Load
  <1>6. CASE LoadFails(r)
    BY <1>6, <1>c DEF LoadFails
  <1>7. CASE Read(r)
    BY <1>7, <1>c DEF Read
  <1>8. CASE Write(r)
    BY <1>8, <1>a, <1>b, <1>d, <1>e DEF Write
  <1>9. CASE Migrate(r)
    BY <1>9, <1>a, <1>b, <1>d, <1>e DEF Migrate
  <1>10. CASE OpFails(r)
    BY <1>10, <1>c DEF OpFails
  <1>11. CASE Push(r)
    <2>1. CASE frame[r] = "inner"
      BY <1>11, <1>a, <1>b, <1>d, <1>e, <2>1 DEF Push, Synced
    <2>2. CASE frame[r] # "inner"
      BY <1>11, <1>c, <2>2 DEF Push, Synced
    <2> QED BY <2>1, <2>2
  <1>12. CASE PushToNewBranch(r)
    <2>1. CASE frame[r] = "inner"
      BY <1>12, <1>a, <1>b, <1>d, <1>e, <2>1 DEF PushToNewBranch, Synced
    <2>2. CASE frame[r] # "inner"
      BY <1>12, <1>c, <2>2 DEF PushToNewBranch, Synced
    <2> QED BY <2>1, <2>2
  <1>13. CASE PushFails(r)
    BY <1>13, <1>c DEF PushFails
  <1>14. CASE Status(r)
    <2>0. frame[r] = "outer"
      BY <1>14, <1>a DEF Status, IInv, LockInv, MigratesInside
    <2>1. CASE Step(r, "tryRead") /\ \E o \in records : Hold(r, o)
      BY <1>14, <1>a, <1>b, <1>d, <2>0, <2>1 DEF Status
    <2>2. CASE Finish(r, "unlocked")
      BY <1>14, <1>c, <2>2 DEF Status
    <2> QED BY <1>14, <2>1, <2>2 DEF Status
  <1>15. CASE TryRead(r)
    BY <1>15, <1>c DEF TryRead
  <1> QED
    BY <1>1, <1>2, <1>3, <1>4, <1>5, <1>6, <1>7, <1>8, <1>9, <1>10, <1>11, <1>12, <1>13, <1>14,
       <1>15 DEF Local

(* Without a sweep and without crashes only requests and the clock move.   *)
LEMMA OnlyRequestsMove ==
  ASSUME NothingRemovesClone, IInv, SharingInv, [Next]_vars
  PROVE  (\E r \in Req : Request(r)) \/ Tick \/ UNCHANGED vars
  <1>1. ~(crashes < MaxCrashes)
    BY DEF NothingRemovesClone, IInv, TypeInv, TypeOK
  <1>2. ~Sweep
    BY DEF NothingRemovesClone, SharingInv, Sweep, StartSweep, EndSweep, EvictLock, EvictFails,
           RemovalDisturbed, EvictRecord, PurgeFolder, ScanExpired, ScanKept
  <1> QED BY <1>1, <1>2 DEF Next, Crash, SweepCrash, Restart, Idle

LEMMA SharingInvInductive ==
  ASSUME NothingRemovesClone
  PROVE  /\ Init => SharingInv
         /\ IInv /\ SharingInv /\ [Next]_vars => SharingInv'
  <1>1. Init => SharingInv
    BY ProcessesAreDistinct
    DEF Init, StoreInit, SharingInv, Shares, UsesClone, MakesClone, FetchPcs, ClonePcs, PurgePcs
  <1>2. ASSUME IInv, SharingInv, [Next]_vars
        PROVE  SharingInv'
    <2>1. ASSUME NEW r \in Req, Request(r)
          PROVE  SharingInv'
      BY <1>2, <2>1, GetKeepsSharing, LocalKeepsSharing DEF Request
    <2>2. CASE Tick \/ UNCHANGED vars
      BY <1>2, <2>2
      DEF Tick, vars, storeVars, SharingInv, Shares, UsesClone, MakesClone, Known, WithId
    <2> QED BY <1>2, <2>1, <2>2, OnlyRequestsMove
  <1> QED BY <1>1, <1>2

(* However many requests come at the same time and however they interleave, *)
(* they share one clone and one record of it, and an operation never runs   *)
(* in a folder without a clone: fetches included, when they succeed.        *)
THEOREM RequestsShareOneClone == NothingRemovesClone => (Spec => []OneCloneServesAll)
  <1> SUFFICES ASSUME NothingRemovesClone
               PROVE  Spec => []OneCloneServesAll
    OBVIOUS
  <1>1. ASSUME SharingInv
        PROVE  OneRecordPerProject
    <2>1. CASE records = {}
      BY <2>1, FS_EmptySet DEF OneRecordPerProject
    <2>2. CASE records # {}
      <3>1. PICK o : records = {o}
        BY <1>1, <2>2 DEF SharingInv
      <3> QED BY <3>1, FS_Singleton DEF OneRecordPerProject
    <2> QED BY <2>1, <2>2
  <1>2. SharingInv => OperationRunsInClone
    BY DEF SharingInv, Shares, UsesClone, Known, WithId, OperationRunsInClone
  <1>3. SharingInv => OneCloneServesAll
    BY <1>1, <1>2 DEF OneCloneServesAll
  <1> QED BY <1>3, IInvHolds, SharingInvInductive, PTL DEF Spec

-----------------------------------------------------------------------------
(***************************************************************************)
(* Acknowledged writes.  Between the operation and the push the commit is  *)
(* only in the clone, and no lock is held: it survives when nobody resets  *)
(* the clone meanwhile.  So beyond what sharing needs, no request fetches  *)
(* and no push is refused (push_changes then resets the branch).           *)
(***************************************************************************)
NothingResetsClone ==
    /\ NothingRemovesClone
    /\ FetchTime > MaxTime
    /\ ~GitMayFail

WritesInv ==
    \A r \in Req :
       /\ pc[r] = "sync" /\ frame[r] = "outer" => r \in tree
       /\ outcome[r] = "branch" => r \in remote
       /\ outcome[r] # "newBranch"

(* A clone that somebody syncs is neither reset nor emptied.               *)
LEMMA CommitsStayInClone ==
  ASSUME NothingResetsClone, IInv, SharingInv, NEW r \in Req, Request(r),
         NEW q \in Req, pc[q] = "sync", q \in tree
  PROVE  q \in tree'
  <1>1. records # {}
    BY DEF SharingInv, Shares, UsesClone, Known, WithId
  <1>2. pc[r] \notin FetchPcs \cup ClonePcs \cup {"drop"} \cup PurgePcs
    <2>1. ~(FetchTime <= MaxTime)
      BY TimesAreNaturals DEF NothingResetsClone
    <2> QED BY <1>1, <2>1 DEF SharingInv, Shares
  <1>3. ASSUME Get(r)
        PROVE  q \in tree'
    BY <1>2, <1>3
    DEF Get, FetchPcs, ClonePcs, PurgePcs, envVars, storeVars, Lookup, CheckFolder, DropRecord, Touch,
        UpdateLock, Update, UpdateFails, NothingToUpdate, UpdateSave, CloneLock, CloneCheck,
        CloneTouch, Wipe, Clone, CloneFails, CloneSave, PurgeFolder, PurgeFails, PurgeRecord,
        RemovalDisturbed
  <1>4. ASSUME Local(r)
        PROVE  q \in tree'
    BY <1>4
    DEF NothingResetsClone, Local, envVars, storeVars, AcquireSlot, SlotTimeout, AcquireLock,
        ReadLockTimeout, Load, LoadFails, Read, Write, Migrate, OpFails, Push, PushToNewBranch,
        PushFails, Status, TryRead
  <1> QED BY <1>3, <1>4 DEF Request

(* What the steps of a request do to what WritesInv is about: only a write *)
(* goes on to sync with its own answer in sight, only a push answers with  *)
(* a branch, and the remote forgets nothing.                               *)
LEMMA RequestsSync ==
  ASSUME IInv, NEW r \in Req, Request(r)
  PROVE  /\ remote \subseteq remote'
         /\ \A q \in Req \ {r} : pc'[q] = pc[q] /\ frame'[q] = frame[q] /\ outcome'[q] = outcome[q]
         /\ pc'[r] = "sync" /\ frame'[r] = "outer" => r \in tree'
         /\ \/ outcome'[r] \in {outcome[r]} \cup (Outcomes \ {"branch", "newBranch"})
            \/ outcome'[r] = "branch" /\ pc[r] = "sync" /\ frame[r] = "outer" /\ remote' = remote \cup tree
            \/ outcome'[r] = "newBranch" /\ GitMayFail
  <1>a. /\ pc \in [Procs -> RequestPcs \cup SweepPcs] /\ frame \in [Req -> {"outer", "inner"}]
        /\ outcome \in [Req -> Outcomes]
    BY DEF IInv, TypeInv, TypeOK
  <1> USE ProcessesAreDistinct
  <1> USE DEF Outcomes, Step, Goto, Hold, envVars, storeVars, Answer, Finish
  <1>1. CASE Get(r)
    BY <1>1, <1>a
    DEF Get, Lookup, NotFound, CheckFolder, DropRecord, Touch, UpdateLock, Update, UpdateFails,
        NothingToUpdate, UpdateSave, CloneLock, CloneCheck, CloneTouch, Wipe, Clone, CloneFails,
        CloneSave, PurgeFolder, PurgeFails, PurgeRecord, RemovalDisturbed
  <1>2. CASE AcquireSlot(r) \/ SlotTimeout(r) \/ AcquireLock(r) \/ ReadLockTimeout(r) \/ Load(r) \/ LoadFails(r)
    BY <1>2, <1>a DEF AcquireSlot, SlotTimeout, AcquireLock, ReadLockTimeout, Load, LoadFails
  <1>3. CASE Read(r) \/ Write(r) \/ Migrate(r) \/ OpFails(r)
    BY <1>3, <1>a DEF Read, Write, Migrate, OpFails
  <1>4. CASE Push(r) \/ PushToNewBranch(r) \/ PushFails(r)
    BY <1>4, <1>a DEF Push, PushToNewBranch, PushFails, Synced
  <1>5. CASE Status(r) \/ TryRead(r)
    BY <1>5, <1>a DEF Status, TryRead
  <1> QED BY <1>1, <1>2, <1>3, <1>4, <1>5 DEF Request, Local

LEMMA WritesInvInductive ==
  ASSUME NothingResetsClone
  PROVE  /\ Init => WritesInv
         /\ IInv /\ SharingInv /\ WritesInv /\ [Next]_vars => WritesInv'
  <1>1. Init => WritesInv
    BY ProcessesAreDistinct DEF Init, WritesInv
  <1>2. ASSUME IInv, SharingInv, WritesInv, [Next]_vars
        PROVE  WritesInv'
    <2>1. ASSUME NEW r \in Req, Request(r)
          PROVE  WritesInv'
      <3>1. \A q \in Req \ {r} : pc'[q] = "sync" /\ frame'[q] = "outer" => q \in tree'
        BY <1>2, <2>1, RequestsSync, CommitsStayInClone DEF WritesInv
      <3>2. remote \subseteq remote' /\ ~GitMayFail
        BY <1>2, <2>1, RequestsSync DEF NothingResetsClone
      <3> QED BY <1>2, <2>1, <3>1, <3>2, RequestsSync DEF WritesInv
    <2>2. CASE Tick \/ UNCHANGED vars
      BY <1>2, <2>2 DEF Tick, vars, storeVars, remoteVars, WritesInv
    <2> QED BY <1>2, <2>1, <2>2, OnlyRequestsMove DEF NothingResetsClone
  <1> QED BY <1>1, <1>2

(* A client that is told the name of the branch finds its commit there,    *)
(* although the push runs after the lock was given back.                   *)
THEOREM AcknowledgedWritesArrive ==
  NothingResetsClone => (Spec => []AcknowledgedWritesAreOnRemote)
  <1> SUFFICES ASSUME NothingResetsClone
               PROVE  Spec => []AcknowledgedWritesAreOnRemote
    OBVIOUS
  <1>1. /\ Init => SharingInv
        /\ IInv /\ SharingInv /\ [Next]_vars => SharingInv'
    BY SharingInvInductive DEF NothingResetsClone
  <1>2. /\ Init => WritesInv
        /\ IInv /\ SharingInv /\ WritesInv /\ [Next]_vars => WritesInv'
    BY WritesInvInductive
  <1>3. WritesInv => AcknowledgedWritesAreOnRemote
    BY DEF WritesInv, AcknowledgedWritesAreOnRemote
  <1> QED BY <1>1, <1>2, <1>3, IInvHolds, PTL DEF Spec

-----------------------------------------------------------------------------
(***************************************************************************)
(* ServiceRequests implements SharedClone, for every value of the          *)
(* constants: what the requests and the sweep do with the lock file and    *)
(* the folder is a behaviour of the lock the abstract specification asks   *)
(* for.                                                                    *)
(***************************************************************************)

(* Whoever may hold the lock stands on a volume: a lost volume ends every  *)
(* request that has looked at it, and the sweep.                           *)
VolumeInv ==
    /\ \A r \in Req :
          \/ frame[r] = "inner"
          \/ pc[r] \notin {"lookup", "exists", "drop", "status", "tryRead", "done"}
          => dir # "lost"
    /\ pc[Evictor] \in PurgePcs => dir # "lost"

(* All a step does to the lock and the folder.                             *)
FolderKept == dir' = dir
Moves(p) ==
    \/ FolderKept /\ holds' \in {holds, [holds EXCEPT ![p] = "none"]}
    \/ FolderKept /\ ExclusiveFree /\ Take(p, "exclusive")
    \/ FolderKept /\ SharedFree /\ Take(p, "shared")
    \/ /\ holds[p] = "exclusive"
       /\ holds' \in {holds, [holds EXCEPT ![p] = "none"]}
       /\ dir' \in FolderStates \ {"lost"}
    \/ dir = "lost" /\ dir' = "absent" /\ UNCHANGED holds

LEMMA RebuildersHaveAVolume ==
  ASSUME IInv, VolumeInv, NEW p \in Procs, Rebuilds(p)
  PROVE  dir # "lost"
  BY ProcessesAreDistinct
  DEF IInv, TypeInv, VolumeInv, Rebuilds, PurgePcs, SweepPcs

LEMMA RequestMoves ==
  ASSUME IInv, VolumeInv, NEW r \in Req, Request(r)
  PROVE  Moves(r)
  <1> USE ProcessesAreDistinct
  <1>a. dir \in FolderStates
    BY DEF IInv, TypeInv, TypeOK, StoreTypeOK
  <1>b. Rebuilds(r) => holds[r] = "exclusive" /\ dir # "lost"
    BY HeldBy, RebuildersHaveAVolume
  <1> USE DEF Moves, FolderKept, Step, Finish, Answer, Drop, storeVars, FolderStates
  <1>1. CASE Lookup(r)
    BY <1>1 DEF Lookup, NotFound
  <1>2. CASE CheckFolder(r)
    BY <1>2 DEF CheckFolder
  <1>3. CASE DropRecord(r)
    BY <1>3 DEF DropRecord, NotFound
  <1>4. CASE Touch(r)
    BY <1>4 DEF Touch
  <1>5. CASE UpdateLock(r)
    BY <1>5 DEF UpdateLock
  <1>6. CASE Update(r)
    BY <1>6, <1>a, <1>b DEF Update, Rebuilds, PurgePcs, FolderExists
  <1>7. CASE UpdateFails(r)
    BY <1>7 DEF UpdateFails
  <1>8. CASE NothingToUpdate(r)
    BY <1>8 DEF NothingToUpdate
  <1>9. CASE UpdateSave(r)
    BY <1>9 DEF UpdateSave
  <1>10. CASE CloneLock(r)
    BY <1>10 DEF CloneLock
  <1>11. CASE CloneCheck(r)
    BY <1>11 DEF CloneCheck
  <1>12. CASE CloneTouch(r)
    BY <1>12 DEF CloneTouch
  <1>13. CASE Wipe(r)
    BY <1>13, <1>a, <1>b DEF Wipe, Rebuilds, PurgePcs, FolderExists
  <1>14. CASE Clone(r)
    BY <1>14, <1>a, <1>b DEF Clone, Rebuilds, PurgePcs, FolderExists
  <1>15. CASE CloneFails(r)
    BY <1>15, <1>a, <1>b DEF CloneFails, Rebuilds, PurgePcs, FolderExists
  <1>16. CASE CloneSave(r)
    BY <1>16 DEF CloneSave
  <1>17. CASE PurgeFolder(r)
    BY <1>17, <1>a, <1>b DEF PurgeFolder, Rebuilds, PurgePcs, FolderExists
  <1>18. CASE PurgeFails(r)
    BY <1>18, <1>a, <1>b DEF PurgeFails, RemovalDisturbed, Rebuilds, PurgePcs, FolderExists
  <1>19. CASE PurgeRecord(r)
    BY <1>19 DEF PurgeRecord
  <1>20. CASE AcquireSlot(r)
    BY <1>20 DEF AcquireSlot
  <1>21. CASE SlotTimeout(r)
    BY <1>21 DEF SlotTimeout
  <1>22. CASE AcquireLock(r)
    BY <1>22 DEF AcquireLock, LockIsFree, LockMode, Take
  <1>23. CASE ReadLockTimeout(r)
    BY <1>23 DEF ReadLockTimeout
  <1>24. CASE Load(r)
    BY <1>24 DEF Load
  <1>25. CASE LoadFails(r)
    BY <1>25 DEF LoadFails
  <1>26. CASE Read(r)
    BY <1>26 DEF Read, LeaveOuter
  <1>27. CASE Write(r)
    BY <1>27 DEF Write, LeaveOuter
  <1>28. CASE Migrate(r)
    BY <1>28 DEF Migrate, LeaveInner
  <1>29. CASE OpFails(r)
    BY <1>29 DEF OpFails
  <1>30. CASE Push(r)
    BY <1>30 DEF Push, Synced
  <1>31. CASE PushToNewBranch(r)
    BY <1>31 DEF PushToNewBranch, Synced
  <1>32. CASE PushFails(r)
    BY <1>32 DEF PushFails
  <1>33. CASE Status(r)
    BY <1>33 DEF Status
  <1>34. CASE TryRead(r)
    BY <1>34 DEF TryRead
  <1> QED
    BY <1>1, <1>2, <1>3, <1>4, <1>5, <1>6, <1>7, <1>8, <1>9, <1>10, <1>11, <1>12, <1>13,
       <1>14, <1>15, <1>16, <1>17, <1>18, <1>19, <1>20, <1>21, <1>22, <1>23, <1>24, <1>25,
       <1>26, <1>27, <1>28, <1>29, <1>30, <1>31, <1>32, <1>33, <1>34 DEF Request, Get,
       Local

LEMMA SweepMoves ==
  ASSUME IInv, VolumeInv, Sweep \/ SweepCrash
  PROVE  Moves(Evictor)
  <1>a. dir \in FolderStates /\ pc[Evictor] \in SweepPcs
    BY DEF IInv, TypeInv, TypeOK, StoreTypeOK
  <1>b. pc[Evictor] \in PurgePcs => holds[Evictor] = "exclusive" /\ dir # "lost"
    <2>1. pc[Evictor] \in PurgePcs => Rebuilds(Evictor)
      BY DEF Rebuilds
    <2> QED BY <2>1, HeldBy, RebuildersHaveAVolume
  <1> USE DEF Moves, FolderKept, Drop, storeVars, FolderStates, PurgePcs
  <1>1. CASE StartSweep \/ EndSweep \/ EvictLock \/ EvictRecord
    BY <1>1 DEF StartSweep, EndSweep, EvictLock, EvictRecord
  <1>2. CASE \E id \in todo : ScanExpired(id) \/ ScanKept(id)
    BY <1>2 DEF ScanExpired, ScanKept
  <1>3. CASE EvictFails
    BY <1>3, <1>a, <1>b DEF EvictFails, RemovalDisturbed
  <1>4. CASE PurgeFolder(Evictor)
    BY <1>4, <1>a, <1>b DEF PurgeFolder
  <1>5. CASE SweepCrash
    <2>1. CASE dir' = dir
      BY <1>5, <2>1 DEF SweepCrash
    <2>2. CASE dir' # dir
      BY <1>5, <1>a, <1>b, <2>2 DEF SweepCrash, LeavesFolder, MayBreakFolder, SweepPcs
    <2> QED BY <2>1, <2>2
  <1> QED BY <1>1, <1>2, <1>3, <1>4, <1>5 DEF Sweep

LEMMA CrashMoves ==
  ASSUME IInv, VolumeInv, NEW r \in Req, Crash(r)
  PROVE  Moves(r)
  <1>a. Rebuilds(r) => holds[r] = "exclusive" /\ dir # "lost"
    BY HeldBy, RebuildersHaveAVolume
  <1>1. holds' = [holds EXCEPT ![r] = "none"] /\ LeavesFolder(r)
    BY DEF Crash, Finish, Answer, Drop
  <1>2. dir' = dir \/ (dir' = "partial" /\ Rebuilds(r))
    BY <1>1 DEF LeavesFolder, MayBreakFolder, Rebuilds, PurgePcs
  <1> QED BY <1>a, <1>1, <1>2 DEF Moves, FolderKept, FolderStates

(* VolumeInv is inductive relative to IInv: only a restart loses the       *)
(* folder, and on a lost volume a request can do no more than look for its *)
(* project and make the parent folder.                                     *)
LEMMA RequestKeepsVolumeInv ==
  ASSUME IInv, VolumeInv, NEW r \in Req, Request(r)
  PROVE  VolumeInv'
  <1> USE ProcessesAreDistinct
  <1>1. CASE dir # "lost"
    <2>1. dir' # "lost"
      BY <1>1, RequestMoves DEF Moves, FolderKept
    <2> QED BY <2>1 DEF VolumeInv
  <1>2. CASE dir = "lost"
    <2>a. /\ pc \in [Procs -> RequestPcs \cup SweepPcs] /\ frame \in [Req -> {"outer", "inner"}]
          /\ frame[r] = "outer"
          /\ pc[r] \in {"lookup", "exists", "drop", "status", "tryRead", "done"}
      BY <1>2 DEF IInv, TypeInv, TypeOK, StoreTypeOK, VolumeInv
    <2>1. Lookup(r) \/ CheckFolder(r) \/ DropRecord(r) \/ Status(r) \/ TryRead(r)
      BY <2>a
      DEF Request, Get, Local, Touch, UpdateLock, Update, UpdateFails, NothingToUpdate, UpdateSave,
          CloneLock, CloneCheck, CloneTouch, Wipe, Clone, CloneFails, CloneSave, PurgeFolder,
          PurgeFails, RemovalDisturbed, PurgeRecord, AcquireSlot, SlotTimeout, AcquireLock,
          ReadLockTimeout, Load, LoadFails, Read, Write, Migrate, OpFails, Push, PushToNewBranch,
          PushFails
    <2>b. ASSUME pc' = [pc EXCEPT ![r] = pc'[r]], frame' = [frame EXCEPT ![r] = "outer"], dir' = dir,
                 pc'[r] \in {"lookup", "exists", "drop", "status", "tryRead", "done"}
          PROVE  VolumeInv'
      BY <2>a, <2>b DEF VolumeInv
    <2>c. frame' = frame => frame' = [frame EXCEPT ![r] = "outer"]
      BY <2>a
    <2> USE DEF Step, Goto, Finish, Answer, storeVars
    <2>2. CASE Lookup(r)
      <3>1. CASE NotFound(r)
        BY <1>2, <3>1 DEF NotFound, VolumeInv
      <3>2. CASE ~NotFound(r)
        BY <2>2, <2>a, <2>b, <2>c, <3>2 DEF Lookup
      <3> QED BY <3>1, <3>2
    <2>3. CASE CheckFolder(r)
      BY <1>2, <2>3, <2>a, <2>b, <2>c DEF CheckFolder, FolderExists
    <2>4. CASE DropRecord(r)
      BY <1>2, <2>4 DEF DropRecord, NotFound, VolumeInv
    <2>5. CASE Status(r)
      BY <2>5, <2>a, <2>b, <2>c DEF Status
    <2>6. CASE TryRead(r)
      BY <2>6, <2>a, <2>b, <2>c DEF TryRead
    <2> QED BY <2>1, <2>2, <2>3, <2>4, <2>5, <2>6
  <1> QED BY <1>1, <1>2

LEMMA VolumeInvInductive ==
  /\ Init => VolumeInv
  /\ IInv /\ VolumeInv /\ [Next]_vars => VolumeInv'
  <1>1. Init => VolumeInv
    BY ProcessesAreDistinct DEF Init, StoreInit, VolumeInv, PurgePcs
  <1>2. ASSUME IInv, VolumeInv, [Next]_vars
        PROVE  VolumeInv'
    <2>1. CASE UNCHANGED vars
      BY <1>2, <2>1 DEF vars, VolumeInv
    <2>2. ASSUME NEW r \in Req, Request(r)
          PROVE  VolumeInv'
      BY <1>2, <2>2, RequestKeepsVolumeInv
    <2>3. ASSUME NEW r \in Req, Crash(r)
          PROVE  VolumeInv'
      <3>1. dir # "lost" => dir' # "lost"
        BY <1>2, <2>3, CrashMoves DEF Moves, FolderKept
      <3>2. pc'[r] = "done" /\ frame'[r] = "outer" /\ pc'[Evictor] = pc[Evictor]
            /\ \A q \in Req \ {r} : pc'[q] = pc[q] /\ frame'[q] = frame[q]
        BY <1>2, <2>3, ProcessesAreDistinct
        DEF Crash, Finish, Answer, Goto, IInv, TypeInv, TypeOK
      <3> QED BY <1>2, <3>1, <3>2 DEF VolumeInv
    <2>4. CASE Sweep \/ SweepCrash
      <3>1. dir # "lost" => dir' # "lost"
        BY <1>2, <2>4, SweepMoves DEF Moves, FolderKept
      <3>2. frame' = frame /\ (\A q \in Req : pc'[q] = pc[q])
            /\ (pc'[Evictor] \in PurgePcs => dir # "lost")
        BY <1>2, <2>4, ProcessesAreDistinct
        DEF Sweep, SweepCrash, StartSweep, EndSweep, EvictLock, EvictFails, EvictRecord,
            RemovalDisturbed, PurgeFolder, ScanExpired, ScanKept, SweepOnly, Step, Goto, IInv,
            TypeInv, TypeOK, VolumeInv, PurgePcs, FolderExists
      <3> QED BY <1>2, <3>1, <3>2 DEF VolumeInv
    <2>5. CASE Tick
      BY <1>2, <2>5 DEF Tick, storeVars, VolumeInv
    <2>6. CASE Restart
      BY <1>2, <2>6, ProcessesAreDistinct
      DEF Restart, VolumeInv, PurgePcs, IInv, TypeInv, TypeOK
    <2> QED BY <1>2, <2>1, <2>2, <2>3, <2>4, <2>5, <2>6 DEF Next, Idle
  <1> QED BY <1>1, <1>2

LEMMA VolumeHolds == Spec => []VolumeInv
  <1>1. IInv /\ VolumeInv /\ [Next]_vars => VolumeInv'
    BY VolumeInvInductive
  <1>2. Init => VolumeInv
    BY VolumeInvInductive
  <1> QED BY <1>1, <1>2, IInvHolds, PTL DEF Spec

-----------------------------------------------------------------------------
(* What a process holds comes with a volume.                               *)
LEMMA HoldersHaveAVolume ==
  ASSUME IInv, VolumeInv, NEW p \in Procs, holds[p] = "exclusive"
  PROVE  dir # "lost"
  <1>1. p \in Req => pc[p] \in RequestPcs
    BY DEF IInv, TypeInv
  <1>2. Rebuilds(p) \/ (p \in Req /\ (frame[p] = "inner" \/ pc[p] \in {"load", "op"}))
    BY DEF IInv, LockInv, ProperlyHeld
  <1>3. CASE Rebuilds(p)
    BY <1>3, RebuildersHaveAVolume
  <1>4. CASE p \in Req /\ (frame[p] = "inner" \/ pc[p] \in {"load", "op"})
    BY <1>4 DEF VolumeInv
  <1> QED BY <1>2, <1>3, <1>4

(* Every move is a step of the abstract lock, or none.                     *)
LEMMA MovesRefine ==
  ASSUME IInv, VolumeInv, NEW p \in Procs, Moves(p), dir' \in FolderStates
  PROVE  [Promise!Next]_(Promise!sharedVars)
  <1> DEFINE Shared == {q \in Procs : holds[q] = "shared"}
             Alone == {q \in Procs : holds[q] = "exclusive"}
  <1>a. holds \in [Procs -> LockModes] /\ dir \in FolderStates
    BY DEF IInv, TypeInv, TypeOK, StoreTypeOK
  <1>b. holds[p] = "exclusive" => Alone = {p}
    BY DEF IInv, LockInv
  <1>c. holds' = [holds EXCEPT ![p] = "none"] => Shared' = Shared \ {p} /\ Alone' = Alone \ {p}
    BY <1>a
  <1>d. holds[p] # "exclusive" => Alone \ {p} = Alone
    OBVIOUS
  <1> USE DEF Promise!Next, Promise!sharedVars, Promise!EnterShared, Promise!EnterAlone, Promise!Rebuild, Promise!LeaveShared,
          Promise!MakeParent, Promise!Folders, FolderStates, FolderKept
  <1>1. CASE UNCHANGED <<holds, dir>>
    BY <1>1
  <1>2. CASE FolderKept /\ holds' = [holds EXCEPT ![p] = "none"]
    <2>1. CASE holds[p] = "exclusive"
      <3>1. dir # "lost"
        BY <2>1, HoldersHaveAVolume
      <3>2. Promise!Rebuild(p)
        BY <1>2, <1>a, <1>b, <1>c, <2>1, <3>1
      <3> QED BY <3>2
    <2>2. CASE holds[p] # "exclusive"
      <3>1. Promise!LeaveShared(p)
        BY <1>2, <1>c, <1>d, <2>2
      <3> QED BY <3>1
    <2> QED BY <2>1, <2>2
  <1>3. CASE FolderKept /\ ExclusiveFree /\ Take(p, "exclusive")
    <2>1. Shared = {} /\ Alone = {} /\ Shared' = {} /\ Alone' = {p}
      BY <1>3, <1>a DEF ExclusiveFree, Take
    <2>2. Promise!EnterAlone(p)
      BY <1>3, <2>1
    <2> QED BY <2>2
  <1>4. CASE FolderKept /\ SharedFree /\ Take(p, "shared")
    <2>1. Alone = {} /\ Alone' = {} /\ Shared' = Shared \cup {p}
      BY <1>4, <1>a DEF SharedFree, Take
    <2>2. Promise!EnterShared(p)
      BY <1>4, <2>1
    <2> QED BY <2>2
  <1>5. CASE /\ holds[p] = "exclusive"
             /\ holds' \in {holds, [holds EXCEPT ![p] = "none"]}
             /\ dir' \in FolderStates \ {"lost"}
    <2>1. Alone = {p} /\ Alone' \in {{}, {p}} /\ Shared' = Shared
      BY <1>5, <1>a, <1>b, <1>c
    <2>2. Promise!Rebuild(p)
      BY <1>5, <2>1
    <2> QED BY <2>2
  <1>6. CASE dir = "lost" /\ dir' = "absent" /\ UNCHANGED holds
    BY <1>6
  <1> QED BY <1>1, <1>2, <1>3, <1>4, <1>5, <1>6 DEF Moves

(* What the requests, the sweep, the crashes and the restarts of the       *)
(* service do with the lock file and the folder is what SharedClone        *)
(* promises: shared use or use alone, and changes only in the hands of the *)
(* user that is alone.                                                     *)
THEOREM ServiceSharesTheClone == Spec => SharesTheClone
  <1>1. Init => Promise!Init
    BY DEF Init, StoreInit, Promise!Init
  <1>2. ASSUME IInv, IInv', VolumeInv, [Next]_vars
        PROVE  [Promise!Next]_(Promise!sharedVars)
    <2>a. dir' \in FolderStates
      BY <1>2 DEF IInv, TypeInv, TypeOK, StoreTypeOK
    <2>1. CASE UNCHANGED vars
      BY <2>1 DEF vars, Promise!sharedVars
    <2>2. ASSUME NEW r \in Req, Request(r) \/ Crash(r)
          PROVE  [Promise!Next]_(Promise!sharedVars)
      BY <1>2, <2>a, <2>2, RequestMoves, CrashMoves, MovesRefine
    <2>3. CASE Sweep \/ SweepCrash
      BY <1>2, <2>a, <2>3, SweepMoves, MovesRefine
    <2>4. CASE Tick
      BY <2>4 DEF Tick, storeVars, lockVars, Promise!sharedVars
    <2>5. CASE Restart
      <3>1. Promise!LoseVolume
        BY <2>5 DEF Restart, Promise!LoseVolume
      <3> QED BY <3>1 DEF Promise!Next
    <2> QED BY <1>2, <2>1, <2>2, <2>3, <2>4, <2>5 DEF Next, Idle
  <1>3. Spec => Promise!Spec
    BY <1>1, <1>2, IInvHolds, VolumeHolds, PTL DEF Spec, Promise!Spec
  <1> QED BY <1>3 DEF SharesTheClone

-----------------------------------------------------------------------------
(* Who can touch the clone: a process that rebuilds it, a write that ends  *)
(* its operation, a request that pushes, or one that finds a lost volume.  *)
LEMMA RequestTouchesTheClone ==
  ASSUME TypeInv, NEW q \in Req, Request(q)
  PROVE  \/ UNCHANGED <<dir, head, tree>>
         \/ Rebuilds(q) \/ dir = "lost"
         \/ pc[q] = "sync" /\ pc'[q] # "sync"
         \/ InOperation(q) /\ IsWrite(q) /\ ~InOperation(q)'
  <1> USE DEF Step, storeVars
  <1>a. pc \in [Procs -> RequestPcs \cup SweepPcs] /\ frame \in [Req -> {"outer", "inner"}]
    BY DEF TypeInv, TypeOK
  <1>1. CASE CheckFolder(q) \/ Touch(q) \/ UpdateLock(q) \/ UpdateFails(q) \/ NothingToUpdate(q)
             \/ UpdateSave(q) \/ CloneLock(q) \/ CloneCheck(q) \/ CloneTouch(q) \/
             CloneSave(q) \/ PurgeRecord(q) \/ AcquireSlot(q) \/ SlotTimeout(q) \/
             AcquireLock(q) \/ ReadLockTimeout(q) \/ Load(q) \/ LoadFails(q) \/
             Read(q) \/ Migrate(q) \/ OpFails(q) \/ Push(q) \/ PushFails(q) \/
             Status(q) \/ TryRead(q)
    BY <1>1 DEF CheckFolder, Touch, UpdateLock, UpdateFails, NothingToUpdate, UpdateSave,
        CloneLock, CloneCheck, CloneTouch, CloneSave, PurgeRecord, AcquireSlot, SlotTimeout,
        AcquireLock, ReadLockTimeout, Load, LoadFails, Read, Migrate, OpFails, Push,
        PushFails, Status, TryRead
  <1>2. CASE Lookup(q) \/ DropRecord(q)
    BY <1>2 DEF Lookup, DropRecord, NotFound
  <1>3. CASE Update(q) \/ Wipe(q) \/ Clone(q) \/ CloneFails(q) \/ PurgeFolder(q) \/ PurgeFails(q)
    BY <1>3
    DEF Update, Wipe, Clone, CloneFails, PurgeFolder, PurgeFails, RemovalDisturbed, Rebuilds, PurgePcs
  <1>4. CASE Write(q)
    BY <1>4, <1>a DEF Write, Goto, InOperation
  <1>5. CASE PushToNewBranch(q)
    BY <1>5, <1>a DEF PushToNewBranch, Synced, Answer, Goto
  <1> QED BY <1>1, <1>2, <1>3, <1>4, <1>5 DEF Request, Get, Local

LEMMA OthersTouchTheClone ==
  ASSUME TypeInv, Sweep \/ SweepCrash \/ Tick \/ (\E q \in Req : Crash(q))
  PROVE  UNCHANGED <<dir, head, tree>> \/ \E p \in Procs : Rebuilds(p)
  BY DEF Sweep, StartSweep, EndSweep, EvictLock, EvictFails, EvictRecord, RemovalDisturbed,
         PurgeFolder, ScanExpired, ScanKept, SweepCrash, Tick, Crash, LeavesFolder, MayBreakFolder,
         Rebuilds, PurgePcs, storeVars

(* Under a running operation the clone changes only by a push that another *)
(* request makes after it has given the lock back.                         *)
THEOREM OnlyPushesDisturbOperations == Spec => OnlySyncDisturbsOperations
  <1> DEFINE Disturbed(r) == /\ InOperation(r) /\ InOperation(r)'
                             /\ <<dir, head, tree>>' # <<dir, head, tree>>
             Synchronized == \E q \in Req : pc[q] = "sync" /\ pc'[q] # "sync"
  <1>1. ASSUME IInv, VolumeInv, Next, NEW r \in Req, Disturbed(r)
        PROVE  Synchronized
    <2>a. (\A p \in Procs : ~Rebuilds(p)) /\ dir # "lost"
      <3>1. RebuildsRunAlone
        BY <1>1, HeldBy DEF RebuildsRunAlone, IInv, LockInv
      <3>2. \A p \in Procs : ~Rebuilds(p)
        BY <1>1, <3>1 DEF RebuildsRunAlone
      <3>3. dir # "lost"
        BY <1>1 DEF VolumeInv, InOperation
      <3> QED BY <3>2, <3>3
    <2>b. WritesRunAlone
      BY <1>1, HeldBy DEF WritesRunAlone, IInv, LockInv
    <2>1. ASSUME NEW q \in Req, Request(q)
          PROVE  Synchronized
      <3>1. ~(InOperation(q) /\ IsWrite(q) /\ ~InOperation(q)')
        BY <1>1, <2>b DEF WritesRunAlone
      <3> QED BY <1>1, <2>1, <2>a, <3>1, RequestTouchesTheClone DEF IInv
    <2>2. ASSUME Sweep \/ SweepCrash \/ Tick \/ (\E q \in Req : Crash(q))
          PROVE  FALSE
      BY <1>1, <2>2, <2>a, OthersTouchTheClone DEF IInv
    <2>3. CASE Restart
      BY <1>1, <2>3, ProcessesAreDistinct DEF Restart, InOperation, IInv, TypeInv, TypeOK
    <2>4. CASE UNCHANGED vars
      BY <1>1, <2>4 DEF vars
    <2> QED BY <1>1, <2>1, <2>2, <2>3, <2>4 DEF Next, Idle
  <1>2. IInv /\ VolumeInv /\ [Next]_vars => [\A r \in Req : Disturbed(r) => Synchronized]_vars
    BY <1>1
  <1> QED BY <1>2, IInvHolds, VolumeHolds, PTL DEF Spec, OnlySyncDisturbsOperations
=============================================================================
