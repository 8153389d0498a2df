--------------------------- MODULE ServiceRequests ---------------------------
(***************************************************************************)
(* A request of the core service from the Project it gets out of the cache *)
(* to its answer (RenkuOperationMixin.local and RenkuOpSyncMixin), the     *)
(* lock status endpoint, and the crashes of the server.                    *)
(***************************************************************************)
EXTENDS RepositoryCache

CONSTANTS MaxCrashes   \* bound on the crashes of a behaviour

ASSUME CrashesAreBounded == MaxCrashes \in Nat

Init ==
    /\ StoreInit
    /\ req \in [Req -> Workload]
    /\ pc = [p \in Procs |-> IF p = Evictor THEN "idle"
                             ELSE IF req[p].kind = "status" THEN "status"
                             ELSE "lookup"]
    /\ frame = [r \in Req |-> "outer"]
    /\ snap = [p \in Procs |-> NoProject]
    /\ outcome = [r \in Req |-> "none"]
    /\ todo = {}
    /\ crashes = 0

TypeOK ==
    /\ StoreTypeOK
    /\ pc \in [Procs -> RequestPcs \cup SweepPcs]
    /\ frame \in [Req -> {"outer", "inner"}]
    /\ req \in [Req -> Workload]
    /\ snap \in [Procs -> Project \cup {NoProject}]
    /\ outcome \in [Req -> Outcomes]
    /\ todo \subseteq Req
    /\ crashes \in 0 .. MaxCrashes

-----------------------------------------------------------------------------
(* local: the operation runs under a semaphore file and the project lock *)

\* execute_and_sync sets is_write before execute_op looks at it.
IsWrite(r) == req[r].kind = "write"

\* Mutation: the lock is chosen before the request is marked as a write.

\* Mutation: only writes lock exclusively, also when they migrate first.

LockMode(r) == IF IsWrite(r) \/ req[r].migrate THEN "exclusive" ELSE "shared"
LockIsFree(r) == IF LockMode(r) = "exclusive" THEN ExclusiveFree ELSE SharedFree

AcquireSlot(r) ==
    /\ pc[r] = "slot"
    /\ \E s \in FreeSlots : slot' = [slot EXCEPT ![s] = r]
    /\ Goto(r, IF frame[r] = "inner" THEN "load" ELSE "lock")   \* skip_lock
    /\ UNCHANGED <<storeVars, holds, snap, frame, outcome, envVars>>

SlotTimeout(r) ==
    /\ pc[r] = "slot"
    /\ FreeSlots = {}
    /\ Finish(r, "busy")
    /\ UNCHANGED <<storeVars, envVars>>

AcquireLock(r) ==
    /\ pc[r] = "lock"
    /\ LockIsFree(r)
    /\ Take(r, LockMode(r))
    /\ Step(r, "load")
    /\ UNCHANGED <<storeVars, snap, envVars>>

\* Only the read lock is asked for with LOCK_NB, so only it gives up.
ReadLockTimeout(r) ==
    /\ pc[r] = "lock"
    /\ LockMode(r) = "shared"
    /\ ~SharedFree
    /\ Finish(r, "busy")
    /\ UNCHANGED <<storeVars, envVars>>

\* Project.load: the record as it is now; ensure_migrated runs a whole
\* migration request of its own before the operation.
Load(r) ==
    /\ pc[r] = "load"
    /\ \E o \in WithId(snap[r].id) : Hold(r, o)
    /\ \/ /\ req[r].migrate /\ frame[r] = "outer"
          /\ frame' = [frame EXCEPT ![r] = "inner"]
          /\ Goto(r, "lookup")
       \/ /\ ~req[r].migrate \/ frame[r] = "inner"
          /\ Goto(r, "op")
          /\ UNCHANGED frame
    /\ UNCHANGED <<storeVars, holds, slot, outcome, envVars>>

LoadFails(r) ==
    /\ pc[r] = "load"
    /\ ~Known(snap[r].id)
    /\ Finish(r, "error")
    /\ UNCHANGED <<storeVars, envVars>>

\* Leaving the `with` blocks of local().
LeaveInner(r) ==
    /\ \E s \in SlotsOf(r) : slot' = [slot EXCEPT ![s] = Free]
    /\ UNCHANGED holds

\* Mutation: the semaphore file is kept.
LeaveKeepingSlot(r) == Drop(r) /\ UNCHANGED slot

LeaveOuter(r) == Drop(r) /\ AllSlotsReturned(r)

\* renku_op of a read: it changes nothing.
Read(r) ==
    /\ pc[r] = "op"
    /\ ~IsWrite(r) /\ frame[r] = "outer"
    /\ dir = "clone"
    /\ Answer(r, "ok")
    /\ LeaveOuter(r)
    /\ UNCHANGED <<storeVars, envVars>>

\* renku_op of a write commits to the clone.
Write(r) ==
    /\ pc[r] = "op"
    /\ IsWrite(r) /\ frame[r] = "outer"
    /\ dir = "clone"
    /\ tree' = tree \cup {r}
    /\ Goto(r, "sync")
    /\ LeaveOuter(r)
    /\ UNCHANGED <<records, dir, head, frame, snap, outcome, envVars>>

\* The migration commits nothing a client waits for.
Migrate(r) ==
    /\ pc[r] = "op"
    /\ frame[r] = "inner"
    /\ dir = "clone"
    /\ Goto(r, "sync")
    /\ LeaveInner(r)
    /\ UNCHANGED <<storeVars, frame, snap, outcome, envVars>>

\* The operation raises; it always does in a folder that holds no clone.
OpFails(r) ==
    /\ pc[r] = "op"
    /\ Finish(r, "error")
    /\ UNCHANGED <<storeVars, envVars>>

-----------------------------------------------------------------------------
(* sync: push_changes, after the `with` blocks of its own local() *)

\* The answer of a migration goes to the request around it.
Synced(r, answer) ==
    /\ IF frame[r] = "inner"
       THEN /\ frame' = [frame EXCEPT ![r] = "outer"]
            /\ Goto(r, "op")
            /\ UNCHANGED <<outcome, snap>>
       ELSE Answer(r, answer)
    /\ UNCHANGED <<holds, slot>>

Push(r) ==
    /\ pc[r] = "sync"
    /\ dir = "clone"
    /\ remote' = remote \cup tree
    /\ Synced(r, "branch")
    /\ UNCHANGED <<storeVars, side, now, req, todo, crashes>>

\* A conflict or a protected branch: the clone's commits go to a new branch
\* and the clone is reset to its upstream.
PushToNewBranch(r) ==
    /\ pc[r] = "sync"
    /\ dir = "clone"
    /\ GitMayFail
    /\ side' = side \cup tree
    /\ tree' = remote
    /\ Synced(r, "newBranch")
    /\ UNCHANGED <<records, dir, head, remote, now, req, todo, crashes>>

PushFails(r) ==
    /\ pc[r] = "sync"
    /\ dir # "clone" \/ GitMayFail
    /\ IF frame[r] = "inner" THEN Finish(r, "error")
       ELSE Answer(r, "error") /\ UNCHANGED <<holds, slot>>
    /\ UNCHANGED <<storeVars, envVars>>

-----------------------------------------------------------------------------
(* project.lock_status, asked by the address of the repository *)

Status(r) ==
    /\ pc[r] = "status"
    /\ \/ /\ \E o \in records : IsOnly(o, records) /\ Hold(r, o)
          /\ Step(r, "tryRead")
          /\ UNCHANGED holds
       \/ /\ NoSingle(records)
          /\ Finish(r, "unlocked")
    /\ UNCHANGED <<storeVars, envVars>>

TryRead(r) ==
    /\ pc[r] = "tryRead"
    /\ Finish(r, IF dir = "lost" THEN "error"
                 ELSE IF SharedFree THEN "unlocked" ELSE "locked")
    /\ UNCHANGED <<storeVars, envVars>>

Local(r) ==
    \/ AcquireSlot(r) \/ SlotTimeout(r) \/ AcquireLock(r) \/ ReadLockTimeout(r)
    \/ Load(r) \/ LoadFails(r)
    \/ Read(r) \/ Write(r) \/ Migrate(r) \/ OpFails(r)
    \/ Push(r) \/ PushToNewBranch(r) \/ PushFails(r)
    \/ Status(r) \/ TryRead(r)

-----------------------------------------------------------------------------
(* The environment *)

Tick ==
    /\ now < MaxTime
    /\ now' = now + 1
    /\ UNCHANGED <<storeVars, remoteVars, lockVars, pc, frame, req, snap,
                   outcome, todo, crashes>>

\* A process killed at its work on the folder can leave a broken one.
MayBreakFolder(p) ==
    \/ pc[p] = "clone"
    \/ pc[p] \in {"wipe", "purgeFolder"} /\ FolderExists

LeavesFolder(p) == \/ dir' = dir
                   \/ MayBreakFolder(p) /\ dir' = "partial"

\* A thread is killed with its worker; the kernel drops its locks.
Crash(r) ==
    /\ crashes < MaxCrashes
    /\ pc[r] # "done"
    /\ crashes' = crashes + 1
    /\ LeavesFolder(r)
    /\ Finish(r, "crashed")
    /\ UNCHANGED <<records, head, tree, remote, side, now, req, todo>>

SweepCrash ==
    /\ crashes < MaxCrashes
    /\ pc[Evictor] # "idle"
    /\ crashes' = crashes + 1
    /\ LeavesFolder(Evictor)
    /\ Goto(Evictor, "idle")
    /\ Hold(Evictor, NoProject)
    /\ Drop(Evictor)
    /\ todo' = {}
    /\ UNCHANGED <<records, head, tree, remote, side, slot, now, frame, req, outcome>>

\* The pod is replaced: the volume is an emptyDir, Redis lives on.
Restart ==
    /\ crashes < MaxCrashes
    /\ crashes' = crashes + 1
    /\ dir' = "lost"
    /\ tree' = {}
    /\ LET dies == {r \in Req : pc[r] \notin {"done", "lookup", "status"}
                                \/ frame[r] = "inner"}
       IN /\ pc' = [p \in Procs |-> IF p = Evictor THEN "idle"
                                    ELSE IF p \in dies THEN "done" ELSE pc[p]]
          /\ outcome' = [r \in Req |-> IF r \in dies THEN "crashed" ELSE outcome[r]]
    /\ frame' = [r \in Req |-> "outer"]
    /\ snap' = [p \in Procs |-> NoProject]
    /\ holds' = [p \in Procs |-> "none"]
    /\ slot' = [s \in Slots |-> Free]
    /\ todo' = {}
    /\ UNCHANGED <<records, head, remote, side, now, req>>

Request(r) == Get(r) \/ Local(r)

AllAnswered == \A r \in Req : pc[r] = "done"

\* Once every request is answered nothing but the sweep has to happen.
Idle == AllAnswered /\ UNCHANGED vars

Next ==
    \/ \E r \in Req : Request(r) \/ Crash(r)
    \/ Sweep \/ SweepCrash
    \/ Tick \/ Restart
    \/ Idle

Fairness == /\ \A r \in Req : WF_vars(Request(r))
            /\ WF_vars(Sweep)

Spec == Init /\ [][Next]_vars
FairSpec == Spec /\ Fairness

-----------------------------------------------------------------------------
(* Properties *)

InOperation(r) == pc[r] = "op" \/ frame[r] = "inner"
Rebuilds(p) == pc[p] \in {"update", "updateSave", "cloneCheck", "cloneTouch",
                          "wipe", "clone", "cloneSave"} \cup PurgePcs

(* While an operation runs in the clone nobody fetches into it, wipes it,  *)
(* clones over it or removes it, and no two processes do so at once: the   *)
(* three users of the lock file (get, local and evict) exclude each other. *)
RebuildsRunAlone ==
    \A p, q \in Procs :
       Rebuilds(p) => /\ q \in Req => ~InOperation(q)
                      /\ Rebuilds(q) => p = q

(* A write or a migrating operation never overlaps another operation:      *)
(* execute_and_sync marks the request before local() picks the lock.       *)
WritesRunAlone ==
    \A r, q \in Req :
       /\ InOperation(r)
       /\ InOperation(q)
       /\ IsWrite(r) \/ req[r].migrate
       => r = q

(* Both: whoever needs the clone for itself has it for itself.             *)
LockedWorkRunsAlone == RebuildsRunAlone /\ WritesRunAlone

(* Whatever way a request ends, by its answer, by an exception or by a     *)
(* crash, it leaves no lock and no semaphore file behind, and at most      *)
(* MAX_CONCURRENT_PROJECT_REQUESTS requests are past the semaphore.        *)
NothingLeaks ==
    /\ \A r \in Req : pc[r] = "done" => holds[r] = "none" /\ SlotsOf(r) = {}
    /\ Cardinality({r \in Req : pc[r] \in {"lock", "load", "op"}})
          <= Cardinality(Slots)

(* The clone an operation works in changes under it only by what a request *)
(* does after it gave the lock back: the push of `sync`.                   *)
OnlySyncDisturbsOperations ==
    [][\A r \in Req :
          /\ InOperation(r) /\ InOperation(r)'
          /\ <<dir, head, tree>>' # <<dir, head, tree>>
          => \E q \in Req : pc[q] = "sync" /\ pc'[q] # "sync"]_vars

(* Every request is answered.                                              *)
EveryRequestIsAnswered == \A r \in Req : <>(pc[r] = "done")

(* The lock and the folder behave as SharedClone says.                     *)
Promise == INSTANCE SharedClone WITH
    Users <- Procs,
    readers <- {p \in Procs : holds[p] = "shared"},
    writer <- {p \in Procs : holds[p] = "exclusive"},
    folder <- dir
SharesTheClone == Promise!Spec

(* Requests that run at the same time share one clone: at most one record  *)
(* stands for the project, and project_path is safe to use in an operation *)
(* because it holds the clone.                                             *)
OneRecordPerProject == Cardinality(records) <= 1
OperationRunsInClone == \A r \in Req : pc[r] = "op" => dir = "clone"
OneCloneServesAll == OneRecordPerProject /\ OperationRunsInClone

(* A write answered with a branch name is on the remote.                   *)
AcknowledgedWritesAreOnRemote ==
    \A r \in Req :
       /\ outcome[r] = "branch" => r \in remote
       /\ outcome[r] = "newBranch" => r \in side
=============================================================================
