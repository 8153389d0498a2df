--------------------------- MODULE RepositoryCache ---------------------------
(***************************************************************************)
(* LocalRepositoryCache: `get` finds or clones the project for a request   *)
(* and brings it up to date, `evict_expired` removes projects nobody used. *)
(* One action per access to Redis, to the folder or to the lock; a `with   *)
(* write_lock()` block ends in the same step as its last statement.        *)
(***************************************************************************)
EXTENDS ProjectStore

CONSTANTS
    NoProject,    \* no Project object in hand
    Workload,     \* the requests clients send
    GitMayFail,   \* whether git commands against the remote may fail
    Sweeping      \* whether the cleanup cron job is deployed

ASSUME FlagsAreBooleans == {GitMayFail, Sweeping} \subseteq BOOLEAN

RequestKinds == {"read", "write", "status"}
Requests == [kind : RequestKinds, branch : Branches, migrate : BOOLEAN]

ASSUME WorkloadIsTyped == Workload \subseteq Requests

VARIABLES
    pc,       \* what each process does next
    frame,    \* "inner" while a request runs the migration inside its own
    req,      \* what each request was asked for
    snap,     \* the Project object each process holds
    outcome,  \* how each request was answered
    todo,     \* records the sweep has still to look at
    crashes   \* crashes so far

vars == <<records, dir, head, tree, remote, side, holds, slot, now,
          pc, frame, req, snap, outcome, todo, crashes>>

envVars == <<remote, side, now, req, todo, crashes>>

(* Program counters, by the code they stand in. *)
GetPcs == {"lookup", "exists", "drop", "updateLock", "update", "updateSave",
           "touch", "cloneLock", "cloneCheck", "cloneTouch", "wipe", "clone",
           "cloneSave"}
PurgePcs == {"purgeFolder", "purgeRecord"}
LocalPcs == {"slot", "lock", "load", "op", "sync"}
StatusPcs == {"status", "tryRead"}
RequestPcs == GetPcs \cup PurgePcs \cup LocalPcs \cup StatusPcs \cup {"done"}
SweepPcs == {"idle", "scan", "evictLock"} \cup PurgePcs

Outcomes == {"none", "ok", "branch", "newBranch", "busy", "error",
             "uninitialized", "locked", "unlocked", "crashed"}

Goto(p, label) == pc' = [pc EXCEPT ![p] = label]
Hold(p, o) == snap' = [snap EXCEPT ![p] = o]

\* The request goes on to `label`.
Step(r, label) == Goto(r, label) /\ UNCHANGED <<frame, outcome, slot>>

\* The request is answered.
Answer(r, answer) ==
    /\ Goto(r, "done")
    /\ frame' = [frame EXCEPT ![r] = "outer"]
    /\ outcome' = [outcome EXCEPT ![r] = answer]
    /\ Hold(r, NoProject)

\* An exception ends the request and every `with` block around it.
Finish(r, answer) == Answer(r, answer) /\ Drop(r) /\ AllSlotsReturned(r)

\* ensure_migrated passes the branch of the record, not that of the request.
Branch(r) == IF frame[r] = "inner" THEN snap[r].branch ELSE req[r].branch

-----------------------------------------------------------------------------
(* get *)

\* Without a single matching record, a new project object is made.
NotFound(r) ==
    /\ Hold(r, NewProject(r, Branch(r)))
    /\ dir' = IF dir = "lost" THEN "absent" ELSE dir
    /\ Step(r, "cloneLock")

Lookup(r) ==
    /\ pc[r] = "lookup"
    /\ \/ \E o \in records :
            /\ IsOnly(o, OfBranch(Branch(r)))
            /\ Hold(r, o)
            /\ Step(r, "exists")
            /\ UNCHANGED dir
       \/ /\ NoSingle(OfBranch(Branch(r)))
          /\ NotFound(r)
    /\ UNCHANGED <<records, head, tree, holds, envVars>>

CheckFolder(r) ==
    /\ pc[r] = "exists"
    /\ \/ ~FolderExists /\ Step(r, "drop")
       \/ FolderExists /\ NeedsFetch(snap[r]) /\ Step(r, "updateLock")
       \/ FolderExists /\ ~NeedsFetch(snap[r]) /\ Step(r, "touch")
    /\ UNCHANGED <<storeVars, holds, snap, envVars>>

DropRecord(r) ==
    /\ pc[r] = "drop"
    /\ records' = Deleted(snap[r].id)
    /\ NotFound(r)
    /\ UNCHANGED <<head, tree, holds, envVars>>

\* get ends by saving the object it holds, whatever Redis has by now.
Touch(r) ==
    /\ pc[r] = "touch"
    /\ \/ /\ ~snap[r].initialized
          /\ Finish(r, "uninitialized")
          /\ UNCHANGED records
       \/ /\ snap[r].initialized
          /\ LET o == [snap[r] EXCEPT !.accessed = now]
             IN records' = Saved(o) /\ Hold(r, o)
          /\ Step(r, "slot")
          /\ UNCHANGED holds
    /\ UNCHANGED <<dir, head, tree, envVars>>

-----------------------------------------------------------------------------
(* _maybe_update_cache *)

\* Mutation: the clone is updated without the write lock.
UpdateUnlocked(r) ==
    /\ pc[r] = "updateLock"
    /\ Step(r, "update")
    /\ UNCHANGED <<storeVars, holds, snap, envVars>>

UpdateLock(r) ==
    /\ pc[r] = "updateLock"
    /\ ExclusiveFree
    /\ Take(r, "exclusive")
    /\ Step(r, "update")
    /\ UNCHANGED <<storeVars, snap, envVars>>

\* Fetch, and reset --hard to the remote's branch.
Update(r) ==
    /\ pc[r] = "update"
    /\ dir = "clone"
    /\ tree' = remote
    /\ Step(r, "updateSave")
    /\ UNCHANGED <<records, dir, head, holds, snap, envVars>>

UpdateFails(r) ==
    /\ pc[r] = "update"
    /\ \/ dir = "clone" /\ GitMayFail
       \/ dir = "partial"
    /\ Step(r, "purgeFolder")
    /\ UNCHANGED <<storeVars, holds, snap, envVars>>

\* Repository(abs_path) raises GitError, which nobody here catches.
NothingToUpdate(r) ==
    /\ pc[r] = "update"
    /\ dir # "clone"
    /\ Finish(r, "error")
    /\ UNCHANGED <<storeVars, envVars>>

\* Mutation: the write lock is kept after the update.
UpdateKeepsLock(r) ==
    /\ pc[r] = "updateSave"
    /\ LET o == [snap[r] EXCEPT !.fetched = now]
       IN records' = Saved(o) /\ Hold(r, o)
    /\ Step(r, "touch")
    /\ UNCHANGED <<dir, head, tree, holds, envVars>>

UpdateSave(r) ==
    /\ pc[r] = "updateSave"
    /\ LET o == [snap[r] EXCEPT !.fetched = now]
       IN records' = Saved(o) /\ Hold(r, o)
    /\ Drop(r)
    /\ Step(r, "touch")
    /\ UNCHANGED <<dir, head, tree, envVars>>

-----------------------------------------------------------------------------
(* _clone_project *)

\* Mutation: the project is cloned without the write lock.
CloneUnlocked(r) ==
    /\ pc[r] = "cloneLock"
    /\ Step(r, "cloneCheck")
    /\ UNCHANGED <<storeVars, holds, snap, envVars>>

CloneLock(r) ==
    /\ pc[r] = "cloneLock"
    /\ ExclusiveFree
    /\ Take(r, "exclusive")
    /\ Step(r, "cloneCheck")
    /\ UNCHANGED <<storeVars, snap, envVars>>

\* Mutation: nobody looks for a clone made in the meantime.
OthersIgnored(r) == {}

\* Another request may have cloned the project in the meantime.
OthersOf(r) == {o \in OfBranch(Branch(r)) : o.id # snap[r].id}

CloneCheck(r) ==
    /\ pc[r] = "cloneCheck"
    /\ \/ \E o \in records :
            /\ IsOnly(o, OthersOf(r))
            /\ FolderExists
            /\ Hold(r, o)
            /\ Step(r, "cloneTouch")
       \/ /\ NoSingle(OthersOf(r)) \/ ~FolderExists
          /\ Step(r, "wipe")
          /\ UNCHANGED snap
    /\ UNCHANGED <<storeVars, holds, envVars>>

CloneTouch(r) ==
    /\ pc[r] = "cloneTouch"
    /\ LET o == [snap[r] EXCEPT !.accessed = now]
       IN records' = Saved(o) /\ Hold(r, o)
    /\ Drop(r)
    /\ Step(r, "slot")
    /\ UNCHANGED <<dir, head, tree, envVars>>

\* The contents of the folder are deleted, the folder itself is kept.
Wipe(r) ==
    /\ pc[r] = "wipe"
    /\ dir' = IF FolderExists THEN "partial" ELSE dir
    /\ tree' = {}
    /\ Step(r, "clone")
    /\ UNCHANGED <<records, head, holds, snap, envVars>>

\* Mutation: the record is saved after the lock is gone.
CloneReleasesEarly(r) ==
    /\ pc[r] = "clone"
    /\ dir' = "clone"
    /\ head' = snap[r].branch
    /\ tree' = remote
    /\ Hold(r, [snap[r] EXCEPT !.initialized = TRUE])
    /\ Drop(r)
    /\ Step(r, "cloneSave")
    /\ UNCHANGED <<records, envVars>>

Clone(r) ==
    /\ pc[r] = "clone"
    /\ dir' = "clone"
    /\ head' = snap[r].branch
    /\ tree' = remote
    /\ \E initialized \in BOOLEAN :
          Hold(r, [snap[r] EXCEPT !.initialized = initialized])
    /\ Step(r, "cloneSave")
    /\ UNCHANGED <<records, holds, envVars>>

CloneFails(r) ==
    /\ pc[r] = "clone"
    /\ GitMayFail
    /\ dir' \in {dir, "partial"}
    /\ Finish(r, "error")
    /\ UNCHANGED <<records, head, tree, envVars>>

\* The record is saved even for a repository that is no Renku project.
CloneSave(r) ==
    /\ pc[r] = "cloneSave"
    /\ records' = Saved(snap[r])
    /\ \/ /\ snap[r].initialized
          /\ Step(r, "slot")
          /\ Drop(r)
          /\ UNCHANGED snap
       \/ /\ ~snap[r].initialized
          /\ Finish(r, "uninitialized")
    /\ UNCHANGED <<dir, head, tree, envVars>>

-----------------------------------------------------------------------------
(* Project.purge: first the folder, then the record *)

PurgeFolder(p) ==
    /\ pc[p] = "purgeFolder"
    /\ dir' = IF FolderExists THEN "absent" ELSE dir
    /\ tree' = {}
    /\ Step(p, "purgeRecord")
    /\ UNCHANGED <<records, head, holds, snap, envVars>>

\* rmtree gives up when a request that syncs, without the lock, adds a file to
\* a folder being removed: the record stays.
RemovalDisturbed(p) ==
    /\ pc[p] = "purgeFolder"
    /\ FolderExists
    /\ \E q \in Req : pc[q] = "sync"
    /\ dir' = "partial"
    /\ tree' = {}

PurgeFails(r) ==
    /\ RemovalDisturbed(r)
    /\ Finish(r, "error")
    /\ UNCHANGED <<records, head, envVars>>

\* After a failed update the request is answered IntermittentCacheError.
PurgeRecord(r) ==
    /\ pc[r] = "purgeRecord"
    /\ records' = Deleted(snap[r].id)
    /\ Finish(r, "error")
    /\ UNCHANGED <<dir, head, tree, envVars>>

-----------------------------------------------------------------------------
(* evict_expired and evict *)

SweepOnly == UNCHANGED <<remote, side, slot, now, frame, req, outcome, crashes>>

StartSweep ==
    /\ Sweeping
    /\ pc[Evictor] = "idle"
    /\ records # {}
    /\ todo' = {o.id : o \in records}
    /\ Goto(Evictor, "scan")
    /\ UNCHANGED <<storeVars, holds, snap>>
    /\ SweepOnly

ScanExpired(id) ==
    /\ pc[Evictor] = "scan"
    /\ todo' = todo \ {id}
    /\ \E o \in WithId(id) :
          /\ TtlExpired(o)
          /\ Hold(Evictor, o)
    /\ Goto(Evictor, "evictLock")
    /\ UNCHANGED <<storeVars, holds>>
    /\ SweepOnly

ScanKept(id) ==
    /\ pc[Evictor] = "scan"
    /\ todo' = todo \ {id}
    /\ \E o \in WithId(id) : ~TtlExpired(o)
    /\ UNCHANGED <<storeVars, holds, pc, snap>>
    /\ SweepOnly

\* Project.all() loads the records one by one, and raises KeyError for one
\* that is gone; the sweep also ends when there are no more records.
EndSweep ==
    /\ pc[Evictor] = "scan"
    /\ todo = {} \/ \E id \in todo : ~Known(id)
    /\ todo' = {}
    /\ Goto(Evictor, "idle")
    /\ UNCHANGED <<storeVars, holds, snap>>
    /\ SweepOnly

\* Mutation: evict purges without the write lock.
EvictUnlocked ==
    /\ pc[Evictor] = "evictLock"
    /\ Goto(Evictor, "purgeFolder")
    /\ UNCHANGED <<storeVars, holds, snap, todo>>
    /\ SweepOnly

\* The time to live is not looked at again once the lock is there.
EvictLock ==
    /\ pc[Evictor] = "evictLock"
    /\ \/ /\ dir = "lost"   \* FileNotFoundError
          /\ records' = Deleted(snap[Evictor].id)
          /\ Hold(Evictor, NoProject)
          /\ Goto(Evictor, "scan")
          /\ UNCHANGED holds
       \/ /\ dir # "lost"
          /\ ExclusiveFree
          /\ Take(Evictor, "exclusive")
          /\ Goto(Evictor, "purgeFolder")
          /\ UNCHANGED <<records, snap>>
    /\ UNCHANGED <<dir, head, tree, todo>>
    /\ SweepOnly

\* `except Exception` logs the error and goes on with the next record.
EvictFails ==
    /\ RemovalDisturbed(Evictor)
    /\ Drop(Evictor)
    /\ Hold(Evictor, NoProject)
    /\ Goto(Evictor, "scan")
    /\ UNCHANGED <<records, head, todo>>
    /\ SweepOnly

EvictRecord ==
    /\ pc[Evictor] = "purgeRecord"
    /\ records' = Deleted(snap[Evictor].id)
    /\ Drop(Evictor)
    /\ Hold(Evictor, NoProject)
    /\ Goto(Evictor, "scan")
    /\ UNCHANGED <<dir, head, tree, todo>>
    /\ SweepOnly

Get(r) ==
    \/ Lookup(r) \/ CheckFolder(r) \/ DropRecord(r) \/ Touch(r)
    \/ UpdateLock(r) \/ Update(r) \/ UpdateFails(r) \/ NothingToUpdate(r)
    \/ UpdateSave(r) \/ CloneLock(r) \/ CloneCheck(r) \/ CloneTouch(r)
    \/ Wipe(r) \/ Clone(r) \/ CloneFails(r) \/ CloneSave(r)
    \/ PurgeFolder(r) \/ PurgeFails(r) \/ PurgeRecord(r)

Sweep ==
    \/ StartSweep \/ EndSweep \/ EvictLock \/ EvictFails \/ EvictRecord
    \/ PurgeFolder(Evictor)
    \/ \E id \in todo : ScanExpired(id) \/ ScanKept(id)
=============================================================================
