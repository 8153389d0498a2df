---------------------------- MODULE ProjectStore ----------------------------
(***************************************************************************)
(* The state the core service keeps for ONE remote project of ONE user:    *)
(* the Project records in Redis, the clone on the shared volume, the flock *)
(* on "<abs_path>.lock", the lock files of the bounded semaphore, and the  *)
(* branches of the remote.  Other users and other projects have their own  *)
(* records, folder and lock file, so nothing is shared with them.          *)
(*                                                                         *)
(* The processes are the requests and the eviction sweep of the same       *)
(* service; they run in the threads of several gunicorn workers, so every  *)
(* Redis call, file system operation and lock operation may interleave.    *)
(***************************************************************************)
EXTENDS Integers, FiniteSets

CONSTANTS
    Req,           \* requests; a request that clones names the record it makes
    Evictor,       \* the sweep of /cache.cleanup
    Branches,      \* branches a request may ask for
    NoBranch,      \* branch=None: the default branch of the remote
    Slots,         \* MAX_CONCURRENT_PROJECT_REQUESTS semaphore files
    Free,          \* the owner of a semaphore file nobody holds
    FetchTime,     \* PROJECT_FETCH_TIME
    TTL,           \* RENKU_SVC_CLEANUP_TTL_PROJECTS
    MaxTime        \* bound on the clock

ASSUME ProcessesAreDistinct == Evictor \notin Req /\ Free \notin Req
ASSUME DefaultBranchIsKnown == NoBranch \in Branches
ASSUME SlotsAreFinite == IsFiniteSet(Slots)
ASSUME TimesAreNaturals == {FetchTime, TTL, MaxTime} \subseteq Nat

Procs == Req \cup {Evictor}
Time == 0 .. MaxTime

VARIABLES
    records,  \* Project records in Redis
    dir,      \* the folder abs_path
    head,     \* the branch checked out in the clone
    tree,     \* write requests whose commit is on the clone's branch
    remote,   \* write requests whose commit is on the remote's branch
    side,     \* write requests whose commit is on a new remote branch
    holds,    \* how each process holds the project lock
    slot,     \* owner of each semaphore file
    now       \* the clock, in seconds

storeVars == <<records, dir, head, tree>>
remoteVars == <<remote, side>>
lockVars == <<holds, slot>>

(* A record: only the fields some decision of the code depends on. *)
Project == [id : Req, branch : Branches, accessed : Time, fetched : Time,
            initialized : BOOLEAN]

(* "lost": the volume was recreated, not even the parent folder exists;    *)
(* "partial": the folder exists and holds no usable clone.                 *)
FolderStates == {"lost", "absent", "partial", "clone"}
LockModes == {"none", "shared", "exclusive"}

StoreTypeOK ==
    /\ records \subseteq Project
    /\ dir \in FolderStates
    /\ head \in Branches
    /\ tree \subseteq Req
    /\ remote \subseteq Req
    /\ side \subseteq Req
    /\ holds \in [Procs -> LockModes]
    /\ slot \in [Slots -> Req \cup {Free}]
    /\ now \in Time

StoreInit ==
    /\ records = {}
    /\ dir = "lost"
    /\ head = NoBranch
    /\ tree = {}
    /\ remote = {}
    /\ side = {}
    /\ holds = [p \in Procs |-> "none"]
    /\ slot = [s \in Slots |-> Free]
    /\ now = 0

-----------------------------------------------------------------------------
(* Records (walrus models) *)

WithId(id) == {o \in records : o.id = id}
Known(id) == WithId(id) # {}

\* save() writes every field of the object, and recreates a deleted record.
Saved(o) == (records \ WithId(o.id)) \cup {o}
Deleted(id) == records \ WithId(id)

\* Mutation: the name of the folder is stored for the branch.
StoredFolderName(branch) == "__default_branch__"

\* The ProjectSchema has no branch field and drops what it does not know,
\* so make_project never stores the branch that was asked for.
StoredBranch(branch) == NoBranch

NewProject(id, branch) ==
    [id |-> id, branch |-> StoredBranch(branch), accessed |-> now,
     fetched |-> now, initialized |-> FALSE]

OfBranch(branch) == {o \in records : o.branch = branch}

\* Model.get() answers only when exactly one record matches.
IsOnly(o, candidates) == candidates = {o}
NoSingle(candidates) == \A o \in candidates : ~IsOnly(o, candidates)

NeedsFetch(o) == now - o.fetched >= FetchTime

\* `if not self.time_since_access` is also true when less than a second has
\* passed since the last access.
TtlExpired(o) == LET age == now - o.accessed IN age = 0 \/ age >= TTL

-----------------------------------------------------------------------------
(* The folder *)

FolderExists == dir \in {"partial", "clone"}

-----------------------------------------------------------------------------
(* The project lock: flock(2) on one file, per open file description *)

ExclusiveFree == \A p \in Procs : holds[p] = "none"
SharedFree == \A p \in Procs : holds[p] # "exclusive"

Take(p, mode) == holds' = [holds EXCEPT ![p] = mode]
Drop(p) == holds' = [holds EXCEPT ![p] = "none"]

FreeSlots == {s \in Slots : slot[s] = Free}
SlotsOf(r) == {s \in Slots : slot[s] = r}
AllSlotsReturned(r) ==
    slot' = [s \in Slots |-> IF slot[s] = r THEN Free ELSE slot[s]]
=============================================================================
