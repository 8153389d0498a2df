----------------------------- MODULE ServiceJobs -----------------------------
(***************************************************************************)
(* Dataset jobs: requests record and queue them, RQ workers run them in    *)
(* the cached clone of the project.  Requests use the clone under the      *)
(* project lock, jobs use it without.                                      *)
(***************************************************************************)
EXTENDS Naturals, FiniteSets

CONSTANTS Jobs,        \* jobs of one project of one user
          Adds,        \* those that add a remote file; the others import a dataset
          Workers,     \* number of RQ workers
          MaxKills     \* bound on killed jobs

Imports == Jobs \ Adds

ASSUME JobsAssumption ==
    /\ Adds \subseteq Jobs
    /\ Workers \in Nat \ {0}
    /\ MaxKills \in Nat

VARIABLES
    state,     \* Job.state; "none" before the record is made
    request,   \* how far the request of each job is
    queue,     \* jobs in the RQ queue
    worker,    \* how far a worker is with each job
    known,     \* jobs whose project_id still names a Project record
    clone,     \* whether the folder holds a clone
    tree,      \* jobs whose commit is in the clone
    main,      \* jobs whose commit is on the branch of the remote
    side,      \* jobs whose commit is on a new branch of the remote
    kills

projectVars == <<known, clone, tree, main, side>>
jobsVars == <<state, request, queue, worker, projectVars, kills>>

Ended == {"COMPLETED", "FAILED"}
States == {"none", "ENQUEUED", "IN_PROGRESS"} \cup Ended
Working == {"load", "command", "push", "complete"}

JobsTypeOK ==
    /\ state \in [Jobs -> States]
    /\ request \in [Jobs -> {"new", "made", "answered", "error"}]
    /\ queue \subseteq Jobs
    /\ worker \in [Jobs -> {"idle", "start", "done"} \cup Working]
    /\ known \subseteq Jobs
    /\ clone \in BOOLEAN
    /\ tree \subseteq Jobs /\ main \subseteq Jobs /\ side \subseteq Jobs
    /\ kills \in 0 .. MaxKills

JobsInit ==
    /\ state = [j \in Jobs |-> "none"]
    /\ request = [j \in Jobs |-> "new"]
    /\ queue = {}
    /\ worker = [j \in Jobs |-> "idle"]
    /\ known = {}
    /\ clone = TRUE
    /\ tree = {} /\ main = {} /\ side = {}
    /\ kills = 0

GoOn(j, label) == worker' = [worker EXCEPT ![j] = label]

\* A request has the project lock between the two steps of making a job,
\* shared with others if it is an import, alone if it is an add.
Locked == \E j \in Jobs : request[j] = "made"
MayLock(j) == \A k \in Jobs : request[k] = "made" => {j, k} \subseteq Imports

-----------------------------------------------------------------------------
(* The request: renku_op of the import, prepare_paths of the add *)

\* The record of the project was loaded; the folder may be gone again.
MakeJob(j) ==
    /\ request[j] = "new"
    /\ MayLock(j)
    /\ request' = [request EXCEPT ![j] = "made"]
    /\ state' = [state EXCEPT ![j] = "ENQUEUED"]
    /\ known' = known \cup {j}
    /\ UNCHANGED <<queue, worker, clone, tree, main, side, kills>>

\* The rest of the request (Redis, the local files of an add, its push) can
\* still fail.
Enqueue(j) ==
    /\ request[j] = "made"
    /\ queue' = queue \cup {j}
    /\ \E answer \in {"answered", "error"} :
          request' = [request EXCEPT ![j] = answer]
    /\ UNCHANGED <<state, worker, projectVars, kills>>

\* enqueue_retry ends its loop with a break, so what it catches is swallowed;
\* other exceptions, and an add that is left without files, are errors.
EnqueueFails(j) ==
    /\ request[j] = "made"
    /\ \E answer \in {"answered", "error"} :
          request' = [request EXCEPT ![j] = answer]
    /\ UNCHANGED <<state, queue, worker, projectVars, kills>>

Request(j) == MakeJob(j) \/ Enqueue(j) \/ EnqueueFails(j)

-----------------------------------------------------------------------------
(* The worker: dataset_import and dataset_add_remote_file *)

\* Mutation: the job stays in the queue, also when it is taken.
DequeueKeeps(j) ==
    /\ j \in queue
    /\ worker[j] \in {"idle", "done"}
    /\ GoOn(j, "start")
    /\ UNCHANGED <<state, request, queue, projectVars, kills>>

Dequeue(j) ==
    /\ j \in queue
    /\ Cardinality({k \in Jobs : worker[k] \in Working \cup {"start"}}) < Workers
    /\ queue' = queue \ {j}
    /\ GoOn(j, "start")
    /\ UNCHANGED <<state, request, projectVars, kills>>

Start(j) ==
    /\ worker[j] = "start"
    /\ state' = [state EXCEPT ![j] = "IN_PROGRESS"]
    /\ GoOn(j, "load")
    /\ UNCHANGED <<request, queue, projectVars, kills>>

\* Mutation: adds fail for the exceptions of imports only.
RaiseAsImport(j, caught) ==
    /\ GoOn(j, "done")
    /\ state' = IF caught THEN [state EXCEPT ![j] = "FAILED"] ELSE state

\* An add fails whatever is raised, an import only for some exceptions.
Raise(j, caught) ==
    /\ GoOn(j, "done")
    /\ state' = IF caught \/ j \in Adds THEN [state EXCEPT ![j] = "FAILED"] ELSE state

LoadProject(j) ==
    /\ worker[j] = "load"
    /\ clone /\ j \in known
    /\ GoOn(j, "command")
    /\ UNCHANGED <<state, request, queue, projectVars, kills>>

\* IntermittentProjectIdError, which an import does not catch; the record of
\* a project without a folder goes, and other jobs may have the same one.
ProjectIsGone(j) ==
    /\ worker[j] = "load"
    /\ ~(clone /\ j \in known)
    /\ known' \in IF j \in known THEN SUBSET (known \ {j}) ELSE {known}
    /\ Raise(j, FALSE)
    /\ UNCHANGED <<request, queue, clone, tree, main, side, kills>>

\* The callback completes the job at the end of each progress bar.
FinalizeProgress(j) ==
    /\ worker[j] = "command"
    /\ j \in Imports
    /\ state' = [state EXCEPT ![j] = "COMPLETED"]
    /\ UNCHANGED <<request, queue, worker, projectVars, kills>>

Commit(j) ==
    /\ worker[j] = "command"
    /\ clone
    /\ tree' = tree \cup {j}
    /\ GoOn(j, "push")
    /\ UNCHANGED <<state, request, queue, known, clone, main, side, kills>>

\* Mutation: a push that is rejected counts as a push.
PushRejected(j) ==
    /\ worker[j] = "push"
    /\ clone
    /\ main' \in {main, main \cup tree}
    /\ GoOn(j, "complete")
    /\ UNCHANGED <<state, request, queue, known, clone, tree, side, kills>>

Push(j) ==
    /\ worker[j] = "push"
    /\ clone
    /\ main' = main \cup tree
    /\ GoOn(j, "complete")
    /\ UNCHANGED <<state, request, queue, known, clone, tree, side, kills>>

\* The remote rejects the push: a new branch, and the clone is reset.
PushToNewBranch(j) ==
    /\ worker[j] = "push"
    /\ clone
    /\ side' = side \cup tree
    /\ tree' = main
    /\ GoOn(j, "complete")
    /\ UNCHANGED <<state, request, queue, known, clone, main, kills>>

\* The command, git or the time limit of RQ.
JobFails(j) ==
    /\ worker[j] \in Working
    /\ \E caught \in BOOLEAN : Raise(j, caught)
    /\ UNCHANGED <<request, queue, projectVars, kills>>

\* Mutation: a state that the records do not know.
CompleteAsDone(j) ==
    /\ worker[j] = "complete"
    /\ state' = [state EXCEPT ![j] = "DONE"]
    /\ GoOn(j, "done")
    /\ UNCHANGED <<request, queue, projectVars, kills>>

Complete(j) ==
    /\ worker[j] = "complete"
    /\ state' = [state EXCEPT ![j] = "COMPLETED"]
    /\ GoOn(j, "done")
    /\ UNCHANGED <<request, queue, projectVars, kills>>

Run(j) ==
    \/ Dequeue(j) \/ Start(j) \/ LoadProject(j) \/ ProjectIsGone(j)
    \/ FinalizeProgress(j) \/ Commit(j) \/ Push(j) \/ PushToNewBranch(j)
    \/ JobFails(j) \/ Complete(j)

-----------------------------------------------------------------------------
(* Other requests and the sweep, under the project lock (RepositoryCache) *)

\* The clone is reset to its upstream.
Fetch ==
    /\ clone /\ ~Locked
    /\ tree' = main
    /\ UNCHANGED <<state, request, queue, worker, known, clone, main, side, kills>>

\* The record goes with the folder; a request that still has it in its hands
\* can save it again.
Purge ==
    /\ clone /\ ~Locked
    /\ clone' = FALSE
    /\ tree' = {}
    /\ known' \in SUBSET known
    /\ UNCHANGED <<state, request, queue, worker, main, side, kills>>

CloneAgain ==
    /\ ~clone /\ ~Locked
    /\ clone' = TRUE
    /\ tree' = main
    /\ UNCHANGED <<state, request, queue, worker, known, main, side, kills>>

\* RQ does not run a job again whose process was killed.
Kill(j) ==
    /\ kills < MaxKills
    /\ worker[j] \in Working \cup {"start"}
    /\ kills' = kills + 1
    /\ GoOn(j, "done")
    /\ UNCHANGED <<state, request, queue, projectVars>>

JobsNext ==
    \/ \E j \in Jobs : Request(j) \/ Run(j) \/ Kill(j)
    \/ Fetch \/ Purge \/ CloneAgain

JobsSpec == JobsInit /\ [][JobsNext]_jobsVars
FairJobsSpec == JobsSpec /\ \A j \in Jobs : WF_jobsVars(Run(j))

-----------------------------------------------------------------------------
(* Properties *)

(* The commit of an add that completed is on the remote, on its branch or  *)
(* a new one, or others took it out of the clone before the push: it is    *)
(* never left in the clone alone.                                          *)
CompletedAddsArePushed ==
    \A j \in Adds : state[j] = "COMPLETED" /\ j \in tree => j \in main \cup side

\* A job whose record says how it ended.
HasEnded(j) == state[j] \in Ended

\* A step that leaves the records of adds that ended alone.
EndsStay == \A j \in Adds : HasEnded(j) => state'[j] = state[j]

(* What an add ended with is final: it is not run again, and no late step  *)
(* of a request or a worker changes the record.                            *)
EndedAddsStay == [][EndsStay]_jobsVars

(* If no process is killed, each add that was queued ends completed or     *)
(* failed, whatever is raised and although the project may be purged.      *)
QueuedAddsEnd ==
    [](kills = 0) => \A j \in Adds : j \in queue ~> HasEnded(j)

=============================================================================
