# Renku in TLA+

This directory holds the verification project of renku-python: TLA+ modules
that model the parts of the program where the order of steps matters
(interleavings, crashes, failing steps, long histories of commands), TLC
configurations that check them on small instances, and proofs that TLAPS checks
for every value of the constants.

Paths below are relative to the repository (`src/` here).

## 1. The system

renku-python is a command line tool and a web service (the *core service*) for
reproducible projects kept in git repositories. Commands work on one checkout of
one project and keep its metadata (datasets, plans, activities, the project) in a
database of files that git versions and merges. The service keeps clones of its
users' projects in a cache and runs the same commands in them for many concurrent
requests: several gunicorn workers with several threads each, RQ workers for jobs,
a cron job, Redis, lock files and a shared volume.

| Component | State | Operations | Shares / hard because |
|---|---|---|---|
| Project cache (`renku/ui/service/gateways/repository_cache.py`, `cache/models/project.py`) | `Project` records in Redis, clones on the volume, `<path>.lock` | `get` (find, clone, update), `evict_expired` | records, folder and lock are read and written in separate steps by requests and sweep |
| Request handling (`controllers/api/mixins.py`, `core/util/git.py`) | semaphore files, the lock, the clone, the remote | `local`, `ensure_migrated`, `execute_and_sync`, `push_changes` | lock choice, nested migration request, push after the lock is released |
| Lock status (`controllers/project_lock_status.py`) | none | `get_lock_status` | reads records and lock of others |
| Jobs (`jobs/`, `cache/jobs.py`, `utils/callback.py`, `worker.py`) | `Job` records, RQ queues | enqueue, in progress, complete, fail | work in the cached clone without its lock; a state may be set early or never |
| Uploads (`controllers/cache_files_*.py`, `cache/files.py`, `jobs/cleanup.py`) | file and chunk records, chunk folders | upload a chunk, assemble, delete, clean up | last chunks race, cleanup races uploads |
| Command builder (`command/command_builder/`, `domain_model/project_context.py`, `core/git.py`) | stack of contexts, injector, lock, metadata files, branch | pre-hooks, operation, post-hooks | lock released before the post-hooks save and commit; exceptions between hooks |
| Metadata database (`infrastructure/database.py`) | persistent objects, caches, files | load, register, commit | commit is file by file; changes are found through references |
| Datasets (`core/dataset/`, `infrastructure/gateway/dataset_gateway.py`) | versions, names, tails, tags | create, add, edit, unlink, remove, move, tag, import | derivation chains, names used again |
| Metadata merge (`infrastructure/git_merger.py`) | three databases | merge | field by field against the common ancestor |
| Activities (`core/workflow/activity.py`, `infrastructure/gateway/activity_gateway.py`, `core/workflow/model/concrete_execution_graph.py`) | activities, indexes by path, catalog | run, update, rerun, revert, reindex | staleness, order of execution, overridden activities |
| Plans (`core/workflow/plan.py`, `core/workflow/model/workflow_file.py`, `infrastructure/gateway/plan_gateway.py`) | versions, names, compositions | run, compose, edit, remove, run a workflow file | several newest versions, computed identifiers |
| Templates and migration (`core/template/`, `core/init.py`, `core/migration/migrate.py`) | files, checksums, versions | init, set, update, migrate | which file is the user's and which the template's |
| Project creation (`controllers/templates_create_project.py`) | record and folder | create | record saved first, folder cleared without the lock |
| Controllers, views, serializers, authentication | none | HTTP | input and output only |
| Repository wrapper, storage, sessions, configuration, plugins, maintenance commands, CLI, Python API | files, external programs | many | sequential or I/O |

What makes each of them correct:

* **Project cache**: an operation never runs in a folder that someone rebuilds
  or removes; requests that arrive together share one clone and one record; no
  step that fails leaves the lock behind.
* **Request handling**: writes run alone; a write that is acknowledged is on the
  remote; every request is answered and leaves no lock and no semaphore file.
* **Jobs**: a job ends completed or failed, completed only after its result is
  pushed, and is run once. **Uploads**: the last chunk and only the last one
  assembles the file, from all chunks.
* **Commands**: commands that run one after the other lose nothing and commit
  only their own, however they end; a thread can be used again after any of them.
* **Database**: what is reachable in memory is on disk after a commit, and no
  file refers to one that is not there.
* **Datasets and merge**: no version and no tag is lost, by commands or by the
  merge of two branches.
* **Activities**: the catalog is what the activities say; an update runs exactly
  what is stale, each step after those it depends on; a revert undoes.
  **Plans**: names lead to newest versions, history is never rewritten.
* **Templates**: an update reaches every file that is not the user's, and no other.

`PROJECT.json` lists all components with their status and, under `hazards`, the
places in the code where these can go wrong, with the properties that cover them.

## 2. Modules

| Module | What it is |
|---|---|
| `ProjectStore` | State of one cached project: records, folder, project lock, semaphore files, remote, clock; the operations of the `Project` model |
| `RepositoryCache` | `LocalRepositoryCache`: `get`, `_maybe_update_cache`, `_clone_project`, `evict`, `evict_expired`; EXTENDS `ProjectStore` |
| `ServiceRequests` | The whole: `local`, `ensure_migrated`, `execute_and_sync`, lock status, crashes, restarts; `Init`, `Next`, `Spec`, the properties; EXTENDS `RepositoryCache` |
| `SharedClone` | Abstract specification: what the project lock promises about the folder |
| `MCServiceRequests`, `MCChunkedUpload`, `MCCommandExecution`, `MCWorkflows`, `MCPlans`, `MCMetadataMerge`, `MCTemplates` | Small instances for TLC |
| `ServiceRequests_proofs` | Typing, lock and semaphore invariants and the theorems that follow from them; requests that share one clone; `ServiceRequests` implements `SharedClone`; who may disturb an operation |
| `ChunkedUpload` | One upload in chunks, its deletion and the cleanup (other records, other folders, other locks than the modules above) |
| `ServiceJobs` | Import and add jobs of one project: records, queue, workers, and the clone they share with requests; `RepositoryCache` is seen here as three steps (`Fetch`, `Purge`, `CloneAgain`) |
| `UploadsAndJobs_proofs` | Typing and invariants of `ChunkedUpload` and of `ServiceJobs`; the two have no variable in common |
| `CommandExecution`, `CommandExecution_proofs` | Commands on one project: the hooks of `Command.execute`, threads, worktrees, commits |
| `MetadataDatabase`, `MetadataDatabase_proofs` | The object database: states of objects, queue, commit, crashes |
| `Datasets` | Versions, names, tails and tags of datasets on every branch |
| `MetadataMerge`, `MetadataMerge_proofs` | Two branches that are merged; EXTENDS `Datasets` and composes it with the project object and git |
| `Workflows`, `Workflows_proofs` | Activities, their indexes and catalog, status, update, rerun, revert |
| `Plans`, `Plans_proofs` | Versions and names of plans, compositions, workflow files |
| `Templates`, `Templates_proofs` | Template of a project, Dockerfile and version of Renku, migration |

The modules of the service and those of commands meet where a command is one step:
`Write` of `ServiceRequests` and `Commit` of `ServiceJobs` are one execution of
`CommandExecution`, whose `Operate` is one action of `Datasets`, `Workflows`,
`Plans` or `Templates`, and whose `SaveDatabase` is one commit of
`MetadataDatabase`.

### The service

One remote project of one user is modelled: another user or project has other
records, another folder and another lock file, so they do not interact.

* `records`: `Project` records, reduced to the fields that decisions read
  (`id`, `branch`, `accessed`, `fetched`, `initialized`). A record is named
  after the request that made it (the code draws a uuid).
* `dir`: the folder. `lost` means that not even its parent exists (new volume),
  `partial` that it exists without a usable clone.
* `head`, `tree`: the branch checked out in the clone and the writes whose
  commits are on it. `remote`, `side`: the writes whose commits are on the
  remote's branch, or on a new branch of the remote.
* `holds`: how each process holds `<abs_path>.lock` (flock: shared or
  exclusive, per open file, dropped by the kernel when a process dies).
* `slot`: who owns each file of the bounded semaphore.
* `now`: seconds, cut off at `MaxTime`.
* Per process: `pc`, `snap` (the `Project` object in its hands, which can be
  older than the record), for requests `req`, `frame` (inside the migration that
  `ensure_migrated` runs, or not) and `outcome`; for the sweep `todo`.

One action per access to Redis, to the folder or to a lock, because threads of
different workers interleave there. Statements between two such accesses belong
to the action before them; a `with write_lock()` block ends in the step of its
last statement; an exception leaves all `with` blocks in the step that raises it
(`Finish`).

* `Lookup`, `CheckFolder`, `DropRecord`, `Touch`: `get`. `Model.get` of walrus
  raises `ValueError` for several matches as for none, hence `IsOnly`.
* `UpdateLock`, `Update`, `UpdateFails`, `NothingToUpdate`, `UpdateSave`:
  `_maybe_update_cache`.
* `CloneLock`, `CloneCheck`, `CloneTouch`, `Wipe`, `Clone`, `CloneFails`,
  `CloneSave`: `_clone_project`. Clients choose whether the repository is a
  Renku project: `Clone` decides `initialized`.
* `PurgeFolder`, `PurgeFails`, `PurgeRecord`: `Project.purge`.
* `StartSweep`, `ScanExpired`, `ScanKept`, `EndSweep`, `EvictLock`,
  `EvictFails`, `EvictRecord`: `evict_expired`, called by the `/cache.cleanup`
  endpoint for the cron job.
* `AcquireSlot`, `SlotTimeout`, `AcquireLock`, `ReadLockTimeout`, `Load`,
  `LoadFails`, `Read`, `Write`, `Migrate`, `OpFails`: `local`. portalocker
  ignores the timeout of a lock that is not asked for with `LOCK_NB`, so the
  write lock blocks and only the read lock gives up.
* `Push`, `PushToNewBranch`, `PushFails`: `sync`, with `push_changes` as one
  step; `Status`, `TryRead`: the lock status endpoint.
* `Crash`, `SweepCrash`: gunicorn or the kernel kills a worker. `Restart`: the
  pod is replaced; its volume is an `emptyDir`, Redis lives on. Requests that
  have not touched anything yet may arrive after the restart.

Inside a migration the inner request uses the same process: it is the same
`r`, with `frame[r] = "inner"`. It asks for a project with the branch of the
record and takes a second semaphore file, but not the lock of `local`
(`skip_lock`).

`NeedsFetch` reads `PROJECT_FETCH_TIME`, `TtlExpired` the time to live and the
truncation to whole seconds that `int(...total_seconds())` makes.

### Uploads

`ChunkedUpload` models one file (`chunked_id`, `file_name`) of one user. Each
chunk is a request of its own, as Dropzone sends them. State: `dir` and `chunk`
(the folder and, per chunk, absent, partial or whole), `records` and `files`
(`FileChunk` and `File` records: by whom, when), `lock` (the Redis lock), and
`target`: the file that is assembled, as who has it open, how many chunks were
written to it and whether each was whole and in its place.

* `MakeFolder`, `OpenChunk`, `SaveChunk`: the folder, and `file.save`, which
  opens and fills the chunk; another request can see it in between.
* `AcquireLock`, `SaveRecord`, `CountChunks`: record and count under the lock.
  The lock has no time to live: `Crash` leaves it taken.
* `CheckTarget`, `CreateTarget`, `CopyChunk`, `CopyFails`, `RemoveChunks`:
  assembly, outside the lock. A file removed while it is open takes what is
  written to it along. `rmtree` fails if a chunk appears meanwhile
  (`RemovalDisturbed`).
* `Query`, `InvalidateChunk`, `InvalidateFails`, `Invalidated`:
  `invalidate_chunks`. Records are loaded one by one after the query; one that
  is gone by then raises.
* `PostProcess`: the `File` record; unpacking may fail.
* `DeleteChunks` and the same invalidation: the request that deletes the chunks.
* `StartCleanup` ... `EndCleanup`: `cache_files_cleanup`, files first, then
  chunks, then the folders of the chunks that went.

### Jobs

`ServiceJobs` models the jobs of one project. A job is an import
(`dataset_import`) or an add (`dataset_add_remote_file`, the set `Adds`). State:
`state` (`Job.state`), `request` (how far the request that makes the job is),
`queue`, `worker` (its place in each job), `known` (jobs whose `project_id`
still names a record), `clone`, `tree`, `main`, `side` (whether there is a
clone; the commits in it, on the remote's branch and on new branches).

* `MakeJob`, `Enqueue`, `EnqueueFails`: the request, between which it holds the
  project lock, shared for an import and alone for an add (`MayLock`). What
  `enqueue_retry` catches it swallows.
* `Dequeue`, `Start`, `LoadProject`, `ProjectIsGone`, `Commit`, `Push`,
  `PushToNewBranch`, `Complete`: the job. No step asks for the project lock.
* `FinalizeProgress`: `ServiceCallback.finalize_progress` completes an import
  at the end of each progress bar; adds have no such callback.
* `JobFails`: an exception anywhere. An add catches all of them, an import only
  some (`Raise`).
* `Fetch`, `Purge`, `CloneAgain`: what requests and the sweep do to the clone
  under the project lock (`_maybe_update_cache`, `purge`, `_clone_project`).
* `Kill`: the process of a job is killed; RQ does not run the job again.

The command with its commit is one step, and so is `push_changes`. Redis is
assumed to answer the workers.

### Commands

`CommandExecution` executes a set of commands, each in the thread `ThreadOf` names;
`Cli` are those of the command line, each a process of its own. The builders a
command is made of are its `kind`: whether it writes, locks the project, requires a
clean repository, commits, fails when there is nothing to commit, runs in a worktree
(`--isolation`), and which object it changes. Metadata is a set of updates for each
object; the update of a command is the command itself.

State: `stack` and `injector` of each thread (`project_context`, `inject`), `lock`
(`.renku.lock`), `copy` and `changed` (the objects a command has loaded and has to
store), `tree` and `log` (metadata files and commits of a working tree). `met` and
`spoilt` are histories: who overlapped with whom, and the threads in which saving
or committing raised.

One action per hook: `PushContext` (by `renku_project_context`, or by the main function
of the command line), `PrepareWorktree`, `OpenDatabase` (which reads the
project), `Configure`, `Checks`, `TakeLock`, `Load` and `Operate` (the lock goes with
the operation), `SaveDatabase`, `Commit`, `FinalizeWorktree`, `Finish`, and `Rollback`
for what `renku_project_context` does after an exception. The disjuncts of an action
are the ways it ends; a `RenkuException` of the operation becomes the result and the
post-hooks run, any other exception leaves `execute`. `Kill` ends a process anywhere.

### Metadata database

An object is its `oid`; its value is the set of the objects it refers to. `mem` is
`_p_state` (with "new" for an object without serial), `jar` and `cache` are what the
database knows, `queue` is `_objects_to_commit`, `file` and `disk` the files.
`Create`, `Get`, `SetState`, `Insert`, `Discard`, `UpdateProject` and `ChangeProject`
are what commands do; `Change` is the rule of `persistent.Persistent`: an object is
registered when it becomes changed and knows its database. `BeginCommit`,
`StoreObject`, `EndCommit` are `Database.commit`: `StoreObject` pops the last object,
registers what it refers to and is not saved, and writes the file. `StoreFails` and
`Crash` end a commit early, `Reopen` is the next command.

### Datasets and their merge

`versions` numbers all versions of datasets over all branches; `metadata` has for each
branch the dataset files, the index of active versions, the tails, and the tags, whose
lists are files of their own. Actions: `Create`, `EditDataset`, `AddToDataset`,
`FileUnlink`, `RemoveDataset`, `MoveFile`, `AddTag`, `RemoveTags`, `ImportDataset`.
All go through `AddOrRemove` (`DatasetGateway.add_or_remove`). `MoveFile` derives a new
version of every dataset that has the file, in any order (a bijection between those
datasets and the next numbers). What the code finds by following `derived_from` step by
step is the smallest set that the steps do not lead out of (`Above`).

`MetadataMerge` lets each branch take commands, also `EditProject` and `SetTemplate`,
and merges one branch into another. `ThreeWay` is git: only a file that both sides
changed reaches the merge driver, which merges the index of datasets
(`MergeDatasets`, asking about names it cannot decide), tails, tags and the project
(`MergeProjects`) and refuses the rest (`IsRefused`). `base` is the merge base, `asked`
the names the last merge asked about.

### Activities

In `Workflows` a path is the set of the files at it, so that a directory and a file in
it are related. A plan has fixed paths that it uses and generates, and what it writes is
a function of what it reads. `db` has the activities, the indexes by used and generated
path, and the catalog of relations; `content` the files. `Index` and `Unindex` change
the catalog as `_index_activity` and `_unindex_activity` do, for one activity at a time.

`Run`, `Execute`, `Update` and `Rerun` all end in `ExecuteGraph`: inputs are checked,
the steps are executed in one of the orders the graph of steps allows, and the
activities are added, each checked for cycles. The list that `sort_activities` makes is
one of several (`SortedSteps`: any that follows equal paths and the times of activities);
the graph made from it (`WorkflowGraph`) keeps for each input the producer that comes
last in the list (`Keeps`), because the code pops the plans from its end and takes the
first predecessor of the input.
The loops over steps and activities (`WriteAll`, `AddAll`, `Reindexed`) are functions on
the number of rounds done; `Reach` is the smallest set closed under the catalog.
`ToUpdate` follows `get_modified_activities`, `get_downstream_generating_activities` and
`add_activity_if_recent`; `Overridden` and `CanSort` follow `sort_activities`. `Revert`
is `revert_activity` in the order of the code (plan, files, metadata), `ReindexCatalog`
what `renku doctor` does, `Edit` the user.

### Plans

`db` has the stored versions, the index `plans` as the sequence `listed`, and `byName`
(`plans-by-name`). A version knows what it is derived `from` and `first`, the derivative
that comes first in the order of identifiers: `get_latest_plan` follows it, and since
identifiers are random the actions choose it (`before`). Actions: `RunCommandLine`,
`Compose`, `EditWorkflow` (of any version), `RemovePlan`, `ExecuteWorkflow`,
`RunWorkflowFile`. The identifiers of a workflow file's plans are computed from its path
and, after a removal, the next number (`FileId`, `StepId`, `Free`); `ToPlan` decides
which plans are used again and which get a new version. Plans of steps that a run leaves
out are stored but not listed.

### Templates

A file is a revision of the template with the user's change in it (`mine`), and for the
Dockerfile the change outside the Renku section and the version of Renku. `checksums` are
those the last command wrote. `InitializeAction`, `SetAction` and `UpdateAction` are the
three functions of `get_file_actions`; `SetTemplate` and `UpdateTemplate` exist with and
without questions, and `Migrate` is the update of the template followed by
`update_dockerfile` before anything is committed. The user may `Edit`, `Delete` or
`Adopt` files, or change the version; `Publish` and `Upgrade` bring new versions of the
template and of Renku. A command that fails commits nothing.

## 3. Properties and runs

Passing runs:

| Run | Instance | Properties |
|---|---|---|
| `Requests` | 2 requests (read, write or lock status), 2 semaphore files, failing git, sweep, 1 crash or restart, clock to 2, weak fairness | `TypeOK`, `NothingLeaks`, `LockedWorkRunsAlone`, `OnlySyncDisturbsOperations`, `SharesTheClone`, `EveryRequestIsAnswered` |
| `Sharing` | 3 requests, also migrating ones, within one fetch time, every push accepted, no sweep, no crash | `OneCloneServesAll`, `AcknowledgedWritesAreOnRemote` |
| `Uploads` | 2 chunks by 2 requests, with or without an older file in the way, deletion, cleanup any number of times, 1 crash, clock to 1, weak fairness | `TypeOK`, `OneRequestAssembles`, `AnsweredFilesAreWhole`, `UndisturbedUploadsEnd` |
| `DatasetJobs` | An import and an add, 2 workers, 1 killed job, weak fairness | `CompletedAddsArePushed`, `EndedAddsStay`, `QueuedAddsEnd` |
| `Commands` | 2 commands of the service in one thread, 1 on the command line (also isolated), any builders, 1 killed process | `TypeOK`, `ThreadsStayUsable`, `OnlyOverlapsLoseUpdates`, `CommandsCommitTheirOwn`, `CommitsAreKept` |
| `Database` | Root, an index, 2 items, the project, 1 failing or killed commit, weak fairness | `TypeOK`, `CommitSavesEverything`, `NothingDangles`, `CommitEnds` |
| `Datasets` | 2 branches, 2 names, 2 files, a tag, a keyword, 3 commands, any merges | `TypeOK`, `ProvenanceIsKept`, `MergeKeepsUpdates` |
| `Workflows` | 4 plans (one reads a directory into which two others write, the second from what the first wrote; two generate one file; one closes a cycle), 3 runs and then updates and reruns up to 6 activities, 1 edit, 1 removal | `TypeOK`, `CatalogIsExact`, `DependenciesAreAcyclic`, `UpdateIsComplete`, `StepsFollowTheirProducers`, `RevertRestoresFiles` |
| `Plans` | 2 names, a workflow file of 2 steps in 3 contents, up to 6 versions | `NamesFindNewest`, `HistoryIsKept`, `OnlyForceBreaksComposites`, `UnchangedFilesKeepTheirPlans` |
| `Templates` | Dockerfile, README, .gitignore; 3 versions of the template, 2 of Renku, 2 changes by the user | `UntouchedFilesAreCurrent`, `UserChangesAreKept`, `RenkuVersionIsPreserved` |

The service:

* `LockedWorkRunsAlone` (`RebuildsRunAlone` and `WritesRunAlone`): while an operation
  runs nobody fetches into, clones over or removes its clone, and writes run alone.
  `get`, `local` and `evict` each take the lock in their own way, and must all take the
  right one; a migrating read must take the write lock, too.
* `OnlySyncDisturbsOperations`: the exact exception: what changes under an
  operation is what another request pushes after it gave the lock back.
* `SharesTheClone`: lock and folder implement `SharedClone` (refinement).
* `NothingLeaks`: however a request ends, it holds nothing; the semaphore
  bounds the requests past it. A migration owns two files for a while.
* `EveryRequestIsAnswered`: holds for requests that do not migrate; the run
  `MigrationDeadlock` has those that do.
* `OneCloneServesAll`: requests that arrive together end with one record, and run in its
  clone; what `_clone_project` promises them. It holds without the sweep.
* `AcknowledgedWritesAreOnRemote`: holds as long as no fetch is due and nobody
  pushes to another branch; `LostWrite` has the fetch.
* `OneRequestAssembles`: recording a chunk and counting the records is one step
  under the Redis lock; without it two requests see the last record, or a
  counter that is off lets an early one begin.
* `AnsweredFilesAreWhole`: assembly runs outside the lock, while others delete,
  clean up or are killed. Each of these makes it fail, none makes it answer with
  a file that lacks a chunk.
* `UndisturbedUploadsEnd`: if nobody interferes (`Undisturbed`: no crash, no
  deletion, nothing expired, no cleanup while chunks are invalidated), some
  request ends with the file, or with the reason why there is none. The cleanup
  may run at any other time, also in the middle of the upload.
* `CompletedAddsArePushed`: between the command, the push and `complete` others
  may push the commit, reset the clone or remove it. An add that completed is
  never left in the clone alone. It may be lost, if the clone was reset before
  the push (as in `LostWrite`), but then the clone does not have it either.
* `EndedAddsStay`: completed or failed is final: no worker takes the job again,
  no late request changes its record.
* `QueuedAddsEnd`: unless a process is killed, an add that was queued ends,
  although its project may have been purged before or while it runs.

Commands and metadata:

* `ThreadsStayUsable`: hooks that are left out after an exception would leave an injector
  or a context behind, and the next request in this thread would fail. The one exception
  is a thread in which the database could not be written, or in which `finalize_commit`
  raised something else than a `RenkuException`, which its hook does not catch.
* `OnlyOverlapsLoseUpdates`: since commands save after they gave the lock back, and read
  the project before they took it, overlapping commands can lose updates. This is exact:
  nobody else does, whatever way commands end. The command that loses an update and the
  one that made it need not overlap themselves: a chain of overlaps (`Chain`) may lie
  between them, each command of which passes a stale object on.
* `CommandsCommitTheirOwn`: a command that overlapped with no other has its update on the
  branch when it ends well, and commits nothing a failed command left behind if it
  requires a clean repository.
* `CommitsAreKept`: the commits of an isolated command survive a refused merge.
* `CommitSavesEverything`: new objects get into the queue only through objects that
  refer to them; none is forgotten, however the changes came about.
* `NothingDangles`: between commits no file refers to one that is missing, unless a
  commit failed or was killed. Within a commit an object is written before the new ones
  it refers to, so that a killed commit can leave such a reference; git has the last
  committed state.
* `CommitEnds`: storing an object registers others, and yet the loop ends.
* `ProvenanceIsKept`: every version is found from the tails, active versions are tails,
  tags belong to their dataset, removed files are marked, on branches and after merges.
* `MergeKeepsUpdates`: a version that one side made active and an edit of the project
  survive a merge, or the user was asked; so do tags, in all but the two cases in which
  the code loses some (both sides made the first tags; one side removed them or the
  dataset). A dataset that was removed on one side is not covered: it may come back.
* `CatalogIsExact`: the catalog is kept up to date one activity at a time; it is what one
  would compute from all activities that are not deleted.
* `DependenciesAreAcyclic`: the search for cycles looks only near the new activity, and
  after it was added.
* `UpdateIsComplete`: after `renku update` nothing is stale: what changed was found, and
  all that depends on it, through chains of activities some of which were overridden,
  reverted or lost their plan.
* `StepsFollowTheirProducers`: after an update or a rerun the outputs of a step are what
  its plan makes of the inputs as they are now, if each of its inputs has a last
  producer, one that reads what each of the others writes (`HasLastProducer`): the graph
  keeps only one producer, and it must be that one. Without the condition this is
  `UpdateIsConsistent`, which the code does not keep (section 5).
* `RevertRestoresFiles`: for activities whose plan is not deleted with them.
* `NamesFindNewest`: a name leads to a version of that name without a newer one; a
  newest version loses its name only to a later version that took it or was derived
  from an older one of this name.
* `HistoryIsKept`: no command changes a listed version or brings back a removed plan, but
  one that lists a step which an earlier run of the file left out (section 5).
* `OnlyForceBreaksComposites`: no order of edits, renames and removals removes a step of
  a composite without force.
* `UnchangedFilesKeepTheirPlans`: a second run of an unchanged file stores nothing.
* `UntouchedFilesAreCurrent`, `UserChangesAreKept`: the two sides of the checksums: what
  the user did not touch is never left behind, what the user wrote or deleted is never
  overwritten or restored without agreement.
* `RenkuVersionIsPreserved`: only `renku migrate` changes the version in the Dockerfile.

Runs that end in a violation show where the code does other than its own
comments and docstrings say; `PROJECT.json` quotes them under `findings`:

| Run | Property | What happens |
|---|---|---|
| `LostWrite` | `AcknowledgedWritesAreOnRemote` | A second request fetches and resets the clone between a write and its push; the first commit is gone and acknowledged |
| `MigrationDeadlock` | `EveryRequestIsAnswered` | The inner request of a migration waits for the lock of its own outer request |

### Bounds

Two or three requests are enough for each question: an overtaking needs the one
that is overtaken and the one that overtakes, a record left behind needs a third
that makes the next one, and a semaphore of two files is full with two. Times
reach 2 because a record has to be younger than, equal to and older than
`FetchTime` and `TTL`. One crash shows every state a killed process leaves; more
only end more requests. `MaxTime` and `MaxCrashes` are the only bounds in guards
(`Tick`, `Crash`, `SweepCrash`, `Restart`). Requests and semaphore files are
interchangeable, so runs without liveness use them as symmetry sets. Deadlock is
checked (`Idle` lets an instance rest once every request is answered); only
`MigrationDeadlock`, whose subject it is, turns the check off.

`Uploads` has two chunks: the first and the last, which is all the code tells
apart; the proofs are for any number. With `TTL` and `MaxTime` 1 a chunk can be
younger than another one and expire before it. The instances send each chunk
once (`OneRequestPerChunk`); the code counts a repeated chunk twice, so that
nothing would be promised. Deadlock cannot occur: the cleanup can always run.

`DatasetJobs` has one job of each kind: two jobs are in the clone at once, each
can push, reset or outlive the commit of the other, and an add is subject to all
that an import does. The proofs are for any number of jobs and workers.

`Commands` needs two commands that overlap and a second one in the thread of the
first, which finds what the first left. `Database` needs an item that refers to a new
item and is itself reached through an index; two items and one index have every chain
of states an object goes through. `MaxFaults` bounds commits that raise or are killed.

The bounds of the last four runs are on how many commands a history has
(`MaxCommands`, `MaxVersions`, `MaxLists`; `MaxRuns`, `MaxActivities`, `MaxEdits`, `MaxRemovals`;
`Sizes`; `MaxEdits`, `MaxRenku`); there deadlock is not checked, since a history that is
used up stops. Three commands on two branches make every pair of sides and an older
version to merge. Three runs make a chain, an overridden activity, a second generator, or
a step with two producers that depend on each other, and six activities let an update
execute all three again (`MaxRuns` bounds `Run` and `Execute`, `MaxActivities` all);
three versions of a file's plans are a run, a change and a removal, and five
other versions are enough for a chain with two branches in a composite. A version of the
template without one of its files is between two that have it. `Sizes` trades versions
of the file for other versions, because their product is out of reach.

### Fairness

`FairSpec` of `ServiceRequests` is weakly fair to each request and to the sweep: a
thread that can go on does so, and `flock` hands the lock to a waiter when it is free
for good. Nothing is assumed about the fairness of `flock` between waiters (no strong
fairness), about the clock, about git or about crashes. `EveryRequestIsAnswered` holds
without more because no process comes back to the lock forever. `Uploads` assumes the
same of each upload request, and nothing of the deletion and the cleanup.
`DatasetJobs` assumes that workers go on with each job (`Run`: RQ workers poll
their queue, and RQ ends a job that takes too long), and nothing of requests and
the sweep. `Database` assumes that the loop of a commit goes on (`StoreObject`,
`EndCommit`): it is one thread that waits for nothing.

## 4. Proofs

TLAPS checks, for all values of the constants that satisfy the assumptions:

| Theorem | States |
|---|---|
| `TypeCorrect` | `Spec => []TypeOK` of `ServiceRequests` |
| `ClonesAreRebuiltAlone` | `Spec => []RebuildsRunAlone` |
| `WritesExcludeEveryone` | `Spec => []WritesRunAlone` |
| `LockedWorkExcludesEveryone` | `Spec => []LockedWorkRunsAlone`, from the two before |
| `AnswersLeakNothing` | `Spec => []NothingLeaks` |
| `RequestsShareOneClone` | `NothingRemovesClone => (Spec => []OneCloneServesAll)` |
| `AcknowledgedWritesArrive` | `NothingResetsClone => (Spec => []AcknowledgedWritesAreOnRemote)` |
| `ServiceSharesTheClone` | `Spec => SharesTheClone` |
| `OnlyPushesDisturbOperations` | `Spec => OnlySyncDisturbsOperations` |
| `UploadTypeCorrect` | `Spec => []TypeOK` of `ChunkedUpload` |
| `OneAssembles` | `OneRequestPerChunk => (Spec => []OneRequestAssembles)` |
| `WholeFilesAnswered` | `OneRequestPerChunk => (Spec => AnsweredFilesAreWhole)` |
| `JobsTypeCorrect` | `JobsSpec => []JobsTypeOK` |
| `CompletedArePushed` | `JobsSpec => []CompletedAddsArePushed` |
| `EndsOnce` | `JobsSpec => EndedAddsStay` |
| `CommandsAreTyped` | `Spec => []TypeOK` of `CommandExecution` |
| `ThreadsAreLeftClean` | `Spec => []ThreadsStayUsable` |
| `OverlapsLoseUpdates` | `Spec => OnlyOverlapsLoseUpdates` |
| `CommandsAloneCommitTheirOwn` | `Spec => CommandsCommitTheirOwn` |
| `NoCommitIsLost` | `Spec => CommitsAreKept` |
| `DatabaseIsTyped` | `Spec => []TypeOK` of `MetadataDatabase` |
| `CommitsSaveEverything` | `Spec => []CommitSavesEverything` |
| `FilesAreComplete` | `Spec => []NothingDangles` |
| `DatasetsAreTyped` | `Spec => []TypeOK` of `MetadataMerge` |
| `ProvenanceStays` | `Spec => []ProvenanceIsKept` |
| `MergesKeepUpdates` | `Spec => MergeKeepsUpdates` |
| `UntouchedFilesFollowTheTemplate` | `Spec => []UntouchedFilesAreCurrent` |
| `UserChangesStay` | `Spec => UserChangesAreKept` |
| `RenkuVersionStays` | `Spec => RenkuVersionIsPreserved` |
| `TypeCorrect` (of `Workflows_proofs`) | `Spec => []TypeOK` of `Workflows` |
| `CatalogStaysExact` | `Spec => []CatalogIsExact` |
| `CyclesAreRefused` | `Spec => []DependenciesAreAcyclic` |
| `RevertsRestoreFiles` | `OutputsAreApart => (Spec => []RevertRestoresFiles)` |
| `StepsRunInOrder` | `Spec => []StepsFollowTheirProducers` |
| `NamesFindNewestVersions` | `Spec => []NamesFindNewest` of `Plans` |
| `HistoryStays` | `Spec => HistoryIsKept` |
| `ComposedStepsStay` | `Spec => OnlyForceBreaksComposites` |
| `UnchangedFilesStay` | `Spec => UnchangedFilesKeepTheirPlans` |

So the theorems hold for every number of requests, semaphore files, chunks, jobs,
commands, threads, objects, datasets, versions, tags, template files, plans and
activities, every workload, and every bound on time, crashes and histories. The assumptions, all named
in the module of the constants:

* `ProjectStore`, `RepositoryCache`, `ServiceRequests`: processes are distinct, the
  default branch is a branch, semaphore files are finitely many, times and the crash
  bound are naturals, the workload is typed;
* `UploadAssumption`: at least one chunk, finitely many requests, distinct processes;
  `JobsAssumption`: adds are jobs, there is a worker;
* `CommandsAssumption`: a command of the command line has its thread for itself (it is a
  process); `DatabaseAssumption`: finitely many objects, the root is a tree, and trees,
  items and the project are different objects;
* `DatasetsAssumption`, `MergeAssumption`: there are at most two branches and the bounds
  are naturals; `TemplatesAssumption`: every version of a template has a Dockerfile
  (`Template.REQUIRED_FILES`, which `validate` checks), which is none of the files that
  are kept, appended to or immutable;
* `PlansAssumption`: the workflow file has finitely many steps, and its contents and the
  bounds are typed.

Most theorems need no condition on the environment. Five have a hypothesis, which is an
operator and says under which circumstances the code keeps its promise:
`OneRequestPerChunk` (each chunk is sent once), `NothingRemovesClone` (no sweep, no
crash, one branch, and no fetch that fails), `NothingResetsClone` (besides, no fetch
is due within the time looked at and the remote accepts pushes) and `OutputsAreApart` (no
output of a plan lies in another output of the same plan). The run `Sharing` is an
instance of `NothingRemovesClone` and `NothingResetsClone`, and `LostWrite` shows that the
hypothesis about fetches is needed; the run `Workflows` is one of `OutputsAreApart`.

### Service, uploads and jobs

None of the properties is inductive. The invariant is built in parts:

* `TypeInv` adds to `TypeOK` that a process past its lookup has an object in its
  hands; without it a save could write a non-record.
* `LockInv` says what each process holds from where it stands: `exclusive` while
  it rebuilds or migrates, what `LockMode` says between `load` and `op`, else
  nothing; and who holds exclusively holds alone. `MigratesInside` keeps the
  inner request of a migration away from the update and clone steps: it waits
  for a lock it holds itself. One lemma (`OneProcessMoves`) treats a step of one
  process in general; the cases per action only name the new `pc` and lock.
* `SlotInv` does the same for the semaphore files: one from the semaphore to the
  end of the operation, two in the operation of an inner migration. The bound of
  `NothingLeaks` is an injection from requests to files.
* `VolumeInv`: who may hold the lock has a folder to hold it on. It is what the
  refinement needs where an exclusive holder leaves the folder as it is: only a
  restart loses the folder, and a restart ends every holder.
* `SharingInv`, under `NothingRemovesClone`: a request that uses the clone has its record
  in hand, and that record is the only one; one that is about to make a clone has a new
  object whose record does not exist, and gets past `CloneCheck` only while there is no
  record at all. The case that matters is `CloneSave`: nobody else works on the folder
  (`LockInv`) and nobody uses a clone, since there is no record; so the first record is
  the only one. Everybody who waited for the lock then finds it in `CloneCheck`; without
  that second look two records would be made.
* `WritesInv`, under `NothingResetsClone`: a request at `sync` has its commit in the
  clone. No lock protects it there; it stays because who uses the clone keeps others
  from cloning (`SharingInv`) and nobody fetches.

For the refinement `Moves` lists what one step can do to lock and folder; each
action of the service is shown to be such a move, each move to be a step of
`SharedClone` or none, and a restart is `LoseVolume`.

For uploads, with any number of chunks, requests, crashes and cleanups, the
invariant `UploadInv` says: who records or counts has the lock; records belong to
requests past the recording, one for each; a partial chunk has no record; who
assembles is the last one alive and finds no partial chunk; what it has copied is
what the target holds, unless the target was removed. The step that matters is
`CountChunks`: `Count` records of distinct chunks are all chunks
(`AllChunksRecorded`, an injection between finite sets of one size is onto), so
every other request is past its count. That each chunk is sent once is an
assumption of these two theorems, not of typing.

For jobs, `JobInv` says that a job is in one place only (`RunsOnce`: with its
request, in the queue, with a worker or done, and an add whose record has ended
is done), and that a job past its push has nothing in the clone that the remote
lacks (`PushedOrDropped`): the step from the push to `complete` is where others
interfere, so the property has to hold there already.

### Commands

The invariant of `CommandExecution_proofs` speaks about each command and its thread:

* `ThreadInv`: a thread executes one command at a time, and its injector and contexts
  are those of that command (but for a thread in which saving raised).
* `OverlapInv`: commands that run at the same time know each other in `met`.
* `BranchInv`: the branch of a worktree is the one of the project as it was, plus at most
  commits of the command; as long as the project can be moved forward to it, it has all
  that the project has. Hence a merge that is accepted loses nothing.
* `CopyInv`: what a command has loaded differs from the files only by updates of
  commands that a chain of overlaps joins to it; alone, or in a worktree, it has all that
  is in the files. Direct overlap would not be inductive: a command can store a stale
  object that it has read from one it overlapped with.
* `UpdateInv`, `CleanInv`: the way of a lone command's update from its copy over the
  files to the branch, and that nothing else comes along.

Each is shown for the command that acts (one lemma for each hook) and, in `OthersInv`,
for all others.

### Metadata database

`QueueInv` is the core: an object that is not saved is in the queue, or it is new and
only unsaved objects refer to it, which bring it in when they are stored. At the end of a
commit the queue is empty, so that nothing a saved object refers to is unsaved. The one
change that need not be queued is that of a project replaced by itself: the root, which
was changed with it, brings it in.
It needs `MemoryInv` (what is up to date is in its file; what may be queued knows the
database) and `RootInv` (the root is in memory, and only the root refers to trees and the
project; therefore replacing the project cannot take it away from anybody else). `DiskInv` is the invariant of the files: a reference on
disk leads to a file, or, within a commit, to an object that is still in the queue.

### Datasets and their merge

Every command on datasets is shown to be an `Updates`: it stores new versions of some
datasets on one branch, each following the version that was active, and changes lists of
tags of datasets it has. One group of lemmas (`Update...`) shows what any such step keeps,
so that the commands only have to be recognised. A merge is a `Merging`, of which
`SidesOf` says where each part comes from: if only one side has versions of its own, git
takes its indexes; if both have, the driver joins the tails. The invariant consists of
`TypeInv`, `VersionsInv` (versions follow older ones), `MetadataInv` of both branches and
of the merge base (active versions, tails and tags are of versions the branch knows),
`OwnerInv` (a list of tags is the one of one name, on all branches), `BaseInv` (what the
branches have in common is what the base has; a branch without a version of its own is
as the base, and one that has some has a tail of its own: this is what makes the choice
of a side right), `ListsInv` (branches share lists of tags from the base only; what one
made since, the other has not changed) and the parts of `ProvenanceIsKept`. That `IsRefused`
excludes the lists of tags that both sides changed is needed for `MergeKeepsUpdates`.

### Templates

`ChecksumInv` relates three things: the checksums are those of files of a template, of
the files the project's version has, and, for files the user left alone, of what is in the
project now. Without the second part an update would take a file that the template no
longer has for the user's. `DockerfileInv` covers the changes of the version, which do not
count in the checksum. `Sound(after)` says what the file actions make of a project that
satisfies the invariant; set, update and both halves of a migration are instances of it.

### Activities

`DatabaseInv` has four parts: the activities are the ones added so far, each from a plan;
both indexes hold exactly the live activities at each path; the catalog is exact for the
live activities; and what depends on what has no cycle. The lemmas follow the code:

* `IndexAdds` and `UnindexRemoves`: one call of `_index_activity` makes a catalog that was
  exact for some activities exact for one more, and `_unindex_activity` for one less,
  although either looks only at the paths related to those of its own activity.
* `WriteAllLoop`, `AddAllLoop`, `ReindexLoop`: the loops are recursive functions on
  `0..n`. That such a function exists, and what it gives for each round, is shown from
  `Induction`: what holds before a loop and is kept by each round holds after it. That
  lemma follows from the least element of a set of numbers (`WFMin` of the library), so
  that no theorem with an operator as parameter is needed.
* `NewCyclesAreFound`: the search of `ActivityGateway.add` goes through the activities up-
  and downstream of the new one. If adding it closed a cycle, then all of a smallest set
  of activities that each lead to and from another one is in the reach of the new one, so
  that the search sees it; otherwise there was a cycle before.
* `RevertedPath`: `revert_generations` goes through the outputs in some order and restores
  or deletes one path after the other. If one output lay in another one, restoring the
  second would undo the first; with plan outputs `{x}` and `{x, y}` TLC refutes
  `RevertRestoresFiles`, hence `OutputsAreApart`.
* `SortedExecution`, `ProducersComeFirst`, `OrdersAreSound`: a list that respects equal
  paths puts the last producer of an input after the others, so that it is the one the
  graph of steps keeps (`OneIsKept`, `KeptComesFirst`); where the last producer reads a
  path that only one other step generates, the graph has this dependency, too
  (`OrderIsComplete`). Every order of the graph therefore runs a step after all its
  producers, if `HasLastProducer` holds of its inputs. `StepsFollowTheirProducers` says so of the
  result: what a step wrote is what its plan makes of the files as they are at the end.
  Without the condition that is refuted: see section 5.

### Plans

`PlansInv` describes the stored versions and the two indexes: the project is finite, every
version refers to stored versions, and random identifiers are not used twice. A version's
`first` is a derivative of it that was listed later (`FirstIsLater`, `FirstIsDerived`), so
`get_latest_plan` ends, and `from` was listed before (`FromIsEarlier`), so
`get_derivative_chain` ends. The properties of names are part of it, which makes
`NamesFindNewestVersions` one of its parts.

* `LatestLoop`, `ChainLoop`: the recursive functions `Latest` and `Chain` exist on the
  stored versions. Each is built along the order of the index (`InReverse`, `InOrder`),
  in which `first` and `from` are well-founded.
* `StoreKeepsPlans`, `AddKeepsPlans`, `AddAllKeepsPlans`: storing versions, adding one and
  adding the executed steps of a workflow file in any order keep `PlansInv`.
* `SomeIsFree`: of one identifier more than there are listed versions, one is free, so a
  workflow file always finds the identifiers of its plans (`FreeIds`, `FileMayBeStored`).
* `Chains`, `ChainsChange`: versions with the same newest version have the same chain, and
  that chain changes only if one of them gets another first derivative. If that version
  had none, the new chain contains the old one; if it had one, the code gives it another
  only while the plan is not removed. Therefore (`ChainsGrow`) a removed plan stays removed
  (`CommandsKeepRemoved`), and except for `RemovePlan` no command removes a plan
  (`CommandsRemoveNone`). For that no stored version that is not listed may be deleted
  (`Undeleted`), which is invariant.
* `RemovalSparesComposites`: `remove_plan` refuses if a step of a composite is in the chain
  of the plan; the chain of a step that is removed by it is that chain, before and after.
* `FileIsCurrent` says what a run of a workflow file leaves behind: the numbers before the
  first plan that is not removed are all taken by removed plans, and the newest version of
  that plan equals the file. `FileBecomesCurrent` shows it for the plan that is used again
  and for a new version, `FileStaysCurrent` that `ExecuteWorkflow` keeps it, and
  `CurrentFileIsUsedAgain` that `ToPlan` then finds that plan and makes nothing new. It
  needs that what an identifier, a derivation or the missing entry in the list says about
  a version's kind is true (`Kinds`, `UnlistedAreSteps`): listing a step later then never
  changes the chain of a file's plan (`AddAllKeepsFiles`).

### Only model-checked

* Liveness, which is out of the prover's reach: `EveryRequestIsAnswered`,
  `UndisturbedUploadsEnd`, `QueuedAddsEnd`, `CommitEnds`.
* `UpdateIsComplete`: that nothing is stale after an update is about what folds over sets
  of activities keep (`FilterOverridden`, `ToUpdate`).

No module declares a RECURSIVE operator.

## 5. Observations

What the models showed beside the two findings; the code is modelled as it is.

* Service: the record of a repository that is no Renku project is saved before the
  request is refused; the lock status says "unlocked" while the first clone, which has no
  record yet, holds the lock; the branch of a request is not stored in the record; the
  sweep can purge a project between lookup and lock, after which `touch` recreates the
  record and the operation runs without a clone; one expired chunk takes the folder with all later chunks along; what
  `enqueue_retry` catches it swallows, so that a client can be answered with a job nobody
  runs; the progress callback completes an import before its result is pushed.
* Merge: a dataset that one branch removed comes back when the other changed the same
  index; first tags made on both branches lose those of the remote side; a list of tags
  changed on both sides is refused; `merge_catalogs` drops remote entries of common keys;
  `merge_projects` ignores a change of the version alone.
* Datasets: an import over an imported dataset takes the tail away before it drops
  `derived_from`, so that the older versions are found from no tail; tagging an imported
  version fails after the import was committed if the tag exists.
* Plans: `edit_workflow` does not check the new name; editing an older version by its
  identifier branches the chain and takes whatever plan has the old name by now out of
  the index; a removed plan's name can be used again by `run` but not by `compose`; plans
  of the steps of a workflow file refuse every edit; a step that a run of the file left
  out is stored without being listed, and a later change rewrites that version under the
  same identifier; listing such a version later can bring back a removed plan.
* Activities: the graph of steps keeps one producer for each input although several
  steps may write into an input directory. If the second of them reads the very file the
  first one writes, it comes last in the list and is kept, and the order is right
  (the run `Workflows` has this case). If it reads a directory around that file, nothing
  orders the two in the list, which follows equal paths only: `A: i -> data/in/x`,
  `B: data/in -> data/y` and `C: data -> z` may be sorted as B, A, C. Then A is kept as the producer of `data`, C runs
  before B, and `z` is made of the old `data/y` and recorded with the checksum of the new
  one, although `workflow_graph` promises "workflows and their dependencies"
  (`src/renku/core/workflow/model/concrete_execution_graph.py:155`).
  `NestedDirectories.cfg` is this instance without the condition `HasLastProducer`: TLC
  ends it with a violation of `UpdateIsConsistent`. Which list `sort_activities` makes
  depends on the order in which activities come out of a set. Activities of one
  execution end at the same time, so that two that generate one path cannot be ordered;
  `revert` deletes the plan first, after which the activity no longer counts as a generator and its files stay.
* Templates: without a Dockerfile `template set` and `update` fail; a file that leaves
  the template and comes back is never updated again; a kept README counts as changed
  from then on.

## 6. Not modelled

The models stand for the code that decides something. Most lines of the repository do
not, and no share of them can be mapped without transliterating what has no behaviour of
its own:

* the command line (`renku/ui/cli`), views, serializers and schemas, and the views of
  metadata: parsing, presentation, documentation strings;
* `core/migration/m_*.py` and `core/migration/models`: one program for each old version
  of the metadata, with a copy of the data model of that time; `migrate_project`, which
  runs them, is in `Templates`;
* data providers, LFS, sessions, authentication, configuration files, plugins: calls to
  external services and programs;
* the wrapper of GitPython: it is the repository that the models use.

Of the modelled components:

* `_unshallow_project`, `invalidate_project`: no caller in the service. `remote()`:
  anonymous sessions work in a folder of their own.
* Requests that run as jobs (`delayed_ctrl_job`), several replicas of the pod (which share
  Redis but neither volume nor locks), project creation.
* The steps inside `push_changes`, which checks out a temporary branch in the clone when
  a push is rejected: one step here.
* A project that was used within the last second counts as expired
  (`TtlExpired` has this); no property is stated of it, since the sweep waits
  for the lock in any case.
* The `FileNotFoundError` that opening a lock file raises on a lost volume is
  modelled where the code handles it (`evict`); in `local` a lost volume ends
  the request together with its pod.
* Uploads in one piece (`process_file`), what is in an archive, several users
  (`get_chunks` selects by the identifier of the upload only), and files that
  jobs lock (`is_locked` of a file is never true, as jobs lock projects).
* The lock status asked by `project_id`, which deletes the record of a project whose
  folder is missing (`get_project`); the jobs have this step.
* Commands: the hooks for communication and storage, `DatasetLock`.
* Templates: a Dockerfile without the markers of the Renku-specific section, of which
  the whole counts as the section: it is hashed and overwritten as a whole.
* Database: encoding and compression; objects stored at a path of their own.
* Merge: plans, activities and catalogs.
* Activities and plans: values of parameters, mappings and links, `iterate`, the
  detection of inputs and outputs, providers other than the local one.
* Datasets: what `add` does with files on disk, and external data.

## 7. Plan

The modules of section 2 are done. What is left, in this order:

1. **Proofs**: `UpdateIsComplete`.
2. **Pushes**: the steps of `push_changes`, refining the push actions of
   `ServiceRequests`.
3. **Replicas** and **project creation** as extensions of `ServiceRequests`;
   **delayed requests** as jobs of `ServiceJobs`.

## 8. Running

```
tlc -workers 2 -config Requests.cfg MCServiceRequests.tla          # Sharing, LostWrite, MigrationDeadlock
tlc -workers 2 -config Uploads.cfg MCChunkedUpload.tla
tlc -workers 2 -config DatasetJobs.cfg ServiceJobs.tla
tlc -workers 2 -config Commands.cfg MCCommandExecution.tla
tlc -workers 2 -config Database.cfg MetadataDatabase.tla
tlc -workers 2 -config Datasets.cfg MCMetadataMerge.tla
tlc -workers 2 -config Workflows.cfg MCWorkflows.tla               # NestedDirectories, which ends in a violation
tlc -workers 2 -config Plans.cfg MCPlans.tla
tlc -workers 2 -config Templates.cfg MCTemplates.tla
tlapm ServiceRequests_proofs.tla    # UploadsAndJobs_, CommandExecution_, MetadataDatabase_,
                                    # MetadataMerge_, Templates_, Workflows_, Plans_proofs.tla
```
