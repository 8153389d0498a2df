-------------------------- MODULE CommandExecution --------------------------
(***************************************************************************)
(* Commands of Renku on one project: Command.execute with the hooks that   *)
(* the command builders add.  A command opens the metadata database, takes *)
(* the project lock, runs its operation, gives the lock back, and only     *)
(* then saves the database and commits.  Commands run in threads: those of *)
(* the service within renku_project_context, those of the command line     *)
(* each in a process of its own.                                           *)
(*                                                                         *)
(* Metadata is a set of updates for each database object; the update of a  *)
(* command is the command itself.  The project object is read when the     *)
(* database is opened, all others when the operation asks for them.        *)
(***************************************************************************)
EXTENDS Naturals, Sequences, SequencesExt

CONSTANTS Commands,     \* executions of commands
          KindsOf,      \* the builders a command may be made of
          ThreadOf,     \* the thread that executes a command
          Cli,          \* the commands of the command line
          Main,         \* the working tree of the project
          Version,      \* the update of minimum_renku_version
          Free,         \* nobody holds the project lock
          MaxCrashes

Objects == {"project", "datasets"}
Kind == [write : BOOLEAN, locks : BOOLEAN, clean : BOOLEAN, commits : BOOLEAN,
         raiseIfEmpty : BOOLEAN, isolated : BOOLEAN, object : Objects]

ASSUME CommandsAssumption ==
    /\ KindsOf \in [Commands -> SUBSET Kind]
    /\ DOMAIN ThreadOf = Commands
    /\ Cli \subseteq Commands
    /\ \A c \in Cli : \A d \in Commands : ThreadOf[d] = ThreadOf[c] => d = c
    /\ Main \notin Commands /\ Version \notin Commands /\ Free \notin Commands
    /\ MaxCrashes \in Nat

Threads == {ThreadOf[c] : c \in Commands}
Places == Commands \cup {Main}          \* working trees: the project's, a worktree
Metadata == [Objects -> SUBSET (Commands \cup {Version})]
Commits == [by : Commands \cup {Main}, meta : Metadata]

VARIABLES kind,         \* the builders of a command
          pc,           \* the hook a command is at
          outcome,      \* of a command: result.error, or an exception that passes execute
          stack,        \* project_context of a thread
          injector,     \* whether a thread has an injector
          lock,         \* .renku.lock
          copy,         \* the loaded objects of a command's database
          changed,      \* those it has to store
          tree,         \* metadata files of a working tree
          log,          \* its branch
          met,          \* history: the commands a command overlapped with
          spoilt,       \* history: threads in which saving or committing raised
          crashes

commandVars == <<kind, pc, outcome, met>>
dbVars == <<copy, changed>>
gitVars == <<tree, log>>
vars == <<kind, pc, outcome, stack, injector, lock, copy, changed, tree, log, met,
          spoilt, crashes>>

Thread(c) == ThreadOf[c]
Place(c) == IF kind[c].isolated THEN c ELSE Main
Tip(p) == Last(log[p]).meta
Dirty(p) == tree[p] # Tip(p)
Running == {c \in Commands : pc[c] \notin {"new", "done"}}
Idle(t) == \A c \in Running : Thread(c) # t
Initial == [by |-> Main, meta |-> [o \in Objects |-> {}]]

Init ==
    /\ kind \in {k \in [Commands -> UNION {KindsOf[c] : c \in Commands}] :
                   \A c \in Commands : k[c] \in KindsOf[c]}
    /\ pc = [c \in Commands |-> "new"]
    /\ outcome = [c \in Commands |-> "ok"]
    /\ stack = [t \in Threads |-> <<>>]
    /\ injector = [t \in Threads |-> FALSE]
    /\ lock = Free
    /\ copy = [c \in Commands |-> Initial.meta]
    /\ changed = [c \in Commands |-> {}]
    /\ tree = [p \in Places |-> Initial.meta]
    /\ log = [p \in Places |-> IF p = Main THEN <<Initial>> ELSE <<>>]
    /\ met = [c \in Commands |-> {}]
    /\ spoilt = {}
    /\ crashes = 0

-----------------------------------------------------------------------------
Step(c, from, to) == pc[c] = from /\ pc' = [pc EXCEPT ![c] = to]
Push(c, context) == stack' = [stack EXCEPT ![Thread(c)] = Append(@, <<context, c>>)]
Pop(c) == stack' = [stack EXCEPT ![Thread(c)] = SubSeq(@, 1, Len(@) - 1)]
SetInjector(c, b) == injector' = [injector EXCEPT ![Thread(c)] = b]
Ends(c, o) == outcome' = [outcome EXCEPT ![c] = o]

\* An exception that execute passes on ends a process of the command line at
\* once; in the service renku_project_context sees it.
AfterRaise(c) == IF c \in Cli THEN "done" ELSE "leave"
Raises(c, from) ==
    /\ Step(c, from, AfterRaise(c))
    /\ Ends(c, "raised")

Stores(c, objects) ==
    tree' = [tree EXCEPT ![Place(c)] =
                [o \in Objects |-> IF o \in objects THEN copy[c][o] ELSE @[o]]]

\* A context comes first: renku_project_context pushes it in the service, the
\* main function of the command line does so before it runs the command.
PushContext(c) ==
    /\ Idle(Thread(c))
    /\ Step(c, "new", IF kind[c].isolated THEN "worktree" ELSE "database")
    /\ Push(c, "base")
    /\ met' = [d \in Commands |-> IF d = c THEN Running
                                  ELSE IF d \in Running THEN met[d] \cup {c} ELSE met[d]]
    /\ UNCHANGED <<kind, outcome, injector, lock, dbVars, gitVars, spoilt, crashes>>

\* prepare_worktree: a worktree on a new branch at HEAD.
PrepareAtTip(c) ==
    /\ Step(c, "worktree", "database")
    /\ Push(c, "worktree")
    /\ tree' = [tree EXCEPT ![c] = Tip(Main)]
    /\ log' = [log EXCEPT ![c] = <<Tip(Main)>>]
    /\ UNCHANGED <<kind, outcome, injector, lock, dbVars, met, spoilt, crashes>>
PrepareWorktree(c) ==
    /\ Step(c, "worktree", "database")
    /\ Push(c, "worktree")
    /\ tree' = [tree EXCEPT ![c] = Tip(Main)]
    /\ log' = [log EXCEPT ![c] = log[Main]]
    /\ UNCHANGED <<kind, outcome, injector, lock, dbVars, met, spoilt, crashes>>

WorktreeFails(c) ==
    /\ Raises(c, "worktree")
    /\ Push(c, "worktree")
    /\ UNCHANGED <<kind, injector, lock, dbVars, gitVars, met, spoilt, crashes>>

\* The database is opened, and the project read, before the project is locked.
OpenDatabase(c) ==
    /\ \/ Step(c, "database", "configure") /\ UNCHANGED outcome
       \/ Raises(c, "database")                     \* MinimumVersionError
    /\ Push(c, "database")
    /\ copy' = [copy EXCEPT ![c]["project"] = tree[Place(c)]["project"]]
    /\ UNCHANGED <<kind, injector, lock, changed, gitVars, met, spoilt, crashes>>

\* inject.configure raises if the thread has an injector already.
Configure(c) ==
    /\ \/ Step(c, "configure", "checks") /\ ~injector[Thread(c)] /\ UNCHANGED outcome
       \/ Raises(c, "configure") /\ injector[Thread(c)]
    /\ SetInjector(c, TRUE)
    /\ UNCHANGED <<kind, stack, lock, dbVars, gitVars, met, spoilt, crashes>>

\* RequireMigration, then RequireClean and the checks of prepare_commit.  The
\* latter see staged files, and untracked ones next to the metadata root, only.
EnsureNothing(c) == TRUE
EnsureClean(c) == kind[c].clean => ~Dirty(Place(c))
ChecksKeepInjector(c) ==
    /\ \/ Step(c, "checks", "lock") /\ EnsureClean(c) /\ UNCHANGED <<outcome, injector>>
       \/ Raises(c, "checks") /\ UNCHANGED injector
    /\ UNCHANGED <<kind, stack, lock, dbVars, gitVars, met, spoilt, crashes>>
Checks(c) ==
    /\ \/ /\ Step(c, "checks", "lock")
          /\ EnsureClean(c)
          /\ UNCHANGED <<outcome, injector>>
       \/ Raises(c, "checks") /\ SetInjector(c, FALSE)
    /\ UNCHANGED <<kind, stack, lock, dbVars, gitVars, met, spoilt, crashes>>

\* The lock is taken without waiting.
TakeLock(c) ==
    /\ \/ Step(c, "lock", "load") /\ kind[c].locks /\ lock = Free /\ lock' = c
          /\ UNCHANGED <<outcome, injector>>
       \/ Step(c, "lock", "load") /\ ~kind[c].locks /\ UNCHANGED <<lock, outcome, injector>>
       \/ Raises(c, "lock") /\ kind[c].locks /\ lock # Free /\ SetInjector(c, FALSE)
          /\ UNCHANGED lock
    /\ UNCHANGED <<kind, stack, dbVars, gitVars, met, spoilt, crashes>>

Unlock(c) == lock' = IF lock = c THEN Free ELSE lock

\* The operation reads the objects it needs ...
LoadCommitted(c) ==
    /\ Step(c, "load", "operation")
    /\ copy' = [copy EXCEPT ![c]["datasets"] = Tip(Place(c))["datasets"]]
    /\ UNCHANGED <<kind, outcome, stack, injector, lock, changed, gitVars, met, spoilt, crashes>>
Load(c) ==
    /\ Step(c, "load", "operation")
    /\ copy' = [copy EXCEPT ![c]["datasets"] = tree[Place(c)]["datasets"]]
    /\ UNCHANGED <<kind, outcome, stack, injector, lock, changed, gitVars, met, spoilt, crashes>>

Updates(c) ==
    /\ kind[c].write
    /\ copy' = [copy EXCEPT ![c][kind[c].object] = @ \cup {c}]
    /\ changed' = [changed EXCEPT ![c] = @ \cup {kind[c].object}]

\* ... and changes them.  The lock goes with the operation.
Operate(c) ==
    /\ \/ /\ Step(c, "operation", "save")
          /\ Updates(c) \/ (~kind[c].write /\ UNCHANGED dbVars)
          /\ UNCHANGED <<outcome, injector>>
       \/ /\ Step(c, "operation", "save")           \* a RenkuException
          /\ Updates(c) \/ UNCHANGED dbVars
          /\ Ends(c, "error")
          /\ UNCHANGED injector
       \/ /\ Raises(c, "operation")                 \* any other exception
          /\ Updates(c) \/ UNCHANGED dbVars
          /\ SetInjector(c, FALSE)
    /\ Unlock(c)
    /\ UNCHANGED <<kind, stack, gitVars, met, spoilt, crashes>>

AfterMerge(c) == IF kind[c].isolated THEN "merge" ELSE "finish"
AfterSave(c) == IF kind[c].commits THEN "commit" ELSE AfterMerge(c)
NeedsVersion(c) == kind[c].write /\ Version \notin copy[c]["project"]

\* The post-hook of the database raises the minimum version, also if the
\* operation failed; popping the context saves what the command changed.
SaveDatabase(c) ==
    LET bumped == [copy[c] EXCEPT !["project"] = IF NeedsVersion(c) THEN @ \cup {Version} ELSE @]
        stored == changed[c] \cup IF NeedsVersion(c) THEN {"project"} ELSE {}
    IN  /\ pc[c] = "save"
        /\ copy' = [copy EXCEPT ![c] = bumped]
        /\ \/ /\ Step(c, "save", AfterSave(c))
              /\ Pop(c)
              /\ changed' = [changed EXCEPT ![c] = {}]
              /\ tree' = [tree EXCEPT ![Place(c)] = [o \in Objects |->
                    IF kind[c].write /\ o \in stored THEN bumped[o] ELSE @[o]]]
              /\ UNCHANGED <<outcome, spoilt>>
           \/ /\ kind[c].write /\ Raises(c, "save")     \* one object cannot be written
              /\ \E failed \in stored : \E done \in SUBSET (stored \ {failed}) :
                    /\ changed' = [changed EXCEPT ![c] = stored \ (done \cup {failed})]
                    /\ tree' = [tree EXCEPT ![Place(c)] = [o \in Objects |->
                          IF o \in done THEN bumped[o] ELSE @[o]]]
              /\ spoilt' = spoilt \cup {Thread(c)}
              /\ UNCHANGED stack
        /\ UNCHANGED <<kind, injector, lock, log, met, crashes>>

\* finalize_commit adds what is in the tree, whoever wrote it.  The hook passes on
\* what is not a RenkuException, and the hooks that follow are left out.
Commit(c) ==
    /\ \/ /\ Step(c, "commit", AfterMerge(c))
          /\ \/ outcome[c] = "error" /\ UNCHANGED <<outcome, log>>
             \/ /\ outcome[c] = "ok" /\ Dirty(Place(c))
                /\ \/ /\ log' = [log EXCEPT ![Place(c)] =
                                Append(@, [by |-> c, meta |-> tree[Place(c)]])]
                      /\ UNCHANGED outcome
                   \/ Ends(c, "error") /\ UNCHANGED log   \* a git error
             \/ /\ outcome[c] = "ok" /\ ~Dirty(Place(c))
                /\ Ends(c, IF kind[c].raiseIfEmpty THEN "error" ELSE "ok")
                /\ UNCHANGED log
          /\ UNCHANGED spoilt
       \/ /\ outcome[c] = "ok" /\ Raises(c, "commit")
          /\ spoilt' = spoilt \cup {Thread(c)}
          /\ UNCHANGED log
    /\ UNCHANGED <<kind, stack, injector, lock, dbVars, tree, met, crashes>>

\* merge --ff-only: git refuses to overwrite files that were changed meanwhile.
Merged(c) == {o \in Objects : Tip(c)[o] # Tip(Main)[o]}
MergesAnything(c) == TRUE
CanMerge(c) ==
    \/ IsPrefix(log[c], log[Main])
    \/ /\ IsPrefix(log[Main], log[c])
       /\ \A o \in Merged(c) : tree[Main][o] = Tip(Main)[o]

\* finalize_worktree.  A worktree with changes that were not committed is not
\* removed.
FinalizeWorktree(c) ==
    /\ Step(c, "merge", "finish")
    /\ Pop(c)
    /\ IF CanMerge(c)
       THEN /\ log' = [log EXCEPT ![Main] = IF IsPrefix(log[c], @) THEN @ ELSE log[c],
                                  ![c] = IF Dirty(c) THEN @ ELSE <<>>]
            /\ tree' = [tree EXCEPT ![Main] = IF IsPrefix(log[c], log[Main]) THEN @
                    ELSE [o \in Objects |-> IF o \in Merged(c) THEN Tip(c)[o] ELSE @[o]]]
            /\ Ends(c, IF Dirty(c) THEN "error" ELSE outcome[c])
       ELSE /\ Ends(c, "error")
            /\ UNCHANGED gitVars
    /\ UNCHANGED <<kind, injector, lock, dbVars, met, spoilt, crashes>>

\* The last post-hook.  It leaves the first context, which it did not push.
Finish(c) ==
    /\ Step(c, "finish", AfterRaise(c))
    /\ SetInjector(c, FALSE)
    /\ UNCHANGED <<kind, outcome, stack, lock, dbVars, gitVars, met, spoilt, crashes>>

\* with_rollback pops what is left of a command, and popping a context saves.
Pushed(c) == {i \in DOMAIN stack[Thread(c)] : stack[Thread(c)][i][2] = c}
Unsaved(c) ==
    IF kind[c].write /\ \E i \in Pushed(c) : stack[Thread(c)][i][1] = "database"
    THEN changed[c] ELSE {}
Rollback(c) ==
    /\ Step(c, "leave", "done")
    /\ \/ /\ \E n \in 0 .. Len(stack[Thread(c)]) :
                /\ Pushed(c) = (n + 1) .. Len(stack[Thread(c)])
                /\ stack' = [stack EXCEPT ![Thread(c)] = SubSeq(@, 1, n)]
          /\ Stores(c, Unsaved(c))
          /\ UNCHANGED spoilt
       \/ /\ Unsaved(c) # {}                        \* saving fails
          /\ spoilt' = spoilt \cup {Thread(c)}
          /\ UNCHANGED <<stack, tree>>
    /\ UNCHANGED <<kind, outcome, injector, lock, dbVars, log, met, crashes>>

\* The process of a command is killed.
Kill(c) ==
    /\ crashes < MaxCrashes
    /\ c \in Running
    /\ crashes' = crashes + 1
    /\ pc' = [pc EXCEPT ![c] = "done"]
    /\ Ends(c, "killed")
    /\ stack' = [stack EXCEPT ![Thread(c)] = <<>>]
    /\ SetInjector(c, FALSE)
    /\ Unlock(c)
    /\ UNCHANGED <<kind, dbVars, gitVars, met, spoilt>>

Hook(c) ==
    \/ PushContext(c) \/ PrepareWorktree(c) \/ WorktreeFails(c) \/ OpenDatabase(c)
    \/ Configure(c) \/ Checks(c) \/ TakeLock(c) \/ Load(c) \/ Operate(c)
    \/ SaveDatabase(c) \/ Commit(c) \/ FinalizeWorktree(c) \/ Finish(c) \/ Rollback(c)

AllDone == \A c \in Commands : pc[c] = "done"
Next == (\E c \in Commands : Hook(c) \/ Kill(c)) \/ (AllDone /\ UNCHANGED vars)
Spec == Init /\ [][Next]_vars
-----------------------------------------------------------------------------
TypeOK ==
    /\ kind \in [Commands -> Kind]
    /\ pc \in [Commands -> {"new", "worktree", "database", "configure", "checks", "lock",
                             "load", "operation", "save", "commit", "merge", "finish",
                             "leave", "done"}]
    /\ outcome \in [Commands -> {"ok", "error", "raised", "killed"}]
    /\ stack \in [Threads -> Seq({"base", "worktree", "database"} \X Commands)]
    /\ injector \in [Threads -> BOOLEAN]
    /\ lock \in Commands \cup {Free}
    /\ copy \in [Commands -> Metadata]
    /\ changed \in [Commands -> SUBSET Objects]
    /\ tree \in [Places -> Metadata]
    /\ log \in [Places -> Seq(Commits)]
    /\ met \in [Commands -> SUBSET Commands]
    /\ spoilt \subseteq Threads
    /\ crashes \in 0..MaxCrashes

\* However commands of the service end, their thread has no injector and no
\* project context left, so that the next request finds it as new; the only
\* exception is a thread in which the database could not be written, or the commit
\* raised what is not a RenkuException.
ThreadsStayUsable ==
    \A t \in Threads \ {Thread(c) : c \in Cli} :
        Idle(t) /\ (injector[t] \/ stack[t] # <<>>) => t \in spoilt

\* Saving, merging a worktree or rolling back drops the update of another
\* command from the metadata only if a chain of overlaps joins the two commands:
\* commands that run one after the other never lose anything, whatever way they
\* end.
Chain(c) == {d \in Commands : \A S \in SUBSET Commands :
                c \in S /\ (\A e \in S : met[e] \subseteq S) => d \in S}
OnlyOverlapsLoseUpdates ==
    [][\A o \in Objects : \A u \in tree[Main][o] \ tree'[Main][o] :
          \E c \in Commands :
              pc'[c] # pc[c] /\ met[c] # {} /\ u \in Chain(c) \cup {Version}]_vars

\* A command that overlapped with no other commits its update and nothing else:
\* when it ends well the update is in the branch of the project, whether it ran
\* there or in a worktree, and if it requires a clean repository it commits
\* nothing that a failed command left behind.
CommandsCommitTheirOwn ==
    [][\A c \in Commands : met[c] = {} =>
          /\ pc[c] = "finish" /\ pc'[c] # "finish" /\ outcome'[c] = "ok" /\ kind[c].write /\ kind[c].commits =>
                c \in Tip(Main)[kind[c].object]
          /\ pc'[c] # pc[c] /\ log'[Main] # log[Main] /\ kind[c].clean =>
                \A o \in Objects : Last(log'[Main]).meta[o] \ Tip(Main)[o] \subseteq {c, Version}]_vars

\* No commit is lost: those of the project stay on its branch, those of a
\* worktree on its own until they are merged, also if the merge is refused.
CommitsAreKept ==
    [][\A p \in Places : \A i \in DOMAIN log[p] :
          log[p][i] \in Range(log'[p]) \cup Range(log'[Main])]_vars
=============================================================================
