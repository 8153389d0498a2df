----------------------- MODULE CommandExecution_proofs -----------------------
(***************************************************************************)
(* Proofs about the commands on one project, for every set of commands,    *)
(* threads and builders: types, what a command leaves in its thread, and   *)
(* that no commit is lost and no metadata but by an overlap.               *)
(***************************************************************************)
EXTENDS CommandExecution, TLAPS

\* The project has a branch with a commit at any time.
TypeInv == TypeOK /\ log[Main] # <<>>

\* A thread executes one command at a time, and what its stack and injector hold
\* is of that command.
Injecting == {"checks", "lock", "load", "operation", "save", "commit", "merge", "finish"}
ThreadInv ==
    /\ \A c, d \in Running : Thread(c) = Thread(d) => c = d
    /\ \A t \in Threads \ ({Thread(c) : c \in Cli} \cup spoilt) :
          /\ injector[t] => \E c \in Commands : Thread(c) = t /\ pc[c] \in Injecting
          /\ \A i \in DOMAIN stack[t] :
                stack[t][i][2] \in Running /\ Thread(stack[t][i][2]) = t

\* Commands that run at the same time overlap, and only one that makes use of a
\* worktree is at the hooks of one.
OverlapInv ==
    /\ \A c, d \in Running : c # d => d \in met[c]
    /\ \A c \in Commands : pc[c] \in {"worktree", "merge"} => kind[c].isolated
    /\ \A c \in Commands : pc[c] \notin {"save", "leave", "done"} => changed[c] = {}
    /\ \A c \in Commands : pc[c] = "new" => met[c] = {}

\* The branch of a worktree is the one of the project as it was, and one commit
\* at most; as long as the project can be moved forward to it, it has all of its
\* metadata, and but for that only the update of the command.
InWorktree == {"database", "configure"} \cup (Injecting \ {"finish"})
Loaded(c) == CASE pc[c] \in {"configure", "checks", "lock", "load"} -> {"project"}
               [] pc[c] \in {"operation", "save"} -> Objects
               [] pc[c] = "leave" -> changed[c]
               [] OTHER -> {}
Solo(c) == met[c] = {}
Own(c, o) == Tip(Main)[o] \cup {c, Version}
Ahead(c, o) ==
    /\ Tip(Main)[o] \subseteq Tip(c)[o]
    /\ Tip(Main)[o] \subseteq tree[c][o]
    /\ Tip(c)[o] \subseteq Own(c, o)
    /\ tree[c][o] \subseteq Own(c, o)
    /\ o \in Loaded(c) => copy[c][o] \subseteq Own(c, o)
BranchInv(c) ==
    /\ pc[c] \in {"new", "worktree"} => log[c] = <<>>
    /\ kind[c].isolated /\ pc[c] \in InWorktree \cup {"new", "worktree"} =>
          \A i \in DOMAIN log[Main] : log[Main][i].by # c
    /\ kind[c].isolated /\ pc[c] \in InWorktree =>
          /\ log[c] # <<>>
          /\ \A i \in DOMAIN log[c] :
                log[c][i].by = c \/ (i \in DOMAIN log[Main] /\ log[c][i] = log[Main][i])
          /\ IsPrefix(log[Main], log[c]) => \A o \in Objects : Ahead(c, o)
          /\ Solo(c) => IsPrefix(log[Main], log[c])

\* What a command has read differs from the files by updates of overlapping
\* commands only; in a worktree, or alone, it has all that is in the files.
CopyInv(c) ==
    \A o \in Loaded(c) :
        /\ tree[Place(c)][o] \ copy[c][o] \subseteq Chain(c) \cup {Version}
        /\ copy[c][o] \ tree[Place(c)][o] \subseteq Chain(c) \cup {Version}
        /\ Solo(c) \/ kind[c].isolated => tree[Place(c)][o] \subseteq copy[c][o]

\* The update of a command that is alone, on its way to the branch.
Written(c) == outcome[c] = "ok" /\ kind[c].write
UpdateInv(c) ==
    /\ pc[c] = "save" /\ Written(c) =>
          c \in copy[c][kind[c].object] /\ kind[c].object \in changed[c]
    /\ Solo(c) /\ Written(c) /\ kind[c].commits =>
          /\ pc[c] = "commit" => c \in tree[Place(c)][kind[c].object]
          /\ pc[c] = "merge" => c \in Tip(c)[kind[c].object]
          /\ pc[c] = "finish" => c \in Tip(Main)[kind[c].object]

\* Alone and in a clean repository a command has nothing but its own update.
CleanInv(c) ==
    Solo(c) /\ ~kind[c].isolated =>
        /\ pc[c] \in {"configure", "checks"} => copy[c]["project"] = tree[Main]["project"]
        /\ kind[c].clean /\ pc[c] \in {"lock", "load", "operation", "save", "commit"} =>
              /\ \A o \in Objects : tree[Main][o] \subseteq Own(c, o)
              /\ \A o \in Loaded(c) : copy[c][o] \subseteq Own(c, o)

IInv ==
    /\ TypeInv
    /\ ThreadInv
    /\ OverlapInv
    /\ \A c \in Commands : BranchInv(c) /\ CopyInv(c) /\ UpdateInv(c) /\ CleanInv(c)

-----------------------------------------------------------------------------
\* What an action may refer to.
LEMMA TypesOfParts ==
    ASSUME TypeInv, NEW c \in Commands
    PROVE  /\ Thread(c) \in Threads /\ Place(c) \in Places /\ c \in Places /\ Main \in Places
           /\ Running \subseteq Commands
           /\ kind[c].object \in Objects
           /\ Tip(Main) \in Metadata
           /\ \A p \in Places : log[p] # <<>> => Tip(p) \in Metadata
<1>1. ASSUME NEW p \in Places, log[p] # <<>> PROVE Tip(p) \in Metadata
  <2>1. log[p] \in Seq(Commits) /\ Len(log[p]) \in 1 .. Len(log[p])
    BY <1>1 DEF TypeInv, TypeOK
  <2>2. log[p][Len(log[p])] \in Commits
    BY <2>1
  <2> QED
    BY <2>2 DEF Tip, Last, Commits
<1>2. kind[c] \in Kind
  BY DEF TypeInv, TypeOK
<1> QED
  BY <1>1, <1>2 DEF TypeInv, Thread, Threads, Place, Places, Running, Kind

\* A prefix of a stack is one, and so is metadata with other updates of an object.
LEMMA Truncated ==
    ASSUME NEW S, NEW s \in Seq(S), NEW n \in Int, n <= Len(s)
    PROVE  SubSeq(s, 1, n) \in Seq(S)
  OBVIOUS

LEMMA NothingIn ==
    ASSUME NEW S, NEW s \in Seq(S), DOMAIN s = {}
    PROVE  s = <<>>
<1>1. Len(s) = 0
  OBVIOUS
<1> QED
  BY <1>1

LEMMA UpdateOfObject ==
    ASSUME NEW S, NEW f \in [S -> Metadata], NEW c \in S, NEW o \in Objects,
           NEW x \in SUBSET (Commands \cup {Version})
    PROVE  [f EXCEPT ![c][o] = x] \in [S -> Metadata]
<1>1. [f[c] EXCEPT ![o] = x] \in Metadata
  BY DEF Metadata
<1> QED
  BY <1>1

LEMMA InitTypeInv == Init => TypeInv
<1> SUFFICES ASSUME Init PROVE TypeInv
  OBVIOUS
<1>1. kind \in [Commands -> Kind]
  BY CommandsAssumption DEF Init
<1>2. Initial.meta \in Metadata /\ Initial \in Commits
  BY DEF Initial, Metadata, Commits
<1> QED
  BY <1>1, <1>2, CommandsAssumption DEF Init, TypeInv, TypeOK, Places

HookNames == {"new", "worktree", "database", "configure", "checks", "lock", "load",
              "operation", "save", "commit", "merge", "finish", "leave", "done"}
OutcomeNames == {"ok", "error", "raised", "killed"}
Contexts == {"base", "worktree", "database"} \X Commands

\* The types of what every hook changes: where a command is, its outcome, and the
\* stack and injector of its thread.
LEMMA StepType ==
    ASSUME TypeInv, NEW c \in Commands, NEW from, NEW to \in HookNames, Step(c, from, to)
    PROVE  pc' \in [Commands -> HookNames]
<1>1. pc \in [Commands -> HookNames] /\ pc' = [pc EXCEPT ![c] = to]
  BY DEF TypeInv, TypeOK, HookNames, Step
<1> QED
  BY <1>1

LEMMA RaisesType ==
    ASSUME TypeInv, NEW c \in Commands, NEW from, Raises(c, from)
    PROVE  pc' \in [Commands -> HookNames] /\ outcome' \in [Commands -> OutcomeNames]
<1>1. AfterRaise(c) \in HookNames
  BY DEF AfterRaise, HookNames
<1>2. outcome \in [Commands -> OutcomeNames] /\ outcome' = [outcome EXCEPT ![c] = "raised"]
  BY DEF TypeInv, TypeOK, OutcomeNames, Raises, Ends
<1>3. outcome' \in [Commands -> OutcomeNames]
  BY <1>2 DEF OutcomeNames
<1> QED
  BY <1>1, <1>3, StepType DEF Raises

LEMMA PushType ==
    ASSUME TypeInv, NEW c \in Commands, NEW context \in {"base", "worktree", "database"},
           Push(c, context)
    PROVE  stack' \in [Threads -> Seq(Contexts)]
<1>1. ASSUME NEW S, NEW s \in Seq(S), NEW x \in S PROVE Append(s, x) \in Seq(S)
  OBVIOUS
<1>2. stack \in [Threads -> Seq(Contexts)] /\ Thread(c) \in Threads /\ <<context, c>> \in Contexts
  BY TypesOfParts DEF TypeInv, TypeOK, Contexts
<1>3. Append(stack[Thread(c)], <<context, c>>) \in Seq(Contexts)
  BY <1>1, <1>2
<1> QED
  BY <1>2, <1>3 DEF Push

LEMMA InjectorType ==
    ASSUME TypeInv, NEW c \in Commands, NEW b \in BOOLEAN, SetInjector(c, b)
    PROVE  injector' \in [Threads -> BOOLEAN]
<1>1. injector \in [Threads -> BOOLEAN] /\ injector' = [injector EXCEPT ![Thread(c)] = b]
  BY DEF TypeInv, TypeOK, SetInjector
<1> QED
  BY <1>1

\* What a hook leaves alone keeps its type.
LEMMA TypeKept ==
    ASSUME TypeInv, UNCHANGED <<kind, crashes>>,
           pc' \in [Commands -> HookNames], outcome' \in [Commands -> OutcomeNames],
           stack' \in [Threads -> Seq(Contexts)], injector' \in [Threads -> BOOLEAN],
           lock' \in Commands \cup {Free}, copy' \in [Commands -> Metadata],
           changed' \in [Commands -> SUBSET Objects], tree' \in [Places -> Metadata],
           log' \in [Places -> Seq(Commits)], log'[Main] # <<>>,
           met' \in [Commands -> SUBSET Commands], spoilt' \subseteq Threads
    PROVE  TypeInv'
  BY DEF TypeInv, TypeOK, HookNames, OutcomeNames, Contexts

LEMMA TypeOfVariables ==
    ASSUME TypeInv
    PROVE  /\ pc \in [Commands -> HookNames] /\ outcome \in [Commands -> OutcomeNames]
           /\ stack \in [Threads -> Seq(Contexts)] /\ injector \in [Threads -> BOOLEAN]
           /\ lock \in Commands \cup {Free} /\ copy \in [Commands -> Metadata]
           /\ changed \in [Commands -> SUBSET Objects] /\ tree \in [Places -> Metadata]
           /\ log \in [Places -> Seq(Commits)] /\ log[Main] # <<>>
           /\ met \in [Commands -> SUBSET Commands] /\ spoilt \subseteq Threads
  BY DEF TypeInv, TypeOK, HookNames, OutcomeNames, Contexts

LEMMA PushContextType ==
    ASSUME TypeInv, NEW c \in Commands, PushContext(c)
    PROVE  TypeInv'
<1>1. stack' \in [Threads -> Seq(Contexts)]
  BY PushType DEF PushContext
<1>2. pc' \in [Commands -> HookNames]
  <2>1. (IF kind[c].isolated THEN "worktree" ELSE "database") \in HookNames
    BY DEF HookNames
  <2> QED
    BY <2>1, StepType DEF PushContext
<1>3. met' \in [Commands -> SUBSET Commands]
  BY TypesOfParts, TypeOfVariables DEF PushContext
<1>4. UNCHANGED <<kind, outcome, injector, lock, copy, changed, tree, log, spoilt, crashes>>
  BY DEF PushContext, dbVars, gitVars
<1> QED
  BY <1>1, <1>2, <1>3, <1>4, TypeKept, TypeOfVariables

LEMMA PrepareWorktreeType ==
    ASSUME TypeInv, NEW c \in Commands, PrepareWorktree(c)
    PROVE  TypeInv'
<1>1. stack' \in [Threads -> Seq(Contexts)]
  BY PushType DEF PrepareWorktree
<1>2. pc' \in [Commands -> HookNames]
  BY StepType DEF PrepareWorktree, HookNames
<1>3. c \in Places /\ Main \in Places /\ Tip(Main) \in Metadata
  BY TypesOfParts
<1>4. tree' \in [Places -> Metadata]
  BY <1>3, TypeOfVariables DEF PrepareWorktree
<1>5. log' \in [Places -> Seq(Commits)] /\ log'[Main] # <<>>
  <2>1. log' = [log EXCEPT ![c] = log[Main]]
    BY DEF PrepareWorktree
  <2> QED
    BY <1>3, <2>1, TypeOfVariables
<1>6. UNCHANGED <<kind, outcome, injector, lock, copy, changed, met, spoilt, crashes>>
  BY DEF PrepareWorktree, dbVars
<1> QED
  BY <1>1, <1>2, <1>4, <1>5, <1>6, TypeKept, TypeOfVariables

LEMMA WorktreeFailsType ==
    ASSUME TypeInv, NEW c \in Commands, WorktreeFails(c)
    PROVE  TypeInv'
<1>1. stack' \in [Threads -> Seq(Contexts)]
  BY PushType DEF WorktreeFails
<1>2. pc' \in [Commands -> HookNames] /\ outcome' \in [Commands -> OutcomeNames]
  BY RaisesType DEF WorktreeFails
<1>3. UNCHANGED <<kind, injector, lock, copy, changed, tree, log, met, spoilt, crashes>>
  BY DEF WorktreeFails, dbVars, gitVars
<1> QED
  BY <1>1, <1>2, <1>3, TypeKept, TypeOfVariables

LEMMA OpenDatabaseType ==
    ASSUME TypeInv, NEW c \in Commands, OpenDatabase(c)
    PROVE  TypeInv'
<1>1. tree[Place(c)]["project"] \in SUBSET (Commands \cup {Version})
  BY TypesOfParts DEF TypeInv, TypeOK, Metadata, Objects
<1>2. copy' \in [Commands -> Metadata]
  <2>1. copy \in [Commands -> Metadata] /\ "project" \in Objects
    BY DEF TypeInv, TypeOK, Objects
  <2>2. [copy EXCEPT ![c]["project"] = tree[Place(c)]["project"]] \in [Commands -> Metadata]
    BY <1>1, <2>1, UpdateOfObject
  <2> QED
    BY <2>2 DEF OpenDatabase
<1>3. stack' \in [Threads -> Seq(Contexts)]
  BY PushType DEF OpenDatabase
<1>4. pc' \in [Commands -> HookNames] /\ outcome' \in [Commands -> OutcomeNames]
  <2>1. CASE Step(c, "database", "configure") /\ UNCHANGED outcome
    BY <2>1, StepType, TypeOfVariables DEF HookNames
  <2>2. CASE Raises(c, "database")
    BY <2>2, RaisesType
  <2> QED
    BY <2>1, <2>2 DEF OpenDatabase
<1>5. UNCHANGED <<kind, injector, lock, changed, tree, log, met, spoilt, crashes>>
  BY DEF OpenDatabase, gitVars
<1> QED
  BY <1>2, <1>3, <1>4, <1>5, TypeKept, TypeOfVariables

LEMMA ConfigureType ==
    ASSUME TypeInv, NEW c \in Commands, Configure(c)
    PROVE  TypeInv'
<1>1. pc' \in [Commands -> HookNames] /\ outcome' \in [Commands -> OutcomeNames]
  <2>1. CASE Step(c, "configure", "checks") /\ UNCHANGED outcome
    BY <2>1, StepType, TypeOfVariables DEF HookNames
  <2>2. CASE Raises(c, "configure")
    BY <2>2, RaisesType
  <2> QED
    BY <2>1, <2>2 DEF Configure
<1>2. injector' \in [Threads -> BOOLEAN]
  <2>1. injector' = injector \/ SetInjector(c, TRUE) \/ SetInjector(c, FALSE)
    BY DEF Configure
  <2> QED
    BY <2>1, InjectorType, TypeOfVariables
<1>3. lock' \in Commands \cup {Free}
  BY TypeOfVariables DEF Configure
<1>4. UNCHANGED <<kind, stack, copy, changed, tree, log, met, spoilt, crashes>>
  BY DEF Configure, dbVars, gitVars
<1> QED
  BY <1>1, <1>2, <1>3, <1>4, TypeKept, TypeOfVariables

LEMMA ChecksType ==
    ASSUME TypeInv, NEW c \in Commands, Checks(c)
    PROVE  TypeInv'
<1>1. pc' \in [Commands -> HookNames] /\ outcome' \in [Commands -> OutcomeNames]
  <2>1. CASE Step(c, "checks", "lock") /\ UNCHANGED outcome
    BY <2>1, StepType, TypeOfVariables DEF HookNames
  <2>2. CASE Raises(c, "checks")
    BY <2>2, RaisesType
  <2> QED
    BY <2>1, <2>2 DEF Checks
<1>2. injector' \in [Threads -> BOOLEAN]
  <2>1. injector' = injector \/ SetInjector(c, TRUE) \/ SetInjector(c, FALSE)
    BY DEF Checks
  <2> QED
    BY <2>1, InjectorType, TypeOfVariables
<1>3. lock' \in Commands \cup {Free}
  BY TypeOfVariables DEF Checks
<1>4. UNCHANGED <<kind, stack, copy, changed, tree, log, met, spoilt, crashes>>
  BY DEF Checks, dbVars, gitVars
<1> QED
  BY <1>1, <1>2, <1>3, <1>4, TypeKept, TypeOfVariables

LEMMA TakeLockType ==
    ASSUME TypeInv, NEW c \in Commands, TakeLock(c)
    PROVE  TypeInv'
<1>1. pc' \in [Commands -> HookNames] /\ outcome' \in [Commands -> OutcomeNames]
  <2>1. CASE Step(c, "lock", "load") /\ UNCHANGED outcome
    BY <2>1, StepType, TypeOfVariables DEF HookNames
  <2>2. CASE Raises(c, "lock")
    BY <2>2, RaisesType
  <2> QED
    BY <2>1, <2>2 DEF TakeLock
<1>2. injector' \in [Threads -> BOOLEAN]
  <2>1. injector' = injector \/ SetInjector(c, TRUE) \/ SetInjector(c, FALSE)
    BY DEF TakeLock
  <2> QED
    BY <2>1, InjectorType, TypeOfVariables
<1>3. lock' \in Commands \cup {Free}
  BY TypeOfVariables DEF TakeLock
<1>4. UNCHANGED <<kind, stack, copy, changed, tree, log, met, spoilt, crashes>>
  BY DEF TakeLock, dbVars, gitVars
<1> QED
  BY <1>1, <1>2, <1>3, <1>4, TypeKept, TypeOfVariables

LEMMA LoadType ==
    ASSUME TypeInv, NEW c \in Commands, Load(c)
    PROVE  TypeInv'
<1>1. tree[Place(c)]["datasets"] \in SUBSET (Commands \cup {Version})
  BY TypesOfParts DEF TypeInv, TypeOK, Metadata, Objects
<1>2. copy' \in [Commands -> Metadata]
  <2>1. copy \in [Commands -> Metadata] /\ "datasets" \in Objects
    BY DEF TypeInv, TypeOK, Objects
  <2>2. [copy EXCEPT ![c]["datasets"] = tree[Place(c)]["datasets"]] \in [Commands -> Metadata]
    BY <1>1, <2>1, UpdateOfObject
  <2> QED
    BY <2>2 DEF Load
<1> QED
  BY <1>2 DEF Load, TypeInv, TypeOK, Step, dbVars, gitVars

LEMMA OperateType ==
    ASSUME TypeInv, NEW c \in Commands, Operate(c)
    PROVE  TypeInv'
<1>1. ASSUME Updates(c)
      PROVE  copy' \in [Commands -> Metadata] /\ changed' \in [Commands -> SUBSET Objects]
  <2>1. kind[c].object \in Objects
    BY TypesOfParts
  <2>2. copy[c][kind[c].object] \cup {c} \in SUBSET (Commands \cup {Version})
    BY <2>1 DEF TypeInv, TypeOK, Metadata
  <2>3. copy' \in [Commands -> Metadata]
    <3>1. copy \in [Commands -> Metadata]
      BY DEF TypeInv, TypeOK
    <3>2. [copy EXCEPT ![c][kind[c].object] = copy[c][kind[c].object] \cup {c}]
             \in [Commands -> Metadata]
      <4>1. \A x \in SUBSET (Commands \cup {Version}) :
               [copy EXCEPT ![c][kind[c].object] = x] \in [Commands -> Metadata]
        BY <2>1, <3>1, UpdateOfObject
      <4> QED
        BY <2>2, <4>1
    <3> QED
      BY <1>1, <3>2 DEF Updates
  <2> QED
    BY <1>1, <2>1, <2>3 DEF Updates, TypeInv, TypeOK
<1>2. copy' \in [Commands -> Metadata] /\ changed' \in [Commands -> SUBSET Objects]
  BY <1>1 DEF Operate, dbVars, TypeInv, TypeOK
<1>3. pc' \in [Commands -> HookNames] /\ outcome' \in [Commands -> OutcomeNames]
  <2>1. CASE Step(c, "operation", "save") /\ (UNCHANGED outcome \/ Ends(c, "error"))
    <3>1. outcome' \in [Commands -> OutcomeNames]
      BY <2>1, TypeOfVariables DEF Ends, OutcomeNames
    <3> QED
      BY <2>1, <3>1, StepType DEF HookNames
  <2>2. CASE Raises(c, "operation")
    BY <2>2, RaisesType
  <2> QED
    BY <2>1, <2>2 DEF Operate
<1>4. injector' \in [Threads -> BOOLEAN]
  <2>1. injector' = injector \/ SetInjector(c, FALSE)
    BY DEF Operate
  <2> QED
    BY <2>1, InjectorType, TypeOfVariables
<1>5. lock' \in Commands \cup {Free}
  BY TypeOfVariables DEF Operate, Unlock
<1>6. UNCHANGED <<kind, stack, tree, log, met, spoilt, crashes>>
  BY DEF Operate, gitVars
<1> QED
  BY <1>2, <1>3, <1>4, <1>5, <1>6, TypeKept, TypeOfVariables

LEMMA SaveDatabaseType ==
    ASSUME TypeInv, NEW c \in Commands, SaveDatabase(c)
    PROVE  TypeInv'
<1> DEFINE bumped == [copy[c] EXCEPT !["project"] = IF NeedsVersion(c) THEN @ \cup {Version} ELSE @]
           stored == changed[c] \cup IF NeedsVersion(c) THEN {"project"} ELSE {}
<1>1. bumped \in Metadata /\ stored \subseteq Objects
  BY DEF TypeInv, TypeOK, Metadata, Objects
<1>2. Place(c) \in Places /\ Thread(c) \in Threads
  BY TypesOfParts
<1>3. copy' \in [Commands -> Metadata]
  BY <1>1 DEF SaveDatabase, TypeInv, TypeOK
<1>4. changed' \in [Commands -> SUBSET Objects]
  <2> HIDE DEF bumped, stored
  <2>1. \E X \in SUBSET stored : changed' = [changed EXCEPT ![c] = X]
    <3>1. CASE changed' = [changed EXCEPT ![c] = {}]
      BY <3>1
    <3>2. CASE \E failed \in stored : \E done \in SUBSET (stored \ {failed}) :
                 changed' = [changed EXCEPT ![c] = stored \ (done \cup {failed})]
      BY <3>2
    <3> QED
      BY <3>1, <3>2 DEF SaveDatabase, stored
  <2> QED
    BY <1>1, <2>1 DEF TypeInv, TypeOK
<1>5. tree' \in [Places -> Metadata]
  <2>1. ASSUME NEW D
        PROVE  [tree EXCEPT ![Place(c)] = [o \in Objects |-> IF o \in D THEN bumped[o] ELSE @[o]]]
               \in [Places -> Metadata]
    <3> HIDE DEF bumped
    <3> QED
      BY <1>1, <1>2 DEF TypeInv, TypeOK, Metadata
  <2>2. CASE tree' = [tree EXCEPT ![Place(c)] = [o \in Objects |->
                         IF kind[c].write /\ o \in stored THEN bumped[o] ELSE @[o]]]
    <3> HIDE DEF bumped, stored
    <3> QED
      BY <1>1, <1>2, <2>2 DEF TypeInv, TypeOK, Metadata
  <2>3. CASE \E D : tree' = [tree EXCEPT ![Place(c)] = [o \in Objects |->
                         IF o \in D THEN bumped[o] ELSE @[o]]]
    BY <2>1, <2>3
  <2> QED
    BY <2>2, <2>3 DEF SaveDatabase
<1>6. stack' \in [Threads -> Seq({"base", "worktree", "database"} \X Commands)]
  <2>1. SubSeq(stack[Thread(c)], 1, Len(stack[Thread(c)]) - 1)
           \in Seq({"base", "worktree", "database"} \X Commands)
    BY <1>2, Truncated DEF TypeInv, TypeOK
  <2> QED
    BY <1>2, <2>1 DEF SaveDatabase, Pop, TypeInv, TypeOK
<1>7. pc' \in [Commands -> {"new", "worktree", "database", "configure", "checks", "lock",
                             "load", "operation", "save", "commit", "merge", "finish",
                             "leave", "done"}]
      /\ outcome' \in [Commands -> {"ok", "error", "raised", "killed"}]
      /\ spoilt' \subseteq Threads
  BY <1>2 DEF SaveDatabase, Step, AfterSave, AfterMerge, Raises, AfterRaise, Ends, TypeInv, TypeOK
<1>8. UNCHANGED <<kind, injector, lock, log, met, crashes>>
  BY DEF SaveDatabase
<1> QED
  BY <1>3, <1>4, <1>5, <1>6, <1>7, <1>8 DEF TypeInv, TypeOK

LEMMA CommitType ==
    ASSUME TypeInv, NEW c \in Commands, Commit(c)
    PROVE  TypeInv'
<1>1. Place(c) \in Places
  BY TypesOfParts
<1>2. [by |-> c, meta |-> tree[Place(c)]] \in Commits
  BY <1>1 DEF TypeInv, TypeOK, Commits
<1>3. log' \in [Places -> Seq(Commits)] /\ log'[Main] # <<>>
  <2> DEFINE new == [by |-> c, meta |-> tree[Place(c)]]
  <2>1. log \in [Places -> Seq(Commits)] /\ log[Main] # <<>> /\ Main \in Places
    BY TypesOfParts DEF TypeInv, TypeOK
  <2>2. log' = log \/ log' = [log EXCEPT ![Place(c)] = Append(log[Place(c)], new)]
    BY DEF Commit
  <2>3. Append(log[Place(c)], new) \in Seq(Commits) /\ Append(log[Place(c)], new) # <<>>
    <3>1. ASSUME NEW s \in Seq(Commits), NEW x \in Commits
          PROVE  Append(s, x) \in Seq(Commits) /\ Append(s, x) # <<>>
      <4>1. Append(s, x) \in Seq(Commits) /\ Len(Append(s, x)) = Len(s) + 1 /\ Len(s) \in Nat
        OBVIOUS
      <4> QED
        BY <4>1
    <3>2. log[Place(c)] \in Seq(Commits)
      BY <1>1, <2>1
    <3> HIDE DEF new
    <3> QED
      BY <1>2, <3>1, <3>2 DEF new
  <2> QED
    BY <1>1, <2>1, <2>2, <2>3
<1>4. outcome' \in [Commands -> {"ok", "error", "raised", "killed"}]
  BY DEF Commit, Ends, Raises, TypeInv, TypeOK
<1>5. pc' \in [Commands -> {"new", "worktree", "database", "configure", "checks", "lock",
                             "load", "operation", "save", "commit", "merge", "finish",
                             "leave", "done"}]
  BY DEF Commit, Step, AfterMerge, Raises, AfterRaise, TypeInv, TypeOK
<1>6. spoilt' \subseteq Threads
  BY TypesOfParts DEF Commit, TypeInv, TypeOK
<1> QED
  BY <1>3, <1>4, <1>5, <1>6 DEF Commit, dbVars, TypeInv, TypeOK

LEMMA FinalizeWorktreeType ==
    ASSUME TypeInv, NEW c \in Commands, FinalizeWorktree(c), log[c] # <<>>
    PROVE  TypeInv'
<1>1. c \in Places /\ Main \in Places /\ c # Main /\ Thread(c) \in Threads
  BY TypesOfParts, CommandsAssumption
<1>2. Tip(c) \in Metadata
  BY <1>1, TypesOfParts
<1>3. [o \in Objects |-> IF o \in Merged(c) THEN Tip(c)[o] ELSE tree[Main][o]] \in Metadata
  BY <1>1, <1>2 DEF TypeInv, TypeOK, Metadata
<1>4. log' \in [Places -> Seq(Commits)] /\ log'[Main] # <<>>
  <2>1. <<>> \in Seq(Commits)
    OBVIOUS
  <2> QED
    BY <1>1, <2>1 DEF FinalizeWorktree, gitVars, TypeInv, TypeOK
<1>5. tree' \in [Places -> Metadata]
  <2>1. tree'[Main] \in Metadata
    BY <1>1, <1>3 DEF FinalizeWorktree, gitVars, TypeInv, TypeOK
  <2> QED
    BY <1>1, <2>1 DEF FinalizeWorktree, gitVars, TypeInv, TypeOK
<1>6. stack' \in [Threads -> Seq({"base", "worktree", "database"} \X Commands)]
  <2>1. SubSeq(stack[Thread(c)], 1, Len(stack[Thread(c)]) - 1)
           \in Seq({"base", "worktree", "database"} \X Commands)
    BY <1>1, Truncated DEF TypeInv, TypeOK
  <2> QED
    BY <1>1, <2>1 DEF FinalizeWorktree, Pop, TypeInv, TypeOK
<1>7. outcome' \in [Commands -> {"ok", "error", "raised", "killed"}]
  BY DEF FinalizeWorktree, Ends, TypeInv, TypeOK
<1> QED
  BY <1>4, <1>5, <1>6, <1>7 DEF FinalizeWorktree, Step, dbVars, TypeInv, TypeOK

LEMMA FinishType ==
    ASSUME TypeInv, NEW c \in Commands, Finish(c)
    PROVE  TypeInv'
  BY TypesOfParts DEF Finish, Step, AfterRaise, SetInjector, dbVars, gitVars, TypeInv, TypeOK

LEMMA RollbackType ==
    ASSUME TypeInv, NEW c \in Commands, Rollback(c)
    PROVE  TypeInv'
<1>1. Place(c) \in Places /\ Thread(c) \in Threads
  BY TypesOfParts
<1>2. stack' \in [Threads -> Seq({"base", "worktree", "database"} \X Commands)]
  <2>1. \A n \in 0 .. Len(stack[Thread(c)]) : SubSeq(stack[Thread(c)], 1, n)
           \in Seq({"base", "worktree", "database"} \X Commands)
    BY <1>1, Truncated DEF TypeInv, TypeOK
  <2> QED
    BY <1>1, <2>1 DEF Rollback, TypeInv, TypeOK
<1>3. tree' \in [Places -> Metadata]
  <2>1. [o \in Objects |-> IF o \in Unsaved(c) THEN copy[c][o] ELSE tree[Place(c)][o]] \in Metadata
    BY <1>1 DEF TypeInv, TypeOK, Metadata
  <2> QED
    BY <1>1, <2>1 DEF Rollback, Stores, TypeInv, TypeOK
<1>4. spoilt' \subseteq Threads
  BY <1>1 DEF Rollback, TypeInv, TypeOK
<1> QED
  BY <1>2, <1>3, <1>4 DEF Rollback, Step, dbVars, TypeInv, TypeOK

LEMMA KillType ==
    ASSUME TypeInv, NEW c \in Commands, Kill(c)
    PROVE  TypeInv'
  BY TypesOfParts, CommandsAssumption DEF Kill, TypeInv, TypeOK, Step, dbVars, gitVars, Metadata, Ends, SetInjector, Unlock

-----------------------------------------------------------------------------
\* A step of one command, and what it leaves alone of the others.
Act(c) == Hook(c) \/ Kill(c)

LEMMA StepOrStart ==
    ASSUME TypeInv, NEW c \in Commands, Act(c)
    PROVE  /\ kind' = kind
           /\ \/ PushContext(c) /\ c \notin Running
              \/ c \in Running /\ met' = met
           /\ pc'[c] # pc[c]
           /\ pc'[c] # "new"
           /\ \A d \in Commands : d # c => pc'[d] = pc[d] /\ outcome'[d] = outcome[d]
<1>1. CASE PushContext(c)
  BY <1>1 DEF PushContext, Step, Running, TypeInv, TypeOK
<1>2. CASE PrepareWorktree(c)
  BY <1>2 DEF PrepareWorktree, Step, Running, TypeInv, TypeOK
<1>3. CASE WorktreeFails(c)
  BY <1>3 DEF WorktreeFails, Step, Running, TypeInv, TypeOK, Raises, AfterRaise, Ends
<1>4. CASE OpenDatabase(c)
  BY <1>4 DEF OpenDatabase, Step, Running, TypeInv, TypeOK, Raises, AfterRaise, Ends
<1>5. CASE Configure(c)
  BY <1>5 DEF Configure, Step, Running, TypeInv, TypeOK, Raises, AfterRaise, Ends
<1>6. CASE Checks(c)
  BY <1>6 DEF Checks, Step, Running, TypeInv, TypeOK, Raises, AfterRaise, Ends
<1>7. CASE TakeLock(c)
  BY <1>7 DEF TakeLock, Step, Running, TypeInv, TypeOK, Raises, AfterRaise, Ends
<1>8. CASE Load(c)
  BY <1>8 DEF Load, Step, Running, TypeInv, TypeOK
<1>9. CASE Operate(c)
  BY <1>9 DEF Operate, Step, Running, TypeInv, TypeOK, Raises, AfterRaise, Ends
<1>10. CASE SaveDatabase(c)
  BY <1>10 DEF SaveDatabase, Step, Running, TypeInv, TypeOK, AfterSave, AfterMerge, Raises, AfterRaise, Ends
<1>11. CASE Commit(c)
  BY <1>11 DEF Commit, Step, Running, TypeInv, TypeOK, AfterMerge, Raises, AfterRaise, Ends
<1>12. CASE FinalizeWorktree(c)
  BY <1>12 DEF FinalizeWorktree, Step, Running, TypeInv, TypeOK, Ends
<1>13. CASE Finish(c)
  BY <1>13 DEF Finish, Step, Running, TypeInv, TypeOK, AfterRaise
<1>14. CASE Rollback(c)
  BY <1>14 DEF Rollback, Step, Running, TypeInv, TypeOK
<1>15. CASE Kill(c)
  BY <1>15 DEF Kill, Step, Running, TypeInv, TypeOK, Ends
<1> QED
  BY <1>1, <1>2, <1>3, <1>4, <1>5, <1>6, <1>7, <1>8, <1>9, <1>10, <1>11, <1>12, <1>13, <1>14, <1>15 DEF Act, Hook

LEMMA OthersKeepTheirs ==
    ASSUME TypeInv, NEW c \in Commands, Act(c), NEW d \in Commands, d # c
    PROVE  /\ copy'[d] = copy[d] /\ changed'[d] = changed[d]
           /\ tree'[d] = tree[d] /\ log'[d] = log[d]
<1>1. d # Place(c) /\ d # Main
  BY CommandsAssumption DEF Place
<1>2. CASE PushContext(c)
  BY <1>1, <1>2 DEF PushContext, dbVars, gitVars, TypeInv, TypeOK, Places
<1>3. CASE PrepareWorktree(c)
  BY <1>1, <1>3 DEF PrepareWorktree, dbVars, gitVars, TypeInv, TypeOK, Places
<1>4. CASE WorktreeFails(c)
  BY <1>1, <1>4 DEF WorktreeFails, dbVars, gitVars, TypeInv, TypeOK, Places
<1>5. CASE OpenDatabase(c)
  BY <1>1, <1>5 DEF OpenDatabase, dbVars, gitVars, TypeInv, TypeOK, Places
<1>6. CASE Configure(c)
  BY <1>1, <1>6 DEF Configure, dbVars, gitVars, TypeInv, TypeOK, Places
<1>7. CASE Checks(c)
  BY <1>1, <1>7 DEF Checks, dbVars, gitVars, TypeInv, TypeOK, Places
<1>8. CASE TakeLock(c)
  BY <1>1, <1>8 DEF TakeLock, dbVars, gitVars, TypeInv, TypeOK, Places
<1>9. CASE Load(c)
  BY <1>1, <1>9 DEF Load, dbVars, gitVars, TypeInv, TypeOK, Places
<1>10. CASE Operate(c)
  BY <1>1, <1>10 DEF Operate, dbVars, gitVars, TypeInv, TypeOK, Places, Updates
<1>11. CASE SaveDatabase(c)
  BY <1>1, <1>11 DEF SaveDatabase, dbVars, gitVars, TypeInv, TypeOK, Places
<1>12. CASE Commit(c)
  BY <1>1, <1>12 DEF Commit, dbVars, gitVars, TypeInv, TypeOK, Places
<1>13. CASE FinalizeWorktree(c)
  BY <1>1, <1>13 DEF FinalizeWorktree, dbVars, gitVars, TypeInv, TypeOK, Places
<1>14. CASE Finish(c)
  BY <1>1, <1>14 DEF Finish, dbVars, gitVars, TypeInv, TypeOK, Places
<1>15. CASE Rollback(c)
  BY <1>1, <1>15 DEF Rollback, dbVars, gitVars, TypeInv, TypeOK, Places, Stores
<1>16. CASE Kill(c)
  BY <1>1, <1>16 DEF Kill, dbVars, gitVars, TypeInv, TypeOK, Places
<1> QED
  BY <1>2, <1>3, <1>4, <1>5, <1>6, <1>7, <1>8, <1>9, <1>10, <1>11, <1>12, <1>13, <1>14, <1>15, <1>16 DEF Act, Hook

-----------------------------------------------------------------------------
\* The thread of a command of the service, before and after a step of it.
LEMMA OtherThreads ==
    ASSUME TypeInv, NEW c \in Commands, Act(c)
    PROVE  /\ spoilt \subseteq spoilt'
           /\ \A t \in Threads : t # Thread(c) => stack'[t] = stack[t] /\ injector'[t] = injector[t]
<1>1. CASE PushContext(c)
  BY <1>1 DEF PushContext, TypeInv, TypeOK, Push
<1>2. CASE PrepareWorktree(c)
  BY <1>2 DEF PrepareWorktree, TypeInv, TypeOK, Push
<1>3. CASE WorktreeFails(c)
  BY <1>3 DEF WorktreeFails, TypeInv, TypeOK, Push
<1>4. CASE OpenDatabase(c)
  BY <1>4 DEF OpenDatabase, TypeInv, TypeOK, Push
<1>5. CASE Configure(c)
  BY <1>5 DEF Configure, TypeInv, TypeOK, SetInjector
<1>6. CASE Checks(c)
  BY <1>6 DEF Checks, TypeInv, TypeOK, SetInjector
<1>7. CASE TakeLock(c)
  BY <1>7 DEF TakeLock, TypeInv, TypeOK, SetInjector
<1>8. CASE Load(c)
  BY <1>8 DEF Load, TypeInv, TypeOK
<1>9. CASE Operate(c)
  BY <1>9 DEF Operate, TypeInv, TypeOK, SetInjector
<1>10. CASE SaveDatabase(c)
  BY <1>10 DEF SaveDatabase, TypeInv, TypeOK, Pop
<1>11. CASE Commit(c)
  BY <1>11 DEF Commit, TypeInv, TypeOK
<1>12. CASE FinalizeWorktree(c)
  BY <1>12 DEF FinalizeWorktree, TypeInv, TypeOK, Pop
<1>13. CASE Finish(c)
  BY <1>13 DEF Finish, TypeInv, TypeOK, SetInjector
<1>14. CASE Rollback(c)
  BY <1>14 DEF Rollback, TypeInv, TypeOK
<1>15. CASE Kill(c)
  BY <1>15 DEF Kill, TypeInv, TypeOK, SetInjector
<1> QED
  BY <1>1, <1>2, <1>3, <1>4, <1>5, <1>6, <1>7, <1>8, <1>9, <1>10, <1>11, <1>12, <1>13, <1>14, <1>15 DEF Act, Hook

LEMMA OwnThread ==
    ASSUME TypeInv, ThreadInv, NEW c \in Commands, Act(c),
           Thread(c) \notin {Thread(d) : d \in Cli} \cup spoilt'
    PROVE  /\ injector'[Thread(c)] => pc'[c] \in Injecting
           /\ \A i \in DOMAIN stack'[Thread(c)] :
                 stack'[Thread(c)][i][2] = c /\ pc'[c] \notin {"new", "done"}
<1> DEFINE t == Thread(c)
<1>1. t \in Threads \ ({Thread(d) : d \in Cli} \cup spoilt) /\ c \notin Cli
  BY TypesOfParts, OtherThreads, CommandsAssumption
<1>2. stack[t] \in Seq({"base", "worktree", "database"} \X Commands)
  BY <1>1 DEF TypeInv, TypeOK
<1>3. c \in Running => /\ injector[t] => pc[c] \in Injecting
                       /\ \A i \in DOMAIN stack[t] : stack[t][i][2] = c
  BY <1>1 DEF ThreadInv, Running, Injecting
<1>4. Thread(c) \notin spoilt'
  OBVIOUS
<1> HIDE DEF t
<1>5. CASE PushContext(c)
  <2>1. Idle(t) /\ ~(\E d \in Commands : Thread(d) = t /\ pc[d] \in Injecting)
    BY <1>5 DEF PushContext, Idle, Running, Injecting, t
  <2>2. ~injector[t] /\ stack[t] = <<>>
    <3>1. ~injector[t]
      BY <1>1, <2>1 DEF ThreadInv, TypeInv, TypeOK
    <3>2. DOMAIN stack[t] = {}
      BY <1>1, <2>1 DEF ThreadInv, Idle
    <3> QED
      BY <1>2, <3>1, <3>2, NothingIn
  <2>3. stack'[t] = <<<<"base", c>>>> /\ pc'[c] \in {"worktree", "database"}
    BY <1>5, <1>1, <2>2 DEF PushContext, Push, Step, TypeInv, TypeOK, t
  <2> QED
    BY <1>5, <2>2, <2>3 DEF PushContext, t
<1>6. CASE PrepareWorktree(c)
  BY <1>1, <1>2, <1>3, <1>6 DEF PrepareWorktree, Step, Running, Injecting, TypeInv, TypeOK, t, Push
<1>7. CASE WorktreeFails(c)
  BY <1>1, <1>2, <1>3, <1>7 DEF WorktreeFails, Step, Running, Injecting, TypeInv, TypeOK, t, Push, Raises, AfterRaise
<1>8. CASE OpenDatabase(c)
  BY <1>1, <1>2, <1>3, <1>8 DEF OpenDatabase, Step, Running, Injecting, TypeInv, TypeOK, t, Push, Raises, AfterRaise
<1>9. CASE Configure(c)
  BY <1>1, <1>2, <1>3, <1>9 DEF Configure, Step, Running, Injecting, TypeInv, TypeOK, t, SetInjector, Raises, AfterRaise
<1>10. CASE Checks(c)
  BY <1>1, <1>2, <1>3, <1>10 DEF Checks, Step, Running, Injecting, TypeInv, TypeOK, t, SetInjector, Raises, AfterRaise
<1>11. CASE TakeLock(c)
  BY <1>1, <1>2, <1>3, <1>11 DEF TakeLock, Step, Running, Injecting, TypeInv, TypeOK, t, SetInjector, Raises, AfterRaise
<1>12. CASE Load(c)
  BY <1>1, <1>2, <1>3, <1>12 DEF Load, Step, Running, Injecting, TypeInv, TypeOK, t
<1>13. CASE Operate(c)
  BY <1>1, <1>2, <1>3, <1>13 DEF Operate, Step, Running, Injecting, TypeInv, TypeOK, t, SetInjector, Raises, AfterRaise
<1>14. CASE SaveDatabase(c)
  <2>1. UNCHANGED injector /\ pc[c] = "save" /\ c \in Running
    BY <1>14 DEF SaveDatabase, Running
  <2>2. pc'[c] = AfterSave(c) /\ Pop(c)
    BY <1>4, <1>14 DEF SaveDatabase, Step, TypeInv, TypeOK
  <2>3. stack'[t] = SubSeq(stack[t], 1, Len(stack[t]) - 1)
    BY <1>1, <2>2 DEF Pop, TypeInv, TypeOK, t
  <2>4. pc'[c] \in Injecting /\ pc'[c] \notin {"new", "done"}
    BY <2>2 DEF AfterSave, AfterMerge, Injecting
  <2> QED
    BY <1>2, <1>3, <2>1, <2>3, <2>4 DEF t
<1>15. CASE Commit(c)
  BY <1>1, <1>2, <1>3, <1>15 DEF Commit, Step, Running, Injecting, TypeInv, TypeOK, t, AfterMerge
<1>16. CASE FinalizeWorktree(c)
  BY <1>1, <1>2, <1>3, <1>16 DEF FinalizeWorktree, Step, Running, Injecting, TypeInv, TypeOK, t, Pop
<1>17. CASE Finish(c)
  BY <1>1, <1>2, <1>3, <1>17 DEF Finish, Step, Running, Injecting, TypeInv, TypeOK, t, SetInjector, AfterRaise
<1>18. CASE Rollback(c)
  <2>1. c \in Running /\ ~injector[t]
    BY <1>18, <1>1, <1>3 DEF Rollback, Step, Running, Injecting, TypeInv, TypeOK
  <2>2. Pushed(c) = 1 .. Len(stack[t])
    BY <1>2, <1>3, <2>1 DEF Pushed, t
  <2>3. PICK n \in 0 .. Len(stack[t]) : /\ Pushed(c) = (n + 1) .. Len(stack[t])
                                        /\ stack' = [stack EXCEPT ![t] = SubSeq(@, 1, n)]
    BY <1>18, <1>1 DEF Rollback, t
  <2>4. n = 0
    BY <1>2, <2>2, <2>3
  <2>5. stack'[t] = <<>>
    BY <1>1, <1>2, <2>3, <2>4 DEF TypeInv, TypeOK
  <2> QED
    BY <1>18, <2>1, <2>5 DEF Rollback, t
<1>19. CASE Kill(c)
  BY <1>1, <1>2, <1>3, <1>19 DEF Kill, Step, Running, Injecting, TypeInv, TypeOK, t, SetInjector
<1> QED
  BY <1>5, <1>6, <1>7, <1>8, <1>9, <1>10, <1>11, <1>12, <1>13, <1>14, <1>15, <1>16, <1>17, <1>18, <1>19 DEF Act, Hook

LEMMA ActThreadInv ==
    ASSUME TypeInv, ThreadInv, NEW c \in Commands, Act(c)
    PROVE  ThreadInv'
<1>1. \A d \in Commands : d # c => (d \in Running' <=> d \in Running)
  BY StepOrStart DEF Running
<1>2. \A d \in Running' : d \in Commands
  BY DEF Running
<1>3. c \in Running \/ Idle(Thread(c))
  BY StepOrStart DEF PushContext
<1>4. ASSUME NEW d \in Running', NEW e \in Running', Thread(d) = Thread(e)
      PROVE  d = e
  BY <1>1, <1>2, <1>3, <1>4 DEF ThreadInv, Idle
<1>5. ASSUME NEW t \in Threads \ ({Thread(d) : d \in Cli} \cup spoilt')
      PROVE  /\ injector'[t] => \E d \in Commands : Thread(d) = t /\ pc'[d] \in Injecting
             /\ \A i \in DOMAIN stack'[t] :
                   stack'[t][i][2] \in Running' /\ Thread(stack'[t][i][2]) = t
  <2>1. CASE t = Thread(c)
    BY <2>1, <1>5, OwnThread DEF Running
  <2>2. CASE t # Thread(c)
    <3>1. t \notin spoilt /\ stack'[t] = stack[t] /\ injector'[t] = injector[t]
      BY <1>5, <2>2, OtherThreads
    <3>2. injector[t] => \E d \in Commands : Thread(d) = t /\ pc'[d] \in Injecting
      BY <1>5, <2>2, <3>1, StepOrStart DEF ThreadInv
    <3>3. \A i \in DOMAIN stack[t] : stack[t][i][2] \in Running' /\ Thread(stack[t][i][2]) = t
      BY <1>1, <1>5, <2>2, <3>1 DEF ThreadInv, Running
    <3> QED
      BY <3>1, <3>2, <3>3
  <2> QED
    BY <2>1, <2>2
<1> QED
  BY <1>4, <1>5 DEF ThreadInv, Thread

-----------------------------------------------------------------------------
\* Overlaps, and the chains of them.
LEMMA ActOverlapInv ==
    ASSUME TypeInv, OverlapInv, NEW c \in Commands, Act(c)
    PROVE  OverlapInv'
<1>1. \A d \in Commands : d # c => (d \in Running' <=> d \in Running)
  BY StepOrStart DEF Running
<1>2. ASSUME NEW d \in Running', NEW e \in Running', d # e
      PROVE  d \in met'[e]
  <2>1. d \in Commands /\ e \in Commands
    BY DEF Running
  <2>2. CASE c \in Running /\ met' = met
    BY <1>1, <1>2, <2>1, <2>2 DEF OverlapInv
  <2>3. CASE PushContext(c) /\ c \notin Running
    <3>1. d # c /\ e # c => d \in met[e]
      BY <1>1, <1>2, <2>1 DEF OverlapInv
    <3> QED
      BY <1>1, <1>2, <2>1, <2>3, <3>1 DEF PushContext
  <2> QED
    BY <2>2, <2>3, StepOrStart
<1>3. ASSUME NEW d \in Commands
      PROVE  /\ pc'[d] \in {"worktree", "merge"} => kind'[d].isolated
             /\ pc'[d] \notin {"save", "leave", "done"} => changed'[d] = {}
  <2>1. CASE d # c
    BY <2>1, StepOrStart, OthersKeepTheirs DEF OverlapInv
  <2>2. CASE d = c
    <3>0. /\ pc[c] \in {"worktree", "merge"} => kind[c].isolated
          /\ pc[c] \notin {"save", "leave", "done"} => changed[c] = {}
          /\ kind' = kind
      BY StepOrStart DEF OverlapInv
    <3>16. /\ pc'[c] \in {"worktree", "merge"} => kind[c].isolated
           /\ pc'[c] \notin {"save", "leave", "done"} => changed'[c] = {}
      <4> USE <3>0 DEF Step, dbVars, TypeInv, TypeOK
      <4>1. CASE PushContext(c)
        BY <4>1 DEF PushContext
      <4>2. CASE PrepareWorktree(c)
        BY <4>2 DEF PrepareWorktree
      <4>3. CASE WorktreeFails(c)
        BY <4>3 DEF WorktreeFails, Raises, AfterRaise
      <4>4. CASE OpenDatabase(c)
        BY <4>4 DEF OpenDatabase, Raises, AfterRaise
      <4>5. CASE Configure(c)
        BY <4>5 DEF Configure, Raises, AfterRaise
      <4>6. CASE Checks(c)
        BY <4>6 DEF Checks, Raises, AfterRaise
      <4>7. CASE TakeLock(c)
        BY <4>7 DEF TakeLock, Raises, AfterRaise
      <4>8. CASE Load(c)
        BY <4>8 DEF Load
      <4>9. CASE Operate(c)
        BY <4>9 DEF Operate, Raises, AfterRaise
      <4>10. CASE SaveDatabase(c)
        BY <4>10 DEF SaveDatabase, AfterSave, AfterMerge, Raises, AfterRaise
      <4>11. CASE Commit(c)
        BY <4>11 DEF Commit, AfterMerge, Raises, AfterRaise
      <4>12. CASE FinalizeWorktree(c)
        BY <4>12 DEF FinalizeWorktree
      <4>13. CASE Finish(c)
        BY <4>13 DEF Finish, AfterRaise
      <4>14. CASE Rollback(c)
        BY <4>14 DEF Rollback
      <4>15. CASE Kill(c)
        BY <4>15 DEF Kill
      <4> QED
        BY <4>1, <4>2, <4>3, <4>4, <4>5, <4>6, <4>7, <4>8, <4>9, <4>10, <4>11, <4>12, <4>13, <4>14, <4>15 DEF Act, Hook
    <3> QED
      BY <2>2, <3>0, <3>16
  <2> QED
    BY <2>1, <2>2
<1>4. ASSUME NEW d \in Commands, pc'[d] = "new"
      PROVE  met'[d] = {}
  <2>1. d # c /\ pc[d] = "new"
    BY <1>4, StepOrStart
  <2>2. met[d] = {} /\ d \notin Running
    BY <2>1 DEF OverlapInv, Running
  <2> QED
    BY <2>1, <2>2, StepOrStart DEF PushContext
<1> QED
  BY <1>2, <1>3, <1>4 DEF OverlapInv

LEMMA NobodyElseIsAlone ==
    ASSUME TypeInv, OverlapInv, NEW c \in Commands, Act(c), NEW d \in Running, d # c
    PROVE  met'[d] # {}
<1>1. d \in Commands
  BY DEF Running
<1> QED
  BY <1>1, StepOrStart DEF OverlapInv, PushContext

LEMMA ChainOfOverlap ==
    ASSUME TypeInv, NEW c \in Commands, NEW d \in Commands, d \in met[c]
    PROVE  c \in Chain(c) /\ Chain(d) \subseteq Chain(c)
  BY DEF Chain

LEMMA InOwnChain ==
    ASSUME NEW c \in Commands
    PROVE  c \in Chain(c)
  BY DEF Chain

LEMMA ChainsGrow ==
    ASSUME TypeInv, OverlapInv, NEW c \in Commands, Act(c), NEW d \in Commands
    PROVE  Chain(d) \subseteq Chain(d)'
<1>1. \A e \in Commands : met[e] \subseteq met'[e]
  <2>1. CASE met' = met
    BY <2>1
  <2>2. CASE PushContext(c) /\ c \notin Running
    <3>1. ASSUME NEW e \in Commands, e # c PROVE met[e] \subseteq met'[e]
      BY <2>2, <3>1 DEF PushContext
    <3>2. met[c] = {}
      BY <2>2 DEF PushContext, Step, OverlapInv
    <3> QED
      BY <3>1, <3>2
  <2> QED
    BY <2>1, <2>2, StepOrStart
<1> QED
  BY <1>1 DEF Chain

-----------------------------------------------------------------------------
\* The branch of the project: it only grows, by commits of the acting command.
LEMMA PrefixByElements ==
    ASSUME NEW S, NEW s \in Seq(S), NEW t \in Seq(S)
    PROVE  IsPrefix(s, t) <=> Len(s) <= Len(t) /\ \A i \in DOMAIN s : s[i] = t[i]
<1>1. Len(s) \in Nat /\ Len(t) \in Nat /\ DOMAIN s = 1 .. Len(s)
  OBVIOUS
<1>2. ASSUME Len(s) <= Len(t), \A i \in DOMAIN s : s[i] = t[i] PROVE IsPrefix(s, t)
  <2>1. SubSeq(s, 1, Len(s)) = SubSeq(t, 1, Len(s))
    BY <1>1, <1>2
  <2> QED
    BY <1>2, <2>1 DEF IsPrefix
<1>3. ASSUME IsPrefix(s, t) PROVE Len(s) <= Len(t) /\ \A i \in DOMAIN s : s[i] = t[i]
  <2>1. Len(s) <= Len(t) /\ SubSeq(s, 1, Len(s)) = SubSeq(t, 1, Len(s))
    BY <1>3 DEF IsPrefix
  <2>2. ASSUME NEW i \in 1 .. Len(s) PROVE s[i] = t[i]
    <3>1. SubSeq(s, 1, Len(s))[i] = s[i] /\ SubSeq(t, 1, Len(s))[i] = t[i]
      BY <1>1, <2>1
    <3> QED
      BY <2>1, <3>1
  <2> QED
    BY <1>1, <2>1, <2>2
<1> QED
  BY <1>2, <1>3

LEMMA SamePrefixes ==
    ASSUME NEW S, NEW s \in Seq(S), NEW t \in Seq(S), IsPrefix(s, t), IsPrefix(t, s)
    PROVE  s = t
<1>1. /\ Len(s) = Len(t) /\ Len(s) \in Nat
      /\ \A i \in 1 .. Len(s) : s[i] = t[i]
  BY PrefixByElements
<1> QED
  BY <1>1

LEMMA BranchGrows ==
    ASSUME TypeInv, OverlapInv, NEW c \in Commands, BranchInv(c), Act(c)
    PROVE  /\ DOMAIN log[Main] \subseteq DOMAIN log'[Main]
           /\ \A i \in DOMAIN log[Main] : log'[Main][i] = log[Main][i]
           /\ \A i \in DOMAIN log'[Main] : i \in DOMAIN log[Main] \/ log'[Main][i].by = c
           /\ log'[Main] # log[Main] => Len(log[Main]) + 1 \in DOMAIN log'[Main]
<1>1. Main \in Places /\ c \in Places /\ c # Main /\ Place(c) \in Places
  BY TypesOfParts, CommandsAssumption
<1>2. log \in [Places -> Seq(Commits)] /\ log[Main] \in Seq(Commits) /\ log[c] \in Seq(Commits)
  BY <1>1 DEF TypeInv, TypeOK
<1>3. \/ log'[Main] = log[Main]
      \/ \E x \in Commits : x.by = c /\ log'[Main] = Append(log[Main], x)
      \/ FinalizeWorktree(c) /\ log'[Main] = log[c] /\ ~IsPrefix(log[c], log[Main])
            /\ IsPrefix(log[Main], log[c])
  <2>1. CASE Commit(c)
    <3>1. DEFINE x == [by |-> c, meta |-> tree[Place(c)]]
    <3>2. x \in Commits /\ x.by = c
      BY <1>1 DEF TypeInv, TypeOK, Commits
    <3>3. log' = log \/ log' = [log EXCEPT ![Place(c)] = Append(@, x)]
      BY <2>1 DEF Commit
    <3> QED
      BY <1>1, <1>2, <3>2, <3>3
  <2>2. CASE FinalizeWorktree(c)
    BY <1>1, <1>2, <2>2 DEF FinalizeWorktree, CanMerge, gitVars
  <2>3. CASE PrepareWorktree(c)
    BY <1>1, <1>2, <2>3 DEF PrepareWorktree
  <2>4. ASSUME ~Commit(c), ~FinalizeWorktree(c), ~PrepareWorktree(c) PROVE log' = log
    BY <2>4 DEF Act, Hook, gitVars, PushContext, WorktreeFails, OpenDatabase, Configure, Checks,
       TakeLock, Load, Operate, SaveDatabase, Finish, Rollback, Kill
  <2> QED
    BY <2>1, <2>2, <2>3, <2>4
<1>4. CASE log'[Main] = log[Main]
  BY <1>2, <1>4
<1>5. CASE \E x \in Commits : x.by = c /\ log'[Main] = Append(log[Main], x)
  <2>1. PICK x \in Commits : x.by = c /\ log'[Main] = Append(log[Main], x)
    BY <1>5
  <2>2. DOMAIN log'[Main] = DOMAIN log[Main] \cup {Len(log[Main]) + 1}
    BY <1>2, <2>1
  <2>3. log'[Main][Len(log[Main]) + 1] = x /\ \A i \in DOMAIN log[Main] : log'[Main][i] = log[Main][i]
    BY <1>2, <2>1
  <2> QED
    BY <2>1, <2>2, <2>3
<1>6. CASE FinalizeWorktree(c) /\ log'[Main] = log[c] /\ ~IsPrefix(log[c], log[Main])
             /\ IsPrefix(log[Main], log[c])
  <2>1. Len(log[Main]) <= Len(log[c]) /\ \A i \in DOMAIN log[Main] : log[Main][i] = log[c][i]
    BY <1>2, <1>6, PrefixByElements
  <2>2. Len(log[Main]) # Len(log[c])
    BY <1>2, <1>6, <2>1, PrefixByElements
  <2>3. pc[c] = "merge" /\ kind[c].isolated
    BY <1>6 DEF FinalizeWorktree, Step, OverlapInv
  <2>4. \A i \in DOMAIN log[c] :
           log[c][i].by = c \/ (i \in DOMAIN log[Main] /\ log[c][i] = log[Main][i])
    BY <2>3 DEF BranchInv, InWorktree, Injecting
  <2> QED
    BY <1>2, <1>6, <2>1, <2>2, <2>4
<1> QED
  BY <1>3, <1>4, <1>5, <1>6

\* The metadata of the project changes by updates of a chain of overlaps.
LEMMA TreeOfMain ==
    ASSUME TypeInv, OverlapInv, NEW c \in Commands, BranchInv(c), CopyInv(c), Act(c),
           NEW o \in Objects
    PROVE  /\ tree'[Main][o] \ tree[Main][o] \subseteq Chain(c) \cup {Version}
           /\ tree[Main][o] \ tree'[Main][o] \subseteq Chain(c) \cup {Version}
           /\ Solo(c) => tree[Main][o] \subseteq tree'[Main][o]
<1>1. Main \in Places /\ c \in Places /\ c # Main /\ Place(c) \in {Main, c}
  BY TypesOfParts, CommandsAssumption DEF Place
<1>2. tree \in [Places -> Metadata] /\ copy[c] \in Metadata
  BY DEF TypeInv, TypeOK
<1>3. CASE tree'[Main][o] = tree[Main][o]
  BY <1>3
<1>4. CASE SaveDatabase(c)
  <2> DEFINE bumped == [copy[c] EXCEPT !["project"] = IF NeedsVersion(c) THEN @ \cup {Version} ELSE @]
  <2>0. \E D : tree' = [tree EXCEPT ![Place(c)] = [q \in Objects |->
                           IF q \in D THEN bumped[q] ELSE @[q]]]
    <3>1. CASE tree' = [tree EXCEPT ![Place(c)] = [q \in Objects |->
                IF kind[c].write /\ q \in (changed[c] \cup IF NeedsVersion(c) THEN {"project"} ELSE {})
                THEN bumped[q] ELSE @[q]]]
      <4> DEFINE D == {q \in Objects : kind[c].write
                         /\ q \in (changed[c] \cup IF NeedsVersion(c) THEN {"project"} ELSE {})}
      <4> HIDE DEF bumped
      <4>1. tree' = [tree EXCEPT ![Place(c)] = [q \in Objects |-> IF q \in D THEN bumped[q] ELSE @[q]]]
        BY <3>1
      <4> QED
        BY <4>1
    <3>2. CASE \E D : tree' = [tree EXCEPT ![Place(c)] = [q \in Objects |->
                                 IF q \in D THEN bumped[q] ELSE @[q]]]
      BY <3>2
    <3> QED
      BY <1>4, <3>1, <3>2 DEF SaveDatabase
  <2>1. tree'[Main][o] \in {tree[Main][o], bumped[o]} /\ (Place(c) # Main => tree'[Main] = tree[Main])
    <3> HIDE DEF bumped
    <3> QED
      BY <1>1, <1>2, <2>0
  <2>2. CASE tree'[Main][o] = tree[Main][o]
    BY <2>2
  <2>3. CASE tree'[Main][o] # tree[Main][o]
    <3>1. Place(c) = Main
      BY <2>1, <2>3
    <3>2. Loaded(c) = Objects
      BY <1>4 DEF SaveDatabase, Loaded
    <3>3. bumped[o] \in {copy[c][o], copy[c][o] \cup {Version}}
      BY <1>2 DEF Metadata
    <3> HIDE DEF bumped
    <3>4. /\ tree[Main][o] \ copy[c][o] \subseteq Chain(c) \cup {Version}
          /\ copy[c][o] \ tree[Main][o] \subseteq Chain(c) \cup {Version}
          /\ Solo(c) => tree[Main][o] \subseteq copy[c][o]
      BY <3>1, <3>2 DEF CopyInv
    <3> QED
      BY <2>1, <2>3, <3>3, <3>4
  <2> QED
    BY <2>2, <2>3
<1>5. CASE Rollback(c)
  <2>1. CASE tree'[Main][o] # tree[Main][o]
    <3>1. Place(c) = Main /\ o \in Unsaved(c) /\ tree'[Main][o] = copy[c][o]
      BY <1>1, <1>2, <1>5, <2>1 DEF Rollback, Stores
    <3>2. o \in Loaded(c)
      BY <1>5, <3>1 DEF Rollback, Step, Loaded, Unsaved
    <3> QED
      BY <3>1, <3>2 DEF CopyInv
  <2> QED
    BY <1>3, <2>1
<1>6. CASE FinalizeWorktree(c)
  <2>1. CASE tree'[Main][o] # tree[Main][o]
    <3>1. pc[c] = "merge" /\ kind[c].isolated
      BY <1>6 DEF FinalizeWorktree, Step, OverlapInv
    <3>2. /\ CanMerge(c) /\ ~IsPrefix(log[c], log[Main]) /\ o \in Merged(c)
          /\ tree'[Main][o] = Tip(c)[o]
      BY <1>1, <1>2, <1>6, <2>1 DEF FinalizeWorktree, gitVars
    <3>3. IsPrefix(log[Main], log[c]) /\ tree[Main][o] = Tip(Main)[o]
      BY <3>2 DEF CanMerge
    <3>4. Tip(Main)[o] \subseteq Tip(c)[o] /\ Tip(c)[o] \subseteq Tip(Main)[o] \cup {c, Version}
      BY <3>1, <3>3 DEF BranchInv, InWorktree, Injecting, Ahead, Own
    <3> QED
      BY <3>2, <3>3, <3>4, InOwnChain
  <2> QED
    BY <1>3, <2>1
<1>7. CASE PrepareWorktree(c)
  BY <1>1, <1>2, <1>3, <1>7 DEF PrepareWorktree
<1>8. ASSUME ~SaveDatabase(c), ~Rollback(c), ~FinalizeWorktree(c), ~PrepareWorktree(c)
      PROVE  tree' = tree
  BY <1>8 DEF Act, Hook, gitVars, PushContext, WorktreeFails, OpenDatabase, Configure, Checks,
     TakeLock, Load, Operate, Commit, Finish, Kill
<1> QED
  BY <1>3, <1>4, <1>5, <1>6, <1>7, <1>8

-----------------------------------------------------------------------------
\* What a step of one command means for the others.
LEMMA OthersInv ==
    ASSUME TypeInv, TypeInv', OverlapInv, NEW c \in Commands, Act(c), BranchInv(c), CopyInv(c),
           NEW d \in Commands, d # c, BranchInv(d), CopyInv(d), UpdateInv(d), CleanInv(d)
    PROVE  BranchInv(d)' /\ CopyInv(d)' /\ UpdateInv(d)' /\ CleanInv(d)'
<1>1. /\ pc'[d] = pc[d] /\ kind' = kind /\ outcome'[d] = outcome[d] /\ copy'[d] = copy[d]
      /\ changed'[d] = changed[d] /\ tree'[d] = tree[d] /\ log'[d] = log[d]
  BY StepOrStart, OthersKeepTheirs
<1>2. Loaded(d)' = Loaded(d) /\ Place(d)' = Place(d)
  BY <1>1 DEF Loaded, Place
<1>3. pc[d] \notin {"new", "done"} => d \in Running /\ ~Solo(d)'
  BY NobodyElseIsAlone DEF Running, Solo
<1>4. /\ DOMAIN log[Main] \subseteq DOMAIN log'[Main]
      /\ \A i \in DOMAIN log[Main] : log'[Main][i] = log[Main][i]
      /\ \A i \in DOMAIN log'[Main] : i \in DOMAIN log[Main] \/ log'[Main][i].by = c
      /\ log'[Main] # log[Main] => Len(log[Main]) + 1 \in DOMAIN log'[Main]
  BY BranchGrows
<1>5. BranchInv(d)'
  <2>1. pc'[d] \in {"new", "worktree"} => log'[d] = <<>>
    BY <1>1 DEF BranchInv
  <2>2. ASSUME kind'[d].isolated, pc'[d] \in InWorktree \cup {"new", "worktree"},
               NEW i \in DOMAIN log'[Main]
        PROVE  log'[Main][i].by # d
    BY <1>1, <1>4, <2>2 DEF BranchInv
  <2>3. ASSUME kind'[d].isolated, pc'[d] \in InWorktree
        PROVE  /\ log'[d] # <<>>
               /\ \A i \in DOMAIN log'[d] :
                     log'[d][i].by = d \/ (i \in DOMAIN log'[Main] /\ log'[d][i] = log'[Main][i])
               /\ IsPrefix(log'[Main], log'[d]) => \A o \in Objects : Ahead(d, o)'
               /\ ~Solo(d)'
    <3>1. /\ log[d] # <<>>
          /\ \A i \in DOMAIN log[d] :
                log[d][i].by = d \/ (i \in DOMAIN log[Main] /\ log[d][i] = log[Main][i])
          /\ IsPrefix(log[Main], log[d]) => \A o \in Objects : Ahead(d, o)
          /\ \A i \in DOMAIN log[Main] : log[Main][i].by # d
      BY <1>1, <2>3 DEF BranchInv
    <3>2. ~Solo(d)'
      BY <1>1, <1>3, <2>3 DEF InWorktree, Injecting
    <3>3. ASSUME IsPrefix(log'[Main], log'[d]) PROVE log'[Main] = log[Main]
      <4>1. SUFFICES ASSUME log'[Main] # log[Main] PROVE FALSE
        OBVIOUS
      <4>2. log'[Main] \in Seq(Commits) /\ log'[d] \in Seq(Commits) /\ log[Main] \in Seq(Commits)
        BY TypesOfParts DEF TypeInv, TypeOK, Places
      <4>3. DEFINE n == Len(log[Main]) + 1
      <4>4. n \in DOMAIN log'[Main] /\ n \notin DOMAIN log[Main]
        BY <1>4, <4>1, <4>2
      <4>5. n \in DOMAIN log'[d] /\ log'[d][n] = log'[Main][n]
        BY <3>3, <4>2, <4>4, PrefixByElements
      <4> HIDE DEF n
      <4>6. log'[Main][n].by = c
        BY <1>4, <4>4
      <4>7. log[d][n].by = d
        BY <1>1, <3>1, <4>4, <4>5
      <4> QED
        BY <1>1, <4>5, <4>6, <4>7
    <3>4. ASSUME IsPrefix(log'[Main], log'[d]), NEW o \in Objects PROVE Ahead(d, o)'
      <4>1. log'[Main] = log[Main]
        BY <3>3, <3>4
      <4>2. Ahead(d, o)
        BY <1>1, <3>1, <3>4, <4>1
      <4> QED
        BY <1>1, <1>2, <4>1, <4>2 DEF Ahead, Own, Tip
    <3> QED
      BY <1>1, <1>4, <3>1, <3>2, <3>4
  <2> QED
    BY <2>1, <2>2, <2>3 DEF BranchInv
<1>6. CopyInv(d)'
  <2>1. SUFFICES ASSUME NEW o \in Loaded(d)
                 PROVE  /\ tree'[Place(d)][o] \ copy[d][o] \subseteq Chain(d)' \cup {Version}
                        /\ copy[d][o] \ tree'[Place(d)][o] \subseteq Chain(d)' \cup {Version}
                        /\ Solo(d)' \/ kind[d].isolated => tree'[Place(d)][o] \subseteq copy[d][o]
    BY <1>1, <1>2 DEF CopyInv
  <2>2. o \in Objects
    BY DEF Loaded, Objects, TypeInv, TypeOK
  <2>3. pc[d] \notin {"new", "done"}
    BY DEF Loaded
  <2>4. Chain(d) \subseteq Chain(d)'
    BY ChainsGrow
  <2>5. /\ tree[Place(d)][o] \ copy[d][o] \subseteq Chain(d) \cup {Version}
        /\ copy[d][o] \ tree[Place(d)][o] \subseteq Chain(d) \cup {Version}
        /\ kind[d].isolated => tree[Place(d)][o] \subseteq copy[d][o]
    BY DEF CopyInv
  <2>6. CASE kind[d].isolated
    BY <1>1, <2>4, <2>5, <2>6 DEF Place
  <2>7. CASE ~kind[d].isolated
    <3>1. Place(d) = Main
      BY <2>7 DEF Place
    <3>2. CASE tree'[Main][o] = tree[Main][o]
      BY <1>3, <2>3, <2>4, <2>5, <2>7, <3>1, <3>2
    <3>3. CASE tree'[Main][o] # tree[Main][o]
      <4>1. c \in Running
        BY <3>3, StepOrStart DEF PushContext, gitVars
      <4>2. c \in met[d]
        BY <1>3, <2>3, <4>1 DEF OverlapInv
      <4>3. Chain(c) \subseteq Chain(d)
        BY <4>2, ChainOfOverlap
      <4>4. /\ tree'[Main][o] \ tree[Main][o] \subseteq Chain(c) \cup {Version}
            /\ tree[Main][o] \ tree'[Main][o] \subseteq Chain(c) \cup {Version}
        BY <2>2, TreeOfMain
      <4> QED
        BY <1>3, <2>3, <2>4, <2>5, <2>7, <3>1, <4>3, <4>4
    <3> QED
      BY <3>2, <3>3
  <2> QED
    BY <2>6, <2>7
<1>7. UpdateInv(d)'
  BY <1>1, <1>3 DEF UpdateInv, Written
<1>8. CleanInv(d)'
  BY <1>1, <1>3 DEF CleanInv
<1> QED
  BY <1>5, <1>6, <1>7, <1>8

-----------------------------------------------------------------------------
\* What a step means for the command that takes it.
CmdInv(c) == BranchInv(c) /\ CopyInv(c) /\ UpdateInv(c) /\ CleanInv(c)

LEMMA AtTheEnd ==
    ASSUME NEW c \in Commands, pc'[c] \in {"finish", "leave", "done"},
           pc'[c] = "leave" => changed'[c] = {}, pc'[c] = "finish" => UpdateInv(c)'
    PROVE  CmdInv(c)'
<1>1. Loaded(c)' = {}
  BY DEF Loaded
<1> QED
  BY <1>1 DEF CmdInv, BranchInv, CopyInv, UpdateInv, CleanInv, InWorktree, Injecting

LEMMA AfterAStep ==
    ASSUME TypeInv, NEW c \in Commands, Act(c), ~PushContext(c)
    PROVE  /\ kind' = kind /\ met' = met /\ Chain(c)' = Chain(c) /\ Place(c)' = Place(c)
           /\ Solo(c)' = Solo(c) /\ c \in Running
  BY StepOrStart DEF Chain, Place, Solo

LEMMA PushContextOwn ==
    ASSUME TypeInv, OverlapInv, NEW c \in Commands, CmdInv(c), PushContext(c)
    PROVE  CmdInv(c)'
<1>1. /\ pc[c] = "new" /\ pc'[c] = IF kind[c].isolated THEN "worktree" ELSE "database"
      /\ kind' = kind /\ log' = log
  BY DEF PushContext, Step, gitVars, TypeInv, TypeOK
<1>2. Loaded(c)' = {}
  BY <1>1 DEF Loaded
<1>3. BranchInv(c)'
  BY <1>1 DEF CmdInv, BranchInv, InWorktree, Injecting
<1> QED
  BY <1>1, <1>2, <1>3 DEF CmdInv, CopyInv, UpdateInv, CleanInv

LEMMA PrepareWorktreeOwn ==
    ASSUME TypeInv, OverlapInv, NEW c \in Commands, CmdInv(c), PrepareWorktree(c)
    PROVE  CmdInv(c)'
<1>1. c \in Places /\ Main \in Places /\ c # Main
  BY TypesOfParts, CommandsAssumption
<1>2. /\ pc[c] = "worktree" /\ pc'[c] = "database" /\ kind' = kind
      /\ log'[c] = log[Main] /\ tree'[c] = Tip(Main) /\ log'[Main] = log[Main]
  BY <1>1 DEF PrepareWorktree, Step, TypeInv, TypeOK
<1>3. kind[c].isolated /\ \A i \in DOMAIN log[Main] : log[Main][i].by # c
  BY <1>2 DEF OverlapInv, CmdInv, BranchInv
<1>4. Loaded(c)' = {}
  BY <1>2 DEF Loaded
<1>5. Tip(c)' = Tip(Main) /\ Tip(Main)' = Tip(Main)
  BY <1>2 DEF Tip
<1>6. \A o \in Objects : Ahead(c, o)'
  BY <1>2, <1>4, <1>5 DEF Ahead, Own
<1>7. IsPrefix(log'[Main], log'[c]) /\ log'[c] # <<>>
  BY <1>1, <1>2, PrefixByElements DEF TypeInv, TypeOK
<1>8. BranchInv(c)'
  BY <1>2, <1>3, <1>6, <1>7 DEF BranchInv
<1> QED
  BY <1>2, <1>4, <1>8 DEF CmdInv, CopyInv, UpdateInv, CleanInv

\* While nothing is written, a command reads what is in its tree.
LEMMA ReadingOwn ==
    ASSUME TypeInv, OverlapInv, NEW c \in Commands, CmdInv(c), Act(c), ~PushContext(c),
           UNCHANGED <<tree, log>>,
           pc[c] \in InWorktree, pc'[c] \in {"configure", "checks", "lock", "load", "operation"},
           \A o \in Loaded(c)' : copy'[c][o] = tree[Place(c)][o]
                                \/ (o \in Loaded(c) /\ copy'[c][o] = copy[c][o]),
           pc'[c] \in {"configure", "checks"} /\ Solo(c) /\ ~kind[c].isolated =>
              copy'[c]["project"] = tree[Main]["project"],
           pc'[c] \in {"lock", "load", "operation"} /\ Solo(c) /\ ~kind[c].isolated /\ kind[c].clean =>
              /\ \A o \in Objects : tree[Main][o] \subseteq Own(c, o)
              /\ \A o \in Loaded(c)' : copy'[c][o] \subseteq Own(c, o)
    PROVE  CmdInv(c)'
<1>1. /\ kind' = kind /\ met' = met /\ Chain(c)' = Chain(c) /\ Place(c)' = Place(c)
      /\ Solo(c)' = Solo(c) /\ tree' = tree /\ log' = log
  BY AfterAStep
<1>2. Loaded(c)' \subseteq Objects
  BY DEF Loaded, Objects
<1>3. \A o : Own(c, o)' = Own(c, o) /\ Tip(c)' = Tip(c) /\ Tip(Main)' = Tip(Main)
  BY <1>1 DEF Own, Tip
<1>4. BranchInv(c)'
  <2>1. ASSUME kind[c].isolated, IsPrefix(log[Main], log[c]), NEW o \in Objects
        PROVE  Ahead(c, o)'
    <3>1. Ahead(c, o) /\ Place(c) = c
      BY <2>1 DEF CmdInv, BranchInv, Place
    <3> QED
      BY <1>1, <1>3, <3>1 DEF Ahead
  <2> QED
    BY <1>1, <2>1 DEF CmdInv, BranchInv
<1>5. CopyInv(c)'
  BY <1>1 DEF CmdInv, CopyInv
<1>6. UpdateInv(c)'
  BY DEF UpdateInv
<1>7. CleanInv(c)'
  BY <1>1, <1>2, <1>3 DEF CleanInv
<1> QED
  BY <1>4, <1>5, <1>6, <1>7 DEF CmdInv

LEMMA ReadingStepsOwn ==
    ASSUME TypeInv, OverlapInv, NEW c \in Commands, CmdInv(c),
           OpenDatabase(c) \/ Configure(c) \/ Checks(c) \/ TakeLock(c) \/ Load(c)
    PROVE  CmdInv(c)'
<1>1. Act(c) /\ ~PushContext(c)
  BY DEF Act, Hook, OpenDatabase, Configure, Checks, TakeLock, Load, PushContext, Step, Raises
<1>2. UNCHANGED <<tree, log, kind, met>> /\ changed'[c] = changed[c]
  BY DEF OpenDatabase, Configure, Checks, TakeLock, Load, gitVars, dbVars
<1>3. CASE pc'[c] \in {"leave", "done"}
  <2>1. changed[c] = {}
    BY DEF OpenDatabase, Configure, Checks, TakeLock, Load, OverlapInv, Step, Raises
  <2> QED
    BY <1>2, <1>3, <2>1, AtTheEnd
<1>4. CASE OpenDatabase(c) /\ pc'[c] = "configure"
  <2>1. pc[c] = "database" /\ copy'[c]["project"] = tree[Place(c)]["project"]
    BY <1>4 DEF OpenDatabase, Step, Raises, TypeInv, TypeOK, Metadata, Objects
  <2>2. Loaded(c)' = {"project"}
    BY <1>4 DEF Loaded
  <2>3. \A o \in Loaded(c)' : copy'[c][o] = tree[Place(c)][o]
                            \/ (o \in Loaded(c) /\ copy'[c][o] = copy[c][o])
    <3>1. ASSUME NEW o \in Loaded(c)' PROVE copy'[c][o] = tree[Place(c)][o]
      <4>1. o = "project"
        BY <2>2
      <4> QED
        BY <2>1, <4>1
    <3> QED
      BY <3>1
  <2>4. ~kind[c].isolated => copy'[c]["project"] = tree[Main]["project"]
    BY <2>1 DEF Place
  <2>5. pc[c] \in InWorktree
    BY <2>1 DEF InWorktree
  <2> QED
    BY <1>1, <1>2, <1>4, <2>3, <2>4, <2>5, ReadingOwn
<1>5. CASE Configure(c) /\ pc'[c] = "checks"
  <2>1. pc[c] = "configure" /\ copy'[c] = copy[c]
    BY <1>5 DEF Configure, Step, Raises, dbVars
  <2>2. Loaded(c)' = {"project"} /\ Loaded(c) = {"project"}
    BY <1>5, <2>1 DEF Loaded
  <2>3. Solo(c) /\ ~kind[c].isolated => copy[c]["project"] = tree[Main]["project"]
    BY <2>1 DEF CmdInv, CleanInv
  <2> QED
    BY <1>1, <1>2, <1>5, <2>1, <2>2, <2>3, ReadingOwn DEF InWorktree
<1>6. CASE Checks(c) /\ pc'[c] = "lock"
  <2>1. pc[c] = "checks" /\ copy'[c] = copy[c] /\ EnsureClean(c)
    BY <1>6 DEF Checks, Step, Raises, AfterRaise, dbVars, TypeInv, TypeOK
  <2>2. Loaded(c)' = {"project"} /\ Loaded(c) = {"project"}
    BY <1>6, <2>1 DEF Loaded
  <2>3. Solo(c) /\ ~kind[c].isolated => copy[c]["project"] = tree[Main]["project"]
    BY <2>1 DEF CmdInv, CleanInv
  <2>4. kind[c].clean /\ ~kind[c].isolated => tree[Main] = Tip(Main)
    BY <2>1 DEF EnsureClean, Dirty, Place
  <2>5. Solo(c) /\ ~kind[c].isolated /\ kind[c].clean =>
           /\ \A o \in Objects : tree[Main][o] \subseteq Own(c, o)
           /\ \A o \in Loaded(c)' : copy'[c][o] \subseteq Own(c, o)
    BY <2>1, <2>2, <2>3, <2>4 DEF Own
  <2> QED
    BY <1>1, <1>2, <1>6, <2>1, <2>2, <2>5, ReadingOwn DEF InWorktree, Injecting
<1>7. CASE TakeLock(c) /\ pc'[c] = "load"
  <2>1. pc[c] = "lock" /\ copy'[c] = copy[c]
    BY <1>7 DEF TakeLock, Step, Raises, dbVars
  <2>2. Loaded(c)' = {"project"} /\ Loaded(c) = {"project"}
    BY <1>7, <2>1 DEF Loaded
  <2>3. Solo(c) /\ ~kind[c].isolated /\ kind[c].clean =>
           /\ \A o \in Objects : tree[Main][o] \subseteq Own(c, o)
           /\ \A o \in Loaded(c)' : copy'[c][o] \subseteq Own(c, o)
    BY <2>1, <2>2 DEF CmdInv, CleanInv
  <2> QED
    BY <1>1, <1>2, <1>7, <2>1, <2>2, <2>3, ReadingOwn DEF InWorktree, Injecting
<1>8. CASE Load(c) /\ pc'[c] = "operation"
  <2>1. /\ pc[c] = "load" /\ copy'[c]["datasets"] = tree[Place(c)]["datasets"]
        /\ copy'[c]["project"] = copy[c]["project"]
    BY <1>8 DEF Load, Step, TypeInv, TypeOK, Metadata, Objects
  <2>2. Loaded(c)' = {"project", "datasets"} /\ Loaded(c) = {"project"}
    BY <1>8, <2>1 DEF Loaded, Objects
  <2>3. Solo(c) /\ ~kind[c].isolated /\ kind[c].clean =>
           /\ \A o \in Objects : tree[Main][o] \subseteq Own(c, o)
           /\ \A o \in Loaded(c)' : copy'[c][o] \subseteq Own(c, o)
    BY <2>1, <2>2 DEF CmdInv, CleanInv, Place, Objects
  <2>4. \A o \in Loaded(c)' : copy'[c][o] = tree[Place(c)][o]
                            \/ (o \in Loaded(c) /\ copy'[c][o] = copy[c][o])
    <3>1. ASSUME NEW o \in Loaded(c)'
          PROVE  copy'[c][o] = tree[Place(c)][o] \/ (o \in Loaded(c) /\ copy'[c][o] = copy[c][o])
      <4>1. o = "project" \/ o = "datasets"
        BY <2>2
      <4>2. CASE o = "project"
        BY <2>1, <2>2, <4>2
      <4>3. CASE o = "datasets"
        BY <2>1, <4>3
      <4> QED
        BY <4>1, <4>2, <4>3
    <3> QED
      BY <3>1
  <2>5. pc[c] \in InWorktree
    BY <2>1 DEF InWorktree, Injecting
  <2> QED
    BY <1>1, <1>2, <1>8, <2>3, <2>4, <2>5, ReadingOwn
<1> QED
  <2>1. OpenDatabase(c) => pc'[c] \in {"configure", "leave", "done"}
    BY DEF OpenDatabase, Step, Raises, AfterRaise, TypeInv, TypeOK
  <2>2. Configure(c) => pc'[c] \in {"checks", "leave", "done"}
    BY DEF Configure, Step, Raises, AfterRaise, TypeInv, TypeOK
  <2>3. Checks(c) => pc'[c] \in {"lock", "leave", "done"}
    BY DEF Checks, Step, Raises, AfterRaise, TypeInv, TypeOK
  <2>4. TakeLock(c) => pc'[c] \in {"load", "leave", "done"}
    BY DEF TakeLock, Step, Raises, AfterRaise, TypeInv, TypeOK
  <2>5. Load(c) => pc'[c] = "operation"
    BY DEF Load, Step, TypeInv, TypeOK
  <2> QED
    BY <1>3, <1>4, <1>5, <1>6, <1>7, <1>8, <2>1, <2>2, <2>3, <2>4, <2>5

LEMMA OperateOwn ==
    ASSUME TypeInv, OverlapInv, NEW c \in Commands, CmdInv(c), Operate(c)
    PROVE  CmdInv(c)'
<1>1. /\ kind' = kind /\ met' = met /\ Chain(c)' = Chain(c) /\ Place(c)' = Place(c)
      /\ Solo(c)' = Solo(c)
  BY AfterAStep DEF Act, Hook, Operate, PushContext, Step, Raises
<1>2. UNCHANGED <<tree, log>> /\ pc[c] = "operation" /\ pc'[c] \in {"save", "leave", "done"}
  BY DEF Operate, gitVars, Step, Raises, AfterRaise, TypeInv, TypeOK
<1>3. Loaded(c) = Objects /\ Loaded(c)' \subseteq Objects
  <2>1. changed'[c] \subseteq Objects
    BY OperateType DEF TypeInv, TypeOK
  <2> QED
    BY <1>2, <2>1 DEF Loaded
<1>4. \A o \in Objects : copy'[c][o] = copy[c][o] \/ copy'[c][o] = copy[c][o] \cup {c}
  <2>1. CASE Updates(c)
    <3>1. copy' = [copy EXCEPT ![c][kind[c].object] = copy[c][kind[c].object] \cup {c}]
      BY <2>1 DEF Updates
    <3>2. copy[c] \in Metadata
      BY DEF TypeInv, TypeOK
    <3> QED
      BY <3>1, <3>2 DEF TypeInv, TypeOK, Metadata
  <2>2. CASE copy' = copy
    BY <2>2
  <2> QED
    BY <2>1, <2>2 DEF Operate, dbVars
<1>5. \A o : Own(c, o)' = Own(c, o) /\ Tip(c)' = Tip(c) /\ Tip(Main)' = Tip(Main)
  BY <1>2 DEF Own, Tip
<1>6. BranchInv(c)'
  <2>1. ASSUME kind[c].isolated, IsPrefix(log[Main], log[c]), NEW o \in Objects
        PROVE  Ahead(c, o)'
    <3>1. Ahead(c, o)
      BY <1>2, <2>1 DEF CmdInv, BranchInv, InWorktree, Injecting
    <3>2. c \in Own(c, o)
      BY DEF Own
    <3> QED
      BY <1>2, <1>3, <1>4, <1>5, <3>1, <3>2 DEF Ahead
  <2> QED
    BY <1>1, <1>2, <2>1 DEF CmdInv, BranchInv, InWorktree, Injecting
<1>7. CopyInv(c)'
  <2>1. ASSUME NEW o \in Objects
        PROVE  /\ tree[Place(c)][o] \ copy'[c][o] \subseteq Chain(c) \cup {Version}
               /\ copy'[c][o] \ tree[Place(c)][o] \subseteq Chain(c) \cup {Version}
               /\ Solo(c) \/ kind[c].isolated => tree[Place(c)][o] \subseteq copy'[c][o]
    BY <1>3, <1>4, InOwnChain DEF CmdInv, CopyInv
  <2> QED
    BY <1>1, <1>2, <1>3, <2>1 DEF CopyInv
<1>8. UpdateInv(c)'
  <2>1. ASSUME pc'[c] = "save", outcome'[c] = "ok", kind[c].write
        PROVE  c \in copy'[c][kind[c].object] /\ kind[c].object \in changed'[c]
    <3>1. Updates(c)
      BY <2>1 DEF Operate, Ends, Raises, TypeInv, TypeOK
    <3> QED
      BY <3>1, TypesOfParts DEF Updates, TypeInv, TypeOK, Metadata
  <2> QED
    BY <1>1, <1>2, <2>1 DEF UpdateInv, Written
<1>9. CleanInv(c)'
  <2>1. ASSUME Solo(c), ~kind[c].isolated, kind[c].clean, NEW o \in Objects
        PROVE  tree[Main][o] \subseteq Own(c, o) /\ copy'[c][o] \subseteq Own(c, o)
    <3>1. tree[Main][o] \subseteq Own(c, o) /\ copy[c][o] \subseteq Own(c, o) /\ c \in Own(c, o)
      BY <1>2, <1>3, <2>1 DEF CmdInv, CleanInv, Own
    <3> QED
      BY <1>4, <3>1
  <2> QED
    BY <1>1, <1>2, <1>3, <1>5, <2>1 DEF CleanInv
<1> QED
  BY <1>6, <1>7, <1>8, <1>9 DEF CmdInv

LEMMA SaveDatabaseOwn ==
    ASSUME TypeInv, OverlapInv, NEW c \in Commands, CmdInv(c), SaveDatabase(c)
    PROVE  CmdInv(c)'
<1> DEFINE bumped == [copy[c] EXCEPT !["project"] = IF NeedsVersion(c) THEN @ \cup {Version} ELSE @]
           stored == changed[c] \cup IF NeedsVersion(c) THEN {"project"} ELSE {}
<1>1. /\ kind' = kind /\ met' = met /\ Chain(c)' = Chain(c) /\ Place(c)' = Place(c)
      /\ Solo(c)' = Solo(c)
  BY AfterAStep DEF Act, Hook, SaveDatabase, PushContext, Step
<1>2. /\ log' = log /\ pc[c] = "save" /\ Loaded(c) = Objects
      /\ Place(c) \in Places /\ tree \in [Places -> Metadata] /\ stored \subseteq Objects
  BY TypesOfParts DEF SaveDatabase, Loaded, TypeInv, TypeOK, Objects
<1>3. \A o \in Objects : bumped[o] = copy[c][o] \/ bumped[o] = copy[c][o] \cup {Version}
  BY DEF TypeInv, TypeOK, Metadata
<1>4. copy'[c] = bumped
  BY DEF SaveDatabase, TypeInv, TypeOK
<1>5. \/ /\ pc'[c] = AfterSave(c) /\ outcome' = outcome
         /\ tree' = [tree EXCEPT ![Place(c)] = [o \in Objects |->
               IF kind[c].write /\ o \in stored THEN bumped[o] ELSE @[o]]]
      \/ /\ pc'[c] \in {"leave", "done"}
         /\ \E failed \in stored : \E done \in SUBSET (stored \ {failed}) :
               /\ changed' = [changed EXCEPT ![c] = stored \ (done \cup {failed})]
               /\ tree' = [tree EXCEPT ![Place(c)] = [o \in Objects |->
                     IF o \in done THEN bumped[o] ELSE @[o]]]
  BY DEF SaveDatabase, Step, Raises, AfterRaise, TypeInv, TypeOK
<1>6. \A o : Own(c, o)' = Own(c, o) /\ Tip(c)' = Tip(c) /\ Tip(Main)' = Tip(Main)
  BY <1>2 DEF Own, Tip
<1> HIDE DEF bumped, stored
<1>7. CASE /\ pc'[c] = AfterSave(c) /\ outcome' = outcome
           /\ tree' = [tree EXCEPT ![Place(c)] = [o \in Objects |->
                 IF kind[c].write /\ o \in stored THEN bumped[o] ELSE @[o]]]
  <2>1. pc'[c] \in {"commit", "merge", "finish"} /\ (pc'[c] = "commit" <=> kind[c].commits)
        /\ (pc'[c] = "merge" => kind[c].isolated)
    BY <1>7 DEF AfterSave, AfterMerge
  <2>2. Loaded(c)' = {}
    BY <2>1 DEF Loaded
  <2>3. \A o \in Objects :
           /\ tree'[Place(c)][o] = tree[Place(c)][o] \/ tree'[Place(c)][o] = bumped[o]
           /\ kind[c].write /\ o \in stored => tree'[Place(c)][o] = bumped[o]
    BY <1>2, <1>7
  <2>4. ASSUME kind[c].isolated, IsPrefix(log[Main], log[c]), NEW o \in Objects
        PROVE  Ahead(c, o)'
    <3>1. Ahead(c, o) /\ Place(c) = c
      BY <1>2, <2>4 DEF CmdInv, BranchInv, InWorktree, Injecting, Place
    <3>2. tree[c][o] \subseteq copy[c][o]
      BY <1>2, <2>4, <3>1 DEF CmdInv, CopyInv
    <3>3. Version \in Own(c, o)
      BY DEF Own
    <3>4. copy[c][o] \subseteq Own(c, o)
      BY <1>2, <3>1 DEF Ahead
    <3>5. Tip(Main)[o] \subseteq tree'[c][o] /\ tree'[c][o] \subseteq Own(c, o)
      BY <1>3, <2>3, <3>1, <3>2, <3>3, <3>4 DEF Ahead
    <3> QED
      BY <1>6, <2>2, <3>1, <3>5 DEF Ahead
  <2>5. BranchInv(c)'
    BY <1>1, <1>2, <2>1, <2>4 DEF CmdInv, BranchInv, InWorktree, Injecting
  <2>6. UpdateInv(c)'
    <3>1. ASSUME pc'[c] = "commit", outcome[c] = "ok", kind[c].write
          PROVE  c \in tree'[Place(c)][kind[c].object]
      <4>1. kind[c].object \in Objects
        BY TypesOfParts
      <4>2. c \in copy[c][kind[c].object] /\ kind[c].object \in stored
        BY <1>2, <3>1 DEF CmdInv, UpdateInv, Written, stored
      <4>3. tree'[Place(c)][kind[c].object] = bumped[kind[c].object]
        BY <2>3, <3>1, <4>1, <4>2
      <4> QED
        BY <1>3, <4>1, <4>2, <4>3
    <3> QED
      BY <1>1, <1>7, <2>1, <3>1 DEF UpdateInv, Written
  <2>7. CleanInv(c)'
    <3>1. ASSUME Solo(c), ~kind[c].isolated, kind[c].clean, NEW o \in Objects
          PROVE  tree'[Main][o] \subseteq Own(c, o)
      <4>1. tree[Main][o] \subseteq Own(c, o) /\ copy[c][o] \subseteq Own(c, o) /\ Version \in Own(c, o)
        BY <1>2, <3>1 DEF CmdInv, CleanInv, Own
      <4> QED
        BY <1>3, <2>3, <3>1, <4>1 DEF Place
    <3> QED
      BY <1>1, <1>6, <2>1, <2>2, <3>1 DEF CleanInv
  <2> QED
    BY <2>2, <2>5, <2>6, <2>7 DEF CmdInv, CopyInv
<1>8. CASE /\ pc'[c] \in {"leave", "done"}
           /\ \E failed \in stored : \E done \in SUBSET (stored \ {failed}) :
                 /\ changed' = [changed EXCEPT ![c] = stored \ (done \cup {failed})]
                 /\ tree' = [tree EXCEPT ![Place(c)] = [o \in Objects |->
                       IF o \in done THEN bumped[o] ELSE @[o]]]
  <2>1. \A o \in Loaded(c)' : o \in Objects /\ tree'[Place(c)][o] = tree[Place(c)][o]
    <3>1. Loaded(c)' \subseteq changed'[c]
      BY <1>8 DEF Loaded
    <3>2. \E done : /\ \E failed : changed' = [changed EXCEPT ![c] = stored \ (done \cup {failed})]
                   /\ tree' = [tree EXCEPT ![Place(c)] = [o \in Objects |->
                         IF o \in done THEN bumped[o] ELSE @[o]]]
      BY <1>8
    <3>3. PICK done : /\ changed'[c] \subseteq stored \ done
                      /\ tree' = [tree EXCEPT ![Place(c)] = [o \in Objects |->
                            IF o \in done THEN bumped[o] ELSE @[o]]]
      BY <3>2 DEF TypeInv, TypeOK
    <3> QED
      BY <1>2, <3>1, <3>3
  <2>2. CopyInv(c)'
    <3>1. ASSUME NEW o \in Objects
          PROVE  /\ tree[Place(c)][o] \ bumped[o] \subseteq Chain(c) \cup {Version}
                 /\ bumped[o] \ tree[Place(c)][o] \subseteq Chain(c) \cup {Version}
                 /\ Solo(c) \/ kind[c].isolated => tree[Place(c)][o] \subseteq bumped[o]
      BY <1>2, <1>3 DEF CmdInv, CopyInv
    <3> QED
      BY <1>1, <1>4, <2>1, <3>1 DEF CopyInv
  <2> QED
    BY <1>8, <2>2 DEF CmdInv, BranchInv, UpdateInv, CleanInv, InWorktree, Injecting
<1> QED
  BY <1>5, <1>7, <1>8

LEMMA CommitRaisesOwn ==
    ASSUME TypeInv, OverlapInv, NEW c \in Commands, Commit(c), Raises(c, "commit")
    PROVE  CmdInv(c)'
<1>1. pc[c] = "commit" /\ changed'[c] = {}
  BY DEF Commit, Raises, Step, dbVars, OverlapInv
<1>2. pc'[c] \in {"leave", "done"}
  BY DEF Raises, Step, AfterRaise, TypeInv, TypeOK
<1> QED
  BY <1>1, <1>2, AtTheEnd

LEMMA CommitOwn ==
    ASSUME TypeInv, OverlapInv, NEW c \in Commands, CmdInv(c), Commit(c), ~Raises(c, "commit")
    PROVE  CmdInv(c)'
<1>1. /\ kind' = kind /\ met' = met /\ Place(c)' = Place(c) /\ Solo(c)' = Solo(c)
  BY AfterAStep DEF Act, Hook, Commit, PushContext, Step
<1>2. /\ pc[c] = "commit" /\ pc'[c] = AfterMerge(c) /\ tree' = tree
  BY DEF Commit, Step, TypeInv, TypeOK
<1>3. Loaded(c)' = {} /\ Loaded(c) = {}
  BY <1>2 DEF Loaded, AfterMerge
<1>4. c \in Places /\ Main \in Places /\ c # Main /\ Place(c) \in Places
  BY TypesOfParts, CommandsAssumption
<1>5. log \in [Places -> Seq(Commits)] /\ \A p \in Places : log[p] \in Seq(Commits)
  BY DEF TypeInv, TypeOK
<1> DEFINE x == [by |-> c, meta |-> tree[Place(c)]]
<1>6. x \in Commits /\ x.by = c /\ x.meta = tree[Place(c)]
  BY <1>4 DEF TypeInv, TypeOK, Commits
<1>7. \/ log' = log
      \/ log' = [log EXCEPT ![Place(c)] = Append(@, x)] /\ outcome' = outcome
  BY DEF Commit
<1>8. outcome'[c] = "ok" =>
         /\ outcome[c] = "ok"
         /\ \/ log' = [log EXCEPT ![Place(c)] = Append(@, x)]
            \/ log' = log /\ tree[Place(c)] = Tip(Place(c))
  BY DEF Commit, Ends, Dirty, TypeInv, TypeOK
<1> HIDE DEF x
<1>9. ASSUME log' = [log EXCEPT ![Place(c)] = Append(@, x)]
      PROVE  /\ log'[Place(c)] = Append(log[Place(c)], x)
             /\ Last(log'[Place(c)]).meta = tree[Place(c)]
             /\ DOMAIN log'[Place(c)] = DOMAIN log[Place(c)] \cup {Len(log[Place(c)]) + 1}
             /\ log'[Place(c)][Len(log[Place(c)]) + 1] = x
             /\ \A i \in DOMAIN log[Place(c)] : log'[Place(c)][i] = log[Place(c)][i]
  <2>1. log'[Place(c)] = Append(log[Place(c)], x)
    BY <1>4, <1>5, <1>9
  <2>2. log[Place(c)] \in Seq(Commits)
    BY <1>4, <1>5
  <2>3. /\ DOMAIN log'[Place(c)] = DOMAIN log[Place(c)] \cup {Len(log[Place(c)]) + 1}
        /\ Len(log'[Place(c)]) = Len(log[Place(c)]) + 1
        /\ log'[Place(c)][Len(log[Place(c)]) + 1] = x
        /\ \A i \in DOMAIN log[Place(c)] : log'[Place(c)][i] = log[Place(c)][i]
    BY <1>6, <2>1, <2>2
  <2>4. Last(log'[Place(c)]) = log'[Place(c)][Len(log'[Place(c)])]
    BY DEF Last
  <2> QED
    BY <1>6, <2>1, <2>3, <2>4
<1>10. kind[c].isolated => Place(c) = c
  BY DEF Place
<1>11. BranchInv(c)'
  <2>1. CASE ~kind[c].isolated
    BY <1>1, <1>2, <2>1 DEF BranchInv, AfterMerge
  <2>2. CASE kind[c].isolated /\ log' = log
    <3>1. \A o : Own(c, o)' = Own(c, o) /\ Tip(c)' = Tip(c) /\ Tip(Main)' = Tip(Main)
      BY <2>2 DEF Own, Tip
    <3>2. ASSUME IsPrefix(log[Main], log[c]), NEW o \in Objects PROVE Ahead(c, o)'
      <4>1. Ahead(c, o)
        BY <1>2, <2>2, <3>2 DEF CmdInv, BranchInv, InWorktree, Injecting
      <4> QED
        BY <1>2, <1>3, <3>1, <4>1 DEF Ahead
    <3> QED
      BY <1>1, <1>2, <2>2, <3>2 DEF CmdInv, BranchInv, InWorktree, Injecting, AfterMerge
  <2>3. CASE kind[c].isolated /\ log' = [log EXCEPT ![c] = Append(@, x)]
    <3>1. /\ log[c] # <<>>
          /\ \A i \in DOMAIN log[Main] : log[Main][i].by # c
          /\ \A i \in DOMAIN log[c] :
                log[c][i].by = c \/ (i \in DOMAIN log[Main] /\ log[c][i] = log[Main][i])
          /\ IsPrefix(log[Main], log[c]) => \A o \in Objects : Ahead(c, o)
          /\ Solo(c) => IsPrefix(log[Main], log[c])
      BY <1>2, <2>3 DEF CmdInv, BranchInv, InWorktree, Injecting
    <3>2. log'[Main] = log[Main] /\ Tip(Main)' = Tip(Main)
      BY <1>4, <1>5, <2>3 DEF Tip
    <3>3. /\ Tip(c)' = tree[c]
          /\ DOMAIN log'[c] = DOMAIN log[c] \cup {Len(log[c]) + 1}
          /\ log'[c][Len(log[c]) + 1] = x
          /\ \A i \in DOMAIN log[c] : log'[c][i] = log[c][i]
          /\ log'[c] \in Seq(Commits) /\ Len(log'[c]) = Len(log[c]) + 1
      <4>1. log'[c] = Append(log[c], x) /\ log[c] \in Seq(Commits)
        BY <1>4, <1>5, <1>9, <1>10, <2>3
      <4>2. log'[c] \in Seq(Commits) /\ Len(log'[c]) = Len(log[c]) + 1
        BY <1>6, <4>1
      <4>3. log' = [log EXCEPT ![Place(c)] = Append(@, x)] /\ Place(c) = c
        BY <1>10, <2>3
      <4>4. Tip(c)' = Last(log'[c]).meta
        BY DEF Tip
      <4> QED
        BY <1>9, <4>2, <4>3, <4>4
    <3>4. log'[c] # <<>>
      BY <1>4, <1>5, <3>3
    <3>5. \A i \in DOMAIN log'[c] :
             log'[c][i].by = c \/ (i \in DOMAIN log'[Main] /\ log'[c][i] = log'[Main][i])
      BY <1>6, <3>1, <3>2, <3>3
    <3>6. IsPrefix(log'[Main], log'[c]) <=> IsPrefix(log[Main], log[c])
      <4>1. /\ log[Main] \in Seq(Commits) /\ log[c] \in Seq(Commits)
            /\ Len(log[Main]) \in Nat /\ DOMAIN log[Main] = 1 .. Len(log[Main])
            /\ Len(log[c]) \in Nat /\ DOMAIN log[c] = 1 .. Len(log[c])
        BY <1>4, <1>5
      <4>2. ASSUME IsPrefix(log[Main], log[c]) PROVE IsPrefix(log'[Main], log'[c])
        <5>1. Len(log[Main]) <= Len(log[c]) /\ \A i \in DOMAIN log[Main] : log[Main][i] = log[c][i]
          BY <4>1, <4>2, PrefixByElements
        <5>2. Len(log[Main]) <= Len(log'[c]) /\ \A i \in DOMAIN log[Main] : log[Main][i] = log'[c][i]
          BY <3>3, <4>1, <5>1
        <5> QED
          BY <3>2, <3>3, <4>1, <5>2, PrefixByElements
      <4>3. ASSUME IsPrefix(log'[Main], log'[c]) PROVE IsPrefix(log[Main], log[c])
        <5>1. Len(log[Main]) <= Len(log'[c]) /\ \A i \in DOMAIN log[Main] : log[Main][i] = log'[c][i]
          BY <3>2, <3>3, <4>1, <4>3, PrefixByElements
        <5>2. Len(log[Main]) # Len(log[c]) + 1
          BY <1>6, <3>1, <3>3, <4>1, <5>1
        <5>3. Len(log[Main]) <= Len(log[c]) /\ \A i \in DOMAIN log[Main] : log[Main][i] = log[c][i]
          BY <3>3, <4>1, <5>1, <5>2
        <5> QED
          BY <4>1, <5>3, PrefixByElements
      <4> QED
        BY <4>2, <4>3
    <3>7. ASSUME IsPrefix(log'[Main], log'[c]), NEW o \in Objects PROVE Ahead(c, o)'
      <4>1. Ahead(c, o)
        BY <3>1, <3>6, <3>7
      <4> QED
        BY <1>2, <1>3, <3>2, <3>3, <4>1 DEF Ahead, Own
    <3> QED
      BY <1>1, <1>2, <3>1, <3>2, <3>4, <3>5, <3>6, <3>7 DEF BranchInv, AfterMerge
  <2> QED
    BY <1>7, <1>10, <2>1, <2>2, <2>3
<1>12. UpdateInv(c)'
  <2>1. ASSUME Solo(c), outcome'[c] = "ok", kind[c].write, kind[c].commits
        PROVE  c \in Tip(Place(c))'[kind[c].object]
    <3>1. c \in tree[Place(c)][kind[c].object]
      BY <1>2, <1>8, <2>1 DEF CmdInv, UpdateInv, Written
    <3> QED
      BY <1>1, <1>8, <1>9, <2>1, <3>1 DEF Tip
  <2>2. pc'[c] = "merge" => Place(c) = c
    BY <1>2, <1>10 DEF AfterMerge
  <2>3. pc'[c] = "finish" => Place(c) = Main
    BY <1>2 DEF AfterMerge, Place
  <2> QED
    BY <1>1, <1>2, <2>1, <2>2, <2>3 DEF UpdateInv, Written, AfterMerge
<1>13. CleanInv(c)'
  BY <1>1, <1>2 DEF CleanInv, AfterMerge
<1> QED
  BY <1>3, <1>11, <1>12, <1>13 DEF CmdInv, CopyInv

LEMMA FinalizeWorktreeOwn ==
    ASSUME TypeInv, OverlapInv, NEW c \in Commands, CmdInv(c), FinalizeWorktree(c)
    PROVE  CmdInv(c)'
<1>1. kind' = kind /\ met' = met /\ Solo(c)' = Solo(c)
  BY AfterAStep DEF Act, Hook, FinalizeWorktree, PushContext, Step
<1>2. pc[c] = "merge" /\ pc'[c] = "finish" /\ kind[c].isolated
  BY DEF FinalizeWorktree, Step, OverlapInv, TypeInv, TypeOK
<1>3. /\ c \in Places /\ Main \in Places /\ c # Main
      /\ log \in [Places -> Seq(Commits)] /\ log[c] \in Seq(Commits) /\ log[Main] \in Seq(Commits)
  BY TypesOfParts, CommandsAssumption DEF TypeInv, TypeOK
<1>4. ASSUME Solo(c), Written(c)', kind[c].commits
      PROVE  c \in Tip(Main)'[kind[c].object]
  <2>1. outcome[c] = "ok" /\ CanMerge(c)
    BY <1>4 DEF FinalizeWorktree, Ends, Written, TypeInv, TypeOK
  <2>2. c \in Tip(c)[kind[c].object] /\ IsPrefix(log[Main], log[c])
    BY <1>1, <1>2, <1>4, <2>1 DEF CmdInv, UpdateInv, Written, BranchInv, InWorktree, Injecting
  <2>3. log'[Main] = IF IsPrefix(log[c], log[Main]) THEN log[Main] ELSE log[c]
    BY <1>3, <2>1 DEF FinalizeWorktree
  <2>4. log'[Main] = log[c]
    BY <1>3, <2>2, <2>3, SamePrefixes
  <2> QED
    BY <2>2, <2>4 DEF Tip
<1>5. UpdateInv(c)'
  BY <1>1, <1>2, <1>4 DEF UpdateInv
<1> QED
  BY <1>2, <1>5, AtTheEnd

LEMMA LastStepsOwn ==
    ASSUME TypeInv, OverlapInv, NEW c \in Commands, CmdInv(c),
           WorktreeFails(c) \/ Finish(c) \/ Rollback(c) \/ Kill(c)
    PROVE  CmdInv(c)'
<1>1. pc'[c] \in {"leave", "done"}
  BY DEF WorktreeFails, Raises, Finish, Rollback, Kill, Step, AfterRaise, TypeInv, TypeOK
<1>2. pc'[c] = "leave" => changed'[c] = {}
  BY DEF WorktreeFails, Raises, Finish, Rollback, Kill, Step, dbVars, OverlapInv, TypeInv, TypeOK
<1> QED
  BY <1>1, <1>2, AtTheEnd

-----------------------------------------------------------------------------
\* The inductive invariant.
LEMMA InitIInv == Init => IInv
<1> SUFFICES ASSUME Init PROVE IInv
  OBVIOUS
<1>1. TypeInv
  BY InitTypeInv
<1>2. Running = {}
  BY DEF Init, Running
<1>3. ThreadInv
  BY <1>2 DEF Init, ThreadInv
<1>4. OverlapInv
  BY <1>2 DEF Init, OverlapInv
<1>5. ASSUME NEW c \in Commands PROVE CmdInv(c)
  <2>1. pc[c] = "new" /\ c # Main /\ c \in Places /\ Main \in Places
    BY CommandsAssumption DEF Init, Places
  <2>2. log[c] = <<>> /\ log[Main] = <<Initial>>
    BY <2>1 DEF Init
  <2>3. \A i \in DOMAIN log[Main] : log[Main][i].by # c
    BY <2>1, <2>2 DEF Initial
  <2>4. Loaded(c) = {}
    BY <2>1 DEF Loaded
  <2> QED
    BY <2>1, <2>2, <2>3, <2>4 DEF CmdInv, BranchInv, CopyInv, UpdateInv, CleanInv, InWorktree, Injecting
<1> QED
  BY <1>1, <1>3, <1>4, <1>5 DEF IInv, CmdInv

LEMMA ActTypeInv ==
    ASSUME TypeInv, OverlapInv, NEW c \in Commands, CmdInv(c), Act(c)
    PROVE  TypeInv'
<1>1. ASSUME FinalizeWorktree(c) PROVE log[c] # <<>>
  <2>1. pc[c] = "merge" /\ kind[c].isolated
    BY <1>1 DEF FinalizeWorktree, Step, OverlapInv
  <2> QED
    BY <2>1 DEF CmdInv, BranchInv, InWorktree, Injecting
<1> QED
  BY <1>1, PushContextType, PrepareWorktreeType, WorktreeFailsType, OpenDatabaseType, ConfigureType,
     ChecksType, TakeLockType, LoadType, OperateType, SaveDatabaseType, CommitType,
     FinalizeWorktreeType, FinishType, RollbackType, KillType DEF Act, Hook

LEMMA ActCmdInv ==
    ASSUME TypeInv, OverlapInv, NEW c \in Commands, CmdInv(c), Act(c)
    PROVE  CmdInv(c)'
  BY PushContextOwn, PrepareWorktreeOwn, ReadingStepsOwn, OperateOwn, SaveDatabaseOwn, CommitOwn,
     CommitRaisesOwn, FinalizeWorktreeOwn, LastStepsOwn DEF Act, Hook

LEMMA ActIInv ==
    ASSUME IInv, NEW c \in Commands, Act(c)
    PROVE  IInv'
<1>1. TypeInv /\ ThreadInv /\ OverlapInv /\ \A d \in Commands : CmdInv(d)
  BY DEF IInv, CmdInv
<1>2. TypeInv'
  BY <1>1, ActTypeInv
<1>3. ThreadInv' /\ OverlapInv'
  BY <1>1, ActThreadInv, ActOverlapInv
<1>4. ASSUME NEW d \in Commands PROVE CmdInv(d)'
  <2>1. CASE d = c
    BY <1>1, <2>1, ActCmdInv
  <2>2. CASE d # c
    BY <1>1, <1>2, <2>2, OthersInv DEF CmdInv
  <2> QED
    BY <2>1, <2>2
<1> QED
  BY <1>2, <1>3, <1>4 DEF IInv, CmdInv

LEMMA NextIInv == IInv /\ [Next]_vars => IInv'
<1> SUFFICES ASSUME IInv, [Next]_vars PROVE IInv'
  OBVIOUS
<1>1. CASE UNCHANGED vars
  <2> USE <1>1 DEF vars
  <2>1. TypeInv'
    BY DEF IInv, TypeInv, TypeOK
  <2>2. ThreadInv' /\ OverlapInv'
    BY DEF IInv, ThreadInv, OverlapInv, Running
  <2>3. ASSUME NEW d \in Commands
        PROVE  BranchInv(d)' /\ CopyInv(d)' /\ UpdateInv(d)' /\ CleanInv(d)'
    <3>1. /\ \A o : Own(d, o)' = Own(d, o)
          /\ Tip(d)' = Tip(d) /\ Tip(Main)' = Tip(Main) /\ Loaded(d)' = Loaded(d)
          /\ Chain(d)' = Chain(d) /\ Solo(d)' = Solo(d) /\ Place(d)' = Place(d)
      BY DEF Own, Tip, Loaded, Chain, Solo, Place
    <3>2. \A o \in Objects : Ahead(d, o)' = Ahead(d, o)
      BY <3>1 DEF Ahead
    <3>3. BranchInv(d) /\ CopyInv(d) /\ UpdateInv(d) /\ CleanInv(d)
      BY DEF IInv
    <3>4. BranchInv(d)'
      BY <3>1, <3>2, <3>3 DEF BranchInv
    <3>5. CopyInv(d)' /\ UpdateInv(d)' /\ CleanInv(d)'
      BY <3>1, <3>3 DEF CopyInv, UpdateInv, CleanInv, Written
    <3> QED
      BY <3>4, <3>5
  <2> QED
    BY <2>1, <2>2, <2>3 DEF IInv
<1>2. CASE \E c \in Commands : Act(c)
  BY <1>2, ActIInv
<1> QED
  BY <1>1, <1>2 DEF Next, Act

LEMMA Invariance == Spec => []IInv
  BY InitIInv, NextIInv, PTL DEF Spec

\* The state of the commands, of their threads and of their working trees and
\* branches is what Command.execute and its hooks may find.
THEOREM CommandsAreTyped == Spec => []TypeOK
<1>1. IInv => TypeOK
  BY DEF IInv, TypeInv
<1> QED
  BY <1>1, Invariance, PTL

\* However a command of the service ends, at whatever hook, the next one finds the
\* thread without injector and without project context, unless saving the database
\* or committing raised.
THEOREM ThreadsAreLeftClean == Spec => []ThreadsStayUsable
<1>1. ASSUME IInv, NEW t \in Threads \ {Thread(c) : c \in Cli}, Idle(t), t \notin spoilt
      PROVE  ~injector[t] /\ stack[t] = <<>>
  <2>1. \A c \in Commands : pc[c] \in Injecting => c \in Running
    BY DEF Running, Injecting
  <2>2. injector[t] => \E c \in Commands : Thread(c) = t /\ pc[c] \in Injecting
    BY <1>1 DEF IInv, ThreadInv
  <2>3. ~injector[t]
    BY <1>1, <2>1, <2>2 DEF Idle
  <2>4. DOMAIN stack[t] = {}
    BY <1>1 DEF IInv, ThreadInv, Idle
  <2>5. stack[t] \in Seq({"base", "worktree", "database"} \X Commands)
    BY <1>1 DEF IInv, TypeInv, TypeOK
  <2> QED
    BY <2>3, <2>4, <2>5, NothingIn
<1>2. IInv => ThreadsStayUsable
  BY <1>1 DEF ThreadsStayUsable
<1> QED
  BY <1>2, Invariance, PTL

\* Saving the database, merging a worktree or rolling back loses an update only
\* of a command that a chain of overlaps joins to the one that does it.
THEOREM OverlapsLoseUpdates == Spec => OnlyOverlapsLoseUpdates
<1>1. ASSUME IInv, [Next]_vars, NEW o \in Objects, NEW u \in tree[Main][o] \ tree'[Main][o]
      PROVE  \E c \in Commands :
                 pc'[c] # pc[c] /\ met[c] # {} /\ u \in Chain(c) \cup {Version}
  <2>1. PICK c \in Commands : Act(c)
    <3>1. ~UNCHANGED vars
      BY DEF vars
    <3> QED
      BY <1>1, <3>1 DEF Next, Act
  <2>2. pc'[c] # pc[c]
    BY <1>1, <2>1, StepOrStart DEF IInv
  <2>3. /\ tree[Main][o] \ tree'[Main][o] \subseteq Chain(c) \cup {Version}
        /\ Solo(c) => tree[Main][o] \subseteq tree'[Main][o]
    BY <1>1, <2>1, TreeOfMain DEF IInv
  <2> QED
    BY <2>2, <2>3 DEF Solo
<1>2. IInv /\ [Next]_vars =>
        [\A o \in Objects : \A u \in tree[Main][o] \ tree'[Main][o] :
            \E c \in Commands :
                pc'[c] # pc[c] /\ met[c] # {} /\ u \in Chain(c) \cup {Version}]_vars
  BY <1>1
<1> QED
  BY <1>2, Invariance, PTL DEF Spec, OnlyOverlapsLoseUpdates

\* A command that is alone has its update in the branch of the project when it ends
\* well, and if it requires a clean repository commits nothing but that.
THEOREM CommandsAloneCommitTheirOwn == Spec => CommandsCommitTheirOwn
<1> DEFINE A(c) ==
              /\ pc[c] = "finish" /\ pc'[c] # "finish" /\ outcome'[c] = "ok" /\ kind[c].write /\ kind[c].commits =>
                    c \in Tip(Main)[kind[c].object]
              /\ pc'[c] # pc[c] /\ log'[Main] # log[Main] /\ kind[c].clean =>
                    \A o \in Objects : Last(log'[Main]).meta[o] \ Tip(Main)[o] \subseteq {c, Version}
<1>1. ASSUME IInv, [Next]_vars, NEW c \in Commands, met[c] = {}
      PROVE  A(c)
  <2>1. TypeInv /\ OverlapInv /\ CmdInv(c)
    BY <1>1 DEF IInv, CmdInv
  <2>2. CASE pc'[c] = pc[c]
    BY <2>2
  <2>3. CASE pc'[c] # pc[c]
    <3>1. Act(c)
      BY <1>1, <2>1, <2>3, StepOrStart DEF Next, Act, vars
    <3>2. ASSUME pc[c] = "finish", outcome'[c] = "ok", kind[c].write, kind[c].commits
          PROVE  c \in Tip(Main)[kind[c].object]
      <4>1. outcome[c] = "ok"
        BY <2>1, <3>1, <3>2 DEF Act, Hook, PushContext, PrepareWorktree, WorktreeFails, OpenDatabase,
           Configure, Checks, TakeLock, Load, Operate, SaveDatabase, Commit, FinalizeWorktree, Finish,
           Rollback, Kill, Step, Raises, Ends, TypeInv, TypeOK
      <4> QED
        BY <1>1, <2>1, <3>2, <4>1 DEF CmdInv, UpdateInv, Solo, Written
    <3>3. ASSUME log'[Main] # log[Main], kind[c].clean, NEW o \in Objects
          PROVE  Last(log'[Main]).meta[o] \ Tip(Main)[o] \subseteq {c, Version}
      <4>1. /\ Main \in Places /\ c \in Places /\ c # Main
            /\ log \in [Places -> Seq(Commits)] /\ log[Main] \in Seq(Commits)
        BY <2>1, TypesOfParts, CommandsAssumption DEF TypeInv, TypeOK
      <4>2. CASE Commit(c)
        <5> DEFINE x == [by |-> c, meta |-> tree[Place(c)]]
        <5>1. pc[c] = "commit" /\ log' = [log EXCEPT ![Place(c)] = Append(@, x)]
          BY <3>3, <4>2 DEF Commit, Step
        <5>2. Place(c) = Main /\ ~kind[c].isolated
          BY <3>3, <4>1, <5>1 DEF Place
        <5>3. tree[Main][o] \subseteq Own(c, o)
          BY <1>1, <2>1, <3>3, <5>1, <5>2 DEF CmdInv, CleanInv, Solo
        <5>4. Last(log'[Main]) = x
          BY <4>1, <5>1, <5>2 DEF Last
        <5> QED
          BY <5>2, <5>3, <5>4 DEF Own
      <4>3. CASE FinalizeWorktree(c)
        <5>1. pc[c] = "merge" /\ kind[c].isolated
          BY <2>1, <4>3 DEF FinalizeWorktree, Step, OverlapInv
        <5>2. log'[Main] = log[c]
          BY <3>3, <4>1, <4>3 DEF FinalizeWorktree, gitVars
        <5>3. Ahead(c, o)
          BY <1>1, <2>1, <5>1 DEF CmdInv, BranchInv, InWorktree, Injecting, Solo
        <5> QED
          BY <5>2, <5>3 DEF Ahead, Own, Tip
      <4>4. CASE PrepareWorktree(c)
        BY <3>3, <4>1, <4>4 DEF PrepareWorktree
      <4>5. ASSUME ~Commit(c), ~FinalizeWorktree(c), ~PrepareWorktree(c) PROVE log' = log
        BY <3>1, <4>5 DEF Act, Hook, gitVars, PushContext, WorktreeFails, OpenDatabase, Configure,
           Checks, TakeLock, Load, Operate, SaveDatabase, Finish, Rollback, Kill
      <4> QED
        BY <3>3, <4>2, <4>3, <4>4, <4>5
    <3> QED
      BY <3>2, <3>3
  <2> QED
    BY <2>2, <2>3
<1>2. IInv /\ [Next]_vars => [\A c \in Commands : met[c] = {} => A(c)]_vars
  BY <1>1
<1> QED
  BY <1>2, Invariance, PTL DEF Spec, CommandsCommitTheirOwn

\* The branch of the project only grows, and that of a worktree is given up only
\* with its commits on the branch of the project.
THEOREM NoCommitIsLost == Spec => CommitsAreKept
<1>1. ASSUME IInv, Next, NEW p \in Places, NEW i \in DOMAIN log[p]
      PROVE  log[p][i] \in Range(log'[p]) \cup Range(log'[Main])
  <2>1. CASE UNCHANGED vars
    BY <2>1 DEF vars, Range
  <2>2. CASE \E c \in Commands : Act(c)
    <3>1. PICK c \in Commands : Act(c)
      BY <2>2
    <3>2. TypeInv /\ OverlapInv /\ CmdInv(c)
      BY <1>1 DEF IInv, CmdInv
    <3>3. /\ DOMAIN log[Main] \subseteq DOMAIN log'[Main]
          /\ \A j \in DOMAIN log[Main] : log'[Main][j] = log[Main][j]
      BY <3>1, <3>2, BranchGrows DEF CmdInv
    <3>4. CASE p = Main
      BY <3>3, <3>4 DEF Range
    <3>5. CASE p # Main /\ p # c
      <4>1. p \in Commands
        BY <3>5 DEF Places
      <4>2. log'[p] = log[p]
        BY <3>1, <3>2, <3>5, <4>1, OthersKeepTheirs
      <4> QED
        BY <4>2 DEF Range
    <3>6. CASE p = c /\ p # Main
      <4>1. /\ Main \in Places /\ c \in Places
            /\ log \in [Places -> Seq(Commits)] /\ log[Main] \in Seq(Commits) /\ log[c] \in Seq(Commits)
        BY <3>2, TypesOfParts DEF TypeInv, TypeOK
      <4>2. CASE Commit(c)
        <5> DEFINE x == [by |-> c, meta |-> tree[Place(c)]]
        <5>1. log'[c] = log[c] \/ log'[c] = Append(log[c], x)
          BY <4>1, <4>2 DEF Commit, Place
        <5> HIDE DEF x
        <5>2. i \in DOMAIN log'[c] /\ log'[c][i] = log[c][i]
          BY <3>6, <4>1, <5>1
        <5> QED
          BY <3>6, <5>2 DEF Range
      <4>3. CASE FinalizeWorktree(c)
        <5>1. CASE ~CanMerge(c)
          BY <3>6, <4>3, <5>1 DEF FinalizeWorktree, gitVars, Range
        <5>2. CASE CanMerge(c)
          <6>1. log'[Main] = IF IsPrefix(log[c], log[Main]) THEN log[Main] ELSE log[c]
            BY <3>6, <4>1, <4>3, <5>2 DEF FinalizeWorktree
          <6>2. i \in DOMAIN log'[Main] /\ log'[Main][i] = log[c][i]
            BY <3>6, <4>1, <6>1, PrefixByElements
          <6> QED
            BY <3>6, <6>2 DEF Range
        <5> QED
          BY <5>1, <5>2
      <4>4. CASE PrepareWorktree(c)
        <5>1. log[c] = <<>>
          BY <3>2, <4>4 DEF PrepareWorktree, Step, CmdInv, BranchInv
        <5> QED
          BY <3>6, <5>1
      <4>5. CASE ~Commit(c) /\ ~FinalizeWorktree(c) /\ ~PrepareWorktree(c)
        <5>1. log' = log
          BY <3>1, <4>5 DEF Act, Hook, gitVars, PushContext, WorktreeFails, OpenDatabase, Configure,
             Checks, TakeLock, Load, Operate, SaveDatabase, Finish, Rollback, Kill
        <5> QED
          BY <5>1 DEF Range
      <4> QED
        BY <4>2, <4>3, <4>4, <4>5
    <3> QED
      BY <3>4, <3>5, <3>6
  <2> QED
    BY <1>1, <2>1, <2>2 DEF Next, Act
<1>2. IInv /\ [Next]_vars =>
        [\A p \in Places : \A i \in DOMAIN log[p] :
            log[p][i] \in Range(log'[p]) \cup Range(log'[Main])]_vars
  BY <1>1
<1> QED
  BY <1>2, Invariance, PTL DEF Spec, CommitsAreKept
=============================================================================
