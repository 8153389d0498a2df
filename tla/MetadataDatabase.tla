-------------------------- MODULE MetadataDatabase --------------------------
(***************************************************************************)
(* The object database of a project (class Database): persistent objects,  *)
(* each in a file of its own named by its oid, which refer to each other.  *)
(* The root and the index trees change; items (plans, activities,          *)
(* datasets) are made once and put into trees; the project is replaced or   *)
(* changed in place.  The value of an object is the set of the objects it  *)
(* refers to.  One process uses the database at a time; a crash may come   *)
(* between any two files of a commit or in the middle of one.              *)
(***************************************************************************)
EXTENDS Naturals, Sequences, FiniteSets, SequencesExt

CONSTANTS Trees, Items,     \* oids
          Root, Project,
          MaxFaults

Oids == Trees \cup Items \cup {Project}

ASSUME DatabaseAssumption ==
    /\ Root \in Trees
    /\ Trees \cap Items = {} /\ Project \notin Trees \cup Items
    /\ IsFiniteSet(Oids)
    /\ MaxFaults \in Nat

VARIABLES file,         \* whether an object has a file: "none", "whole" or "torn"
          disk,         \* what is in it
          mem,          \* state of the object of an oid: _p_state and _p_serial
          val,          \* its value, unless it is a ghost
          jar,          \* objects that know the database: _p_jar
          cache,        \* _cache: objects that are found by their oid
          queue,        \* _objects_to_commit, the last one is popped first
          committing,
          failed,       \* history: storing an object raised in this process
          faults        \* commits that raised or were killed

vars == <<file, disk, mem, val, jar, cache, queue, committing, failed, faults>>
memVars == <<mem, val, jar, cache, queue>>
historyVars == <<failed, faults>>

diskVars == <<file, disk>>
IsFile(o) == file[o] = "whole"
Loaded(o) == mem[o] \in {"uptodate", "changed", "new"}
Unsaved(o) == mem[o] \in {"changed", "new"}

\* A dict keeps the place of a key that is set again.
Registered(objects) ==
    queue \o SetToSeq(objects \ Range(queue))
Without(o) ==
    IF o \in Range(queue) THEN RemoveAt(queue, CHOOSE i \in DOMAIN queue : queue[i] = o) ELSE queue

\* What referring to objects by their oid does: known ones are used, others
\* become ghosts in the cache.
Ghosts(objects) == {o \in objects : mem[o] = "none"}
WithGhosts(m, objects) == [o \in Oids |-> IF o \in Ghosts(objects) THEN "ghost" ELSE m[o]]

\* _initialize_root on an empty directory, or on the files there are.
Open ==
    LET known == disk[Root]
    IN  /\ mem' = [o \in Oids |-> IF o = Root THEN IF file[Root] = "none" THEN "new" ELSE "uptodate"
                                  ELSE IF o \in known THEN "ghost" ELSE "none"]
        /\ val' = [o \in Oids |-> IF o = Root THEN known ELSE {}]
        /\ jar' = known \cup {Root}
        /\ cache' = IF file[Root] = "none" THEN {} ELSE known \cup {Root}
        /\ queue' = IF file[Root] = "none" THEN <<Root>> ELSE <<>>
        /\ committing' = FALSE
        /\ failed' = FALSE

Init ==
    /\ file = [o \in Oids |-> "none"]
    /\ disk = [o \in Oids |-> {}]
    /\ mem = [o \in Oids |-> IF o = Root THEN "new" ELSE "none"]
    /\ val = [o \in Oids |-> {}]
    /\ jar = {Root}
    /\ cache = {}
    /\ queue = <<Root>>
    /\ committing = FALSE
    /\ failed = FALSE /\ faults = 0

-----------------------------------------------------------------------------
Working == ~committing

\* A tree or an item is constructed; the database does not know of it.  The id
\* of an item is new.
Create(o, references) ==
    /\ Working
    /\ mem[o] = "none"
    /\ o \in Items => file[o] = "none" /\ \A r \in Oids : o \notin disk[r]
    /\ \A r \in references : r \in Items /\ mem[r] # "none"
    /\ o \in Trees => references = {}
    /\ mem' = [mem EXCEPT ![o] = "new"]
    /\ val' = [val EXCEPT ![o] = references]
    /\ UNCHANGED <<diskVars, jar, cache, queue, committing, historyVars>>

\* Database.get of an object that is not in memory.
Get(o) ==
    /\ Working
    /\ o \in Items /\ mem[o] = "none" /\ IsFile(o)
    /\ mem' = [WithGhosts(mem, disk[o]) EXCEPT ![o] = "uptodate"]
    /\ val' = [val EXCEPT ![o] = disk[o]]
    /\ jar' = jar \cup {o} \cup Ghosts(disk[o])
    /\ cache' = cache \cup {o} \cup Ghosts(disk[o])
    /\ UNCHANGED <<diskVars, queue, committing, historyVars>>

\* Database.setstate: a ghost that is used reads its file.
SetState(o) ==
    /\ Working
    /\ mem[o] = "ghost" /\ IsFile(o)
    /\ mem' = [WithGhosts(mem, disk[o]) EXCEPT ![o] = "uptodate"]
    /\ val' = [val EXCEPT ![o] = disk[o]]
    /\ jar' = jar \cup Ghosts(disk[o])
    /\ cache' = cache \cup Ghosts(disk[o])
    /\ UNCHANGED <<diskVars, queue, committing, historyVars>>

ChangeToNothing(o, value) ==
    /\ val' = [val EXCEPT ![o] = {value}]
    /\ UNCHANGED <<mem, queue>>

\* persistent.Persistent registers an object with its jar when it becomes
\* changed, and only then.
Change(o, value) ==
    /\ val' = [val EXCEPT ![o] = value]
    /\ IF o \in jar /\ mem[o] # "changed"
       THEN mem' = [mem EXCEPT ![o] = "changed"] /\ queue' = Registered({o})
       ELSE UNCHANGED <<mem, queue>>

\* Index.add, add_index, add_root_object; Index.remove and pop.  The root has
\* trees, other trees have items.  add_root_object tells the tree of the
\* database, add_index does not.
Members(t) == IF t = Root THEN Trees \ {Root} ELSE Items
Insert(t, o) ==
    /\ Working
    /\ Loaded(t) /\ o \in Members(t) /\ o \notin val[t] /\ mem[o] # "none"
    /\ Change(t, val[t] \cup {o})
    /\ \/ UNCHANGED jar
       \/ t = Root /\ jar' = jar \cup {o}
    /\ UNCHANGED <<diskVars, cache, committing, historyVars>>

Discard(t, o) ==
    /\ Working
    /\ t # Root /\ Loaded(t) /\ o \in val[t]
    /\ Change(t, val[t] \ {o})
    /\ UNCHANGED <<diskVars, jar, cache, committing, historyVars>>

\* update_project: remove_root_object forgets the object that is there, then
\* another one, or the same, becomes a member of the root under its name.
WithRoot(objects) == IF mem[Root] = "changed" THEN objects ELSE objects \o SetToSeq({Root} \ Range(objects))
UpdateProject(same) ==
    LET registers == same /\ mem[Project] = "uptodate"
    IN  /\ Working
        /\ Loaded(Root)
        /\ same => Project \in val[Root] /\ Loaded(Project)
        /\ queue' = WithRoot(Without(Project)) \o IF registers THEN <<Project>> ELSE <<>>
        /\ val' = [val EXCEPT ![Root] = @ \cup {Project}]
        /\ mem' = [mem EXCEPT ![Root] = "changed",
                              ![Project] = IF ~same THEN "new" ELSE IF registers THEN "changed" ELSE @]
        /\ jar' = jar \cup {Project}
        /\ cache' = cache \ {Project}
        /\ UNCHANGED <<diskVars, committing, historyVars>>

\* An attribute of the project is set.
ChangeProject ==
    /\ Working
    /\ Loaded(Project)
    /\ Change(Project, {})
    /\ UNCHANGED <<diskVars, jar, cache, committing, historyVars>>

-----------------------------------------------------------------------------
\* Database.commit
BeginCommit ==
    /\ Working /\ queue # <<>>
    /\ committing' = TRUE
    /\ UNCHANGED <<diskVars, memVars, historyVars>>

\* popitem takes the object that was registered last out of the queue.
Peeked == queue
Popped == Front(queue)

\* The writer registers what the object refers to and is not saved: new
\* objects get into the queue only this way.
ToRegisterChanged(o) == {r \in val[o] : mem[r] = "changed"}
ToRegisterNew(o) == {r \in val[o] : mem[r] = "new" /\ r \notin jar}
ToRegister(o) == {r \in val[o] : Unsaved(r)}
Queued(o) ==
    /\ jar' = jar \cup ToRegister(o)
    /\ queue' = Popped \o SetToSeq(ToRegister(o) \ Range(Popped))

StoreObject ==
    /\ committing /\ queue # <<>>
    /\ LET o == Last(queue)
       IN  IF Unsaved(o)
           THEN /\ Queued(o)
                /\ disk' = [disk EXCEPT ![o] = val[o]]
                /\ file' = [file EXCEPT ![o] = "whole"]
                /\ cache' = cache \cup {o}
                /\ mem' = [mem EXCEPT ![o] = "uptodate"]
           ELSE queue' = Popped /\ UNCHANGED <<diskVars, jar, cache, mem>>
    /\ UNCHANGED <<val, committing, historyVars>>

\* Storage.store raises: the object has left the queue and is still changed.
StoreFails ==
    /\ faults < MaxFaults /\ faults' = faults + 1
    /\ committing /\ queue # <<>> /\ Unsaved(Last(queue))
    /\ Queued(Last(queue))
    /\ committing' = FALSE
    /\ failed' = TRUE
    /\ UNCHANGED <<diskVars, mem, val, cache>>

EndCommit ==
    /\ committing /\ queue = <<>>
    /\ committing' = FALSE
    /\ UNCHANGED <<diskVars, memVars, historyVars>>

\* The next command opens the database; what was not committed is dropped.
Reopen ==
    /\ Working /\ file[Root] # "torn"
    /\ Open
    /\ UNCHANGED <<diskVars, faults>>

\* The process is killed, perhaps while it writes the file of an object.
Crash ==
    /\ faults < MaxFaults /\ faults' = faults + 1
    /\ committing /\ queue # <<>>
    /\ \/ UNCHANGED file
       \/ Unsaved(Last(queue)) /\ Last(queue) # Root /\ file' = [file EXCEPT ![Last(queue)] = "torn"]
    /\ UNCHANGED disk
    /\ Open

Use ==
    \/ \E o \in Trees \cup Items : \E references \in SUBSET Items : Create(o, references)
    \/ \E o \in Oids : Get(o) \/ SetState(o)
    \/ \E t \in Trees : \E o \in Oids : Insert(t, o) \/ Discard(t, o)
    \/ \E same \in BOOLEAN : UpdateProject(same)
    \/ ChangeProject

Next == Use \/ BeginCommit \/ StoreObject \/ StoreFails \/ EndCommit \/ Reopen \/ Crash
Spec == Init /\ [][Next]_vars
FairSpec == Spec /\ WF_vars(StoreObject \/ EndCommit)

-----------------------------------------------------------------------------
TypeOK ==
    /\ file \in [Oids -> {"none", "whole", "torn"}]
    /\ disk \in [Oids -> SUBSET Oids]
    /\ mem \in [Oids -> {"none", "ghost", "uptodate", "changed", "new"}]
    /\ val \in [Oids -> SUBSET Oids]
    /\ jar \subseteq Oids /\ cache \subseteq Oids
    /\ queue \in Seq(Oids)
    /\ committing \in BOOLEAN /\ failed \in BOOLEAN
    /\ faults \in 0..MaxFaults

\* What can be reached from the root, through trees and items.
InTrees == UNION {val[t] : t \in val[Root]}
Reachable == {Root} \cup val[Root] \cup InTrees \cup UNION {val[o] : o \in InTrees}

\* When the queue is empty everything that can be reached in memory is on disk
\* as it is in memory: each change was registered, directly or through a new
\* object that refers to it, however the changes came about.
CommitSavesEverything ==
    Working /\ queue = <<>> /\ ~failed =>
        \A o \in Reachable : ~Unsaved(o) /\ (mem[o] = "uptodate" => disk[o] = val[o])

\* Unless storing failed or a crash came into a commit, what is on disk is
\* complete between commits: no object refers to one that has no file.  Within
\* a commit an object is written before the new ones it refers to.
NothingDangles ==
    Working /\ faults = 0 =>
        \A o \in Oids : IsFile(o) => \A r \in disk[o] : IsFile(r)

\* A commit ends, although storing objects registers others.
CommitEnds == committing ~> ~committing
=============================================================================
