----------------------- MODULE MetadataDatabase_proofs -----------------------
(***************************************************************************)
(* Proofs about the metadata database, for every set of oids and any number *)
(* of faults: types, that a commit leaves nothing out, and that what is on  *)
(* disk is complete between commits.                                       *)
(***************************************************************************)
EXTENDS MetadataDatabase, FiniteSetTheorems, FunctionTheorems, TLAPS

InQueue(o) == o \in Range(queue)

\* An object that is up to date is in its file; ghosts have no value yet, and an
\* object that may be registered knows the database.
MemoryInv ==
    /\ \A o \in Oids : mem[o] = "uptodate" => IsFile(o) /\ disk[o] = val[o]
    /\ \A o \in Oids : mem[o] \in {"ghost", "uptodate", "changed"} => o \in jar
    /\ \A o \in Oids : InQueue(o) => o \in jar
    /\ \A o \in Oids : mem[o] \in {"none", "ghost"} => val[o] = {}
    /\ \A o, r \in Oids : o \in val[r] => mem[o] # "none"

\* The root is in memory from the start; only it refers to trees and the project.
RootInv ==
    /\ Root \in jar /\ mem[Root] \in {"new", "uptodate", "changed"}
    /\ file[Root] # "torn" /\ (file[Root] = "none" => disk[Root] = {})
    /\ \A o \in Trees \cup {Project}, r \in Oids : o \in val[r] \cup disk[r] => r = Root

\* What is not saved is registered, or is referred to by something that is not
\* saved; the one change that is not registered is of a project that was replaced
\* by itself, to which the root refers.
QueueInv ==
    ~failed =>
        /\ mem[Root] = "new" => InQueue(Root)
        /\ \A o \in Oids : mem[o] = "changed" => InQueue(o) \/ (o = Project /\ Project \in val[Root])
        /\ \A o, r \in Oids : mem[r] = "uptodate" /\ o \in val[r] /\ Unsaved(o) => InQueue(o)
        /\ \A o \in Items, r \in Oids : mem[o] = "new" /\ o \in disk[r] => InQueue(o)

\* What an object on disk refers to has a file, or gets one within this commit.
DiskInv ==
    faults = 0 =>
        /\ ~failed
        /\ \A o, r \in Oids : IsFile(o) /\ r \in disk[o] =>
               IsFile(r) \/ (committing /\ InQueue(r) /\ Unsaved(r))
        /\ \A o \in Oids : mem[o] \in {"ghost", "uptodate"} => IsFile(o)

IInv == TypeOK /\ MemoryInv /\ RootInv /\ QueueInv /\ DiskInv

-----------------------------------------------------------------------------
\* Sequences: what concatenation, the parts of a sequence and the sequence of a
\* set hold.
LEMMA RangeOfConcatenation ==
    ASSUME NEW S, NEW s \in Seq(S), NEW t \in Seq(S)
    PROVE  s \o t \in Seq(S) /\ Range(s \o t) = Range(s) \cup Range(t)
<1>1. /\ Len(s) \in Nat /\ Len(t) \in Nat /\ DOMAIN s = 1 .. Len(s) /\ DOMAIN t = 1 .. Len(t)
      /\ DOMAIN (s \o t) = 1 .. (Len(s) + Len(t))
      /\ \A i \in 1 .. Len(s) : (s \o t)[i] = s[i]
      /\ \A i \in 1 .. Len(t) : (s \o t)[Len(s) + i] = t[i]
  OBVIOUS
<1>2. ASSUME NEW i \in DOMAIN (s \o t) PROVE (s \o t)[i] \in Range(s) \cup Range(t)
  <2>1. CASE i <= Len(s)
    <3>1. i \in DOMAIN s /\ (s \o t)[i] = s[i]
      BY <1>1, <2>1
    <3> QED
      BY <3>1 DEF Range
  <2>2. CASE i > Len(s)
    <3>1. i - Len(s) \in 1 .. Len(t) /\ i = Len(s) + (i - Len(s))
      BY <1>1, <2>2
    <3>2. (s \o t)[i] = t[i - Len(s)]
      BY <1>1, <3>1
    <3> QED
      BY <1>1, <3>1, <3>2 DEF Range
  <2> QED
    BY <1>1, <2>1, <2>2
<1>3. \A i \in DOMAIN s : s[i] \in Range(s \o t)
  <2>1. \A i \in DOMAIN s : i \in DOMAIN (s \o t) /\ (s \o t)[i] = s[i]
    BY <1>1
  <2> QED
    BY <2>1 DEF Range
<1>4. \A i \in DOMAIN t : t[i] \in Range(s \o t)
  <2>1. \A i \in DOMAIN t : Len(s) + i \in DOMAIN (s \o t) /\ (s \o t)[Len(s) + i] = t[i]
    BY <1>1
  <2> QED
    BY <2>1 DEF Range
<1>5. Range(s \o t) \subseteq Range(s) \cup Range(t)
  BY <1>2 DEF Range
<1>6. Range(s) \cup Range(t) \subseteq Range(s \o t)
  BY <1>3, <1>4 DEF Range
<1>7. s \o t \in Seq(S)
  OBVIOUS
<1> QED
  BY <1>5, <1>6, <1>7

LEMMA FrontAndLast ==
    ASSUME NEW S, NEW s \in Seq(S), s # <<>>
    PROVE  /\ Front(s) \in Seq(S) /\ Last(s) \in S
           /\ Range(s) = Range(Front(s)) \cup {Last(s)}
<1>1. Len(s) \in Nat /\ Len(s) > 0 /\ DOMAIN s = 1 .. Len(s) /\ s[Len(s)] \in S
  OBVIOUS
<1>2. Front(s) \in Seq(S)
  BY <1>1 DEF Front
<1>3. DOMAIN Front(s) = 1 .. (Len(s) - 1) /\ \A i \in 1 .. (Len(s) - 1) : Front(s)[i] = s[i]
  BY <1>1 DEF Front
<1>4. ASSUME NEW x \in Range(s) PROVE x \in Range(Front(s)) \cup {Last(s)}
  <2>1. PICK i \in DOMAIN s : s[i] = x
    BY DEF Range
  <2>2. CASE i = Len(s)
    BY <2>1, <2>2 DEF Last
  <2>3. CASE i # Len(s)
    <3>1. i \in DOMAIN Front(s) /\ Front(s)[i] = x
      BY <1>1, <1>3, <2>1, <2>3
    <3> QED
      BY <3>1 DEF Range
  <2> QED
    BY <2>2, <2>3
<1>5. Range(Front(s)) \subseteq Range(s)
  <2>1. \A i \in DOMAIN Front(s) : i \in DOMAIN s /\ Front(s)[i] = s[i]
    BY <1>1, <1>3
  <2> QED
    BY <2>1 DEF Range
<1>6. Last(s) \in Range(s) /\ Last(s) \in S
  BY <1>1 DEF Last, Range
<1> QED
  BY <1>2, <1>4, <1>5, <1>6

LEMMA SequenceOfSet ==
    ASSUME NEW S, IsFiniteSet(S)
    PROVE  SetToSeq(S) \in Seq(S) /\ Range(SetToSeq(S)) = S
<1> DEFINE n == Cardinality(S)
<1>1. n \in Nat /\ ExistsBijection(1 .. n, S)
  BY FS_CardinalityType
<1>2. PICK g : g \in Bijection(1 .. n, S)
  BY <1>1, Fun_ExistsBij
<1>3. g \in [1 .. n -> S] /\ \A a, b \in 1 .. n : g[a] = g[b] => a = b
  BY <1>2, Fun_BijectionProperties
<1>4. IsInjective(g)
  BY <1>3 DEF IsInjective
<1>5. SetToSeq(S) \in [1 .. n -> S] /\ IsInjective(SetToSeq(S))
  BY <1>3, <1>4 DEF SetToSeq
<1>6. SetToSeq(S) \in Injection(1 .. n, S)
  BY <1>5, Fun_IsInj DEF IsInjective
<1>7. Cardinality(1 .. n) = n
  BY <1>1, FS_Interval
<1>8. SetToSeq(S) \in Surjection(1 .. n, S)
  BY <1>6, <1>7, FS_Injection
<1>9. Range(SetToSeq(S)) = S
  BY <1>8, Fun_SurjectionProperties
<1> QED
  BY <1>1, <1>5, <1>9

-----------------------------------------------------------------------------
\* The queue of objects to commit.
LEMMA SequenceOfOids ==
    ASSUME NEW S \in SUBSET Oids
    PROVE  SetToSeq(S) \in Seq(Oids) /\ Range(SetToSeq(S)) = S
<1>1. IsFiniteSet(S)
  BY DatabaseAssumption, FS_Subset
<1>2. SetToSeq(S) \in Seq(S) /\ Range(SetToSeq(S)) = S
  BY <1>1, SequenceOfSet
<1> QED
  BY <1>2

LEMMA RegisteredQueue ==
    ASSUME TypeOK, NEW S \in SUBSET Oids
    PROVE  Registered(S) \in Seq(Oids) /\ Range(Registered(S)) = Range(queue) \cup S
<1> DEFINE new == SetToSeq(S \ Range(queue))
<1>1. queue \in Seq(Oids)
  BY DEF TypeOK
<1>2. S \ Range(queue) \in SUBSET Oids
  OBVIOUS
<1>3. new \in Seq(Oids) /\ Range(new) = S \ Range(queue)
  BY <1>2, SequenceOfOids
<1>4. Registered(S) = queue \o new
  BY DEF Registered
<1> HIDE DEF new
<1>5. queue \o new \in Seq(Oids) /\ Range(queue \o new) = Range(queue) \cup Range(new)
  BY <1>1, <1>3, RangeOfConcatenation
<1> QED
  BY <1>3, <1>4, <1>5

LEMMA QueueWithout ==
    ASSUME TypeOK, NEW o
    PROVE  /\ Without(o) \in Seq(Oids)
           /\ Range(Without(o)) \subseteq Range(queue)
           /\ Range(queue) \ {o} \subseteq Range(Without(o))
<1>1. queue \in Seq(Oids)
  BY DEF TypeOK
<1>2. CASE o \notin Range(queue)
  BY <1>1, <1>2 DEF Without
<1>3. CASE o \in Range(queue)
  <2> DEFINE n == CHOOSE i \in DOMAIN queue : queue[i] = o
             front == SubSeq(queue, 1, n - 1)
             back == SubSeq(queue, n + 1, Len(queue))
  <2>1. n \in DOMAIN queue /\ queue[n] = o
    <3>1. \E i \in DOMAIN queue : queue[i] = o
      BY <1>3 DEF Range
    <3> QED
      BY <3>1
  <2>2. Without(o) = front \o back
    BY <1>3 DEF Without, RemoveAt
  <2> HIDE DEF n
  <2>3. n \in 1 .. Len(queue) /\ Len(queue) \in Nat
    BY <1>1, <2>1
  <2>4. /\ front \in Seq(Oids) /\ DOMAIN front = 1 .. (n - 1)
        /\ \A i \in 1 .. (n - 1) : front[i] = queue[i]
    BY <1>1, <2>3
  <2>5. /\ back \in Seq(Oids) /\ DOMAIN back = 1 .. (Len(queue) - n)
        /\ \A i \in 1 .. (Len(queue) - n) : back[i] = queue[n + i]
    BY <1>1, <2>3
  <2>6. Without(o) \in Seq(Oids) /\ Range(Without(o)) = Range(front) \cup Range(back)
    BY <2>2, <2>4, <2>5, RangeOfConcatenation
  <2> HIDE DEF front, back
  <2>7. Range(front) \subseteq Range(queue)
    <3>1. \A i \in DOMAIN front : i \in DOMAIN queue /\ front[i] = queue[i]
      BY <1>1, <2>3, <2>4
    <3> QED
      BY <3>1 DEF Range
  <2>8. Range(back) \subseteq Range(queue)
    <3>1. \A i \in DOMAIN back : n + i \in DOMAIN queue /\ back[i] = queue[n + i]
      BY <1>1, <2>3, <2>5
    <3> QED
      BY <3>1 DEF Range
  <2>9. ASSUME NEW x \in Range(queue) \ {o} PROVE x \in Range(front) \cup Range(back)
    <3>1. PICK i \in DOMAIN queue : queue[i] = x
      BY DEF Range
    <3>2. i \in 1 .. Len(queue) /\ i # n
      BY <1>1, <2>1, <3>1
    <3>3. CASE i < n
      <4>1. i \in DOMAIN front /\ front[i] = x
        BY <2>3, <2>4, <3>1, <3>2, <3>3
      <4> QED
        BY <4>1 DEF Range
    <3>4. CASE i > n
      <4>1. i - n \in 1 .. (Len(queue) - n) /\ n + (i - n) = i
        BY <2>3, <3>2, <3>4
      <4>2. i - n \in DOMAIN back /\ back[i - n] = x
        BY <2>5, <3>1, <4>1
      <4> QED
        BY <4>2 DEF Range
    <3> QED
      BY <2>3, <3>2, <3>3, <3>4
  <2> QED
    BY <2>6, <2>7, <2>8, <2>9
<1> QED
  BY <1>2, <1>3

LEMMA QueueAfterUpdate ==
    ASSUME TypeOK, NEW same \in BOOLEAN, UpdateProject(same)
    PROVE  /\ queue' \in Seq(Oids)
           /\ Range(queue) \ {Project} \subseteq Range(queue')
           /\ mem[Root] # "changed" => Root \in Range(queue')
           /\ same /\ mem[Project] = "uptodate" => Project \in Range(queue')
           /\ Range(queue') \subseteq Range(queue) \cup {Root, Project}
<1>1. Root \in Oids /\ Project \in Oids
  BY DatabaseAssumption DEF Oids
<1>2. /\ Without(Project) \in Seq(Oids)
      /\ Range(Without(Project)) \subseteq Range(queue)
      /\ Range(queue) \ {Project} \subseteq Range(Without(Project))
  BY QueueWithout
<1> DEFINE rooted == WithRoot(Without(Project))
<1>3. /\ rooted \in Seq(Oids)
      /\ Range(rooted) \subseteq Range(queue) \cup {Root}
      /\ Range(queue) \ {Project} \subseteq Range(rooted)
      /\ mem[Root] # "changed" => Root \in Range(rooted)
  <2>1. CASE mem[Root] = "changed"
    BY <1>2, <2>1 DEF WithRoot
  <2>2. CASE mem[Root] # "changed"
    <3> DEFINE new == SetToSeq({Root} \ Range(Without(Project)))
    <3>1. new \in Seq(Oids) /\ Range(new) = {Root} \ Range(Without(Project))
      BY <1>1, SequenceOfOids
    <3>2. rooted = Without(Project) \o new
      BY <2>2 DEF WithRoot
    <3> HIDE DEF new, rooted
    <3>3. /\ Without(Project) \o new \in Seq(Oids)
          /\ Range(Without(Project) \o new) = Range(Without(Project)) \cup Range(new)
      BY <1>2, <3>1, RangeOfConcatenation
    <3> QED
      BY <1>2, <3>1, <3>2, <3>3
  <2> QED
    BY <2>1, <2>2
<1> DEFINE last == IF same /\ mem[Project] = "uptodate" THEN <<Project>> ELSE <<>>
<1>4. last \in Seq(Oids) /\ Range(last) = IF same /\ mem[Project] = "uptodate" THEN {Project} ELSE {}
  BY <1>1 DEF Range
<1>5. queue' = rooted \o last
  BY DEF UpdateProject
<1> HIDE DEF rooted, last
<1>6. queue' \in Seq(Oids) /\ Range(queue') = Range(rooted) \cup Range(last)
  BY <1>3, <1>4, <1>5, RangeOfConcatenation
<1> QED
  BY <1>3, <1>4, <1>6

LEMMA QueueAfterStore ==
    ASSUME TypeOK, queue # <<>>
    PROVE  /\ Last(queue) \in Oids /\ Popped \in Seq(Oids)
           /\ Range(queue) = Range(Popped) \cup {Last(queue)}
           /\ \A o \in Oids : Queued(o) =>
                 /\ queue' \in Seq(Oids)
                 /\ Range(queue') = Range(Popped) \cup ToRegister(o)
<1>1. /\ Last(queue) \in Oids /\ Popped \in Seq(Oids)
      /\ Range(queue) = Range(Popped) \cup {Last(queue)}
  BY FrontAndLast DEF TypeOK, Popped
<1>2. ASSUME NEW o \in Oids, Queued(o)
      PROVE  queue' \in Seq(Oids) /\ Range(queue') = Range(Popped) \cup ToRegister(o)
  <2> DEFINE new == SetToSeq(ToRegister(o) \ Range(Popped))
  <2>1. ToRegister(o) \ Range(Popped) \in SUBSET Oids
    BY DEF ToRegister, TypeOK
  <2>2. new \in Seq(Oids) /\ Range(new) = ToRegister(o) \ Range(Popped)
    BY <2>1, SequenceOfOids
  <2>3. queue' = Popped \o new
    BY <1>2 DEF Queued
  <2> HIDE DEF new
  <2>4. Popped \o new \in Seq(Oids) /\ Range(Popped \o new) = Range(Popped) \cup Range(new)
    BY <1>1, <2>2, RangeOfConcatenation
  <2> QED
    BY <2>2, <2>3, <2>4
<1> QED
  BY <1>1, <1>2

-----------------------------------------------------------------------------
\* Reading and creating objects, between commits.
LEMMA OidsOfParts ==
    /\ Root \in Oids /\ Project \in Oids /\ Root # Project /\ Root \notin Items
    /\ Trees \subseteq Oids /\ Items \subseteq Oids /\ Project \notin Items
    /\ Project \notin Trees /\ \A o \in Items : o \notin Trees
    /\ \A o \in Oids : o \in Items \/ o \in Trees \cup {Project}
  BY DatabaseAssumption DEF Oids

LEMMA CreateIInv ==
    ASSUME IInv, NEW o \in Trees \cup Items, NEW references \in SUBSET Items, Create(o, references)
    PROVE  IInv'
<1>1. o \in Oids /\ o # Root
  BY OidsOfParts DEF Create, IInv, RootInv
<1>2. TypeOK'
  BY <1>1, OidsOfParts DEF IInv, TypeOK, Create, diskVars, historyVars
<1>3. /\ mem[o] = "none" /\ mem'[o] = "new" /\ \A x \in Oids : x # o => mem'[x] = mem[x] /\ val'[x] = val[x]
      /\ val'[o] = references /\ \A r \in references : r \in Items /\ mem[r] # "none"
      /\ UNCHANGED <<file, disk, jar, queue, committing, failed, faults>>
  BY <1>1 DEF IInv, TypeOK, Create, diskVars, historyVars
<1>4. MemoryInv'
  BY <1>1, <1>3 DEF IInv, MemoryInv, IsFile, InQueue
<1>5. RootInv'
  BY <1>1, <1>3, OidsOfParts DEF IInv, RootInv
<1>6. QueueInv'
  <2> SUFFICES ASSUME ~failed PROVE QueueInv'
    BY <1>3 DEF QueueInv
  <2>1. QueueInv /\ MemoryInv
    BY DEF IInv
  <2>2. mem'[Root] = "new" => InQueue(Root)'
    BY <1>1, <1>3, <2>1, OidsOfParts DEF QueueInv, InQueue
  <2>3. \A x \in Oids : mem'[x] = "changed" => InQueue(x)' \/ (x = Project /\ Project \in val'[Root])
    BY <1>1, <1>3, <2>1, OidsOfParts DEF QueueInv, InQueue
  <2>4. \A x, r \in Oids : mem'[r] = "uptodate" /\ x \in val'[r] /\ Unsaved(x)' => InQueue(x)'
    BY <1>1, <1>3, <2>1 DEF QueueInv, InQueue, MemoryInv, Unsaved
  <2>5. \A x \in Items, r \in Oids : mem'[x] = "new" /\ x \in disk'[r] => InQueue(x)'
    BY <1>1, <1>3, <2>1, OidsOfParts DEF QueueInv, InQueue, Create
  <2> QED
    BY <2>2, <2>3, <2>4, <2>5 DEF QueueInv
<1>7. DiskInv'
  BY <1>3 DEF IInv, DiskInv, InQueue, IsFile, Unsaved, Create, Working
<1> QED
  BY <1>2, <1>4, <1>5, <1>6, <1>7 DEF IInv

\* Get and SetState read a file in the same way.
Reads(o) ==
    /\ Working
    /\ mem[o] \in {"none", "ghost"} /\ IsFile(o)
    /\ mem' = [WithGhosts(mem, disk[o]) EXCEPT ![o] = "uptodate"]
    /\ val' = [val EXCEPT ![o] = disk[o]]
    /\ jar \cup {o} \cup Ghosts(disk[o]) \subseteq jar' /\ jar' \subseteq Oids /\ cache' \subseteq Oids
    /\ UNCHANGED <<diskVars, queue, committing, historyVars>>

LEMMA ReadsIInv ==
    ASSUME IInv, NEW o \in Oids, Reads(o)
    PROVE  IInv'
<1>1. o # Root
  BY DEF Reads, IInv, RootInv
<1>2. TypeOK'
  BY DEF IInv, TypeOK, Reads, WithGhosts, diskVars, historyVars
<1>3. /\ mem[o] \in {"none", "ghost"} /\ mem'[o] = "uptodate" /\ IsFile(o) /\ ~committing
      /\ \A x \in Oids : x # o /\ x \in disk[o] /\ mem[x] = "none" => mem'[x] = "ghost"
      /\ \A x \in Oids : x # o /\ ~(x \in disk[o] /\ mem[x] = "none") => mem'[x] = mem[x]
      /\ val'[o] = disk[o] /\ \A x \in Oids : x # o => val'[x] = val[x]
      /\ jar \subseteq jar' /\ o \in jar' /\ \A x \in disk[o] : mem[x] = "none" => x \in jar'
      /\ UNCHANGED <<file, disk, queue, committing, failed, faults>>
      /\ disk[o] \subseteq Oids
  BY DEF IInv, TypeOK, Reads, WithGhosts, Ghosts, diskVars, historyVars, Working
<1>4. MemoryInv'
  <2>1. MemoryInv
    BY DEF IInv
  <2>2. \A x \in Oids : mem'[x] = "uptodate" => IsFile(x)' /\ disk'[x] = val'[x]
    BY <1>3, <2>1 DEF MemoryInv, IsFile
  <2>3. \A x \in Oids : mem'[x] \in {"ghost", "uptodate", "changed"} => x \in jar'
    BY <1>3, <2>1 DEF MemoryInv
  <2>4. \A x \in Oids : mem'[x] \in {"none", "ghost"} => val'[x] = {}
    BY <1>3, <2>1 DEF MemoryInv
  <2>5. \A x, r \in Oids : x \in val'[r] => mem'[x] # "none"
    BY <1>3, <2>1 DEF MemoryInv
  <2> QED
    BY <1>3, <2>1, <2>2, <2>3, <2>4, <2>5 DEF MemoryInv, InQueue
<1>5. RootInv'
  BY <1>1, <1>3, OidsOfParts DEF IInv, RootInv
<1>6. QueueInv'
  <2> SUFFICES ASSUME ~failed PROVE QueueInv'
    BY <1>3 DEF QueueInv
  <2>1. QueueInv /\ MemoryInv /\ RootInv
    BY DEF IInv
  <2>2. mem'[Root] = "new" => InQueue(Root)'
    BY <1>1, <1>3, <2>1, OidsOfParts DEF QueueInv, RootInv, InQueue
  <2>3. \A x \in Oids : mem'[x] = "changed" => InQueue(x)' \/ (x = Project /\ Project \in val'[Root])
    BY <1>1, <1>3, <2>1, OidsOfParts DEF QueueInv, InQueue
  <2>4. ASSUME NEW x \in Oids, NEW r \in Oids, mem'[r] = "uptodate", x \in val'[r], Unsaved(x)'
        PROVE  InQueue(x)'
    <3>1. Unsaved(x) /\ mem'[x] = mem[x]
      BY <1>3, <2>4 DEF Unsaved
    <3>2. CASE r # o
      BY <1>3, <2>1, <2>4, <3>1, <3>2 DEF QueueInv, InQueue
    <3>3. CASE r = o
      <4>1. x \in disk[o] /\ x \in Items
        BY <1>1, <1>3, <2>1, <2>4, <3>3, OidsOfParts DEF RootInv
      <4> QED
        BY <1>3, <2>1, <3>1, <4>1, OidsOfParts DEF QueueInv, InQueue, Unsaved
    <3> QED
      BY <3>2, <3>3
  <2>5. \A x \in Items, r \in Oids : mem'[x] = "new" /\ x \in disk'[r] => InQueue(x)'
    BY <1>3, <2>1, OidsOfParts DEF QueueInv, InQueue
  <2> QED
    BY <2>2, <2>3, <2>4, <2>5 DEF QueueInv
<1>7. DiskInv'
  <2> SUFFICES ASSUME faults = 0 PROVE DiskInv'
    BY <1>3 DEF DiskInv
  <2>1. DiskInv
    BY DEF IInv
  <2>2. \A x, r \in Oids : IsFile(x) /\ r \in disk[x] => IsFile(r)
    BY <1>3, <2>1 DEF DiskInv
  <2>3. \A x \in Oids : mem'[x] \in {"ghost", "uptodate"} => IsFile(x)
    BY <1>3, <2>1, <2>2 DEF DiskInv
  <2> QED
    BY <1>3, <2>1, <2>2, <2>3 DEF DiskInv, IsFile
<1> QED
  BY <1>2, <1>4, <1>5, <1>6, <1>7 DEF IInv

LEMMA GetIInv ==
    ASSUME IInv, NEW o \in Oids, Get(o) \/ SetState(o)
    PROVE  IInv'
<1>1. Ghosts(disk[o]) \subseteq Oids /\ jar \subseteq Oids /\ cache \subseteq Oids
  BY DEF IInv, TypeOK, Ghosts
<1>2. mem[o] = "ghost" => o \in jar
  BY DEF IInv, MemoryInv
<1>3. CASE Get(o)
  BY <1>1, <1>3, ReadsIInv DEF Get, Reads
<1>4. CASE SetState(o)
  BY <1>1, <1>2, <1>4, ReadsIInv DEF SetState, Reads
<1> QED
  BY <1>3, <1>4

-----------------------------------------------------------------------------
\* Changing objects, between commits.
LEMMA ChangeEffect ==
    ASSUME TypeOK, NEW o \in Oids, NEW value \in SUBSET Oids, Change(o, value)
    PROVE  /\ val' = [val EXCEPT ![o] = value]
           /\ mem' \in [Oids -> {"none", "ghost", "uptodate", "changed", "new"}]
           /\ queue' \in Seq(Oids) /\ Range(queue) \subseteq Range(queue')
           /\ Range(queue') \subseteq Range(queue) \cup jar
           /\ \A x \in Oids : x # o => mem'[x] = mem[x]
           /\ o \in jar => mem'[o] = "changed" /\ (mem[o] # "changed" => o \in Range(queue'))
           /\ o \notin jar => mem'[o] = mem[o]
<1>1. CASE o \in jar /\ mem[o] # "changed"
  <2>1. mem' = [mem EXCEPT ![o] = "changed"] /\ queue' = Registered({o})
    BY <1>1 DEF Change
  <2>2. Registered({o}) \in Seq(Oids) /\ Range(Registered({o})) = Range(queue) \cup {o}
    <3>1. {o} \in SUBSET Oids
      OBVIOUS
    <3> QED
      BY <3>1, RegisteredQueue
  <2> QED
    BY <1>1, <2>1, <2>2 DEF Change, TypeOK
<1>2. CASE ~(o \in jar /\ mem[o] # "changed")
  BY <1>2 DEF Change, TypeOK
<1> QED
  BY <1>1, <1>2

\* A loaded object gets another value: nothing leaves the root, and what is new
\* in the value is in memory and is of the kind that the object refers to.
Changes(t, value) ==
    /\ Working /\ Loaded(t) /\ Change(t, value)
    /\ \A x \in value \ val[t] : mem[x] # "none" /\ (x \in Trees \cup {Project} => t = Root)
    /\ t = Root => val[t] \subseteq value
    /\ jar \subseteq jar' /\ jar' \subseteq Oids
    /\ UNCHANGED <<diskVars, cache, committing, historyVars>>

LEMMA ChangesIInv ==
    ASSUME IInv, NEW t \in Oids, NEW value \in SUBSET Oids, Changes(t, value)
    PROVE  IInv'
<1> USE OidsOfParts
<1>1. TypeOK /\ MemoryInv /\ RootInv /\ QueueInv /\ DiskInv
  BY DEF IInv
<1>2. /\ val' = [val EXCEPT ![t] = value]
      /\ mem' \in [Oids -> {"none", "ghost", "uptodate", "changed", "new"}]
      /\ queue' \in Seq(Oids) /\ Range(queue) \subseteq Range(queue')
      /\ Range(queue') \subseteq Range(queue) \cup jar
      /\ \A x \in Oids : x # t => mem'[x] = mem[x]
      /\ t \in jar => mem'[t] = "changed" /\ (mem[t] # "changed" => t \in Range(queue'))
      /\ t \notin jar => mem'[t] = mem[t]
  BY <1>1, ChangeEffect DEF Changes
<1>3. UNCHANGED <<file, disk, cache, committing, failed, faults>> /\ ~committing
  BY DEF Changes, diskVars, historyVars, Working
<1>4. TypeOK'
  BY <1>1, <1>2, <1>3 DEF TypeOK, Changes
<1>5. /\ val'[t] = value /\ \A x \in Oids : x # t => val'[x] = val[x]
      /\ t \notin jar => mem[t] = "new" /\ mem'[t] = "new"
      /\ mem'[t] \in {"changed", "new"}
  BY <1>1, <1>2 DEF TypeOK, MemoryInv, Changes, Loaded
<1>6. MemoryInv'
  <2>1. \A x \in Oids : mem'[x] = "uptodate" => IsFile(x)' /\ disk'[x] = val'[x]
    BY <1>1, <1>2, <1>3, <1>5 DEF MemoryInv, IsFile
  <2>2. \A x \in Oids : mem'[x] \in {"ghost", "uptodate", "changed"} => x \in jar'
    BY <1>1, <1>2, <1>5 DEF MemoryInv, Changes
  <2>3. \A x \in Oids : mem'[x] \in {"none", "ghost"} => val'[x] = {}
    BY <1>1, <1>2, <1>5 DEF MemoryInv
  <2>4. \A x \in Oids : mem[x] # "none" => mem'[x] # "none"
    BY <1>2, <1>5
  <2>5. \A x, r \in Oids : x \in val'[r] => mem'[x] # "none"
    BY <1>1, <1>5, <2>4 DEF MemoryInv, Changes
  <2>6. \A x \in Oids : InQueue(x)' => x \in jar'
    BY <1>1, <1>2 DEF MemoryInv, InQueue, Changes
  <2> QED
    BY <2>1, <2>2, <2>3, <2>5, <2>6 DEF MemoryInv
<1>7. RootInv'
  <2>1. Root \in jar' /\ mem'[Root] \in {"new", "uptodate", "changed"}
    BY <1>1, <1>2 DEF RootInv, Changes
  <2>2. file'[Root] # "torn" /\ (file'[Root] = "none" => disk'[Root] = {})
    BY <1>1, <1>3 DEF RootInv
  <2>3. \A x \in Trees \cup {Project}, r \in Oids : x \in val'[r] \cup disk'[r] => r = Root
    BY <1>1, <1>3, <1>5 DEF RootInv, Changes
  <2> QED
    BY <2>1, <2>2, <2>3 DEF RootInv
<1>8. QueueInv'
  <2> SUFFICES ASSUME ~failed PROVE QueueInv'
    BY <1>3 DEF QueueInv
  <2>1. \A x \in Oids : InQueue(x) => InQueue(x)'
    BY <1>2 DEF InQueue
  <2>2. mem'[Root] = "new" => InQueue(Root)'
    BY <1>1, <1>2, <2>1 DEF QueueInv, RootInv
  <2>3. val[Root] \subseteq val'[Root]
    BY <1>5 DEF Changes
  <2>4. \A x \in Oids : mem'[x] = "changed" => InQueue(x)' \/ (x = Project /\ Project \in val'[Root])
    BY <1>1, <1>2, <1>5, <2>1, <2>3 DEF QueueInv, InQueue
  <2>5. \A x, r \in Oids : mem'[r] = "uptodate" /\ x \in val'[r] /\ Unsaved(x)' => InQueue(x)'
    <3> SUFFICES ASSUME NEW x \in Oids, NEW r \in Oids, mem'[r] = "uptodate", x \in val'[r], Unsaved(x)'
                 PROVE  InQueue(x)'
      OBVIOUS
    <3>1. r # t /\ mem[r] = "uptodate" /\ x \in val[r]
      BY <1>2, <1>5
    <3>2. CASE Unsaved(x)
      BY <1>1, <2>1, <3>1, <3>2 DEF QueueInv
    <3>3. CASE ~Unsaved(x)
      BY <1>2, <1>5, <3>3 DEF Unsaved, InQueue
    <3> QED
      BY <3>2, <3>3
  <2>6. \A x \in Items, r \in Oids : mem'[x] = "new" /\ x \in disk'[r] => InQueue(x)'
    BY <1>1, <1>2, <1>3, <2>1 DEF QueueInv
  <2> QED
    BY <2>2, <2>4, <2>5, <2>6 DEF QueueInv
<1>9. DiskInv'
  BY <1>1, <1>2, <1>3, <1>5 DEF DiskInv, IsFile
<1> QED
  BY <1>4, <1>6, <1>7, <1>8, <1>9 DEF IInv

LEMMA MembersIInv ==
    ASSUME IInv, NEW t \in Trees, NEW o \in Oids, Insert(t, o) \/ Discard(t, o)
    PROVE  IInv'
<1>1. t \in Oids /\ val[t] \subseteq Oids /\ jar \subseteq Oids
  BY OidsOfParts DEF IInv, TypeOK
<1>2. CASE Insert(t, o)
  <2>1. Changes(t, val[t] \cup {o})
    BY <1>1, <1>2, OidsOfParts DEF Insert, Changes, Members
  <2>2. val[t] \cup {o} \in SUBSET Oids
    BY <1>1
  <2> QED
    BY <1>1, <2>1, <2>2, ChangesIInv
<1>3. CASE Discard(t, o)
  <2>1. Changes(t, val[t] \ {o})
    BY <1>1, <1>3 DEF Discard, Changes
  <2>2. val[t] \ {o} \in SUBSET Oids
    BY <1>1
  <2> QED
    BY <1>1, <2>1, <2>2, ChangesIInv
<1> QED
  BY <1>2, <1>3

LEMMA ChangeProjectIInv ==
    ASSUME IInv, ChangeProject
    PROVE  IInv'
<1>1. Changes(Project, {})
  BY OidsOfParts DEF ChangeProject, Changes, IInv, TypeOK
<1>2. Project \in Oids /\ {} \in SUBSET Oids
  BY OidsOfParts
<1> QED
  BY <1>1, <1>2, ChangesIInv

LEMMA UpdateProjectIInv ==
    ASSUME IInv, NEW same \in BOOLEAN, UpdateProject(same)
    PROVE  IInv'
<1> USE OidsOfParts
<1>1. TypeOK /\ MemoryInv /\ RootInv /\ QueueInv /\ DiskInv
  BY DEF IInv
<1>2. /\ queue' \in Seq(Oids) /\ Range(queue) \ {Project} \subseteq Range(queue')
      /\ Range(queue') \subseteq Range(queue) \cup {Root, Project}
      /\ mem[Root] # "changed" => Root \in Range(queue')
  BY <1>1, QueueAfterUpdate
<1>3. /\ val'[Root] = val[Root] \cup {Project} /\ \A x \in Oids : x # Root => val'[x] = val[x]
      /\ mem'[Root] = "changed" /\ mem'[Project] \in {"new", "changed"}
      /\ \A x \in Oids \ {Root, Project} : mem'[x] = mem[x]
      /\ jar' = jar \cup {Project}
      /\ UNCHANGED <<file, disk, committing, failed, faults>> /\ ~committing
  BY <1>1 DEF TypeOK, UpdateProject, Working, Loaded, diskVars, historyVars
<1>4. TypeOK'
  BY <1>1, <1>2 DEF TypeOK, UpdateProject, diskVars, historyVars
<1>5. MemoryInv'
  <2>1. \A x \in Oids : mem'[x] = "uptodate" => IsFile(x)' /\ disk'[x] = val'[x]
    BY <1>1, <1>3 DEF MemoryInv, IsFile
  <2>2. \A x \in Oids : mem'[x] \in {"ghost", "uptodate", "changed"} => x \in jar'
    BY <1>1, <1>3 DEF MemoryInv, RootInv
  <2>3. \A x \in Oids : mem'[x] \in {"none", "ghost"} => val'[x] = {}
    BY <1>1, <1>3 DEF MemoryInv
  <2>4. \A x, r \in Oids : x \in val'[r] => mem'[x] # "none"
    BY <1>1, <1>3 DEF MemoryInv
  <2>5. \A x \in Oids : InQueue(x)' => x \in jar'
    BY <1>1, <1>2, <1>3 DEF MemoryInv, RootInv, InQueue
  <2> QED
    BY <2>1, <2>2, <2>3, <2>4, <2>5 DEF MemoryInv
<1>6. RootInv'
  BY <1>1, <1>3 DEF RootInv
<1>7. QueueInv'
  <2> SUFFICES ASSUME ~failed PROVE QueueInv'
    BY <1>3 DEF QueueInv
  <2>1. \A x \in Oids : x # Project /\ InQueue(x) => InQueue(x)'
    BY <1>2 DEF InQueue
  <2>2. \A x \in Oids : mem'[x] = "changed" => InQueue(x)' \/ (x = Project /\ Project \in val'[Root])
    BY <1>1, <1>2, <1>3, <2>1 DEF QueueInv, InQueue
  <2>3. \A x, r \in Oids : mem'[r] = "uptodate" /\ x \in val'[r] /\ Unsaved(x)' => InQueue(x)'
    <3> SUFFICES ASSUME NEW x \in Oids, NEW r \in Oids, mem'[r] = "uptodate", x \in val'[r], Unsaved(x)'
                 PROVE  InQueue(x)'
      OBVIOUS
    <3>1. r # Root /\ mem[r] = "uptodate" /\ x \in val[r]
      BY <1>3
    <3>2. x # Project /\ x # Root
      BY <1>1, <3>1 DEF RootInv, DatabaseAssumption
    <3> QED
      BY <1>1, <1>3, <2>1, <3>1, <3>2 DEF QueueInv, Unsaved
  <2>4. \A x \in Items, r \in Oids : mem'[x] = "new" /\ x \in disk'[r] => InQueue(x)'
    BY <1>1, <1>3, <2>1 DEF QueueInv
  <2> QED
    BY <1>3, <2>2, <2>3, <2>4 DEF QueueInv
<1>8. DiskInv'
  BY <1>1, <1>3 DEF DiskInv, IsFile
<1> QED
  BY <1>4, <1>5, <1>6, <1>7, <1>8 DEF IInv

-----------------------------------------------------------------------------
\* A commit, and what can end it.  The object that is taken out of the queue is
\* saved, or is not to be saved.
LEMMA CommitPhaseIInv ==
    ASSUME IInv, BeginCommit \/ EndCommit
    PROVE  IInv'
<1>1. UNCHANGED <<file, disk, mem, val, jar, cache, queue, failed, faults>> /\ committing' \in BOOLEAN
  BY DEF BeginCommit, EndCommit, diskVars, memVars, historyVars
<1>2. TypeOK' /\ MemoryInv' /\ RootInv' /\ QueueInv'
  BY <1>1 DEF IInv, TypeOK, MemoryInv, RootInv, QueueInv, IsFile, InQueue, Unsaved
<1>3. DiskInv'
  <2>1. CASE BeginCommit
    BY <1>1, <2>1 DEF IInv, DiskInv, IsFile, InQueue, Unsaved, BeginCommit, Working
  <2>2. CASE EndCommit
    <3>1. \A x : ~InQueue(x)
      BY <2>2 DEF EndCommit, InQueue, Range
    <3> QED
      BY <1>1, <3>1 DEF IInv, DiskInv, IsFile, InQueue, Unsaved
  <2> QED
    BY <2>1, <2>2
<1> QED
  BY <1>2, <1>3 DEF IInv

LEMMA StoreObjectIInv ==
    ASSUME IInv, StoreObject
    PROVE  IInv'
<1> USE OidsOfParts
<1>1. TypeOK /\ MemoryInv /\ RootInv /\ QueueInv /\ DiskInv
  BY DEF IInv
<1>o. PICK o \in Oids : o = Last(queue)
  BY <1>1, QueueAfterStore DEF StoreObject
<1>2. /\ o \in Oids /\ Popped \in Seq(Oids) /\ Range(queue) = Range(Popped) \cup {o}
      /\ Queued(o) => queue' \in Seq(Oids) /\ Range(queue') = Range(Popped) \cup ToRegister(o)
  BY <1>1, <1>o, QueueAfterStore DEF StoreObject
<1>3. UNCHANGED <<val, committing, failed, faults>> /\ committing
  BY DEF StoreObject, historyVars
<1>4. CASE ~Unsaved(o)
  <2>1. queue' = Popped /\ UNCHANGED <<file, disk, jar, cache, mem>>
    BY <1>4, <1>o DEF StoreObject, diskVars
  <2>2. \A x \in Oids : InQueue(x) /\ Unsaved(x) => InQueue(x)'
    BY <1>2, <1>4, <2>1 DEF InQueue
  <2>3. TypeOK' /\ MemoryInv' /\ RootInv'
    BY <1>1, <1>2, <1>3, <2>1 DEF TypeOK, MemoryInv, RootInv, IsFile, InQueue
  <2>4. QueueInv'
    BY <1>1, <1>3, <2>1, <2>2 DEF QueueInv, Unsaved
  <2>5. DiskInv'
    BY <1>1, <1>3, <2>1, <2>2 DEF DiskInv, Unsaved, IsFile
  <2> QED
    BY <2>3, <2>4, <2>5 DEF IInv
<1>5. CASE Unsaved(o)
  <2>1. /\ Queued(o) /\ jar' = jar \cup ToRegister(o)
        /\ disk' = [disk EXCEPT ![o] = val[o]] /\ file' = [file EXCEPT ![o] = "whole"]
        /\ cache' = cache \cup {o} /\ mem' = [mem EXCEPT ![o] = "uptodate"]
    BY <1>5, <1>o DEF StoreObject, Queued
  <2>2. queue' \in Seq(Oids) /\ Range(queue') = Range(Popped) \cup ToRegister(o)
    BY <1>2, <2>1
  <2>3. /\ disk'[o] = val[o] /\ IsFile(o)' /\ mem'[o] = "uptodate"
        /\ \A x \in Oids : x # o => disk'[x] = disk[x] /\ file'[x] = file[x] /\ mem'[x] = mem[x]
    BY <1>1, <1>2, <2>1 DEF TypeOK, IsFile
  <2>4. \A x \in Oids : x # o /\ InQueue(x) => InQueue(x)'
    BY <1>2, <2>2 DEF InQueue
  <2>5. \A x \in Oids : x \in val[o] /\ Unsaved(x) => InQueue(x)'
    BY <2>2 DEF InQueue, ToRegister
  <2>6. TypeOK'
    BY <1>1, <1>2, <1>3, <2>1, <2>2 DEF TypeOK, ToRegister
  <2>7. MemoryInv'
    <3>1. \A x \in Oids : mem'[x] = "uptodate" => IsFile(x)' /\ disk'[x] = val'[x]
      BY <1>1, <1>3, <2>3 DEF MemoryInv, IsFile
    <3>2. \A x \in Oids : mem'[x] \in {"ghost", "uptodate", "changed"} => x \in jar'
      BY <1>1, <1>2, <2>1, <2>3 DEF MemoryInv, InQueue
    <3>3. \A x \in Oids : InQueue(x)' => x \in jar'
      BY <1>1, <1>2, <2>1, <2>2 DEF MemoryInv, InQueue
    <3> QED
      BY <1>1, <1>3, <2>3, <3>1, <3>2, <3>3 DEF MemoryInv
  <2>8. RootInv'
    BY <1>1, <1>2, <1>3, <2>1, <2>3 DEF RootInv, IsFile
  <2>9. QueueInv'
    <3> SUFFICES ASSUME ~failed PROVE QueueInv'
      BY <1>3 DEF QueueInv
    <3>1. mem'[Root] = "new" => InQueue(Root)'
      BY <1>1, <2>3, <2>4 DEF QueueInv
    <3>2. \A x \in Oids : mem'[x] = "changed" => InQueue(x)' \/ (x = Project /\ Project \in val'[Root])
      BY <1>1, <1>3, <2>3, <2>4 DEF QueueInv
    <3>3. \A x, r \in Oids : mem'[r] = "uptodate" /\ x \in val'[r] /\ Unsaved(x)' => InQueue(x)'
      BY <1>1, <1>3, <2>3, <2>4, <2>5 DEF QueueInv, Unsaved
    <3>4. \A x \in Items, r \in Oids : mem'[x] = "new" /\ x \in disk'[r] => InQueue(x)'
      BY <1>1, <2>3, <2>4, <2>5 DEF QueueInv, Unsaved
    <3> QED
      BY <1>3, <3>1, <3>2, <3>3, <3>4 DEF QueueInv
  <2>10. DiskInv'
    <3> SUFFICES ASSUME faults = 0 PROVE DiskInv'
      BY <1>3 DEF DiskInv
    <3>1. \A x \in Oids : IsFile(x) => IsFile(x)'
      BY <2>3 DEF IsFile
    <3>2. \A x \in Oids : mem'[x] \in {"ghost", "uptodate"} => IsFile(x)'
      BY <1>1, <2>3, <3>1 DEF DiskInv
    <3>3. ASSUME NEW x \in Oids, NEW r \in Oids, IsFile(x)', r \in disk'[x]
          PROVE  IsFile(r)' \/ (InQueue(r)' /\ Unsaved(r)')
      <4>1. CASE r = o
        BY <2>3, <4>1
      <4>2. CASE r # o /\ x = o
        <5>1. mem[r] # "none" /\ r \in val[o] /\ mem'[r] = mem[r]
          BY <1>1, <2>3, <3>3, <4>2 DEF MemoryInv
        <5>2. mem[r] \in {"ghost", "uptodate"} \/ Unsaved(r)
          BY <1>1, <5>1 DEF TypeOK, Unsaved
        <5> QED
          BY <2>5, <3>2, <5>1, <5>2 DEF Unsaved
      <4>3. CASE r # o /\ x # o
        BY <1>1, <2>3, <2>4, <3>1, <3>3, <4>3 DEF DiskInv, IsFile, Unsaved
      <4> QED
        BY <4>1, <4>2, <4>3
    <3> QED
      BY <1>1, <1>3, <3>2, <3>3 DEF DiskInv
  <2> QED
    BY <2>6, <2>7, <2>8, <2>9, <2>10 DEF IInv
<1> QED
  BY <1>4, <1>5

\* The object that could not be stored stays in memory as it was; what it refers
\* to has been registered.
LEMMA StoreFailsIInv ==
    ASSUME IInv, StoreFails
    PROVE  IInv'
<1>1. TypeOK /\ MemoryInv /\ RootInv
  BY DEF IInv
<1>2. PICK o \in Oids : o = Last(queue)
  BY <1>1, QueueAfterStore DEF StoreFails
<1>3. /\ jar' = jar \cup ToRegister(o) /\ ToRegister(o) \subseteq Oids
      /\ queue' \in Seq(Oids) /\ Range(queue') \subseteq Range(queue) \cup ToRegister(o)
  BY <1>1, <1>2, QueueAfterStore DEF StoreFails, Queued, ToRegister, TypeOK
<1>4. /\ UNCHANGED <<file, disk, mem, val, cache>> /\ ~committing' /\ failed'
      /\ committing' \in BOOLEAN /\ failed' \in BOOLEAN
  BY DEF StoreFails, diskVars
<1>f. faults' \in 0 .. MaxFaults /\ faults' # 0
  BY <1>1, DatabaseAssumption DEF StoreFails, TypeOK
<1>5. TypeOK'
  BY <1>1, <1>3, <1>4, <1>f DEF TypeOK
<1>6. MemoryInv'
  <2>1. \A x \in Oids : InQueue(x)' => x \in jar'
    BY <1>1, <1>3 DEF MemoryInv, InQueue
  <2> QED
    BY <1>1, <1>3, <1>4, <2>1 DEF MemoryInv, IsFile
<1>7. RootInv'
  BY <1>1, <1>3, <1>4 DEF RootInv
<1>8. QueueInv' /\ DiskInv'
  BY <1>4, <1>f DEF QueueInv, DiskInv
<1> QED
  BY <1>5, <1>6, <1>7, <1>8 DEF IInv

\* What a process finds when it opens the database.  Only the root, if it has no
\* file yet, is to be saved; nothing else is in memory.
LEMMA OpenIInv ==
    ASSUME TypeOK, Open, disk' = disk,
           file' \in [Oids -> {"none", "whole", "torn"}], file'[Root] = file[Root],
           RootInv, file[Root] # "torn", faults' \in 0 .. MaxFaults,
           faults' = 0 => file' = file /\ faults = 0 /\ ~committing /\ DiskInv
    PROVE  IInv'
<1> USE OidsOfParts
<1>1. /\ mem'[Root] = IF file[Root] = "none" THEN "new" ELSE "uptodate"
      /\ \A x \in Oids \ {Root} : mem'[x] = IF x \in disk[Root] THEN "ghost" ELSE "none"
      /\ val'[Root] = disk[Root] /\ \A x \in Oids \ {Root} : val'[x] = {}
      /\ jar' = disk[Root] \cup {Root}
      /\ queue' = IF file[Root] = "none" THEN <<Root>> ELSE <<>>
      /\ committing' = FALSE /\ failed' = FALSE
  BY DEF Open
<1>2. TypeOK'
  <2>1. /\ mem' \in [Oids -> {"none", "ghost", "uptodate", "changed", "new"}]
        /\ val' \in [Oids -> SUBSET Oids] /\ disk' \in [Oids -> SUBSET Oids]
        /\ jar' \subseteq Oids /\ cache' \subseteq Oids
    BY DEF TypeOK, Open
  <2>2. queue' \in Seq(Oids)
    BY <1>1
  <2> QED
    BY <1>1, <2>1, <2>2 DEF TypeOK
<1>3. file[Root] = "none" => disk[Root] = {}
  BY DEF RootInv
<1>4. \A x \in Oids : InQueue(x)' <=> (x = Root /\ file[Root] = "none")
  BY <1>1 DEF InQueue, Range
<1>5. MemoryInv'
  <2>1. \A x \in Oids : mem'[x] = "uptodate" => IsFile(x)' /\ disk'[x] = val'[x]
    BY <1>1 DEF IsFile, TypeOK
  <2>2. \A x \in Oids : x \in disk[Root] => mem'[x] # "none"
    BY <1>1
  <2> QED
    BY <1>1, <1>4, <2>1, <2>2 DEF MemoryInv
<1>6. RootInv'
  BY <1>1 DEF RootInv
<1>7. QueueInv'
  BY <1>1, <1>3, <1>4 DEF QueueInv, Unsaved
<1>8. DiskInv'
  <2> SUFFICES ASSUME faults' = 0 PROVE DiskInv'
    BY DEF DiskInv
  <2>1. \A x, r \in Oids : IsFile(x) /\ r \in disk[x] => IsFile(r)
    BY DEF DiskInv
  <2>2. ASSUME NEW x \in Oids, mem'[x] \in {"ghost", "uptodate"} PROVE IsFile(x)
    <3>1. CASE x = Root
      BY <1>1, <2>2, <3>1 DEF IsFile, TypeOK
    <3>2. CASE x # Root
      <4>1. x \in disk[Root] /\ IsFile(Root)
        BY <1>1, <1>3, <2>2, <3>2 DEF IsFile, TypeOK
      <4> QED
        BY <2>1, <4>1
    <3> QED
      BY <3>1, <3>2
  <2> QED
    BY <1>1, <2>1, <2>2 DEF DiskInv, IsFile
<1> QED
  BY <1>2, <1>5, <1>6, <1>7, <1>8 DEF IInv

LEMMA ReopenIInv ==
    ASSUME IInv, Reopen \/ Crash
    PROVE  IInv'
<1>1. TypeOK /\ RootInv /\ DiskInv
  BY DEF IInv
<1>2. CASE Reopen
  BY <1>1, <1>2, OpenIInv DEF Reopen, Working, diskVars, TypeOK
<1>3. CASE Crash
  <2>1. faults' \in 0 .. MaxFaults /\ faults' # 0
    BY <1>1, <1>3, DatabaseAssumption DEF Crash, TypeOK
  <2>2. PICK o \in Oids : o = Last(queue)
    BY <1>1, <1>3, QueueAfterStore DEF Crash
  <2>3. file' \in [Oids -> {"none", "whole", "torn"}] /\ file'[Root] = file[Root]
    BY <1>1, <1>3, <2>2, OidsOfParts DEF Crash, TypeOK
  <2>4. Open /\ disk' = disk /\ file[Root] # "torn"
    BY <1>1, <1>3 DEF Crash, RootInv
  <2> QED
    BY <1>1, <2>1, <2>3, <2>4, OpenIInv
<1> QED
  BY <1>2, <1>3

-----------------------------------------------------------------------------
LEMMA InitIInv == Init => IInv
<1> SUFFICES ASSUME Init PROVE IInv
  OBVIOUS
<1>1. \A o \in Oids : InQueue(o) <=> o = Root
  BY DEF Init, InQueue, Range
<1>2. TypeOK
  <2>1. /\ queue \in Seq(Oids) /\ jar \subseteq Oids /\ cache \subseteq Oids
        /\ val \in [Oids -> SUBSET Oids] /\ disk \in [Oids -> SUBSET Oids]
    BY OidsOfParts DEF Init
  <2>2. 0 \in 0 .. MaxFaults
    BY DatabaseAssumption
  <2> QED
    BY <2>1, <2>2 DEF Init, TypeOK
<1>3. MemoryInv /\ RootInv /\ QueueInv /\ DiskInv
  BY <1>1, OidsOfParts DEF Init, MemoryInv, RootInv, QueueInv, DiskInv, IsFile, Unsaved
<1> QED
  BY <1>2, <1>3 DEF IInv

LEMMA NextIInv == IInv /\ [Next]_vars => IInv'
<1> SUFFICES ASSUME IInv, [Next]_vars PROVE IInv'
  OBVIOUS
<1>1. ASSUME NEW o \in Trees \cup Items, NEW references \in SUBSET Items, Create(o, references)
      PROVE  IInv'
  BY <1>1, CreateIInv
<1>2. ASSUME NEW o \in Oids, Get(o) \/ SetState(o)
      PROVE  IInv'
  BY <1>2, GetIInv
<1>3. ASSUME NEW t \in Trees, NEW o \in Oids, Insert(t, o) \/ Discard(t, o)
      PROVE  IInv'
  BY <1>3, MembersIInv
<1>4. ASSUME NEW same \in BOOLEAN, UpdateProject(same)
      PROVE  IInv'
  BY <1>4, UpdateProjectIInv
<1>5. CASE ChangeProject
  BY <1>5, ChangeProjectIInv
<1>6. CASE BeginCommit \/ EndCommit
  BY <1>6, CommitPhaseIInv
<1>7. CASE StoreObject
  BY <1>7, StoreObjectIInv
<1>8. CASE StoreFails
  BY <1>8, StoreFailsIInv
<1>9. CASE Reopen \/ Crash
  BY <1>9, ReopenIInv
<1>10. CASE UNCHANGED vars
  BY <1>10 DEF vars, IInv, TypeOK, MemoryInv, RootInv, QueueInv, DiskInv, InQueue, IsFile, Unsaved
<1> QED
  BY <1>1, <1>2, <1>3, <1>4, <1>5, <1>6, <1>7, <1>8, <1>9, <1>10 DEF Next, Use

LEMMA Invariance == Spec => []IInv
<1> QED
  BY InitIInv, NextIInv, PTL DEF Spec

\* Objects and files stay what they are: the queue holds oids, a value refers to
\* oids, and an object is in one of its states.
THEOREM DatabaseIsTyped == Spec => []TypeOK
<1>1. IInv => TypeOK
  BY DEF IInv
<1> QED
  BY <1>1, Invariance, PTL

\* Database.commit saves everything that was changed or made and can be reached:
\* what is not saved is in the queue, or something that is not saved refers to it.
THEOREM CommitsSaveEverything == Spec => []CommitSavesEverything
<1>1. ASSUME IInv PROVE CommitSavesEverything
  <2> SUFFICES ASSUME Working, queue = <<>>, ~failed, NEW o \in Reachable
               PROVE  ~Unsaved(o) /\ (mem[o] = "uptodate" => disk[o] = val[o])
    BY DEF CommitSavesEverything
  <2>1. TypeOK /\ MemoryInv /\ RootInv /\ QueueInv
    BY <1>1 DEF IInv
  <2>2. \A x : ~InQueue(x)
    BY DEF InQueue, Range
  <2>3. mem[Root] = "uptodate"
    BY <2>1, <2>2, OidsOfParts DEF RootInv, QueueInv
  <2>4. ASSUME NEW r \in Oids, mem[r] # "none", ~Unsaved(r), NEW x \in val[r]
        PROVE  x \in Oids /\ mem[x] # "none" /\ ~Unsaved(x)
    <3>1. x \in Oids /\ mem[x] # "none"
      BY <2>1 DEF TypeOK, MemoryInv
    <3>2. mem[r] = "uptodate"
      BY <2>1, <2>4 DEF TypeOK, MemoryInv, Unsaved
    <3> QED
      BY <2>1, <2>2, <3>1, <3>2 DEF QueueInv
  <2>5. \A x \in val[Root] : x \in Oids /\ mem[x] # "none" /\ ~Unsaved(x)
    BY <2>3, <2>4, OidsOfParts DEF Unsaved
  <2>6. \A x \in InTrees : x \in Oids /\ mem[x] # "none" /\ ~Unsaved(x)
    BY <2>4, <2>5 DEF InTrees
  <2>7. \A x \in UNION {val[r] : r \in InTrees} : x \in Oids /\ ~Unsaved(x)
    BY <2>4, <2>6
  <2>8. o \in Oids /\ ~Unsaved(o)
    BY <2>3, <2>5, <2>6, <2>7, OidsOfParts DEF Reachable, Unsaved
  <2> QED
    BY <2>1, <2>8 DEF MemoryInv
<1> QED
  BY <1>1, Invariance, PTL

\* Between commits the files are complete: an object gets its file before the new
\* objects it refers to, which are in the queue until they have theirs.
THEOREM FilesAreComplete == Spec => []NothingDangles
<1>1. IInv => NothingDangles
  BY DEF IInv, DiskInv, TypeOK, NothingDangles, Working
<1> QED
  BY <1>1, Invariance, PTL
=============================================================================
