----------------------- MODULE UploadsAndJobs_proofs -----------------------
(***************************************************************************)
(* Proofs about ChunkedUpload, for every number of chunks and requests,    *)
(* with deletion, cleanup and crashes, and about ServiceJobs, for any      *)
(* number of jobs and workers, with killed jobs and a clone that others    *)
(* reset, remove and make again.                                           *)
(***************************************************************************)
EXTENDS ChunkedUpload, ServiceJobs, FiniteSetTheorems, TLAPS

(***************************************************************************)
(* Typing.                                                                 *)
(***************************************************************************)
ProgramCounters ==
    /\ \A u \in Uploads : pc[u] \in UploadPcs
    /\ pc[Deleter] \in DeleterPcs
    /\ pc[Cleaner] \in CleanerPcs

TypeInv == TypeOK /\ ProgramCounters

LEMMA InitTyped == Init => TypeInv
  <1> SUFFICES ASSUME Init PROVE TypeInv
    OBVIOUS
  <1>1. Count \in Nat /\ 0 \in 0 .. Count /\ 0 \in Time /\ 0 \in 0 .. MaxCrashes
    BY UploadAssumption DEF Time
  <1>2. OldFile \in File /\ OldRecord \in FileRecord
    BY <1>1 DEF OldFile, OldRecord, File, FileRecord
  <1>3. /\ \A u \in Uploads : u # Deleter /\ u # Cleaner
        /\ Deleter \in Procs /\ Cleaner \in Procs /\ Uploads \subseteq Procs
    BY UploadAssumption DEF Procs
  <1>4. /\ pc \in [Procs -> UploadPcs \cup DeleterPcs \cup CleanerPcs]
        /\ ProgramCounters
    BY <1>3, UploadAssumption DEF Init, ProgramCounters, UploadPcs, DeleterPcs, CleanerPcs
  <1>5. chunk \in [Chunks -> {"absent", "partial", "whole"}]
    BY DEF Init, NoChunks
  <1>6. /\ copied \in [Uploads -> 0 .. Count]
        /\ todo \in [Procs -> SUBSET FileRecord]
        /\ outcome \in [Uploads -> Outcomes]
    BY <1>1 DEF Init, Outcomes
  <1>7. target \in File \cup {NoFile} /\ files \subseteq FileRecord
    BY <1>2 DEF Init
  <1> QED BY <1>1, <1>4, <1>5, <1>6, <1>7 DEF Init, TypeInv, TypeOK

\* What a request does to the program counters and the answers.
Control ==
    /\ pc \in [Procs -> UploadPcs \cup DeleterPcs \cup CleanerPcs]
    /\ ProgramCounters
    /\ outcome \in [Uploads -> Outcomes]

LEMMA AnswerTyped ==
  ASSUME Control, NEW u \in Uploads, NEW answer \in Outcomes, Answer(u, answer)
  PROVE  Control'
  BY UploadAssumption
  DEF Answer, Goto, Control, ProgramCounters, Procs, UploadPcs, DeleterPcs, CleanerPcs

LEMMA StepTyped ==
  ASSUME Control, NEW u \in Uploads, NEW label \in UploadPcs, Step(u, label)
  PROVE  Control'
  BY UploadAssumption
  DEF Step, Goto, Control, ProgramCounters, Procs, UploadPcs, DeleterPcs, CleanerPcs

LEMMA DeleterStepTyped ==
  ASSUME Control, NEW label \in DeleterPcs, Step(Deleter, label)
  PROVE  Control'
  BY UploadAssumption
  DEF Step, Goto, Control, ProgramCounters, Procs, UploadPcs, DeleterPcs, CleanerPcs

LEMMA CloseTyped ==
  ASSUME target \in File \cup {NoFile}, NEW u \in Uploads, Close(u)
  PROVE  target' \in File \cup {NoFile}
  <1>1. CASE target = NoFile
    BY <1>1 DEF Close
  <1>2. CASE target # NoFile
    <2>1. target \in File /\ target' = [target EXCEPT !.writers = @ \ {u}]
      BY <1>2 DEF Close
    <2>2. (target.writers \ {u}) \in SUBSET Uploads
      BY <2>1 DEF File
    <2> QED BY <2>1, <2>2 DEF File
  <1> QED BY <1>1, <1>2

LEMMA RemovalTyped ==
  ASSUME dir \in BOOLEAN, chunk \in [Chunks -> {"absent", "partial", "whole"}],
         Removed \/ RemovalDisturbed
  PROVE  dir' \in BOOLEAN /\ chunk' \in [Chunks -> {"absent", "partial", "whole"}]
  BY DEF Removed, RemovalDisturbed, NoChunks

LEMMA UploadTyped ==
  ASSUME TypeInv, NEW u \in Uploads, Upload(u), ~Invalidate(u)
  PROVE  TypeInv'
  <1> USE UploadAssumption
      DEF TypeInv, TypeOK, ProgramCounters, Procs, Chunks, Time, Record, FileRecord,
          UploadPcs, DeleterPcs, CleanerPcs, Assembling, Outcomes, uploadVars,
          Goto, Step, Answer
  <1>1. CASE MakeFolder(u)
    BY <1>1 DEF MakeFolder
  <1>2. CASE OpenChunk(u)
    <2> HIDE DEF Goto, Step, Answer
    <2>1. Control'
      BY <1>2, AnswerTyped, StepTyped DEF OpenChunk, Control
    <2>2. chunk' \in [Chunks -> {"absent", "partial", "whole"}]
      BY <1>2 DEF OpenChunk
    <2> QED BY <1>2, <2>1, <2>2 DEF OpenChunk, Control
  <1>3. CASE SaveChunk(u)
    BY <1>3 DEF SaveChunk
  <1>4. CASE AcquireLock(u)
    BY <1>4 DEF AcquireLock
  <1>5. CASE SaveRecord(u)
    BY <1>5 DEF SaveRecord
  <1>6. CASE CountChunks(u)
    <2> HIDE DEF Goto, Step, Answer
    <2>1. Control'
      BY <1>6, AnswerTyped, StepTyped DEF CountChunks, Control
    <2> QED BY <1>6, <2>1 DEF CountChunks, Control
  <1>7. CASE CheckTarget(u)
    <2> HIDE DEF Goto, Step, Answer
    <2>1. Control'
      BY <1>7, AnswerTyped, StepTyped DEF CheckTarget, Control
    <2>2. target' \in File \cup {NoFile}
      BY <1>7 DEF CheckTarget
    <2> QED BY <1>7, <2>1, <2>2 DEF CheckTarget, Control
  <1>8. CASE CreateTarget(u)
    BY <1>8 DEF CreateTarget, File
  <1>9. CASE CopyChunk(u)
    <2>1. copied[u] \in 0 .. Count /\ copied[u] + 1 \in 0 .. Count
      BY <1>9 DEF CopyChunk
    <2>2. CASE target = NoFile \/ u \notin target.writers
      BY <1>9, <2>1, <2>2 DEF CopyChunk
    <2>3. CASE ~(target = NoFile \/ u \notin target.writers)
      <3>1. PICK sound \in BOOLEAN :
               target' = [target EXCEPT !.length = copied[u] + 1, !.sound = sound]
        BY <1>9, <2>3 DEF CopyChunk, File
      <3>2. target' \in File
        BY <2>1, <2>3, <3>1 DEF File
      <3> QED BY <1>9, <2>1, <3>2 DEF CopyChunk
    <2> QED BY <2>2, <2>3
  <1>10. CASE CopyFails(u)
    <2>1. Control' /\ target' \in File \cup {NoFile}
      BY <1>10, AnswerTyped, CloseTyped DEF CopyFails, Control
    <2> QED BY <1>10, <2>1 DEF CopyFails, Control
  <1>11. CASE RemoveChunks(u)
    <2> HIDE DEF Goto, Step, Answer
    <2>1. Control' /\ target' \in File \cup {NoFile}
      BY <1>11, AnswerTyped, StepTyped, CloseTyped DEF RemoveChunks, Control
    <2>2. dir' \in BOOLEAN /\ chunk' \in [Chunks -> {"absent", "partial", "whole"}]
      BY <1>11, RemovalTyped DEF RemoveChunks
    <2> QED BY <1>11, <2>1, <2>2 DEF RemoveChunks, Control
  <1>12. CASE PostProcess(u)
    <2>1. Control'
      BY <1>12, AnswerTyped DEF PostProcess, Control
    <2> QED BY <1>12, <2>1 DEF PostProcess, Control
  <1> QED BY <1>1, <1>2, <1>3, <1>4, <1>5, <1>6, <1>7, <1>8, <1>9, <1>10, <1>11, <1>12 DEF Upload

LEMMA InvalidateTyped ==
  ASSUME TypeInv, NEW p \in Uploads \cup {Deleter}, Invalidate(p)
  PROVE  TypeInv'
  <1> USE UploadAssumption
      DEF TypeInv, TypeOK, ProgramCounters, Procs, Chunks, Time, Record, FileRecord,
          UploadPcs, DeleterPcs, CleanerPcs, Assembling, Outcomes, uploadVars,
          Goto, Step, Answer
  <1>1. CASE Query(p)
    BY <1>1 DEF Query
  <1>2. CASE InvalidateChunk(p)
    BY <1>2 DEF InvalidateChunk
  <1>3. CASE InvalidateFails(p)
    <2>1. CASE p \in Uploads
      <3>1. Control' /\ target' \in File \cup {NoFile}
        BY <1>3, <2>1, AnswerTyped, CloseTyped DEF InvalidateFails, Control
      <3> QED BY <1>3, <3>1 DEF InvalidateFails, Control
    <2>2. CASE p \notin Uploads
      <3> HIDE DEF Goto, Step, Answer
      <3>1. Control'
        BY <1>3, <2>2, DeleterStepTyped DEF InvalidateFails, Control
      <3> QED BY <1>3, <2>2, <3>1 DEF InvalidateFails, Control
    <2> QED BY <2>1, <2>2
  <1>4. CASE Invalidated(p)
    <2> HIDE DEF Goto, Step, Answer
    <2>1. CASE p \in Uploads
      <3>1. Control' /\ target' \in File \cup {NoFile}
        BY <1>4, <2>1, StepTyped, CloseTyped DEF Invalidated, Control
      <3> QED BY <1>4, <3>1 DEF Invalidated, Control
    <2>2. CASE p \notin Uploads
      <3> HIDE DEF Goto, Step, Answer
      <3>1. Control'
        BY <1>4, <2>2, DeleterStepTyped DEF Invalidated, Control
      <3> QED BY <1>4, <2>2, <3>1 DEF Invalidated, Control
    <2> QED BY <2>1, <2>2
  <1> QED BY <1>1, <1>2, <1>3, <1>4 DEF Invalidate

LEMMA CleanupTyped ==
  ASSUME TypeInv, Cleanup
  PROVE  TypeInv'
  <1> USE UploadAssumption
      DEF TypeInv, TypeOK, ProgramCounters, Procs, Chunks, Time, Record, FileRecord,
          UploadPcs, DeleterPcs, CleanerPcs, Assembling, Outcomes, uploadVars,
          Goto, Step, Answer
  <1>1. CASE StartCleanup
    BY <1>1 DEF StartCleanup
  <1>2. CASE CleanFile
    BY <1>2 DEF CleanFile
  <1>3. CASE FilesCleaned
    BY <1>3 DEF FilesCleaned
  <1>4. CASE CleanChunk
    BY <1>4 DEF CleanChunk
  <1>5. CASE CleanupFails
    BY <1>5 DEF CleanupFails
  <1>6. CASE EndCleanup
    <2>1. dir' \in BOOLEAN /\ chunk' \in [Chunks -> {"absent", "partial", "whole"}]
      BY <1>6, RemovalTyped DEF EndCleanup
    <2> QED BY <1>6, <2>1 DEF EndCleanup
  <1> QED BY <1>1, <1>2, <1>3, <1>4, <1>5, <1>6 DEF Cleanup

LEMMA OthersTyped ==
  ASSUME TypeInv, DeleteChunks \/ Tick \/ \E u \in Uploads : Crash(u)
  PROVE  TypeInv'
  <1> USE UploadAssumption
      DEF TypeInv, TypeOK, ProgramCounters, Procs, Chunks, Time, Record, FileRecord,
          UploadPcs, DeleterPcs, CleanerPcs, Assembling, Outcomes, uploadVars,
          Goto, Step
  <1>1. CASE DeleteChunks
    <2>1. dir' \in BOOLEAN /\ chunk' \in [Chunks -> {"absent", "partial", "whole"}]
      BY <1>1, RemovalTyped DEF DeleteChunks
    <2> HIDE DEF Goto, Step
    <2>2. Control'
      BY <1>1, DeleterStepTyped DEF DeleteChunks, Control
    <2> QED BY <1>1, <2>1, <2>2 DEF DeleteChunks, Control
  <1>2. CASE Tick
    BY <1>2 DEF Tick
  <1>3. CASE \E u \in Uploads : Crash(u)
    <2>1. Control' /\ target' \in File \cup {NoFile}
      BY <1>3, AnswerTyped, CloseTyped DEF Crash, Control
    <2> QED BY <1>3, <2>1 DEF Crash, Control
  <1> QED BY <1>1, <1>2, <1>3

(***************************************************************************)
(* What holds when each chunk is sent once.                                *)
(***************************************************************************)
InLock == \A u \in Uploads : pc[u] \in {"record", "count"} => lock = u

RecordsFit ==
    /\ IsFiniteSet(records)
    /\ \A r \in records : pc[r.by] \in Assembling \cup {"count", "done"}
    /\ \A r, q \in records : r.by = q.by => r = q

\* A chunk that was never filled belongs to a request without a record.
PartialChunks ==
    \A u \in Uploads :
       chunk[ChunkOf[u]] = "partial"
       => pc[u] \in {"save", "done"} /\ \A r \in records : r.by # u

\* Who assembles is the last, and finds no chunk that is being written.
LastAlone ==
    \A u \in Uploads :
       pc[u] \in Assembling
       => /\ \A v \in Uploads \ {u} : pc[v] = "done"
          /\ \A k \in Chunks : chunk[k] # "partial"

\* What has been copied so far is in the target, if that is still there.
TargetFits ==
    \A u \in Uploads :
       /\ pc[u] \notin {"copy", "query", "invalidate", "postprocess", "done"}
             => copied[u] = 0
       /\ pc[u] = "create" => target = NoFile
       /\ pc[u] \in {"copy", "query", "invalidate"} /\ target # NoFile
             => target.writers = {u} /\ target.length = copied[u] /\ target.sound
       /\ pc[u] \in {"query", "invalidate"} => copied[u] = Count
       /\ pc[u] = "postprocess" /\ target # NoFile
             => target.length = Count /\ target.sound

UploadInv == InLock /\ RecordsFit /\ PartialChunks /\ LastAlone /\ TargetFits

LEMMA AllChunksRecorded ==
  ASSUME TypeInv, RecordsFit, OneRequestPerChunk, Completed
  PROVE  /\ \A u \in Uploads : \E r \in records : r.by = u
         /\ \A k \in Chunks : \E r \in records : ChunkOf[r.by] = k
  <1> DEFINE f == [r \in records |-> ChunkOf[r.by]]
  <1>1. \A r \in records : r.by \in Uploads /\ ChunkOf[r.by] \in Chunks
    BY UploadAssumption DEF TypeInv, TypeOK, Record
  <1>2. f \in Injection(records, Chunks)
    <2>1. f \in [records -> Chunks]
      BY <1>1
    <2>2. ASSUME NEW r \in records, NEW q \in records, f[r] = f[q]
          PROVE  r = q
      BY <1>1, <2>2 DEF OneRequestPerChunk, RecordsFit
    <2> QED BY <2>1, <2>2 DEF Injection, IsInjective
  <1>3. IsFiniteSet(Chunks) /\ Cardinality(Chunks) = Count
    BY FS_Interval, UploadAssumption DEF Chunks
  <1>4. f \in Surjection(records, Chunks)
    BY <1>2, <1>3, FS_Injection DEF RecordsFit, Completed
  <1>5. \A k \in Chunks : \E r \in records : ChunkOf[r.by] = k
    BY <1>4 DEF Surjection
  <1>6. ASSUME NEW u \in Uploads
        PROVE  \E r \in records : r.by = u
    BY <1>1, <1>5, UploadAssumption DEF OneRequestPerChunk
  <1> QED BY <1>5, <1>6

\* Everybody but the requests that upload: records, chunks and the target
\* can only go.
LEMMA OthersRespect ==
  ASSUME TypeInv, UploadInv,
         \A u \in Uploads : pc'[u] = pc[u],
         lock' = lock, copied' = copied,
         records' \subseteq records,
         target' = target \/ target' = NoFile,
         \A k \in Chunks : chunk'[k] \in {chunk[k], "absent"}
  PROVE  UploadInv'
  <1> USE DEF UploadInv
  <1>a. /\ \A u \in Uploads : ChunkOf[u] \in Chunks
        /\ \A r \in records : r.by \in Uploads
    BY UploadAssumption DEF TypeInv, TypeOK, Record
  <1>1. InLock'
    BY DEF InLock
  <1>2. RecordsFit'
    <2>1. IsFiniteSet(records')
      BY FS_Subset DEF RecordsFit
    <2> QED BY <1>a, <2>1 DEF RecordsFit
  <1>3. PartialChunks'
    BY <1>a DEF PartialChunks
  <1>4. LastAlone'
    BY DEF LastAlone
  <1>5. TargetFits'
    BY DEF TargetFits
  <1> QED BY <1>1, <1>2, <1>3, <1>4, <1>5

\* A request that assembles moves on, or any request ends.
LEMMA MovesOn ==
  ASSUME TypeInv, UploadInv, NEW u \in Uploads,
         \A v \in Uploads \ {u} : pc'[v] = pc[v],
         \/ pc[u] \in Assembling /\ pc'[u] \in Assembling \cup {"done"}
         \/ pc'[u] = "done",
         lock' = lock,
         records' \subseteq records,
         \A k \in Chunks : chunk'[k] \in {chunk[k], "absent"}
  PROVE  InLock' /\ RecordsFit' /\ PartialChunks' /\ LastAlone'
  <1> USE DEF UploadInv, Assembling
  <1>a. /\ \A v \in Uploads : ChunkOf[v] \in Chunks
        /\ \A r \in records : r.by \in Uploads
    BY UploadAssumption DEF TypeInv, TypeOK, Record
  <1>1. InLock'
    BY DEF InLock
  <1>2. RecordsFit'
    <2>1. IsFiniteSet(records')
      BY FS_Subset DEF RecordsFit
    <2> QED BY <1>a, <2>1 DEF RecordsFit
  <1>3. PartialChunks'
    BY <1>a DEF PartialChunks
  <1>4. LastAlone'
    BY DEF LastAlone
  <1> QED BY <1>1, <1>2, <1>3, <1>4

\* A request before it assembles, or one that ends, leaves the target sound.
LEMMA TargetKept ==
  ASSUME UploadInv, NEW u \in Uploads,
         \A v \in Uploads \ {u} : pc'[v] = pc[v],
         pc[u] # "done",
         \/ pc'[u] = "done"
         \/ pc'[u] \notin Assembling /\ pc[u] \notin Assembling
         \/ pc'[u] = "exists" /\ pc[u] \notin Assembling,
         copied' = copied
  PROVE  TargetFits'
  BY DEF UploadInv, TargetFits, LastAlone, Assembling

\* A request that assembles changes the target, and nobody else works on it.
LEMMA TargetChanged ==
  ASSUME UploadInv, NEW u \in Uploads,
         pc[u] \in Assembling,
         \A v \in Uploads \ {u} : pc'[v] = pc[v]
  PROVE  \A v \in Uploads \ {u} : pc'[v] = "done"
  BY DEF UploadInv, LastAlone

LEMMA EarlyStepKeepsInv ==
  ASSUME TypeInv, UploadInv, OneRequestPerChunk, NEW u \in Uploads,
         MakeFolder(u) \/ OpenChunk(u) \/ SaveChunk(u) \/ AcquireLock(u) \/ SaveRecord(u)
  PROVE  UploadInv'
  <1> USE DEF TypeInv, TypeOK, Procs, Goto, Step, Answer
  <1>a. /\ \A v \in Uploads : ChunkOf[v] \in Chunks
        /\ \A r \in records : r.by \in Uploads
        /\ u \in Procs /\ Uploads \subseteq Procs
        /\ \A v \in Uploads \ {u} : ChunkOf[v] # ChunkOf[u]
    BY UploadAssumption DEF Record, OneRequestPerChunk
  <1>b. \A v \in Uploads : pc[v] \notin Assembling
    BY DEF UploadInv, LastAlone, MakeFolder, OpenChunk, SaveChunk, AcquireLock, SaveRecord,
           Assembling
  <1>1. CASE MakeFolder(u)
    <2>1. InLock' /\ RecordsFit' /\ PartialChunks'
      BY <1>1, <1>a DEF MakeFolder, UploadInv, InLock, RecordsFit, PartialChunks, Assembling
    <2>2. LastAlone'
      BY <1>1, <1>a, <1>b DEF MakeFolder, LastAlone, Assembling
    <2>3. TargetFits'
      BY <1>1, <1>a, <1>b, TargetKept DEF MakeFolder, Assembling
    <2> QED BY <2>1, <2>2, <2>3 DEF UploadInv
  <1>2. CASE OpenChunk(u)
    <2>1. CASE dir /\ Step(u, "save")
      <3>1. chunk' = [chunk EXCEPT ![ChunkOf[u]] = "partial"] /\ records' = records
        BY <1>2, <2>1 DEF OpenChunk
      <3>2. \A r \in records : r.by # u
        BY <1>2 DEF OpenChunk, UploadInv, RecordsFit, Assembling
      <3>3. InLock' /\ RecordsFit'
        BY <1>2, <2>1, <1>a DEF OpenChunk, UploadInv, InLock, RecordsFit, Assembling
      <3>4. PartialChunks'
        BY <1>2, <2>1, <3>1, <3>2, <1>a DEF OpenChunk, UploadInv, PartialChunks
      <3>5. LastAlone'
        BY <1>2, <2>1, <1>a, <1>b DEF OpenChunk, LastAlone, Assembling
      <3>6. TargetFits'
        BY <1>2, <2>1, <1>a, <1>b, TargetKept DEF OpenChunk, Assembling
      <3> QED BY <3>3, <3>4, <3>5, <3>6 DEF UploadInv
    <2>2. CASE ~dir /\ Answer(u, "error")
      <3>1. InLock' /\ RecordsFit' /\ PartialChunks' /\ LastAlone'
        BY <1>2, <2>2, <1>a, MovesOn DEF OpenChunk
      <3>2. TargetFits'
        BY <1>2, <2>2, <1>a, TargetKept DEF OpenChunk
      <3> QED BY <3>1, <3>2 DEF UploadInv
    <2> QED BY <1>2, <2>1, <2>2 DEF OpenChunk
  <1>3. CASE SaveChunk(u)
    <2>1. /\ chunk'[ChunkOf[u]] # "partial"
          /\ \A v \in Uploads \ {u} : chunk'[ChunkOf[v]] = chunk[ChunkOf[v]]
      BY <1>3, <1>a DEF SaveChunk
    <2>2. InLock' /\ RecordsFit' /\ PartialChunks'
      BY <1>3, <1>a, <2>1
      DEF SaveChunk, UploadInv, InLock, RecordsFit, PartialChunks, Assembling
    <2>3. LastAlone'
      BY <1>3, <1>a, <1>b DEF SaveChunk, LastAlone, Assembling
    <2>4. TargetFits'
      BY <1>3, <1>a, <1>b, TargetKept DEF SaveChunk, Assembling
    <2> QED BY <2>2, <2>3, <2>4 DEF UploadInv
  <1>4. CASE AcquireLock(u)
    <2>1. InLock' /\ RecordsFit' /\ PartialChunks'
      BY <1>4, <1>a, UploadAssumption
      DEF AcquireLock, UploadInv, InLock, RecordsFit, PartialChunks, Assembling
    <2>2. LastAlone'
      BY <1>4, <1>a, <1>b DEF AcquireLock, LastAlone, Assembling
    <2>3. TargetFits'
      BY <1>4, <1>a, <1>b, TargetKept DEF AcquireLock, Assembling
    <2> QED BY <2>1, <2>2, <2>3 DEF UploadInv
  <1>5. CASE SaveRecord(u)
    <2>1. \A r \in records : r.by # u
      BY <1>5 DEF SaveRecord, UploadInv, RecordsFit, Assembling
    <2>2. IsFiniteSet(records')
      BY <1>5, FS_AddElement DEF SaveRecord, UploadInv, RecordsFit
    <2>3. RecordsFit'
      BY <1>5, <1>a, <2>1, <2>2 DEF SaveRecord, UploadInv, RecordsFit, Assembling
    <2>4. InLock' /\ PartialChunks'
      BY <1>5, <1>a DEF SaveRecord, UploadInv, InLock, PartialChunks
    <2>5. LastAlone'
      BY <1>5, <1>a, <1>b DEF SaveRecord, LastAlone, Assembling
    <2>6. TargetFits'
      BY <1>5, <1>a, <1>b, TargetKept DEF SaveRecord, Assembling
    <2> QED BY <2>3, <2>4, <2>5, <2>6 DEF UploadInv
  <1> QED BY <1>1, <1>2, <1>3, <1>4, <1>5

LEMMA CountKeepsInv ==
  ASSUME TypeInv, UploadInv, OneRequestPerChunk, NEW u \in Uploads, CountChunks(u)
  PROVE  UploadInv'
  <1> USE DEF TypeInv, TypeOK, Procs, Goto, Step, Answer
  <1>a. /\ \A v \in Uploads : ChunkOf[v] \in Chunks
        /\ \A r \in records : r.by \in Uploads
        /\ u \in Procs /\ Uploads \subseteq Procs
    BY UploadAssumption DEF Record
  <1>b. /\ \A v \in Uploads : pc[v] \notin Assembling
        /\ \A v \in Uploads \ {u} : pc[v] \notin {"record", "count"}
        /\ lock = u
    BY DEF UploadInv, LastAlone, InLock, CountChunks, Assembling
  <1>1. InLock'
    BY <1>a, <1>b DEF CountChunks, InLock
  <1>2. RecordsFit' /\ PartialChunks'
    BY <1>a DEF CountChunks, UploadInv, RecordsFit, PartialChunks, Assembling
  <1>3. LastAlone'
    <2>1. CASE Completed
      <3>1. /\ \A v \in Uploads : \E r \in records : r.by = v
            /\ \A k \in Chunks : \E r \in records : ChunkOf[r.by] = k
        BY <2>1, AllChunksRecorded DEF UploadInv
      <3>2. \A v \in Uploads \ {u} : pc[v] = "done"
        BY <3>1, <1>b DEF UploadInv, RecordsFit
      <3>3. \A k \in Chunks : chunk[k] # "partial"
        BY <3>1, <1>a DEF UploadInv, PartialChunks
      <3> QED BY <1>a, <1>b, <2>1, <3>2, <3>3 DEF CountChunks, LastAlone
    <2>2. CASE ~Completed
      BY <1>a, <1>b, <2>2 DEF CountChunks, LastAlone, Assembling
    <2> QED BY <2>1, <2>2
  <1>4. TargetFits'
    BY <1>a, <1>b, TargetKept DEF CountChunks, Assembling
  <1> QED BY <1>1, <1>2, <1>3, <1>4 DEF UploadInv

LEMMA LateStepKeepsInv ==
  ASSUME TypeInv, UploadInv, NEW u \in Uploads,
         \/ CheckTarget(u) \/ CreateTarget(u) \/ CopyChunk(u) \/ CopyFails(u)
         \/ RemoveChunks(u) \/ Invalidate(u) \/ PostProcess(u) \/ Crash(u)
  PROVE  UploadInv'
  <1> USE DEF TypeInv, TypeOK, Procs, Goto, Step, Answer, Close
  <1>a. /\ u \in Procs /\ Uploads \subseteq Procs
        /\ pc[u] # "done"
        /\ Count \in Nat
    BY UploadAssumption
    DEF CheckTarget, CreateTarget, CopyChunk, CopyFails, RemoveChunks, PostProcess, Crash,
        Invalidate, Query, InvalidateChunk, InvalidateFails, Invalidated
  <1>b. pc[u] \in Assembling \/ Crash(u)
    BY DEF CheckTarget, CreateTarget, CopyChunk, CopyFails, RemoveChunks, PostProcess,
           Invalidate, Query, InvalidateChunk, InvalidateFails, Invalidated, Assembling
  <1>c. InLock' /\ RecordsFit' /\ PartialChunks' /\ LastAlone'
    <2>1. CASE CheckTarget(u)
      BY <2>1, <1>a, MovesOn DEF CheckTarget, Assembling
    <2>2. CASE CreateTarget(u)
      BY <2>2, <1>a, MovesOn DEF CreateTarget, Assembling
    <2>3. CASE CopyChunk(u)
      BY <2>3, <1>a, MovesOn DEF CopyChunk, Assembling
    <2>4. CASE CopyFails(u)
      BY <2>4, <1>a, MovesOn DEF CopyFails
    <2>5. CASE RemoveChunks(u)
      <3>1. \A k \in Chunks : chunk'[k] \in {chunk[k], "absent"}
        BY <2>5 DEF RemoveChunks, Removed, RemovalDisturbed, NoChunks
      <3>2. pc'[u] \in {"query", "done"}
        BY <2>5, <1>a DEF RemoveChunks
      <3> QED BY <2>5, <3>1, <3>2, <1>a, MovesOn DEF RemoveChunks, Assembling
    <2>6. CASE Query(u)
      BY <2>6, <1>a, MovesOn DEF Query, uploadVars, Assembling
    <2>7. CASE InvalidateChunk(u)
      BY <2>7, <1>a, MovesOn DEF InvalidateChunk, Assembling
    <2>8. CASE InvalidateFails(u)
      BY <2>8, <1>a, MovesOn DEF InvalidateFails
    <2>9. CASE Invalidated(u)
      BY <2>9, <1>a, MovesOn DEF Invalidated, Assembling
    <2>10. CASE PostProcess(u)
      BY <2>10, <1>a, MovesOn DEF PostProcess
    <2>11. CASE Crash(u)
      BY <2>11, <1>a, MovesOn DEF Crash
    <2> QED BY <2>1, <2>2, <2>3, <2>4, <2>5, <2>6, <2>7, <2>8, <2>9, <2>10, <2>11
            DEF Invalidate
  <1>d. CASE pc'[u] = "done"
    <2>1. copied' = copied /\ \A v \in Uploads \ {u} : pc'[v] = pc[v]
      BY <1>d, <1>a
      DEF CheckTarget, CreateTarget, CopyChunk, CopyFails, RemoveChunks, PostProcess, Crash,
          Invalidate, Query, InvalidateChunk, InvalidateFails, Invalidated
    <2> QED BY <1>a, <1>c, <1>d, <2>1, TargetKept DEF UploadInv
  <1>e. CASE pc'[u] # "done"
    <2>1. ~Crash(u) /\ pc[u] \in Assembling
      BY <1>a, <1>b, <1>e DEF Crash
    <2>2. \A v \in Uploads \ {u} : pc'[v] = pc[v]
      BY <1>a, <2>1
      DEF CheckTarget, CreateTarget, CopyChunk, CopyFails, RemoveChunks, PostProcess,
          Invalidate, Query, InvalidateChunk, InvalidateFails, Invalidated
    <2>3. \A v \in Uploads \ {u} : pc'[v] = "done"
      BY <2>1, <2>2, TargetChanged
    <2>4. SUFFICES TargetFits'
      BY <1>c DEF UploadInv
    <2>5. CASE CheckTarget(u)
      BY <2>5, <2>3, <1>a, <1>e DEF CheckTarget, UploadInv, TargetFits
    <2>6. CASE CreateTarget(u)
      BY <2>6, <2>3, <1>a DEF CreateTarget, UploadInv, TargetFits
    <2>7. CASE CopyChunk(u)
      <3>1. chunk[copied[u]] = "whole"
        BY <2>7, <2>1, UploadAssumption DEF CopyChunk, UploadInv, LastAlone, Chunks
      <3>2. pc'[u] = "copy" /\ copied'[u] = copied[u] + 1
        BY <2>7 DEF CopyChunk
      <3>3. target # NoFile
            => target.writers = {u} /\ target.length = copied[u] /\ target.sound
        BY <2>7 DEF CopyChunk, UploadInv, TargetFits
      <3>4. target' # NoFile
            => target'.writers = {u} /\ target'.length = copied'[u] /\ target'.sound
        BY <2>7, <3>1, <3>2, <3>3 DEF CopyChunk, File
      <3> QED BY <2>3, <3>2, <3>4 DEF TargetFits
    <2>8. CASE RemoveChunks(u)
      BY <2>8, <2>3, <1>a, <1>e DEF RemoveChunks, UploadInv, TargetFits
    <2>9. CASE Query(u)
      BY <2>9, <2>3, <1>a DEF Query, uploadVars, UploadInv, TargetFits
    <2>10. CASE InvalidateChunk(u)
      BY <2>10, <2>3, <1>a DEF InvalidateChunk, UploadInv, TargetFits
    <2>11. CASE Invalidated(u)
      BY <2>11, <2>3, <1>a DEF Invalidated, UploadInv, TargetFits, File
    <2> QED BY <1>a, <1>e, <2>1, <2>5, <2>6, <2>7, <2>8, <2>9, <2>10, <2>11
            DEF CopyFails, PostProcess, Invalidate, InvalidateFails
  <1> QED BY <1>d, <1>e

LEMMA OtherStepKeepsInv ==
  ASSUME TypeInv, UploadInv, Delete \/ Cleanup \/ Tick
  PROVE  UploadInv'
  <1> USE UploadAssumption DEF TypeInv, TypeOK, Procs, Goto, Step, uploadVars
  <1>1. CASE DeleteChunks
    <2>1. \A k \in Chunks : chunk'[k] \in {chunk[k], "absent"}
      BY <1>1 DEF DeleteChunks, Removed, RemovalDisturbed, NoChunks
    <2> QED BY <1>1, <2>1, OthersRespect DEF DeleteChunks
  <1>2. CASE Invalidate(Deleter)
    BY <1>2, OthersRespect
    DEF Invalidate, Query, InvalidateChunk, InvalidateFails, Invalidated
  <1>3. CASE StartCleanup \/ CleanFile \/ FilesCleaned
    BY <1>3, OthersRespect DEF StartCleanup, CleanFile, FilesCleaned
  <1>4. CASE CleanChunk
    <2>1. \A k \in Chunks : chunk'[k] \in {chunk[k], "absent"}
      BY <1>4 DEF CleanChunk
    <2> QED BY <1>4, <2>1, OthersRespect DEF CleanChunk
  <1>5. CASE CleanupFails
    BY <1>5, OthersRespect DEF CleanupFails
  <1>6. CASE EndCleanup
    <2>1. \A k \in Chunks : chunk'[k] \in {chunk[k], "absent"}
      BY <1>6 DEF EndCleanup, Removed, RemovalDisturbed, NoChunks
    <2> QED BY <1>6, <2>1, OthersRespect DEF EndCleanup
  <1>7. CASE Tick
    BY <1>7, OthersRespect DEF Tick
  <1> QED BY <1>1, <1>2, <1>3, <1>4, <1>5, <1>6, <1>7 DEF Delete, Cleanup

(***************************************************************************)
(* Theorems                                                                *)
(***************************************************************************)
LEMMA TypeStep == TypeInv /\ [Next]_vars => TypeInv'
  <1> SUFFICES ASSUME TypeInv, [Next]_vars PROVE TypeInv'
    OBVIOUS
  <1>1. CASE Next
    BY <1>1, UploadTyped, InvalidateTyped, CleanupTyped, OthersTyped DEF Next, Delete, Upload
  <1>2. CASE UNCHANGED vars
    BY <1>2 DEF vars, uploadVars, TypeInv, TypeOK, ProgramCounters
  <1> QED BY <1>1, <1>2

LEMMA InvInit == Init => UploadInv
  <1> SUFFICES ASSUME Init PROVE UploadInv
    OBVIOUS
  <1>1. /\ \A u \in Uploads : pc[u] = "mkdir" /\ copied[u] = 0
                              /\ ChunkOf[u] \in Chunks
        /\ \A k \in Chunks : chunk[k] = "absent"
        /\ records = {}
    BY UploadAssumption DEF Init, Procs, NoChunks
  <1> QED BY <1>1, FS_EmptySet
          DEF UploadInv, InLock, RecordsFit, PartialChunks, LastAlone, TargetFits, Assembling

LEMMA InvStep ==
  ASSUME OneRequestPerChunk, TypeInv, UploadInv, [Next]_vars
  PROVE  UploadInv'
  <1>1. CASE Next
    BY <1>1, EarlyStepKeepsInv, CountKeepsInv, LateStepKeepsInv, OtherStepKeepsInv
    DEF Next, Upload
  <1>2. CASE UNCHANGED vars
    BY <1>2 DEF vars, uploadVars, UploadInv, InLock, RecordsFit, PartialChunks, LastAlone,
                TargetFits, Completed
  <1> QED BY <1>1, <1>2

(* Whatever is deleted, cleaned up or killed, and however the client       *)
(* repeats chunks, requests, chunks and records stay of their types.       *)
THEOREM UploadTypeCorrect == Spec => []TypeOK
  <1>1. TypeInv => TypeOK
    BY DEF TypeInv
  <1> QED BY <1>1, InitTyped, TypeStep, PTL DEF Spec

LEMMA InvHolds == OneRequestPerChunk => (Spec => [](TypeInv /\ UploadInv))
  <1> SUFFICES ASSUME OneRequestPerChunk PROVE Spec => [](TypeInv /\ UploadInv)
    OBVIOUS
  <1>1. TypeInv /\ UploadInv /\ [Next]_vars => UploadInv'
    BY InvStep
  <1> QED BY <1>1, InitTyped, TypeStep, InvInit, PTL DEF Spec

(* process_chunked_upload: the lock makes recording a chunk and counting   *)
(* the records one step, so that a single request finds the file complete. *)
THEOREM OneAssembles == OneRequestPerChunk => (Spec => []OneRequestAssembles)
  <1> SUFFICES ASSUME OneRequestPerChunk PROVE Spec => []OneRequestAssembles
    OBVIOUS
  <1>1. UploadInv => OneRequestAssembles
    BY DEF UploadInv, LastAlone, OneRequestAssembles, Assembling
  <1> QED BY <1>1, InvHolds, PTL

(* process_chunked_upload, _post_process: the file the client is told of   *)
(* is the chunks one after the other, each of them completely written.     *)
THEOREM WholeFilesAnswered == OneRequestPerChunk => (Spec => AnsweredFilesAreWhole)
  <1> SUFFICES ASSUME OneRequestPerChunk PROVE Spec => AnsweredFilesAreWhole
    OBVIOUS
  <1>1. ASSUME TypeInv, UploadInv, Next
        PROVE  AnswersWholeFile
    <2>1. SUFFICES ASSUME NEW u \in Uploads, outcome[u] = "none", outcome'[u] = "file"
                   PROVE  target # NoFile /\ target.length = Count /\ target.sound
      BY DEF AnswersWholeFile
    <2>2. PostProcess(u) /\ target # NoFile
      <3>1. outcome # outcome'
        BY <2>1
      <3>2. ASSUME NEW v \in Uploads, Upload(v) PROVE PostProcess(u) /\ target # NoFile
        <4>1. \A answer : Answer(v, answer) => v = u /\ (answer = "file" <=> outcome'[u] = "file")
          BY <1>1, <2>1 DEF TypeInv, TypeOK, Answer
        <4>2. \A label : ~Step(v, label)
          BY <3>1 DEF Step
        <4>3. CASE Invalidate(v)
          BY <2>1, <3>1, <3>2, <4>1, <4>2, <4>3
          DEF Invalidate, Query, InvalidateChunk, InvalidateFails, Invalidated
        <4>4. CASE PostProcess(v)
          BY <2>1, <4>1, <4>4 DEF PostProcess
        <4>5. CASE ~Invalidate(v) /\ ~PostProcess(v)
          BY <2>1, <3>1, <3>2, <4>1, <4>2, <4>5
          DEF Upload, uploadVars, MakeFolder, OpenChunk, SaveChunk, AcquireLock, SaveRecord,
              CountChunks, CheckTarget, CreateTarget, CopyChunk, CopyFails, RemoveChunks
        <4> QED BY <4>3, <4>4, <4>5
      <3>3. CASE Delete \/ Cleanup \/ Tick
        BY <1>1, <2>1, <3>1, <3>3, UploadAssumption
        DEF Delete, DeleteChunks, Invalidate, Query, InvalidateChunk, InvalidateFails,
            Invalidated, Cleanup, StartCleanup, CleanFile, FilesCleaned, CleanChunk,
            CleanupFails, EndCleanup, Tick, Step, uploadVars
      <3>4. ASSUME NEW v \in Uploads, Crash(v) PROVE FALSE
        BY <1>1, <2>1, <3>4 DEF Crash, Answer, TypeInv, TypeOK
      <3> QED BY <1>1, <3>2, <3>3, <3>4 DEF Next
    <2> QED BY <1>1, <2>2 DEF PostProcess, UploadInv, TargetFits
  <1>2. TypeInv /\ UploadInv /\ [Next]_vars => [AnswersWholeFile]_vars
    BY <1>1
  <1>3. Spec => [](TypeInv /\ UploadInv)
    BY InvHolds
  <1> QED BY <1>2, <1>3, PTL DEF Spec, AnsweredFilesAreWhole

-----------------------------------------------------------------------------
(***************************************************************************)
(* The jobs.                                                               *)
(***************************************************************************)
LEMMA JobsInitTyped == JobsInit => JobsTypeOK
  BY JobsAssumption DEF JobsInit, JobsTypeOK, States, Ended

LEMMA JobRequestTyped ==
  ASSUME JobsTypeOK, NEW j \in Jobs, Request(j)
  PROVE  JobsTypeOK'
  BY DEF Request, MakeJob, Enqueue, EnqueueFails, projectVars, JobsTypeOK, States

LEMMA JobRunTyped ==
  ASSUME JobsTypeOK, NEW j \in Jobs, Run(j)
  PROVE  JobsTypeOK'
  <1> USE DEF JobsTypeOK, States, Ended, Working, GoOn, projectVars
  <1>1. CASE Dequeue(j) \/ Start(j) \/ LoadProject(j)
    BY <1>1 DEF Dequeue, Start, LoadProject
  <1>2. CASE ProjectIsGone(j)
    BY <1>2 DEF ProjectIsGone, Raise
  <1>3. CASE FinalizeProgress(j) \/ Commit(j)
    BY <1>3 DEF FinalizeProgress, Commit
  <1>4. CASE Push(j) \/ PushToNewBranch(j)
    BY <1>4 DEF Push, PushToNewBranch
  <1>5. CASE JobFails(j)
    BY <1>5 DEF JobFails, Raise
  <1>6. CASE Complete(j)
    BY <1>6 DEF Complete
  <1> QED BY <1>1, <1>2, <1>3, <1>4, <1>5, <1>6 DEF Run

LEMMA JobOthersTyped ==
  ASSUME JobsTypeOK, Fetch \/ Purge \/ CloneAgain \/ \E j \in Jobs : Kill(j)
  PROVE  JobsTypeOK'
  <1>1. CASE Fetch \/ Purge \/ CloneAgain
    BY <1>1 DEF Fetch, Purge, CloneAgain, JobsTypeOK
  <1>2. CASE \E j \in Jobs : Kill(j)
    <2>1. kills' \in 0 .. MaxKills
      BY <1>2, JobsAssumption DEF Kill, JobsTypeOK
    <2> QED BY <1>2, <2>1 DEF Kill, GoOn, JobsTypeOK, projectVars
  <1> QED BY <1>1, <1>2

LEMMA JobsTypeStep == JobsTypeOK /\ [JobsNext]_jobsVars => JobsTypeOK'
  <1> SUFFICES ASSUME JobsTypeOK, [JobsNext]_jobsVars PROVE JobsTypeOK'
    OBVIOUS
  <1>1. CASE JobsNext
    BY <1>1, JobRequestTyped, JobRunTyped, JobOthersTyped DEF JobsNext
  <1>2. CASE UNCHANGED jobsVars
    BY <1>2 DEF jobsVars, projectVars, JobsTypeOK
  <1> QED BY <1>1, <1>2

(* Job records, queue, workers and clone stay of their types.              *)
THEOREM JobsTypeCorrect == JobsSpec => []JobsTypeOK
  BY JobsInitTyped, JobsTypeStep, PTL DEF JobsSpec

(***************************************************************************)
(* A job is in one place only: before its request queues it, in the queue, *)
(* with a worker, or done; only with a worker its record changes.          *)
(***************************************************************************)
RunsOnce ==
    \A j \in Jobs :
       /\ request[j] = "new" => state[j] = "none"
       /\ request[j] \in {"new", "made"} => j \notin queue
       /\ request[j] \in {"new", "made"} \/ j \in queue => worker[j] = "idle"
       /\ j \in Adds /\ HasEnded(j) => worker[j] = "done"

\* What a worker has pushed is on the remote as long as it is in the clone.
PushedOrDropped ==
    \A j \in Adds :
       worker[j] = "complete" \/ state[j] = "COMPLETED"
       => (j \in tree => j \in main \cup side)

JobInv == RunsOnce /\ PushedOrDropped

LEMMA JobInit == JobsInit => JobInv
  BY JobsAssumption DEF JobsInit, JobInv, RunsOnce, PushedOrDropped, HasEnded, Ended

LEMMA RequestKeepsInv ==
  ASSUME JobsTypeOK, JobInv, NEW j \in Jobs, Request(j)
  PROVE  JobInv'
  <1> USE JobsAssumption
      DEF JobsTypeOK, JobInv, RunsOnce, PushedOrDropped, HasEnded, Ended, projectVars
  <1>1. CASE MakeJob(j)
    BY <1>1 DEF MakeJob
  <1>2. CASE Enqueue(j)
    BY <1>2 DEF Enqueue
  <1>3. CASE EnqueueFails(j)
    BY <1>3 DEF EnqueueFails
  <1> QED BY <1>1, <1>2, <1>3 DEF Request

LEMMA RunKeepsInv ==
  ASSUME JobsTypeOK, JobInv, NEW j \in Jobs, Run(j)
  PROVE  JobInv'
  <1> USE JobsAssumption
      DEF JobsTypeOK, JobInv, RunsOnce, PushedOrDropped, HasEnded, Ended, Working, GoOn, Imports,
          projectVars
  <1>1. CASE Dequeue(j)
    BY <1>1 DEF Dequeue
  <1>2. CASE Start(j)
    BY <1>2 DEF Start
  <1>3. CASE LoadProject(j)
    BY <1>3 DEF LoadProject
  <1>4. CASE ProjectIsGone(j)
    BY <1>4 DEF ProjectIsGone, Raise
  <1>5. CASE FinalizeProgress(j)
    BY <1>5 DEF FinalizeProgress
  <1>6. CASE Commit(j)
    BY <1>6 DEF Commit
  <1>7. CASE Push(j)
    BY <1>7 DEF Push
  <1>8. CASE PushToNewBranch(j)
    BY <1>8 DEF PushToNewBranch
  <1>9. CASE JobFails(j)
    BY <1>9 DEF JobFails, Raise
  <1>10. CASE Complete(j)
    BY <1>10 DEF Complete
  <1> QED BY <1>1, <1>2, <1>3, <1>4, <1>5, <1>6, <1>7, <1>8, <1>9, <1>10 DEF Run

LEMMA OthersKeepInv ==
  ASSUME JobsTypeOK, JobInv, Fetch \/ Purge \/ CloneAgain \/ \E j \in Jobs : Kill(j)
  PROVE  JobInv'
  <1> USE JobsAssumption
      DEF JobsTypeOK, JobInv, RunsOnce, PushedOrDropped, HasEnded, Ended, projectVars
  <1>1. CASE Fetch \/ Purge \/ CloneAgain
    BY <1>1 DEF Fetch, Purge, CloneAgain
  <1>2. CASE \E j \in Jobs : Kill(j)
    BY <1>2 DEF Kill, GoOn, Working
  <1> QED BY <1>1, <1>2

LEMMA JobStep == JobsTypeOK /\ JobInv /\ [JobsNext]_jobsVars => JobInv'
  <1> SUFFICES ASSUME JobsTypeOK, JobInv, [JobsNext]_jobsVars PROVE JobInv'
    OBVIOUS
  <1>1. CASE JobsNext
    BY <1>1, RequestKeepsInv, RunKeepsInv, OthersKeepInv DEF JobsNext
  <1>2. CASE UNCHANGED jobsVars
    BY <1>2 DEF jobsVars, projectVars, JobInv, RunsOnce, PushedOrDropped, HasEnded
  <1> QED BY <1>1, <1>2

LEMMA JobInvHolds == JobsSpec => [](JobsTypeOK /\ JobInv)
  BY JobsInitTyped, JobsTypeStep, JobInit, JobStep, PTL DEF JobsSpec

(* dataset_add_remote_file: complete comes after push_changes, in the same *)
(* clone that other jobs and requests use.                                 *)
THEOREM CompletedArePushed == JobsSpec => []CompletedAddsArePushed
  <1>1. JobInv => CompletedAddsArePushed
    BY DEF JobInv, PushedOrDropped, CompletedAddsArePushed, HasEnded, Ended
  <1> QED BY <1>1, JobInvHolds, PTL

(* dataset_add_remote_file: fail_job and complete are the last writes to   *)
(* the record, and no worker takes the job a second time.                  *)
THEOREM EndsOnce == JobsSpec => EndedAddsStay
  <1>1. ASSUME JobsTypeOK, JobInv, JobsNext
        PROVE  EndsStay
    <2>1. SUFFICES ASSUME NEW k \in Adds, HasEnded(k) PROVE state'[k] = state[k]
      BY DEF EndsStay
    <2>2. k \in Jobs /\ worker[k] = "done" /\ k \notin queue /\ request[k] \notin {"new", "made"}
      BY <1>1, <2>1, JobsAssumption DEF JobInv, RunsOnce, JobsTypeOK
    <2>3. CASE \E j \in Jobs : Request(j)
      BY <1>1, <2>2, <2>3 DEF Request, MakeJob, Enqueue, EnqueueFails, JobsTypeOK
    <2>4. CASE \E j \in Jobs : Run(j) \/ Kill(j)
      BY <1>1, <2>2, <2>4
      DEF Run, Dequeue, Start, LoadProject, ProjectIsGone, FinalizeProgress, Commit, Push,
          PushToNewBranch, JobFails, Complete, Kill, Raise, Working, JobsTypeOK
    <2>5. CASE Fetch \/ Purge \/ CloneAgain
      BY <2>5 DEF Fetch, Purge, CloneAgain
    <2> QED BY <1>1, <2>3, <2>4, <2>5 DEF JobsNext
  <1>2. JobsTypeOK /\ JobInv /\ [JobsNext]_jobsVars => [EndsStay]_jobsVars
    BY <1>1
  <1> QED BY <1>2, JobInvHolds, PTL DEF JobsSpec, EndedAddsStay

=============================================================================
