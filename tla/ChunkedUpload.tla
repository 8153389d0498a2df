---------------------------- MODULE ChunkedUpload ----------------------------
(***************************************************************************)
(* One file that a client uploads in chunks: UploadFilesCtrl, the request  *)
(* that deletes the chunks (DeleteFileChunksCtrl) and the file part of the *)
(* cleanup (cache_files_cleanup).  Each chunk is a request of its own; the *)
(* one whose chunk is the last to arrive assembles the file.               *)
(***************************************************************************)
EXTENDS Naturals, FiniteSets

CONSTANTS Uploads,     \* requests that send a chunk
          Count,       \* dztotalchunkcount
          ChunkOf,     \* dzchunkindex of each request
          Deleter,     \* the request that deletes the chunks
          Cleaner,     \* the cleanup
          Free,        \* nobody has the Redis lock
          NoFile,      \* the file does not exist
          Deleting,    \* whether the client deletes the chunks
          TTL,         \* RENKU_SVC_CLEANUP_TTL_FILES
          MaxTime,     \* bound on the clock
          MaxCrashes   \* bound on crashes

Chunks == 0 .. (Count - 1)
Procs == Uploads \cup {Deleter, Cleaner}
Time == 0 .. MaxTime

ASSUME UploadAssumption ==
    /\ Count \in Nat \ {0}
    /\ ChunkOf \in [Uploads -> Chunks]
    /\ IsFiniteSet(Uploads)
    /\ Deleter # Cleaner /\ Deleter \notin Uploads /\ Cleaner \notin Uploads
    /\ Free \notin Uploads
    /\ Deleting \in BOOLEAN
    /\ TTL \in Nat /\ MaxTime \in Nat /\ MaxCrashes \in Nat

VARIABLES
    dir,       \* whether the folder of the chunks exists
    chunk,     \* state of each chunk file
    records,   \* FileChunk records: by whom and when
    lock,      \* chunked_upload_<user>_<id>
    target,    \* the file that is put together
    files,     \* File records of the target: by whom and when
    pc,
    copied,    \* how many chunks a request has copied into the target
    todo,      \* records a process still has to go through
    override,  \* override_existing of the requests
    outcome,   \* what each request was answered
    now,
    crashes

uploadVars == <<dir, chunk, records, lock, target, files>>
vars == <<uploadVars, pc, copied, todo, override, outcome, now, crashes>>

Record == [by : Uploads, at : Time]
FileRecord == [by : Uploads \cup {NoFile}, at : Time]

\* writers: who has the file open; length: chunks in it; sound: in order.
File == [writers : SUBSET Uploads, length : 0 .. Count, sound : BOOLEAN]

\* A file somebody has uploaded before.
OldFile == [writers |-> {}, length |-> 0, sound |-> TRUE]
OldRecord == [by |-> NoFile, at |-> 0]

NoChunks == [k \in Chunks |-> "absent"]

Assembling == {"exists", "create", "copy", "query", "invalidate", "postprocess"}
UploadPcs == {"mkdir", "open", "save", "lock", "record", "count", "done"}
             \cup Assembling
DeleterPcs == {"idle", "query", "invalidate", "done"}
CleanerPcs == {"idle", "files", "chunks", "folder"}
Outcomes == {"none", "stored", "file", "exists", "badArchive", "error", "crashed"}

Init ==
    /\ dir = FALSE
    /\ chunk = NoChunks
    /\ records = {}
    /\ lock = Free
    /\ \/ target = NoFile /\ files = {}
       \/ target = OldFile /\ files = {OldRecord}
    /\ pc = [p \in Procs |-> IF p \in Uploads THEN "mkdir" ELSE "idle"]
    /\ copied = [u \in Uploads |-> 0]
    /\ todo = [p \in Procs |-> {}]
    /\ override \in BOOLEAN
    /\ outcome = [u \in Uploads |-> "none"]
    /\ now = 0
    /\ crashes = 0

TypeOK ==
    /\ dir \in BOOLEAN
    /\ chunk \in [Chunks -> {"absent", "partial", "whole"}]
    /\ records \subseteq Record
    /\ lock \in Uploads \cup {Free}
    /\ target \in File \cup {NoFile}
    /\ files \subseteq FileRecord
    /\ pc \in [Procs -> UploadPcs \cup DeleterPcs \cup CleanerPcs]
    /\ copied \in [Uploads -> 0 .. Count]
    /\ todo \in [Procs -> SUBSET FileRecord]
    /\ override \in BOOLEAN
    /\ outcome \in [Uploads -> Outcomes]
    /\ now \in Time
    /\ crashes \in 0 .. MaxCrashes

Goto(p, label) == pc' = [pc EXCEPT ![p] = label]

\* A request is answered, or raises.
Answer(u, answer) ==
    /\ Goto(u, "done")
    /\ outcome' = [outcome EXCEPT ![u] = answer]

Step(u, label) == Goto(u, label) /\ UNCHANGED outcome

\* Leaving the `with open(target)` block.
Close(u) == target' = IF target = NoFile THEN NoFile
                      ELSE [target EXCEPT !.writers = @ \ {u}]

\* rmtree; a chunk that is written meanwhile makes it fail with the folder left.
Removed == dir' = FALSE /\ chunk' = NoChunks
RemovalDisturbed ==
    \E u \in Uploads :
       /\ pc[u] = "save"
       /\ chunk' = [k \in Chunks |-> IF k = ChunkOf[u] THEN chunk[k] ELSE "absent"]
       /\ UNCHANGED dir

-----------------------------------------------------------------------------
(* process_chunked_upload *)

MakeFolder(u) ==
    /\ pc[u] = "mkdir"
    /\ dir' = TRUE
    /\ Step(u, "open")
    /\ UNCHANGED <<chunk, records, lock, target, files, copied, todo, override, now, crashes>>

\* file.save opens the chunk's file, which empties it, ...
OpenChunk(u) ==
    /\ pc[u] = "open"
    /\ \/ /\ dir
          /\ chunk' = [chunk EXCEPT ![ChunkOf[u]] = "partial"]
          /\ Step(u, "save")
       \/ /\ ~dir
          /\ Answer(u, "error")
          /\ UNCHANGED chunk
    /\ UNCHANGED <<dir, records, lock, target, files, copied, todo, override, now, crashes>>

\* ... and fills it, unless the file is gone or somebody else writes it, too.
SaveChunk(u) ==
    /\ pc[u] = "save"
    /\ LET k == ChunkOf[u]
           shared == \E v \in Uploads \ {u} : pc[v] = "save" /\ ChunkOf[v] = k
       IN chunk' = IF chunk[k] = "partial" /\ ~shared
                   THEN [chunk EXCEPT ![k] = "whole"] ELSE chunk
    /\ Step(u, "lock")
    /\ UNCHANGED <<dir, records, lock, target, files, copied, todo, override, now, crashes>>

\* Mutation: the chunks are recorded and counted without the lock.
AcquireNothing(u) ==
    /\ pc[u] = "lock"
    /\ Step(u, "record")
    /\ UNCHANGED <<uploadVars, copied, todo, override, now, crashes>>

AcquireLock(u) ==
    /\ pc[u] = "lock"
    /\ lock = Free
    /\ lock' = u
    /\ Step(u, "record")
    /\ UNCHANGED <<dir, chunk, records, target, files, copied, todo, override, now, crashes>>

\* Mutation: the record is named after the chunk.
SaveRecordOfIndex(u) ==
    /\ pc[u] = "record"
    /\ records' = records \cup {[by |-> ChunkOf[u], at |-> now]}
    /\ Step(u, "count")
    /\ UNCHANGED <<dir, chunk, lock, target, files, copied, todo, override, now, crashes>>

SaveRecord(u) ==
    /\ pc[u] = "record"
    /\ records' = records \cup {[by |-> u, at |-> now]}
    /\ Step(u, "count")
    /\ UNCHANGED <<dir, chunk, lock, target, files, copied, todo, override, now, crashes>>

\* Mutation: one chunk too early.
CompletedEarly == Cardinality(records) >= Count - 1

Completed == Cardinality(records) = Count

\* Mutation: the lock is not given back.
CountKeepsLock(u) ==
    /\ pc[u] = "count"
    /\ IF Completed THEN Step(u, "exists") ELSE Answer(u, "stored")
    /\ UNCHANGED <<uploadVars, copied, todo, override, now, crashes>>

CountChunks(u) ==
    /\ pc[u] = "count"
    /\ lock' = Free
    /\ IF Completed THEN Step(u, "exists") ELSE Answer(u, "stored")
    /\ UNCHANGED <<dir, chunk, records, target, files, copied, todo, override, now, crashes>>

CheckTarget(u) ==
    /\ pc[u] = "exists"
    /\ \/ /\ target = NoFile \/ override
          /\ target' = NoFile
          /\ Step(u, "create")
       \/ /\ target # NoFile /\ ~override
          /\ Answer(u, "exists")
          /\ UNCHANGED target
    /\ UNCHANGED <<dir, chunk, records, lock, files, copied, todo, override, now, crashes>>

CreateTarget(u) ==
    /\ pc[u] = "create"
    /\ LET others == IF target = NoFile THEN {} ELSE target.writers
       IN target' = [writers |-> others \cup {u}, length |-> 0, sound |-> others = {}]
    /\ Step(u, "copy")
    /\ UNCHANGED <<dir, chunk, records, lock, files, copied, todo, override, now, crashes>>

\* Chunks are read one after the other; what is written to a file that was
\* removed in the meantime is lost.
CopyChunk(u) ==
    /\ pc[u] = "copy"
    /\ copied[u] < Count
    /\ chunk[copied[u]] # "absent"
    /\ target' = IF target = NoFile \/ u \notin target.writers THEN target
                 ELSE [target EXCEPT
                         !.length = copied[u] + 1,
                         !.sound = @ /\ chunk[copied[u]] = "whole"
                                     /\ target.length = copied[u]
                                     /\ target.writers = {u}]
    /\ copied' = [copied EXCEPT ![u] = @ + 1]
    /\ UNCHANGED <<dir, chunk, records, lock, files, pc, outcome, todo, override, now, crashes>>

CopyFails(u) ==
    /\ pc[u] = "copy"
    /\ copied[u] < Count
    /\ chunk[copied[u]] = "absent"
    /\ Close(u)
    /\ Answer(u, "error")
    /\ UNCHANGED <<dir, chunk, records, lock, files, copied, todo, override, now, crashes>>

RemoveChunks(u) ==
    /\ pc[u] = "copy"
    /\ copied[u] = Count
    /\ \/ dir /\ Removed /\ Step(u, "query") /\ UNCHANGED target
       \/ /\ \/ dir /\ RemovalDisturbed
             \/ ~dir /\ UNCHANGED <<dir, chunk>>
          /\ Close(u)
          /\ Answer(u, "error")
    /\ UNCHANGED <<records, lock, files, copied, todo, override, now, crashes>>

\* A File record for what was uploaded; the client may send a broken archive.
PostProcess(u) ==
    /\ pc[u] = "postprocess"
    /\ \/ /\ target # NoFile
          /\ files' = files \cup {[by |-> u, at |-> now]}
          /\ Answer(u, "file")
       \/ /\ UNCHANGED files
          /\ Answer(u, IF target = NoFile THEN "error" ELSE "badArchive")
    /\ UNCHANGED <<dir, chunk, records, lock, target, copied, todo, override, now, crashes>>

-----------------------------------------------------------------------------
(* invalidate_chunks, of the request that assembles and of the deleter *)

Query(p) ==
    /\ pc[p] = "query"
    /\ todo' = [todo EXCEPT ![p] = records]
    /\ Step(p, "invalidate")
    /\ UNCHANGED <<uploadVars, copied, override, now, crashes>>

InvalidateChunk(p) ==
    /\ pc[p] = "invalidate"
    /\ \E record \in todo[p] \cap records :
          /\ records' = records \ {record}
          /\ todo' = [todo EXCEPT ![p] = @ \ {record}]
    /\ UNCHANGED <<dir, chunk, lock, target, files, pc, outcome, copied, override, now, crashes>>

\* A record that is gone cannot be loaded any more.
InvalidateFails(p) ==
    /\ pc[p] = "invalidate"
    /\ ~(todo[p] \subseteq records)
    /\ IF p \in Uploads THEN Answer(p, "error") /\ Close(p)
       ELSE Step(p, "done") /\ UNCHANGED target
    /\ UNCHANGED <<dir, chunk, records, lock, files, copied, todo, override, now, crashes>>

Invalidated(p) ==
    /\ pc[p] = "invalidate"
    /\ todo[p] = {}
    /\ IF p \in Uploads THEN Step(p, "postprocess") /\ Close(p)
       ELSE Step(p, "done") /\ UNCHANGED target
    /\ UNCHANGED <<dir, chunk, records, lock, files, copied, todo, override, now, crashes>>

Invalidate(p) == Query(p) \/ InvalidateChunk(p) \/ InvalidateFails(p) \/ Invalidated(p)

-----------------------------------------------------------------------------
(* delete_chunks *)

DeleteChunks ==
    /\ Deleting
    /\ pc[Deleter] = "idle"
    /\ \/ dir /\ Removed /\ Step(Deleter, "query")
       \/ dir /\ RemovalDisturbed /\ Step(Deleter, "done")
       \/ ~dir /\ Step(Deleter, "done") /\ UNCHANGED <<dir, chunk>>
    /\ UNCHANGED <<records, lock, target, files, copied, todo, override, now, crashes>>

-----------------------------------------------------------------------------
(* cache_files_cleanup *)

Expired(record) == now - record.at >= TTL

StartCleanup ==
    /\ pc[Cleaner] = "idle"
    /\ todo' = [todo EXCEPT ![Cleaner] = files]
    /\ Step(Cleaner, "files")
    /\ UNCHANGED <<uploadVars, copied, override, now, crashes>>

CleanFile ==
    /\ pc[Cleaner] = "files"
    /\ \E file \in todo[Cleaner] :
          /\ todo' = [todo EXCEPT ![Cleaner] = @ \ {file}]
          /\ IF target = NoFile \/ Expired(file)
             THEN target' = NoFile /\ files' = files \ {file}
             ELSE UNCHANGED <<target, files>>
    /\ UNCHANGED <<dir, chunk, records, lock, pc, outcome, copied, override, now, crashes>>

FilesCleaned ==
    /\ pc[Cleaner] = "files"
    /\ todo[Cleaner] = {}
    /\ todo' = [todo EXCEPT ![Cleaner] = records]
    /\ Step(Cleaner, "chunks")
    /\ UNCHANGED <<uploadVars, copied, override, now, crashes>>

\* An expired chunk and one without a file go; so does the folder later.
CleanChunk ==
    /\ pc[Cleaner] \in {"chunks", "folder"}
    /\ \E record \in todo[Cleaner] \cap records :
          LET k == ChunkOf[record.by]
              goes == chunk[k] = "absent" \/ Expired(record)
          IN /\ todo' = [todo EXCEPT ![Cleaner] = @ \ {record}]
             /\ chunk' = IF goes THEN [chunk EXCEPT ![k] = "absent"] ELSE chunk
             /\ records' = IF goes THEN records \ {record} ELSE records
             /\ Step(Cleaner, IF goes THEN "folder" ELSE pc[Cleaner])
    /\ UNCHANGED <<dir, lock, target, files, copied, override, now, crashes>>

CleanupFails ==
    /\ pc[Cleaner] \in {"chunks", "folder"}
    /\ ~(todo[Cleaner] \subseteq records)
    /\ todo' = [todo EXCEPT ![Cleaner] = {}]
    /\ Step(Cleaner, "idle")
    /\ UNCHANGED <<uploadVars, copied, override, now, crashes>>

EndCleanup ==
    /\ pc[Cleaner] \in {"chunks", "folder"}
    /\ todo[Cleaner] = {}
    /\ Step(Cleaner, "idle")
    /\ IF pc[Cleaner] = "folder" THEN Removed \/ RemovalDisturbed
       ELSE UNCHANGED <<dir, chunk>>
    /\ UNCHANGED <<records, lock, target, files, copied, todo, override, now, crashes>>

Cleanup == \/ StartCleanup \/ CleanFile \/ FilesCleaned
           \/ CleanChunk \/ CleanupFails \/ EndCleanup

-----------------------------------------------------------------------------
(* The environment *)

Tick ==
    /\ now < MaxTime
    /\ now' = now + 1
    /\ UNCHANGED <<uploadVars, pc, copied, todo, override, outcome, crashes>>

\* A worker is killed; the Redis lock has no time to live and stays.
Crash(u) ==
    /\ crashes < MaxCrashes
    /\ pc[u] # "done"
    /\ crashes' = crashes + 1
    /\ Answer(u, "crashed")
    /\ Close(u)
    /\ UNCHANGED <<dir, chunk, records, lock, files, copied, todo, override, now>>

Upload(u) ==
    \/ MakeFolder(u) \/ OpenChunk(u) \/ SaveChunk(u)
    \/ AcquireLock(u) \/ SaveRecord(u) \/ CountChunks(u)
    \/ CheckTarget(u) \/ CreateTarget(u) \/ CopyChunk(u) \/ CopyFails(u)
    \/ RemoveChunks(u) \/ Invalidate(u) \/ PostProcess(u)

Delete == DeleteChunks \/ Invalidate(Deleter)

Next ==
    \/ \E u \in Uploads : Upload(u) \/ Crash(u)
    \/ Delete \/ Cleanup \/ Tick

Fairness == \A u \in Uploads : WF_vars(Upload(u))

Spec == Init /\ [][Next]_vars
FairSpec == Spec /\ Fairness

-----------------------------------------------------------------------------
(* Properties *)

\* The client sends each chunk once.
OneRequestPerChunk ==
    \A u, v \in Uploads : ChunkOf[u] = ChunkOf[v] => u = v

(* The last chunk to arrive assembles the file, and only that one: however *)
(* the requests overlap, one of them sees all the records.                 *)
OneRequestAssembles ==
    \A u, v \in Uploads :
       pc[u] \in Assembling /\ pc[v] \in Assembling => u = v

\* A step that answers with the file.
AnswersWholeFile ==
    \A u \in Uploads :
       outcome[u] = "none" /\ outcome'[u] = "file"
       => target # NoFile /\ target.length = Count /\ target.sound

(* A file the client is told of holds all chunks, in order, and none that  *)
(* was still being written, whatever is deleted or killed meanwhile.       *)
AnsweredFilesAreWhole == [][AnswersWholeFile]_vars

\* Nobody interferes with the upload and it is not too old; a cleanup may pass
\* by, but not between the removal of the chunks and that of their records.
Undisturbed ==
    /\ crashes = 0
    /\ pc[Deleter] = "idle"
    /\ \A record \in records \cup files : ~Expired(record)
    /\ pc[Cleaner] \in {"chunks", "folder"}
          => \A u \in Uploads : pc[u] \notin {"query", "invalidate"}

(* When all chunks are sent the upload comes to an end: the file is there, *)
(* or the client learns that it cannot be.                                 *)
UndisturbedUploadsEnd ==
    []Undisturbed
    => <>(\E u \in Uploads : outcome[u] \in {"file", "exists", "badArchive"})

=============================================================================
