---------------------------- MODULE FileVectors -----------------------------
(***************************************************************************)
(* One uploaded file across its three stores: the row in SQLite, the file  *)
(* on disk and its rows in the Chroma collections (file_service.py,        *)
(* vector_store_service.py, document_splitter.py, api/files.py,            *)
(* _recover_file in job_recovery_service.py).  No transaction spans them:  *)
(* every step undoes what the others did when it fails, and a crash may    *)
(* fall between any two.                                                   *)
(*                                                                         *)
(* Simplifications:                                                        *)
(*  - the file has a fixed content, so its chunks and their identities     *)
(*    follow from chunk_size and chunk_overlap of the running process;     *)
(*  - the knowledge base has an active collection and maybe a previous     *)
(*    one; rebuilds, which move them, are in KnowledgeBaseIndex;           *)
(*  - the job rows are what JobQueue has more of: here submission, claim,  *)
(*    end and recovery, at most two attempts;                              *)
(*  - a lease that expired and a worker that is gone are one thing.        *)
(***************************************************************************)
EXTENDS Integers

CONSTANTS
  Runs,       \* jobs of type FILE_PROCESS on the file
  Settings,   \* values of (chunk_size, chunk_overlap)
  Chunks,     \* the positions of the chunks of the file
  Nobody,     \* no job, no settings, no row
  Rebuild,    \* the job that indexed the file before
  MaxFaults   \* bound on crashes and on failing calls to a store

ASSUME ConstantsAssumption ==
  /\ Nobody \notin Runs \union Settings /\ Rebuild \notin Runs \union {Nobody}
  /\ MaxFaults \in Nat

VARIABLES
  row,       \* the FileRecord: status, owner (processing_job_id) and the
             \* settings its chunk_count was counted with
  disk,      \* the paths of the file that exist
  vectors,   \* vectors[c][id]: processing_job_id of a row of collection c
  job,       \* Job.status
  attempt,   \* Job.attempt
  pinned,    \* whether an evaluation pins the active collection
  settings,  \* those of the running process
  work,      \* where process_file is, for which job, rows it found
  removal,   \* where delete_file is, rows it removed, whether it moved the file
  upload,    \* where upload_file is
  left,      \* the paths that a crash, or a removal or renaming that failed,
             \* has left to nobody: history
  torn,      \* a crash or a failing undo left the rows for a rebuild
  faults

records == <<row, job, attempt>>
vars == <<row, disk, left, vectors, job, attempt, pinned, settings, work,
          removal, upload, torn, faults>>

Ids == Settings \X Chunks
Collections == {"active", "previous"}
NoRows == [i \in Ids |-> Nobody]
Statuses == {"none", "PENDING", "PROCESSING", "SUCCESS", "FAILED", "deleted"}
Live == {"QUEUED", "RUNNING"}
Writing == {"upsert", "trim", "commit", "undo", "restore"}
WorkSteps == {"idle", "claim", "parse", "target", "raised", "ended", "done"}
               \union Writing
Paths == {"temp", "final", "quarantine"}
RemovalSteps == {"idle", "checked", "active", "previous", "move", "delete", "unlink"}

TypeOK ==
  /\ row \in [status : Statuses, owner : Runs \union {Nobody},
              indexed : Settings \union {Nobody}]
  /\ disk \subseteq Paths /\ left \subseteq Paths
  /\ vectors \in [Collections -> [Ids -> Runs \union {Nobody, Rebuild}]]
  /\ job \in [Runs -> {"none", "SUCCEEDED", "FAILED"} \union Live]
  /\ attempt \in [Runs -> 0 .. 2]
  /\ pinned \in BOOLEAN /\ torn \in BOOLEAN
  /\ settings \in Settings
  /\ work \in [at : WorkSteps, run : Runs \union {Nobody},
               before : [Ids -> Runs \union {Nobody, Rebuild}]]
  /\ removal \in [at : RemovalSteps, moved : BOOLEAN,
                  gone : [Collections -> [Ids -> Runs \union {Nobody, Rebuild}]]]
  /\ upload \in {"idle", "copying", "moved"}
  /\ faults \in 0 .. MaxFaults
-----------------------------------------------------------------------------
(* The rows a run writes: its chunks have identities of their own for      *)
(* every value of the settings.                                            *)
ChunkIds(s) == {s} \X Chunks
Present(f) == {i \in Ids : f[i] # Nobody}
Put(f, ids, v) == [i \in Ids |-> IF i \in ids THEN v ELSE f[i]]
RestoreSnapshot(f, s) == [i \in Ids |-> IF s[i] # Nobody THEN s[i] ELSE f[i]]
OwnedBy(f, r) == {i \in Ids : f[i] = r}

Exists == row.status \notin {"none", "deleted"}
HasLiveJob == \E r \in Runs : job[r] \in Live
AdminFree == upload = "idle" /\ removal.at \in {"idle", "checked"}
VectorFree == work.at \notin Writing /\ removal.at \notin {"active", "previous"}
Fault == faults < MaxFaults /\ faults' = faults + 1

Resting == [at |-> "idle", run |-> Nobody, before |-> NoRows]
NotRemoving == [at |-> "idle", moved |-> FALSE,
                gone |-> [c \in Collections |-> NoRows]]

(* Either nothing is known of the file, or a rebuild has indexed it and    *)
(* left the collection it replaced.                                        *)
Init ==
  /\ settings \in Settings
  /\ \/ /\ row = [status |-> "none", owner |-> Nobody, indexed |-> Nobody]
        /\ disk = {} /\ vectors = [c \in Collections |-> NoRows]
     \/ /\ row = [status |-> "SUCCESS", owner |-> Nobody, indexed |-> settings]
        /\ disk = {"final"}
        /\ vectors = [c \in Collections |-> Put(NoRows, ChunkIds(settings), Rebuild)]
  /\ job = [r \in Runs |-> "none"] /\ attempt = [r \in Runs |-> 0]
  /\ pinned = FALSE /\ torn = FALSE /\ left = {}
  /\ work = Resting /\ removal = NotRemoving /\ upload = "idle"
  /\ faults = 0
-----------------------------------------------------------------------------
(* upload_file: a bounded copy to .uploading, a rename, a commit.          *)
StartUpload ==
  /\ row.status = "none" /\ AdminFree /\ disk = {}
  /\ upload' = "copying" /\ disk' = {"temp"}
  /\ UNCHANGED <<records, left, vectors, pinned, settings, work, removal, torn,
                 faults>>

MoveUpload ==
  /\ upload = "copying"
  /\ upload' = "moved" /\ disk' = {"final"}
  /\ UNCHANGED <<records, left, vectors, pinned, settings, work, removal, torn,
                 faults>>

CommitUpload ==
  /\ upload = "moved"
  /\ upload' = "idle" /\ row' = [row EXCEPT !.status = "PENDING"]
  /\ UNCHANGED <<disk, left, vectors, job, attempt, pinned, settings, work,
                 removal, torn, faults>>

(* MUTANT of AbandonUpload: the renamed file is not cleaned up.            *)
AbandonUploadKeepsFile ==
  /\ upload # "idle"
  /\ upload' = "idle"
  /\ \/ disk' = disk \ {"temp"} /\ UNCHANGED <<left, faults>>
     \/ Fault /\ left' = left \union disk /\ UNCHANGED disk
  /\ UNCHANGED <<records, vectors, pinned, settings, work, removal, torn>>

(* A failing copy, renaming or commit; _cleanup_file only logs a path that *)
(* cannot be unlinked.                                                     *)
AbandonUpload ==
  /\ upload # "idle"
  /\ upload' = "idle"
  /\ \/ disk' = disk \ {"temp", "final"} /\ UNCHANGED <<left, faults>>
     \/ Fault /\ left' = left \union disk /\ UNCHANGED disk
  /\ UNCHANGED <<records, vectors, pinned, settings, work, removal, torn>>
-----------------------------------------------------------------------------
SubmitProcess(r) ==
  /\ job[r] = "none" /\ Exists /\ ~HasLiveJob /\ ~pinned
  /\ AdminFree /\ VectorFree
  /\ job' = [job EXCEPT ![r] = "QUEUED"] /\ row' = [row EXCEPT !.owner = r]
  /\ UNCHANGED <<disk, left, vectors, attempt, pinned, settings, work, removal,
                 upload, torn, faults>>

TakeJob(r) ==
  /\ work.at = "idle" /\ job[r] = "QUEUED"
  /\ \A q \in Runs : job[q] # "RUNNING"
  /\ job' = [job EXCEPT ![r] = "RUNNING"]
  /\ attempt' = [attempt EXCEPT ![r] = @ + 1]
  /\ work' = [Resting EXCEPT !.at = "claim", !.run = r]
  /\ UNCHANGED <<row, disk, left, vectors, pinned, settings, removal, upload,
                 torn, faults>>

(* process_file up to claim_for_processing, under the admin lock; a        *)
(* refusal leaves the row to the handler, which gives back what is its own.*)
ClaimFile ==
  /\ work.at = "claim" /\ AdminFree
  /\ \/ /\ Exists /\ row.status # "PROCESSING" /\ ~pinned
        /\ row' = [row EXCEPT !.status = "PROCESSING", !.owner = work.run]
        /\ work' = [work EXCEPT !.at = "parse"]
     \/ /\ row' = IF row.owner = work.run /\ row.status # "PROCESSING"
                    THEN [row EXCEPT !.owner = Nobody] ELSE row
        /\ work' = [work EXCEPT !.at = "ended"]
  /\ UNCHANGED <<disk, left, vectors, job, attempt, pinned, settings, removal,
                 upload, torn, faults>>

Goto(step) ==
  /\ work' = [work EXCEPT !.at = step]
  /\ UNCHANGED <<row, disk, left, job, attempt, pinned, settings, removal,
                 upload>>

(* Load, split, embed; any of them, or a checkpoint, may raise.            *)
Parse ==
  /\ work.at = "parse"
  /\ \/ "final" \in disk /\ Goto("target")
     \/ Goto("raised")
  /\ UNCHANGED <<vectors, torn, faults>>

(* MUTANT of AimAtActive: the state read before the embedding is trusted.  *)
AimAtActiveUnchecked ==
  /\ work.at = "target" /\ VectorFree
  /\ work' = [work EXCEPT !.at = "upsert", !.before = vectors["active"]]
  /\ UNCHANGED <<records, disk, left, vectors, pinned, settings, removal,
                 upload, torn, faults>>

(* Under the vector lock: check again, remember the rows of the file.      *)
AimAtActive ==
  /\ work.at = "target" /\ VectorFree
  /\ work' = IF row.status = "PROCESSING" /\ ~pinned
               THEN [work EXCEPT !.at = "upsert", !.before = vectors["active"]]
               ELSE [work EXCEPT !.at = "raised"]
  /\ UNCHANGED <<records, disk, left, vectors, pinned, settings, removal,
                 upload, torn, faults>>

(* A failing upsert may have written any of the rows.                      *)
Upsert ==
  /\ work.at = "upsert"
  /\ \/ /\ vectors' = [vectors EXCEPT !["active"] =
                         Put(@, ChunkIds(settings), work.run)]
        /\ Goto("trim") /\ UNCHANGED faults
     \/ /\ Fault /\ Goto("undo")
        /\ \E part \in SUBSET ChunkIds(settings) :
             vectors' = [vectors EXCEPT !["active"] = Put(@, part, work.run)]
  /\ UNCHANGED torn

(* Rows of an earlier run that are not of this one go, and what remains    *)
(* is verified.                                                            *)
TrimStale ==
  /\ work.at = "trim"
  /\ \/ /\ vectors' = [vectors EXCEPT !["active"] =
                         Put(@, Present(work.before) \ ChunkIds(settings), Nobody)]
        /\ Goto("commit") /\ UNCHANGED faults
     \/ Fault /\ Goto("undo") /\ UNCHANGED vectors
  /\ UNCHANGED torn

CommitIndex ==
  /\ work.at = "commit"
  /\ \/ /\ row' = [status |-> "SUCCESS", owner |-> Nobody, indexed |-> settings]
        /\ work' = [work EXCEPT !.at = "done"]
        /\ torn' = FALSE /\ UNCHANGED faults
     \/ Fault /\ work' = [work EXCEPT !.at = "undo"] /\ UNCHANGED <<row, torn>>
  /\ UNCHANGED <<disk, left, vectors, job, attempt, pinned, settings, removal,
                 upload>>

(* MUTANT of UndoRows: the new rows stay under the restored ones.          *)
UndoRowsOnlyRestores ==
  /\ work.at = "undo"
  /\ Goto("restore") /\ UNCHANGED <<vectors, torn, faults>>

(* The compensation: the new rows out, the old rows back in; when it fails *)
(* itself, a rebuild must repair the index.                                *)
UndoRows ==
  /\ work.at = "undo"
  /\ \/ /\ vectors' = [vectors EXCEPT !["active"] = Put(@, ChunkIds(settings), Nobody)]
        /\ Goto("restore") /\ UNCHANGED <<torn, faults>>
     \/ Fault /\ torn' = TRUE /\ Goto("raised") /\ UNCHANGED vectors

RestoreRows ==
  /\ work.at = "restore"
  /\ Goto("raised")
  /\ \/ /\ vectors' = [vectors EXCEPT !["active"] = RestoreSnapshot(@, work.before)]
        /\ UNCHANGED <<torn, faults>>
     \/ Fault /\ torn' = TRUE /\ UNCHANGED vectors

(* _mark_processing_failed, which may fail to persist.                     *)
MarkProcessingFailed ==
  /\ work.at = "raised"
  /\ work' = [work EXCEPT !.at = "ended"]
  /\ \/ /\ row' = IF ~Exists THEN row
                  ELSE [row EXCEPT !.status = "FAILED",
                                   !.owner = IF @ = work.run THEN Nobody ELSE @]
        /\ UNCHANGED faults
     \/ Fault /\ UNCHANGED row
  /\ UNCHANGED <<disk, left, vectors, job, attempt, pinned, settings, removal,
                 upload, torn>>

(* JobWorker._finish.                                                      *)
FinishJob ==
  /\ work.at \in {"ended", "done"}
  /\ job' = [job EXCEPT ![work.run] = IF work.at = "done" THEN "SUCCEEDED" ELSE "FAILED"]
  /\ row' = IF work.at = "ended" /\ row.owner = work.run
              THEN [row EXCEPT !.owner = Nobody,
                               !.status = IF @ = "PROCESSING" THEN "FAILED" ELSE @]
              ELSE row
  /\ work' = Resting
  /\ UNCHANGED <<disk, left, vectors, attempt, pinned, settings, removal,
                 upload, torn, faults>>
-----------------------------------------------------------------------------
(* _recover_file: after a restart, for a job whose worker is gone, or in   *)
(* the worker, for a transient error with an attempt left.                 *)
Recovering(r) ==
  /\ job[r] = "RUNNING"
  /\ \/ work.at = "idle"
     \/ work.at = "ended" /\ work.run = r /\ attempt[r] < 2

Foreign(r) == row.status = "PROCESSING" /\ row.owner # r
Mixed(r) == OwnedBy(vectors["active"], r) \notin {{}, Present(vectors["active"])}
Indexed(r) == /\ Present(vectors["active"]) = OwnedBy(vectors["active"], r)
              /\ row.indexed # Nobody
              /\ Present(vectors["active"]) = ChunkIds(row.indexed)

Recovered(r, jobStatus, newRow) ==
  /\ job' = [job EXCEPT ![r] = jobStatus] /\ row' = newRow /\ work' = Resting
  /\ UNCHANGED <<disk, left, vectors, attempt, pinned, settings, removal,
                 upload, torn, faults>>

(* _requeue: while an attempt is left.                                     *)
Requeued(r) == IF attempt[r] < 2 THEN "QUEUED" ELSE "FAILED"

RecoverRefuses(r) ==
  /\ Recovering(r)
  /\ \/ ~Exists \/ Foreign(r)
     \/ Exists /\ row.status # "SUCCESS" /\ Mixed(r)
  /\ Recovered(r, "FAILED", row)

RecoverSuccess(r) ==
  /\ Recovering(r) /\ row.status = "SUCCESS" /\ Indexed(r)
  /\ Recovered(r, "SUCCEEDED", [row EXCEPT !.owner = Nobody])

(* All rows are of this run: they go, whether or not they were complete.   *)
ClearRun(r) ==
  /\ Recovering(r) /\ Exists /\ ~Foreign(r) /\ row.status # "SUCCESS"
  /\ OwnedBy(vectors["active"], r) # {} /\ ~Mixed(r)
  /\ vectors' = [vectors EXCEPT !["active"] = NoRows]
  /\ UNCHANGED <<records, disk, left, pinned, settings, work, removal, upload,
                 torn, faults>>

RecoverAgain(r) ==
  /\ Recovering(r) /\ Exists /\ ~Foreign(r)
  /\ IF row.status = "SUCCESS" THEN ~Indexed(r) ELSE OwnedBy(vectors["active"], r) = {}
  /\ Recovered(r, Requeued(r), [row EXCEPT !.status = "FAILED", !.owner = r])
-----------------------------------------------------------------------------
(* delete_file of the API tests for jobs and pins outside of any lock.     *)
CheckRemoval ==
  /\ removal.at = "idle" /\ Exists /\ ~HasLiveJob /\ ~pinned
  /\ removal' = [NotRemoving EXCEPT !.at = "checked"]
  /\ UNCHANGED <<records, disk, left, vectors, pinned, settings, work, upload,
                 torn, faults>>

BeginRemoval ==
  /\ removal.at = "checked" /\ upload = "idle" /\ VectorFree
  /\ removal' = IF /\ Exists /\ row.status # "PROCESSING" /\ ~pinned
                   /\ ~({"final", "quarantine"} \subseteq disk)
                  THEN [NotRemoving EXCEPT !.at = "active"] ELSE NotRemoving
  /\ UNCHANGED <<records, disk, left, vectors, pinned, settings, work, upload,
                 torn, faults>>

(* delete_by_file_id: collection after collection, under the vector lock.  *)
DropRows(c) ==
  /\ removal.at = c
  /\ removal' = [removal EXCEPT !.gone[c] = vectors[c],
                                !.at = IF c = "active" THEN "previous" ELSE "move"]
  /\ vectors' = [vectors EXCEPT ![c] = NoRows]
  /\ UNCHANGED <<records, disk, left, pinned, settings, work, upload, torn,
                 faults>>

MoveAside ==
  /\ removal.at = "move"
  /\ removal' = [removal EXCEPT !.at = "delete", !.moved = "final" \in disk]
  /\ disk' = IF "final" \in disk THEN (disk \ {"final"}) \union {"quarantine"} ELSE disk
  /\ UNCHANGED <<records, left, vectors, pinned, settings, work, upload, torn,
                 faults>>

DeleteRow ==
  /\ removal.at = "delete"
  /\ row' = [row EXCEPT !.status = "deleted"]
  /\ removal' = [removal EXCEPT !.at = IF removal.moved THEN "unlink" ELSE "idle"]
  /\ UNCHANGED <<disk, left, vectors, job, attempt, pinned, settings, work,
                 upload, torn, faults>>

(* The file stays where it is when it cannot be unlinked.                  *)
Unlink ==
  /\ removal.at = "unlink"
  /\ removal' = NotRemoving
  /\ \/ disk' = disk \ {"quarantine"} /\ UNCHANGED <<left, faults>>
     \/ Fault /\ left' = left \union disk /\ UNCHANGED disk
  /\ UNCHANGED <<records, vectors, pinned, settings, work, upload, torn>>

(* The name of the file before the deletion; the renaming back may fail,   *)
(* which is only logged.                                                   *)
MoveBack ==
  \/ /\ disk' = IF removal.moved THEN (disk \ {"quarantine"}) \union {"final"} ELSE disk
     /\ UNCHANGED left
  \/ /\ removal.moved
     /\ left' = left \union disk /\ UNCHANGED disk

(* MUTANT of FailRemoval: the rows are not put back.                       *)
FailRemovalLosesRows ==
  /\ removal.at \in {"active", "previous", "move", "delete"} /\ Fault
  /\ removal' = NotRemoving
  /\ MoveBack
  /\ UNCHANGED <<records, vectors, torn, pinned, settings, work, upload>>

(* A failing step puts the rows back, then the file; when the rows cannot  *)
(* be put back, the file is not either.                                    *)
FailRemoval ==
  /\ removal.at \in {"active", "previous", "move", "delete"} /\ Fault
  /\ VectorFree \/ removal.at \in Collections
  /\ removal' = NotRemoving
  /\ \/ /\ vectors' = [c \in Collections |->
                         RestoreSnapshot(vectors[c], removal.gone[c])]
        /\ MoveBack /\ UNCHANGED torn
     \/ /\ torn' = TRUE /\ UNCHANGED <<vectors, disk>>
        /\ left' = IF removal.moved THEN left \union disk ELSE left
  /\ UNCHANGED <<records, pinned, settings, work, upload>>
-----------------------------------------------------------------------------
(* The submission of an evaluation holds the vector lock; it does not look *)
(* at jobs on files.                                                       *)
Pin ==
  /\ ~pinned /\ VectorFree
  /\ pinned' = TRUE
  /\ UNCHANGED <<records, disk, left, vectors, settings, work, removal, upload,
                 torn, faults>>

Unpin ==
  /\ pinned /\ pinned' = FALSE
  /\ UNCHANGED <<records, disk, left, vectors, settings, work, removal, upload,
                 torn, faults>>

(* A crash, and the start with whatever settings:                          *)
(* recover_orphaned_file_states fails the files that no job holds.         *)
Restart ==
  /\ Fault
  /\ settings' \in Settings
  /\ work' = Resting /\ removal' = NotRemoving /\ upload' = "idle"
  /\ row' = IF /\ row.status = "PROCESSING"
               /\ row.owner = Nobody \/ job[row.owner] \notin Live
              THEN [row EXCEPT !.status = "FAILED", !.owner = Nobody] ELSE row
  /\ torn' = (torn \/ removal.at \in {"previous", "move", "delete"})
  /\ left' = IF upload # "idle" \/ removal.moved THEN left \union disk ELSE left
  /\ UNCHANGED <<disk, vectors, job, attempt, pinned>>

UploadStep == StartUpload \/ MoveUpload \/ CommitUpload \/ AbandonUpload
ProcessStep ==
  \/ \E r \in Runs : SubmitProcess(r) \/ TakeJob(r)
  \/ ClaimFile \/ Parse \/ AimAtActive \/ Upsert \/ TrimStale \/ CommitIndex
  \/ UndoRows \/ RestoreRows \/ MarkProcessingFailed \/ FinishJob
RecoveryStep ==
  \E r \in Runs : \/ RecoverRefuses(r) \/ RecoverSuccess(r)
                  \/ ClearRun(r) \/ RecoverAgain(r)
RemovalStep ==
  \/ CheckRemoval \/ BeginRemoval \/ \E c \in Collections : DropRows(c)
  \/ MoveAside \/ DeleteRow \/ Unlink \/ FailRemoval

Next == UploadStep \/ ProcessStep \/ RecoveryStep \/ RemovalStep
          \/ Pin \/ Unpin \/ Restart

Spec == Init /\ [][Next]_vars
-----------------------------------------------------------------------------
(* No step of process_file is under way, and no run waits for a recovery.  *)
Quiet == work.at \notin Writing /\ \A r \in Runs : job[r] = "RUNNING" => work.run = r

(* A run that recovery gave up on because its rows are among those of      *)
(* others (VECTOR_OWNERSHIP_UNCERTAIN).                                    *)
Uncertain == \E r \in Runs : job[r] = "FAILED" /\ OwnedBy(vectors["active"], r) # {}

(* A file that is shown as ready is answered from all chunks of one        *)
(* splitting, the one its row counts, and from no others: whatever of      *)
(* upsert, trimming, commit, undo, recovery and deletion failed.           *)
ReadyIsComplete ==
  row.status = "SUCCESS" /\ removal.at \in {"idle", "checked", "active"} /\ ~torn =>
    Present(vectors["active"]) = ChunkIds(row.indexed)

(* A replacement happens altogether or not at all, also in the eyes of a   *)
(* file that failed, unless recovery has refused to decide.  (And the      *)
(* variables have their types.)                                            *)
AllOrNothing ==
  /\ TypeOK
  /\ Quiet /\ ~torn /\ ~Uncertain =>
       Present(vectors["active"]) \in {ChunkIds(s) : s \in Settings} \union {{}}

(* A file that is listed is in its place, and one that is not listed any   *)
(* more, or not yet, has no row in any collection and nothing on disk.     *)
(* The exceptions, for bytes only, are the paths that were given up: an    *)
(* unlink or a renaming back that failed, a crash in the middle.           *)
NothingLeftBehind ==
  removal.at = "idle" /\ upload = "idle" =>
    IF Exists
      THEN disk = {"final"} \/ "quarantine" \in disk \intersect left
      ELSE disk \subseteq left /\ \A c \in Collections : Present(vectors[c]) = {}

(* Under a pin the rows of the file change only by the undo of a deletion  *)
(* that began before, and by a recovery that clears its run.               *)
PinnedIsStable ==
  [][pinned /\ vectors'["active"] # vectors["active"] =>
       removal.at \in {"move", "delete"} \/ \E r \in Runs : ClearRun(r)]_vars

=============================================================================
