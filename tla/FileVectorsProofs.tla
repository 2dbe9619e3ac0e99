-------------------------- MODULE FileVectorsProofs -------------------------
(***************************************************************************)
(* Theorems about one file across its three stores, for any number of      *)
(* jobs, splittings, chunks and faults.                                    *)
(*                                                                         *)
(* FInv is inductive.  It says what the two locks buy (WorkAgrees): from   *)
(* its claim to its commit a file stays PROCESSING and nobody deletes it,  *)
(* and while its rows are written nobody pins the collection.  The rest    *)
(* follows the deletion through its three stores: where the bytes are at   *)
(* each step (DiskAgrees), which rows are left and which are to be put     *)
(* back (RowsAgree).                                                       *)
(*                                                                         *)
(* That a replacement is atomic needs AInv beside it: every splitting is   *)
(* judged by itself, as the run found it or as the run writes it, unless a *)
(* run that gave up or died has left rows of it behind; and no two runs    *)
(* are RUNNING at once.                                                    *)
(***************************************************************************)
EXTENDS FileVectors, TLAPS

AttemptsAgree == \A r \in Runs : job[r] \in {"none", "QUEUED"} => attempt[r] < 2

WorkAgrees ==
  /\ work.at # "idle" => work.run \in Runs
  /\ work.at \in {"parse", "target"} \union Writing =>
       /\ row.status = "PROCESSING"
       /\ removal.at \in {"idle", "checked"}
       /\ upload = "idle"
  /\ work.at \in {"target"} \union Writing => disk = {"final"}
  /\ ~VectorFree => ~pinned
  /\ work.at = "upsert" => vectors["active"] = work.before
  /\ work.at = "trim" =>
       vectors["active"] = Put(work.before, ChunkIds(settings), work.run)
  /\ work.at = "commit" => Present(vectors["active"]) = ChunkIds(settings)

(* The bytes have one place at a time.  A listed file is not in its place  *)
(* only while it is removed or when its old place is given up.             *)
DiskAgrees ==
  /\ upload = "copying" => disk = {"temp"}
  /\ upload = "moved" => disk = {"final"}
  /\ upload # "idle" => row.status = "none"
  /\ row.status = "none" /\ upload = "idle" => disk \subseteq left
  /\ Exists /\ ~removal.moved =>
       disk = {"final"} \/ (disk = {"quarantine"} /\ "quarantine" \in left)
  /\ row.status = "deleted" /\ removal.at = "idle" => disk \subseteq left
  /\ disk \in {{}, {"temp"}, {"final"}, {"quarantine"}}
  /\ removal.moved => removal.at \in {"delete", "unlink"} /\ disk = {"quarantine"}
  /\ removal.at = "unlink" => removal.moved
  /\ removal.at = "delete" /\ ~removal.moved =>
       disk = {"quarantine"} /\ "quarantine" \in left
  /\ removal.at \notin {"idle", "unlink"} => Exists
  /\ removal.at = "unlink" => row.status = "deleted"
  /\ removal.at \notin {"idle", "checked"} => row.status # "PROCESSING" /\ upload = "idle"

RowsAgree ==
  /\ ~Exists => \A c \in Collections : vectors[c] = NoRows
  /\ removal.at \in {"previous", "move", "delete"} => vectors["active"] = NoRows
  /\ removal.at \in {"move", "delete"} => vectors["previous"] = NoRows
  /\ removal.at = "active" => removal.gone["active"] = NoRows
  /\ row.status = "SUCCESS" /\ ~torn =>
       Present(IF removal.at \in {"previous", "move", "delete"}
                 THEN removal.gone["active"] ELSE vectors["active"])
         = ChunkIds(row.indexed)

FInv == TypeOK /\ AttemptsAgree /\ WorkAgrees /\ DiskAgrees /\ RowsAgree
-----------------------------------------------------------------------------
Rows == [Ids -> Runs \union {Nobody, Rebuild}]

LEMMA ChunkIdsAreIds == ASSUME NEW s \in Settings PROVE ChunkIds(s) \subseteq Ids
BY DEF ChunkIds, Ids

LEMMA NoRowsFacts == NoRows \in Rows /\ Present(NoRows) = {}
BY DEF NoRows, Rows, Present

LEMMA PutTyped ==
  ASSUME NEW f \in Rows, NEW ids, NEW v \in Runs \union {Nobody, Rebuild}
  PROVE  Put(f, ids, v) \in Rows
BY DEF Put, Rows

LEMMA RestoreTyped ==
  ASSUME NEW f \in Rows, NEW g \in Rows
  PROVE  RestoreSnapshot(f, g) \in Rows
BY DEF RestoreSnapshot, Rows

(* What putting back a snapshot amounts to.                                *)
LEMMA RestoreNothing ==
  ASSUME NEW f \in Rows
  PROVE  RestoreSnapshot(f, NoRows) = f
BY DEF RestoreSnapshot, Rows, NoRows

LEMMA RestoreOnNothing ==
  ASSUME NEW g \in Rows
  PROVE  RestoreSnapshot(NoRows, g) = g
BY DEF RestoreSnapshot, Rows, NoRows

(* A freshly indexed collection holds the chunks of its splitting.         *)
LEMMA PresentFresh ==
  ASSUME NEW s \in Settings
  PROVE  Present(Put(NoRows, ChunkIds(s), Rebuild)) = ChunkIds(s)
BY ChunkIdsAreIds, ConstantsAssumption DEF Present, Put, NoRows

(* Upsert and then trim: the chunks of the run, and no others.             *)
LEMMA PresentTrimmed ==
  ASSUME NEW f, NEW s \in Settings, NEW r \in Runs
  PROVE  Present(Put(Put(f, ChunkIds(s), r), Present(f) \ ChunkIds(s), Nobody))
           = ChunkIds(s)
BY ChunkIdsAreIds, ConstantsAssumption DEF Present, Put

(* The rows of a collection are replaced, the others are not.              *)
LEMMA ReplaceRows ==
  ASSUME NEW v \in [Collections -> Rows], NEW c \in Collections, NEW f \in Rows
  PROVE  /\ [v EXCEPT ![c] = f] \in [Collections -> Rows]
         /\ [v EXCEPT ![c] = f][c] = f
         /\ \A d \in Collections : d # c => [v EXCEPT ![c] = f][d] = v[d]
OBVIOUS

LEMMA TwoCollections ==
  /\ "active" \in Collections /\ "previous" \in Collections
  /\ \A c \in Collections : c = "active" \/ c = "previous"
BY DEF Collections
-----------------------------------------------------------------------------
LEMMA TypeInit == Init => TypeOK
<1> SUFFICES ASSUME Init PROVE TypeOK
  OBVIOUS
<1>1. NoRows \in Rows
  BY NoRowsFacts
<1>2. Put(NoRows, ChunkIds(settings), Rebuild) \in Rows
  BY <1>1, PutTyped
<1>3. vectors \in [Collections -> Rows]
  BY <1>1, <1>2 DEF Init
<1>4. vectors \in [Collections -> [Ids -> Runs \union {Nobody, Rebuild}]]
  BY <1>3 DEF Rows
<1>5. /\ Resting \in [at : WorkSteps, run : Runs \union {Nobody},
                      before : [Ids -> Runs \union {Nobody, Rebuild}]]
      /\ NotRemoving \in [at : RemovalSteps, moved : BOOLEAN,
                  gone : [Collections -> [Ids -> Runs \union {Nobody, Rebuild}]]]
  BY <1>1 DEF Rows, Resting, NotRemoving, WorkSteps, RemovalSteps
<1>6. /\ row \in [status : Statuses, owner : Runs \union {Nobody},
                  indexed : Settings \union {Nobody}]
      /\ disk \subseteq Paths /\ left \subseteq Paths
  BY DEF Init, Statuses, Paths
<1>7. faults \in 0 .. MaxFaults
  BY ConstantsAssumption DEF Init
<1>8. /\ job \in [Runs -> {"none", "SUCCEEDED", "FAILED"} \union Live]
      /\ attempt \in [Runs -> 0 .. 2]
  BY DEF Init, Live
<1>9. settings \in Settings /\ upload \in {"idle", "copying", "moved"}
  BY DEF Init
<1>10. pinned \in BOOLEAN /\ torn \in BOOLEAN
  BY DEF Init
<1>11. work = Resting /\ removal = NotRemoving
  BY DEF Init
<1> QED
  BY <1>4, <1>5, <1>6, <1>7, <1>8, <1>9, <1>10, <1>11 DEF TypeOK

LEMMA FInvInit == Init => FInv
<1> SUFFICES ASSUME Init PROVE FInv
  OBVIOUS
<1>1. TypeOK
  BY TypeInit
<1>2. AttemptsAgree
  BY DEF Init, AttemptsAgree
<1>3. WorkAgrees
  BY DEF Init, WorkAgrees, Resting, NotRemoving, Writing, VectorFree
<1>4. DiskAgrees
  BY DEF Init, DiskAgrees, Exists, NotRemoving
<1>5. RowsAgree
  BY PresentFresh, TwoCollections DEF Init, RowsAgree, Exists, NotRemoving
<1> QED
  BY <1>1, <1>2, <1>3, <1>4, <1>5 DEF FInv
-----------------------------------------------------------------------------
(* Type correctness, variable by variable.                                 *)
Work == [at : WorkSteps, run : Runs \union {Nobody}, before : Rows]
Removal == [at : RemovalSteps, moved : BOOLEAN, gone : [Collections -> Rows]]
Record == [status : Statuses, owner : Runs \union {Nobody},
           indexed : Settings \union {Nobody}]
Counters ==
  /\ job \in [Runs -> {"none", "SUCCEEDED", "FAILED"} \union Live]
  /\ attempt \in [Runs -> 0 .. 2]
  /\ pinned \in BOOLEAN /\ torn \in BOOLEAN
  /\ settings \in Settings
  /\ upload \in {"idle", "copying", "moved"}
  /\ faults \in 0 .. MaxFaults
  /\ disk \subseteq Paths /\ left \subseteq Paths

LEMMA TypeParts ==
  TypeOK <=> /\ row \in Record /\ vectors \in [Collections -> Rows]
             /\ work \in Work /\ removal \in Removal /\ Counters
BY DEF TypeOK, Work, Removal, Record, Counters, Rows

LEMMA TypePartsAfter ==
  TypeOK' <=> /\ row' \in Record /\ vectors' \in [Collections -> Rows]
              /\ work' \in Work /\ removal' \in Removal /\ Counters'
BY DEF TypeOK, Work, Removal, Record, Counters, Rows

LEMMA RestingTyped == Resting \in Work /\ NotRemoving \in Removal
BY NoRowsFacts DEF Resting, NotRemoving, Work, Removal, WorkSteps, RemovalSteps

LEMMA UploadTyped ==
  ASSUME TypeOK, UploadStep PROVE TypeOK'
<1>1. /\ vectors' = vectors /\ work' = work /\ removal' = removal
  BY DEF UploadStep, StartUpload, MoveUpload, CommitUpload, AbandonUpload
<1>2. row' \in Record
  BY TypeParts DEF Record, Statuses, UploadStep, StartUpload, MoveUpload,
                   CommitUpload, AbandonUpload, records
<1>3. Counters'
  <2> USE TypeParts DEF Counters
  <2>1. CASE StartUpload BY <2>1 DEF StartUpload, records, Paths
  <2>2. CASE MoveUpload BY <2>2 DEF MoveUpload, records, Paths
  <2>3. CASE CommitUpload BY <2>3 DEF CommitUpload
  <2>4. CASE AbandonUpload
    <3>1. disk' \subseteq Paths /\ left' \subseteq Paths
      BY <2>4 DEF AbandonUpload
    <3>2. faults' \in 0 .. MaxFaults
      BY <2>4, ConstantsAssumption DEF AbandonUpload, Fault
    <3>3. upload' = "idle" /\ UNCHANGED <<job, attempt, pinned, torn, settings>>
      BY <2>4 DEF AbandonUpload, records
    <3> QED BY <3>1, <3>2, <3>3
  <2> QED BY <2>1, <2>2, <2>3, <2>4 DEF UploadStep
<1> QED
  BY <1>1, <1>2, <1>3, TypeParts, TypePartsAfter

LEMMA GoToTyped ==
  ASSUME TypeOK, NEW s \in WorkSteps, Goto(s)
  PROVE  work' \in Work /\ work'.at = s /\ work'.run = work.run
           /\ work'.before = work.before
BY TypeParts DEF Goto, Work

LEMMA ProcessWorkTyped ==
  ASSUME TypeOK, ProcessStep PROVE work' \in Work
<1> USE TypeParts, RestingTyped DEF Work, WorkSteps, Writing
<1>1. CASE \E r \in Runs : SubmitProcess(r) \/ TakeJob(r)
  BY <1>1 DEF SubmitProcess, TakeJob
<1>2. CASE ClaimFile BY <1>2 DEF ClaimFile
<1>3. CASE Parse BY <1>3 DEF Parse, Goto
<1>4. CASE AimAtActive
  <2>1. vectors["active"] \in Rows
    BY TwoCollections
  <2> QED BY <1>4, <2>1 DEF AimAtActive
<1>5. CASE Upsert BY <1>5 DEF Upsert, Goto
<1>6. CASE TrimStale BY <1>6 DEF TrimStale, Goto
<1>7. CASE CommitIndex BY <1>7 DEF CommitIndex
<1>8. CASE UndoRows BY <1>8 DEF UndoRows, Goto
<1>9. CASE RestoreRows BY <1>9 DEF RestoreRows, Goto
<1>10. CASE MarkProcessingFailed BY <1>10 DEF MarkProcessingFailed
<1>11. CASE FinishJob BY <1>11 DEF FinishJob
<1> QED
  BY <1>1, <1>2, <1>3, <1>4, <1>5, <1>6, <1>7, <1>8, <1>9, <1>10, <1>11
     DEF ProcessStep

LEMMA ProcessRowTyped ==
  ASSUME TypeOK, WorkAgrees, ProcessStep PROVE row' \in Record
<1> USE TypeParts DEF Record, Statuses
<1>1. CASE \E r \in Runs : SubmitProcess(r) \/ TakeJob(r)
  BY <1>1 DEF SubmitProcess, TakeJob
<1>2. CASE ClaimFile BY <1>2 DEF ClaimFile, WorkAgrees
<1>3. CASE Parse BY <1>3 DEF Parse, Goto
<1>4. CASE AimAtActive BY <1>4 DEF AimAtActive, records
<1>5. CASE Upsert BY <1>5 DEF Upsert, Goto
<1>6. CASE TrimStale BY <1>6 DEF TrimStale, Goto
<1>7. CASE CommitIndex BY <1>7 DEF CommitIndex, Counters
<1>8. CASE UndoRows BY <1>8 DEF UndoRows, Goto
<1>9. CASE RestoreRows BY <1>9 DEF RestoreRows, Goto
<1>10. CASE MarkProcessingFailed BY <1>10 DEF MarkProcessingFailed
<1>11. CASE FinishJob BY <1>11 DEF FinishJob
<1> QED
  BY <1>1, <1>2, <1>3, <1>4, <1>5, <1>6, <1>7, <1>8, <1>9, <1>10, <1>11
     DEF ProcessStep

(* What process_file and delete_file leave to each other.                  *)
LEMMA ProcessFrame ==
  ASSUME ProcessStep
  PROVE  /\ removal' = removal
         /\ vectors' = vectors \/ (work.at \in Writing /\
              (Upsert \/ TrimStale \/ UndoRows \/ RestoreRows))
<1>1. ASSUME NEW r \in Runs, SubmitProcess(r) \/ TakeJob(r)
      PROVE  removal' = removal /\ vectors' = vectors
  BY <1>1 DEF SubmitProcess, TakeJob
<1>2. ASSUME ClaimFile \/ Parse \/ AimAtActive \/ CommitIndex \/ MarkProcessingFailed
               \/ FinishJob
      PROVE  removal' = removal /\ vectors' = vectors
  BY <1>2 DEF ClaimFile, Parse, Goto, AimAtActive, CommitIndex, MarkProcessingFailed,
     FinishJob
<1>3. ASSUME Upsert \/ TrimStale \/ UndoRows \/ RestoreRows
      PROVE  removal' = removal /\ work.at \in Writing
  BY <1>3 DEF Upsert, TrimStale, UndoRows, RestoreRows, Goto, Writing
<1> QED
  BY <1>1, <1>2, <1>3 DEF ProcessStep

LEMMA RemovalFrame ==
  ASSUME RemovalStep
  PROVE  /\ UNCHANGED <<job, attempt, work, settings>>
         /\ CheckRemoval \/ removal.at # "idle"
         /\ \/ vectors' = vectors
            \/ removal.at \in {"active", "previous", "move", "delete"}
<1>1. ASSUME NEW c \in Collections, DropRows(c)
      PROVE  /\ UNCHANGED <<job, attempt, work, settings>>
             /\ removal.at \in {"active", "previous"}
  BY <1>1, TwoCollections DEF DropRows, records
<1>2. ASSUME CheckRemoval \/ BeginRemoval \/ MoveAside
      PROVE  /\ UNCHANGED <<job, attempt, work, settings, vectors>>
             /\ CheckRemoval \/ removal.at # "idle"
  BY <1>2 DEF CheckRemoval, BeginRemoval, MoveAside, records
<1>3. ASSUME DeleteRow \/ Unlink
      PROVE  /\ UNCHANGED <<job, attempt, work, settings, vectors>>
             /\ removal.at # "idle"
  BY <1>3 DEF DeleteRow, Unlink, records
<1>4. ASSUME FailRemoval
      PROVE  /\ UNCHANGED <<job, attempt, work, settings>>
             /\ removal.at \in {"active", "previous", "move", "delete"}
  BY <1>4 DEF FailRemoval, records
<1> QED
  BY <1>1, <1>2, <1>3, <1>4 DEF RemovalStep

LEMMA ProcessVectorsTyped ==
  ASSUME TypeOK, WorkAgrees, ProcessStep PROVE vectors' \in [Collections -> Rows]
<1>1. vectors \in [Collections -> Rows] /\ work.before \in Rows
  BY TypeParts DEF Work
<1> DEFINE Replaced(f) == vectors' = [vectors EXCEPT !["active"] = f]
<1>2. ASSUME NEW f \in Rows, Replaced(f) PROVE vectors' \in [Collections -> Rows]
  BY <1>1, <1>2
<1>3. vectors["active"] \in Rows
  BY <1>1, TwoCollections
<1>4. \A ids : Put(vectors["active"], ids, Nobody) \in Rows
  BY <1>3, PutTyped
<1>5. CASE Upsert
  <2>1. work.run \in Runs
    BY <1>5 DEF Upsert, WorkAgrees
  <2>2. PICK ids : Replaced(Put(vectors["active"], ids, work.run))
    BY <1>1, <1>5 DEF Upsert
  <2>3. Put(vectors["active"], ids, work.run) \in Rows
    BY <1>3, <2>1, PutTyped
  <2> QED BY <2>2, <2>3, <1>2
<1>6. CASE TrimStale
  <2>1. vectors' = vectors
          \/ Replaced(Put(vectors["active"], Present(work.before) \ ChunkIds(settings),
                         Nobody))
    BY <1>1, <1>6 DEF TrimStale
  <2> QED BY <2>1, <1>1, <1>2, <1>4
<1>7. CASE UndoRows
  <2>1. vectors' = vectors
          \/ Replaced(Put(vectors["active"], ChunkIds(settings), Nobody))
    BY <1>1, <1>7 DEF UndoRows
  <2> QED BY <2>1, <1>1, <1>2, <1>4
<1>8. CASE RestoreRows
  <2>1. vectors' = vectors \/ Replaced(RestoreSnapshot(vectors["active"], work.before))
    BY <1>1, <1>8 DEF RestoreRows
  <2>2. RestoreSnapshot(vectors["active"], work.before) \in Rows
    BY <1>1, <1>3, RestoreTyped
  <2> QED BY <2>1, <2>2, <1>1, <1>2
<1>9. CASE ~(Upsert \/ TrimStale \/ UndoRows \/ RestoreRows)
  BY <1>1, <1>9, ProcessFrame
<1> QED
  BY <1>5, <1>6, <1>7, <1>8, <1>9

LEMMA ProcessTyped ==
  ASSUME TypeOK, AttemptsAgree, WorkAgrees, ProcessStep PROVE TypeOK'
<1>1. removal' = removal
  BY ProcessFrame
<1>2. Counters'
  <2> USE TypeParts, ConstantsAssumption DEF Counters, Fault
  <2>1. CASE \E r \in Runs : SubmitProcess(r) \/ TakeJob(r)
    BY <2>1 DEF SubmitProcess, TakeJob, Live, AttemptsAgree
  <2>2. CASE ClaimFile BY <2>2 DEF ClaimFile
  <2>3. CASE Parse BY <2>3 DEF Parse, Goto
  <2>4. CASE AimAtActive BY <2>4 DEF AimAtActive, records
  <2>5. CASE Upsert BY <2>5 DEF Upsert, Goto
  <2>6. CASE TrimStale
    <3>1. UNCHANGED <<job, attempt, pinned, torn, settings, upload, disk, left>>
      BY <2>6 DEF TrimStale, Goto
    <3>2. faults' \in 0 .. MaxFaults
      BY <2>6 DEF TrimStale
    <3> QED BY <3>1, <3>2
  <2>7. CASE CommitIndex
    <3>1. UNCHANGED <<job, attempt, pinned, settings, upload, disk, left>>
      BY <2>7 DEF CommitIndex
    <3>2. torn' = FALSE \/ torn' = torn
      BY <2>7 DEF CommitIndex
    <3>3. faults' \in 0 .. MaxFaults
      BY <2>7 DEF CommitIndex
    <3> QED BY <3>1, <3>2, <3>3
  <2>8. CASE UndoRows
    <3>1. UNCHANGED <<job, attempt, pinned, settings, upload, disk, left>>
      BY <2>8 DEF UndoRows, Goto
    <3>2. torn' = TRUE \/ torn' = torn
      BY <2>8 DEF UndoRows
    <3>3. faults' \in 0 .. MaxFaults
      BY <2>8 DEF UndoRows
    <3> QED BY <3>1, <3>2, <3>3
  <2>9. CASE RestoreRows
    <3>1. UNCHANGED <<job, attempt, pinned, settings, upload, disk, left>>
      BY <2>9 DEF RestoreRows, Goto
    <3>2. torn' = TRUE \/ torn' = torn
      BY <2>9 DEF RestoreRows
    <3>3. faults' \in 0 .. MaxFaults
      BY <2>9 DEF RestoreRows
    <3> QED BY <3>1, <3>2, <3>3
  <2>10. CASE MarkProcessingFailed BY <2>10 DEF MarkProcessingFailed
  <2>11. CASE FinishJob BY <2>11 DEF FinishJob
  <2> QED
    BY <2>1, <2>2, <2>3, <2>4, <2>5, <2>6, <2>7, <2>8, <2>9, <2>10, <2>11
       DEF ProcessStep
<1> QED
  BY <1>1, <1>2, ProcessWorkTyped, ProcessRowTyped, ProcessVectorsTyped, TypeParts,
     TypePartsAfter

LEMMA RecoveryTyped ==
  ASSUME TypeOK, RecoveryStep PROVE TypeOK'
<1>1. PICK r \in Runs : \/ RecoverRefuses(r) \/ RecoverSuccess(r)
                        \/ ClearRun(r) \/ RecoverAgain(r)
  BY DEF RecoveryStep
<1>2. CASE ClearRun(r)
  <2>1. vectors' = [vectors EXCEPT !["active"] = NoRows]
    BY <1>2 DEF ClearRun
  <2>2. vectors' \in [Collections -> Rows]
    BY <2>1, TypeParts, NoRowsFacts
  <2> QED
    BY <1>2, <2>2, TypeParts, TypePartsAfter DEF ClearRun, records, Counters
<1>3. CASE ~ClearRun(r)
  <2>1. PICK s \in {"QUEUED", "SUCCEEDED", "FAILED"}, new \in Record :
          Recovered(r, s, new)
    <3>1. row \in Record
      BY TypeParts
    <3>2. CASE RecoverRefuses(r)
      BY <3>1, <3>2 DEF RecoverRefuses
    <3>3. CASE RecoverSuccess(r)
      BY <3>1, <3>3 DEF RecoverSuccess, Record
    <3>4. CASE RecoverAgain(r)
      BY <3>1, <3>4 DEF RecoverAgain, Record, Requeued, Statuses
    <3> QED BY <1>1, <1>3, <3>2, <3>3, <3>4
  <2>2. job' = [job EXCEPT ![r] = s] /\ row' = new /\ work' = Resting
          /\ UNCHANGED <<disk, left, vectors, attempt, pinned, settings, removal, upload,
                         torn, faults>>
    BY <2>1 DEF Recovered
  <2>3. job' \in [Runs -> {"none", "SUCCEEDED", "FAILED"} \union Live]
    BY <2>2, TypeParts DEF Counters, Live
  <2> QED
    BY <2>2, <2>3, RestingTyped, TypeParts, TypePartsAfter DEF Counters
<1> QED
  BY <1>2, <1>3

LEMMA DropRowsExplicit ==
  ASSUME TypeOK, NEW c \in Collections, DropRows(c)
  PROVE  /\ removal.at = c
         /\ removal' = [at |-> IF c = "active" THEN "previous" ELSE "move",
                         moved |-> removal.moved,
                         gone |-> [removal.gone EXCEPT ![c] = vectors[c]]]
         /\ vectors' = [vectors EXCEPT ![c] = NoRows]
         /\ UNCHANGED <<records, disk, left, pinned, settings, work, upload, torn, faults>>
BY TypeParts DEF DropRows, Removal

LEMMA RemovalTyped ==
  ASSUME TypeOK, RemovalStep PROVE TypeOK'
<1> USE TypeParts
<1>1. CASE CheckRemoval
  BY <1>1, RestingTyped, TypePartsAfter
     DEF CheckRemoval, records, Counters, Removal, RemovalSteps
<1>2. CASE BeginRemoval
  BY <1>2, RestingTyped, TypePartsAfter
     DEF BeginRemoval, records, Counters, Removal, RemovalSteps
<1>3. CASE \E c \in Collections : DropRows(c)
  <2>1. PICK c \in Collections : DropRows(c)
    BY <1>3
  <2>2. vectors' \in [Collections -> Rows]
    BY <2>1, DropRowsExplicit, NoRowsFacts
  <2>3. removal' \in Removal
    <3>1. [removal.gone EXCEPT ![c] = vectors[c]] \in [Collections -> Rows]
      BY <2>1 DEF Removal
    <3> QED BY <2>1, <3>1, DropRowsExplicit DEF Removal, RemovalSteps
  <2>4. UNCHANGED <<row, job, attempt, disk, left, pinned, settings, work, upload, torn,
                    faults>>
    BY <2>1, DropRowsExplicit DEF records
  <2> QED BY <2>2, <2>3, <2>4, TypePartsAfter DEF Counters
<1>4. CASE MoveAside
  <2>1. removal' \in Removal
    <3> DEFINE moved == "final" \in disk
    <3>1. removal' = [removal EXCEPT !.at = "delete", !.moved = moved]
      BY <1>4 DEF MoveAside
    <3>2. moved \in BOOLEAN
      OBVIOUS
    <3> HIDE DEF moved
    <3> QED BY <3>1, <3>2 DEF Removal, RemovalSteps
  <2>2. UNCHANGED <<row, vectors, job, attempt, pinned, settings, work, upload, torn,
                    faults>>
    BY <1>4 DEF MoveAside, records
  <2>3. disk' \subseteq Paths /\ left' \subseteq Paths
    BY <1>4 DEF MoveAside, Counters, Paths
  <2> QED BY <2>1, <2>2, <2>3, TypePartsAfter DEF Counters
<1>5. CASE DeleteRow
  <2>1. removal' \in Removal
    BY <1>5 DEF DeleteRow, Removal, RemovalSteps
  <2>2. row' \in Record
    BY <1>5 DEF DeleteRow, Record, Statuses
  <2> QED BY <1>5, <2>1, <2>2, TypePartsAfter DEF DeleteRow, Counters
<1>6. CASE Unlink
  <2>1. removal' \in Removal
    BY <1>6, RestingTyped DEF Unlink
  <2>2. UNCHANGED <<row, vectors, job, attempt, pinned, settings, work, upload>>
    BY <1>6 DEF Unlink, records
  <2>3. disk' \subseteq Paths /\ left' \subseteq Paths
    BY <1>6 DEF Unlink, Counters, Paths
  <2>4. faults' \in 0 .. MaxFaults
    BY <1>6, ConstantsAssumption DEF Unlink, Counters, Fault
  <2>5. torn' = torn
    BY <1>6 DEF Unlink
  <2> QED BY <2>1, <2>2, <2>3, <2>4, <2>5, TypePartsAfter DEF Counters
<1>7. CASE FailRemoval
  <2>1. removal' \in Removal
    BY <1>7, RestingTyped DEF FailRemoval
  <2>2. UNCHANGED <<row, job, attempt, pinned, settings, work, upload>>
    BY <1>7 DEF FailRemoval, records
  <2>3. disk' \subseteq Paths /\ left' \subseteq Paths
    BY <1>7 DEF FailRemoval, MoveBack, Counters, Paths
  <2>4. faults' \in 0 .. MaxFaults
    BY <1>7, ConstantsAssumption DEF FailRemoval, Counters, Fault
  <2>5. torn' = TRUE \/ torn' = torn
    BY <1>7 DEF FailRemoval
  <2>6. vectors' \in [Collections -> Rows]
    <3>1. \A c \in Collections :
            RestoreSnapshot(vectors[c], removal.gone[c]) \in Rows
      BY RestoreTyped DEF Removal
    <3> QED BY <1>7, <3>1 DEF FailRemoval
  <2> QED BY <2>1, <2>2, <2>3, <2>4, <2>5, <2>6, TypePartsAfter DEF Counters
<1> QED
  BY <1>1, <1>2, <1>3, <1>4, <1>5, <1>6, <1>7 DEF RemovalStep

LEMMA OthersTyped ==
  ASSUME TypeOK, Pin \/ Unpin \/ Restart \/ UNCHANGED vars PROVE TypeOK'
<1> USE TypeParts
<1>1. CASE Pin BY <1>1, TypePartsAfter DEF Pin, records, Counters
<1>2. CASE Unpin BY <1>2, TypePartsAfter DEF Unpin, records, Counters
<1>3. CASE Restart
  <2>1. row' \in Record
    BY <1>3 DEF Restart, Record, Statuses
  <2>2. work' \in Work /\ removal' \in Removal /\ upload' = "idle"
    BY <1>3, RestingTyped DEF Restart
  <2>3. /\ UNCHANGED <<disk, vectors, job, attempt, pinned>> /\ settings' \in Settings
        /\ left' \subseteq Paths
    BY <1>3 DEF Restart, Counters
  <2>4. faults' \in 0 .. MaxFaults
    BY <1>3, ConstantsAssumption DEF Restart, Counters, Fault
  <2>5. torn' \in BOOLEAN
    BY <1>3 DEF Restart
  <2> QED BY <2>1, <2>2, <2>3, <2>4, <2>5, TypePartsAfter DEF Counters
<1>4. CASE UNCHANGED vars BY <1>4, TypePartsAfter DEF vars, records, Counters
<1> QED BY <1>1, <1>2, <1>3, <1>4

LEMMA TypeNext ==
  ASSUME TypeOK, AttemptsAgree, WorkAgrees, [Next]_vars PROVE TypeOK'
BY UploadTyped, ProcessTyped, RecoveryTyped, RemovalTyped, OthersTyped DEF Next
-----------------------------------------------------------------------------
(* A job that is not terminal has an attempt left.                         *)
LEMMA AttemptsNext ==
  ASSUME TypeOK, AttemptsAgree, WorkAgrees, [Next]_vars PROVE AttemptsAgree'
<1> USE TypeParts DEF AttemptsAgree, Counters
<1>1. CASE UploadStep
  BY <1>1 DEF UploadStep, StartUpload, MoveUpload, CommitUpload, AbandonUpload, records
<1>2. CASE ProcessStep
  <2>1. CASE \E r \in Runs : SubmitProcess(r) \/ TakeJob(r)
    BY <2>1 DEF SubmitProcess, TakeJob
  <2>2. CASE FinishJob
    BY <2>2 DEF FinishJob, WorkAgrees
  <2>3. CASE ~FinishJob /\ ~\E r \in Runs : SubmitProcess(r) \/ TakeJob(r)
    BY <1>2, <2>3 DEF ProcessStep, ClaimFile, Parse, Goto, AimAtActive, Upsert,
       TrimStale, CommitIndex, UndoRows, RestoreRows, MarkProcessingFailed, records
  <2> QED BY <2>1, <2>2, <2>3
<1>3. CASE RecoveryStep
  <2>1. PICK r \in Runs : \/ RecoverRefuses(r) \/ RecoverSuccess(r)
                          \/ ClearRun(r) \/ RecoverAgain(r)
    BY <1>3 DEF RecoveryStep
  <2>2. CASE ClearRun(r)
    BY <2>2 DEF ClearRun, records
  <2>3. CASE RecoverRefuses(r) \/ RecoverSuccess(r)
    BY <2>3 DEF RecoverRefuses, RecoverSuccess, Recovered
  <2>4. CASE RecoverAgain(r)
    BY <2>4 DEF RecoverAgain, Recovered, Requeued
  <2> QED BY <2>1, <2>2, <2>3, <2>4
<1>4. CASE RemovalStep
  BY <1>4, RemovalFrame
<1>5. CASE Pin \/ Unpin \/ Restart \/ UNCHANGED vars
  BY <1>5 DEF Pin, Unpin, Restart, vars, records
<1> QED
  BY <1>1, <1>2, <1>3, <1>4, <1>5 DEF Next
-----------------------------------------------------------------------------
(* What the locks buy: a file that is worked on is left alone.             *)
LEMMA WorkUpload ==
  ASSUME TypeOK, WorkAgrees, DiskAgrees, UploadStep PROVE WorkAgrees'
<1> USE DEF WorkAgrees, DiskAgrees, VectorFree, Writing
<1>1. CASE StartUpload BY <1>1 DEF StartUpload, records
<1>2. CASE MoveUpload BY <1>2 DEF MoveUpload, records
<1>3. CASE CommitUpload BY <1>3 DEF CommitUpload
<1>4. CASE AbandonUpload BY <1>4 DEF AbandonUpload, records
<1> QED BY <1>1, <1>2, <1>3, <1>4 DEF UploadStep

LEMMA WorkProcess ==
  ASSUME TypeOK, WorkAgrees, DiskAgrees, ProcessStep PROVE WorkAgrees'
<1> USE TypeParts DEF WorkAgrees, VectorFree, Writing
<1> work \in Work /\ row \in Record
  OBVIOUS
<1>1. CASE \E r \in Runs : SubmitProcess(r) \/ TakeJob(r)
  <2>1. PICK r \in Runs : SubmitProcess(r) \/ TakeJob(r)
    BY <1>1
  <2>2. CASE SubmitProcess(r)
    <3>1. row'.status = row.status
      BY <2>2 DEF SubmitProcess, Record
    <3> QED BY <2>2, <3>1 DEF SubmitProcess
  <2>3. CASE TakeJob(r)
    <3>1. work'.at = "claim" /\ work'.run = r
      BY <2>3 DEF TakeJob, Resting
    <3> QED BY <2>3, <3>1 DEF TakeJob
  <2> QED BY <2>1, <2>2, <2>3
<1>2. CASE ClaimFile
  <2>1. work'.run = work.run /\ work'.at \in {"parse", "ended"}
    BY <1>2 DEF ClaimFile, Work
  <2>2. work'.at = "parse" => row'.status = "PROCESSING"
    BY <1>2 DEF ClaimFile, Work, Record
  <2> QED BY <1>2, <2>1, <2>2 DEF ClaimFile, AdminFree
<1>3. CASE Parse
  <2>1. work'.run = work.run /\ work'.at \in {"target", "raised"}
    BY <1>3 DEF Parse, Goto, Work
  <2>2. work'.at = "target" => disk = {"final"}
    BY <1>3 DEF Parse, Goto, Work, DiskAgrees
  <2> QED BY <1>3, <2>1, <2>2 DEF Parse, Goto
<1>4. CASE AimAtActive
  <2>1. \/ work'.at = "raised" /\ work'.run = work.run
        \/ /\ work'.at = "upsert" /\ work'.run = work.run
           /\ work'.before = vectors["active"] /\ ~pinned
    BY <1>4 DEF AimAtActive, Work
  <2> QED BY <1>4, <2>1 DEF AimAtActive, records
<1>5. CASE Upsert
  <2>1. work'.run = work.run /\ work'.before = work.before
          /\ work'.at \in {"trim", "undo"}
    BY <1>5 DEF Upsert, Goto, Work
  <2>2. work'.at = "trim" =>
          vectors'["active"] = Put(work.before, ChunkIds(settings), work.run)
    BY <1>5, TwoCollections DEF Upsert, Goto, Work
  <2> QED BY <1>5, <2>1, <2>2 DEF Upsert, Goto
<1>6. CASE TrimStale
  <2>1. work'.run = work.run /\ work'.at \in {"commit", "undo"}
    BY <1>6 DEF TrimStale, Goto, Work
  <2>2. work'.at = "commit" => Present(vectors'["active"]) = ChunkIds(settings)
    <3>1. Present(Put(Put(work.before, ChunkIds(settings), work.run),
                      Present(work.before) \ ChunkIds(settings), Nobody))
            = ChunkIds(settings)
      BY <1>6, PresentTrimmed DEF TrimStale, Counters
    <3> QED BY <1>6, <3>1, TwoCollections DEF TrimStale, Goto, Work
  <2> QED BY <1>6, <2>1, <2>2 DEF TrimStale, Goto
<1>7. CASE CommitIndex
  <2>1. work'.run = work.run /\ work'.at \in {"done", "undo"}
    BY <1>7 DEF CommitIndex, Work
  <2>2. work'.at = "undo" => row' = row
    BY <1>7 DEF CommitIndex, Work
  <2> QED BY <1>7, <2>1, <2>2 DEF CommitIndex
<1>8. CASE UndoRows
  <2>1. work'.run = work.run /\ work'.at \in {"restore", "raised"}
    BY <1>8 DEF UndoRows, Goto, Work
  <2> QED BY <1>8, <2>1 DEF UndoRows, Goto
<1>9. CASE RestoreRows
  <2>1. work'.run = work.run /\ work'.at = "raised"
    BY <1>9 DEF RestoreRows, Goto, Work
  <2> QED BY <1>9, <2>1 DEF RestoreRows, Goto
<1>10. CASE MarkProcessingFailed
  <2>1. work'.run = work.run /\ work'.at = "ended"
    BY <1>10 DEF MarkProcessingFailed, Work
  <2> QED BY <1>10, <2>1 DEF MarkProcessingFailed
<1>11. CASE FinishJob
  <2>1. work'.at = "idle"
    BY <1>11 DEF FinishJob, Resting
  <2> QED BY <1>11, <2>1 DEF FinishJob
<1> QED
  BY <1>1, <1>2, <1>3, <1>4, <1>5, <1>6, <1>7, <1>8, <1>9, <1>10, <1>11
     DEF ProcessStep

LEMMA WorkRecovery ==
  ASSUME TypeOK, WorkAgrees, RecoveryStep PROVE WorkAgrees'
<1> USE DEF WorkAgrees, VectorFree, Writing
<1>1. PICK r \in Runs : \/ RecoverRefuses(r) \/ RecoverSuccess(r)
                        \/ ClearRun(r) \/ RecoverAgain(r)
  BY DEF RecoveryStep
<1>2. CASE ClearRun(r)
  BY <1>2 DEF ClearRun, Recovering, records
<1>3. CASE ~ClearRun(r)
  <2>1. /\ work' = Resting /\ UNCHANGED <<pinned, removal>>
    BY <1>1, <1>3 DEF RecoverRefuses, RecoverSuccess, RecoverAgain, Recovered
  <2>2. work'.at = "idle"
    BY <2>1 DEF Resting
  <2> QED BY <1>1, <2>1, <2>2 DEF Recovering
<1> QED
  BY <1>2, <1>3

LEMMA WorkRemoval ==
  ASSUME TypeOK, WorkAgrees, DiskAgrees, RemovalStep PROVE WorkAgrees'
<1> USE TypeParts DEF WorkAgrees, VectorFree, Writing
<1>1. CASE CheckRemoval
  <2>1. removal'.at = "checked"
    BY <1>1 DEF CheckRemoval, NotRemoving
  <2> QED BY <1>1, <2>1 DEF CheckRemoval, records
<1>2. CASE BeginRemoval
  <2>1. \/ removal'.at = "idle"
        \/ removal'.at = "active" /\ row.status # "PROCESSING" /\ ~pinned
    BY <1>2 DEF BeginRemoval, NotRemoving
  <2> QED BY <1>2, <2>1 DEF BeginRemoval, records
<1>3. CASE \E c \in Collections : DropRows(c)
  <2>1. PICK c \in Collections : DropRows(c)
    BY <1>3
  <2>2. removal.at = c /\ (removal'.at = "previous" \/ removal'.at = "move")
          /\ UNCHANGED <<row, disk, left, pinned, settings, work, upload>>
    BY <2>1, DropRowsExplicit DEF records
  <2> QED BY <2>2, TwoCollections
<1>4. CASE MoveAside
  <2>1. removal'.at = "delete"
    BY <1>4 DEF MoveAside, Removal
  <2> QED BY <1>4, <2>1 DEF MoveAside, records
<1>5. CASE DeleteRow
  <2>1. removal'.at \in {"idle", "unlink"}
    BY <1>5 DEF DeleteRow, Removal
  <2> QED BY <1>5, <2>1 DEF DeleteRow
<1>6. CASE Unlink
  <2>1. removal'.at = "idle"
    BY <1>6 DEF Unlink, NotRemoving
  <2> QED BY <1>6, <2>1 DEF Unlink, records
<1>7. CASE FailRemoval
  <2>1. removal'.at = "idle"
    BY <1>7 DEF FailRemoval, NotRemoving
  <2> QED BY <1>7, <2>1 DEF FailRemoval, records
<1> QED
  BY <1>1, <1>2, <1>3, <1>4, <1>5, <1>6, <1>7 DEF RemovalStep

LEMMA WorkOthers ==
  ASSUME TypeOK, WorkAgrees, Pin \/ Unpin \/ Restart \/ UNCHANGED vars
  PROVE  WorkAgrees'
<1> USE DEF WorkAgrees, VectorFree, Writing
<1>1. CASE Pin BY <1>1 DEF Pin, records
<1>2. CASE Unpin BY <1>2 DEF Unpin, records
<1>3. CASE Restart
  <2>1. work'.at = "idle" /\ removal'.at = "idle"
    BY <1>3 DEF Restart, Resting, NotRemoving
  <2> QED BY <2>1
<1>4. CASE UNCHANGED vars BY <1>4 DEF vars, records
<1> QED BY <1>1, <1>2, <1>3, <1>4

LEMMA WorkNext ==
  ASSUME TypeOK, WorkAgrees, DiskAgrees, [Next]_vars PROVE WorkAgrees'
BY WorkUpload, WorkProcess, WorkRecovery, WorkRemoval, WorkOthers DEF Next
-----------------------------------------------------------------------------
(* Where the bytes of the file are.                                        *)
LEMMA DiskUpload ==
  ASSUME TypeOK, DiskAgrees, UploadStep PROVE DiskAgrees'
<1> USE TypeParts DEF DiskAgrees, AdminFree, Exists
<1>1. CASE StartUpload BY <1>1 DEF StartUpload, records
<1>2. CASE MoveUpload BY <1>2 DEF MoveUpload, records
<1>3. CASE CommitUpload
  <2>1. row'.status = "PENDING"
    BY <1>3 DEF CommitUpload, Record
  <2> QED BY <1>3, <2>1 DEF CommitUpload
<1>4. CASE AbandonUpload
  <2>1. \/ disk' = {}
        \/ disk' = disk /\ disk \subseteq left'
    BY <1>4 DEF AbandonUpload, Counters
  <2> QED BY <1>4, <2>1 DEF AbandonUpload, records
<1> QED BY <1>1, <1>2, <1>3, <1>4 DEF UploadStep

(* process_file and the recovery change the status of a file that exists,  *)
(* and only when nobody is deleting it.                                    *)
Restated ==
  /\ UNCHANGED <<disk, left, removal, upload>>
  /\ row.status \in {"none", "deleted"} \/ row'.status \in {"none", "deleted"} =>
       row'.status = row.status
  /\ row'.status = "PROCESSING" /\ row.status # "PROCESSING" =>
       removal.at \in {"idle", "checked"}

LEMMA DiskRestated ==
  ASSUME TypeOK, DiskAgrees, Restated PROVE DiskAgrees'
BY DEF Restated, DiskAgrees, Exists

LEMMA ProcessRestates ==
  ASSUME TypeOK, WorkAgrees, DiskAgrees, ProcessStep PROVE Restated
<1> USE TypeParts DEF Restated, Exists, Record
<1>1. CASE \E r \in Runs : SubmitProcess(r) \/ TakeJob(r)
  <2>1. row'.status = row.status
    BY <1>1 DEF SubmitProcess, TakeJob
  <2>2. UNCHANGED <<disk, left, removal, upload>>
    BY <1>1 DEF SubmitProcess, TakeJob
  <2> QED BY <2>1, <2>2
<1>2. CASE ClaimFile
  <2>1. \/ row'.status = row.status
        \/ Exists /\ row'.status = "PROCESSING"
    BY <1>2 DEF ClaimFile
  <2>2. AdminFree /\ UNCHANGED <<disk, left, removal, upload>>
    BY <1>2 DEF ClaimFile
  <2> QED BY <2>1, <2>2 DEF AdminFree
<1>3. CASE Parse BY <1>3 DEF Parse, Goto
<1>4. CASE AimAtActive BY <1>4 DEF AimAtActive, records
<1>5. CASE Upsert BY <1>5 DEF Upsert, Goto
<1>6. CASE TrimStale BY <1>6 DEF TrimStale, Goto
<1>7. CASE CommitIndex
  <2>1. row' = row \/ row'.status = "SUCCESS"
    BY <1>7 DEF CommitIndex
  <2>2. row.status = "PROCESSING"
    BY <1>7 DEF CommitIndex, WorkAgrees, Writing
  <2>3. UNCHANGED <<disk, left, removal, upload>>
    BY <1>7 DEF CommitIndex
  <2> QED BY <2>1, <2>2, <2>3
<1>8. CASE UndoRows BY <1>8 DEF UndoRows, Goto
<1>9. CASE RestoreRows BY <1>9 DEF RestoreRows, Goto
<1>10. CASE MarkProcessingFailed
  <2>1. \/ row' = row
        \/ Exists /\ row'.status = "FAILED"
    BY <1>10 DEF MarkProcessingFailed
  <2> QED BY <1>10, <2>1 DEF MarkProcessingFailed
<1>11. CASE FinishJob
  <2>1. \/ row'.status = row.status
        \/ row.status = "PROCESSING" /\ row'.status = "FAILED"
    BY <1>11 DEF FinishJob
  <2> QED BY <1>11, <2>1 DEF FinishJob
<1> QED
  BY <1>1, <1>2, <1>3, <1>4, <1>5, <1>6, <1>7, <1>8, <1>9, <1>10, <1>11
     DEF ProcessStep

LEMMA RecoveryRestates ==
  ASSUME TypeOK, RecoveryStep PROVE Restated
<1> USE TypeParts DEF Restated, Exists, Record
<1>1. PICK r \in Runs : \/ RecoverRefuses(r) \/ RecoverSuccess(r)
                        \/ ClearRun(r) \/ RecoverAgain(r)
  BY DEF RecoveryStep
<1>2. CASE ClearRun(r) BY <1>2 DEF ClearRun, records
<1>3. CASE RecoverRefuses(r) BY <1>3 DEF RecoverRefuses, Recovered
<1>4. CASE RecoverSuccess(r)
  <2>1. row'.status = row.status
    BY <1>4 DEF RecoverSuccess, Recovered
  <2> QED BY <1>4, <2>1 DEF RecoverSuccess, Recovered
<1>5. CASE RecoverAgain(r)
  <2>1. Exists /\ row'.status = "FAILED"
    BY <1>5 DEF RecoverAgain, Recovered
  <2> QED BY <1>5, <2>1 DEF RecoverAgain, Recovered
<1> QED
  BY <1>1, <1>2, <1>3, <1>4, <1>5

LEMMA DiskRemoval ==
  ASSUME TypeOK, DiskAgrees, RemovalStep PROVE DiskAgrees'
<1> USE TypeParts DEF DiskAgrees, Exists
<1>1. CASE CheckRemoval
  <2>1. removal'.at = "checked" /\ removal'.moved = FALSE
    BY <1>1 DEF CheckRemoval, NotRemoving
  <2> QED BY <1>1, <2>1 DEF CheckRemoval, records
<1>2. CASE BeginRemoval
  <2>1. /\ removal'.moved = FALSE
        /\ \/ removal'.at = "idle"
           \/ /\ removal'.at = "active" /\ Exists
              /\ row.status # "PROCESSING" /\ upload = "idle"
    BY <1>2 DEF BeginRemoval, NotRemoving
  <2>2. removal.moved = FALSE
    BY <1>2 DEF BeginRemoval, Removal
  <2> QED BY <1>2, <2>1, <2>2 DEF BeginRemoval, records
<1>3. CASE \E c \in Collections : DropRows(c)
  <2>1. PICK c \in Collections : DropRows(c)
    BY <1>3
  <2>2. /\ removal.at \in {"active", "previous"}
        /\ removal'.at = "previous" \/ removal'.at = "move"
        /\ removal'.moved = removal.moved
        /\ UNCHANGED <<row, disk, left, upload>>
    BY <2>1, DropRowsExplicit, TwoCollections DEF records
  <2> QED BY <2>2
<1>4. CASE MoveAside
  <2>1. removal'.at = "delete" /\ (removal'.moved <=> "final" \in disk)
    BY <1>4 DEF MoveAside, Removal
  <2>2. removal.moved = FALSE
    BY <1>4 DEF MoveAside, Removal
  <2>3. IF disk = {"final"} THEN disk' = {"quarantine"}
                            ELSE disk' = disk /\ "final" \notin disk
    BY <1>4 DEF MoveAside
  <2>4. removal.at = "move" /\ UNCHANGED <<row, upload, left>>
    BY <1>4 DEF MoveAside, records
  <2>5. CASE disk = {"final"}
    BY <2>1, <2>3, <2>4, <2>5
  <2>6. CASE disk # {"final"}
    BY <2>1, <2>2, <2>3, <2>4, <2>6
  <2> QED BY <2>5, <2>6
<1>5. CASE DeleteRow
  <2>1. row'.status = "deleted"
    BY <1>5 DEF DeleteRow, Record
  <2>2. removal'.at = (IF removal.moved THEN "unlink" ELSE "idle")
          /\ removal'.moved = removal.moved
    BY <1>5 DEF DeleteRow, Removal
  <2> QED BY <1>5, <2>1, <2>2 DEF DeleteRow
<1>6. CASE Unlink
  <2>1. removal'.at = "idle" /\ removal'.moved = FALSE
    BY <1>6 DEF Unlink, NotRemoving
  <2>2. /\ disk = {"quarantine"} /\ row.status = "deleted" /\ upload = "idle"
        /\ UNCHANGED <<row, upload>>
    BY <1>6 DEF Unlink, records
  <2>3. disk' = {} \/ (disk' = {"quarantine"} /\ disk' \subseteq left')
    <3>1. (disk' = disk \ {"quarantine"}) \/ (disk' = disk /\ disk \subseteq left')
      BY <1>6 DEF Unlink
    <3>2. CASE disk' = disk \ {"quarantine"}
      BY <2>2, <3>2
    <3>3. CASE disk' = disk /\ disk \subseteq left'
      BY <2>2, <3>3
    <3> QED BY <3>1, <3>2, <3>3
  <2> QED BY <2>1, <2>2, <2>3
<1>7. CASE FailRemoval
  <2>1. removal'.at = "idle" /\ removal'.moved = FALSE
    BY <1>7 DEF FailRemoval, NotRemoving
  <2>2. /\ Exists /\ upload = "idle" /\ row.status # "PROCESSING"
        /\ UNCHANGED <<row, upload>>
    BY <1>7 DEF FailRemoval, records
  <2>3. /\ left \subseteq left'
        /\ \/ disk' = {"final"}
           \/ disk' = disk /\ (removal.moved => disk \subseteq left')
    <3>1. \/ MoveBack
          \/ /\ disk' = disk
             /\ left' = IF removal.moved THEN left \union disk ELSE left
      BY <1>7 DEF FailRemoval
    <3>2. removal.moved => (disk \ {"quarantine"}) \union {"final"} = {"final"}
      OBVIOUS
    <3> QED BY <3>1, <3>2 DEF MoveBack
  <2>4. CASE disk' = {"final"}
    BY <2>1, <2>2, <2>4
  <2>5. CASE disk' = disk /\ (removal.moved => disk \subseteq left')
    BY <2>1, <2>2, <2>3, <2>5
  <2> QED BY <2>3, <2>4, <2>5
<1> QED
  BY <1>1, <1>2, <1>3, <1>4, <1>5, <1>6, <1>7 DEF RemovalStep

LEMMA DiskOthers ==
  ASSUME TypeOK, DiskAgrees, Pin \/ Unpin \/ Restart \/ UNCHANGED vars
  PROVE  DiskAgrees'
<1> USE TypeParts DEF DiskAgrees, Exists
<1>1. CASE Pin BY <1>1 DEF Pin, records
<1>2. CASE Unpin BY <1>2 DEF Unpin, records
<1>3. CASE Restart
  <2>1. removal'.at = "idle" /\ removal'.moved = FALSE /\ upload' = "idle"
    BY <1>3 DEF Restart, NotRemoving
  <2>2. \/ row'.status = row.status
        \/ row.status = "PROCESSING" /\ row'.status = "FAILED"
    BY <1>3 DEF Restart, Record
  <2>3. disk' = disk
    BY <1>3 DEF Restart
  <2>4. /\ left \subseteq left'
        /\ upload # "idle" \/ removal.moved => disk \subseteq left'
    BY <1>3 DEF Restart
  <2>5. CASE upload # "idle" \/ removal.moved
    BY <2>1, <2>2, <2>3, <2>4, <2>5
  <2>6. CASE upload = "idle" /\ ~removal.moved
    BY <2>1, <2>2, <2>3, <2>4, <2>6
  <2> QED BY <2>5, <2>6
<1>4. CASE UNCHANGED vars BY <1>4 DEF vars, records
<1> QED BY <1>1, <1>2, <1>3, <1>4

LEMMA DiskNext ==
  ASSUME TypeOK, WorkAgrees, DiskAgrees, [Next]_vars PROVE DiskAgrees'
BY DiskUpload, ProcessRestates, RecoveryRestates, DiskRestated, DiskRemoval, DiskOthers
   DEF Next
-----------------------------------------------------------------------------
(* The rows of the file: those that are left, and those that a failing     *)
(* deletion will put back.                                                 *)
LEMMA RowsUpload ==
  ASSUME TypeOK, DiskAgrees, RowsAgree, UploadStep PROVE RowsAgree'
<1> USE TypeParts DEF RowsAgree, Exists, DiskAgrees
<1>1. UNCHANGED <<vectors, removal, torn>>
  BY DEF UploadStep, StartUpload, MoveUpload, CommitUpload, AbandonUpload
<1>2. \/ row' = row
      \/ row.status = "none" /\ row'.status = "PENDING"
  BY DEF UploadStep, StartUpload, MoveUpload, CommitUpload, AbandonUpload, records,
         Record
<1> QED BY <1>1, <1>2

(* A step that leaves the rows alone, and does not make a file ready.      *)
Unready ==
  /\ UNCHANGED <<vectors, removal>>
  /\ row'.status \in {"none", "deleted"} => row.status \in {"none", "deleted"}
  /\ row'.status = "SUCCESS" =>
       row.status = "SUCCESS" /\ row'.indexed = row.indexed
  /\ torn => torn'

LEMMA RowsUnready ==
  ASSUME RowsAgree, Unready PROVE RowsAgree'
BY DEF RowsAgree, Unready, Exists

(* A step that writes rows of a file that is being processed.              *)
Written ==
  /\ UNCHANGED <<row, removal>>
  /\ row.status = "PROCESSING" /\ removal.at \in {"idle", "checked"}

LEMMA RowsWritten ==
  ASSUME RowsAgree, Written PROVE RowsAgree'
BY DEF RowsAgree, Written, Exists

LEMMA RowsProcess ==
  ASSUME TypeOK, WorkAgrees, RowsAgree, ProcessStep PROVE RowsAgree'
<1> USE TypeParts DEF Record
<1>1. CASE \E r \in Runs : SubmitProcess(r) \/ TakeJob(r)
  <2>1. row'.status = row.status /\ row'.indexed = row.indexed
          /\ UNCHANGED <<vectors, removal, torn>>
    BY <1>1 DEF SubmitProcess, TakeJob
  <2> QED BY <2>1, RowsUnready DEF Unready
<1>2. CASE ClaimFile
  <2>1. \/ row'.status = row.status /\ row'.indexed = row.indexed
        \/ row'.status = "PROCESSING"
    BY <1>2 DEF ClaimFile
  <2>2. UNCHANGED <<vectors, removal, torn>>
    BY <1>2 DEF ClaimFile
  <2> QED BY <2>1, <2>2, RowsUnready DEF Unready
<1>3. CASE Parse
  BY <1>3, RowsUnready DEF Parse, Goto, Unready
<1>4. CASE AimAtActive
  BY <1>4, RowsUnready DEF AimAtActive, records, Unready
<1>5. CASE Upsert
  BY <1>5, RowsWritten DEF Upsert, Goto, Written, WorkAgrees, Writing
<1>6. CASE TrimStale
  BY <1>6, RowsWritten DEF TrimStale, Goto, Written, WorkAgrees, Writing
<1>7. CASE CommitIndex
  <2>1. CASE UNCHANGED <<row, torn>>
    BY <1>7, <2>1, RowsUnready DEF CommitIndex, Unready
  <2>2. CASE row' = [status |-> "SUCCESS", owner |-> Nobody, indexed |-> settings]
    <3>1. Present(vectors["active"]) = ChunkIds(row'.indexed)
            /\ removal.at \in {"idle", "checked"}
      BY <1>7, <2>2 DEF CommitIndex, WorkAgrees, Writing
    <3>2. row'.status = "SUCCESS" /\ UNCHANGED <<vectors, removal>>
      BY <1>7, <2>2 DEF CommitIndex
    <3> QED BY <3>1, <3>2 DEF RowsAgree, Exists
  <2> QED BY <1>7, <2>1, <2>2 DEF CommitIndex
<1>8. CASE UndoRows
  BY <1>8, RowsWritten DEF UndoRows, Goto, Written, WorkAgrees, Writing
<1>9. CASE RestoreRows
  BY <1>9, RowsWritten DEF RestoreRows, Goto, Written, WorkAgrees, Writing
<1>10. CASE MarkProcessingFailed
  <2>1. row' = row \/ row'.status = "FAILED"
    BY <1>10 DEF MarkProcessingFailed
  <2>2. UNCHANGED <<vectors, removal, torn>>
    BY <1>10 DEF MarkProcessingFailed
  <2> QED BY <2>1, <2>2, RowsUnready DEF Unready
<1>11. CASE FinishJob
  <2>1. \/ row'.status = row.status /\ row'.indexed = row.indexed
        \/ row'.status = "FAILED"
    BY <1>11 DEF FinishJob
  <2>2. UNCHANGED <<vectors, removal, torn>>
    BY <1>11 DEF FinishJob
  <2> QED BY <2>1, <2>2, RowsUnready DEF Unready
<1> QED
  BY <1>1, <1>2, <1>3, <1>4, <1>5, <1>6, <1>7, <1>8, <1>9, <1>10, <1>11
     DEF ProcessStep

LEMMA RowsRecovery ==
  ASSUME TypeOK, RowsAgree, RecoveryStep PROVE RowsAgree'
<1> USE TypeParts DEF Record
<1>1. PICK r \in Runs : \/ RecoverRefuses(r) \/ RecoverSuccess(r)
                        \/ ClearRun(r) \/ RecoverAgain(r)
  BY DEF RecoveryStep
<1>2. CASE ClearRun(r)
  <2>1. /\ vectors'["active"] = NoRows
        /\ vectors'["previous"] = vectors["previous"]
    BY <1>2, TwoCollections, ReplaceRows, NoRowsFacts DEF ClearRun
  <2>2. UNCHANGED <<row, removal>> /\ Exists /\ row.status # "SUCCESS"
    BY <1>2 DEF ClearRun, records
  <2> QED BY <2>1, <2>2 DEF RowsAgree, Exists
<1>3. CASE RecoverRefuses(r)
  BY <1>3, RowsUnready DEF RecoverRefuses, Recovered, Unready
<1>4. CASE RecoverSuccess(r)
  <2>1. row'.status = row.status /\ row'.indexed = row.indexed
          /\ UNCHANGED <<vectors, removal, torn>>
    BY <1>4 DEF RecoverSuccess, Recovered
  <2> QED BY <2>1, RowsUnready DEF Unready
<1>5. CASE RecoverAgain(r)
  <2>1. row'.status = "FAILED" /\ UNCHANGED <<vectors, removal, torn>>
    BY <1>5 DEF RecoverAgain, Recovered
  <2> QED BY <2>1, RowsUnready DEF Unready
<1> QED
  BY <1>1, <1>2, <1>3, <1>4, <1>5

LEMMA RowsRemoval ==
  ASSUME TypeOK, DiskAgrees, RowsAgree, RemovalStep PROVE RowsAgree'
<1> USE TypeParts
<1>9. /\ vectors \in [Collections -> Rows]
      /\ removal.gone \in [Collections -> Rows]
      /\ vectors["active"] \in Rows /\ vectors["previous"] \in Rows
      /\ removal.gone["active"] \in Rows
  BY TwoCollections DEF Removal
<1>1. CASE CheckRemoval
  <2>1. /\ removal.at = "idle" /\ removal'.at = "checked"
        /\ UNCHANGED <<row, vectors, torn>>
    BY <1>1 DEF CheckRemoval, NotRemoving, records
  <2> QED BY <2>1 DEF RowsAgree, Exists
<1>2. CASE BeginRemoval
  <2>1. /\ removal.at = "checked" /\ removal'.at \in {"idle", "active"}
        /\ removal'.gone["active"] = NoRows
        /\ UNCHANGED <<row, vectors, torn>>
    BY <1>2, TwoCollections DEF BeginRemoval, NotRemoving, records
  <2> QED BY <2>1 DEF RowsAgree, Exists
<1>3. CASE DropRows("active")
  <2>1. /\ removal.at = "active" /\ removal'.at = "previous"
        /\ removal'.gone["active"] = vectors["active"]
        /\ vectors'["active"] = NoRows /\ vectors'["previous"] = vectors["previous"]
        /\ UNCHANGED <<row, torn>>
    BY <1>3, <1>9, DropRowsExplicit, TwoCollections, ReplaceRows, NoRowsFacts
       DEF records
  <2> QED BY <2>1, TwoCollections DEF RowsAgree, Exists
<1>4. CASE DropRows("previous")
  <2>1. /\ removal.at = "previous" /\ removal'.at = "move"
        /\ removal'.gone["active"] = removal.gone["active"]
        /\ vectors'["active"] = vectors["active"] /\ vectors'["previous"] = NoRows
        /\ UNCHANGED <<row, torn>>
    BY <1>4, <1>9, DropRowsExplicit, TwoCollections, ReplaceRows, NoRowsFacts
       DEF records
  <2> QED BY <2>1, TwoCollections DEF RowsAgree, Exists
<1>5. CASE MoveAside
  <2>1. /\ removal.at = "move" /\ removal'.at = "delete"
        /\ removal'.gone = removal.gone
    BY <1>5 DEF MoveAside, Removal
  <2>2. UNCHANGED <<row, vectors, torn>>
    BY <1>5 DEF MoveAside, records
  <2> QED BY <2>1, <2>2 DEF RowsAgree, Exists
<1>6. CASE DeleteRow
  <2>1. removal.at = "delete" /\ removal'.at \in {"unlink", "idle"}
    BY <1>6 DEF DeleteRow, Removal
  <2>2. row'.status = "deleted" /\ vectors' = vectors
    BY <1>6 DEF DeleteRow, Record
  <2> QED BY <2>1, <2>2, TwoCollections DEF RowsAgree, Exists
<1>7. CASE Unlink
  <2>1. removal'.at = "idle" /\ UNCHANGED <<row, vectors>>
    BY <1>7 DEF Unlink, NotRemoving, records
  <2>2. row.status = "deleted"
    BY <1>7 DEF Unlink, DiskAgrees
  <2> QED BY <2>1, <2>2 DEF RowsAgree, Exists
<1>8. CASE FailRemoval
  <2>1. removal'.at = "idle" /\ row' = row /\ Exists
    BY <1>8 DEF FailRemoval, NotRemoving, records, DiskAgrees
  <2>2. CASE torn' = TRUE
    BY <2>1, <2>2 DEF RowsAgree, Exists
  <2>3. CASE torn' = torn /\ vectors' = [c \in Collections |->
                                 RestoreSnapshot(vectors[c], removal.gone[c])]
    <3>1. vectors'["active"]
            = RestoreSnapshot(vectors["active"], removal.gone["active"])
      BY <2>3, TwoCollections
    <3>2. CASE removal.at = "active"
      BY <2>1, <2>3, <3>1, <3>2, <1>9, RestoreNothing DEF RowsAgree, Exists
    <3>3. CASE removal.at \in {"previous", "move", "delete"}
      BY <2>1, <2>3, <3>1, <3>3, <1>9, RestoreOnNothing DEF RowsAgree, Exists
    <3> QED BY <1>8, <3>2, <3>3 DEF FailRemoval
  <2> QED BY <1>8, <2>2, <2>3 DEF FailRemoval
<1> QED
  BY <1>1, <1>2, <1>3, <1>4, <1>5, <1>6, <1>7, <1>8, TwoCollections DEF RemovalStep

LEMMA RowsOthers ==
  ASSUME TypeOK, RowsAgree, Pin \/ Unpin \/ Restart \/ UNCHANGED vars
  PROVE  RowsAgree'
<1> USE TypeParts DEF RowsAgree, Exists
<1>1. CASE Pin BY <1>1 DEF Pin, records
<1>2. CASE Unpin BY <1>2 DEF Unpin, records
<1>3. CASE Restart
  <2>1. removal'.at = "idle" /\ vectors' = vectors
    BY <1>3 DEF Restart, NotRemoving
  <2>2. \/ row'.status = row.status /\ row'.indexed = row.indexed
        \/ row.status = "PROCESSING" /\ row'.status = "FAILED"
    BY <1>3 DEF Restart, Record
  <2>3. (torn => torn') /\ (removal.at \in {"previous", "move", "delete"} => torn')
    BY <1>3 DEF Restart
  <2> QED BY <2>1, <2>2, <2>3
<1>4. CASE UNCHANGED vars BY <1>4 DEF vars, records
<1> QED BY <1>1, <1>2, <1>3, <1>4

LEMMA RowsNext ==
  ASSUME TypeOK, WorkAgrees, DiskAgrees, RowsAgree, [Next]_vars PROVE RowsAgree'
BY RowsUpload, RowsProcess, RowsRecovery, RowsRemoval, RowsOthers DEF Next
-----------------------------------------------------------------------------
LEMMA FInvHolds == Spec => []FInv
<1>1. FInv /\ [Next]_vars => FInv'
  BY TypeNext, AttemptsNext, WorkNext, DiskNext, RowsNext DEF FInv
<1> QED
  BY FInvInit, <1>1, PTL DEF Spec

(* The variables keep their types: at most two attempts of every job, a    *)
(* removal that remembers rows of this file only, never more faults than   *)
(* MaxFaults.                                                              *)
THEOREM TypeCorrect == Spec => []TypeOK
BY FInvHolds, PTL DEF FInv

(* upload_file, delete_file and every failure or crash in them: a listed   *)
(* file is in its place, a file that is gone has left no row in any        *)
(* collection and no bytes, but for the paths that a crash or a failing    *)
(* unlink or renaming has given up.                                        *)
THEOREM NothingIsLeft == Spec => []NothingLeftBehind
<1>1. FInv => NothingLeftBehind
  <2> SUFFICES ASSUME FInv, removal.at = "idle", upload = "idle"
               PROVE  IF Exists
                        THEN disk = {"final"} \/ "quarantine" \in disk \intersect left
                        ELSE /\ disk \subseteq left
                             /\ \A c \in Collections : Present(vectors[c]) = {}
    BY DEF NothingLeftBehind
  <2>1. CASE Exists
    BY <2>1 DEF FInv, DiskAgrees
  <2>2. CASE ~Exists
    <3>1. \A c \in Collections : Present(vectors[c]) = {}
      BY <2>2, NoRowsFacts DEF FInv, RowsAgree
    <3>2. disk \subseteq left
      BY <2>2 DEF FInv, DiskAgrees, Exists
    <3> QED BY <2>2, <3>1, <3>2
  <2> QED BY <2>1, <2>2
<1> QED
  BY <1>1, FInvHolds, PTL

(* process_file, its compensation, its recovery and a deletion that is put *)
(* back: a file shown as SUCCESS is answered from the chunks its row       *)
(* counts and from no others.                                              *)
THEOREM ReadyFilesAreComplete == Spec => []ReadyIsComplete
<1>1. FInv => ReadyIsComplete
  BY DEF FInv, RowsAgree, ReadyIsComplete
<1> QED
  BY <1>1, FInvHolds, PTL

(* Under a pin nobody writes the rows of the file: all that holds the      *)
(* vector lock began without one.  What is left is the undo of a deletion  *)
(* that had begun before, and a recovery that clears its run.              *)
THEOREM PinnedRowsAreStable == Spec => PinnedIsStable
<1> DEFINE Kept == pinned /\ vectors'["active"] # vectors["active"] =>
                     removal.at \in {"move", "delete"} \/ \E r \in Runs : ClearRun(r)
<1>1. ASSUME FInv, Next PROVE Kept
  <2> SUFFICES ASSUME pinned, vectors' # vectors
               PROVE  removal.at \in {"move", "delete"} \/ \E r \in Runs : ClearRun(r)
    OBVIOUS
  <2>1. work.at \notin Writing /\ removal.at \notin {"active", "previous"}
    BY <1>1 DEF FInv, WorkAgrees, VectorFree
  <2>2. ~UploadStep
    BY DEF UploadStep, StartUpload, MoveUpload, CommitUpload, AbandonUpload
  <2>3. ~ProcessStep
    BY <2>1, ProcessFrame
  <2>4. ~(Pin \/ Unpin \/ Restart)
    BY DEF Pin, Unpin, Restart
  <2>5. RecoveryStep => \E r \in Runs : ClearRun(r)
    BY DEF RecoveryStep, RecoverRefuses, RecoverSuccess, RecoverAgain, Recovered
  <2>6. RemovalStep => removal.at \in {"move", "delete"}
    BY <2>1, RemovalFrame
  <2> QED
    BY <1>1, <2>2, <2>3, <2>4, <2>5, <2>6 DEF Next
<1>2. FInv /\ [Next]_vars => [Kept]_vars
  BY <1>1
<1> QED
  BY <1>2, FInvHolds, PTL DEF Spec, PinnedIsStable
-----------------------------------------------------------------------------
(* AllOrNothing.  A replacement touches the rows of one splitting and      *)
(* those that were there before, so rows are judged splitting by splitting.*)
(* D is a set of runs that may have been interrupted: their rows prove     *)
(* nothing.                                                                *)
Excused(f, s, D) == \/ \A i \in ChunkIds(s) : f[i] = Nobody
                    \/ \E i \in ChunkIds(s) : f[i] \in D
Whole(f, s) == \A i \in ChunkIds(s) : f[i] # Nobody

(* One splitting may be there as a whole; of any other there is no row,    *)
(* or one of a run that may have been interrupted.                         *)
Sound(f, D) == \E b \in Settings : \A s \in Settings :
                 Excused(f, s, D) \/ (s = b /\ Whole(f, s))

(* The runs that recovery gave up on, and those that are still to be       *)
(* recovered or that are writing.                                          *)
GivenUp == {r \in Runs : job[r] = "FAILED"}
Doubtful == GivenUp \union
              {r \in Runs : job[r] = "RUNNING" /\ (work.run # r \/ work.at \in Writing)}

(* Splittings have no identity in common.                                  *)
LEMMA ChunkIdsApart ==
  ASSUME NEW s, NEW t, NEW i \in ChunkIds(s), i \in ChunkIds(t) PROVE s = t
BY DEF ChunkIds

(* More runs to doubt, fewer claims.                                       *)
LEMMA SoundMore ==
  ASSUME NEW f, NEW D, NEW E, D \subseteq E, Sound(f, D) PROVE Sound(f, E)
BY DEF Sound, Excused

(* Nothing there is sound.                                                 *)
LEMMA SoundNoRows ==
  ASSUME NEW D, TypeOK PROVE Sound(NoRows, D)
<1>1. settings \in Settings
  BY DEF TypeOK
<1>2. \A s \in Settings : Excused(NoRows, s, D)
  BY ChunkIdsAreIds DEF Excused, NoRows
<1> QED
  BY <1>1, <1>2 DEF Sound

(* All chunks of one splitting and no other rows are sound.                *)
LEMMA SoundComplete ==
  ASSUME NEW f, NEW D, NEW b \in Settings, Present(f) = ChunkIds(b) PROVE Sound(f, D)
<1>1. \A s \in Settings : \A i \in ChunkIds(s) : f[i] # Nobody <=> i \in ChunkIds(b)
  BY ChunkIdsAreIds DEF Present
<1>2. Whole(f, b)
  BY <1>1 DEF Whole
<1>3. \A s \in Settings : s # b => Excused(f, s, D)
  BY <1>1, ChunkIdsApart DEF Excused
<1> QED
  BY <1>2, <1>3 DEF Sound

(* What a run in doubt writes leaves the rows sound.                       *)
LEMMA SoundPut ==
  ASSUME NEW f, NEW D, Sound(f, D), NEW r \in D \cap Runs, NEW t \in Settings,
         NEW part, part \subseteq ChunkIds(t)
  PROVE  Sound(Put(f, part, r), D)
<1> DEFINE g == Put(f, part, r)
<1>1. PICK b \in Settings : \A s \in Settings :
                              Excused(f, s, D) \/ (s = b /\ Whole(f, s))
  BY DEF Sound
<1>2. \A i \in Ids : g[i] = IF i \in part THEN r ELSE f[i]
  BY DEF Put
<1> HIDE DEF g
<1>3. r # Nobody
  BY ConstantsAssumption
<1>4. ASSUME NEW s \in Settings PROVE Excused(g, s, D) \/ (s = b /\ Whole(g, s))
  <2>1. ChunkIds(s) \subseteq Ids
    BY ChunkIdsAreIds
  <2>2. CASE ChunkIds(s) \cap part = {}
    <3>1. \A i \in ChunkIds(s) : g[i] = f[i]
      BY <1>2, <2>1, <2>2
    <3> QED BY <1>1, <3>1 DEF Excused, Whole
  <2>3. CASE ChunkIds(s) \cap part # {}
    BY <1>2, <2>1, <2>3 DEF Excused
  <2> QED BY <2>2, <2>3
<1> QED
  BY <1>4 DEF Sound, g

(* Removing a whole splitting leaves the rows sound.                       *)
LEMMA SoundRemoved ==
  ASSUME NEW f, NEW D, Sound(f, D), NEW t \in Settings
  PROVE  Sound(Put(f, ChunkIds(t), Nobody), D)
<1> DEFINE g == Put(f, ChunkIds(t), Nobody)
<1>1. PICK b \in Settings : \A s \in Settings :
                              Excused(f, s, D) \/ (s = b /\ Whole(f, s))
  BY DEF Sound
<1>2. \A i \in Ids : g[i] = IF i \in ChunkIds(t) THEN Nobody ELSE f[i]
  BY DEF Put
<1> HIDE DEF g
<1>3. ASSUME NEW s \in Settings PROVE Excused(g, s, D) \/ (s = b /\ Whole(g, s))
  <2>1. ChunkIds(s) \subseteq Ids
    BY ChunkIdsAreIds
  <2>2. CASE s = t
    BY <1>2, <2>1, <2>2 DEF Excused
  <2>3. CASE s # t
    <3>1. \A i \in ChunkIds(s) : g[i] = f[i]
      BY <1>2, <2>1, <2>3, ChunkIdsApart
    <3> QED BY <1>1, <3>1 DEF Excused, Whole
  <2> QED BY <2>2, <2>3
<1> QED
  BY <1>3 DEF Sound, g

(* A run that owns no row need not be doubted.                             *)
LEMMA SoundWithout ==
  ASSUME NEW f, NEW D, NEW r, Sound(f, D), OwnedBy(f, r) = {} PROVE Sound(f, D \ {r})
<1>1. \A s \in Settings : Excused(f, s, D) => Excused(f, s, D \ {r})
  BY ChunkIdsAreIds DEF OwnedBy, Excused
<1> QED
  BY <1>1 DEF Sound

(* Without rows of runs in doubt, what is sound is complete or empty.      *)
LEMMA SoundIsComplete ==
  ASSUME NEW f, NEW D, Sound(f, D), \A i \in Ids : f[i] \notin D
  PROVE  Present(f) \in {ChunkIds(s) : s \in Settings} \union {{}}
<1>1. PICK b \in Settings : \A s \in Settings :
                              Excused(f, s, D) \/ (s = b /\ Whole(f, s))
  BY DEF Sound
<1>2. \A s \in Settings : s # b => \A i \in ChunkIds(s) : f[i] = Nobody
  BY <1>1, ChunkIdsAreIds DEF Excused
<1>3. \A i \in Ids : \E s \in Settings : i \in ChunkIds(s)
  BY DEF Ids, ChunkIds
<1>4. Present(f) \subseteq ChunkIds(b)
  BY <1>2, <1>3 DEF Present
<1>5. CASE Whole(f, b)
  BY <1>4, <1>5, ChunkIdsAreIds DEF Whole, Present
<1>6. CASE Excused(f, b, D)
  BY <1>4, <1>6, ChunkIdsAreIds DEF Excused, Present
<1> QED
  BY <1>1, <1>5, <1>6
-----------------------------------------------------------------------------
(* The job of the step under way is the one that is RUNNING, and while     *)
(* process_file or delete_file is under way no other is.                   *)
Busy == work.at # "idle" \/ removal.at # "idle"

JobsAgree ==
  /\ work.at # "idle" => job[work.run] = "RUNNING"
  /\ Busy => \A q \in Runs : job[q] = "RUNNING" => q = work.run

LEMMA JobsInit == Init => JobsAgree
BY DEF Init, JobsAgree, Busy, Resting, NotRemoving

(* A step within process_file, or one that starts nothing.                 *)
Ongoing == /\ UNCHANGED job /\ work'.run = work.run
           /\ work'.at # "idle" => work.at # "idle"
           /\ removal'.at # "idle" => Busy

LEMMA JobsOngoing ==
  ASSUME JobsAgree, Ongoing PROVE JobsAgree'
BY DEF JobsAgree, Busy, Ongoing

LEMMA JobsProcess ==
  ASSUME TypeOK, WorkAgrees, JobsAgree, ProcessStep PROVE JobsAgree'
<1> USE TypeParts DEF Counters, Work
<1>1. ASSUME NEW r \in Runs, SubmitProcess(r) PROVE JobsAgree'
  BY <1>1 DEF SubmitProcess, JobsAgree, Busy, WorkAgrees
<1>2. ASSUME NEW r \in Runs, TakeJob(r) PROVE JobsAgree'
  <2>1. work'.run = r /\ job'[r] = "RUNNING"
    BY <1>2 DEF TakeJob, Resting
  <2>2. \A q \in Runs : q # r => job'[q] # "RUNNING"
    BY <1>2 DEF TakeJob
  <2> QED BY <2>1, <2>2 DEF JobsAgree
<1>3. CASE FinishJob
  <2>1. work.at # "idle" /\ work.run \in Runs
    BY <1>3 DEF FinishJob, WorkAgrees
  <2>2. work'.at = "idle"
    BY <1>3 DEF FinishJob, Resting
  <2>3. \A q \in Runs : job'[q] # "RUNNING"
    BY <1>3, <2>1 DEF FinishJob, JobsAgree, Busy
  <2> QED BY <2>2, <2>3 DEF JobsAgree
<1>4. CASE ClaimFile BY <1>4, JobsOngoing DEF ClaimFile, Ongoing, Busy
<1>5. CASE Parse BY <1>5, JobsOngoing DEF Parse, Goto, Ongoing, Busy
<1>6. CASE AimAtActive
  BY <1>6, JobsOngoing DEF AimAtActive, records, Ongoing, Busy
<1>7. CASE Upsert BY <1>7, JobsOngoing DEF Upsert, Goto, Ongoing, Busy
<1>8. CASE TrimStale BY <1>8, JobsOngoing DEF TrimStale, Goto, Ongoing, Busy
<1>9. CASE CommitIndex BY <1>9, JobsOngoing DEF CommitIndex, Ongoing, Busy
<1>10. CASE UndoRows BY <1>10, JobsOngoing DEF UndoRows, Goto, Ongoing, Busy
<1>11. CASE RestoreRows BY <1>11, JobsOngoing DEF RestoreRows, Goto, Ongoing, Busy
<1>12. CASE MarkProcessingFailed
  BY <1>12, JobsOngoing DEF MarkProcessingFailed, Ongoing, Busy
<1> QED
  BY <1>1, <1>2, <1>3, <1>4, <1>5, <1>6, <1>7, <1>8, <1>9, <1>10, <1>11, <1>12
     DEF ProcessStep

LEMMA JobsRecovery ==
  ASSUME TypeOK, JobsAgree, RecoveryStep PROVE JobsAgree'
<1> USE TypeParts DEF Counters
<1>1. PICK r \in Runs : \/ RecoverRefuses(r) \/ RecoverSuccess(r)
                        \/ ClearRun(r) \/ RecoverAgain(r)
  BY DEF RecoveryStep
<1>2. ASSUME NEW s, NEW g, s # "RUNNING", Recovering(r), Recovered(r, s, g)
      PROVE  JobsAgree'
  <2>1. work'.at = "idle" /\ removal' = removal /\ job[r] = "RUNNING"
    BY <1>2 DEF Recovered, Recovering, Resting
  <2>2. \A q \in Runs : job'[q] = "RUNNING" => q # r /\ job[q] = "RUNNING"
    BY <1>2 DEF Recovered
  <2> QED BY <2>1, <2>2 DEF JobsAgree, Busy
<1>3. CASE ClearRun(r)
  BY <1>3, JobsOngoing DEF ClearRun, records, Ongoing, Busy
<1>4. Requeued(r) # "RUNNING"
  BY DEF Requeued
<1> QED
  BY <1>1, <1>2, <1>3, <1>4 DEF RecoverRefuses, RecoverSuccess, RecoverAgain

LEMMA JobsNext ==
  ASSUME TypeOK, WorkAgrees, JobsAgree, [Next]_vars PROVE JobsAgree'
<1> USE TypeParts DEF Removal
<1>1. CASE UploadStep
  BY <1>1, JobsOngoing DEF UploadStep, StartUpload, MoveUpload, CommitUpload,
     AbandonUpload, records, Ongoing, Busy
<1>2. CASE CheckRemoval
  <2>1. \A q \in Runs : job[q] # "RUNNING"
    BY <1>2 DEF CheckRemoval, HasLiveJob, Live
  <2>2. UNCHANGED <<job, work>>
    BY <1>2 DEF CheckRemoval, records
  <2> QED BY <2>1, <2>2 DEF JobsAgree, Busy
<1>3. CASE RemovalStep /\ ~CheckRemoval
  <2>1. removal.at # "idle"
    BY <1>3, RemovalFrame
  <2>2. UNCHANGED <<job, work>>
    BY <1>3, RemovalFrame
  <2> QED BY <2>1, <2>2, JobsOngoing DEF Ongoing, Busy
<1>4. CASE Pin \/ Unpin
  BY <1>4, JobsOngoing DEF Pin, Unpin, records, Ongoing, Busy
<1>5. CASE Restart
  BY <1>5 DEF Restart, Resting, NotRemoving, JobsAgree, Busy
<1>6. CASE UNCHANGED vars
  BY <1>6, JobsOngoing DEF vars, records, Ongoing, Busy
<1> QED
  BY <1>1, <1>2, <1>3, <1>4, <1>5, <1>6, JobsProcess, JobsRecovery DEF Next
-----------------------------------------------------------------------------
(* While a replacement is taken back, what is not of the new splitting is  *)
(* as it was before or gone.                                               *)
LeftOver(ids) == \A i \in ids : vectors["active"][i] \in {work.before[i], Nobody}

UndoAgrees ==
  /\ work.at = "undo" => LeftOver(Ids \ ChunkIds(settings))
  /\ work.at = "restore" => LeftOver(Ids)

LEMMA UndoKept ==
  ASSUME UndoAgrees,
         work'.at \in {"undo", "restore"} =>
           UNCHANGED <<work, settings>> /\ vectors'["active"] = vectors["active"]
  PROVE  UndoAgrees'
BY DEF UndoAgrees, LeftOver

(* The rows of the active collection after a step that writes them.        *)
LEMMA ActiveReplaced ==
  ASSUME TypeOK, NEW f, vectors' = [vectors EXCEPT !["active"] = f]
  PROVE  vectors'["active"] = f
BY TypeParts, TwoCollections

LEMMA UndoUpsert ==
  ASSUME TypeOK, WorkAgrees, Upsert PROVE UndoAgrees'
<1>1. work'.at \in {"trim", "undo"} /\ UNCHANGED settings
         /\ work'.before = work.before
  BY TypeParts DEF Upsert, Goto, Work
<1>2. PICK ids : /\ ids \subseteq ChunkIds(settings)
                 /\ vectors' = [vectors EXCEPT !["active"] =
                                  Put(vectors["active"], ids, work.run)]
  BY DEF Upsert
<1>3. vectors'["active"] = Put(work.before, ids, work.run)
  BY <1>2, ActiveReplaced DEF Upsert, WorkAgrees
<1>4. \A i \in Ids \ ChunkIds(settings) : vectors'["active"][i] = work.before[i]
  BY <1>2, <1>3 DEF Put
<1> QED BY <1>1, <1>4 DEF UndoAgrees, LeftOver

LEMMA UndoTrim ==
  ASSUME TypeOK, WorkAgrees, TrimStale PROVE UndoAgrees'
<1>1. work'.at = "commit" \/
        (work'.at = "undo" /\ UNCHANGED <<vectors, settings>>
           /\ work'.before = work.before)
  BY TypeParts DEF TrimStale, Goto, Work
<1>2. \A i \in Ids \ ChunkIds(settings) : vectors["active"][i] = work.before[i]
  BY DEF TrimStale, WorkAgrees, Put
<1> QED BY <1>1, <1>2 DEF UndoAgrees, LeftOver

LEMMA UndoCommit ==
  ASSUME TypeOK, WorkAgrees, CommitIndex PROVE UndoAgrees'
<1>1. work'.at = "done" \/
        (work'.at = "undo" /\ UNCHANGED <<vectors, settings>>)
  BY TypeParts DEF CommitIndex, Work
<1>2. \A i \in Ids \ ChunkIds(settings) : vectors["active"][i] = Nobody
  BY DEF CommitIndex, WorkAgrees, Present
<1> QED BY <1>1, <1>2 DEF UndoAgrees, LeftOver

LEMMA UndoUndo ==
  ASSUME TypeOK, UndoAgrees, UndoRows PROVE UndoAgrees'
<1>1. CASE work'.at = "raised"
  BY <1>1 DEF UndoAgrees
<1>2. CASE vectors' = [vectors EXCEPT !["active"] =
                         Put(vectors["active"], ChunkIds(settings), Nobody)]
             /\ Goto("restore")
  <2>1. work'.at = "restore" /\ work'.before = work.before
    BY <1>2, TypeParts DEF Goto, Work
  <2>2. vectors'["active"] = Put(vectors["active"], ChunkIds(settings), Nobody)
    BY <1>2, ActiveReplaced
  <2>3. \A i \in Ids : vectors'["active"][i] = IF i \in ChunkIds(settings) THEN Nobody
                                               ELSE vectors["active"][i]
    BY <2>2 DEF Put
  <2>4. \A i \in Ids \ ChunkIds(settings) :
            vectors["active"][i] \in {work.before[i], Nobody}
    BY DEF UndoRows, UndoAgrees, LeftOver
  <2> QED BY <2>1, <2>3, <2>4 DEF UndoAgrees, LeftOver
<1> QED BY <1>1, <1>2, TypeParts DEF UndoRows, Goto, Work

LEMMA UndoNext ==
  ASSUME TypeOK, WorkAgrees, UndoAgrees, [Next]_vars PROVE UndoAgrees'
<1> USE TypeParts DEF Work
<1>1. CASE UploadStep
  BY <1>1, UndoKept DEF UploadStep, StartUpload, MoveUpload, CommitUpload,
     AbandonUpload
<1>2. CASE ProcessStep
  <2>1. CASE ~(Upsert \/ TrimStale \/ CommitIndex \/ UndoRows)
    <3>1. ASSUME NEW r \in Runs, SubmitProcess(r) PROVE UndoAgrees'
      BY <3>1, UndoKept DEF SubmitProcess
    <3>2. ASSUME NEW r \in Runs, TakeJob(r) PROVE work'.at = "claim"
      BY <3>2 DEF TakeJob, Resting
    <3>3. CASE ClaimFile BY <3>3 DEF ClaimFile, UndoAgrees
    <3>4. CASE Parse \/ AimAtActive \/ RestoreRows
      BY <3>4 DEF Parse, AimAtActive, RestoreRows, Goto, UndoAgrees
    <3>5. CASE MarkProcessingFailed \/ FinishJob
      BY <3>5 DEF MarkProcessingFailed, FinishJob, Resting, UndoAgrees
    <3> QED
      BY <1>2, <2>1, <3>1, <3>2, <3>3, <3>4, <3>5 DEF ProcessStep, UndoAgrees
  <2> QED BY <2>1, UndoUpsert, UndoTrim, UndoCommit, UndoUndo
<1>3. CASE RecoveryStep
  <2>1. work'.at \notin {"undo", "restore"}
    BY <1>3 DEF RecoveryStep, RecoverRefuses, RecoverSuccess, ClearRun, RecoverAgain,
       Recovered, Recovering, Resting
  <2> QED BY <2>1 DEF UndoAgrees
<1>4. CASE RemovalStep
  <2>1. UNCHANGED <<work, settings>>
    BY <1>4, RemovalFrame
  <2>2. vectors' = vectors \/ removal.at \notin {"idle", "checked"}
    BY <1>4, RemovalFrame
  <2> QED BY <2>1, <2>2, UndoKept DEF WorkAgrees, Writing
<1>5. CASE Pin \/ Unpin BY <1>5, UndoKept DEF Pin, Unpin
<1>6. CASE Restart BY <1>6 DEF Restart, Resting, UndoAgrees
<1>7. CASE UNCHANGED vars BY <1>7, UndoKept DEF vars
<1> QED
  BY <1>1, <1>2, <1>3, <1>4, <1>5, <1>6, <1>7 DEF Next
-----------------------------------------------------------------------------
(* Unless a crash or a failing undo was reported for repair, the rows are  *)
(* sound, and so are those that process_file would put back and those that *)
(* delete_file would.                                                      *)
Dropping == {"previous", "move", "delete"}

SoundRows ==
  ~torn => /\ Sound(vectors["active"], Doubtful)
           /\ work.at \in Writing => Sound(work.before, GivenUp)
           /\ removal.at \in Dropping => Sound(removal.gone["active"], GivenUp)

AInv == FInv /\ JobsAgree /\ UndoAgrees /\ SoundRows

(* The chunks a row counts, and no others, are sound, also when it counts  *)
(* none.                                                                   *)
LEMMA SoundCounted ==
  ASSUME TypeOK, NEW f, NEW D, NEW b \in Settings \union {Nobody},
         Present(f) = ChunkIds(b)
  PROVE  Sound(f, D)
<1>1. CASE b \in Settings
  BY <1>1, SoundComplete
<1>2. CASE b = Nobody
  <2>1. settings \in Settings
    BY DEF TypeOK
  <2>2. \A i \in Ids : f[i] = Nobody
    BY <1>2, ConstantsAssumption DEF Present, ChunkIds, Ids
  <2>3. \A s \in Settings : Excused(f, s, D)
    BY <2>2, ChunkIdsAreIds DEF Excused
  <2> QED BY <2>1, <2>3 DEF Sound
<1> QED BY <1>1, <1>2

(* The rows of a file that is ready are sound whomever one doubts.         *)
LEMMA SoundReady ==
  ASSUME TypeOK, RowsAgree, row.status = "SUCCESS", ~torn, NEW D
  PROVE  Sound(vectors["active"], D)
<1>1. row.indexed \in Settings \union {Nobody}
  BY TypeParts DEF Record
<1>2. CASE removal.at \in Dropping
  BY <1>2, SoundNoRows DEF RowsAgree, Dropping
<1>3. CASE removal.at \notin Dropping
  BY <1>1, <1>3, SoundCounted DEF RowsAgree, Dropping
<1> QED BY <1>2, <1>3

(* When process_file is under way but does not write, or delete_file is,   *)
(* only the runs that recovery gave up on are in doubt.                    *)
LEMMA OnlyGivenUp ==
  ASSUME JobsAgree, Busy, work.at \notin Writing PROVE Doubtful = GivenUp
BY DEF JobsAgree, Doubtful, GivenUp

(* A run that is writing is in doubt until it has committed.               *)
LEMMA WriterIsDoubtful ==
  ASSUME WorkAgrees, JobsAgree, work.at \in Writing
  PROVE  work.run \in Doubtful \cap Runs
BY DEF WorkAgrees, JobsAgree, Doubtful, Writing

LEMMA DoubtStays ==
  ASSUME UNCHANGED job, work'.run = work.run,
         work.at \in Writing => work'.at \in Writing
  PROVE  Doubtful \subseteq Doubtful' /\ GivenUp' = GivenUp
BY DEF Doubtful, GivenUp

LEMMA SoundInit == Init => SoundRows
<1> SUFFICES ASSUME Init PROVE SoundRows
  OBVIOUS
<1>1. TypeOK /\ settings \in Settings
  BY TypeInit DEF Init
<1>2. work.at \notin Writing /\ removal.at \notin Dropping
  BY DEF Init, Resting, NotRemoving, Writing, Dropping
<1>3. \/ vectors["active"] = NoRows
      \/ vectors["active"] = Put(NoRows, ChunkIds(settings), Rebuild)
  BY TwoCollections DEF Init
<1>4. Sound(vectors["active"], Doubtful)
  BY <1>1, <1>3, SoundNoRows, PresentFresh, SoundComplete
<1> QED
  BY <1>2, <1>4 DEF SoundRows

(* A step that leaves the rows alone and forgives no run.                  *)
Alike ==
  /\ vectors'["active"] = vectors["active"]
  /\ torn => torn'
  /\ Doubtful \subseteq Doubtful' /\ GivenUp \subseteq GivenUp'
  /\ work'.at \in Writing => work.at \in Writing /\ work'.before = work.before
  /\ removal'.at \in Dropping =>
       removal.at \in Dropping /\ removal'.gone["active"] = removal.gone["active"]

LEMMA SoundAlike ==
  ASSUME SoundRows, Alike PROVE SoundRows'
BY SoundMore DEF SoundRows, Alike

LEMMA SoundUpload ==
  ASSUME SoundRows, UploadStep PROVE SoundRows'
<1>1. UNCHANGED <<vectors, torn, job, work, removal>>
  BY DEF UploadStep, StartUpload, MoveUpload, CommitUpload, AbandonUpload, records
<1> QED BY <1>1, DoubtStays, SoundAlike DEF Alike

(* A job is taken when no other runs: nothing is in doubt but what was     *)
(* given up.                                                               *)
LEMMA TakenIsQuiet ==
  ASSUME NEW r \in Runs, TakeJob(r)
  PROVE  /\ UNCHANGED <<vectors, torn, removal>> /\ work'.at = "claim"
         /\ Doubtful = GivenUp /\ GivenUp \subseteq GivenUp'
<1>1. UNCHANGED <<vectors, torn, removal>>
  BY DEF TakeJob
<1>2. work'.at = "claim"
  BY DEF TakeJob, Resting
<1>3. Doubtful = GivenUp
  BY DEF TakeJob, Doubtful, GivenUp
<1>4. job[r] = "QUEUED" /\ job' = [job EXCEPT ![r] = "RUNNING"]
  BY DEF TakeJob
<1>5. GivenUp \subseteq GivenUp'
  BY <1>4 DEF GivenUp
<1> QED
  BY <1>1, <1>2, <1>3, <1>5

(* process_file up to its first write, and after its last.                 *)
LEMMA SoundQuietly ==
  ASSUME TypeOK, WorkAgrees, JobsAgree, SoundRows,
         \/ \E r \in Runs : SubmitProcess(r) \/ TakeJob(r)
         \/ ClaimFile \/ Parse \/ MarkProcessingFailed \/ FinishJob
  PROVE  SoundRows'
<1>0. job \in [Runs -> {"none", "SUCCEEDED", "FAILED"} \union Live]
  BY TypeParts DEF Counters
<1> USE <1>0, TypeParts DEF Work
<1>1. ASSUME NEW r \in Runs, SubmitProcess(r) PROVE SoundRows'
  <2>1. UNCHANGED <<vectors, torn, work, removal>>
    BY <1>1 DEF SubmitProcess
  <2>2. Doubtful \subseteq Doubtful' /\ GivenUp \subseteq GivenUp'
    BY <1>1, <2>1 DEF SubmitProcess, Doubtful, GivenUp
  <2> QED BY <2>1, <2>2, SoundAlike DEF Alike
<1>2. ASSUME NEW r \in Runs, TakeJob(r) PROVE SoundRows'
  <2>1. /\ UNCHANGED <<vectors, torn, removal>> /\ work'.at = "claim"
        /\ Doubtful = GivenUp /\ GivenUp \subseteq GivenUp'
    BY <1>2, TakenIsQuiet
  <2>2. GivenUp' \subseteq Doubtful'
    BY DEF Doubtful
  <2> QED BY <2>1, <2>2, SoundAlike DEF Alike, Writing
<1>3. CASE FinishJob
  <2>1. UNCHANGED <<vectors, torn, removal>> /\ work'.at = "idle"
    BY <1>3 DEF FinishJob, Resting
  <2>2. Doubtful = GivenUp
    BY <1>3, OnlyGivenUp DEF FinishJob, Busy, Writing
  <2>3. work.run \in Runs /\ job[work.run] = "RUNNING"
    BY <1>3 DEF FinishJob, WorkAgrees, JobsAgree
  <2>4. GivenUp \subseteq GivenUp' /\ GivenUp' \subseteq Doubtful'
    BY <1>3, <2>3 DEF FinishJob, GivenUp, Doubtful
  <2> QED BY <2>1, <2>2, <2>4, SoundAlike DEF Alike, Writing
<1>4. CASE ClaimFile \/ Parse \/ MarkProcessingFailed
  <2>1. UNCHANGED <<vectors, torn, job, removal>> /\ work'.run = work.run
    BY <1>4 DEF ClaimFile, Parse, Goto, MarkProcessingFailed
  <2>2. work.at \notin Writing /\ work'.at \notin Writing
    BY <1>4 DEF ClaimFile, Parse, Goto, MarkProcessingFailed, Writing
  <2> QED BY <2>1, <2>2, DoubtStays, SoundAlike DEF Alike
<1> QED
  BY <1>1, <1>2, <1>3, <1>4

LEMMA SoundAim ==
  ASSUME TypeOK, JobsAgree, SoundRows, AimAtActive PROVE SoundRows'
<1>1. UNCHANGED <<vectors, torn, job, removal>> /\ work'.run = work.run
  BY TypeParts DEF AimAtActive, records, Work
<1>2. work.at \notin Writing /\ Busy
  BY DEF AimAtActive, Writing, Busy
<1>3. Doubtful = GivenUp /\ Doubtful \subseteq Doubtful' /\ GivenUp' = GivenUp
  BY <1>1, <1>2, OnlyGivenUp, DoubtStays
<1>4. \/ work'.at = "upsert" /\ work'.before = vectors["active"]
      \/ work'.at = "raised"
  BY TypeParts DEF AimAtActive, Work
<1>5. CASE work'.at = "raised"
  BY <1>1, <1>3, <1>5, SoundAlike DEF Alike, Writing
<1>6. CASE work'.before = vectors["active"]
  BY <1>1, <1>3, <1>6, SoundMore DEF SoundRows
<1> QED BY <1>4, <1>5, <1>6

LEMMA SoundUpsert ==
  ASSUME TypeOK, WorkAgrees, JobsAgree, SoundRows, Upsert PROVE SoundRows'
<1>1. /\ UNCHANGED <<torn, job, removal>>
      /\ work'.run = work.run /\ work'.before = work.before
  BY TypeParts DEF Upsert, Goto, Work
<1>2. work.at \in Writing /\ work'.at \in Writing
  BY TypeParts DEF Upsert, Goto, Writing, Work
<1>3. Doubtful \subseteq Doubtful' /\ GivenUp' = GivenUp
  BY <1>1, <1>2, DoubtStays
<1>4. PICK ids : /\ ids \subseteq ChunkIds(settings)
                 /\ vectors' = [vectors EXCEPT !["active"] =
                                  Put(vectors["active"], ids, work.run)]
  BY DEF Upsert
<1>5. vectors'["active"] = Put(vectors["active"], ids, work.run)
  BY <1>4, ActiveReplaced
<1>6. work.run \in Doubtful \cap Runs /\ settings \in Settings
  BY <1>2, WriterIsDoubtful, TypeParts DEF Counters
<1>7. ASSUME ~torn PROVE Sound(vectors'["active"], Doubtful')
  <2>1. Sound(vectors["active"], Doubtful)
    BY <1>7 DEF SoundRows
  <2>2. Sound(vectors'["active"], Doubtful)
    BY <2>1, <1>4, <1>5, <1>6, SoundPut
  <2> QED BY <2>2, <1>3, SoundMore
<1> QED
  BY <1>1, <1>2, <1>3, <1>7 DEF SoundRows

LEMMA SoundTrim ==
  ASSUME TypeOK, WorkAgrees, JobsAgree, SoundRows, TrimStale, WorkAgrees'
  PROVE  SoundRows'
<1>1. /\ UNCHANGED <<torn, job, removal, settings>>
      /\ work'.run = work.run /\ work'.before = work.before
  BY TypeParts DEF TrimStale, Goto, Work
<1>2. work.at \in Writing /\ work'.at \in Writing /\ settings \in Settings
  BY TypeParts DEF TrimStale, Goto, Writing, Work, Counters
<1>3. Doubtful \subseteq Doubtful' /\ GivenUp' = GivenUp
  BY <1>1, <1>2, DoubtStays
<1>4. work'.at = "commit" \/ UNCHANGED vectors
  BY TypeParts DEF TrimStale, Goto, Work
<1>5. CASE work'.at = "commit"
  <2>1. Present(vectors'["active"]) = ChunkIds(settings)
    BY <1>1, <1>5 DEF WorkAgrees
  <2>2. Sound(vectors'["active"], Doubtful')
    BY <2>1, <1>2, SoundComplete
  <2> QED BY <2>2, <1>1, <1>2, <1>3 DEF SoundRows
<1>6. CASE UNCHANGED vectors
  BY <1>1, <1>2, <1>3, <1>6, SoundAlike DEF Alike
<1> QED BY <1>4, <1>5, <1>6

LEMMA SoundCommit ==
  ASSUME TypeOK, WorkAgrees, SoundRows, CommitIndex PROVE SoundRows'
<1>1. UNCHANGED <<vectors, job, removal>> /\ work.at = "commit"
  BY DEF CommitIndex
<1>2. \/ work'.at = "done"
      \/ /\ work'.at = "undo" /\ UNCHANGED torn
         /\ work'.run = work.run /\ work'.before = work.before
  BY TypeParts DEF CommitIndex, Work
<1>3. CASE work'.at = "done"
  <2>1. Present(vectors["active"]) = ChunkIds(settings) /\ settings \in Settings
    BY <1>1, TypeParts DEF WorkAgrees, Counters
  <2>2. Sound(vectors'["active"], Doubtful')
    BY <1>1, <2>1, SoundComplete
  <2>3. removal'.at \notin Dropping /\ work'.at \notin Writing
    BY <1>1, <1>3 DEF WorkAgrees, Writing, Dropping
  <2> QED BY <2>2, <2>3 DEF SoundRows
<1>4. CASE /\ work'.at = "undo" /\ UNCHANGED torn
           /\ work'.run = work.run /\ work'.before = work.before
  BY <1>1, <1>4, DoubtStays, SoundAlike DEF Alike, Writing
<1> QED BY <1>2, <1>3, <1>4

LEMMA SoundUndo ==
  ASSUME TypeOK, WorkAgrees, SoundRows, UndoRows PROVE SoundRows'
<1>1. /\ UNCHANGED <<job, removal>>
      /\ work'.run = work.run /\ work'.before = work.before /\ work.at \in Writing
  BY TypeParts DEF UndoRows, Goto, Work, Writing
<1>2. CASE torn'
  BY <1>2 DEF SoundRows
<1>3. CASE /\ vectors' = [vectors EXCEPT !["active"] =
                            Put(vectors["active"], ChunkIds(settings), Nobody)]
           /\ Goto("restore") /\ UNCHANGED torn
  <2>1. vectors'["active"] = Put(vectors["active"], ChunkIds(settings), Nobody)
    BY <1>3, ActiveReplaced
  <2>2. work'.at \in Writing /\ settings \in Settings
    BY <1>3, TypeParts DEF Goto, Work, Writing, Counters
  <2>3. Doubtful \subseteq Doubtful' /\ GivenUp' = GivenUp
    BY <1>1, <2>2, DoubtStays
  <2>4. ASSUME ~torn PROVE Sound(vectors'["active"], Doubtful')
    <3>1. Sound(vectors'["active"], Doubtful)
      BY <2>1, <2>2, <2>4, SoundRemoved DEF SoundRows
    <3> QED BY <3>1, <2>3, SoundMore
  <2> QED BY <1>1, <1>3, <2>2, <2>3, <2>4 DEF SoundRows
<1> QED BY <1>2, <1>3 DEF UndoRows

LEMMA SoundRestore ==
  ASSUME TypeOK, WorkAgrees, UndoAgrees, SoundRows, RestoreRows PROVE SoundRows'
<1>1. UNCHANGED <<job, removal>> /\ work'.at = "raised" /\ work.at = "restore"
  BY TypeParts DEF RestoreRows, Goto, Work
<1>2. CASE torn'
  BY <1>2 DEF SoundRows
<1>3. CASE /\ vectors' = [vectors EXCEPT !["active"] =
                            RestoreSnapshot(vectors["active"], work.before)]
           /\ UNCHANGED torn
  <2>1. vectors'["active"] = RestoreSnapshot(vectors["active"], work.before)
    BY <1>3, ActiveReplaced
  <2>2. \A i \in Ids : vectors["active"][i] \in {work.before[i], Nobody}
    BY <1>1 DEF UndoAgrees, LeftOver
  <2>3. work.before \in Rows
    BY TypeParts DEF Work
  <2>4. vectors'["active"] = work.before
    BY <2>1, <2>2, <2>3 DEF RestoreSnapshot, Rows
  <2>5. GivenUp \subseteq Doubtful' /\ GivenUp' = GivenUp
    BY <1>1 DEF GivenUp, Doubtful
  <2>6. ~torn => Sound(vectors'["active"], Doubtful')
    BY <1>1, <2>4, <2>5, SoundMore DEF SoundRows, Writing
  <2>7. work'.at \notin Writing
    BY <1>1 DEF Writing
  <2> QED BY <1>1, <1>3, <2>5, <2>6, <2>7 DEF SoundRows
<1> QED BY <1>2, <1>3 DEF RestoreRows

LEMMA SoundRecovery ==
  ASSUME TypeOK, RowsAgree, SoundRows, RecoveryStep PROVE SoundRows'
<1> USE TypeParts DEF Counters
<1>1. PICK r \in Runs : \/ RecoverRefuses(r) \/ RecoverSuccess(r)
                        \/ ClearRun(r) \/ RecoverAgain(r)
  BY DEF RecoveryStep
<1>2. ASSUME NEW s, NEW g, Recovering(r), Recovered(r, s, g)
      PROVE  /\ Doubtful \ {r} \subseteq Doubtful' /\ GivenUp \subseteq GivenUp'
             /\ s = "FAILED" => Doubtful \subseteq Doubtful'
             /\ UNCHANGED <<vectors, torn, removal>> /\ work'.at \notin Writing
  <2>1. work' = Resting /\ UNCHANGED <<vectors, torn, removal>>
    BY <1>2 DEF Recovered
  <2>2. work'.at \notin Writing /\ \A q \in Runs : work'.run # q
    BY <2>1, ConstantsAssumption DEF Resting, Writing
  <2>3. job' = [job EXCEPT ![r] = s] /\ job[r] = "RUNNING"
    BY <1>2 DEF Recovered, Recovering
  <2>4. GivenUp \subseteq GivenUp'
    BY <2>3 DEF GivenUp
  <2>5. Doubtful \ {r} \subseteq Doubtful'
    BY <2>2, <2>3 DEF Doubtful, GivenUp
  <2>6. s = "FAILED" => r \in Doubtful'
    BY <2>3 DEF Doubtful, GivenUp
  <2> QED BY <2>1, <2>2, <2>4, <2>5, <2>6
<1>3. CASE RecoverRefuses(r)
  BY <1>2, <1>3, SoundAlike DEF RecoverRefuses, Alike
<1>4. CASE ClearRun(r)
  <2>1. UNCHANGED <<torn, job, work, removal>> /\ vectors'["active"] = NoRows
    BY <1>4, ActiveReplaced DEF ClearRun, records
  <2>2. Sound(vectors'["active"], Doubtful') /\ GivenUp' = GivenUp
    BY <2>1, SoundNoRows, DoubtStays
  <2> QED BY <2>1, <2>2 DEF SoundRows
<1>5. CASE RecoverSuccess(r) \/ RecoverAgain(r)
  <2>1. /\ Doubtful \ {r} \subseteq Doubtful' /\ GivenUp \subseteq GivenUp'
        /\ UNCHANGED <<vectors, torn, removal>> /\ work'.at \notin Writing
    BY <1>2, <1>5 DEF RecoverSuccess, RecoverAgain
  <2>2. ASSUME ~torn PROVE Sound(vectors["active"], Doubtful')
    <3>1. CASE row.status = "SUCCESS"
      BY <2>2, <3>1, SoundReady
    <3>2. CASE row.status # "SUCCESS"
      <4>1. OwnedBy(vectors["active"], r) = {}
        BY <1>5, <3>2 DEF RecoverSuccess, RecoverAgain
      <4>2. Sound(vectors["active"], Doubtful \ {r})
        BY <2>2, <4>1, SoundWithout DEF SoundRows
      <4> QED BY <2>1, <4>2, SoundMore
    <3> QED BY <3>1, <3>2
  <2> QED BY <2>1, <2>2, SoundMore DEF SoundRows
<1> QED
  BY <1>1, <1>3, <1>4, <1>5

LEMMA SoundRemoval ==
  ASSUME TypeOK, WorkAgrees, JobsAgree, RowsAgree, SoundRows, RemovalStep
  PROVE  SoundRows'
<1> USE TypeParts DEF Removal
<1>1. UNCHANGED <<job, work>>
  BY RemovalFrame
<1>2. Doubtful' = Doubtful /\ GivenUp' = GivenUp
  BY <1>1 DEF Doubtful, GivenUp
<1>3. CASE CheckRemoval \/ BeginRemoval
  <2>1. UNCHANGED <<vectors, torn>> /\ removal'.at \in {"idle", "checked", "active"}
    BY <1>3 DEF CheckRemoval, BeginRemoval, NotRemoving
  <2> QED BY <1>1, <1>2, <2>1, SoundAlike DEF Alike, Dropping
<1>4. CASE MoveAside \/ DeleteRow
  <2>1. /\ UNCHANGED <<vectors, torn>> /\ removal.at \in Dropping
        /\ removal'.gone = removal.gone
    BY <1>4 DEF MoveAside, DeleteRow, Dropping
  <2> QED BY <1>1, <1>2, <2>1, SoundAlike DEF Alike
<1>5. CASE Unlink
  <2>1. UNCHANGED vectors /\ removal'.at \notin Dropping
    BY <1>5 DEF Unlink, NotRemoving, Dropping
  <2>2. CASE torn'
    BY <2>2 DEF SoundRows
  <2>3. CASE UNCHANGED torn
    BY <1>1, <1>2, <2>1, <2>3, SoundAlike DEF Alike
  <2> QED BY <1>5, <2>2, <2>3 DEF Unlink
<1>6. CASE DropRows("active")
  <2>1. /\ removal.at = "active" /\ UNCHANGED torn
        /\ removal'.gone["active"] = vectors["active"]
    BY <1>6, DropRowsExplicit, TwoCollections
  <2>2. vectors'["active"] = NoRows
    BY <1>6, DropRowsExplicit, ActiveReplaced, TwoCollections
  <2>3. work.at \notin Writing /\ Doubtful = GivenUp
    BY <2>1, OnlyGivenUp DEF WorkAgrees, Writing, Busy
  <2>4. Sound(vectors'["active"], Doubtful')
    BY <2>2, SoundNoRows
  <2> QED BY <1>1, <1>2, <2>1, <2>3, <2>4 DEF SoundRows
<1>7. CASE DropRows("previous")
  <2>1. /\ removal.at = "previous" /\ UNCHANGED torn
        /\ removal'.gone["active"] = removal.gone["active"]
        /\ vectors'["active"] = vectors["active"]
    BY <1>7, DropRowsExplicit, TwoCollections
  <2> QED BY <1>1, <1>2, <2>1, SoundAlike DEF Alike, Dropping
<1>8. CASE FailRemoval
  <2>1. /\ removal'.at \notin Dropping
        /\ removal.at \in {"active"} \union Dropping
    BY <1>8 DEF FailRemoval, NotRemoving, Dropping
  <2>2. CASE torn'
    BY <2>2 DEF SoundRows
  <2>3. CASE UNCHANGED torn /\ vectors' = [c \in Collections |->
                                 RestoreSnapshot(vectors[c], removal.gone[c])]
    <3>1. vectors'["active"]
            = RestoreSnapshot(vectors["active"], removal.gone["active"])
      BY <2>3, TwoCollections
    <3>2. vectors["active"] \in Rows /\ removal.gone["active"] \in Rows
      BY TwoCollections
    <3>3. CASE removal.at = "active"
      <4>1. vectors'["active"] = vectors["active"]
        BY <3>1, <3>2, <3>3, RestoreNothing DEF RowsAgree
      <4> QED BY <1>1, <1>2, <2>1, <2>3, <4>1, SoundAlike DEF Alike
    <3>4. CASE removal.at \in Dropping
      <4>1. vectors'["active"] = removal.gone["active"]
        BY <3>1, <3>2, <3>4, RestoreOnNothing DEF RowsAgree, Dropping
      <4>2. GivenUp \subseteq Doubtful
        BY DEF Doubtful
      <4>3. ~torn => Sound(vectors'["active"], Doubtful')
        BY <1>2, <3>4, <4>1, <4>2, SoundMore DEF SoundRows
      <4> QED BY <1>1, <1>2, <2>1, <2>3, <4>3 DEF SoundRows
    <3> QED BY <2>1, <3>3, <3>4
  <2> QED BY <1>8, <2>2, <2>3 DEF FailRemoval
<1> QED
  BY <1>3, <1>4, <1>5, <1>6, <1>7, <1>8, TwoCollections DEF RemovalStep

LEMMA SoundOthers ==
  ASSUME TypeOK, SoundRows, Pin \/ Unpin \/ Restart \/ UNCHANGED vars
  PROVE  SoundRows'
<1>1. CASE Pin \/ Unpin \/ UNCHANGED vars
  <2>1. UNCHANGED <<vectors, torn, job, work, removal>>
    BY <1>1 DEF Pin, Unpin, vars, records
  <2> QED BY <2>1, DoubtStays, SoundAlike DEF Alike
<1>2. CASE Restart
  <2>1. UNCHANGED <<vectors, job>> /\ (torn => torn')
    BY <1>2 DEF Restart
  <2>2. /\ work'.at \notin Writing /\ removal'.at \notin Dropping
        /\ \A q \in Runs : work'.run # q
    BY <1>2, ConstantsAssumption DEF Restart, Resting, NotRemoving, Writing, Dropping
  <2>3. Doubtful \subseteq Doubtful' /\ GivenUp' = GivenUp
    BY <2>1, <2>2 DEF Doubtful, GivenUp
  <2> QED BY <2>1, <2>2, <2>3, SoundAlike DEF Alike
<1> QED BY <1>1, <1>2

LEMMA SoundNext ==
  ASSUME TypeOK, WorkAgrees, DiskAgrees, RowsAgree, JobsAgree, UndoAgrees, SoundRows,
         [Next]_vars
  PROVE  SoundRows'
<1>1. WorkAgrees'
  BY WorkNext
<1>2. CASE ProcessStep
  BY <1>1, <1>2, SoundQuietly, SoundAim, SoundUpsert, SoundTrim, SoundCommit, SoundUndo,
     SoundRestore DEF ProcessStep
<1> QED
  BY <1>2, SoundUpload, SoundRecovery, SoundRemoval, SoundOthers DEF Next

(* process_file with every failure of upsert, trimming, commit and undo,   *)
(* its recovery and a deletion that is put back: once nothing is under way *)
(* or waits for recovery, the file has all chunks of one splitting or none,*)
(* unless recovery has refused to decide.                                  *)
THEOREM ReplacementIsAtomic == Spec => []AllOrNothing
<1>1. Init => AInv
  BY FInvInit, JobsInit, SoundInit DEF AInv, UndoAgrees, Init, Resting
<1>2. AInv /\ [Next]_vars => AInv'
  BY TypeNext, AttemptsNext, WorkNext, DiskNext, RowsNext, JobsNext, UndoNext, SoundNext
     DEF AInv, FInv
<1>3. AInv => AllOrNothing
  <2> SUFFICES ASSUME AInv, Quiet, ~torn, ~Uncertain
               PROVE  Present(vectors["active"])
                        \in {ChunkIds(s) : s \in Settings} \union {{}}
    BY DEF AllOrNothing, AInv, FInv
  <2>1. Doubtful = GivenUp
    BY DEF Quiet, Doubtful
  <2>2. \A i \in Ids : vectors["active"][i] \notin GivenUp
    BY DEF Uncertain, GivenUp, OwnedBy
  <2> QED
    BY <2>1, <2>2, SoundIsComplete DEF AInv, SoundRows
<1> QED
  BY <1>1, <1>2, <1>3, PTL DEF Spec
=============================================================================
