------------------------- MODULE KnowledgeBaseIndex -------------------------
(***************************************************************************)
(* The index of one knowledge base: four pointers in SQLite and the        *)
(* collections they name in Chroma, two stores without a common            *)
(* transaction (knowledge_base_rebuild_service.py, the first activation in *)
(* file_service.py, job_recovery_service.py, vector_store_service.py).     *)
(*                                                                         *)
(* Each action is one commit or one call of Chroma, with the checks that   *)
(* lead to it.  Simplifications:                                           *)
(*  - one knowledge base with at least one file and one embedding          *)
(*    configuration; the rows of a collection are abstracted to "every     *)
(*    file has its declared vectors" (complete);                           *)
(*  - the conflict rules of the queue leave at most one maintenance job    *)
(*    that is not over (ConflictsAreExcluded of JobQueueProofs), so one    *)
(*    row is kept, the latest; attempts are counted in JobQueue, here a    *)
(*    recovery may run the job again or give up;                           *)
(*  - rebuild, activation, cleanup, rollback and abort hold the admin lock *)
(*    from their first check to their last step, so op, the step that one  *)
(*    of them is at, is a single variable;                                 *)
(*  - a file job is followed up to the first activation; later files       *)
(*    replace vectors inside the active collection;                        *)
(*  - evaluations that are over are not kept: one may have been submitted  *)
(*    with any collection that was active, and can be retried.             *)
(***************************************************************************)
EXTENDS Integers

CONSTANTS
  Names,       \* names that generate_collection_name returns
  None,        \* no collection
  MaxFaults    \* bound on crashes and failing calls of a run

ASSUME ConstantsAssumption == None \notin Names /\ MaxFaults \in Nat

VARIABLES
  active, previous, building, cleanup,  \* *_collection_name of the row
  rebuildStatus,
  life,       \* lifecycle_status of a collection, "absent" if there is none
  complete,   \* the collections that hold every file
  kind, phase,         \* type and status of the latest maintenance job
  cand, src, srcPrev,  \* its collection_name, source_collection, source_previous
  own,        \* whether this row, not the one it retries, claimed cand
  op,         \* the step of the operation that holds the admin lock
  fixing,     \* what an evaluation being submitted has read as active
  pins,       \* collection_name of submitted evaluations that are not over
  repins,     \* the same for evaluations that were retried by hand
  faults

pointers == <<active, previous, building, cleanup>>
chroma == <<life, complete>>
jobRow == <<kind, cand, src, srcPrev, own>>
evaluations == <<fixing, pins, repins>>
vars == <<active, previous, building, cleanup, rebuildStatus, life, complete,
          kind, phase, cand, src, srcPrev, own, op, fixing, pins, repins, faults>>

Lifecycles == {"BUILDING", "ACTIVE", "RETIRED", "FAILED"}
Live == {"queued", "running", "lost"}   \* lost: its worker is gone
Over == {"none", "SUCCEEDED", "FAILED", "CANCELLED"}

Drops == {"dropCleanup", "dropBuilding", "dropPrevious"}
Clears == {"clearCleanup", "clearBuilding", "clearPrevious"}
Building == {"claimed", "created", "filled"}
Steps == {"idle", "begin", "switched", "activated", "tidy", "cleaned", "done"}
         \union Drops \union Clears \union Building

TypeOK ==
  /\ {active, previous, building, cleanup} \subseteq Names \union {None}
  /\ {cand, src, srcPrev, fixing} \subseteq Names \union {None}
  /\ rebuildStatus \in {"IDLE", "BUILDING", "FAILED"}
  /\ life \in [Names -> Lifecycles \union {"absent"}]
  /\ complete \subseteq Names /\ pins \subseteq Names /\ repins \subseteq Names
  /\ kind \in {"none", "rebuild", "cleanup", "file"}
  /\ phase \in Live \union Over
  /\ own \in BOOLEAN
  /\ op \in Steps
  /\ faults \in 0 .. MaxFaults
-----------------------------------------------------------------------------
Pointers == {active, previous, building, cleanup} \ {None}
Pinned == pins \union repins
Exists(n) == n # None /\ life[n] # "absent"

(* Names contain a fresh generation: one that anything still mentions is   *)
(* not drawn again.                                                        *)
Fresh(n) == /\ life[n] = "absent"
            /\ n \notin Pointers \union Pinned \union {cand, src, srcPrev, fixing}

(* The job's own rebuild has committed its switch.                         *)
Switched == own /\ kind = "rebuild" /\ active = cand

(* The vector lock is free: no evaluation is between its two reads.        *)
VectorFree == fixing = None
(* A rollback and a cleanup job keep the vector lock over all their steps. *)
VectorHeld == \/ phase \in Over /\ op \in {"switched", "activated"}
              \/ phase = "running" /\ kind = "cleanup" /\ op \notin {"idle", "begin"}

Fault == faults < MaxFaults /\ faults' = faults + 1

SetLifecycle(n, l) == life' = [life EXCEPT ![n] = l]

(* The job is over, or lost; _finish marks the rebuild of a failed job, and *)
(* the latest rebuild job is the one that the knowledge base names.        *)
EndJob(end) ==
  /\ phase' = end /\ op' = "idle"
  /\ rebuildStatus' = IF end # "lost" /\ kind = "rebuild" /\ rebuildStatus = "BUILDING"
                        THEN "FAILED" ELSE rebuildStatus

Init ==
  /\ active = None /\ previous = None /\ building = None /\ cleanup = None
  /\ rebuildStatus = "IDLE"
  /\ life = [n \in Names |-> "absent"]
  /\ complete = {}
  /\ kind = "none" /\ phase = "none"
  /\ cand = None /\ src = None /\ srcPrev = None /\ own = FALSE
  /\ op = "idle"
  /\ fixing = None /\ pins = {} /\ repins = {}
  /\ faults = 0
-----------------------------------------------------------------------------
(* Submission, under the admin lock, with the part of the conflict rules   *)
(* that concerns this knowledge base.                                      *)
Enqueue(k, c) ==
  /\ op = "idle" /\ phase \in Over
  /\ k = "file" => active = None /\ rebuildStatus # "BUILDING"
  /\ k = "cleanup" => c \notin Pinned
  /\ kind' = k /\ cand' = c /\ own' = FALSE
  /\ phase' = "queued"
  /\ UNCHANGED <<pointers, rebuildStatus, chroma, op, evaluations, faults>>

Submit(k) == /\ Enqueue(k, IF k = "cleanup" THEN cleanup ELSE None)
             /\ src' = None /\ srcPrev' = None

(* manual_retry copies collection_name and the payload to the new row.     *)
Retry == /\ phase \in {"FAILED", "CANCELLED"}
         /\ Enqueue(kind, cand)
         /\ UNCHANGED <<src, srcPrev>>

CancelQueued ==
  /\ phase = "queued"
  /\ phase' = "CANCELLED"
  /\ UNCHANGED <<pointers, rebuildStatus, chroma, jobRow, op, evaluations, faults>>

Claim ==
  /\ phase = "queued" /\ op = "idle"
  /\ phase' = "running" /\ op' = "begin"
  /\ UNCHANGED <<pointers, rebuildStatus, chroma, jobRow, evaluations, faults>>

(* JobCancelled at a checkpoint: the candidate's life cycle stays BUILDING. *)
(* In the loop over the files the exception counts as a failed file.       *)
CancelAtCheckpoint ==
  /\ phase = "running"
  /\ IF kind = "rebuild" THEN op \in Building ELSE op = "begin"
  /\ EndJob("CANCELLED")
  /\ UNCHANGED <<pointers, chroma, jobRow, evaluations, faults>>
-----------------------------------------------------------------------------
(* A collection is deleted first and its pointer cleared in a later commit.*)
(* MUTANT of Removable: evaluations are not looked at.                     *)
RemovableUnpinned(n) == life[n] \in {"absent", "RETIRED", "FAILED"}

(* What may be deleted as cleanup.                                         *)
Removable(n) == n \notin Pinned /\ life[n] \in {"absent", "RETIRED", "FAILED"}

(* _cleanup_retired_locked: leave the pointer, or go on to delete.         *)
DropCleanup ==
  /\ cleanup # None /\ Removable(cleanup)
  /\ op' = IF Exists(cleanup) THEN "dropCleanup" ELSE "clearCleanup"

(* _cleanup_failed_building_locked, _resolve_initial_building.             *)
DropBuilding ==
  /\ building # None /\ life[building] \in {"absent", "FAILED"}
  /\ op' = IF Exists(building) THEN "dropBuilding" ELSE "clearBuilding"

(* What has to go before a candidate can be claimed.                       *)
BeginRebuild ==
  /\ phase = "running" /\ op = "begin"
  /\ \/ kind = "rebuild" /\ rebuildStatus # "BUILDING" /\ DropCleanup
     \/ kind = "rebuild" /\ rebuildStatus # "BUILDING" /\ cleanup = None /\ DropBuilding
     \/ kind = "file" /\ DropBuilding
  /\ UNCHANGED <<pointers, rebuildStatus, chroma, jobRow, phase, evaluations, faults>>

(* The job ends with nothing changed: BUILDING, a pinned or drifted        *)
(* cleanup, a candidate that was never marked FAILED, a status that does   *)
(* not fit the pointers; or the admin lock is taken for another knowledge  *)
(* base, a file is being processed, a read fails.                          *)
Refuse ==
  /\ phase = "running" /\ op = "begin"
  /\ EndJob("FAILED")
  /\ UNCHANGED <<pointers, chroma, jobRow, evaluations, faults>>

ClaimCandidate(n) ==
  /\ phase = "running" /\ op = "begin" /\ building = None /\ Fresh(n)
  /\ \/ kind = "rebuild" /\ rebuildStatus # "BUILDING" /\ cleanup = None
     \/ kind = "file" /\ rebuildStatus = "IDLE"
  /\ building' = n /\ rebuildStatus' = "BUILDING"
  /\ cand' = n /\ own' = TRUE /\ src' = active /\ srcPrev' = previous
  /\ op' = "claimed"
  /\ UNCHANGED <<active, previous, cleanup, chroma, kind, phase, evaluations, faults>>

CreateCollection ==
  /\ op = "claimed" /\ VectorFree
  /\ SetLifecycle(cand, "BUILDING")
  /\ op' = "created"
  /\ UNCHANGED <<pointers, rebuildStatus, complete, jobRow, phase, evaluations, faults>>

FillCandidate ==
  /\ op = "created" /\ VectorFree
  /\ complete' = complete \union {cand}
  /\ op' = "filled"
  /\ UNCHANGED <<pointers, rebuildStatus, life, jobRow, phase, evaluations, faults>>

(* _persist_rebuild_failure, _mark_building_failed: both writes are tried, *)
(* and a life cycle that cannot be written is only logged.                 *)
Abandon(end) ==
  /\ VectorFree
  /\ rebuildStatus' = "FAILED"
  /\ phase' = end /\ op' = "idle"
  /\ UNCHANGED <<pointers, jobRow, evaluations>>

CreateFails == /\ op = "claimed" /\ Fault
               /\ Abandon("FAILED")
               /\ UNCHANGED chroma

FillFails == /\ op = "created"
             /\ Abandon("FAILED")
             /\ UNCHANGED complete
             /\ \/ SetLifecycle(cand, "FAILED") /\ UNCHANGED faults
                \/ Fault /\ UNCHANGED life

(* The commit or the validation before it fails; an OperationalError goes  *)
(* on to the recovery of the job.  The first activation takes its rows     *)
(* back out.                                                               *)
SwitchFails ==
  /\ op = "filled" /\ Fault
  /\ SetLifecycle(cand, "FAILED")
  /\ complete' = IF kind = "file" THEN complete \ {cand} ELSE complete
  /\ \E end \in {"FAILED", "lost"} : Abandon(end)

(* The pointers of the switch, the same in a rebuild and in its recovery.  *)
MovePointers ==
  /\ cleanup' = previous /\ previous' = active /\ active' = cand
  /\ building' = None
  /\ rebuildStatus' = "IDLE"
  /\ op' = "switched"

SwitchActive ==
  /\ op = "filled" /\ kind = "rebuild"
  /\ rebuildStatus = "BUILDING" /\ building = cand
  /\ active = src /\ previous = srcPrev
  /\ MovePointers
  /\ UNCHANGED <<chroma, jobRow, phase, evaluations, faults>>

ActivateFirst ==
  /\ op = "filled" /\ kind = "file" /\ building = cand
  /\ active' = cand /\ building' = None
  /\ rebuildStatus' = "IDLE"
  /\ op' = "switched"
  /\ UNCHANGED <<previous, cleanup, chroma, jobRow, phase, evaluations, faults>>
-----------------------------------------------------------------------------
(* After the commit the life cycles follow; errors are only logged.  A     *)
(* rebuild then tries to remove what it moved to cleanup.                  *)
AfterMarks == IF phase = "running" /\ kind = "rebuild" THEN "tidy" ELSE "done"

(* MUTANT of MarkActive: the collection that was replaced is not retired.  *)
MarkActiveOnly ==
  /\ op = "switched" /\ (VectorFree \/ VectorHeld)
  /\ SetLifecycle(active, "ACTIVE")
  /\ op' = AfterMarks
  /\ UNCHANGED <<pointers, rebuildStatus, complete, jobRow, phase, evaluations, faults>>

MarkActive ==
  /\ op = "switched" /\ (VectorFree \/ VectorHeld)
  /\ SetLifecycle(active, "ACTIVE")
  /\ op' = IF previous = None THEN AfterMarks ELSE "activated"
  /\ UNCHANGED <<pointers, rebuildStatus, complete, jobRow, phase, evaluations, faults>>

MarkRetired ==
  /\ op = "activated" /\ (VectorFree \/ VectorHeld)
  /\ SetLifecycle(previous, "RETIRED")
  /\ op' = AfterMarks
  /\ UNCHANGED <<pointers, rebuildStatus, complete, jobRow, phase, evaluations, faults>>

MarkFails ==
  /\ op \in {"switched", "activated"} /\ Fault
  /\ op' = AfterMarks
  /\ UNCHANGED <<pointers, rebuildStatus, chroma, jobRow, phase, evaluations>>

Tidy ==
  /\ op = "tidy"
  /\ \/ DropCleanup
     \/ ~(cleanup # None /\ Removable(cleanup)) /\ op' = "done"
  /\ UNCHANGED <<pointers, rebuildStatus, chroma, jobRow, phase, evaluations, faults>>

(* The operation returns.                                                  *)
Finish ==
  /\ op = "done"
  /\ op' = "idle"
  /\ phase' = IF phase \in Live THEN "SUCCEEDED" ELSE phase
  /\ UNCHANGED <<pointers, rebuildStatus, chroma, jobRow, evaluations, faults>>
-----------------------------------------------------------------------------
Delete(step, n, next) ==
  /\ op = step /\ VectorFree
  /\ SetLifecycle(n, "absent") /\ complete' = complete \ {n}
  /\ op' = next
  /\ UNCHANGED <<pointers, rebuildStatus, jobRow, phase, evaluations, faults>>

DeleteCleanup == Delete("dropCleanup", cleanup, "clearCleanup")
DeleteBuilding == Delete("dropBuilding", building, "clearBuilding")
DeletePrevious == Delete("dropPrevious", previous, "clearPrevious")

(* Chroma refuses: nothing is changed; the tidying of a rebuild goes on.   *)
DeleteFails ==
  /\ op \in Drops /\ Fault
  /\ IF Switched THEN op' = "done" /\ UNCHANGED phase
     ELSE /\ op' = "idle"
          /\ phase' = IF phase = "running" THEN "FAILED" ELSE phase
  /\ UNCHANGED <<pointers, rebuildStatus, chroma, jobRow, evaluations>>

ClearCleanup ==
  /\ op = "clearCleanup"
  /\ cleanup' = None
  /\ op' = IF kind = "cleanup" THEN "cleaned"
           ELSE IF Switched THEN "done" ELSE "begin"
  /\ UNCHANGED <<active, previous, building, rebuildStatus, chroma, jobRow, phase,
                 evaluations, faults>>

(* clear_building_if_matches, for a job that goes on and for abort.        *)
ClearBuilding ==
  /\ op = "clearBuilding"
  /\ building' = None /\ rebuildStatus' = "IDLE"
  /\ op' = IF phase = "running" THEN "begin" ELSE "idle"
  /\ UNCHANGED <<active, previous, cleanup, chroma, jobRow, phase, evaluations, faults>>

ClearPrevious ==
  /\ op = "clearPrevious"
  /\ previous' = None
  /\ op' = "done"
  /\ UNCHANGED <<active, building, cleanup, rebuildStatus, chroma, jobRow, phase,
                 evaluations, faults>>
-----------------------------------------------------------------------------
(* The cleanup job.  Its orphan scan finds nothing to remove: NoOrphans.   *)
DeferCleanup ==
  /\ phase = "running" /\ kind = "cleanup" /\ op = "begin"
  /\ cand \in Pinned
  /\ phase' = "queued" /\ op' = "idle"
  /\ UNCHANGED <<pointers, rebuildStatus, chroma, jobRow, evaluations, faults>>

BeginCleanup ==
  /\ phase = "running" /\ kind = "cleanup" /\ op = "begin"
  /\ VectorFree
  /\ \/ DropCleanup
     \/ cleanup = None /\ op' = "cleaned"
  /\ UNCHANGED <<pointers, rebuildStatus, chroma, jobRow, phase, evaluations, faults>>

(* cleanup_previous, unless it was not asked for or previous is pinned.    *)
DropPrevious ==
  /\ op = "cleaned"
  /\ \/ op' = "done"
     \/ /\ previous # None /\ previous \notin Pinned
        /\ op' = IF Exists(previous) THEN "dropPrevious" ELSE "clearPrevious"
        /\ life[previous] \in {"absent", "RETIRED", "ACTIVE"}
  /\ UNCHANGED <<pointers, rebuildStatus, chroma, jobRow, phase, evaluations, faults>>
-----------------------------------------------------------------------------
(* Requests of an administrator.                                           *)
Rollback ==
  /\ op = "idle" /\ phase \in Over
  /\ rebuildStatus # "BUILDING"
  /\ VectorFree
  /\ previous # None /\ previous \notin Pinned
  /\ life[previous] \in {"RETIRED", "ACTIVE"}
  /\ active' = previous /\ previous' = active
  /\ op' = "switched"
  /\ UNCHANGED <<building, cleanup, rebuildStatus, chroma, jobRow, phase,
                 evaluations, faults>>

(* MUTANT of AbortBuilding: the pointer is cleared and nothing deleted.    *)
AbortPointer ==
  /\ op = "idle" /\ phase \in Over
  /\ building # None
  /\ op' = "clearBuilding"
  /\ UNCHANGED <<pointers, rebuildStatus, chroma, jobRow, phase, evaluations, faults>>

AbortBuilding ==
  /\ op = "idle" /\ phase \in Over
  /\ VectorFree
  /\ building # None /\ life[building] \in {"absent", "BUILDING", "FAILED"}
  /\ IF Exists(building)
       THEN SetLifecycle(building, "FAILED") /\ op' = "dropBuilding"
       ELSE UNCHANGED life /\ op' = "clearBuilding"
  /\ UNCHANGED <<pointers, rebuildStatus, complete, jobRow, phase, evaluations, faults>>
-----------------------------------------------------------------------------
(* An evaluation reads the active collection and is stored with it, under  *)
(* the vector lock; from then on the collection is pinned.                 *)
ReadActive ==
  /\ fixing = None /\ ~VectorHeld
  /\ active # None
  /\ fixing' = active
  /\ UNCHANGED <<pointers, rebuildStatus, chroma, jobRow, phase, op, pins, repins, faults>>

Pin ==
  /\ fixing # None
  /\ \/ pins' = pins \union {fixing}
     \/ UNCHANGED pins      \* refused: a duplicate, or a backup
  /\ fixing' = None
  /\ UNCHANGED <<pointers, rebuildStatus, chroma, jobRow, phase, op, repins, faults>>

(* The last evaluation of its origin on n is over.                         *)
EndEvaluations(n) ==
  /\ \/ n \in pins /\ pins' = pins \ {n} /\ UNCHANGED repins
     \/ n \in repins /\ repins' = repins \ {n} /\ UNCHANGED pins
  /\ UNCHANGED <<pointers, rebuildStatus, chroma, jobRow, phase, op, fixing, faults>>

(* manual_retry of an evaluation pins the collection of the original, which *)
(* has been active and may be anything since; it too holds the vector lock. *)
RetryEvaluation(n) ==
  /\ n \in {active, previous, cleanup}
  /\ VectorFree /\ ~VectorHeld
  /\ repins' = repins \union {n}
  /\ UNCHANGED <<pointers, rebuildStatus, chroma, jobRow, phase, op, fixing, pins, faults>>
-----------------------------------------------------------------------------
(* The process dies and starts again; recover_orphaned_building_states.    *)
CrashRestart ==
  /\ Fault
  /\ op' = "idle" /\ fixing' = None
  /\ phase' = IF phase = "running" THEN "lost" ELSE phase
  /\ rebuildStatus' = IF rebuildStatus = "BUILDING" /\ ~(kind = "rebuild" /\ phase \in Live)
                        THEN "FAILED" ELSE rebuildStatus
  /\ UNCHANGED <<pointers, chroma, jobRow, pins, repins>>

(* An OperationalError outside the places that catch it.                   *)
Transient ==
  /\ phase = "running" /\ Fault
  /\ op \in {"begin", "done"} \union Clears \union (IF kind = "rebuild" THEN Building ELSE {})
  /\ \/ Switched /\ op \in Clears /\ op' = "done" /\ UNCHANGED <<phase, rebuildStatus>>
     \/ /\ ~(Switched /\ op \in Clears)
        /\ \E end \in {"lost", "FAILED"} : EndJob(end)
  /\ UNCHANGED <<pointers, chroma, jobRow, evaluations>>

(* A recovery may begin: the job is expired and no operation is under way. *)
Recovering(k) == phase = "lost" /\ op = "idle" /\ kind = k

(* Queued again, or FAILED when its attempts are used up.                  *)
RunAgain == phase' \in {"queued", "FAILED"}

(* MUTANT of Verified: the rows are not counted.                           *)
VerifiedOwner == own

(* What the recovery takes for the candidate, and when it accepts its rows.*)
Target == IF cand # None THEN cand ELSE building
Verified == own /\ cand \in complete

RecoverCancelled ==
  /\ phase = "lost" /\ op = "idle"
  /\ phase' = "CANCELLED"
  /\ UNCHANGED <<pointers, rebuildStatus, chroma, jobRow, op, evaluations, faults>>

(* The switch is committed: the active collection is validated.            *)
RecoverSwitched ==
  /\ Recovering("rebuild")
  /\ Target # None /\ active = Target /\ rebuildStatus # "BUILDING"
  /\ phase' = IF Verified /\ life[cand] \in {"ACTIVE", "RETIRED"}
                THEN "SUCCEEDED" ELSE "FAILED"
  /\ UNCHANGED <<pointers, rebuildStatus, chroma, jobRow, op, evaluations, faults>>

NotSwitched == ~(Target # None /\ active = Target /\ rebuildStatus # "BUILDING")

(* REBUILD_POINTER_CHANGED.                                                *)
RecoverMoved ==
  /\ Recovering("rebuild") /\ NotSwitched
  /\ Exists(Target) /\ (active # src \/ previous # srcPrev)
  /\ phase' = "FAILED"
  /\ UNCHANGED <<pointers, rebuildStatus, chroma, jobRow, op, evaluations, faults>>

Switchable == Verified /\ life[cand] \in {"BUILDING", "FAILED"}

(* A complete candidate is switched by the recovery.                       *)
RecoverSwitch ==
  /\ Recovering("rebuild") /\ NotSwitched
  /\ Exists(Target) /\ active = src /\ previous = srcPrev
  /\ Switchable
  /\ MovePointers
  /\ UNCHANGED <<chroma, jobRow, phase, evaluations, faults>>

(* A candidate that cannot be used is marked FAILED and the job starts     *)
(* from the beginning; a missing one needs no mark.                        *)
RecoverFromScratch ==
  /\ Recovering("rebuild") /\ NotSwitched
  /\ IF Exists(Target)
       THEN /\ active = src /\ previous = srcPrev /\ ~Switchable
            /\ VectorFree
            /\ SetLifecycle(Target, "FAILED")
       ELSE UNCHANGED life
  /\ rebuildStatus' = "FAILED"
  /\ RunAgain
  /\ UNCHANGED <<pointers, complete, jobRow, op, evaluations, faults>>

(* CANDIDATE_STATE_UNCERTAIN.                                              *)
RecoverUncertain ==
  /\ Recovering("rebuild") /\ NotSwitched /\ Fault
  /\ Exists(Target) /\ active = src /\ previous = srcPrev /\ ~Switchable
  /\ phase' = "FAILED"
  /\ UNCHANGED <<pointers, rebuildStatus, chroma, jobRow, op, evaluations>>

(* The first activation: its rows and its candidate are given up, or, when *)
(* the switch is committed, confirmed.                                     *)
RecoverActivated ==
  /\ Recovering("file") /\ active # None
  /\ Verified
  /\ phase' = "SUCCEEDED"
  /\ UNCHANGED <<pointers, rebuildStatus, chroma, jobRow, op, evaluations, faults>>

RecoverActivation ==
  /\ Recovering("file") /\ active = None
  /\ IF Exists(building)
       THEN /\ building \in complete => own
            /\ VectorFree
            /\ complete' = complete \ {building}
            /\ SetLifecycle(building, "FAILED")
       ELSE UNCHANGED chroma
  /\ rebuildStatus' = IF building = None THEN rebuildStatus ELSE "FAILED"
  /\ RunAgain
  /\ UNCHANGED <<pointers, jobRow, op, evaluations, faults>>

(* INITIAL_COLLECTION_UNVERIFIABLE: the candidate holds rows of another.   *)
RecoverForeign ==
  /\ Recovering("file") /\ active = None
  /\ Exists(building) /\ ~own
  /\ phase' = "FAILED"
  /\ UNCHANGED <<pointers, rebuildStatus, chroma, jobRow, op, evaluations, faults>>

RecoverCleanup ==
  /\ Recovering("cleanup")
  /\ LET target == IF cand # None THEN cand ELSE cleanup IN
     \/ target = None /\ phase' = "SUCCEEDED" /\ UNCHANGED cleanup
     \/ target # None /\ cleanup # target /\ phase' = "FAILED" /\ UNCHANGED cleanup
     \/ /\ target # None /\ cleanup = target /\ ~Exists(target)
        /\ phase' = "SUCCEEDED" /\ cleanup' = None
     \/ /\ cleanup = target /\ Exists(target)
        /\ RunAgain /\ UNCHANGED cleanup
  /\ UNCHANGED <<active, previous, building, rebuildStatus, chroma, jobRow, op,
                 evaluations, faults>>
-----------------------------------------------------------------------------
JobStep ==
  \/ \E k \in {"rebuild", "cleanup", "file"} : Submit(k)
  \/ Retry \/ CancelQueued \/ Claim \/ CancelAtCheckpoint \/ Finish

RebuildStep ==
  \/ BeginRebuild \/ Refuse \/ \E n \in Names : ClaimCandidate(n)
  \/ CreateCollection \/ CreateFails \/ FillCandidate \/ FillFails
  \/ SwitchActive \/ ActivateFirst \/ SwitchFails
  \/ MarkActive \/ MarkRetired \/ MarkFails \/ Tidy

RemovalStep ==
  \/ DeleteCleanup \/ DeleteBuilding \/ DeletePrevious \/ DeleteFails
  \/ ClearCleanup \/ ClearBuilding \/ ClearPrevious
  \/ DeferCleanup \/ BeginCleanup \/ DropPrevious

EvaluationStep ==
  \/ ReadActive \/ Pin
  \/ \E n \in Names : RetryEvaluation(n) \/ EndEvaluations(n)

RecoveryStep ==
  \/ CrashRestart \/ Transient \/ RecoverCancelled
  \/ RecoverSwitched \/ RecoverMoved \/ RecoverSwitch
  \/ RecoverFromScratch \/ RecoverUncertain
  \/ RecoverActivated \/ RecoverActivation \/ RecoverForeign \/ RecoverCleanup

Next == \/ JobStep \/ RebuildStep \/ RemovalStep
        \/ Rollback \/ AbortBuilding
        \/ EvaluationStep \/ RecoveryStep

Spec == Init /\ [][Next]_vars
-----------------------------------------------------------------------------
(* The four pointers never name the same collection twice, in no           *)
(* interleaving of switch, rollback, recovery and clean up: a name held by *)
(* two pointers would be deleted through one of them and lost for the      *)
(* other (_validate_distinct_pointers refuses every operation then).       *)
PointersAreDistinct ==
  /\ active # None => active \notin {previous, building, cleanup}
  /\ previous # None => previous \notin {building, cleanup}
  /\ building # None => building # cleanup

(* The collection that questions are answered from exists and holds every  *)
(* file: a partial candidate is never switched to and the active           *)
(* collection never deleted, whatever crashes.                             *)
ActiveIsComplete == active # None => Exists(active) /\ active \in complete

(* A rollback never meets a partial index: the previous collection is      *)
(* complete, or already deleted by a cleanup that did not come to clear    *)
(* the pointer; and there is something active to swap it with.             *)
PreviousIsServable ==
  previous # None => active # None /\ (Exists(previous) => previous \in complete)

(* A candidate can always be removed by abort or by the next rebuild: it   *)
(* is never marked as in use while it is only the building collection.     *)
CandidateIsAbortable ==
  building # None => life[building] \in {"absent", "BUILDING", "FAILED"}

(* Every collection is reachable through a pointer, so that some clean up  *)
(* can remove it: pointers are written before the collection is created    *)
(* and cleared after it is deleted.                                        *)
NoOrphans == \A n \in Names : life[n] # "absent" => n \in Pointers

(* What an evaluation was submitted with exists and is complete until the  *)
(* evaluation is over (collection_is_pinned, vector_write_lock).           *)
PinsAreRespected == \A n \in pins : Exists(n) /\ n \in complete

(* A pinned collection does not become the one that file jobs write to.    *)
PinnedIsNotWriteTarget == [][active' # active => active' \notin Pinned]_vars

(* A rebuild that is recorded as a success, by its worker or by a          *)
(* recovery, is the one whose candidate is active: the rows were its own   *)
(* and the pointer is switched.                                            *)
SuccessMeansSwitched ==
  [][kind = "rebuild" /\ phase \in Live /\ phase' = "SUCCEEDED"
       => own /\ active = cand]_vars

(* As long as nothing failed, the life cycles in Chroma agree with the     *)
(* pointers in SQLite whenever no operation is under way: otherwise the    *)
(* next operation refuses the collection.                                  *)
LifecyclesAgree ==
  faults = 0 /\ op = "idle" =>
    /\ active # None => life[active] = "ACTIVE"
    /\ previous # None => life[previous] = "RETIRED"
    /\ cleanup # None => life[cleanup] = "RETIRED"
    /\ building # None => life[building] \in {"BUILDING", "FAILED", "absent"}

=============================================================================
