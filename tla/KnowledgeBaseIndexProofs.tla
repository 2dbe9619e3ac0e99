---------------------- MODULE KnowledgeBaseIndexProofs ----------------------
(***************************************************************************)
(* Theorems about the index of a knowledge base, for any set of collection *)
(* names and any number of faults.                                         *)
(*                                                                         *)
(* The properties are not inductive by themselves: that a switch neither   *)
(* duplicates nor loses a collection depends on where the step before it   *)
(* left the pointers, and, for the switch that a recovery does, on what a  *)
(* job that died may have left behind.  IInv adds these facts.  The life   *)
(* cycles that the store records of collections follow the pointers one    *)
(* commit later, and LifecyclesFollow says at which steps.                 *)
(***************************************************************************)
EXTENDS KnowledgeBaseIndex, TLAPS

(* Which jobs can be at which step.                                        *)
StepsAgree ==
  /\ phase = "queued" => op = "idle"
  /\ phase = "lost" => op \in {"idle", "switched", "activated", "done"}
  /\ phase \in Over =>
       op \in {"idle", "switched", "activated", "done", "dropBuilding", "clearBuilding"}
  /\ op \in {"cleaned", "dropPrevious", "clearPrevious"} => kind = "cleanup"
  /\ op \in {"dropCleanup", "clearCleanup"} => kind \in {"rebuild", "cleanup"}
  /\ op = "tidy" => kind = "rebuild"
  /\ op \in {"switched", "activated", "tidy", "done"} /\ phase \in Live /\ kind = "rebuild"
       => own /\ active = cand

(* The pointer that a removal is about.                                    *)
RemovalAgrees ==
  /\ op = "dropCleanup" => cleanup # None /\ cleanup \notin pins
  /\ op = "dropBuilding" => building # None
  /\ op = "dropPrevious" => previous # None /\ previous \notin pins
  /\ op = "clearCleanup" => life[cleanup] = "absent"
  /\ op = "clearBuilding" => life[building] = "absent"
  /\ op = "clearPrevious" => life[previous] = "absent"
  /\ op \in {"switched", "activated"} /\ previous # None => life[previous] # "absent"
  /\ op = "activated" => previous # None

(* The candidate that is being built: its sources are still in place.      *)
CandidateAgrees ==
  /\ own => cand \in Names /\ cand \notin {src, srcPrev}
  /\ op \in Building =>
       /\ own /\ building = cand
       /\ kind \in {"rebuild", "file"} /\ phase = "running"
       /\ kind = "rebuild" => cleanup = None
  /\ op = "created" => life[cand] = "BUILDING"
  /\ op = "filled" => life[cand] = "BUILDING" /\ cand \in complete

(* A rebuild that is not over and has not switched still finds its         *)
(* candidate in the building pointer, with nothing left in cleanup.        *)
Resumable == phase \in Live /\ own /\ kind = "rebuild" /\ active # cand /\ life[cand] # "absent"
ResumableIsBuilding == Resumable => building = cand /\ cleanup = None

(* A first activation starts from no active collection.                    *)
ActivationIsFirst ==
  /\ kind = "file" /\ phase = "queued" => active = None
  /\ kind = "file" /\ phase = "running"
       /\ op \in {"begin", "dropBuilding", "clearBuilding"} \union Building => active = None

CompleteExists == \A n \in complete : life[n] # "absent"

(* What an evaluation has read as active is pinned before anything can     *)
(* delete it: at most one switch fits in between.                          *)
FixingAgrees ==
  /\ VectorHeld => fixing = None
  /\ fixing # None => /\ fixing \in complete
                      /\ fixing \in {active, previous}
                      /\ fixing = active \/ (op \notin {"created", "filled"} /\ ~Resumable)
  /\ building \notin Pinned

IInv == /\ TypeOK /\ StepsAgree /\ RemovalAgrees /\ CandidateAgrees
        /\ ResumableIsBuilding /\ ActivationIsFirst /\ CompleteExists /\ FixingAgrees
        /\ PointersAreDistinct /\ ActiveIsComplete /\ PreviousIsServable
        /\ CandidateIsAbortable /\ NoOrphans /\ PinsAreRespected
-----------------------------------------------------------------------------
(* Nothing exists and nothing is under way.                                *)
LEMMA IInvInit == Init => IInv
<1> SUFFICES ASSUME Init PROVE IInv
  OBVIOUS
<1> USE ConstantsAssumption DEF Init
<1>1. TypeOK
  <2>1. life \in [Names -> Lifecycles \union {"absent"}]
    OBVIOUS
  <2>2. faults \in 0 .. MaxFaults
    OBVIOUS
  <2> QED
    BY <2>1, <2>2 DEF TypeOK, Live, Over, Steps
<1>2. StepsAgree /\ RemovalAgrees /\ ActivationIsFirst
  BY DEF StepsAgree, RemovalAgrees, ActivationIsFirst, Live, Over, Building
<1>3. CandidateAgrees /\ ResumableIsBuilding
  BY DEF CandidateAgrees, Resumable, ResumableIsBuilding, Building
<1>4. PointersAreDistinct /\ CandidateIsAbortable /\ NoOrphans
  BY DEF PointersAreDistinct, CandidateIsAbortable, NoOrphans
<1>5. CompleteExists /\ ActiveIsComplete /\ PreviousIsServable
  BY DEF CompleteExists, ActiveIsComplete, PreviousIsServable
<1>6. FixingAgrees /\ PinsAreRespected
  BY DEF FixingAgrees, PinsAreRespected, VectorHeld, Over, Pinned
<1> QED
  BY <1>1, <1>2, <1>3, <1>4, <1>5, <1>6 DEF IInv
-----------------------------------------------------------------------------
(* A new row, of a submission or of a retry, owns no candidate yet.        *)
LEMMA EnqueueKeepsIInv ==
  ASSUME IInv, NEW k \in {"none", "rebuild", "cleanup", "file"}, NEW c \in Names \union {None},
         Enqueue(k, c), {src, srcPrev}' \subseteq Names \union {None}
  PROVE  IInv'
<1> USE ConstantsAssumption
    DEF IInv, TypeOK, StepsAgree, RemovalAgrees, CandidateAgrees, Resumable,
        ResumableIsBuilding, ActivationIsFirst, CompleteExists, FixingAgrees,
        PointersAreDistinct, ActiveIsComplete, PreviousIsServable,
        CandidateIsAbortable, NoOrphans, PinsAreRespected, Lifecycles, Live,
        Over, Drops, Clears, Building, Steps, Pointers, Pinned, Exists,
        VectorFree, VectorHeld, pointers, chroma, jobRow, evaluations
<1>1. TypeOK'
  BY DEF Enqueue
<1>2. StepsAgree' /\ RemovalAgrees' /\ ActivationIsFirst'
  BY DEF Enqueue
<1>3. CandidateAgrees' /\ ResumableIsBuilding'
  BY DEF Enqueue
<1>4. PointersAreDistinct' /\ CandidateIsAbortable' /\ NoOrphans'
  BY DEF Enqueue
<1>5. CompleteExists' /\ ActiveIsComplete' /\ PreviousIsServable'
  BY DEF Enqueue
<1>6. FixingAgrees' /\ PinsAreRespected'
  BY DEF Enqueue
<1> QED
  BY <1>1, <1>2, <1>3, <1>4, <1>5, <1>6

-----------------------------------------------------------------------------
(* Submission, retry, cancellation, claim and end of a job move no pointer  *)
(* and touch no collection: only the bookkeeping of the steps is at stake.  *)
LEMMA JobStepKeepsIInv == ASSUME IInv, JobStep PROVE IInv'
<1> USE ConstantsAssumption
    DEF IInv, TypeOK, StepsAgree, RemovalAgrees, CandidateAgrees, Resumable,
        ResumableIsBuilding, ActivationIsFirst, CompleteExists, FixingAgrees,
        PointersAreDistinct, ActiveIsComplete, PreviousIsServable,
        CandidateIsAbortable, NoOrphans, PinsAreRespected, Lifecycles, Live,
        Over, Drops, Clears, Building, Steps, Pointers, Pinned, Exists,
        VectorFree, VectorHeld, pointers, chroma, jobRow, evaluations
<1>1. ASSUME NEW k \in {"rebuild", "cleanup", "file"}, Submit(k) PROVE IInv'
  BY <1>1, EnqueueKeepsIInv DEF Submit, IInv, TypeOK
<1>2. CASE Retry
  BY <1>2, EnqueueKeepsIInv DEF Retry, IInv, TypeOK
<1>3. CASE CancelQueued
  BY <1>3 DEF CancelQueued
<1>4. CASE Claim
  BY <1>4 DEF Claim
<1>5. CASE CancelAtCheckpoint
  BY <1>5 DEF CancelAtCheckpoint, EndJob
<1>6. CASE Finish
  BY <1>6 DEF Finish
<1> QED
  BY <1>1, <1>2, <1>3, <1>4, <1>5, <1>6 DEF JobStep

-----------------------------------------------------------------------------
(* Building a candidate and switching to it.  The switch and the two marks  *)
(* after it rest on CandidateAgrees: the sources are still in place and     *)
(* cleanup is empty, so no name is duplicated and none is lost.             *)
LEMMA RebuildStepKeepsIInv == ASSUME IInv, RebuildStep PROVE IInv'
<1> USE ConstantsAssumption
    DEF IInv, TypeOK, StepsAgree, RemovalAgrees, CandidateAgrees, Resumable,
        ResumableIsBuilding, ActivationIsFirst, CompleteExists, FixingAgrees,
        PointersAreDistinct, ActiveIsComplete, PreviousIsServable,
        CandidateIsAbortable, NoOrphans, PinsAreRespected, Lifecycles, Live,
        Over, Drops, Clears, Building, Steps, Pointers, Pinned, Exists,
        VectorFree, VectorHeld, pointers, chroma, jobRow, evaluations
<1>1. CASE BeginRebuild
  BY <1>1 DEF BeginRebuild, DropCleanup, DropBuilding, Removable
<1>2. CASE Refuse
  BY <1>2 DEF Refuse, EndJob
<1>3. ASSUME NEW n \in Names, ClaimCandidate(n) PROVE IInv'
  BY <1>3 DEF ClaimCandidate, Fresh
<1>4. CASE CreateCollection
  BY <1>4 DEF CreateCollection, SetLifecycle
<1>5. CASE CreateFails
  BY <1>5 DEF CreateFails, Fault, Abandon
<1>6. CASE FillCandidate
  BY <1>6 DEF FillCandidate
<1>7. CASE FillFails
  BY <1>7 DEF FillFails, Abandon, SetLifecycle, Fault
<1>8. CASE SwitchActive
  <2>1. TypeOK'
    BY <1>8 DEF SwitchActive, MovePointers
  <2>2. StepsAgree' /\ RemovalAgrees' /\ ActivationIsFirst'
    BY <1>8 DEF SwitchActive, MovePointers
  <2>3. CandidateAgrees' /\ ResumableIsBuilding'
    BY <1>8 DEF SwitchActive, MovePointers
  <2>4. PointersAreDistinct' /\ CandidateIsAbortable' /\ NoOrphans'
    BY <1>8 DEF SwitchActive, MovePointers
  <2>5. CompleteExists' /\ ActiveIsComplete' /\ PreviousIsServable'
    BY <1>8 DEF SwitchActive, MovePointers
  <2>6. FixingAgrees' /\ PinsAreRespected'
    BY <1>8 DEF SwitchActive, MovePointers
  <2> QED
    BY <2>1, <2>2, <2>3, <2>4, <2>5, <2>6
<1>9. CASE ActivateFirst
  BY <1>9 DEF ActivateFirst
<1>10. CASE SwitchFails
  BY <1>10 DEF SwitchFails, Fault, SetLifecycle, Abandon
<1>11. CASE MarkActive
  <2>1. TypeOK'
    BY <1>11 DEF MarkActive, SetLifecycle, AfterMarks
  <2>2. StepsAgree' /\ RemovalAgrees' /\ ActivationIsFirst'
    BY <1>11 DEF MarkActive, SetLifecycle, AfterMarks
  <2>3. CandidateAgrees' /\ ResumableIsBuilding'
    BY <1>11 DEF MarkActive, SetLifecycle, AfterMarks
  <2>4. PointersAreDistinct' /\ CandidateIsAbortable' /\ NoOrphans'
    BY <1>11 DEF MarkActive, SetLifecycle, AfterMarks
  <2>5. CompleteExists' /\ ActiveIsComplete' /\ PreviousIsServable'
    BY <1>11 DEF MarkActive, SetLifecycle, AfterMarks
  <2>6. FixingAgrees' /\ PinsAreRespected'
    BY <1>11 DEF MarkActive, SetLifecycle, AfterMarks
  <2> QED
    BY <2>1, <2>2, <2>3, <2>4, <2>5, <2>6
<1>12. CASE MarkRetired
  <2>1. TypeOK'
    BY <1>12 DEF MarkRetired, SetLifecycle, AfterMarks
  <2>2. StepsAgree' /\ RemovalAgrees' /\ ActivationIsFirst'
    BY <1>12 DEF MarkRetired, SetLifecycle, AfterMarks
  <2>3. CandidateAgrees' /\ ResumableIsBuilding'
    BY <1>12 DEF MarkRetired, SetLifecycle, AfterMarks
  <2>4. PointersAreDistinct' /\ CandidateIsAbortable' /\ NoOrphans'
    BY <1>12 DEF MarkRetired, SetLifecycle, AfterMarks
  <2>5. CompleteExists' /\ ActiveIsComplete' /\ PreviousIsServable'
    BY <1>12 DEF MarkRetired, SetLifecycle, AfterMarks
  <2>6. FixingAgrees' /\ PinsAreRespected'
    BY <1>12 DEF MarkRetired, SetLifecycle, AfterMarks
  <2> QED
    BY <2>1, <2>2, <2>3, <2>4, <2>5, <2>6
<1>13. CASE MarkFails
  BY <1>13 DEF MarkFails, Fault, AfterMarks
<1>14. CASE Tidy
  BY <1>14 DEF Tidy, DropCleanup, Removable
<1> QED
  BY <1>1, <1>2, <1>3, <1>4, <1>5, <1>6, <1>7, <1>8, <1>9, <1>10,
     <1>11, <1>12, <1>13, <1>14 DEF RebuildStep

-----------------------------------------------------------------------------
(* Removals: RemovalAgrees says what the pointer in hand still names.       *)
LEMMA RemovalStepKeepsIInv == ASSUME IInv, RemovalStep PROVE IInv'
<1> USE ConstantsAssumption
    DEF IInv, TypeOK, StepsAgree, RemovalAgrees, CandidateAgrees, Resumable,
        ResumableIsBuilding, ActivationIsFirst, CompleteExists, FixingAgrees,
        PointersAreDistinct, ActiveIsComplete, PreviousIsServable,
        CandidateIsAbortable, NoOrphans, PinsAreRespected, Lifecycles, Live,
        Over, Drops, Clears, Building, Steps, Pointers, Pinned, Exists,
        VectorFree, VectorHeld, pointers, chroma, jobRow, evaluations
<1>1. CASE DeleteCleanup
  BY <1>1 DEF DeleteCleanup, Delete, SetLifecycle
<1>2. CASE DeleteBuilding
  BY <1>2 DEF DeleteBuilding, Delete, SetLifecycle
<1>3. CASE DeletePrevious
  BY <1>3 DEF DeletePrevious, Delete, SetLifecycle
<1>4. CASE DeleteFails
  BY <1>4 DEF DeleteFails, Fault, Switched
<1>5. CASE ClearCleanup
  BY <1>5 DEF ClearCleanup, Switched
<1>6. CASE ClearBuilding
  BY <1>6 DEF ClearBuilding
<1>7. CASE ClearPrevious
  BY <1>7 DEF ClearPrevious
<1>8. CASE DeferCleanup
  BY <1>8 DEF DeferCleanup
<1>9. CASE BeginCleanup
  BY <1>9 DEF BeginCleanup, DropCleanup, Removable
<1>10. CASE DropPrevious
  BY <1>10 DEF DropPrevious
<1> QED
  BY <1>1, <1>2, <1>3, <1>4, <1>5, <1>6, <1>7, <1>8, <1>9, <1>10 DEF RemovalStep

-----------------------------------------------------------------------------
(* Rollback and abort.                                                     *)
LEMMA RequestStepKeepsIInv == ASSUME IInv, Rollback \/ AbortBuilding PROVE IInv'
<1> USE ConstantsAssumption
    DEF IInv, TypeOK, StepsAgree, RemovalAgrees, CandidateAgrees, Resumable,
        ResumableIsBuilding, ActivationIsFirst, CompleteExists, FixingAgrees,
        PointersAreDistinct, ActiveIsComplete, PreviousIsServable,
        CandidateIsAbortable, NoOrphans, PinsAreRespected, Lifecycles, Live,
        Over, Drops, Clears, Building, Steps, Pointers, Pinned, Exists,
        VectorFree, VectorHeld, pointers, chroma, jobRow, evaluations
<1>1. CASE Rollback
  <2>1. TypeOK'
    BY <1>1 DEF Rollback
  <2>2. StepsAgree' /\ RemovalAgrees' /\ ActivationIsFirst'
    BY <1>1 DEF Rollback
  <2>3. CandidateAgrees' /\ ResumableIsBuilding'
    BY <1>1 DEF Rollback
  <2>4. PointersAreDistinct' /\ CandidateIsAbortable' /\ NoOrphans'
    BY <1>1 DEF Rollback
  <2>5. CompleteExists' /\ ActiveIsComplete' /\ PreviousIsServable'
    BY <1>1 DEF Rollback
  <2>6. FixingAgrees' /\ PinsAreRespected'
    BY <1>1 DEF Rollback
  <2> QED
    BY <2>1, <2>2, <2>3, <2>4, <2>5, <2>6
<1>2. CASE AbortBuilding
  BY <1>2 DEF AbortBuilding, SetLifecycle
<1> QED
  BY <1>1, <1>2

-----------------------------------------------------------------------------
(* Evaluations change what is pinned, and nothing else.                    *)
LEMMA EvaluationStepKeepsIInv == ASSUME IInv, EvaluationStep PROVE IInv'
<1> USE ConstantsAssumption
    DEF IInv, TypeOK, StepsAgree, RemovalAgrees, CandidateAgrees, Resumable,
        ResumableIsBuilding, ActivationIsFirst, CompleteExists, FixingAgrees,
        PointersAreDistinct, ActiveIsComplete, PreviousIsServable,
        CandidateIsAbortable, NoOrphans, PinsAreRespected, Lifecycles, Live,
        Over, Drops, Clears, Building, Steps, Pointers, Pinned, Exists,
        VectorFree, VectorHeld, pointers, chroma, jobRow, evaluations
<1>1. CASE ReadActive
  BY <1>1 DEF ReadActive
<1>2. CASE Pin
  BY <1>2 DEF Pin
<1>3. ASSUME NEW n \in Names, RetryEvaluation(n) PROVE IInv'
  BY <1>3 DEF RetryEvaluation
<1>4. ASSUME NEW n \in Names, EndEvaluations(n) PROVE IInv'
  BY <1>4 DEF EndEvaluations
<1> QED
  BY <1>1, <1>2, <1>3, <1>4 DEF EvaluationStep

-----------------------------------------------------------------------------
(* Crash, transient errors and recovery.  The switch of a recovery rests on *)
(* ResumableIsBuilding: what the job that died left behind.                 *)
LEMMA RecoveryStepKeepsIInv == ASSUME IInv, RecoveryStep PROVE IInv'
<1> USE ConstantsAssumption
    DEF IInv, TypeOK, StepsAgree, RemovalAgrees, CandidateAgrees, Resumable,
        ResumableIsBuilding, ActivationIsFirst, CompleteExists, FixingAgrees,
        PointersAreDistinct, ActiveIsComplete, PreviousIsServable,
        CandidateIsAbortable, NoOrphans, PinsAreRespected, Lifecycles, Live,
        Over, Drops, Clears, Building, Steps, Pointers, Pinned, Exists,
        VectorFree, VectorHeld, pointers, chroma, jobRow, evaluations
<1>1. CASE CrashRestart
  BY <1>1 DEF CrashRestart, Fault
<1>2. CASE Transient
  BY <1>2 DEF Transient, Fault, Switched, EndJob
<1>3. CASE RecoverCancelled
  BY <1>3 DEF RecoverCancelled
<1>4. CASE RecoverSwitched
  BY <1>4 DEF RecoverSwitched, Recovering, Target, Verified
<1>5. CASE RecoverMoved
  BY <1>5 DEF RecoverMoved, Recovering, NotSwitched, Target
<1>6. CASE RecoverSwitch
  <2>1. TypeOK'
    BY <1>6 DEF RecoverSwitch, Recovering, NotSwitched, Target, Switchable,
       MovePointers, Verified
  <2>2. StepsAgree' /\ RemovalAgrees' /\ ActivationIsFirst'
    BY <1>6 DEF RecoverSwitch, Recovering, NotSwitched, Target, Switchable,
       MovePointers, Verified
  <2>3. CandidateAgrees' /\ ResumableIsBuilding'
    BY <1>6 DEF RecoverSwitch, Recovering, NotSwitched, Target, Switchable,
       MovePointers, Verified
  <2>4. PointersAreDistinct' /\ CandidateIsAbortable' /\ NoOrphans'
    BY <1>6 DEF RecoverSwitch, Recovering, NotSwitched, Target, Switchable,
       MovePointers, Verified
  <2>5. CompleteExists' /\ ActiveIsComplete' /\ PreviousIsServable'
    BY <1>6 DEF RecoverSwitch, Recovering, NotSwitched, Target, Switchable,
       MovePointers, Verified
  <2>6. FixingAgrees' /\ PinsAreRespected'
    BY <1>6 DEF RecoverSwitch, Recovering, NotSwitched, Target, Switchable,
       MovePointers, Verified
  <2> QED
    BY <2>1, <2>2, <2>3, <2>4, <2>5, <2>6
<1>7. CASE RecoverFromScratch
  BY <1>7 DEF RecoverFromScratch, Recovering, NotSwitched, Target, Switchable,
     SetLifecycle, RunAgain, Verified
<1>8. CASE RecoverUncertain
  BY <1>8 DEF RecoverUncertain, Recovering, NotSwitched, Fault, Target,
     Switchable, Verified
<1>9. CASE RecoverActivated
  BY <1>9 DEF RecoverActivated, Recovering, Verified
<1>10. CASE RecoverActivation
  BY <1>10 DEF RecoverActivation, Recovering, SetLifecycle, RunAgain
<1>11. CASE RecoverForeign
  BY <1>11 DEF RecoverForeign, Recovering
<1>12. CASE RecoverCleanup
  BY <1>12 DEF RecoverCleanup, Recovering, RunAgain
<1> QED
  BY <1>1, <1>2, <1>3, <1>4, <1>5, <1>6, <1>7, <1>8, <1>9, <1>10,
     <1>11, <1>12 DEF RecoveryStep

-----------------------------------------------------------------------------
LEMMA IInvStep == IInv /\ [Next]_vars => IInv'
<1> SUFFICES ASSUME IInv, [Next]_vars PROVE IInv'
  OBVIOUS
<1>1. CASE UNCHANGED vars
  BY <1>1 DEF vars, IInv, TypeOK, StepsAgree, RemovalAgrees, CandidateAgrees,
              Resumable, ResumableIsBuilding, ActivationIsFirst, CompleteExists,
              FixingAgrees, PointersAreDistinct, ActiveIsComplete,
              PreviousIsServable, CandidateIsAbortable, NoOrphans,
              PinsAreRespected, Pointers, Pinned, Exists, VectorHeld
<1> QED
  BY <1>1, JobStepKeepsIInv, RebuildStepKeepsIInv, RemovalStepKeepsIInv,
     RequestStepKeepsIInv, EvaluationStepKeepsIInv, RecoveryStepKeepsIInv DEF Next

LEMMA IInvInvariance == Spec => []IInv
  BY IInvInit, IInvStep, PTL DEF Spec
-----------------------------------------------------------------------------
(* Every pointer names a collection or nothing, and life cycles, statuses  *)
(* and steps stay those that the code knows.                               *)
THEOREM TypeCorrect == Spec => []TypeOK
<1>1. IInv => TypeOK
  BY DEF IInv
<1> QED
  BY <1>1, IInvInvariance, PTL

(* No collection is named by two pointers: switch, rollback, recovery and  *)
(* clean up, in any order and with any crash, keep them distinct           *)
(* (_validate_distinct_pointers).                                          *)
THEOREM PointersStayDistinct == Spec => []PointersAreDistinct
<1>1. IInv => PointersAreDistinct
  BY DEF IInv
<1> QED
  BY <1>1, IInvInvariance, PTL

(* Questions are always answered from a collection that exists and holds   *)
(* every file (rebuild, _recover_rebuild, _cleanup_retired_locked).        *)
THEOREM ActiveStaysComplete == Spec => []ActiveIsComplete
<1>1. IInv => ActiveIsComplete
  BY DEF IInv
<1> QED
  BY <1>1, IInvInvariance, PTL

(* A rollback never meets a partial index (rollback).                      *)
THEOREM PreviousStaysServable == Spec => []PreviousIsServable
<1>1. IInv => PreviousIsServable
  BY DEF IInv
<1> QED
  BY <1>1, IInvInvariance, PTL

(* A candidate can always be removed (abort, _cleanup_failed_building_locked). *)
THEOREM CandidatesStayAbortable == Spec => []CandidateIsAbortable
<1>1. IInv => CandidateIsAbortable
  BY DEF IInv
<1> QED
  BY <1>1, IInvInvariance, PTL

(* A collection in Chroma is always named by a pointer in SQLite, so that  *)
(* no crash leaves one behind for ever (rebuild, abort, clean up).         *)
THEOREM NothingIsOrphaned == Spec => []NoOrphans
<1>1. IInv => NoOrphans
  BY DEF IInv
<1> QED
  BY <1>1, IInvInvariance, PTL

(* What a submitted evaluation reads stays there and complete until it is  *)
(* over (collection_is_pinned, vector_write_lock).                         *)
THEOREM PinsHold == Spec => []PinsAreRespected
<1>1. IInv => PinsAreRespected
  BY DEF IInv
<1> QED
  BY <1>1, IInvInvariance, PTL
-----------------------------------------------------------------------------
(* The steps that end a live rebuild with success are the return of the    *)
(* worker and the recovery of a job that had switched.                     *)
THEOREM SuccessIsSwitched == Spec => SuccessMeansSwitched
<1>1. IInv /\ [Next]_vars =>
        [kind = "rebuild" /\ phase \in Live /\ phase' = "SUCCEEDED"
           => own /\ active = cand]_vars
  <2> SUFFICES ASSUME IInv, Next, kind = "rebuild", phase \in Live,
                      phase' = "SUCCEEDED"
               PROVE  own /\ active = cand
    BY DEF vars
  <2>1. CASE JobStep
    BY <2>1 DEF JobStep, IInv, StepsAgree, Live, Over, Submit, Retry, Enqueue,
                CancelQueued, Claim, CancelAtCheckpoint, EndJob, Finish
  <2>2. CASE RebuildStep
    BY <2>2 DEF RebuildStep, Live, EndJob, BeginRebuild, Refuse, ClaimCandidate,
                CreateCollection, CreateFails, FillCandidate, FillFails, Abandon,
                SwitchActive, ActivateFirst, SwitchFails, MarkActive, MarkRetired,
                MarkFails, Tidy
  <2>3. CASE RemovalStep
    BY <2>3 DEF RemovalStep, Live, Delete, DeleteCleanup, DeleteBuilding,
                DeletePrevious, DeleteFails, ClearCleanup, ClearBuilding,
                ClearPrevious, DeferCleanup, BeginCleanup, DropPrevious
  <2>4. CASE Rollback \/ AbortBuilding \/ EvaluationStep
    BY <2>4 DEF Rollback, AbortBuilding, EvaluationStep, Live, Over, ReadActive,
                Pin, RetryEvaluation, EndEvaluations
  <2>5. CASE RecoverSwitched
    <3>1. own /\ active = Target
      BY <2>5 DEF RecoverSwitched, Verified
    <3> QED
      BY <3>1, ConstantsAssumption DEF Target, IInv, CandidateAgrees
  <2>6. CASE RecoveryStep /\ ~RecoverSwitched
    BY <2>6 DEF RecoveryStep, Live, EndJob, RunAgain, Recovering, CrashRestart,
                Transient, RecoverCancelled, RecoverMoved, RecoverSwitch,
                RecoverFromScratch, RecoverUncertain, RecoverActivated,
                RecoverActivation, RecoverForeign, RecoverCleanup
  <2> QED
    BY <2>1, <2>2, <2>3, <2>4, <2>5, <2>6 DEF Next
<1> QED
  BY <1>1, IInvInvariance, PTL DEF Spec, SuccessMeansSwitched

(* Only a switch, its recovery, a first activation and a rollback change   *)
(* the active collection; a candidate is never pinned, and a rollback      *)
(* looks (collection_is_pinned).                                           *)
THEOREM PinnedStaysReadOnly == Spec => PinnedIsNotWriteTarget
<1>1. IInv /\ [Next]_vars => [active' # active => active' \notin Pinned]_vars
  <2> SUFFICES ASSUME IInv, Next, active' # active PROVE active' \notin Pinned
    BY DEF vars
  <2>1. CASE SwitchActive \/ ActivateFirst
    BY <2>1 DEF SwitchActive, ActivateFirst, MovePointers, IInv, FixingAgrees
  <2>2. CASE RecoverSwitch
    BY <2>2, ConstantsAssumption
       DEF RecoverSwitch, MovePointers, Switchable, Verified, Target, Recovering,
           Live, Exists, IInv, CandidateAgrees, FixingAgrees, Resumable,
           ResumableIsBuilding
  <2>3. CASE Rollback
    BY <2>3 DEF Rollback
  <2>4. active' = active \/ SwitchActive \/ ActivateFirst \/ RecoverSwitch \/ Rollback
    <3>1. CASE JobStep
      BY <3>1 DEF JobStep, pointers, Submit, Retry, Enqueue, CancelQueued, Claim,
                  CancelAtCheckpoint, Finish
    <3>2. CASE RebuildStep
      BY <3>2 DEF RebuildStep, pointers, BeginRebuild, Refuse, ClaimCandidate,
                  CreateCollection, CreateFails, FillCandidate, FillFails, Abandon,
                  SwitchFails, MarkActive, MarkRetired, MarkFails, Tidy
    <3>3. CASE RemovalStep
      BY <3>3 DEF RemovalStep, pointers, Delete, DeleteCleanup, DeleteBuilding,
                  DeletePrevious, DeleteFails, ClearCleanup, ClearBuilding,
                  ClearPrevious, DeferCleanup, BeginCleanup, DropPrevious
    <3>4. CASE AbortBuilding \/ EvaluationStep
      BY <3>4 DEF AbortBuilding, EvaluationStep, pointers, ReadActive, Pin,
                  RetryEvaluation, EndEvaluations
    <3>5. CASE RecoveryStep
      BY <3>5 DEF RecoveryStep, pointers, CrashRestart, Transient,
                  RecoverCancelled, RecoverSwitched, RecoverMoved,
                  RecoverFromScratch, RecoverUncertain, RecoverActivated,
                  RecoverActivation, RecoverForeign, RecoverCleanup
    <3> QED
      BY <3>1, <3>2, <3>3, <3>4, <3>5 DEF Next
  <2> QED
    BY <2>1, <2>2, <2>3, <2>4
<1> QED
  BY <1>1, IInvInvariance, PTL DEF Spec, PinnedIsNotWriteTarget
-----------------------------------------------------------------------------
(* As long as nothing failed, the marks in Chroma lag behind the pointers  *)
(* by the steps of the operation under way only, and no job is recovered.  *)
LifecyclesFollow ==
  faults = 0 =>
    /\ phase # "lost"
    /\ active # None /\ op # "switched" => life[active] = "ACTIVE"
    /\ previous # None /\ op \notin {"switched", "activated", "clearPrevious"} =>
         life[previous] = "RETIRED"
    /\ cleanup # None /\ op # "clearCleanup" => life[cleanup] = "RETIRED"

(* Nothing exists yet.                                                     *)
LEMMA FollowInit == Init => LifecyclesFollow
BY DEF Init, LifecyclesFollow

(* A fault is counted, and only faults leave a job to the recovery.        *)
LEMMA FaultsCount ==
  ASSUME IInv, Fault \/ (phase = "lost" /\ faults # 0 /\ UNCHANGED faults)
  PROVE  LifecyclesFollow'
<1>1. faults \in Nat /\ faults' # 0
  BY ConstantsAssumption DEF Fault, IInv, TypeOK
<1> QED
  BY <1>1 DEF LifecyclesFollow

(* Jobs come and go without a pointer or a collection.                     *)
LEMMA JobsFollow == ASSUME IInv, LifecyclesFollow, JobStep PROVE LifecyclesFollow'
<1>1. UNCHANGED <<pointers, chroma, faults>>
  BY DEF JobStep, Submit, Retry, Enqueue, CancelQueued, Claim, CancelAtCheckpoint, Finish
<1>2. phase' # "lost" \/ phase = "lost"
  BY DEF JobStep, Submit, Retry, Enqueue, CancelQueued, Claim, CancelAtCheckpoint, EndJob,
     Finish
<1>3. /\ op \notin {"switched", "activated", "clearPrevious", "clearCleanup"}
      /\ op' \notin {"switched", "activated", "clearPrevious", "clearCleanup"}
      \/ op' = op
  BY DEF JobStep, Submit, Retry, Enqueue, CancelQueued, Claim, CancelAtCheckpoint, EndJob,
     Finish, Building
<1> QED
  BY <1>1, <1>2, <1>3 DEF LifecyclesFollow, pointers, chroma

(* The marks of a switch come in the order in which they are looked for.   *)
LEMMA RebuildsFollow ==
  ASSUME IInv, LifecyclesFollow, RebuildStep PROVE LifecyclesFollow'
<1> USE DEF LifecyclesFollow, pointers, chroma
<1>1. CASE BeginRebuild \/ Tidy
  BY <1>1 DEF BeginRebuild, Tidy, DropCleanup, DropBuilding, Exists, Removable
<1>2. CASE Refuse \/ \E n \in Names : ClaimCandidate(n)
  BY <1>2 DEF Refuse, EndJob, ClaimCandidate
<1>3. CASE CreateCollection \/ FillCandidate \/ FillFails \/ CreateFails \/ SwitchFails
  <2>1. /\ op \in Building /\ building = cand /\ cand \in Names
        /\ UNCHANGED pointers /\ op' \in {"idle", "created", "filled"}
        /\ life' = life \/ \E l \in Lifecycles : life' = [life EXCEPT ![cand] = l]
    BY <1>3 DEF CreateCollection, FillCandidate, FillFails, CreateFails, SwitchFails,
       Abandon, SetLifecycle, Building, IInv, CandidateAgrees, Lifecycles
  <2>2. building \notin {active, previous, cleanup}
    BY <2>1, ConstantsAssumption DEF IInv, PointersAreDistinct
  <2>3. \A n \in Names : n # building => life'[n] = life[n]
    BY <2>1 DEF IInv, TypeOK
  <2>4. CASE CreateFails \/ SwitchFails
    BY <2>4, FaultsCount DEF CreateFails, SwitchFails
  <2>5. CASE CreateCollection \/ FillCandidate \/ FillFails
    <3>1. faults' = 0 => faults = 0 /\ phase' # "lost"
      BY <2>1, <2>5, ConstantsAssumption
         DEF CreateCollection, FillCandidate, FillFails, Abandon, IInv, CandidateAgrees,
             Fault, TypeOK
    <3> QED
      BY <2>1, <2>2, <2>3, <3>1 DEF Building, IInv, TypeOK
  <2> QED
    BY <1>3, <2>4, <2>5
<1>4. CASE SwitchActive \/ ActivateFirst
  BY <1>4 DEF SwitchActive, ActivateFirst, MovePointers
<1>5. CASE MarkActive
  <2>1. /\ life' = [life EXCEPT ![active] = "ACTIVE"] /\ UNCHANGED <<pointers, phase, faults>>
        /\ op = "switched" /\ op' \in {"activated", "tidy", "done"}
        /\ previous # None => op' = "activated"
    BY <1>5 DEF MarkActive, SetLifecycle, AfterMarks
  <2> QED
    BY <2>1 DEF IInv, TypeOK, PointersAreDistinct
<1>6. CASE MarkRetired
  <2>1. /\ life' = [life EXCEPT ![previous] = "RETIRED"]
        /\ UNCHANGED <<pointers, phase, faults>>
        /\ op = "activated" /\ op' \in {"tidy", "done"}
    BY <1>6 DEF MarkRetired, SetLifecycle, AfterMarks
  <2> QED
    BY <2>1 DEF IInv, TypeOK, PointersAreDistinct
<1>7. CASE MarkFails
  BY <1>7, FaultsCount DEF MarkFails
<1> QED
  BY <1>1, <1>2, <1>3, <1>4, <1>5, <1>6, <1>7 DEF RebuildStep

(* What is removed is a pointer of its own, and cleared next.              *)
LEMMA RemovalsFollow ==
  ASSUME IInv, LifecyclesFollow, RemovalStep PROVE LifecyclesFollow'
<1> USE DEF LifecyclesFollow, pointers, chroma
<1>1. CASE DeleteCleanup \/ DeleteBuilding \/ DeletePrevious
  <2>1. /\ UNCHANGED <<pointers, phase, faults>>
        /\ \/ op' = "clearCleanup" /\ life' = [life EXCEPT ![cleanup] = "absent"]
           \/ op' = "clearBuilding" /\ life' = [life EXCEPT ![building] = "absent"]
           \/ op' = "clearPrevious" /\ life' = [life EXCEPT ![previous] = "absent"]
        /\ op \in Drops
    BY <1>1 DEF DeleteCleanup, DeleteBuilding, DeletePrevious, Delete, SetLifecycle, Drops
  <2> QED
    BY <2>1 DEF Drops, IInv, TypeOK, PointersAreDistinct
<1>2. CASE DeleteFails
  BY <1>2, FaultsCount DEF DeleteFails
<1>3. CASE ClearCleanup \/ ClearBuilding \/ ClearPrevious
  BY <1>3 DEF ClearCleanup, ClearBuilding, ClearPrevious
<1>4. CASE DeferCleanup \/ BeginCleanup
  BY <1>4 DEF DeferCleanup, BeginCleanup, DropCleanup, Exists
<1>5. CASE DropPrevious
  BY <1>5 DEF DropPrevious, Exists
<1> QED
  BY <1>1, <1>2, <1>3, <1>4, <1>5 DEF RemovalStep

(* A rollback is marked like a switch; an abort concerns the candidate.    *)
LEMMA RequestsFollow ==
  ASSUME IInv, LifecyclesFollow, Rollback \/ AbortBuilding PROVE LifecyclesFollow'
<1> USE DEF LifecyclesFollow, pointers, chroma
<1>1. CASE Rollback
  BY <1>1 DEF Rollback
<1>2. CASE AbortBuilding
  <2>1. /\ life' = life \/ life' = [life EXCEPT ![building] = "FAILED"]
        /\ UNCHANGED <<pointers, phase, faults>>
        /\ op = "idle" /\ op' \in {"dropBuilding", "clearBuilding"}
        /\ building \in Names
    BY <1>2 DEF AbortBuilding, SetLifecycle, IInv, TypeOK
  <2> QED
    BY <2>1 DEF IInv, TypeOK, PointersAreDistinct
<1> QED
  BY <1>1, <1>2

(* A recovery has a fault behind it.                                       *)
LEMMA RecoveriesFollow ==
  ASSUME IInv, LifecyclesFollow, EvaluationStep \/ RecoveryStep PROVE LifecyclesFollow'
<1>1. CASE EvaluationStep
  BY <1>1 DEF EvaluationStep, ReadActive, Pin, RetryEvaluation, EndEvaluations, pointers,
     chroma, LifecyclesFollow
<1>2. CASE CrashRestart \/ Transient \/ RecoverUncertain
  BY <1>2, FaultsCount DEF CrashRestart, Transient, RecoverUncertain
<1>3. CASE RecoveryStep /\ ~(CrashRestart \/ Transient \/ RecoverUncertain)
  <2>1. phase = "lost" /\ UNCHANGED faults
    BY <1>3 DEF RecoveryStep, RecoverCancelled, RecoverSwitched, RecoverMoved,
       RecoverSwitch, RecoverFromScratch, RecoverActivated, RecoverActivation,
       RecoverForeign, RecoverCleanup, Recovering
  <2>2. faults # 0
    BY <2>1 DEF LifecyclesFollow
  <2> QED
    BY <2>1, <2>2, FaultsCount
<1> QED
  BY <1>1, <1>2, <1>3

(* Every step keeps it.                                                    *)
LEMMA FollowStep == IInv /\ LifecyclesFollow /\ [Next]_vars => LifecyclesFollow'
<1> SUFFICES ASSUME IInv, LifecyclesFollow, [Next]_vars PROVE LifecyclesFollow'
  OBVIOUS
<1>1. CASE UNCHANGED vars
  BY <1>1 DEF vars, LifecyclesFollow
<1> QED
  BY <1>1, JobsFollow, RebuildsFollow, RemovalsFollow, RequestsFollow, RecoveriesFollow
     DEF Next

(* As long as no call failed and nothing crashed, whoever takes the admin  *)
(* lock next finds the life cycles that the pointers imply, and no         *)
(* rollback, clean up or rebuild has to refuse a collection for them       *)
(* (rebuild, rollback, _cleanup_retired_locked, abort).                    *)
THEOREM LifecyclesStayAgreed == Spec => []LifecyclesAgree
<1>1. IInv /\ LifecyclesFollow => LifecyclesAgree
  BY DEF IInv, CandidateIsAbortable, LifecyclesFollow, LifecyclesAgree
<1>2. IInv /\ LifecyclesFollow /\ [Next]_vars => LifecyclesFollow'
  BY FollowStep
<1> QED
  BY <1>1, <1>2, FollowInit, IInvInvariance, PTL DEF Spec
=============================================================================
