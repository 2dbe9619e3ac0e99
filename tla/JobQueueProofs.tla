--------------------------- MODULE JobQueueProofs ---------------------------
(***************************************************************************)
(* Theorems about the durable jobs, for any number of jobs, files,         *)
(* knowledge bases and faults.                                             *)
(*                                                                         *)
(* JInv is inductive however requests and the worker interleave.  Beside   *)
(* the types it says that a row that waits in the queue still has an       *)
(* attempt left, that a maintenance job has a target of its kind, that the *)
(* worker works on a row that exists, and that the draining row is a       *)
(* backup's.                                                               *)
(*                                                                         *)
(* EffectsAgree strengthens it by what is known of jobs whose effect is    *)
(* durable, again for every interleaving.  Owned, CancelsAgree and         *)
(* BusyIsHeld need more: that no step falls between the read and the write *)
(* of a cancel request, so that the worker owns the row it works on.       *)
(***************************************************************************)
EXTENDS JobQueue, TLAPS

(* The worker has a job, whose row nobody removes, and finishes it with a  *)
(* terminal status.                                                        *)
WorkerHasJob ==
  /\ pc \in Executing \union {"recovering"} => cur \in Jobs /\ status[cur] # "none"
  /\ pc = "finishing" => mark \in Terminal

(* What is known of a row from what has been written to it.                *)
RowsAgree ==
  \A j \in Jobs :
    /\ status[j] = "none" => attempt[j] = 0 /\ kind[j] = "none"
    /\ status[j] # "none" => kind[j] \in AllKinds
    /\ cancel[j] # "none" => status[j] # "none"
    /\ status[j] = "QUEUED" => attempt[j] < MaxAttempts(kind[j])
    /\ kind[j] = "FILE_PROCESS" => target[j] \in Files
    /\ kind[j] = "KB_REBUILD" => target[j] \in KnowledgeBases

DrainingIsABackup ==
  draining # Nobody => /\ kind[draining] = "BACKUP"
                       /\ Live(draining) \/ draining \in gaveUp

JInv == /\ TypeOK /\ WorkerHasJob /\ RowsAgree
        /\ DrainingIsABackup /\ BuildingExcludesProcessing
-----------------------------------------------------------------------------
(* Every way to change the queue order keeps it an order of jobs.          *)
LEMMA OrderTyped ==
  ASSUME ahead \in [Jobs -> SUBSET Jobs], NEW j \in Jobs, Enqueue(j) \/ Dequeue(j)
  PROVE  ahead' \in [Jobs -> SUBSET Jobs]
BY DEF Enqueue, Dequeue

(* What rows the steps change leaves a first collection being built one.   *)
RowsKeepKinds ==
  \A j \in Jobs : kind[j] = "FILE_PROCESS" => kind'[j] = kind[j] /\ target'[j] = target[j]

(* The knowledge bases that stay BUILDING stay so for the same run.        *)
LEMMA SameBuild ==
  ASSUME NEW k \in KnowledgeBases, FirstBuild(k), RowsKeepKinds,
         builder'[k] = builder[k], k \notin indexed'
  PROVE  FirstBuild(k)'
BY DEF FirstBuild, RowsKeepKinds

(* Removing from busy cannot put a knowledge base and its file together.   *)
LEMMA LessBusy ==
  ASSUME BuildingExcludesProcessing, busy' \subseteq busy, RowsKeepKinds,
         \A k \in busy' \intersect KnowledgeBases :
           builder'[k] = builder[k] /\ (k \in indexed' => k \in indexed)
  PROVE  BuildingExcludesProcessing'
<1> SUFFICES ASSUME NEW k \in busy' \intersect KnowledgeBases,
                    NEW f \in busy' \intersect Files, home[f] = k
             PROVE  FirstBuild(k)'
  BY DEF BuildingExcludesProcessing
<1>1. FirstBuild(k)
  BY DEF BuildingExcludesProcessing
<1> QED
  BY <1>1, SameBuild DEF FirstBuild

(* Nothing has happened yet.                                               *)
LEMMA JInvInit == Init => JInv
<1> SUFFICES ASSUME Init PROVE JInv
  OBVIOUS
<1>1. TypeOK
  BY ConstantsAssumption DEF Init, TypeOK, Statuses, Leases, Steps
<1>2. WorkerHasJob /\ RowsAgree /\ DrainingIsABackup /\ BuildingExcludesProcessing
  BY DEF Init, WorkerHasJob, Executing, RowsAgree, DrainingIsABackup,
         BuildingExcludesProcessing
<1> QED
  BY <1>1, <1>2 DEF JInv

(* A new row: it has all its attempts, and a target of its kind.           *)
LEMMA SubmitStep ==
  ASSUME JInv, NEW j \in Jobs, NEW k \in Kinds, NEW r \in Targets(k), Submit(j, k, r)
  PROVE  JInv'
<1> USE ConstantsAssumption DEF JInv
<1>1. k \in AllKinds
  OBVIOUS
<1>2. /\ k = "FILE_PROCESS" => r \in Files
      /\ k = "KB_REBUILD" => r \in KnowledgeBases
      /\ r \in Resources \union {Nobody}
  BY <1>1 DEF Targets, Resources, AllKinds, Maintenance
<1>3. TypeOK'
  BY <1>1, <1>2, OrderTyped DEF Submit, TypeOK, worker, Statuses, NonTerminal, Resources
<1>4. RowsAgree'
  BY <1>1, <1>2 DEF Submit, RowsAgree, TypeOK, MaxAttempts
<1>5. WorkerHasJob'
  BY DEF Submit, WorkerHasJob, TypeOK, worker
<1>6. DrainingIsABackup'
  BY DEF Submit, DrainingIsABackup, TypeOK, Live, NonTerminal
<1>7. BuildingExcludesProcessing'
  <2>1. RowsKeepKinds
    BY DEF Submit, RowsAgree, RowsKeepKinds, TypeOK
  <2> QED
    BY <2>1, LessBusy DEF Submit
<1> QED
  BY <1>3, <1>4, <1>5, <1>6, <1>7

(* What a cancel request writes, whatever it has read.                     *)
LEMMA CancelAsStep ==
  ASSUME JInv, NEW j \in Jobs, NEW s \in Statuses, CancelAs(j, s),
         status[j] # "none", cancel' \in [Jobs -> Statuses],
         \A i \in Jobs : cancel'[i] # "none" => cancel[i] # "none"
  PROVE  JInv'
<1> USE ConstantsAssumption DEF JInv
<1>1. TypeOK'
  BY OrderTyped DEF CancelAs, TypeOK, worker, Statuses, NonTerminal, Claimed,
                    Terminal, Disown, Undrain
<1>2. RowsAgree'
  BY DEF CancelAs, RowsAgree, TypeOK
<1>3. WorkerHasJob'
  BY DEF CancelAs, WorkerHasJob, TypeOK, worker
<1>4. DrainingIsABackup'
  BY DEF CancelAs, DrainingIsABackup, TypeOK, Live, NonTerminal, Claimed, Undrain
<1>5. BuildingExcludesProcessing'
  BY LessBusy DEF CancelAs, RowsKeepKinds
<1> QED
  BY <1>1, <1>2, <1>3, <1>4, <1>5

(* A cancel request, in one step or in two.                                *)
LEMMA CancelStep ==
  ASSUME JInv, NEW j \in Jobs, Cancel(j) \/ ReadForCancel(j) \/ WriteCancel(j)
  PROVE  JInv'
<1>1. status[j] \in Statuses /\ cancel[j] \in Statuses /\ cancel \in [Jobs -> Statuses]
  BY DEF JInv, TypeOK
<1>2. CASE Cancel(j)
  BY <1>1, <1>2, CancelAsStep DEF Cancel, Cancellable
<1>3. CASE WriteCancel(j)
  <2>1. /\ cancel' \in [Jobs -> Statuses]
        /\ \A i \in Jobs : cancel'[i] # "none" => cancel[i] # "none"
        /\ status[j] # "none"
    BY <1>1, <1>3 DEF WriteCancel, Statuses, JInv, RowsAgree
  <2> QED
    BY <1>1, <1>3, <2>1, CancelAsStep DEF WriteCancel
<1>4. CASE ReadForCancel(j)
  BY <1>1, <1>4 DEF ReadForCancel, Cancellable, JInv, TypeOK, WorkerHasJob, RowsAgree, Live,
                    DrainingIsABackup, BuildingExcludesProcessing, FirstBuild, rows,
                    effects, worker
<1> QED
  BY <1>2, <1>3, <1>4
-----------------------------------------------------------------------------
(* Orphans are failed: less is busy.                                       *)
LEMMA BootStep == ASSUME JInv, Boot PROVE JInv'
<1> USE ConstantsAssumption DEF JInv
<1>1. TypeOK'
  BY DEF Boot, TypeOK, rows, Steps
<1>2. RowsAgree' /\ WorkerHasJob' /\ DrainingIsABackup'
  BY DEF Boot, RowsAgree, WorkerHasJob, DrainingIsABackup, rows, Live, Executing
<1>3. BuildingExcludesProcessing'
  BY LessBusy DEF Boot, RowsKeepKinds, rows
<1> QED
  BY <1>1, <1>2, <1>3

(* An abandoned construction is cleared: less is busy.                     *)
LEMMA AbortStep ==
  ASSUME JInv, NEW k \in KnowledgeBases, AbortBuilding(k) PROVE JInv'
<1> USE ConstantsAssumption DEF JInv
<1>1. TypeOK'
  BY DEF AbortBuilding, TypeOK, rows, worker
<1>2. RowsAgree' /\ WorkerHasJob' /\ DrainingIsABackup'
  BY DEF AbortBuilding, RowsAgree, WorkerHasJob, DrainingIsABackup, rows, worker, Live
<1>3. BuildingExcludesProcessing'
  <2>1. \A l \in busy' \intersect KnowledgeBases : builder'[l] = builder[l]
    BY DEF AbortBuilding, TypeOK
  <2> QED
    BY <2>1, LessBusy DEF AbortBuilding, RowsKeepKinds, rows
<1> QED
  BY <1>1, <1>2, <1>3

(* The passing of time: the order of the queue and the leases change.      *)
LEMMA TimeStep ==
  ASSUME JInv, NEW j \in Jobs, DelayElapses(j) \/ LeaseExpires(j)
  PROVE  JInv'
<1> USE ConstantsAssumption DEF JInv
<1>1. TypeOK'
  BY OrderTyped DEF DelayElapses, LeaseExpires, TypeOK, effects, worker, Leases
<1>2. RowsAgree' /\ WorkerHasJob' /\ DrainingIsABackup' /\ BuildingExcludesProcessing'
  BY DEF DelayElapses, LeaseExpires, RowsAgree, WorkerHasJob, DrainingIsABackup,
         BuildingExcludesProcessing, FirstBuild, effects, worker, Live
<1> QED
  BY <1>1, <1>2

(* The attempt that a claim uses up was left.                              *)
LEMMA ClaimStep == ASSUME JInv, NEW j \in Jobs, Claim(j) PROVE JInv'
<1> USE ConstantsAssumption DEF JInv
<1>1. status[j] = "QUEUED" /\ attempt[j] < 2
  BY DEF Claim, Due, RowsAgree, MaxAttempts, TypeOK
<1>2. TypeOK'
  BY <1>1, OrderTyped DEF Claim, TypeOK, effects, Statuses, NonTerminal, Claimed,
                          Leases, Steps, Executing
<1>3. RowsAgree'
  BY <1>1 DEF Claim, RowsAgree, TypeOK
<1>4. WorkerHasJob' /\ DrainingIsABackup' /\ BuildingExcludesProcessing'
  BY DEF Claim, WorkerHasJob, DrainingIsABackup, BuildingExcludesProcessing,
         FirstBuild, TypeOK, Live, NonTerminal, Claimed, effects
<1> QED
  BY <1>2, <1>3, <1>4

(* Steps of the worker that leave the rows and all business state alone.   *)
LEMMA StillStep ==
  ASSUME JInv, UNCHANGED <<rows, effects, cancel, faults>>, pc' \in Steps,
         cur' \in Jobs \union {Nobody}, mark' \in Statuses \union {"TRANSIENT"},
         pc' \in Executing \union {"recovering"} => cur' \in Jobs /\ status[cur'] # "none",
         pc' = "finishing" => mark' \in Terminal
  PROVE  JInv'
BY DEF JInv, TypeOK, WorkerHasJob, RowsAgree, DrainingIsABackup,
       BuildingExcludesProcessing, FirstBuild, rows, effects, Live

(* Steps that only move the worker on.                                     *)
LEMMA QuietWorkerStep ==
  ASSUME JInv, \/ Start \/ LastCheckpoint \/ FinishRaises \/ Restart
               \/ \E j \in Jobs : ReadExpired(j)
  PROVE  JInv'
<1>1. CASE Start \/ LastCheckpoint \/ FinishRaises
  BY <1>1, StillStep DEF Start, LastCheckpoint, FinishRaises, Go, Over, JInv, TypeOK,
                         WorkerHasJob, Steps, Executing, Statuses, Terminal
<1>2. CASE Restart
  BY <1>2, StillStep DEF Restart, Go, JInv, TypeOK, Steps, Executing
<1>3. ASSUME NEW j \in Jobs, ReadExpired(j) PROVE JInv'
  BY <1>3, StillStep DEF ReadExpired, Expired, JInv, TypeOK, Steps, Statuses, Claimed,
                         worker
<1> QED
  BY <1>1, <1>2, <1>3

(* A file or a knowledge base becomes busy when it does not collide.       *)
LEMMA EnterStep == ASSUME JInv, Enter PROVE JInv'
<1> USE ConstantsAssumption DEF JInv
<1>1. /\ cur \in Jobs /\ status[cur] # "none"
      /\ UNCHANGED <<kind, target, indexed>>
  BY DEF Enter, WorkerHasJob, Executing, rows
<1>2. /\ kind[cur] = "FILE_PROCESS" => target[cur] \in Files
      /\ kind[cur] = "KB_REBUILD" => target[cur] \in KnowledgeBases
  BY <1>1 DEF RowsAgree
<1>3. TypeOK'
  <2>1. /\ busy' \subseteq Resources
        /\ builder' \in [KnowledgeBases -> Jobs \union {Nobody}]
        /\ holder' \in [Resources -> Jobs \union {Nobody}]
    BY <1>1, <1>2 DEF Enter, TypeOK, Resources
  <2> QED
    BY <2>1 DEF Enter, TypeOK, Go, rows, Steps, Executing
<1>4. RowsAgree' /\ WorkerHasJob' /\ DrainingIsABackup'
  BY <1>1 DEF Enter, RowsAgree, WorkerHasJob, DrainingIsABackup, Go, rows, Live, Executing
<1>5. BuildingExcludesProcessing'
  <2> SUFFICES ASSUME NEW k \in busy' \intersect KnowledgeBases,
                      NEW f \in busy' \intersect Files, home[f] = k
               PROVE  FirstBuild(k)'
    BY <1>1 DEF BuildingExcludesProcessing
  <2>1. CASE kind[cur] = "FILE_PROCESS"
    <3>1. /\ busy' = (busy \ Cleared(target[cur])) \union {target[cur]}
          /\ builder' = builder
      BY <2>1 DEF Enter
    <3>2. home[target[cur]] \notin busy \ Cleared(target[cur])
      BY <2>1 DEF Enter, MayEnter
    <3>3. f # target[cur] /\ f \in busy /\ k \in busy
      BY <1>2, <2>1, <3>1, <3>2
    <3>4. FirstBuild(k)
      BY <3>3 DEF BuildingExcludesProcessing
    <3> QED
      BY <1>1, <3>1, <3>4, SameBuild DEF FirstBuild, RowsKeepKinds
  <2>2. CASE kind[cur] = "KB_REBUILD"
    <3>1. \A r \in busy : KbOf(r) # target[cur]
      BY <2>2 DEF Enter, MayEnter
    <3>2. /\ busy' = busy \union {target[cur]}
          /\ builder' = [builder EXCEPT ![target[cur]] = cur]
      BY <2>2 DEF Enter
    <3>3. f \in busy /\ k # target[cur] /\ k \in busy
      BY <1>2, <2>2, <3>1, <3>2 DEF KbOf
    <3>4. FirstBuild(k) /\ builder'[k] = builder[k]
      BY <3>2, <3>3 DEF BuildingExcludesProcessing, TypeOK
    <3> QED
      BY <1>1, <3>4, SameBuild DEF FirstBuild, RowsKeepKinds
  <2>3. CASE kind[cur] \notin {"FILE_PROCESS", "KB_REBUILD"}
    <3>1. UNCHANGED <<busy, builder>>
      BY <2>3 DEF Enter
    <3>2. FirstBuild(k)
      BY <3>1 DEF BuildingExcludesProcessing
    <3> QED
      BY <1>1, <3>1, <3>2, SameBuild DEF FirstBuild, RowsKeepKinds
  <2> QED
    BY <2>1, <2>2, <2>3
<1> QED
  BY <1>3, <1>4, <1>5

(* The first file of a knowledge base makes it BUILDING, beside itself.    *)
LEMMA ActivateStep == ASSUME JInv, Activate PROVE JInv'
<1> USE ConstantsAssumption DEF JInv
<1>1. /\ cur \in Jobs /\ status[cur] # "none"
      /\ UNCHANGED <<kind, target, indexed>>
      /\ kind[cur] = "FILE_PROCESS" /\ target[cur] \in Files
  BY DEF Activate, WorkerHasJob, Executing, rows, RowsAgree
<1>2. home[target[cur]] \in KnowledgeBases
  BY <1>1
<1>3. TypeOK'
  BY <1>1, <1>2 DEF Activate, TypeOK, Go, rows, Resources, Steps, Executing
<1>4. RowsAgree' /\ WorkerHasJob' /\ DrainingIsABackup'
  BY <1>1 DEF Activate, RowsAgree, WorkerHasJob, DrainingIsABackup, Go, rows, Live,
              Executing
<1>5. BuildingExcludesProcessing'
  <2> SUFFICES ASSUME NEW k \in busy' \intersect KnowledgeBases,
                      NEW f \in busy' \intersect Files, home[f] = k
               PROVE  FirstBuild(k)'
    BY <1>1 DEF BuildingExcludesProcessing
  <2>1. CASE k = home[target[cur]]
    BY <1>1, <1>2, <2>1 DEF Activate, FirstBuild, TypeOK
  <2>2. CASE k # home[target[cur]]
    <3>1. k \in busy /\ f \in busy /\ builder'[k] = builder[k]
      BY <1>2, <2>2 DEF Activate, TypeOK
    <3>2. FirstBuild(k)
      BY <3>1 DEF BuildingExcludesProcessing
    <3> QED
      BY <1>1, <3>1, <3>2, SameBuild DEF FirstBuild, RowsKeepKinds
  <2> QED
    BY <2>1, <2>2
<1> QED
  BY <1>3, <1>4, <1>5

(* A deferred cleanup has got back the attempt of its claim.               *)
LEMMA DeferStep == ASSUME JInv, Defer PROVE JInv'
<1> USE ConstantsAssumption DEF JInv
<1>1. cur \in Jobs /\ status[cur] # "none"
  BY DEF Defer, WorkerHasJob, Executing
<1>2. TypeOK'
  BY <1>1 DEF Defer, SetStatus, TypeOK, effects, Statuses, NonTerminal, Leases, Steps
<1>3. RowsAgree'
  BY <1>1 DEF Defer, SetStatus, RowsAgree, TypeOK, MaxAttempts
<1>4. WorkerHasJob' /\ DrainingIsABackup' /\ BuildingExcludesProcessing'
  BY <1>1 DEF Defer, SetStatus, WorkerHasJob, DrainingIsABackup, Executing, FirstBuild,
              BuildingExcludesProcessing, TypeOK, Live, NonTerminal, effects
<1> QED
  BY <1>2, <1>3, <1>4

(* Steps of a handler after it has entered: less is busy, and the draining *)
(* row may go.                                                             *)
LEMMA HandlerStep ==
  ASSUME JInv, UNCHANGED <<rows, cancel, faults>>, busy' \subseteq busy,
         committed' \subseteq Jobs, holder' \in [Resources -> Jobs \union {Nobody}],
         builder' \in [KnowledgeBases -> Jobs \union {Nobody}],
         indexed' \subseteq KnowledgeBases,
         \A k \in busy' \intersect KnowledgeBases :
           builder'[k] = builder[k] /\ (k \in indexed' => k \in indexed),
         draining' \in {draining, Nobody}, cur' = cur, cur \in Jobs,
         pc \in Executing, pc' \in Executing, mark' \in Statuses \union {"TRANSIENT"},
         pc' = "finishing" => mark' \in Terminal
  PROVE  JInv'
<1>1. TypeOK'
  BY DEF JInv, TypeOK, rows, Steps
<1>2. RowsAgree' /\ WorkerHasJob' /\ DrainingIsABackup'
  BY DEF JInv, RowsAgree, WorkerHasJob, DrainingIsABackup, rows, Live
<1>3. BuildingExcludesProcessing'
  BY LessBusy DEF JInv, RowsKeepKinds, rows
<1> QED
  BY <1>1, <1>2, <1>3 DEF JInv

(* The effect becomes durable: what the job was working on is settled.     *)
LEMMA CommitStep == ASSUME JInv, Commit PROVE JInv'
<1>1. pc \in Executing /\ pc' \in Executing /\ cur \in Jobs
  BY DEF Commit, Go, JInv, WorkerHasJob, Executing
<1>2. /\ busy' \subseteq busy
      /\ holder' \in [Resources -> Jobs \union {Nobody}]
      /\ committed' \subseteq Jobs
      /\ builder' \in [KnowledgeBases -> Jobs \union {Nobody}]
      /\ indexed' \subseteq KnowledgeBases
  BY <1>1 DEF Commit, JInv, TypeOK
<1>3. \A k \in busy' \intersect KnowledgeBases :
        builder'[k] = builder[k] /\ (k \in indexed' => k \in indexed)
  BY DEF Commit
<1> QED
  BY <1>1, <1>2, <1>3, HandlerStep DEF Commit, Go, JInv, TypeOK

(* The handler returns with its effect in place.                           *)
LEMMA ReturnStep == ASSUME JInv, Return PROVE JInv'
<1>1. pc \in Executing /\ pc' \in Executing /\ cur \in Jobs
  BY DEF Return, Over, JInv, WorkerHasJob, Executing
<1> QED
  BY <1>1, HandlerStep DEF Return, Over, Undrain, JInv, TypeOK, Statuses, Terminal

(* An exception leaves the handler, with its claim undone or not.          *)
LEMMA RaiseStep ==
  ASSUME JInv, NEW m \in {"CANCELLED", "FAILED", "TRANSIENT"}, Raise(m)
  PROVE  JInv'
<1>1. pc \in Executing /\ pc' \in Executing /\ cur \in Jobs /\ cur' = cur
  BY DEF Raise, Over, JInv, WorkerHasJob, Executing
<1>2. busy' \subseteq busy /\ committed' \subseteq Jobs /\ UNCHANGED <<builder, indexed>>
  BY DEF Raise, JInv, TypeOK
<1>3. holder' \in [Resources -> Jobs \union {Nobody}]
  BY DEF Raise, Disown, JInv, TypeOK
<1>4. draining' \in {draining, Nobody}
  BY DEF Raise, Undrain
<1>5. mark' \in Statuses \union {"TRANSIENT"} /\ (pc' = "finishing" => mark' \in Terminal)
  BY DEF Raise, Over, Statuses, Terminal
<1> QED
  BY <1>1, <1>2, <1>3, <1>4, <1>5, HandlerStep DEF Raise, JInv, TypeOK

(* The end of an attempt: a backup takes its draining row with it.         *)
LEMMA FinishStep == ASSUME JInv, Finish PROVE JInv'
<1> USE ConstantsAssumption DEF JInv
<1>1. cur \in Jobs /\ status[cur] # "none" /\ mark \in Terminal
  BY DEF Finish, WorkerHasJob, Executing
<1>2. kind[cur] \in {"FILE_PROCESS", "KB_REBUILD"} => target[cur] \in Resources
  BY <1>1 DEF RowsAgree, Resources
<1>3. TypeOK'
  <2>1. /\ status' \in [Jobs -> Statuses]
        /\ lease' \in [Jobs -> Leases]
    BY <1>1 DEF Finish, SetStatus, TypeOK, Statuses, Leases
  <2>2. busy' \subseteq Resources /\ holder' \in [Resources -> Jobs \union {Nobody}]
    BY <1>1, <1>2 DEF Finish, TypeOK
  <2>3. draining' \in Jobs \union {Nobody}
    BY <1>1 DEF Finish, TypeOK, Undrain
  <2> QED
    BY <2>1, <2>2, <2>3 DEF Finish, TypeOK, Steps, Statuses
<1>4. RowsAgree'
  BY <1>1 DEF Finish, SetStatus, RowsAgree, TypeOK, Terminal
<1>5. WorkerHasJob'
  BY DEF Finish, WorkerHasJob, Executing
<1>6. DrainingIsABackup'
  BY <1>1 DEF Finish, SetStatus, DrainingIsABackup, TypeOK, Undrain, Live
<1>7. BuildingExcludesProcessing'
  <2>1. busy' \subseteq busy /\ UNCHANGED <<kind, target, builder, indexed>>
    BY DEF Finish
  <2> QED
    BY <2>1, LessBusy DEF RowsKeepKinds
<1> QED
  BY <1>3, <1>4, <1>5, <1>6, <1>7

(* A transient error is handed to the recovery, or ends the job.           *)
LEMMA EndLeaseStep == ASSUME JInv, EndLease PROVE JInv'
<1> USE DEF JInv
<1>1. cur \in Jobs /\ status[cur] # "none" /\ status[cur] \in Statuses
  BY DEF EndLease, WorkerHasJob, Executing, TypeOK
<1>2. TypeOK'
  BY <1>1 DEF EndLease, Over, TypeOK, effects, Leases, Steps, Executing, Statuses, Terminal
<1>3. RowsAgree' /\ WorkerHasJob' /\ DrainingIsABackup' /\ BuildingExcludesProcessing'
  BY <1>1 DEF EndLease, Over, RowsAgree, WorkerHasJob, DrainingIsABackup, Live,
              BuildingExcludesProcessing, FirstBuild, effects, Terminal
<1> QED
  BY <1>2, <1>3

(* The process or the thread of the worker ends.                           *)
LEMMA FaultStep == ASSUME JInv, ThreadDies \/ Crash \/ Shutdown PROVE JInv'
<1>1. Orphaned \in [Jobs -> Leases]
  BY DEF Orphaned, JInv, TypeOK, Leases
<1>2. TypeOK'
  BY <1>1, ConstantsAssumption
     DEF ThreadDies, Crash, Shutdown, Stop, JInv, TypeOK, effects, Steps, Statuses
<1>3. RowsAgree'
  BY DEF ThreadDies, Crash, Shutdown, Stop, JInv, RowsAgree
<1>4. WorkerHasJob' /\ DrainingIsABackup' /\ BuildingExcludesProcessing'
  BY DEF ThreadDies, Crash, Shutdown, Stop, JInv, WorkerHasJob, Executing, Live,
         DrainingIsABackup, BuildingExcludesProcessing, FirstBuild, effects
<1> QED
  BY <1>2, <1>3, <1>4 DEF JInv
-----------------------------------------------------------------------------
(* What a recovery writes to the row of its job: it ends it, or puts it    *)
(* back into the queue when an attempt is left.                            *)
Rewritten ==
  \/ /\ status'[cur] \in Terminal
     /\ status' = [status EXCEPT ![cur] = status'[cur]]
     /\ lease' = [lease EXCEPT ![cur] = "none"]
     /\ gaveUp' \in {gaveUp, gaveUp \union {cur}}
     /\ UNCHANGED <<attempt, ahead, delayed>>
  \/ /\ status' = [status EXCEPT ![cur] = "QUEUED"]
     /\ lease' = [lease EXCEPT ![cur] = "none"]
     /\ attempt' = [attempt EXCEPT ![cur] = attempt'[cur]]
     /\ attempt'[cur] \in 0 .. 2 /\ attempt'[cur] < MaxAttempts(kind[cur])
     /\ ahead' \in [Jobs -> SUBSET Jobs] /\ delayed' \subseteq Jobs
     /\ UNCHANGED gaveUp

(* A recovery that gives up ends the job.                                  *)
LEMMA GiveUpRewrites ==
  ASSUME TypeOK, cur \in Jobs, NEW s \in Terminal, GiveUp(s) PROVE Rewritten
BY DEF GiveUp, Ends, SetStatus, Rewritten, TypeOK

(* A recovery that finds the effect in place ends the job, too.            *)
LEMMA SucceedRewrites ==
  ASSUME TypeOK, cur \in Jobs, Succeed PROVE Rewritten
BY DEF Succeed, Ends, SetStatus, Rewritten, TypeOK, Terminal

(* A recovery that puts the job back leaves it an attempt.                 *)
LEMMA RequeueRewrites ==
  ASSUME TypeOK, cur \in Jobs, NEW refund \in {0, 1}, Requeue(refund)
  PROVE  Rewritten
<1>1. CASE attempt[cur] - refund >= MaxAttempts(kind[cur])
  BY <1>1, GiveUpRewrites DEF Requeue, Terminal
<1>2. CASE ~(attempt[cur] - refund >= MaxAttempts(kind[cur]))
  <2>1. attempt[cur] \in 0 .. 2
    BY DEF TypeOK
  <2>2. attempt' = [attempt EXCEPT ![cur] = IF @ > 0 THEN @ - refund ELSE 0]
    BY <1>2 DEF Requeue
  <2>3. attempt'[cur] = IF attempt[cur] > 0 THEN attempt[cur] - refund ELSE 0
    BY <2>2 DEF TypeOK
  <2>4. attempt'[cur] \in 0 .. 2 /\ attempt'[cur] < MaxAttempts(kind[cur])
    BY <1>2, <2>1, <2>3 DEF MaxAttempts
  <2>5. attempt' = [attempt EXCEPT ![cur] = attempt'[cur]]
    BY <2>2, <2>3
  <2>6. ahead' \in [Jobs -> SUBSET Jobs] /\ delayed' \subseteq Jobs
    BY <1>2, OrderTyped DEF Requeue, TypeOK
  <2> QED
    BY <1>2, <2>4, <2>5, <2>6 DEF Requeue, SetStatus, Rewritten
<1> QED
  BY <1>1, <1>2

(* What a recovery does to the business rows: less is busy.                *)
Settled ==
  /\ busy' \subseteq busy
  /\ committed' \subseteq Jobs
  /\ holder' \in [Resources -> Jobs \union {Nobody}]
  /\ builder' \in [KnowledgeBases -> Jobs \union {Nobody}]
  /\ indexed' \subseteq KnowledgeBases
  /\ \A k \in busy' \intersect KnowledgeBases :
       builder'[k] = builder[k] /\ (k \in indexed' => k \in indexed)
  /\ \/ draining' = draining /\ (kind[cur] # "BACKUP" \/ cur \in gaveUp')
     \/ draining' = Undrain(cur)

(* The recovery of a backup ends it and removes its draining row.          *)
LEMMA ReconcileBackupSettles ==
  ASSUME TypeOK, cur \in Jobs, ReconcileBackup PROVE Rewritten /\ Settled
BY GiveUpRewrites DEF ReconcileBackup, Settled, TypeOK, Terminal

(* The recovery of a file only ever frees it.                              *)
LEMMA ReconcileFileSettles ==
  ASSUME TypeOK, cur \in Jobs, ReconcileFile PROVE Rewritten /\ Settled
<1>1. \/ GiveUp("FAILED") \/ Succeed \/ Requeue(0)
  BY DEF ReconcileFile
<1>2. /\ busy' \subseteq busy /\ committed' \subseteq Jobs
      /\ holder' \in [Resources -> Jobs \union {Nobody}]
  BY DEF ReconcileFile, Reset, TypeOK
<1>3. UNCHANGED <<builder, indexed, draining>> /\ kind[cur] # "BACKUP"
  BY DEF ReconcileFile
<1> QED
  BY <1>1, <1>2, <1>3, GiveUpRewrites, SucceedRewrites, RequeueRewrites
     DEF Settled, Terminal, TypeOK

(* The recovery of a rebuild only ever frees the knowledge base.           *)
LEMMA ReconcileRebuildSettles ==
  ASSUME TypeOK, RowsAgree, cur \in Jobs, ReconcileRebuild PROVE Rewritten /\ Settled
<1>1. \/ GiveUp("FAILED") \/ Succeed \/ Requeue(0)
  BY DEF ReconcileRebuild
<1>2. /\ busy' \subseteq busy /\ committed' \subseteq Jobs
      /\ holder' \in [Resources -> Jobs \union {Nobody}]
  BY DEF ReconcileRebuild, Reset, TypeOK
<1>3. draining' = draining /\ kind[cur] # "BACKUP"
  BY DEF ReconcileRebuild
<1>4. /\ builder' \in [KnowledgeBases -> Jobs \union {Nobody}]
      /\ indexed' \subseteq KnowledgeBases
      /\ \A k \in busy' \intersect KnowledgeBases :
           builder'[k] = builder[k] /\ (k \in indexed' => k \in indexed)
  <2>1. target[cur] \in KnowledgeBases
    BY DEF ReconcileRebuild, RowsAgree
  <2> QED
    BY <2>1 DEF ReconcileRebuild, TypeOK
<1> QED
  BY <1>1, <1>2, <1>3, <1>4, GiveUpRewrites, SucceedRewrites, RequeueRewrites
     DEF Settled, Terminal

(* The recovery of a cleanup or an evaluation touches no business row.     *)
LEMMA ReconcileOthersSettle ==
  ASSUME TypeOK, cur \in Jobs, ReconcileCleanup \/ ReconcileEvaluation
  PROVE  Rewritten /\ Settled
<1>1. \/ GiveUp("FAILED") \/ Succeed \/ Requeue(0) \/ Requeue(1)
  BY DEF ReconcileCleanup, ReconcileEvaluation
<1>2. /\ UNCHANGED <<busy, holder, builder, indexed, draining>>
      /\ committed' \subseteq Jobs /\ kind[cur] # "BACKUP"
  BY DEF ReconcileCleanup, ReconcileEvaluation, effects, TypeOK
<1> QED
  BY <1>1, <1>2, GiveUpRewrites, SucceedRewrites, RequeueRewrites
     DEF Settled, Terminal, TypeOK

(* A recovery, of a cancel request or by the kind of the job.              *)
LEMMA ReconcileSettles == ASSUME JInv, Reconcile PROVE Rewritten /\ Settled
<1>1. cur \in Jobs /\ TypeOK /\ RowsAgree
  BY DEF JInv, Reconcile, WorkerHasJob, Executing
<1>2. CASE mark = "CANCEL_REQUESTED"
  <2>1. GiveUp("CANCELLED") /\ UNCHANGED effects
    BY <1>2 DEF Reconcile
  <2>2. cur \in gaveUp'
    BY <2>1 DEF GiveUp
  <2> QED
    BY <1>1, <2>1, <2>2, GiveUpRewrites DEF Terminal, Settled, TypeOK, effects
<1>3. CASE mark # "CANCEL_REQUESTED"
  BY <1>1, <1>3, ReconcileBackupSettles, ReconcileFileSettles,
     ReconcileRebuildSettles, ReconcileOthersSettle DEF Reconcile
<1> QED
  BY <1>2, <1>3

(* A recovery keeps the invariant, whatever it finds.                      *)
LEMMA ReconcileStep == ASSUME JInv, Reconcile PROVE JInv'
<1> USE ConstantsAssumption DEF JInv
<1>1. cur \in Jobs /\ status[cur] # "none"
  BY DEF Reconcile, WorkerHasJob, Executing
<1>2. Rewritten /\ Settled
  BY ReconcileSettles
<1>3. UNCHANGED <<kind, target, cancel, faults>> /\ pc' = "polling" /\ cur' = Nobody
      /\ mark' = "none"
  BY DEF Reconcile
<1>4. TypeOK'
  <2>1. /\ status' \in [Jobs -> Statuses] /\ lease' \in [Jobs -> Leases]
        /\ attempt' \in [Jobs -> 0 .. 2] /\ gaveUp' \subseteq Jobs
        /\ ahead' \in [Jobs -> SUBSET Jobs] /\ delayed' \subseteq Jobs
    BY <1>1, <1>2 DEF Rewritten, TypeOK, Statuses, NonTerminal, Leases
  <2>2. busy' \subseteq Resources /\ draining' \in Jobs \union {Nobody}
    BY <1>2 DEF Settled, TypeOK, Undrain
  <2> QED
    BY <1>2, <1>3, <2>1, <2>2 DEF Settled, TypeOK, Steps, Statuses
<1>5. RowsAgree'
  BY <1>1, <1>2, <1>3 DEF Rewritten, RowsAgree, TypeOK, Terminal
<1>6. WorkerHasJob'
  BY <1>3 DEF WorkerHasJob, Executing
<1>7. DrainingIsABackup'
  BY <1>1, <1>2, <1>3 DEF Rewritten, Settled, DrainingIsABackup, TypeOK, Undrain,
                          Live, NonTerminal
<1>8. BuildingExcludesProcessing'
  BY <1>2, <1>3, LessBusy DEF Settled, RowsKeepKinds
<1> QED
  BY <1>4, <1>5, <1>6, <1>7, <1>8
-----------------------------------------------------------------------------
(* Every step keeps the invariant, and so does standing still.             *)
LEMMA JInvStep == JInv /\ [Next]_vars => JInv'
<1> SUFFICES ASSUME JInv, [Next]_vars PROVE JInv'
  OBVIOUS
<1>1. ASSUME NEW j \in Jobs, NEW k \in Kinds, NEW r \in Targets(k), Submit(j, k, r)
      PROVE  JInv'
  BY <1>1, SubmitStep
<1>2. ASSUME NEW j \in Jobs,
             \/ Cancel(j) \/ ReadForCancel(j) \/ WriteCancel(j)
             \/ DelayElapses(j) \/ LeaseExpires(j) \/ Claim(j)
      PROVE  JInv'
  BY <1>2, CancelStep, TimeStep, ClaimStep
<1>3. CASE WorkerStep
  BY <1>3, BootStep, QuietWorkerStep, EnterStep, DeferStep, ActivateStep, CommitStep, ReturnStep,
     RaiseStep, FinishStep, EndLeaseStep, ReconcileStep DEF WorkerStep
<1>4. CASE ThreadDies \/ Crash \/ Shutdown \/ Restart
  BY <1>4, FaultStep, QuietWorkerStep
<1>5. CASE UNCHANGED vars
  BY <1>5 DEF vars, JInv, TypeOK, WorkerHasJob, RowsAgree, DrainingIsABackup, Live,
              BuildingExcludesProcessing, FirstBuild
<1>6. ASSUME NEW k \in KnowledgeBases, AbortBuilding(k) PROVE JInv'
  BY <1>6, AbortStep
<1> QED
  BY <1>1, <1>2, <1>3, <1>4, <1>5, <1>6 DEF Next

(* The invariant holds in every reachable state.                           *)
LEMMA JInvariance == Spec => []JInv
<1> QED
  BY JInvInit, JInvStep, PTL DEF Spec

(* The variables keep their types: in particular no interleaving of        *)
(* retries, deferrals and recoveries counts an attempt past the bound.     *)
THEOREM TypeCorrect == Spec => []TypeOK
<1>1. JInv => TypeOK
  BY DEF JInv
<1> QED
  BY <1>1, JInvariance, PTL

(* A knowledge base is BUILDING while one of its files is PROCESSING only  *)
(* for the first file of a collection that is not active yet, never for a  *)
(* rebuild, whatever requests do in between (handlers' claims,             *)
(* _activate_first_file, job_worker._finish, recovery).                    *)
THEOREM BuildingIsExclusive == Spec => []BuildingExcludesProcessing
<1>1. JInv => BuildingExcludesProcessing
  BY DEF JInv
<1> QED
  BY <1>1, JInvariance, PTL

(* The row that makes the process refuse writes belongs to a backup under  *)
(* way, or to one that the recovery closed.                                *)
THEOREM DrainingIsOwned == Spec => []DrainingHasAnOwner
<1>1. JInv => DrainingHasAnOwner
  BY DEF JInv, DrainingIsABackup, DrainingHasAnOwner
<1> QED
  BY <1>1, JInvariance, PTL
-----------------------------------------------------------------------------
(* What took effect is neither waiting nor about to take effect, and a     *)
(* rebuild that has switched no longer holds its knowledge base: should    *)
(* that be BUILDING again, it is for another job, and never for a first    *)
(* file, as it has an active collection.                                   *)
EffectsAgree ==
  /\ \A j \in Jobs : status[j] \in {"none", "QUEUED"} => j \notin committed
  /\ pc \in Executing \union {"recovering"} => status[cur] # "QUEUED"
  /\ pc \in {"starting", "entering", "working", "committing", "activating"} =>
       cur \notin committed
  /\ \A j \in committed :
       kind[j] = "KB_REBUILD" /\ target[j] \in busy => holder[target[j]] # j
  /\ \A j \in committed : kind[j] = "KB_REBUILD" => target[j] \in indexed

(* Less is busy, and no busy file or knowledge base changes hands.         *)
Loosened ==
  /\ busy' \subseteq busy
  /\ \A r \in busy' : holder'[r] \in {holder[r], Nobody}
  /\ indexed \subseteq indexed'

(* No job gets back into the queue, takes effect or changes hands.         *)
LEMMA EffectsKept ==
  ASSUME JInv, EffectsAgree, Loosened, committed' \subseteq committed,
         UNCHANGED <<kind, target>>,
         \A j \in Jobs : status'[j] \in {"none", "QUEUED"} => status[j] = status'[j],
         pc' \in Executing \union {"recovering"} => status'[cur'] # "QUEUED",
         pc' \in {"starting", "entering", "working", "committing", "activating"} =>
           cur' \notin committed
  PROVE  EffectsAgree'
<1>1. \A j \in committed' : kind'[j] = "KB_REBUILD" /\ target'[j] \in busy' =>
                              holder'[target'[j]] # j
  <2> SUFFICES ASSUME NEW j \in committed, kind[j] = "KB_REBUILD", target[j] \in busy'
               PROVE  holder'[target[j]] # j
    OBVIOUS
  <2>1. j # Nobody
    BY ConstantsAssumption DEF JInv, TypeOK
  <2>2. holder'[target[j]] \in {holder[target[j]], Nobody} /\ target[j] \in busy
    BY DEF Loosened
  <2> QED BY <2>1, <2>2 DEF EffectsAgree
<1>2. \A j \in committed' : kind'[j] = "KB_REBUILD" => target'[j] \in indexed'
  BY DEF EffectsAgree, Loosened
<1> QED BY <1>1, <1>2 DEF EffectsAgree

(* Nothing has taken effect yet.                                           *)
LEMMA EffectsInit == Init => EffectsAgree
BY DEF Init, EffectsAgree, Executing

(* A new row has had no effect, and takes only what is not claimed by one  *)
(* that has.                                                               *)
LEMMA SubmitEffects ==
  ASSUME JInv, EffectsAgree, NEW j \in Jobs, NEW k \in Kinds, NEW r \in Targets(k),
         Submit(j, k, r)
  PROVE  EffectsAgree'
<1>1. /\ status[j] = "none" /\ j \notin committed
      /\ status' = [status EXCEPT ![j] = "QUEUED"]
      /\ kind' = [kind EXCEPT ![j] = k] /\ target' = [target EXCEPT ![j] = r]
      /\ UNCHANGED <<committed, busy, indexed, pc, cur>>
      /\ holder' = holder \/ holder' = [holder EXCEPT ![r] = j]
  BY DEF Submit, worker, EffectsAgree
<1>2. \A i \in Jobs : i # j => kind'[i] = kind[i] /\ target'[i] = target[i]
                                 /\ status'[i] = status[i]
  BY <1>1 DEF JInv, TypeOK
<1>3. pc \in Executing \union {"recovering"} => cur # j /\ cur \in Jobs
  BY <1>1 DEF JInv, WorkerHasJob
<1>4. \A i \in committed : kind'[i] = "KB_REBUILD" /\ target'[i] \in busy =>
                             holder'[target'[i]] # i
  <2> SUFFICES ASSUME NEW i \in committed, kind[i] = "KB_REBUILD", target[i] \in busy
               PROVE  holder'[target[i]] # i
    BY <1>1, <1>2 DEF JInv, TypeOK
  <2>1. holder'[target[i]] \in {holder[target[i]], j} /\ i # j
    BY <1>1 DEF JInv, TypeOK
  <2> QED BY <2>1 DEF EffectsAgree
<1> QED
  BY <1>1, <1>2, <1>3, <1>4 DEF EffectsAgree, Executing, JInv, TypeOK

(* A cancel puts no job into the queue and gives nothing to another job.   *)
LEMMA CancelEffects ==
  ASSUME JInv, EffectsAgree, NEW j \in Jobs,
         Cancel(j) \/ ReadForCancel(j) \/ WriteCancel(j)
  PROVE  EffectsAgree'
<1>1. /\ UNCHANGED <<kind, target, committed, busy, indexed, pc, cur>>
      /\ status' = status \/ \E s \in {"CANCELLED", "CANCEL_REQUESTED"} :
                               status' = [status EXCEPT ![j] = s]
      /\ holder' = holder \/ holder' = Disown(j)
  BY DEF Cancel, ReadForCancel, WriteCancel, CancelAs, rows, effects, worker
<1>2. \A i \in Jobs : status'[i] \in {"none", "QUEUED"} => status[i] = status'[i]
  BY <1>1 DEF JInv, TypeOK
<1>3. Loosened
  BY <1>1 DEF Loosened, Disown, JInv, TypeOK
<1>4. pc \in Executing \union {"recovering"} => cur \in Jobs
  BY DEF JInv, WorkerHasJob
<1> QED
  BY <1>1, <1>2, <1>3, <1>4, EffectsKept DEF EffectsAgree

(* Steps that write no row, no effect and no file or knowledge base.       *)
LEMMA QuietEffects ==
  ASSUME JInv, EffectsAgree,
         \/ Start \/ LastCheckpoint \/ FinishRaises \/ Restart \/ EndLease \/ Return
         \/ ThreadDies \/ Crash \/ Shutdown \/ UNCHANGED vars
         \/ \E j \in Jobs : DelayElapses(j) \/ LeaseExpires(j) \/ ReadExpired(j)
  PROVE  EffectsAgree'
<1>1. UNCHANGED <<status, kind, target, committed, busy, holder, indexed>>
  BY DEF Start, LastCheckpoint, FinishRaises, Restart, EndLease, Return, ThreadDies,
     Crash, Shutdown, Stop, vars, DelayElapses, LeaseExpires, ReadExpired, Over, Go, rows,
     effects, worker
<1>2. /\ pc' \in Executing \union {"recovering"} => status[cur'] # "QUEUED"
      /\ pc' \in {"starting", "entering", "working", "committing", "activating"} =>
           cur' \notin committed
  BY DEF EffectsAgree, Start, LastCheckpoint, FinishRaises, Restart, EndLease, Return,
     ThreadDies, Crash, Shutdown, Stop, vars, DelayElapses, LeaseExpires, ReadExpired,
     Expired, Claimed, Over, Go, worker, Executing
<1> QED
  BY <1>1, <1>2, EffectsKept DEF Loosened

(* What is claimed comes out of the queue, and has had no effect there.    *)
LEMMA ClaimEffects ==
  ASSUME JInv, EffectsAgree, NEW j \in Jobs, Claim(j) PROVE EffectsAgree'
<1>1. /\ status[j] = "QUEUED" /\ status' = [status EXCEPT ![j] = "RUNNING"]
      /\ UNCHANGED <<kind, target, committed, busy, holder, indexed>> /\ cur' = j
  BY DEF Claim, Due, effects
<1> QED
  BY <1>1, EffectsKept DEF Loosened, EffectsAgree, JInv, TypeOK

(* The start of the worker only frees, and so does abort-building.         *)
LEMMA BootEffects ==
  ASSUME JInv, EffectsAgree, Boot \/ \E k \in KnowledgeBases : AbortBuilding(k)
  PROVE  EffectsAgree'
<1>1. /\ UNCHANGED <<status, kind, target, committed>>
      /\ pc' = "polling" \/ UNCHANGED <<pc, cur>>
  BY DEF Boot, AbortBuilding, rows, worker
<1>2. Loosened
  BY DEF Boot, AbortBuilding, Loosened, JInv, TypeOK
<1> QED
  BY <1>1, <1>2, EffectsKept DEF Executing, EffectsAgree

(* Who becomes busy is held by a job that has had no effect, or is a       *)
(* knowledge base for which no rebuild has had one.                        *)
LEMMA EnterEffects ==
  ASSUME JInv, EffectsAgree, Enter \/ Activate PROVE EffectsAgree'
<1>1. /\ cur \in Jobs /\ cur \notin committed /\ status[cur] # "QUEUED"
      /\ UNCHANGED <<status, kind, target, committed, indexed, cur>>
      /\ pc' \in {"working", "activating"}
  BY DEF Enter, Activate, JInv, WorkerHasJob, EffectsAgree, Executing, Go, rows
<1>2. ASSUME NEW j \in committed, kind[j] = "KB_REBUILD", target[j] \in busy'
      PROVE  holder'[target[j]] # j
  <2>1. j # cur /\ target[j] \in indexed /\ j \in Jobs
    BY <1>1, <1>2 DEF EffectsAgree, JInv, TypeOK
  <2>2. target[j] \in KnowledgeBases
    BY <1>2, <2>1 DEF JInv, TypeOK
  <2>3. holder'[target[j]] = cur \/ (target[j] \in busy /\ holder'[target[j]] = holder[target[j]])
    <3>1. CASE Activate
      BY <1>2, <2>1, <3>1 DEF Activate
    <3>2. CASE Enter /\ kind[cur] = "FILE_PROCESS"
      <4>1. target[cur] \in Files
        BY <1>1, <3>2 DEF JInv, RowsAgree
      <4>2. target[j] # target[cur]
        BY <2>2, <4>1, ConstantsAssumption
      <4> QED
        BY <1>2, <3>2, <4>2 DEF Enter, JInv, TypeOK
    <3>3. CASE Enter /\ kind[cur] = "KB_REBUILD"
      <4>1. target[cur] \in Resources
        BY <1>1, <3>3 DEF JInv, RowsAgree, Resources
      <4> QED
        BY <1>2, <3>3, <4>1 DEF Enter, JInv, TypeOK
    <3>4. CASE Enter /\ kind[cur] \notin {"FILE_PROCESS", "KB_REBUILD"}
      BY <1>2, <3>4 DEF Enter
    <3> QED
      BY <3>1, <3>2, <3>3, <3>4
  <2> QED
    BY <1>2, <2>1, <2>3 DEF EffectsAgree
<1> QED
  BY <1>1, <1>2 DEF EffectsAgree

(* A deferred cleanup has not removed anything.                            *)
LEMMA DeferEffects ==
  ASSUME JInv, EffectsAgree, Defer PROVE EffectsAgree'
<1>1. /\ cur \in Jobs /\ cur \notin committed
      /\ status' = [status EXCEPT ![cur] = "QUEUED"]
      /\ UNCHANGED <<kind, target, committed, busy, holder, indexed>> /\ pc' = "polling"
  BY DEF Defer, SetStatus, JInv, WorkerHasJob, EffectsAgree, Executing, effects
<1> QED
  BY <1>1 DEF EffectsAgree, JInv, TypeOK, Executing

(* What is settled is no longer busy, whoever held it.                     *)
LEMMA CommitEffects ==
  ASSUME JInv, EffectsAgree, Commit PROVE EffectsAgree'
<1>1. /\ cur \in Jobs /\ status[cur] \notin {"none", "QUEUED"}
      /\ UNCHANGED <<status, kind, target, cur>> /\ pc' = "committed"
      /\ committed' = committed \union {cur}
  BY DEF Commit, JInv, WorkerHasJob, EffectsAgree, Executing, Go, rows
<1>2. Loosened
  BY DEF Commit, Loosened, JInv, TypeOK
<1>3. kind[cur] = "KB_REBUILD" => target[cur] \notin busy' /\ target[cur] \in indexed'
  <2> SUFFICES ASSUME kind[cur] = "KB_REBUILD"
               PROVE  target[cur] \notin busy' /\ target[cur] \in indexed'
    OBVIOUS
  <2>1. target[cur] \in KnowledgeBases /\ target[cur] \in Resources
    BY <1>1 DEF JInv, RowsAgree, Resources
  <2>2. KbOf(target[cur]) = target[cur]
    BY <2>1, ConstantsAssumption DEF KbOf
  <2>3. target[cur] \in Settles
    BY <2>1, <2>2 DEF Settles
  <2> QED BY <2>1, <2>3 DEF Commit
<1>4. \A j \in committed' : kind'[j] = "KB_REBUILD" /\ target'[j] \in busy' =>
                              holder'[target'[j]] # j
  <2> SUFFICES ASSUME NEW j \in committed, kind[j] = "KB_REBUILD", target[j] \in busy'
               PROVE  holder'[target[j]] # j
    BY <1>1, <1>3
  <2>1. j # Nobody
    BY ConstantsAssumption DEF JInv, TypeOK
  <2> QED BY <1>2, <2>1 DEF Loosened, EffectsAgree
<1>5. \A j \in committed' : kind'[j] = "KB_REBUILD" => target'[j] \in indexed'
  BY <1>1, <1>2, <1>3 DEF Loosened, EffectsAgree
<1> QED
  BY <1>1, <1>4, <1>5 DEF EffectsAgree, Executing

(* A handler that raises leaves its row to the worker.                     *)
LEMMA RaiseEffects ==
  ASSUME JInv, EffectsAgree, NEW m \in {"CANCELLED", "FAILED", "TRANSIENT"}, Raise(m)
  PROVE  EffectsAgree'
<1>1. /\ UNCHANGED <<status, kind, target, cur>> /\ pc' \in {"transient", "finishing"}
      /\ committed' \subseteq committed /\ pc \in Executing
  BY DEF Raise, Over, rows, Executing
<1>2. Loosened
  BY DEF Raise, Loosened, Disown, JInv, TypeOK
<1> QED
  BY <1>1, <1>2, EffectsKept DEF EffectsAgree

(* The end of an attempt is no way back into the queue.                    *)
LEMMA FinishEffects ==
  ASSUME JInv, EffectsAgree, Finish PROVE EffectsAgree'
<1>1. /\ cur \in Jobs /\ mark \in Terminal
      /\ status' = status \/ status' = [status EXCEPT ![cur] = mark]
      /\ UNCHANGED <<kind, target, committed>> /\ pc' = "polling"
  BY DEF Finish, SetStatus, JInv, WorkerHasJob, Executing
<1>2. Loosened
  BY DEF Finish, Loosened, JInv, TypeOK
<1>3. \A j \in Jobs : status'[j] \in {"none", "QUEUED"} => status[j] = status'[j]
  BY <1>1 DEF JInv, TypeOK, Terminal
<1> QED
  BY <1>1, <1>2, <1>3, EffectsKept DEF Executing

(* A recovery puts a job back only when it has had no effect, or when the  *)
(* effect is taken back.                                                   *)
LEMMA ReconcileEffects ==
  ASSUME JInv, EffectsAgree, Reconcile PROVE EffectsAgree'
<1>1. /\ cur \in Jobs /\ status[cur] \notin {"none", "QUEUED"} /\ pc' = "polling"
      /\ UNCHANGED <<kind, target>> /\ Rewritten
  BY ReconcileSettles DEF Reconcile, JInv, WorkerHasJob, EffectsAgree, Executing
<1>2. \A j \in Jobs : status'[j] \in {"none", "QUEUED"} =>
                        j = cur \/ status[j] = status'[j]
  BY <1>1 DEF Rewritten, JInv, TypeOK
<1>3. status'[cur] \in {"none", "QUEUED"} => cur \notin committed'
  <2>1. \A s : GiveUp(s) => status'[cur] = s
    BY <1>1 DEF GiveUp, Ends, SetStatus, JInv, TypeOK
  <2>2. Succeed => status'[cur] = "SUCCEEDED"
    BY <1>1 DEF Succeed, Ends, SetStatus, JInv, TypeOK
  <2>3. CASE mark = "CANCEL_REQUESTED"
    BY <2>1, <2>3 DEF Reconcile
  <2>4. CASE ReconcileBackup
    BY <2>1, <2>4 DEF ReconcileBackup
  <2>5. CASE ReconcileFile
    BY <2>1, <2>2, <2>5 DEF ReconcileFile
  <2>6. CASE ReconcileRebuild
    <3>1. CASE GiveUp("FAILED") \/ Succeed
      BY <2>1, <2>2, <3>1
    <3>2. CASE ~(GiveUp("FAILED") \/ Succeed)
      <4>1. /\ kind[cur] = "KB_REBUILD" /\ committed' = committed
            /\ target[cur] \in busy => holder[target[cur]] = cur
            /\ ~(cur \in committed /\ target[cur] \notin busy)
        BY <2>6, <3>2 DEF ReconcileRebuild
      <4> QED BY <4>1 DEF EffectsAgree
    <3> QED BY <3>1, <3>2
  <2>7. CASE ReconcileCleanup
    BY <2>1, <2>2, <2>7 DEF ReconcileCleanup, effects
  <2>8. CASE ReconcileEvaluation
    BY <2>1, <2>2, <2>8 DEF ReconcileEvaluation
  <2> QED
    BY <2>3, <2>4, <2>5, <2>6, <2>7, <2>8 DEF Reconcile
<1>4. \A j \in committed' : kind'[j] = "KB_REBUILD" /\ target'[j] \in busy' =>
                              holder'[target'[j]] # j
  <2> SUFFICES ASSUME NEW j \in committed', kind[j] = "KB_REBUILD", target[j] \in busy'
               PROVE  holder'[target[j]] # j
    BY <1>1
  <2>1. j # Nobody /\ cur # Nobody
    BY <1>1, ReconcileSettles, ConstantsAssumption DEF Settled
  <2>2. CASE UNCHANGED <<busy, holder>> /\ committed' \subseteq committed
    BY <2>2 DEF EffectsAgree
  <2>3. CASE ReconcileFile
    BY <1>1, <2>1, <2>3, ConstantsAssumption
       DEF ReconcileFile, Reset, EffectsAgree, JInv, TypeOK, RowsAgree
  <2>4. CASE ReconcileRebuild
    BY <1>1, <2>1, <2>4 DEF ReconcileRebuild, Reset, EffectsAgree, JInv, TypeOK
  <2> QED
    BY <2>2, <2>3, <2>4
       DEF Reconcile, ReconcileBackup, ReconcileCleanup, ReconcileEvaluation, effects
<1>5. committed' \subseteq committed \union {cur}
  BY DEF Reconcile, ReconcileBackup, ReconcileFile, ReconcileRebuild, ReconcileCleanup,
     ReconcileEvaluation, effects
<1>6. \A j \in committed' : kind'[j] = "KB_REBUILD" => target'[j] \in indexed'
  <2>1. \/ indexed' = indexed /\ committed' \subseteq committed
        \/ ReconcileRebuild
    BY DEF Reconcile, ReconcileBackup, ReconcileFile, ReconcileCleanup,
       ReconcileEvaluation, effects
  <2>2. ReconcileRebuild => /\ indexed \subseteq indexed'
                            /\ cur \in committed' => \/ cur \in committed
                                                    \/ target[cur] \in indexed'
    BY DEF ReconcileRebuild
  <2> QED
    BY <1>1, <1>5, <2>1, <2>2 DEF EffectsAgree
<1> QED
  BY <1>1, <1>2, <1>3, <1>4, <1>5, <1>6 DEF EffectsAgree, Executing

(* Every step keeps it, whatever falls between the two halves of a cancel. *)
LEMMA EffectsStep == JInv /\ EffectsAgree /\ [Next]_vars => EffectsAgree'
<1> SUFFICES ASSUME JInv, EffectsAgree, [Next]_vars PROVE EffectsAgree'
  OBVIOUS
<1>1. ASSUME NEW j \in Jobs, NEW k \in Kinds, NEW r \in Targets(k), Submit(j, k, r)
      PROVE  EffectsAgree'
  BY <1>1, SubmitEffects
<1>2. ASSUME NEW j \in Jobs,
             \/ Cancel(j) \/ ReadForCancel(j) \/ WriteCancel(j)
             \/ DelayElapses(j) \/ LeaseExpires(j) \/ Claim(j)
      PROVE  EffectsAgree'
  BY <1>2, CancelEffects, QuietEffects, ClaimEffects
<1>3. CASE WorkerStep
  BY <1>3, BootEffects, QuietEffects, EnterEffects, DeferEffects, CommitEffects,
     RaiseEffects, FinishEffects, ReconcileEffects DEF WorkerStep
<1>4. CASE ThreadDies \/ Crash \/ Shutdown \/ Restart \/ UNCHANGED vars
  BY <1>4, QuietEffects
<1>5. CASE \E k \in KnowledgeBases : AbortBuilding(k)
  BY <1>5, BootEffects
<1> QED
  BY <1>1, <1>2, <1>3, <1>4, <1>5 DEF Next

(* It holds in every reachable state.                                      *)
LEMMA EffectsInvariance == Spec => [](JInv /\ EffectsAgree)
<1>1. JInv /\ EffectsAgree /\ [Next]_vars => (JInv /\ EffectsAgree)'
  BY JInvStep, EffectsStep
<1> QED
  BY <1>1, JInvInit, EffectsInit, PTL DEF Spec

(* However recovery, stale cancels and errors follow each other, a rebuild *)
(* that has switched, a cleanup that has removed its collection and a      *)
(* backup that has its archive do not come back into the queue: the        *)
(* recovery of a rebuild tells by the pointers and by the owner of a       *)
(* BUILDING knowledge base, which its effect leaves to nobody.             *)
THEOREM EffectsAreNotRepeated == Spec => []NoRepeatAfterEffect
<1>1. JInv /\ EffectsAgree => NoRepeatAfterEffect
  BY DEF EffectsAgree, NoRepeatAfterEffect, JInv, TypeOK
<1> QED
  BY <1>1, EffectsInvariance, PTL
-----------------------------------------------------------------------------
(* From here on nothing falls between the read and the write of a cancel   *)
(* request: the worker then owns the row it works on, until it has written *)
(* the end of the attempt.                                                 *)
WorkerOwnsRow ==
  /\ \A j \in Jobs : cancel[j] = "none"
  /\ pc \in Executing \ {"reconciling"} =>
       status[cur] \in Claimed /\ lease[cur] = "mine"
  /\ pc \in {"recovering", "reconciling"} =>
       status[cur] \in Claimed /\ lease[cur] = "expired"

Owned == /\ NoConflictingJobs /\ ClaimedJobsAreLeased
         /\ AttemptsAreBounded /\ WorkerOwnsRow

(* What a step may not do to a job that is over.                           *)
Final == \A j \in Jobs : status[j] \in Terminal => status'[j] = status[j]

(* No job becomes live, and none changes its kind or target.               *)
LEMMA LessLive ==
  ASSUME NoConflictingJobs, UNCHANGED <<kind, target>>,
         \A j \in Jobs : status'[j] \in NonTerminal => status[j] \in NonTerminal
  PROVE  NoConflictingJobs'
BY DEF NoConflictingJobs, Live, Clash, KbOf

(* Whether two jobs clash does not depend on which was there first.        *)
LEMMA ClashSymmetric ==
  ASSUME NEW k, NEW r, NEW l, NEW s, Clash(k, r, l, s) PROVE Clash(l, s, k, r)
<1>1. {k, l} = {l, k} /\ {r, s} = {s, r}
  OBVIOUS
<1>2. CASE "BACKUP" \in {k, l}
  BY <1>2 DEF Clash
<1>3. CASE "BACKUP" \notin {k, l}
  BY <1>1, <1>3 DEF Clash
<1> QED
  BY <1>2, <1>3

(* Nothing has been submitted yet.                                         *)
LEMMA OwnedInit == Init => Owned
BY DEF Init, Owned, NoConflictingJobs, Live, NonTerminal, Claimed, Executing,
       ClaimedJobsAreLeased, AttemptsAreBounded, WorkerOwnsRow

(* The new row was checked against all others that are live.               *)
LEMMA SubmitOwned ==
  ASSUME JInv, Owned, NEW j \in Jobs, NEW k \in Kinds, NEW r \in Targets(k),
         Submit(j, k, r)
  PROVE  Owned' /\ Final
<1> USE DEF JInv, Owned
<1>1. /\ status[j] = "none" /\ attempt[j] = 0
      /\ status' = [status EXCEPT ![j] = "QUEUED"]
      /\ kind' = [kind EXCEPT ![j] = k] /\ target' = [target EXCEPT ![j] = r]
      /\ UNCHANGED <<attempt, lease, cancel, pc, cur>>
  BY DEF Submit, RowsAgree, worker
<1>2. NoConflictingJobs'
  <2> SUFFICES ASSUME NEW a \in Jobs, NEW b \in Jobs, a # b, Live(a)', Live(b)',
                      Clash(kind[a], target[a], kind[b], target[b])'
               PROVE  FALSE
    BY DEF NoConflictingJobs
  <2>1. \A i \in Jobs : i # j /\ Live(i)' =>
          ~Clash(k, r, kind[i], target[i]) /\ kind'[i] = kind[i] /\ target'[i] = target[i]
    BY <1>1 DEF Submit, Live, TypeOK
  <2>2. kind'[j] = k /\ target'[j] = r
    BY <1>1 DEF TypeOK
  <2>3. Clash(kind'[a], target'[a], kind'[b], target'[b])
    BY DEF Clash, KbOf
  <2>4. CASE a = j
    BY <2>1, <2>2, <2>3, <2>4
  <2>5. CASE b = j
    BY <2>1, <2>2, <2>3, <2>5, ClashSymmetric
  <2>6. CASE a # j /\ b # j
    <3>1. Live(a) /\ Live(b)
      BY <1>1, <2>6 DEF Live, TypeOK
    <3> QED
      BY <2>1, <2>3, <2>6, <3>1 DEF NoConflictingJobs
  <2> QED
    BY <2>4, <2>5, <2>6
<1>3. ClaimedJobsAreLeased' /\ WorkerOwnsRow' /\ Final
  BY <1>1 DEF ClaimedJobsAreLeased, WorkerOwnsRow, Final, TypeOK, Claimed, Terminal,
              Executing, WorkerHasJob
<1>4. AttemptsAreBounded'
  BY <1>1 DEF AttemptsAreBounded, TypeOK, MaxAttempts, Claimed
<1> QED
  BY <1>2, <1>3, <1>4

(* A running job that is asked to stop stays the worker's.                 *)
LEMMA CancelOwned ==
  ASSUME JInv, Owned, ~Overlap, NEW j \in Jobs,
         Cancel(j) \/ ReadForCancel(j) \/ WriteCancel(j)
  PROVE  Owned' /\ Final
<1> USE DEF JInv, Owned
<1>1. /\ status[j] \in Cancellable
      /\ CancelAs(j, status[j]) /\ UNCHANGED cancel
  BY DEF Cancel, ReadForCancel, WriteCancel, WorkerOwnsRow
<1>2. UNCHANGED <<kind, target, attempt, lease, pc, cur>>
  BY <1>1 DEF CancelAs, worker
<1>3. \/ status[j] = "RUNNING" /\ status' = [status EXCEPT ![j] = "CANCEL_REQUESTED"]
      \/ status[j] = "QUEUED" /\ status' = [status EXCEPT ![j] = "CANCELLED"]
      \/ status' = status
  BY <1>1 DEF CancelAs, Cancellable
<1>4. NoConflictingJobs'
  BY <1>2, <1>3, LessLive DEF TypeOK, NonTerminal, Claimed
<1>5. ClaimedJobsAreLeased' /\ Final /\ AttemptsAreBounded'
  BY <1>2, <1>3 DEF ClaimedJobsAreLeased, Final, AttemptsAreBounded, TypeOK, Claimed,
                    Terminal
<1>6. WorkerOwnsRow'
  BY <1>1, <1>2, <1>3 DEF WorkerOwnsRow, WorkerHasJob, TypeOK, Claimed, Executing
<1> QED
  BY <1>4, <1>5, <1>6

(* Only jobs in the queue are claimed, when the worker has none.           *)
LEMMA ClaimOwned ==
  ASSUME JInv, Owned, NEW j \in Jobs, Claim(j) PROVE Owned' /\ Final
<1> USE DEF JInv, Owned
<1>1. status[j] = "QUEUED" /\ pc = "polling" /\ attempt[j] < MaxAttempts(kind[j])
  BY DEF Claim, Due, RowsAgree
<1>2. NoConflictingJobs'
  BY <1>1, LessLive DEF Claim, TypeOK, NonTerminal, Claimed
<1>3. ClaimedJobsAreLeased' /\ Final /\ WorkerOwnsRow'
  BY <1>1 DEF Claim, ClaimedJobsAreLeased, Final, WorkerOwnsRow, TypeOK, Claimed,
              Terminal, Executing
<1>4. AttemptsAreBounded'
  BY <1>1 DEF Claim, AttemptsAreBounded, TypeOK, MaxAttempts
<1> QED
  BY <1>2, <1>3, <1>4

(* Steps that leave status, kind, target and attempt of all rows alone.    *)
LEMMA RowsKept ==
  ASSUME Owned, UNCHANGED <<status, kind, target, attempt>>,
         ClaimedJobsAreLeased', WorkerOwnsRow'
  PROVE  Owned' /\ Final
<1>1. NoConflictingJobs'
  BY LessLive DEF Owned
<1>2. AttemptsAreBounded' /\ Final
  BY DEF Owned, AttemptsAreBounded, Final
<1> QED
  BY <1>1, <1>2 DEF Owned

(* Steps inside a handler: the worker keeps its row.                       *)
LEMMA HandlerOwned ==
  ASSUME JInv, Owned,
         \/ Start \/ Enter \/ LastCheckpoint \/ Activate \/ Commit \/ Return
         \/ FinishRaises
         \/ \E m \in {"CANCELLED", "FAILED", "TRANSIENT"} : Raise(m)
  PROVE  Owned' /\ Final
<1>1. /\ UNCHANGED <<rows, cancel, cur>>
      /\ pc \in Executing \ {"reconciling"} /\ pc' \in Executing \ {"reconciling"}
  BY DEF Start, Enter, LastCheckpoint, Activate, Commit, Return, FinishRaises, Raise, Go,
         Over, Executing
<1>2. ClaimedJobsAreLeased' /\ WorkerOwnsRow'
  BY <1>1 DEF Owned, ClaimedJobsAreLeased, WorkerOwnsRow, rows, Executing
<1> QED
  BY <1>1, <1>2, RowsKept DEF rows

(* The start of the worker, abort-building, and the passing of time.       *)
LEMMA TimeOwned ==
  ASSUME JInv, Owned,
         \/ Boot \/ Restart \/ \E j \in Jobs : DelayElapses(j) \/ LeaseExpires(j)
         \/ \E k \in KnowledgeBases : AbortBuilding(k)
  PROVE  Owned' /\ Final
<1>1. CASE \/ Boot \/ Restart \/ \E j \in Jobs : DelayElapses(j)
           \/ \E k \in KnowledgeBases : AbortBuilding(k)
  <2>1. /\ UNCHANGED <<status, kind, target, attempt, lease, cancel, cur>>
        /\ pc' = pc \/ (pc \notin Executing /\ pc' \in {"polling", "booting"})
    BY <1>1 DEF Boot, Restart, DelayElapses, AbortBuilding, Go, rows, worker, Executing
  <2>2. ClaimedJobsAreLeased' /\ WorkerOwnsRow'
    BY <2>1 DEF Owned, ClaimedJobsAreLeased, WorkerOwnsRow, Executing
  <2> QED
    BY <2>1, <2>2, RowsKept
<1>2. ASSUME NEW j \in Jobs, LeaseExpires(j) PROVE Owned' /\ Final
  <2>1. /\ UNCHANGED <<status, kind, target, attempt, cancel, cur, pc>>
        /\ lease[j] = "lapsing" /\ lease' = [lease EXCEPT ![j] = "expired"]
    BY <1>2 DEF LeaseExpires, worker
  <2>2. ClaimedJobsAreLeased' /\ WorkerOwnsRow'
    BY <2>1 DEF Owned, ClaimedJobsAreLeased, WorkerOwnsRow, JInv, TypeOK
  <2> QED
    BY <2>1, <2>2, RowsKept
<1> QED
  BY <1>1, <1>2

(* A row is taken up for recovery with an expired lease.                   *)
LEMMA RecoveryOwned ==
  ASSUME JInv, Owned, EndLease \/ \E j \in Jobs : ReadExpired(j)
  PROVE  Owned' /\ Final
<1>1. CASE EndLease
  <2>1. /\ UNCHANGED <<status, kind, target, attempt, cancel, cur>>
        /\ pc = "transient" /\ cur \in Jobs
    BY <1>1 DEF EndLease, Over, JInv, WorkerHasJob, Executing
  <2>2. \/ lease' = lease /\ pc' = "finishing"
        \/ lease' = [lease EXCEPT ![cur] = "expired"] /\ pc' = "reconciling"
    BY <1>1 DEF EndLease, Over
  <2>3. ClaimedJobsAreLeased' /\ WorkerOwnsRow'
    BY <2>1, <2>2 DEF Owned, ClaimedJobsAreLeased, WorkerOwnsRow, JInv, TypeOK, Executing
  <2> QED
    BY <2>1, <2>3, RowsKept
<1>2. ASSUME NEW j \in Jobs, ReadExpired(j) PROVE Owned' /\ Final
  <2>1. /\ UNCHANGED <<status, kind, target, attempt, lease, cancel>>
        /\ pc = "polling" /\ pc' = "recovering" /\ cur' = j
        /\ status[j] \in Claimed /\ lease[j] = "expired"
    BY <1>2 DEF ReadExpired, Expired, rows
  <2>2. ClaimedJobsAreLeased' /\ WorkerOwnsRow'
    BY <2>1 DEF Owned, ClaimedJobsAreLeased, WorkerOwnsRow, Executing
  <2> QED
    BY <2>1, <2>2, RowsKept
<1> QED
  BY <1>1, <1>2

(* The lease of the row, if the worker had one, is left to lapse.          *)
LEMMA FaultOwned ==
  ASSUME JInv, Owned, ThreadDies \/ Crash \/ Shutdown
  PROVE  Owned' /\ Final
<1>1. /\ UNCHANGED <<status, kind, target, attempt>>
      /\ lease' = Orphaned /\ pc' \in {"dead", "down"}
      /\ \A j \in Jobs : cancel'[j] = "none"
  BY DEF ThreadDies, Crash, Shutdown, Stop, Owned, WorkerOwnsRow
<1>2. ClaimedJobsAreLeased' /\ WorkerOwnsRow'
  BY <1>1 DEF Owned, ClaimedJobsAreLeased, WorkerOwnsRow, Orphaned, Executing
<1> QED
  BY <1>1, <1>2, RowsKept

(* The worker gives its row up: the job is over or back in the queue.      *)
LEMMA Released ==
  ASSUME JInv, Owned, cur \in Jobs, status[cur] \in Claimed,
         NEW s \in {"QUEUED"} \union Terminal,
         status' = [status EXCEPT ![cur] = s],
         lease' = [lease EXCEPT ![cur] = "none"],
         attempt'[cur] <= MaxAttempts(kind[cur]),
         attempt' = [attempt EXCEPT ![cur] = attempt'[cur]],
         UNCHANGED <<kind, target, cancel>>, pc' = "polling"
  PROVE  Owned' /\ Final
<1> USE DEF JInv, Owned
<1>1. NoConflictingJobs'
  BY LessLive DEF TypeOK, NonTerminal, Claimed, Terminal
<1>2. \A j \in Jobs : lease[j] = "mine" => j = cur
  BY DEF ClaimedJobsAreLeased
<1>3. ClaimedJobsAreLeased' /\ WorkerOwnsRow'
  BY <1>2 DEF ClaimedJobsAreLeased, WorkerOwnsRow, TypeOK, Claimed, Terminal, Executing
<1>4. AttemptsAreBounded'
  BY DEF AttemptsAreBounded, TypeOK, Claimed, Terminal
<1>5. Final
  BY DEF Final, TypeOK, Claimed, Terminal
<1> QED
  BY <1>1, <1>3, <1>4, <1>5

(* The end of an attempt, a deferral and a recovery give the row up.       *)
LEMMA ReleaseOwned ==
  ASSUME JInv, Owned, Finish \/ Defer \/ Reconcile PROVE Owned' /\ Final
<1>1. cur \in Jobs /\ status[cur] \in Claimed
  BY DEF Finish, Defer, Reconcile, JInv, Owned, WorkerHasJob, WorkerOwnsRow, Executing
<1>2. attempt[cur] \in 0 .. 2 /\ attempt[cur] <= MaxAttempts(kind[cur])
  BY <1>1 DEF JInv, TypeOK, Owned, AttemptsAreBounded, Claimed
<1>3. CASE Finish
  <2>1. status[cur] \in Claimed /\ lease[cur] = "mine" /\ mark \in Terminal
    BY <1>1, <1>3 DEF Finish, JInv, Owned, WorkerHasJob, WorkerOwnsRow, Executing
  <2>2. /\ SetStatus(cur, mark) /\ UNCHANGED <<kind, target, cancel, attempt>>
        /\ pc' = "polling"
    BY <1>3, <2>1 DEF Finish
  <2> QED
    BY <1>1, <1>2, <2>1, <2>2, Released DEF SetStatus, JInv, TypeOK
<1>4. CASE Defer
  <2>1. /\ SetStatus(cur, "QUEUED") /\ UNCHANGED <<kind, target, cancel>>
        /\ attempt' = [attempt EXCEPT ![cur] = IF @ > 0 THEN @ - 1 ELSE 0]
        /\ pc' = "polling"
    BY <1>4 DEF Defer
  <2>2. attempt'[cur] = IF attempt[cur] > 0 THEN attempt[cur] - 1 ELSE 0
    BY <1>1, <2>1 DEF JInv, TypeOK
  <2>3. attempt'[cur] <= MaxAttempts(kind[cur])
    BY <1>2, <2>2 DEF MaxAttempts
  <2>4. attempt' = [attempt EXCEPT ![cur] = attempt'[cur]]
    BY <2>1, <2>2
  <2> QED
    BY <1>1, <2>1, <2>3, <2>4, Released DEF SetStatus
<1>5. CASE Reconcile
  <2>1. Rewritten /\ UNCHANGED <<kind, target, cancel>> /\ pc' = "polling"
    BY <1>5, ReconcileSettles DEF Reconcile
  <2>2. CASE status'[cur] \in Terminal
    <3>1. \/ status' = [status EXCEPT ![cur] = status'[cur]] /\ attempt' = attempt
          \/ status' = [status EXCEPT ![cur] = "QUEUED"]
      BY <2>1 DEF Rewritten
    <3>2. status' # [status EXCEPT ![cur] = "QUEUED"]
      BY <1>1, <2>2 DEF JInv, TypeOK, Terminal
    <3>3. attempt' = [attempt EXCEPT ![cur] = attempt'[cur]]
          /\ attempt'[cur] <= MaxAttempts(kind[cur])
      BY <1>1, <1>2, <3>1, <3>2 DEF JInv, TypeOK
    <3> QED
      BY <1>1, <2>1, <2>2, <3>1, <3>2, <3>3, Released DEF Rewritten
  <2>3. CASE status'[cur] \notin Terminal
    <3>1. /\ status' = [status EXCEPT ![cur] = "QUEUED"]
          /\ lease' = [lease EXCEPT ![cur] = "none"]
          /\ attempt' = [attempt EXCEPT ![cur] = attempt'[cur]]
          /\ attempt'[cur] \in 0 .. 2 /\ attempt'[cur] < MaxAttempts(kind[cur])
      BY <2>1, <2>3 DEF Rewritten
    <3>2. attempt'[cur] <= MaxAttempts(kind[cur])
      BY <3>1 DEF MaxAttempts
    <3> QED
      BY <1>1, <2>1, <3>1, <3>2, Released
  <2> QED
    BY <2>2, <2>3
<1> QED
  BY <1>3, <1>4, <1>5

(* Every step keeps the row with the worker, and ended jobs ended.         *)
LEMMA OwnedStep ==
  ASSUME JInv, Owned, ~Overlap, [Next]_vars PROVE Owned' /\ Final
<1>1. ASSUME NEW j \in Jobs, NEW k \in Kinds, NEW r \in Targets(k), Submit(j, k, r)
      PROVE  Owned' /\ Final
  BY <1>1, SubmitOwned
<1>2. ASSUME NEW j \in Jobs,
             \/ Cancel(j) \/ ReadForCancel(j) \/ WriteCancel(j)
             \/ DelayElapses(j) \/ LeaseExpires(j) \/ Claim(j)
      PROVE  Owned' /\ Final
  BY <1>2, CancelOwned, TimeOwned, ClaimOwned
<1>3. CASE WorkerStep
  BY <1>3, TimeOwned, HandlerOwned, RecoveryOwned, ReleaseOwned DEF WorkerStep
<1>4. CASE ThreadDies \/ Crash \/ Shutdown \/ Restart
  BY <1>4, FaultOwned, TimeOwned
<1>5. CASE UNCHANGED vars
  BY <1>5, RowsKept DEF vars, Owned, ClaimedJobsAreLeased, WorkerOwnsRow
<1>6. CASE \E k \in KnowledgeBases : AbortBuilding(k)
  BY <1>6, TimeOwned
<1> QED
  BY <1>1, <1>2, <1>3, <1>4, <1>5, <1>6 DEF Next

(* The worker owns its row in every reachable state.                       *)
LEMMA OwnedInvariance == ASSUME ~Overlap PROVE Spec => [](JInv /\ Owned)
<1>1. JInv /\ Owned /\ [Next]_vars => (JInv /\ Owned)'
  BY JInvStep, OwnedStep
<1> QED
  BY <1>1, JInvInit, OwnedInit, PTL DEF Spec

(* No two jobs that must not be are ever under way together, although      *)
(* recovery and deferral put jobs back that were checked long before       *)
(* (JobService._validate_conflicts).                                       *)
THEOREM ConflictsAreExcluded == ASSUME ~Overlap PROVE Spec => []NoConflictingJobs
<1>1. Owned => NoConflictingJobs
  BY DEF Owned
<1> QED
  BY <1>1, OwnedInvariance, PTL

(* A recovery can find every claimed job, and only the worker's job has a  *)
(* lease that is kept alive (heartbeat, expired, finish).                  *)
THEOREM LeasesAreSound == ASSUME ~Overlap PROVE Spec => []ClaimedJobsAreLeased
<1>1. Owned => ClaimedJobsAreLeased
  BY DEF Owned
<1> QED
  BY <1>1, OwnedInvariance, PTL

(* A claimed job has used an attempt, and none more than it has.           *)
THEOREM AttemptsStayBounded == ASSUME ~Overlap PROVE Spec => []AttemptsAreBounded
<1>1. Owned => AttemptsAreBounded
  BY DEF Owned
<1> QED
  BY <1>1, OwnedInvariance, PTL

(* No step of the worker, a request or a recovery takes a job back from    *)
(* SUCCEEDED, FAILED or CANCELLED.                                         *)
THEOREM EndsAreFinal == ASSUME ~Overlap PROVE Spec => TerminalIsFinal
<1>1. JInv /\ Owned /\ [Next]_vars =>
        [\A j \in Jobs : status[j] \in Terminal => status'[j] = status[j]]_vars
  BY OwnedStep DEF Final
<1> QED
  BY <1>1, OwnedInvariance, PTL DEF Spec, TerminalIsFinal

(* A cancel ends a job that has not started, or one whose handler raised   *)
(* at a checkpoint, which it no longer does once the effect is there.      *)
CancelsAgree ==
  /\ CancelledHasNoEffect
  /\ pc = "finishing" /\ mark = "CANCELLED" => cur \notin committed

(* A step may only cancel a job without effect, and give an effect only to *)
(* a job that is not cancelled.                                            *)
LEMMA CancelsKept ==
  ASSUME CancelsAgree, gaveUp \subseteq gaveUp',
         \A j \in Jobs : status'[j] = "CANCELLED" /\ j \in committed' =>
           (status[j] = "CANCELLED" /\ j \in committed) \/ j \in gaveUp',
         pc' = "finishing" /\ mark' = "CANCELLED" => cur' \notin committed'
  PROVE  CancelsAgree'
BY DEF CancelsAgree, CancelledHasNoEffect

(* Nothing has been cancelled yet.                                         *)
LEMMA CancelsInit == Init => CancelsAgree
BY DEF Init, CancelsAgree, CancelledHasNoEffect

(* A new row is not cancelled, and one that is cancelled in the queue has  *)
(* had no effect.                                                          *)
LEMMA RequestCancels ==
  ASSUME JInv, Owned, EffectsAgree, CancelsAgree, ~Overlap, NEW j \in Jobs,
         \/ \E k \in Kinds : \E r \in Targets(k) : Submit(j, k, r)
         \/ Cancel(j) \/ ReadForCancel(j) \/ WriteCancel(j)
  PROVE  CancelsAgree'
<1>1. UNCHANGED <<gaveUp, committed, pc, cur, mark>>
  BY DEF Submit, Cancel, ReadForCancel, WriteCancel, CancelAs, rows, effects, worker
<1>2. \/ status' = [status EXCEPT ![j] = "QUEUED"]
      \/ status' = [status EXCEPT ![j] = "CANCEL_REQUESTED"]
      \/ status[j] = "QUEUED" /\ status' = [status EXCEPT ![j] = "CANCELLED"]
      \/ status' = status
  BY DEF Submit, Cancel, ReadForCancel, WriteCancel, CancelAs, rows, Owned, WorkerOwnsRow
<1>3. \A i \in Jobs : status'[i] = "CANCELLED" =>
                        status[i] = "CANCELLED" \/ i \notin committed
  BY <1>2 DEF EffectsAgree, JInv, TypeOK
<1> QED
  BY <1>1, <1>3, CancelsKept DEF CancelsAgree

(* Steps that end no job and give none an effect.                          *)
LEMMA QuietCancels ==
  ASSUME JInv, Owned, EffectsAgree, CancelsAgree,
         \/ Boot \/ Start \/ Enter \/ Defer \/ LastCheckpoint \/ Activate \/ Return
         \/ \E k \in KnowledgeBases : AbortBuilding(k)
         \/ FinishRaises \/ EndLease \/ ThreadDies \/ Crash \/ Shutdown \/ Restart
         \/ UNCHANGED vars
         \/ \E m \in {"CANCELLED", "FAILED", "TRANSIENT"} : Raise(m)
         \/ \E j \in Jobs : \/ DelayElapses(j) \/ LeaseExpires(j) \/ Claim(j)
                            \/ ReadExpired(j)
  PROVE  CancelsAgree'
<1>1. UNCHANGED gaveUp /\ committed' \subseteq committed
  BY DEF Boot, Start, Enter, Defer, LastCheckpoint, Activate, AbortBuilding, Return,
     FinishRaises, EndLease, ThreadDies, Crash, Shutdown, Stop, Restart, vars, Raise,
     DelayElapses, LeaseExpires, Claim, ReadExpired, rows, effects
<1>2. \/ status' = status
      \/ \E j \in Jobs, s \in {"QUEUED", "RUNNING"} : status' = [status EXCEPT ![j] = s]
  BY DEF Boot, Start, Enter, Defer, SetStatus, LastCheckpoint, Activate, AbortBuilding,
     Return, FinishRaises, EndLease, ThreadDies, Crash, Shutdown, Stop, Restart, vars, Raise, DelayElapses,
     LeaseExpires, Claim, ReadExpired, rows, JInv, WorkerHasJob, Executing
<1>3. \A i \in Jobs : status'[i] = "CANCELLED" => status[i] = "CANCELLED"
  BY <1>2 DEF JInv, TypeOK
<1>4. pc' = "finishing" /\ mark' = "CANCELLED" => cur' \notin committed
  <2>1. CASE \E m \in {"CANCELLED", "FAILED", "TRANSIENT"} : Raise(m)
    BY <2>1 DEF Raise, Over, EffectsAgree
  <2>2. CASE UNCHANGED <<pc, cur, mark>>
    BY <2>2 DEF CancelsAgree
  <2>3. CASE FinishRaises \/ EndLease
    BY <2>3 DEF FinishRaises, EndLease, Over
  <2> QED
    BY <2>1, <2>2, <2>3
       DEF Boot, Start, Enter, Defer, LastCheckpoint, Activate, AbortBuilding, Return,
           ThreadDies, Crash, Shutdown, Stop, Restart, vars, DelayElapses, LeaseExpires,
           Claim, ReadExpired, Go, Over, worker
<1> QED
  BY <1>1, <1>3, <1>4, CancelsKept

(* A job that takes effect is claimed, and one that is ended as CANCELLED  *)
(* has had no effect; a recovery that ends one so also gives it up.        *)
LEMMA EndCancels ==
  ASSUME JInv, Owned, EffectsAgree, CancelsAgree, Commit \/ Finish \/ Reconcile
  PROVE  CancelsAgree'
<1>1. cur \in Jobs /\ status[cur] \in Claimed
  BY DEF Commit, Finish, Reconcile, JInv, Owned, WorkerHasJob, WorkerOwnsRow, Executing
<1>2. CASE Commit
  <2>1. /\ UNCHANGED <<status, gaveUp>> /\ pc' = "committed"
        /\ committed' = committed \union {cur}
    BY <1>2 DEF Commit, Go, rows
  <2> QED
    BY <1>1, <2>1, CancelsKept DEF Claimed
<1>3. CASE Finish
  <2>1. /\ UNCHANGED <<gaveUp, committed>> /\ pc' = "polling"
        /\ pc = "finishing" /\ status' = [status EXCEPT ![cur] = mark]
    BY <1>1, <1>3
       DEF Finish, SetStatus, JInv, Owned, WorkerHasJob, WorkerOwnsRow, Executing
  <2>2. \A i \in Jobs : status'[i] = "CANCELLED" =>
                          status[i] = "CANCELLED" \/ i \notin committed
    BY <1>1, <2>1 DEF CancelsAgree, JInv, TypeOK
  <2> QED
    BY <2>1, <2>2, CancelsKept
<1>4. CASE Reconcile
  <2>1. /\ Rewritten /\ pc' = "polling"
        /\ committed' \subseteq committed \union {cur}
    BY <1>4, ReconcileSettles
       DEF Reconcile, ReconcileBackup, ReconcileFile, ReconcileRebuild, ReconcileCleanup,
           ReconcileEvaluation, effects
  <2>2. gaveUp \subseteq gaveUp'
        /\ \A i \in Jobs : i # cur => status'[i] = status[i]
    BY <1>1, <2>1 DEF Rewritten, JInv, TypeOK
  <2>3. status'[cur] = "CANCELLED" => cur \in gaveUp'
    <3>1. \A s : GiveUp(s) => cur \in gaveUp'
      BY DEF GiveUp
    <3>2. Succeed => status'[cur] = "SUCCEEDED"
      BY <1>1 DEF Succeed, Ends, SetStatus, JInv, TypeOK
    <3>3. \A n \in {0, 1} : Requeue(n) => cur \in gaveUp' \/ status'[cur] = "QUEUED"
      BY <1>1, <3>1 DEF Requeue, SetStatus, JInv, TypeOK
    <3> QED
      BY <1>4, <3>1, <3>2, <3>3
         DEF Reconcile, ReconcileBackup, ReconcileFile, ReconcileRebuild,
             ReconcileCleanup, ReconcileEvaluation
  <2> QED
    BY <2>1, <2>2, <2>3, CancelsKept
<1> QED
  BY <1>2, <1>3, <1>4

(* Every step keeps it.                                                    *)
LEMMA CancelsStep ==
  ASSUME JInv, Owned, EffectsAgree, CancelsAgree, ~Overlap, [Next]_vars
  PROVE  CancelsAgree'
<1>1. ASSUME NEW j \in Jobs, NEW k \in Kinds, NEW r \in Targets(k), Submit(j, k, r)
      PROVE  CancelsAgree'
  BY <1>1, RequestCancels
<1>2. ASSUME NEW j \in Jobs,
             \/ Cancel(j) \/ ReadForCancel(j) \/ WriteCancel(j)
             \/ DelayElapses(j) \/ LeaseExpires(j) \/ Claim(j)
      PROVE  CancelsAgree'
  BY <1>2, RequestCancels, QuietCancels
<1>3. CASE WorkerStep
  BY <1>3, QuietCancels, EndCancels DEF WorkerStep
<1>4. CASE \/ ThreadDies \/ Crash \/ Shutdown \/ Restart \/ UNCHANGED vars
           \/ \E k \in KnowledgeBases : AbortBuilding(k)
  BY <1>4, QuietCancels
<1> QED
  BY <1>1, <1>2, <1>3, <1>4 DEF Next

(* Who answers a cancel never hides an effect: apart from the jobs that    *)
(* the recovery closed, CANCELLED means that nothing was written           *)
(* (JobWorker._finish, checkpoint).                                        *)
THEOREM CancelsComeFirst == ASSUME ~Overlap PROVE Spec => []CancelledHasNoEffect
<1>1. JInv /\ Owned /\ EffectsAgree /\ CancelsAgree /\ [Next]_vars => CancelsAgree'
  BY CancelsStep
<1>2. CancelsAgree => CancelledHasNoEffect
  BY DEF CancelsAgree
<1> QED
  BY <1>1, <1>2, CancelsInit, OwnedInvariance, EffectsInvariance, PTL DEF Spec
-----------------------------------------------------------------------------
(* A claimed job of the right kind and target holds what is busy, unless   *)
(* the recovery gave a job on it up, or it is a knowledge base for whose   *)
(* first file some job has not succeeded: one that has, has left it an     *)
(* active collection, and what it worked on not busy.                      *)
Held(r) == /\ holder[r] \in Jobs
           /\ status[holder[r]] \in Claimed
           /\ target[holder[r]] = r
           /\ kind[holder[r]] \in {"FILE_PROCESS", "KB_REBUILD"}

Unfinished(r) == FirstBuild(r) /\ status[builder[r]] # "SUCCEEDED"

Done == pc = "committed" \/ (pc = "finishing" /\ mark = "SUCCEEDED")

Worked == Done /\ kind[cur] \in {"FILE_PROCESS", "KB_REBUILD"} =>
            /\ target[cur] \notin busy
            /\ kind[cur] = "FILE_PROCESS" => home[target[cur]] \in indexed

BusyIsHeld ==
  /\ \A j \in gaveUp : status[j] # "none"
  /\ \A r \in busy : Held(r) \/ (\E j \in gaveUp : target[j] = r) \/ Unfinished(r)
  /\ Worked

(* Nothing becomes busy, and the holders of what stays busy keep it and    *)
(* stay claimed, or are given up.                                          *)
LEMMA HeldKept ==
  ASSUME BusyIsHeld, UNCHANGED <<kind, target>>, busy' \subseteq busy,
         gaveUp \subseteq gaveUp', \A j \in gaveUp' : status'[j] # "none",
         \A r \in busy' : Held(r) =>
           \/ holder'[r] = holder[r] /\ status'[holder[r]] \in Claimed
           \/ holder[r] \in gaveUp',
         \A r \in busy' : Unfinished(r) =>
           /\ builder'[r] = builder[r] /\ r \notin indexed'
           /\ status'[builder[r]] # "SUCCEEDED",
         Worked'
  PROVE  BusyIsHeld'
<1>1. ASSUME NEW r \in busy'
      PROVE  Held(r)' \/ (\E j \in gaveUp' : target'[j] = r) \/ Unfinished(r)'
  <2>1. CASE Held(r)
    BY <1>1, <2>1 DEF Held
  <2>2. CASE \E j \in gaveUp : target[j] = r
    BY <2>2
  <2>3. CASE Unfinished(r)
    BY <1>1, <2>3 DEF Unfinished, FirstBuild
  <2> QED
    BY <1>1, <2>1, <2>2, <2>3 DEF BusyIsHeld
<1> QED
  BY <1>1 DEF BusyIsHeld

(* Nothing is busy yet.                                                    *)
LEMMA HeldInit == Init => BusyIsHeld
BY DEF Init, BusyIsHeld, Worked, Done

(* A new job on a busy target would clash with the one that holds it.      *)
LEMMA SubmitHeld ==
  ASSUME JInv, BusyIsHeld, NEW j \in Jobs, NEW k \in Kinds, NEW r \in Targets(k),
         Submit(j, k, r)
  PROVE  BusyIsHeld'
<1>1. /\ status[j] = "none"
      /\ status' = [status EXCEPT ![j] = "QUEUED"]
      /\ kind' = [kind EXCEPT ![j] = k] /\ target' = [target EXCEPT ![j] = r]
      /\ UNCHANGED <<gaveUp, busy, builder, indexed, pc, cur, mark>>
      /\ \/ holder' = holder
         \/ k \in {"FILE_PROCESS", "KB_REBUILD"} /\ holder' = [holder EXCEPT ![r] = j]
  BY DEF Submit, worker
<1>2. j \notin gaveUp
  BY <1>1 DEF BusyIsHeld
<1>3. \A i \in Jobs : i # j => /\ status'[i] = status[i] /\ kind'[i] = kind[i]
                               /\ target'[i] = target[i]
  BY <1>1 DEF JInv, TypeOK
<1>4. ASSUME NEW s \in busy
      PROVE  Held(s)' \/ (\E i \in gaveUp : target'[i] = s) \/ Unfinished(s)'
  <2>1. CASE Held(s)
    <3>1. holder[s] # j /\ holder[s] \in Jobs
      BY <1>1, <2>1 DEF Held, Claimed
    <3>2. holder'[s] = holder[s]
      <4>1. SUFFICES ASSUME holder'[s] # holder[s] PROVE FALSE
        OBVIOUS
      <4>2. s = r /\ k \in {"FILE_PROCESS", "KB_REBUILD"}
        BY <1>1, <1>4, <4>1 DEF JInv, TypeOK
      <4>3. Live(holder[s])
        BY <2>1 DEF Held, Live, NonTerminal
      <4>4. Clash(k, r, kind[holder[s]], target[holder[s]])
        BY <2>1, <4>2 DEF Clash, Held, Maintenance
      <4> QED
        BY <3>1, <4>3, <4>4 DEF Submit
    <3> QED
      BY <1>3, <2>1, <3>1, <3>2 DEF Held
  <2>2. CASE \E i \in gaveUp : target[i] = s
    BY <1>2, <1>3, <2>2 DEF JInv, TypeOK
  <2>3. CASE Unfinished(s)
    <3>1. builder[s] \in Jobs /\ builder[s] # j
      BY <1>1, <2>3 DEF Unfinished, FirstBuild, JInv, RowsAgree
    <3> QED
      BY <1>1, <1>3, <2>3, <3>1 DEF Unfinished, FirstBuild
  <2> QED
    BY <1>4, <2>1, <2>2, <2>3 DEF BusyIsHeld
<1>5. pc \in Executing => cur \in Jobs /\ cur # j
  BY <1>1 DEF JInv, WorkerHasJob
<1> QED
  BY <1>1, <1>2, <1>3, <1>4, <1>5 DEF BusyIsHeld, Worked, Done, Executing, JInv, TypeOK

(* Requests for a cancel take nothing from a claimed job.                  *)
LEMMA CancelHeld ==
  ASSUME JInv, Owned, BusyIsHeld, ~Overlap, NEW j \in Jobs,
         Cancel(j) \/ ReadForCancel(j) \/ WriteCancel(j)
  PROVE  BusyIsHeld'
<1>1. /\ UNCHANGED <<kind, target, gaveUp, busy, builder, indexed, pc, cur, mark>>
      /\ \/ status[j] = "RUNNING" /\ holder' = holder
            /\ status' = [status EXCEPT ![j] = "CANCEL_REQUESTED"]
         \/ status[j] = "QUEUED" /\ holder' = Disown(j)
            /\ status' = [status EXCEPT ![j] = "CANCELLED"]
         \/ status[j] = "CANCELLED" /\ holder' = Disown(j) /\ status' = status
  BY DEF Cancel, ReadForCancel, WriteCancel, CancelAs, Cancellable, worker, Owned,
         WorkerOwnsRow
<1>2. \A i \in gaveUp : status'[i] # "none"
  BY <1>1 DEF BusyIsHeld, JInv, TypeOK
<1>3. ASSUME NEW r \in busy, Held(r)
      PROVE  holder'[r] = holder[r] /\ status'[holder[r]] \in Claimed
  BY <1>1, <1>3 DEF Held, Disown, Claimed, JInv, TypeOK
<1>4. \A r \in busy : Unfinished(r) => status'[builder[r]] # "SUCCEEDED"
  BY <1>1 DEF Unfinished, FirstBuild, JInv, TypeOK
<1> QED
  BY <1>1, <1>2, <1>3, <1>4, HeldKept DEF BusyIsHeld, Worked, Done, Unfinished, FirstBuild

(* Steps that write no business row; a deferred job holds nothing.         *)
LEMMA QuietHeld ==
  ASSUME JInv, Owned, BusyIsHeld,
         \/ Start \/ Defer \/ LastCheckpoint \/ Return
         \/ FinishRaises \/ EndLease \/ ThreadDies \/ Crash \/ Shutdown \/ Restart
         \/ UNCHANGED vars
         \/ \E j \in Jobs : \/ DelayElapses(j) \/ LeaseExpires(j) \/ Claim(j)
                            \/ ReadExpired(j)
  PROVE  BusyIsHeld'
<1>1. UNCHANGED <<kind, target, gaveUp, busy, holder, builder, indexed>>
  BY DEF Start, Defer, LastCheckpoint, Return, FinishRaises, EndLease, ThreadDies, Crash,
     Shutdown, Stop, Restart, vars, DelayElapses, LeaseExpires, Claim, ReadExpired, rows,
     effects
<1>2. Done' => Done /\ cur' = cur
  BY DEF Start, Defer, LastCheckpoint, Return, FinishRaises, EndLease, ThreadDies, Crash,
     Shutdown, Stop, Restart, vars, DelayElapses, LeaseExpires, Claim, ReadExpired, Go,
     Over, worker, Done
<1>3. /\ \A j \in gaveUp : status'[j] # "none"
      /\ \A r \in busy : Held(r) => status'[holder[r]] \in Claimed
      /\ \A r \in busy : Unfinished(r) => status'[builder[r]] # "SUCCEEDED"
  <2>1. CASE status' = status
    BY <2>1 DEF BusyIsHeld, Held, Unfinished
  <2>2. CASE Defer
    <3>1. /\ kind[cur] = "KB_CLEANUP_RETIRED" /\ cur \in Jobs
          /\ status' = [status EXCEPT ![cur] = "QUEUED"]
      BY <2>2 DEF Defer, SetStatus, JInv, WorkerHasJob, Executing
    <3> QED
      BY <3>1 DEF BusyIsHeld, Held, Unfinished, FirstBuild, JInv, TypeOK
  <2>3. ASSUME NEW j \in Jobs, Claim(j)
        PROVE  /\ \A i \in gaveUp : status'[i] # "none"
               /\ \A r \in busy : Held(r) => status'[holder[r]] \in Claimed
               /\ \A r \in busy : Unfinished(r) => status'[builder[r]] # "SUCCEEDED"
    <3>1. status' = [status EXCEPT ![j] = "RUNNING"]
      BY <2>3 DEF Claim
    <3> QED
      BY <3>1 DEF BusyIsHeld, Held, Unfinished, FirstBuild, Claimed, JInv, TypeOK
  <2> QED
    BY <2>1, <2>2, <2>3
       DEF Start, LastCheckpoint, Return, FinishRaises, EndLease, ThreadDies, Crash,
           Shutdown, Stop, Restart, vars, DelayElapses, LeaseExpires, ReadExpired, rows
<1> QED
  BY <1>1, <1>2, <1>3, HeldKept DEF BusyIsHeld, Worked, Unfinished, FirstBuild

(* The start of the worker, abort-building, a handler that undoes its      *)
(* claim and the effect of a job only free what they write.                *)
LEMMA FreeingHeld ==
  ASSUME JInv, Owned, BusyIsHeld,
         \/ Boot \/ Commit \/ \E k \in KnowledgeBases : AbortBuilding(k)
         \/ \E m \in {"CANCELLED", "FAILED", "TRANSIENT"} : Raise(m)
  PROVE  BusyIsHeld'
<1>1. UNCHANGED <<status, kind, target, gaveUp>> /\ busy' \subseteq busy
  BY DEF Boot, Commit, AbortBuilding, Raise, rows
<1>2. ASSUME NEW r \in busy', Held(r) PROVE holder'[r] = holder[r]
  <2>1. r \in Resources
    BY <1>1 DEF JInv, TypeOK
  <2>2. CASE Boot
    BY <1>2, <2>1, <2>2 DEF Boot
  <2>3. CASE Commit
    BY <1>2, <2>1, <2>3 DEF Commit
  <2>5. CASE \E k \in KnowledgeBases : AbortBuilding(k)
    BY <2>5 DEF AbortBuilding
  <2>4. ASSUME NEW m \in {"CANCELLED", "FAILED", "TRANSIENT"}, Raise(m)
        PROVE  holder'[r] = holder[r]
    <3>1. \/ holder' = holder
          \/ target[cur] \notin busy' /\ holder' = Disown(cur)
      BY <2>4 DEF Raise
    <3>2. holder[r] = cur => target[cur] = r
      BY <1>2 DEF Held
    <3> QED
      BY <1>2, <2>1, <3>1, <3>2 DEF Disown
  <2> QED
    BY <2>2, <2>3, <2>4, <2>5
<1>3. Worked'
  <2>1. CASE Boot
    BY <2>1 DEF Boot, Worked, Done
  <2>4. CASE \E k \in KnowledgeBases : AbortBuilding(k)
    BY <1>1, <2>4 DEF AbortBuilding, worker, BusyIsHeld, Worked, Done
  <2>2. ASSUME NEW m \in {"CANCELLED", "FAILED", "TRANSIENT"}, Raise(m)
        PROVE  ~Done'
    BY <2>2 DEF Raise, Over, Done
  <2>3. CASE Commit
    <3>1. cur' = cur /\ cur \in Jobs
      BY <2>3 DEF Commit, Go, JInv, WorkerHasJob, Executing
    <3>2. kind[cur] = "KB_REBUILD" =>
            target[cur] \in Resources /\ KbOf(target[cur]) = target[cur]
      BY <3>1, ConstantsAssumption DEF JInv, RowsAgree, Resources, KbOf
    <3>3. kind[cur] = "FILE_PROCESS" => home[target[cur]] \in indexed'
      <4>1. kind[cur] = "FILE_PROCESS" => home[target[cur]] \in KnowledgeBases
        BY <3>1, ConstantsAssumption DEF JInv, RowsAgree
      <4> QED
        BY <2>3, <4>1 DEF Commit, MayCommit, Settles
    <3>4. kind[cur] \in {"FILE_PROCESS", "KB_REBUILD"} => target[cur] \in Settles
      BY <3>2 DEF Settles
    <3> QED
      BY <1>1, <2>3, <3>1, <3>3, <3>4 DEF Commit, Worked
  <2> QED
    BY <2>1, <2>2, <2>3, <2>4 DEF Worked
<1>4. ASSUME NEW r \in busy', Unfinished(r)
      PROVE  builder'[r] = builder[r] /\ r \notin indexed'
  <2>1. r \in KnowledgeBases /\ r \notin indexed
    BY <1>4 DEF Unfinished, FirstBuild
  <2>2. CASE Commit
    BY <1>4, <2>1, <2>2 DEF Commit
  <2>3. CASE \E k \in KnowledgeBases : AbortBuilding(k)
    BY <1>4, <2>1, <2>3 DEF AbortBuilding, JInv, TypeOK
  <2> QED
    BY <2>1, <2>2, <2>3 DEF Boot, Raise
<1> QED
  BY <1>1, <1>2, <1>3, <1>4, HeldKept DEF BusyIsHeld, Held, Unfinished

(* A handler that enters holds what it makes busy, and owns its row; the   *)
(* first file's is the knowledge base that it makes BUILDING.              *)
LEMMA EnterHeld ==
  ASSUME JInv, Owned, BusyIsHeld, Enter \/ Activate PROVE BusyIsHeld'
<1>1. /\ cur \in Jobs /\ status[cur] \in Claimed /\ Worked'
      /\ UNCHANGED <<status, kind, target, gaveUp, indexed, cur>>
  BY DEF Enter, Activate, JInv, WorkerHasJob, Owned, WorkerOwnsRow, Executing, Go, rows,
         Worked, Done
<1>2. CASE Enter /\ kind[cur] \in {"FILE_PROCESS", "KB_REBUILD"}
  <2>1. /\ busy' \subseteq busy \union {target[cur]}
        /\ holder' = [holder EXCEPT ![target[cur]] = cur]
        /\ target[cur] \in Resources
    BY <1>1, <1>2 DEF Enter, JInv, RowsAgree, Resources
  <2>2. Held(target[cur])'
    BY <1>1, <1>2, <2>1 DEF Held, JInv, TypeOK
  <2>3. \A r \in busy : r # target[cur] => holder'[r] = holder[r]
    BY <2>1 DEF JInv, TypeOK
  <2>4. \A k \in KnowledgeBases : k # target[cur] => builder'[k] = builder[k]
    BY <1>2 DEF Enter, JInv, TypeOK
  <2>5. ASSUME NEW r \in busy, r # target[cur], Unfinished(r) PROVE Unfinished(r)'
    BY <1>1, <2>4, <2>5 DEF Unfinished, FirstBuild
  <2>6. \A r \in busy' : Held(r)' \/ (\E j \in gaveUp' : target'[j] = r) \/ Unfinished(r)'
    BY <1>1, <2>1, <2>2, <2>3, <2>5 DEF BusyIsHeld, Held
  <2> QED
    BY <1>1, <2>6 DEF BusyIsHeld
<1>3. CASE Enter /\ kind[cur] \notin {"FILE_PROCESS", "KB_REBUILD"}
  <2>1. UNCHANGED <<busy, holder, builder>>
    BY <1>3 DEF Enter
  <2> QED
    BY <1>1, <2>1, HeldKept DEF BusyIsHeld, Held, Unfinished, FirstBuild
<1>4. CASE Activate
  <2>1. /\ busy' = busy \union {home[target[cur]]} /\ holder' = holder
        /\ builder' = [builder EXCEPT ![home[target[cur]]] = cur]
        /\ kind[cur] = "FILE_PROCESS" /\ home[target[cur]] \notin indexed
        /\ home[target[cur]] \in KnowledgeBases
    BY <1>1, <1>4, ConstantsAssumption DEF Activate, JInv, RowsAgree
  <2>2. Unfinished(home[target[cur]])'
    BY <1>1, <2>1 DEF Unfinished, FirstBuild, Claimed, JInv, TypeOK
  <2>3. \A k \in KnowledgeBases : k # home[target[cur]] => builder'[k] = builder[k]
    BY <2>1 DEF JInv, TypeOK
  <2>4. ASSUME NEW r \in busy, r # home[target[cur]], Unfinished(r) PROVE Unfinished(r)'
    BY <1>1, <2>3, <2>4 DEF Unfinished, FirstBuild
  <2>5. \A r \in busy' : Held(r)' \/ (\E j \in gaveUp' : target'[j] = r) \/ Unfinished(r)'
    BY <1>1, <2>1, <2>2, <2>4 DEF BusyIsHeld, Held
  <2> QED
    BY <1>1, <2>5 DEF BusyIsHeld
<1> QED
  BY <1>2, <1>3, <1>4

(* The end of an attempt frees what the job still holds, if it failed; if  *)
(* it succeeded, that is not busy any more.                                *)
LEMMA FinishHeld ==
  ASSUME JInv, Owned, BusyIsHeld, Finish PROVE BusyIsHeld'
<1>1. /\ cur \in Jobs /\ mark \in Terminal /\ pc = "finishing"
      /\ status' = [status EXCEPT ![cur] = mark]
      /\ UNCHANGED <<kind, target, gaveUp, builder, indexed>> /\ Worked'
  BY DEF Finish, SetStatus, JInv, WorkerHasJob, Owned, WorkerOwnsRow, Executing, Worked,
         Done
<1>2. \A j \in gaveUp : status'[j] # "none"
  BY <1>1 DEF BusyIsHeld, JInv, TypeOK, Terminal
<1>3. \/ UNCHANGED <<busy, holder>> /\ mark = "SUCCEEDED"
      \/ UNCHANGED <<busy, holder>> /\ kind[cur] \notin {"FILE_PROCESS", "KB_REBUILD"}
      \/ UNCHANGED <<busy, holder>> /\ holder[target[cur]] # cur
      \/ /\ busy' = busy \ {target[cur]}
         /\ \A r \in busy' : holder'[r] = holder[r]
  BY <1>1 DEF Finish, Owned, WorkerOwnsRow, Executing, JInv, TypeOK
<1>4. ASSUME NEW r \in busy', Held(r)
      PROVE  holder'[r] = holder[r] /\ status'[holder[r]] \in Claimed
  <2>1. holder[r] # cur
    BY <1>1, <1>3, <1>4 DEF Held, BusyIsHeld, Worked, Done
  <2> QED
    BY <1>1, <1>3, <1>4, <2>1 DEF Held, JInv, TypeOK
<1>5. ASSUME NEW r \in busy', Unfinished(r)
      PROVE  r \notin indexed /\ status'[builder[r]] # "SUCCEEDED"
  <2>1. builder[r] = cur => mark # "SUCCEEDED"
    BY <1>1, <1>5 DEF Unfinished, FirstBuild, BusyIsHeld, Worked, Done
  <2> QED
    BY <1>1, <1>5, <2>1 DEF Unfinished, FirstBuild, JInv, TypeOK
<1> QED
  BY <1>1, <1>2, <1>3, <1>4, <1>5, HeldKept

(* A recovery frees what its job holds, or gives the job up; what another  *)
(* job holds it leaves to that one.                                        *)
LEMMA ReconcileHeld ==
  ASSUME JInv, Owned, BusyIsHeld, Reconcile PROVE BusyIsHeld'
<1>1. /\ cur \in Jobs /\ UNCHANGED <<kind, target>> /\ Worked' /\ Rewritten /\ Settled
      /\ busy' \subseteq busy /\ cur # Nobody
  BY ReconcileSettles, ConstantsAssumption
     DEF Reconcile, JInv, WorkerHasJob, Executing, Worked, Done, Settled
<1>2. /\ \A i \in Jobs : i # cur => status'[i] = status[i]
      /\ status'[cur] # "none" /\ gaveUp \subseteq gaveUp'
      /\ \A j \in gaveUp' : j = cur \/ j \in gaveUp
  BY <1>1 DEF Rewritten, JInv, TypeOK, Terminal
<1>3. \A j \in gaveUp' : status'[j] # "none"
  BY <1>2 DEF BusyIsHeld, JInv, TypeOK
<1>4. \A r \in busy' : holder'[r] = holder[r]
  BY <1>1 DEF Reconcile, ReconcileBackup, ReconcileFile, ReconcileRebuild, Reset,
     ReconcileCleanup, ReconcileEvaluation, effects, JInv, TypeOK
<1>5. ASSUME NEW r \in busy', Held(r), holder[r] = cur PROVE cur \in gaveUp'
  <2>1. /\ target[cur] = r /\ target[cur] \in busy' /\ target[cur] \in busy
        /\ kind[cur] \in {"FILE_PROCESS", "KB_REBUILD"} /\ holder[target[cur]] = cur
    BY <1>1, <1>5 DEF Held
  <2>2. \A s : GiveUp(s) => cur \in gaveUp'
    BY DEF GiveUp
  <2>3. CASE mark = "CANCEL_REQUESTED"
    BY <2>2, <2>3 DEF Reconcile
  <2>4. CASE ReconcileFile
    BY <2>1, <2>2, <2>4 DEF ReconcileFile, Reset
  <2>5. CASE ReconcileRebuild
    BY <2>1, <2>2, <2>5 DEF ReconcileRebuild, Reset
  <2> QED
    BY <2>1, <2>3, <2>4, <2>5
       DEF Reconcile, ReconcileBackup, ReconcileCleanup, ReconcileEvaluation
<1>6. ASSUME NEW r \in busy', Held(r)
      PROVE  /\ holder'[r] = holder[r]
             /\ status'[holder[r]] \in Claimed \/ holder[r] \in gaveUp'
  BY <1>2, <1>4, <1>5, <1>6 DEF Held
<1>7. ASSUME NEW r \in busy', Unfinished(r)
      PROVE  /\ builder'[r] = builder[r] /\ r \notin indexed'
             /\ status'[builder[r]] # "SUCCEEDED"
  <2>1. builder'[r] = builder[r] /\ r \notin indexed'
    BY <1>1, <1>7 DEF Unfinished, FirstBuild, Settled
  <2>2. builder[r] = cur => status'[cur] # "SUCCEEDED"
    <3> SUFFICES ASSUME builder[r] = cur PROVE status'[cur] # "SUCCEEDED"
      OBVIOUS
    <3>1. \A s : GiveUp(s) => status'[cur] = s
      BY <1>1 DEF GiveUp, Ends, SetStatus, JInv, TypeOK
    <3>2. kind[cur] = "FILE_PROCESS" /\ home[target[cur]] \notin indexed
      BY <1>7 DEF Unfinished, FirstBuild
    <3>3. Requeue(0) => status'[cur] # "SUCCEEDED"
      BY <1>1, <3>1 DEF Requeue, SetStatus, JInv, TypeOK
    <3>4. CASE mark = "CANCEL_REQUESTED"
      BY <3>1, <3>4 DEF Reconcile
    <3>5. CASE mark # "CANCEL_REQUESTED"
      <4>1. ReconcileFile
        BY <3>2, <3>5 DEF Reconcile, ReconcileBackup, ReconcileRebuild, ReconcileCleanup,
                          ReconcileEvaluation
      <4> QED
        BY <3>1, <3>2, <3>3, <4>1 DEF ReconcileFile
    <3> QED
      BY <3>4, <3>5
  <2> QED
    BY <1>2, <1>7, <2>1, <2>2 DEF Unfinished, FirstBuild
<1> QED
  BY <1>1, <1>2, <1>3, <1>6, <1>7, HeldKept

(* Every step keeps it.                                                    *)
LEMMA HeldStep ==
  ASSUME JInv, Owned, BusyIsHeld, ~Overlap, [Next]_vars PROVE BusyIsHeld'
<1>1. ASSUME NEW j \in Jobs, NEW k \in Kinds, NEW r \in Targets(k), Submit(j, k, r)
      PROVE  BusyIsHeld'
  BY <1>1, SubmitHeld
<1>2. ASSUME NEW j \in Jobs,
             \/ Cancel(j) \/ ReadForCancel(j) \/ WriteCancel(j)
             \/ DelayElapses(j) \/ LeaseExpires(j) \/ Claim(j)
      PROVE  BusyIsHeld'
  BY <1>2, CancelHeld, QuietHeld
<1>3. CASE WorkerStep
  BY <1>3, FreeingHeld, QuietHeld, EnterHeld, FinishHeld, ReconcileHeld DEF WorkerStep
<1>4. CASE ThreadDies \/ Crash \/ Shutdown \/ Restart \/ UNCHANGED vars
  BY <1>4, QuietHeld
<1>5. CASE \E k \in KnowledgeBases : AbortBuilding(k)
  BY <1>5, FreeingHeld
<1> QED
  BY <1>1, <1>2, <1>3, <1>4, <1>5 DEF Next

(* Whatever fails or crashes, a file in PROCESSING and a knowledge base in *)
(* BUILDING has a live job that will deal with it, or one that the         *)
(* recovery closed for somebody to look at (RECOVERY_FAILED); a knowledge  *)
(* base without an active collection may also be left by a first file that *)
(* did not succeed and whose undoing failed (_activate_first_file,         *)
(* _mark_building_failed).                                                 *)
THEOREM NothingIsStranded == ASSUME ~Overlap PROVE Spec => []NoStrandedResource
<1>1. JInv /\ Owned /\ BusyIsHeld /\ [Next]_vars => BusyIsHeld'
  BY HeldStep
<1>2. BusyIsHeld => NoStrandedResource
  BY ConstantsAssumption DEF BusyIsHeld, Held, Unfinished, NoStrandedResource, Live,
                             NonTerminal
<1> QED
  BY <1>1, <1>2, HeldInit, OwnedInvariance, PTL DEF Spec
=============================================================================
