------------------------------ MODULE JobQueue ------------------------------
(***************************************************************************)
(* Durable jobs: submission, the claim of the one worker of the process,   *)
(* cancellation, and recovery after a crash or a transient error           *)
(* (job_service.py, job_repository.py, job_worker.py, job_handlers.py,     *)
(* job_recovery_service.py, backup_service.py).                            *)
(*                                                                         *)
(* Each action is one database transaction (or one read) of the code; the  *)
(* places where a value is read in one transaction and written back in a   *)
(* later one are two actions.  Simplifications:                            *)
(*  - what a handler does between entering and its last checkpoint is one  *)
(*    state, in which any exception may be raised; the durable effect of a *)
(*    job (vectors and SUCCESS of a file, switched pointer, removed        *)
(*    collection, report, renamed archive) is one step, recorded in        *)
(*    committed.  Its parts are modelled where the stores are;             *)
(*  - a manual retry is a submission of the same kind on the same target:  *)
(*    it passes the same checks and creates a new row;                     *)
(*  - run_after decides in which order jobs are claimed, and is kept as    *)
(*    that order (ahead) and as the set of jobs whose time is not reached; *)
(*  - whether an evaluation pins the collection that a cleanup wants to    *)
(*    remove, or a file to write, is left open as long as an evaluation on *)
(*    that knowledge base is not over; rows are not deleted;               *)
(*  - a knowledge base that has an active collection keeps it.             *)
(***************************************************************************)
EXTENDS Integers

CONSTANTS
  Jobs,            \* identities of job rows
  Files,           \* uploaded files
  KnowledgeBases,
  home,            \* home[f]: the knowledge base of file f
  Nobody,          \* no job, no target
  Kinds,           \* the kinds of job users submit
  MaxFaults,       \* bound on the crashes and dead worker threads of a run
  Overlap          \* whether a step may fall between the read and the write
                   \* of a cancel request

Maintenance == {"FILE_PROCESS", "KB_REBUILD", "KB_CLEANUP_RETIRED"}
AllKinds == Maintenance \union {"RAG_EVALUATION", "BACKUP"}
Resources == Files \union KnowledgeBases

ASSUME ConstantsAssumption ==
  /\ home \in [Files -> KnowledgeBases]
  /\ Files \intersect KnowledgeBases = {}
  /\ Nobody \notin Jobs \union Resources
  /\ Kinds \subseteq AllKinds
  /\ MaxFaults \in Nat
  /\ Overlap \in BOOLEAN

VARIABLES
  status,     \* Job.status, "none" before the row exists
  kind,       \* Job.job_type
  target,     \* Job.resource_id
  attempt,    \* Job.attempt
  lease,      \* who may still write to the job: see Leases
  ahead,      \* ahead[j]: the due jobs that are claimed before j
  delayed,    \* the queued jobs whose run_after is not reached
  gaveUp,     \* the jobs whose stage is RECOVERY_FAILED
  committed,  \* the jobs whose durable effect took place
  busy,       \* the files in PROCESSING and the knowledge bases in BUILDING
  holder,     \* processing_job_id of files, rebuild_job_id of knowledge bases
  builder,    \* the job whose run a knowledge base names in rebuild_run_id
  indexed,    \* the knowledge bases with an active collection
  draining,   \* owner of the BACKUP_DRAINING row, or Nobody
  cancel,     \* cancel[j]: the status a cancel request has read, or "none"
  pc,         \* where the worker is
  cur,        \* the job it has claimed or recovers
  mark,       \* how the attempt ended, or the status the recovery has read
  faults

rows == <<status, kind, target, attempt, lease, ahead, delayed, gaveUp>>
effects == <<committed, busy, holder, builder, indexed, draining>>
worker == <<pc, cur, mark>>
vars == <<status, kind, target, attempt, lease, ahead, delayed, gaveUp,
          committed, busy, holder, builder, indexed, draining, cancel, pc, cur,
          mark, faults>>

Terminal == {"SUCCEEDED", "FAILED", "CANCELLED"}
Claimed == {"RUNNING", "CANCEL_REQUESTED"}
NonTerminal == {"QUEUED"} \union Claimed
Statuses == {"none"} \union NonTerminal \union Terminal

(* "mine": owned by the running worker, which keeps it alive; "lapsing":   *)
(* its owner is gone; "expired": lease_expires_at is past.                 *)
Leases == {"none", "mine", "lapsing", "expired"}

Executing == {"starting", "entering", "working", "committing", "activating",
              "committed", "finishing", "transient", "reconciling"}
Steps == {"down", "booting", "dead", "polling", "recovering"} \union Executing

MaxAttempts(k) == IF k = "BACKUP" THEN 1 ELSE 2

TypeOK ==
  /\ status \in [Jobs -> Statuses]
  /\ kind \in [Jobs -> AllKinds \union {"none"}]
  /\ target \in [Jobs -> Resources \union {Nobody}]
  /\ attempt \in [Jobs -> 0 .. 2]
  /\ lease \in [Jobs -> Leases]
  /\ ahead \in [Jobs -> SUBSET Jobs]
  /\ delayed \subseteq Jobs /\ gaveUp \subseteq Jobs /\ committed \subseteq Jobs
  /\ busy \subseteq Resources
  /\ holder \in [Resources -> Jobs \union {Nobody}]
  /\ builder \in [KnowledgeBases -> Jobs \union {Nobody}]
  /\ indexed \subseteq KnowledgeBases
  /\ draining \in Jobs \union {Nobody}
  /\ cancel \in [Jobs -> Statuses]
  /\ pc \in Steps
  /\ cur \in Jobs \union {Nobody}
  /\ mark \in Statuses \union {"TRANSIENT"}
  /\ faults \in 0 .. MaxFaults
-----------------------------------------------------------------------------
Live(j) == status[j] \in NonTerminal
KbOf(r) == IF r \in Files THEN home[r] ELSE r
Due(j) == status[j] = "QUEUED" /\ j \notin delayed
Serving == pc \notin {"down", "booting"}

(* The place of j in the order of run_after: last of those that are due.   *)
Enqueue(j) ==
  ahead' = [i \in Jobs |-> IF i = j THEN {k \in Jobs : Due(k)} \ {j}
                                    ELSE ahead[i] \ {j}]
Dequeue(j) ==
  ahead' = [i \in Jobs |-> IF i = j THEN {} ELSE ahead[i] \ {j}]

(* Two jobs of these kinds on these targets must not both be non-terminal. *)
Clash(k, r, l, s) ==
  \/ "BACKUP" \in {k, l}
  \/ /\ {k, l} \subseteq Maintenance
     /\ \/ r = s
        \/ KbOf(r) = KbOf(s) /\ {r, s} \intersect KnowledgeBases # {}

(* Sets status and clears the lease, as every end of an attempt does.      *)
SetStatus(j, s) == /\ status' = [status EXCEPT ![j] = s]
                   /\ lease' = [lease EXCEPT ![j] = "none"]

(* holder[r] is cleared where it still names j.                            *)
Disown(j) == [r \in Resources |-> IF holder[r] = j THEN Nobody ELSE holder[r]]
Undrain(j) == IF draining = j THEN Nobody ELSE draining
-----------------------------------------------------------------------------
Init ==
  /\ status = [j \in Jobs |-> "none"]
  /\ kind = [j \in Jobs |-> "none"]
  /\ target = [j \in Jobs |-> Nobody]
  /\ attempt = [j \in Jobs |-> 0]
  /\ lease = [j \in Jobs |-> "none"]
  /\ ahead = [j \in Jobs |-> {}]
  /\ delayed = {} /\ gaveUp = {} /\ committed = {} /\ busy = {}
  /\ holder = [r \in Resources |-> Nobody]
  /\ builder = [k \in KnowledgeBases |-> Nobody]
  /\ indexed \in SUBSET KnowledgeBases
  /\ draining = Nobody
  /\ cancel = [j \in Jobs |-> "none"]
  /\ pc = "booting" /\ cur = Nobody /\ mark = "none"
  /\ faults = 0

(* MUTANT of Submit: a job whose cancel was requested counts as over.      *)
SubmitPastCancelled(j, k, r) ==
  /\ Serving /\ draining = Nobody
  /\ status[j] = "none"
  /\ \A i \in Jobs :
       status[i] \in {"QUEUED", "RUNNING"} => ~Clash(k, r, kind[i], target[i])
  /\ k = "FILE_PROCESS" => KbOf(r) \notin busy
  /\ status' = [status EXCEPT ![j] = "QUEUED"]
  /\ kind' = [kind EXCEPT ![j] = k]
  /\ target' = [target EXCEPT ![j] = r]
  /\ Enqueue(j)
  /\ holder' = IF k \in {"FILE_PROCESS", "KB_REBUILD"}
               THEN [holder EXCEPT ![r] = j] ELSE holder
  /\ draining' = IF k = "BACKUP" THEN j ELSE draining
  /\ UNCHANGED <<attempt, lease, delayed, gaveUp, committed, busy, builder,
                 indexed, cancel, worker, faults>>

(* POST of a new job or of a retry: refused by the middleware while a      *)
(* backup drains, then by the checks against the rows of other jobs, all   *)
(* inside the locks of the runtime coordinator.                            *)
Submit(j, k, r) ==
  /\ Serving /\ draining = Nobody
  /\ status[j] = "none"
  /\ \A i \in Jobs : Live(i) => ~Clash(k, r, kind[i], target[i])
  /\ k = "FILE_PROCESS" => KbOf(r) \notin busy
  /\ status' = [status EXCEPT ![j] = "QUEUED"]
  /\ kind' = [kind EXCEPT ![j] = k]
  /\ target' = [target EXCEPT ![j] = r]
  /\ Enqueue(j)
  /\ holder' = IF k \in {"FILE_PROCESS", "KB_REBUILD"}
               THEN [holder EXCEPT ![r] = j] ELSE holder
  /\ draining' = IF k = "BACKUP" THEN j ELSE draining
  /\ UNCHANGED <<attempt, lease, delayed, gaveUp, committed, busy, builder,
                 indexed, cancel, worker, faults>>

Targets(k) == CASE k = "FILE_PROCESS" -> Files
                [] k = "BACKUP" -> {Nobody}
                [] OTHER -> KnowledgeBases

(* What a cancel request writes for a job whose status was s when it read  *)
(* the row: the request, or the end of a job that has not started.         *)
CancelAs(j, s) ==
  /\ IF s = "RUNNING"
     THEN /\ status' = [status EXCEPT ![j] = "CANCEL_REQUESTED"]
          /\ UNCHANGED <<holder, draining, ahead, delayed>>
     ELSE /\ holder' = Disown(j)
          /\ draining' = Undrain(j)
          /\ IF s = "QUEUED"
             THEN /\ status' = [status EXCEPT ![j] = "CANCELLED"]
                  /\ Dequeue(j)
                  /\ delayed' = delayed \ {j}
             ELSE UNCHANGED <<status, ahead, delayed>>
  /\ UNCHANGED <<kind, target, attempt, lease, gaveUp, committed, busy,
                 builder, indexed, worker, faults>>

(* POST /jobs/{id}/cancel: any other status is left alone or refused.      *)
Cancellable == {"QUEUED", "RUNNING", "CANCELLED"}

(* The request when nothing comes between its read and its write ...       *)
Cancel(j) ==
  /\ Serving /\ ~Overlap
  /\ status[j] \in Cancellable
  /\ CancelAs(j, status[j])
  /\ UNCHANGED cancel

(* ... and when steps of the worker or of other requests do: the row is    *)
(* read for the ownership check, outside of the write's transaction.       *)
ReadForCancel(j) ==
  /\ Serving /\ Overlap
  /\ cancel[j] = "none"
  /\ status[j] \in Cancellable
  /\ cancel' = [cancel EXCEPT ![j] = status[j]]
  /\ UNCHANGED <<rows, effects, worker, faults>>

WriteCancel(j) ==
  /\ Serving
  /\ cancel[j] # "none"
  /\ CancelAs(j, cancel[j])
  /\ cancel' = [cancel EXCEPT ![j] = "none"]

(* POST abort-building: refused while a maintenance job of the knowledge   *)
(* base or of one of its files is under way, and kept out by the admin     *)
(* lock while a handler builds or removes a collection.                    *)
AbortBuilding(k) ==
  /\ Serving /\ draining = Nobody
  /\ \A i \in Jobs : Live(i) /\ kind[i] \in Maintenance => KbOf(target[i]) # k
  /\ pc # "activating"
  /\ pc \in {"working", "committing"} =>
       kind[cur] \notin {"KB_REBUILD", "KB_CLEANUP_RETIRED"}
  /\ k \in busy
  /\ busy' = busy \ {k}
  /\ builder' = [builder EXCEPT ![k] = Nobody]
  /\ UNCHANGED <<rows, committed, holder, indexed, draining, cancel, worker,
                 faults>>
-----------------------------------------------------------------------------
(* start(): PROCESSING files and BUILDING knowledge bases whose job is not *)
(* a live one are failed; files also lose the reference to it.             *)
Boot ==
  /\ pc = "booting"
  /\ LET orphans == {r \in busy : holder[r] = Nobody \/ ~Live(holder[r])}
     IN /\ busy' = busy \ orphans
        /\ holder' = [r \in Resources |->
                        IF r \in orphans \intersect Files THEN Nobody
                        ELSE holder[r]]
  /\ pc' = "polling"
  /\ UNCHANGED <<rows, committed, builder, indexed, draining, cancel, cur, mark,
                 faults>>

(* MUTANT of Expired: jobs to be cancelled are not looked for.             *)
ExpiredRunning(j) == status[j] = "RUNNING" /\ lease[j] = "expired"

(* expired(): claimed, and the end of the lease is past.                   *)
Expired(j) == status[j] \in Claimed /\ lease[j] = "expired"

(* Time passes: run_after, or the lease of a worker that is gone.          *)
DelayElapses(j) ==
  /\ j \in delayed
  /\ delayed' = delayed \ {j}
  /\ Enqueue(j)
  /\ UNCHANGED <<status, kind, target, attempt, lease, gaveUp, effects,
                 cancel, worker, faults>>

LeaseExpires(j) ==
  /\ lease[j] = "lapsing"
  /\ lease' = [lease EXCEPT ![j] = "expired"]
  /\ UNCHANGED <<status, kind, target, attempt, ahead, delayed, gaveUp,
                 effects, cancel, worker, faults>>

(* claim_next: the due job with the smallest run_after, once no expired    *)
(* job is left to recover.                                                 *)
Claim(j) ==
  /\ pc = "polling"
  /\ \A i \in Jobs : ~Expired(i)
  /\ Due(j) /\ ahead[j] = {}
  /\ status' = [status EXCEPT ![j] = "RUNNING"]
  /\ lease' = [lease EXCEPT ![j] = "mine"]
  /\ attempt' = [attempt EXCEPT ![j] = @ + 1]
  /\ Dequeue(j)
  /\ pc' = "starting" /\ cur' = j /\ mark' = "none"
  /\ UNCHANGED <<kind, target, delayed, gaveUp, effects, cancel, faults>>

(* checkpoint(): goes through only while the job is RUNNING and owned.     *)
Passes(j) == status[j] = "RUNNING" /\ lease[j] = "mine"

Go(step) == pc' = step /\ UNCHANGED <<cur, mark>>
Over(m) == pc' = "finishing" /\ mark' = m /\ UNCHANGED cur

Start ==
  /\ pc = "starting"
  /\ Passes(cur)
  /\ Go("entering")
  /\ UNCHANGED <<rows, effects, cancel, faults>>

(* MUTANT of MayEnter: each handler looks at its own row only.             *)
MayEnterAlone(j) == target[j] \notin busy

(* A collection under construction that is not in the way of a file: the   *)
(* knowledge base has no active one, and the preflight may clear what an   *)
(* attempt to build the first one left behind.                             *)
Cleared(f) == {home[f]} \ indexed

(* What the handlers check and claim first: a file that is not PROCESSING  *)
(* in a knowledge base that is not BUILDING; a knowledge base that is not  *)
(* BUILDING and has no PROCESSING file; a backup finds the system at rest. *)
MayEnter(j) ==
  CASE kind[j] = "FILE_PROCESS" ->
         target[j] \notin busy /\ home[target[j]] \notin busy \ Cleared(target[j])
    [] kind[j] = "KB_REBUILD" ->
         \A r \in busy : KbOf(r) # target[j]
    [] kind[j] = "BACKUP" ->
         busy = {} /\ \A i \in Jobs \ {j} : ~Live(i)
    [] OTHER -> TRUE

Enter ==
  /\ pc = "entering"
  /\ MayEnter(cur)
  /\ CASE kind[cur] = "FILE_PROCESS" ->
            /\ busy' = (busy \ Cleared(target[cur])) \union {target[cur]}
            /\ UNCHANGED builder
       [] kind[cur] = "KB_REBUILD" ->
            /\ busy' = busy \union {target[cur]}
            /\ builder' = [builder EXCEPT ![target[cur]] = cur]
       [] OTHER -> UNCHANGED <<busy, builder>>
  /\ holder' = IF kind[cur] \in {"FILE_PROCESS", "KB_REBUILD"}
               THEN [holder EXCEPT ![target[cur]] = cur] ELSE holder
  /\ Go("working")
  /\ UNCHANGED <<rows, committed, indexed, draining, cancel, faults>>

(* An evaluation pins the collection: the cleanup goes back to the queue   *)
(* for a while without using up an attempt.                                *)
Defer ==
  /\ pc = "entering"
  /\ kind[cur] = "KB_CLEANUP_RETIRED"
  /\ \E i \in Jobs : /\ Live(i) /\ kind[i] = "RAG_EVALUATION"
                     /\ target[i] = target[cur]
  /\ SetStatus(cur, "QUEUED")
  /\ attempt' = [attempt EXCEPT ![cur] = IF @ > 0 THEN @ - 1 ELSE 0]
  /\ delayed' = delayed \union {cur}
  /\ pc' = "polling" /\ cur' = Nobody /\ mark' = "none"
  /\ UNCHANGED <<kind, target, ahead, gaveUp, effects, cancel, faults>>

(* The last checkpoint before the effect of the job becomes durable.       *)
LastCheckpoint ==
  /\ pc = "working"
  /\ Passes(cur)
  /\ Go("committing")
  /\ UNCHANGED <<rows, effects, cancel, faults>>

(* The first file of a knowledge base: while it is PROCESSING the          *)
(* knowledge base is BUILDING, for no rebuild job.                         *)
Activate ==
  /\ pc = "committing"
  /\ kind[cur] = "FILE_PROCESS"
  /\ home[target[cur]] \notin indexed
  /\ busy' = busy \union {home[target[cur]]}
  /\ builder' = [builder EXCEPT ![home[target[cur]]] = cur]
  /\ Go("activating")
  /\ UNCHANGED <<rows, committed, holder, indexed, draining, cancel, faults>>

(* What the transaction that records the effect finds, or else it raises.  *)
MayCommit ==
  CASE kind[cur] = "FILE_PROCESS" ->
         LET f == target[cur]
         IN IF pc = "activating"
            THEN home[f] \in busy /\ builder[home[f]] = cur
            ELSE home[f] \in indexed \ busy /\ f \in busy
    [] kind[cur] = "KB_REBUILD" ->
         target[cur] \in busy /\ builder[target[cur]] = cur
    [] OTHER -> TRUE

(* What it settles: a switched rebuild also marks every file of the        *)
(* knowledge base SUCCESS, a first file its knowledge base IDLE.           *)
Settles ==
  CASE kind[cur] = "FILE_PROCESS" ->
         {target[cur]} \union (IF pc = "activating" THEN {home[target[cur]]} ELSE {})
    [] kind[cur] = "KB_REBUILD" -> {r \in Resources : KbOf(r) = target[cur]}
    [] OTHER -> {}

Commit ==
  /\ pc \in {"committing", "activating"}
  /\ MayCommit
  /\ committed' = committed \union {cur}
  /\ busy' = busy \ Settles
  /\ holder' = [r \in Resources |->
                  IF r \in Settles /\ (pc = "activating" => r \in Files)
                  THEN Nobody ELSE holder[r]]
  /\ builder' = [k \in KnowledgeBases |->
                   IF k \in Settles THEN Nobody ELSE builder[k]]
  /\ indexed' = indexed \union (Settles \intersect KnowledgeBases)
  /\ Go("committed")
  /\ UNCHANGED <<rows, draining, cancel, faults>>

(* The handler returns; a backup has removed its draining row before.      *)
Return ==
  /\ pc = "committed"
  /\ draining' = IF kind[cur] = "BACKUP" THEN Undrain(cur) ELSE draining
  /\ Over("SUCCEEDED")
  /\ UNCHANGED <<rows, committed, busy, holder, builder, indexed, cancel, faults>>

(* What an exception makes the handler undo, each in a transaction that    *)
(* may fail as well: its claim, and apart from it the BUILDING of a first  *)
(* file, which it also leaves alone when the vectors cannot be taken back. *)
(* Before its claim a file may have cleared its knowledge base.            *)
Undoes ==
  CASE kind[cur] \in {"FILE_PROCESS", "KB_REBUILD"}
       /\ pc \in {"working", "committing", "committed"} -> {{}, {target[cur]}}
    [] kind[cur] = "FILE_PROCESS" /\ pc = "activating" ->
         SUBSET {target[cur], home[target[cur]]}
    [] kind[cur] = "FILE_PROCESS" /\ pc = "entering" -> SUBSET Cleared(target[cur])
    [] OTHER -> {{}}

(* An exception leaves the handler; a file whose effect is already there   *)
(* is FAILED again.  JobCancelled comes from checkpoints only, and from    *)
(* all of them when the lease is lost; any other exception ends the        *)
(* attempt as FAILED, or as a transient error of the database.             *)
Raise(m) ==
  /\ pc \in {"starting", "entering", "working", "committing", "activating",
             "committed"}
  /\ m = "CANCELLED" => \/ pc \in {"starting", "working"}
                        \/ pc = "entering" /\ kind[cur] = "BACKUP"
  /\ \E undone \in Undoes :
       /\ busy' = busy \ undone
       /\ committed' = IF kind[cur] = "FILE_PROCESS" /\ target[cur] \in undone
                       THEN committed \ {cur} ELSE committed
  /\ \/ /\ kind[cur] = "FILE_PROCESS" /\ pc # "starting"
        /\ target[cur] \notin busy'
        /\ holder' = Disown(cur)
     \/ UNCHANGED holder
  /\ \/ /\ kind[cur] = "BACKUP" /\ pc # "starting"
        /\ draining' = Undrain(cur)
     \/ UNCHANGED draining
  /\ IF m = "TRANSIENT" THEN pc' = "transient" /\ mark' = m /\ UNCHANGED cur
                        ELSE Over(m)
  /\ UNCHANGED <<rows, builder, indexed, cancel, faults>>

(* MUTANT of Finish: the row of the job is all it writes.                  *)
FinishJobOnly ==
  /\ pc = "finishing"
  /\ IF status[cur] \in Claimed /\ lease[cur] = "mine"
     THEN /\ SetStatus(cur, mark)
          /\ draining' = IF kind[cur] = "BACKUP" THEN Undrain(cur) ELSE draining
     ELSE UNCHANGED <<status, lease, draining>>
  /\ pc' = "polling" /\ cur' = Nobody /\ mark' = "none"
  /\ UNCHANGED <<kind, target, attempt, ahead, delayed, gaveUp, committed,
                 busy, holder, builder, indexed, cancel, faults>>

(* MUTANT of Finish: a requested cancel outranks what the handler did.     *)
FinishCancelled ==
  /\ pc = "finishing"
  /\ IF status[cur] \in Claimed /\ lease[cur] = "mine"
     THEN SetStatus(cur, IF status[cur] = "CANCEL_REQUESTED"
                         THEN "CANCELLED" ELSE mark)
     ELSE UNCHANGED <<status, lease>>
  /\ pc' = "polling" /\ cur' = Nobody /\ mark' = "none"
  /\ UNCHANGED <<kind, target, attempt, ahead, delayed, gaveUp, effects,
                 cancel, faults>>

(* _finish: only while the job is still claimed by this worker.            *)
Finish ==
  /\ pc = "finishing"
  /\ IF status[cur] \in Claimed /\ lease[cur] = "mine"
     THEN /\ SetStatus(cur, mark)
          /\ draining' = IF kind[cur] = "BACKUP" THEN Undrain(cur) ELSE draining
          /\ IF mark # "SUCCEEDED" /\ kind[cur] \in {"FILE_PROCESS", "KB_REBUILD"}
             THEN /\ holder' = [holder EXCEPT ![target[cur]] =
                                  IF @ = cur THEN Nobody ELSE @]
                  /\ busy' = IF holder[target[cur]] = cur
                             THEN busy \ {target[cur]} ELSE busy
             ELSE UNCHANGED <<busy, holder>>
     ELSE UNCHANGED <<status, lease, busy, holder, draining>>
  /\ pc' = "polling" /\ cur' = Nobody /\ mark' = "none"
  /\ UNCHANGED <<kind, target, attempt, ahead, delayed, gaveUp, committed,
                 builder, indexed, cancel, faults>>

(* Recording SUCCEEDED fails: as any other exception of the attempt.       *)
FinishRaises ==
  /\ pc = "finishing" /\ mark = "SUCCEEDED"
  /\ \/ pc' = "transient" /\ mark' = "TRANSIENT" /\ UNCHANGED cur
     \/ Over("FAILED")
  /\ UNCHANGED <<rows, effects, cancel, faults>>

(* _recover_transient_failure: the row is read and its lease ended ...     *)
EndLease ==
  /\ pc = "transient"
  /\ IF kind[cur] = "BACKUP" \/ attempt[cur] >= MaxAttempts(kind[cur])
     THEN Over("FAILED") /\ UNCHANGED lease
     ELSE /\ lease' = [lease EXCEPT ![cur] = "expired"]
          /\ pc' = "reconciling" /\ mark' = status[cur] /\ UNCHANGED cur
  /\ UNCHANGED <<status, kind, target, attempt, ahead, delayed, gaveUp,
                 effects, cancel, faults>>

(* recover_expired: the same, for a row found with an expired lease ...    *)
ReadExpired(j) ==
  /\ pc = "polling"
  /\ Expired(j)
  /\ pc' = "recovering" /\ cur' = j /\ mark' = status[j]
  /\ UNCHANGED <<rows, effects, cancel, faults>>
-----------------------------------------------------------------------------
(* ... and reconciled: what is written depends on the status that was read *)
(* and on the state of the business rows.                                  *)
Ends(s) == /\ SetStatus(cur, s)
           /\ UNCHANGED <<attempt, ahead, delayed>>

GiveUp(s) == Ends(s) /\ gaveUp' = gaveUp \union {cur}
Succeed == Ends("SUCCEEDED") /\ UNCHANGED gaveUp

(* refund is what a wait for a pin gives back.  A retry after a transient  *)
(* error and a wait for a pin set run_after to a later time.               *)
Requeue(refund) ==
  IF attempt[cur] - refund >= MaxAttempts(kind[cur])
  THEN GiveUp("FAILED")
  ELSE /\ SetStatus(cur, "QUEUED")
       /\ attempt' = [attempt EXCEPT ![cur] = IF @ > 0 THEN @ - refund ELSE 0]
       /\ IF pc = "reconciling" \/ refund > 0
          THEN delayed' = delayed \union {cur} /\ UNCHANGED ahead
          ELSE Enqueue(cur) /\ UNCHANGED delayed
       /\ UNCHANGED gaveUp

ReconcileBackup == /\ kind[cur] = "BACKUP"
                   /\ draining' = Undrain(cur)
                   /\ GiveUp("FAILED")
                   /\ UNCHANGED <<committed, busy, holder, builder, indexed>>

(* The rows rs are reset to FAILED, and r is reserved for the next attempt *)
(* of the job.                                                             *)
Reset(rs, r) == /\ busy' = busy \ rs
                /\ holder' = [holder EXCEPT ![r] = cur]

(* Without an active collection the knowledge base is failed together with *)
(* the file, unless its candidate cannot be verified.                      *)
ReconcileFile ==
  /\ kind[cur] = "FILE_PROCESS"
  /\ LET f == target[cur]
     IN \/ /\ f \in busy /\ holder[f] # cur       \* owned by another job
           /\ GiveUp("FAILED") /\ UNCHANGED <<busy, holder, committed>>
        \/ /\ cur \in committed /\ f \notin busy  \* complete: recorded
           /\ home[f] \in indexed
           /\ holder' = [holder EXCEPT ![f] = Nobody]
           /\ Succeed /\ UNCHANGED <<busy, committed>>
        \/ /\ f \in busy => holder[f] = cur        \* from scratch
           /\ Reset({f} \union Cleared(f), f) /\ Requeue(0)
           /\ committed' = committed \ {cur}
        \/ /\ f \in busy => holder[f] = cur
           /\ cur \notin committed
           /\ \/ /\ busy' = busy \ {f}            \* vectors unverifiable
                 /\ holder' = [holder EXCEPT ![f] = Nobody]
              \/ /\ home[f] \in indexed           \* vectors of several runs
                 /\ UNCHANGED <<busy, holder>>
           /\ GiveUp("FAILED") /\ UNCHANGED committed
  /\ UNCHANGED <<builder, indexed, draining>>

(* MUTANT of ReconcileRebuild: whether it has switched is not looked at.   *)
ReconcileRebuildByOwner ==
  /\ kind[cur] = "KB_REBUILD"
  /\ target[cur] \in busy => holder[target[cur]] = cur
  /\ Reset({target[cur]}, target[cur]) /\ Requeue(0)
  /\ UNCHANGED <<committed, builder, indexed, draining>>

ReconcileRebuild ==
  /\ kind[cur] = "KB_REBUILD"
  /\ LET k == target[cur]
     IN \/ /\ cur \in committed /\ k \notin busy  \* switched
           /\ \/ holder' = [holder EXCEPT ![k] = Nobody] /\ Succeed
              \/ UNCHANGED holder /\ GiveUp("FAILED")
           /\ UNCHANGED <<busy, committed, builder, indexed>>
        \/ /\ k \in busy /\ holder[k] # cur       \* owned by another job
           /\ GiveUp("FAILED")
           /\ UNCHANGED <<busy, holder, committed, builder, indexed>>
        \/ /\ k \in busy => holder[k] = cur
           /\ ~(cur \in committed /\ k \notin busy)
           /\ \/ /\ committed' = committed \union {cur} \* complete: switch now
                 /\ busy' = busy \ {k}
                 /\ holder' = [holder EXCEPT ![k] = Nobody]
                 /\ builder' = [builder EXCEPT ![k] = Nobody]
                 /\ indexed' = indexed \union {k}
                 /\ Succeed
              \/ /\ Reset({k}, k) /\ Requeue(0)
                 /\ UNCHANGED <<committed, builder, indexed>>
              \/ /\ GiveUp("FAILED")              \* pointers changed
                 /\ UNCHANGED <<busy, holder, committed, builder, indexed>>
  /\ UNCHANGED draining

(* A cleanup that has removed its target finds the pointer changed, or no  *)
(* target at all; one that has not is done again, or waits for a pin.      *)
ReconcileCleanup ==
  /\ kind[cur] = "KB_CLEANUP_RETIRED"
  /\ \/ cur \in committed /\ (Succeed \/ GiveUp("FAILED"))
     \/ cur \notin committed /\ Requeue(0)
     \/ /\ cur \notin committed
        /\ \E i \in Jobs : /\ Live(i) /\ kind[i] = "RAG_EVALUATION"
                           /\ target[i] = target[cur]
        /\ Requeue(1)
  /\ UNCHANGED effects

(* A report that does not verify, because a retry has replaced it or it    *)
(* cannot be read, counts as none from then on.                            *)
ReconcileEvaluation ==
  /\ kind[cur] = "RAG_EVALUATION"
  /\ \/ cur \in committed /\ Succeed /\ UNCHANGED committed
     \/ /\ Requeue(0) \/ GiveUp("FAILED")           \* or no budget left
        /\ committed' = committed \ {cur}
  /\ UNCHANGED <<busy, holder, builder, indexed, draining>>

Reconcile ==
  /\ pc \in {"recovering", "reconciling"}
  /\ IF mark = "CANCEL_REQUESTED"
     THEN GiveUp("CANCELLED") /\ UNCHANGED effects
     ELSE \/ ReconcileBackup \/ ReconcileFile \/ ReconcileRebuild
          \/ ReconcileCleanup \/ ReconcileEvaluation
  /\ pc' = "polling" /\ cur' = Nobody /\ mark' = "none"
  /\ UNCHANGED <<kind, target, cancel, faults>>
-----------------------------------------------------------------------------
Orphaned == [j \in Jobs |-> IF lease[j] = "mine" THEN "lapsing" ELSE lease[j]]

(* Outside of a handler nothing catches an error of the database: it ends  *)
(* the worker's thread, while the process keeps serving requests.          *)
ThreadDies ==
  /\ pc \in {"polling", "transient", "recovering", "reconciling", "finishing"}
  /\ mark # "SUCCEEDED"
  /\ faults < MaxFaults
  /\ faults' = faults + 1
  /\ lease' = Orphaned
  /\ pc' = "dead" /\ cur' = Nobody /\ mark' = "none"
  /\ UNCHANGED <<status, kind, target, attempt, ahead, delayed, gaveUp,
                 effects, cancel>>

(* The process ends, at any point, and with it requests under way.         *)
Stop ==
  /\ lease' = Orphaned
  /\ cancel' = [j \in Jobs |-> "none"]
  /\ pc' = "down" /\ cur' = Nobody /\ mark' = "none"
  /\ UNCHANGED <<status, kind, target, attempt, ahead, delayed, gaveUp, effects>>

Crash == pc \notin {"down", "dead"} /\ faults < MaxFaults
         /\ faults' = faults + 1 /\ Stop

(* Somebody notices that the worker is dead and stops the process.         *)
Shutdown == pc = "dead" /\ UNCHANGED faults /\ Stop

Restart == /\ pc = "down"
           /\ Go("booting")
           /\ UNCHANGED <<rows, effects, cancel, faults>>

WorkerStep ==
  \/ Boot \/ Start \/ Enter \/ Defer \/ LastCheckpoint \/ Activate \/ Commit
  \/ Return
  \/ \E m \in {"CANCELLED", "FAILED", "TRANSIENT"} : Raise(m)
  \/ Finish \/ FinishRaises \/ EndLease
  \/ \E j \in Jobs : ReadExpired(j)
  \/ Reconcile

Next ==
  \/ \E j \in Jobs, k \in Kinds : \E r \in Targets(k) : Submit(j, k, r)
  \/ \E j \in Jobs : \/ Cancel(j) \/ ReadForCancel(j) \/ WriteCancel(j)
                     \/ DelayElapses(j) \/ LeaseExpires(j) \/ Claim(j)
  \/ \E k \in KnowledgeBases : AbortBuilding(k)
  \/ WorkerStep
  \/ ThreadDies \/ Crash \/ Shutdown \/ Restart

Spec == Init /\ [][Next]_vars

(* The loop of the worker and the passing of time go on; a dead worker is  *)
(* noticed and a stopped process started again; a request is carried out.  *)
Fairness ==
  /\ WF_vars(WorkerStep)
  /\ WF_vars(\E j \in Jobs : Claim(j))
  /\ WF_vars(Shutdown \/ Restart)
  /\ \A j \in Jobs : /\ WF_vars(WriteCancel(j))
                     /\ WF_vars(DelayElapses(j))
                     /\ WF_vars(LeaseExpires(j))

FairSpec == Spec /\ Fairness
-----------------------------------------------------------------------------
(* At no time are two jobs under way that must not be: two maintenance     *)
(* jobs of one file or knowledge base, of a knowledge base and one of its  *)
(* files, or a backup and anything else (JobService._validate_conflicts).  *)
NoConflictingJobs ==
  \A i, j \in Jobs :
    i # j /\ Live(i) /\ Live(j) => ~Clash(kind[i], target[i], kind[j], target[j])

(* A claimed job always has a lease, so that a recovery will find it, and  *)
(* a lease is kept alive for the job that is being executed only.          *)
ClaimedJobsAreLeased ==
  \A j \in Jobs : /\ status[j] \in Claimed => lease[j] # "none"
                  /\ lease[j] = "mine" => cur = j /\ pc \in Executing

(* A job that is over stays over (cancel, finish, deferral and recovery    *)
(* write the row from different threads and at different times).           *)
TerminalIsFinal ==
  [][\A j \in Jobs : status[j] \in Terminal => status'[j] = status[j]]_vars

(* The attempts that count stay within the bound; a claimed job counts.    *)
AttemptsAreBounded ==
  \A j \in Jobs : /\ status[j] # "none" => attempt[j] <= MaxAttempts(kind[j])
                  /\ status[j] \in Claimed => attempt[j] >= 1

(* A knowledge base without an active collection that is BUILDING for the  *)
(* job of one of its files.                                                *)
FirstBuild(k) ==
  /\ k \in KnowledgeBases \ indexed
  /\ builder[k] \in Jobs
  /\ kind[builder[k]] = "FILE_PROCESS" /\ home[target[builder[k]]] = k

(* A PROCESSING file or BUILDING knowledge base belongs to a job that will *)
(* deal with it; only a job that the recovery closed can leave one behind, *)
(* and a first file that did not succeed, its knowledge base: when undoing *)
(* has failed nothing but a restart, another file or rebuild, or a call of *)
(* abort-building frees that.                                              *)
NoStrandedResource ==
  \A r \in busy : \/ holder[r] # Nobody /\ Live(holder[r])
                  \/ \E j \in gaveUp : target[j] = r
                  \/ FirstBuild(r) /\ status[builder[r]] # "SUCCEEDED"

(* The draining row, which makes the process refuse every write, belongs   *)
(* to a backup under way; only one that the recovery closed can leave it.  *)
DrainingHasAnOwner ==
  draining # Nobody => Live(draining) \/ draining \in gaveUp

(* A cancel that is answered at a checkpoint or before the start never     *)
(* comes after the effect of the job; only the recovery can disagree.      *)
CancelledHasNoEffect ==
  \A j \in Jobs : status[j] = "CANCELLED" /\ j \in committed => j \in gaveUp

(* A rebuild that has switched, a cleanup that has removed its collection  *)
(* and a backup that has its archive are not run again, however recovery,  *)
(* cancels and errors follow each other.                                   *)
NoRepeatAfterEffect ==
  \A j \in committed :
    kind[j] \in {"KB_REBUILD", "KB_CLEANUP_RETIRED", "BACKUP"} => status[j] # "QUEUED"

(* A knowledge base is BUILDING while one of its files is PROCESSING only  *)
(* to make the first collection, never for a rebuild, whatever jobs that   *)
(* lost their row still go on.                                             *)
BuildingExcludesProcessing ==
  \A k \in busy \intersect KnowledgeBases, f \in busy \intersect Files :
    home[f] = k => FirstBuild(k)

(* Every submitted job comes to an end, whatever crashes in between.       *)
EveryJobEnds == \A j \in Jobs : Live(j) ~> status[j] \in Terminal
-----------------------------------------------------------------------------
=============================================================================
