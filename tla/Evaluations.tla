---------------------------- MODULE Evaluations ----------------------------
(***************************************************************************)
(* Evaluations: the registration of datasets, runs over a fixed dataset    *)
(* with a budget reserved case by case, the report, crashes, the recovery  *)
(* of an interrupted run and the manual retry (evaluation_service.py,      *)
(* evaluation_catalog_service.py, job_recovery_service.py,                 *)
(* job_repository.py, job_service.py, api/evaluations.py).                 *)
(*                                                                         *)
(* Each action is one transaction, one change of a file or one call of a   *)
(* provider.  Simplifications:                                             *)
(*  - a report is the run and the attempt that wrote it and how many of    *)
(*    its cases failed; two reports are equal when their SHA-256 is;       *)
(*  - every dataset has Cases cases.  The mode and the token limit of a    *)
(*    run are fixed, so the reserved and the used calls and tokens are     *)
(*    multiples of what one case takes: they are counted in cases, and a   *)
(*    token budget is in units of CHAT_MAX_TOKENS;                         *)
(*  - an abandoned temporary file bears the job and the attempt: as an     *)
(*    attempt opens once, its name is always free;                         *)
(*  - the collection a run is pinned to is the subject of                  *)
(*    KnowledgeBaseIndex; that a retrieval fails is left open here.        *)
(***************************************************************************)
EXTENDS Integers

CONSTANTS
  Runs,       \* identities of job rows
  Requests,   \* registrations of datasets
  Contents,   \* contents of datasets
  Plain,      \* the name under which datasets are registered
  Modes,      \* a subset of {"retrieval", "rag"}
  Cases,      \* the cases of a dataset
  Extras,     \* <<calls, tokens>> granted beyond what one attempt needs
  MaxFaults,  \* bound on crashes and SQLite errors
  Nothing     \* no run, no content, no report

MaxAttempts == 2

Report == [run : Runs, attempt : 1 .. MaxAttempts, errors : 0 .. Cases]

ASSUME EvaluationsAssumption ==
  /\ Modes \subseteq {"retrieval", "rag"}
  /\ Cases \in Nat \ {0}
  /\ Extras \subseteq Nat \X Nat
  /\ MaxFaults \in Nat
  /\ Nothing \notin Runs \union Contents \union Report
  /\ Plain \notin Contents

VARIABLES
  rows,      \* rows[n]: sha256 of the owner's dataset of name n
  store,     \* the contents in the content-addressed directory
  request,   \* the registrations of datasets
  job,       \* the rows of the evaluation jobs
  thread,    \* the one thread of the worker
  reports,   \* reports[p]: the file at the report path that run p was given
  partials,  \* the temporary files <<path, attempt>> on disk
  spent,     \* spent[r]: the cases of run r that were put to the providers
  faults

vars == <<rows, store, request, job, thread, reports, partials, spent, faults>>
datasets == <<rows, store, request>>
output == <<reports, partials>>

\* The name of the dataset, or the name with a digest of its content.
Names == {Plain} \union Contents

Alive == {"QUEUED", "RUNNING", "CANCEL_REQUESTED"}
Terminal == {"SUCCEEDED", "FAILED", "CANCELLED"}

CallsPerCase(mode) == IF mode = "rag" THEN 2 ELSE 1

JobRow ==
  [status : {"none"} \union Alive \union Terminal,
   dataset : Names, mode : Modes \union {"none"}, path : Runs \union {Nothing},
   attempt : 0 .. MaxAttempts, calls : Nat, tokens : Nat,
   reserved : Nat, used : Nat, late : BOOLEAN, digest : Report \union {Nothing}]

NoRow ==
  [status |-> "none", dataset |-> Plain, mode |-> "none", path |-> Nothing,
   attempt |-> 0, calls |-> 0, tokens |-> 0, reserved |-> 0, used |-> 0,
   late |-> FALSE, digest |-> Nothing]

Steps == {"idle", "open", "check", "reserve", "work", "consume",
          "sum", "write", "replace", "record", "finish"}

\* done cases of the attempt were executed, and errors of them failed.
Idle == [run |-> Nothing, at |-> "idle", done |-> 0, errors |-> 0]

TypeOK ==
  /\ rows \in [Names -> Contents \union {Nothing}]
  /\ store \subseteq Contents
  /\ request \in [Requests -> [at : {"new", "persist", "insert", "done", "refused"},
                               name : Names, content : Contents \union {Nothing}]]
  /\ job \in [Runs -> JobRow]
  /\ thread \in [run : Runs \union {Nothing}, at : Steps, done : 0 .. Cases,
                 errors : 0 .. Cases]
  /\ thread.errors <= thread.done
  /\ reports \in [Runs -> Report \union {Nothing}]
  /\ partials \subseteq Runs \X (1 .. MaxAttempts)
  /\ spent \in [Runs -> Nat]
  /\ faults \in 0 .. MaxFaults

Init ==
  /\ rows = [n \in Names |-> Nothing]
  /\ store = {}
  /\ request = [q \in Requests |-> [at |-> "new", name |-> Plain, content |-> Nothing]]
  /\ job = [r \in Runs |-> NoRow]
  /\ thread = Idle
  /\ reports = [r \in Runs |-> Nothing]
  /\ partials = {}
  /\ spent = [r \in Runs |-> 0]
  /\ faults = 0

-----------------------------------------------------------------------------
(***************************************************************************)
(* Datasets.                                                               *)
(***************************************************************************)

(* MUTANT of Settle: a name that is taken is answered with what is there. *)
SettleByName(q, content, found) ==
  request' = [request EXCEPT ![q].content = content, ![q].at = "done"]

\* The dataset of that name is the answer if it has that content.
Settle(q, content, found) ==
  request' = [request EXCEPT ![q].content = content,
                             ![q].at = IF found = content THEN "done" ELSE "refused"]

LookUp(q, name, content) ==
  /\ request[q].at = "new"
  /\ IF rows[name] # Nothing
     THEN Settle(q, content, rows[name])
     ELSE request' = [request EXCEPT ![q] =
                        [at |-> "persist", name |-> name, content |-> content]]
  /\ UNCHANGED <<rows, store, job, thread, output, spent, faults>>

Register(q) == \E c \in Contents : LookUp(q, Plain, c)

\* The compatible endpoint evades a name that is taken by another content.
RegisterLegacy(q) ==
  \E c \in Contents :
    LookUp(q, IF rows[Plain] \in {Nothing, c} THEN Plain ELSE c, c)

Persist(q) ==
  /\ request[q].at = "persist"
  /\ store' = store \union {request[q].content}
  /\ request' = [request EXCEPT ![q].at = "insert"]
  /\ UNCHANGED <<rows, job, thread, output, spent, faults>>

\* The unique constraint on owner and name decides between two insertions.
Insert(q) ==
  /\ request[q].at = "insert"
  /\ LET n == request[q].name  c == request[q].content IN
       IF rows[n] = Nothing
       THEN /\ rows' = [rows EXCEPT ![n] = c]
            /\ request' = [request EXCEPT ![q].at = "done"]
       ELSE Settle(q, c, rows[n]) /\ UNCHANGED rows
  /\ UNCHANGED <<store, job, thread, output, spent, faults>>

-----------------------------------------------------------------------------
(***************************************************************************)
(* Submission, cancellation, retry.                                        *)
(***************************************************************************)

Duplicate(name, mode) ==
  \E r \in Runs : /\ job[r].status \in Alive
                  /\ job[r].dataset = name
                  /\ job[r].mode = mode

\* A new row of a job, at the end of the queue.
Enqueue(r, name, mode, path, calls, tokens) ==
  job' = [job EXCEPT ![r] =
    [status |-> "QUEUED", dataset |-> name, mode |-> mode, path |-> path,
     attempt |-> 0, calls |-> calls, tokens |-> tokens, reserved |-> 0,
     used |-> 0, late |-> FALSE, digest |-> Nothing]]

Submit(r) ==
  /\ job[r].status = "none"
  /\ \E n \in Names, mode \in Modes, extra \in Extras :
       /\ rows[n] # Nothing
       /\ ~ Duplicate(n, mode)
       /\ Enqueue(r, n, mode, r, Cases * CallsPerCase(mode) + extra[1],
                  IF mode = "rag" THEN Cases + extra[2] ELSE 0)
  /\ UNCHANGED <<datasets, thread, output, spent, faults>>

Cancel(r) ==
  /\ job[r].status \in {"QUEUED", "RUNNING"}
  /\ job' = [job EXCEPT ![r].status =
               IF @ = "QUEUED" THEN "CANCELLED" ELSE "CANCEL_REQUESTED"]
  /\ UNCHANGED <<datasets, thread, output, spent, faults>>

\* A retry is a new job with the payload of the old one, report path included,
\* and with a budget and a deadline of its own.
Retry(old, r) ==
  /\ job[old].status \in {"FAILED", "CANCELLED"}
  /\ job[r].status = "none"
  /\ LET was == job[old] IN
       Enqueue(r, was.dataset, was.mode, was.path, was.calls, was.tokens)
  /\ UNCHANGED <<datasets, thread, output, spent, faults>>

\* The deadline is read by Reserve only, and is let pass just before it.
DeadlinePasses(r) ==
  /\ thread.run = r
  /\ thread.at = "reserve"
  /\ ~ job[r].late
  /\ job' = [job EXCEPT ![r].late = TRUE]
  /\ UNCHANGED <<datasets, thread, output, spent, faults>>

-----------------------------------------------------------------------------
(***************************************************************************)
(* One attempt.                                                            *)
(***************************************************************************)

Claim(r) ==
  /\ thread = Idle
  /\ job[r].status = "QUEUED"
  /\ job' = [job EXCEPT ![r].status = "RUNNING", ![r].attempt = @ + 1]
  /\ thread' = [run |-> r, at |-> "open", done |-> 0, errors |-> 0]
  /\ UNCHANGED <<datasets, output, spent, faults>>

At(step) == thread.at = step
Goto(step) == thread' = [thread EXCEPT !.at = step]

\* Results of the handler: JobWorker._finish writes the end of the job.
End(r, status) ==
  /\ job' = [job EXCEPT ![r].status = status]
  /\ thread' = Idle

\* The dataset is read and its hash compared; a temporary file of an attempt
\* with the same number (of the run this one retries) is moved aside.
Open(r) ==
  /\ At("open")
  /\ IF rows[job[r].dataset] \in store
     THEN /\ Goto("check")
          /\ partials' = partials \ {<<job[r].path, job[r].attempt>>}
          /\ UNCHANGED job
     ELSE End(r, "FAILED") /\ UNCHANGED partials
  /\ UNCHANGED <<datasets, reports, spent, faults>>

Check(r) ==
  /\ At("check")
  /\ IF job[r].status = "CANCEL_REQUESTED"
     THEN End(r, "CANCELLED")
     ELSE Goto("reserve") /\ UNCHANGED job
  /\ UNCHANGED <<datasets, output, spent, faults>>

(* MUTANT of Affordable: compares what was consumed. *)
AffordableByUse(row) ==
  /\ (row.used + 1) * CallsPerCase(row.mode) <= row.calls
  /\ row.mode = "rag" => row.used + 1 <= row.tokens

\* reserve_evaluation_budget: the condition of the UPDATE statement.
Affordable(row) ==
  /\ (row.reserved + 1) * CallsPerCase(row.mode) <= row.calls
  /\ row.mode = "rag" => row.reserved + 1 <= row.tokens

Reserve(r) ==
  /\ At("reserve")
  /\ IF ~ job[r].late /\ Affordable(job[r])
     THEN /\ job' = [job EXCEPT ![r].reserved = @ + 1]
          /\ Goto("work")
     ELSE End(r, "FAILED")
  /\ UNCHANGED <<datasets, output, spent, faults>>

\* Retrieval, and in mode rag one generation; an exception is the case's error.
Work(r) ==
  /\ At("work")
  /\ spent' = [spent EXCEPT ![r] = @ + 1]
  /\ \E failed \in 0 .. 1 :
       thread' = [thread EXCEPT !.at = "consume", !.done = @ + 1, !.errors = @ + failed]
  /\ UNCHANGED <<datasets, job, output, faults>>

Consume(r) ==
  /\ At("consume")
  /\ IF job[r].used < job[r].reserved
     THEN /\ job' = [job EXCEPT ![r].used = @ + 1]
          /\ Goto(IF thread.done = Cases THEN "sum" ELSE "check")
     ELSE End(r, "FAILED")
  /\ UNCHANGED <<datasets, output, spent, faults>>

\* In mode rag a failed case has no answer_point_recall, and float(None) raises.
Aggregates(r) ==
  job[r].mode = "rag" => thread.errors = 0

(* MUTANT of Sum: without metrics the run ends without a report. *)
SumOrFinish(r) ==
  /\ At("sum")
  /\ Goto(IF Aggregates(r) THEN "write" ELSE "finish")
  /\ UNCHANGED <<datasets, job, output, spent, faults>>

Sum(r) ==
  /\ At("sum")
  /\ IF Aggregates(r)
     THEN Goto("write") /\ UNCHANGED job
     ELSE End(r, "FAILED")
  /\ UNCHANGED <<datasets, output, spent, faults>>

WritePartial(r) ==
  /\ At("write")
  /\ partials' = partials \union {<<job[r].path, job[r].attempt>>}
  /\ Goto("replace")
  /\ UNCHANGED <<datasets, job, reports, spent, faults>>

Written(r) == [run |-> r, attempt |-> job[r].attempt, errors |-> thread.errors]

ReplaceReport(r) ==
  /\ At("replace")
  /\ partials' = partials \ {<<job[r].path, job[r].attempt>>}
  /\ reports' = [reports EXCEPT ![job[r].path] = Written(r)]
  /\ Goto("record")
  /\ UNCHANGED <<datasets, job, spent, faults>>

Record(r) ==
  /\ At("record")
  /\ job' = [job EXCEPT ![r].digest = Written(r)]
  /\ Goto("finish")
  /\ UNCHANGED <<datasets, output, spent, faults>>

Finish(r) ==
  /\ At("finish")
  /\ End(r, "SUCCEEDED")
  /\ UNCHANGED <<datasets, output, spent, faults>>

-----------------------------------------------------------------------------
(***************************************************************************)
(* Faults and recovery.                                                    *)
(***************************************************************************)

\* A report at the run's path that names the run, and has the recorded digest
\* if one was recorded.
Verified(r) ==
  LET found == reports[job[r].path] IN
    /\ found # Nothing
    /\ found.run = r
    /\ job[r].digest \in {Nothing, found}

\* Only the calls are compared: the tokens may not suffice for another attempt.
CanStartOver(row) ==
  /\ row.calls - row.reserved * CallsPerCase(row.mode) >= Cases * CallsPerCase(row.mode)
  /\ row.attempt < MaxAttempts

Recovered(r) ==
  IF Verified(r)
  THEN [job EXCEPT ![r].status = "SUCCEEDED", ![r].digest = reports[job[r].path]]
  ELSE [job EXCEPT ![r].status = IF CanStartOver(job[r]) THEN "QUEUED" ELSE "FAILED"]

Crash ==
  /\ faults < MaxFaults
  /\ thread # Idle
  /\ faults' = faults + 1
  /\ thread' = Idle
  /\ UNCHANGED <<datasets, job, output, spent>>

\* The lease expired: nobody executes the run any more.
Recover(r) ==
  /\ job[r].status \in {"RUNNING", "CANCEL_REQUESTED"}
  /\ thread.run # r
  /\ job' = IF job[r].status = "CANCEL_REQUESTED"
            THEN [job EXCEPT ![r].status = "CANCELLED"]
            ELSE Recovered(r)
  /\ UNCHANGED <<datasets, thread, output, spent, faults>>

\* An OperationalError outside the handling of a case: the worker recovers the
\* run at once if an attempt is left, and fails it otherwise.
Transient(r) ==
  /\ thread.run = r
  /\ thread.at \in {"check", "reserve", "consume", "record"}
  /\ faults < MaxFaults
  /\ faults' = faults + 1
  /\ thread' = Idle
  /\ job' = IF job[r].attempt = MaxAttempts
            THEN [job EXCEPT ![r].status = "FAILED"]
            ELSE IF job[r].status = "CANCEL_REQUESTED"
                 THEN [job EXCEPT ![r].status = "CANCELLED"]
                 ELSE Recovered(r)
  /\ UNCHANGED <<datasets, output, spent>>

-----------------------------------------------------------------------------
Execute(r) ==
  /\ thread.run = r
  /\ \/ Open(r) \/ Check(r) \/ Reserve(r) \/ Work(r) \/ Consume(r) \/ Sum(r)
     \/ WritePartial(r) \/ ReplaceReport(r) \/ Record(r) \/ Finish(r)

Next ==
  \/ \E q \in Requests : Register(q) \/ RegisterLegacy(q) \/ Persist(q) \/ Insert(q)
  \/ \E r \in Runs : \/ Submit(r) \/ Cancel(r) \/ DeadlinePasses(r)
                     \/ Claim(r) \/ Execute(r) \/ Recover(r) \/ Transient(r)
                     \/ \E old \in Runs : Retry(old, r)
  \/ Crash

Spec == Init /\ [][Next]_vars

-----------------------------------------------------------------------------
(***************************************************************************)
(* Properties.                                                             *)
(***************************************************************************)

(* A registration is answered with a dataset only if that dataset has the  *)
(* content that was sent, and the content of every dataset is on disk,     *)
(* whichever of two registrations of one name comes first.                 *)
RegistrationsAreTrue ==
  /\ \A n \in Names : rows[n] # Nothing => rows[n] \in store
  /\ \A q \in Requests :
       request[q].at = "done" =>
         \E n \in {Plain, request[q].content} : rows[n] = request[q].content

(* Over all the attempts of a run, crashes included, the cases put to the  *)
(* providers never exceed the calls and the tokens granted to the run; and *)
(* a run that recovery puts back in the queue still has the calls for every *)
(* one of its cases, for it starts again at the first.  (And the variables *)
(* have their types.)                                                      *)
BudgetIsRespected ==
  /\ TypeOK
  /\ \A r \in Runs :
       LET row == job[r] IN
         /\ row.used <= row.reserved
         /\ spent[r] * CallsPerCase(row.mode) <= row.calls
         /\ row.mode = "rag" => spent[r] <= row.tokens
         /\ row.status = "QUEUED" =>
              (row.reserved + Cases) * CallsPerCase(row.mode) <= row.calls

(* The digest of a run that succeeded is that of a complete report of the  *)
(* run itself, and the file has it unless another run that was given the   *)
(* same path has put its own report there.                                 *)
ReportIsLostOnlyToARetry ==
  \A r \in Runs :
    job[r].status = "SUCCEEDED" =>
      /\ job[r].digest # Nothing
      /\ job[r].digest.run = r
      /\ \/ reports[job[r].path] = job[r].digest
         \/ \E other \in Runs \ {r} :
              /\ job[other].path = job[r].path
              /\ reports[job[r].path].run = other

=============================================================================
