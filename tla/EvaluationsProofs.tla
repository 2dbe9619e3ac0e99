-------------------------- MODULE EvaluationsProofs -------------------------
(***************************************************************************)
(* Theorems about evaluations, for any number of runs, datasets, cases,    *)
(* budgets and crashes.                                                    *)
(*                                                                         *)
(* EInv is inductive.  A row says by itself what it may still reserve      *)
(* (RowFits), so that a run that nobody executes, and that recovery may    *)
(* take up at any time, needs no word about how it was left; only the run  *)
(* in the thread has more to it (ThreadAgrees).                            *)
(***************************************************************************)
EXTENDS Evaluations, TLAPS

(* A registration on its way aims at one of the two names of its content.  *)
RequestsAgree ==
  \A q \in Requests :
    /\ request[q].at # "new" => request[q].content \in Contents
    /\ request[q].at \in {"persist", "insert"} =>
         request[q].name \in {Plain, request[q].content}
    /\ request[q].at = "insert" => request[q].content \in store

(* What was put to the providers was reserved, what was reserved was       *)
(* granted, and what waits can be reserved for a whole attempt.            *)
RowFits(row, cases) ==
  LET perCase == CallsPerCase(row.mode)
  IN /\ row.status = "none" => row = NoRow
     /\ row.status # "none" => /\ row.path \in Runs /\ row.mode \in Modes
                               /\ Cases * perCase <= row.calls
     /\ row.used <= row.reserved
     /\ cases <= row.reserved
     /\ row.reserved * perCase <= row.calls
     /\ row.mode = "rag" => row.reserved <= row.tokens
     /\ row.status = "QUEUED" => /\ row.attempt < MaxAttempts
                                 /\ (row.reserved + Cases) * perCase <= row.calls

RowsAgree == \A r \in Runs : RowFits(job[r], spent[r])

(* The run in the thread is one that is being executed, has reserved the   *)
(* case it is about to put, and has in the file what it is about to        *)
(* record.                                                                 *)
ThreadAgrees ==
  LET r == thread.run
      row == job[r]
  IN /\ thread.run = Nothing => thread = Idle
     /\ thread.at \in {"open", "check", "reserve", "work"} => thread.done < Cases
     /\ thread.run # Nothing =>
          /\ thread.at # "idle"
          /\ row.status \in {"RUNNING", "CANCEL_REQUESTED"} /\ row.attempt >= 1
          /\ thread.at = "work" => spent[r] < row.reserved
          /\ thread.at \in {"record", "finish"} => reports[row.path] = Written(r)
          /\ thread.at = "finish" => row.digest = Written(r)

EInv == /\ TypeOK /\ RegistrationsAreTrue /\ RequestsAgree
        /\ RowsAgree /\ ThreadAgrees /\ ReportIsLostOnlyToARetry
-----------------------------------------------------------------------------
(* The record of a run, and what each statement alters in it.              *)
LEMMA Numbers ==
  /\ Cases \in Nat /\ Cases > 0 /\ MaxFaults \in Nat /\ MaxAttempts = 2
  /\ \A mode : CallsPerCase(mode) \in {1, 2}
BY EvaluationsAssumption DEF MaxAttempts, CallsPerCase

LEMMA NothingIsNothing == Nothing \notin Runs /\ Nothing \notin Contents
                            /\ Nothing \notin Report /\ Plain \notin Contents
BY EvaluationsAssumption

LEMMA StatusAltered ==
  ASSUME NEW row \in JobRow, NEW status \in Alive \union Terminal
  PROVE  LET new == [row EXCEPT !.status = status]
         IN /\ new \in JobRow /\ new.status = status
            /\ new.mode = row.mode /\ new.path = row.path
            /\ new.attempt = row.attempt /\ new.calls = row.calls
            /\ new.tokens = row.tokens /\ new.reserved = row.reserved
            /\ new.used = row.used /\ new.digest = row.digest
BY DEF JobRow

LEMMA NoRowIs == NoRow \in JobRow
BY Numbers DEF NoRow, JobRow, Names

(* A row that changes only its status fits, unless it is queued for it.    *)
LEMMA StatusFits ==
  ASSUME NEW row \in JobRow, NEW cases \in Nat, RowFits(row, cases), row.status # "none",
         NEW status \in (Alive \union Terminal) \ {"QUEUED"}
  PROVE  RowFits([row EXCEPT !.status = status], cases)
BY StatusAltered DEF RowFits, Alive, Terminal

(* One row changes: the others fit as before, and what they recorded of    *)
(* their reports stays true.                                               *)
LEMMA RowChanged ==
  ASSUME TypeOK, RowsAgree, ReportIsLostOnlyToARetry,
         NEW r \in Runs, NEW row \in JobRow, job' = [job EXCEPT ![r] = row],
         UNCHANGED <<spent, reports>>,
         RowFits(row, spent[r]),
         job[r].status # "none" => row.path = job[r].path,
         row.status = "SUCCEEDED" => /\ row.digest \in Report /\ row.digest.run = r
                                     /\ reports[row.path] = row.digest
  PROVE  job' \in [Runs -> JobRow] /\ RowsAgree' /\ ReportIsLostOnlyToARetry'
<1>1. job' \in [Runs -> JobRow] /\ job'[r] = row
  BY DEF TypeOK
<1>2. \A s \in Runs \ {r} : job'[s] = job[s]
  BY DEF TypeOK
<1>3. RowsAgree'
  BY <1>1, <1>2 DEF RowsAgree
<1>4. ASSUME NEW s \in Runs, job'[s].status = "SUCCEEDED"
      PROVE  /\ job'[s].digest # Nothing /\ job'[s].digest.run = s
             /\ \/ reports'[job'[s].path] = job'[s].digest
                \/ \E other \in Runs \ {s} :
                     /\ job'[other].path = job'[s].path
                     /\ reports'[job'[s].path].run = other
  <2>1. CASE s = r
    BY <1>1, <1>4, <2>1, NothingIsNothing
  <2>2. CASE s # r
    <3>1. /\ job'[s] = job[s] /\ job[s].digest # Nothing /\ job[s].digest.run = s
          /\ \/ reports[job[s].path] = job[s].digest
             \/ \E other \in Runs \ {s} : /\ job[other].path = job[s].path
                                          /\ reports[job[s].path].run = other
      BY <1>2, <1>4, <2>2 DEF ReportIsLostOnlyToARetry
    <3>2. job[s].path \in Runs
      BY <3>1, <1>4 DEF RowsAgree, RowFits
    <3>3. \A other \in Runs : job[other].path = job[s].path =>
                                job'[other].path = job[other].path
      <4>1. job[r].status = "none" => job[r].path = Nothing
        BY DEF RowsAgree, RowFits, NoRow
      <4> QED
        BY <1>1, <1>2, <3>2, <4>1, NothingIsNothing
    <3> QED
      BY <3>1, <3>3
  <2> QED
    BY <2>1, <2>2
<1> QED
  BY <1>1, <1>3, <1>4 DEF ReportIsLostOnlyToARetry

(* Nothing of this changes.                                                *)
LEMMA RowsKept ==
  ASSUME RowsAgree, ReportIsLostOnlyToARetry, UNCHANGED <<job, spent, reports>>
  PROVE  RowsAgree' /\ ReportIsLostOnlyToARetry'
BY DEF RowsAgree, ReportIsLostOnlyToARetry
-----------------------------------------------------------------------------
(* Registrations.                                                          *)
Registration == [at : {"new", "persist", "insert", "done", "refused"},
                 name : Names, content : Contents \union {Nothing}]

DatasetsAgree ==
  /\ rows \in [Names -> Contents \union {Nothing}] /\ store \subseteq Contents
  /\ request \in [Requests -> Registration]
  /\ RegistrationsAreTrue /\ RequestsAgree

(* One registration changes, and datasets and files are only added.        *)
LEMMA RegistrationChanged ==
  ASSUME DatasetsAgree, NEW q \in Requests, NEW new \in Registration,
         request' = [request EXCEPT ![q] = new],
         rows' \in [Names -> Contents \union {Nothing}],
         store' \subseteq Contents, store \subseteq store',
         \A n \in Names : rows[n] # Nothing => rows'[n] = rows[n],
         \A n \in Names : rows'[n] # Nothing => rows'[n] \in store',
         new.at # "new" => new.content \in Contents,
         new.at \in {"persist", "insert"} => new.name \in {Plain, new.content},
         new.at = "insert" => new.content \in store',
         new.at = "done" => \E n \in {Plain, new.content} : rows'[n] = new.content
  PROVE  DatasetsAgree'
<1>1. request' \in [Requests -> Registration] /\ request'[q] = new
      /\ \A p \in Requests \ {q} : request'[p] = request[p]
  BY DEF DatasetsAgree
<1>2. RequestsAgree'
  BY <1>1 DEF DatasetsAgree, RequestsAgree
<1>3. ASSUME NEW p \in Requests, request'[p].at = "done"
      PROVE  \E n \in {Plain, request'[p].content} : rows'[n] = request'[p].content
  <2>1. CASE p = q
    BY <1>1, <1>3, <2>1
  <2>2. CASE p # q
    <3>1. request'[p] = request[p] /\ request[p].content \in Contents
      BY <1>1, <1>3, <2>2 DEF DatasetsAgree, RequestsAgree
    <3>2. PICK n \in {Plain, request[p].content} : rows[n] = request[p].content
      BY <1>3, <3>1 DEF DatasetsAgree, RegistrationsAreTrue
    <3> QED
      BY <3>1, <3>2, NothingIsNothing DEF Names
  <2> QED
    BY <2>1, <2>2
<1> QED
  BY <1>1, <1>2, <1>3 DEF DatasetsAgree, RegistrationsAreTrue

LEMMA SettleStep ==
  ASSUME DatasetsAgree, NEW q \in Requests, NEW c \in Contents, NEW n \in {Plain, c},
         rows[n] # Nothing, Settle(q, c, rows[n]), UNCHANGED <<rows, store>>
  PROVE  DatasetsAgree'
<1> DEFINE new == [request[q] EXCEPT !.content = c,
                                     !.at = IF rows[n] = c THEN "done" ELSE "refused"]
<1>1. new \in Registration /\ new.content = c
      /\ new.at = (IF rows[n] = c THEN "done" ELSE "refused")
  BY DEF DatasetsAgree, Registration
<1>2. request' = [request EXCEPT ![q] = new]
  BY DEF Settle
<1> HIDE DEF new
<1> QED
  BY <1>1, <1>2, RegistrationChanged DEF DatasetsAgree, RegistrationsAreTrue

LEMMA DatasetsStep ==
  ASSUME DatasetsAgree, NEW q \in Requests,
         Register(q) \/ RegisterLegacy(q) \/ Persist(q) \/ Insert(q)
  PROVE  DatasetsAgree'
<1>1. ASSUME NEW c \in Contents, NEW n \in {Plain, c}, LookUp(q, n, c)
      PROVE  DatasetsAgree'
  <2>1. CASE rows[n] # Nothing
    BY <1>1, <2>1, SettleStep DEF LookUp
  <2>2. CASE rows[n] = Nothing
    <3>1. [at |-> "persist", name |-> n, content |-> c] \in Registration
      BY DEF Registration, Names
    <3> QED
      BY <1>1, <2>2, <3>1, RegistrationChanged
         DEF LookUp, DatasetsAgree, RegistrationsAreTrue
  <2> QED
    BY <2>1, <2>2
<1>2. CASE Register(q)
  BY <1>1, <1>2 DEF Register
<1>3. CASE RegisterLegacy(q)
  BY <1>1, <1>3 DEF RegisterLegacy
<1>4. CASE Persist(q)
  <2> DEFINE new == [request[q] EXCEPT !.at = "insert"]
  <2>1. /\ request[q].content \in Contents
        /\ request[q].name \in {Plain, request[q].content}
    BY <1>4 DEF Persist, DatasetsAgree, RequestsAgree
  <2>2. /\ new \in Registration /\ new.at = "insert"
        /\ new.content = request[q].content /\ new.name = request[q].name
    BY DEF DatasetsAgree, Registration
  <2>3. /\ request' = [request EXCEPT ![q] = new] /\ rows' = rows
        /\ store' = store \union {request[q].content}
    BY <1>4 DEF Persist
  <2> HIDE DEF new
  <2> QED
    BY <2>1, <2>2, <2>3, RegistrationChanged DEF DatasetsAgree, RegistrationsAreTrue
<1>5. CASE Insert(q)
  <2> DEFINE n == request[q].name  c == request[q].content
             new == [request[q] EXCEPT !.at = "done"]
  <2>1. c \in Contents /\ n \in {Plain, c} /\ c \in store /\ n \in Names
    BY <1>5 DEF Insert, DatasetsAgree, RequestsAgree, Names
  <2>2. CASE rows[n] # Nothing
    BY <1>5, <2>1, <2>2, SettleStep DEF Insert
  <2>3. CASE rows[n] = Nothing
    <3>1. new \in Registration /\ new.at = "done" /\ new.content = c
      BY DEF DatasetsAgree, Registration
    <3>2. /\ request' = [request EXCEPT ![q] = new] /\ store' = store
          /\ rows' = [rows EXCEPT ![n] = c]
      BY <1>5, <2>3 DEF Insert
    <3>3. /\ rows' \in [Names -> Contents \union {Nothing}]
          /\ rows'[n] = c /\ \A m \in Names \ {n} : rows'[m] = rows[m]
      BY <2>1, <3>2 DEF DatasetsAgree
    <3> HIDE DEF new, n, c
    <3> QED
      BY <2>1, <2>3, <3>1, <3>2, <3>3, RegistrationChanged
         DEF DatasetsAgree, RegistrationsAreTrue
  <2> QED
    BY <2>2, <2>3
<1> QED
  BY <1>2, <1>3, <1>4, <1>5
-----------------------------------------------------------------------------
(* Jobs.                                                                   *)
JobsTyped ==
  /\ job \in [Runs -> JobRow]
  /\ thread \in [run : Runs \union {Nothing}, at : Steps, done : 0 .. Cases,
                 errors : 0 .. Cases]
  /\ thread.errors <= thread.done
  /\ reports \in [Runs -> Report \union {Nothing}]
  /\ partials \subseteq Runs \X (1 .. MaxAttempts)
  /\ spent \in [Runs -> Nat]
  /\ faults \in 0 .. MaxFaults

JobsAgree == JobsTyped /\ RowsAgree /\ ThreadAgrees /\ ReportIsLostOnlyToARetry

LEMMA Parts == EInv <=> DatasetsAgree /\ JobsAgree
BY DEF EInv, TypeOK, DatasetsAgree, Registration, JobsAgree, JobsTyped

LEMMA PartsAfter == DatasetsAgree' /\ JobsAgree' => EInv'
BY DEF EInv, TypeOK, DatasetsAgree, Registration, JobsAgree, JobsTyped

(* What changes one row and not the run in the thread.                     *)
LEMMA RowStep ==
  ASSUME EInv, NEW r \in Runs, NEW row \in JobRow, job' = [job EXCEPT ![r] = row],
         UNCHANGED <<spent, output, faults, thread>>,
         RowFits(row, spent[r]),
         job[r].status # "none" => row.path = job[r].path,
         row.status = "SUCCEEDED" => /\ row.digest \in Report /\ row.digest.run = r
                                     /\ reports[row.path] = row.digest,
         thread.run = r =>
           /\ row.status \in {"RUNNING", "CANCEL_REQUESTED"}
           /\ row.attempt = job[r].attempt /\ row.reserved = job[r].reserved
           /\ row.path = job[r].path /\ row.digest = job[r].digest
  PROVE  JobsAgree'
<1>1. /\ JobsTyped /\ TypeOK /\ RowsAgree /\ ThreadAgrees /\ ReportIsLostOnlyToARetry
  BY Parts DEF JobsAgree, EInv
<1>2. job' \in [Runs -> JobRow] /\ RowsAgree' /\ ReportIsLostOnlyToARetry'
  BY <1>1, RowChanged DEF output
<1>3. JobsTyped'
  BY <1>1, <1>2 DEF JobsTyped, output
<1>4. thread.run \in Runs \ {r} => job'[thread.run] = job[thread.run]
  BY <1>1 DEF JobsTyped
<1>5. job'[r] = row
  BY <1>1 DEF JobsTyped
<1>6. ThreadAgrees'
  <2>1. CASE thread.run = Nothing
    BY <1>1, <2>1 DEF ThreadAgrees, Idle
  <2>2. CASE thread.run = r
    BY <1>1, <1>5, <2>2 DEF ThreadAgrees, Written, output
  <2>3. CASE thread.run \in Runs \ {r}
    BY <1>1, <1>4, <2>3, NothingIsNothing DEF ThreadAgrees, Written, output
  <2> QED
    BY <1>1, <2>1, <2>2, <2>3 DEF JobsTyped
<1> QED
  BY <1>2, <1>3, <1>6 DEF JobsAgree

(* What changes the row of one run and leaves the thread idle.             *)
LEMMA RowLeft ==
  ASSUME EInv, NEW r \in Runs, NEW row \in JobRow, job' = [job EXCEPT ![r] = row],
         UNCHANGED <<spent, reports>>, thread' = Idle,
         partials' \subseteq partials, faults' \in 0 .. MaxFaults,
         RowFits(row, spent[r]),
         job[r].status # "none" => row.path = job[r].path,
         row.status = "SUCCEEDED" => /\ row.digest \in Report /\ row.digest.run = r
                                     /\ reports[row.path] = row.digest
  PROVE  JobsAgree'
<1>1. /\ JobsTyped /\ TypeOK /\ RowsAgree /\ ReportIsLostOnlyToARetry
  BY Parts DEF JobsAgree, EInv
<1>2. job' \in [Runs -> JobRow] /\ RowsAgree' /\ ReportIsLostOnlyToARetry'
  BY <1>1, RowChanged
<1>3. thread'.run = Nothing /\ thread'.at = "idle" /\ thread'.errors <= thread'.done
  BY DEF Idle
<1>4. JobsTyped'
  BY <1>1, <1>2, <1>3, Numbers DEF JobsTyped, Idle, Steps
<1>5. ThreadAgrees'
  BY <1>3 DEF ThreadAgrees, Idle
<1> QED
  BY <1>2, <1>4, <1>5 DEF JobsAgree

(* A run that ends without a report.                                       *)
LEMMA EndedOtherwise ==
  ASSUME EInv, NEW r \in Runs, NEW status \in {"FAILED", "CANCELLED"}, thread.run = r,
         End(r, status), UNCHANGED <<spent, reports, faults>>, partials' \subseteq partials
  PROVE  JobsAgree'
<1> DEFINE row == [job[r] EXCEPT !.status = status]
<1>1. job[r] \in JobRow /\ spent[r] \in Nat /\ RowFits(job[r], spent[r])
      /\ job[r].status # "none"
  BY NothingIsNothing DEF EInv, TypeOK, RowsAgree, ThreadAgrees
<1>2. /\ row \in JobRow /\ row.status = status /\ row.path = job[r].path
      /\ RowFits(row, spent[r])
  BY <1>1, StatusAltered, StatusFits DEF Alive, Terminal
<1>3. job' = [job EXCEPT ![r] = row] /\ thread' = Idle /\ faults' \in 0 .. MaxFaults
  BY DEF End, EInv, TypeOK
<1> HIDE DEF row
<1> QED
  BY <1>2, <1>3, RowLeft
-----------------------------------------------------------------------------
(* Submission, cancellation, retry, recovery.                              *)
LEMMA Times ==
  ASSUME NEW k \in {1, 2}, NEW a \in Nat, NEW b \in Nat
  PROVE  /\ (a + b) * k = a * k + b * k /\ a * k \in Nat /\ b * k \in Nat
         /\ (a + 1) * k = a * k + k
<1>1. CASE k = 1
  BY <1>1
<1>2. CASE k = 2
  BY <1>2
<1> QED
  BY <1>1, <1>2

(* The row of a run, and another status for it.                            *)
LEMMA RowIs ==
  ASSUME EInv, NEW r \in Runs
  PROVE  job[r] \in JobRow /\ spent[r] \in Nat /\ RowFits(job[r], spent[r])
BY DEF EInv, TypeOK, RowsAgree

LEMMA StatusSet ==
  ASSUME EInv, NEW r \in Runs, job[r].status # "none",
         NEW status \in {"CANCEL_REQUESTED", "FAILED", "CANCELLED", "SUCCEEDED"}
  PROVE  LET row == [job[r] EXCEPT !.status = status]
         IN /\ row \in JobRow /\ row.status = status /\ row.path = job[r].path
            /\ row.attempt = job[r].attempt /\ row.reserved = job[r].reserved
            /\ row.digest = job[r].digest /\ RowFits(row, spent[r])
<1>1. status \in (Alive \union Terminal) \ {"QUEUED"}
  BY DEF Alive, Terminal
<1> QED
  BY <1>1, RowIs, StatusAltered, StatusFits

(* A run that is not there yet is not in the thread either.                *)
LEMMA RowNew ==
  ASSUME EInv, NEW r \in Runs, job[r].status = "none"
  PROVE  thread.run # r /\ spent[r] = 0
<1>1. RowFits(job[r], spent[r]) /\ spent[r] \in Nat /\ thread.run # r
  BY NothingIsNothing DEF EInv, RowsAgree, TypeOK, ThreadAgrees
<1>2. job[r].reserved = 0
  BY <1>1 DEF RowFits, NoRow
<1> QED
  BY <1>1, <1>2 DEF RowFits

(* A new row, with the calls for one attempt.                              *)
LEMMA EnqueueStep ==
  ASSUME EInv, NEW r \in Runs, job[r].status = "none",
         NEW name \in Names, NEW mode \in Modes, NEW path \in Runs, NEW calls \in Nat,
         NEW tokens \in Nat, Cases * CallsPerCase(mode) <= calls,
         Enqueue(r, name, mode, path, calls, tokens),
         UNCHANGED <<thread, output, spent, faults>>
  PROVE  JobsAgree'
<1> DEFINE row == [status |-> "QUEUED", dataset |-> name, mode |-> mode, path |-> path,
                   attempt |-> 0, calls |-> calls, tokens |-> tokens, reserved |-> 0,
                   used |-> 0, late |-> FALSE, digest |-> Nothing]
<1>1. row \in JobRow
  BY Numbers DEF JobRow, Alive
<1>2. job' = [job EXCEPT ![r] = row]
  BY DEF Enqueue
<1>3. /\ row.status = "QUEUED" /\ row.path = path
      /\ row.mode = mode /\ row.calls = calls /\ row.tokens = tokens
      /\ row.attempt = 0 /\ row.reserved = 0 /\ row.used = 0
  OBVIOUS
<1> HIDE DEF row
<1>4. 0 * CallsPerCase(mode) = 0 /\ (0 + Cases) = Cases
  BY Numbers
<1>5. RowFits(row, 0)
  BY <1>3, <1>4, Numbers DEF RowFits
<1> QED
  BY <1>1, <1>2, <1>3, <1>5, RowNew, RowStep

LEMMA SubmitStep ==
  ASSUME EInv, NEW r \in Runs, Submit(r)
  PROVE  JobsAgree'
<1>1. PICK n \in Names, mode \in Modes, extra \in Extras :
        Enqueue(r, n, mode, r, Cases * CallsPerCase(mode) + extra[1],
                IF mode = "rag" THEN Cases + extra[2] ELSE 0)
  BY DEF Submit
<1> DEFINE calls == Cases * CallsPerCase(mode) + extra[1]
           tokens == IF mode = "rag" THEN Cases + extra[2] ELSE 0
<1>2. extra[1] \in Nat /\ extra[2] \in Nat
  BY EvaluationsAssumption
<1>3. Cases * CallsPerCase(mode) \in Nat
  BY Numbers, Times
<1>4. calls \in Nat /\ tokens \in Nat /\ Cases * CallsPerCase(mode) <= calls
  BY <1>2, <1>3, Numbers
<1>5. /\ job[r].status = "none" /\ UNCHANGED <<thread, output, spent, faults>>
  BY DEF Submit
<1>6. Enqueue(r, n, mode, r, calls, tokens)
  BY <1>1
<1> HIDE DEF calls, tokens
<1> QED
  BY <1>4, <1>5, <1>6, EnqueueStep

LEMMA RetryStep ==
  ASSUME EInv, NEW old \in Runs, NEW r \in Runs, Retry(old, r)
  PROVE  JobsAgree'
<1> DEFINE was == job[old]
<1>1. /\ job[r].status = "none" /\ was.status \in {"FAILED", "CANCELLED"}
      /\ Enqueue(r, was.dataset, was.mode, was.path, was.calls, was.tokens)
      /\ UNCHANGED <<thread, output, spent, faults>>
  BY DEF Retry
<1>2. was \in JobRow /\ RowFits(was, spent[old])
  BY RowIs
<1>3. /\ was.path \in Runs /\ was.mode \in Modes
      /\ Cases * CallsPerCase(was.mode) <= was.calls
  BY <1>1, <1>2 DEF RowFits
<1>4. was.dataset \in Names /\ was.calls \in Nat /\ was.tokens \in Nat
  BY <1>2 DEF JobRow
<1> HIDE DEF was
<1> QED
  BY <1>1, <1>3, <1>4, EnqueueStep

LEMMA CancelStep ==
  ASSUME EInv, NEW r \in Runs, Cancel(r)
  PROVE  JobsAgree'
<1>1. /\ job[r].status \in {"QUEUED", "RUNNING"}
      /\ job' = [job EXCEPT ![r].status = IF job[r].status = "QUEUED" THEN "CANCELLED"
                                          ELSE "CANCEL_REQUESTED"]
      /\ UNCHANGED <<thread, output, spent, faults>>
  BY DEF Cancel
<1>2. ASSUME NEW status \in {"CANCEL_REQUESTED", "CANCELLED"},
             job' = [job EXCEPT ![r].status = status],
             thread.run = r => status = "CANCEL_REQUESTED"
      PROVE  JobsAgree'
  <2> DEFINE row == [job[r] EXCEPT !.status = status]
  <2>1. /\ row \in JobRow /\ row.status = status /\ row.path = job[r].path
        /\ row.attempt = job[r].attempt /\ row.reserved = job[r].reserved
        /\ row.digest = job[r].digest /\ RowFits(row, spent[r])
    <3>1. job[r].status # "none"
      BY <1>1
    <3>2. status \in {"CANCEL_REQUESTED", "FAILED", "CANCELLED", "SUCCEEDED"}
      OBVIOUS
    <3> QED
      BY <3>1, <3>2, StatusSet
  <2>2. job' = [job EXCEPT ![r] = row]
    BY <1>2
  <2> HIDE DEF row
  <2> QED
    BY <1>1, <1>2, <2>1, <2>2, RowStep
<1>3. CASE job[r].status = "QUEUED"
  <2>1. thread.run # r
    BY <1>3, NothingIsNothing DEF EInv, ThreadAgrees
  <2> QED
    BY <1>1, <1>2, <1>3, <2>1
<1>4. CASE job[r].status = "RUNNING"
  BY <1>1, <1>2, <1>4
<1> QED
  BY <1>1, <1>3, <1>4

LEMMA DeadlineStep ==
  ASSUME EInv, NEW r \in Runs, DeadlinePasses(r)
  PROVE  JobsAgree'
<1> DEFINE row == [job[r] EXCEPT !.late = TRUE]
<1>1. /\ thread.run = r /\ job' = [job EXCEPT ![r] = row]
      /\ UNCHANGED <<thread, output, spent, faults>>
  BY DEF DeadlinePasses
<1>2. job[r].status \in {"RUNNING", "CANCEL_REQUESTED"}
  BY <1>1, NothingIsNothing DEF EInv, ThreadAgrees
<1>3. /\ row \in JobRow /\ row.status = job[r].status /\ row.path = job[r].path
      /\ row.attempt = job[r].attempt /\ row.reserved = job[r].reserved
      /\ row.digest = job[r].digest /\ row.used = job[r].used /\ row.mode = job[r].mode
      /\ row.calls = job[r].calls /\ row.tokens = job[r].tokens
  BY RowIs DEF JobRow
<1> HIDE DEF row
<1>4. RowFits(row, spent[r])
  BY <1>2, <1>3, RowIs DEF RowFits
<1> QED
  BY <1>1, <1>2, <1>3, <1>4, RowStep

(* What recovery makes of a row that was under way.                        *)
LEMMA RecoveredIs ==
  ASSUME EInv, NEW r \in Runs, job[r].status \in {"RUNNING", "CANCEL_REQUESTED"}
  PROVE  \E row \in JobRow :
           /\ Recovered(r) = [job EXCEPT ![r] = row]
           /\ RowFits(row, spent[r]) /\ row.path = job[r].path
           /\ row.status = "SUCCEEDED" => /\ row.digest \in Report /\ row.digest.run = r
                                          /\ reports[row.path] = row.digest
<1> DEFINE found == reports[job[r].path]
<1>1. job \in [Runs -> JobRow] /\ job[r].path \in Runs /\ found \in Report \union {Nothing}
  BY RowIs DEF EInv, TypeOK, RowFits
<1>2. CASE Verified(r)
  <2> DEFINE row == [job[r] EXCEPT !.status = "SUCCEEDED", !.digest = found]
  <2>1. found \in Report /\ found.run = r
    BY <1>1, <1>2 DEF Verified
  <2>2. /\ row \in JobRow /\ row.status = "SUCCEEDED" /\ row.path = job[r].path
        /\ row.digest = found /\ row.attempt = job[r].attempt
        /\ row.reserved = job[r].reserved /\ row.used = job[r].used
        /\ row.mode = job[r].mode /\ row.calls = job[r].calls
        /\ row.tokens = job[r].tokens
    BY <2>1, RowIs DEF JobRow, Terminal
  <2>3. Recovered(r) = [job EXCEPT ![r] = row]
    BY <1>1, <1>2 DEF Recovered
  <2> HIDE DEF row
  <2>4. RowFits(row, spent[r])
    BY <2>2, RowIs DEF RowFits
  <2> QED
    BY <2>1, <2>2, <2>3, <2>4
<1>3. CASE ~Verified(r) /\ CanStartOver(job[r])
  <2> DEFINE row == [job[r] EXCEPT !.status = "QUEUED"]
             k == CallsPerCase(job[r].mode)
  <2>1. /\ row \in JobRow /\ row.status = "QUEUED" /\ row.path = job[r].path
        /\ row.attempt = job[r].attempt
        /\ row.reserved = job[r].reserved /\ row.used = job[r].used
        /\ row.mode = job[r].mode /\ row.calls = job[r].calls
        /\ row.tokens = job[r].tokens
    BY RowIs, StatusAltered DEF Alive
  <2>2. Recovered(r) = [job EXCEPT ![r] = row]
    BY <1>3 DEF Recovered
  <2> HIDE DEF row
  <2>3. job[r].calls \in Nat /\ job[r].reserved \in Nat
    BY RowIs DEF JobRow
  <2>4. (job[r].reserved + Cases) * k <= job[r].calls
    <3>1. job[r].calls - job[r].reserved * k >= Cases * k
      BY <1>3 DEF CanStartOver
    <3>2. (job[r].reserved + Cases) * k = job[r].reserved * k + Cases * k
          /\ job[r].reserved * k \in Nat /\ Cases * k \in Nat
      BY <2>3, Numbers, Times
    <3> HIDE DEF k
    <3> QED
      BY <2>3, <3>1, <3>2
  <2>5. job[r].attempt < MaxAttempts
    BY <1>3 DEF CanStartOver
  <2>6. RowFits(row, spent[r])
    BY <2>1, <2>4, <2>5, RowIs DEF RowFits
  <2> QED
    BY <2>1, <2>2, <2>6
<1>4. CASE ~Verified(r) /\ ~CanStartOver(job[r])
  <2> DEFINE row == [job[r] EXCEPT !.status = "FAILED"]
  <2>1. /\ row \in JobRow /\ row.status = "FAILED" /\ row.path = job[r].path
        /\ RowFits(row, spent[r])
    BY StatusSet
  <2>2. Recovered(r) = [job EXCEPT ![r] = row]
    BY <1>4 DEF Recovered
  <2> HIDE DEF row
  <2> QED
    BY <2>1, <2>2
<1> QED
  BY <1>2, <1>3, <1>4

LEMMA RecoverStep ==
  ASSUME EInv, NEW r \in Runs, Recover(r)
  PROVE  JobsAgree'
<1>1. /\ job[r].status \in {"RUNNING", "CANCEL_REQUESTED"} /\ thread.run # r
      /\ UNCHANGED <<thread, output, spent, faults>>
  BY DEF Recover
<1>2. CASE job[r].status = "CANCEL_REQUESTED"
  <2> DEFINE row == [job[r] EXCEPT !.status = "CANCELLED"]
  <2>1. /\ row \in JobRow /\ row.status = "CANCELLED" /\ row.path = job[r].path
        /\ RowFits(row, spent[r])
    BY <1>1, StatusSet
  <2>2. job' = [job EXCEPT ![r] = row]
    BY <1>2 DEF Recover
  <2> HIDE DEF row
  <2> QED
    BY <1>1, <2>1, <2>2, RowStep
<1>3. CASE job[r].status # "CANCEL_REQUESTED"
  <2>1. job' = Recovered(r)
    BY <1>3 DEF Recover
  <2> QED
    BY <1>1, <2>1, RecoveredIs, RowStep
<1> QED
  BY <1>2, <1>3

LEMMA TransientStep ==
  ASSUME EInv, NEW r \in Runs, Transient(r)
  PROVE  JobsAgree'
<1>1. /\ thread.run = r /\ thread' = Idle
      /\ UNCHANGED <<output, spent>> /\ faults < MaxFaults /\ faults' = faults + 1
  BY DEF Transient
<1>2. job[r].status \in {"RUNNING", "CANCEL_REQUESTED"}
  BY <1>1, NothingIsNothing DEF EInv, ThreadAgrees
<1>3. faults' \in 0 .. MaxFaults
  BY <1>1, Numbers DEF EInv, TypeOK
<1>4. ASSUME NEW status \in {"FAILED", "CANCELLED"},
             job' = [job EXCEPT ![r].status = status]
      PROVE  JobsAgree'
  <2> DEFINE row == [job[r] EXCEPT !.status = status]
  <2>1. /\ row \in JobRow /\ row.status = status /\ row.path = job[r].path
        /\ RowFits(row, spent[r])
    BY <1>2, StatusSet
  <2>2. job' = [job EXCEPT ![r] = row]
    BY <1>4
  <2> HIDE DEF row
  <2> QED
    BY <1>1, <1>3, <2>1, <2>2, RowLeft DEF output
<1>5. CASE job' = Recovered(r)
  BY <1>1, <1>2, <1>3, <1>5, RecoveredIs, RowLeft DEF output
<1> QED
  BY <1>4, <1>5 DEF Transient

LEMMA CrashStep ==
  ASSUME EInv, Crash
  PROVE  JobsAgree'
<1>1. /\ thread' = Idle /\ UNCHANGED <<job, output, spent>>
      /\ faults < MaxFaults /\ faults' = faults + 1
  BY DEF Crash
<1>2. JobsTyped /\ RowsAgree /\ ReportIsLostOnlyToARetry
  BY Parts DEF JobsAgree
<1>3. JobsTyped'
  BY <1>1, <1>2, Numbers DEF JobsTyped, output, Idle, Steps
<1>4. RowsAgree' /\ ReportIsLostOnlyToARetry'
  BY <1>1, <1>2, RowsKept DEF output
<1>5. ThreadAgrees'
  BY <1>1 DEF ThreadAgrees, Idle
<1> QED
  BY <1>3, <1>4, <1>5 DEF JobsAgree
-----------------------------------------------------------------------------
(* One attempt.                                                            *)
LEMMA ClaimAltered ==
  ASSUME NEW row \in JobRow, NEW attempt \in 0 .. MaxAttempts
  PROVE  LET new == [row EXCEPT !.status = "RUNNING", !.attempt = attempt]
         IN /\ new \in JobRow /\ new.status = "RUNNING" /\ new.attempt = attempt
            /\ new.mode = row.mode /\ new.path = row.path
            /\ new.calls = row.calls /\ new.tokens = row.tokens
            /\ new.reserved = row.reserved
            /\ new.used = row.used /\ new.digest = row.digest
BY DEF JobRow, Alive

LEMMA ClaimStep ==
  ASSUME EInv, NEW r \in Runs, Claim(r)
  PROVE  JobsAgree'
<1> DEFINE row == [job[r] EXCEPT !.status = "RUNNING", !.attempt = job[r].attempt + 1]
<1>1. /\ job[r].status = "QUEUED" /\ job' = [job EXCEPT ![r] = row]
      /\ thread' = [run |-> r, at |-> "open", done |-> 0, errors |-> 0]
      /\ UNCHANGED <<output, spent, faults>>
  BY DEF Claim, EInv, TypeOK
<1>2. job[r].attempt \in 0 .. 2 /\ job[r].attempt < 2
  BY <1>1, RowIs, Numbers DEF JobRow, RowFits
<1>3. job[r].attempt + 1 \in 1 .. 2
  BY <1>2
<1>4. /\ row \in JobRow /\ row.status = "RUNNING" /\ row.attempt = job[r].attempt + 1
      /\ row.path = job[r].path
      /\ row.reserved = job[r].reserved
      /\ row.digest = job[r].digest /\ row.used = job[r].used /\ row.mode = job[r].mode
      /\ row.calls = job[r].calls /\ row.tokens = job[r].tokens
  <2>1. job[r].attempt + 1 \in 0 .. MaxAttempts
    BY <1>3, Numbers
  <2>2. job[r] \in JobRow
    BY RowIs
  <2> QED
    BY <2>1, <2>2, ClaimAltered
<1> HIDE DEF row
<1>5. RowFits(row, spent[r])
  BY <1>1, <1>4, RowIs DEF RowFits
<1>6. JobsTyped /\ TypeOK /\ RowsAgree /\ ReportIsLostOnlyToARetry
  BY Parts DEF JobsAgree, EInv
<1>7. job' \in [Runs -> JobRow] /\ RowsAgree' /\ ReportIsLostOnlyToARetry'
  BY <1>1, <1>4, <1>5, <1>6, RowChanged DEF output
<1>8. JobsTyped'
  BY <1>1, <1>6, <1>7, Numbers DEF JobsTyped, output, Steps
<1>9. job'[r] = row
  BY <1>1, <1>6 DEF JobsTyped
<1>10. ThreadAgrees'
  BY <1>1, <1>3, <1>4, <1>9, Numbers, NothingIsNothing DEF ThreadAgrees
<1> QED
  BY <1>7, <1>8, <1>10 DEF JobsAgree

(* The run in the thread.                                                  *)
LEMMA ThreadIs ==
  ASSUME EInv, NEW r \in Runs, thread.run = r
  PROVE  /\ job[r].status \in {"RUNNING", "CANCEL_REQUESTED"}
         /\ job[r].attempt \in 1 .. MaxAttempts
         /\ thread.at = "work" => spent[r] < job[r].reserved
         /\ thread.at \in {"record", "finish"} => reports[job[r].path] = Written(r)
         /\ thread.at = "finish" => job[r].digest = Written(r)
         /\ Written(r) \in Report
         /\ job[r].path \in Runs
<1>1. r # Nothing
  BY NothingIsNothing
<1>2. /\ job[r].status \in {"RUNNING", "CANCEL_REQUESTED"} /\ job[r].attempt >= 1
      /\ thread.at = "work" => spent[r] < job[r].reserved
      /\ thread.at \in {"record", "finish"} => reports[job[r].path] = Written(r)
      /\ thread.at = "finish" => job[r].digest = Written(r)
  BY <1>1 DEF EInv, ThreadAgrees
<1>3. job[r].attempt \in 1 .. MaxAttempts /\ thread.errors \in 0 .. Cases
  BY <1>2, RowIs, Numbers DEF JobRow, EInv, TypeOK
<1> QED
  BY <1>2, <1>3, RowIs DEF Written, Report, RowFits

(* The thread goes on, and no row or report changes.                       *)
LEMMA ThreadGoesOn ==
  ASSUME EInv, NEW r \in Runs, thread.run = r,
         NEW step \in Steps \ {"idle", "work", "record", "finish"}, Goto(step),
         UNCHANGED <<job, reports, spent, faults>>,
         partials' \subseteq Runs \X (1 .. MaxAttempts),
         step \in {"open", "check", "reserve"} => thread.done < Cases
  PROVE  JobsAgree'
<1>1. JobsTyped /\ RowsAgree /\ ReportIsLostOnlyToARetry
  BY Parts DEF JobsAgree
<1>2. /\ thread'.run = r /\ thread'.at = step /\ thread'.done = thread.done
      /\ thread'.errors = thread.errors
      /\ thread' \in [run : Runs \union {Nothing}, at : Steps, done : 0 .. Cases,
                      errors : 0 .. Cases]
  BY <1>1 DEF Goto, JobsTyped
<1>3. JobsTyped'
  BY <1>1, <1>2 DEF JobsTyped
<1>4. RowsAgree' /\ ReportIsLostOnlyToARetry'
  BY <1>1, RowsKept
<1>5. ThreadAgrees'
  BY <1>2, ThreadIs, NothingIsNothing, Numbers DEF ThreadAgrees
<1> QED
  BY <1>3, <1>4, <1>5 DEF JobsAgree

(* The row of the run in the thread changes with its step.                 *)
LEMMA ThreadWrites ==
  ASSUME EInv, NEW r \in Runs, thread.run = r, NEW row \in JobRow,
         job' = [job EXCEPT ![r] = row], NEW step \in Steps \ {"idle", "open"}, Goto(step),
         UNCHANGED <<output, spent, faults>>,
         row.status = job[r].status, row.path = job[r].path,
         row.attempt = job[r].attempt, RowFits(row, spent[r]),
         step \in {"check", "reserve", "work"} => thread.done < Cases,
         step = "work" => spent[r] < row.reserved,
         step \in {"record", "finish"} => reports[row.path] = Written(r),
         step = "finish" => row.digest = Written(r)
  PROVE  JobsAgree'
<1>1. JobsTyped /\ TypeOK /\ RowsAgree /\ ReportIsLostOnlyToARetry
  BY Parts DEF JobsAgree, EInv
<1>2. /\ thread'.run = r /\ thread'.at = step /\ thread'.done = thread.done
      /\ thread'.errors = thread.errors
      /\ thread' \in [run : Runs \union {Nothing}, at : Steps, done : 0 .. Cases,
                      errors : 0 .. Cases]
  BY <1>1 DEF Goto, JobsTyped
<1>3. /\ job[r].status \in {"RUNNING", "CANCEL_REQUESTED"}
      /\ job[r].attempt \in 1 .. MaxAttempts
  BY ThreadIs
<1>4. job' \in [Runs -> JobRow] /\ RowsAgree' /\ ReportIsLostOnlyToARetry'
  BY <1>1, <1>3, RowChanged DEF output
<1>5. JobsTyped'
  BY <1>1, <1>2, <1>4 DEF JobsTyped, output
<1>6. job'[r] = row
  BY <1>1 DEF JobsTyped
<1>7. Written(r)' = Written(r)
  BY <1>2, <1>6 DEF Written
<1>8. thread'.run # Nothing /\ row.attempt >= 1
  BY <1>2, <1>3, NothingIsNothing, Numbers
<1>9. ThreadAgrees'
  <2>1. Written(thread.run)' = Written(r)
    BY <1>2, <1>6 DEF Written
  <2> QED
    BY <1>2, <1>3, <1>6, <1>8, <2>1 DEF ThreadAgrees, output
<1> QED
  BY <1>4, <1>5, <1>9 DEF JobsAgree
-----------------------------------------------------------------------------
(* The steps of an attempt.                                                *)
LEMMA OpenStep ==
  ASSUME EInv, NEW r \in Runs, thread.run = r, Open(r)
  PROVE  JobsAgree'
<1>1. thread.at = "open" /\ thread.done < Cases /\ partials' \subseteq partials
      /\ UNCHANGED <<reports, spent, faults>>
  BY DEF Open, At, EInv, ThreadAgrees
<1>2. partials' \subseteq Runs \X (1 .. MaxAttempts)
  BY <1>1 DEF EInv, TypeOK
<1>3. CASE rows[job[r].dataset] \in store
  BY <1>1, <1>2, <1>3, ThreadGoesOn DEF Open, Steps
<1>4. CASE rows[job[r].dataset] \notin store
  BY <1>1, <1>4, EndedOtherwise DEF Open
<1> QED
  BY <1>3, <1>4

LEMMA CheckStep ==
  ASSUME EInv, NEW r \in Runs, thread.run = r, Check(r)
  PROVE  JobsAgree'
<1>1. /\ thread.at = "check" /\ thread.done < Cases
      /\ UNCHANGED <<partials, reports, spent, faults>>
      /\ partials' \subseteq Runs \X (1 .. MaxAttempts)
  BY DEF Check, At, output, EInv, ThreadAgrees, TypeOK
<1>2. CASE job[r].status = "CANCEL_REQUESTED"
  BY <1>1, <1>2, EndedOtherwise DEF Check
<1>3. CASE job[r].status # "CANCEL_REQUESTED"
  BY <1>1, <1>3, ThreadGoesOn DEF Check, Steps
<1> QED
  BY <1>2, <1>3

LEMMA ReserveStep ==
  ASSUME EInv, NEW r \in Runs, thread.run = r, Reserve(r)
  PROVE  JobsAgree'
<1>1. /\ thread.at = "reserve" /\ thread.done < Cases
      /\ UNCHANGED <<output, spent, faults>>
  BY DEF Reserve, At, EInv, ThreadAgrees
<1>2. CASE ~job[r].late /\ Affordable(job[r])
  <2> DEFINE row == [job[r] EXCEPT !.reserved = job[r].reserved + 1]
             k == CallsPerCase(job[r].mode)
  <2>1. job' = [job EXCEPT ![r] = row] /\ Goto("work")
    BY <1>2 DEF Reserve
  <2>2. job[r].reserved \in Nat /\ job[r].reserved + 1 \in Nat /\ job[r].used \in Nat
    BY RowIs DEF JobRow
  <2>3. /\ row \in JobRow /\ row.status = job[r].status /\ row.path = job[r].path
        /\ row.attempt = job[r].attempt /\ row.reserved = job[r].reserved + 1
        /\ row.digest = job[r].digest /\ row.used = job[r].used /\ row.mode = job[r].mode
        /\ row.calls = job[r].calls /\ row.tokens = job[r].tokens
    BY <2>2, RowIs DEF JobRow
  <2> HIDE DEF row
  <2>4. /\ (job[r].reserved + 1) * k <= job[r].calls
        /\ job[r].mode = "rag" => job[r].reserved + 1 <= job[r].tokens
    BY <1>2 DEF Affordable
  <2>5. /\ job[r].used <= job[r].reserved + 1 /\ spent[r] < job[r].reserved + 1
        /\ spent[r] <= job[r].reserved + 1
    BY <2>2, RowIs DEF RowFits
  <2>6. job[r].status \in {"RUNNING", "CANCEL_REQUESTED"}
    BY ThreadIs
  <2>7. RowFits(row, spent[r])
    BY <2>3, <2>4, <2>5, <2>6, RowIs DEF RowFits
  <2>8. "work" \in Steps \ {"idle", "open"}
    BY DEF Steps
  <2> QED
    BY <1>1, <2>1, <2>3, <2>5, <2>7, <2>8, ThreadWrites
<1>3. CASE ~(~job[r].late /\ Affordable(job[r]))
  BY <1>1, <1>3, EndedOtherwise DEF Reserve, output
<1> QED
  BY <1>2, <1>3

LEMMA WorkStep ==
  ASSUME EInv, NEW r \in Runs, thread.run = r, Work(r)
  PROVE  JobsAgree'
<1>1. /\ thread.at = "work" /\ spent' = [spent EXCEPT ![r] = spent[r] + 1]
      /\ UNCHANGED <<job, output, faults>>
  BY DEF Work, At
<1>2. JobsTyped /\ RowsAgree /\ ReportIsLostOnlyToARetry /\ thread.done < Cases
  BY <1>1, Parts DEF JobsAgree, ThreadAgrees
<1>3. PICK failed \in 0 .. 1 :
        thread' = [thread EXCEPT !.at = "consume", !.done = @ + 1, !.errors = @ + failed]
  BY DEF Work
<1>4. /\ thread.done + 1 \in 0 .. Cases /\ thread.errors + failed \in 0 .. Cases
      /\ thread.errors + failed <= thread.done + 1
  BY <1>2, Numbers DEF JobsTyped
<1>5. /\ thread' \in [run : Runs \union {Nothing}, at : Steps, done : 0 .. Cases,
                      errors : 0 .. Cases]
      /\ thread'.run = r /\ thread'.at = "consume" /\ thread'.errors <= thread'.done
  BY <1>2, <1>3, <1>4 DEF JobsTyped, Steps
<1>6. /\ spent' \in [Runs -> Nat] /\ spent'[r] = spent[r] + 1
      /\ \A s \in Runs \ {r} : spent'[s] = spent[s]
  BY <1>1, <1>2 DEF JobsTyped
<1>7. JobsTyped'
  BY <1>1, <1>2, <1>5, <1>6 DEF JobsTyped, output
<1>8. RowsAgree'
  <2>1. spent[r] < job[r].reserved /\ spent[r] \in Nat /\ job[r].reserved \in Nat
    BY <1>1, ThreadIs, RowIs DEF JobRow
  <2>2. spent[r] + 1 <= job[r].reserved
    BY <2>1
  <2>3. job[r].status \in {"RUNNING", "CANCEL_REQUESTED"}
    BY ThreadIs
  <2>4. RowFits(job[r], spent[r] + 1)
    BY <2>2, <2>3, RowIs DEF RowFits
  <2> QED
    BY <1>1, <1>2, <1>6, <2>4 DEF RowsAgree
<1>9. ReportIsLostOnlyToARetry'
  BY <1>1, <1>2 DEF ReportIsLostOnlyToARetry, output
<1>10. ThreadAgrees'
  BY <1>1, <1>5, ThreadIs, NothingIsNothing, Numbers DEF ThreadAgrees
<1> QED
  BY <1>7, <1>8, <1>9, <1>10 DEF JobsAgree

LEMMA ConsumeStep ==
  ASSUME EInv, NEW r \in Runs, thread.run = r, Consume(r)
  PROVE  JobsAgree'
<1>1. thread.at = "consume" /\ UNCHANGED <<output, spent, faults>>
  BY DEF Consume, At
<1>2. CASE job[r].used < job[r].reserved
  <2> DEFINE row == [job[r] EXCEPT !.used = job[r].used + 1]
             step == IF thread.done = Cases THEN "sum" ELSE "check"
  <2>1. job' = [job EXCEPT ![r] = row] /\ Goto(step)
    BY <1>2 DEF Consume
  <2>2. job[r].used \in Nat /\ job[r].used + 1 \in Nat /\ job[r].reserved \in Nat
        /\ job[r].used + 1 <= job[r].reserved
    BY <1>2, RowIs DEF JobRow
  <2>3. /\ row \in JobRow /\ row.status = job[r].status /\ row.path = job[r].path
        /\ row.attempt = job[r].attempt /\ row.reserved = job[r].reserved
        /\ row.digest = job[r].digest /\ row.used = job[r].used + 1
        /\ row.mode = job[r].mode
        /\ row.calls = job[r].calls /\ row.tokens = job[r].tokens
    BY <2>2, RowIs DEF JobRow
  <2> HIDE DEF row
  <2>4. job[r].status \in {"RUNNING", "CANCEL_REQUESTED"}
    BY ThreadIs
  <2>5. RowFits(row, spent[r])
    BY <2>2, <2>3, <2>4, RowIs DEF RowFits
  <2>6. /\ step \in Steps \ {"idle", "open"} /\ step \in {"sum", "check"}
        /\ step = "check" => thread.done < Cases
    BY Numbers DEF Steps, EInv, TypeOK
  <2> HIDE DEF step
  <2> QED
    BY <1>1, <2>1, <2>3, <2>5, <2>6, ThreadWrites
<1>3. CASE ~(job[r].used < job[r].reserved)
  BY <1>1, <1>3, EndedOtherwise DEF Consume, output
<1> QED
  BY <1>2, <1>3

LEMMA SumStep ==
  ASSUME EInv, NEW r \in Runs, thread.run = r, Sum(r)
  PROVE  JobsAgree'
<1>1. /\ UNCHANGED <<partials, reports, spent, faults>>
      /\ partials' \subseteq Runs \X (1 .. MaxAttempts)
  BY DEF Sum, output, EInv, TypeOK
<1>2. CASE Aggregates(r)
  BY <1>1, <1>2, ThreadGoesOn DEF Sum, Steps
<1>3. CASE ~Aggregates(r)
  BY <1>1, <1>3, EndedOtherwise DEF Sum
<1> QED
  BY <1>2, <1>3

LEMMA WritePartialStep ==
  ASSUME EInv, NEW r \in Runs, thread.run = r, WritePartial(r)
  PROVE  JobsAgree'
<1>1. job[r].path \in Runs /\ job[r].attempt \in 1 .. MaxAttempts
  BY ThreadIs
<1>2. partials' \subseteq Runs \X (1 .. MaxAttempts)
  BY <1>1 DEF WritePartial, EInv, TypeOK
<1> QED
  BY <1>2, ThreadGoesOn DEF WritePartial, Steps

LEMMA ReplaceReportStep ==
  ASSUME EInv, NEW r \in Runs, thread.run = r, ReplaceReport(r)
  PROVE  JobsAgree'
<1> DEFINE p == job[r].path
<1>1. /\ reports' = [reports EXCEPT ![p] = Written(r)] /\ Goto("record")
      /\ partials' \subseteq partials /\ UNCHANGED <<job, spent, faults>>
  BY DEF ReplaceReport
<1>2. JobsTyped /\ RowsAgree /\ ReportIsLostOnlyToARetry
  BY Parts DEF JobsAgree
<1>3. /\ Written(r) \in Report /\ p \in Runs
      /\ job[r].status \in {"RUNNING", "CANCEL_REQUESTED"}
  BY ThreadIs
<1>4. /\ reports' \in [Runs -> Report \union {Nothing}] /\ reports'[p] = Written(r)
      /\ \A s \in Runs \ {p} : reports'[s] = reports[s]
  BY <1>1, <1>2, <1>3 DEF JobsTyped
<1>5. /\ thread'.run = r /\ thread'.at = "record" /\ thread'.done = thread.done
      /\ thread'.errors = thread.errors
      /\ thread' \in [run : Runs \union {Nothing}, at : Steps, done : 0 .. Cases,
                      errors : 0 .. Cases]
  BY <1>1, <1>2 DEF Goto, JobsTyped, Steps
<1>6. JobsTyped'
  BY <1>1, <1>2, <1>4, <1>5 DEF JobsTyped
<1>7. RowsAgree'
  BY <1>1, <1>2 DEF RowsAgree
<1>8. ASSUME NEW s \in Runs, job'[s].status = "SUCCEEDED"
      PROVE  /\ job'[s].digest # Nothing /\ job'[s].digest.run = s
             /\ \/ reports'[job'[s].path] = job'[s].digest
                \/ \E other \in Runs \ {s} :
                     /\ job'[other].path = job'[s].path
                     /\ reports'[job'[s].path].run = other
  <2>1. /\ job'[s] = job[s] /\ job[s].digest # Nothing /\ job[s].digest.run = s
        /\ \/ reports[job[s].path] = job[s].digest
           \/ \E other \in Runs \ {s} : /\ job[other].path = job[s].path
                                        /\ reports[job[s].path].run = other
    BY <1>1, <1>2, <1>8 DEF ReportIsLostOnlyToARetry
  <2>2. s # r /\ job[s].path \in Runs
    BY <1>2, <1>3, <1>8, <2>1 DEF RowsAgree, RowFits
  <2>3. CASE job[s].path = p
    <3>1. reports'[job[s].path].run = r
      BY <1>4, <2>3 DEF Written
    <3> QED
      BY <1>1, <2>1, <2>2, <2>3, <3>1
  <2>4. CASE job[s].path # p
    BY <1>1, <1>4, <2>1, <2>2, <2>4
  <2> QED
    BY <2>3, <2>4
<1>9. ThreadAgrees'
  <2>1. Written(thread.run)' = Written(r)
    BY <1>1, <1>5 DEF Written
  <2> QED
    BY <1>1, <1>4, <1>5, <2>1, ThreadIs, NothingIsNothing, Numbers DEF ThreadAgrees
<1> QED
  BY <1>6, <1>7, <1>8, <1>9 DEF JobsAgree, ReportIsLostOnlyToARetry

LEMMA RecordStep ==
  ASSUME EInv, NEW r \in Runs, thread.run = r, Record(r)
  PROVE  JobsAgree'
<1> DEFINE row == [job[r] EXCEPT !.digest = Written(r)]
<1>1. /\ thread.at = "record" /\ job' = [job EXCEPT ![r] = row] /\ Goto("finish")
      /\ UNCHANGED <<output, spent, faults>>
  BY DEF Record, At
<1>2. /\ Written(r) \in Report /\ reports[job[r].path] = Written(r)
      /\ job[r].status \in {"RUNNING", "CANCEL_REQUESTED"}
  BY <1>1, ThreadIs
<1>3. /\ row \in JobRow /\ row.status = job[r].status /\ row.path = job[r].path
      /\ row.attempt = job[r].attempt /\ row.reserved = job[r].reserved
      /\ row.digest = Written(r) /\ row.used = job[r].used /\ row.mode = job[r].mode
      /\ row.calls = job[r].calls /\ row.tokens = job[r].tokens
  BY <1>2, RowIs DEF JobRow
<1> HIDE DEF row
<1>4. RowFits(row, spent[r])
  BY <1>2, <1>3, RowIs DEF RowFits
<1>5. "finish" \in Steps \ {"idle", "open"}
  BY DEF Steps
<1> QED
  BY <1>1, <1>2, <1>3, <1>4, <1>5, ThreadWrites

LEMMA FinishStep ==
  ASSUME EInv, NEW r \in Runs, thread.run = r, Finish(r)
  PROVE  JobsAgree'
<1> DEFINE row == [job[r] EXCEPT !.status = "SUCCEEDED"]
<1>1. /\ thread.at = "finish" /\ job' = [job EXCEPT ![r] = row] /\ thread' = Idle
      /\ UNCHANGED <<partials, reports, spent, faults>> /\ faults' \in 0 .. MaxFaults
  BY DEF Finish, At, End, output, EInv, TypeOK
<1>2. /\ job[r].digest = Written(r) /\ reports[job[r].path] = Written(r)
      /\ Written(r) \in Report /\ job[r].status # "none" /\ Written(r).run = r
  BY <1>1, ThreadIs DEF Written
<1>3. /\ row \in JobRow /\ row.path = job[r].path /\ row.digest = job[r].digest
      /\ RowFits(row, spent[r])
  BY <1>2, StatusSet
<1> HIDE DEF row
<1> QED
  BY <1>1, <1>2, <1>3, RowLeft
-----------------------------------------------------------------------------
LEMMA EInvInit == Init => EInv
<1> SUFFICES ASSUME Init PROVE EInv
  OBVIOUS
<1>1. DatasetsAgree
  BY NothingIsNothing DEF Init, DatasetsAgree, Registration, RegistrationsAreTrue,
                          RequestsAgree, Names
<1>2. JobsTyped
  BY NoRowIs, Numbers DEF Init, JobsTyped, Idle, Steps
<1>3. RowsAgree
  <2>1. RowFits(NoRow, 0)
    BY Numbers DEF RowFits, NoRow, CallsPerCase
  <2> QED
    BY <2>1 DEF Init, RowsAgree
<1>4. ThreadAgrees /\ ReportIsLostOnlyToARetry
  BY DEF Init, ThreadAgrees, ReportIsLostOnlyToARetry, Idle, NoRow
<1> QED
  BY <1>1, <1>2, <1>3, <1>4, Parts DEF JobsAgree

LEMMA EInvStep ==
  ASSUME EInv, [Next]_vars
  PROVE  EInv'
<1>0. DatasetsAgree /\ JobsAgree
  BY Parts
<1>1. ASSUME UNCHANGED datasets PROVE DatasetsAgree'
  BY <1>0, <1>1 DEF DatasetsAgree, datasets, RegistrationsAreTrue, RequestsAgree
<1>2. ASSUME UNCHANGED <<job, thread, output, spent, faults>> PROVE JobsAgree'
  BY <1>0, <1>2 DEF JobsAgree, JobsTyped, RowsAgree, ThreadAgrees, Written, output,
                    ReportIsLostOnlyToARetry
<1>3. ASSUME NEW q \in Requests,
             Register(q) \/ RegisterLegacy(q) \/ Persist(q) \/ Insert(q)
      PROVE  EInv'
  <2>1. DatasetsAgree'
    BY <1>0, <1>3, DatasetsStep
  <2>2. JobsAgree'
    BY <1>2, <1>3 DEF Register, RegisterLegacy, LookUp, Persist, Insert
  <2> QED
    BY <2>1, <2>2, PartsAfter
<1>4. ASSUME NEW r \in Runs,
             \/ Submit(r) \/ Cancel(r) \/ DeadlinePasses(r) \/ Claim(r) \/ Recover(r)
             \/ Transient(r) \/ \E old \in Runs : Retry(old, r)
      PROVE  EInv'
  <2>1. UNCHANGED datasets
    BY <1>4 DEF Submit, Cancel, DeadlinePasses, Claim, Recover, Transient, Retry
  <2>2. JobsAgree'
    BY <1>4, SubmitStep, CancelStep, DeadlineStep, ClaimStep, RecoverStep, TransientStep,
       RetryStep
  <2> QED
    BY <1>1, <2>1, <2>2, PartsAfter
<1>5. ASSUME NEW r \in Runs, Execute(r) PROVE EInv'
  <2>1. UNCHANGED datasets
    BY <1>5 DEF Execute, Open, Check, Reserve, Work, Consume, Sum, WritePartial,
                ReplaceReport, Record, Finish
  <2>2. JobsAgree'
    BY <1>5, OpenStep, CheckStep, ReserveStep, WorkStep, ConsumeStep, SumStep,
       WritePartialStep, ReplaceReportStep, RecordStep, FinishStep DEF Execute
  <2> QED
    BY <1>1, <2>1, <2>2, PartsAfter
<1>6. ASSUME Crash PROVE EInv'
  BY <1>1, <1>6, CrashStep, PartsAfter DEF Crash
<1>7. ASSUME UNCHANGED vars PROVE EInv'
  BY <1>1, <1>2, <1>7, PartsAfter DEF vars, datasets, output
<1> QED
  BY <1>3, <1>4, <1>5, <1>6, <1>7 DEF Next

LEMMA EInvHolds == Spec => []EInv
<1>1. Init => EInv
  BY EInvInit
<1>2. EInv /\ [Next]_vars => EInv'
  BY EInvStep
<1> QED
  BY <1>1, <1>2, PTL DEF Spec

(* The types, for any runs, datasets, cases and budgets.                   *)
THEOREM TypeCorrect == Spec => []TypeOK
<1>1. EInv => TypeOK
  BY DEF EInv
<1> QED
  BY <1>1, EInvHolds, PTL

(* Whoever registers a dataset is told of one with the content that was    *)
(* sent, however many registrations of a name overlap.                     *)
THEOREM AnswersAreTrue == Spec => []RegistrationsAreTrue
<1>1. EInv => RegistrationsAreTrue
  BY DEF EInv
<1> QED
  BY <1>1, EInvHolds, PTL

(* A run never puts more to the providers than it was granted, over all    *)
(* its attempts and whenever it crashed between reserving and consuming.   *)
THEOREM BudgetsHold == Spec => []BudgetIsRespected
<1>1. ASSUME EInv, NEW r \in Runs
      PROVE  LET row == job[r] IN
               /\ row.used <= row.reserved
               /\ spent[r] * CallsPerCase(row.mode) <= row.calls
               /\ row.mode = "rag" => spent[r] <= row.tokens
               /\ row.status = "QUEUED" =>
                    (row.reserved + Cases) * CallsPerCase(row.mode) <= row.calls
  <2> DEFINE k == CallsPerCase(job[r].mode)
  <2>1. /\ RowFits(job[r], spent[r]) /\ spent[r] \in Nat /\ job[r].reserved \in Nat
        /\ job[r].calls \in Nat /\ job[r].tokens \in Nat /\ k \in {1, 2}
    BY <1>1, RowIs, Numbers DEF JobRow
  <2>2. spent[r] <= job[r].reserved /\ job[r].reserved * k <= job[r].calls
    BY <2>1 DEF RowFits
  <2>3. spent[r] * k <= job[r].calls
    <3> HIDE DEF k
    <3>1. CASE k = 1
      BY <2>1, <2>2, <3>1
    <3>2. CASE k = 2
      BY <2>1, <2>2, <3>2
    <3> QED
      BY <2>1, <3>1, <3>2
  <2>4. job[r].mode = "rag" => spent[r] <= job[r].tokens
    <3>1. job[r].mode = "rag" => job[r].reserved <= job[r].tokens
      BY <2>1 DEF RowFits
    <3> QED
      BY <2>1, <2>2, <3>1
  <2> QED
    BY <2>1, <2>3, <2>4 DEF RowFits
<1>2. EInv => BudgetIsRespected
  BY <1>1 DEF BudgetIsRespected, EInv
<1> QED
  BY <1>2, EInvHolds, PTL

(* The report a run has recorded is its own, and only the report of a run  *)
(* with the same path, a retry or what it retried, takes its place.        *)
THEOREM ReportsAreOwn == Spec => []ReportIsLostOnlyToARetry
<1>1. EInv => ReportIsLostOnlyToARetry
  BY DEF EInv
<1> QED
  BY <1>1, EInvHolds, PTL
=============================================================================
