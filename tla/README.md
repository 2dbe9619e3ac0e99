# Verification of Local RAG Chat

TLA+ models of the parts of Local RAG Chat in which threads, processes and two
stores have to agree, the TLC configurations that check them on small
instances, and proofs that the TLA+ proof system checks for every instance.

Contents: [inventory](#1-inventory) · [modules](#2-modules-and-how-they-correspond-to-the-code)
· [runs](#3-runs) · [fairness](#4-fairness) · [proofs](#5-proofs)
· [observations](#6-observations)
· [what is left out](#7-what-is-not-modelled) · [plan](#8-plan)

## 1. Inventory

The program is one Python process (FastAPI, `InstanceLock` keeps a second one
out). Inside it API threads serve requests and one worker thread runs durable
jobs, with a heartbeat thread for the job it is running. Its state lives in
three stores that share no transaction: SQLite (WAL), a Chroma vector store, and
directories of uploads and backups. `main.py` 56-128 starts and stops
everything; its middleware (173-200) refuses every request that is not a read
(logging in and cancelling a job excepted) while a `BACKUP_DRAINING` row exists.

| component | state it keeps | operations | what is hard | what makes it correct | status |
|---|---|---|---|---|---|
| runtime barrier and locks (`runtime_coordinator.py`) | counters of shared and exclusive holders and of waiting writers, a condition, the admin lock and the vector lock | enter and leave a shared, exclusive, admin or vector section, nested by operations | nesting, reentry per thread, lost wake-ups, starvation of backups | backups and writes exclude each other, nobody waits for ever, the counters mean what they say | partly: not the services it constructs |
| durable jobs (`job_service`, `job_repository`, `job_worker`, `job_handlers`, `job_recovery_service`, `api/jobs`) | one row per job (type, status, lease, attempts), rows of files and knowledge bases they claim, the draining row | submit, claim, checkpoint, effect, finish, defer, transient retry, cancel, manual retry, lease expiry, recovery, startup sweep | crashes between any two commits, a cancel at any moment, a late worker, the two-step read and write of a cancel | conflicting jobs exclude each other, attempts are bounded, an end is final, nothing is stranded, every job ends | partly: progress and heart-beat writes are abstracted to leases |
| online backup (`backup_service`, `api/backups`) | draining row, snapshot, `.partial` and archive | drain, wait for quiescence, copy three stores, sign, rename | writes during the copy, crash in the copy, a deletion half done before it | an archive is of one moment and whole; draining has an owner | partly: names and sizes of members are not |
| file processing (`file_service`, `api/files`) | file rows, uploads, vectors | upload, process, reprocess, delete | replacement across stores with compensation, recovery, changed chunking | READY means its chunks are there, a replacement happens altogether or not at all | partly: not batches and listings |
| knowledge base index (`knowledge_base_rebuild_service`, `api/indexes`) | four collection pointers, rebuild status | rebuild, activate, switch, cleanup, rollback, abort, recover | two stores without a common transaction, crash between any two steps, pins | the active collection is complete, nothing is lost or orphaned | partly: not the creation and deletion of a knowledge base, nor the read-only comparison of `index_state_service` |
| vector store (`vector_store_service`) | collections, their life cycle and rows | create, mark, delete, replace and restore a file's rows, query | errors swallowed by callers, an upsert and a trim that are two calls | life cycles agree with pointers, rows with files | partly: not health checks and client caches |
| evaluation (`evaluation_service`, `evaluation_catalog_service`, `api/evaluations`) | data sets, pins, budget, reports | register, submit, retry, run, reconcile | pins against cleanup, budget spent before a crash, one report path for several jobs | a pinned collection stays; the budget holds; a success has its own report | partly: not the metrics themselves |
| chat turns and streaming (`api/chat`, `chat_history_service`, `session_repository`) | messages and their status | ask, stream, cancel, retry, disconnect, delete, restart | stop, disconnect and completion racing for one status; a rebuild submitted meanwhile; a row and a table in memory that nothing but the request connects | one active answer per session, a stop hits its own answer only, nothing is left in STREAMING unless given up | partly: not feedback, titles, sources and audit |
| retrieval (`retrieval_orchestrator`, `retrieval_service`, `evidence_sufficiency_service`, `web_search_service`, `untrusted_content_service`) | a cache of hits; pools of threads per question | choose the mode, retrieve, judge, search, fetch, merge | two sides in threads that share a session, a deadline, redirects, cancellation, repeats | what leaves the process was allowed, the audit says what happened, evidence is distinct and clean | partly: not the parsing of pages |
| answer generation (`rag_service`, `chat_model_service`) | none | fit the context, call the model, guard the stream, validate citations | references cut into pieces, retries after output, shares of a budget | what was shown is the answer, citations exist, the prompt fits | partly: not the wording |
| authentication and rate limiting (`auth_service`, `security`, `api/auth`) | users, identities, a bounded table of buckets | register, bootstrap, log in | two registrations of one name, clock readings that overtake each other, a full table | a name leads to one account; cooldowns and counts hold | partly: not hashing, tokens and proxy headers |
| user administration (`user_admin_service`) | roles, standing, audit events | update a user | concurrent demotions, stale columns | an active administrator remains; the audit trail explains every account | modelled |
| product settings (`product_settings_service`, `core/product_settings`) | row and in-memory snapshot | load, update, replace, restart | order of commits against order of replacements | memory follows the row | modelled |
| startup, shutdown, instance lock (`main.py`, `instance_lock.py`) | lock file, threads | start, stop | stop while a job runs, a script beside the server | one process at the data | partly: the middleware and the join on shutdown as far as jobs are concerned |
| migrations and database start (`app/database`, `migrate_database`, `prepare_local_database`, `run_migrations`) | the database file, its revision, candidates | check, migrate in place, upgrade a copy, cut over | crash between two renames, a tool without the lock | no answered write is lost; what is moved away was restored before | partly: schema statements are abstracted to revisions |
| offline backup and restore (`backup_restore_service`, `pre_migration_backup`, `restore_pre_migration_backup`) | staged directories, physical archives | back up, drill, restore | crash in the middle, damaged archive | a target is complete and what was archived | partly: limits of archive members are not |
| documents and embeddings | none | parse, split, call | external calls | – | not modelled: functions of their input |
| dashboard, metrics, health | none | read | – | – | not modelled: read-only |
| web frontend, Streamlit client | view state | – | – | – | not modelled: clients |
| configuration, launchers, release scripts | none | validate | – | – | not modelled: sequential tooling |

How they interact. An API handler takes a shared permit of the barrier, then the
admin lock where it changes the shape of an index, then the vector lock where it
touches a collection. Submitting a job is one SQLite write transaction that
checks the conflict rules and claims the rows the job will work on. The worker
claims a job, takes the same locks while it runs the handler, checks for a
cancel at checkpoints, and finishes the row. A backup takes the exclusive side of
the barrier; the draining row keeps new writes out before that. Recovery (at
startup, and when a lease is over) looks at the business rows to decide how a
job whose worker is gone ended. The hazards are listed, at their lines, in
`PROJECT.json`.

## 2. Modules and how they correspond to the code

`PROJECT.json` maps every definition to the lines it stands for.

### ReadWriteExclusion, WriteBarrier

`ReadWriteExclusion` is the promise: a set of granted permits to write, which may
overlap, at most one owner of the system, and never both. `WriteBarrier` is
`runtime_coordinator.py`: the counters of the code (`readers`, `writer`,
`waitingWriters`), its condition variable, and the two locks. A thread runs an *operation*, a sequence of
sections that it enters and leaves like nested `with` blocks; the constant `Plan`
gives the operations. `MCWriteBarrier` uses those of the program:

| operation | sections, outermost first | code |
|---|---|---|
| update a user | shared | `api/users.py` 96 |
| upload a file | shared, shared, admin | `api/files.py` 90, `file_service.py` 68 |
| roll back | shared, admin, vector | `knowledge_base_rebuild_service.py` 563-564 |
| retry an evaluation | shared, vector | `api/jobs.py` 115-116 |
| process a file | vector, vector | `file_service.py` 351 and the reentrant vector store lock |
| backup, submission of one | exclusive | `backup_service.py` 101, `api/backups.py` 53, `api/jobs.py` 112 |

`ImplementsExclusion` is the refinement: `ReadWriteExclusion` instantiated with
the threads that hold a shared or the exclusive section.

### JobQueue

The job rows, the file and knowledge base rows they claim, the draining row, and
one worker. One action per commit: `Submit` with the conflict rules,
`Claim`, the checkpoint, `Commit` (the effect of the job: vectors and READY, the
switch, the archive, the report), `Activate` (below), `Finish`, `Defer` (a pinned cleanup), transient
retry, `LeaseExpires` and `Reconcile` (the recovery of each type), `Crash`,
`ThreadDies` (an error of the database outside a handler ends the worker thread
while requests are still served), `Restart` and `Boot` with its sweeps, `Shutdown`.
The constants are the jobs, the files and their knowledge bases, the types a run
submits, the bound on faults, and `Overlap`.

The first file of a knowledge base also makes its first collection. While it is
PROCESSING the knowledge base is BUILDING, with no `rebuild_job_id`: no job holds it
(`holder`), only `rebuild_run_id` names the job (`builder`). `Activate` is the commit that sets
BUILDING (`file_service.py` 507-520), `Commit` the one that switches the pointer (`indexed`) and
leaves it. What an exception undoes is chosen in `Raise` from `Undoes`: the claim of the file and the
BUILDING of its knowledge base are undone in transactions of their own, each of
which may fail, and the second is left out when the vectors cannot be taken back (567-568). What is
left is freed by the preflight of a file job that is queued already (`Cleared`), by a rebuild, which is refused
but resets the knowledge base as it ends (`Finish`), by
`AbortBuilding`, or by the sweep of the next start. `NoStrandedResource` names it as an exception (`FirstBuild`).

A cancel request reads the row outside the write transaction and writes it
later. With `Overlap = FALSE` this is one action, `Cancel`; with
`Overlap = TRUE` it is `ReadForCancel` and `WriteCancel` with anything in
between. Both are checked, since the two answer different questions: what the
queue guarantees as designed, and what survives the overlap.

Simplifications: a handler is one working state and one effect step (the index
handlers are taken apart in the next module); a manual retry is a submission;
rows are never deleted; a knowledge base that has an active collection keeps it; progress writes and the quarantine conflict branch of
`_recover_backup` are left out; the evaluation budget is in `Evaluations`, and so is what makes a report
verify: here recovery may find any committed evaluation without its report and queue it again.

### KnowledgeBaseIndex

One knowledge base with at least one file and one embedding configuration:
its four pointers, the collections in Chroma with life cycle and completeness,
the latest maintenance job, evaluations that are being submitted, submitted or
retried. Each action is one commit or one Chroma call, with the checks before
it. `op` is the step of whoever holds the admin lock (rebuild, first activation,
cleanup job, rollback, abort). An evaluation that is being submitted reads the active
collection under the vector lock (`fixing`); `VectorFree` is the guard of steps
that need that lock meanwhile, `VectorHeld` tells when a rollback or a cleanup
job, which keep the lock over all their steps, has it. A rebuild takes it for
single calls only. A fault is a crash of the process
or a failing call of Chroma or SQLite between two steps.

It relies on `JobQueue` for one thing: at most one maintenance job of the
knowledge base is under way (`ConflictsAreExcluded` in `JobQueueProofs`, proved
for cancel requests that nothing overlaps; section 6 says what an overlapping
one does to the queue). Attempts are counted there; here a recovery may run the
job again or give up.

Simplifications: only the latest job row is kept; rows of a collection are
abstracted to "holds every file"; `_validate_distinct_pointers` and the ownership
check of `rebuild_job_id` are left out because the states they refuse are never
reached (`PointersAreDistinct`; a submission sets `rebuild_job_id`); the orphan scan
is left out because there are no orphans (`NoOrphans`); a cleanup pointer that is
stale when a cleanup job is submitted is not modelled.

### ChatTurn

One chat session: its row, the status of each answer and which answers have an
error (SQLite), the `ActiveChat` of the session (`occupied`, `bound`, `stop`, in memory), and
the requests that answer: `sync` (`POST /chat`), `stream`, and `retry` of an
answer. `step` is where a request is:

| step | code |
|---|---|
| `new`, `begun` | before and after `begin_chat` |
| `unslotted` | the session was created with the question, `begin_chat` is to come |
| `started`, `greeting`, `working` | after the commit of the turn; after `bind_chat_message`; inside the `try` |
| `answered`, `telling` | the last piece came; COMPLETE is committed, sources and `done` are being sent |
| `failing`, `closing` | in an `except` branch; the `finally` with `end_chat` is next |
| `dropping` | as `closing`, but the end could not be written |
| `left`, `refused`, `done` | the generator was never closed; given up; over |

A request that is refused by `begin_chat` changes nothing and is not a step. The
other actors are the client that stops an answer (`CheckStop` reads the row,
`RequestStop` sets the flag later), the one that deletes the session
(`CheckIdle`, `DeleteSession`: the same two steps), `Rebuild`, which makes every write
to the history fail while it lasts, and `Restart`.

`StreamingIsExplained` names the three ways in which the code gives an
answer up: the client left before the generator was inside its `try`, another
request took the new session before its creator did, a rebuild refused the write of the end.

Simplifications: one session; content, sources, retrieval audit, titles and feedback are
left out; the test that the knowledge base may be written to and the commit after it
are one step; SQLite does not fail.

### FileVectors

One uploaded file across three stores: its row, its paths on disk (`temp`,
`final`, `quarantine`) and its rows in the active and the previous collection.
`work` is where `process_file` is (claim, parse, target, upsert, trim, commit, and
the undo and restore of a failure), `removal` where `delete_file` is (active,
previous, move, delete, unlink), `upload` where an upload is. Each step of one
may fall between two of another, and a fault (a crash, or a failing call of a
store) may fall anywhere. Chunks and their identities follow from the chunking
settings of the running process, so that reprocessing with other settings writes
other rows, and `recover_file` has to decide to whom the rows belong. Two history
variables hold what the code gives up. `torn` is about rows, which are left for a rebuild: a crash in the
middle of a deletion, or an undo of rows that failed. `left` is about bytes: the
paths nobody looks at again after an unlink that failed (`_cleanup_file` logs and goes on), a
renaming back that failed (`file_service.py` 819-826), or a crash.

### Evaluations

The registration of data sets (look up, write the content-addressed file, insert
or be refused by the unique constraint), submission, a run case by case with its
reservation, calls and consumption, the report (temporary file, rename, record),
crash, recovery with its verification of the report, and manual retry. Calls and
tokens are counted in cases, since all cases of a run cost the same. `spent` is a
history variable: what the providers were really asked.

### Administration

Users, identities, the audit trail and the product settings. All of its requests
hold the shared side of the barrier and interleave freely; one action is one
SELECT or one write transaction, as SQLite serialises them. An UPDATE sets only
the columns that differ from those the session had loaded (SQLAlchemy), which is
what lets two updates of one user mix. The trigger of migration 0009 is
`TriggerAborts`: the check in Python is not enough, and the property says so by its
mutant. `required` is `AUTH_REQUIRED`, which each start may choose anew: without it every
request acts as the row of the bootstrap, active or not (`MayAdminister`), and a
caller who changes its own row works with the standing its session loaded. The bootstrap makes
its row an active administrator, with no event, also after the row was demoted. `boots`, `granted` (when
the bootstrap last wrote a role and a standing) and `crossed` are history variables.

Accounts and settings share requests and restarts but no data. The constraint `MCBound` of the run makes use of that: several
changes of accounts are followed where no settings are touched, and settings with at most one of them.

### LoginLimiter

`AuthRateLimiter`: buckets in a table of bounded size ordered by use, with `check_failures`,
`record_failures`, `consume_attempts` and `reset` as operations. The order of the `OrderedDict` is a relation, who
comes before whom: what the code asks of it is which key is moved to the end and which is the first to go. Each reads the clock first
and takes the lock later, so that readings overtake each other; verifying the
password takes time in between. `recorded`, `promised` and `overtaken` are history
variables: what was counted, what a client was told, and the keys used out of order.

### Retrieval

One question. `main` is the thread of the request, `local` and `web` the two sides,
`task` the fetches of the pool. In `knowledge_first` both sides are steps of the
request's own thread; in `hybrid` each has a thread and the request waits under one
deadline, after which they go on without it. A fetch follows redirects one at a
time, each through the policy. The provider, the web, the index and the embedding
service may answer anything, or never.

### Generation

One answer, at once (`ask`) or streamed. Sources have lengths, text is a sequence
of symbols, as fine as the guard needs: it is the one place where characters
matter, because the guard cuts text between them. `BuildContext` and `ContextForMode` are the arithmetic of the
budget; `Feed`, `SafeCut` and `Finish` are the guard; `TooLong`, `Transient` and `Fatal`
are the three ways in which a call fails.

### Backups

What copies the live data and what replaces it, around the one lock file: the API
with its writes, the online backup (snapshot, collections, files, publication, crash
and recovery), the offline restore, the physical backup with its drill, the
cutover, the upgrade in place and the upgrade of the launcher, which takes no lock.
A document is a row, its bytes and its vectors. `kept`, `torn` and `excused` are history
variables: uploads that were answered, documents half deleted, and what has made the
database another one. `Exclusive` composes with `WriteBarrier`: a backup and
a business write exclude each other, which is what that module proves.

## 3. Runs

Every run passes. Bounds are those of the `.cfg`; symmetry is over identities
only, and in no run with a liveness property.

| run | instance | distinct states | shows |
|---|---|---|---|
| `write_barrier` | 3 threads, all operations above | 62 200 | exclusion of backups and writes as the refinement of `ReadWriteExclusion`; every backup that waits is served |
| `job_queue` | 2 jobs of any type, one file and its knowledge base, 2 faults, `Overlap = FALSE` | 961 372 | conflicts are excluded, nothing is stranded, a cancelled job has had no effect, every job ends |
| `job_overlap` | 2 jobs, 1 fault, `Overlap = TRUE`, symmetry | 3 648 358 | what an overlapped cancel cannot break |
| `kb_index` | 5 names, 2 faults, symmetry | 759 279 | the active collection is complete, nothing is orphaned, pins hold, life cycles agree with pointers |
| `chat_turn` | 3 requests, 2 answers, 1 restart | 512 188 | one answer at a time, exact stops, what STREAMING means, a session becomes free again |
| `file_vectors` | 2 jobs, 2 settings, 2 chunks, 3 faults, symmetry | 104 452 | a ready file is answered from exactly its chunks, a replacement is all or nothing, a deleted file leaves nothing but what was given up, a pinned collection is stable |
| `evaluations` | 2 registrations of 2 contents, 2 runs of 2 cases, 1 fault, symmetry | 1 091 742 | registrations, budget and reports over crash, recovery and retry |
| `administration` | 2 users, 2 names, 2 requests, 3 payloads, 3 events (1 with settings), with and without authentication, symmetry | 946 500 | an administrator remains, the trail explains the accounts, names are unique, memory follows the row |
| `login_limiter` | 2 threads, 1 login, 1 registration, 3 buckets, 3 ticks, symmetry | 411 901 | cooldowns and counts |
| `retrieval` | 4 addresses, 4 texts, 6 questions, 6 answers of the index | 1 039 226 | what leaves, what is recorded, what is used as evidence, sessions, the end of hybrid |
| `generation` | up to 2 sources a side, 4 budgets, 6 pieces of text, 2 attempts | 619 794 | streamed text, citations, the budget |
| `backups` | 1 document, 2 physical backups, 1 fault | 2 231 423 | archives are whole, answered uploads survive, a cutover is backed up |

**Bounds.** Three threads of the barrier are the fewest with a holder, a waiting backup and a
writer arriving after it. Two jobs are a job and its rival, or a job and its
retry; that a backup excludes more than one other job is proved for any number
(`ConflictsAreExcluded`). Two faults let a recovery be interrupted (one is enough for `job_overlap`, whose two properties are
proved for any number and any interleaving); the index needs
both for the branch that finds a switch of unknown outcome. Five collection names are one for each
pointer and one new candidate; a name may be used again when it is absent. Jobs are used once,
so a queue run may stop when all are used and deadlock is not checked there.
Three requests of a chat are a holder, a rival and a retry; two answers let a stop
request meet the wrong one; one restart leaves answers behind and lets the next process
retry them. Two chunks under two settings are what a partial upsert or a partial
trim needs; three faults are a failure, a failure of its undo and a crash in the
recovery. Two cases of an evaluation are one before and one after a crash. Two
users of the administration, one of them the bootstrap's, and two requests are two
administrators that demote each other; three audit events are both demotions and one change
before; without authentication they are a promotion, and after a restart with it the demotion of the
bootstrap's row by the promoted user. Three payloads are the settings of the environment and one change of each column; `MCBound` is the only constraint
of a run. Three buckets are the keys of one login, so that any registration evicts
one. Four pages on two domains give a repeat, a redirect across domains and a
domain at its limit; search pages (`LowQuality`) do not occur in that instance, the proofs have any. Three pieces of a text, of which one is a bracket inside a reference, cut a
reference at every place. One document and one fault are enough for a write
before and one after each copy; two physical backups are an outdated and a current
one.

`job_overlap` is as much about what it does *not* list. With overlapping cancel
requests `NoConflictingJobs`, `NoStrandedResource` and `CancelledHasNoEffect` are
violated: a stale cancel writes over a terminal row or over one that was queued
again (section 6).

Deadlock is not checked where the system may rightly stop: jobs all used (`job_queue`,
`job_overlap`, `evaluations`), an answer given (`retrieval`, `generation`), faults and
saves used up (`backups`).

## 4. Fairness

- `WriteBarrier`: weak fairness of each thread's step (a thread that can go on
  does, operations end), strong fairness of taking the vector lock (an `RLock`
  acquirer is not overtaken for ever). No fairness for starting an operation.
- `JobQueue`: weak fairness of the worker's steps and of a claim (its polling
  loop), of shutdown or restart (somebody starts the program again), of the write
  of a cancel that was read, of the backoff and of lease expiry (clocks advance).
  None for submissions, cancels, faults or retries.
- `ChatTurn`: weak fairness of what a request does by itself (threads go on, calls
  of a model and of the search have a time-out). None for clients: nobody has to start, stop, leave
  or delete, and no restart has to come.
- `Retrieval`: weak fairness of the request's thread (`main`) alone, whose wait has a deadline. None for the threads
  of the pools: the index, the provider or a web server may hang for ever, and `HybridEnds` holds all the same.
- The other modules state none; only safety is checked there.

## 5. Proofs

Everything in the eight `*Proofs` modules is checked to the last leaf, for
every value of the constants under the assumptions named below.

**WriteBarrierProofs** (`ThreadsAssumption`: finitely many threads;
`PlanAssumption`: plans are sequences of sections, as in the table). `IInv` adds to
the type invariant that the counters are the cardinalities of the holders
(`CountersAgree`), which side they leave open (`Sides`), who may be counted as
waiting (`WaitersWantExclusive`), and `NoLostWakeup`. The counters must be tied to sets
because the code decides by comparing them with zero, and exclusion is about
who holds. From it: `WriteExclusionHolds`, `NoWakeupIsLost`, `TypeCorrect`,
`WritersArePreferred` (an action property) and `BarrierImplementsExclusion` (the
refinement).

**JobQueueProofs**. `JInv` (types, the worker has a job that it claimed, the rows of
files and knowledge bases agree with the jobs that claimed them, draining
belongs to a backup, BUILDING excludes PROCESSING but for a first collection) is inductive under *any*
interleaving, which gives `TypeCorrect`, `BuildingIsExclusive` and
`DrainingIsOwned`. `Owned` (conflicts, leases and attempts together: who holds a row is needed to
show that recovery and deferral, which queue a job again without repeating the
conflict check, cannot bring back a rival) is inductive when cancel requests are not overlapped, an explicit hypothesis of
`ConflictsAreExcluded`, `LeasesAreSound`, `AttemptsStayBounded` and `EndsAreFinal`;
without it they are false, as `job_overlap` says. What took effect is followed by
`EffectsAgree` under any interleaving (it is neither waiting nor about to take effect, and a
rebuild that has switched holds nothing and leaves an active collection), which gives `EffectsAreNotRepeated` for rebuilds,
cleanups and backups; files and evaluations may rightly be done again; from `Owned` follow besides `CancelsComeFirst`
(`CancelsAgree`: a job about to be marked as cancelled has had no effect) and
`NothingIsStranded` (`BusyIsHeld`: what is busy is held by a claimed job with that
target, was the target of one the recovery gave up, or is a knowledge base whose first build has not succeeded).

**KnowledgeBaseIndexProofs** (`ConstantsAssumption`: "no collection" is not a name, a
natural number of faults). No safety invariant is inductive on its own: that the
switch leaves a complete active collection depends on what the rebuild did
before. `IInv` adds what each step of `op` knows of the pointers (`StepsAgree`,
`RemovalAgrees`), whose candidate it is (`CandidateAgrees`), that the candidate of
a rebuild that can be resumed is the building collection, that a first activation finds no active collection, that
complete collections exist, and what an evaluation being submitted has read
(`FixingAgrees`). Nine theorems follow, among them that the active collection is
complete and pinned collections exist in every state, crashes and recoveries included.
A tenth, `LifecyclesStayAgreed`, rests on `LifecyclesFollow`: as long as nothing failed, the marks in Chroma lag behind
the pointers by the steps of the one operation under way.

**AnsweringProofs** (`ConstantsAssumption`: "no answer" is not an answer, a natural
number of restarts; requests and answers are any sets). The properties relate rows and the
table of active chats, which know nothing of each other. `IInv` adds what the
request between them knows: its answer has a row (`HaveAnswers`), the answer of
a turn that goes on is its own and still STREAMING or deleted
(`TurnsAreOpen`), a retried answer has the status it had (`RetriesAgree`), an end that
was told is written (`EndsAreOver`), and a chat that begins is not bound
(`NotYetBound`). From it five invariants, and `CompleteStays` (an action property) by
cases over the actions that write a status.

**AdministrationProofs** (`AdministrationAssumption`: the bootstrap user is a user, settings are records
of numbers with the columns of the environment; any sets of users, names, requests, payloads, any bound on events).
`AInv` adds to the types what a request carries between its transactions (`RequestsTyped`),
where administrators come from (`AdminsArise`: as long as nobody is one the row of the bootstrap has its role, and no
request acts for anybody else or takes that role away), that the
bootstrap wrote its row after events that are there (`GrantsCounted`), that an event is
about a row that exists, and that an update about to publish has saved what it
publishes. The administrator remains because of the trigger: the count of the
others, read in an earlier statement, gives the proof nothing. From it
`AnAdminRemains`, `TrailIsComplete`, `NamesAreUnique`, `MemoryIsTheRow` and `TypeCorrect`.

*AdministrationProofs* also holds the proofs of `LoginLimiter` (`LoginLimiterAssumption`: the ranges of the
configuration, above all that no window is longer than `TTL` and that `MaxKeys` is at least the three keys of a request; a
registration asks for one name or two different ones; any threads, addresses, accounts and rules).
`LInv` says of a key with a bucket (`Kept`) that the recorded and the counted attempts have the same rest in
the window, that the times recorded leave the window from the front, that a quota is not exceeded and that the cooldown a
client was told of is in force; and of a key without one (`Absent`) that nothing is left in the window and no cooldown runs.
A cleanup makes `Kept` into `Absent` because no window is longer than `TTL` and a block keeps its bucket (`ExpiredAbsent`).
Operations work through two or three keys, so each lemma carries table and history from one key to the
next (`Good`, `Timely`). The quota needs an argument about the order of the table: while the attempts of a
request are granted, room for a new key is never made at the cost of another key of the same request, since these have just
moved to the end and the table has at least three places (`OthersGo`). From it `CooldownsAreKept` and `CountsStayExact`.

**EvaluationsProofs** (`EvaluationsAssumption`: a data set has a case, extra calls and tokens are natural, the mode is
one of the two, and `Nothing` is no run, content or report; any number of runs, registrations and faults).
`EInv` keeps in each row by itself what it may still reserve (`RowFits`): put to the providers, used and granted
are ordered by what is reserved, and a queued row has the calls for every case. So
a run that a crash left needs no word about where it was, which is what lets recovery take
it up at any step. Only the run in the thread has more to it (`ThreadAgrees`):
one reservation ahead when it is about to work, its report in the file when it is about to
record it. A registration under way aims at one of the two names of
its content (`RequestsAgree`). From it `AnswersAreTrue`, `BudgetsHold`, `ReportsAreOwn` and `TypeCorrect`.

**FileVectorsProofs** (`ConstantsAssumption`: `Nobody` is no job and no splitting, `Rebuild` is neither a job nor
`Nobody`; any sets of jobs, splittings and chunks, any number of faults). `FInv` says what the two locks buy
(`WorkAgrees`): from its claim to its commit a file stays PROCESSING, its bytes stay where they
are and nobody deletes it, and while rows are written or removed nobody pins. The rest follows a
deletion through its three stores: where the bytes are at each step, or that their path is given up (`DiskAgrees`), and which
rows are left and which an undo will put back (`RowsAgree`), so that a file
put back as ready has the rows it had. From it `NothingIsLeft`, `ReadyFilesAreComplete`,
`PinnedRowsAreStable` and `TypeCorrect`. `ReplacementIsAtomic` needs `AInv` beside it: that only the
run at work is RUNNING (`JobsAgree`), that while a replacement is undone what is not of the new
splitting is as before or gone (`UndoAgrees`), and that the rows are sound splitting by splitting,
up to those of a run that gave up or is still to be recovered (`SoundRows`). Rows from before and from after can lie side by side only while the run that
wrote them is one of these.

**BackupsProofs** (`ConstantsAssumption`: `None` is no document, database, archive or process; any set of documents,
any number of backups and faults). `BInv` says who is at work from who holds the lock (`LocksAgree`); that
every row held by something that may become the live database or an archive (the database, the
snapshot of a physical backup, the candidate and the original of a cutover) has its bytes and
vectors, but for those half deleted (`RowsAreThere`); what an online backup has copied by each step
(`BackupAgrees`), and that what a restore has staged is the archive (`RestoreAgrees`); that a cutover has its proofs and, once
it holds the lock, the database they are about (`CutoverAgrees`); and that what was answered is in its
candidate (`KeptAgrees`). The last one needs a fact found by proving it: what
lies under the name of the database after an interrupted cutover has no tables or the head
revision, so that no second cutover accepts it and overwrites the original that holds the
answered documents. From it `ArchivesStayWhole`, `WritesAreKept`, `CutoversAreBackedUp` and `TypeCorrect`.

*AnsweringProofs* also holds the proofs about how an answer is found and made, since an answer is one turn of a
chat, one question to `Retrieval` and one text of `Generation`; the variables of these two carry
names of their own (`retrievalVars`, `GenerationSpec`) so that one module can extend all three.

*Retrieval* (`Limits`: the settings are in the ranges that the configuration accepts, addresses are numbered; any set of questions, of
texts and of hits). The actors are the request's thread, the local thread, the
search and a fetch per selected page, and each property is about what one of them leaves for another. `QInv`
says of a question and its parts that they have their types (`QuestionTyped`, `SearchTyped`, `FetchesTyped`);
that the web side moves only once the mode is resolved and asks for it (`LeaveAgrees`); that nothing has been
sent, asked for or fetched before its step (`NotYet`); that only a request that waited until the deadline goes on
without the local thread (`SessionAgrees`); that a page belongs to one fetch that was collected, and a fetch
without a page left a reason (`PagesAgree`); and what the outcome of the search and the bundle
made from it say of all this (`OutcomeAgrees`, `BundleAgrees`). From it `QuestionsStayInside`, `AuditsAreTrue`,
`EvidenceStaysDistinctAndClean` and `SessionsAreSharedOnlyWhenLate`.

*Generation* (`Settings`: sources are not empty, budgets are positive, pieces of text are sequences of symbols; any
cases, any pieces, any number of them). `GInv` says that a stream shows exactly what it has accepted (`Streamed`); that it is
called again only when it has shown nothing (`Fresh`); that what the guard holds back is nothing or an open bracket
and what follows it, and that references in what it has shown are closed and name sources of
the prompt (`Guarded`); that the prompt of each attempt has the whole budget, or the reduced one after a
refusal (`Prompted`); and that a response has the sources it cites (`Answered`). The guard needs a
lemma about cutting text: showing a part of a text whose references are valid leaves them valid, as long as
no reference is open at the cut (`ShowKeepsValid`). The context is a fold over the sources, and
the induction theorems of the library cannot be instantiated, so what is needed of it, that it stays within its budget and that a
smaller budget gives a smaller one, is proved from the well-foundedness of the
naturals with a set in place of the induction predicate (`FoldExists`, `FoldIsChain`). From it
`TheShownIsTheAnswer`, `CitationsStayValid` and `PromptsFit`.

Some theorems state properties that are not listed in a run, since the proof says
more than the run could: `WriteExclusion`, `NoLostWakeup`, `WriterPreference`,
`DrainingHasAnOwner`, `ClaimedJobsAreLeased`, `AttemptsAreBounded`, `TerminalIsFinal`,
`PointersAreDistinct`, `PreviousIsServable`, `CandidateIsAbortable`, `SuccessMeansSwitched`,
`PinnedIsNotWriteTarget`, `CompleteHasNoError`, `CompleteIsKept` and the type invariants
of the eight modules.

**Only model-checked**: liveness (`EveryJobEnds`, `BackupIsServed`, `SessionIsFreed`, `HybridEnds`), since TLAPS
cannot reason about fairness and `ENABLED`. Every invariant and every other temporal property that a run checks is
the property of a theorem.

## 6. Observations

What modelling showed that a reader of the code or of its documentation might
not expect. Where a property had to name an exception, it is for one of these.

Jobs and backups:

- a cancel that read RUNNING writes CANCEL_REQUESTED over whatever the row has become, also a terminal status; with no
  lease nothing ends it (`job_repository.py` 204; README 310 promises an effect at a checkpoint);
- recovery ends a job whose cancel is pending as CANCELLED without looking at its effect (README 310: what was committed
  wins), and for a backup leaves the draining row behind (README 308: it is cleared);
- a cleanup job that finds its collection pinned writes QUEUED without a checkpoint, also
  over CANCEL_REQUESTED, and is run again;
- an evaluation that has succeeded except for the record of it is queued again when a retry has replaced its report meanwhile,
  and asks the providers once more;
- a crash after the archive was renamed and before the commit leaves an archive whose job FAILED;
- the limits on members and sizes of an archive are enforced only when it is restored;
- the instance lock is released at shutdown although joining the worker may have timed out.

Index and files:

- a rebuild that crashed between its switch and the life cycle ACTIVE is recorded as FAILED, although it has switched (README 305);
- the pin of a collection is tested and the collection deleted in two steps; an evaluation
  retried in between loses its collection (README 326) and fails;
- errors of life cycle writes are swallowed, which can leave a cleanup pointer to a
  collection that still says ACTIVE and then blocks cleanup and rebuild;
- a rebuild cancelled at a checkpoint leaves its candidate BUILDING with status FAILED, so that every
  rebuild is refused until it is aborted; recovery of a rebuild whose cancel was requested
  leaves BUILDING until an abort, a refused rebuild or a restart;
- a crash between the upsert of a new splitting and the trimming of the old one makes recovery
  refuse to decide (VECTOR_OWNERSHIP_UNCERTAIN): rows of both remain, and the file stays PROCESSING until the next start;
- the first file of a knowledge base sets it BUILDING while the file is PROCESSING. When its undo fails, because the vectors cannot be taken back or because `_mark_building_failed` swallows an
  error of the database, the knowledge base stays BUILDING with no job, and new files are refused
  until it is aborted, a rebuild was tried or the program is started again (`file_service.py` 507-570);
- `_cleanup_file` (202-210) only logs an unlink that fails, which leaves bytes without a row that nothing sweeps; a failing
  renaming back in a deletion (819-826) leaves a listed file whose bytes are under `.deleting`;
- a crash in a deletion leaves a SUCCESS row without vectors, or a `.deleting` file that nothing sweeps;
- rows are restored after the vector lock was released; recovery that clears rows leaves `has_active_vectors` true.

Chats:

- a rebuild submitted while an answer is streamed refuses every write to the history: the answer stays STREAMING until a
  restart (README 351: every end is persisted);
- a client that leaves at the first event of a stream leaves the chat active and the
  answer STREAMING until a restart (`Vanish`); one that leaves between COMPLETE and the last event turns the
  complete answer into a CANCELLED one (`BeingTold`);
- a session that another request takes right after it was created leaves its first answer STREAMING;
- a retry cannot be stopped through the API, and one whose client leaves has already cleared the error of the old answer.

Evaluations:

- all retries of a run share its report path: the report of one success may be replaced by another's, and is then
  refused for its digest (README 385);
- in mode rag one failed case makes `_aggregate_metrics` take `float(None)`: the run fails after all its cases were
  paid for, without a report (README 383: errors are recorded per case);
- a run that recovery queues again has the calls for all of its cases, but not always the tokens.

Administration and limiter:

- two bootstraps at the same time may both succeed, the second replacing the password of the first (README 140);
- without authentication the bootstrap's row administers although it is inactive, and may activate itself;
- the bootstrap sets the role ADMIN (`auth_service.py` 81) and writes no audit event: a row that was demoted before, by
  somebody it had promoted without authentication, is an administrator again and the trail does not say why;
- overlapping updates of the settings may leave a mixture of their columns in the row, and a snapshot that is not the row's until
  the next update or restart;
- a reading of the clock that was overtaken sets `last_seen` back; recording failures of several keys in a full table may
  evict a bucket it has just counted or is about to count.

Retrieval and generation:

- the deadline of hybrid leaves a thread that still uses the session of the request, and drops pages already fetched;
- in `knowledge_first` collecting the pages starts a fresh total time-out after the search has used its own;
- evidence carries the domain of the hit, not that of the page a redirect led to;
- the cache of hits never evicts other queries; the reason `low_relevance` is unreachable in a chat;
- of `[K[` followed by `1]` the guard lets `[K` go, and the whole answer is refused after it was streamed;
- a retry after a refusal for length may send the same prompt again, when it was shorter than the reduced budget;
- citation errors are retried in `ask` and not in a stream;
- the answer that is saved is stripped of outer white space (`rag_service.py` 874), what was streamed is not; `Generation` has no
  symbol for white space and compares the rest.

Migrations and backups by hand:

- `prepare_local_database.py` 114 does not test whether the database is in use. That it cannot replace the file of a running API
  (`ReplaceByUpgrade`) rests on Windows, for which the launcher is, refusing to replace an open file;
- the launcher's upgrade takes no instance lock: what the API writes meanwhile is forgotten, and a cutover may be overlapped;
- `alembic/env.py` 18 lets `DATABASE_URL` override the candidate: in a shell where it is set, the launcher upgrades the live
  database in place while it reports that the original was not replaced;
- a crash between the two renames of a cutover leaves no database: the next start creates an empty one, and the data are in the retained original;
- a physical backup leaves out the evaluations, and after a failure leaves a partial file that blocks later ones;
- README 218 names 0007 as the head, which is 0009.

## 7. What is not modelled

Parsing, splitting and embedding of documents, dashboards and health, clients and
launchers have no shared state. Schema statements, archive formats, HTML, prompts and the patterns
of the sanitizer are data or functions of their input; the models keep what depends on
them: accepted or refused, changed or not, how long. The creation and deletion of a
knowledge base, feedback, titles and the listing of sessions, the reading of proxy
headers, hashing and tokens, and the computation of single metrics are left out.
Time is abstracted to "the lease is over", "the delay is over" and "the deadline has passed",
except in `LoginLimiter`, which is about time.

## 8. Plan

Done: the modules and proofs above. Open, in this order:

1. an abstract index (the current complete collection, what is pinned) and an abstract session with
   one answer at a time that the modules are shown to implement;
2. a composition of the queue with the index, replacing the assumption that section 2 names;
3. creation and deletion of a knowledge base, feedback and titles.
