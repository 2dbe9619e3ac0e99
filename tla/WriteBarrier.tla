---------------------------- MODULE WriteBarrier ----------------------------
(***************************************************************************)
(* The locks of one process (services/runtime_coordinator.py): the         *)
(* writer-preferring barrier that keeps business writes away from a        *)
(* backup, and the two re-entrant locks taken inside it.                   *)
(*                                                                         *)
(* A thread runs one operation at a time.  Plan gives, for each operation  *)
(* of the program, what it enters in order ("shared" is a permit of the    *)
(* barrier, "exclusive" the barrier itself, "admin" and "vector" the       *)
(* locks) as nested `with` blocks, left in the opposite order whatever the *)
(* body does.  The body itself is not modelled: any operation may fail     *)
(* after any block it has entered, which only makes it leave early.        *)
(*                                                                         *)
(* Each critical section of the barrier's Condition is one action; a       *)
(* thread in Condition.wait() is "parked" until a notify_all moves it to   *)
(* "woken", from where it still has to get the lock back and look again.   *)
(***************************************************************************)
EXTENDS Integers, FiniteSets, Sequences

CONSTANTS Threads,     \* the job worker and the threads that serve requests
          Operations,  \* the operations of the program that take locks
          Plan         \* Plan[o]: what operation o enters, outermost first

Blocks == {"shared", "exclusive", "admin", "vector"}

ASSUME ThreadsAssumption == IsFiniteSet(Threads)

(* No operation asks for the exclusive side inside another block, nor for  *)
(* anything inside the exclusive side: see backups.py:53, jobs.py:112 and  *)
(* backup_service.py:101, its only callers.  No operation nests more than  *)
(* four blocks.                                                            *)
Levels == 1 .. 4

ASSUME PlanAssumption ==
  /\ Plan \in [Operations -> Seq(Blocks)]
  /\ \A o \in Operations : Len(Plan[o]) <= 4
  /\ \A o \in Operations : \A i \in 1 .. Len(Plan[o]) :
        Plan[o][i] = "exclusive" => Len(Plan[o]) = 1

VARIABLES readers,         \* self._readers
          writer,          \* self._writer
          waitingWriters,  \* self._waiting_writers
          op,              \* op[t]: the operation t runs, or ran last
          depth,           \* depth[t]: how many blocks of it t is inside
          phase            \* phase[t]: where t is in its operation

barrier == <<readers, writer, waitingWriters>>
vars == <<readers, writer, waitingWriters, op, depth, phase>>

Phases == {"idle", "entering", "parked", "woken", "leaving"}

TypeOK == /\ readers \in Nat
          /\ writer \in BOOLEAN
          /\ waitingWriters \in Nat
          /\ op \in [Threads -> Operations]
          /\ depth \in [Threads -> Nat]
          /\ phase \in [Threads -> Phases]
          /\ \A t \in Threads : depth[t] <= Len(Plan[op[t]])
          /\ \A t \in Threads : phase[t] = "idle" => depth[t] = 0
-----------------------------------------------------------------------------
(* The blocks that are held, as the stacks of the threads tell.            *)
Held(b) == {p \in Threads \X Levels :
              p[2] <= depth[p[1]] /\ Plan[op[p[1]]][p[2]] = b}

Holders(b) == {t \in Threads : \E i \in Levels : <<t, i>> \in Held(b)}

(* The threads whose request for the exclusive side is not yet served.     *)
Waiters == {t \in Threads : phase[t] \in {"parked", "woken"}}

Wants(t, b) == /\ phase[t] = "entering"
               /\ depth[t] < Len(Plan[op[t]])
               /\ Plan[op[t]][depth[t] + 1] = b

GoIn(t) == /\ depth' = [depth EXCEPT ![t] = @ + 1]
           /\ phase' = [phase EXCEPT ![t] = "entering"]
           /\ UNCHANGED op

GoOut(t) == /\ phase' = [phase EXCEPT ![t] = "leaving"]
            /\ UNCHANGED <<op, depth>>

(* notify_all: every thread in Condition.wait() is to look again.          *)
NotifyAll ==
  phase' = [u \in Threads |-> IF phase[u] = "parked" THEN "woken" ELSE phase[u]]
-----------------------------------------------------------------------------
Init == /\ readers = 0
        /\ writer = FALSE
        /\ waitingWriters = 0
        /\ op \in [Threads -> Operations]
        /\ depth = [t \in Threads |-> 0]
        /\ phase = [t \in Threads |-> "idle"]

Begin(t) == /\ phase[t] = "idle"
            /\ \E o \in Operations : op' = [op EXCEPT ![t] = o]
            /\ phase' = [phase EXCEPT ![t] = "entering"]
            /\ UNCHANGED <<depth, barrier>>

(* shared(blocking=False): a permit, or ConflictException at once.         *)
EnterShared(t) == /\ Wants(t, "shared")
                  /\ ~writer /\ waitingWriters = 0
                  /\ readers' = readers + 1
                  /\ GoIn(t)
                  /\ UNCHANGED <<writer, waitingWriters>>

RefuseShared(t) == /\ Wants(t, "shared")
                   /\ writer \/ waitingWriters > 0
                   /\ GoOut(t)
                   /\ UNCHANGED barrier

(* MUTANT of EnterExclusive: only another backup is waited for.            *)
EnterExclusiveOverPermits(t) == /\ Wants(t, "exclusive")
                                /\ ~writer
                                /\ writer' = TRUE
                                /\ GoIn(t)
                                /\ UNCHANGED <<readers, waitingWriters>>

(* exclusive(): the request is counted first; then the thread goes in, or  *)
(* waits for the barrier to be free.                                       *)
EnterExclusive(t) == /\ Wants(t, "exclusive")
                     /\ ~writer /\ readers = 0
                     /\ writer' = TRUE
                     /\ GoIn(t)
                     /\ UNCHANGED <<readers, waitingWriters>>

AwaitExclusive(t) == /\ Wants(t, "exclusive")
                     /\ writer \/ readers > 0
                     /\ waitingWriters' = waitingWriters + 1
                     /\ phase' = [phase EXCEPT ![t] = "parked"]
                     /\ UNCHANGED <<readers, writer, op, depth>>

(* The woken thread has the lock again and evaluates the loop condition.   *)
RetryExclusive(t) == /\ phase[t] = "woken"
                     /\ ~writer /\ readers = 0
                     /\ writer' = TRUE
                     /\ waitingWriters' = waitingWriters - 1
                     /\ GoIn(t)
                     /\ UNCHANGED readers

AwaitAgain(t) == /\ phase[t] = "woken"
                 /\ writer \/ readers > 0
                 /\ phase' = [phase EXCEPT ![t] = "parked"]
                 /\ UNCHANGED <<op, depth, barrier>>

(* collection_admin_lock.acquire(blocking=False), or ConflictException.    *)
EnterAdmin(t) == /\ Wants(t, "admin")
                 /\ Holders("admin") \subseteq {t}
                 /\ GoIn(t)
                 /\ UNCHANGED barrier

RefuseAdmin(t) == /\ Wants(t, "admin")
                  /\ ~(Holders("admin") \subseteq {t})
                  /\ GoOut(t)
                  /\ UNCHANGED barrier

(* with vector_write_lock: waits for as long as another thread holds it.   *)
EnterVector(t) == /\ Wants(t, "vector")
                  /\ Holders("vector") \subseteq {t}
                  /\ GoIn(t)
                  /\ UNCHANGED barrier

(* The body is over, or raised before it asked for the next block.         *)
Finish(t) == /\ phase[t] = "entering"
             /\ depth[t] > 0
             /\ ~Wants(t, "vector")
             /\ GoOut(t)
             /\ UNCHANGED barrier

Leave(t, b) == /\ phase[t] = "leaving"
               /\ depth[t] > 0
               /\ Plan[op[t]][depth[t]] = b
               /\ depth' = [depth EXCEPT ![t] = @ - 1]
               /\ UNCHANGED op

(* MUTANT of LeaveExclusive: nobody is woken.                              *)
LeaveExclusiveSilently(t) == /\ Leave(t, "exclusive")
                             /\ writer' = FALSE
                             /\ UNCHANGED <<phase, readers, waitingWriters>>

LeaveShared(t) == /\ Leave(t, "shared")
                  /\ readers' = readers - 1
                  /\ IF readers' = 0 THEN NotifyAll ELSE UNCHANGED phase
                  /\ UNCHANGED <<writer, waitingWriters>>

LeaveExclusive(t) == /\ Leave(t, "exclusive")
                     /\ writer' = FALSE
                     /\ NotifyAll
                     /\ UNCHANGED <<readers, waitingWriters>>

LeaveLock(t) == /\ \E b \in {"admin", "vector"} : Leave(t, b)
                /\ UNCHANGED <<phase, barrier>>

End(t) == /\ phase[t] = "leaving" /\ depth[t] = 0
          /\ phase' = [phase EXCEPT ![t] = "idle"]
          /\ UNCHANGED <<op, depth, barrier>>

Step(t) == \/ EnterShared(t) \/ RefuseShared(t)
           \/ EnterExclusive(t) \/ AwaitExclusive(t)
           \/ RetryExclusive(t) \/ AwaitAgain(t)
           \/ EnterAdmin(t) \/ RefuseAdmin(t)
           \/ Finish(t)
           \/ LeaveShared(t) \/ LeaveExclusive(t) \/ LeaveLock(t)
           \/ End(t)

Next == \E t \in Threads : Begin(t) \/ Step(t) \/ EnterVector(t)

(* A thread inside an operation keeps running; a thread that waits for the *)
(* re-entrant lock gets it sooner or later when it is free again and again.*)
Fairness == \A t \in Threads : WF_vars(Step(t)) /\ SF_vars(EnterVector(t))

Spec == Init /\ [][Next]_vars
FairSpec == Spec /\ Fairness
-----------------------------------------------------------------------------
(* The two sides of the barrier exclude each other: while a backup is      *)
(* submitted or taken, no thread is inside business_write or               *)
(* admin_operation, at any nesting depth, and no second backup is in.      *)
WriteExclusion ==
  \/ Holders("exclusive") = {}
  \/ /\ Cardinality(Holders("exclusive")) = 1
     /\ Holders("shared") = {}

(* A backup that waits will be told: as long as a thread is parked, the    *)
(* barrier is held by someone whose exit notifies it.  A missing           *)
(* notify_all, or one only on the wrong exit, parks it for ever.           *)
NoLostWakeup ==
  (\E t \in Threads : phase[t] = "parked") => writer \/ readers > 0

(* Writer preference: from the moment a backup waits no thread gets one    *)
(* more permit, not even one that is already inside (upload_file asks for  *)
(* a second permit under its first).                                       *)
WriterPreference ==
  [][Waiters # {} =>
       Cardinality(Held("shared"))' <= Cardinality(Held("shared"))]_vars

(* A waiting backup is not shut out by the traffic of business writes:     *)
(* some backup gets the barrier, as operations that are inside end and no  *)
(* new one gets in.                                                        *)
BackupIsServed == Waiters # {} ~> Holders("exclusive") # {}

(* The counters and the condition variable implement the exclusion that    *)
(* the callers rely on.                                                    *)
Exclusion == INSTANCE ReadWriteExclusion
               WITH Permits <- Threads \X Levels, Owners <- Threads,
                    granted <- Held("shared"), owner <- Holders("exclusive")
ImplementsExclusion == Exclusion!Spec
=============================================================================
