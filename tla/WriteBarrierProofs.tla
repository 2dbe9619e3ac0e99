------------------------- MODULE WriteBarrierProofs -------------------------
(***************************************************************************)
(* For every set of threads and every plan of operations: the counters of  *)
(* the barrier agree with what the threads hold, the two sides exclude     *)
(* each other, no wake-up is lost, and a waiting backup stops new permits. *)
(***************************************************************************)
EXTENDS WriteBarrier, FiniteSetTheorems, TLAPS

(* The counters say what the stacks of the threads say.                    *)
CountersAgree ==
  /\ readers = Cardinality(Held("shared"))
  /\ waitingWriters = Cardinality(Waiters)
  /\ writer <=> Held("exclusive") # {}

(* At most one exclusive block is entered, and none beside a permit.       *)
Sides ==
  /\ \A p, q \in Held("exclusive") : p = q
  /\ Held("exclusive") # {} => Held("shared") = {}

(* A waiting thread is at the only block of an exclusive operation.        *)
WaitersWantExclusive ==
  \A t \in Waiters : /\ depth[t] = 0
                     /\ Len(Plan[op[t]]) = 1
                     /\ Plan[op[t]][1] = "exclusive"

IInv == TypeOK /\ CountersAgree /\ Sides /\ WaitersWantExclusive /\ NoLostWakeup
-----------------------------------------------------------------------------
(* What is held, and who waits, are finite sets.                           *)
LEMMA HeldFinite ==
  ASSUME NEW b PROVE IsFiniteSet(Held(b)) /\ IsFiniteSet(Waiters)
<1>1. IsFiniteSet(Levels)
  <2>1. \A m, n \in Int : IsFiniteSet(m .. n)
    BY FS_Interval
  <2>2. 1 \in Int /\ 4 \in Int
    OBVIOUS
  <2>3. Levels = 1 .. 4
    BY DEF Levels
  <2> QED
    BY <2>1, <2>2, <2>3, Zenon
<1>2. IsFiniteSet(Threads \X Levels)
  BY <1>1, FS_Product, ThreadsAssumption
<1>3. Held(b) \subseteq Threads \X Levels
  BY DEF Held
<1>4. Waiters \subseteq Threads
  BY DEF Waiters
<1> QED
  BY <1>2, <1>3, <1>4, FS_Subset, ThreadsAssumption

(* Entering a block adds exactly that block to what is held.               *)
LEMMA HeldGoIn ==
  ASSUME TypeOK, NEW t \in Threads, GoIn(t), depth[t] < Len(Plan[op[t]]),
         NEW b
  PROVE  /\ Plan[op[t]][depth[t] + 1] = b =>
              /\ <<t, depth[t] + 1>> \notin Held(b)
              /\ Held(b)' = Held(b) \union {<<t, depth[t] + 1>>}
         /\ Plan[op[t]][depth[t] + 1] # b => Held(b)' = Held(b)
<1> DEFINE lvl == <<t, depth[t] + 1>>
<1>1. /\ depth[t] \in Nat /\ op[t] \in Operations
      /\ Len(Plan[op[t]]) \in Nat /\ Len(Plan[op[t]]) <= 4
  BY PlanAssumption DEF TypeOK
<1>2. depth[t] + 1 \in Levels
  BY <1>1 DEF Levels
<1>3. /\ op' = op
      /\ depth' = [depth EXCEPT ![t] = depth[t] + 1]
  BY DEF GoIn
<1>4. ASSUME NEW u \in Threads, NEW i \in Levels
      PROVE  i <= depth'[u] <=> (i <= depth[u] \/ <<u, i>> = lvl)
  <2>1. CASE u = t
    BY <1>1, <1>3, <2>1 DEF Levels, TypeOK
  <2>2. CASE u # t
    BY <1>3, <2>2 DEF TypeOK
  <2> QED
    BY <2>1, <2>2
<1>5. ASSUME NEW p \in Threads \X Levels
      PROVE  p[2] <= depth'[p[1]] <=> (p[2] <= depth[p[1]] \/ p = lvl)
  <2>1. PICK u \in Threads, i \in Levels : p = <<u, i>>
    OBVIOUS
  <2> QED
    BY <1>4, <2>1
<1>6. lvl \in Threads \X Levels
  BY <1>2
<1>7. Held(b)' = {p \in Threads \X Levels :
                    p[2] <= depth'[p[1]] /\ Plan[op[p[1]]][p[2]] = b}
  BY <1>3 DEF Held
<1>8. lvl \notin Held(b)
  BY <1>1 DEF Held
<1>9. ASSUME NEW p
      PROVE  p \in Held(b)' <=>
               p \in Held(b) \/ (p = lvl /\ Plan[op[t]][depth[t] + 1] = b)
  BY <1>5, <1>6, <1>7 DEF Held
<1> QED
  BY <1>8, <1>9

(* Leaving a block removes exactly that block from what is held.           *)
LEMMA HeldLeave ==
  ASSUME TypeOK, NEW t \in Threads, NEW c, Leave(t, c), NEW b
  PROVE  /\ b = c => /\ <<t, depth[t]>> \in Held(b)
                     /\ Held(b)' = Held(b) \ {<<t, depth[t]>>}
         /\ b # c => Held(b)' = Held(b)
<1> DEFINE lvl == <<t, depth[t]>>
<1>1. /\ depth[t] \in Nat /\ op[t] \in Operations /\ depth[t] > 0
      /\ Len(Plan[op[t]]) \in Nat /\ Len(Plan[op[t]]) <= 4
      /\ depth[t] <= Len(Plan[op[t]])
      /\ Plan[op[t]][depth[t]] = c
  BY PlanAssumption DEF TypeOK, Leave
<1>2. depth[t] \in Levels
  BY <1>1 DEF Levels
<1>3. /\ op' = op
      /\ depth' = [depth EXCEPT ![t] = depth[t] - 1]
  BY DEF Leave
<1>4. ASSUME NEW u \in Threads, NEW i \in Levels
      PROVE  i <= depth'[u] <=> (i <= depth[u] /\ <<u, i>> # lvl)
  <2>1. CASE u = t
    BY <1>1, <1>3, <2>1 DEF Levels, TypeOK
  <2>2. CASE u # t
    BY <1>3, <2>2 DEF TypeOK
  <2> QED
    BY <2>1, <2>2
<1>5. ASSUME NEW p \in Threads \X Levels
      PROVE  p[2] <= depth'[p[1]] <=> (p[2] <= depth[p[1]] /\ p # lvl)
  <2>1. PICK u \in Threads, i \in Levels : p = <<u, i>>
    OBVIOUS
  <2> QED
    BY <1>4, <2>1
<1>6. lvl \in Threads \X Levels /\ lvl[2] <= depth[lvl[1]]
  BY <1>1, <1>2
<1>7. Held(b)' = {p \in Threads \X Levels :
                    p[2] <= depth'[p[1]] /\ Plan[op[p[1]]][p[2]] = b}
  BY <1>3 DEF Held
<1>8. ASSUME NEW p
      PROVE  p \in Held(b)' <=> p \in Held(b) /\ p # lvl
  BY <1>5, <1>7 DEF Held
<1>9. lvl \in Held(b) <=> b = c
  BY <1>1, <1>6 DEF Held
<1> QED
  BY <1>8, <1>9

(* A step that moves no thread in or out of a block changes nothing held,  *)
(* whichever operation an idle thread takes up.                            *)
LEMMA HeldSame ==
  ASSUME depth' = depth, NEW b,
         \A t \in Threads : depth[t] = 0 \/ op'[t] = op[t]
  PROVE  Held(b)' = Held(b)
<1>1. ASSUME NEW t \in Threads, NEW i \in Levels
      PROVE  <<t, i>> \in Held(b)' <=> <<t, i>> \in Held(b)
  <2>1. CASE depth[t] = 0
    BY <2>1 DEF Held, Levels
  <2>2. CASE op'[t] = op[t]
    BY <2>2 DEF Held
  <2> QED
    BY <2>1, <2>2
<1>2. Held(b) \subseteq Threads \X Levels /\ Held(b)' \subseteq Threads \X Levels
  BY DEF Held
<1> QED
  BY <1>1, <1>2
-----------------------------------------------------------------------------
(* A step that touches neither the counters nor anything they count.       *)
LEMMA Quiet ==
  ASSUME IInv, TypeOK', UNCHANGED barrier, NoLostWakeup', Waiters' = Waiters,
         Held("shared")' = Held("shared"),
         Held("exclusive")' = Held("exclusive"),
         \A t \in Waiters : op'[t] = op[t] /\ depth'[t] = depth[t]
  PROVE  IInv'
<1>1. CountersAgree'
  BY DEF IInv, CountersAgree, barrier
<1>2. Sides'
  BY DEF IInv, Sides
<1>3. WaitersWantExclusive'
  BY DEF IInv, WaitersWantExclusive
<1> QED
  BY <1>1, <1>2, <1>3 DEF IInv

(* A thread that is not waiting is refused, ends, or goes on to an inner   *)
(* block that is not one of the barrier's.                                 *)
LEMMA QuietThread ==
  ASSUME IInv, TypeOK', UNCHANGED barrier, NEW t \in Threads,
         phase[t] \in {"idle", "entering", "leaving"},
         \E w \in {"idle", "entering", "leaving"} :
            phase' = [phase EXCEPT ![t] = w],
         \A u \in Threads \ {t} : op'[u] = op[u] /\ depth'[u] = depth[u],
         Held("shared")' = Held("shared"),
         Held("exclusive")' = Held("exclusive")
  PROVE  IInv'
<1>1. Waiters' = Waiters /\ t \notin Waiters
  BY DEF Waiters, IInv, TypeOK
<1>2. NoLostWakeup'
  BY DEF NoLostWakeup, IInv, TypeOK, barrier
<1>3. \A u \in Waiters : op'[u] = op[u] /\ depth'[u] = depth[u]
  BY <1>1 DEF Waiters
<1> QED
  BY <1>1, <1>2, <1>3, Quiet

(* The wanted block exists and is one of the four.                         *)
LEMMA WantsTyped ==
  ASSUME TypeOK, NEW t \in Threads, NEW b, Wants(t, b)
  PROVE  /\ depth[t] < Len(Plan[op[t]]) /\ Plan[op[t]][depth[t] + 1] = b
         /\ phase[t] = "entering"
         /\ op[t] \in Operations /\ depth[t] \in Nat /\ Len(Plan[op[t]]) \in Nat
         /\ depth[t] + 1 \in 1 .. Len(Plan[op[t]])
BY PlanAssumption DEF Wants, TypeOK

(* Going in keeps the stacks well-typed.                                   *)
LEMMA GoInTyped ==
  ASSUME TypeOK, NEW t \in Threads, depth[t] < Len(Plan[op[t]]), GoIn(t),
         readers' \in Nat, writer' \in BOOLEAN, waitingWriters' \in Nat
  PROVE  TypeOK'
<1>1. op[t] \in Operations /\ depth[t] \in Nat /\ Len(Plan[op[t]]) \in Nat
  BY PlanAssumption DEF TypeOK
<1> QED
  BY <1>1 DEF TypeOK, GoIn, Phases

(* Changing only where a thread is in its operation keeps them so, too.    *)
LEMMA PhaseTyped ==
  ASSUME TypeOK, NEW t \in Threads, depth' = depth, op' = op,
         NEW w \in Phases, w # "idle" \/ depth[t] = 0,
         phase' = [phase EXCEPT ![t] = w],
         readers' \in Nat, writer' \in BOOLEAN, waitingWriters' \in Nat
  PROVE  TypeOK'
BY DEF TypeOK, Phases

(* The operation of a thread that wants the exclusive side holds nothing   *)
(* else and wants nothing else.                                            *)
LEMMA ExclusiveAlone ==
  ASSUME TypeOK, NEW t \in Threads, Wants(t, "exclusive")
  PROVE  depth[t] = 0 /\ Len(Plan[op[t]]) = 1 /\ Plan[op[t]][1] = "exclusive"
<1>1. Len(Plan[op[t]]) = 1
  BY WantsTyped, PlanAssumption
<1> QED
  BY <1>1, WantsTyped
-----------------------------------------------------------------------------
(* The counters are right and nothing is held before any thread starts.    *)
LEMMA IInvInit == Init => IInv
<1> SUFFICES ASSUME Init PROVE IInv
  OBVIOUS
<1>1. TypeOK
  <2>1. \A o \in Operations : Len(Plan[o]) \in Nat
    BY PlanAssumption
  <2>2. /\ op \in [Threads -> Operations]
        /\ \A t \in Threads : depth[t] = 0 /\ phase[t] = "idle"
    BY DEF Init
  <2>3. \A t \in Threads : depth[t] <= Len(Plan[op[t]])
    BY <2>1, <2>2
  <2> QED
    BY <2>2, <2>3 DEF Init, TypeOK, Phases
<1>2. Waiters = {} /\ \A b : Held(b) = {}
  BY DEF Init, Waiters, Held, Levels
<1>3. Cardinality({}) = 0
  BY FS_EmptySet
<1> QED
  BY <1>1, <1>2, <1>3
     DEF Init, IInv, CountersAgree, Sides, WaitersWantExclusive, NoLostWakeup

(* An idle thread takes up an operation: it holds nothing yet.             *)
LEMMA BeginStep ==
  ASSUME IInv, NEW t \in Threads, Begin(t) PROVE IInv'
<1>1. /\ phase[t] = "idle" /\ depth[t] = 0 /\ depth' = depth
      /\ UNCHANGED barrier
      /\ \A u \in Threads \ {t} : op'[u] = op[u]
      /\ phase' = [phase EXCEPT ![t] = "entering"]
  BY DEF Begin, IInv, TypeOK
<1>2. TypeOK'
  BY <1>1, PlanAssumption DEF Begin, IInv, TypeOK, Phases, barrier
<1>3. \A b : Held(b)' = Held(b)
  BY <1>1, HeldSame
<1> QED
  BY <1>1, <1>2, <1>3, QuietThread

(* One more reader, and one more permit held.                              *)
LEMMA SharedStep ==
  ASSUME IInv, NEW t \in Threads, EnterShared(t) PROVE IInv'
<1> DEFINE lvl == <<t, depth[t] + 1>>
<1>1. /\ TypeOK /\ Wants(t, "shared") /\ GoIn(t)
      /\ ~writer /\ waitingWriters = 0
      /\ readers' = readers + 1 /\ UNCHANGED <<writer, waitingWriters>>
  BY DEF EnterShared, IInv
<1>2. TypeOK'
  <2>1. readers' \in Nat /\ writer' \in BOOLEAN /\ waitingWriters' \in Nat
    BY <1>1 DEF TypeOK
  <2> QED
    BY <1>1, <2>1, WantsTyped, GoInTyped
<1>3. /\ Held("shared")' = Held("shared") \union {lvl}
      /\ lvl \notin Held("shared")
      /\ Held("exclusive")' = Held("exclusive")
  BY <1>1, WantsTyped, HeldGoIn
<1>4. Cardinality(Held("shared")') = Cardinality(Held("shared")) + 1
  BY <1>3, HeldFinite, FS_AddElement
<1>5. phase' = [phase EXCEPT ![t] = "entering"] /\ phase[t] = "entering"
  BY <1>1 DEF GoIn, Wants
<1>6. Waiters' = Waiters /\ phase' = phase
  BY <1>1, <1>5 DEF Waiters, TypeOK
<1>7. CountersAgree'
  BY <1>1, <1>3, <1>4, <1>6 DEF CountersAgree, IInv
<1>8. Sides'
  BY <1>1, <1>3 DEF Sides, CountersAgree, IInv
<1>9. WaitersWantExclusive'
  <2>1. t \notin Waiters /\ op' = op /\ \A u \in Threads \ {t} : depth'[u] = depth[u]
    BY <1>1, <1>5 DEF Waiters, GoIn, TypeOK
  <2>2. \A u \in Waiters : u \in Threads
    BY DEF Waiters
  <2> QED
    BY <1>6, <2>1, <2>2 DEF WaitersWantExclusive, IInv
<1>10. NoLostWakeup'
  BY <1>1, <1>6 DEF NoLostWakeup, IInv, TypeOK
<1> QED
  BY <1>2, <1>7, <1>8, <1>9, <1>10 DEF IInv

(* EnterExclusive and RetryExclusive: the barrier is free and is taken.    *)
LEMMA TakeBarrier ==
  ASSUME IInv, TypeOK', NEW t \in Threads, GoIn(t), ~writer, readers = 0,
         writer' = TRUE, readers' = readers,
         depth[t] = 0, Len(Plan[op[t]]) = 1, Plan[op[t]][1] = "exclusive",
         Waiters' = Waiters \ {t},
         waitingWriters' = Cardinality(Waiters \ {t})
  PROVE  IInv'
<1>1. /\ Held("exclusive")' = Held("exclusive") \union {<<t, 1>>}
      /\ Held("shared")' = Held("shared")
  <2>1. TypeOK /\ depth[t] < Len(Plan[op[t]]) /\ depth[t] + 1 = 1
    BY DEF IInv
  <2>2. Plan[op[t]][depth[t] + 1] = "exclusive"
    OBVIOUS
  <2> QED
    BY <2>1, <2>2, HeldGoIn
<1>2. Held("exclusive") = {} /\ Held("shared") = {}
  <2>1. Cardinality(Held("shared")) = 0
    BY DEF IInv, CountersAgree
  <2> QED
    BY <2>1, HeldFinite, FS_EmptySet DEF IInv, CountersAgree
<1>3. CountersAgree'
  BY <1>1 DEF IInv, CountersAgree
<1>4. Sides'
  BY <1>1, <1>2 DEF Sides
<1>5. WaitersWantExclusive'
  <2>1. op' = op /\ \A u \in Threads \ {t} : depth'[u] = depth[u]
    BY DEF GoIn, IInv, TypeOK
  <2>2. Waiters \subseteq Threads
    BY DEF Waiters
  <2> QED
    BY <2>1, <2>2 DEF WaitersWantExclusive, IInv
<1>6. NoLostWakeup'
  BY DEF NoLostWakeup
<1> QED
  BY <1>3, <1>4, <1>5, <1>6 DEF IInv

(* A backup goes in at once, or after it has waited.                       *)
LEMMA ExclusiveStep ==
  ASSUME IInv, NEW t \in Threads, EnterExclusive(t) \/ RetryExclusive(t)
  PROVE  IInv'
<1>1. /\ TypeOK /\ GoIn(t) /\ ~writer /\ readers = 0
      /\ writer' = TRUE /\ readers' = readers
  BY DEF EnterExclusive, RetryExclusive, IInv
<1>2. depth[t] = 0 /\ Len(Plan[op[t]]) = 1 /\ Plan[op[t]][1] = "exclusive"
  <2>1. CASE EnterExclusive(t)
    BY <1>1, <2>1, ExclusiveAlone DEF EnterExclusive
  <2>2. CASE RetryExclusive(t)
    BY <2>2 DEF RetryExclusive, Waiters, IInv, WaitersWantExclusive
  <2> QED
    BY <2>1, <2>2
<1>3. Waiters' = Waiters \ {t}
  BY <1>1 DEF Waiters, GoIn, TypeOK
<1>4. waitingWriters' = Cardinality(Waiters \ {t})
  <2>1. CASE EnterExclusive(t)
    <3>1. t \notin Waiters /\ waitingWriters' = waitingWriters
      BY <2>1 DEF EnterExclusive, Wants, Waiters
    <3>2. Waiters \ {t} = Waiters
      BY <3>1
    <3> QED
      BY <3>1, <3>2 DEF IInv, CountersAgree
  <2>2. CASE RetryExclusive(t)
    <3>1. t \in Waiters /\ waitingWriters' = waitingWriters - 1
      BY <2>2 DEF RetryExclusive, Waiters
    <3> QED
      BY <3>1, HeldFinite, FS_RemoveElement DEF IInv, CountersAgree
  <2> QED
    BY <2>1, <2>2
<1>5. TypeOK'
  <2>1. waitingWriters' \in Nat
    BY <1>3, <1>4, HeldFinite, FS_RemoveElement, FS_CardinalityType, FS_Subset
  <2> QED
    BY <1>1, <1>2, <2>1, GoInTyped DEF TypeOK
<1> QED
  BY <1>1, <1>2, <1>3, <1>4, <1>5, TakeBarrier

(* A backup that waits was counted, and what it waits for will notify it.  *)
LEMMA AwaitStep ==
  ASSUME IInv, NEW t \in Threads, AwaitExclusive(t) PROVE IInv'
<1>1. /\ TypeOK /\ Wants(t, "exclusive") /\ (writer \/ readers > 0)
      /\ waitingWriters' = waitingWriters + 1
      /\ phase' = [phase EXCEPT ![t] = "parked"] /\ phase[t] = "entering"
      /\ UNCHANGED <<readers, writer, op, depth>>
  BY DEF AwaitExclusive, Wants, IInv
<1>2. TypeOK'
  <2>1. readers' \in Nat /\ writer' \in BOOLEAN /\ waitingWriters' \in Nat
    BY <1>1 DEF TypeOK
  <2>2. "parked" \in Phases
    BY DEF Phases
  <2> QED
    BY <1>1, <2>1, <2>2, PhaseTyped
<1>3. \A b : Held(b)' = Held(b)
  BY <1>1, HeldSame
<1>4. Waiters' = Waiters \union {t} /\ t \notin Waiters
  BY <1>1 DEF Waiters, TypeOK
<1>5. CountersAgree'
  BY <1>1, <1>3, <1>4, HeldFinite, FS_AddElement DEF IInv, CountersAgree
<1>6. Sides'
  BY <1>3 DEF IInv, Sides
<1>7. WaitersWantExclusive'
  BY <1>1, <1>4, ExclusiveAlone DEF IInv, WaitersWantExclusive
<1>8. NoLostWakeup'
  BY <1>1 DEF NoLostWakeup
<1> QED
  BY <1>2, <1>5, <1>6, <1>7, <1>8 DEF IInv

(* A woken backup that finds the barrier taken waits on.                   *)
LEMMA AwaitAgainStep ==
  ASSUME IInv, NEW t \in Threads, AwaitAgain(t) PROVE IInv'
<1>1. /\ TypeOK /\ phase[t] = "woken" /\ (writer \/ readers > 0)
      /\ phase' = [phase EXCEPT ![t] = "parked"]
      /\ UNCHANGED <<op, depth, barrier>>
  BY DEF AwaitAgain, IInv
<1>2. TypeOK'
  <2>1. readers' \in Nat /\ writer' \in BOOLEAN /\ waitingWriters' \in Nat
    BY <1>1 DEF TypeOK, barrier
  <2>2. "parked" \in Phases
    BY DEF Phases
  <2> QED
    BY <1>1, <2>1, <2>2, PhaseTyped
<1>3. \A b : Held(b)' = Held(b)
  BY <1>1, HeldSame
<1>4. Waiters' = Waiters
  BY <1>1 DEF Waiters, TypeOK
<1>5. NoLostWakeup'
  BY <1>1 DEF NoLostWakeup, barrier
<1> QED
  BY <1>1, <1>2, <1>3, <1>4, <1>5, Quiet

(* Refusals, the end of a body and the end of an operation.                *)
LEMMA TurnStep ==
  ASSUME IInv, NEW t \in Threads,
         RefuseShared(t) \/ RefuseAdmin(t) \/ Finish(t) \/ End(t)
  PROVE  IInv'
<1>1. /\ TypeOK /\ UNCHANGED <<op, depth, barrier>>
      /\ phase[t] \in {"entering", "leaving"}
  BY DEF RefuseShared, RefuseAdmin, Finish, End, GoOut, Wants, IInv
<1>2. PICK w \in {"idle", "leaving"} :
        phase' = [phase EXCEPT ![t] = w] /\ (w # "idle" \/ depth[t] = 0)
  BY DEF RefuseShared, RefuseAdmin, Finish, End, GoOut
<1>3. TypeOK'
  <2>1. readers' \in Nat /\ writer' \in BOOLEAN /\ waitingWriters' \in Nat
    BY <1>1 DEF TypeOK, barrier
  <2>2. w \in Phases
    BY DEF Phases
  <2> QED
    BY <1>1, <1>2, <2>1, <2>2, PhaseTyped
<1>4. \A b : Held(b)' = Held(b)
  BY <1>1, HeldSame
<1> QED
  BY <1>1, <1>2, <1>3, <1>4, QuietThread

(* The re-entrant locks are inside the barrier and do not change it.       *)
LEMMA EnterLockStep ==
  ASSUME IInv, NEW t \in Threads, EnterAdmin(t) \/ EnterVector(t) PROVE IInv'
<1>1. PICK b \in {"admin", "vector"} : Wants(t, b)
  BY DEF EnterAdmin, EnterVector
<1>2. /\ TypeOK /\ GoIn(t) /\ UNCHANGED barrier
      /\ phase[t] = "entering" /\ phase' = [phase EXCEPT ![t] = "entering"]
      /\ op' = op /\ depth' = [depth EXCEPT ![t] = depth[t] + 1]
  BY DEF EnterAdmin, EnterVector, GoIn, Wants, IInv
<1>3. TypeOK'
  <2>1. readers' \in Nat /\ writer' \in BOOLEAN /\ waitingWriters' \in Nat
    BY <1>2 DEF TypeOK, barrier
  <2> QED
    BY <1>1, <1>2, <2>1, WantsTyped, GoInTyped
<1>4. Held("shared")' = Held("shared") /\ Held("exclusive")' = Held("exclusive")
  BY <1>1, <1>2, WantsTyped, HeldGoIn
<1>5. \A u \in Threads \ {t} : op'[u] = op[u] /\ depth'[u] = depth[u]
  BY <1>2 DEF TypeOK
<1> QED
  BY <1>2, <1>3, <1>4, <1>5, QuietThread

(* What leaving any block does to the stack of the thread.                 *)
LEMMA LeaveTyped ==
  ASSUME IInv, NEW t \in Threads, NEW b, Leave(t, b),
         readers' \in Nat, writer' \in BOOLEAN, waitingWriters' \in Nat,
         phase' = phase \/ NotifyAll
  PROVE  /\ TypeOK'
         /\ Waiters' = Waiters
         /\ WaitersWantExclusive'
<1>1. /\ TypeOK /\ op' = op /\ phase[t] = "leaving"
      /\ depth' = [depth EXCEPT ![t] = depth[t] - 1]
      /\ depth[t] \in Nat /\ depth[t] > 0
  BY DEF IInv, Leave, TypeOK
<1>2. /\ phase' \in [Threads -> Phases]
      /\ \A u \in Threads : phase'[u] = "idle" <=> phase[u] = "idle"
      /\ Waiters' = Waiters
  BY <1>1 DEF NotifyAll, TypeOK, Phases, Waiters
<1>3. /\ depth' \in [Threads -> Nat]
      /\ \A u \in Threads : depth'[u] <= depth[u]
      /\ \A u \in Threads \ {t} : depth'[u] = depth[u]
  BY <1>1 DEF TypeOK
<1>4. \A u \in Threads : depth'[u] <= Len(Plan[op'[u]])
  <2>1. \A u \in Threads : Len(Plan[op[u]]) \in Nat
    BY <1>1, PlanAssumption DEF TypeOK
  <2> QED
    BY <1>1, <1>3, <2>1 DEF TypeOK
<1>5. \A u \in Threads : phase'[u] = "idle" => depth'[u] = 0
  BY <1>1, <1>2, <1>3 DEF TypeOK
<1>6. TypeOK'
  BY <1>1, <1>2, <1>3, <1>4, <1>5 DEF TypeOK
<1>7. WaitersWantExclusive'
  BY <1>1, <1>2, <1>3 DEF WaitersWantExclusive, Waiters, IInv
<1> QED
  BY <1>2, <1>6, <1>7

(* The last permit to be returned notifies whoever waits.                  *)
LEMMA LeaveSharedStep ==
  ASSUME IInv, NEW t \in Threads, LeaveShared(t) PROVE IInv'
<1>1. /\ TypeOK /\ Leave(t, "shared") /\ readers' = readers - 1
      /\ UNCHANGED <<writer, waitingWriters>>
      /\ IF readers' = 0 THEN NotifyAll ELSE phase' = phase
  BY DEF LeaveShared, IInv
<1>2. /\ <<t, depth[t]>> \in Held("shared")
      /\ Held("shared")' = Held("shared") \ {<<t, depth[t]>>}
      /\ Held("exclusive")' = Held("exclusive")
  BY <1>1, HeldLeave
<1>3. /\ Cardinality(Held("shared")') = Cardinality(Held("shared")) - 1
      /\ Cardinality(Held("shared")') \in Nat
  BY <1>2, HeldFinite, FS_RemoveElement, FS_CardinalityType, FS_Subset
<1>4. readers' = Cardinality(Held("shared")')
  BY <1>1, <1>3 DEF IInv, CountersAgree
<1>5. TypeOK' /\ Waiters' = Waiters /\ WaitersWantExclusive'
  <2>1. readers' \in Nat /\ writer' \in BOOLEAN /\ waitingWriters' \in Nat
    BY <1>1, <1>3, <1>4 DEF TypeOK
  <2> QED
    BY <1>1, <2>1, LeaveTyped
<1>6. CountersAgree'
  BY <1>1, <1>2, <1>4, <1>5 DEF IInv, CountersAgree
<1>7. Sides'
  BY <1>2 DEF IInv, Sides
<1>8. NoLostWakeup'
  <2>1. CASE readers' = 0
    <3>1. \A u \in Threads : phase'[u] # "parked"
      BY <1>1, <2>1 DEF NotifyAll, TypeOK, Phases
    <3> QED
      BY <3>1 DEF NoLostWakeup
  <2>2. CASE readers' # 0
    BY <1>5, <2>2 DEF NoLostWakeup, TypeOK
  <2> QED
    BY <2>1, <2>2
<1> QED
  BY <1>5, <1>6, <1>7, <1>8 DEF IInv

(* A backup that leaves frees the barrier and notifies whoever waits.      *)
LEMMA LeaveExclusiveStep ==
  ASSUME IInv, NEW t \in Threads, LeaveExclusive(t) PROVE IInv'
<1>1. /\ TypeOK /\ Leave(t, "exclusive") /\ writer' = FALSE /\ NotifyAll
      /\ UNCHANGED <<readers, waitingWriters>>
  BY DEF LeaveExclusive, IInv
<1>2. /\ <<t, depth[t]>> \in Held("exclusive")
      /\ Held("exclusive")' = Held("exclusive") \ {<<t, depth[t]>>}
      /\ Held("shared")' = Held("shared")
  BY <1>1, HeldLeave
<1>3. Held("exclusive")' = {}
  BY <1>2 DEF IInv, Sides
<1>4. TypeOK' /\ Waiters' = Waiters /\ WaitersWantExclusive'
  <2>1. readers' \in Nat /\ writer' \in BOOLEAN /\ waitingWriters' \in Nat
    BY <1>1 DEF TypeOK
  <2> QED
    BY <1>1, <2>1, LeaveTyped
<1>5. CountersAgree'
  BY <1>1, <1>2, <1>3, <1>4 DEF IInv, CountersAgree
<1>6. Sides'
  BY <1>3 DEF Sides
<1>7. NoLostWakeup'
  BY <1>1 DEF NoLostWakeup, NotifyAll, TypeOK, Phases
<1> QED
  BY <1>4, <1>5, <1>6, <1>7 DEF IInv

(* Leaving a re-entrant lock does not change the barrier.                  *)
LEMMA LeaveLockStep ==
  ASSUME IInv, NEW t \in Threads, LeaveLock(t) PROVE IInv'
<1>1. PICK b \in {"admin", "vector"} : Leave(t, b)
  BY DEF LeaveLock
<1>2. TypeOK /\ UNCHANGED <<phase, barrier>>
  BY DEF LeaveLock, IInv
<1>3. Held("shared")' = Held("shared") /\ Held("exclusive")' = Held("exclusive")
  BY <1>1, <1>2, HeldLeave
<1>4. TypeOK' /\ Waiters' = Waiters /\ WaitersWantExclusive'
  <2>1. readers' \in Nat /\ writer' \in BOOLEAN /\ waitingWriters' \in Nat
    BY <1>2 DEF TypeOK, barrier
  <2> QED
    BY <1>1, <1>2, <2>1, LeaveTyped
<1>5. NoLostWakeup'
  BY <1>2 DEF IInv, NoLostWakeup, barrier
<1>6. CountersAgree' /\ Sides'
  BY <1>2, <1>3, <1>4 DEF IInv, CountersAgree, Sides, barrier
<1> QED
  BY <1>4, <1>5, <1>6 DEF IInv
-----------------------------------------------------------------------------
(* Every step keeps the inductive invariant.                               *)
LEMMA IInvStep == IInv /\ [Next]_vars => IInv'
<1> SUFFICES ASSUME IInv, [Next]_vars PROVE IInv'
  OBVIOUS
<1>1. CASE UNCHANGED vars
  <2>1. /\ UNCHANGED <<op, depth, phase>> /\ UNCHANGED barrier
    BY <1>1 DEF vars, barrier
  <2>2. \A b : Held(b)' = Held(b)
    BY <2>1, HeldSame
  <2>3. TypeOK' /\ NoLostWakeup' /\ Waiters' = Waiters
    BY <2>1 DEF IInv, TypeOK, NoLostWakeup, Waiters, barrier
  <2> QED
    BY <2>1, <2>2, <2>3, Quiet
<1>2. ASSUME NEW t \in Threads, Begin(t) PROVE IInv'
  BY <1>2, BeginStep
<1>3. ASSUME NEW t \in Threads, EnterVector(t) PROVE IInv'
  BY <1>3, EnterLockStep
<1>4. ASSUME NEW t \in Threads, Step(t) PROVE IInv'
  BY <1>4, SharedStep, ExclusiveStep, AwaitStep, AwaitAgainStep, TurnStep,
     EnterLockStep, LeaveSharedStep, LeaveExclusiveStep, LeaveLockStep
     DEF Step
<1> QED
  BY <1>1, <1>2, <1>3, <1>4 DEF Next

(* The inductive invariant holds in every reachable state.                 *)
LEMMA Invariance == Spec => []IInv
<1> QED
  BY IInvInit, IInvStep, PTL DEF Spec

(* The threads that hold a block are those with an entry for it.           *)
LEMMA HoldersOf ==
  ASSUME NEW b
  PROVE  /\ \A t : t \in Holders(b) <=> \E i \in Levels : <<t, i>> \in Held(b)
         /\ Held(b) = {} <=> Holders(b) = {}
<1>1. Held(b) \subseteq Threads \X Levels
  BY DEF Held
<1>2. \A t, i : <<t, i>> \in Held(b) => t \in Threads /\ i \in Levels
  BY <1>1
<1>3. \A p \in Held(b) : \E t \in Threads, i \in Levels : p = <<t, i>>
  BY <1>1
<1>4. ASSUME NEW t
      PROVE  t \in Holders(b) <=> \E i \in Levels : <<t, i>> \in Held(b)
  BY <1>2 DEF Holders
<1>5. Held(b) = {} <=> Holders(b) = {}
  BY <1>3, <1>4, Zenon
<1> QED
  BY <1>4, <1>5

(* Backups and business writes never overlap (business_write,              *)
(* admin_operation and backup_exclusive of the coordinator), for any       *)
(* number of threads and any nesting of permits.                           *)
THEOREM WriteExclusionHolds == Spec => []WriteExclusion
<1>1. IInv => WriteExclusion
  <2> SUFFICES ASSUME IInv, Holders("exclusive") # {} PROVE WriteExclusion
    BY DEF WriteExclusion
  <2>1. Held("shared") = {} /\ Held("exclusive") # {}
    BY HoldersOf DEF IInv, Sides
  <2>2. Holders("shared") = {}
    BY <2>1, HoldersOf
  <2>3. PICK t : Holders("exclusive") = {t}
    <3>1. ASSUME NEW t \in Holders("exclusive"), NEW u \in Holders("exclusive")
          PROVE  t = u
      <4>1. PICK i \in Levels : <<t, i>> \in Held("exclusive")
        BY HoldersOf
      <4>2. PICK j \in Levels : <<u, j>> \in Held("exclusive")
        BY HoldersOf
      <4>3. <<t, i>> = <<u, j>>
        BY <4>1, <4>2 DEF IInv, Sides
      <4> QED
        BY <4>3
    <3>2. PICK t : t \in Holders("exclusive")
      OBVIOUS
    <3>3. Holders("exclusive") = {t}
      BY <3>1, <3>2
    <3> QED
      BY <3>3
  <2>4. Cardinality(Holders("exclusive")) = 1
    BY <2>3, FS_Singleton
  <2> QED
    BY <2>2, <2>4 DEF WriteExclusion
<1> QED
  BY <1>1, Invariance, PTL

(* Whoever is parked in Condition.wait() has somebody to wake it.          *)
THEOREM NoWakeupIsLost == Spec => []NoLostWakeup
BY Invariance, PTL DEF IInv

(* The variables keep their types; the counters never go below zero.       *)
THEOREM TypeCorrect == Spec => []TypeOK
BY Invariance, PTL DEF IInv

(* No permit is handed out while a backup waits, nested requests included. *)
THEOREM WritersArePreferred == Spec => WriterPreference
<1>1. IInv /\ IInv' /\ [Next]_vars =>
        [Waiters # {} =>
           Cardinality(Held("shared"))' <= Cardinality(Held("shared"))]_vars
  <2> SUFFICES ASSUME IInv, IInv', Next, Waiters # {}
               PROVE  Cardinality(Held("shared"))' <= Cardinality(Held("shared"))
    OBVIOUS
  <2>1. waitingWriters # 0
    BY HeldFinite, FS_EmptySet DEF IInv, CountersAgree
  <2>2. readers \in Nat /\ readers' <= readers
    <3>1. readers \in Nat
      BY DEF IInv, TypeOK
    <3>2. PICK t \in Threads : Begin(t) \/ EnterVector(t) \/ Step(t)
      BY DEF Next
    <3>3. ~EnterShared(t)
      BY <2>1 DEF EnterShared
    <3>4. readers' = readers \/ readers' = readers - 1
      BY <3>2, <3>3
         DEF Begin, EnterVector, Step, RefuseShared, EnterExclusive, barrier,
             AwaitExclusive, RetryExclusive, AwaitAgain, EnterAdmin, End,
             RefuseAdmin, Finish, LeaveShared, LeaveExclusive, LeaveLock
    <3> QED
      BY <3>1, <3>4
  <2> QED
    BY <2>2 DEF IInv, CountersAgree
<1> QED
  BY <1>1, Invariance, PTL DEF Spec, WriterPreference
-----------------------------------------------------------------------------
(* What a step does to the two sides, as seen by the holders.              *)
LEMMA AbstractEnter ==
  ASSUME IInv, IInv', NEW t \in Threads,
         EnterShared(t) \/ EnterExclusive(t) \/ RetryExclusive(t)
  PROVE  Exclusion!Next
<1>1. CASE EnterShared(t)
  <2> DEFINE lvl == <<t, depth[t] + 1>>
  <2>1. /\ TypeOK /\ Wants(t, "shared") /\ GoIn(t) /\ ~writer
    BY <1>1 DEF EnterShared, IInv
  <2>2. /\ Held("shared")' = Held("shared") \union {lvl}
        /\ lvl \notin Held("shared")
        /\ Held("exclusive")' = Held("exclusive")
    BY <2>1, WantsTyped, HeldGoIn
  <2>3. Held("exclusive") = {} /\ Holders("exclusive") = {}
    BY <2>1, HoldersOf DEF IInv, CountersAgree
  <2>4. Holders("exclusive")' = {}
    BY <2>2, <2>3 DEF Holders
  <2>5. lvl \in Threads \X Levels
    BY <2>2 DEF Held
  <2> QED
    BY <2>2, <2>3, <2>4, <2>5 DEF Exclusion!Next, Exclusion!Grant
<1>2. CASE EnterExclusive(t) \/ RetryExclusive(t)
  <2>1. /\ TypeOK /\ GoIn(t) /\ ~writer /\ readers = 0
    BY <1>2 DEF EnterExclusive, RetryExclusive, IInv
  <2>2. depth[t] = 0 /\ Len(Plan[op[t]]) = 1 /\ Plan[op[t]][1] = "exclusive"
    BY <1>2, <2>1, ExclusiveAlone
       DEF EnterExclusive, RetryExclusive, Waiters, IInv, WaitersWantExclusive
  <2>3. /\ Held("exclusive")' = Held("exclusive") \union {<<t, 1>>}
        /\ Held("shared")' = Held("shared")
    <3>1. depth[t] < Len(Plan[op[t]]) /\ depth[t] + 1 = 1
      BY <2>2
    <3>2. Plan[op[t]][depth[t] + 1] = "exclusive"
      BY <2>2, <3>1
    <3> QED
      BY <2>1, <3>1, <3>2, HeldGoIn
  <2>4. Held("exclusive") = {} /\ Held("shared") = {} /\ Holders("exclusive") = {}
    <3>1. Cardinality(Held("shared")) = 0
      BY <2>1 DEF IInv, CountersAgree
    <3> QED
      BY <2>1, <3>1, HeldFinite, FS_EmptySet, HoldersOf DEF IInv, CountersAgree
  <2>5. Holders("exclusive")' = {t}
    <3>1. 1 \in Levels
      BY DEF Levels
    <3> QED
      BY <2>3, <2>4, <3>1 DEF Holders
  <2> QED
    BY <2>3, <2>4, <2>5 DEF Exclusion!Next, Exclusion!Own
<1> QED
  BY <1>1, <1>2

(* Leaving a block is a release, or nothing at all.                        *)
LEMMA AbstractLeave ==
  ASSUME IInv, IInv', NEW t \in Threads, LeaveShared(t) \/ LeaveExclusive(t)
  PROVE  Exclusion!Next
<1>1. CASE LeaveShared(t)
  <2>1. TypeOK /\ Leave(t, "shared")
    BY <1>1 DEF LeaveShared, IInv
  <2>2. /\ <<t, depth[t]>> \in Held("shared")
        /\ Held("shared")' = Held("shared") \ {<<t, depth[t]>>}
        /\ Held("exclusive")' = Held("exclusive")
    BY <2>1, HeldLeave
  <2>3. Holders("exclusive")' = Holders("exclusive")
    BY <2>2 DEF Holders
  <2> QED
    BY <2>2, <2>3 DEF Exclusion!Next, Exclusion!Return
<1>2. CASE LeaveExclusive(t)
  <2>1. TypeOK /\ Leave(t, "exclusive")
    BY <1>2 DEF LeaveExclusive, IInv
  <2>2. /\ <<t, depth[t]>> \in Held("exclusive")
        /\ Held("exclusive")' = Held("exclusive") \ {<<t, depth[t]>>}
        /\ Held("shared")' = Held("shared")
    BY <2>1, HeldLeave
  <2>3. \A p \in Held("exclusive") : p = <<t, depth[t]>>
    BY <2>2 DEF IInv, Sides
  <2>4. Holders("exclusive") = {t}
    BY <2>2, <2>3 DEF Holders, Held
  <2>5. Holders("exclusive")' = {}
    BY <2>2, <2>3 DEF Holders
  <2> QED
    BY <2>2, <2>4, <2>5 DEF Exclusion!Next, Exclusion!Disown
<1> QED
  BY <1>1, <1>2

(* Counters, condition variable and locks implement the exclusion between  *)
(* permits and backups that callers of the coordinator rely on.            *)
THEOREM BarrierImplementsExclusion == Spec => ImplementsExclusion
<1>1. Init => Exclusion!Init
  <2> SUFFICES ASSUME Init PROVE Exclusion!Init
    OBVIOUS
  <2>1. \A b : Held(b) = {}
    BY DEF Init, Held, Levels
  <2> QED
    BY <2>1, HoldersOf DEF Exclusion!Init
<1>2. IInv /\ IInv' /\ [Next]_vars => [Exclusion!Next]_(Exclusion!vars)
  <2> SUFFICES ASSUME IInv, IInv', [Next]_vars
               PROVE  Exclusion!Next \/ UNCHANGED Exclusion!vars
    OBVIOUS
  <2>1. ASSUME Held("shared")' = Held("shared"),
               Held("exclusive")' = Held("exclusive")
        PROVE  UNCHANGED Exclusion!vars
    BY <2>1 DEF Exclusion!vars, Holders
  <2>2. CASE UNCHANGED vars
    BY <2>1, <2>2, HeldSame DEF vars
  <2>3. ASSUME NEW t \in Threads, Begin(t) PROVE UNCHANGED Exclusion!vars
    <3>1. depth' = depth /\ \A u \in Threads : depth[u] = 0 \/ op'[u] = op[u]
      BY <2>3 DEF Begin, IInv, TypeOK
    <3> QED
      BY <2>1, <3>1, HeldSame
  <2>4. ASSUME NEW t \in Threads, EnterAdmin(t) \/ EnterVector(t)
        PROVE  UNCHANGED Exclusion!vars
    <3>1. PICK b \in {"admin", "vector"} : Wants(t, b)
      BY <2>4 DEF EnterAdmin, EnterVector
    <3>2. TypeOK /\ GoIn(t)
      BY <2>4 DEF EnterAdmin, EnterVector, IInv
    <3> QED
      BY <2>1, <3>1, <3>2, WantsTyped, HeldGoIn
  <2>5. ASSUME NEW t \in Threads, LeaveLock(t) PROVE UNCHANGED Exclusion!vars
    BY <2>1, <2>5, HeldLeave DEF LeaveLock, IInv
  <2>6. ASSUME NEW t \in Threads,
               \/ RefuseShared(t) \/ AwaitExclusive(t) \/ AwaitAgain(t)
               \/ RefuseAdmin(t) \/ Finish(t) \/ End(t)
        PROVE  UNCHANGED Exclusion!vars
    <3>1. depth' = depth /\ op' = op
      BY <2>6 DEF RefuseShared, AwaitExclusive, AwaitAgain, RefuseAdmin,
                  Finish, End, GoOut
    <3> QED
      BY <2>1, <3>1, HeldSame
  <2> QED
    BY <2>2, <2>3, <2>4, <2>5, <2>6, AbstractEnter, AbstractLeave DEF Next, Step
<1> QED
  BY <1>1, <1>2, Invariance, PTL DEF Spec, ImplementsExclusion, Exclusion!Spec
=============================================================================
