------------------------- MODULE ReadWriteExclusion -------------------------
(***************************************************************************)
(* What the process-wide write barrier promises to its callers: a permit   *)
(* to write business data is only ever granted while no backup owns the    *)
(* system, and a backup only ever owns the system while no permit is out.  *)
(* Nothing is said about how the barrier knows that: see WriteBarrier for  *)
(* the counters and the condition variable of the code.                    *)
(***************************************************************************)
CONSTANT Permits,   \* identities of the shared permits that can be granted
         Owners     \* identities of those that can own the system

VARIABLES granted,  \* the permits that are out
          owner     \* the set of backups that own the system

vars == <<granted, owner>>

Init == granted = {} /\ owner = {}

Grant == \E p \in Permits \ granted :
           /\ owner = {}
           /\ granted' = granted \union {p}
           /\ UNCHANGED owner

Return == \E p \in granted :
            /\ granted' = granted \ {p}
            /\ UNCHANGED owner

Own == \E o \in Owners :
         /\ granted = {} /\ owner = {}
         /\ owner' = {o}
         /\ UNCHANGED granted

Disown == \E o \in owner :
            /\ owner' = owner \ {o}
            /\ UNCHANGED granted

Next == Grant \/ Return \/ Own \/ Disown

Spec == Init /\ [][Next]_vars
=============================================================================
