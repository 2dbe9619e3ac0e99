---------------------------- MODULE LoginLimiter ----------------------------
(***************************************************************************)
(* LoginLimiter: the rate limits of logins, registrations and the          *)
(* bootstrap, kept in the memory of the process: buckets of attempts per   *)
(* address, account and combination, in a table of bounded size            *)
(* (AuthRateLimiter of core/security.py, api/auth.py).                     *)
(*                                                                         *)
(* An operation of the limiter reads the clock, then takes the lock: each  *)
(* action below is such a reading or what happens under the lock, and the  *)
(* verification of the password, between two operations, takes time.       *)
(* Simplifications: a clock of whole ticks; a key is its dimension with    *)
(* the address and the name it is about, where the code takes a digest;    *)
(* any operation may be the 64th, at which the table is cleaned up; a      *)
(* restart, which empties the table, is the initial state.  The order of   *)
(* the table is the relation of who comes before whom.                     *)
(***************************************************************************)
EXTENDS Integers, Sequences, FiniteSets, Functions, FiniteSetsExt

CONSTANTS
  Threads,    \* threads that serve a request
  Logins,         \* pairs of an address and an account
  Registrations,  \* pairs of an address and the sequence of names asked for,
                  \* the user name and the e-mail address if there is one
  Bootstraps,     \* addresses that ask for the bootstrap
  Rules,      \* Rules[dimension]: limit and window of the dimension
  BackoffBase, BackoffMax,  \* the cooldown of a login
  TTL,        \* ttl_seconds
  MaxKeys,    \* max_keys
  MaxTime,    \* bound on the clock
  Anybody     \* the part of a key that the dimension leaves out

LoginDimensions == {"login_ip", "login_account", "login_combination"}
QuotaDimensions == {"register_ip", "register_target", "bootstrap_ip", "bootstrap_global"}

ASSUME LoginLimiterAssumption ==
  /\ Rules \in [LoginDimensions \union QuotaDimensions ->
                  [limit : Nat \ {0}, window : Nat \ {0}]]
  /\ BackoffBase \in Nat \ {0} /\ BackoffMax \in Nat /\ BackoffBase <= BackoffMax
  /\ TTL \in Nat /\ \A d \in DOMAIN Rules : Rules[d].window <= TTL
  /\ MaxKeys \in Nat /\ MaxKeys >= 3
  /\ MaxTime \in Nat
  /\ \A r \in Registrations : LET names == r[2] IN
       \/ names = <<names[1]>>
       \/ names = <<names[1], names[2]>> /\ names[1] # names[2]

VARIABLES
  now,       \* the monotonic clock
  table,     \* the limiter: which key comes before which in the order of
             \* their last use, and the bucket of each
  serving,   \* the request each thread serves
  recorded,  \* history: the attempts counted for a key in the window of its
             \* rule, since its bucket was last reset or evicted
  promised,  \* history: the end of the longest cooldown a client was told of
             \* for a key, since its bucket was last reset or evicted
  overtaken  \* history: keys used by an operation whose reading of the clock
             \* was older than that of an operation before it

limiterVars == <<now, table, serving, recorded, promised, overtaken>>
history == <<recorded, promised, overtaken>>

Key(dimension, address, name) == <<dimension, address, name>>
Rule(key) == Rules[key[1]]

LoginKeys(address, account) ==
  <<Key("login_ip", address, Anybody), Key("login_account", Anybody, account),
    Key("login_combination", address, account)>>

RegisterKeys(address, names) ==
  <<Key("register_ip", address, Anybody)>>
    \o [i \in DOMAIN names |-> Key("register_target", Anybody, names[i])]

BootstrapKeys(address) ==
  <<Key("bootstrap_ip", address, Anybody), Key("bootstrap_global", Anybody, Anybody)>>

QuotaRequests ==
  {RegisterKeys(r[1], r[2]) : r \in Registrations}
    \union {BootstrapKeys(a) : a \in Bootstraps}

LoginRequests == {LoginKeys(l[1], l[2]) : l \in Logins}
Keys == UNION {Range(keys) : keys \in LoginRequests \union QuotaRequests}
Times == 0 .. MaxTime

Empty == [before |-> {}, bucket |-> <<>>]
NewBucket(time) == [attempts |-> <<>>, until |-> 0, seen |-> time]
Buckets == [attempts : Seq(Times), until : 0 .. MaxTime + BackoffMax, seen : Times]

LimiterTypeOK ==
  /\ now \in Times
  /\ DOMAIN table.bucket \subseteq Keys
  /\ \A k \in DOMAIN table.bucket : table.bucket[k] \in Buckets
  /\ \A t \in Threads :
       /\ serving[t].at \in {"idle", "check", "verify", "record", "reset", "consume"}
       /\ serving[t].clock \in Times
       /\ serving[t].keys \in {<<>>} \union LoginRequests \union QuotaRequests
  /\ recorded \in [Keys -> Seq(Times)]
  /\ promised \in [Keys -> 0 .. MaxTime + BackoffMax]
  /\ overtaken \subseteq Keys

Free == [at |-> "idle", keys |-> <<>>, clock |-> 0]

LimiterInit ==
  /\ now = 0
  /\ table = Empty
  /\ serving = [t \in Threads |-> Free]
  /\ recorded = [k \in Keys |-> <<>>]
  /\ promised = [k \in Keys |-> 0]
  /\ overtaken = {}

-----------------------------------------------------------------------------
(* The table, under the lock *)

(* MUTANT of Fresh: one old attempt drops them all. *)
FreshWhole(attempts, threshold) ==
  IF \E i \in DOMAIN attempts : attempts[i] <= threshold THEN <<>> ELSE attempts

\* The oldest attempts are dropped up to the first one within the window.
Fresh(attempts, threshold) ==
  LET fresh == {i \in DOMAIN attempts : attempts[i] > threshold}
  IN IF fresh = {} THEN <<>> ELSE SubSeq(attempts, Min(fresh), Len(attempts))

Pruned(bucket, key, time) ==
  LET fresh == Fresh(bucket.attempts, time - Rule(key).window) IN
  [bucket EXCEPT !.attempts = fresh,
                 !.until = IF fresh = <<>> /\ @ <= time THEN 0 ELSE @]

Without(tab, keys) ==
  [before |-> {p \in tab.before : p[1] \notin keys /\ p[2] \notin keys},
   bucket |-> [k \in DOMAIN tab.bucket \ keys |-> tab.bucket[k]]]

MovedToEnd(tab, key) ==
  [tab EXCEPT !.before = {p \in @ : p[1] # key /\ p[2] # key}
                           \union ((DOMAIN tab.bucket \ {key}) \X {key})]

\* The bucket of the key, pruned, seen, and the most recently used.
Touched(tab, key, time) ==
  MovedToEnd([tab EXCEPT !.bucket[key] = [Pruned(@, key, time) EXCEPT !.seen = time]], key)

(* MUTANT of Expired: a block does not keep its bucket. *)
ExpiredWhenUnseen(bucket, time) == time - bucket.seen >= TTL

Expired(bucket, time) == time - bucket.seen >= TTL /\ bucket.until <= time

CleanedUp(tab, time) ==
  Without(tab, {k \in DOMAIN tab.bucket : Expired(tab.bucket[k], time)})

IsFull(tab) == Cardinality(DOMAIN tab.bucket) >= MaxKeys

\* The tables an operation may start from: a full one is cleaned up.
Maintained(tab, time) ==
  {CleanedUp(tab, time)} \union (IF IsFull(tab) THEN {} ELSE {tab})

\* What goes when another key comes: the one that no other is before.
Evicted(tab) ==
  IF IsFull(tab)
  THEN {k \in DOMAIN tab.bucket : \A j \in DOMAIN tab.bucket : <<j, k>> \notin tab.before}
  ELSE {}

(* _get_or_create: the bucket becomes the most recently used one. *)
Created(tab, key, time) ==
  IF key \in DOMAIN tab.bucket THEN MovedToEnd(tab, key)
  ELSE LET rest == Without(tab, Evicted(tab)) IN
       [before |-> rest.before \union ((DOMAIN rest.bucket) \X {key}),
        bucket |-> [k \in DOMAIN rest.bucket \union {key} |->
                      IF k = key THEN NewBucket(time) ELSE rest.bucket[k]]]

Counted(tab, key, time) ==
  [tab EXCEPT !.bucket[key].attempts = Append(@, time), !.bucket[key].seen = time]

-----------------------------------------------------------------------------
(* The operations of the limiter on a table, and the history with it *)

\* A loop over the keys of a request, which are at most three.
InTurn(Op(_, _), start, keys) ==
  LET one == Op(start, keys[1])
      two == IF Len(keys) < 2 THEN one ELSE Op(one, keys[2])
  IN IF Len(keys) < 3 THEN two ELSE Op(two, keys[3])

Checked(tab, keys, time) ==
  InTurn(LAMBDA acc, k : IF k \in DOMAIN acc.bucket THEN Touched(acc, k, time) ELSE acc,
         tab, keys)

Blocked(tab, keys, time) ==
  \E k \in Range(keys) : k \in DOMAIN tab.bucket /\ tab.bucket[k].until > time

Cooldown(key, failures) ==
  LET backoff == BackoffBase * 2 ^ (failures - Rule(key).limit)
  IN IF backoff < BackoffMax THEN backoff ELSE BackoffMax

Later(a, b) == IF a < b THEN b ELSE a

\* The end of the cooldown that a failure at the time brings, or 0.
Penalty(tab, key, time) ==
  LET failures == Len(tab.bucket[key].attempts) IN
  IF failures >= Rule(key).limit THEN time + Cooldown(key, failures) ELSE 0

\* A table with what is known of its keys.
WithHistory(tab) == [table |-> tab, recorded |-> recorded, promised |-> promised]

\* Nothing is known of a key whose bucket goes.
Forgotten(known, keys) ==
  [known EXCEPT !.recorded = [k \in Keys |-> IF k \in keys THEN <<>> ELSE @[k]],
                !.promised = [k \in Keys |-> IF k \in keys THEN 0 ELSE @[k]]]

\* _get_or_create, which may evict a key.
MadeRoom(known, key, time) ==
  LET gone == IF key \in DOMAIN known.table.bucket THEN {} ELSE Evicted(known.table)
  IN [Forgotten(known, gone) EXCEPT !.table = Created(@, key, time)]

\* An attempt counts for the key.
Attempted(known, key, time) ==
  [known EXCEPT !.table = Counted(@, key, time), !.recorded[key] = Append(@, time)]

\* One failure for a key.
Failed(known, key, time) ==
  LET room == MadeRoom(known, key, time)
      ready == [room EXCEPT !.table.bucket[key] = Pruned(@, key, time)]
      counted == Attempted(ready, key, time)
      penalty == Penalty(counted.table, key, time)
  IN IF penalty = 0 THEN counted
     ELSE [counted EXCEPT !.table.bucket[key].until = Later(@, penalty),
                          !.promised[key] = Later(@, penalty)]

Failures(tab, keys, time) ==
  InTurn(LAMBDA known, k : Failed(known, k, time), WithHistory(tab), keys)

\* An exhausted quota: as many attempts in the window as the limit.
Exhausted(tab, key) ==
  key \in DOMAIN tab.bucket /\ Len(tab.bucket[key].attempts) >= Rule(key).limit

Granted(tab, keys, time) ==
  InTurn(LAMBDA known, k :
           Attempted(IF k \in DOMAIN tab.bucket THEN known ELSE MadeRoom(known, k, time),
                     k, time),
         WithHistory(tab), keys)

\* The keys of the request that another operation used with a later reading.
Overtake(t) ==
  overtaken' = overtaken \union
    {k \in Range(serving[t].keys) \intersect DOMAIN table.bucket :
       table.bucket[k].seen > serving[t].clock}

Become(known) ==
  table' = known.table /\ recorded' = known.recorded /\ promised' = known.promised

-----------------------------------------------------------------------------
(* Requests *)

\* A request, or its next operation of the limiter, reads the clock.
Serve(t, state, keys) ==
  serving' = [serving EXCEPT ![t] = [at |-> state, keys |-> keys, clock |-> now]]

Reply(t) == serving' = [serving EXCEPT ![t] = Free]

Login(t, keys) ==
  /\ serving[t].at = "idle"
  /\ Serve(t, "check", keys)
  /\ UNCHANGED <<now, table, history>>

\* check_failures: too early is answered with 429, whatever the password.
CheckFailures(t) ==
  /\ serving[t].at = "check"
  /\ \E tab \in Maintained(table, serving[t].clock) :
       /\ table' = Checked(tab, serving[t].keys, serving[t].clock)
       /\ IF Blocked(table', serving[t].keys, serving[t].clock)
          THEN Reply(t)
          ELSE serving' = [serving EXCEPT ![t].at = "verify", ![t].clock = 0]
  /\ Overtake(t)
  /\ UNCHANGED <<now, recorded, promised>>

\* AuthService.login, outside of the lock: the password is right or wrong.
VerifyPassword(t) ==
  /\ serving[t].at = "verify"
  /\ \/ Serve(t, "record", serving[t].keys)
     \/ serving' = [serving EXCEPT ![t].at = "reset"]
  /\ UNCHANGED <<now, table, history>>

RecordFailures(t) ==
  /\ serving[t].at = "record"
  /\ \E tab \in Maintained(table, serving[t].clock) :
       Become(Failures(tab, serving[t].keys, serving[t].clock))
  /\ Overtake(t)
  /\ Reply(t)
  /\ UNCHANGED now

\* A success clears the account and the combination, not the address.
Reset(t) ==
  /\ serving[t].at = "reset"
  /\ LET cleared == Range(Tail(serving[t].keys))
     IN Become(Forgotten(WithHistory(Without(table, cleared)), cleared))
  /\ Reply(t)
  /\ UNCHANGED <<now, overtaken>>

AskQuota(t, keys) ==
  /\ serving[t].at = "idle"
  /\ Serve(t, "consume", keys)
  /\ UNCHANGED <<now, table, history>>

\* consume_attempts: the attempt counts for every key, or for none.
ConsumeAttempts(t) ==
  /\ serving[t].at = "consume"
  /\ \E tab \in Maintained(table, serving[t].clock) :
       LET keys == serving[t].keys
           time == serving[t].clock
           prepared == Checked(tab, keys, time)
       IN IF \E k \in Range(keys) : Exhausted(prepared, k)
          THEN table' = prepared /\ UNCHANGED <<recorded, promised>>
          ELSE Become(Granted(prepared, keys, time))
  /\ Overtake(t)
  /\ Reply(t)
  /\ UNCHANGED now

\* The times after the last of them that has left the window.
InWindow(times, key, time) ==
  LET old == {i \in DOMAIN times : times[i] <= time - Rule(key).window}
  IN SubSeq(times, Max(old \union {0}) + 1, Len(times))

Tick ==
  /\ now < MaxTime
  /\ now' = now + 1
  /\ recorded' = [k \in Keys |-> InWindow(recorded[k], k, now')]
  /\ promised' = [k \in Keys |-> IF promised[k] <= now' THEN 0 ELSE promised[k]]
  /\ UNCHANGED <<table, serving, overtaken>>

LimiterNext ==
  \/ \E t \in Threads :
       \/ \E keys \in LoginRequests : Login(t, keys)
       \/ \E keys \in QuotaRequests : AskQuota(t, keys)
       \/ CheckFailures(t) \/ VerifyPassword(t) \/ RecordFailures(t) \/ Reset(t)
       \/ ConsumeAttempts(t)
  \/ Tick

LimiterSpec == LimiterInit /\ [][LimiterNext]_limiterVars

-----------------------------------------------------------------------------
(* Safety *)

\* Of two keys of a table one comes before the other.
Ordered(tab) ==
  LET keys == DOMAIN tab.bucket IN
  /\ tab.before \subseteq keys \X keys
  /\ \A j, k \in keys : <<j, k>> \in tab.before <=> j # k /\ <<k, j>> \notin tab.before
  /\ \A i, j, k \in keys :
       <<i, j>> \in tab.before /\ <<j, k>> \in tab.before => <<i, k>> \in tab.before

\* The table never grows beyond max_keys.
TableIsBounded == Cardinality(DOMAIN table.bucket) <= MaxKeys /\ Ordered(table)

(* A cooldown that a client was told of is in force to its end: only a     *)
(* success or an eviction from a full table ends it earlier, never a       *)
(* cleanup, a later failure or a window that has passed.                   *)
BlocksAreKept ==
  \A k \in Keys : promised[k] > now =>
    k \in DOMAIN table.bucket /\ table.bucket[k].until >= promised[k]

(* What a bucket counts within the window is what happened: no attempt is  *)
(* forgotten or counted twice as long as the operations on the key come in *)
(* the order of their readings of the clock.  (What is in the window is    *)
(* then the end of what was recorded.)  So of registrations no more are    *)
(* let through in a window than the limit, even when several ask at the    *)
(* same time; and the table never grows beyond max_keys.  (And the         *)
(* variables have their types.)                                            *)
CountsAreExact ==
  /\ LimiterTypeOK
  /\ TableIsBounded
  /\ \A k \in Keys \ overtaken :
       /\ InWindow(recorded[k], k, now)
            = IF k \in DOMAIN table.bucket
              THEN InWindow(table.bucket[k].attempts, k, now) ELSE <<>>
       /\ \A i, j \in DOMAIN recorded[k] :
            i < j /\ recorded[k][i] > now - Rule(k).window
              => recorded[k][j] > now - Rule(k).window
       /\ k[1] \in QuotaDimensions => Len(InWindow(recorded[k], k, now)) <= Rule(k).limit
=============================================================================
