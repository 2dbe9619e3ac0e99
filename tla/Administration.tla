--------------------------- MODULE Administration ---------------------------
(***************************************************************************)
(* Administration: registration, the bootstrap of the first administrator, *)
(* changes of roles and of active accounts with their audit trail, and the *)
(* product settings in the database and in memory (auth_service.py,        *)
(* user_admin_service.py, product_settings_service.py, product_settings.py *)
(* and the trigger of alembic/versions/0009_user_admin_audit.py).          *)
(*                                                                         *)
(* All requests here hold the shared side of the write barrier, so they    *)
(* interleave freely.  SQLite runs a SELECT outside of a transaction on    *)
(* the state of that moment, and one transaction that writes at a time:    *)
(* each action is one such SELECT or one transaction with its commit.      *)
(* SQLAlchemy's UPDATE sets only the columns whose value differs from the  *)
(* one the session loaded.  Without AUTH_REQUIRED every request acts as    *)
(* the row of the bootstrap, active or not.  Simplifications:              *)
(*  - a name is a normalized user name or e-mail address;                  *)
(*  - a password hash is "!", which nobody can log in with, or a "hash";   *)
(*  - the product settings are two columns of small numbers.               *)
(***************************************************************************)
EXTENDS Integers, Sequences

CONSTANTS
  Users,        \* rows of the table users
  Bootstrap,    \* the row the migration creates, BOOTSTRAP_USER_ID
  Names,        \* normalized names
  Identities,   \* pairs of a name and an address, or none, requests may give
  Placeholder,  \* the name of the row of the migration
  Requests,     \* threads that serve a request
  Environment,  \* the settings of the environment
  Payloads,     \* the settings an administrator may submit
  Wishes,       \* what an administrator may ask for: role, standing or both
  MaxEvents,    \* bound on the length of the audit trail
  Nothing       \* no name, no password, no row

ASSUME AdministrationAssumption ==
  /\ Bootstrap \in Users
  /\ Placeholder \in Names
  /\ Identities \subseteq Names \X (Names \union {Nothing})
  /\ Environment \in Payloads
  /\ \A p \in Payloads : p \in [DOMAIN Environment -> Nat]
  /\ Wishes \subseteq [role : {"ADMIN", "USER"}] \union [active : BOOLEAN]
                      \union [role : {"ADMIN", "USER"}, active : BOOLEAN]
  /\ MaxEvents \in Nat
  /\ Nothing \notin Names \union Payloads \union {"!", "hash"}

VARIABLES
  users,       \* the rows of users
  identities,  \* user_identities, pairs of a name and its user
  audit,       \* user_admin_audit_events in the order of their commits
  row,         \* the row of product_settings, or Nothing
  memory,      \* the snapshot of the ProductSettingsManager
  request,     \* the request each thread serves
  required,    \* AUTH_REQUIRED of the running process
  boots,       \* history: successful answers of the bootstrap
  granted,     \* history: after how many events the bootstrap last wrote the
               \* role and the standing of its row
  crossed      \* history: whether settings were committed while another
               \* update had yet to replace the snapshot, or over a row that
               \* had changed since it was loaded

vars == <<users, identities, audit, row, memory, request, required, boots, granted,
          crossed>>
settings == <<row, memory, crossed, required>>
accounts == <<users, identities, audit, boots, granted>>

Roles == {"ADMIN", "USER"}
Standing == [role : Roles, active : BOOLEAN]

\* A row that does not exist yet has the password Nothing.
UserRow == [role : Roles, active : BOOLEAN, password : {"!", "hash", Nothing},
            username : Names \union {Nothing}, email : Names \union {Nothing}]

NoUser == [role |-> "USER", active |-> FALSE, password |-> Nothing,
           username |-> Nothing, email |-> Nothing]

Migrated == [role |-> "ADMIN", active |-> FALSE, password |-> "!",
             username |-> Placeholder, email |-> Nothing]

Event == [target : Users, before : Standing, after : Standing]

StandingOf(u) == [role |-> users[u].role, active |-> users[u].active]
NamesOf(user) == {user.username, user.email} \ {Nothing}
IsAdmin(user) == user.role = "ADMIN" /\ user.active
Admins == {u \in Users : IsAdmin(users[u])}

Idle == [at |-> "idle"]

TypeOK ==
  /\ users \in [Users -> UserRow]
  /\ identities \subseteq Names \X Users
  /\ audit \in Seq(Event)
  /\ row = Nothing \/ DOMAIN row = DOMAIN Environment
  /\ DOMAIN memory = DOMAIN Environment
  /\ \A r \in Requests :
       request[r].at \in {"idle", "bootstrap", "target", "count", "update",
                          "load", "save", "replace"}
  /\ boots \in Nat /\ granted \in [{"role", "active"} -> Nat]
  /\ crossed \in BOOLEAN /\ required \in BOOLEAN

Init ==
  /\ users = [u \in Users |-> IF u = Bootstrap THEN Migrated ELSE NoUser]
  /\ identities = {<<Placeholder, Bootstrap>>}
  /\ audit = <<>>
  /\ row = Nothing
  /\ memory = Environment
  /\ request = [r \in Requests |-> Idle]
  /\ boots = 0 /\ granted = [field \in {"role", "active"} |-> 0]
  /\ crossed = FALSE /\ required \in BOOLEAN

Answer(r) == request' = [request EXCEPT ![r] = Idle]
Proceed(r, state) == request' = [request EXCEPT ![r] = state]

-----------------------------------------------------------------------------
(* Registration and bootstrap *)

(* MUTANT of Unique: the table of identities is not consulted. *)
UniqueColumns(table, pairs) ==
  /\ pairs \subseteq Names \X Users
  /\ \A u, w \in Users : u # w =>
       /\ table[u].username # Nothing => table[u].username # table[w].username
       /\ table[u].email # Nothing => table[u].email # table[w].email

(* The unique columns of users, and user_identities whose key is the name: *)
(* one namespace for user names and e-mail addresses.                      *)
Unique(table, pairs) ==
  /\ \A u, w \in Users : u # w =>
       /\ table[u].username # Nothing => table[u].username # table[w].username
       /\ table[u].email # Nothing => table[u].email # table[w].email
  /\ \A p, q \in pairs : p[1] = q[1] => p = q

\* The row and its names are inserted in one transaction; a conflict refuses
\* both.
Register(r, u, name, email) ==
  /\ request[r] = Idle
  /\ users[u] = NoUser
  /\ LET user == [role |-> "USER", active |-> TRUE, password |-> "hash",
                  username |-> name, email |-> email]
         table == [users EXCEPT ![u] = user]
         pairs == identities \union (NamesOf(user) \X {u})
     IN Unique(table, pairs) /\ users' = table /\ identities' = pairs
  /\ UNCHANGED <<audit, boots, granted, request, settings>>

\* The row is read and found unused; the hash of the password takes a while.
StartBootstrap(r, name, email) ==
  /\ request[r] = Idle
  /\ ~users[Bootstrap].active
  /\ users[Bootstrap].password = "!"
  /\ Proceed(r, [at |-> "bootstrap", username |-> name, email |-> email,
                 role |-> users[Bootstrap].role])
  /\ UNCHANGED <<accounts, settings>>

(* Compared with the row that was read, only the columns that differ are   *)
(* set; the names of the row are replaced whole.                           *)
Initialized(r) ==
  LET asked == request[r] IN
  [users[Bootstrap] EXCEPT
     !.username = IF asked.username = Placeholder THEN @ ELSE asked.username,
     !.email = IF asked.email = Nothing THEN @ ELSE asked.email,
     !.password = "hash",
     !.role = IF asked.role = "ADMIN" THEN @ ELSE "ADMIN",
     !.active = TRUE]

CommitBootstrap(r) ==
  /\ request[r].at = "bootstrap"
  /\ LET table == [users EXCEPT ![Bootstrap] = Initialized(r)]
         pairs == {p \in identities : p[2] # Bootstrap}
                  \union (NamesOf(request[r]) \X {Bootstrap})
     IN IF Unique(table, pairs)
        THEN /\ users' = table /\ identities' = pairs /\ boots' = boots + 1
             /\ granted' = [role |-> IF request[r].role = "ADMIN"
                                     THEN granted["role"] ELSE Len(audit),
                            active |-> Len(audit)]
        ELSE UNCHANGED <<users, identities, boots, granted>>
  /\ Answer(r)
  /\ UNCHANGED <<audit, settings>>

-----------------------------------------------------------------------------
(* Changes of role and standing *)

(* get_current_user and require_admin: a token's user must be active, the  *)
(* single user of a process without authentication need not be.            *)
MayAdminister(actor) ==
  IF required THEN IsAdmin(users[actor])
              ELSE actor = Bootstrap /\ users[actor].role = "ADMIN"

(* The caller is read again for every request.  Then the request waits for *)
(* the write barrier; what it read may become stale.                       *)
StartUpdate(r, actor, target, wish) ==
  /\ request[r] = Idle
  /\ MayAdminister(actor)
  /\ Proceed(r, [at |-> "target", actor |-> actor, target |-> target, wish |-> wish,
                 caller |-> StandingOf(actor)])
  /\ UNCHANGED <<accounts, settings>>

Desired(wish, standing) ==
  [field \in DOMAIN standing |->
     IF field \in DOMAIN wish THEN wish[field] ELSE standing[field]]

(* A caller who is the target is still in the session as the check of the  *)
(* caller read it; what takes access away from the caller is refused.      *)
ReadTarget(r) ==
  /\ request[r].at = "target"
  /\ LET asked == request[r]
         self == asked.actor = asked.target
         before == IF self THEN asked.caller ELSE StandingOf(asked.target)
         after == Desired(asked.wish, before)
     IN IF \/ users[asked.target] = NoUser
           \/ self /\ ~IsAdmin(after)
           \/ before = after
        THEN Answer(r)
        ELSE Proceed(r,
          [at |-> IF IsAdmin(before) /\ ~IsAdmin(after) THEN "count" ELSE "update",
           target |-> asked.target, before |-> before, after |-> after])
  /\ UNCHANGED <<accounts, settings>>

CountOthers(r) ==
  /\ request[r].at = "count"
  /\ IF Admins \subseteq {request[r].target}
     THEN Answer(r)
     ELSE Proceed(r, [request[r] EXCEPT !.at = "update"])
  /\ UNCHANGED <<accounts, settings>>

(* MUTANT of Altered: every column is written, changed or not. *)
AlteredWhole(current, before, after) ==
  [current EXCEPT !.role = after.role, !.active = after.active]

\* The columns of a row after an UPDATE of those that differ.
Altered(current, before, after) ==
  [current EXCEPT !.role = IF before.role = after.role THEN @ ELSE after.role,
                  !.active = IF before.active = after.active THEN @ ELSE after.active]

(* MUTANT of TriggerAborts: the migration without the trigger. *)
TriggerNever(u, user) == u \notin Users

\* The trigger trg_users_preserve_last_active_admin, on the rows as they are.
TriggerAborts(u, user) ==
  /\ IsAdmin(users[u])
  /\ ~IsAdmin(user)
  /\ Admins \subseteq {u}

\* The change and its event commit together, or neither does.
CommitUpdate(r) ==
  /\ request[r].at = "update"
  /\ Len(audit) < MaxEvents
  /\ LET asked == request[r]
         user == Altered(users[asked.target], asked.before, asked.after)
     IN IF TriggerAborts(asked.target, user)
        THEN UNCHANGED <<users, audit>>
        ELSE /\ users' = [users EXCEPT ![asked.target] = user]
             /\ audit' = Append(audit, [target |-> asked.target,
                                        before |-> asked.before, after |-> asked.after])
  /\ Answer(r)
  /\ UNCHANGED <<identities, boots, granted, settings>>

-----------------------------------------------------------------------------
(* Product settings *)

StartSettings(r, actor, payload) ==
  /\ request[r] = Idle
  /\ MayAdminister(actor)
  /\ Proceed(r, [at |-> "load", payload |-> payload])
  /\ UNCHANGED <<accounts, settings>>

LoadSettings(r) ==
  /\ request[r].at = "load"
  /\ Proceed(r, [at |-> "save", payload |-> request[r].payload, loaded |-> row])
  /\ UNCHANGED <<accounts, settings>>

\* The columns of the row after an UPDATE of those that differ.
Merged(current, loaded, payload) ==
  [column \in DOMAIN payload |->
     IF payload[column] = loaded[column] THEN current[column] ELSE payload[column]]

Replacing == {r \in Requests : request[r].at = "replace"}

\* Two first updates insert the same row: the second one fails.
SaveSettings(r) ==
  /\ request[r].at = "save"
  /\ LET asked == request[r] IN
     \/ /\ asked.loaded = Nothing => row = Nothing
        /\ row' = IF asked.loaded = Nothing THEN asked.payload
                  ELSE Merged(row, asked.loaded, asked.payload)
        /\ crossed' = (Replacing # {} \/ asked.loaded # row)
        /\ Proceed(r, [at |-> "replace", payload |-> asked.payload])
     \/ asked.loaded = Nothing /\ row # Nothing /\ Answer(r) /\ UNCHANGED <<row, crossed>>
  /\ UNCHANGED <<accounts, memory, required>>

ReplaceSnapshot(r) ==
  /\ request[r].at = "replace"
  /\ memory' = request[r].payload
  /\ Answer(r)
  /\ UNCHANGED <<accounts, row, crossed, required>>

(* MUTANT of Restart: the row is not read at startup. *)
RestartFromEnvironment ==
  /\ memory' = Environment
  /\ request' = [r \in Requests |-> Idle]
  /\ crossed' = FALSE /\ required' \in BOOLEAN
  /\ UNCHANGED <<accounts, row>>

(* load_snapshot at startup, with authentication or without; requests      *)
(* under way are gone.                                                     *)
Restart ==
  /\ memory' = IF row = Nothing THEN Environment ELSE row
  /\ request' = [r \in Requests |-> Idle]
  /\ crossed' = FALSE /\ required' \in BOOLEAN
  /\ UNCHANGED <<accounts, row>>

-----------------------------------------------------------------------------
Next ==
  \/ \E r \in Requests :
       \/ \E identity \in Identities :
            \/ \E u \in Users : Register(r, u, identity[1], identity[2])
            \/ StartBootstrap(r, identity[1], identity[2])
       \/ CommitBootstrap(r)
       \/ \E actor, target \in Users, wish \in Wishes : StartUpdate(r, actor, target, wish)
       \/ ReadTarget(r) \/ CountOthers(r) \/ CommitUpdate(r)
       \/ \E actor \in Users, payload \in Payloads : StartSettings(r, actor, payload)
       \/ LoadSettings(r) \/ SaveSettings(r) \/ ReplaceSnapshot(r)
  \/ Restart

Spec == Init /\ [][Next]_vars

-----------------------------------------------------------------------------
(* Safety *)

(* Once the bootstrap has succeeded there is an active administrator, what *)
(* ever administrators do to each other at the same time: each of them may *)
(* have counted the other (user_admin_service.py:84-102).                  *)
AdminRemains == boots > 0 => Admins # {}

(* What accounts are given without an event.  A bootstrap makes its row an *)
(* active administrator, also after that row was demoted by an event.      *)
Given(u) ==
  [role |-> IF u = Bootstrap THEN "ADMIN" ELSE "USER",
   active |-> u # Bootstrap \/ boots > 0]

\* The events that changed a field since the bootstrap last wrote it.
Changes(i, u, field) ==
  /\ audit[i].target = u /\ audit[i].before[field] # audit[i].after[field]
  /\ u = Bootstrap => i > granted[field]

(* The audit trail explains the accounts: role and standing of every user  *)
(* are what the last event that changed them says, and what the account    *)
(* was given when no event did; of the row of the bootstrap, whichever of  *)
(* the two came last.  An event whose change was aborted, or a change that *)
(* wrote a stale column back, would belie it.                              *)
TrailExplainsAccounts ==
  \A u \in Users, field \in {"role", "active"} :
    LET changes == {i \in DOMAIN audit : Changes(i, u, field)}
    IN users[u] # NoUser =>
         /\ changes = {} => users[u][field] = Given(u)[field]
         /\ \A i \in changes :
              (\A j \in changes : j <= i) => users[u][field] = audit[i].after[field]

(* A name leads to one account: the identities of a user are its own name  *)
(* and address, and none of them is also the name or the address of        *)
(* somebody else, whichever registrations and bootstraps ran at the time,  *)
(* as long as the bootstrap has succeeded once at most.  (And the          *)
(* variables have their types.)                                            *)
NamesLeadToTheirUser ==
  /\ TypeOK
  /\ boots <= 1 =>
       /\ \A u \in Users : {n \in Names : <<n, u>> \in identities} = NamesOf(users[u])
       /\ \A u, w \in Users : u # w =>
            NamesOf(users[u]) \intersect NamesOf(users[w]) = {}

(* The process works with the settings that are saved: they differ from    *)
(* the row only while an update is about to publish what it saved, or      *)
(* after updates that overlapped, until the next update that runs alone or *)
(* the next start.                                                         *)
MemoryFollowsRow ==
  Replacing = {} /\ ~crossed => memory = (IF row = Nothing THEN Environment ELSE row)

=============================================================================
