------------------------ MODULE AdministrationProofs -------------------------
(***************************************************************************)
(* Theorems about the accounts and the product settings, for any number of *)
(* users, names, requests, settings and events, and about the limiter of   *)
(* logins and registrations, for any threads, requests, rules and times.   *)
(*                                                                         *)
(* AInv is inductive.  Beside the types and the four properties it says    *)
(* what a request carries from one of its transactions to the next, that   *)
(* the row of the bootstrap is given up as an administrator only while     *)
(* there is another one, that an event is about a row that exists, that a  *)
(* bootstrap came after a number of the events there are, and that an      *)
(* update about to publish has saved what it publishes.                    *)
(*                                                                         *)
(* LInv is inductive for the limiter.  Of a key with a bucket it says that *)
(* what is left of its attempts in the window is what is left of those     *)
(* recorded, that a quota is not exceeded and that the cooldown a client   *)
(* was told of is in force (Kept); of a key without one, that there is     *)
(* nothing left and no cooldown in force (Absent).  An operation changes a *)
(* table key by key, so its proof goes along with what is known of the     *)
(* keys from one key to the next (Good).                                   *)
(***************************************************************************)
EXTENDS Administration, LoginLimiter, FiniteSetTheorems, WellFoundedInduction, TLAPS

(* What a request carries from one of its steps to the next.               *)
RequestTyped(state) ==
  /\ state.at \in {"idle", "bootstrap", "target", "count", "update", "load", "save",
                   "replace"}
  /\ state.at = "bootstrap" =>
       /\ state.username \in Names /\ state.email \in Names \union {Nothing}
       /\ state.role \in Roles
  /\ state.at = "target" =>
       /\ state.actor \in Users /\ state.target \in Users /\ state.wish \in Wishes
       /\ state.caller \in Standing
  /\ state.at \in {"count", "update"} =>
       state.target \in Users /\ state.before \in Standing /\ state.after \in Standing
  /\ state.at = "count" =>
       state = [at |-> "count", target |-> state.target, before |-> state.before,
                after |-> state.after]
  /\ state.at \in {"load", "save", "replace"} => state.payload \in Payloads
  /\ state.at = "save" =>
       state.loaded = Nothing \/ DOMAIN state.loaded = DOMAIN Environment

RequestsTyped ==
  /\ request = [r \in Requests |-> request[r]]
  /\ \A r \in Requests : RequestTyped(request[r])

Typed == TypeOK /\ RequestsTyped

(* Somebody else than the row of the bootstrap acts, or that row is to     *)
(* lose its role: only an active administrator who is another can do that. *)
NeedsAdmin(state) ==
  \/ state.at = "target" /\ state.actor # Bootstrap
  \/ /\ state.at \in {"count", "update"}
     /\ state.target = Bootstrap /\ state.after.role = "USER"

(* Until it succeeds for the first time the bootstrap finds the names of   *)
(* the migration, and until there is an administrator its role.            *)
AdminsArise ==
  /\ boots = 0 => /\ users[Bootstrap].username = Placeholder
                  /\ users[Bootstrap].email = Nothing
  /\ users[Bootstrap].role = "USER" => Admins # {}
  /\ \A r \in Requests : NeedsAdmin(request[r]) => Admins # {}

(* The bootstrap wrote its row after events that are still there.          *)
GrantsCounted ==
  \A field \in {"role", "active"} : granted[field] \in Nat /\ granted[field] <= Len(audit)

(* A row that exists has a password, and only such rows are changed.       *)
RowsExist ==
  /\ users[Bootstrap] # NoUser
  /\ \A u \in Users : users[u].password = Nothing => users[u] = NoUser
  /\ \A i \in DOMAIN audit : users[audit[i].target] # NoUser
  /\ \A r \in Requests :
       request[r].at \in {"count", "update"} => users[request[r].target] # NoUser

(* As NamesLeadToTheirUser, name by name.                                  *)
NamesAgree ==
  boots <= 1 =>
    /\ \A u \in Users, n \in Names :
         <<n, u>> \in identities <=> n \in NamesOf(users[u])
    /\ \A u, w \in Users, n \in Names :
         n \in NamesOf(users[u]) /\ n \in NamesOf(users[w]) => u = w

(* The settings in memory, and those about to be published.                *)
Published ==
  ~crossed =>
    \/ Replacing = {} /\ memory = (IF row = Nothing THEN Environment ELSE row)
    \/ \E r \in Requests : Replacing = {r} /\ row = request[r].payload

AInv == /\ Typed /\ AdminsArise /\ RowsExist /\ AdminRemains /\ GrantsCounted
        /\ NamesAgree /\ TrailExplainsAccounts /\ Published
-----------------------------------------------------------------------------
(* The standing an administrator asks for is one.                          *)
LEMMA DesiredTyped ==
  ASSUME NEW wish \in Wishes, NEW standing \in Standing
  PROVE  Desired(wish, standing) \in Standing
<1>1. DOMAIN standing = {"role", "active"}
  BY DEF Standing
<1>2. Desired(wish, standing)
        = [role |-> IF "role" \in DOMAIN wish THEN wish["role"] ELSE standing["role"],
           active |-> IF "active" \in DOMAIN wish THEN wish["active"]
                                                 ELSE standing["active"]]
  BY <1>1 DEF Desired
<1>3. "role" \in DOMAIN wish => wish["role"] \in Roles
  BY AdministrationAssumption DEF Roles
<1>4. "active" \in DOMAIN wish => wish["active"] \in BOOLEAN
  BY AdministrationAssumption DEF Roles
<1> QED
  BY <1>2, <1>3, <1>4 DEF Standing, Roles

(* An update of the columns that differ keeps a row a row.                 *)
LEMMA AlteredTyped ==
  ASSUME NEW user \in UserRow, NEW before \in Standing, NEW after \in Standing
  PROVE  Altered(user, before, after) \in UserRow
BY DEF Altered, UserRow, Standing

(* It changes no other column.                                             *)
LEMMA AlteredIs ==
  ASSUME NEW user \in UserRow, NEW before, NEW after
  PROVE  LET altered == Altered(user, before, after)
         IN /\ altered.role = IF before.role = after.role THEN user.role ELSE after.role
            /\ altered.active = IF before.active = after.active
                                THEN user.active ELSE after.active
            /\ altered.password = user.password
            /\ altered.username = user.username
            /\ altered.email = user.email
<1> DEFINE role == IF before.role = after.role THEN user.role ELSE after.role
           active == IF before.active = after.active THEN user.active ELSE after.active
<1>1. Altered(user, before, after) = [user EXCEPT !.role = role, !.active = active]
  BY DEF Altered
<1> HIDE DEF role, active
<1>2. user = [role |-> user.role, active |-> user.active, password |-> user.password,
              username |-> user.username, email |-> user.email]
  BY DEF UserRow
<1> DEFINE altered == [user EXCEPT !.role = role, !.active = active]
<1>3. /\ altered.role = role /\ altered.active = active
      /\ altered.password = user.password /\ altered.username = user.username
      /\ altered.email = user.email
  BY <1>2
<1> QED
  BY <1>1, <1>3 DEF role, active

(* The row of the bootstrap, column by column.                             *)
LEMMA InitializedIs ==
  ASSUME TypeOK, NEW r
  PROVE  Initialized(r) =
           [role |-> IF request[r].role = "ADMIN" THEN users[Bootstrap].role ELSE "ADMIN",
            active |-> TRUE, password |-> "hash",
            username |-> IF request[r].username = Placeholder
                         THEN users[Bootstrap].username ELSE request[r].username,
            email |-> IF request[r].email = Nothing
                      THEN users[Bootstrap].email ELSE request[r].email]
<1> DEFINE name == IF request[r].username = Placeholder
                   THEN users[Bootstrap].username ELSE request[r].username
           address == IF request[r].email = Nothing
                      THEN users[Bootstrap].email ELSE request[r].email
           role == IF request[r].role = "ADMIN" THEN users[Bootstrap].role ELSE "ADMIN"
<1>1. users[Bootstrap] \in UserRow
  BY AdministrationAssumption DEF TypeOK
<1>2. Initialized(r) = [users[Bootstrap] EXCEPT !.username = name, !.email = address,
                          !.password = "hash", !.role = role, !.active = TRUE]
  BY DEF Initialized
<1> HIDE DEF name, address, role
<1>3. Initialized(r) = [role |-> role, active |-> TRUE,
                        password |-> "hash", username |-> name, email |-> address]
  BY <1>1, <1>2 DEF UserRow
<1> QED
  BY <1>3 DEF name, address, role

(* Nothing has happened yet.                                               *)
LEMMA AInvInit == Init => AInv
<1> SUFFICES ASSUME Init PROVE AInv
  OBVIOUS
<1> USE AdministrationAssumption
<1>a. \A r \in Requests : request[r] = Idle /\ request[r].at = "idle"
  BY DEF Init, Idle
<1>b. /\ users[Bootstrap] = Migrated
      /\ \A u \in Users : u # Bootstrap => users[u] = NoUser
  BY DEF Init
<1>c. /\ NoUser.password = Nothing /\ NoUser.role = "USER" /\ NoUser.active = FALSE
      /\ Migrated.password = "!" /\ Migrated.role = "ADMIN" /\ Migrated.active = FALSE
      /\ Migrated.username = Placeholder /\ Migrated.email = Nothing
  BY DEF NoUser, Migrated
<1>d. DOMAIN audit = {}
  BY DEF Init
<1>1. TypeOK
  <2>1. users \in [Users -> UserRow]
    BY DEF Init, NoUser, Migrated, UserRow, Roles
  <2>2. audit \in Seq(Event)
    BY DEF Init
  <2>3. identities \subseteq Names \X Users
    BY DEF Init
  <2> QED
    BY <2>1, <2>2, <2>3, <1>a DEF Init, TypeOK
<1>2. RequestsTyped
  <2>1. \A r \in Requests : RequestTyped(request[r])
    BY <1>a DEF RequestTyped
  <2> QED
    BY <2>1, <1>a DEF Init, RequestsTyped
<1>3. AdminsArise /\ AdminRemains /\ GrantsCounted
  <2>1. \A r \in Requests : ~NeedsAdmin(request[r])
    BY <1>a DEF NeedsAdmin
  <2>2. Len(audit) = 0 /\ boots = 0 /\ \A field \in {"role", "active"} : granted[field] = 0
    BY DEF Init
  <2> QED
    BY <2>1, <2>2, <1>b, <1>c DEF AdminsArise, AdminRemains, GrantsCounted
<1>4. RowsExist
  BY <1>a, <1>b, <1>c, <1>d DEF RowsExist
<1>5. NamesAgree
  <2>1. NamesOf(NoUser) = {} /\ NamesOf(Migrated) = {Placeholder}
    BY DEF NamesOf, NoUser, Migrated
  <2> QED
    BY <2>1 DEF Init, NamesAgree
<1>6. TrailExplainsAccounts
  <2>1. \A u \in Users : users[u] # NoUser => u = Bootstrap
    BY <1>b
  <2>2. Migrated["role"] = Given(Bootstrap)["role"]
    BY <1>c DEF Given
  <2>3. Migrated["active"] = Given(Bootstrap)["active"]
    <3>1. ~(boots > 0)
      BY DEF Init
    <3>2. Given(Bootstrap)["active"] = FALSE
      BY <3>1 DEF Given
    <3> QED
      BY <3>2, <1>c
  <2> QED
    BY <2>1, <2>2, <2>3, <1>b, <1>d DEF TrailExplainsAccounts
<1>7. Published
  BY <1>a DEF Init, Published, Replacing
<1> QED
  BY <1>1, <1>2, <1>3, <1>4, <1>5, <1>6, <1>7 DEF AInv, Typed
-----------------------------------------------------------------------------
(* One request moves on, the others stay where they are.                   *)
LEMMA RequestMoves ==
  ASSUME Typed, NEW r \in Requests, NEW state,
         request' = [request EXCEPT ![r] = state]
  PROVE  /\ request'[r] = state
         /\ \A q \in Requests : q # r => request'[q] = request[q]
         /\ RequestTyped(state) => RequestsTyped'
<1>1. request = [q \in Requests |-> request[q]]
  BY DEF Typed, RequestsTyped
<1>2. request' = [q \in Requests |-> IF q = r THEN state ELSE request[q]]
  BY <1>1
<1>3. ASSUME RequestTyped(state) PROVE RequestsTyped'
  <2>1. \A q \in Requests : RequestTyped(request'[q])
    BY <1>2, <1>3 DEF Typed, RequestsTyped
  <2>2. request' = [q \in Requests |-> request'[q]]
    BY <1>2
  <2> QED
    BY <2>1, <2>2 DEF RequestsTyped
<1> QED
  BY <1>2, <1>3

LEMMA IdleTyped == Idle.at = "idle" /\ RequestTyped(Idle)
<1>1. Idle.at = "idle"
  BY DEF Idle
<1> QED
  BY <1>1 DEF RequestTyped

(* Every step keeps the types.                                             *)
LEMMA TypedStep == ASSUME Typed, [Next]_vars PROVE Typed'
<1> USE AdministrationAssumption
<1>0. \A r \in Requests : RequestTyped(request[r])
  BY DEF Typed, RequestsTyped
<1>a. ASSUME RequestsTyped' PROVE \A r \in Requests : request'[r].at \in
        {"idle", "bootstrap", "target", "count", "update", "load", "save", "replace"}
  BY <1>a DEF RequestsTyped, RequestTyped
<1>b. ASSUME NEW r \in Requests, Answer(r) PROVE RequestsTyped'
  BY <1>b, RequestMoves, IdleTyped DEF Answer
<1>c. ASSUME RequestsTyped', UNCHANGED <<accounts, settings>> PROVE Typed'
  BY <1>c, <1>a DEF Typed, TypeOK, accounts, settings
<1>1. ASSUME NEW r \in Requests, NEW u \in Users, NEW identity \in Identities,
             Register(r, u, identity[1], identity[2])
      PROVE  Typed'
  <2>1. RequestsTyped'
    BY <1>1 DEF Register, Typed, RequestsTyped
  <2>2. users' \in [Users -> UserRow] /\ identities' \subseteq Names \X Users
    <3> DEFINE user == [role |-> "USER", active |-> TRUE, password |-> "hash",
                        username |-> identity[1], email |-> identity[2]]
    <3>1. identity[1] \in Names /\ identity[2] \in Names \union {Nothing}
      OBVIOUS
    <3>2. user \in UserRow
      BY <3>1 DEF UserRow, Roles
    <3>3. NamesOf(user) \subseteq Names
      BY <3>1 DEF NamesOf
    <3> QED
      BY <1>1, <3>2, <3>3 DEF Register, Typed, TypeOK
  <2> QED
    BY <2>1, <2>2, <1>1, <1>a DEF Register, Typed, TypeOK, settings
<1>2. ASSUME NEW r \in Requests, NEW identity \in Identities,
             StartBootstrap(r, identity[1], identity[2])
      PROVE  Typed'
  <2> DEFINE state == [at |-> "bootstrap", username |-> identity[1],
                       email |-> identity[2], role |-> users[Bootstrap].role]
  <2>1. RequestTyped(state)
    <3>1. users[Bootstrap].role \in Roles
      BY DEF Typed, TypeOK, UserRow
    <3> QED
      BY <3>1 DEF RequestTyped
  <2> QED
    BY <2>1, <1>2, <1>c, RequestMoves DEF StartBootstrap, Proceed
<1>3. ASSUME NEW r \in Requests, CommitBootstrap(r) PROVE Typed'
  <2>1. /\ request[r].username \in Names
        /\ request[r].email \in Names \union {Nothing}
    BY <1>3, <1>0 DEF CommitBootstrap, RequestTyped
  <2>2. Initialized(r) \in UserRow
    <3>1. users[Bootstrap] \in UserRow /\ TypeOK
      BY DEF Typed, TypeOK
    <3>2. /\ users[Bootstrap].role \in Roles
          /\ users[Bootstrap].username \in Names \union {Nothing}
          /\ users[Bootstrap].email \in Names \union {Nothing}
      BY <3>1 DEF UserRow
    <3> DEFINE name == IF request[r].username = Placeholder
                       THEN users[Bootstrap].username ELSE request[r].username
               address == IF request[r].email = Nothing
                          THEN users[Bootstrap].email ELSE request[r].email
               role == IF request[r].role = "ADMIN" THEN users[Bootstrap].role
                                                    ELSE "ADMIN"
    <3>3. /\ name \in Names \union {Nothing} /\ address \in Names \union {Nothing}
          /\ role \in Roles
          /\ Initialized(r) = [role |-> role, active |-> TRUE,
                 password |-> "hash", username |-> name, email |-> address]
      BY <2>1, <3>1, <3>2, InitializedIs DEF Roles
    <3> HIDE DEF name, address, role
    <3> QED
      BY <3>3 DEF UserRow
  <2>3. NamesOf(request[r]) \subseteq Names
    BY <2>1 DEF NamesOf
  <2>4. /\ users' \in [Users -> UserRow] /\ identities' \subseteq Names \X Users
        /\ boots' \in Nat /\ granted' \in [{"role", "active"} -> Nat]
    <3> DEFINE pairs == {p \in identities : p[2] # Bootstrap}
                        \union (NamesOf(request[r]) \X {Bootstrap})
    <3>1. \/ UNCHANGED <<users, identities, boots, granted>>
          \/ /\ users' = [users EXCEPT ![Bootstrap] = Initialized(r)]
             /\ identities' = pairs /\ boots' = boots + 1
             /\ granted' = [role |-> IF request[r].role = "ADMIN"
                                     THEN granted["role"] ELSE Len(audit),
                            active |-> Len(audit)]
      BY <1>3 DEF CommitBootstrap
    <3>2. /\ users \in [Users -> UserRow] /\ identities \subseteq Names \X Users
          /\ boots \in Nat /\ granted \in [{"role", "active"} -> Nat]
          /\ Len(audit) \in Nat
      BY DEF Typed, TypeOK
    <3>3. pairs \subseteq Names \X Users
      BY <3>2, <2>3
    <3>4. users' \in [Users -> UserRow]
      BY <3>1, <3>2, <2>2
    <3>5. granted' \in [{"role", "active"} -> Nat]
      BY <3>1, <3>2
    <3> QED
      BY <3>1, <3>2, <3>3, <3>4, <3>5
  <2>5. RequestsTyped'
    BY <1>3, <1>b DEF CommitBootstrap
  <2> QED
    BY <2>4, <2>5, <1>3, <1>a DEF CommitBootstrap, Typed, TypeOK, settings
<1>4. ASSUME NEW r \in Requests, NEW actor \in Users, NEW target \in Users,
             NEW wish \in Wishes, StartUpdate(r, actor, target, wish)
      PROVE  Typed'
  <2> DEFINE state == [at |-> "target", actor |-> actor, target |-> target, wish |-> wish,
                       caller |-> StandingOf(actor)]
  <2>1. RequestTyped(state)
    <3>1. StandingOf(actor) \in Standing
      BY DEF StandingOf, Standing, Typed, TypeOK, UserRow
    <3> HIDE DEF StandingOf
    <3> QED
      BY <3>1 DEF RequestTyped
  <2> QED
    BY <2>1, <1>4, <1>c, RequestMoves DEF StartUpdate, Proceed
<1>5. ASSUME NEW r \in Requests, ReadTarget(r) PROVE Typed'
  <2> DEFINE asked == request[r]
             before == IF asked.actor = asked.target THEN asked.caller
                       ELSE StandingOf(asked.target)
             after == Desired(asked.wish, before)
             state == [at |-> IF IsAdmin(before) /\ ~IsAdmin(after)
                              THEN "count" ELSE "update",
                       target |-> asked.target, before |-> before, after |-> after]
  <2>1. /\ asked.target \in Users /\ asked.wish \in Wishes
        /\ asked.caller \in Standing
    BY <1>5, <1>0 DEF ReadTarget, RequestTyped
  <2>2. before \in Standing
    BY <2>1 DEF StandingOf, Standing, Typed, TypeOK, UserRow
  <2>3. after \in Standing
    BY <2>1, <2>2, DesiredTyped
  <2>4. RequestTyped(state)
    <3> HIDE DEF before, after
    <3> QED
      BY <2>1, <2>2, <2>3 DEF RequestTyped
  <2>5. Answer(r) \/ Proceed(r, state)
    BY <1>5 DEF ReadTarget
  <2>6. RequestsTyped'
    <3> HIDE DEF state
    <3> QED
      BY <2>4, <2>5, <1>b, RequestMoves DEF Proceed
  <2> QED
    BY <2>6, <1>5, <1>c DEF ReadTarget
<1>6. ASSUME NEW r \in Requests, CountOthers(r) PROVE Typed'
  <2> DEFINE asked == request[r]
             state == [at |-> "update", target |-> asked.target,
                       before |-> asked.before, after |-> asked.after]
  <2>a. /\ asked = [at |-> "count", target |-> asked.target, before |-> asked.before,
                    after |-> asked.after]
        /\ asked.target \in Users /\ asked.before \in Standing
        /\ asked.after \in Standing
    BY <1>6, <1>0 DEF CountOthers, RequestTyped
  <2>b. [asked EXCEPT !.at = "update"] = state
    BY <2>a
  <2>1. Answer(r) \/ Proceed(r, state)
    BY <1>6, <2>b DEF CountOthers
  <2>2. RequestTyped(state)
    BY <2>a DEF RequestTyped
  <2>3. RequestsTyped'
    <3> HIDE DEF state
    <3> QED
      BY <2>1, <2>2, <1>b, RequestMoves DEF Proceed
  <2> QED
    BY <2>3, <1>6, <1>c DEF CountOthers
<1>7. ASSUME NEW r \in Requests, CommitUpdate(r) PROVE Typed'
  <2> DEFINE asked == request[r]
             user == Altered(users[asked.target], asked.before, asked.after)
             event == [target |-> asked.target, before |-> asked.before,
                       after |-> asked.after]
  <2>1. /\ asked.target \in Users
        /\ asked.before \in Standing /\ asked.after \in Standing
    BY <1>7, <1>0 DEF CommitUpdate, RequestTyped
  <2>2. user \in UserRow
    BY <2>1, AlteredTyped DEF Typed, TypeOK
  <2>3. event \in Event
    BY <2>1 DEF Event
  <2>4. users' \in [Users -> UserRow] /\ audit' \in Seq(Event)
    <3>1. \/ UNCHANGED <<users, audit>>
          \/ /\ users' = [users EXCEPT ![asked.target] = user]
             /\ audit' = Append(audit, event)
      BY <1>7 DEF CommitUpdate
    <3> HIDE DEF user, event
    <3>2. users \in [Users -> UserRow] /\ audit \in Seq(Event)
      BY DEF Typed, TypeOK
    <3>3. users' \in [Users -> UserRow]
      BY <3>1, <3>2, <2>2
    <3>4. audit' \in Seq(Event)
      BY <3>1, <3>2, <2>3
    <3> QED
      BY <3>3, <3>4
  <2>5. RequestsTyped'
    BY <1>7, <1>b DEF CommitUpdate
  <2> QED
    BY <2>4, <2>5, <1>7, <1>a DEF CommitUpdate, Typed, TypeOK, settings
<1>8. ASSUME NEW r \in Requests, NEW actor \in Users, NEW payload \in Payloads,
             StartSettings(r, actor, payload)
      PROVE  Typed'
  <2> DEFINE state == [at |-> "load", payload |-> payload]
  <2>1. RequestTyped(state)
    BY DEF RequestTyped
  <2> QED
    BY <2>1, <1>8, <1>c, RequestMoves DEF StartSettings, Proceed
<1>9. ASSUME NEW r \in Requests, LoadSettings(r) PROVE Typed'
  <2> DEFINE state == [at |-> "save", payload |-> request[r].payload, loaded |-> row]
  <2>1. request[r].payload \in Payloads
    BY <1>9, <1>0 DEF LoadSettings, RequestTyped
  <2>2. RequestTyped(state)
    BY <2>1 DEF RequestTyped, Typed, TypeOK
  <2> QED
    BY <2>2, <1>9, <1>c, RequestMoves DEF LoadSettings, Proceed
<1>10. ASSUME NEW r \in Requests, SaveSettings(r) PROVE Typed'
  <2> DEFINE state == [at |-> "replace", payload |-> request[r].payload]
  <2>1. request[r].payload \in Payloads
    BY <1>10, <1>0 DEF SaveSettings, RequestTyped
  <2>2. RequestTyped(state)
    BY <2>1 DEF RequestTyped
  <2>3. RequestsTyped'
    BY <2>2, <1>10, <1>b, RequestMoves DEF SaveSettings, Proceed
  <2>4. (row' = Nothing \/ DOMAIN row' = DOMAIN Environment) /\ crossed' \in BOOLEAN
    <3>1. DOMAIN request[r].payload = DOMAIN Environment
      BY <2>1
    <3> QED
      BY <1>10, <3>1 DEF SaveSettings, Merged, Typed, TypeOK
  <2> QED
    BY <2>3, <2>4, <1>10, <1>a DEF SaveSettings, Typed, TypeOK, accounts
<1>11. ASSUME NEW r \in Requests, ReplaceSnapshot(r) PROVE Typed'
  <2>1. request[r].payload \in Payloads
    BY <1>11, <1>0 DEF ReplaceSnapshot, RequestTyped
  <2>2. DOMAIN memory' = DOMAIN Environment
    BY <2>1, <1>11 DEF ReplaceSnapshot
  <2>3. RequestsTyped'
    BY <1>11, <1>b DEF ReplaceSnapshot
  <2> QED
    BY <2>2, <2>3, <1>11, <1>a DEF ReplaceSnapshot, Typed, TypeOK, accounts
<1>12. ASSUME Restart PROVE Typed'
  <2>1. RequestsTyped'
    BY <1>12, IdleTyped DEF Restart, RequestsTyped
  <2>2. DOMAIN memory' = DOMAIN Environment
    BY <1>12 DEF Restart, Typed, TypeOK
  <2> QED
    BY <2>1, <2>2, <1>12, <1>a DEF Restart, Typed, TypeOK, accounts
<1>13. ASSUME UNCHANGED vars PROVE Typed'
  <2>1. UNCHANGED <<users, identities, audit, boots, granted, row, memory, crossed,
                    request, required>>
    BY <1>13 DEF vars
  <2> QED
    BY <2>1 DEF Typed, TypeOK, RequestsTyped
<1> QED
  BY <1>1, <1>2, <1>3, <1>4, <1>5, <1>6, <1>7, <1>8, <1>9, <1>10, <1>11, <1>12, <1>13
     DEF Next
(* Rows and administrators.                                                *)
Accounts == AdminsArise /\ RowsExist /\ AdminRemains

(* A request moves on and the accounts stay as they are.                   *)
LEMMA AccountsKept ==
  ASSUME AInv, NEW r \in Requests, NEW state, UNCHANGED accounts,
         request' = [request EXCEPT ![r] = state],
         NeedsAdmin(state) => Admins # {},
         state.at \in {"count", "update"} => users[state.target] # NoUser
  PROVE  Accounts'
<1>1. /\ request'[r] = state
      /\ \A q \in Requests : q # r => request'[q] = request[q]
  BY RequestMoves DEF AInv
<1>2. UNCHANGED <<users, boots, audit, Admins>>
  BY DEF accounts, Admins, IsAdmin
<1>3. AdminsArise'
  BY <1>1, <1>2 DEF AdminsArise, NeedsAdmin, AInv
<1>4. RowsExist'
  BY <1>1, <1>2 DEF RowsExist, AInv
<1> QED
  BY <1>2, <1>3, <1>4 DEF Accounts, AdminRemains, AInv

(* Somebody is an administrator after the bootstrap, and before it as soon *)
(* as the row of the bootstrap could lose its role.                        *)
LEMMA AccountsStep ==
  ASSUME AInv, [Next]_vars PROVE Accounts'
<1> USE AdministrationAssumption
<1>0. /\ users \in [Users -> UserRow] /\ boots \in Nat /\ audit \in Seq(Event)
      /\ \A r \in Requests : RequestTyped(request[r])
  BY DEF AInv, Typed, TypeOK, RequestsTyped
<1>a. /\ AdminsArise /\ RowsExist /\ AdminRemains
      /\ \A r \in Requests : NeedsAdmin(request[r]) => Admins # {}
  BY DEF AInv, AdminsArise
<1>d. ~NeedsAdmin(Idle)
  BY IdleTyped DEF NeedsAdmin
<1>c. \A i \in DOMAIN audit : audit[i].target \in Users
  <2>1. \A i \in DOMAIN audit : audit[i] \in Event
    BY <1>0
  <2> QED
    BY <2>1 DEF Event
<1>b. ASSUME NEW r \in Requests, Answer(r), UNCHANGED accounts
      PROVE  Accounts'
  BY <1>b, <1>d, AccountsKept, IdleTyped DEF Answer
<1>1. ASSUME NEW r \in Requests, NEW u \in Users, NEW identity \in Identities,
             Register(r, u, identity[1], identity[2])
      PROVE  Accounts'
  <2> DEFINE user == [role |-> "USER", active |-> TRUE, password |-> "hash",
                      username |-> identity[1], email |-> identity[2]]
  <2>1. /\ users[u] = NoUser /\ users' = [users EXCEPT ![u] = user]
        /\ UNCHANGED <<audit, boots, request>>
    BY <1>1 DEF Register, settings
  <2>2. /\ user.role = "USER" /\ user.password # Nothing /\ NoUser.role = "USER"
        /\ NoUser.password = Nothing
    BY DEF NoUser
  <2> HIDE DEF user
  <2>3. \A w \in Users : users'[w] = IF w = u THEN user ELSE users[w]
    BY <2>1, <1>0
  <2>4. Admins' = Admins
    BY <2>1, <2>2, <2>3 DEF Admins, IsAdmin
  <2>5. users'[Bootstrap] = users[Bootstrap]
    BY <2>1, <2>3 DEF AInv, RowsExist
  <2>6. \A w \in Users : users[w] # NoUser => users'[w] # NoUser
    BY <2>2, <2>3
  <2>7. RowsExist'
    <3>1. \A i \in DOMAIN audit : audit[i].target \in Users
      BY <1>c
    <3>2. \A q \in Requests :
            request[q].at \in {"count", "update"} => request[q].target \in Users
      BY <1>0 DEF RequestTyped
    <3> QED
      BY <3>1, <3>2, <2>1, <2>2, <2>3, <2>6 DEF RowsExist, AInv
  <2> QED
    BY <2>1, <2>4, <2>5, <2>7, <1>a DEF Accounts, AdminsArise, AdminRemains, NeedsAdmin
<1>2. ASSUME NEW r \in Requests, NEW identity \in Identities,
             StartBootstrap(r, identity[1], identity[2])
      PROVE  Accounts'
  <2> DEFINE state == [at |-> "bootstrap", username |-> identity[1],
                       email |-> identity[2], role |-> users[Bootstrap].role]
  <2>1. state.at = "bootstrap" /\ ~NeedsAdmin(state)
    BY DEF NeedsAdmin
  <2>2. request' = [request EXCEPT ![r] = state] /\ UNCHANGED accounts
    BY <1>2 DEF StartBootstrap, Proceed
  <2> HIDE DEF state
  <2> QED
    BY <2>1, <2>2, AccountsKept
<1>3. ASSUME NEW r \in Requests, CommitBootstrap(r)
      PROVE  Accounts'
  <2>1. CASE UNCHANGED accounts
    BY <2>1, <1>3, <1>b DEF CommitBootstrap
  <2>2. CASE /\ users' = [users EXCEPT ![Bootstrap] = Initialized(r)]
             /\ boots' = boots + 1
    <3>1. UNCHANGED audit /\ request' = [request EXCEPT ![r] = Idle]
      BY <1>3 DEF CommitBootstrap, Answer
    <3>2. /\ Initialized(r).role = users[Bootstrap].role \/ Initialized(r).role = "ADMIN"
          /\ Initialized(r).active /\ Initialized(r).password = "hash"
      BY InitializedIs DEF AInv, Typed
    <3>3. \A w \in Users :
            users'[w] = IF w = Bootstrap THEN Initialized(r) ELSE users[w]
      BY <2>2, <1>0
    <3>4. Admins \subseteq Admins'
      BY <3>2, <3>3 DEF Admins, IsAdmin
    <3>5. Admins' # {}
      <4>1. CASE users[Bootstrap].role = "USER"
        BY <4>1, <3>4, <1>a DEF AdminsArise
      <4>2. CASE users[Bootstrap].role # "USER"
        <5>1. users[Bootstrap].role = "ADMIN"
          BY <4>2, <1>0 DEF UserRow, Roles
        <5> QED
          BY <5>1, <3>2, <3>3 DEF Admins, IsAdmin
      <4> QED
        BY <4>1, <4>2
    <3>6. AdminRemains' /\ AdminsArise'
      BY <2>2, <3>5, <1>0 DEF AdminRemains, AdminsArise
    <3>7. NoUser.password = Nothing
      BY DEF NoUser
    <3>8. \A w \in Users : users[w] # NoUser => users'[w] # NoUser
      BY <3>2, <3>3, <3>7
    <3>9. /\ request'[r].at = "idle"
          /\ \A q \in Requests : q # r => request'[q] = request[q]
      BY <3>1, RequestMoves, IdleTyped DEF AInv
    <3>10. \A i \in DOMAIN audit : audit[i].target \in Users
      BY <1>c
    <3>11. \A q \in Requests :
            request[q].at \in {"count", "update"} => request[q].target \in Users
      BY <1>0 DEF RequestTyped
    <3>12. RowsExist'
      BY <3>1, <3>2, <3>3, <3>8, <3>9, <3>10, <3>11 DEF RowsExist, AInv
    <3> QED
      BY <3>6, <3>12 DEF Accounts
  <2> QED
    BY <2>1, <2>2, <1>3 DEF CommitBootstrap, accounts
<1>4. ASSUME NEW r \in Requests, NEW actor \in Users, NEW target \in Users,
             NEW wish \in Wishes, StartUpdate(r, actor, target, wish)
      PROVE  Accounts'
  <2> DEFINE state == [at |-> "target", actor |-> actor, target |-> target, wish |-> wish,
                       caller |-> StandingOf(actor)]
  <2>1. actor # Bootstrap => Admins # {}
    BY <1>4 DEF StartUpdate, MayAdminister, Admins
  <2>2. state.at = "target" /\ state.actor = actor
    OBVIOUS
  <2>3. request' = [request EXCEPT ![r] = state] /\ UNCHANGED accounts
    BY <1>4 DEF StartUpdate, Proceed
  <2> HIDE DEF state
  <2>4. NeedsAdmin(state) => Admins # {}
    BY <2>1, <2>2 DEF NeedsAdmin
  <2> QED
    BY <2>2, <2>3, <2>4, AccountsKept
<1>5. ASSUME NEW r \in Requests, ReadTarget(r)
      PROVE  Accounts'
  <2> DEFINE asked == request[r]
             before == IF asked.actor = asked.target THEN asked.caller
                       ELSE StandingOf(asked.target)
             after == Desired(asked.wish, before)
             state == [at |-> IF IsAdmin(before) /\ ~IsAdmin(after)
                              THEN "count" ELSE "update",
                       target |-> asked.target, before |-> before, after |-> after]
  <2>1. \/ Answer(r)
        \/ /\ Proceed(r, state) /\ users[asked.target] # NoUser
           /\ ~(asked.actor = asked.target /\ ~IsAdmin(after))
    BY <1>5 DEF ReadTarget
  <2>2. UNCHANGED accounts /\ asked.at = "target"
    BY <1>5 DEF ReadTarget
  <2>3. state.target = asked.target /\ state.after = after
    OBVIOUS
  <2>4. ASSUME Proceed(r, state), NeedsAdmin(state),
               ~(asked.actor = asked.target /\ ~IsAdmin(after))
        PROVE  Admins # {}
    <3>1. state.at # "target"
      OBVIOUS
    <3> HIDE DEF state, before, after
    <3>2. asked.target = Bootstrap /\ after.role = "USER"
      BY <2>3, <2>4, <3>1 DEF NeedsAdmin
    <3>3. asked.actor # Bootstrap
      BY <3>2, <2>4 DEF IsAdmin
    <3>4. NeedsAdmin(asked)
      BY <3>3, <2>2 DEF NeedsAdmin
    <3> QED
      BY <3>4, <1>a
  <2> HIDE DEF state, after, before
  <2> QED
    BY <2>1, <2>2, <2>3, <2>4, <1>b, AccountsKept DEF Proceed
<1>6. ASSUME NEW r \in Requests, CountOthers(r)
      PROVE  Accounts'
  <2> DEFINE state == [request[r] EXCEPT !.at = "update"]
  <2>1. Answer(r) \/ Proceed(r, state)
    BY <1>6 DEF CountOthers
  <2>2. UNCHANGED accounts /\ users[request[r].target] # NoUser /\ request[r].at = "count"
    BY <1>6 DEF CountOthers, AInv, RowsExist
  <2>3. /\ state.at = "update" /\ state.target = request[r].target
        /\ state.after = request[r].after
    <3>1. request[r] = [at |-> "count", target |-> request[r].target,
                        before |-> request[r].before, after |-> request[r].after]
      BY <1>6, <1>0 DEF CountOthers, RequestTyped
    <3> QED
      BY <3>1
  <2> HIDE DEF state
  <2>4. NeedsAdmin(state) => Admins # {}
    BY <2>2, <2>3, <1>a DEF NeedsAdmin
  <2> QED
    BY <2>1, <2>2, <2>3, <2>4, <1>b, AccountsKept DEF Proceed
<1>7. ASSUME NEW r \in Requests, CommitUpdate(r)
      PROVE  Accounts'
  <2> DEFINE asked == request[r]
             user == Altered(users[asked.target], asked.before, asked.after)
             event == [target |-> asked.target, before |-> asked.before,
                       after |-> asked.after]
  <2>1. CASE UNCHANGED accounts
    BY <2>1, <1>7, <1>b DEF CommitUpdate
  <2>2. CASE /\ ~TriggerAborts(asked.target, user)
             /\ users' = [users EXCEPT ![asked.target] = user]
             /\ audit' = Append(audit, event)
    <3>1. /\ asked.target \in Users /\ users[asked.target] # NoUser
          /\ asked.before \in Standing /\ asked.after \in Standing
          /\ asked.at = "update"
          /\ boots' = boots /\ request' = [request EXCEPT ![r] = Idle]
      BY <1>7, <1>0 DEF CommitUpdate, RequestTyped, AInv, RowsExist, Answer
    <3>2. /\ user.password = users[asked.target].password
          /\ user.username = users[asked.target].username
          /\ user.email = users[asked.target].email
          /\ user.role = users[asked.target].role \/ user.role = asked.after.role
      <4>1. users[asked.target] \in UserRow
        BY <3>1, <1>0
      <4> QED
        BY <4>1, AlteredIs
    <3> HIDE DEF user
    <3>3. \A w \in Users : users'[w] = IF w = asked.target THEN user ELSE users[w]
      BY <2>2, <1>0
    <3>4. ASSUME Admins # {} PROVE Admins' # {}
      <4>1. PICK w \in Admins : IsAdmin(users[asked.target]) /\ ~IsAdmin(user)
                                => w # asked.target
        BY <2>2, <3>4 DEF TriggerAborts
      <4>2. CASE w # asked.target
        BY <4>2, <3>3 DEF Admins
      <4>3. CASE w = asked.target
        BY <4>1, <4>3, <3>3 DEF Admins
      <4> QED
        BY <4>2, <4>3
    <3>5. NoUser.password = Nothing
      BY DEF NoUser
    <3>6. user.password # Nothing
      BY <3>1, <3>2 DEF AInv, RowsExist
    <3>7. \A w \in Users : users[w] # NoUser => users'[w] # NoUser
      BY <3>3, <3>5, <3>6
    <3>8. /\ request'[r].at = "idle"
          /\ \A q \in Requests : q # r => request'[q] = request[q]
      BY <3>1, RequestMoves, IdleTyped DEF AInv
    <3>9. \A q \in Requests :
            request[q].at \in {"count", "update"} => request[q].target \in Users
      BY <1>0 DEF RequestTyped
    <3>10. \A i \in DOMAIN audit' : users'[audit'[i].target] # NoUser
      <4>1. event.target = asked.target
        OBVIOUS
      <4> HIDE DEF event
      <4>2. /\ Len(audit') = Len(audit) + 1 /\ audit'[Len(audit) + 1] = event
            /\ \A i \in DOMAIN audit : audit'[i] = audit[i]
            /\ DOMAIN audit' = 1 .. Len(audit) + 1 /\ DOMAIN audit = 1 .. Len(audit)
        BY <2>2, <1>0
      <4>3. \A i \in DOMAIN audit : audit[i].target \in Users
        BY <1>c
      <4>4. \A i \in DOMAIN audit : users'[audit[i].target] # NoUser
        BY <4>3, <3>7 DEF AInv, RowsExist
      <4>5. \A i \in DOMAIN audit' : i \in DOMAIN audit \/ i = Len(audit) + 1
        BY <4>2
      <4> QED
        BY <4>1, <4>2, <4>4, <4>5, <3>1, <3>7
    <3>11. RowsExist'
      BY <3>3, <3>6, <3>7, <3>8, <3>9, <3>10 DEF RowsExist, AInv
    <3>12. users'[Bootstrap].role = "USER" => Admins # {}
      <4>1. CASE asked.target = Bootstrap /\ user.role = asked.after.role
        BY <4>1, <3>1, <3>3, <1>a DEF NeedsAdmin
      <4>2. CASE ~(asked.target = Bootstrap /\ user.role = asked.after.role)
        <5>1. users'[Bootstrap].role = users[Bootstrap].role
          BY <4>2, <3>2, <3>3
        <5> QED
          BY <5>1, <1>a DEF AdminsArise
      <4> QED
        BY <4>1, <4>2
    <3>13. /\ users'[Bootstrap].username = users[Bootstrap].username
           /\ users'[Bootstrap].email = users[Bootstrap].email
      BY <3>2, <3>3
    <3>14. \A q \in Requests : NeedsAdmin(request'[q]) => Admins # {}
      BY <3>1, <3>8, <1>a, <1>d, RequestMoves DEF AInv
    <3>15. AdminsArise'
      <4>1. \A q \in Requests : NeedsAdmin(request[q])' => NeedsAdmin(request'[q])
        BY DEF NeedsAdmin
      <4> QED
        BY <3>1, <3>4, <3>12, <3>13, <3>14, <4>1, <1>a DEF AdminsArise
    <3>16. AdminRemains'
      BY <3>1, <3>4, <1>a DEF AdminRemains
    <3> QED
      BY <3>11, <3>15, <3>16 DEF Accounts
  <2> QED
    BY <2>1, <2>2, <1>7 DEF CommitUpdate, accounts
<1>c1. ASSUME NEW r \in Requests, NEW state, Proceed(r, state), UNCHANGED accounts,
              state.at \in {"load", "save", "replace"}
       PROVE  Accounts'
  <2>1. ~NeedsAdmin(state)
    BY <1>c1 DEF NeedsAdmin
  <2> QED
    BY <2>1, <1>c1, AccountsKept DEF Proceed
<1>8. ASSUME NEW r \in Requests, NEW actor \in Users, NEW payload \in Payloads,
             StartSettings(r, actor, payload)
      PROVE  Accounts'
  BY <1>8, <1>c1 DEF StartSettings
<1>9. ASSUME NEW r \in Requests, LoadSettings(r) \/ SaveSettings(r) \/ ReplaceSnapshot(r)
      PROVE  Accounts'
  BY <1>9, <1>b, <1>c1 DEF LoadSettings, SaveSettings, ReplaceSnapshot
<1>10. ASSUME Restart PROVE Accounts'
  <2>1. /\ UNCHANGED <<users, boots, audit, Admins>>
        /\ \A r \in Requests : request'[r] = Idle /\ request'[r].at = "idle"
    BY <1>10, IdleTyped DEF Restart, accounts, Admins, IsAdmin
  <2>2. \A r \in Requests : ~NeedsAdmin(request[r])'
    BY <2>1 DEF NeedsAdmin
  <2> QED
    BY <2>1, <2>2, <1>a DEF Accounts, AdminsArise, RowsExist, AdminRemains
<1>11. ASSUME UNCHANGED vars PROVE Accounts'
  <2>1. UNCHANGED <<users, boots, audit, request, Admins>>
    BY <1>11 DEF vars, Admins, IsAdmin
  <2> QED
    BY <2>1, <1>a DEF Accounts, AdminsArise, NeedsAdmin, RowsExist, AdminRemains
<1> QED
  BY <1>1, <1>2, <1>3, <1>4, <1>5, <1>6, <1>7, <1>8, <1>9, <1>10, <1>11 DEF Next

(* The audit trail only grows, and the bootstrap counts what it has.       *)
LEMMA GrantsStep == ASSUME AInv, [Next]_vars PROVE GrantsCounted'
<1>0. /\ granted \in [{"role", "active"} -> Nat] /\ Len(audit) \in Nat
      /\ \A field \in {"role", "active"} : granted[field] <= Len(audit)
      /\ audit \in Seq(Event)
      /\ \A r \in Requests : RequestTyped(request[r])
  BY DEF AInv, Typed, TypeOK, GrantsCounted, RequestsTyped
<1>1. ASSUME UNCHANGED <<audit, granted>> PROVE GrantsCounted'
  BY <1>0, <1>1 DEF GrantsCounted
<1>2. ASSUME NEW r \in Requests, CommitBootstrap(r) PROVE GrantsCounted'
  <2>1. UNCHANGED audit
    BY <1>2 DEF CommitBootstrap
  <2>2. CASE granted' = [role |-> IF request[r].role = "ADMIN"
                                  THEN granted["role"] ELSE Len(audit),
                         active |-> Len(audit)]
    BY <2>1, <2>2, <1>0 DEF GrantsCounted
  <2> QED
    BY <2>1, <2>2, <1>1, <1>2 DEF CommitBootstrap
<1>3. ASSUME NEW r \in Requests, CommitUpdate(r) PROVE GrantsCounted'
  <2>1. UNCHANGED granted
    BY <1>3 DEF CommitUpdate
  <2> DEFINE asked == request[r]
             event == [target |-> asked.target, before |-> asked.before,
                       after |-> asked.after]
  <2>2. UNCHANGED audit \/ audit' = Append(audit, event)
    BY <1>3 DEF CommitUpdate
  <2> HIDE DEF event
  <2>3. CASE audit' = Append(audit, event)
    <3>1. Len(audit') = Len(audit) + 1
      BY <2>3, <1>0
    <3> QED
      BY <3>1, <2>1, <1>0 DEF GrantsCounted
  <2> QED
    BY <2>1, <2>2, <2>3, <1>1
<1>4. CASE UNCHANGED vars \/ Restart
  BY <1>4, <1>1 DEF vars, Restart, accounts
<1>5. ASSUME NEW r \in Requests,
             \/ \E identity \in Identities :
                  \/ \E u \in Users : Register(r, u, identity[1], identity[2])
                  \/ StartBootstrap(r, identity[1], identity[2])
             \/ \E actor, target \in Users, wish \in Wishes :
                  StartUpdate(r, actor, target, wish)
             \/ ReadTarget(r) \/ CountOthers(r)
             \/ \E actor \in Users, payload \in Payloads : StartSettings(r, actor, payload)
             \/ LoadSettings(r) \/ SaveSettings(r) \/ ReplaceSnapshot(r)
      PROVE  GrantsCounted'
  BY <1>5, <1>1 DEF Register, StartBootstrap, StartUpdate, ReadTarget, CountOthers,
                    StartSettings, LoadSettings, SaveSettings, ReplaceSnapshot, accounts
<1> QED
  BY <1>2, <1>3, <1>4, <1>5 DEF Next

(* The names of the accounts and their identities go together.             *)
LEMMA NamesStep == ASSUME AInv, Typed', [Next]_vars PROVE NamesAgree'
<1> USE AdministrationAssumption
<1>0. /\ users \in [Users -> UserRow] /\ boots \in Nat
      /\ identities \subseteq Names \X Users
  BY DEF AInv, Typed, TypeOK
<1>a. NamesOf(NoUser) = {}
  BY DEF NamesOf, NoUser
<1>b. ASSUME UNCHANGED accounts PROVE NamesAgree'
  BY <1>b DEF accounts, NamesAgree, AInv
<1>1. ASSUME NEW r \in Requests, NEW u \in Users, NEW identity \in Identities,
             Register(r, u, identity[1], identity[2])
      PROVE  NamesAgree'
  <2> DEFINE user == [role |-> "USER", active |-> TRUE, password |-> "hash",
                      username |-> identity[1], email |-> identity[2]]
             pairs == identities \union (NamesOf(user) \X {u})
  <2>1. /\ users[u] = NoUser /\ users' = [users EXCEPT ![u] = user]
        /\ identities' = pairs /\ boots' = boots
        /\ \A p, q \in pairs : p[1] = q[1] => p = q
    BY <1>1 DEF Register, Unique
  <2> HIDE DEF user
  <2>2. \A w \in Users : users'[w] = IF w = u THEN user ELSE users[w]
    BY <2>1, <1>0
  <2> SUFFICES ASSUME boots <= 1
               PROVE  /\ \A w \in Users, n \in Names :
                           <<n, w>> \in pairs <=> n \in NamesOf(users'[w])
                      /\ \A v, w \in Users, n \in Names :
                           n \in NamesOf(users'[v]) /\ n \in NamesOf(users'[w]) => v = w
    BY <2>1 DEF NamesAgree, NamesOf
  <2>3. \A w \in Users, n \in Names : <<n, w>> \in identities <=> n \in NamesOf(users[w])
    BY DEF AInv, NamesAgree
  <2>4. \A w \in Users, n \in Names : <<n, w>> \in pairs <=> n \in NamesOf(users'[w])
    <3>1. ASSUME NEW w \in Users, NEW n \in Names, w = u
          PROVE  <<n, w>> \in pairs <=> n \in NamesOf(users'[w])
      BY <3>1, <2>1, <2>2, <2>3, <1>a
    <3>2. ASSUME NEW w \in Users, NEW n \in Names, w # u
          PROVE  <<n, w>> \in pairs <=> n \in NamesOf(users'[w])
      BY <3>2, <2>2, <2>3
    <3> QED
      BY <3>1, <3>2
  <2>5. ASSUME NEW v \in Users, NEW w \in Users, NEW n \in Names,
               n \in NamesOf(users'[v]), n \in NamesOf(users'[w])
        PROVE  v = w
    <3>1. <<n, v>> \in pairs /\ <<n, w>> \in pairs
      BY <2>4, <2>5
    <3> QED
      BY <3>1, <2>1
  <2> QED
    BY <2>4, <2>5
<1>2. ASSUME NEW r \in Requests, CommitBootstrap(r) PROVE NamesAgree'
  <2> DEFINE asked == request[r]
             pairs == {p \in identities : p[2] # Bootstrap}
                      \union (NamesOf(asked) \X {Bootstrap})
  <2>1. CASE UNCHANGED accounts
    BY <2>1, <1>b
  <2>2. CASE /\ users' = [users EXCEPT ![Bootstrap] = Initialized(r)]
             /\ identities' = pairs /\ boots' = boots + 1
             /\ Unique(users', pairs)
    <3> SUFFICES ASSUME boots + 1 <= 1
                 PROVE  /\ \A w \in Users, n \in Names :
                             <<n, w>> \in pairs <=> n \in NamesOf(users'[w])
                        /\ \A v, w \in Users, n \in Names :
                             n \in NamesOf(users'[v]) /\ n \in NamesOf(users'[w])
                             => v = w
      BY <2>2 DEF NamesAgree, NamesOf
    <3>1. /\ boots = 0 /\ users[Bootstrap].username = Placeholder
          /\ users[Bootstrap].email = Nothing
      BY <1>0 DEF AInv, AdminsArise
    <3>2. NamesOf(Initialized(r)) = NamesOf(asked)
      <4>1. Initialized(r).username = asked.username /\ Initialized(r).email = asked.email
        BY <3>1, InitializedIs DEF AInv, Typed
      <4> QED
        BY <4>1 DEF NamesOf
    <3>3. \A w \in Users :
            users'[w] = IF w = Bootstrap THEN Initialized(r) ELSE users[w]
      BY <2>2, <1>0
    <3>4. \A w \in Users, n \in Names :
            <<n, w>> \in identities <=> n \in NamesOf(users[w])
      <4>1. boots <= 1
        BY <3>1
      <4> QED
        BY <4>1 DEF AInv, NamesAgree
    <3>5. \A w \in Users, n \in Names : <<n, w>> \in pairs <=> n \in NamesOf(users'[w])
      BY <3>2, <3>3, <3>4
    <3>6. ASSUME NEW v \in Users, NEW w \in Users, NEW n \in Names,
                 n \in NamesOf(users'[v]), n \in NamesOf(users'[w])
          PROVE  v = w
      <4>1. <<n, v>> \in pairs /\ <<n, w>> \in pairs
        BY <3>5, <3>6
      <4> QED
        BY <4>1, <2>2 DEF Unique
    <3> QED
      BY <3>5, <3>6
  <2> QED
    BY <2>1, <2>2, <1>2 DEF CommitBootstrap, accounts
<1>3. ASSUME NEW r \in Requests, CommitUpdate(r) PROVE NamesAgree'
  <2> DEFINE asked == request[r]
             user == Altered(users[asked.target], asked.before, asked.after)
  <2>1. CASE UNCHANGED accounts
    BY <2>1, <1>b
  <2>2. CASE users' = [users EXCEPT ![asked.target] = user]
    <3>1. asked.target \in Users /\ UNCHANGED <<identities, boots>>
      BY <1>3 DEF CommitUpdate, AInv, Typed, RequestsTyped, RequestTyped
    <3>2. NamesOf(user) = NamesOf(users[asked.target])
      <4>1. users[asked.target] \in UserRow
        BY <3>1, <1>0
      <4>2. /\ user.username = users[asked.target].username
            /\ user.email = users[asked.target].email
        BY <4>1, AlteredIs
      <4> QED
        BY <4>2 DEF NamesOf
    <3> HIDE DEF user
    <3>3. \A w \in Users : NamesOf(users'[w]) = NamesOf(users[w])
      BY <3>2, <2>2, <1>0
    <3> QED
      BY <3>1, <3>3 DEF NamesAgree, AInv
  <2> QED
    BY <2>1, <2>2, <1>3 DEF CommitUpdate, accounts
<1>4. ASSUME NEW r \in Requests,
             \/ \E identity \in Identities : StartBootstrap(r, identity[1], identity[2])
             \/ \E actor, target \in Users, wish \in Wishes :
                  StartUpdate(r, actor, target, wish)
             \/ ReadTarget(r) \/ CountOthers(r)
             \/ \E actor \in Users, payload \in Payloads : StartSettings(r, actor, payload)
             \/ LoadSettings(r) \/ SaveSettings(r) \/ ReplaceSnapshot(r)
      PROVE  NamesAgree'
  BY <1>4, <1>b DEF StartBootstrap, StartUpdate, ReadTarget, CountOthers,
                    StartSettings, LoadSettings, SaveSettings, ReplaceSnapshot
<1>5. ASSUME Restart \/ UNCHANGED vars PROVE NamesAgree'
  BY <1>5, <1>b DEF Restart, vars, accounts
<1> QED
  BY <1>1, <1>2, <1>3, <1>4, <1>5 DEF Next
(* TrailExplainsAccounts, for one column of one row.                       *)
Explained(u, field) ==
  LET changed == {i \in DOMAIN audit : Changes(i, u, field)}
  IN /\ changed = {} => users[u][field] = Given(u)[field]
     /\ \A i \in changed :
          (\A j \in changed : j <= i) => users[u][field] = audit[i].after[field]

LEMMA TrailIsExplained ==
  TrailExplainsAccounts <=>
    \A u \in Users, field \in {"role", "active"} :
      users[u] # NoUser => Explained(u, field)
BY DEF TrailExplainsAccounts, Explained

(* The trail explains the accounts after every step.                       *)
LEMMA TrailStep ==
  ASSUME AInv, Typed', GrantsCounted', [Next]_vars PROVE TrailExplainsAccounts'
<1> USE AdministrationAssumption
<1>0. /\ users \in [Users -> UserRow] /\ boots \in Nat /\ audit \in Seq(Event)
      /\ DOMAIN audit = 1 .. Len(audit) /\ Len(audit) \in Nat
      /\ \A field \in {"role", "active"} :
           granted[field] \in Nat /\ granted[field] <= Len(audit)
  BY DEF AInv, Typed, TypeOK, GrantsCounted
<1>a. \A i \in DOMAIN audit : audit[i].target \in Users /\ users[audit[i].target] # NoUser
  <2>1. \A i \in DOMAIN audit : audit[i] \in Event
    BY <1>0
  <2> QED
    BY <2>1 DEF Event, AInv, RowsExist
<1>b. ASSUME UNCHANGED accounts PROVE TrailExplainsAccounts'
  <2>1. UNCHANGED <<users, audit, boots, granted>>
    BY <1>b DEF accounts
  <2> QED
    BY <2>1 DEF TrailExplainsAccounts, Changes, Given, AInv
<1>1. ASSUME NEW r \in Requests, NEW u \in Users, NEW identity \in Identities,
             Register(r, u, identity[1], identity[2])
      PROVE  TrailExplainsAccounts'
  <2> DEFINE user == [role |-> "USER", active |-> TRUE, password |-> "hash",
                      username |-> identity[1], email |-> identity[2]]
  <2>1. /\ users[u] = NoUser /\ users' = [users EXCEPT ![u] = user]
        /\ UNCHANGED <<audit, boots, granted>>
    BY <1>1 DEF Register
  <2>2. user["role"] = "USER" /\ user["active"] = TRUE
    OBVIOUS
  <2> HIDE DEF user
  <2>3. \A w \in Users : users'[w] = IF w = u THEN user ELSE users[w]
    BY <2>1, <1>0
  <2> SUFFICES ASSUME NEW w \in Users, NEW field \in {"role", "active"},
                      users'[w] # NoUser
               PROVE  Explained(w, field)'
    BY DEF TrailExplainsAccounts, Explained
  <2>4. CASE w # u
    <3>1. Explained(w, field)
      BY <2>3, <2>4, TrailIsExplained DEF AInv
    <3> QED
      BY <3>1, <2>1, <2>3, <2>4 DEF Explained, Changes, Given
  <2>5. CASE w = u
    <3>1. \A i \in DOMAIN audit : audit[i].target # u
      BY <2>1, <1>a
    <3>2. u # Bootstrap
      BY <2>1 DEF AInv, RowsExist
    <3>3. users'[u] = user
      BY <2>3
    <3>4. Given(u)'["role"] = "USER" /\ Given(u)'["active"] = TRUE
      <4>1. u # Bootstrap
        BY <3>2
      <4> QED
        BY <4>1 DEF Given
    <3>5. users'[u][field] = Given(u)'[field]
      BY <3>3, <3>4, <2>2
    <3>6. {i \in DOMAIN audit' : Changes(i, u, field)'} = {}
      BY <3>1, <2>1 DEF Changes
    <3> QED
      BY <3>5, <3>6, <2>5 DEF Explained
  <2> QED
    BY <2>4, <2>5
<1>2. ASSUME NEW r \in Requests, CommitBootstrap(r) PROVE TrailExplainsAccounts'
  <2>1. CASE UNCHANGED accounts
    BY <2>1, <1>b
  <2>2. CASE /\ users' = [users EXCEPT ![Bootstrap] = Initialized(r)]
             /\ boots' = boots + 1
             /\ granted' = [role |-> IF request[r].role = "ADMIN"
                                     THEN granted["role"] ELSE Len(audit),
                            active |-> Len(audit)]
    <3> SUFFICES ASSUME NEW u \in Users, NEW field \in {"role", "active"},
                        users'[u] # NoUser
                 PROVE  Explained(u, field)'
      BY DEF TrailExplainsAccounts, Explained
    <3>1. UNCHANGED audit /\ boots' > 0
      BY <2>2, <1>2, <1>0 DEF CommitBootstrap
    <3>2. users'[u] = IF u = Bootstrap THEN Initialized(r) ELSE users[u]
      BY <2>2, <1>0
    <3>3. CASE u # Bootstrap
      <4>1. Explained(u, field)
        BY <3>2, <3>3, TrailIsExplained DEF AInv
      <4>2. /\ Given(u)' = Given(u) /\ users'[u] = users[u]
            /\ \A i \in DOMAIN audit : Changes(i, u, field)' <=> Changes(i, u, field)
        BY <3>1, <3>2, <3>3 DEF Given, Changes
      <4> QED
        BY <4>1, <4>2, <3>1 DEF Explained
    <3>4. CASE u = Bootstrap /\ field = "role" /\ request[r].role = "ADMIN"
      <4>1. Explained(u, field)
        BY <3>4, TrailIsExplained DEF AInv, RowsExist
      <4>2. Initialized(r)["role"] = users[Bootstrap]["role"]
        BY <3>4, InitializedIs DEF AInv, Typed
      <4>3. /\ users'[u][field] = users[u][field] /\ granted'[field] = granted[field]
            /\ Given(u)'[field] = "ADMIN" /\ Given(u)[field] = "ADMIN"
        BY <4>2, <3>2, <3>4, <2>2 DEF Given
      <4>4. \A i \in DOMAIN audit : Changes(i, u, field)' <=> Changes(i, u, field)
        BY <4>3, <3>1 DEF Changes
      <4> QED
        BY <4>1, <4>3, <4>4, <3>1 DEF Explained
    <3>5. CASE u = Bootstrap /\ ~(field = "role" /\ request[r].role = "ADMIN")
      <4>1. granted'[field] = Len(audit)
        BY <3>5, <2>2
      <4>2. \A i \in DOMAIN audit' : ~Changes(i, u, field)'
        BY <4>1, <3>1, <3>5, <1>0 DEF Changes
      <4>3. /\ Initialized(r)["active"] = TRUE
            /\ request[r].role # "ADMIN" => Initialized(r)["role"] = "ADMIN"
        BY InitializedIs DEF AInv, Typed
      <4>4. Given(u)'["role"] = "ADMIN" /\ Given(u)'["active"] = TRUE
        BY <3>1, <3>5 DEF Given
      <4>5. users'[u][field] = Given(u)'[field]
        BY <4>3, <4>4, <3>2, <3>5
      <4> QED
        BY <4>2, <4>5 DEF Explained
    <3> QED
      BY <3>3, <3>4, <3>5
  <2> QED
    BY <2>1, <2>2, <1>2 DEF CommitBootstrap, accounts
<1>3. ASSUME NEW r \in Requests, CommitUpdate(r) PROVE TrailExplainsAccounts'
  <2> DEFINE asked == request[r]
             user == Altered(users[asked.target], asked.before, asked.after)
             event == [target |-> asked.target, before |-> asked.before,
                       after |-> asked.after]
             last == Len(audit) + 1
  <2>1. CASE UNCHANGED accounts
    BY <2>1, <1>b
  <2>2. CASE /\ users' = [users EXCEPT ![asked.target] = user]
             /\ audit' = Append(audit, event)
    <3>1. /\ asked.target \in Users /\ users[asked.target] # NoUser /\ boots' = boots
          /\ granted' = granted /\ asked.before \in Standing /\ asked.after \in Standing
      BY <1>3 DEF CommitUpdate, AInv, RowsExist, Typed, RequestsTyped, RequestTyped
    <3>2. \A field \in {"role", "active"} :
            user[field] = IF asked.before[field] = asked.after[field]
                          THEN users[asked.target][field] ELSE asked.after[field]
      <4>1. users[asked.target] \in UserRow
        BY <3>1, <1>0
      <4> QED
        BY <4>1, AlteredIs
    <3> HIDE DEF user
    <3>3. \A w \in Users : users'[w] = IF w = asked.target THEN user ELSE users[w]
      BY <2>2, <1>0
    <3>4. /\ event.target = asked.target /\ event.before = asked.before
          /\ event.after = asked.after
      OBVIOUS
    <3> HIDE DEF event
    <3>5. /\ DOMAIN audit' = DOMAIN audit \union {last} /\ last \notin DOMAIN audit
          /\ audit'[last] = event /\ \A i \in DOMAIN audit : audit'[i] = audit[i] /\ i < last
          /\ last \in Nat
      BY <2>2, <1>0
    <3>a. \A field \in {"role", "active"} : last > granted[field]
      BY <1>0
    <3> HIDE DEF last
    <3> SUFFICES ASSUME NEW u \in Users, NEW field \in {"role", "active"},
                        users'[u] # NoUser
                 PROVE  Explained(u, field)'
      BY DEF TrailExplainsAccounts, Explained
    <3>6. users[u] # NoUser /\ Given(u)' = Given(u)
      BY <3>1, <3>3 DEF Given
    <3>7. Explained(u, field)
      BY <3>6, TrailIsExplained DEF AInv
    <3> DEFINE changed == {i \in DOMAIN audit : Changes(i, u, field)}
               changedNow == {i \in DOMAIN audit' : Changes(i, u, field)'}
    <3>8. CASE u = asked.target /\ asked.before[field] # asked.after[field]
      <4>1. last \in changedNow /\ audit'[last].after[field] = users'[u][field]
        BY <3>8, <3>a, <3>1, <3>2, <3>3, <3>4, <3>5 DEF Changes
      <4>2. \A i \in changedNow : i # last => i < last
        BY <3>5
      <4>3. ASSUME NEW i \in changedNow, \A j \in changedNow : j <= i PROVE i = last
        <5>1. last <= i /\ (i # last => i < last) /\ i \in DOMAIN audit'
          BY <4>1, <4>2, <4>3
        <5>2. i \in Nat
          BY <5>1, <3>5, <1>0
        <5> QED
          BY <5>1, <5>2, <3>5
      <4> QED
        BY <4>1, <4>3 DEF Explained
    <3>9. CASE ~(u = asked.target /\ asked.before[field] # asked.after[field])
      <4>1. changedNow = changed
        BY <3>9, <3>1, <3>4, <3>5 DEF Changes
      <4>2. users'[u][field] = users[u][field]
        BY <3>9, <3>2, <3>3
      <4>3. \A i \in changed : audit'[i].after[field] = audit[i].after[field]
        BY <3>5
      <4> QED
        BY <4>1, <4>2, <4>3, <3>6, <3>7 DEF Explained
    <3> QED
      BY <3>8, <3>9
  <2> QED
    BY <2>1, <2>2, <1>3 DEF CommitUpdate, accounts
<1>4. ASSUME NEW r \in Requests,
             \/ \E identity \in Identities : StartBootstrap(r, identity[1], identity[2])
             \/ \E actor, target \in Users, wish \in Wishes :
                  StartUpdate(r, actor, target, wish)
             \/ ReadTarget(r) \/ CountOthers(r)
             \/ \E actor \in Users, payload \in Payloads : StartSettings(r, actor, payload)
             \/ LoadSettings(r) \/ SaveSettings(r) \/ ReplaceSnapshot(r)
      PROVE  TrailExplainsAccounts'
  BY <1>4, <1>b DEF StartBootstrap, StartUpdate, ReadTarget, CountOthers,
                    StartSettings, LoadSettings, SaveSettings, ReplaceSnapshot
<1>5. ASSUME Restart \/ UNCHANGED vars PROVE TrailExplainsAccounts'
  BY <1>5, <1>b DEF Restart, vars, accounts
<1> QED
  BY <1>1, <1>2, <1>3, <1>4, <1>5 DEF Next
(* Who is about to publish, once a request has moved on.                   *)
LEMMA ReplacingMoves ==
  ASSUME Typed, NEW r \in Requests, NEW state,
         request' = [request EXCEPT ![r] = state]
  PROVE  Replacing' = IF state.at = "replace" THEN Replacing \union {r}
                                              ELSE Replacing \ {r}
<1>1. /\ request'[r] = state
      /\ \A q \in Requests : q # r => request'[q] = request[q]
  BY RequestMoves
<1> QED
  BY <1>1 DEF Replacing

(* A request that neither saves nor publishes moves on.                    *)
LEMMA PublishedKept ==
  ASSUME AInv, NEW r \in Requests, NEW state, UNCHANGED settings,
         request' = [request EXCEPT ![r] = state],
         state.at # "replace", request[r].at # "replace"
  PROVE  Published'
<1>1. Replacing' = Replacing
  BY ReplacingMoves DEF AInv, Replacing
<1>2. \A q \in Replacing : request'[q] = request[q]
  BY RequestMoves DEF AInv, Replacing
<1> QED
  BY <1>1, <1>2 DEF Published, AInv, settings

(* What was saved is what is published.                                    *)
LEMMA PublishedStep == ASSUME AInv, [Next]_vars PROVE Published'
<1> USE AdministrationAssumption
<1>0. \A r \in Requests : RequestTyped(request[r])
  BY DEF AInv, Typed, RequestsTyped
<1>1. ASSUME NEW r \in Requests, Answer(r), UNCHANGED settings,
             request[r].at # "replace"
      PROVE  Published'
  BY <1>1, PublishedKept, IdleTyped DEF Answer
<1>a. ASSUME NEW r \in Requests, NEW state, Proceed(r, state), UNCHANGED settings,
             state.at # "replace", request[r].at # "replace"
      PROVE  Published'
  BY <1>a, PublishedKept DEF Proceed
<1>2. ASSUME NEW r \in Requests, NEW identity \in Identities,
             StartBootstrap(r, identity[1], identity[2])
      PROVE  Published'
  BY <1>2, <1>a, IdleTyped DEF StartBootstrap
<1>3. ASSUME NEW r \in Requests, CommitBootstrap(r) \/ CommitUpdate(r) PROVE Published'
  BY <1>3, <1>1 DEF CommitBootstrap, CommitUpdate
<1>4. ASSUME NEW r \in Requests, NEW actor \in Users, NEW target \in Users,
              NEW wish \in Wishes, StartUpdate(r, actor, target, wish)
       PROVE  Published'
  BY <1>4, <1>a, IdleTyped DEF StartUpdate
<1>5. ASSUME NEW r \in Requests, ReadTarget(r) PROVE Published'
  <2> DEFINE asked == request[r]
             before == IF asked.actor = asked.target THEN asked.caller
                       ELSE StandingOf(asked.target)
             after == Desired(asked.wish, before)
             at == IF IsAdmin(before) /\ ~IsAdmin(after) THEN "count" ELSE "update"
             state == [at |-> at, target |-> asked.target, before |-> before,
                       after |-> after]
  <2>1. Answer(r) \/ Proceed(r, state)
    BY <1>5 DEF ReadTarget
  <2>2. state.at = at /\ at # "replace"
    OBVIOUS
  <2> HIDE DEF state, at
  <2> QED
    BY <2>1, <2>2, <1>1, <1>a, <1>5 DEF ReadTarget
<1>6. ASSUME NEW r \in Requests, NEW actor \in Users, NEW payload \in Payloads,
              StartSettings(r, actor, payload)
       PROVE  Published'
  BY <1>6, <1>a, IdleTyped DEF StartSettings
<1>7. ASSUME NEW r \in Requests, LoadSettings(r) PROVE Published'
  BY <1>7, <1>a DEF LoadSettings
<1>8. ASSUME NEW r \in Requests, CountOthers(r) PROVE Published'
  <2> DEFINE state == [request[r] EXCEPT !.at = "update"]
  <2>1. state.at = "update"
    <3>1. request[r] = [at |-> "count", target |-> request[r].target,
                        before |-> request[r].before, after |-> request[r].after]
      BY <1>8, <1>0 DEF CountOthers, RequestTyped
    <3> QED
      BY <3>1
  <2>2. Answer(r) \/ Proceed(r, state)
    BY <1>8 DEF CountOthers
  <2> HIDE DEF state
  <2> QED
    BY <2>1, <2>2, <1>1, <1>8, PublishedKept DEF CountOthers, Proceed
<1>9. ASSUME NEW r \in Requests, SaveSettings(r) PROVE Published'
  <2> DEFINE asked == request[r]
             state == [at |-> "replace", payload |-> asked.payload]
  <2>1. CASE Answer(r) /\ UNCHANGED <<row, crossed>>
    BY <2>1, <1>1, <1>9 DEF SaveSettings, settings
  <2>2. CASE /\ row' = IF asked.loaded = Nothing THEN asked.payload
                       ELSE Merged(row, asked.loaded, asked.payload)
             /\ crossed' = (Replacing # {} \/ asked.loaded # row)
             /\ Proceed(r, state)
    <3> SUFFICES ASSUME ~crossed'
                 PROVE  Replacing' = {r} /\ row' = request'[r].payload
      BY DEF Published
    <3>1. Replacing = {} /\ asked.loaded = row
      BY <2>2
    <3>2. request'[r] = state /\ Replacing' = {r}
      <4>1. state.at = "replace"
        OBVIOUS
      <4>2. request' = [request EXCEPT ![r] = state]
        BY <2>2 DEF Proceed
      <4> HIDE DEF state
      <4> QED
        BY <3>1, <4>1, <4>2, RequestMoves, ReplacingMoves DEF AInv
    <3>3. asked.payload \in [DOMAIN Environment -> Nat]
      BY <1>0, <1>9 DEF SaveSettings, RequestTyped
    <3>4. Merged(row, row, asked.payload) = asked.payload
      <4>1. Merged(row, row, asked.payload)
              = [column \in DOMAIN asked.payload |-> asked.payload[column]]
        BY DEF Merged
      <4> QED
        BY <4>1, <3>3
    <3>5. row' = asked.payload /\ state.payload = asked.payload
      BY <2>2, <3>1, <3>4
    <3> QED
      BY <3>2, <3>5
  <2> QED
    BY <2>1, <2>2, <1>9 DEF SaveSettings
<1>10. ASSUME NEW r \in Requests, ReplaceSnapshot(r) PROVE Published'
  <2> SUFFICES ASSUME ~crossed
               PROVE  /\ Replacing' = {}
                      /\ memory' = (IF row = Nothing THEN Environment ELSE row)
    BY <1>10 DEF Published, ReplaceSnapshot
  <2>1. Replacing = {r} /\ row = request[r].payload
    BY <1>10 DEF ReplaceSnapshot, Replacing, AInv, Published
  <2>2. Replacing' = {}
    BY <1>10, <2>1, ReplacingMoves, IdleTyped DEF ReplaceSnapshot, Answer, AInv
  <2>3. row # Nothing
    BY <2>1, <1>0, <1>10 DEF ReplaceSnapshot, RequestTyped
  <2> QED
    BY <2>1, <2>2, <2>3, <1>10 DEF ReplaceSnapshot
<1>11. ASSUME NEW r \in Requests, NEW u \in Users, NEW identity \in Identities,
             Register(r, u, identity[1], identity[2])
      PROVE  Published'
  BY <1>11 DEF Register, settings, Published, Replacing, AInv
<1>12. ASSUME Restart PROVE Published'
  <2>1. Replacing' = {}
    BY <1>12, IdleTyped DEF Restart, Replacing
  <2> QED
    BY <2>1, <1>12 DEF Restart, Published
<1>13. ASSUME UNCHANGED vars PROVE Published'
  BY <1>13 DEF vars, Published, Replacing, AInv
<1> QED
  BY <1>2, <1>3, <1>4, <1>5, <1>6, <1>7, <1>8, <1>9, <1>10, <1>11, <1>12, <1>13
     DEF Next
-----------------------------------------------------------------------------
(* AInv is inductive.                                                      *)
LEMMA AInvStep == AInv /\ [Next]_vars => AInv'
BY TypedStep, AccountsStep, GrantsStep, NamesStep, TrailStep, PublishedStep
   DEF AInv, Accounts

LEMMA AInvHolds == Spec => []AInv
BY AInvInit, AInvStep, PTL DEF Spec

(* The variables have their types.                                         *)
THEOREM TypeCorrect == Spec => []TypeOK
<1>1. AInv => TypeOK
  BY DEF AInv, Typed
<1> QED
  BY <1>1, AInvHolds, PTL

(* After the bootstrap there is an active administrator in every state,    *)
(* whatever any number of administrators do at the same time.              *)
THEOREM AnAdminRemains == Spec => []AdminRemains
<1>1. AInv => AdminRemains
  BY DEF AInv
<1> QED
  BY <1>1, AInvHolds, PTL

(* The audit trail accounts for the role and the standing of every user.   *)
THEOREM TrailIsComplete == Spec => []TrailExplainsAccounts
<1>1. AInv => TrailExplainsAccounts
  BY DEF AInv
<1> QED
  BY <1>1, AInvHolds, PTL

(* Names and addresses form one namespace, in which each leads to its user.*)
THEOREM NamesAreUnique == Spec => []NamesLeadToTheirUser
<1>1. AInv => NamesLeadToTheirUser
  <2> SUFFICES ASSUME AInv, boots <= 1
               PROVE  /\ \A u \in Users :
                           {n \in Names : <<n, u>> \in identities} = NamesOf(users[u])
                      /\ \A u, w \in Users : u # w =>
                           NamesOf(users[u]) \intersect NamesOf(users[w]) = {}
    BY DEF NamesLeadToTheirUser, AInv, Typed
  <2>1. \A u \in Users : NamesOf(users[u]) \subseteq Names
    <3>1. \A u \in Users : users[u] \in UserRow
      BY DEF AInv, Typed, TypeOK
    <3>2. \A u \in Users : {users[u].username, users[u].email} \subseteq Names \union {Nothing}
      BY <3>1 DEF UserRow
    <3> QED
      BY <3>2 DEF NamesOf
  <2> QED
    BY <2>1 DEF AInv, NamesAgree
<1> QED
  BY <1>1, AInvHolds, PTL

(* The settings in memory are those that are saved, between the updates.   *)
THEOREM MemoryIsTheRow == Spec => []MemoryFollowsRow
<1>1. AInv => MemoryFollowsRow
  BY DEF AInv, Published, MemoryFollowsRow
<1> QED
  BY <1>1, AInvHolds, PTL

-----------------------------------------------------------------------------
(* The limiter.  Times: what is left of a sequence of them.                *)

(* Every set of natural numbers has a least one.                           *)
LEMMA LeastOf ==
  ASSUME NEW T, T \subseteq Nat, T # {}
  PROVE  \E x \in T : \A y \in T : x <= y
<1> DEFINE Less == OpToRel(<, Nat)
<1>1. IsWellFoundedOn(Less, Nat)
  BY NatLessThanWellFounded
<1>2. \A x, y \in Nat : x < y => <<x, y>> \in Less
  BY DEF OpToRel
<1> HIDE DEF Less
<1>3. PICK x \in T : \A y \in T : ~ (<<y, x>> \in Less)
  BY <1>1, WFMin
<1>4. ASSUME NEW y \in T PROVE x <= y
  <2>1. x \in Nat /\ y \in Nat
    OBVIOUS
  <2>2. ~ (y < x)
    BY <2>1, <1>2, <1>3
  <2> QED BY <2>1, <2>2
<1> QED BY <1>4

(* The least and the greatest of some positions.                           *)
LEMMA MinIs ==
  ASSUME NEW T, T \subseteq Nat, T # {}
  PROVE  Min(T) \in T /\ \A y \in T : Min(T) <= y
<1>1. \E x \in T : \A y \in T : x <= y
  BY LeastOf
<1> QED BY <1>1 DEF Min

LEMMA MaxIs ==
  ASSUME NEW n \in Nat, NEW T \in SUBSET (0 .. n), T # {}
  PROVE  Max(T) \in T /\ \A y \in T : y <= Max(T)
<1> DEFINE U == {z \in Nat : \E y \in T : z = n - y}
<1>1. U \subseteq Nat
  OBVIOUS
<1>2. U # {}
  <2>1. PICK y \in T : TRUE
    OBVIOUS
  <2>2. n - y \in Nat
    BY <2>1
  <2> QED BY <2>2
<1>3. PICK z \in U : \A y \in U : z <= y
  <2> HIDE DEF U
  <2> QED BY <1>1, <1>2, LeastOf
<1>4. PICK x \in T : z = n - x
  OBVIOUS
<1>5. ASSUME NEW y \in T PROVE x >= y
  <2>1. n - y \in U /\ y \in Int /\ x \in Int
    BY <1>5
  <2>2. n - x <= n - y
    BY <1>3, <1>4, <2>1
  <2> QED BY <2>1, <2>2
<1>6. \E v \in T : \A y \in T : v >= y
  BY <1>5
<1>7. Max(T) \in T /\ \A y \in T : Max(T) >= y
  BY <1>6 DEF Max
<1> QED BY <1>7

(* The times after the last that is not later than th.                     *)
After(s, th) ==
  LET old == {i \in DOMAIN s : s[i] <= th}
  IN SubSeq(s, Max(old \union {0}) + 1, Len(s))

LEMMA InWindowIsAfter ==
  ASSUME NEW s, NEW k, NEW time
  PROVE  InWindow(s, k, time) = After(s, time - Rule(k).window)
BY DEF InWindow, After

(* Where it begins.                                                        *)
EndOfOld(s, th, m) ==
  /\ m \in 0 .. Len(s)
  /\ m # 0 => s[m] <= th
  /\ \A i \in 1 .. Len(s) : m < i => s[i] > th

LEMMA AfterIs ==
  ASSUME NEW s \in Seq(Int), NEW th \in Int
  PROVE  \E m \in 0 .. Len(s) : EndOfOld(s, th, m) /\ After(s, th) = SubSeq(s, m + 1, Len(s))
<1> DEFINE n == Len(s)
           old == {i \in 1 .. n : s[i] <= th} \union {0}
<1>1. n \in Nat /\ DOMAIN s = 1 .. n
  OBVIOUS
<1> HIDE DEF n
<1>2. old \in SUBSET (0 .. n) /\ old # {}
  BY <1>1
<1>3. Max(old) \in old /\ \A y \in old : y <= Max(old)
  <2> HIDE DEF old
  <2> QED BY <1>1, <1>2, MaxIs
<1>4. Max(old) \in 0 .. n
  BY <1>2, <1>3
<1>5. After(s, th) = SubSeq(s, Max(old) + 1, n)
  BY <1>1 DEF After, n
<1>6. \A i \in 1 .. n : Max(old) < i => s[i] > th
  <2> SUFFICES ASSUME NEW i \in 1 .. n, Max(old) < i PROVE s[i] > th
    OBVIOUS
  <2>1. i \notin old
    BY <1>3, <1>4
  <2> QED BY <1>1, <2>1 DEF n
<1>7. Max(old) # 0 => s[Max(old)] <= th
  BY <1>3
<1> HIDE DEF old
<1> QED BY <1>4, <1>5, <1>6, <1>7 DEF EndOfOld, n

(* It begins nowhere else.                                                 *)
LEMMA EndOfOldIs ==
  ASSUME NEW s \in Seq(Int), NEW th \in Int, NEW m, EndOfOld(s, th, m)
  PROVE  After(s, th) = SubSeq(s, m + 1, Len(s))
<1>1. PICK e \in 0 .. Len(s) : EndOfOld(s, th, e) /\ After(s, th) = SubSeq(s, e + 1, Len(s))
  BY AfterIs
<1>2. m \in 0 .. Len(s) /\ Len(s) \in Nat
  BY DEF EndOfOld
<1>a. \A i \in 1 .. Len(s) : s[i] \in Int
  OBVIOUS
<1>3. ~(m < e)
  <2> SUFFICES ASSUME m < e PROVE FALSE
    OBVIOUS
  <2>1. e \in 1 .. Len(s) /\ s[e] \in Int
    BY <1>2, <1>a
  <2> QED BY <1>1, <2>1 DEF EndOfOld
<1>4. ~(e < m)
  <2> SUFFICES ASSUME e < m PROVE FALSE
    OBVIOUS
  <2>1. m \in 1 .. Len(s) /\ s[m] \in Int
    BY <1>2, <1>a
  <2> QED BY <1>1, <2>1 DEF EndOfOld
<1>5. m = e
  BY <1>2, <1>3, <1>4
<1> QED BY <1>1, <1>5

(* Nothing is left of times that are all old.                              *)
LEMMA AfterAllOld ==
  ASSUME NEW s \in Seq(Int), NEW th \in Int, \A i \in 1 .. Len(s) : s[i] <= th
  PROVE  After(s, th) = <<>>
<1>1. Len(s) \in Nat
  OBVIOUS
<1>2. EndOfOld(s, th, Len(s))
  BY <1>1 DEF EndOfOld
<1>3. After(s, th) = SubSeq(s, Len(s) + 1, Len(s))
  BY <1>2, EndOfOldIs
<1> QED BY <1>1, <1>3

(* Two sequences of numbers with the same elements are one.                *)
LEMMA SameElements ==
  ASSUME NEW s \in Seq(Int), NEW t \in Seq(Int), Len(s) = Len(t),
         \A i \in 1 .. Len(s) : s[i] = t[i]
  PROVE  s = t
<1>1. s = [i \in 1 .. Len(s) |-> s[i]] /\ t = [i \in 1 .. Len(t) |-> t[i]]
  OBVIOUS
<1>2. [i \in 1 .. Len(s) |-> s[i]] = [i \in 1 .. Len(t) |-> t[i]]
  OBVIOUS
<1> QED BY <1>1, <1>2, Zenon

(* A suffix, by its elements.                                              *)
LEMMA SuffixIs ==
  ASSUME NEW s \in Seq(Int), NEW f \in 1 .. Len(s) + 1
  PROVE  /\ SubSeq(s, f, Len(s)) \in Seq(Int)
         /\ Len(SubSeq(s, f, Len(s))) = Len(s) - (f - 1)
         /\ \A i \in 1 .. Len(s) - (f - 1) : SubSeq(s, f, Len(s))[i] = s[i + (f - 1)]
<1>1. Len(s) \in Nat
  OBVIOUS
<1>2. SubSeq(s, f, Len(s)) \in Seq(Int)
  BY <1>1
<1>3. Len(SubSeq(s, f, Len(s))) = Len(s) - (f - 1)
  BY <1>1
<1>4. \A i \in 1 .. Len(s) - (f - 1) : SubSeq(s, f, Len(s))[i] = s[i + (f - 1)]
  BY <1>1
<1> QED BY <1>2, <1>3, <1>4

(* What is left of a suffix that drops old times only.                     *)
LEMMA AfterSuffix ==
  ASSUME NEW s \in Seq(Int), NEW th \in Int, NEW f \in 1 .. Len(s) + 1,
         f # 1 => s[f - 1] <= th
  PROVE  After(SubSeq(s, f, Len(s)), th) = After(s, th)
<1> DEFINE n == Len(s)
           q == SubSeq(s, f, n)
<1>1. n \in Nat /\ f \in Nat /\ \A i \in 1 .. n : s[i] \in Int
  OBVIOUS
<1>2. /\ q \in Seq(Int) /\ Len(q) = n - (f - 1)
      /\ \A i \in 1 .. n - (f - 1) : q[i] = s[i + (f - 1)]
  BY SuffixIs
<1>3. PICK m \in 0 .. n : EndOfOld(s, th, m) /\ After(s, th) = SubSeq(s, m + 1, n)
  BY AfterIs
<1> HIDE DEF q, n
<1>4. f - 1 <= m
  <2>1. ASSUME ~(f - 1 <= m) PROVE FALSE
    <3>1. f # 1 /\ f - 1 \in 1 .. n /\ m < f - 1
      BY <1>1, <2>1 DEF n
    <3>2. s[f - 1] > th /\ s[f - 1] <= th /\ s[f - 1] \in Int
      BY <1>1, <1>3, <3>1 DEF EndOfOld, n
    <3> QED BY <3>2
  <2> QED BY <2>1
<1> DEFINE e == m - (f - 1)
<1>5. e \in 0 .. Len(q) /\ e + (f - 1) = m
  BY <1>1, <1>2, <1>4
<1>6. EndOfOld(q, th, e)
  <2>1. e # 0 => q[e] <= th
    <3> SUFFICES ASSUME e # 0 PROVE q[e] <= th
      OBVIOUS
    <3>1. e \in 1 .. n - (f - 1) /\ m # 0
      BY <1>1, <1>2, <1>5
    <3>2. q[e] = s[m]
      BY <1>2, <1>5, <3>1
    <3> QED BY <1>3, <3>1, <3>2 DEF EndOfOld
  <2>2. ASSUME NEW i \in 1 .. Len(q), e < i PROVE q[i] > th
    <3>1. i + (f - 1) \in 1 .. n /\ m < i + (f - 1) /\ i \in 1 .. n - (f - 1)
      BY <1>1, <1>2, <1>5, <2>2
    <3>2. q[i] = s[i + (f - 1)]
      BY <1>2, <3>1
    <3>3. s[i + (f - 1)] > th
      BY <1>3, <3>1 DEF EndOfOld, n
    <3> QED BY <3>2, <3>3
  <2> QED BY <1>5, <2>1, <2>2 DEF EndOfOld
<1>7. After(q, th) = SubSeq(q, e + 1, Len(q))
  BY <1>2, <1>6, EndOfOldIs
<1>8. SubSeq(q, e + 1, Len(q)) = SubSeq(s, m + 1, n)
  <2> DEFINE x == SubSeq(q, e + 1, Len(q))
             y == SubSeq(s, m + 1, n)
  <2>1. e + 1 \in 1 .. Len(q) + 1 /\ m + 1 \in 1 .. Len(s) + 1
    BY <1>1, <1>2, <1>5 DEF n
  <2>2. /\ x \in Seq(Int) /\ Len(x) = Len(q) - ((e + 1) - 1)
        /\ \A i \in 1 .. Len(q) - ((e + 1) - 1) : x[i] = q[i + ((e + 1) - 1)]
    BY <1>2, <2>1, SuffixIs
  <2>3. /\ y \in Seq(Int) /\ Len(y) = n - ((m + 1) - 1)
        /\ \A i \in 1 .. n - ((m + 1) - 1) : y[i] = s[i + ((m + 1) - 1)]
    BY <2>1, SuffixIs DEF n
  <2> HIDE DEF x, y
  <2>a. (e + 1) - 1 = e /\ (m + 1) - 1 = m /\ e \in Nat /\ m \in Nat
    BY <1>5
  <2>b. /\ Len(x) = Len(q) - e /\ \A i \in 1 .. Len(q) - e : x[i] = q[i + e]
    BY <2>2, <2>a
  <2>c. /\ Len(y) = n - m /\ \A i \in 1 .. n - m : y[i] = s[i + m]
    BY <2>3, <2>a
  <2>4. Len(x) = Len(y)
    BY <1>1, <1>2, <1>5, <2>b, <2>c
  <2>5. ASSUME NEW i \in 1 .. Len(x) PROVE x[i] = y[i]
    <3>1. /\ i \in 1 .. Len(q) - e /\ i \in 1 .. n - m /\ i + e \in 1 .. n - (f - 1)
          /\ (i + e) + (f - 1) = i + m
      BY <1>1, <1>2, <1>5, <2>a, <2>b, <2>c, <2>4
    <3>2. x[i] = q[i + e] /\ y[i] = s[i + m] /\ q[i + e] = s[(i + e) + (f - 1)]
      BY <1>2, <2>b, <2>c, <3>1
    <3> QED BY <3>1, <3>2
  <2>6. x = y
    BY <2>2, <2>3, <2>4, <2>5, SameElements
  <2> QED BY <2>6 DEF x, y
<1> QED BY <1>3, <1>7, <1>8 DEF q, n

(* The same, when the window moves on.                                     *)
LEMMA AfterAfter ==
  ASSUME NEW s \in Seq(Int), NEW a \in Int, NEW b \in Int, a <= b
  PROVE  After(After(s, a), b) = After(s, b)
<1>1. PICK m \in 0 .. Len(s) : EndOfOld(s, a, m) /\ After(s, a) = SubSeq(s, m + 1, Len(s))
  BY AfterIs
<1>2. m + 1 \in 1 .. Len(s) + 1 /\ (m + 1) - 1 = m
  OBVIOUS
<1>3. m + 1 # 1 => s[(m + 1) - 1] <= b
  <2> SUFFICES ASSUME m + 1 # 1 PROVE s[m] <= b
    BY <1>2
  <2>1. m # 0 /\ m \in 1 .. Len(s)
    OBVIOUS
  <2>2. s[m] <= a /\ s[m] \in Int
    BY <1>1, <2>1 DEF EndOfOld
  <2> QED BY <2>2
<1> QED BY <1>1, <1>2, <1>3, AfterSuffix

(* What the code keeps is a suffix that drops old times only.              *)
LEMMA FreshIs ==
  ASSUME NEW s \in Seq(Int), NEW th \in Int
  PROVE  \E f \in 1 .. Len(s) + 1 : /\ Fresh(s, th) = SubSeq(s, f, Len(s))
                                    /\ f # 1 => s[f - 1] <= th
<1> DEFINE n == Len(s)
           fresh == {i \in 1 .. n : s[i] > th}
<1>1. n \in Nat /\ DOMAIN s = 1 .. n /\ \A i \in 1 .. n : s[i] \in Int
  OBVIOUS
<1> HIDE DEF n
<1>2. Fresh(s, th) = IF fresh = {} THEN <<>> ELSE SubSeq(s, Min(fresh), n)
  BY <1>1 DEF Fresh, n
<1>3. CASE fresh = {}
  <2>1. n + 1 \in 1 .. n + 1 /\ (n + 1) - 1 = n
    BY <1>1
  <2>2. SubSeq(s, n + 1, n) = <<>>
    BY <1>1
  <2>3. n # 0 => s[n] <= th
    <3> SUFFICES ASSUME n # 0 PROVE s[n] <= th
      OBVIOUS
    <3>1. n \in 1 .. n /\ n \notin fresh
      BY <1>1, <1>3
    <3>2. ~(s[n] > th) /\ s[n] \in Int
      BY <1>1, <3>1
    <3> QED BY <3>2
  <2>4. Fresh(s, th) = SubSeq(s, n + 1, n)
    BY <1>2, <1>3, <2>2
  <2>5. n + 1 # 1 => s[(n + 1) - 1] <= th
    BY <1>1, <2>1, <2>3
  <2> QED BY <2>1, <2>4, <2>5 DEF n
<1>4. CASE fresh # {}
  <2>1. fresh \subseteq Nat
    OBVIOUS
  <2>2. Min(fresh) \in fresh /\ \A y \in fresh : Min(fresh) <= y
    <3> HIDE DEF fresh
    <3> QED BY <1>4, <2>1, MinIs
  <2>3. Min(fresh) \in 1 .. n
    BY <2>2
  <2>4. ASSUME Min(fresh) # 1 PROVE s[Min(fresh) - 1] <= th
    <3>1. Min(fresh) - 1 \in 1 .. n /\ ~(Min(fresh) <= Min(fresh) - 1)
      BY <1>1, <2>3, <2>4
    <3>2. Min(fresh) - 1 \notin fresh
      BY <2>2, <3>1
    <3>3. ~(s[Min(fresh) - 1] > th) /\ s[Min(fresh) - 1] \in Int
      BY <1>1, <3>1, <3>2
    <3> QED BY <3>3
  <2>5. Min(fresh) \in 1 .. n + 1
    BY <1>1, <2>3
  <2>6. Fresh(s, th) = SubSeq(s, Min(fresh), n)
    BY <1>2, <1>4
  <2> QED BY <2>4, <2>5, <2>6 DEF n
<1> QED BY <1>3, <1>4

(* So it keeps what is in the window.                                      *)
LEMMA AfterFresh ==
  ASSUME NEW s \in Seq(Int), NEW a \in Int, NEW b \in Int, a <= b
  PROVE  After(Fresh(s, a), b) = After(s, b)
<1>1. PICK f \in 1 .. Len(s) + 1 : /\ Fresh(s, a) = SubSeq(s, f, Len(s))
                                   /\ f # 1 => s[f - 1] <= a
  BY FreshIs
<1>2. ASSUME f # 1 PROVE s[f - 1] <= b
  <2>1. f - 1 \in 1 .. Len(s)
    BY <1>2
  <2>2. s[f - 1] \in Int /\ s[f - 1] <= a
    BY <1>1, <1>2, <2>1
  <2> QED BY <2>2
<1> QED BY <1>1, <1>2, AfterSuffix

(* One time more.                                                          *)
LEMMA AfterAppend ==
  ASSUME NEW s \in Seq(Int), NEW th \in Int, NEW c \in Int
  PROVE  After(Append(s, c), th) = IF c <= th THEN <<>> ELSE Append(After(s, th), c)
<1> DEFINE n == Len(s)
           w == Append(s, c)
<1>1. n \in Nat /\ \A i \in 1 .. n : s[i] \in Int
  OBVIOUS
<1>2. /\ w \in Seq(Int) /\ Len(w) = n + 1 /\ w[n + 1] = c /\ \A i \in 1 .. n : w[i] = s[i]
  OBVIOUS
<1>3. PICK m \in 0 .. n : EndOfOld(s, th, m) /\ After(s, th) = SubSeq(s, m + 1, n)
  BY AfterIs
<1> HIDE DEF w, n
<1>4. CASE c <= th
  <2>1. n + 1 \in 0 .. Len(w) /\ w[n + 1] <= th
    BY <1>1, <1>2, <1>4
  <2>2. \A i \in 1 .. Len(w) : n + 1 < i => w[i] > th
    BY <1>1, <1>2
  <2>3. EndOfOld(w, th, n + 1)
    BY <2>1, <2>2 DEF EndOfOld
  <2>4. After(w, th) = SubSeq(w, (n + 1) + 1, n + 1)
    BY <1>2, <2>3, EndOfOldIs
  <2>5. SubSeq(w, (n + 1) + 1, n + 1) = <<>>
    BY <1>1
  <2> QED BY <1>4, <2>4, <2>5 DEF w
<1>5. CASE c > th
  <2>1. EndOfOld(w, th, m)
    <3>1. m \in 0 .. Len(w)
      BY <1>1, <1>2
    <3>2. m # 0 => w[m] <= th
      BY <1>1, <1>2, <1>3 DEF EndOfOld, n
    <3>3. ASSUME NEW i \in 1 .. Len(w), m < i PROVE w[i] > th
      <4>1. i \in 1 .. n \/ i = n + 1
        BY <1>1, <1>2
      <4>2. CASE i \in 1 .. n
        BY <1>2, <1>3, <3>3, <4>2 DEF EndOfOld, n
      <4>3. CASE i = n + 1
        BY <1>2, <1>5, <4>3
      <4> QED BY <4>1, <4>2, <4>3
    <3> QED BY <3>1, <3>2, <3>3 DEF EndOfOld
  <2> DEFINE x == SubSeq(w, m + 1, Len(w))
             y == SubSeq(s, m + 1, n)
  <2>2. After(w, th) = x
    BY <1>2, <2>1, EndOfOldIs
  <2>3. m + 1 \in 1 .. Len(w) + 1 /\ m + 1 \in 1 .. n + 1 /\ (m + 1) - 1 = m /\ m \in Nat
    BY <1>1, <1>2
  <2>4. /\ x \in Seq(Int) /\ Len(x) = Len(w) - ((m + 1) - 1)
        /\ \A i \in 1 .. Len(w) - ((m + 1) - 1) : x[i] = w[i + ((m + 1) - 1)]
    BY <1>2, <2>3, SuffixIs
  <2>5. /\ y \in Seq(Int) /\ Len(y) = n - ((m + 1) - 1)
        /\ \A i \in 1 .. n - ((m + 1) - 1) : y[i] = s[i + ((m + 1) - 1)]
    BY <2>3, SuffixIs DEF n
  <2> HIDE DEF x, y
  <2>6. /\ Len(x) = (n - m) + 1 /\ \A i \in 1 .. (n - m) + 1 : x[i] = w[i + m]
    <3>1. Len(w) - ((m + 1) - 1) = (n - m) + 1
      BY <1>1, <1>2, <2>3
    <3> QED BY <2>3, <2>4, <3>1
  <2>7. /\ Len(y) = n - m /\ \A i \in 1 .. n - m : y[i] = s[i + m]
    BY <2>3, <2>5
  <2>8. /\ Append(y, c) \in Seq(Int) /\ Len(Append(y, c)) = (n - m) + 1
        /\ \A i \in 1 .. n - m : Append(y, c)[i] = y[i]
        /\ Append(y, c)[(n - m) + 1] = c
    <3>1. /\ Append(y, c) \in Seq(Int) /\ Len(Append(y, c)) = Len(y) + 1
          /\ \A i \in 1 .. Len(y) : Append(y, c)[i] = y[i]
          /\ Append(y, c)[Len(y) + 1] = c
      BY <2>5
    <3> QED BY <2>7, <3>1
  <2>9. ASSUME NEW i \in 1 .. (n - m) + 1 PROVE x[i] = Append(y, c)[i]
    <3>1. i \in 1 .. n - m \/ i = (n - m) + 1
      BY <1>1, <2>3
    <3>2. CASE i \in 1 .. n - m
      <4>1. i + m \in 1 .. n
        BY <1>1, <2>3, <3>2
      <4> QED BY <1>2, <2>6, <2>7, <2>8, <3>2, <4>1
    <3>3. CASE i = (n - m) + 1
      <4>1. i + m = n + 1
        BY <1>1, <2>3, <3>3
      <4> QED BY <1>2, <2>6, <2>8, <3>3, <4>1
    <3> QED BY <3>1, <3>2, <3>3
  <2>10. x = Append(y, c)
    BY <2>4, <2>6, <2>8, <2>9, SameElements
  <2>11. ~(c <= th)
    BY <1>5
  <2> QED BY <1>3, <2>2, <2>10, <2>11 DEF w, y, n
<1> QED BY <1>4, <1>5

(* The last time stays as long as it is in the window, and it stays last.  *)
LEMMA LastStays ==
  ASSUME NEW s \in Seq(Int), NEW th \in Int, Len(s) # 0, s[Len(s)] > th
  PROVE  /\ Len(After(s, th)) # 0 /\ After(s, th) \in Seq(Int)
         /\ After(s, th)[Len(After(s, th))] = s[Len(s)]
<1> DEFINE n == Len(s)
<1>1. n \in Nat /\ n \in 1 .. n /\ s[n] \in Int
  OBVIOUS
<1>2. PICK m \in 0 .. n : EndOfOld(s, th, m) /\ After(s, th) = SubSeq(s, m + 1, n)
  BY AfterIs
<1>3. m # n
  BY <1>1, <1>2 DEF EndOfOld
<1>4. m + 1 \in 1 .. n + 1 /\ (m + 1) - 1 = m /\ n - m \in 1 .. n - m /\ (n - m) + m = n
  BY <1>1, <1>3
<1>5. /\ SubSeq(s, m + 1, n) \in Seq(Int) /\ Len(SubSeq(s, m + 1, n)) = n - ((m + 1) - 1)
      /\ \A i \in 1 .. n - ((m + 1) - 1) : SubSeq(s, m + 1, n)[i] = s[i + ((m + 1) - 1)]
  BY <1>4, SuffixIs
<1> HIDE DEF n
<1>6. Len(After(s, th)) = n - m /\ n - m # 0 /\ After(s, th) \in Seq(Int)
  BY <1>1, <1>2, <1>4, <1>5
<1>7. After(s, th)[n - m] = s[n]
  BY <1>2, <1>4, <1>5
<1> QED BY <1>6, <1>7 DEF n

(* Times are numbers.                                                      *)
LEMMA TimesAre ==
  /\ Times \subseteq Nat /\ \A s \in Seq(Times) : s \in Seq(Int) /\ Len(s) \in Nat
  /\ \A s \in Seq(Times) : \A i \in 1 .. Len(s) : s[i] \in Times /\ s[i] \in Nat
BY LoginLimiterAssumption DEF Times

(* What is left of times are times, all later than the threshold and all   *)
(* among those there were.                                                 *)
LEMMA AfterOf ==
  ASSUME NEW s \in Seq(Times), NEW th \in Int
  PROVE  /\ After(s, th) \in Seq(Times) /\ Len(After(s, th)) <= Len(s)
         /\ \A i \in 1 .. Len(After(s, th)) : After(s, th)[i] > th
<1>1. s \in Seq(Int) /\ Len(s) \in Nat
  BY TimesAre
<1>2. PICK m \in 0 .. Len(s) : EndOfOld(s, th, m) /\ After(s, th) = SubSeq(s, m + 1, Len(s))
  BY <1>1, AfterIs
<1>3. m + 1 \in 1 .. Len(s) + 1 /\ (m + 1) - 1 = m
  BY <1>1
<1>4. SubSeq(s, m + 1, Len(s)) \in Seq(Times)
  BY <1>1, <1>3
<1>5. /\ Len(SubSeq(s, m + 1, Len(s))) = Len(s) - m
      /\ \A i \in 1 .. Len(s) - m : SubSeq(s, m + 1, Len(s))[i] = s[i + m]
  BY <1>1, <1>3, SuffixIs
<1>6. ASSUME NEW i \in 1 .. Len(s) - m PROVE s[i + m] > th
  <2>1. i + m \in 1 .. Len(s) /\ m < i + m
    BY <1>1
  <2> QED BY <1>2, <2>1 DEF EndOfOld
<1>7. Len(After(s, th)) = Len(s) - m /\ m \in Nat
  BY <1>2, <1>5
<1>8. \A i \in 1 .. Len(s) - m : After(s, th)[i] > th
  BY <1>2, <1>5, <1>6
<1>9. Len(s) - m <= Len(s)
  BY <1>1, <1>7
<1> QED BY <1>2, <1>4, <1>7, <1>8, <1>9

(* What the code keeps are times there were.                               *)
LEMMA FreshOf ==
  ASSUME NEW s \in Seq(Times), NEW th \in Int
  PROVE  /\ Fresh(s, th) \in Seq(Times) /\ Len(Fresh(s, th)) <= Len(s)
         /\ \A i \in 1 .. Len(Fresh(s, th)) : \E j \in 1 .. Len(s) : Fresh(s, th)[i] = s[j]
<1>1. s \in Seq(Int) /\ Len(s) \in Nat
  BY TimesAre
<1>2. PICK f \in 1 .. Len(s) + 1 : Fresh(s, th) = SubSeq(s, f, Len(s))
  BY <1>1, FreshIs
<1>3. SubSeq(s, f, Len(s)) \in Seq(Times)
  BY <1>1
<1>4. /\ Len(SubSeq(s, f, Len(s))) = Len(s) - (f - 1)
      /\ \A i \in 1 .. Len(s) - (f - 1) : SubSeq(s, f, Len(s))[i] = s[i + (f - 1)]
  BY <1>1, SuffixIs
<1>5. ASSUME NEW i \in 1 .. Len(s) - (f - 1) PROVE i + (f - 1) \in 1 .. Len(s)
  BY <1>1
<1> QED BY <1>1, <1>2, <1>3, <1>4, <1>5

-----------------------------------------------------------------------------
(* Tables.                                                                 *)

Tables == [before : SUBSET (Keys \X Keys), bucket : UNION {[D -> Buckets] : D \in SUBSET Keys}]
Sound(tab) == tab \in Tables /\ Ordered(tab) /\ IsFiniteSet(DOMAIN tab.bucket)

(* The parts of a table.                                                   *)
LEMMA TableIs ==
  ASSUME NEW tab \in Tables
  PROVE  /\ tab = [before |-> tab.before, bucket |-> tab.bucket]
         /\ DOMAIN tab.bucket \subseteq Keys /\ tab.bucket \in [DOMAIN tab.bucket -> Buckets]
         /\ tab.before \subseteq Keys \X Keys
BY DEF Tables

LEMMA TableOf ==
  ASSUME NEW D \in SUBSET Keys, NEW b \in [D -> Buckets], NEW before \in SUBSET (Keys \X Keys)
  PROVE  [before |-> before, bucket |-> b] \in Tables
BY DEF Tables

(* Without some keys the rest of a table is what it was.                   *)
LEMMA WithoutIs ==
  ASSUME NEW tab, Sound(tab), NEW S
  PROVE  /\ Sound(Without(tab, S))
         /\ DOMAIN Without(tab, S).bucket = (DOMAIN tab.bucket) \ S
         /\ \A k \in (DOMAIN tab.bucket) \ S : Without(tab, S).bucket[k] = tab.bucket[k]
         /\ \A j, k \in (DOMAIN tab.bucket) \ S :
               <<j, k>> \in Without(tab, S).before <=> <<j, k>> \in tab.before
<1> DEFINE D == DOMAIN tab.bucket
           w == Without(tab, S)
<1>1. tab \in Tables /\ Ordered(tab) /\ IsFiniteSet(D)
  BY DEF Sound
<1>2. D \subseteq Keys /\ tab.bucket \in [D -> Buckets] /\ tab.before \subseteq Keys \X Keys
  BY <1>1, TableIs
<1>3. /\ w.before = {p \in tab.before : p[1] \notin S /\ p[2] \notin S}
      /\ w.bucket = [k \in D \ S |-> tab.bucket[k]]
      /\ w = [before |-> w.before, bucket |-> w.bucket]
  BY DEF Without
<1> HIDE DEF w, D
<1>4. w.bucket \in [D \ S -> Buckets] /\ DOMAIN w.bucket = D \ S
      /\ \A k \in D \ S : w.bucket[k] = tab.bucket[k]
  BY <1>2, <1>3
<1>5. w \in Tables
  <2>1. D \ S \in SUBSET Keys /\ w.before \in SUBSET (Keys \X Keys)
    BY <1>2, <1>3
  <2> QED BY <1>3, <1>4, <2>1, TableOf
<1>6. \A j, k \in D \ S : <<j, k>> \in w.before <=> <<j, k>> \in tab.before
  BY <1>3
<1>7. Ordered(w)
  <2>1. w.before \subseteq (D \ S) \X (D \ S)
    BY <1>1, <1>3 DEF Ordered, D
  <2>2. \A j, k \in D \ S : <<j, k>> \in w.before <=> j # k /\ <<k, j>> \notin w.before
    BY <1>1, <1>6 DEF Ordered, D
  <2>3. \A i, j, k \in D \ S :
          <<i, j>> \in w.before /\ <<j, k>> \in w.before => <<i, k>> \in w.before
    BY <1>1, <1>6 DEF Ordered, D
  <2> QED BY <1>4, <2>1, <2>2, <2>3 DEF Ordered
<1>8. IsFiniteSet(D \ S)
  BY <1>1, FS_Difference
<1> QED BY <1>4, <1>5, <1>6, <1>7, <1>8 DEF Sound, w, D

(* Another bucket for a key.                                               *)
LEMMA PutIs ==
  ASSUME NEW tab, Sound(tab), NEW key \in DOMAIN tab.bucket, NEW b \in Buckets
  PROVE  /\ Sound([tab EXCEPT !.bucket[key] = b])
         /\ [tab EXCEPT !.bucket[key] = b].before = tab.before
         /\ [tab EXCEPT !.bucket[key] = b].bucket = [tab.bucket EXCEPT ![key] = b]
         /\ DOMAIN [tab EXCEPT !.bucket[key] = b].bucket = DOMAIN tab.bucket
<1> DEFINE w == [tab EXCEPT !.bucket[key] = b]
           D == DOMAIN tab.bucket
<1>1. tab \in Tables /\ Ordered(tab) /\ IsFiniteSet(D)
  BY DEF Sound
<1>2. /\ D \subseteq Keys /\ tab.bucket \in [D -> Buckets] /\ tab.before \subseteq Keys \X Keys
      /\ tab = [before |-> tab.before, bucket |-> tab.bucket]
  BY <1>1, TableIs
<1>3. w = [before |-> tab.before, bucket |-> [tab.bucket EXCEPT ![key] = b]]
  BY <1>2
<1> HIDE DEF w
<1>4. w.before = tab.before /\ w.bucket = [tab.bucket EXCEPT ![key] = b]
  BY <1>3
<1>5. w.bucket \in [D -> Buckets] /\ DOMAIN w.bucket = D
  BY <1>2, <1>4
<1>6. w \in Tables
  BY <1>2, <1>3, <1>4, <1>5, TableOf
<1>7. Ordered(w)
  BY <1>1, <1>4, <1>5 DEF Ordered
<1> QED BY <1>1, <1>4, <1>5, <1>6, <1>7 DEF Sound, w

(* A key at the end: every other one is before it.                         *)
LEMMA OrderedWithLast ==
  ASSUME NEW tab, NEW key, NEW rest, Ordered(rest),
         DOMAIN tab.bucket = (DOMAIN rest.bucket) \union {key}, key \notin DOMAIN rest.bucket,
         tab.before = rest.before \union ((DOMAIN rest.bucket) \X {key})
  PROVE  Ordered(tab)
<1> DEFINE D == DOMAIN tab.bucket
           R == DOMAIN rest.bucket
<1>1. /\ rest.before \subseteq R \X R
      /\ \A j, k \in R : <<j, k>> \in rest.before <=> j # k /\ <<k, j>> \notin rest.before
      /\ \A i, j, k \in R :
           <<i, j>> \in rest.before /\ <<j, k>> \in rest.before => <<i, k>> \in rest.before
  BY DEF Ordered
<1>2. D = R \union {key} /\ key \notin R /\ tab.before = rest.before \union (R \X {key})
  OBVIOUS
<1> HIDE DEF D, R
<1>3. tab.before \subseteq D \X D
  BY <1>1, <1>2
<1>4. \A j, k \in R : <<j, k>> \in tab.before <=> <<j, k>> \in rest.before
  BY <1>1, <1>2
<1>5. \A j \in R : <<j, key>> \in tab.before /\ <<key, j>> \notin tab.before
  BY <1>1, <1>2
<1>6. <<key, key>> \notin tab.before
  BY <1>1, <1>2
<1>7. ASSUME NEW j \in D, NEW k \in D
      PROVE  <<j, k>> \in tab.before <=> j # k /\ <<k, j>> \notin tab.before
  <2>1. CASE j \in R /\ k \in R
    BY <1>1, <1>4, <2>1
  <2>2. CASE j = key \/ k = key
    BY <1>2, <1>5, <1>6, <2>2
  <2> QED BY <1>2, <2>1, <2>2
<1>8. ASSUME NEW i \in D, NEW j \in D, NEW k \in D, <<i, j>> \in tab.before, <<j, k>> \in tab.before
      PROVE  <<i, k>> \in tab.before
  <2>1. i \in R /\ j \in R
    BY <1>2, <1>5, <1>6, <1>8
  <2>2. CASE k \in R
    BY <1>1, <1>4, <1>8, <2>1, <2>2
  <2>3. CASE k = key
    BY <1>5, <2>1, <2>3
  <2> QED BY <1>2, <2>2, <2>3
<1> QED BY <1>3, <1>7, <1>8 DEF Ordered, D

(* A key that is used becomes the last.                                    *)
LEMMA MovedIs ==
  ASSUME NEW tab, Sound(tab), NEW key \in DOMAIN tab.bucket
  PROVE  /\ Sound(MovedToEnd(tab, key)) /\ MovedToEnd(tab, key).bucket = tab.bucket
         /\ \A j \in (DOMAIN tab.bucket) \ {key} : <<key, j>> \notin MovedToEnd(tab, key).before
         /\ \A j, k \in (DOMAIN tab.bucket) \ {key} :
               <<j, k>> \in MovedToEnd(tab, key).before <=> <<j, k>> \in tab.before
<1> DEFINE D == DOMAIN tab.bucket
           w == MovedToEnd(tab, key)
           rest == Without(tab, {key})
<1>1. tab \in Tables /\ Ordered(tab) /\ IsFiniteSet(D)
  BY DEF Sound
<1>2. /\ D \subseteq Keys /\ tab.bucket \in [D -> Buckets] /\ tab.before \subseteq Keys \X Keys
      /\ tab = [before |-> tab.before, bucket |-> tab.bucket]
  BY <1>1, TableIs
<1>3. w = [before |-> {p \in tab.before : p[1] # key /\ p[2] # key} \union ((D \ {key}) \X {key}),
           bucket |-> tab.bucket]
  BY <1>2 DEF MovedToEnd
<1>4. /\ Sound(rest) /\ DOMAIN rest.bucket = D \ {key}
      /\ \A j, k \in D \ {key} : <<j, k>> \in rest.before <=> <<j, k>> \in tab.before
  BY WithoutIs
<1>5. rest.before = {p \in tab.before : p[1] # key /\ p[2] # key}
  BY DEF Without
<1> HIDE DEF w, rest, D
<1>6. w.bucket = tab.bucket /\ w.before = rest.before \union ((DOMAIN rest.bucket) \X {key})
  BY <1>3, <1>4, <1>5
<1>7. DOMAIN w.bucket = (DOMAIN rest.bucket) \union {key} /\ key \notin DOMAIN rest.bucket
  BY <1>4, <1>6 DEF D
<1>8. Ordered(w)
  BY <1>4, <1>6, <1>7, OrderedWithLast DEF Sound
<1>9. w \in Tables
  <2>1. w.before \in SUBSET (Keys \X Keys)
    BY <1>2, <1>3 DEF D
  <2>2. w = [before |-> w.before, bucket |-> tab.bucket] /\ D \in SUBSET Keys
    BY <1>2, <1>3
  <2> QED BY <1>2, <2>1, <2>2, TableOf
<1>10. \A j, k \in D \ {key} : <<j, k>> \in w.before <=> <<j, k>> \in tab.before
  BY <1>4, <1>6
<1>11. \A j \in D \ {key} : <<key, j>> \notin w.before
  BY <1>3, <1>5, <1>6
<1> QED BY <1>1, <1>6, <1>8, <1>9, <1>10, <1>11 DEF Sound, w, D

(* What goes from a full table is one key, and no other is before it.      *)
LEMMA EvictedIs ==
  ASSUME NEW tab, Sound(tab), IsFull(tab)
  PROVE  \E e \in DOMAIN tab.bucket :
            Evicted(tab) = {e} /\ \A j \in (DOMAIN tab.bucket) \ {e} : <<e, j>> \in tab.before
<1> DEFINE D == DOMAIN tab.bucket
           Those(k) == {j \in D : <<j, k>> \in tab.before}
           T == {Cardinality(Those(k)) : k \in D}
<1>1. IsFiniteSet(D) /\ D # {}
  <2>1. IsFiniteSet(D) /\ Cardinality(D) >= MaxKeys
    BY DEF Sound, IsFull
  <2>2. Cardinality(D) # 0
    BY <2>1, LoginLimiterAssumption, FS_CardinalityType
  <2> QED BY <2>1, <2>2, FS_EmptySet
<1>2. /\ \A j, k \in D : <<j, k>> \in tab.before <=> j # k /\ <<k, j>> \notin tab.before
      /\ \A i, j, k \in D :
           <<i, j>> \in tab.before /\ <<j, k>> \in tab.before => <<i, k>> \in tab.before
  BY DEF Sound, Ordered
<1> HIDE DEF D
<1>3. ASSUME NEW k \in D PROVE IsFiniteSet(Those(k)) /\ Cardinality(Those(k)) \in Nat
  <2>1. Those(k) \in SUBSET D
    OBVIOUS
  <2> HIDE DEF Those
  <2> QED BY <1>1, <2>1, FS_Subset, FS_CardinalityType
<1>4. T \subseteq Nat /\ T # {}
  <2> HIDE DEF Those
  <2> QED BY <1>1, <1>3
<1>5. PICK x \in T : \A y \in T : x <= y
  <2> HIDE DEF T
  <2> QED BY <1>4, LeastOf
<1>6. PICK e \in D : x = Cardinality(Those(e))
  OBVIOUS
<1>7. ASSUME NEW j \in D PROVE <<j, e>> \notin tab.before
  <2> SUFFICES ASSUME <<j, e>> \in tab.before PROVE FALSE
    OBVIOUS
  <2>1. Those(j) \in SUBSET Those(e)
    BY <1>2
  <2>2. j \in Those(e) /\ j \notin Those(j)
    BY <1>2
  <2>3. Cardinality(Those(e)) <= Cardinality(Those(j))
    BY <1>5, <1>6
  <2> HIDE DEF Those
  <2>4. /\ Cardinality(Those(j)) <= Cardinality(Those(e))
        /\ Cardinality(Those(e)) = Cardinality(Those(j)) => Those(e) = Those(j)
    BY <1>3, <2>1, FS_Subset
  <2>5. Cardinality(Those(e)) = Cardinality(Those(j))
    BY <1>3, <2>3, <2>4
  <2> QED BY <2>2, <2>4, <2>5
<1>8. \A j \in D \ {e} : <<e, j>> \in tab.before
  BY <1>2, <1>7
<1>9. Evicted(tab) = {e}
  <2>1. Evicted(tab) = {k \in D : \A j \in D : <<j, k>> \notin tab.before}
    BY DEF Evicted, D
  <2>2. ASSUME NEW k \in D, k # e PROVE <<e, k>> \in tab.before
    BY <1>8, <2>2
  <2>3. ASSUME NEW k \in Evicted(tab) PROVE k = e
    BY <2>1, <2>2
  <2>4. e \in Evicted(tab)
    BY <1>7, <2>1
  <2> QED BY <2>3, <2>4
<1> QED BY <1>8, <1>9 DEF D

Bounded(tab) == Cardinality(DOMAIN tab.bucket) <= MaxKeys

(* What goes when a key is used: nothing if it is there.                   *)
Gone(tab, key) == IF key \in DOMAIN tab.bucket THEN {} ELSE Evicted(tab)

(* The bucket of a key in use is there, the others are what they were.     *)
LEMMA CreatedIs ==
  ASSUME NEW tab, Sound(tab), Bounded(tab), NEW key \in Keys, NEW time \in Times
  PROVE  LET w == Created(tab, key, time) IN
         /\ Sound(w) /\ Bounded(w)
         /\ DOMAIN w.bucket = ((DOMAIN tab.bucket) \ Gone(tab, key)) \union {key}
         /\ key \notin Gone(tab, key) /\ Gone(tab, key) \subseteq DOMAIN tab.bucket
         /\ key \in DOMAIN tab.bucket => w.bucket[key] = tab.bucket[key]
         /\ key \notin DOMAIN tab.bucket => w.bucket[key] = NewBucket(time)
         /\ \A k \in (DOMAIN w.bucket) \ {key} : w.bucket[k] = tab.bucket[k]
         /\ \A j \in (DOMAIN w.bucket) \ {key} : <<key, j>> \notin w.before
         /\ \A j, k \in (DOMAIN w.bucket) \ {key} :
               <<j, k>> \in w.before <=> <<j, k>> \in tab.before
<1> DEFINE D == DOMAIN tab.bucket
           w == Created(tab, key, time)
<1>1. CASE key \in D
  <2>1. w = MovedToEnd(tab, key) /\ Gone(tab, key) = {}
    BY <1>1 DEF Created, Gone
  <2> HIDE DEF w
  <2> QED BY <1>1, <2>1, MovedIs DEF Bounded, w
<1>2. CASE key \notin D
  <2> DEFINE gone == Evicted(tab)
             rest == Without(tab, gone)
  <2>1. gone \subseteq D /\ Gone(tab, key) = gone
    BY <1>2 DEF Evicted, Gone
  <2>2. /\ Sound(rest) /\ DOMAIN rest.bucket = D \ gone
        /\ \A k \in D \ gone : rest.bucket[k] = tab.bucket[k]
        /\ \A j, k \in D \ gone : <<j, k>> \in rest.before <=> <<j, k>> \in tab.before
    BY WithoutIs
  <2>3. w = [before |-> rest.before \union ((DOMAIN rest.bucket) \X {key}),
             bucket |-> [k \in (DOMAIN rest.bucket) \union {key} |->
                           IF k = key THEN NewBucket(time) ELSE rest.bucket[k]]]
    BY <1>2 DEF Created
  <2>4. Cardinality(D \ gone) + 1 <= MaxKeys
    <3>1. IsFiniteSet(D) /\ Cardinality(D) \in Nat /\ Cardinality(D) <= MaxKeys /\ MaxKeys \in Nat
      BY LoginLimiterAssumption, FS_CardinalityType DEF Sound, Bounded
    <3>2. CASE IsFull(tab)
      <4>1. PICK e \in D : gone = {e}
        BY <3>2, EvictedIs
      <4>2. Cardinality(D \ {e}) = Cardinality(D) - 1
        BY <3>1, FS_RemoveElement
      <4> QED BY <3>1, <4>1, <4>2
    <3>3. CASE ~IsFull(tab)
      <4>1. gone = {} /\ D \ {} = D
        BY <3>3 DEF Evicted
      <4>2. ~(Cardinality(D) >= MaxKeys)
        BY <3>3 DEF IsFull
      <4> QED BY <3>1, <4>1, <4>2
    <3> QED BY <3>2, <3>3
  <2> HIDE DEF gone, rest, w, D
  <2>5. rest \in Tables /\ Ordered(rest) /\ IsFiniteSet(D \ gone)
    BY <2>2 DEF Sound
  <2>6. /\ D \ gone \subseteq Keys /\ rest.bucket \in [D \ gone -> Buckets]
        /\ rest.before \subseteq Keys \X Keys
    BY <2>2, <2>5, TableIs
  <2>7. NewBucket(time) \in Buckets
    BY LoginLimiterAssumption DEF NewBucket, Buckets, Times
  <2>8. /\ w.bucket \in [(D \ gone) \union {key} -> Buckets]
        /\ DOMAIN w.bucket = (D \ gone) \union {key}
        /\ w.bucket[key] = NewBucket(time)
        /\ \A k \in D \ gone : w.bucket[k] = tab.bucket[k]
    <3>1. w.bucket = [k \in (D \ gone) \union {key} |->
                        IF k = key THEN NewBucket(time) ELSE rest.bucket[k]]
      BY <2>2, <2>3
    <3>2. key \notin D \ gone
      BY <1>2
    <3> QED BY <2>2, <2>6, <2>7, <3>1, <3>2
  <2>9. w.before = rest.before \union ((D \ gone) \X {key})
    BY <2>2, <2>3
  <2>10. w \in Tables
    <3>1. (D \ gone) \union {key} \in SUBSET Keys /\ w.before \in SUBSET (Keys \X Keys)
      BY <2>6, <2>9
    <3>2. w = [before |-> w.before, bucket |-> w.bucket]
      BY <2>3
    <3> QED BY <2>8, <3>1, <3>2, TableOf
  <2>11. key \notin D \ gone
    BY <1>2
  <2>12. Ordered(w)
    BY <2>2, <2>5, <2>8, <2>9, <2>11, OrderedWithLast
  <2>13. /\ IsFiniteSet((D \ gone) \union {key})
         /\ Cardinality((D \ gone) \union {key}) = Cardinality(D \ gone) + 1
    BY <2>5, <2>11, FS_AddElement
  <2>14. Sound(w) /\ Bounded(w)
    BY <2>4, <2>8, <2>10, <2>12, <2>13 DEF Sound, Bounded
  <2>15. (DOMAIN w.bucket) \ {key} = D \ gone
    BY <2>8, <2>11
  <2>16. \A j \in D \ gone : <<key, j>> \notin w.before
    <3>1. rest.before \subseteq (D \ gone) \X (D \ gone)
      BY <2>2, <2>5 DEF Ordered
    <3> QED BY <2>9, <2>11, <3>1
  <2>17. \A j, k \in D \ gone : <<j, k>> \in w.before <=> <<j, k>> \in tab.before
    BY <2>2, <2>9, <2>11
  <2>18. key \notin gone
    BY <1>2, <2>1
  <2> QED BY <1>2, <2>1, <2>8, <2>14, <2>15, <2>16, <2>17, <2>18 DEF D, w
<1> QED BY <1>1, <1>2

-----------------------------------------------------------------------------
(* A bucket and what is known of its key, at the time n.                   *)

(* The times in the window are the last of those recorded.                 *)
Ends(r, th) == \A i, j \in 1 .. Len(r) : i < j /\ r[i] > th => r[j] > th

Since(n, k) == n - Rule(k).window

Kept(n, k, b, r, p, X) ==
  /\ k \notin X => /\ After(r, Since(n, k)) = After(b.attempts, Since(n, k))
                   /\ Ends(r, Since(n, k))
                   /\ \A i \in 1 .. Len(b.attempts) : b.attempts[i] <= b.seen
  /\ p > n => b.until >= p
  /\ k[1] \in QuotaDimensions => Len(b.attempts) <= Rule(k).limit

Absent(n, k, r, p, X) ==
  /\ k \notin X => After(r, Since(n, k)) = <<>> /\ Ends(r, Since(n, k))
  /\ ~(p > n)

Promises == 0 .. MaxTime + BackoffMax

(* The parts of buckets and rules.                                         *)
LEMMA BucketIs ==
  ASSUME NEW b \in Buckets
  PROVE  /\ b.attempts \in Seq(Times) /\ b.attempts \in Seq(Int) /\ Len(b.attempts) \in Nat
         /\ b.until \in Promises /\ b.until \in Nat /\ b.seen \in Times /\ b.seen \in Nat
         /\ b = [attempts |-> b.attempts, until |-> b.until, seen |-> b.seen]
         /\ \A i \in 1 .. Len(b.attempts) : b.attempts[i] \in Nat
<1>1. b.attempts \in Seq(Times) /\ b.until \in Promises /\ b.seen \in Times
  BY DEF Buckets, Promises
<1>2. b = [attempts |-> b.attempts, until |-> b.until, seen |-> b.seen]
  BY DEF Buckets
<1>3. b.until \in Nat
  BY <1>1, LoginLimiterAssumption DEF Promises
<1> QED BY <1>1, <1>2, <1>3, TimesAre

LEMMA RuleIs ==
  ASSUME NEW k, k[1] \in LoginDimensions \union QuotaDimensions
  PROVE  /\ Rule(k).limit \in Nat \ {0} /\ Rule(k).window \in Nat \ {0}
         /\ Rule(k).window <= TTL /\ TTL \in Nat
         /\ \A n \in Int : Since(n, k) \in Int /\ Since(n, k) < n
<1>1. Rule(k) \in [limit : Nat \ {0}, window : Nat \ {0}] /\ k[1] \in DOMAIN Rules
  BY LoginLimiterAssumption DEF Rule
<1>2. Rule(k).window \in Nat \ {0} /\ Rule(k).limit \in Nat \ {0}
  BY <1>1
<1>3. Rule(k).window <= TTL /\ TTL \in Nat
  BY <1>1, LoginLimiterAssumption DEF Rule
<1> QED BY <1>2, <1>3 DEF Since

(* A bucket that is pruned at an earlier time, or now.                     *)
LEMMA PrunedKept ==
  ASSUME NEW n \in Nat, NEW k, k[1] \in LoginDimensions \union QuotaDimensions,
         NEW b \in Buckets, NEW r \in Seq(Times), NEW p \in Promises, NEW X,
         Kept(n, k, b, r, p, X), NEW c \in Times, c <= n
  PROVE  /\ Pruned(b, k, c) \in Buckets /\ Kept(n, k, Pruned(b, k, c), r, p, X)
         /\ Pruned(b, k, c).seen = b.seen
         /\ Len(Pruned(b, k, c).attempts) <= Len(b.attempts)
<1> DEFINE fresh == Fresh(b.attempts, c - Rule(k).window)
           w == Pruned(b, k, c)
           th == Since(n, k)
<1>1. /\ b.attempts \in Seq(Times) /\ b.attempts \in Seq(Int) /\ Len(b.attempts) \in Nat
      /\ b.until \in Promises /\ b.until \in Nat /\ b.seen \in Times /\ b.seen \in Nat
      /\ b = [attempts |-> b.attempts, until |-> b.until, seen |-> b.seen]
  BY BucketIs
<1>2. c \in Nat /\ c - Rule(k).window \in Int /\ c - Rule(k).window <= th /\ th \in Int
  <2>1. Rule(k).window \in Nat /\ th = n - Rule(k).window
    BY RuleIs DEF Since
  <2>2. c \in Nat
    BY TimesAre
  <2> QED BY <2>1, <2>2
<1>3. /\ fresh \in Seq(Times) /\ Len(fresh) <= Len(b.attempts) /\ Len(fresh) \in Nat
      /\ \A i \in 1 .. Len(fresh) : \E j \in 1 .. Len(b.attempts) : fresh[i] = b.attempts[j]
  BY <1>1, <1>2, FreshOf, TimesAre
<1>4. After(fresh, th) = After(b.attempts, th)
  BY <1>1, <1>2, AfterFresh
<1>5. w = [attempts |-> fresh, until |-> IF fresh = <<>> /\ b.until <= c THEN 0 ELSE b.until,
           seen |-> b.seen]
  <2>1. w = [b EXCEPT !.attempts = fresh, !.until = IF fresh = <<>> /\ @ <= c THEN 0 ELSE @]
    BY DEF Pruned
  <2> HIDE DEF fresh, w
  <2> QED BY <1>1, <2>1
<1> HIDE DEF fresh, th, w
<1>6. /\ w.attempts = fresh /\ w.seen = b.seen
      /\ w.until = IF fresh = <<>> /\ b.until <= c THEN 0 ELSE b.until
  BY <1>5
<1>7. w \in Buckets
  <2>1. 0 \in Promises
    BY LoginLimiterAssumption DEF Promises
  <2>2. w.until \in Promises
    BY <1>1, <1>6, <2>1
  <2> QED BY <1>1, <1>3, <1>5, <1>6, <2>2 DEF Buckets, Promises
<1>8. p > n => w.until >= p
  <2>1. p \in Nat /\ (p > n => b.until >= p)
    BY LoginLimiterAssumption DEF Kept, Promises
  <2> QED BY <1>1, <1>2, <1>6, <2>1
<1>9. k[1] \in QuotaDimensions => Len(w.attempts) <= Rule(k).limit
  BY <1>1, <1>3, <1>6, RuleIs DEF Kept
<1>10. k \notin X => /\ After(r, th) = After(w.attempts, th) /\ Ends(r, th)
                     /\ \A i \in 1 .. Len(w.attempts) : w.attempts[i] <= w.seen
  BY <1>3, <1>4, <1>6 DEF Kept, th
<1> QED BY <1>3, <1>6, <1>7, <1>8, <1>9, <1>10 DEF Kept, th, w

(* A bucket that is seen, in the order of the readings of the clock.       *)
SeenAt(b, c) == [b EXCEPT !.seen = c]

LEMMA SeenKept ==
  ASSUME NEW n \in Nat, NEW k, NEW b \in Buckets, NEW r, NEW p, NEW X,
         Kept(n, k, b, r, p, X), NEW c \in Times, k \notin X => b.seen <= c
  PROVE  /\ SeenAt(b, c) \in Buckets /\ Kept(n, k, SeenAt(b, c), r, p, X)
         /\ SeenAt(b, c).seen = c /\ SeenAt(b, c).attempts = b.attempts
<1> DEFINE w == SeenAt(b, c)
<1>1. /\ b.attempts \in Seq(Times) /\ b.until \in Promises /\ b.seen \in Nat /\ c \in Nat
      /\ b = [attempts |-> b.attempts, until |-> b.until, seen |-> b.seen]
      /\ \A i \in 1 .. Len(b.attempts) : b.attempts[i] \in Nat
  BY BucketIs, TimesAre
<1>2. w = [attempts |-> b.attempts, until |-> b.until, seen |-> c]
  BY <1>1 DEF SeenAt
<1> HIDE DEF w
<1>3. w.attempts = b.attempts /\ w.until = b.until /\ w.seen = c /\ w \in Buckets
  BY <1>1, <1>2 DEF Buckets, Promises
<1>4. k \notin X => \A i \in 1 .. Len(b.attempts) : b.attempts[i] <= c
  BY <1>1 DEF Kept
<1> QED BY <1>3, <1>4 DEF Kept, w

(* An attempt that counts, in the order of the readings of the clock.      *)
CountedAt(b, c) == [b EXCEPT !.attempts = Append(@, c), !.seen = c]

LEMMA CountedKept ==
  ASSUME NEW n \in Nat, NEW k, k[1] \in LoginDimensions \union QuotaDimensions,
         NEW b \in Buckets, NEW r \in Seq(Times), NEW p, NEW X,
         Kept(n, k, b, r, p, X), NEW c \in Times, k \notin X => b.seen <= c,
         k[1] \in QuotaDimensions => Len(b.attempts) < Rule(k).limit
  PROVE  /\ CountedAt(b, c) \in Buckets /\ Kept(n, k, CountedAt(b, c), Append(r, c), p, X)
         /\ CountedAt(b, c).seen = c
<1> DEFINE w == CountedAt(b, c)
           th == Since(n, k)
           a == b.attempts
<1>1. /\ a \in Seq(Times) /\ a \in Seq(Int) /\ Len(a) \in Nat
      /\ b.until \in Promises /\ b.seen \in Nat /\ c \in Nat
      /\ b = [attempts |-> a, until |-> b.until, seen |-> b.seen]
      /\ \A i \in 1 .. Len(a) : a[i] \in Nat
  BY BucketIs, TimesAre
<1>2. r \in Seq(Int) /\ Len(r) \in Nat /\ (\A i \in 1 .. Len(r) : r[i] \in Nat) /\ th \in Int
  <2>1. n \in Int
    OBVIOUS
  <2> QED BY <2>1, TimesAre, RuleIs
<1>3. w = [attempts |-> Append(a, c), until |-> b.until, seen |-> c]
  <2>1. b = [attempts |-> a, until |-> b.until, seen |-> b.seen]
    BY <1>1
  <2>2. w = [b EXCEPT !.attempts = Append(a, c), !.seen = c]
    BY DEF CountedAt
  <2> HIDE DEF a, w
  <2> QED BY <2>1, <2>2
<1>4. /\ Append(a, c) \in Seq(Times) /\ Len(Append(a, c)) = Len(a) + 1
      /\ \A i \in 1 .. Len(a) : Append(a, c)[i] = a[i]
      /\ Append(a, c)[Len(a) + 1] = c
  BY <1>1
<1>5. /\ Len(Append(r, c)) = Len(r) + 1 /\ \A i \in 1 .. Len(r) : Append(r, c)[i] = r[i]
      /\ Append(r, c)[Len(r) + 1] = c
  BY <1>2
<1> HIDE DEF w, a, th
<1>6. w.attempts = Append(a, c) /\ w.until = b.until /\ w.seen = c
  BY <1>3
<1>7. w \in Buckets
  BY <1>1, <1>3, <1>4, <1>6 DEF Buckets, Promises
<1>8. p > n => w.until >= p
  BY <1>6 DEF Kept
<1>9. k[1] \in QuotaDimensions => Len(w.attempts) <= Rule(k).limit
  BY <1>1, <1>4, <1>6, RuleIs DEF a
<1>10. ASSUME k \notin X
       PROVE  /\ After(Append(r, c), th) = After(w.attempts, th) /\ Ends(Append(r, c), th)
              /\ \A i \in 1 .. Len(w.attempts) : w.attempts[i] <= w.seen
  <2>1. /\ After(r, th) = After(a, th) /\ Ends(r, th)
        /\ \A i \in 1 .. Len(a) : a[i] <= c
    <3>1. /\ After(r, th) = After(a, th) /\ Ends(r, th)
          /\ \A i \in 1 .. Len(a) : a[i] <= b.seen
      BY <1>10 DEF Kept, th, a
    <3> QED BY <1>1, <1>10, <3>1
  <2>2. After(Append(r, c), th) = After(Append(a, c), th)
    <3>1. c \in Int
      BY <1>1
    <3>2. After(Append(r, c), th) = IF c <= th THEN <<>> ELSE Append(After(r, th), c)
      BY <1>2, <3>1, AfterAppend
    <3>3. After(Append(a, c), th) = IF c <= th THEN <<>> ELSE Append(After(a, th), c)
      BY <1>1, <1>2, <3>1, AfterAppend
    <3> QED BY <2>1, <3>2, <3>3
  <2>3. \A i \in 1 .. Len(w.attempts) : w.attempts[i] <= w.seen
    BY <1>1, <1>4, <1>6, <2>1
  <2>4. ASSUME Len(r) # 0, r[Len(r)] > th PROVE c > th
    <3>1. /\ Len(After(r, th)) # 0 /\ After(r, th)[Len(After(r, th))] = r[Len(r)]
      BY <1>2, <2>4, LastStays
    <3>2. Len(After(a, th)) # 0
      BY <2>1, <3>1
    <3>3. ~(\A i \in 1 .. Len(a) : a[i] <= th)
      <4>1. Len(<<>>) = 0
        OBVIOUS
      <4> QED BY <1>1, <1>2, <3>2, <4>1, AfterAllOld
    <3>4. PICK i \in 1 .. Len(a) : ~(a[i] <= th)
      BY <3>3
    <3> QED BY <1>1, <1>2, <2>1, <3>4
  <2>5. ASSUME NEW i \in 1 .. Len(r) + 1, NEW j \in 1 .. Len(r) + 1, i < j,
               Append(r, c)[i] > th
        PROVE  Append(r, c)[j] > th
    <3>1. i \in 1 .. Len(r) /\ r[i] > th
      BY <1>2, <1>5, <2>5
    <3>2. CASE j \in 1 .. Len(r)
      BY <1>5, <2>1, <2>5, <3>1, <3>2 DEF Ends
    <3>3. CASE j = Len(r) + 1
      <4>1. Len(r) # 0 /\ Len(r) \in 1 .. Len(r) /\ (i < Len(r) \/ i = Len(r))
        BY <1>2, <3>1
      <4>2. r[Len(r)] > th
        BY <2>1, <3>1, <4>1 DEF Ends
      <4> QED BY <1>5, <2>4, <3>3, <4>1, <4>2
    <3> QED BY <1>2, <3>2, <3>3
  <2>6. Ends(Append(r, c), th)
    BY <1>5, <2>5 DEF Ends
  <2> QED BY <1>6, <2>2, <2>3, <2>6
<1> QED BY <1>6, <1>7, <1>8, <1>9, <1>10 DEF Kept, th, w

(* A client is told of a cooldown, and the bucket remembers it.            *)
BlockedTo(b, q) == [b EXCEPT !.until = Later(@, q)]

LEMMA BlockedKept ==
  ASSUME NEW n \in Nat, NEW k, NEW b \in Buckets, NEW r, NEW p \in Promises, NEW X,
         Kept(n, k, b, r, p, X), NEW q \in Int, q <= MaxTime + BackoffMax
  PROVE  /\ BlockedTo(b, q) \in Buckets /\ Kept(n, k, BlockedTo(b, q), r, Later(p, q), X)
         /\ BlockedTo(b, q).seen = b.seen /\ BlockedTo(b, q).attempts = b.attempts
         /\ Later(p, q) \in Promises
<1> DEFINE w == BlockedTo(b, q)
<1>1. /\ b.attempts \in Seq(Times) /\ b.until \in Promises /\ b.until \in Nat /\ b.seen \in Times
      /\ b = [attempts |-> b.attempts, until |-> b.until, seen |-> b.seen]
  BY BucketIs
<1>2. w = [attempts |-> b.attempts, until |-> Later(b.until, q), seen |-> b.seen]
  BY <1>1 DEF BlockedTo
<1> HIDE DEF w
<1>3. w.attempts = b.attempts /\ w.until = Later(b.until, q) /\ w.seen = b.seen
  BY <1>2
<1>4. MaxTime + BackoffMax \in Nat
  BY LoginLimiterAssumption
<1>5. Later(b.until, q) \in Promises /\ Later(p, q) \in Promises
  BY <1>1, <1>4 DEF Later, Promises
<1>6. w \in Buckets
  BY <1>1, <1>2, <1>5 DEF Buckets, Promises
<1>7. Later(p, q) > n => w.until >= Later(p, q)
  <2>1. p \in Nat /\ (p > n => b.until >= p)
    BY <1>4 DEF Kept, Promises
  <2>2. \A x, y, z \in Int : (x > n => y >= x)
          => (Later(x, z) > n => Later(y, z) >= Later(x, z))
    BY DEF Later
  <2> QED BY <1>1, <1>3, <2>1, <2>2
<1> QED BY <1>3, <1>5, <1>6, <1>7 DEF Kept, w

(* Nothing in the window is lost with a bucket that has expired.           *)
LEMMA ExpiredAbsent ==
  ASSUME NEW n \in Nat, NEW k, k[1] \in LoginDimensions \union QuotaDimensions,
         NEW b \in Buckets, NEW r, NEW p \in Promises, NEW X,
         Kept(n, k, b, r, p, X), NEW c \in Times, c <= n, Expired(b, c)
  PROVE  Absent(n, k, r, p, X)
<1> DEFINE th == Since(n, k)
<1>1. /\ b.attempts \in Seq(Int) /\ Len(b.attempts) \in Nat /\ b.until \in Nat /\ b.seen \in Nat
      /\ c \in Nat /\ \A i \in 1 .. Len(b.attempts) : b.attempts[i] \in Nat
  BY BucketIs, TimesAre
<1>2. c - b.seen >= TTL /\ b.until <= c
  BY DEF Expired
<1>3. TTL \in Nat /\ th \in Int /\ b.seen <= th
  <2>1. Rule(k).window \in Nat /\ Rule(k).window <= TTL /\ TTL \in Nat /\ th = n - Rule(k).window
    BY RuleIs DEF Since
  <2> QED BY <1>1, <1>2, <2>1
<1>4. ~(p > n)
  <2>1. p \in Nat /\ (p > n => b.until >= p)
    BY LoginLimiterAssumption DEF Kept, Promises
  <2> QED BY <1>1, <1>2, <2>1
<1>5. ASSUME k \notin X PROVE After(r, th) = <<>> /\ Ends(r, th)
  <2>1. /\ After(r, th) = After(b.attempts, th) /\ Ends(r, th)
        /\ \A i \in 1 .. Len(b.attempts) : b.attempts[i] <= b.seen
    BY <1>5 DEF Kept
  <2> HIDE DEF th
  <2>2. ASSUME NEW i \in 1 .. Len(b.attempts) PROVE b.attempts[i] <= th
    <3>1. b.attempts[i] \in Nat /\ b.attempts[i] <= b.seen
      BY <1>1, <2>1
    <3> QED BY <1>1, <1>3, <3>1
  <2>3. After(b.attempts, th) = <<>>
    BY <1>1, <1>3, <2>2, AfterAllOld
  <2> QED BY <2>1, <2>3
<1> QED BY <1>4, <1>5 DEF Absent, th

LEMMA NothingAfter ==
  ASSUME NEW th \in Int
  PROVE  After(<<>>, th) = <<>> /\ Ends(<<>>, th) /\ <<>> \in Seq(Times) /\ Len(<<>>) = 0
<1>1. <<>> \in Seq(Int) /\ Len(<<>>) = 0 /\ <<>> \in Seq(Times)
  OBVIOUS
<1>2. \A i \in 1 .. Len(<<>>) : <<>>[i] <= th
  BY <1>1
<1>3. After(<<>>, th) = <<>>
  BY <1>1, <1>2, AfterAllOld
<1>4. Ends(<<>>, th)
  BY <1>1 DEF Ends
<1> QED BY <1>1, <1>3, <1>4

(* A new bucket for a key that had none.                                   *)
LEMMA NewKept ==
  ASSUME NEW n \in Nat, NEW k, k[1] \in LoginDimensions \union QuotaDimensions,
         NEW r, NEW p, NEW X, Absent(n, k, r, p, X), NEW c \in Times
  PROVE  /\ NewBucket(c) \in Buckets /\ Kept(n, k, NewBucket(c), r, p, X)
         /\ NewBucket(c).seen = c /\ Len(NewBucket(c).attempts) = 0
<1>1. n \in Int
  OBVIOUS
<1>2. Since(n, k) \in Int /\ Rule(k).limit \in Nat
  BY <1>1, RuleIs
<1>3. /\ NewBucket(c).attempts = <<>> /\ NewBucket(c).seen = c
      /\ NewBucket(c) = [attempts |-> <<>>, until |-> 0, seen |-> c]
  BY DEF NewBucket
<1>4. After(<<>>, Since(n, k)) = <<>> /\ <<>> \in Seq(Times) /\ Len(<<>>) = 0
  BY <1>2, NothingAfter
<1>5. NewBucket(c) \in Buckets
  <2>1. 0 \in 0 .. MaxTime + BackoffMax
    BY LoginLimiterAssumption
  <2> QED BY <1>3, <1>4, <2>1 DEF Buckets
<1>6. k[1] \in QuotaDimensions => Len(NewBucket(c).attempts) <= Rule(k).limit
  BY <1>2, <1>3, <1>4
<1>7. ~(p > n)
  BY DEF Absent
<1>8. k \notin X => /\ After(r, Since(n, k)) = After(NewBucket(c).attempts, Since(n, k))
                    /\ Ends(r, Since(n, k))
                    /\ \A i \in 1 .. Len(NewBucket(c).attempts) :
                          NewBucket(c).attempts[i] <= NewBucket(c).seen
  BY <1>3, <1>4 DEF Absent
<1> QED BY <1>3, <1>4, <1>5, <1>6, <1>7, <1>8 DEF Kept

(* Nothing is known of a key whose bucket went.                            *)
LEMMA ForgottenAbsent ==
  ASSUME NEW n \in Nat, NEW k, k[1] \in LoginDimensions \union QuotaDimensions, NEW X
  PROVE  Absent(n, k, <<>>, 0, X)
<1>1. n \in Int
  OBVIOUS
<1>2. Since(n, k) \in Int
  BY <1>1, RuleIs
<1> QED BY <1>2, NothingAfter DEF Absent

(* The clock goes on.                                                      *)
LEMMA TickKept ==
  ASSUME NEW n \in Nat, NEW k, k[1] \in LoginDimensions \union QuotaDimensions,
         NEW b \in Buckets, NEW r \in Seq(Times), NEW p \in Promises, NEW X
  PROVE  LET r1 == After(r, Since(n + 1, k))
             p1 == IF p <= n + 1 THEN 0 ELSE p IN
         /\ r1 \in Seq(Times) /\ p1 \in Promises
         /\ Kept(n, k, b, r, p, X) => Kept(n + 1, k, b, r1, p1, X)
         /\ Absent(n, k, r, p, X) => Absent(n + 1, k, r1, p1, X)
<1> DEFINE th == Since(n, k)
           t1 == Since(n + 1, k)
           r1 == After(r, t1)
           p1 == IF p <= n + 1 THEN 0 ELSE p
<1>1. r \in Seq(Int) /\ b.attempts \in Seq(Int) /\ b.until \in Nat
  BY TimesAre, BucketIs
<1>2. th \in Int /\ t1 \in Int /\ th <= t1
  <2>1. Rule(k).window \in Nat /\ th = n - Rule(k).window /\ t1 = (n + 1) - Rule(k).window
    BY RuleIs DEF Since
  <2> QED BY <2>1
<1>3. p \in Nat /\ p1 \in Promises /\ p1 \in Nat
  BY LoginLimiterAssumption DEF Promises
<1> HIDE DEF th, t1
<1>4. r1 \in Seq(Times) /\ \A i \in 1 .. Len(r1) : r1[i] > t1
  BY <1>2, AfterOf
<1>5. r1 \in Seq(Int) /\ Len(r1) \in Nat
  BY <1>4, TimesAre
<1>6. After(r1, t1) = r1 /\ After(After(r, th), t1) = r1
  BY <1>1, <1>2, AfterAfter
<1>7. After(After(b.attempts, th), t1) = After(b.attempts, t1)
  BY <1>1, <1>2, AfterAfter
<1>8. After(<<>>, t1) = <<>>
  BY <1>2, NothingAfter
<1> HIDE DEF r1
<1>9. Ends(r1, t1)
  BY <1>4 DEF Ends
<1>10. ASSUME Kept(n, k, b, r, p, X) PROVE Kept(n + 1, k, b, r1, p1, X)
  <2>1. k \notin X => After(r1, t1) = After(b.attempts, t1)
    <3>1. k \notin X => After(r, th) = After(b.attempts, th)
      BY <1>10 DEF Kept, th
    <3> QED BY <1>6, <1>7, <3>1
  <2>2. p1 > n + 1 => b.until >= p1
    <3>1. p > n => b.until >= p
      BY <1>10 DEF Kept
    <3> QED BY <1>1, <1>3, <3>1
  <2>3. /\ k \notin X => \A i \in 1 .. Len(b.attempts) : b.attempts[i] <= b.seen
        /\ k[1] \in QuotaDimensions => Len(b.attempts) <= Rule(k).limit
    BY <1>10 DEF Kept
  <2> QED BY <1>9, <2>1, <2>2, <2>3 DEF Kept, t1
<1>11. ASSUME Absent(n, k, r, p, X) PROVE Absent(n + 1, k, r1, p1, X)
  <2>1. k \notin X => After(r1, t1) = <<>>
    <3>1. k \notin X => After(r, th) = <<>>
      BY <1>11 DEF Absent, th
    <3> QED BY <1>6, <1>8, <3>1
  <2>2. ~(p1 > n + 1)
    <3>1. ~(p > n)
      BY <1>11 DEF Absent
    <3> QED BY <1>3, <3>1
  <2> QED BY <1>9, <2>1, <2>2 DEF Absent, t1
<1> QED BY <1>3, <1>4, <1>10, <1>11 DEF r1, t1

-----------------------------------------------------------------------------
(* The keys of a request.                                                  *)

(* A sequence of two or three different keys.                              *)
Distinct(keys) == /\ Len(keys) \in {2, 3} /\ keys \in Seq(Keys)
                  /\ \A i, j \in 1 .. Len(keys) : keys[i] = keys[j] => i = j
                  /\ Range(keys) = {keys[i] : i \in 1 .. Len(keys)}

LEMMA OwnKeys ==
  ASSUME NEW keys \in LoginRequests \union QuotaRequests, NEW k \in Range(keys)
  PROVE  k \in Keys
BY DEF Keys

LEMMA DistinctKeys ==
  ASSUME NEW keys \in LoginRequests \union QuotaRequests, NEW m \in {2, 3}, Len(keys) = m,
         keys = [i \in 1 .. m |-> keys[i]],
         \A i, j \in 1 .. m : keys[i] = keys[j] => i = j
  PROVE  Distinct(keys)
<1>1. DOMAIN keys = 1 .. m /\ 1 .. m = 1 .. Len(keys)
  OBVIOUS
<1>2. Range(keys) = {keys[i] : i \in 1 .. m}
  BY <1>1 DEF Range
<1>3. \A i \in 1 .. m : keys[i] \in Keys
  BY <1>2, OwnKeys
<1>4. [i \in 1 .. m |-> keys[i]] \in Seq(Keys)
  BY <1>3
<1>5. keys \in Seq(Keys)
  BY <1>4
<1> QED BY <1>1, <1>2, <1>5 DEF Distinct

LEMMA LoginKeysAre ==
  ASSUME NEW keys \in LoginRequests
  PROVE  /\ Distinct(keys) /\ Len(keys) = 3
         /\ \A k \in Range(keys) : k[1] \in LoginDimensions
<1>1. PICK l \in Logins : keys = LoginKeys(l[1], l[2])
  BY DEF LoginRequests
<1>2. keys = <<<<"login_ip", l[1], Anybody>>, <<"login_account", Anybody, l[2]>>,
               <<"login_combination", l[1], l[2]>>>>
  BY <1>1 DEF LoginKeys, Key
<1>3. /\ Len(keys) = 3 /\ keys = [i \in 1 .. 3 |-> keys[i]]
      /\ keys[1] = <<"login_ip", l[1], Anybody>> /\ keys[2] = <<"login_account", Anybody, l[2]>>
      /\ keys[3] = <<"login_combination", l[1], l[2]>>
  BY <1>2
<1>4. keys[1][1] = "login_ip" /\ keys[2][1] = "login_account" /\ keys[3][1] = "login_combination"
  BY <1>3
<1>5. ASSUME NEW i \in 1 .. 3, NEW j \in 1 .. 3, keys[i] = keys[j] PROVE i = j
  <2>1. i \in {1, 2, 3} /\ j \in {1, 2, 3}
    OBVIOUS
  <2> QED BY <1>4, <1>5, <2>1
<1>6. Distinct(keys)
  <2>1. 3 \in {2, 3}
    OBVIOUS
  <2> QED BY <1>3, <1>5, <2>1, DistinctKeys
<1>7. Range(keys) = {keys[1], keys[2], keys[3]}
  <2>1. 1 .. 3 = {1, 2, 3}
    OBVIOUS
  <2> QED BY <1>3, <1>6, <2>1 DEF Distinct
<1> QED BY <1>3, <1>4, <1>6, <1>7 DEF LoginDimensions

LEMMA QuotaKeysAre ==
  ASSUME NEW keys \in QuotaRequests
  PROVE  Distinct(keys) /\ \A k \in Range(keys) : k[1] \in QuotaDimensions
<1>1. 1 .. 2 = {1, 2} /\ 1 .. 3 = {1, 2, 3}
  OBVIOUS
<1>2. CASE \E a \in Bootstraps : keys = BootstrapKeys(a)
  <2>1. PICK a \in Bootstraps :
          keys = <<<<"bootstrap_ip", a, Anybody>>, <<"bootstrap_global", Anybody, Anybody>>>>
    BY <1>2 DEF BootstrapKeys, Key
  <2>2. /\ Len(keys) = 2 /\ keys = [i \in 1 .. 2 |-> keys[i]]
        /\ keys[1] = <<"bootstrap_ip", a, Anybody>>
        /\ keys[2] = <<"bootstrap_global", Anybody, Anybody>>
    BY <2>1
  <2>3. keys[1][1] = "bootstrap_ip" /\ keys[2][1] = "bootstrap_global"
    BY <2>2
  <2>4. \A i, j \in {1, 2} : keys[i] = keys[j] => i = j
    BY <2>3
  <2>5. Distinct(keys)
    BY <1>1, <2>2, <2>4, DistinctKeys
  <2>6. Range(keys) = {keys[1], keys[2]}
    BY <1>1, <2>2, <2>5 DEF Distinct
  <2> QED BY <2>3, <2>5, <2>6 DEF QuotaDimensions
<1>3. CASE \E r \in Registrations : keys = RegisterKeys(r[1], r[2])
  <2>1. PICK r \in Registrations : keys = RegisterKeys(r[1], r[2])
    BY <1>3
  <2> DEFINE names == r[2]
  <2>2. names = <<names[1]>> \/ (names = <<names[1], names[2]>> /\ names[1] # names[2])
    BY LoginLimiterAssumption
  <2>3. keys = <<<<"register_ip", r[1], Anybody>>>>
                 \o [i \in DOMAIN names |-> <<"register_target", Anybody, names[i]>>]
    BY <2>1 DEF RegisterKeys, Key
  <2> HIDE DEF names
  <2>4. CASE names = <<names[1]>>
    <3>1. DOMAIN names = 1 .. 1
      BY <2>4
    <3>2. keys = <<<<"register_ip", r[1], Anybody>>>>
                   \o <<<<"register_target", Anybody, names[1]>>>>
      <4>1. [i \in 1 .. 1 |-> <<"register_target", Anybody, names[i]>>]
              = <<<<"register_target", Anybody, names[1]>>>>
        OBVIOUS
      <4> QED BY <2>3, <3>1, <4>1
    <3>3. /\ Len(keys) = 2 /\ keys = [i \in 1 .. 2 |-> keys[i]]
          /\ keys[1] = <<"register_ip", r[1], Anybody>>
          /\ keys[2] = <<"register_target", Anybody, names[1]>>
      BY <3>2
    <3>4. keys[1][1] = "register_ip" /\ keys[2][1] = "register_target"
      BY <3>3
    <3>5. \A i, j \in {1, 2} : keys[i] = keys[j] => i = j
      BY <3>4
    <3>6. Distinct(keys)
      BY <1>1, <3>3, <3>5, DistinctKeys
    <3>7. Range(keys) = {keys[1], keys[2]}
      BY <1>1, <3>3, <3>6 DEF Distinct
    <3> QED BY <3>4, <3>6, <3>7 DEF QuotaDimensions
  <2>5. CASE names = <<names[1], names[2]>> /\ names[1] # names[2]
    <3>1. DOMAIN names = 1 .. 2
      BY <2>5
    <3>2. keys = <<<<"register_ip", r[1], Anybody>>>> \o
                   <<<<"register_target", Anybody, names[1]>>,
                     <<"register_target", Anybody, names[2]>>>>
      <4>1. [i \in 1 .. 2 |-> <<"register_target", Anybody, names[i]>>]
              = <<<<"register_target", Anybody, names[1]>>,
                  <<"register_target", Anybody, names[2]>>>>
        OBVIOUS
      <4> QED BY <2>3, <3>1, <4>1
    <3>3. /\ Len(keys) = 3 /\ keys = [i \in 1 .. 3 |-> keys[i]]
          /\ keys[1] = <<"register_ip", r[1], Anybody>>
          /\ keys[2] = <<"register_target", Anybody, names[1]>>
          /\ keys[3] = <<"register_target", Anybody, names[2]>>
      BY <3>2
    <3>4. /\ keys[1][1] = "register_ip" /\ keys[2][1] = "register_target"
          /\ keys[3][1] = "register_target" /\ keys[2] # keys[3]
      BY <2>5, <3>3
    <3>5. \A i, j \in {1, 2, 3} : keys[i] = keys[j] => i = j
      BY <3>4
    <3>6. Distinct(keys)
      BY <1>1, <3>3, <3>5, DistinctKeys
    <3>7. Range(keys) = {keys[1], keys[2], keys[3]}
      BY <1>1, <3>3, <3>6 DEF Distinct
    <3> QED BY <3>4, <3>6, <3>7 DEF QuotaDimensions
  <2> QED BY <2>2, <2>4, <2>5
<1> QED BY <1>2, <1>3 DEF QuotaRequests

(* Every key has a rule.                                                   *)
LEMMA KeysHaveRules ==
  ASSUME NEW k \in Keys
  PROVE  k[1] \in LoginDimensions \union QuotaDimensions
<1>1. PICK keys \in LoginRequests \union QuotaRequests : k \in Range(keys)
  BY DEF Keys
<1> QED BY <1>1, LoginKeysAre, QuotaKeysAre

LEMMA DimensionsDiffer == LoginDimensions \intersect QuotaDimensions = {}
BY DEF LoginDimensions, QuotaDimensions

-----------------------------------------------------------------------------
(* A table and what is known of its keys, at the time n.                   *)

Agrees(n, known, X, k) ==
  IF k \in DOMAIN known.table.bucket
  THEN Kept(n, k, known.table.bucket[k], known.recorded[k], known.promised[k], X)
  ELSE Absent(n, k, known.recorded[k], known.promised[k], X)

Good(n, known, X) ==
  /\ known = [table |-> known.table, recorded |-> known.recorded, promised |-> known.promised]
  /\ Sound(known.table) /\ Bounded(known.table)
  /\ known.recorded \in [Keys -> Seq(Times)] /\ known.promised \in [Keys -> Promises]
  /\ \A k \in Keys : Agrees(n, known, X, k)

(* The keys of the operation were not used with a later reading.           *)
Timely(tab, X, R, c) ==
  \A k \in R \intersect DOMAIN tab.bucket : k \notin X => tab.bucket[k].seen <= c

LEMMA GoodIs ==
  ASSUME NEW n, NEW X, NEW known, Good(n, known, X)
  PROVE  /\ known = [table |-> known.table, recorded |-> known.recorded,
                     promised |-> known.promised]
         /\ known.table \in Tables /\ DOMAIN known.table.bucket \subseteq Keys
         /\ Sound(known.table) /\ Bounded(known.table)
         /\ known.table = [before |-> known.table.before, bucket |-> known.table.bucket]
         /\ known.table.bucket \in [DOMAIN known.table.bucket -> Buckets]
         /\ known.recorded \in [Keys -> Seq(Times)] /\ known.promised \in [Keys -> Promises]
<1>1. Sound(known.table)
  BY DEF Good
<1>2. known.table \in Tables
  BY <1>1 DEF Sound
<1> QED BY <1>1, <1>2, TableIs DEF Good

(* One key is used, others may go.                                         *)
Uses(old, new, key, gone) ==
  /\ key \in Keys /\ key \notin gone
  /\ new = [table |-> new.table, recorded |-> new.recorded, promised |-> new.promised]
  /\ Sound(new.table) /\ Bounded(new.table)
  /\ DOMAIN new.table.bucket = ((DOMAIN old.table.bucket) \ gone) \union {key}
  /\ \A k \in (DOMAIN new.table.bucket) \ {key} : new.table.bucket[k] = old.table.bucket[k]
  /\ new.recorded \in [Keys -> Seq(Times)] /\ new.promised \in [Keys -> Promises]
  /\ \A k \in Keys \ {key} :
       /\ new.recorded[k] = IF k \in gone THEN <<>> ELSE old.recorded[k]
       /\ new.promised[k] = IF k \in gone THEN 0 ELSE old.promised[k]

LEMMA StepGood ==
  ASSUME NEW n \in Nat, NEW X, NEW old, Good(n, old, X), NEW key, NEW gone, NEW new,
         Uses(old, new, key, gone),
         Kept(n, key, new.table.bucket[key], new.recorded[key], new.promised[key], X)
  PROVE  Good(n, new, X)
<1> SUFFICES ASSUME NEW k \in Keys PROVE Agrees(n, new, X, k)
  BY DEF Good, Uses
<1>1. Agrees(n, old, X, k)
  BY DEF Good
<1>2. CASE k = key
  BY <1>2 DEF Agrees, Uses
<1>3. CASE k # key /\ k \in gone
  <2>1. new.recorded[k] = <<>> /\ new.promised[k] = 0 /\ k \notin DOMAIN new.table.bucket
    BY <1>3 DEF Uses
  <2>2. Absent(n, k, <<>>, 0, X)
    BY KeysHaveRules, ForgottenAbsent
  <2> QED BY <2>1, <2>2 DEF Agrees
<1>4. CASE k # key /\ k \notin gone
  <2>1. /\ new.recorded[k] = old.recorded[k] /\ new.promised[k] = old.promised[k]
        /\ k \in DOMAIN new.table.bucket <=> k \in DOMAIN old.table.bucket
        /\ k \in DOMAIN new.table.bucket => new.table.bucket[k] = old.table.bucket[k]
    BY <1>4 DEF Uses
  <2> QED BY <1>1, <2>1 DEF Agrees
<1> QED BY <1>2, <1>3, <1>4

(* The bucket of a key changes, and what is known of it.                   *)
Put(known, key, b, r, p) ==
  [table |-> [known.table EXCEPT !.bucket[key] = b],
   recorded |-> [known.recorded EXCEPT ![key] = r],
   promised |-> [known.promised EXCEPT ![key] = p]]

LEMMA PutGood ==
  ASSUME NEW n \in Nat, NEW X, NEW known, Good(n, known, X),
         NEW key \in DOMAIN known.table.bucket,
         NEW b \in Buckets, NEW r \in Seq(Times), NEW p \in Promises,
         Kept(n, key, b, r, p, X), NEW w, w = Put(known, key, b, r, p)
  PROVE  /\ Good(n, w, X) /\ DOMAIN w.table.bucket = DOMAIN known.table.bucket
         /\ w.table.bucket[key] = b
         /\ \A k \in (DOMAIN known.table.bucket) \ {key} :
               w.table.bucket[k] = known.table.bucket[k]
         /\ w.table.before = known.table.before
         /\ w.recorded[key] = r /\ w.promised[key] = p
<1>1. /\ DOMAIN known.table.bucket \subseteq Keys /\ key \in Keys
      /\ Sound(known.table) /\ Bounded(known.table)
      /\ known.table.bucket \in [DOMAIN known.table.bucket -> Buckets]
      /\ known.recorded \in [Keys -> Seq(Times)] /\ known.promised \in [Keys -> Promises]
  BY GoodIs
<1>2. /\ w.table = [known.table EXCEPT !.bucket[key] = b]
      /\ w.recorded = [known.recorded EXCEPT ![key] = r]
      /\ w.promised = [known.promised EXCEPT ![key] = p]
      /\ w = [table |-> w.table, recorded |-> w.recorded, promised |-> w.promised]
  BY DEF Put
<1>3. /\ Sound(w.table) /\ w.table.before = known.table.before
      /\ w.table.bucket = [known.table.bucket EXCEPT ![key] = b]
      /\ DOMAIN w.table.bucket = DOMAIN known.table.bucket
  <2> DEFINE t == [known.table EXCEPT !.bucket[key] = b]
  <2>1. /\ Sound(t) /\ t.before = known.table.before
        /\ t.bucket = [known.table.bucket EXCEPT ![key] = b]
        /\ DOMAIN t.bucket = DOMAIN known.table.bucket
    BY <1>1, PutIs
  <2> HIDE DEF t
  <2> QED BY <1>2, <2>1 DEF t
<1>4. Bounded(w.table)
  BY <1>1, <1>3 DEF Bounded
<1>5. /\ w.recorded \in [Keys -> Seq(Times)] /\ w.promised \in [Keys -> Promises]
      /\ w.recorded[key] = r /\ w.promised[key] = p
      /\ \A k \in Keys \ {key} : /\ w.recorded[k] = known.recorded[k]
                                 /\ w.promised[k] = known.promised[k]
  BY <1>1, <1>2
<1>6. /\ w.table.bucket[key] = b
      /\ \A k \in (DOMAIN w.table.bucket) \ {key} : w.table.bucket[k] = known.table.bucket[k]
  BY <1>1, <1>3
<1>g. PICK gone : gone = {}
  OBVIOUS
<1>7. DOMAIN w.table.bucket = ((DOMAIN known.table.bucket) \ gone) \union {key}
  BY <1>3, <1>g
<1>8. \A k \in Keys \ {key} :
        /\ w.recorded[k] = IF k \in gone THEN <<>> ELSE known.recorded[k]
        /\ w.promised[k] = IF k \in gone THEN 0 ELSE known.promised[k]
  BY <1>5, <1>g
<1>9. Good(n, w, X)
  <2>1. key \notin gone
    BY <1>g
  <2>2. Kept(n, key, w.table.bucket[key], w.recorded[key], w.promised[key], X)
    BY <1>5, <1>6
  <2>3. Uses(known, w, key, gone)
    BY <1>1, <1>2, <1>3, <1>4, <1>5, <1>6, <1>7, <1>8, <2>1 DEF Uses
  <2> QED BY <2>2, <2>3, StepGood
<1> QED BY <1>3, <1>5, <1>6, <1>9

(* A change of one part of a table with its history.                       *)
LEMMA PartForms ==
  ASSUME NEW B, NEW f, NEW R, NEW P, NEW tab, NEW known, NEW key, NEW v,
         tab = [before |-> B, bucket |-> f],
         known = [table |-> tab, recorded |-> R, promised |-> P]
  PROVE  /\ [tab EXCEPT !.bucket[key] = v] = [before |-> B, bucket |-> [f EXCEPT ![key] = v]]
         /\ [known EXCEPT !.table = v] = [table |-> v, recorded |-> R, promised |-> P]
         /\ [known EXCEPT !.table.bucket[key] = v]
              = [table |-> [before |-> B, bucket |-> [f EXCEPT ![key] = v]], recorded |-> R,
                 promised |-> P]
         /\ [known EXCEPT !.recorded[key] = v]
              = [table |-> tab, recorded |-> [R EXCEPT ![key] = v], promised |-> P]
         /\ [known EXCEPT !.promised[key] = v]
              = [table |-> tab, recorded |-> R, promised |-> [P EXCEPT ![key] = v]]
<1>1. [tab EXCEPT !.bucket[key] = v] = [before |-> B, bucket |-> [f EXCEPT ![key] = v]]
  OBVIOUS
<1>2. [known EXCEPT !.table = v] = [table |-> v, recorded |-> R, promised |-> P]
  OBVIOUS
<1>3. [known EXCEPT !.table.bucket[key] = v]
        = [table |-> [before |-> B, bucket |-> [f EXCEPT ![key] = v]], recorded |-> R,
           promised |-> P]
  OBVIOUS
<1>4. [known EXCEPT !.recorded[key] = v]
        = [table |-> tab, recorded |-> [R EXCEPT ![key] = v], promised |-> P]
  OBVIOUS
<1>5. [known EXCEPT !.promised[key] = v]
        = [table |-> tab, recorded |-> R, promised |-> [P EXCEPT ![key] = v]]
  OBVIOUS
<1> QED BY <1>1, <1>2, <1>3, <1>4, <1>5

LEMMA TwoForms ==
  ASSUME NEW known, NEW key, NEW v, NEW c, NEW q
  PROVE  /\ [known EXCEPT !.table = v, !.recorded[key] = Append(@, c)]
              = [[known EXCEPT !.table = v] EXCEPT !.recorded[key] = Append(@, c)]
         /\ [known EXCEPT !.table.bucket[key].until = Later(@, q), !.promised[key] = Later(@, q)]
              = [[known EXCEPT !.table.bucket[key].until = Later(@, q)]
                   EXCEPT !.promised[key] = Later(@, q)]
         /\ [known EXCEPT !.table.bucket[key].until = Later(@, q)]
              = [known EXCEPT !.table.bucket[key] =
                   [known.table.bucket[key] EXCEPT !.until = Later(@, q)]]
<1>1. [known EXCEPT !.table = v, !.recorded[key] = Append(@, c)]
        = [[known EXCEPT !.table = v] EXCEPT !.recorded[key] = Append(@, c)]
  OBVIOUS
<1>2. [known EXCEPT !.table.bucket[key].until = Later(@, q), !.promised[key] = Later(@, q)]
              = [[known EXCEPT !.table.bucket[key].until = Later(@, q)]
                   EXCEPT !.promised[key] = Later(@, q)]
  OBVIOUS
<1>3. [known EXCEPT !.table.bucket[key].until = Later(@, q)]
              = [known EXCEPT !.table.bucket[key] =
                   [known.table.bucket[key] EXCEPT !.until = Later(@, q)]]
  OBVIOUS
<1> QED BY <1>1, <1>2, <1>3

(* The forms in which the code changes one bucket.                         *)
LEMMA PrunedForm ==
  ASSUME NEW n, NEW X, NEW known, Good(n, known, X), NEW key \in DOMAIN known.table.bucket,
         NEW c
  PROVE  [known EXCEPT !.table.bucket[key] = Pruned(@, key, c)]
           = Put(known, key, Pruned(known.table.bucket[key], key, c),
                 known.recorded[key], known.promised[key])
<1> DEFINE tab == known.table
           f == known.table.bucket
           b == f[key]
           R == known.recorded
           P == known.promised
<1>1. /\ known = [table |-> tab, recorded |-> R, promised |-> P]
      /\ tab = [before |-> tab.before, bucket |-> f] /\ f \in [DOMAIN f -> Buckets]
      /\ R \in [Keys -> Seq(Times)] /\ P \in [Keys -> Promises] /\ key \in Keys
  BY GoodIs
<1>2. /\ [R EXCEPT ![key] = R[key]] = R /\ [P EXCEPT ![key] = P[key]] = P
  BY <1>1
<1>3. [known EXCEPT !.table.bucket[key] = Pruned(@, key, c)]
        = [table |-> [tab EXCEPT !.bucket[key] = Pruned(b, key, c)], recorded |-> R,
           promised |-> P]
  <2> DEFINE v == Pruned(b, key, c)
  <2>1. [known EXCEPT !.table.bucket[key] = Pruned(@, key, c)]
          = [known EXCEPT !.table.bucket[key] = v]
    OBVIOUS
  <2> HIDE DEF v, tab, f, R, P
  <2>2. /\ [known EXCEPT !.table.bucket[key] = v]
             = [table |-> [before |-> tab.before, bucket |-> [f EXCEPT ![key] = v]],
                recorded |-> R, promised |-> P]
        /\ [tab EXCEPT !.bucket[key] = v]
             = [before |-> tab.before, bucket |-> [f EXCEPT ![key] = v]]
    <3>1. /\ known = [table |-> tab, recorded |-> R, promised |-> P]
          /\ tab = [before |-> tab.before, bucket |-> f]
      BY <1>1
    <3>2. [tab EXCEPT !.bucket[key] = v]
            = [before |-> tab.before, bucket |-> [f EXCEPT ![key] = v]]
      BY <3>1
    <3>3. [known EXCEPT !.table.bucket[key] = v]
            = [table |-> [before |-> tab.before, bucket |-> [f EXCEPT ![key] = v]],
               recorded |-> R, promised |-> P]
      BY <3>1
    <3> QED BY <3>2, <3>3
  <2> QED BY <2>1, <2>2 DEF v
<1> QED BY <1>2, <1>3 DEF Put

LEMMA AttemptedForm ==
  ASSUME NEW n, NEW X, NEW known, Good(n, known, X), NEW key \in DOMAIN known.table.bucket,
         NEW c
  PROVE  Attempted(known, key, c)
           = Put(known, key, CountedAt(known.table.bucket[key], c),
                 Append(known.recorded[key], c), known.promised[key])
<1> DEFINE tab == known.table
           f == known.table.bucket
           b == f[key]
           R == known.recorded
           P == known.promised
<1>1. /\ known = [table |-> tab, recorded |-> R, promised |-> P]
      /\ tab = [before |-> tab.before, bucket |-> f] /\ f \in [DOMAIN f -> Buckets]
      /\ R \in [Keys -> Seq(Times)] /\ P \in [Keys -> Promises] /\ key \in Keys
  BY GoodIs
<1>2. /\ [R EXCEPT ![key] = R[key]] = R /\ [P EXCEPT ![key] = P[key]] = P
  BY <1>1
<1>3. b = [attempts |-> b.attempts, until |-> b.until, seen |-> b.seen]
  <2>1. b \in Buckets
    BY <1>1
  <2> QED BY <2>1, BucketIs
<1>4. Counted(tab, key, c)
        = [tab EXCEPT !.bucket[key] = [b EXCEPT !.attempts = Append(@, c), !.seen = c]]
  BY <1>1, <1>3 DEF Counted
<1>5. Attempted(known, key, c)
        = [table |-> Counted(tab, key, c), recorded |-> [R EXCEPT ![key] = Append(R[key], c)],
           promised |-> P]
  <2> DEFINE v == Counted(tab, key, c)
             one == [known EXCEPT !.table = v]
  <2>1. Attempted(known, key, c) = [known EXCEPT !.table = v, !.recorded[key] = Append(@, c)]
    BY DEF Attempted
  <2>2. [known EXCEPT !.table = v, !.recorded[key] = Append(@, c)]
          = [[known EXCEPT !.table = v] EXCEPT !.recorded[key] = Append(@, c)]
    BY TwoForms
  <2>3. one = [table |-> v, recorded |-> R, promised |-> P]
    <3> HIDE DEF v, tab, f, R, P
    <3> QED BY <1>1, PartForms
  <2>4. [one EXCEPT !.recorded[key] = Append(@, c)]
          = [one EXCEPT !.recorded[key] = Append(R[key], c)]
    <3> HIDE DEF v, tab, f, R, P, one
    <3>1. one.recorded = R
      BY <2>3
    <3> QED BY <3>1
  <2>5. [one EXCEPT !.recorded[key] = Append(R[key], c)]
          = [table |-> v, recorded |-> [R EXCEPT ![key] = Append(R[key], c)], promised |-> P]
    <3> DEFINE x == Append(R[key], c)
    <3> HIDE DEF v, tab, f, R, P, one, x
    <3>1. PICK B, g : v = [before |-> B, bucket |-> g]
      <4>1. v = [tab EXCEPT !.bucket[key] = [b EXCEPT !.attempts = Append(@, c), !.seen = c]]
        BY <1>4 DEF v
      <4> QED BY <1>1, <4>1, PartForms
    <3> QED BY <2>3, <3>1, PartForms DEF x
  <2> QED BY <2>1, <2>2, <2>4, <2>5
<1> QED BY <1>2, <1>4, <1>5 DEF Put, CountedAt

Told(known, key, q) ==
  [known EXCEPT !.table.bucket[key].until = Later(@, q), !.promised[key] = Later(@, q)]

LEMMA BlockedForm ==
  ASSUME NEW n, NEW X, NEW known, Good(n, known, X), NEW key \in DOMAIN known.table.bucket,
         NEW q
  PROVE  Told(known, key, q)
           = Put(known, key, BlockedTo(known.table.bucket[key], q),
                 known.recorded[key], Later(known.promised[key], q))
<1> DEFINE tab == known.table
           f == known.table.bucket
           b == f[key]
           R == known.recorded
           P == known.promised
<1>1. /\ known = [table |-> tab, recorded |-> R, promised |-> P]
      /\ tab = [before |-> tab.before, bucket |-> f] /\ f \in [DOMAIN f -> Buckets]
      /\ R \in [Keys -> Seq(Times)] /\ P \in [Keys -> Promises] /\ key \in Keys
  BY GoodIs
<1>2. /\ [R EXCEPT ![key] = R[key]] = R /\ [P EXCEPT ![key] = P[key]] = P
  BY <1>1
<1>3. [known EXCEPT !.table.bucket[key].until = Later(@, q), !.promised[key] = Later(@, q)]
        = [table |-> [tab EXCEPT !.bucket[key] = [b EXCEPT !.until = Later(@, q)]],
           recorded |-> R, promised |-> [P EXCEPT ![key] = Later(P[key], q)]]
  <2> DEFINE v == [b EXCEPT !.until = Later(@, q)]
             one == [known EXCEPT !.table.bucket[key].until = Later(@, q)]
             t == [before |-> tab.before, bucket |-> [f EXCEPT ![key] = v]]
  <2>1. [known EXCEPT !.table.bucket[key].until = Later(@, q), !.promised[key] = Later(@, q)]
          = [one EXCEPT !.promised[key] = Later(@, q)]
    BY TwoForms
  <2>2. one = [known EXCEPT !.table.bucket[key] = v]
    BY TwoForms
  <2>3. /\ one = [table |-> t, recorded |-> R, promised |-> P]
        /\ [tab EXCEPT !.bucket[key] = v] = t
    <3> HIDE DEF v, tab, f, R, P, one
    <3>1. /\ known = [table |-> tab, recorded |-> R, promised |-> P]
          /\ tab = [before |-> tab.before, bucket |-> f]
      BY <1>1
    <3>2. /\ [known EXCEPT !.table.bucket[key] = v]
               = [table |-> [before |-> tab.before, bucket |-> [f EXCEPT ![key] = v]],
                  recorded |-> R, promised |-> P]
          /\ [tab EXCEPT !.bucket[key] = v]
               = [before |-> tab.before, bucket |-> [f EXCEPT ![key] = v]]
      <4>1. [tab EXCEPT !.bucket[key] = v]
              = [before |-> tab.before, bucket |-> [f EXCEPT ![key] = v]]
        BY <3>1
      <4>2. [known EXCEPT !.table.bucket[key] = v]
              = [table |-> [before |-> tab.before, bucket |-> [f EXCEPT ![key] = v]],
                 recorded |-> R, promised |-> P]
        BY <3>1
      <4> QED BY <4>1, <4>2
    <3> QED BY <2>2, <3>2
  <2>4. [one EXCEPT !.promised[key] = Later(@, q)]
          = [one EXCEPT !.promised[key] = Later(P[key], q)]
    <3> HIDE DEF v, tab, f, R, P, one, t
    <3>1. one.promised = P
      BY <2>3
    <3> QED BY <3>1
  <2>5. [one EXCEPT !.promised[key] = Later(P[key], q)]
          = [table |-> t, recorded |-> R, promised |-> [P EXCEPT ![key] = Later(P[key], q)]]
    <3> DEFINE x == Later(P[key], q)
               g == [f EXCEPT ![key] = v]
    <3>1. t = [before |-> tab.before, bucket |-> g]
      OBVIOUS
    <3> HIDE DEF v, tab, f, R, P, one, x, t, g
    <3> QED BY <2>3, <3>1, PartForms DEF x
  <2> QED BY <2>1, <2>3, <2>4, <2>5
<1> QED BY <1>2, <1>3 DEF Put, BlockedTo, Told

-----------------------------------------------------------------------------
(* What an operation does for one key.                                     *)

LEMMA ForgottenIs ==
  ASSUME NEW known, NEW S,
         known = [table |-> known.table, recorded |-> known.recorded,
                  promised |-> known.promised]
  PROVE  Forgotten(known, S) =
           [table |-> known.table,
            recorded |-> [k \in Keys |-> IF k \in S THEN <<>> ELSE known.recorded[k]],
            promised |-> [k \in Keys |-> IF k \in S THEN 0 ELSE known.promised[k]]]
<1> DEFINE R == [k \in Keys |-> IF k \in S THEN <<>> ELSE known.recorded[k]]
           P == [k \in Keys |-> IF k \in S THEN 0 ELSE known.promised[k]]
<1>1. Forgotten(known, S) = [known EXCEPT !.recorded = R, !.promised = P]
  BY DEF Forgotten
<1> HIDE DEF R, P
<1>2. [known EXCEPT !.recorded = R, !.promised = P]
        = [table |-> known.table, recorded |-> R, promised |-> P]
  <2> DEFINE one == [known EXCEPT !.recorded = R]
  <2>1. [known EXCEPT !.recorded = R, !.promised = P] = [one EXCEPT !.promised = P]
    OBVIOUS
  <2>2. one = [table |-> known.table, recorded |-> R, promised |-> known.promised]
    OBVIOUS
  <2> HIDE DEF one
  <2>3. [one EXCEPT !.promised = P] = [table |-> known.table, recorded |-> R, promised |-> P]
    BY <2>2
  <2> QED BY <2>1, <2>3
<1> QED BY <1>1, <1>2 DEF R, P

LEMMA BucketsAre ==
  ASSUME NEW n, NEW X, NEW known, Good(n, known, X), NEW key \in DOMAIN known.table.bucket
  PROVE  /\ key \in Keys /\ known.table.bucket[key] \in Buckets
         /\ known.recorded[key] \in Seq(Times) /\ known.promised[key] \in Promises
<1> DEFINE D == DOMAIN known.table.bucket
           f == known.table.bucket
<1>1. f \in [D -> Buckets] /\ D \subseteq Keys /\ key \in D
  BY GoodIs
<1>2. known.recorded \in [Keys -> Seq(Times)] /\ known.promised \in [Keys -> Promises]
  BY GoodIs
<1>3. f[key] \in Buckets
  <2> HIDE DEF f, D
  <2> QED BY <1>1
<1> QED BY <1>1, <1>2, <1>3

(* What is known stays of the right type when some of it is forgotten.     *)
LEMMA ForgottenTyped ==
  ASSUME NEW known, known.recorded \in [Keys -> Seq(Times)],
         known.promised \in [Keys -> Promises], NEW S
  PROVE  /\ [k \in Keys |-> IF k \in S THEN <<>> ELSE known.recorded[k]] \in [Keys -> Seq(Times)]
         /\ [k \in Keys |-> IF k \in S THEN 0 ELSE known.promised[k]] \in [Keys -> Promises]
<1>1. <<>> \in Seq(Times) /\ 0 \in Promises
  BY LoginLimiterAssumption DEF Promises
<1> QED BY <1>1

(* The bucket of a key is found or made.                                   *)
LEMMA MadeRoomIs ==
  ASSUME NEW n, NEW X, NEW known, Good(n, known, X), NEW key, NEW c
  PROVE  MadeRoom(known, key, c) =
           [table |-> Created(known.table, key, c),
            recorded |-> [k \in Keys |-> IF k \in Gone(known.table, key) THEN <<>>
                                         ELSE known.recorded[k]],
            promised |-> [k \in Keys |-> IF k \in Gone(known.table, key) THEN 0
                                         ELSE known.promised[k]]]
<1> DEFINE S == Gone(known.table, key)
           R == [k \in Keys |-> IF k \in S THEN <<>> ELSE known.recorded[k]]
           P == [k \in Keys |-> IF k \in S THEN 0 ELSE known.promised[k]]
           f == Forgotten(known, S)
           t == Created(known.table, key, c)
<1>1. f = [table |-> known.table, recorded |-> R, promised |-> P]
  BY ForgottenIs DEF Good
<1>2. MadeRoom(known, key, c) = [f EXCEPT !.table = Created(@, key, c)]
  BY DEF MadeRoom, Gone
<1>3. f.table = known.table
  <2> HIDE DEF f, R, P, S
  <2> QED BY <1>1
<1>4. [f EXCEPT !.table = Created(@, key, c)] = [f EXCEPT !.table = t]
  <2> HIDE DEF f, R, P, S
  <2> QED BY <1>3
<1>5. [f EXCEPT !.table = t] = [table |-> t, recorded |-> R, promised |-> P]
  <2> HIDE DEF f, R, P, S, t
  <2> QED BY <1>1
<1> QED BY <1>2, <1>4, <1>5

LEMMA MadeRoomGood ==
  ASSUME NEW n \in Nat, NEW X, NEW known, Good(n, known, X), NEW key \in Keys,
         NEW c \in Times, NEW R, Timely(known.table, X, R, c)
  PROVE  LET w == MadeRoom(known, key, c) IN
         /\ Good(n, w, X) /\ key \in DOMAIN w.table.bucket /\ Timely(w.table, X, R, c)
         /\ w.table = Created(known.table, key, c)
<1> DEFINE w == MadeRoom(known, key, c)
           t == Created(known.table, key, c)
           gone == Gone(known.table, key)
           D == DOMAIN known.table.bucket
<1>1. /\ Sound(known.table) /\ Bounded(known.table) /\ c \in Nat
      /\ known.recorded \in [Keys -> Seq(Times)] /\ known.promised \in [Keys -> Promises]
  BY GoodIs, TimesAre
<1>2. /\ w = [table |-> t, recorded |-> w.recorded, promised |-> w.promised]
      /\ w.table = t
      /\ w.recorded = [k \in Keys |-> IF k \in gone THEN <<>> ELSE known.recorded[k]]
      /\ w.promised = [k \in Keys |-> IF k \in gone THEN 0 ELSE known.promised[k]]
  <2> DEFINE r == [k \in Keys |-> IF k \in gone THEN <<>> ELSE known.recorded[k]]
             p == [k \in Keys |-> IF k \in gone THEN 0 ELSE known.promised[k]]
  <2>1. w = [table |-> t, recorded |-> r, promised |-> p]
    BY MadeRoomIs
  <2> HIDE DEF w, t, r, p, gone
  <2> QED BY <2>1 DEF r, p
<1>3. /\ Sound(t) /\ Bounded(t)
      /\ DOMAIN t.bucket = (D \ gone) \union {key}
      /\ key \notin gone /\ gone \subseteq D
      /\ key \in D => t.bucket[key] = known.table.bucket[key]
      /\ key \notin D => t.bucket[key] = NewBucket(c)
      /\ \A k \in (DOMAIN t.bucket) \ {key} : t.bucket[k] = known.table.bucket[k]
  BY <1>1, CreatedIs
<1>4. /\ w.recorded \in [Keys -> Seq(Times)] /\ w.promised \in [Keys -> Promises]
  BY <1>1, <1>2, ForgottenTyped
<1> HIDE DEF w, t, gone
<1>5. Uses(known, w, key, gone)
  BY <1>2, <1>3, <1>4 DEF Uses, D
<1>6. key[1] \in LoginDimensions \union QuotaDimensions
  BY KeysHaveRules
<1>7. w.recorded[key] = known.recorded[key] /\ w.promised[key] = known.promised[key]
  BY <1>2, <1>3
<1>8. Agrees(n, known, X, key)
  BY DEF Good
<1>9. Kept(n, key, w.table.bucket[key], w.recorded[key], w.promised[key], X)
  <2>1. CASE key \in D
    BY <1>2, <1>3, <1>7, <1>8, <2>1 DEF Agrees, D
  <2>2. CASE key \notin D
    <3>1. Absent(n, key, known.recorded[key], known.promised[key], X)
      BY <1>8, <2>2 DEF Agrees, D
    <3>2. Kept(n, key, NewBucket(c), known.recorded[key], known.promised[key], X)
      BY <1>6, <3>1, NewKept
    <3> QED BY <1>2, <1>3, <1>7, <2>2, <3>2
  <2> QED BY <2>1, <2>2
<1>10. Good(n, w, X)
  BY <1>5, <1>9, StepGood
<1>11. Timely(w.table, X, R, c)
  <2> SUFFICES ASSUME NEW k \in R \intersect DOMAIN t.bucket, k \notin X
               PROVE  t.bucket[k].seen <= c
    BY <1>2 DEF Timely
  <2>1. CASE k \in D
    <3>1. t.bucket[k] = known.table.bucket[k]
      BY <1>3, <2>1
    <3> QED BY <2>1, <3>1 DEF Timely, D
  <2>2. CASE k \notin D
    <3>1. t.bucket[k] = NewBucket(c)
      BY <1>3, <2>2
    <3>2. NewBucket(c).seen = c
      BY DEF NewBucket
    <3> QED BY <1>1, <3>1, <3>2
  <2> QED BY <2>1, <2>2
<1>12. key \in DOMAIN w.table.bucket
  BY <1>2, <1>3
<1> QED BY <1>2, <1>10, <1>11, <1>12 DEF w, t

(* A changed bucket that is timely leaves the table timely.                *)
LEMMA StaysTimely ==
  ASSUME NEW X, NEW R, NEW c, NEW tab, Timely(tab, X, R, c), NEW key, NEW new,
         DOMAIN new.bucket = DOMAIN tab.bucket,
         \A k \in (DOMAIN tab.bucket) \ {key} : new.bucket[k] = tab.bucket[k],
         key \in R /\ key \notin X => new.bucket[key].seen <= c
  PROVE  Timely(new, X, R, c)
BY DEF Timely

(* An attempt counts.                                                      *)
LEMMA AttemptedGood ==
  ASSUME NEW n \in Nat, NEW X, NEW known, Good(n, known, X),
         NEW key, key \in DOMAIN known.table.bucket, NEW c \in Times,
         key \notin X => known.table.bucket[key].seen <= c,
         key[1] \in QuotaDimensions => Len(known.table.bucket[key].attempts) < Rule(key).limit,
         NEW R, Timely(known.table, X, R, c)
  PROVE  LET w == Attempted(known, key, c) IN
         /\ Good(n, w, X) /\ DOMAIN w.table.bucket = DOMAIN known.table.bucket
         /\ key \in DOMAIN w.table.bucket /\ w.table.before = known.table.before
         /\ \A k \in (DOMAIN known.table.bucket) \ {key} :
               w.table.bucket[k] = known.table.bucket[k]
         /\ w.table.bucket[key].seen = c /\ Timely(w.table, X, R, c)
<1> DEFINE w == Attempted(known, key, c)
           b == known.table.bucket[key]
           v == CountedAt(b, c)
           r == known.recorded[key]
           p == known.promised[key]
<1>1. /\ key \in Keys /\ b \in Buckets /\ r \in Seq(Times) /\ p \in Promises /\ c \in Nat
      /\ known.table.bucket \in [DOMAIN known.table.bucket -> Buckets]
  BY BucketsAre, GoodIs, TimesAre
<1>2. Kept(n, key, b, r, p, X)
  BY <1>1 DEF Good, Agrees
<1>3. v \in Buckets /\ Kept(n, key, v, Append(r, c), p, X) /\ v.seen = c
  <2>1. key[1] \in LoginDimensions \union QuotaDimensions
    BY <1>1, KeysHaveRules
  <2>2. key \notin X => b.seen <= c
    OBVIOUS
  <2>3. key[1] \in QuotaDimensions => Len(b.attempts) < Rule(key).limit
    OBVIOUS
  <2>4. b \in Buckets /\ r \in Seq(Times)
    BY <1>1
  <2> HIDE DEF b, r, p
  <2> QED BY <1>2, <2>1, <2>2, <2>3, <2>4, CountedKept
<1>4. w = Put(known, key, v, Append(r, c), p)
  BY AttemptedForm
<1>5. Append(r, c) \in Seq(Times)
  BY <1>1
<1> HIDE DEF w, v, b, r, p
<1>6. /\ Good(n, w, X) /\ DOMAIN w.table.bucket = DOMAIN known.table.bucket
      /\ w.table.before = known.table.before /\ w.table.bucket[key] = v
      /\ \A k \in (DOMAIN known.table.bucket) \ {key} :
            w.table.bucket[k] = known.table.bucket[k]
  <2>1. v \in Buckets /\ p \in Promises /\ Kept(n, key, v, Append(r, c), p, X)
    BY <1>1, <1>3
  <2> DEFINE r2 == Append(r, c)
  <2>2. /\ v \in Buckets /\ r2 \in Seq(Times) /\ p \in Promises /\ Kept(n, key, v, r2, p, X)
        /\ w = Put(known, key, v, r2, p)
    BY <1>4, <1>5, <2>1
  <2> HIDE DEF r2
  <2> QED BY <2>2, PutGood
<1>8. w.table.bucket[key].seen <= c /\ w.table.bucket[key].seen = c
  BY <1>1, <1>3, <1>6
<1>9. Timely(w.table, X, R, c)
  BY <1>6, <1>8, StaysTimely
<1> QED BY <1>6, <1>8, <1>9 DEF w

(* Another table, with what was known.                                     *)
On(known, tab) ==
  [table |-> tab, recorded |-> known.recorded, promised |-> known.promised]

(* A bucket is looked at.                                                  *)
LEMMA TouchedGood ==
  ASSUME NEW n \in Nat, NEW X, NEW known, Good(n, known, X),
         NEW key \in DOMAIN known.table.bucket, NEW c \in Times, c <= n,
         NEW R, key \in R, Timely(known.table, X, R, c),
         NEW w, w = On(known, Touched(known.table, key, c))
  PROVE  /\ Good(n, w, X) /\ DOMAIN w.table.bucket = DOMAIN known.table.bucket
         /\ w.recorded = known.recorded /\ w.promised = known.promised
         /\ Timely(w.table, X, R, c)
         /\ \A k \in (DOMAIN known.table.bucket) \ {key} :
               w.table.bucket[k] = known.table.bucket[k]
         /\ Len(w.table.bucket[key].attempts) <= Len(known.table.bucket[key].attempts)
         /\ \A j \in (DOMAIN known.table.bucket) \ {key} : <<key, j>> \notin w.table.before
         /\ \A j, k \in (DOMAIN known.table.bucket) \ {key} :
               <<j, k>> \in w.table.before <=> <<j, k>> \in known.table.before
<1> DEFINE tab == known.table
           D == DOMAIN tab.bucket
           b == tab.bucket[key]
           v == SeenAt(Pruned(b, key, c), c)
           t == [tab EXCEPT !.bucket[key] = v]
           u == MovedToEnd(t, key)
<1>1. /\ Sound(tab) /\ Bounded(tab) /\ D \subseteq Keys
      /\ known.recorded \in [Keys -> Seq(Times)] /\ known.promised \in [Keys -> Promises]
      /\ tab.bucket \in [D -> Buckets]
  BY GoodIs
<1>2. /\ key \in Keys /\ b \in Buckets /\ known.recorded[key] \in Seq(Times)
      /\ known.promised[key] \in Promises /\ c \in Nat
  BY BucketsAre, TimesAre
<1>3. key[1] \in LoginDimensions \union QuotaDimensions
  BY <1>2, KeysHaveRules
<1>4. Kept(n, key, b, known.recorded[key], known.promised[key], X)
  BY <1>2 DEF Good, Agrees
<1>5. key \notin X => b.seen <= c
  BY DEF Timely
<1>6. /\ v \in Buckets /\ Kept(n, key, v, known.recorded[key], known.promised[key], X)
      /\ v.seen = c /\ Len(v.attempts) <= Len(b.attempts)
  <2> HIDE DEF b
  <2>1. /\ Pruned(b, key, c) \in Buckets
        /\ Kept(n, key, Pruned(b, key, c), known.recorded[key], known.promised[key], X)
        /\ Pruned(b, key, c).seen = b.seen
        /\ Len(Pruned(b, key, c).attempts) <= Len(b.attempts)
    BY <1>2, <1>3, <1>4, PrunedKept
  <2> DEFINE a == Pruned(b, key, c)
             r == known.recorded[key]
             p == known.promised[key]
  <2>2. key \notin X => a.seen <= c
    BY <1>5, <2>1
  <2>3. a \in Buckets /\ Kept(n, key, a, r, p, X) /\ Len(a.attempts) <= Len(b.attempts)
    BY <2>1
  <2> HIDE DEF a, r, p
  <2>4. /\ SeenAt(a, c) \in Buckets /\ Kept(n, key, SeenAt(a, c), r, p, X)
        /\ SeenAt(a, c).seen = c /\ SeenAt(a, c).attempts = a.attempts
    BY <2>2, <2>3, SeenKept
  <2> QED BY <2>3, <2>4 DEF a, r, p
<1>7. Touched(tab, key, c) = u
  BY DEF Touched, SeenAt
<1> HIDE DEF v
<1>8. /\ Sound(t) /\ t.before = tab.before /\ t.bucket = [tab.bucket EXCEPT ![key] = v]
      /\ DOMAIN t.bucket = D
  BY <1>1, <1>6, PutIs
<1>9. /\ t.bucket[key] = v /\ \A k \in D \ {key} : t.bucket[k] = tab.bucket[k]
  <2> HIDE DEF t
  <2> QED BY <1>1, <1>8
<1> HIDE DEF t
<1>10. /\ Sound(u) /\ u.bucket = t.bucket
       /\ \A j \in D \ {key} : <<key, j>> \notin u.before
       /\ \A j, k \in D \ {key} : <<j, k>> \in u.before <=> <<j, k>> \in tab.before
  BY <1>8, MovedIs
<1> HIDE DEF u
<1>11. /\ w.table = u /\ w.recorded = known.recorded /\ w.promised = known.promised
       /\ w = [table |-> w.table, recorded |-> w.recorded, promised |-> w.promised]
  BY <1>7 DEF On
<1>12. /\ w.table.bucket[key] = v /\ DOMAIN w.table.bucket = D
       /\ \A k \in D \ {key} : w.table.bucket[k] = tab.bucket[k]
  BY <1>8, <1>9, <1>10, <1>11
<1>13. Good(n, w, X)
  <2>1. PICK gone : gone = {}
    OBVIOUS
  <2>2. Bounded(w.table)
    BY <1>1, <1>12 DEF Bounded
  <2>3. Uses(known, w, key, gone)
    BY <1>1, <1>2, <1>10, <1>11, <1>12, <2>1, <2>2 DEF Uses
  <2>4. Kept(n, key, w.table.bucket[key], w.recorded[key], w.promised[key], X)
    BY <1>6, <1>11, <1>12
  <2> QED BY <2>3, <2>4, StepGood
<1>14. Timely(w.table, X, R, c)
  <2>1. w.table.bucket[key].seen <= c
    BY <1>2, <1>6, <1>12
  <2> QED BY <1>12, <2>1, StaysTimely
<1>15. Len(w.table.bucket[key].attempts) <= Len(b.attempts)
  BY <1>6, <1>12
<1> QED BY <1>10, <1>11, <1>12, <1>13, <1>14, <1>15

(* The end of a cooldown.                                                  *)
LEMMA PenaltyIs ==
  ASSUME NEW tab, NEW key \in Keys, tab.bucket[key] \in Buckets, NEW c \in Times
  PROVE  Penalty(tab, key, c) \in Int /\ Penalty(tab, key, c) <= MaxTime + BackoffMax
<1> DEFINE failures == Len(tab.bucket[key].attempts)
           limit == Rule(key).limit
<1>1. failures \in Nat /\ limit \in Nat
  BY BucketIs, RuleIs, KeysHaveRules
<1>2. /\ MaxTime \in Nat /\ BackoffMax \in Nat /\ BackoffBase \in Nat /\ c \in Nat /\ c <= MaxTime
  BY LoginLimiterAssumption DEF Times
<1>3. Penalty(tab, key, c) = IF failures >= limit THEN c + Cooldown(key, failures) ELSE 0
  BY DEF Penalty
<1>4. ASSUME failures >= limit
      PROVE  Cooldown(key, failures) \in Int /\ Cooldown(key, failures) <= BackoffMax
  <2> DEFINE backoff == BackoffBase * 2 ^ (failures - limit)
  <2>1. failures - limit \in Nat
    BY <1>1, <1>4
  <2>2. 2 ^ (failures - limit) \in Int
    <3>1. \A m \in Nat : 2 ^ m \in Int
      OBVIOUS
    <3> QED BY <2>1, <3>1
  <2>3. backoff \in Int
    <3>1. \A x, y \in Int : x * y \in Int
      OBVIOUS
    <3> QED BY <1>2, <2>2, <3>1
  <2>4. Cooldown(key, failures) = IF backoff < BackoffMax THEN backoff ELSE BackoffMax
    BY DEF Cooldown
  <2> HIDE DEF backoff
  <2> QED BY <1>2, <2>3, <2>4
<1> HIDE DEF failures, limit
<1> QED BY <1>1, <1>2, <1>3, <1>4

(* A failure for one key.                                                  *)
LEMMA FailedGood ==
  ASSUME NEW n \in Nat, NEW X, NEW known, Good(n, known, X),
         NEW key \in Keys, key[1] \in LoginDimensions, NEW c \in Times, c <= n,
         NEW R, key \in R, Timely(known.table, X, R, c), NEW w, w = Failed(known, key, c)
  PROVE  Good(n, w, X) /\ Timely(w.table, X, R, c)
<1> DEFINE room == MadeRoom(known, key, c)
           b0 == room.table.bucket[key]
           ready == [room EXCEPT !.table.bucket[key] = Pruned(@, key, c)]
           counted == Attempted(ready, key, c)
           penalty == Penalty(counted.table, key, c)
           b2 == counted.table.bucket[key]
<1>1. Good(n, room, X) /\ key \in DOMAIN room.table.bucket /\ Timely(room.table, X, R, c)
  BY MadeRoomGood
<1>2. key[1] \notin QuotaDimensions /\ key[1] \in LoginDimensions \union QuotaDimensions
  BY DimensionsDiffer
<1>3. ready = Put(room, key, Pruned(b0, key, c), room.recorded[key], room.promised[key])
  <2> HIDE DEF room
  <2> QED BY <1>1, PrunedForm
<1> HIDE DEF room, ready
<1>4. /\ b0 \in Buckets /\ room.recorded[key] \in Seq(Times) /\ room.promised[key] \in Promises
  BY <1>1, BucketsAre
<1>5. Kept(n, key, b0, room.recorded[key], room.promised[key], X)
  BY <1>1 DEF Good, Agrees
<1>6. key \notin X => b0.seen <= c
  BY <1>1 DEF Timely
<1>7. /\ Pruned(b0, key, c) \in Buckets
      /\ Kept(n, key, Pruned(b0, key, c), room.recorded[key], room.promised[key], X)
      /\ Pruned(b0, key, c).seen = b0.seen
  <2> HIDE DEF b0
  <2> QED BY <1>2, <1>4, <1>5, PrunedKept
<1>8. /\ Good(n, ready, X) /\ DOMAIN ready.table.bucket = DOMAIN room.table.bucket
      /\ ready.table.bucket[key] = Pruned(b0, key, c)
      /\ \A k \in (DOMAIN room.table.bucket) \ {key} :
            ready.table.bucket[k] = room.table.bucket[k]
  <2> HIDE DEF b0
  <2> QED BY <1>1, <1>3, <1>4, <1>7, PutGood
<1>9. key \notin X => ready.table.bucket[key].seen <= c
  BY <1>6, <1>7, <1>8
<1>10. Timely(ready.table, X, R, c)
  BY <1>1, <1>8, <1>9, StaysTimely
<1>11. Good(n, counted, X) /\ Timely(counted.table, X, R, c)
       /\ key \in DOMAIN counted.table.bucket
  <2>1. key \in DOMAIN ready.table.bucket
    BY <1>1, <1>8
  <2>2. key[1] \in QuotaDimensions => Len(ready.table.bucket[key].attempts) < Rule(key).limit
    BY <1>2
  <2>3. Good(n, ready, X)
    BY <1>8
  <2> QED BY <1>9, <1>10, <2>1, <2>2, <2>3, AttemptedGood
<1>12. w = IF penalty = 0 THEN counted
           ELSE [counted EXCEPT !.table.bucket[key].until = Later(@, penalty),
                                !.promised[key] = Later(@, penalty)]
  BY DEF Failed, room, ready
<1> HIDE DEF counted
<1>13. /\ b2 \in Buckets /\ counted.recorded[key] \in Seq(Times)
       /\ counted.promised[key] \in Promises
  BY <1>11, BucketsAre
<1>14. penalty \in Int /\ penalty <= MaxTime + BackoffMax
  BY <1>13, PenaltyIs
<1> HIDE DEF penalty
<1>15. CASE penalty = 0
  BY <1>11, <1>12, <1>15
<1>16. CASE penalty # 0
  <2>1. w = Put(counted, key, BlockedTo(b2, penalty), counted.recorded[key],
                Later(counted.promised[key], penalty))
    <3> DEFINE e == Told(counted, key, penalty)
    <3>1. e = Put(counted, key, BlockedTo(b2, penalty), counted.recorded[key],
                  Later(counted.promised[key], penalty))
      BY <1>11, BlockedForm
    <3>2. w = e
      BY <1>12, <1>16 DEF Told
    <3> QED BY <3>1, <3>2
  <2>2. Kept(n, key, b2, counted.recorded[key], counted.promised[key], X)
    BY <1>11 DEF Good, Agrees
  <2>3. /\ BlockedTo(b2, penalty) \in Buckets
        /\ Kept(n, key, BlockedTo(b2, penalty), counted.recorded[key],
                Later(counted.promised[key], penalty), X)
        /\ BlockedTo(b2, penalty).seen = b2.seen
        /\ Later(counted.promised[key], penalty) \in Promises
    <3> DEFINE r == counted.recorded[key]
               p == counted.promised[key]
    <3>1. b2 \in Buckets /\ p \in Promises /\ Kept(n, key, b2, r, p, X)
      BY <1>13, <2>2
    <3> HIDE DEF b2, r, p
    <3>2. /\ BlockedTo(b2, penalty) \in Buckets
          /\ Kept(n, key, BlockedTo(b2, penalty), r, Later(p, penalty), X)
          /\ BlockedTo(b2, penalty).seen = b2.seen /\ Later(p, penalty) \in Promises
      BY <1>14, <3>1, BlockedKept
    <3> QED BY <3>2 DEF r, p
  <2>4. /\ Good(n, w, X) /\ DOMAIN w.table.bucket = DOMAIN counted.table.bucket
        /\ w.table.bucket[key] = BlockedTo(b2, penalty)
        /\ \A k \in (DOMAIN counted.table.bucket) \ {key} :
              w.table.bucket[k] = counted.table.bucket[k]
    <3> HIDE DEF b2
    <3> QED BY <1>11, <1>13, <2>1, <2>3, PutGood
  <2>5. key \notin X => w.table.bucket[key].seen <= c
    BY <1>11, <2>3, <2>4 DEF Timely
  <2>6. Timely(w.table, X, R, c)
    BY <1>11, <2>4, <2>5, StaysTimely
  <2> QED BY <2>4, <2>6
<1> QED BY <1>15, <1>16

-----------------------------------------------------------------------------
(* What an operation does for all of its keys.                             *)

LEMMA OnIs ==
  ASSUME NEW n, NEW X, NEW known, Good(n, known, X)
  PROVE  /\ On(known, known.table) = known
         /\ \A t : /\ On(known, t).table = t /\ On(known, t).recorded = known.recorded
                   /\ On(known, t).promised = known.promised
         /\ \A t, u : On(On(known, t), u) = On(known, u)
BY DEF On, Good

(* Keys that go leave nothing behind.                                      *)
LEMMA DropGood ==
  ASSUME NEW n, NEW X, NEW known, Good(n, known, X), NEW S, NEW w,
         w = [table |-> w.table, recorded |-> w.recorded, promised |-> w.promised],
         w.table = Without(known.table, S),
         w.recorded \in [Keys -> Seq(Times)], w.promised \in [Keys -> Promises],
         \A k \in Keys \ S : /\ w.recorded[k] = known.recorded[k]
                             /\ w.promised[k] = known.promised[k],
         \A k \in Keys \intersect S : Absent(n, k, w.recorded[k], w.promised[k], X)
  PROVE  Good(n, w, X)
<1> DEFINE D == DOMAIN known.table.bucket
<1>1. Sound(known.table) /\ Bounded(known.table) /\ IsFiniteSet(D)
  BY DEF Good, Sound
<1>2. /\ Sound(w.table) /\ DOMAIN w.table.bucket = D \ S
      /\ \A k \in D \ S : w.table.bucket[k] = known.table.bucket[k]
  BY <1>1, WithoutIs
<1>3. Bounded(w.table)
  <2>1. D \ S \in SUBSET D
    OBVIOUS
  <2> HIDE DEF D
  <2>2. Cardinality(D \ S) <= Cardinality(D) /\ Cardinality(D) \in Nat /\ Cardinality(D \ S) \in Nat
    BY <1>1, <2>1, FS_Subset, FS_CardinalityType
  <2>3. Cardinality(D) <= MaxKeys /\ MaxKeys \in Nat
    BY <1>1, LoginLimiterAssumption DEF Bounded, D
  <2> QED BY <1>2, <2>2, <2>3 DEF Bounded
<1>4. ASSUME NEW k \in Keys PROVE Agrees(n, w, X, k)
  <2>1. Agrees(n, known, X, k)
    BY DEF Good
  <2>2. CASE k \in S
    BY <1>2, <2>2 DEF Agrees
  <2>3. CASE k \notin S
    BY <1>2, <2>1, <2>3 DEF Agrees
  <2> QED BY <2>2, <2>3
<1> QED BY <1>2, <1>3, <1>4 DEF Good

(* What is said of fewer keys is true of more of them.                     *)
LEMMA WiderGood ==
  ASSUME NEW n, NEW X, NEW Y, NEW known, Good(n, known, X), X \subseteq Y
  PROVE  Good(n, known, Y)
<1> SUFFICES ASSUME NEW k \in Keys PROVE Agrees(n, known, Y, k)
  BY DEF Good
<1>1. Agrees(n, known, X, k)
  BY DEF Good
<1> QED BY <1>1 DEF Agrees, Kept, Absent

(* A table that is cleaned up.                                             *)
LEMMA MaintainedGood ==
  ASSUME NEW n \in Nat, NEW X, NEW known, Good(n, known, X), NEW c \in Times, c <= n,
         NEW R, Timely(known.table, X, R, c), NEW tab \in Maintained(known.table, c)
  PROVE  Good(n, On(known, tab), X) /\ Timely(tab, X, R, c)
<1> DEFINE D == DOMAIN known.table.bucket
           S == {k \in D : Expired(known.table.bucket[k], c)}
<1>1. CASE tab = known.table
  BY <1>1, OnIs
<1>2. CASE tab = CleanedUp(known.table, c)
  <2> DEFINE w == On(known, tab)
  <2>1. tab = Without(known.table, S)
    BY <1>2 DEF CleanedUp
  <2>2. /\ w.table = tab /\ w.recorded = known.recorded /\ w.promised = known.promised
        /\ w = [table |-> w.table, recorded |-> w.recorded, promised |-> w.promised]
    BY DEF On
  <2>3. /\ known.recorded \in [Keys -> Seq(Times)] /\ known.promised \in [Keys -> Promises]
        /\ Sound(known.table) /\ D \subseteq Keys
    BY GoodIs
  <2>4. ASSUME NEW k \in Keys \intersect S
        PROVE  Absent(n, k, known.recorded[k], known.promised[k], X)
    <3>1. /\ k[1] \in LoginDimensions \union QuotaDimensions
          /\ known.table.bucket[k] \in Buckets /\ known.promised[k] \in Promises
          /\ Expired(known.table.bucket[k], c)
      BY KeysHaveRules, BucketsAre
    <3>2. Kept(n, k, known.table.bucket[k], known.recorded[k], known.promised[k], X)
      BY DEF Good, Agrees
    <3> QED BY <3>1, <3>2, ExpiredAbsent
  <2> HIDE DEF w, S
  <2>5. Good(n, w, X)
    BY <2>1, <2>2, <2>3, <2>4, DropGood
  <2>6. /\ DOMAIN tab.bucket = D \ S
        /\ \A k \in D \ S : tab.bucket[k] = known.table.bucket[k]
    BY <2>1, <2>3, WithoutIs
  <2>7. Timely(tab, X, R, c)
    BY <2>6 DEF Timely
  <2> QED BY <2>5, <2>7 DEF w
<1> QED BY <1>1, <1>2 DEF Maintained

-----------------------------------------------------------------------------
(* The keys of an operation that looks at them.                            *)

(* The keys in A have been used after all that are not in R.               *)
Recent(tab, A, R) ==
  \A q \in A \intersect DOMAIN tab.bucket : \A j \in (DOMAIN tab.bucket) \ R :
     <<j, q>> \in tab.before

CheckedOne(tab, key, c) == IF key \in DOMAIN tab.bucket THEN Touched(tab, key, c) ELSE tab

LEMMA CheckedOneGood ==
  ASSUME NEW n \in Nat, NEW X, NEW known, NEW tab, Good(n, On(known, tab), X),
         NEW c \in Times, c <= n, NEW R, NEW key \in R, NEW A,
         Timely(tab, X, R, c), Recent(tab, A, R), NEW new, new = CheckedOne(tab, key, c)
  PROVE  /\ Good(n, On(known, new), X) /\ Timely(new, X, R, c)
         /\ Recent(new, A \union {key}, R)
<1> DEFINE D == DOMAIN tab.bucket
           old == On(known, tab)
           w == On(known, new)
<1>1. /\ old.table = tab /\ old.recorded = known.recorded /\ old.promised = known.promised
      /\ On(old, new) = w /\ w.table = new
  BY DEF On
<1> HIDE DEF w, old
<1>2. CASE key \notin D
  <2>1. new = tab
    BY <1>2 DEF CheckedOne
  <2>2. Recent(new, A \union {key}, R)
    BY <1>2, <2>1 DEF Recent
  <2> QED BY <2>1, <2>2
<1>3. CASE key \in D
  <2>1. w = On(old, Touched(old.table, key, c))
    BY <1>1, <1>3 DEF CheckedOne
  <2>2. Good(n, old, X) /\ Timely(old.table, X, R, c) /\ key \in DOMAIN old.table.bucket
    BY <1>1, <1>3 DEF old
  <2>3. /\ Good(n, w, X) /\ DOMAIN w.table.bucket = DOMAIN old.table.bucket
        /\ Timely(w.table, X, R, c)
        /\ \A j \in (DOMAIN old.table.bucket) \ {key} : <<key, j>> \notin w.table.before
        /\ \A j, k \in (DOMAIN old.table.bucket) \ {key} :
              <<j, k>> \in w.table.before <=> <<j, k>> \in old.table.before
    BY <2>1, <2>2, TouchedGood
  <2>4. \A j, k \in D : <<j, k>> \in new.before <=> j # k /\ <<k, j>> \notin new.before
    <3>1. Ordered(new) /\ DOMAIN new.bucket = D
      BY <1>1, <2>3 DEF Good, Sound
    <3> HIDE DEF D
    <3> QED BY <3>1 DEF Ordered
  <2>5. Recent(new, A \union {key}, R)
    <3> SUFFICES ASSUME NEW q \in (A \union {key}) \intersect D, NEW j \in D \ R
                 PROVE  <<j, q>> \in new.before
      BY <1>1, <2>3 DEF Recent
    <3>1. CASE q = key
      BY <1>1, <2>3, <2>4, <3>1
    <3>2. CASE q # key
      <4>1. <<j, q>> \in tab.before
        BY <3>2 DEF Recent
      <4> QED BY <1>1, <2>3, <3>2, <4>1
    <3> QED BY <3>1, <3>2
  <2> QED BY <1>1, <2>3, <2>5 DEF w
<1> QED BY <1>2, <1>3

(* The loop over the keys.                                                 *)
LEMMA CheckedIs ==
  ASSUME NEW tab, NEW keys, NEW c
  PROVE  LET one == CheckedOne(tab, keys[1], c)
             two == IF Len(keys) < 2 THEN one ELSE CheckedOne(one, keys[2], c)
         IN Checked(tab, keys, c) = IF Len(keys) < 3 THEN two ELSE CheckedOne(two, keys[3], c)
BY DEF Checked, InTurn, CheckedOne

(* Two or three keys.                                                      *)
LEMMA RangeIs ==
  ASSUME NEW keys, Distinct(keys)
  PROVE  \/ /\ Len(keys) = 2 /\ Range(keys) = {keys[1], keys[2]} /\ keys[1] # keys[2]
         \/ /\ Len(keys) = 3 /\ Range(keys) = {keys[1], keys[2], keys[3]}
            /\ keys[1] # keys[2] /\ keys[1] # keys[3] /\ keys[2] # keys[3]
<1>1. 1 .. 2 = {1, 2} /\ 1 .. 3 = {1, 2, 3}
  OBVIOUS
<1>2. Range(keys) = {keys[i] : i \in 1 .. Len(keys)}
  BY DEF Distinct
<1>3. CASE Len(keys) = 2
  <2>1. Range(keys) = {keys[1], keys[2]}
    BY <1>1, <1>2, <1>3
  <2>2. keys[1] # keys[2]
    BY <1>1, <1>3 DEF Distinct
  <2> QED BY <1>3, <2>1, <2>2
<1>4. CASE Len(keys) = 3
  <2>1. Range(keys) = {keys[1], keys[2], keys[3]}
    BY <1>1, <1>2, <1>4
  <2>2. keys[1] # keys[2] /\ keys[1] # keys[3] /\ keys[2] # keys[3]
    BY <1>1, <1>4 DEF Distinct
  <2> QED BY <1>4, <2>1, <2>2
<1> QED BY <1>3, <1>4 DEF Distinct

LEMMA CheckedGood ==
  ASSUME NEW n \in Nat, NEW X, NEW known, NEW tab, Good(n, On(known, tab), X),
         NEW c \in Times, c <= n, NEW keys, Distinct(keys), NEW R, R = Range(keys),
         Timely(tab, X, R, c), NEW new, new = Checked(tab, keys, c)
  PROVE  Good(n, On(known, new), X) /\ Timely(new, X, R, c) /\ Recent(new, R, R)
<1> DEFINE one == CheckedOne(tab, keys[1], c)
           two == CheckedOne(one, keys[2], c)
           three == CheckedOne(two, keys[3], c)
<1>1. Recent(tab, {}, R)
  BY DEF Recent
<1>2. keys[1] \in R /\ keys[2] \in R /\ (Len(keys) = 3 => keys[3] \in R)
  BY RangeIs
<1>3. /\ Good(n, On(known, one), X) /\ Timely(one, X, R, c)
      /\ Recent(one, {} \union {keys[1]}, R)
  BY <1>1, <1>2, CheckedOneGood
<1> HIDE DEF one
<1>4. /\ Good(n, On(known, two), X) /\ Timely(two, X, R, c)
      /\ Recent(two, ({} \union {keys[1]}) \union {keys[2]}, R)
  BY <1>2, <1>3, CheckedOneGood
<1> HIDE DEF two
<1>5. CASE Len(keys) = 2
  <2>1. new = two
    BY <1>5, CheckedIs DEF one, two
  <2>2. ({} \union {keys[1]}) \union {keys[2]} = R
    BY <1>5, RangeIs
  <2> QED BY <1>4, <2>1, <2>2
<1>6. CASE Len(keys) = 3
  <2>1. new = three
    BY <1>6, CheckedIs DEF one, two
  <2>2. (({} \union {keys[1]}) \union {keys[2]}) \union {keys[3]} = R
    BY <1>6, RangeIs
  <2>3. /\ Good(n, On(known, three), X) /\ Timely(three, X, R, c)
        /\ Recent(three, (({} \union {keys[1]}) \union {keys[2]}) \union {keys[3]}, R)
    BY <1>2, <1>4, <1>6, CheckedOneGood
  <2> QED BY <2>1, <2>2, <2>3
<1> QED BY <1>5, <1>6 DEF Distinct

-----------------------------------------------------------------------------
(* Failures, and attempts that are granted.                                *)

LEMMA FailuresIs ==
  ASSUME NEW tab, NEW keys, NEW c, Len(keys) = 3
  PROVE  Failures(tab, keys, c)
           = Failed(Failed(Failed(WithHistory(tab), keys[1], c), keys[2], c), keys[3], c)
BY DEF Failures, InTurn

LEMMA FailuresGood ==
  ASSUME NEW n \in Nat, NEW X, NEW tab, Good(n, WithHistory(tab), X),
         NEW keys \in LoginRequests, NEW c \in Times, c <= n, NEW R, R = Range(keys),
         Timely(tab, X, R, c), NEW w, w = Failures(tab, keys, c)
  PROVE  Good(n, w, X)
<1> DEFINE zero == WithHistory(tab)
           one == Failed(zero, keys[1], c)
           two == Failed(one, keys[2], c)
           three == Failed(two, keys[3], c)
<1>1. /\ Len(keys) = 3 /\ R = {keys[1], keys[2], keys[3]}
      /\ \A k \in R : k \in Keys /\ k[1] \in LoginDimensions
  <2>1. Distinct(keys) /\ Len(keys) = 3 /\ \A k \in R : k[1] \in LoginDimensions
    BY LoginKeysAre
  <2>2. R = {keys[1], keys[2], keys[3]}
    BY <2>1, RangeIs
  <2>3. \A k \in R : k \in Keys
    BY OwnKeys
  <2> QED BY <2>1, <2>2, <2>3
<1>2. w = three
  BY <1>1, FailuresIs
<1>3. Good(n, zero, X) /\ Timely(zero.table, X, R, c)
  BY DEF WithHistory
<1> HIDE DEF zero
<1>4. Good(n, one, X) /\ Timely(one.table, X, R, c)
  BY <1>1, <1>3, FailedGood
<1> HIDE DEF one
<1>5. Good(n, two, X) /\ Timely(two.table, X, R, c)
  BY <1>1, <1>4, FailedGood
<1> HIDE DEF two
<1>6. Good(n, three, X) /\ Timely(three.table, X, R, c)
  BY <1>1, <1>5, FailedGood
<1> QED BY <1>2, <1>6

(* The keys of a request are at most three.                                *)
LEMMA ThreeKeys ==
  ASSUME NEW keys, Distinct(keys), NEW R, R = Range(keys)
  PROVE  IsFiniteSet(R) /\ Cardinality(R) \in Nat /\ Cardinality(R) <= 3
<1> DEFINE a == {keys[1]}
           b == {keys[1]} \union {keys[2]}
           d == b \union {keys[3]}
<1>1. IsFiniteSet(a) /\ Cardinality(a) = 1
  BY FS_Singleton
<1>2. IsFiniteSet(b) /\ Cardinality(b) \in Nat /\ Cardinality(b) <= 2
  <2> HIDE DEF a
  <2>1. /\ IsFiniteSet(a \union {keys[2]})
        /\ \/ Cardinality(a \union {keys[2]}) = Cardinality(a)
           \/ Cardinality(a \union {keys[2]}) = Cardinality(a) + 1
    BY <1>1, FS_AddElement
  <2> QED BY <1>1, <2>1 DEF a
<1>3. IsFiniteSet(d) /\ Cardinality(d) \in Nat /\ Cardinality(d) <= 3
  <2> HIDE DEF b
  <2>1. /\ IsFiniteSet(b \union {keys[3]})
        /\ \/ Cardinality(b \union {keys[3]}) = Cardinality(b)
           \/ Cardinality(b \union {keys[3]}) = Cardinality(b) + 1
    BY <1>2, FS_AddElement
  <2> QED BY <1>2, <2>1
<1>4. R = b \/ R = d
  BY RangeIs
<1> HIDE DEF b, d
<1> QED BY <1>2, <1>3, <1>4

(* Of a table that has been looked at the keys of the operation do not go. *)
LEMMA OthersGo ==
  ASSUME NEW tab, Sound(tab), NEW R, Recent(tab, R, R), IsFiniteSet(R),
         Cardinality(R) <= 3, NEW key \in R
  PROVE  Gone(tab, key) \intersect R = {}
<1> DEFINE D == DOMAIN tab.bucket
<1>1. CASE key \in D
  BY <1>1 DEF Gone
<1>2. CASE key \notin D /\ ~IsFull(tab)
  BY <1>2 DEF Gone, Evicted
<1>3. CASE key \notin D /\ IsFull(tab)
  <2>1. PICK e \in D : Evicted(tab) = {e} /\ \A j \in D \ {e} : <<e, j>> \in tab.before
    BY <1>3, EvictedIs
  <2>2. Gone(tab, key) = {e}
    BY <1>3, <2>1 DEF Gone
  <2>3. e \notin R
    <3> SUFFICES ASSUME e \in R PROVE FALSE
      OBVIOUS
    <3>1. ASSUME NEW j \in D \ R PROVE FALSE
      <4>1. <<j, e>> \in tab.before
        BY DEF Recent
      <4>2. <<e, j>> \in tab.before
        BY <2>1
      <4> QED BY <4>1, <4>2 DEF Sound, Ordered
    <3> DEFINE S == R \ {key}
    <3>2. D \in SUBSET S
      BY <1>3, <3>1
    <3>3. IsFiniteSet(S) /\ Cardinality(S) = Cardinality(R) - 1 /\ Cardinality(R) \in Nat
      BY FS_RemoveElement, FS_CardinalityType
    <3> HIDE DEF S
    <3>4. Cardinality(D) <= Cardinality(S) /\ Cardinality(D) \in Nat
      BY <3>2, <3>3, FS_Subset, FS_CardinalityType
    <3>5. Cardinality(D) >= MaxKeys /\ MaxKeys \in Nat /\ MaxKeys >= 3
      BY <1>3, LoginLimiterAssumption DEF IsFull
    <3> QED BY <3>3, <3>4, <3>5
  <2> QED BY <2>2, <2>3
<1> QED BY <1>1, <1>2, <1>3

GrantOne(tab, known, key, c) ==
  Attempted(IF key \in DOMAIN tab.bucket THEN known ELSE MadeRoom(known, key, c), key, c)

LEMMA GrantedIs ==
  ASSUME NEW tab, NEW keys, NEW c
  PROVE  LET zero == WithHistory(tab)
             one == GrantOne(tab, zero, keys[1], c)
             two == IF Len(keys) < 2 THEN one ELSE GrantOne(tab, one, keys[2], c)
         IN Granted(tab, keys, c) = IF Len(keys) < 3 THEN two ELSE GrantOne(tab, two, keys[3], c)
BY DEF Granted, InTurn, GrantOne

(* While the attempts are granted, those in B are still to be counted.     *)
Granting(n, tab, known, X, B, R, c) ==
  /\ Good(n, known, X) /\ Timely(known.table, X, R, c) /\ Recent(known.table, R, R)
  /\ \A k \in R \intersect DOMAIN tab.bucket : k \in DOMAIN known.table.bucket
  /\ \A k \in B \intersect DOMAIN known.table.bucket :
       Len(known.table.bucket[k].attempts) < Rule(k).limit

LEMMA GrantOneGood ==
  ASSUME NEW n \in Nat, NEW tab, NEW known, NEW X, NEW B, NEW R, NEW c \in Times,
         Granting(n, tab, known, X, B, R, c), R \subseteq Keys, IsFiniteSet(R),
         Cardinality(R) <= 3, NEW key \in B, key \in R
  PROVE  Granting(n, tab, GrantOne(tab, known, key, c), X, B \ {key}, R, c)
<1> DEFINE w == GrantOne(tab, known, key, c)
           room == IF key \in DOMAIN tab.bucket THEN known ELSE MadeRoom(known, key, c)
           D == DOMAIN known.table.bucket
           E == DOMAIN room.table.bucket
<1>1. /\ Good(n, known, X) /\ Timely(known.table, X, R, c) /\ Recent(known.table, R, R)
      /\ \A k \in R \intersect DOMAIN tab.bucket : k \in D
      /\ \A k \in B \intersect D : Len(known.table.bucket[k].attempts) < Rule(k).limit
      /\ key \in Keys
  BY DEF Granting
<1>2. w = Attempted(room, key, c)
  BY DEF GrantOne
<1>3. /\ Good(n, room, X) /\ key \in E /\ Timely(room.table, X, R, c)
      /\ Recent(room.table, R, R) /\ \A k \in R \intersect D : k \in E
      /\ \A k \in E \ {key} : k \in D /\ room.table.bucket[k] = known.table.bucket[k]
      /\ Len(room.table.bucket[key].attempts) < Rule(key).limit
  <2>1. CASE key \in DOMAIN tab.bucket
    <3>1. room = known
      BY <2>1
    <3> HIDE DEF room
    <3> QED BY <1>1, <2>1, <3>1
  <2>2. CASE key \notin DOMAIN tab.bucket
    <3> DEFINE t == Created(known.table, key, c)
               gone == Gone(known.table, key)
    <3>1. /\ Good(n, room, X) /\ key \in E /\ Timely(room.table, X, R, c) /\ room.table = t
      BY <1>1, <2>2, MadeRoomGood
    <3>2. Sound(known.table) /\ Bounded(known.table)
      BY <1>1, GoodIs
    <3>3. gone \intersect R = {}
      BY <1>1, <3>2, OthersGo
    <3>4. /\ Sound(t) /\ DOMAIN t.bucket = (D \ gone) \union {key}
          /\ key \in D => t.bucket[key] = known.table.bucket[key]
          /\ key \notin D => t.bucket[key] = NewBucket(c)
          /\ \A k \in (DOMAIN t.bucket) \ {key} : t.bucket[k] = known.table.bucket[k]
          /\ \A j \in (DOMAIN t.bucket) \ {key} : <<key, j>> \notin t.before
          /\ \A j, k \in (DOMAIN t.bucket) \ {key} :
                <<j, k>> \in t.before <=> <<j, k>> \in known.table.before
      BY <1>1, <3>2, CreatedIs
    <3> HIDE DEF room, t, gone
    <3>5. E = DOMAIN t.bucket
      BY <3>1
    <3>6. Recent(t, R, R)
      <4> SUFFICES ASSUME NEW q \in R \intersect DOMAIN t.bucket, NEW j \in (DOMAIN t.bucket) \ R
                   PROVE  <<j, q>> \in t.before
        BY DEF Recent
      <4>1. CASE q = key
        BY <3>4, <4>1 DEF Sound, Ordered
      <4>2. CASE q # key
        <5>1. q \in D /\ j \in D /\ j # key
          BY <3>4, <4>2
        <5>2. <<j, q>> \in known.table.before
          BY <1>1, <5>1 DEF Recent
        <5> QED BY <3>4, <4>2, <5>1, <5>2
      <4> QED BY <4>1, <4>2
    <3>7. \A k \in R \intersect D : k \in E
      BY <3>3, <3>4, <3>5
    <3>8. \A k \in E \ {key} : k \in D /\ room.table.bucket[k] = known.table.bucket[k]
      BY <3>1, <3>4, <3>5
    <3>9. Len(t.bucket[key].attempts) < Rule(key).limit
      <4>1. CASE key \in D
        BY <1>1, <3>4, <4>1
      <4>2. CASE key \notin D
        <5>1. NewBucket(c).attempts = <<>>
          BY DEF NewBucket
        <5>2. Len(<<>>) = 0 /\ Rule(key).limit \in Nat \ {0}
          BY <1>1, KeysHaveRules, RuleIs
        <5> QED BY <3>4, <4>2, <5>1, <5>2
      <4> QED BY <4>1, <4>2
    <3> QED BY <3>1, <3>6, <3>7, <3>8, <3>9
  <2> QED BY <2>1, <2>2
<1> HIDE DEF room, w
<1>4. key \notin X => room.table.bucket[key].seen <= c
  BY <1>3 DEF Timely
<1>5. /\ Good(n, w, X) /\ DOMAIN w.table.bucket = E /\ w.table.before = room.table.before
      /\ \A k \in E \ {key} : w.table.bucket[k] = room.table.bucket[k]
      /\ Timely(w.table, X, R, c)
  <2> DEFINE v == Attempted(room, key, c)
  <2>1. /\ Good(n, v, X) /\ DOMAIN v.table.bucket = E /\ v.table.before = room.table.before
        /\ \A k \in E \ {key} : v.table.bucket[k] = room.table.bucket[k]
        /\ Timely(v.table, X, R, c)
    <3>1. key \in DOMAIN room.table.bucket
      BY <1>3
    <3>2. key \notin X => room.table.bucket[key].seen <= c
      BY <1>4
    <3> HIDE DEF E
    <3>3. /\ Good(n, v, X) /\ DOMAIN v.table.bucket = DOMAIN room.table.bucket
          /\ v.table.before = room.table.before
          /\ \A k \in (DOMAIN room.table.bucket) \ {key} :
                v.table.bucket[k] = room.table.bucket[k]
          /\ Timely(v.table, X, R, c)
      BY <1>3, <3>1, <3>2, AttemptedGood
    <3> QED BY <3>3 DEF E
  <2> HIDE DEF v
  <2>2. w = v
    BY <1>2 DEF v
  <2> QED BY <2>1, <2>2
<1>6. Recent(w.table, R, R)
  BY <1>3, <1>5 DEF Recent
<1>7. \A k \in R \intersect DOMAIN tab.bucket : k \in DOMAIN w.table.bucket
  BY <1>1, <1>3, <1>5
<1>8. \A k \in (B \ {key}) \intersect DOMAIN w.table.bucket :
         Len(w.table.bucket[k].attempts) < Rule(k).limit
  BY <1>1, <1>3, <1>5
<1> QED BY <1>5, <1>6, <1>7, <1>8 DEF Granting, w

LEMMA GrantedGood ==
  ASSUME NEW n \in Nat, NEW X, NEW tab, Good(n, WithHistory(tab), X),
         NEW keys \in QuotaRequests, NEW c \in Times, NEW R, R = Range(keys),
         Timely(tab, X, R, c), Recent(tab, R, R),
         \A k \in R : ~Exhausted(tab, k), NEW w, w = Granted(tab, keys, c)
  PROVE  Good(n, w, X)
<1> DEFINE zero == WithHistory(tab)
           one == GrantOne(tab, zero, keys[1], c)
           two == GrantOne(tab, one, keys[2], c)
           three == GrantOne(tab, two, keys[3], c)
<1>1. /\ Distinct(keys) /\ R \subseteq Keys /\ IsFiniteSet(R) /\ Cardinality(R) <= 3
  BY QuotaKeysAre, OwnKeys, ThreeKeys
<1>2. Granting(n, tab, zero, X, R, R, c)
  <2>1. zero.table = tab
    BY DEF WithHistory
  <2>2. ASSUME NEW k \in R \intersect DOMAIN tab.bucket
        PROVE  Len(tab.bucket[k].attempts) < Rule(k).limit
    <3>1. k \in DOMAIN zero.table.bucket /\ k \in Keys
      BY <1>1, <2>1
    <3>2. zero.table.bucket[k] \in Buckets
      BY <3>1, BucketsAre
    <3>3. Len(tab.bucket[k].attempts) \in Nat /\ Rule(k).limit \in Nat
      BY <2>1, <3>1, <3>2, BucketIs, RuleIs, KeysHaveRules
    <3> QED BY <3>3 DEF Exhausted
  <2> HIDE DEF zero
  <2> QED BY <2>1, <2>2 DEF Granting, zero
<1> HIDE DEF zero
<1>3. keys[1] \in R /\ keys[2] \in R /\ keys[2] # keys[1]
      /\ (Len(keys) = 3 => keys[3] \in R /\ keys[3] # keys[1] /\ keys[3] # keys[2])
  BY <1>1, RangeIs
<1>4. Granting(n, tab, one, X, R \ {keys[1]}, R, c)
  BY <1>1, <1>2, <1>3, GrantOneGood
<1> HIDE DEF one
<1>5. Granting(n, tab, two, X, (R \ {keys[1]}) \ {keys[2]}, R, c)
  <2>1. keys[2] \in R \ {keys[1]}
    BY <1>3
  <2> QED BY <1>1, <1>3, <1>4, <2>1, GrantOneGood
<1> HIDE DEF two
<1>6. CASE Len(keys) = 2
  <2>1. w = two
    BY <1>6, GrantedIs DEF zero, one, two
  <2> QED BY <1>5, <2>1 DEF Granting
<1>7. CASE Len(keys) = 3
  <2>1. w = three
    <3>1. ~(Len(keys) < 2) /\ ~(Len(keys) < 3)
      BY <1>7
    <3>2. Granted(tab, keys, c)
            = IF Len(keys) < 3 THEN IF Len(keys) < 2 THEN one ELSE two
              ELSE GrantOne(tab, IF Len(keys) < 2 THEN one ELSE two, keys[3], c)
      BY GrantedIs DEF zero, one, two
    <3> QED BY <3>1, <3>2
  <2>2. keys[3] \in (R \ {keys[1]}) \ {keys[2]}
    BY <1>3, <1>7
  <2>3. Granting(n, tab, three, X, ((R \ {keys[1]}) \ {keys[2]}) \ {keys[3]}, R, c)
    BY <1>1, <1>3, <1>5, <1>7, <2>2, GrantOneGood
  <2> QED BY <2>1, <2>3 DEF Granting
<1> QED BY <1>1, <1>6, <1>7 DEF Distinct

-----------------------------------------------------------------------------
(* The invariant: the table is sound and bounded, of each key the bucket   *)
(* and what is known agree, and the threads serve requests that read the   *)
(* clock before now.                                                       *)

LoginStates == {"check", "verify", "record", "reset"}

Served == [at : {"idle"}, keys : {<<>>}, clock : Times]
            \union [at : LoginStates, keys : LoginRequests, clock : Times]
            \union [at : {"consume"}, keys : QuotaRequests, clock : Times]

Known == [table |-> table, recorded |-> recorded, promised |-> promised]

LInv ==
  /\ now \in Times
  /\ overtaken \subseteq Keys
  /\ serving \in [Threads -> Served]
  /\ \A t \in Threads : serving[t].clock <= now
  /\ Good(now, Known, overtaken)

LEMMA LInvIs ==
  ASSUME LInv
  PROVE  /\ now \in Times /\ now \in Nat /\ Good(now, Known, overtaken)
         /\ Known.table = table /\ Known.recorded = recorded /\ Known.promised = promised
         /\ \A tab : On(Known, tab) = WithHistory(tab)
         /\ table \in Tables /\ DOMAIN table.bucket \subseteq Keys
         /\ table.bucket \in [DOMAIN table.bucket -> Buckets]
         /\ recorded \in [Keys -> Seq(Times)] /\ promised \in [Keys -> Promises]
<1>1. /\ Known.table = table /\ Known.recorded = recorded /\ Known.promised = promised
      /\ \A tab : On(Known, tab) = WithHistory(tab)
  BY DEF Known, On, WithHistory
<1>2. now \in Times /\ now \in Nat /\ Good(now, Known, overtaken)
  BY TimesAre DEF LInv
<1> QED BY <1>1, <1>2, GoodIs

(* What a thread serves.                                                   *)
LEMMA ServedIs ==
  ASSUME LInv, NEW t \in Threads
  PROVE  /\ serving[t] = [at |-> serving[t].at, keys |-> serving[t].keys,
                          clock |-> serving[t].clock]
         /\ serving[t].clock \in Times /\ serving[t].clock <= now
         /\ serving[t].at \in LoginStates => serving[t].keys \in LoginRequests
         /\ serving[t].at = "consume" => serving[t].keys \in QuotaRequests
         /\ serving[t].at \in {"idle", "consume"} \union LoginStates
         /\ serving[t].keys \in {<<>>} \union LoginRequests \union QuotaRequests
<1>1. serving[t] \in Served
  BY DEF LInv
<1> QED BY <1>1 DEF LInv, Served, LoginStates

LEMMA TableOfNone ==
  Sound(Empty) /\ Bounded(Empty) /\ DOMAIN Empty.bucket = {}
<1>1. Empty.bucket = <<>> /\ Empty.before = {} /\ Empty = [before |-> {}, bucket |-> <<>>]
  BY DEF Empty
<1>2. DOMAIN Empty.bucket = {}
  BY <1>1
<1>3. <<>> \in [{} -> Buckets]
  OBVIOUS
<1>4. Empty \in Tables
  <2>1. {} \in SUBSET Keys /\ {} \in SUBSET (Keys \X Keys)
    OBVIOUS
  <2> QED BY <1>1, <1>3, <2>1, TableOf
<1>5. Ordered(Empty)
  BY <1>1, <1>2 DEF Ordered
<1>6. IsFiniteSet({}) /\ Cardinality({}) = 0
  BY FS_EmptySet
<1> QED BY <1>2, <1>4, <1>5, <1>6, LoginLimiterAssumption DEF Sound, Bounded

LEMMA LInvInit == LimiterInit => LInv
<1> SUFFICES ASSUME LimiterInit PROVE LInv
  OBVIOUS
<1>1. 0 \in Times /\ 0 \in Nat /\ 0 \in Promises
  BY LoginLimiterAssumption DEF Times, Promises
<1>2. now = 0 /\ table = Empty /\ overtaken = {}
  BY DEF LimiterInit
<1>3. serving \in [Threads -> Served] /\ \A t \in Threads : serving[t].clock <= now
  <2>1. Free \in [at : {"idle"}, keys : {<<>>}, clock : Times] /\ Free.clock = 0
    BY <1>1 DEF Free
  <2>2. Free \in Served
    BY <2>1 DEF Served
  <2>3. serving = [t \in Threads |-> Free]
    BY DEF LimiterInit
  <2> QED BY <1>2, <2>1, <2>2, <2>3
<1>4. /\ recorded = [k \in Keys |-> <<>>] /\ promised = [k \in Keys |-> 0]
  BY DEF LimiterInit
<1>5. recorded \in [Keys -> Seq(Times)] /\ promised \in [Keys -> Promises]
  <2>1. <<>> \in Seq(Times)
    OBVIOUS
  <2> QED BY <1>1, <1>4, <2>1
<1>6. ASSUME NEW k \in Keys PROVE Agrees(0, Known, {}, k)
  <2>1. PICK X : X = {}
    OBVIOUS
  <2>2. Absent(0, k, <<>>, 0, X)
    BY <1>1, KeysHaveRules, ForgottenAbsent
  <2>3. recorded[k] = <<>> /\ promised[k] = 0 /\ k \notin DOMAIN table.bucket
    BY <1>2, <1>4, TableOfNone
  <2> QED BY <2>1, <2>2, <2>3 DEF Agrees, Known
<1>7. Good(0, Known, {})
  BY <1>2, <1>5, <1>6, TableOfNone DEF Good, Known
<1> QED BY <1>1, <1>2, <1>3, <1>7 DEF LInv

(* The keys of an operation that comes late are overtaken.                 *)
LEMMA OvertakeIs ==
  ASSUME LInv, NEW t \in Threads, Overtake(t),
         serving[t].keys \in LoginRequests \union QuotaRequests
  PROVE  /\ overtaken \subseteq overtaken' /\ overtaken' \subseteq Keys
         /\ Timely(table, overtaken', Range(serving[t].keys), serving[t].clock)
         /\ Good(now, Known, overtaken')
<1>1. /\ overtaken' = overtaken \union
           {k \in Range(serving[t].keys) \intersect DOMAIN table.bucket :
              table.bucket[k].seen > serving[t].clock}
  BY DEF Overtake
<1>2. serving[t].clock \in Nat /\ overtaken \subseteq Keys
  BY ServedIs, TimesAre DEF LInv
<1>3. overtaken \subseteq overtaken' /\ overtaken' \subseteq Keys
  BY <1>1, <1>2, OwnKeys
<1>4. ASSUME NEW k \in Range(serving[t].keys) \intersect DOMAIN table.bucket,
             k \notin overtaken'
      PROVE  table.bucket[k].seen <= serving[t].clock
  <2>1. table.bucket[k] \in Buckets
    BY LInvIs
  <2>2. table.bucket[k].seen \in Nat
    BY <2>1, BucketIs
  <2>3. ~(table.bucket[k].seen > serving[t].clock)
    BY <1>1, <1>4
  <2> QED BY <1>2, <2>2, <2>3
<1>5. Timely(table, overtaken', Range(serving[t].keys), serving[t].clock)
  BY <1>4 DEF Timely
<1>6. Good(now, Known, overtaken')
  BY <1>3, LInvIs, WiderGood
<1> QED BY <1>3, <1>5, <1>6

(* A thread that goes on with a request, or with none.                     *)
LEMMA ServingStays ==
  ASSUME LInv, NEW t \in Threads, NEW s, s \in Served, s.clock <= now,
         serving' = [serving EXCEPT ![t] = s]
  PROVE  serving' \in [Threads -> Served] /\ \A u \in Threads : serving'[u].clock <= now
<1>1. serving \in [Threads -> Served] /\ \A u \in Threads : serving[u].clock <= now
  BY DEF LInv
<1> QED BY <1>1

LEMMA FreeIsServed ==
  ASSUME LInv
  PROVE  Free \in Served /\ Free.clock <= now
<1>1. 0 \in Times /\ 0 <= now
  BY LoginLimiterAssumption DEF LInv, Times
<1> QED BY <1>1 DEF Free, Served

-----------------------------------------------------------------------------
(* Every action keeps the invariant.                                       *)

(* The parts of the invariant after a step.                                *)
LEMMA LInvNext ==
  ASSUME LInv, now' = now, overtaken' \subseteq Keys,
         serving' \in [Threads -> Served], \A u \in Threads : serving'[u].clock <= now,
         NEW w, Good(now, w, overtaken'),
         w.table = table', w.recorded = recorded', w.promised = promised'
  PROVE  LInv'
<1>1. w = [table |-> table', recorded |-> recorded', promised |-> promised']
  BY DEF Good
<1>2. Known' = w
  BY <1>1 DEF Known
<1>3. now \in Times
  BY DEF LInv
<1> QED BY <1>2, <1>3 DEF LInv

LEMMA LInvServe ==
  ASSUME LInv, NEW t \in Threads, NEW s \in Served, s.clock <= now,
         serving' = [serving EXCEPT ![t] = s], UNCHANGED <<now, table, history>>
  PROVE  LInv'
<1>1. serving' \in [Threads -> Served] /\ \A u \in Threads : serving'[u].clock <= now
  BY ServingStays
<1>2. /\ now' = now /\ overtaken' = overtaken
      /\ Known.table = table' /\ Known.recorded = recorded' /\ Known.promised = promised'
  BY DEF Known, history
<1>3. Good(now, Known, overtaken) /\ overtaken \subseteq Keys
  BY DEF LInv
<1> QED BY <1>1, <1>2, <1>3, LInvNext

LEMMA LInvLogin ==
  ASSUME LInv, NEW t \in Threads, NEW keys \in LoginRequests, Login(t, keys)
  PROVE  LInv'
<1> DEFINE s == [at |-> "check", keys |-> keys, clock |-> now]
<1>1. serving' = [serving EXCEPT ![t] = s] /\ UNCHANGED <<now, table, history>>
  BY DEF Login, Serve
<1>2. s \in Served /\ s.clock <= now
  BY LInvIs DEF Served, LoginStates
<1> HIDE DEF s
<1> QED BY <1>1, <1>2, LInvServe

LEMMA LInvAskQuota ==
  ASSUME LInv, NEW t \in Threads, NEW keys \in QuotaRequests, AskQuota(t, keys)
  PROVE  LInv'
<1> DEFINE s == [at |-> "consume", keys |-> keys, clock |-> now]
<1>1. serving' = [serving EXCEPT ![t] = s] /\ UNCHANGED <<now, table, history>>
  BY DEF AskQuota, Serve
<1>2. s \in Served /\ s.clock <= now
  BY LInvIs DEF Served
<1> HIDE DEF s
<1> QED BY <1>1, <1>2, LInvServe

LEMMA LInvVerifyPassword ==
  ASSUME LInv, NEW t \in Threads, VerifyPassword(t)
  PROVE  LInv'
<1>1. /\ serving[t] = [at |-> "verify", keys |-> serving[t].keys, clock |-> serving[t].clock]
      /\ serving[t].keys \in LoginRequests /\ serving[t].clock \in Times
      /\ serving[t].clock <= now
  BY ServedIs DEF VerifyPassword, LoginStates
<1>2. PICK s : /\ s \in {[at |-> "record", keys |-> serving[t].keys, clock |-> now],
                         [at |-> "reset", keys |-> serving[t].keys, clock |-> serving[t].clock]}
               /\ serving' = [serving EXCEPT ![t] = s]
  <2>1. CASE Serve(t, "record", serving[t].keys)
    BY <2>1 DEF Serve
  <2>2. CASE serving' = [serving EXCEPT ![t].at = "reset"]
    <3> DEFINE s == [at |-> "reset", keys |-> serving[t].keys, clock |-> serving[t].clock]
    <3>1. [serving[t] EXCEPT !.at = "reset"] = s
      BY <1>1
    <3>2. [serving EXCEPT ![t].at = "reset"]
            = [serving EXCEPT ![t] = [serving[t] EXCEPT !.at = "reset"]]
      OBVIOUS
    <3>3. serving' = [serving EXCEPT ![t] = s]
      BY <2>2, <3>1, <3>2
    <3> QED BY <3>3
  <2> QED BY <2>1, <2>2 DEF VerifyPassword
<1>3. s \in Served /\ s.clock <= now
  BY <1>1, <1>2, LInvIs DEF Served, LoginStates
<1>4. UNCHANGED <<now, table, history>>
  BY DEF VerifyPassword
<1> QED BY <1>2, <1>3, <1>4, LInvServe

LEMMA LInvCheckFailures ==
  ASSUME LInv, NEW t \in Threads, CheckFailures(t)
  PROVE  LInv'
<1> DEFINE c == serving[t].clock
           keys == serving[t].keys
           R == Range(keys)
<1>1. /\ keys \in LoginRequests /\ c \in Times /\ c <= now
      /\ serving[t] = [at |-> "check", keys |-> keys, clock |-> c]
  BY ServedIs DEF CheckFailures, LoginStates
<1>2. PICK tab \in Maintained(table, c) :
        /\ table' = Checked(tab, keys, c)
        /\ IF Blocked(table', keys, c) THEN Reply(t)
           ELSE serving' = [serving EXCEPT ![t].at = "verify", ![t].clock = 0]
  BY DEF CheckFailures
<1>3. Overtake(t) /\ now' = now /\ recorded' = recorded /\ promised' = promised
  BY DEF CheckFailures
<1>4. /\ overtaken' \subseteq Keys /\ Timely(table, overtaken', R, c)
      /\ Good(now, Known, overtaken')
  BY <1>1, <1>3, OvertakeIs
<1>5. now \in Nat /\ Known.table = table /\ Distinct(keys)
  BY <1>1, LInvIs, LoginKeysAre
<1> DEFINE w == On(Known, table')
<1>6. serving' \in [Threads -> Served] /\ \A u \in Threads : serving'[u].clock <= now
  <2>1. CASE Reply(t)
    BY <2>1, FreeIsServed, ServingStays DEF Reply
  <2>2. CASE serving' = [serving EXCEPT ![t].at = "verify", ![t].clock = 0]
    <3> DEFINE s == [at |-> "verify", keys |-> keys, clock |-> 0]
    <3>1. [serving EXCEPT ![t].at = "verify", ![t].clock = 0] = [serving EXCEPT ![t] = s]
      <4> DEFINE one == [serving EXCEPT ![t].at = "verify"]
                 m == [at |-> "verify", keys |-> keys, clock |-> c]
      <4>1. [serving[t] EXCEPT !.at = "verify"] = m
        BY <1>1
      <4>2. one = [serving EXCEPT ![t] = [serving[t] EXCEPT !.at = "verify"]]
        OBVIOUS
      <4>3. one = [serving EXCEPT ![t] = m]
        BY <4>1, <4>2
      <4>4. [serving EXCEPT ![t].at = "verify", ![t].clock = 0]
              = [one EXCEPT ![t] = [one[t] EXCEPT !.clock = 0]]
        OBVIOUS
      <4>5. t \in DOMAIN serving
        BY DEF LInv
      <4> HIDE DEF one
      <4>6. [one[t] EXCEPT !.clock = 0] = s
        <5>1. one[t] = m
          BY <4>3, <4>5
        <5> QED BY <5>1
      <4>7. [one EXCEPT ![t] = s] = [serving EXCEPT ![t] = s]
        <5> HIDE DEF s, m
        <5> QED BY <4>3
      <4> QED BY <4>4, <4>6, <4>7
    <3>2. 0 \in Times /\ 0 <= now
      BY <1>5, LoginLimiterAssumption DEF Times
    <3>3. s \in Served /\ s.clock <= now
      BY <1>1, <3>2 DEF Served, LoginStates
    <3>4. serving' = [serving EXCEPT ![t] = s]
      BY <2>2, <3>1
    <3> HIDE DEF s
    <3> QED BY <3>3, <3>4, ServingStays
  <2> QED BY <1>2, <2>1, <2>2
<1> HIDE DEF c, keys, R
<1>7. Good(now, On(Known, tab), overtaken') /\ Timely(tab, overtaken', R, c)
  BY <1>1, <1>2, <1>4, <1>5, MaintainedGood
<1>8. Good(now, w, overtaken')
  <2>1. R = Range(keys)
    BY DEF R
  <2> QED BY <1>1, <1>2, <1>5, <1>7, <2>1, CheckedGood
<1>9. w.table = table' /\ w.recorded = recorded' /\ w.promised = promised'
  BY <1>3, LInvIs DEF On
<1> HIDE DEF w
<1> QED BY <1>3, <1>4, <1>6, <1>8, <1>9, LInvNext

LEMMA LInvRecordFailures ==
  ASSUME LInv, NEW t \in Threads, RecordFailures(t)
  PROVE  LInv'
<1> DEFINE c == serving[t].clock
           keys == serving[t].keys
           R == Range(keys)
<1>1. keys \in LoginRequests /\ c \in Times /\ c <= now
  BY ServedIs DEF RecordFailures, LoginStates
<1>2. PICK tab \in Maintained(table, c) : Become(Failures(tab, keys, c))
  BY DEF RecordFailures
<1>3. Overtake(t) /\ Reply(t) /\ now' = now
  BY DEF RecordFailures
<1>4. /\ overtaken' \subseteq Keys /\ Timely(table, overtaken', R, c)
      /\ Good(now, Known, overtaken')
  BY <1>1, <1>3, OvertakeIs
<1>5. now \in Nat /\ Known.table = table /\ On(Known, tab) = WithHistory(tab)
  BY LInvIs
<1>6. serving' \in [Threads -> Served] /\ \A u \in Threads : serving'[u].clock <= now
  BY <1>3, FreeIsServed, ServingStays DEF Reply
<1> DEFINE w == Failures(tab, keys, c)
<1>7. w.table = table' /\ w.recorded = recorded' /\ w.promised = promised'
  BY <1>2 DEF Become
<1> HIDE DEF c, keys, R
<1>8. Good(now, On(Known, tab), overtaken') /\ Timely(tab, overtaken', R, c)
  BY <1>1, <1>2, <1>4, <1>5, MaintainedGood
<1>9. Good(now, w, overtaken')
  <2>1. R = Range(keys) /\ w = Failures(tab, keys, c)
    BY DEF R
  <2> HIDE DEF w
  <2> QED BY <1>1, <1>5, <1>8, <2>1, FailuresGood
<1> HIDE DEF w
<1> QED BY <1>3, <1>4, <1>6, <1>7, <1>9, LInvNext

LEMMA LInvConsumeAttempts ==
  ASSUME LInv, NEW t \in Threads, ConsumeAttempts(t)
  PROVE  LInv'
<1> DEFINE c == serving[t].clock
           keys == serving[t].keys
           R == Range(keys)
<1>1. keys \in QuotaRequests /\ c \in Times /\ c <= now
  BY ServedIs DEF ConsumeAttempts
<1>2. PICK tab \in Maintained(table, c) :
        IF \E k \in R : Exhausted(Checked(tab, keys, c), k)
        THEN table' = Checked(tab, keys, c) /\ UNCHANGED <<recorded, promised>>
        ELSE Become(Granted(Checked(tab, keys, c), keys, c))
  BY DEF ConsumeAttempts
<1>3. Overtake(t) /\ Reply(t) /\ now' = now
  BY DEF ConsumeAttempts
<1>4. /\ overtaken' \subseteq Keys /\ Timely(table, overtaken', R, c)
      /\ Good(now, Known, overtaken')
  BY <1>1, <1>3, OvertakeIs
<1>5. now \in Nat /\ Known.table = table /\ Distinct(keys)
  BY <1>1, LInvIs, QuotaKeysAre
<1>6. serving' \in [Threads -> Served] /\ \A u \in Threads : serving'[u].clock <= now
  BY <1>3, FreeIsServed, ServingStays DEF Reply
<1>r. R = Range(keys)
  OBVIOUS
<1> HIDE DEF c, keys, R
<1> DEFINE prepared == Checked(tab, keys, c)
<1>7. Good(now, On(Known, tab), overtaken') /\ Timely(tab, overtaken', R, c)
  BY <1>1, <1>2, <1>4, <1>5, MaintainedGood
<1>8. /\ Good(now, On(Known, prepared), overtaken') /\ Timely(prepared, overtaken', R, c)
      /\ Recent(prepared, R, R)
  <2>1. PICK new : new = prepared
    OBVIOUS
  <2>2. /\ Good(now, On(Known, new), overtaken') /\ Timely(new, overtaken', R, c)
        /\ Recent(new, R, R)
    BY <1>1, <1>5, <1>7, <1>r, <2>1, CheckedGood
  <2> QED BY <2>1, <2>2
<1>9. CASE \E k \in R : Exhausted(prepared, k)
  <2> DEFINE w == On(Known, prepared)
  <2>1. table' = prepared /\ recorded' = recorded /\ promised' = promised
    BY <1>2, <1>9
  <2>2. w.table = table' /\ w.recorded = recorded' /\ w.promised = promised'
    BY <2>1, LInvIs DEF On
  <2> HIDE DEF w
  <2> QED BY <1>3, <1>4, <1>6, <1>8, <2>2, LInvNext DEF w
<1>10. CASE \A k \in R : ~Exhausted(prepared, k)
  <2> DEFINE w == Granted(prepared, keys, c)
  <2>1. w.table = table' /\ w.recorded = recorded' /\ w.promised = promised'
    BY <1>2, <1>10 DEF Become
  <2>2. On(Known, prepared) = WithHistory(prepared)
    BY LInvIs
  <2>3. Good(now, w, overtaken')
    <3>1. w = Granted(prepared, keys, c)
      OBVIOUS
    <3> HIDE DEF w, prepared
    <3> QED BY <1>1, <1>5, <1>8, <1>10, <1>r, <2>2, <3>1, GrantedGood
  <2> HIDE DEF w
  <2> QED BY <1>3, <1>4, <1>6, <2>1, <2>3, LInvNext
<1> QED BY <1>9, <1>10

LEMMA LInvReset ==
  ASSUME LInv, NEW t \in Threads, Reset(t)
  PROVE  LInv'
<1> DEFINE S == Range(Tail(serving[t].keys))
           rest == WithHistory(Without(table, S))
           w == Forgotten(rest, S)
<1>1. Become(w) /\ Reply(t) /\ now' = now /\ overtaken' = overtaken
  BY DEF Reset
<1>2. serving' \in [Threads -> Served] /\ \A u \in Threads : serving'[u].clock <= now
  BY <1>1, FreeIsServed, ServingStays DEF Reply
<1>3. /\ now \in Nat /\ Good(now, Known, overtaken) /\ overtaken \subseteq Keys
      /\ Known.table = table /\ Known.recorded = recorded /\ Known.promised = promised
      /\ recorded \in [Keys -> Seq(Times)] /\ promised \in [Keys -> Promises]
  BY LInvIs DEF LInv
<1> HIDE DEF S
<1>4. /\ rest = [table |-> rest.table, recorded |-> rest.recorded, promised |-> rest.promised]
      /\ rest.table = Without(table, S) /\ rest.recorded = recorded
      /\ rest.promised = promised
  BY DEF WithHistory
<1> DEFINE r == [k \in Keys |-> IF k \in S THEN <<>> ELSE recorded[k]]
           p == [k \in Keys |-> IF k \in S THEN 0 ELSE promised[k]]
<1>5. w = [table |-> Without(table, S), recorded |-> r, promised |-> p]
  <2>1. w = [table |-> rest.table,
             recorded |-> [k \in Keys |-> IF k \in S THEN <<>> ELSE rest.recorded[k]],
             promised |-> [k \in Keys |-> IF k \in S THEN 0 ELSE rest.promised[k]]]
    <3> HIDE DEF rest
    <3> QED BY <1>4, ForgottenIs
  <2> HIDE DEF w, rest
  <2> QED BY <1>4, <2>1
<1>6. r \in [Keys -> Seq(Times)] /\ p \in [Keys -> Promises]
  <2>1. /\ [k \in Keys |-> IF k \in S THEN <<>> ELSE Known.recorded[k]] \in [Keys -> Seq(Times)]
        /\ [k \in Keys |-> IF k \in S THEN 0 ELSE Known.promised[k]] \in [Keys -> Promises]
    BY <1>3, ForgottenTyped
  <2> QED BY <1>3, <2>1
<1>7. /\ \A k \in Keys \ S : r[k] = recorded[k] /\ p[k] = promised[k]
      /\ \A k \in Keys \intersect S : r[k] = <<>> /\ p[k] = 0
  OBVIOUS
<1> HIDE DEF w, rest, r, p
<1>8. /\ w.table = Without(table, S) /\ w.recorded = r /\ w.promised = p
      /\ w = [table |-> w.table, recorded |-> w.recorded, promised |-> w.promised]
  BY <1>5
<1>9. ASSUME NEW k \in Keys \intersect S
      PROVE  Absent(now, k, w.recorded[k], w.promised[k], overtaken)
  <2>1. Absent(now, k, <<>>, 0, overtaken)
    BY <1>3, KeysHaveRules, ForgottenAbsent
  <2> QED BY <1>7, <1>8, <2>1
<1>10. Good(now, w, overtaken)
  <2>1. /\ w.table = Without(Known.table, S)
        /\ w.recorded \in [Keys -> Seq(Times)] /\ w.promised \in [Keys -> Promises]
    BY <1>3, <1>6, <1>8
  <2>2. \A k \in Keys \ S : /\ w.recorded[k] = Known.recorded[k]
                            /\ w.promised[k] = Known.promised[k]
    BY <1>3, <1>7, <1>8
  <2>3. \A k \in Keys \intersect S :
           Absent(now, k, w.recorded[k], w.promised[k], overtaken)
    BY <1>9
  <2> QED BY <1>3, <1>8, <2>1, <2>2, <2>3, DropGood
<1>11. w.table = table' /\ w.recorded = recorded' /\ w.promised = promised'
  BY <1>1 DEF Become
<1> QED BY <1>1, <1>2, <1>3, <1>10, <1>11, LInvNext

LEMMA LInvTick == LInv /\ Tick => LInv'
<1> SUFFICES ASSUME LInv, Tick PROVE LInv'
  OBVIOUS
<1>1. /\ now \in Nat /\ now \in Times /\ now < MaxTime /\ MaxTime \in Nat
      /\ now' = now + 1 /\ UNCHANGED <<table, serving, overtaken>>
      /\ recorded' = [k \in Keys |-> InWindow(recorded[k], k, now')]
      /\ promised' = [k \in Keys |-> IF promised[k] <= now' THEN 0 ELSE promised[k]]
  BY LInvIs, LoginLimiterAssumption DEF Tick
<1>2. now' \in Times /\ now' \in Nat
  BY <1>1 DEF Times
<1>3. /\ serving \in [Threads -> Served] /\ \A u \in Threads : serving[u].clock <= now'
      /\ overtaken \subseteq Keys
  <2>1. ASSUME NEW u \in Threads PROVE serving[u].clock <= now'
    <3>1. serving[u].clock \in Nat /\ serving[u].clock <= now
      BY ServedIs, TimesAre
    <3> QED BY <1>1, <3>1
  <2> QED BY <2>1 DEF LInv
<1>4. /\ Good(now, Known, overtaken) /\ Sound(table) /\ Bounded(table)
      /\ recorded \in [Keys -> Seq(Times)] /\ promised \in [Keys -> Promises]
  <2>1. /\ Good(now, Known, overtaken) /\ Known.table = table
        /\ recorded \in [Keys -> Seq(Times)] /\ promised \in [Keys -> Promises]
    BY LInvIs
  <2> QED BY <2>1, GoodIs
<1>5. ASSUME NEW k \in Keys
      PROVE  /\ recorded'[k] \in Seq(Times) /\ promised'[k] \in Promises
             /\ IF k \in DOMAIN table.bucket
                THEN Kept(now', k, table.bucket[k], recorded'[k], promised'[k], overtaken)
                ELSE Absent(now', k, recorded'[k], promised'[k], overtaken)
  <2> DEFINE r == recorded[k]
             p == promised[k]
             r1 == After(r, Since(now + 1, k))
             p1 == IF p <= now + 1 THEN 0 ELSE p
  <2>1. recorded'[k] = r1 /\ promised'[k] = p1
    <3>1. InWindow(r, k, now + 1) = After(r, (now + 1) - Rule(k).window)
      BY InWindowIsAfter
    <3> QED BY <1>1, <3>1 DEF Since
  <2>2. k[1] \in LoginDimensions \union QuotaDimensions /\ r \in Seq(Times) /\ p \in Promises
    BY <1>4, KeysHaveRules
  <2>3. IF k \in DOMAIN table.bucket THEN Kept(now, k, table.bucket[k], r, p, overtaken)
        ELSE Absent(now, k, r, p, overtaken)
    BY <1>4, LInvIs DEF Good, Agrees
  <2>4. ASSUME NEW b \in Buckets
        PROVE  /\ r1 \in Seq(Times) /\ p1 \in Promises
               /\ Kept(now, k, b, r, p, overtaken) => Kept(now + 1, k, b, r1, p1, overtaken)
               /\ Absent(now, k, r, p, overtaken) => Absent(now + 1, k, r1, p1, overtaken)
    <3> HIDE DEF r, p
    <3> QED BY <1>1, <2>2, TickKept
  <2>5. NewBucket(0) \in Buckets
    BY LoginLimiterAssumption DEF NewBucket, Buckets, Times
  <2>6. k \in DOMAIN table.bucket => table.bucket[k] \in Buckets
    BY LInvIs
  <2> HIDE DEF r, p, r1, p1
  <2>7. CASE k \in DOMAIN table.bucket
    BY <1>1, <2>1, <2>3, <2>4, <2>6, <2>7
  <2>8. CASE k \notin DOMAIN table.bucket
    BY <1>1, <2>1, <2>3, <2>4, <2>5, <2>8
  <2> QED BY <2>7, <2>8
<1>6. recorded' \in [Keys -> Seq(Times)] /\ promised' \in [Keys -> Promises]
  <2>1. /\ DOMAIN recorded' = Keys /\ recorded' = [k \in Keys |-> recorded'[k]]
        /\ DOMAIN promised' = Keys /\ promised' = [k \in Keys |-> promised'[k]]
    BY <1>1
  <2> QED BY <1>5, <2>1
<1>7. Good(now', Known', overtaken)
  BY <1>1, <1>4, <1>5, <1>6 DEF Good, Agrees, Known
<1> QED BY <1>1, <1>2, <1>3, <1>7 DEF LInv

LEMMA LInvStep == LInv /\ [LimiterNext]_limiterVars => LInv'
<1> SUFFICES ASSUME LInv, [LimiterNext]_limiterVars PROVE LInv'
  OBVIOUS
<1>1. CASE UNCHANGED limiterVars
  <2>1. /\ now' = now /\ overtaken' = overtaken /\ serving' = serving
        /\ Known.table = table' /\ Known.recorded = recorded' /\ Known.promised = promised'
    BY <1>1 DEF limiterVars, Known
  <2>2. /\ Good(now, Known, overtaken) /\ overtaken \subseteq Keys
        /\ serving \in [Threads -> Served] /\ \A u \in Threads : serving[u].clock <= now
    BY DEF LInv
  <2> QED BY <2>1, <2>2, LInvNext
<1>2. CASE Tick
  BY <1>2, LInvTick
<1>3. CASE \E t \in Threads : \E keys \in LoginRequests : Login(t, keys)
  BY <1>3, LInvLogin
<1>4. CASE \E t \in Threads : \E keys \in QuotaRequests : AskQuota(t, keys)
  BY <1>4, LInvAskQuota
<1>5. CASE \E t \in Threads : CheckFailures(t)
  BY <1>5, LInvCheckFailures
<1>6. CASE \E t \in Threads : VerifyPassword(t)
  BY <1>6, LInvVerifyPassword
<1>7. CASE \E t \in Threads : RecordFailures(t)
  BY <1>7, LInvRecordFailures
<1>8. CASE \E t \in Threads : Reset(t)
  BY <1>8, LInvReset
<1>9. CASE \E t \in Threads : ConsumeAttempts(t)
  BY <1>9, LInvConsumeAttempts
<1> QED BY <1>1, <1>2, <1>3, <1>4, <1>5, <1>6, <1>7, <1>8, <1>9 DEF LimiterNext

-----------------------------------------------------------------------------
(* The invariant says what is promised.                                    *)

LEMMA LInvKeepsBlocks == LInv => BlocksAreKept
<1> SUFFICES ASSUME LInv, NEW k \in Keys, promised[k] > now
             PROVE  k \in DOMAIN table.bucket /\ table.bucket[k].until >= promised[k]
  BY DEF BlocksAreKept
<1>1. IF k \in DOMAIN table.bucket
      THEN Kept(now, k, table.bucket[k], recorded[k], promised[k], overtaken)
      ELSE Absent(now, k, recorded[k], promised[k], overtaken)
  BY LInvIs DEF Good, Agrees
<1> QED BY <1>1 DEF Kept, Absent

LEMMA LInvTyped == LInv => LimiterTypeOK
<1> SUFFICES ASSUME LInv PROVE LimiterTypeOK
  OBVIOUS
<1>1. /\ now \in Times /\ overtaken \subseteq Keys /\ DOMAIN table.bucket \subseteq Keys
      /\ recorded \in [Keys -> Seq(Times)] /\ promised \in [Keys -> 0 .. MaxTime + BackoffMax]
  BY LInvIs DEF LInv, Promises
<1>2. \A k \in DOMAIN table.bucket : table.bucket[k] \in Buckets
  BY LInvIs
<1>3. ASSUME NEW t \in Threads
      PROVE  /\ serving[t].at \in {"idle", "check", "verify", "record", "reset", "consume"}
             /\ serving[t].clock \in Times
             /\ serving[t].keys \in {<<>>} \union LoginRequests \union QuotaRequests
  BY ServedIs DEF LoginStates
<1> QED BY <1>1, <1>2, <1>3 DEF LimiterTypeOK

LEMMA LInvCounts == LInv => CountsAreExact
<1> SUFFICES ASSUME LInv PROVE CountsAreExact
  OBVIOUS
<1>1. TableIsBounded
  <2>1. Good(now, Known, overtaken) /\ Known.table = table
    BY LInvIs
  <2>2. Sound(table) /\ Bounded(table)
    BY <2>1, GoodIs
  <2> QED BY <2>2 DEF TableIsBounded, Sound, Bounded
<1>2. ASSUME NEW k \in Keys \ overtaken
      PROVE  /\ InWindow(recorded[k], k, now)
                  = IF k \in DOMAIN table.bucket
                    THEN InWindow(table.bucket[k].attempts, k, now) ELSE <<>>
             /\ \A i, j \in DOMAIN recorded[k] :
                  i < j /\ recorded[k][i] > now - Rule(k).window
                    => recorded[k][j] > now - Rule(k).window
             /\ k[1] \in QuotaDimensions => Len(InWindow(recorded[k], k, now)) <= Rule(k).limit
  <2> DEFINE r == recorded[k]
             b == table.bucket[k]
             th == Since(now, k)
  <2>1. /\ r \in Seq(Times) /\ r \in Seq(Int) /\ DOMAIN r = 1 .. Len(r) /\ now \in Nat
        /\ Rule(k).limit \in Nat /\ th \in Int
    <3>1. k[1] \in LoginDimensions \union QuotaDimensions /\ r \in Seq(Times)
      BY LInvIs, KeysHaveRules
    <3>2. now \in Int /\ now \in Nat
      BY LInvIs
    <3> QED BY <3>1, <3>2, RuleIs, TimesAre
  <2>2. /\ InWindow(r, k, now) = After(r, th)
        /\ InWindow(b.attempts, k, now) = After(b.attempts, th)
    BY InWindowIsAfter DEF Since
  <2>3. IF k \in DOMAIN table.bucket
        THEN Kept(now, k, b, r, promised[k], overtaken)
        ELSE Absent(now, k, r, promised[k], overtaken)
    BY LInvIs DEF Good, Agrees
  <2> HIDE DEF r, b
  <2>4. /\ After(r, th) = IF k \in DOMAIN table.bucket THEN After(b.attempts, th) ELSE <<>>
        /\ Ends(r, th)
        /\ k \in DOMAIN table.bucket /\ k[1] \in QuotaDimensions =>
             Len(b.attempts) <= Rule(k).limit
    BY <2>3 DEF Kept, Absent
  <2>5. \A i, j \in DOMAIN r : i < j /\ r[i] > now - Rule(k).window
                                 => r[j] > now - Rule(k).window
    BY <2>1, <2>4 DEF Ends, Since
  <2>6. ASSUME k[1] \in QuotaDimensions PROVE Len(After(r, th)) <= Rule(k).limit
    <3>1. CASE k \in DOMAIN table.bucket
      <4>1. b \in Buckets
        BY <3>1, LInvIs DEF b
      <4>2. b.attempts \in Seq(Times) /\ Len(b.attempts) \in Nat
        BY <4>1, BucketIs
      <4>3. /\ Len(After(b.attempts, th)) <= Len(b.attempts)
            /\ After(b.attempts, th) \in Seq(Times)
        BY <2>1, <4>2, AfterOf
      <4>4. Len(After(b.attempts, th)) \in Nat
        BY <4>3, TimesAre
      <4>5. Len(b.attempts) <= Rule(k).limit /\ After(r, th) = After(b.attempts, th)
        BY <2>4, <2>6, <3>1
      <4> HIDE DEF th
      <4> QED BY <2>1, <4>2, <4>3, <4>4, <4>5
    <3>2. CASE k \notin DOMAIN table.bucket
      <4>1. After(r, th) = <<>>
        BY <2>4, <3>2
      <4> QED BY <2>1, <4>1
    <3> QED BY <3>1, <3>2
  <2> QED BY <2>2, <2>4, <2>5, <2>6 DEF r, b
<1> QED BY <1>1, <1>2, LInvTyped DEF CountsAreExact

(* A cooldown that a client was told of is in force to its end, whatever   *)
(* the threads do in between: a cleanup, a later failure and a window that *)
(* has passed leave it alone.                                              *)
THEOREM CooldownsAreKept == LimiterSpec => []BlocksAreKept
<1>1. LimiterSpec => []LInv
  BY LInvInit, LInvStep, PTL DEF LimiterSpec
<1> QED BY <1>1, LInvKeepsBlocks, PTL

(* What a bucket counts in its window is what happened, however many       *)
(* threads attempt at the same time, as long as they come to the key in    *)
(* the order of their readings of the clock; no quota is exceeded, and the *)
(* table never grows beyond max_keys.                                      *)
THEOREM CountsStayExact == LimiterSpec => []CountsAreExact
<1>1. LimiterSpec => []LInv
  BY LInvInit, LInvStep, PTL DEF LimiterSpec
<1> QED BY <1>1, LInvCounts, PTL
=============================================================================
