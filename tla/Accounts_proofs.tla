---------------------------- MODULE Accounts_proofs ----------------------------
(***************************************************************************)
(* Proofs about Accounts and AccountBoot, for any files, migrations, users *)
(* and keys and any number of requests in flight.                          *)
(***************************************************************************)
EXTENDS Accounts, TLAPS

-----------------------------------------------------------------------------
(* The inductive invariant.                                                *)

(* What the database of an installation is.                                *)
InstallationInv ==
  /\ recorded = schema
  /\ users # NoUsers => Admins(users) # {}

(* What the open transaction of a boot holds.                              *)
NewUsers == [NoUsers EXCEPT ![Admin] = Seeded(config.admin_password, TRUE)]
ImportedUpTo(list, n, owner) ==
  [k \in Keys |-> IF \E j \in 1 .. n : list[j] = k THEN Imported(owner) ELSE NoKey]
DraftInv ==
  /\ boot \in {"keys", "import", "commit"} =>
       \/ users # NoUsers /\ draft.users = users
       \/ users = NoUsers /\ config.admin_password # NoPassword /\ draft.users = NewUsers
  /\ boot = "keys" =>
       draft.keys = keys /\ draft.owner \in Admins(draft.users) \cup {Nobody}
  /\ boot = "import" =>
       /\ keys = NoKeys
       /\ at \in 1 .. Len(config.gateway_keys)
       /\ draft.owner \in Admins(draft.users)
       /\ draft.keys = ImportedUpTo(config.gateway_keys, at - 1, draft.owner)
  /\ boot = "commit" =>
       \/ draft.keys = keys
       \/ /\ keys = NoKeys
          /\ \E owner \in Admins(draft.users) :
               draft.keys = ImportedUpTo(config.gateway_keys, Len(config.gateway_keys), owner)

(* What a request in flight has been let in with.                          *)
Exists(x) == (x \in Names /\ users[x] # NoUser) \/ (x \in Keys /\ keys[x] # NoKey)
Allowed(t) ==
  LET k == task[t] IN
  /\ k.step = "idle" => k = Idle
  /\ k.step # "idle" => boot = "up" /\ k.by \in Names /\ users[k.by] # NoUser
  /\ k.step = "insert" => k.op \in {"create user", "create key"} /\ k.set \in Sets(k.op)
  /\ k.step = "insert" /\ k.op = "create user" => k.on \in Names
  /\ k.step = "insert" /\ k.op = "create key" => k.on \in Keys
  /\ k.step = "verify" => k.op = "change"
  /\ k.step = "check" => k.op \in OnKeys
  /\ k.step = "drop" => k.op \in {"disable", "reset"}
  /\ k.step \in {"find", "update"} => k.op \in {"disable", "enable", "reset", "change"} \cup OnKeys
  /\ k.step \in {"find", "update", "verify", "check", "drop"} =>
       /\ Exists(k.on) /\ k.set \in Sets(k.op)
       /\ k.op \in OnKeys <=> k.on \in Keys
       /\ k.op = "change" => k.on = k.by
       /\ k.op = "disable" => k.on # k.by
       /\ k.op \in {"disable", "enable", "reset"} => users[k.by].role = "admin"
  /\ k.step \in {"find", "update"} /\ k.op \in OnKeys => MayManage(k.by, keys[k.on])

(* Who is disabled but still signed in, or has a request in flight, is     *)
(* about to be signed out, or is known to have survived that.              *)
SurvivorsAreKnown ==
  /\ \A t \in Tasks : task[t].step # "idle" /\ users[task[t].by].status = "disabled" =>
       task[t].late \/ Invalidating(task[t].by)
  /\ \A u \in Names : sessions[u] # "none" =>
       /\ users[u] # NoUser
       /\ users[u].status = "disabled" => sessions[u] = "late" \/ Invalidating(u)

Inv ==
  /\ TypeOK /\ InstallationInv /\ DraftInv
  /\ \A t \in Tasks : Allowed(t)
  /\ SurvivorsAreKnown
  /\ AnAdminRemains

-----------------------------------------------------------------------------
(* Lemmas about the rows.                                                  *)

(* An update leaves a user a row of the table, with the role it has.       *)
LEMMA UpdatedUser ==
  ASSUME NEW row \in UserRows, row.phc, NEW read,
         NEW op \in {"disable", "enable", "reset", "change"}, NEW set \in Sets(op)
  PROVE  LET new == Updated(row, read, set) IN
         /\ new \in UserRows /\ new.phc
         /\ new.role = row.role
         /\ op = "disable" => new.status = "disabled"
         /\ op = "enable" => new.status = "active"
         /\ op \in {"reset", "change"} => new.status = row.status
  <1>0. DOMAIN row = {"password", "phc", "role", "status"}
    BY DEF UserRows
  <1>1. CASE op = "disable"
    <2>1. set \in [status: {"disabled"}]
      BY <1>1 DEF Sets
    <2>2. Updated(row, read, set) = [row EXCEPT !.status = "disabled"]
      BY <1>0, <2>1 DEF Updated, UserRows
    <2> QED BY <1>1, <2>2 DEF UserRows
  <1>2. CASE op = "enable"
    <2>1. set \in [status: {"active"}]
      BY <1>2 DEF Sets
    <2>2. Updated(row, read, set) = [row EXCEPT !.status = "active"]
      BY <1>0, <2>1 DEF Updated, UserRows
    <2> QED BY <1>2, <2>2 DEF UserRows
  <1>3. CASE op \in {"reset", "change"}
    <2>1. set \in [password: Passwords, phc: {TRUE}]
      BY <1>3 DEF Sets
    <2>2. Updated(row, read, set) = [row EXCEPT !.password = set.password, !.phc = TRUE]
      BY <1>0, <2>1 DEF Updated, UserRows
    <2> QED BY <1>3, <2>1, <2>2 DEF UserRows
  <1> QED BY <1>1, <1>2, <1>3

(* An update leaves a key a row of the table, with the owner it has.       *)
LEMMA UpdatedKey ==
  ASSUME NEW row \in KeyRows, NEW read, NEW op \in OnKeys, NEW set \in Sets(op)
  PROVE  /\ Updated(row, read, set) \in KeyRows
         /\ Updated(row, read, set).owner = row.owner
  <1>0. DOMAIN row = {"owner", "status", "limits"}
    BY DEF KeyRows
  <1>1. CASE op = "limit"
    <2>1. set \in [limits: Limits]
      BY <1>1 DEF Sets, OnKeys
    <2>2. Updated(row, read, set) = [row EXCEPT !.limits = set.limits]
      BY <1>0, <2>1 DEF Updated, KeyRows
    <2> QED BY <2>1, <2>2 DEF KeyRows
  <1>2. CASE op = "revoke"
    <2>1. set \in [status: {"revoked"}]
      BY <1>2 DEF Sets, OnKeys
    <2>2. Updated(row, read, set) = [row EXCEPT !.status = "revoked"]
      BY <1>0, <2>1 DEF Updated, KeyRows
    <2> QED BY <2>1, <2>2 DEF KeyRows
  <1> QED BY <1>1, <1>2 DEF OnKeys
(* A task that rests.                                                      *)
LEMMA IdleRests == Idle.step = "idle"
  BY DEF Idle

(* A task that rests is a task.                                            *)
LEMMA IdleIsATask == Idle \in TaskTypes
  <1>1. <<>> \in Sets("none")
    BY DEF Sets, OnKeys
  <1>2. <<>> \in UNION {Sets(op) : op \in Operations \cup {"none"}}
    BY <1>1
  <1> QED BY <1>2 DEF Idle, TaskTypes

(* A configuration that is hashed is one, and so is what a write cuts      *)
(* short, if it is not refused.                                            *)
LEMMA HashedConfiguration ==
  ASSUME NEW c \in Configurations
  PROVE  Hashed(c) \in Configurations
  BY DEF Hashed, Configurations

LEMMA CutConfiguration ==
  ASSUME NEW c \in Configurations
  PROVE  CutShort(c) \subseteq Configurations \cup {Invalid}
  <1>1. ASSUME NEW p \in {c.admin_password, NoPassword}, NEW k \in {c.gateway_keys, <<>>}
        PROVE  [c EXCEPT !.admin_password = p, !.gateway_keys = k] \in Configurations
    <2>1. p \in Passwords \cup {NoPassword}
      BY DEF Configurations
    <2>2. c.gateway_keys \in Seq(Keys) /\ <<>> \in Seq(Keys)
      BY DEF Configurations
    <2>3. k \in Seq(Keys)
      BY <2>2
    <2> QED BY <2>1, <2>3 DEF Configurations
  <1> QED BY <1>1 DEF CutShort

LEMMA ConfigPassword ==
  ASSUME BootTypeOK
  PROVE  /\ config.admin_password \in Passwords \cup {NoPassword}
         /\ config.gateway_keys \in Seq(Keys)
  BY DEF BootTypeOK, Configurations

-----------------------------------------------------------------------------
(* Initially, and through the boots.                                       *)

LEMMA InitInv == Init => Inv
  <1> SUFFICES ASSUME Init PROVE Inv
    OBVIOUS
  <1> USE NamesAssumption DEF Init, BootInit, NoUsers, NoKeys, NoDraft, NoUser, NoKey
  <1>1. BootTypeOK
    <2>1. users \in [Names -> UserRows \cup {NoUser}] /\ keys \in [Keys -> KeyRows \cup {NoKey}]
      OBVIOUS
    <2>2. draft \in [users: [Names -> UserRows \cup {NoUser}],
                    keys: [Keys -> KeyRows \cup {NoKey}], owner: Names \cup {Nobody}]
      BY <2>1
    <2>3. \A u \in Names : users[u].phc /\ draft.users[u].phc
      OBVIOUS
    <2>4. file \in Configurations /\ config \in Configurations /\ schema = {} /\ recorded = {}
          /\ boot = "down" /\ at = 1 /\ events \in 0 .. MaxEvents
      BY EventsAssumption, FilesAssumption
    <2> HIDE DEF Init, BootInit, NoUsers, NoKeys, NoDraft, NoUser, NoKey
    <2> QED BY <2>1, <2>2, <2>3, <2>4 DEF BootTypeOK, Steps
  <1>0. TypeOK
    <2>1. requests = 0 /\ sessions = [u \in Names |-> "none"] /\ task = [t \in Tasks |-> Idle]
          /\ crossed = FALSE
      OBVIOUS
    <2> HIDE DEF Init, BootInit, NoUsers, NoKeys, NoDraft, NoUser, NoKey
    <2>2. task \in [Tasks -> TaskTypes]
      BY <2>1, IdleIsATask
    <2>3. requests \in 0 .. MaxRequests
      BY <2>1, RequestsAssumption
    <2>4. sessions \in [Names -> {"none", "live", "late"}] /\ crossed \in BOOLEAN
      BY <2>1
    <2> QED BY <1>1, <2>2, <2>3, <2>4 DEF TypeOK
  <1>2. InstallationInv /\ DraftInv
    BY DEF InstallationInv, DraftInv
  <1>3. \A t \in Tasks : Allowed(t)
    BY DEF Allowed, Idle
  <1>4. SurvivorsAreKnown /\ AnAdminRemains
    BY DEF SurvivorsAreKnown, AnAdminRemains, Idle
  <1> QED BY <1>0, <1>2, <1>3, <1>4 DEF Inv

(* While the gateway is not up no request is in flight.                    *)
LEMMA NoTaskInBoot ==
  ASSUME Inv, boot # "up"
  PROVE  \A t \in Tasks : task[t] = Idle
  BY DEF Inv, Allowed

(* Then a step that leaves the users alone, or finds none, changes nothing *)
(* for those who are signed in.                                            *)
LEMMA BootRest ==
  ASSUME Inv, boot # "up", users' = users \/ users = NoUsers,
         UNCHANGED <<requests, sessions, task, crossed>>
  PROVE  (\A t \in Tasks : Allowed(t))' /\ SurvivorsAreKnown'
  <1>1. \A t \in Tasks : task'[t] = Idle
    BY NoTaskInBoot
  <1>2. (\A t \in Tasks : Allowed(t))'
    <2> SUFFICES ASSUME NEW t \in Tasks PROVE Allowed(t)'
      OBVIOUS
    <2>1. task'[t].step = "idle" /\ task'[t] = Idle
      BY <1>1, IdleRests
    <2> QED BY <2>1 DEF Allowed, Exists, MayManage
  <1>3. \A u \in Names : users = NoUsers => users[u] = NoUser
    BY DEF NoUsers
  <1>4. \A u \in Names : sessions[u] # "none" => users[u] # NoUser
    BY DEF Inv, SurvivorsAreKnown
  <1>5. \A u \in Names : sessions'[u] # "none" =>
          /\ users'[u] # NoUser
          /\ users'[u].status = "disabled" => sessions'[u] = "late"
    BY <1>3, <1>4, NoTaskInBoot DEF Inv, SurvivorsAreKnown, Invalidating, Idle
  <1> QED BY <1>1, <1>2, <1>5 DEF SurvivorsAreKnown, Idle

(* What every step of a boot leaves as it is.                              *)
LEMMA BootKeeps ==
  ASSUME Inv, boot # "up", users' = users,
         UNCHANGED <<requests, sessions, task, crossed>>
  PROVE  /\ BootTypeOK' => TypeOK'
         /\ TypeOK' /\ InstallationInv' /\ DraftInv' => Inv'
  <1>1. AnAdminRemains'
    BY DEF Inv, AnAdminRemains
  <1> QED BY <1>1, BootRest DEF Inv, TypeOK

LEMMA StartInv == ASSUME Inv, Start, UNCHANGED <<requests, sessions, task, crossed>> PROVE Inv'
  <1> USE DEF Start, database
  <1>1. BootTypeOK'
    BY DEF Inv, TypeOK, BootTypeOK, Steps
  <1>2. InstallationInv' /\ DraftInv'
    BY DEF Inv, InstallationInv, DraftInv, Admins
  <1> QED BY <1>1, <1>2, BootKeeps

LEMMA FailInv ==
  ASSUME Inv, boot # "up", Fail, events' \in 0 .. MaxEvents,
         UNCHANGED <<requests, sessions, task, crossed>>
  PROVE  Inv'
  <1> USE DEF Fail, database
  <1>1. BootTypeOK'
    BY DEF Inv, TypeOK, BootTypeOK, Steps, NoDraft, NoUsers, NoKeys, NoUser
  <1>2. InstallationInv' /\ DraftInv'
    BY DEF Inv, InstallationInv, DraftInv, Admins
  <1> QED BY <1>1, <1>2, BootKeeps

LEMMA LoadConfigInv ==
  ASSUME Inv, LoadConfig, UNCHANGED <<requests, sessions, task, crossed>> PROVE Inv'
  <1> USE DEF LoadConfig, database
  <1>1. CASE file = Invalid
    BY <1>1, FailInv DEF Inv, TypeOK, BootTypeOK
  <1>2. CASE file # Invalid
    <2>1. file \in Configurations
      BY <1>2 DEF Inv, TypeOK, BootTypeOK
    <2>2. Hashed(file) \in Configurations
      BY <2>1, HashedConfiguration
    <2>3. /\ config' \in Configurations /\ file' \in Configurations \cup {Invalid}
          /\ boot' \in {"migrate", "write"}
          /\ events' \in 0 .. MaxEvents
          /\ UNCHANGED <<database, at, draft>>
      <3>1. CASE ~Plaintext(file)
        BY <1>2, <2>1, <3>1 DEF Inv, TypeOK, BootTypeOK
      <3>2. CASE Plaintext(file)
        BY <1>2, <2>1, <2>2, <3>2, EventsAssumption DEF Event, Inv, TypeOK, BootTypeOK
      <3> QED BY <3>1, <3>2
    <2> HIDE DEF LoadConfig
    <2>4. BootTypeOK'
      BY <2>3 DEF Inv, TypeOK, BootTypeOK, Steps
    <2>5. InstallationInv' /\ DraftInv'
      BY <2>3 DEF Inv, InstallationInv, DraftInv, Admins
    <2>6. boot # "up" /\ users' = users
      BY <2>3 DEF LoadConfig
    <2> QED BY <2>4, <2>5, <2>6, BootKeeps
  <1> QED BY <1>1, <1>2

LEMMA WriteBackInv ==
  ASSUME Inv, WriteBack, UNCHANGED <<requests, sessions, task, crossed>> PROVE Inv'
  <1> USE DEF WriteBack, database
  <1>1. file' \in Configurations \cup {Invalid}
    BY CutConfiguration DEF Inv, TypeOK, BootTypeOK
  <1>2. events' \in 0 .. MaxEvents
    BY EventsAssumption DEF Event, Inv, TypeOK, BootTypeOK
  <1>3. BootTypeOK'
    BY <1>2, <1>1 DEF Inv, TypeOK, BootTypeOK, Steps
  <1>4. InstallationInv' /\ DraftInv'
    BY DEF Inv, InstallationInv, DraftInv, Admins
  <1> QED BY <1>3, <1>4, BootKeeps

LEMMA MigrateInv == ASSUME Inv, Migrate, UNCHANGED <<requests, sessions, task, crossed>> PROVE Inv'
  <1> USE DEF Migrate
  <1>1. CASE ~(Migrations[at] \notin recorded /\ ~Repeatable(Migrations[at]))
    <2>1. at \in 1 .. Len(Migrations) /\ Migrations[at] \in ToSet(Migrations)
      BY MigrationsAssumption DEF Inv, TypeOK, BootTypeOK, ToSet
    <2>2. BootTypeOK'
      BY <1>1, <2>1 DEF Inv, TypeOK, BootTypeOK, Steps
    <2>3. InstallationInv' /\ DraftInv'
      BY <1>1 DEF Inv, InstallationInv, DraftInv, Admins
    <2> QED BY <1>1, <2>2, <2>3, BootKeeps
  <1>2. CASE Migrations[at] \notin recorded /\ ~Repeatable(Migrations[at])
    BY <1>2, FailInv DEF Inv, TypeOK, BootTypeOK
  <1> QED BY <1>1, <1>2

LEMMA SeedAdminInv ==
  ASSUME Inv, SeedAdmin, UNCHANGED <<requests, sessions, task, crossed>> PROVE Inv'
  <1> USE DEF SeedAdmin, database
  <1>1. CASE users = NoUsers /\ config.admin_password = NoPassword
    BY <1>1, FailInv DEF Inv, TypeOK, BootTypeOK
  <1>2. CASE ~(users = NoUsers /\ config.admin_password = NoPassword)
    <2>0. config.admin_password \in Passwords \cup {NoPassword}
      BY ConfigPassword DEF Inv, TypeOK
    <2>1. CASE users # NoUsers
      <3>1. draft' = [users |-> users, keys |-> keys, owner |-> Nobody]
        BY <1>2, <2>1 DEF NoDraft
      <3>2. BootTypeOK'
        BY <1>2, <3>1 DEF Inv, TypeOK, BootTypeOK, Steps
      <3>3. InstallationInv' /\ DraftInv'
        BY <1>2, <2>1, <3>1 DEF Inv, InstallationInv, DraftInv, Admins
      <3> QED BY <1>2, <3>2, <3>3, BootKeeps
    <2>2. CASE users = NoUsers
      <3>1. draft' = [users |-> NewUsers, keys |-> keys, owner |-> Admin]
        BY <1>2, <2>2 DEF NewUsers
      <3>2. NewUsers \in [Names -> UserRows \cup {NoUser}] /\ NewUsers[Admin].role = "admin"
            /\ \A u \in Names : NewUsers[u].phc
        BY <1>2, <2>0, <2>2, NamesAssumption DEF NewUsers, NoUsers, NoUser, Seeded, UserRows
      <3>3. BootTypeOK'
        BY <1>2, <3>1, <3>2, NamesAssumption DEF Inv, TypeOK, BootTypeOK, Steps
      <3>4. InstallationInv' /\ DraftInv'
        BY <1>2, <2>2, <3>1, <3>2, NamesAssumption
        DEF Inv, InstallationInv, DraftInv, Admins, NewUsers
      <3> QED BY <1>2, <3>3, <3>4, BootKeeps
    <2> QED BY <2>1, <2>2
  <1> QED BY <1>1, <1>2
(* The transaction of a boot.                                              *)
LEMMA FindOwnerInv ==
  ASSUME Inv, FindOwner, UNCHANGED <<requests, sessions, task, crossed>> PROVE Inv'
  <1> USE DEF FindOwner, database
  <1>1. CASE draft.keys # NoKeys \/ config.gateway_keys = <<>>
    <2>1. BootTypeOK'
      BY <1>1 DEF Inv, TypeOK, BootTypeOK, Steps
    <2>2. InstallationInv' /\ DraftInv'
      BY <1>1 DEF Inv, InstallationInv, DraftInv, Admins, NewUsers
    <2> QED BY <1>1, <2>1, <2>2, BootKeeps
  <1>2. CASE draft.keys = NoKeys /\ config.gateway_keys # <<>> /\ Admins(draft.users) = {}
    BY <1>2, FailInv DEF Inv, TypeOK, BootTypeOK
  <1>3. CASE draft.keys = NoKeys /\ config.gateway_keys # <<>> /\ Admins(draft.users) # {}
    <2>1. PICK owner \in Admins(draft.users) :
            draft' = [draft EXCEPT !.owner = owner]
      BY <1>3
    <2>2. owner \in Names
      BY DEF Admins
    <2>3. config.gateway_keys \in Seq(Keys)
      BY ConfigPassword DEF Inv, TypeOK
    <2>4. draft'.users = draft.users /\ draft'.keys = draft.keys /\ draft'.owner = owner
      BY <2>1 DEF Inv, TypeOK, BootTypeOK
    <2>5. ImportedUpTo(config.gateway_keys, 0, owner) = NoKeys
      BY DEF ImportedUpTo, NoKeys
    <2>6. BootTypeOK'
      BY <1>3, <2>1, <2>2, <2>4 DEF Inv, TypeOK, BootTypeOK, Steps
    <2>7. InstallationInv'
      BY <1>3 DEF Inv, InstallationInv, Admins
    <2>8. 1 \in 1 .. Len(config.gateway_keys)
      BY <1>3, <2>3
    <2>9. ImportedUpTo(config.gateway_keys, at - 1, draft.owner)' = NoKeys
      BY <1>3, <2>4, <2>5 DEF ImportedUpTo
    <2>10. DraftInv'
      BY <1>3, <2>4, <2>8, <2>9 DEF Inv, DraftInv, NewUsers, Admins
    <2> QED BY <1>3, <2>6, <2>7, <2>10, BootKeeps
  <1> QED BY <1>1, <1>2, <1>3

LEMMA ImportKeyInv ==
  ASSUME Inv, ImportKey, UNCHANGED <<requests, sessions, task, crossed>> PROVE Inv'
  <1> USE DEF ImportKey, database
  <1> DEFINE k == config.gateway_keys[at]
  <1>1. CASE draft.keys[k] # NoKey
    BY <1>1, FailInv DEF Inv, TypeOK, BootTypeOK
  <1>2. CASE draft.keys[k] = NoKey
    <2>1. /\ config.gateway_keys \in Seq(Keys) /\ at \in 1 .. Len(config.gateway_keys)
          /\ k \in Keys
      BY ConfigPassword DEF Inv, TypeOK, DraftInv
    <2>2. /\ draft'.users = draft.users /\ draft'.owner = draft.owner
          /\ draft'.keys = [draft.keys EXCEPT ![k] = Imported(draft.owner)]
          /\ draft' \in [users: [Names -> UserRows \cup {NoUser}],
                        keys: [Keys -> KeyRows \cup {NoKey}], owner: Names \cup {Nobody}]
      <3>1. Imported(draft.owner) \in KeyRows
        BY LimitsAssumption DEF Imported, KeyRows, Inv, DraftInv, Admins
      <3> QED BY <1>2, <2>1, <3>1 DEF Inv, TypeOK, BootTypeOK
    <2>3. draft'.keys = ImportedUpTo(config.gateway_keys, at, draft.owner)
      BY <2>1, <2>2 DEF Inv, TypeOK, BootTypeOK, DraftInv, ImportedUpTo
    <2>4. BootTypeOK'
      BY <1>2, <2>1, <2>2 DEF Inv, TypeOK, BootTypeOK, Steps
    <2>5. InstallationInv'
      BY <1>2 DEF Inv, InstallationInv, Admins
    <2>6. at' = at + 1 /\ config' = config /\ at' - 1 = at
      BY <1>2, <2>1
    <2>7. draft'.keys = ImportedUpTo(config'.gateway_keys, at' - 1, draft'.owner)
      BY <2>2, <2>3, <2>6
    <2>9. \/ users # NoUsers /\ draft.users = users
          \/ users = NoUsers /\ config.admin_password # NoPassword /\ draft.users = NewUsers
      BY DEF ImportKey, Inv, DraftInv
    <2>10. keys = NoKeys /\ draft.owner \in Admins(draft.users) /\ boot = "import"
      BY DEF ImportKey, Inv, DraftInv
    <2>11. NewUsers' = NewUsers /\ Admins(draft.users)' = Admins(draft.users)
      BY <1>2, <2>2 DEF NewUsers, Admins
    <2>12. ASSUME at = Len(config.gateway_keys) PROVE DraftInv'
      <3>1. boot' = "commit" /\ UNCHANGED <<users, keys, config>>
        BY <1>2, <2>12
      <3> HIDE DEF ImportKey
      <3> QED BY <2>2, <2>3, <2>6, <2>9, <2>10, <2>11, <2>12, <3>1 DEF DraftInv
    <2>13. ASSUME at # Len(config.gateway_keys) PROVE DraftInv'
      <3>1. boot' = "import" /\ UNCHANGED <<users, keys, config>>
        BY <1>2, <2>13
      <3>2. at' \in 1 .. Len(config.gateway_keys)
        BY <2>1, <2>6, <2>13
      <3> HIDE DEF ImportKey
      <3> QED BY <2>2, <2>3, <2>6, <2>7, <2>9, <2>10, <2>11, <3>1, <3>2 DEF DraftInv
    <2>14. DraftInv'
      BY <2>12, <2>13
    <2> QED BY <1>2, <2>4, <2>5, <2>14, BootKeeps
  <1> QED BY <1>1, <1>2

(* What a commit makes of the tables.                                      *)
LEMMA CommittedUsers ==
  ASSUME Inv, boot \in {"keys", "import", "commit"}
  PROVE  \/ users # NoUsers /\ draft.users = users
         \/ /\ users = NoUsers /\ config.admin_password # NoPassword
            /\ draft.users = NewUsers /\ NewUsers[Admin] \in UserRows
            /\ NewUsers[Admin].role = "admin" /\ NewUsers[Admin].status = "active"
            /\ NewUsers[Admin].password = config.admin_password
  <1>1. config.admin_password \in Passwords \cup {NoPassword}
    BY ConfigPassword DEF Inv, TypeOK
  <1>2. config.admin_password # NoPassword =>
          /\ NewUsers[Admin] \in UserRows
          /\ NewUsers[Admin].role = "admin" /\ NewUsers[Admin].status = "active"
          /\ NewUsers[Admin].password = config.admin_password
    BY <1>1, NamesAssumption DEF NewUsers, NoUsers, Seeded, UserRows
  <1> QED BY <1>2 DEF Inv, DraftInv

LEMMA CommitInv == ASSUME Inv, Commit, UNCHANGED <<requests, sessions, task, crossed>> PROVE Inv'
  <1> USE DEF Commit, database
  <1>1. users' = users \/ users = NoUsers
    BY CommittedUsers
  <1>2. BootTypeOK'
    BY DEF Inv, TypeOK, BootTypeOK, Steps, NoDraft, NoUsers, NoKeys, NoUser
  <1>3. TypeOK'
    BY <1>2 DEF Inv, TypeOK
  <1>4. InstallationInv'
    BY CommittedUsers, NamesAssumption DEF Inv, InstallationInv, Admins
  <1>5. DraftInv'
    BY DEF DraftInv
  <1>6. AnAdminRemains'
    BY CommittedUsers, NamesAssumption DEF Inv, AnAdminRemains
  <1> QED BY <1>1, <1>3, <1>4, <1>5, <1>6, BootRest DEF Inv

LEMMA BootInv == ASSUME Inv, Boot PROVE Inv'
  <1>1. CASE DieInBoot
    <2>1. boot # "up" /\ Fail /\ UNCHANGED <<requests, sessions, task, crossed>>
      BY <1>1 DEF Boot, DieInBoot, Booting
    <2>2. events' \in 0 .. MaxEvents
      BY <1>1, EventsAssumption DEF DieInBoot, Event, Inv, TypeOK, BootTypeOK
    <2> QED BY <2>1, <2>2, FailInv
  <1>2. CASE EditFile
    <2>1. BootTypeOK'
      BY <1>2, EventsAssumption, FilesAssumption
      DEF EditFile, Event, Inv, TypeOK, BootTypeOK, Steps, database
    <2>2. InstallationInv' /\ DraftInv'
      BY <1>2 DEF EditFile, Inv, InstallationInv, DraftInv, Admins, database
    <2> QED BY <1>2, <2>1, <2>2, BootKeeps DEF Boot, EditFile, database
  <1>3. CASE BootStep
    BY <1>3, StartInv, LoadConfigInv, WriteBackInv, MigrateInv, SeedAdminInv, FindOwnerInv,
       ImportKeyInv, CommitInv
    DEF Boot, BootStep
  <1> QED BY <1>1, <1>2, <1>3 DEF Boot

-----------------------------------------------------------------------------
(* The requests.                                                           *)

(* What a request was let in with lasts as rows keep their role and owner. *)
LEMMA Persists ==
  ASSUME Inv, NEW q \in Tasks, boot' = boot,
         \/ task'[q] = task[q]
         \/ /\ task[q].step # "idle"
            /\ \E l \in BOOLEAN : task'[q] = [task[q] EXCEPT !.late = l],
         \A u \in Names : users[u] # NoUser =>
           users'[u] # NoUser /\ users'[u].role = users[u].role,
         \A k \in Keys : keys[k] # NoKey =>
           keys'[k] # NoKey /\ keys'[k].owner = keys[k].owner
  PROVE  Allowed(q)'
  <1>1. Allowed(q) /\ task[q] \in TaskTypes
    BY DEF Inv, TypeOK
  <1>2. /\ task'[q].step = task[q].step /\ task'[q].op = task[q].op /\ task'[q].by = task[q].by
        /\ task'[q].on = task[q].on /\ task'[q].set = task[q].set
        /\ task[q].step = "idle" => task'[q] = task[q]
    BY <1>1 DEF TaskTypes
  <1>3. Exists(task[q].on) => Exists(task[q].on)'
    BY <1>2 DEF Exists
  <1>4. \A u \in Names, k \in Keys : users[u] # NoUser /\ keys[k] # NoKey
          /\ MayManage(u, keys[k]) => MayManage(u, keys[k])'
    BY DEF MayManage
  <1>5. task[q].step \in {"find", "update"} /\ task[q].op \in OnKeys =>
          /\ task[q].on \in Keys /\ keys[task[q].on] # NoKey
          /\ task[q].by \in Names /\ users[task[q].by] # NoUser
    BY <1>1, NamesAssumption DEF Allowed, Exists
  <1>6. CASE task'[q] = task[q]
    BY <1>1, <1>3, <1>4, <1>5, <1>6 DEF Allowed
  <1>7. CASE task[q].step # "idle"
    BY <1>1, <1>2, <1>3, <1>4, <1>5, <1>7 DEF Allowed
  <1> QED
    BY <1>6, <1>7

(* A step of one request that leaves the tables alone.                     *)
LEMMA QuietStep ==
  ASSUME Inv, boot = "up", NEW t \in Tasks, NEW new \in TaskTypes,
         UNCHANGED <<file, database, boot, config, at, draft, crossed>>,
         events' \in 0 .. MaxEvents, requests' \in 0 .. MaxRequests,
         task[t].step # "drop", task' = [task EXCEPT ![t] = new],
         Allowed(t)',
         new.step # "idle" /\ users[new.by].status = "disabled" =>
           new.late \/ Invalidating(new.by),
         sessions' \in [Names -> {"none", "live", "late"}],
         \A u \in Names : sessions'[u] # "none" =>
           /\ users[u] # NoUser
           /\ users[u].status = "disabled" => sessions'[u] = "late" \/ Invalidating(u)
  PROVE  Inv'
  <1>1. TypeOK'
    BY DEF Inv, TypeOK, BootTypeOK, database
  <1>2. InstallationInv' /\ DraftInv' /\ AnAdminRemains'
    BY DEF Inv, InstallationInv, DraftInv, AnAdminRemains, Admins, database
  <1>3. (\A q \in Tasks : Allowed(q))'
    <2> SUFFICES ASSUME NEW q \in Tasks PROVE Allowed(q)'
      OBVIOUS
    <2>1. q # t => task'[q] = task[q]
      BY DEF Inv, TypeOK
    <2> QED BY <2>1, Persists DEF database
  <1>4. \A u : Invalidating(u) => Invalidating(u)'
    BY DEF Invalidating, Inv, TypeOK
  <1>5. SurvivorsAreKnown'
    <2>1. \A q \in Tasks : task'[q] = IF q = t THEN new ELSE task[q]
      BY DEF Inv, TypeOK
    <2> QED BY <1>4, <2>1 DEF Inv, SurvivorsAreKnown, database
  <1> QED BY <1>1, <1>2, <1>3, <1>5 DEF Inv

(* A request that ends.                                                    *)
LEMMA EndAllowed ==
  ASSUME Inv, NEW t \in Tasks, Done(t)
  PROVE  Allowed(t)' /\ task' = [task EXCEPT ![t] = Idle]
  <1>1. task'[t] = Idle
    BY DEF Done, Inv, TypeOK
  <1> QED BY <1>1, IdleRests DEF Allowed, Done

(* Which operations a request may be about, and where it starts.           *)
LEMMA FirstSteps ==
  ASSUME NEW op \in Operations
  PROVE  \/ op \in {"create user", "create key"} /\ FirstStep(op) = "insert"
         \/ op \in {"disable", "enable", "reset"} /\ FirstStep(op) = "find"
         \/ op = "change" /\ FirstStep(op) = "verify"
         \/ op \in OnKeys /\ FirstStep(op) = "check"
  BY DEF Operations, ManagingUsers, OnKeys, FirstStep

LEMMA BeginInv == ASSUME Inv, NEW t \in Tasks, Begin(t) PROVE Inv'
  <1>1. PICK u \in Names, op \in Operations :
          /\ sessions[u] # "none"
          /\ op \in ManagingUsers => users[u].role = "admin"
          /\ \E on \in Targets(op, u), set \in Sets(op) :
               task' = [task EXCEPT ![t] =
                 [step |-> FirstStep(op), op |-> op, by |-> u, late |-> sessions[u] = "late",
                  on |-> on, row |-> NoUser, set |-> set]]
    BY DEF Begin
  <1>2. PICK on \in Targets(op, u), set \in Sets(op) :
          task' = [task EXCEPT ![t] =
            [step |-> FirstStep(op), op |-> op, by |-> u, late |-> sessions[u] = "late",
             on |-> on, row |-> NoUser, set |-> set]]
    BY <1>1
  <1> DEFINE new == [step |-> FirstStep(op), op |-> op, by |-> u, late |-> sessions[u] = "late",
                     on |-> on, row |-> NoUser, set |-> set]
  <1>3. /\ new.step = FirstStep(op) /\ new.op = op /\ new.by = u /\ new.on = on
        /\ new.set = set /\ new.late = (sessions[u] = "late")
    OBVIOUS
  <1>4. /\ op = "create user" => on \in Names
        /\ op = "create key" => on \in Keys
        /\ op \in {"disable", "enable", "reset"} => on \in Names /\ users[on] # NoUser
        /\ op = "disable" => on # u
        /\ op = "change" => on = u
        /\ op \in OnKeys => on \in Keys /\ keys[on] # NoKey
        /\ on \in Names \cup Keys
    <2>1. on \in Targets(op, u)
      OBVIOUS
    <2> QED BY <2>1 DEF Targets, OnKeys, Operations, ManagingUsers
  <1>5. users[u] # NoUser /\ boot = "up" /\ task[t].step = "idle"
    BY <1>1 DEF Begin, Inv, SurvivorsAreKnown
  <1>6. new \in TaskTypes
    <2>1. set \in UNION {Sets(o) : o \in Operations \cup {"none"}}
      OBVIOUS
    <2> QED BY <1>4, <2>1, FirstSteps DEF TaskTypes
  <1>7. task'[t] = new /\ UNCHANGED <<boot, users, keys>>
    BY <1>2 DEF Begin, Inv, TypeOK, bootVars, database
  <1> HIDE DEF new
  <1>8. Allowed(t)'
    <2>1. op \in {"create user", "create key"} =>
            new.step = "insert" /\ new.op \in {"create user", "create key"}
      BY <1>3, FirstSteps DEF OnKeys
    <2>2. new.step # "idle"
      BY <1>3, FirstSteps
    <2>3. CASE op \in {"create user", "create key"}
      BY <1>3, <1>4, <1>5, <1>7, <2>1, <2>2, <2>3 DEF Allowed
    <2>4. CASE op \in {"disable", "enable", "reset"}
      <3>1. new.step = "find" /\ op \notin OnKeys /\ on \notin Keys /\ users[u].role = "admin"
        BY <1>1, <1>3, <1>4, <2>4, FirstSteps, NamesAssumption DEF OnKeys, ManagingUsers
      <3> QED BY <1>3, <1>4, <1>5, <1>7, <2>4, <3>1 DEF Allowed, Exists
    <2>5. CASE op = "change"
      <3>1. new.step = "verify" /\ op \notin OnKeys /\ on \notin Keys
        BY <1>3, <1>4, <2>5, FirstSteps, NamesAssumption DEF OnKeys
      <3> QED BY <1>3, <1>4, <1>5, <1>7, <2>5, <3>1 DEF Allowed, Exists
    <2>6. CASE op \in OnKeys
      <3>1. new.step = "check"
        BY <1>3, <2>6, FirstSteps DEF OnKeys
      <3> QED BY <1>3, <1>4, <1>5, <1>7, <2>6, <3>1 DEF Allowed, Exists, OnKeys
    <2> QED BY <2>3, <2>4, <2>5, <2>6, FirstSteps
  <1>9. users[new.by].status = "disabled" => new.late \/ Invalidating(new.by)
    BY <1>1, <1>3 DEF Inv, SurvivorsAreKnown
  <1>10. requests' \in 0 .. MaxRequests /\ events' \in 0 .. MaxEvents
    BY RequestsAssumption DEF Begin, NewRequest, bootVars, Inv, TypeOK, BootTypeOK
  <1>11. /\ task' = [task EXCEPT ![t] = new]
         /\ UNCHANGED <<file, database, boot, config, at, draft, crossed, sessions>>
    BY <1>2 DEF Begin, bootVars, new
  <1> QED
    BY <1>5, <1>6, <1>8, <1>9, <1>10, <1>11, QuietStep
    DEF Inv, TypeOK, SurvivorsAreKnown

LEMMA EndsInv ==
  ASSUME Inv, NEW t \in Tasks, task[t].step # "idle", task[t].step # "drop", Done(t),
         UNCHANGED <<file, database, boot, config, at, draft, requests, sessions, crossed>>,
         events' \in 0 .. MaxEvents
  PROVE  Inv'
  <1>1. boot = "up" /\ Allowed(t)' /\ task' = [task EXCEPT ![t] = Idle]
    BY EndAllowed DEF Inv, Allowed
  <1>2. requests' \in 0 .. MaxRequests
    BY DEF Inv, TypeOK
  <1> QED
    BY <1>1, <1>2, QuietStep, IdleRests, IdleIsATask DEF Inv, TypeOK, SurvivorsAreKnown

(* A request that goes on to its next step.                                *)
LEMMA GoesOnInv ==
  ASSUME Inv, NEW t \in Tasks, NEW new \in TaskTypes,
         task[t].step \notin {"idle", "drop"},
         UNCHANGED <<bootVars, requests, sessions, crossed>>,
         task' = [task EXCEPT ![t] = new], Allowed(t)',
         new.by = task[t].by /\ new.late = task[t].late
  PROVE  Inv'
  <1>1. Allowed(t) /\ boot = "up"
    BY DEF Inv, Allowed
  <1>2. new.step # "idle" /\ users[new.by].status = "disabled" =>
          new.late \/ Invalidating(new.by)
    BY DEF Inv, SurvivorsAreKnown
  <1>3. requests' \in 0 .. MaxRequests /\ events' \in 0 .. MaxEvents
    BY DEF bootVars, Inv, TypeOK, BootTypeOK
  <1>4. UNCHANGED <<file, database, boot, config, at, draft, crossed, sessions>>
    BY DEF bootVars
  <1> QED BY <1>1, <1>2, <1>3, <1>4, QuietStep DEF Inv, TypeOK, SurvivorsAreKnown

LEMMA FindRowInv == ASSUME Inv, NEW t \in Tasks, FindRow(t) PROVE Inv'
  <1> DEFINE new == [task[t] EXCEPT !.step = "update", !.row = Row(task[t].on)]
  <1>1. task[t] \in TaskTypes /\ Allowed(t) /\ task[t].step = "find"
    BY DEF Inv, TypeOK, FindRow
  <1>2. Row(task[t].on) \in UserRows \cup KeyRows \cup {NoUser, NoKey}
    BY <1>1, ZenonT(60) DEF Row, Allowed, Exists, Inv, TypeOK, BootTypeOK
  <1>3. /\ new \in TaskTypes /\ new.step = "update" /\ new.op = task[t].op
        /\ new.by = task[t].by /\ new.on = task[t].on /\ new.set = task[t].set
        /\ new.late = task[t].late
    BY <1>1, <1>2 DEF TaskTypes
  <1>4. task' = [task EXCEPT ![t] = new] /\ task'[t] = new
    BY DEF FindRow, Inv, TypeOK
  <1> HIDE DEF new
  <1>5. UNCHANGED <<bootVars, requests, sessions, crossed>>
    BY DEF FindRow
  <1>6. Allowed(t)'
    BY <1>1, <1>3, <1>4, <1>5 DEF Allowed, Exists, MayManage, bootVars, database
  <1> QED BY <1>1, <1>3, <1>4, <1>5, <1>6, GoesOnInv

LEMMA VerifyCurrentInv == ASSUME Inv, NEW t \in Tasks, VerifyCurrent(t) PROVE Inv'
  <1> DEFINE new == [task[t] EXCEPT !.step = "find"]
  <1>1. task[t] \in TaskTypes /\ Allowed(t) /\ task[t].step = "verify"
        /\ UNCHANGED <<bootVars, requests, sessions, crossed>>
    BY DEF Inv, TypeOK, VerifyCurrent
  <1>2. CASE Done(t)
    BY <1>1, <1>2, EndsInv DEF bootVars, Inv, TypeOK, BootTypeOK
  <1>3. CASE Goto(t, "find")
    <2>1. /\ new \in TaskTypes /\ new.step = "find" /\ new.op = task[t].op
          /\ new.by = task[t].by /\ new.on = task[t].on /\ new.set = task[t].set
          /\ new.late = task[t].late
      BY <1>1 DEF TaskTypes
    <2>2. task' = [task EXCEPT ![t] = new] /\ task'[t] = new
      BY <1>3 DEF Goto, Inv, TypeOK
    <2> HIDE DEF new
    <2>3. task[t].op = "change" /\ task[t].op \notin OnKeys
      BY <1>1 DEF Allowed, OnKeys
    <2>4. Allowed(t)'
      BY <1>1, <2>1, <2>2, <2>3 DEF Allowed, Exists, bootVars, database
    <2> QED BY <1>1, <2>1, <2>2, <2>4, GoesOnInv
  <1> QED BY <1>2, <1>3 DEF VerifyCurrent

LEMMA CheckKeyInv == ASSUME Inv, NEW t \in Tasks, CheckKey(t) PROVE Inv'
  <1> DEFINE new == [task[t] EXCEPT !.step = "find"]
  <1>1. task[t] \in TaskTypes /\ Allowed(t) /\ task[t].step = "check"
        /\ UNCHANGED <<bootVars, requests, sessions, crossed>>
    BY DEF Inv, TypeOK, CheckKey
  <1>2. CASE Done(t)
    BY <1>1, <1>2, EndsInv DEF bootVars, Inv, TypeOK, BootTypeOK
  <1>3. CASE Goto(t, "find") /\ MayManage(task[t].by, keys[task[t].on])
    <2>1. /\ new \in TaskTypes /\ new.step = "find" /\ new.op = task[t].op
          /\ new.by = task[t].by /\ new.on = task[t].on /\ new.set = task[t].set
          /\ new.late = task[t].late
      BY <1>1 DEF TaskTypes
    <2>2. task' = [task EXCEPT ![t] = new] /\ task'[t] = new
      BY <1>3 DEF Goto, Inv, TypeOK
    <2> HIDE DEF new
    <2>3. task[t].op \in OnKeys
      BY <1>1 DEF Allowed
    <2>4. Allowed(t)'
      BY <1>1, <1>3, <2>1, <2>2, <2>3
      DEF Allowed, Exists, MayManage, OnKeys, bootVars, database
    <2> QED BY <1>1, <2>1, <2>2, <2>4, GoesOnInv
  <1> QED BY <1>2, <1>3 DEF CheckKey

LEMMA LoginInv == ASSUME Inv, NEW t \in Tasks, Login(t) PROVE Inv'
  <1>1. PICK u \in Names :
          /\ users[u].status = "active"
          /\ task' = [task EXCEPT ![t] = [Idle EXCEPT !.step = "open", !.op = "login",
                                                      !.by = u, !.on = u]]
    BY DEF Login
  <1> DEFINE new == [Idle EXCEPT !.step = "open", !.op = "login", !.by = u, !.on = u]
  <1>2. new \in TaskTypes /\ new.step = "open" /\ new.by = u /\ task'[t] = new
    BY <1>1, IdleIsATask, NamesAssumption DEF TaskTypes, Idle, Inv, TypeOK
  <1>3. task' = [task EXCEPT ![t] = new]
    BY <1>1
  <1> HIDE DEF new
  <1>4. UNCHANGED <<bootVars, requests, sessions, crossed>> /\ boot = "up"
        /\ task[t].step = "idle"
    BY DEF Login
  <1>5. users[u] # NoUser
    BY <1>1 DEF NoUser
  <1>6. Allowed(t)'
    BY <1>2, <1>4, <1>5 DEF Allowed, bootVars, database
  <1>7. requests' \in 0 .. MaxRequests /\ events' \in 0 .. MaxEvents
    BY <1>4 DEF bootVars, Inv, TypeOK, BootTypeOK
  <1>8. UNCHANGED <<file, database, boot, config, at, draft, crossed, sessions>>
    BY <1>4 DEF bootVars
  <1> QED BY <1>1, <1>2, <1>3, <1>4, <1>6, <1>7, <1>8, QuietStep
      DEF Inv, TypeOK, SurvivorsAreKnown

LEMMA OpenInv == ASSUME Inv, NEW t \in Tasks, Open(t) PROVE Inv'
  <1>1. task[t].step = "open" /\ Allowed(t) /\ task[t].by \in Names
        /\ users[task[t].by] # NoUser /\ boot = "up"
    BY DEF Open, Inv, Allowed
  <1>2. Allowed(t)' /\ task' = [task EXCEPT ![t] = Idle]
    BY EndAllowed DEF Open
  <1>3. requests' \in 0 .. MaxRequests /\ events' \in 0 .. MaxEvents
        /\ UNCHANGED <<file, database, boot, config, at, draft, crossed>>
    BY DEF Open, bootVars, Inv, TypeOK, BootTypeOK
  <1>4. sessions' \in [Names -> {"none", "live", "late"}]
    BY DEF Open, Inv, TypeOK
  <1>5. \A u \in Names : sessions'[u] # "none" =>
          /\ users[u] # NoUser
          /\ users[u].status = "disabled" => sessions'[u] = "late" \/ Invalidating(u)
    <2> TAKE u \in Names
    <2>1. CASE u = task[t].by
      BY <1>1, <2>1 DEF Open, Inv, TypeOK, SurvivorsAreKnown
    <2>2. CASE u # task[t].by
      BY <2>2 DEF Open, Inv, TypeOK, SurvivorsAreKnown
    <2> QED BY <2>1, <2>2
  <1> QED BY <1>1, <1>2, <1>3, <1>4, <1>5, QuietStep, IdleRests, IdleIsATask

(* Logging out.                                                            *)
LEMMA SignOutInv == ASSUME Inv, NEW u \in Names, SignOut(u) PROVE Inv'
  <1>1. sessions' \in [Names -> {"none", "live", "late"}]
        /\ \A v \in Names : sessions'[v] # "none" => sessions'[v] = sessions[v]
    BY DEF SignOut, Inv, TypeOK
  <1>2. UNCHANGED <<file, schema, recorded, users, keys, boot, config, at, draft, events,
                   requests, task, crossed>>
    BY DEF SignOut, bootVars, database
  <1>3. TypeOK'
    BY <1>1, <1>2 DEF Inv, TypeOK, BootTypeOK
  <1>4. InstallationInv'
    BY <1>2 DEF Inv, InstallationInv, Admins
  <1>5. DraftInv'
    BY <1>2 DEF Inv, DraftInv, NewUsers, Admins
  <1>6. (\A t \in Tasks : Allowed(t))'
    BY <1>2, ZenonT(60) DEF Inv, Allowed, Exists, MayManage
  <1>7. SurvivorsAreKnown'
    BY <1>1, <1>2 DEF Inv, SurvivorsAreKnown, Invalidating
  <1>8. AnAdminRemains'
    BY <1>2 DEF Inv, AnAdminRemains
  <1> QED BY <1>3, <1>4, <1>5, <1>6, <1>7, <1>8 DEF Inv

-----------------------------------------------------------------------------
(* The writes.                                                             *)

(* A step of one request that changes rows.                                *)
LEMMA WriteStep ==
  ASSUME Inv, NEW t \in Tasks, NEW new \in TaskTypes,
         task[t].step # "idle", task[t].step # "drop",
         UNCHANGED <<file, schema, recorded, boot, config, at, draft, requests, sessions, events>>,
         crossed' \in BOOLEAN,
         users' \in [Names -> UserRows \cup {NoUser}], \A u \in Names : users'[u].phc,
         keys' \in [Keys -> KeyRows \cup {NoKey}],
         \A u \in Names : users[u] # NoUser =>
           users'[u] # NoUser /\ users'[u].role = users[u].role,
         \A k \in Keys : keys[k] # NoKey =>
           keys'[k] # NoKey /\ keys'[k].owner = keys[k].owner,
         task' = [task EXCEPT ![t] = new], Allowed(t)',
         new.step # "idle" => new.by = task[t].by /\ new.late = task[t].late,
         \A u \in Names : users'[u].status = "disabled" =>
           \/ users[u].status = "disabled"
           \/ new.step = "drop" /\ new.op = "disable" /\ new.on = u,
         AnAdminRemains'
  PROVE  Inv'
  <1>0. Allowed(t) /\ boot = "up" /\ task[t].by \in Names /\ users[task[t].by] # NoUser
    BY DEF Inv, Allowed
  <1>1. TypeOK'
    BY DEF Inv, TypeOK, BootTypeOK
  <1>2. InstallationInv'
    <2>1. users # NoUsers
      BY <1>0 DEF NoUsers
    <2>2. PICK u \in Names : users[u].role = "admin"
      BY <2>1 DEF Inv, InstallationInv, Admins
    <2>3. users[u] # NoUser
      BY <2>2 DEF NoUser
    <2> QED BY <2>2, <2>3 DEF Inv, InstallationInv, Admins
  <1>3. DraftInv'
    BY <1>0 DEF DraftInv
  <1>4. \A q \in Tasks : task'[q] = IF q = t THEN new ELSE task[q]
    BY DEF Inv, TypeOK
  <1>5. (\A q \in Tasks : Allowed(q))'
    <2> SUFFICES ASSUME NEW q \in Tasks PROVE Allowed(q)'
      OBVIOUS
    <2>1. q # t => task'[q] = task[q]
      BY <1>4
    <2> QED BY <2>1, Persists
  <1>6. \A u : Invalidating(u) => Invalidating(u)'
    BY <1>4 DEF Invalidating
  <1>7. \A u : new.step = "drop" /\ new.op = "disable" /\ new.on = u => Invalidating(u)'
    BY <1>4 DEF Invalidating
  <1>8. SurvivorsAreKnown'
    <2>1. \A q \in Tasks : task'[q].step # "idle" =>
            /\ task[q].step # "idle" /\ task'[q].by = task[q].by
            /\ task'[q].late = task[q].late /\ task[q].by \in Names
      <3> SUFFICES ASSUME NEW q \in Tasks, task'[q].step # "idle"
                   PROVE  /\ task[q].step # "idle" /\ task'[q].by = task[q].by
                          /\ task'[q].late = task[q].late /\ task[q].by \in Names
        OBVIOUS
      <3>1. CASE q = t
        BY <1>0, <1>4, <3>1
      <3>2. CASE q # t
        <4>1. task'[q] = task[q] /\ Allowed(q)
          BY <1>4, <3>2 DEF Inv
        <4> QED BY <4>1 DEF Allowed
      <3> QED BY <3>1, <3>2
    <2>3. ASSUME NEW q \in Tasks, NEW u, task'[q].step # "idle", u = task[q].by,
                 users'[u].status = "disabled"
          PROVE  task[q].late \/ Invalidating(u)'
      <3>1. u \in Names /\ task[q].step # "idle"
        BY <2>1, <2>3
      <3>2. CASE users[u].status = "disabled"
        <4>1. task[q].late \/ Invalidating(u)
          BY <2>3, <3>1, <3>2 DEF Inv, SurvivorsAreKnown
        <4> QED BY <1>6, <4>1
      <3>3. CASE users[u].status # "disabled"
        BY <1>7, <2>3, <3>1, <3>3
      <3> QED BY <3>2, <3>3
    <2>2. ASSUME NEW u \in Names, sessions'[u] # "none"
          PROVE  /\ users'[u] # NoUser
                 /\ users'[u].status = "disabled" =>
                      sessions'[u] = "late" \/ Invalidating(u)'
      BY <1>6, <1>7, <2>2 DEF Inv, SurvivorsAreKnown
    <2> QED BY <2>1, <2>2, <2>3 DEF SurvivorsAreKnown
  <1> QED BY <1>1, <1>2, <1>3, <1>5, <1>8 DEF Inv

(* Who writes is a user, so the table is not empty and, unless disables    *)
(* crossed, an administrator can sign in.                                  *)
LEMMA AnAdminWas ==
  ASSUME Inv, NEW t \in Tasks, task[t].step # "idle"
  PROVE  /\ users # NoUsers
         /\ ~crossed => \E u \in Names : users[u].role = "admin" /\ users[u].status = "active"
  <1>1. task[t].by \in Names /\ users[task[t].by] # NoUser
    BY DEF Inv, Allowed
  <1>2. users # NoUsers
    BY <1>1 DEF NoUsers
  <1> QED BY <1>2 DEF Inv, AnAdminRemains

LEMMA InsertUserInv == ASSUME Inv, NEW t \in Tasks, InsertUser(t) PROVE Inv'
  <1> DEFINE u == task[t].on
  <1>1. /\ task[t].step = "insert" /\ task[t].op = "create user"
        /\ Allowed(t) /\ u \in Names /\ task[t].set \in Sets("create user")
        /\ users' = IF users[u] = NoUser THEN [users EXCEPT ![u] = task[t].set] ELSE users
    BY DEF InsertUser, Inv, Allowed
  <1>2. task[t].set \in UserRows /\ task[t].set.phc /\ task[t].set.status = "active"
    BY <1>1 DEF Sets, UserRows
  <1>3. /\ users' \in [Names -> UserRows \cup {NoUser}]
        /\ \A v \in Names : users'[v].phc
        /\ \A v \in Names : users[v] # NoUser => users'[v] = users[v]
        /\ \A v \in Names : users'[v].status = "disabled" => users[v].status = "disabled"
    BY <1>1, <1>2 DEF Inv, TypeOK, BootTypeOK
  <1>4. AnAdminRemains'
    <2>1. \A v \in Names : users[v].role = "admin" => users[v] # NoUser
      BY DEF NoUser
    <2> QED BY <1>1, <1>3, <2>1, AnAdminWas DEF AnAdminRemains, InsertUser
  <1>5. Allowed(t)' /\ task' = [task EXCEPT ![t] = Idle]
    BY EndAllowed DEF InsertUser
  <1>6. UNCHANGED <<file, schema, recorded, boot, config, at, draft, requests, sessions, events,
                    keys, crossed>> /\ crossed' \in BOOLEAN /\ keys' \in [Keys -> KeyRows \cup {NoKey}]
    BY DEF InsertUser, accountVars, Inv, TypeOK, BootTypeOK
  <1> QED BY <1>1, <1>3, <1>4, <1>5, <1>6, WriteStep, IdleRests, IdleIsATask

LEMMA InsertKeyInv == ASSUME Inv, NEW t \in Tasks, InsertKey(t) PROVE Inv'
  <1> DEFINE k == task[t].on
  <1>1. PICK limits \in Limits :
          keys' = [keys EXCEPT ![k] =
                     [owner |-> task[t].by, status |-> "active", limits |-> limits]]
    BY DEF InsertKey
  <1>2. task[t].step = "insert" /\ k \in Keys /\ keys[k] = NoKey /\ task[t].by \in Names
    BY DEF InsertKey, Inv, Allowed
  <1>3. [owner |-> task[t].by, status |-> "active", limits |-> limits] \in KeyRows
    BY <1>2 DEF KeyRows
  <1>4. /\ keys' \in [Keys -> KeyRows \cup {NoKey}]
        /\ \A q \in Keys : keys[q] # NoKey => keys'[q] = keys[q]
    BY <1>1, <1>2, <1>3 DEF Inv, TypeOK, BootTypeOK
  <1>5. AnAdminRemains'
    BY DEF InsertKey, Inv, AnAdminRemains
  <1>6. Allowed(t)' /\ task' = [task EXCEPT ![t] = Idle]
    BY EndAllowed DEF InsertKey
  <1>7. UNCHANGED <<file, schema, recorded, boot, config, at, draft, requests, sessions, events,
                    users, crossed>> /\ crossed' \in BOOLEAN
        /\ users' \in [Names -> UserRows \cup {NoUser}] /\ \A u \in Names : users'[u].phc
    BY DEF InsertKey, accountVars, Inv, TypeOK, BootTypeOK
  <1> QED BY <1>2, <1>4, <1>5, <1>6, <1>7, WriteStep, IdleRests, IdleIsATask

LEMMA UpdateKeyInv == ASSUME Inv, NEW t \in Tasks, UpdateKey(t) PROVE Inv'
  <1> DEFINE k == task[t].on
  <1>1. /\ task[t].step = "update" /\ k \in Keys /\ keys[k] \in KeyRows
        /\ task[t].op \in OnKeys /\ task[t].set \in Sets(task[t].op)
        /\ keys' = [keys EXCEPT ![k] = Updated(keys[k], task[t].row, task[t].set)]
    BY NamesAssumption DEF UpdateKey, Inv, Allowed, Exists, TypeOK, BootTypeOK
  <1>2. /\ Updated(keys[k], task[t].row, task[t].set) \in KeyRows
        /\ Updated(keys[k], task[t].row, task[t].set).owner = keys[k].owner
    BY <1>1, UpdatedKey
  <1>3. NoKey \notin KeyRows
    BY DEF NoKey, KeyRows
  <1>4. /\ keys' \in [Keys -> KeyRows \cup {NoKey}]
        /\ \A q \in Keys : keys[q] # NoKey => keys'[q] # NoKey /\ keys'[q].owner = keys[q].owner
    BY <1>1, <1>2, <1>3 DEF Inv, TypeOK, BootTypeOK
  <1>5. AnAdminRemains'
    BY DEF UpdateKey, Inv, AnAdminRemains
  <1>6. Allowed(t)' /\ task' = [task EXCEPT ![t] = Idle]
    BY EndAllowed DEF UpdateKey
  <1>7. UNCHANGED <<file, schema, recorded, boot, config, at, draft, requests, sessions, events,
                    users, crossed>> /\ crossed' \in BOOLEAN
        /\ users' \in [Names -> UserRows \cup {NoUser}] /\ \A u \in Names : users'[u].phc
    BY DEF UpdateKey, accountVars, Inv, TypeOK, BootTypeOK
  <1> QED BY <1>1, <1>4, <1>5, <1>6, <1>7, WriteStep, IdleRests, IdleIsATask

LEMMA UpdateUserInv == ASSUME Inv, NEW t \in Tasks, UpdateUser(t) PROVE Inv'
  <1> DEFINE u == task[t].on
             op == task[t].op
             row == Updated(users[u], task[t].row, task[t].set)
  <1>1. /\ task[t].step = "update" /\ task[t] \in TaskTypes /\ Allowed(t)
        /\ u \in Names /\ users[u] # NoUser /\ users[u] \in UserRows /\ users[u].phc
        /\ task[t].by \in Names /\ users[task[t].by] # NoUser
        /\ task[t].set \in Sets(op)
        /\ users' = [users EXCEPT ![u] = row]
    BY NamesAssumption, ZenonT(60) DEF UpdateUser, Inv, Allowed, Exists, TypeOK, BootTypeOK
  <1>2. op \in {"disable", "enable", "reset", "change"}
    BY <1>1, NamesAssumption DEF Allowed
  <1>3. /\ row \in UserRows /\ row.phc /\ row.role = users[u].role
        /\ op = "disable" => row.status = "disabled"
        /\ op = "enable" => row.status = "active"
        /\ op \in {"reset", "change"} => row.status = users[u].status
    BY <1>1, <1>2, UpdatedUser
  <1>4. row # NoUser
    <2>1. row.role # "none"
      BY <1>3 DEF UserRows
    <2> QED BY <2>1 DEF NoUser
  <1>5. \A v \in Names : users'[v] = IF v = u THEN row ELSE users[v]
    BY <1>1 DEF Inv, TypeOK, BootTypeOK
  <1>6. /\ users' \in [Names -> UserRows \cup {NoUser}] /\ \A v \in Names : users'[v].phc
        /\ \A v \in Names : users[v] # NoUser =>
             users'[v] # NoUser /\ users'[v].role = users[v].role
    <2>1. \A v \in Names : users'[v] \in UserRows \cup {NoUser} /\ users'[v].phc
      BY <1>1, <1>3, <1>5 DEF Inv, TypeOK, BootTypeOK
    <2>2. users' = [v \in Names |-> users'[v]]
      BY <1>1 DEF Inv, TypeOK, BootTypeOK
    <2> HIDE DEF row
    <2> QED BY <1>3, <1>4, <1>5, <2>1, <2>2
  <1>7. /\ UNCHANGED <<file, schema, recorded, boot, config, at, draft, requests, sessions,
                       events, keys>>
        /\ keys' \in [Keys -> KeyRows \cup {NoKey}]
        /\ crossed' \in BOOLEAN /\ crossed' = (crossed \/ Crosses(t))
    BY DEF UpdateUser, accountVars, Inv, TypeOK, BootTypeOK
  <1> HIDE DEF row
  <1>8. AnAdminRemains'
    <2> SUFFICES ASSUME ~crossed'
                 PROVE  \E v \in Names : users'[v].role = "admin" /\ users'[v].status = "active"
      BY DEF AnAdminRemains
    <2>1. ~crossed /\ ~Crosses(t)
      BY <1>7
    <2>2. CASE op = "disable"
      \* Its author is an administrator, and not about to be signed out.
      <3>1. task[t].by # u /\ users[task[t].by].role = "admin" /\ op \notin OnKeys
        BY <1>1, <2>2 DEF Allowed, OnKeys
      <3>2. users[task[t].by].status # "disabled"
        BY <1>1, <2>1, <2>2 DEF Crosses, Inv, SurvivorsAreKnown
      <3>3. users[task[t].by].status = "active"
        BY <1>1, <3>2 DEF Inv, TypeOK, BootTypeOK, UserRows
      <3> QED BY <1>1, <1>5, <3>1, <3>3
    <2>3. CASE op # "disable"
      <3>1. PICK v \in Names : users[v].role = "admin" /\ users[v].status = "active"
        BY <1>1, <2>1, AnAdminWas
      <3> QED BY <1>2, <1>3, <1>5, <2>3, <3>1
    <2> QED BY <2>2, <2>3
  <1>9. CASE op \in {"disable", "reset"}
    <2> DEFINE new == [task[t] EXCEPT !.step = "drop"]
    <2>1. /\ new \in TaskTypes /\ new.step = "drop" /\ new.op = op /\ new.on = u
          /\ new.by = task[t].by /\ new.set = task[t].set /\ new.late = task[t].late
      BY <1>1 DEF TaskTypes
    <2>2. task' = [task EXCEPT ![t] = new] /\ task'[t] = new
      BY <1>9 DEF UpdateUser, Goto, Inv, TypeOK
    <2> HIDE DEF new
    <2>3. u \notin Keys /\ op \notin OnKeys
      BY <1>1, <1>2, NamesAssumption DEF OnKeys
    <2>4. users[task[t].by].role = "admin" /\ (op = "disable" => u # task[t].by)
      BY <1>1, <1>9, <2>3 DEF Allowed
    <2>5. users'[u] # NoUser /\ users'[task[t].by] # NoUser
          /\ users'[task[t].by].role = "admin"
      BY <1>1, <1>6, <2>4
    <2>6. Allowed(t)'
      <3>1. boot' = "up"
        BY <1>1, <1>7 DEF Allowed
      <3>2. Exists(u)'
        BY <1>1, <2>1, <2>2, <2>5 DEF Exists
      <3>3. task'[t].step = "drop" /\ task'[t].op = op /\ task'[t].on = u
            /\ task'[t].by = task[t].by /\ task'[t].set = task[t].set
        BY <2>1, <2>2
      <3> QED BY <1>1, <1>9, <2>3, <2>4, <2>5, <3>1, <3>2, <3>3 DEF Allowed, Exists
    <2>7. \A v \in Names : users'[v].status = "disabled" =>
            \/ users[v].status = "disabled"
            \/ new.step = "drop" /\ new.op = "disable" /\ new.on = v
      BY <1>2, <1>3, <1>5, <2>1
    <2> QED BY <1>1, <1>6, <1>7, <1>8, <2>1, <2>2, <2>6, <2>7, WriteStep
  <1>10. CASE op \notin {"disable", "reset"}
    <2>1. Allowed(t)' /\ task' = [task EXCEPT ![t] = Idle]
      BY <1>10, EndAllowed DEF UpdateUser
    <2>2. \A v \in Names : users'[v].status = "disabled" => users[v].status = "disabled"
      BY <1>2, <1>3, <1>5, <1>10
    <2> QED BY <1>1, <1>6, <1>7, <1>8, <2>1, <2>2, WriteStep, IdleRests, IdleIsATask
  <1> QED BY <1>9, <1>10

-----------------------------------------------------------------------------
(* Signing out whom a request disabled or gave a new password, and what    *)
(* ends a request early.                                                   *)
LEMMA DropStep ==
  ASSUME Inv, NEW t \in Tasks, task[t].step = "drop", GoesOn(t, task[t].on),
         UNCHANGED <<file, database, boot, config, at, draft, requests, crossed>>,
         events' \in 0 .. MaxEvents,
         sessions' \in [Names -> {"none", "live", "late"}],
         \A u \in Names : sessions'[u] # "none" =>
           /\ sessions[u] # "none"
           /\ sessions[u] = "late" => sessions'[u] = "late"
           /\ u = task[t].on /\ task[t].op = "disable" => sessions'[u] = "late"
  PROVE  Inv'
  <1> DEFINE u == task[t].on
  <1>1. Allowed(t) /\ boot = "up" /\ \A q \in Tasks : task[q] \in TaskTypes
    BY DEF Inv, Allowed, TypeOK
  <1>2. u \in Names
    <2>1. Exists(u) /\ (task[t].op \in OnKeys <=> u \in Keys) /\ task[t].op \in {"disable", "reset"}
      BY <1>1 DEF Allowed
    <2> QED BY <2>1 DEF Exists, OnKeys
  <1>3. task'[t] = Idle
    BY DEF GoesOn
  <1>4. \A q \in Tasks \ {t} :
          IF task[q].by = u THEN task'[q] = [task[q] EXCEPT !.late = @ \/ task[t].op = "disable"]
          ELSE task'[q] = task[q]
    BY DEF GoesOn
  <1>5. \A q \in Tasks \ {t} :
          /\ task'[q].step = task[q].step /\ task'[q].by = task[q].by
          /\ task'[q].op = task[q].op /\ task'[q].on = task[q].on
          /\ task[q].late => task'[q].late
          /\ task[q].by = u /\ task[t].op = "disable" => task'[q].late
          /\ task'[q] \in TaskTypes
          /\ \E l \in BOOLEAN : task'[q] = [task[q] EXCEPT !.late = l]
    <2> TAKE q \in Tasks \ {t}
    <2>1. CASE task[q].by = u
      <3>1. task'[q] = [task[q] EXCEPT !.late = task[q].late \/ task[t].op = "disable"]
        BY <1>4, <2>1
      <3>2. (task[q].late \/ task[t].op = "disable") \in BOOLEAN
        BY <1>1 DEF TaskTypes
      <3> QED BY <1>1, <3>1, <3>2 DEF TaskTypes
    <2>2. CASE task[q].by # u
      <3>1. task'[q] = task[q] /\ task[q] = [task[q] EXCEPT !.late = task[q].late]
            /\ task[q].late \in BOOLEAN
        BY <1>1, <1>4, <2>2 DEF TaskTypes
      <3> QED BY <1>1, <2>2, <3>1
    <2> QED BY <2>1, <2>2
  <1>6. TypeOK'
    <2>1. task' \in [Tasks -> TaskTypes]
      BY <1>3, <1>5, IdleIsATask DEF GoesOn
    <2> QED BY <2>1 DEF Inv, TypeOK, BootTypeOK, database
  <1>7. InstallationInv'
    BY DEF Inv, InstallationInv, Admins, database
  <1>8. DraftInv'
    BY <1>1 DEF DraftInv
  <1>9. AnAdminRemains'
    BY DEF Inv, AnAdminRemains, database
  <1>10. (\A q \in Tasks : Allowed(q))'
    <2> SUFFICES ASSUME NEW q \in Tasks PROVE Allowed(q)'
      OBVIOUS
    <2>1. CASE q = t
      BY <1>3, <2>1, IdleRests DEF Allowed
    <2>2. CASE q # t /\ task[q].step # "idle"
      BY <1>5, <2>2, Persists DEF database
    <2>3. CASE q # t /\ task[q].step = "idle"
      <3>1. task[q] = Idle
        BY <2>3 DEF Inv, Allowed
      <3>2. task[q].by # u
        BY <1>2, <3>1, NamesAssumption DEF Idle
      <3> QED BY <1>4, <2>3, <3>2, Persists DEF database
    <2> QED BY <2>1, <2>2, <2>3
  <1>11. ASSUME NEW v, Invalidating(v), ~(v = u /\ task[t].op = "disable")
         PROVE  Invalidating(v)'
    <2>1. PICK q \in Tasks : task[q].step = "drop" /\ task[q].op = "disable" /\ task[q].on = v
      BY <1>11 DEF Invalidating
    <2>2. q \in Tasks \ {t}
      BY <1>11, <2>1
    <2>3. task'[q].step = "drop" /\ task'[q].op = "disable" /\ task'[q].on = v
      BY <1>5, <2>1, <2>2
    <2> QED BY <2>3 DEF Invalidating
  <1>12. SurvivorsAreKnown'
    <2>1. ASSUME NEW q \in Tasks, task'[q].step # "idle", NEW v, v = task'[q].by,
                 users'[v].status = "disabled"
          PROVE  task'[q].late \/ Invalidating(v)'
      <3>1. q # t
        BY <1>3, <2>1, IdleRests
      <3>2. task[q].step # "idle" /\ task[q].by = v /\ users[v].status = "disabled"
        BY <1>5, <2>1, <3>1 DEF database
      <3>3. task[q].late \/ Invalidating(v)
        BY <3>2 DEF Inv, SurvivorsAreKnown
      <3> QED BY <1>5, <1>11, <3>1, <3>2, <3>3
    <2>2. ASSUME NEW v \in Names, sessions'[v] # "none"
          PROVE  /\ users'[v] # NoUser
                 /\ users'[v].status = "disabled" => sessions'[v] = "late" \/ Invalidating(v)'
      BY <1>11, <2>2 DEF Inv, SurvivorsAreKnown, database
    <2> QED BY <2>1, <2>2 DEF SurvivorsAreKnown
  <1> QED BY <1>6, <1>7, <1>8, <1>9, <1>10, <1>12 DEF Inv

LEMMA DropSessionsInv == ASSUME Inv, NEW t \in Tasks, DropSessions(t) PROVE Inv'
  <1>1. /\ task[t].step = "drop" /\ GoesOn(t, task[t].on)
        /\ sessions' = [sessions EXCEPT ![task[t].on] = "none"]
    BY DEF DropSessions
  <1>2. /\ sessions' \in [Names -> {"none", "live", "late"}]
        /\ \A u \in Names : sessions'[u] # "none" =>
             sessions'[u] = sessions[u] /\ u # task[t].on
    BY <1>1 DEF Inv, TypeOK
  <1>3. UNCHANGED <<file, database, boot, config, at, draft, requests, crossed>>
        /\ events' \in 0 .. MaxEvents
    BY DEF DropSessions, bootVars, Inv, TypeOK, BootTypeOK
  <1> QED BY <1>1, <1>2, <1>3, DropStep

LEMMA GiveUpInv == ASSUME Inv, NEW t \in Tasks, GiveUp(t) PROVE Inv'
  <1>1. UNCHANGED <<file, database, boot, config, at, draft, requests, crossed>>
    BY DEF GiveUp, accountVars, database
  <1>2. events' \in 0 .. MaxEvents
    BY EventsAssumption DEF GiveUp, Event, Inv, TypeOK, BootTypeOK
  <1>3. CASE task[t].step = "drop"
    <2>1. /\ GoesOn(t, task[t].on)
          /\ sessions' = [sessions EXCEPT ![task[t].on] =
                            IF @ = "live" /\ task[t].op = "disable" THEN "late" ELSE @]
      BY <1>3 DEF GiveUp
    <2>2. /\ sessions' \in [Names -> {"none", "live", "late"}]
          /\ \A u \in Names : sessions'[u] # "none" =>
               /\ sessions[u] # "none"
               /\ sessions[u] = "late" => sessions'[u] = "late"
               /\ u = task[t].on /\ task[t].op = "disable" => sessions'[u] = "late"
      BY <2>1 DEF Inv, TypeOK
    <2> QED BY <1>1, <1>2, <1>3, <2>1, <2>2, DropStep
  <1>4. CASE task[t].step # "drop"
    <2>1. Done(t) /\ UNCHANGED sessions /\ task[t].step # "idle"
      BY <1>4 DEF GiveUp
    <2> QED BY <1>1, <1>2, <1>4, <2>1, EndsInv
  <1> QED BY <1>3, <1>4

LEMMA DieInv == ASSUME Inv, Die PROVE Inv'
  <1>1. boot' = "down" /\ task' = [t \in Tasks |-> Idle]
        /\ UNCHANGED <<file, schema, recorded, users, keys, config, at, draft, requests, crossed>>
    BY DEF Die, database
  <1>2. events' \in 0 .. MaxEvents
    BY EventsAssumption DEF Die, Event, Inv, TypeOK, BootTypeOK
  <1>3. /\ sessions' \in [Names -> {"none", "live", "late"}]
        /\ \A u \in Names : sessions'[u] # "none" =>
             /\ sessions[u] # "none"
             /\ sessions'[u] = "late" \/ (sessions[u] # "late" /\ ~Invalidating(u))
    <2>1. CASE sessions' = [u \in Names |-> "none"]
      BY <2>1
    <2>2. CASE sessions' = [u \in Names |-> IF sessions[u] = "live" /\ Invalidating(u)
                                            THEN "late" ELSE sessions[u]]
      <3> SUFFICES ASSUME NEW u \in Names
                   PROVE  /\ sessions'[u] \in {"none", "live", "late"}
                          /\ sessions'[u] # "none" =>
                               /\ sessions[u] # "none"
                               /\ \/ sessions'[u] = "late"
                                  \/ sessions[u] # "late" /\ ~Invalidating(u)
        BY <2>2
      <3>1. sessions[u] \in {"none", "live", "late"}
        BY DEF Inv, TypeOK
      <3>2. sessions'[u] = IF sessions[u] = "live" /\ Invalidating(u) THEN "late" ELSE sessions[u]
        BY <2>2
      <3> QED BY <3>1, <3>2
    <2> QED BY <2>1, <2>2 DEF Die
  <1>4. TypeOK'
    <2>1. task' \in [Tasks -> TaskTypes]
      BY <1>1, IdleIsATask
    <2> QED BY <1>1, <1>2, <1>3, <2>1 DEF Inv, TypeOK, BootTypeOK, Steps
  <1>5. InstallationInv'
    BY <1>1 DEF Inv, InstallationInv, Admins
  <1>6. DraftInv'
    BY <1>1 DEF DraftInv
  <1>7. AnAdminRemains'
    BY <1>1 DEF Inv, AnAdminRemains
  <1>8. \A t \in Tasks : task'[t] = Idle /\ task'[t].step = "idle"
    BY <1>1, IdleRests
  <1>9. (\A t \in Tasks : Allowed(t))'
    <2> SUFFICES ASSUME NEW t \in Tasks PROVE Allowed(t)'
      OBVIOUS
    <2> QED BY <1>8 DEF Allowed
  <1>10. SurvivorsAreKnown'
    <2>1. \A u \in Names : sessions'[u] # "none" =>
            users[u] # NoUser /\ (users[u].status = "disabled" => sessions'[u] = "late")
      BY <1>3 DEF Inv, SurvivorsAreKnown
    <2>2. users' = users
      BY <1>1
    <2>3. \A t \in Tasks : task'[t].step = "idle"
      BY <1>8
    <2> QED BY <2>1, <2>2, <2>3 DEF SurvivorsAreKnown
  <1> QED BY <1>4, <1>5, <1>6, <1>7, <1>9, <1>10 DEF Inv

-----------------------------------------------------------------------------
(* Every step.                                                             *)

LEMMA StutterInv == ASSUME Inv, UNCHANGED vars PROVE Inv'
  <1> USE DEF vars, bootVars, database
  <1>1. TypeOK'
    BY DEF Inv, TypeOK, BootTypeOK
  <1>2. InstallationInv'
    BY DEF Inv, InstallationInv, Admins
  <1>3. DraftInv'
    BY DEF Inv, DraftInv, NewUsers, Admins
  <1>4. (\A t \in Tasks : Allowed(t))'
    BY ZenonT(60) DEF Inv, Allowed, Exists, MayManage
  <1>5. SurvivorsAreKnown'
    BY DEF Inv, SurvivorsAreKnown, Invalidating
  <1>6. AnAdminRemains'
    BY DEF Inv, AnAdminRemains
  <1> QED BY <1>1, <1>2, <1>3, <1>4, <1>5, <1>6 DEF Inv

LEMMA NextInv == Inv /\ [Next]_vars => Inv'
  <1> SUFFICES ASSUME Inv, [Next]_vars PROVE Inv'
    OBVIOUS
  <1>1. ASSUME NEW t \in Tasks, Request(t) PROVE Inv'
    BY <1>1, BeginInv, FindRowInv, UpdateUserInv, UpdateKeyInv, InsertUserInv, InsertKeyInv,
       VerifyCurrentInv, CheckKeyInv, LoginInv, OpenInv, DropSessionsInv, GiveUpInv
    DEF Request
  <1>2. ASSUME NEW u \in Names, SignOut(u) PROVE Inv'
    BY <1>2, SignOutInv
  <1>3. CASE UNCHANGED vars
    BY <1>3, StutterInv
  <1> QED BY <1>1, <1>2, <1>3, BootInv, DieInv DEF Next

LEMMA Invariance == Spec => []Inv
  BY InitInv, NextInv, PTL DEF Spec

(* Every state is of its type, and no password is stored in plaintext.     *)
THEOREM AccountTypesCorrect == Spec => []TypeOK
  <1>1. Inv => TypeOK
    BY DEF Inv
  <1> QED BY <1>1, Invariance, PTL

(* Unless administrators disable each other at once, one is left.          *)
THEOREM AnAdminAlwaysRemains == Spec => []AnAdminRemains
  <1>1. Inv => AnAdminRemains
    BY DEF Inv
  <1> QED BY <1>1, Invariance, PTL

-----------------------------------------------------------------------------
(* What steps may do.                                                      *)

(* Before the gateway is up only the boot takes steps that matter to it.   *)
LEMMA BootSteps ==
  ASSUME Inv, boot # "up", [Next]_vars
  PROVE  \/ UNCHANGED bootVars
         \/ Boot
  <1>1. ASSUME NEW t \in Tasks, Request(t) PROVE FALSE
    <2>1. task[t].step = "idle" /\ boot # "up"
      BY NoTaskInBoot, IdleRests
    <2> QED
      BY <1>1, <2>1
      DEF Request, Begin, FindRow, UpdateUser, UpdateKey, InsertUser, InsertKey, VerifyCurrent,
          CheckKey, Login, Open, DropSessions, GiveUp
  <1>2. ASSUME NEW u \in Names, SignOut(u) PROVE UNCHANGED bootVars
    BY <1>2 DEF SignOut
  <1> QED BY <1>1, <1>2 DEF Next, Die, vars

(* What is imported is the whole list.                                     *)
LEMMA ImportedAll ==
  ASSUME NEW list \in Seq(Keys), NEW owner
  PROVE  ImportedUpTo(list, Len(list), owner) =
           [k \in Keys |-> IF k \in ToSet(list) THEN Imported(owner) ELSE NoKey]
  BY DEF ImportedUpTo, ToSet

(* A boot only ever seeds empty tables, and all of a list or nothing.      *)
THEOREM BootsOnlySeed == Spec => BootOnlySeedsEmptyTables
  <1> DEFINE Seeds == boot # "up" => /\ users' = users \/ SeedsUsers
                                     /\ keys' = keys \/ ImportsKeys
  <1>1. Inv /\ [Next]_vars => [Seeds]_bootVars
    <2> SUFFICES ASSUME Inv, [Next]_vars, boot # "up", ~UNCHANGED bootVars
                 PROVE  /\ users' = users \/ SeedsUsers
                        /\ keys' = keys \/ ImportsKeys
      OBVIOUS
    <2>1. CASE Commit
      <3>1. boot = "commit" /\ users' = draft.users /\ keys' = draft.keys
        BY <2>1 DEF Commit
      <3>2. users' = users \/ SeedsUsers
        BY <3>1, CommittedUsers DEF SeedsUsers, NewUsers
      <3>3. keys' = keys \/ ImportsKeys
        <4>1. CASE draft.keys = keys
          BY <3>1, <4>1
        <4>2. CASE draft.keys # keys
          <5>1. PICK owner \in Admins(draft.users) :
                  draft.keys = ImportedUpTo(config.gateway_keys, Len(config.gateway_keys), owner)
            BY <3>1, <4>2 DEF Inv, DraftInv
          <5>2. keys = NoKeys
            BY <3>1, <4>2 DEF Inv, DraftInv
          <5>3. config.gateway_keys \in Seq(Keys)
            BY ConfigPassword DEF Inv, TypeOK
          <5>4. draft.keys = [k \in Keys |-> IF k \in ToSet(config.gateway_keys)
                                            THEN Imported(owner) ELSE NoKey]
            BY <5>1, <5>3, ImportedAll
          <5>5. owner \in Names /\ users'[owner].role = "admin"
            BY <3>1 DEF Admins
          <5> QED BY <3>1, <5>2, <5>4, <5>5 DEF ImportsKeys
        <4> QED BY <4>1, <4>2
      <3> QED BY <3>2, <3>3
    <2>2. CASE ~Commit
      <3>1. Boot
        BY BootSteps
      <3> QED
        BY <2>2, <3>1
        DEF Boot, BootStep, Start, LoadConfig, WriteBack, Migrate, SeedAdmin, FindOwner, ImportKey,
            DieInBoot, EditFile, Fail, database
    <2> QED BY <2>1, <2>2
  <1> QED BY <1>1, Invariance, PTL DEF Spec, BootOnlySeedsEmptyTables

(* Nothing an earlier boot left in the database stops a boot: only the     *)
(* file does, or a failing statement.                                      *)
THEOREM BootsRecover == Spec => OnlyConfigStopsBoot
  <1> DEFINE Stops ==
        Booting /\ boot' = "down" /\ events' = events =>
          \/ boot = "load" /\ file = Invalid
          \/ users = NoUsers /\ config.admin_password = NoPassword
          \/ keys = NoKeys /\ ~IsInjective(config.gateway_keys)
  <1>1. Inv /\ [Next]_vars => [Stops]_bootVars
    <2> SUFFICES ASSUME Inv, [Next]_vars, Booting, boot' = "down", events' = events
                 PROVE  \/ boot = "load" /\ file = Invalid
                        \/ users = NoUsers /\ config.admin_password = NoPassword
                        \/ keys = NoKeys /\ ~IsInjective(config.gateway_keys)
      OBVIOUS
    <2>1. BootStep
      <3>1. Boot
        BY BootSteps DEF Booting, bootVars
      <3>2. events \in Nat
        BY EventsAssumption DEF Inv, TypeOK, BootTypeOK
      <3> QED BY <3>1, <3>2 DEF Boot, DieInBoot, EditFile, Event, Booting
    <2>2. CASE Migrate
      <3>1. Migrations[at] \notin recorded /\ ~Repeatable(Migrations[at])
        BY <2>2 DEF Migrate, Booting
      <3> QED BY <3>1 DEF Repeatable, Inv, InstallationInv
    <2>3. CASE SeedAdmin
      BY <2>3 DEF SeedAdmin
    <2>4. CASE FindOwner
      <3>1. Admins(draft.users) = {} /\ boot = "keys"
        BY <2>4 DEF FindOwner
      <3>2. CASE draft.users = users /\ users # NoUsers
        BY <3>1, <3>2 DEF Inv, InstallationInv
      <3>3. CASE draft.users = NewUsers /\ NewUsers[Admin].role = "admin"
        BY <3>1, <3>3, NamesAssumption DEF Admins
      <3> QED BY <3>1, <3>2, <3>3, CommittedUsers
    <2>5. CASE ImportKey
      <3> DEFINE list == config.gateway_keys
      <3>1. boot = "import" /\ draft.keys[list[at]] # NoKey
        BY <2>5 DEF ImportKey
      <3>2. list \in Seq(Keys)
        BY ConfigPassword DEF Inv, TypeOK
      <3>3. /\ keys = NoKeys /\ at \in 1 .. Len(list)
            /\ draft.keys = ImportedUpTo(list, at - 1, draft.owner)
        BY <3>1 DEF Inv, DraftInv
      <3> HIDE DEF list
      <3>4. list[at] \in Keys
        BY <3>2, <3>3
      <3>5. PICK j \in 1 .. (at - 1) : list[j] = list[at]
        BY <3>1, <3>3, <3>4 DEF ImportedUpTo
      <3>6. j \in DOMAIN list /\ at \in DOMAIN list /\ j # at
        BY <3>2, <3>3
      <3>7. ~IsInjective(list)
        BY <3>5, <3>6 DEF IsInjective
      <3> QED BY <3>3, <3>7 DEF list
    <2>6. CASE Start \/ WriteBack \/ Commit
      BY <2>6 DEF Start, WriteBack, Commit
    <2>7. CASE LoadConfig
      BY <2>7 DEF LoadConfig
    <2> QED BY <2>1, <2>2, <2>3, <2>4, <2>5, <2>6, <2>7 DEF BootStep
  <1> QED BY <1>1, Invariance, PTL DEF Spec, OnlyConfigStopsBoot

(* What an update changes of a row.                                        *)
LEMMA UpdatedColumns ==
  ASSUME NEW row, NEW read, NEW set, NEW c \in DOMAIN row,
         Updated(row, read, set)[c] # row[c]
  PROVE  c \in DOMAIN set /\ Updated(row, read, set)[c] = set[c]
  BY DEF Updated

(* No update is lost, whoever else read the row it changes.                *)
THEOREM NoUpdateIsLost == Spec => RowsChangeOnlyAsAsked
  <1> DEFINE Kept == \A x \in Names \cup Keys :
               Row(x) \notin {NoUser, NoKey} /\ Row(x)' # Row(x) => \E t \in Tasks : Asked(t, x)
  <1>1. Inv /\ [Next]_vars => Kept
    <2> SUFFICES ASSUME Inv, [Next]_vars, NEW x \in Names \cup Keys,
                        Row(x) \notin {NoUser, NoKey}, Row(x)' # Row(x)
                 PROVE  \E t \in Tasks : Asked(t, x)
      OBVIOUS
    <2>1. IF x \in Names THEN users[x] # NoUser /\ users'[x] # users[x]
          ELSE x \in Keys /\ keys[x] # NoKey /\ keys'[x] # keys[x]
      BY DEF Row
    <2>2. ASSUME NEW t \in Tasks, UpdateUser(t) PROVE Asked(t, x)
      <3> DEFINE u == task[t].on
      <3>1. /\ task[t].step = "update" /\ u \in Names /\ users[u] # NoUser
            /\ users' = [users EXCEPT ![u] = Updated(users[u], task[t].row, task[t].set)]
            /\ keys' = keys /\ Allowed(t)
        BY <2>2, NamesAssumption DEF UpdateUser, Inv, Allowed, Exists
      <3>2. x = u
        BY <2>1, <3>1 DEF Inv, TypeOK, BootTypeOK
      <3>3. users'[u] = Updated(users[u], task[t].row, task[t].set)
        BY <3>1 DEF Inv, TypeOK, BootTypeOK
      <3>4. Row(x) = users[u] /\ Row(x)' = users'[u]
        BY <3>1, <3>2 DEF Row
      <3>5. \A c \in DOMAIN Row(x) : Row(x)'[c] # Row(x)[c] =>
              c \in DOMAIN task[t].set /\ Row(x)'[c] = task[t].set[c]
        BY <3>3, <3>4, UpdatedColumns
      <3>6. users[task[t].by].role = "admin" \/ task[t].by = x
        BY <3>1, <3>2, NamesAssumption DEF Allowed
      <3> QED BY <3>1, <3>2, <3>5, <3>6 DEF Asked
    <2>3. ASSUME NEW t \in Tasks, UpdateKey(t) PROVE Asked(t, x)
      <3> DEFINE k == task[t].on
      <3>1. /\ task[t].step = "update" /\ k \in Keys /\ keys[k] # NoKey
            /\ keys' = [keys EXCEPT ![k] = Updated(keys[k], task[t].row, task[t].set)]
            /\ users' = users /\ Allowed(t)
        BY <2>3, NamesAssumption DEF UpdateKey, Inv, Allowed, Exists
      <3>2. x = k /\ x \notin Names
        BY <2>1, <3>1, NamesAssumption DEF Inv, TypeOK, BootTypeOK
      <3>3. keys'[k] = Updated(keys[k], task[t].row, task[t].set)
        BY <3>1 DEF Inv, TypeOK, BootTypeOK
      <3>4. Row(x) = keys[k] /\ Row(x)' = keys'[k]
        BY <3>1, <3>2 DEF Row
      <3>5. \A c \in DOMAIN Row(x) : Row(x)'[c] # Row(x)[c] =>
              c \in DOMAIN task[t].set /\ Row(x)'[c] = task[t].set[c]
        BY <3>3, <3>4, UpdatedColumns
      <3>6. users[task[t].by].role = "admin" \/ keys[x].owner = task[t].by
        BY <3>1, <3>2, NamesAssumption DEF Allowed, MayManage
      <3> QED BY <3>1, <3>2, <3>5, <3>6 DEF Asked
    <2>4. ASSUME NEW t \in Tasks, Request(t), ~UpdateUser(t), ~UpdateKey(t) PROVE FALSE
      <3>1. CASE InsertUser(t)
        <4>1. users' = users \/ (users[task[t].on] = NoUser
                /\ users' = [users EXCEPT ![task[t].on] = task[t].set])
          BY <3>1 DEF InsertUser
        <4>2. keys' = keys
          BY <3>1 DEF InsertUser
        <4> QED BY <2>1, <4>1, <4>2 DEF Inv, TypeOK, BootTypeOK
      <3>2. CASE InsertKey(t)
        BY <2>1, <3>2 DEF InsertKey, Inv, TypeOK, BootTypeOK
      <3>3. CASE ~InsertUser(t) /\ ~InsertKey(t)
        <4>1. users' = users /\ keys' = keys
          BY <2>4, <3>3
          DEF Request, Begin, FindRow, VerifyCurrent, CheckKey, Login, Open, DropSessions, GiveUp,
              bootVars, database
        <4> QED BY <2>1, <4>1
      <3> QED BY <3>1, <3>2, <3>3
    <2>5. ASSUME Boot PROVE FALSE
      <3>1. CASE Commit
        <4>1. (users' = users \/ users = NoUsers) /\ (keys' = keys \/ keys = NoKeys)
          BY <3>1, CommittedUsers DEF Commit, Inv, DraftInv
        <4> QED BY <2>1, <4>1 DEF NoUsers, NoKeys
      <3>2. CASE ~Commit
        <4>1. users' = users /\ keys' = keys
          BY <2>5, <3>2
          DEF Boot, BootStep, Start, LoadConfig, WriteBack, Migrate, SeedAdmin, FindOwner, ImportKey,
              DieInBoot, EditFile, Fail, database
        <4> QED BY <2>1, <4>1
      <3> QED BY <3>1, <3>2
    <2>6. ASSUME Die \/ (\E u \in Names : SignOut(u)) \/ UNCHANGED vars PROVE FALSE
      <3>1. users' = users /\ keys' = keys
        BY <2>6 DEF Die, SignOut, vars, bootVars, database
      <3> QED BY <2>1, <3>1
    <2> QED BY <2>2, <2>3, <2>4, <2>5, <2>6 DEF Next
  <1>2. Inv /\ [Next]_vars => [Kept]_vars
    BY <1>1
  <1> QED BY <1>2, Invariance, PTL DEF Spec, RowsChangeOnlyAsAsked
=============================================================================
