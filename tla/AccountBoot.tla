------------------------------ MODULE AccountBoot ------------------------------
(***************************************************************************)
(* How a boot brings the account tables up (main.rs, db.rs,                *)
(* account/bootstrap.rs): the configuration is read, its admin_password    *)
(* hashed and written back, pending migrations run one transaction each,   *)
(* and one more transaction seeds the `admin` user and imports the legacy  *)
(* gateway_keys into tables that are empty.  A statement or a write may    *)
(* fail and the process may die at any step; the next boot starts over     *)
(* from what was committed, and from what is left of the file.             *)
(*                                                                         *)
(* A user is its row, a key its row under its hash; absent rows are NoUser *)
(* and NoKey.  A stored password is the password it verifies and whether   *)
(* it is a PHC hash or plaintext.  limits stands for the two limit columns *)
(* of a key.  MaxEvents bounds failures, deaths and edits of the file.     *)
(***************************************************************************)
EXTENDS Integers, SequencesExt

CONSTANTS
  Files,        \* what the operator may put in the configuration file
  Invalid,      \* a file that load_from_path or build_router refuses
  Migrations,   \* the names, in order
  IfNotExists,  \* the migrations that may be repeated
  Names,
  Admin,        \* the username of the bootstrap administrator
  Passwords,
  NoPassword,
  Keys,
  Nobody,
  Limits,
  NoLimits,
  MaxEvents

ASSUME MigrationsAssumption == Migrations \in Seq(STRING) /\ IsInjective(Migrations)
ASSUME NamesAssumption == Admin \in Names /\ Nobody \notin Names \cup Keys /\ Names \cap Keys = {}
ASSUME PasswordAssumption == NoPassword \notin Passwords
ASSUME LimitsAssumption == NoLimits \in Limits
ASSUME EventsAssumption == MaxEvents \in Nat

Configurations ==
  [admin_password: Passwords \cup {NoPassword}, phc: BOOLEAN, gateway_keys: Seq(Keys)]
ASSUME FilesAssumption == Files \subseteq Configurations /\ Invalid \notin Configurations

UserRows == [password: Passwords, phc: BOOLEAN, role: {"admin", "user"},
             status: {"active", "disabled"}]
KeyRows == [owner: Names, status: {"active", "revoked"}, limits: Limits]
NoUser == [password |-> NoPassword, phc |-> TRUE, role |-> "none", status |-> "none"]
NoKey == [owner |-> Nobody, status |-> "none", limits |-> NoLimits]

VARIABLES
  file,       \* the configuration file
  schema,     \* the migrations whose changes the database has
  recorded,   \* schema_migrations
  users,
  keys,
  boot,       \* where the boot is
  config,     \* the configuration it read
  at,         \* the migration or the legacy key it is at
  draft,      \* users and keys as its open transaction sees them
  events

database == <<schema, recorded, users, keys>>
bootVars == <<file, database, boot, config, at, draft, events>>

NoUsers == [u \in Names |-> NoUser]
NoKeys == [k \in Keys |-> NoKey]
NoDraft == [users |-> NoUsers, keys |-> NoKeys, owner |-> Nobody]

Steps == {"down", "load", "write", "migrate", "keys", "import", "commit", "up"}
Booting == boot \notin {"down", "up"}

BootInit ==
  /\ file \in Files
  /\ schema = {} /\ recorded = {}
  /\ users = NoUsers /\ keys = NoKeys
  /\ boot = "down"
  /\ config = file
  /\ at = 1
  /\ draft = NoDraft
  /\ events = 0

Event == events < MaxEvents /\ events' = events + 1

-----------------------------------------------------------------------------
(* start_web_server begins.                                                *)
Start ==
  /\ boot = "down"
  /\ boot' = "load" /\ at' = 1
  /\ UNCHANGED <<file, database, config, draft, events>>

(* The boot gives up; its open transaction is rolled back.                 *)
Fail ==
  /\ boot' = "down" /\ at' = 1
  /\ draft' = NoDraft
  /\ UNCHANGED <<file, database, config>>

(* load_from_path, then bootstrap_admin_password: a plaintext password is  *)
(* hashed, unless that fails, and written back, unless the file cannot be  *)
(* read again or opened.  Opening it for std::fs::write empties it.        *)
Plaintext(f) == f.admin_password # NoPassword /\ ~f.phc
Hashed(f) == [f EXCEPT !.phc = TRUE]

LoadConfig ==
  /\ boot = "load"
  /\ \/ file = Invalid /\ Fail /\ UNCHANGED events
     \/ /\ file # Invalid
        /\ \/ /\ ~Plaintext(file)
              /\ config' = file
              /\ boot' = "migrate" /\ UNCHANGED <<file, events>>
           \/ /\ Plaintext(file)
              /\ config' = Hashed(file)
              /\ boot' = "write" /\ file' = Invalid
              /\ UNCHANGED events
           \/ /\ Plaintext(file) /\ Event
              /\ config' \in {file, Hashed(file)}
              /\ boot' = "migrate" /\ UNCHANGED file
        /\ UNCHANGED <<database, at, draft>>

(* What a write that fails half-way leaves: a text that does not parse or  *)
(* lacks its [database], or one without what came after the cut.  A string *)
(* or an array that is cut does not parse.                                 *)
CutShort(f) ==
  {Invalid} \cup {[f EXCEPT !.admin_password = p, !.gateway_keys = k] :
                    p \in {f.admin_password, NoPassword}, k \in {f.gateway_keys, <<>>}}

(* The contents follow, or the write fails, which is only warned about.    *)
WriteBack ==
  /\ boot = "write"
  /\ boot' = "migrate"
  /\ \/ file' = config /\ UNCHANGED events
     \/ Event /\ file' \in CutShort(config)
  /\ UNCHANGED <<database, config, at, draft>>

(* One iteration of migrate: skipped if recorded, else its statements and  *)
(* its row in one transaction.                                             *)
Repeatable(m) == m \notin schema \/ m \in IfNotExists

MigrateWithoutTransaction ==
  LET m == Migrations[at] IN
  /\ boot = "migrate" /\ at <= Len(Migrations)
  /\ IF m \notin recorded /\ ~Repeatable(m) THEN Fail
     ELSE /\ schema' = schema \cup {m}
          /\ recorded' \in {recorded, recorded \cup {m}}
          /\ at' = at + 1
          /\ UNCHANGED <<file, users, keys, boot, config, draft>>
  /\ UNCHANGED events
Migrate ==
  LET m == Migrations[at] IN
  /\ boot = "migrate" /\ at <= Len(Migrations)
  /\ IF m \notin recorded /\ ~Repeatable(m) THEN Fail
     ELSE /\ schema' = schema \cup {m}
          /\ recorded' = recorded \cup {m}
          /\ at' = at + 1
          /\ UNCHANGED <<file, users, keys, boot, config, draft>>
  /\ UNCHANGED events

-----------------------------------------------------------------------------
(* bootstrap_accounts: begin, and the users it counts.                     *)

Seeded(password, phc) ==
  [password |-> password, phc |-> phc, role |-> "admin", status |-> "active"]

SeedAdminAsGiven ==
  /\ boot = "migrate" /\ at > Len(Migrations)
  /\ IF users = NoUsers /\ config.admin_password = NoPassword THEN Fail
     ELSE /\ boot' = "keys"
          /\ draft' =
               IF users # NoUsers THEN [NoDraft EXCEPT !.users = users, !.keys = keys]
               ELSE [users |-> [users EXCEPT ![Admin] =
                                  Seeded(config.admin_password, config.phc)],
                     keys |-> keys, owner |-> Admin]
          /\ UNCHANGED <<file, database, config, at>>
  /\ UNCHANGED events
SeedAdmin ==
  /\ boot = "migrate" /\ at > Len(Migrations)
  /\ IF users = NoUsers /\ config.admin_password = NoPassword THEN Fail
     ELSE /\ boot' = "keys"
          /\ draft' =
               IF users # NoUsers THEN [NoDraft EXCEPT !.users = users, !.keys = keys]
               ELSE [users |-> [users EXCEPT ![Admin] = Seeded(config.admin_password, TRUE)],
                     keys |-> keys, owner |-> Admin]
          /\ UNCHANGED <<file, database, config, at>>
  /\ UNCHANGED events

(* The keys it counts, revoked ones too, and whom legacy keys will be      *)
(* owned by: the seeded administrator, or else any, disabled or not.       *)
Admins(table) == {u \in Names : table[u].role = "admin"}

FindOwner ==
  /\ boot = "keys"
  /\ IF draft.keys # NoKeys \/ config.gateway_keys = <<>>
       THEN boot' = "commit" /\ UNCHANGED <<file, database, config, at, draft>>
     ELSE IF Admins(draft.users) = {} THEN Fail
     ELSE /\ boot' = "import" /\ at' = 1
          /\ \E owner \in Admins(draft.users) :
               /\ draft.owner # Nobody => owner = draft.owner
               /\ draft' = [draft EXCEPT !.owner = owner]
          /\ UNCHANGED <<file, database, config>>
  /\ UNCHANGED events

(* The next of gateway_keys is inserted; key_hash is UNIQUE.               *)
Imported(owner) == [owner |-> owner, status |-> "active", limits |-> NoLimits]

ImportKeyOutside ==
  LET k == config.gateway_keys[at] IN
  /\ boot = "import"
  /\ IF draft.keys[k] # NoKey THEN Fail
     ELSE /\ draft' = [draft EXCEPT !.keys[k] = Imported(draft.owner)]
          /\ keys' = draft'.keys
          /\ at' = at + 1
          /\ boot' = IF at = Len(config.gateway_keys) THEN "commit" ELSE "import"
          /\ UNCHANGED <<file, schema, recorded, users, config>>
  /\ UNCHANGED events
ImportKey ==
  LET k == config.gateway_keys[at] IN
  /\ boot = "import"
  /\ IF draft.keys[k] # NoKey THEN Fail
     ELSE /\ draft' = [draft EXCEPT !.keys[k] = Imported(draft.owner)]
          /\ at' = at + 1
          /\ boot' = IF at = Len(config.gateway_keys) THEN "commit" ELSE "import"
          /\ UNCHANGED <<file, database, config>>
  /\ UNCHANGED events

(* The gateway serves once the rest of the boot has succeeded.             *)
Commit ==
  /\ boot = "commit"
  /\ users' = draft.users /\ keys' = draft.keys
  /\ boot' = "up" /\ at' = 1
  /\ draft' = NoDraft
  /\ UNCHANGED <<file, schema, recorded, config, events>>

-----------------------------------------------------------------------------
(* Any statement fails, or the process dies.  A commit may have been done  *)
(* although its answer was lost; the boot then dies after it.              *)
DieInBoot == Booting /\ Event /\ Fail

(* Only the next boot reads what an edit leaves.                           *)
EditFile ==
  /\ boot = "down"
  /\ Event
  /\ file' \in (Files \cup {Invalid}) \ {file}
  /\ UNCHANGED <<database, boot, config, at, draft>>

BootStep ==
  \/ Start \/ LoadConfig \/ WriteBack
  \/ Migrate \/ SeedAdmin \/ FindOwner \/ ImportKey \/ Commit

-----------------------------------------------------------------------------
(* Properties of the boots.                                                *)

BootTypeOK ==
  /\ file \in Configurations \cup {Invalid}
  /\ schema \subseteq ToSet(Migrations) /\ recorded \subseteq ToSet(Migrations)
  /\ users \in [Names -> UserRows \cup {NoUser}]
  /\ keys \in [Keys -> KeyRows \cup {NoKey}]
  /\ boot \in Steps
  /\ config \in Configurations
  /\ at \in Nat \ {0}
  /\ draft \in [users: [Names -> UserRows \cup {NoUser}],
                keys: [Keys -> KeyRows \cup {NoKey}], owner: Names \cup {Nobody}]
  /\ events \in 0 .. MaxEvents
  (* user-accounts/spec.md:8 "MUST NOT store plaintext passwords". *)
  /\ \A u \in Names : users[u].phc /\ draft.users[u].phc

(* A boot adds to the account tables only what a fresh installation needs, *)
(* all of it at once: the administrator if there is no user at all, every  *)
(* legacy key, owned by an administrator, if there is no key at all, not   *)
(* even a revoked one.  No restart, however many boots died half-way,      *)
(* alters an account, brings a key back or imports half of the list        *)
(* (bootstrap.rs:15-27, user-accounts/spec.md:36-38).                      *)
SeedsUsers ==
  /\ users = NoUsers
  /\ \E row \in UserRows : /\ row.role = "admin" /\ row.status = "active"
                           /\ row.password = config.admin_password
                           /\ users' = [users EXCEPT ![Admin] = row]
ImportsKeys ==
  /\ keys = NoKeys
  /\ \E owner \in Names :
       /\ users'[owner].role = "admin"
       /\ keys' = [k \in Keys |-> IF k \in ToSet(config.gateway_keys)
                                  THEN Imported(owner) ELSE NoKey]
BootOnlySeedsEmptyTables ==
  [][boot # "up" => /\ users' = users \/ SeedsUsers
                    /\ keys' = keys \/ ImportsKeys]_bootVars

(* Nothing an earlier boot left in the database, wherever it died, makes a *)
(* boot fail: the only causes besides a failing statement are in the file, *)
(* one that is refused, no password for a database without users, or a     *)
(* legacy key that comes twice.  That the file is refused need not be the  *)
(* operator's doing: an interrupted write-back leaves it so.               *)
OnlyConfigStopsBoot ==
  [][Booting /\ boot' = "down" /\ events' = events =>
       \/ boot = "load" /\ file = Invalid
       \/ users = NoUsers /\ config.admin_password = NoPassword
       \/ keys = NoKeys /\ ~IsInjective(config.gateway_keys)]_bootVars
=============================================================================
