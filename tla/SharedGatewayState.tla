------------------------- MODULE SharedGatewayState -------------------------
(***************************************************************************)
(* The in-memory snapshot every request is served from (state.rs), the     *)
(* pointer it is swapped through (reload.rs) and the ways it is refreshed: *)
(* an admin handler commits a change to PostgreSQL, re-reads the part of   *)
(* the database it touched, loads the current snapshot, and stores a copy  *)
(* with that part replaced; a reload does the same with the config file.   *)
(*                                                                         *)
(* A task is one such handler on one thread of the tokio runtime, or the   *)
(* config-watcher thread.  No lock spans load and store, so each `.await`  *)
(* and each ArcSwap access is a step of its own.                           *)
(*                                                                         *)
(* A user stands for its status and credit, a key for its status and       *)
(* owner, a provider for its id, a model for the set of its deployments'   *)
(* providers ({}: no such model).  MaxEvents bounds what the outside does. *)
(***************************************************************************)
EXTENDS Integers

CONSTANTS
  Tasks,          \* handlers and watcher that may run at the same time
  Users,
  Keys,
  Owner,          \* Owner[k] is the user api_keys.user_id of key k names
  Providers,
  Models,
  Policies,       \* the retry policies the config file may hold
  Invalid,        \* a file that does not parse or does not validate
  GrantAmounts,   \* credit grants, negative ones included
  RefreshCanFail, \* whether a query of a refresh may fail
  MaxEvents       \* bound: database mutations, file edits and restarts

ASSUME OwnerAssumption == Owner \in [Keys -> Users]
ASSUME PolicyAssumption == Policies # {} /\ Invalid \notin Policies
ASSUME GrantAssumption == GrantAmounts \subseteq Int
ASSUME MaxEventsAssumption == MaxEvents \in Nat
ASSUME FailureAssumption == RefreshCanFail \in BOOLEAN

VARIABLES
  db,        \* committed rows: key status, active users, credit, catalog
  file,      \* what the config file holds
  cell,      \* Inner.catalog
  state,     \* Inner.state, the serving snapshot
  step,      \* step[t]: where task t is, "idle" between two handlers
  kind,      \* kind[t]: which refresh task t is running
  draft,     \* draft[t]: what t has read so far, then the snapshot it stores
  revoking,  \* revoking[t]: the keys whose revocation t will acknowledge
  missed,    \* kinds whose last refresh ended without a store
  acked,     \* keys whose revocation was answered ok without a warning
  alone,     \* tasks no other task has interfered with since they started:
             \* no commit to the part they refresh, no store after their load
  events

vars == <<db, file, cell, state, step, kind, draft, revoking, missed, acked,
          alone, events>>

-----------------------------------------------------------------------------
(* Data.                                                                   *)

Kinds == {"keys", "granted", "catalog", "reload"}

(* Named for the call the task is about to make.                           *)
Steps == {"idle", "active_key_map", "active_users", "grant_sums",
          "list_providers", "list_models", "list_deployments",
          "load_from_path", "catalog", "load", "store_catalog", "store"}

Catalog == [providers: SUBSET Providers, models: [Models -> SUBSET Providers]]

GatewayState ==
  [api_keys: SUBSET Keys, granted: [Users -> Int], catalog: Catalog,
   retry: Policies, spend_counter: {"process", "fresh"}]

Database ==
  [keys: [Keys -> {"none", "active", "revoked"}], users: SUBSET Users,
   granted: [Users -> Int], catalog: Catalog]

(* The keys active_key_map returns when both of its queries see one state. *)
ActiveKeys(d) == {k \in Keys : d.keys[k] = "active" /\ Owner[k] \in d.users}

(* Every deployment names a provider that is there: what the foreign key   *)
(* keeps true of the tables, and what build_model_map demands of a catalog.*)
Resolves(catalog) == \A m \in Models : catalog.models[m] \subseteq catalog.providers
BuildableUnchecked(catalog) == TRUE
Buildable(catalog) == Resolves(catalog)

(* A state built from scratch has no keys, no credit and a counter of its  *)
(* own.                                                                    *)
FromParts(policy, catalog) ==
  [api_keys |-> {}, granted |-> [u \in Users |-> 0], catalog |-> catalog,
   retry |-> policy, spend_counter |-> "fresh"]

WithApiKeys(s, keys) == [s EXCEPT !.api_keys = keys]
WithGranted(s, granted) == [s EXCEPT !.granted = granted]
WithSpendCounter(s, counter) == [s EXCEPT !.spend_counter = counter]

(* What store_catalog and reload build around the accounts of `current`.   *)
RebuiltForgettingCredit(policy, catalog, current) ==
  WithSpendCounter(WithApiKeys(FromParts(policy, catalog), current.api_keys),
                   current.spend_counter)
Rebuilt(policy, catalog, current) ==
  WithSpendCounter(
    WithGranted(WithApiKeys(FromParts(policy, catalog), current.api_keys),
                current.granted),
    current.spend_counter)

(* The snapshot boot assembles from the database and the file.             *)
BootState(d, policy) ==
  WithSpendCounter(
    WithGranted(WithApiKeys(FromParts(policy, d.catalog), ActiveKeys(d)),
                d.granted),
    "process")

AnyPolicy == CHOOSE p \in Policies : TRUE
NoCatalog == [providers |-> {}, models |-> [m \in Models |-> {}]]
Blank == FromParts(AnyPolicy, NoCatalog)

-----------------------------------------------------------------------------
Init ==
  /\ db \in [keys: [Keys -> {"none", "active"}], users: SUBSET Users,
            granted: {[u \in Users |-> 0]}, catalog: Catalog]
  /\ Resolves(db.catalog)
  /\ file \in Policies
  /\ cell = db.catalog
  /\ state = BootState(db, file)
  /\ step = [t \in Tasks |-> "idle"]
  /\ kind = [t \in Tasks |-> "reload"]
  /\ draft = [t \in Tasks |-> Blank]
  /\ revoking = [t \in Tasks |-> {}]
  /\ missed = {}
  /\ acked = {}
  /\ alone = {}
  /\ events = 0

Event == events < MaxEvents /\ events' = events + 1

Goto(t, next) == step' = [step EXCEPT ![t] = next]

(* Back to idle, with nothing kept.                                        *)
Finish(t) ==
  /\ Goto(t, "idle")
  /\ draft' = [draft EXCEPT ![t] = Blank]
  /\ revoking' = [revoking EXCEPT ![t] = {}]

(* The refresh ends without a store; the snapshot keeps what it had.       *)
GiveUp(t) ==
  /\ missed' = missed \cup {kind[t]}
  /\ alone' = alone \ {t}
  /\ Finish(t)

-----------------------------------------------------------------------------
(* Mutations: the handler's write commits and its refresh begins.          *)

Commit(t, d, k, first, revoked) ==
  /\ step[t] = "idle"
  /\ Event
  /\ db' = d
  /\ kind' = [kind EXCEPT ![t] = k]
  /\ Goto(t, first)
  /\ revoking' = [revoking EXCEPT ![t] = revoked]
  /\ alone' = {o \in alone : kind[o] # k} \cup {t}
  /\ UNCHANGED <<file, cell, state, draft, missed, acked>>

CommitKeys(t, d, revoked) == Commit(t, d, "keys", "active_key_map", revoked)

CreateKey(t, k) ==
  /\ db.keys[k] = "none"
  /\ CommitKeys(t, [db EXCEPT !.keys[k] = "active"], {})

(* revoke_key: an already revoked key is answered ok with no refresh.      *)
RevokeKey(t, k) ==
  /\ db.keys[k] = "active"
  /\ CommitKeys(t, [db EXCEPT !.keys[k] = "revoked"], {k})

RevokeAgain(t, k) ==
  /\ step[t] = "idle"
  /\ db.keys[k] = "revoked"
  /\ acked' = acked \cup {k}
  /\ UNCHANGED <<db, file, cell, state, step, kind, draft, revoking, missed,
                 alone, events>>

DisableUserUnrefreshed(t, u) ==
  Commit(t, [db EXCEPT !.users = @ \ {u}], "keys", "idle", {})
DisableUser(t, u) ==
  CommitKeys(t, [db EXCEPT !.users = @ \ {u}], {})

EnableUser(t, u) ==
  CommitKeys(t, [db EXCEPT !.users = @ \cup {u}], {})

CreateGrant(t, u, amount) ==
  Commit(t, [db EXCEPT !.granted[u] = @ + amount], "granted", "grant_sums", {})

CommitCatalog(t, catalog) ==
  Commit(t, [db EXCEPT !.catalog = catalog], "catalog", "list_providers", {})

CreateProvider(t, p) ==
  /\ p \notin db.catalog.providers
  /\ CommitCatalog(t, [db.catalog EXCEPT !.providers = @ \cup {p}])

(* The foreign key of model_deployments protects a provider in use.        *)
DeleteProvider(t, p) ==
  /\ p \in db.catalog.providers
  /\ \A m \in Models : p \notin db.catalog.models[m]
  /\ CommitCatalog(t, [db.catalog EXCEPT !.providers = @ \ {p}])

(* One transaction replaces the deployments; {} is delete_model.           *)
SetDeployments(t, m, chain) ==
  /\ chain \subseteq db.catalog.providers
  /\ CommitCatalog(t, [db.catalog EXCEPT !.models[m] = chain])

-----------------------------------------------------------------------------
(* The queries of a refresh.  Two queries are two database states.         *)

ReadKeys(t) ==
  /\ step[t] = "active_key_map"
  /\ draft' = [draft EXCEPT ![t].api_keys = {k \in Keys : db.keys[k] = "active"}]
  /\ Goto(t, "active_users")
  /\ UNCHANGED <<db, file, cell, state, kind, revoking, missed, acked, alone, events>>

KeepOwnedIgnoringUsers(keys, users) == keys
KeepOwned(keys, users) == {k \in keys : Owner[k] \in users}

ReadUsers(t) ==
  /\ step[t] = "active_users"
  /\ draft' = [draft EXCEPT ![t].api_keys = KeepOwned(@, db.users)]
  /\ Goto(t, "load")
  /\ UNCHANGED <<db, file, cell, state, kind, revoking, missed, acked, alone, events>>

ReadGrants(t) ==
  /\ step[t] = "grant_sums"
  /\ draft' = [draft EXCEPT ![t].granted = db.granted]
  /\ Goto(t, "load")
  /\ UNCHANGED <<db, file, cell, state, kind, revoking, missed, acked, alone, events>>

ReadProviders(t) ==
  /\ step[t] = "list_providers"
  /\ draft' = [draft EXCEPT ![t].catalog.providers = db.catalog.providers]
  /\ Goto(t, "list_models")
  /\ UNCHANGED <<db, file, cell, state, kind, revoking, missed, acked, alone, events>>

ReadModels(t) ==
  /\ step[t] = "list_models"
  /\ draft' = [draft EXCEPT ![t].catalog.models = db.catalog.models]
  /\ Goto(t, "list_deployments")
  /\ UNCHANGED <<db, file, cell, state, kind, revoking, missed, acked, alone, events>>

(* The deployments of the models listed: one that had none may not be      *)
(* among them, and is left out though it has some by now.                  *)
ReadDeployments(t) ==
  /\ step[t] = "list_deployments"
  /\ \E unlisted \in SUBSET {m \in Models : draft[t].catalog.models[m] = {}} :
       draft' = [draft EXCEPT ![t].catalog.models =
                   [m \in Models |-> IF m \in unlisted THEN {} ELSE db.catalog.models[m]]]
  /\ Goto(t, "load_from_path")
  /\ UNCHANGED <<db, file, cell, state, kind, revoking, missed, acked, alone, events>>

(* A query fails, or the client hangs up and the handler is dropped: the   *)
(* mutation stays committed and the snapshot keeps what it had.            *)
RefreshFails(t) ==
  /\ RefreshCanFail
  /\ step[t] \in {"active_key_map", "active_users", "grant_sums",
                  "list_providers", "list_models", "list_deployments"}
  /\ GiveUp(t)
  /\ UNCHANGED <<db, file, cell, state, kind, acked, events>>

-----------------------------------------------------------------------------
(* The file and the swap.                                                  *)

(* POST /reload, or the watcher after a burst of events went quiet.        *)
StartReload(t) ==
  /\ step[t] = "idle"
  /\ kind' = [kind EXCEPT ![t] = "reload"]
  /\ alone' = alone \cup {t}
  /\ Goto(t, "load_from_path")
  /\ UNCHANGED <<db, file, cell, state, draft, revoking, missed, acked, events>>

LoadFileUnchecked(t) ==
  /\ step[t] = "load_from_path"
  /\ draft' = [draft EXCEPT ![t].retry = file]
  /\ Goto(t, IF kind[t] = "reload" THEN "catalog" ELSE "load")
  /\ UNCHANGED <<db, file, cell, state, kind, revoking, missed, acked, alone, events>>
LoadFile(t) ==
  /\ step[t] = "load_from_path"
  /\ IF file = Invalid
       THEN GiveUp(t)
       ELSE /\ draft' = [draft EXCEPT ![t].retry = file]
            /\ Goto(t, IF kind[t] = "reload" THEN "catalog" ELSE "load")
            /\ UNCHANGED <<revoking, missed, alone>>
  /\ UNCHANGED <<db, file, cell, state, kind, acked, events>>

(* reload overlays the cached catalog, not the database's.                 *)
LoadCatalog(t) ==
  /\ step[t] = "catalog"
  /\ draft' = [draft EXCEPT ![t].catalog = cell]
  /\ Goto(t, "load")
  /\ UNCHANGED <<db, file, cell, state, kind, revoking, missed, acked, alone, events>>

(* The snapshot t will store, built around the one that serves right now.  *)
NextState(t) ==
  IF kind[t] = "keys" THEN WithApiKeys(state, draft[t].api_keys)
  ELSE IF kind[t] = "granted" THEN WithGranted(state, draft[t].granted)
  ELSE Rebuilt(draft[t].retry, draft[t].catalog, state)

(* load(), with from_parts: a catalog that does not build is not swapped.  *)
LoadState(t) ==
  /\ step[t] = "load"
  /\ IF kind[t] \in {"catalog", "reload"} /\ ~Buildable(draft[t].catalog)
       THEN GiveUp(t)
       ELSE /\ draft' = [draft EXCEPT ![t] = NextState(t)]
            /\ Goto(t, IF kind[t] = "catalog" THEN "store_catalog" ELSE "store")
            /\ UNCHANGED <<revoking, missed, alone>>
  /\ UNCHANGED <<db, file, cell, state, kind, acked, events>>

StoreCellSkipped(t) ==
  /\ step[t] = "store_catalog"
  /\ Goto(t, "store")
  /\ UNCHANGED <<db, file, cell, state, kind, draft, revoking, missed, acked,
                 alone, events>>
StoreCell(t) ==
  /\ step[t] = "store_catalog"
  /\ cell' = draft[t].catalog
  /\ Goto(t, "store")
  /\ alone' = {o \in alone : kind[o] # "reload"}
  /\ UNCHANGED <<db, file, state, kind, draft, revoking, missed, acked, events>>

StoreState(t) ==
  /\ step[t] = "store"
  /\ state' = draft[t]
  /\ missed' = missed \ {kind[t]}
  /\ acked' = acked \cup revoking[t]
  /\ alone' = {o \in alone \ {t} : step[o] \notin {"store_catalog", "store"}}
  /\ Finish(t)
  /\ UNCHANGED <<db, file, cell, kind, events>>

EditFile ==
  /\ Event
  /\ file' \in (Policies \cup {Invalid}) \ {file}
  /\ UNCHANGED <<db, cell, state, step, kind, draft, revoking, missed, acked, alone>>

(* The process dies and boots again; an unusable file or catalog keeps it  *)
(* from starting, and then nothing is served.                              *)
Restart ==
  /\ Event
  /\ file # Invalid
  /\ Buildable(db.catalog)
  /\ cell' = db.catalog
  /\ state' = BootState(db, file)
  /\ step' = [t \in Tasks |-> "idle"]
  /\ draft' = [t \in Tasks |-> Blank]
  /\ revoking' = [t \in Tasks |-> {}]
  /\ missed' = {}
  /\ alone' = {}
  /\ UNCHANGED <<db, file, kind, acked>>

-----------------------------------------------------------------------------
Mutate(t) ==
  \/ \E k \in Keys : CreateKey(t, k) \/ RevokeKey(t, k) \/ RevokeAgain(t, k)
  \/ \E u \in Users : DisableUser(t, u) \/ EnableUser(t, u)
  \/ \E u \in Users, a \in GrantAmounts : CreateGrant(t, u, a)
  \/ \E p \in Providers : CreateProvider(t, p) \/ DeleteProvider(t, p)
  \/ \E m \in Models, chain \in SUBSET Providers : SetDeployments(t, m, chain)

(* What a task goes on doing by itself once its handler started.           *)
Refresh(t) ==
  \/ ReadKeys(t) \/ ReadUsers(t) \/ ReadGrants(t)
  \/ ReadProviders(t) \/ ReadModels(t) \/ ReadDeployments(t) \/ RefreshFails(t)
  \/ LoadFile(t) \/ LoadCatalog(t) \/ LoadState(t)
  \/ StoreCell(t) \/ StoreState(t)

Next ==
  \/ \E t \in Tasks : Mutate(t) \/ StartReload(t) \/ Refresh(t)
  \/ EditFile
  \/ Restart

Spec == Init /\ [][Next]_vars

(* The runtime keeps polling a started handler, and neither a query nor an *)
(* ArcSwap access blocks for ever.                                         *)
FairSpec == Spec /\ \A t \in Tasks : WF_vars(Refresh(t))

-----------------------------------------------------------------------------
(* Properties.                                                             *)

TypeOK ==
  /\ db \in Database
  /\ file \in Policies \cup {Invalid}
  /\ cell \in Catalog
  /\ state \in GatewayState
  /\ step \in [Tasks -> Steps]
  /\ kind \in [Tasks -> Kinds]
  /\ draft \in [Tasks -> GatewayState]
  /\ revoking \in [Tasks -> SUBSET Keys]
  /\ missed \subseteq Kinds
  /\ acked \subseteq Keys
  /\ alone \subseteq Tasks
  /\ events \in 0 .. MaxEvents

(* Whatever refreshes race, every deployment of the serving snapshot names *)
(* a provider of the same snapshot, so resolve's defensive `continue`      *)
(* (state.rs:292-295) never skips a hop.  The catalog is read in separate  *)
(* queries, so it is from_parts' validation, not the database's foreign    *)
(* keys, that keeps a torn read out.                                       *)
SnapshotsResolve == Resolves(state.catalog) /\ Resolves(cell)

(* A refresh nothing interfered with, that is, no commit to the part it    *)
(* refreshes and no store since it loaded the snapshot, installs what the  *)
(* database holds now for that part and changes nothing else it does not   *)
(* own.  It is the guarantee that is left without a lock around            *)
(* load-modify-store (reload.rs:86-99, 111-136, 141-176).                  *)
SameAccounts(s, r) ==
  /\ s.api_keys = r.api_keys
  /\ s.granted = r.granted
  /\ s.spend_counter = r.spend_counter
UncontendedStore(t) ==
  /\ kind[t] = "keys"    => state' = WithApiKeys(state, ActiveKeys(db))
  /\ kind[t] = "granted" => state' = WithGranted(state, db.granted)
  /\ kind[t] = "catalog" => state'.catalog = db.catalog /\ SameAccounts(state', state)
  /\ kind[t] = "reload"  => state'.catalog = cell /\ SameAccounts(state', state)
UncontendedRefreshIsExact ==
  [][\A t \in alone : StoreState(t) => UncontendedStore(t)]_vars

(* When handlers run one at a time and the last refresh of a part was not  *)
(* missed, what is served is what PostgreSQL holds, reloads included: the  *)
(* catalog a reload reuses is the one the last catalog mutation installed. *)
ServesCommittedData ==
  (\A t \in Tasks : step[t] = "idle") =>
    /\ "keys" \notin missed => state.api_keys = ActiveKeys(db)
    /\ "granted" \notin missed => state.granted = db.granted
    /\ "catalog" \notin missed => state.catalog = db.catalog

(* A revoked key is rejected after the snapshot refresh                    *)
(* (api-key-management/spec.md:32-34): once every handler is done and the  *)
(* refresh of the keys succeeded, none of them authenticates.              *)
RevokedKeyRejectedAfterRefresh ==
  (\A t \in Tasks : step[t] = "idle") /\ "keys" \notin missed
    => \A k \in state.api_keys : db.keys[k] # "revoked"

(* A key whose revocation was answered ok, with no warning that it still   *)
(* has to be applied, does not authenticate any more.                      *)
AcknowledgedRevocationHolds == acked \cap state.api_keys = {}

(* With one handler at a time, a committed change of the keys reaches the  *)
(* snapshot, unless its refresh is missed.                                 *)
KeyChangesReachSnapshot ==
  [](state.api_keys # ActiveKeys(db) =>
       <>(state.api_keys = ActiveKeys(db) \/ "keys" \in missed))

(* With one handler at a time the snapshot implements the register: a      *)
(* refresh serves exactly the committed part it re-read and leaves the     *)
(* other two alone, through all of its separate steps.                     *)
PartValue(p) ==
  CASE p = "keys"    -> SUBSET Keys
    [] p = "granted" -> [Users -> Int]
    [] p = "catalog" -> Catalog
Register ==
  INSTANCE SnapshotRegister WITH
    Parts <- {"keys", "granted", "catalog"},
    Value <- PartValue,
    truth <- [keys |-> ActiveKeys(db), granted |-> db.granted,
              catalog |-> db.catalog],
    serving <- [keys |-> state.api_keys, granted |-> state.granted,
                catalog |-> state.catalog]
ImplementsRegister == Register!Spec
=============================================================================
