---------------------- MODULE SharedGatewayState_proofs ----------------------
(***************************************************************************)
(* Proofs about SharedGatewayState, for any number of tasks, users, keys,  *)
(* providers, models and mutations.                                        *)
(***************************************************************************)
EXTENDS SharedGatewayState, TLAPS

(* Only drafts that passed from_parts, or that were copied from a serving  *)
(* snapshot, are ever stored.                                              *)
DraftsResolve ==
  \A t \in Tasks : step[t] \in {"store_catalog", "store"} => Resolves(draft[t].catalog)

(* The steps a refresh of each kind goes through.                          *)
StepsOfKind ==
  \A t \in Tasks :
    /\ step[t] \in {"active_key_map", "active_users"} => kind[t] = "keys"
    /\ step[t] = "grant_sums" => kind[t] = "granted"
    /\ step[t] \in {"list_providers", "list_models", "list_deployments", "store_catalog"} =>
         kind[t] = "catalog"
    /\ step[t] = "load_from_path" => kind[t] \in {"catalog", "reload"}
    /\ step[t] = "catalog" => kind[t] = "reload"

(* What an undisturbed task knows, by how far it came.                     *)
KnowsKeys(t) ==
  /\ step[t] = "active_users" => draft[t].api_keys = {k \in Keys : db.keys[k] = "active"}
  /\ step[t] = "load" => draft[t].api_keys = ActiveKeys(db)
  /\ step[t] = "store" => draft[t] = WithApiKeys(state, ActiveKeys(db))
KnowsGranted(t) ==
  /\ step[t] = "load" => draft[t].granted = db.granted
  /\ step[t] = "store" => draft[t] = WithGranted(state, db.granted)
KnowsCatalog(t) ==
  /\ step[t] = "list_models" => draft[t].catalog.providers = db.catalog.providers
  /\ step[t] \in {"list_deployments", "load_from_path", "load"} =>
       draft[t].catalog = db.catalog
  /\ step[t] \in {"store_catalog", "store"} =>
       draft[t].catalog = db.catalog /\ SameAccounts(draft[t], state)
KnowsCell(t) ==
  /\ step[t] = "load" => draft[t].catalog = cell
  /\ step[t] = "store" => draft[t].catalog = cell /\ SameAccounts(draft[t], state)
Knows(t) ==
  /\ kind[t] = "keys" => KnowsKeys(t)
  /\ kind[t] = "granted" => KnowsGranted(t)
  /\ kind[t] = "catalog" => KnowsCatalog(t)
  /\ kind[t] = "reload" => KnowsCell(t)
AloneKnows == \A t \in alone : Knows(t)

-----------------------------------------------------------------------------
(* Shapes of the values the actions build.                                 *)

(* The draft of an idle task is a snapshot like any other.                 *)
LEMMA BlankType == Blank \in GatewayState
  BY PolicyAssumption
  DEF Blank, FromParts, AnyPolicy, NoCatalog, GatewayState, Catalog

(* with_api_keys, with_granted and what store_catalog and reload build are *)
(* snapshots.                                                              *)
LEMMA BuiltTypes ==
  ASSUME NEW s \in GatewayState, NEW p \in Policies, NEW c \in Catalog,
         NEW ks \in SUBSET Keys, NEW g \in [Users -> Int]
  PROVE  /\ WithApiKeys(s, ks) \in GatewayState
         /\ WithGranted(s, g) \in GatewayState
         /\ Rebuilt(p, c, s) \in GatewayState
  BY DEF WithApiKeys, WithGranted, WithSpendCounter, Rebuilt, FromParts, GatewayState

(* So is what boot builds.                                                 *)
LEMMA BootType ==
  ASSUME NEW d \in Database, NEW p \in Policies
  PROVE  BootState(d, p) \in GatewayState
  BY DEF BootState, WithApiKeys, WithGranted, WithSpendCounter, FromParts,
         ActiveKeys, Database, GatewayState

(* Replacing the keys or the credit leaves the catalog alone.              *)
LEMMA WithFields ==
  ASSUME NEW s \in GatewayState
  PROVE  /\ \A ks : WithApiKeys(s, ks).catalog = s.catalog
         /\ \A g : WithGranted(s, g).catalog = s.catalog
  BY DEF WithApiKeys, WithGranted, GatewayState

(* A rebuilt snapshot has the new catalog and the accounts it was built    *)
(* around.                                                                 *)
LEMMA RebuiltFields ==
  ASSUME NEW s \in GatewayState, NEW p, NEW c
  PROVE  /\ Rebuilt(p, c, s).catalog = c
         /\ SameAccounts(Rebuilt(p, c, s), s)
  BY DEF WithApiKeys, WithGranted, WithSpendCounter, Rebuilt, FromParts, SameAccounts

-----------------------------------------------------------------------------
(* Every reachable state is well typed.                                    *)
LEMMA TypeInit == Init => TypeOK
  <1> SUFFICES ASSUME Init PROVE TypeOK
    OBVIOUS
  <1>1. db \in Database
    BY DEF Init, Database
  <1>2. state \in GatewayState
    BY <1>1, BootType DEF Init
  <1>3. draft \in [Tasks -> GatewayState]
    BY BlankType DEF Init
  <1>4. cell \in Catalog
    BY <1>1 DEF Init, Database
  <1> QED
    BY <1>1, <1>2, <1>3, <1>4, MaxEventsAssumption DEF Init, TypeOK, Kinds, Steps

(* A commit is well typed when the rows it writes are.                     *)
LEMMA CommitType ==
  ASSUME TypeOK, NEW t \in Tasks, NEW d \in Database, NEW k \in Kinds,
         NEW first \in Steps, NEW revoked \in SUBSET Keys,
         Commit(t, d, k, first, revoked)
  PROVE  TypeOK'
  BY MaxEventsAssumption DEF TypeOK, Commit, Event, Goto, Kinds

(* Going back to idle is well typed.                                       *)
LEMMA FinishType ==
  ASSUME TypeOK, NEW t \in Tasks, Finish(t)
  PROVE  /\ step' \in [Tasks -> Steps]
         /\ draft' \in [Tasks -> GatewayState]
         /\ revoking' \in [Tasks -> SUBSET Keys]
  BY BlankType DEF TypeOK, Finish, Goto, Steps

(* So is giving up.                                                        *)
LEMMA GiveUpType ==
  ASSUME TypeOK, NEW t \in Tasks, GiveUp(t)
  PROVE  /\ step' \in [Tasks -> Steps]
         /\ draft' \in [Tasks -> GatewayState]
         /\ revoking' \in [Tasks -> SUBSET Keys]
         /\ missed' \subseteq Kinds
         /\ alone' \subseteq Tasks
  BY FinishType DEF TypeOK, GiveUp

(* The commits the handlers make keep the tables well typed.               *)
LEMMA MutateType ==
  ASSUME TypeOK, NEW t \in Tasks, Mutate(t)
  PROVE  TypeOK'
  <1> USE DEF Steps, Kinds
  <1>1. ASSUME NEW k \in Keys, CreateKey(t, k) PROVE TypeOK'
    <2>1. [db EXCEPT !.keys[k] = "active"] \in Database
      BY DEF TypeOK, Database
    <2> QED
      BY <1>1, <2>1, CommitType DEF CreateKey, CommitKeys
  <1>2. ASSUME NEW k \in Keys, RevokeKey(t, k) PROVE TypeOK'
    <2>1. [db EXCEPT !.keys[k] = "revoked"] \in Database
      BY DEF TypeOK, Database
    <2> QED
      BY <1>2, <2>1, CommitType DEF RevokeKey, CommitKeys
  <1>3. ASSUME NEW k \in Keys, RevokeAgain(t, k) PROVE TypeOK'
    BY <1>3 DEF RevokeAgain, TypeOK
  <1>4. ASSUME NEW u \in Users, DisableUser(t, u) \/ EnableUser(t, u) PROVE TypeOK'
    <2>1. /\ [db EXCEPT !.users = @ \ {u}] \in Database
          /\ [db EXCEPT !.users = @ \cup {u}] \in Database
      BY DEF TypeOK, Database
    <2> QED
      BY <1>4, <2>1, CommitType DEF DisableUser, EnableUser, CommitKeys
  <1>5. ASSUME NEW u \in Users, NEW a \in GrantAmounts, CreateGrant(t, u, a)
        PROVE TypeOK'
    <2>1. [db EXCEPT !.granted[u] = @ + a] \in Database
      BY GrantAssumption DEF TypeOK, Database
    <2> QED
      BY <1>5, <2>1, CommitType DEF CreateGrant
  <1>6. ASSUME NEW c \in Catalog, CommitCatalog(t, c) PROVE TypeOK'
    <2>1. [db EXCEPT !.catalog = c] \in Database
      BY DEF TypeOK, Database
    <2> QED
      BY <1>6, <2>1, CommitType DEF CommitCatalog
  <1>7. ASSUME NEW p \in Providers, CreateProvider(t, p) \/ DeleteProvider(t, p)
        PROVE TypeOK'
    <2>1. /\ [db.catalog EXCEPT !.providers = @ \cup {p}] \in Catalog
          /\ [db.catalog EXCEPT !.providers = @ \ {p}] \in Catalog
      BY DEF TypeOK, Database, Catalog
    <2> QED
      BY <1>6, <1>7, <2>1 DEF CreateProvider, DeleteProvider
  <1>8. ASSUME NEW m \in Models, NEW chain \in SUBSET Providers,
               SetDeployments(t, m, chain)
        PROVE TypeOK'
    <2>1. [db.catalog EXCEPT !.models[m] = chain] \in Catalog
      BY DEF TypeOK, Database, Catalog
    <2> QED
      BY <1>6, <1>8, <2>1 DEF SetDeployments
  <1> QED
    BY <1>1, <1>2, <1>3, <1>4, <1>5, <1>7, <1>8 DEF Mutate

(* So do the steps of a refresh.                                           *)
LEMMA RefreshType ==
  ASSUME TypeOK, NEW t \in Tasks, Refresh(t)
  PROVE  TypeOK'
  <1> USE DEF Steps
  <1>1. CASE ReadKeys(t)
    BY <1>1 DEF ReadKeys, Goto, TypeOK, GatewayState
  <1>2. CASE ReadUsers(t)
    <2>1. KeepOwned(draft[t].api_keys, db.users) \in SUBSET Keys
      BY DEF KeepOwned, TypeOK, GatewayState
    <2> QED
      BY <1>2, <2>1 DEF ReadUsers, Goto, TypeOK, GatewayState
  <1>3. CASE ReadGrants(t)
    BY <1>3, ZenonT(60) DEF ReadGrants, Goto, TypeOK, GatewayState, Database
  <1>4. CASE ReadProviders(t)
    <2> DEFINE c == [draft[t].catalog EXCEPT !.providers = db.catalog.providers]
    <2>1. draft[t] \in GatewayState
      BY DEF TypeOK
    <2>2. c \in Catalog
      BY <2>1 DEF TypeOK, GatewayState, Database, Catalog
    <2>3. [draft[t] EXCEPT !.catalog = c] \in GatewayState
      BY <2>1, <2>2 DEF GatewayState
    <2>4. draft' = [draft EXCEPT ![t] = [draft[t] EXCEPT !.catalog = c]]
      BY <1>4 DEF ReadProviders
    <2> HIDE DEF c
    <2> QED
      BY <1>4, <2>3, <2>4 DEF ReadProviders, Goto, TypeOK
  <1>5. CASE ReadModels(t)
    <2> DEFINE c == [draft[t].catalog EXCEPT !.models = db.catalog.models]
    <2>1. draft[t] \in GatewayState
      BY DEF TypeOK
    <2>2. c \in Catalog
      BY <2>1 DEF TypeOK, GatewayState, Database, Catalog
    <2>3. [draft[t] EXCEPT !.catalog = c] \in GatewayState
      BY <2>1, <2>2 DEF GatewayState
    <2>4. draft' = [draft EXCEPT ![t] = [draft[t] EXCEPT !.catalog = c]]
      BY <1>5 DEF ReadModels
    <2> HIDE DEF c
    <2> QED
      BY <1>5, <2>3, <2>4 DEF ReadModels, Goto, TypeOK
  <1>12. CASE ReadDeployments(t)
    <2>1. draft[t] \in GatewayState
      BY DEF TypeOK
    <2>2. PICK unlisted \in SUBSET {m \in Models : draft[t].catalog.models[m] = {}} :
            draft' = [draft EXCEPT ![t].catalog.models =
                        [m \in Models |-> IF m \in unlisted THEN {} ELSE db.catalog.models[m]]]
      BY <1>12 DEF ReadDeployments
    <2> DEFINE c == [draft[t].catalog EXCEPT !.models =
                       [m \in Models |-> IF m \in unlisted THEN {} ELSE db.catalog.models[m]]]
    <2>3. c \in Catalog
      BY <2>1 DEF TypeOK, GatewayState, Database, Catalog
    <2>4. [draft[t] EXCEPT !.catalog = c] \in GatewayState
      BY <2>1, <2>3 DEF GatewayState
    <2>5. draft' = [draft EXCEPT ![t] = [draft[t] EXCEPT !.catalog = c]]
      BY <2>2
    <2> HIDE DEF c
    <2> QED
      BY <1>12, <2>4, <2>5 DEF ReadDeployments, Goto, TypeOK
  <1>6. CASE RefreshFails(t)
    BY <1>6, GiveUpType DEF RefreshFails, TypeOK
  <1>7. CASE LoadFile(t)
    <2>1. CASE file = Invalid
      BY <1>7, <2>1, GiveUpType DEF LoadFile, TypeOK
    <2>2. CASE file # Invalid
      <3>1. [draft[t] EXCEPT !.retry = file] \in GatewayState
        BY <2>2 DEF TypeOK, GatewayState
      <3>2. draft' = [draft EXCEPT ![t] = [draft[t] EXCEPT !.retry = file]]
        BY <1>7, <2>2 DEF LoadFile
      <3>3. step' \in [Tasks -> Steps]
        BY <1>7, <2>2 DEF LoadFile, Goto, TypeOK
      <3> QED
        BY <1>7, <2>2, <3>1, <3>2, <3>3 DEF LoadFile, TypeOK
    <2> QED
      BY <2>1, <2>2
  <1>8. CASE LoadCatalog(t)
    BY <1>8 DEF LoadCatalog, Goto, TypeOK, GatewayState
  <1>9. CASE LoadState(t)
    <2>1. /\ state \in GatewayState
          /\ draft[t].api_keys \in SUBSET Keys
          /\ draft[t].granted \in [Users -> Int]
          /\ draft[t].catalog \in Catalog
          /\ draft[t].retry \in Policies
      BY DEF TypeOK, GatewayState
    <2>2. NextState(t) \in GatewayState
      BY <2>1, BuiltTypes DEF NextState
    <2> QED
      BY <1>9, <2>2, GiveUpType DEF LoadState, Goto, TypeOK
  <1>10. CASE StoreCell(t)
    BY <1>10 DEF StoreCell, Goto, TypeOK, GatewayState
  <1>11. CASE StoreState(t)
    BY <1>11, FinishType DEF StoreState, TypeOK
  <1> QED
    BY <1>1, <1>2, <1>3, <1>4, <1>5, <1>6, <1>7, <1>8, <1>9, <1>10, <1>11, <1>12
    DEF Refresh

(* Every step keeps the types.                                             *)
LEMMA TypeNext == TypeOK /\ [Next]_vars => TypeOK'
  <1> SUFFICES ASSUME TypeOK, [Next]_vars PROVE TypeOK'
    OBVIOUS
  <1>1. ASSUME NEW t \in Tasks, StartReload(t) PROVE TypeOK'
    BY <1>1 DEF StartReload, Goto, TypeOK, Kinds, Steps
  <1>2. CASE EditFile
    BY <1>2, MaxEventsAssumption DEF EditFile, Event, TypeOK
  <1>3. CASE Restart
    BY <1>3, MaxEventsAssumption, BootType, BlankType
    DEF Restart, Event, TypeOK, Database, Steps
  <1>4. CASE UNCHANGED vars
    BY <1>4 DEF vars, TypeOK
  <1> QED
    BY <1>1, <1>2, <1>3, <1>4, MutateType, RefreshType DEF Next

(* The variables of every reachable state have their types (state.rs,      *)
(* reload.rs).                                                             *)
THEOREM TypeCorrect == Spec => []TypeOK
  BY TypeInit, TypeNext, PTL DEF Spec

-----------------------------------------------------------------------------
(* No catalog with a dangling deployment is ever served or cached, however *)
(* many refreshes race and whatever their torn reads returned.             *)
ResolveInv == SnapshotsResolve /\ DraftsResolve

(* What a task stores once it loaded the snapshot, part by part.           *)
LEMMA NextStateParts ==
  ASSUME TypeOK, NEW t \in Tasks
  PROVE  /\ kind[t] = "keys" => NextState(t) = WithApiKeys(state, draft[t].api_keys)
         /\ kind[t] = "granted" => NextState(t) = WithGranted(state, draft[t].granted)
         /\ kind[t] \in {"keys", "granted"} => NextState(t).catalog = state.catalog
         /\ kind[t] \in {"catalog", "reload"} =>
              /\ NextState(t).catalog = draft[t].catalog
              /\ SameAccounts(NextState(t), state)
  <1>1. state \in GatewayState /\ kind[t] \in Kinds
    BY DEF TypeOK
  <1>2. CASE kind[t] = "keys"
    <2>1. NextState(t) = WithApiKeys(state, draft[t].api_keys)
      BY <1>2 DEF NextState
    <2> QED
      BY <1>1, <1>2, <2>1, WithFields
  <1>3. CASE kind[t] = "granted"
    <2>1. NextState(t) = WithGranted(state, draft[t].granted)
      BY <1>3 DEF NextState
    <2> QED
      BY <1>1, <1>3, <2>1, WithFields
  <1>4. CASE kind[t] \in {"catalog", "reload"}
    <2>1. NextState(t) = Rebuilt(draft[t].retry, draft[t].catalog, state)
      BY <1>4 DEF NextState
    <2> QED
      BY <1>1, <1>4, <2>1, RebuiltFields
  <1> QED
    BY <1>1, <1>2, <1>3, <1>4 DEF Kinds

(* Giving up leaves every deployment resolved.                             *)
LEMMA GiveUpResolve ==
  ASSUME TypeOK, ResolveInv, NEW t \in Tasks, GiveUp(t), UNCHANGED <<state, cell>>
  PROVE  ResolveInv'
  BY DEF ResolveInv, SnapshotsResolve, DraftsResolve, Resolves, GiveUp, Finish,
         Goto, TypeOK

(* No step of a refresh breaks a deployment: LoadState demands of a draft  *)
(* that it builds.                                                         *)
LEMMA ResolveRefresh ==
  ASSUME TypeOK, ResolveInv, NEW t \in Tasks, Refresh(t)
  PROVE  ResolveInv'
  <1> USE DEF ResolveInv, SnapshotsResolve, DraftsResolve
  <1>1. CASE ReadKeys(t) \/ ReadUsers(t) \/ ReadGrants(t) \/ ReadProviders(t)
             \/ ReadModels(t) \/ ReadDeployments(t) \/ LoadCatalog(t)
    BY <1>1 DEF ReadKeys, ReadUsers, ReadGrants, ReadProviders, ReadModels, ReadDeployments,
                LoadCatalog, Goto, TypeOK, Resolves
  <1>2. CASE RefreshFails(t)
    BY <1>2, GiveUpResolve DEF RefreshFails
  <1>3. CASE LoadFile(t)
    <2>1. CASE file = Invalid
      BY <1>3, <2>1, GiveUpResolve DEF LoadFile
    <2>2. CASE file # Invalid
      BY <1>3, <2>2 DEF LoadFile, Goto, TypeOK, Resolves
    <2> QED
      BY <2>1, <2>2
  <1>4. CASE LoadState(t)
    <2>1. CASE kind[t] \in {"catalog", "reload"} /\ ~Buildable(draft[t].catalog)
      BY <1>4, <2>1, GiveUpResolve DEF LoadState
    <2>2. CASE ~(kind[t] \in {"catalog", "reload"} /\ ~Buildable(draft[t].catalog))
      <3>1. Resolves(NextState(t).catalog)
        BY <2>2, NextStateParts DEF Buildable, ResolveInv, SnapshotsResolve, TypeOK, Kinds
      <3> HIDE DEF SnapshotsResolve
      <3>2. /\ draft' = [draft EXCEPT ![t] = NextState(t)]
            /\ step' = [step EXCEPT ![t] = IF kind[t] = "catalog"
                                             THEN "store_catalog" ELSE "store"]
            /\ UNCHANGED <<state, cell>>
        BY <1>4, <2>2 DEF LoadState, Goto
      <3>3. draft'[t].catalog = NextState(t).catalog
            /\ \A o \in Tasks \ {t} : draft'[o] = draft[o] /\ step'[o] = step[o]
        BY <3>2 DEF TypeOK
      <3>4. DraftsResolve'
        BY <3>1, <3>3 DEF Resolves
      <3>5. SnapshotsResolve'
        BY <3>2 DEF SnapshotsResolve, Resolves
      <3> QED
        BY <3>4, <3>5
    <2> QED
      BY <2>1, <2>2
  <1>5. CASE StoreCell(t)
    BY <1>5 DEF StoreCell, Goto, TypeOK, Resolves
  <1>6. CASE StoreState(t)
    BY <1>6 DEF StoreState, Finish, Goto, TypeOK, Resolves
  <1> QED
    BY <1>1, <1>2, <1>3, <1>4, <1>5, <1>6 DEF Refresh

(* A commit touches no snapshot.                                           *)
LEMMA ResolveMutate ==
  ASSUME TypeOK, ResolveInv, NEW t \in Tasks, Mutate(t)
  PROVE  ResolveInv'
  <1>1. ASSUME NEW d, NEW k, NEW first \in {"active_key_map", "grant_sums", "list_providers"},
               NEW revoked, Commit(t, d, k, first, revoked)
        PROVE  ResolveInv'
    BY <1>1 DEF Commit, Goto, ResolveInv, SnapshotsResolve, DraftsResolve, Resolves, TypeOK
  <1>2. ASSUME NEW k \in Keys, RevokeAgain(t, k) PROVE ResolveInv'
    BY <1>2 DEF RevokeAgain, ResolveInv, SnapshotsResolve, DraftsResolve, Resolves
  <1> QED
    BY <1>1, <1>2
    DEF Mutate, CreateKey, RevokeKey, DisableUser, EnableUser, CreateGrant,
        CreateProvider, DeleteProvider, SetDeployments, CommitKeys, CommitCatalog

(* Every step keeps every deployment resolved.                             *)
LEMMA ResolveNext == TypeOK /\ ResolveInv /\ [Next]_vars => ResolveInv'
  <1> SUFFICES ASSUME TypeOK, ResolveInv, [Next]_vars PROVE ResolveInv'
    OBVIOUS
  <1> USE DEF ResolveInv, SnapshotsResolve, DraftsResolve
  <1>1. ASSUME NEW t \in Tasks, StartReload(t) PROVE ResolveInv'
    BY <1>1 DEF StartReload, Goto, TypeOK, Resolves
  <1>2. CASE EditFile
    BY <1>2 DEF EditFile, Resolves
  <1>3. CASE Restart
    <2>1. state'.catalog = db.catalog
      BY <1>3 DEF Restart, BootState, WithApiKeys, WithGranted,
                  WithSpendCounter, FromParts
    <2> QED
      BY <1>3, <2>1 DEF Restart, Buildable, Resolves
  <1>4. CASE UNCHANGED vars
    BY <1>4 DEF vars, Resolves
  <1> QED
    BY <1>1, <1>2, <1>3, <1>4, ResolveMutate, ResolveRefresh DEF Next

(* At boot they are, by the foreign key.                                   *)
LEMMA ResolveInit == Init => ResolveInv
  <1> SUFFICES ASSUME Init PROVE ResolveInv
    OBVIOUS
  <1>1. state.catalog = db.catalog
    BY DEF Init, BootState, WithApiKeys, WithGranted, WithSpendCounter, FromParts
  <1> QED
    BY <1>1 DEF Init, ResolveInv, SnapshotsResolve, DraftsResolve, Resolves

(* Every deployment of the serving snapshot, and of the cached catalog,    *)
(* names a provider of the same catalog.                                   *)
THEOREM SnapshotsAlwaysResolve == Spec => []SnapshotsResolve
  <1>1. TypeOK /\ ResolveInv /\ [Next]_vars => (TypeOK /\ ResolveInv)'
    BY TypeNext, ResolveNext
  <1>2. ResolveInv => SnapshotsResolve
    BY DEF ResolveInv
  <1> QED
    BY <1>1, <1>2, TypeInit, ResolveInit, PTL DEF Spec

-----------------------------------------------------------------------------
(* A refresh nothing interfered with is exact.  An undisturbed task always *)
(* knows the current truth of what it has read so far; its draft at the    *)
(* store is therefore the serving snapshot with that truth put in.         *)
AloneInv == StepsOfKind /\ AloneKnows

(* Initially no task is running.                                           *)
LEMMA AloneInit == Init => AloneInv
  BY DEF Init, AloneInv, StepsOfKind, AloneKnows

(* A commit interferes with the tasks refreshing its part, and with no     *)
(* other.                                                                  *)
LEMMA AloneCommit ==
  ASSUME TypeOK, AloneInv, NEW t \in Tasks, NEW d \in Database, NEW k \in Kinds,
         NEW first, NEW revoked, Commit(t, d, k, first, revoked),
         \/ k = "keys" /\ first = "active_key_map"
            /\ d.granted = db.granted /\ d.catalog = db.catalog
         \/ k = "granted" /\ first = "grant_sums"
            /\ d.catalog = db.catalog /\ d.keys = db.keys /\ d.users = db.users
         \/ k = "catalog" /\ first = "list_providers"
            /\ d.granted = db.granted /\ d.keys = db.keys /\ d.users = db.users
  PROVE  AloneInv'
  <1>1. StepsOfKind'
    BY DEF AloneInv, StepsOfKind, Commit, Goto, TypeOK
  <1>2. Knows(t)'
    BY DEF Commit, Goto, TypeOK, Knows, KnowsKeys, KnowsGranted, KnowsCatalog,
           KnowsCell
  <1>3. ASSUME NEW o \in alone', o # t PROVE Knows(o)'
    <2>1. o \in alone /\ o \in Tasks /\ kind[o] # k /\ Knows(o)
      BY <1>3 DEF Commit, AloneInv, AloneKnows, TypeOK
    <2>2. /\ step'[o] = step[o] /\ kind'[o] = kind[o] /\ draft' = draft
          /\ state' = state /\ cell' = cell /\ db' = d
      BY <1>3, <2>1 DEF Commit, Goto, TypeOK
    <2>3. CASE kind[o] = "keys"
      BY <2>1, <2>2, <2>3 DEF Knows, KnowsKeys, ActiveKeys
    <2>4. CASE kind[o] = "granted"
      BY <2>1, <2>2, <2>4 DEF Knows, KnowsGranted
    <2>5. CASE kind[o] = "catalog"
      BY <2>1, <2>2, <2>5 DEF Knows, KnowsCatalog
    <2>6. CASE kind[o] = "reload"
      BY <2>1, <2>2, <2>6 DEF Knows, KnowsCell
    <2> QED
      BY <2>1, <2>3, <2>4, <2>5, <2>6 DEF TypeOK, Kinds
  <1> QED
    BY <1>1, <1>2, <1>3 DEF AloneInv, AloneKnows, Commit

(* Every mutation is such a commit, or answers at once.                    *)
LEMMA AloneMutate ==
  ASSUME TypeOK, AloneInv, NEW t \in Tasks, Mutate(t)
  PROVE  AloneInv'
  <1> USE DEF Kinds
  <1>1. ASSUME NEW d \in Database, NEW revoked, CommitKeys(t, d, revoked),
               d.granted = db.granted, d.catalog = db.catalog
        PROVE  AloneInv'
    BY <1>1, AloneCommit DEF CommitKeys
  <1>2. ASSUME NEW c \in Catalog, CommitCatalog(t, c) PROVE AloneInv'
    <2> DEFINE d == [db EXCEPT !.catalog = c]
    <2>1. d \in Database /\ d.granted = db.granted /\ d.keys = db.keys /\ d.users = db.users
      BY DEF TypeOK, Database
    <2> QED
      BY <1>2, <2>1, AloneCommit DEF CommitCatalog
  <1>3. ASSUME NEW k \in Keys, CreateKey(t, k) \/ RevokeKey(t, k) PROVE AloneInv'
    <2>1. ASSUME NEW s \in {"active", "revoked"}
          PROVE  LET d == [db EXCEPT !.keys[k] = s]
                 IN  d \in Database /\ d.granted = db.granted /\ d.catalog = db.catalog
      BY DEF TypeOK, Database
    <2> QED
      BY <1>1, <1>3, <2>1 DEF CreateKey, RevokeKey
  <1>4. ASSUME NEW k \in Keys, RevokeAgain(t, k) PROVE AloneInv'
    BY <1>4 DEF RevokeAgain, AloneInv, StepsOfKind, AloneKnows, Knows, KnowsKeys,
                KnowsGranted, KnowsCatalog, KnowsCell, ActiveKeys, SameAccounts
  <1>5. ASSUME NEW u \in Users, DisableUser(t, u) \/ EnableUser(t, u) PROVE AloneInv'
    <2>1. ASSUME NEW us \in SUBSET Users
          PROVE  LET d == [db EXCEPT !.users = us]
                 IN  d \in Database /\ d.granted = db.granted /\ d.catalog = db.catalog
      BY DEF TypeOK, Database
    <2>2. db.users \ {u} \in SUBSET Users /\ db.users \cup {u} \in SUBSET Users
      BY DEF TypeOK, Database
    <2> QED
      BY <1>1, <1>5, <2>1, <2>2 DEF DisableUser, EnableUser
  <1>6. ASSUME NEW u \in Users, NEW a \in GrantAmounts, CreateGrant(t, u, a)
        PROVE  AloneInv'
    <2> DEFINE d == [db EXCEPT !.granted[u] = @ + a]
    <2>1. d \in Database /\ d.catalog = db.catalog /\ d.keys = db.keys /\ d.users = db.users
      BY GrantAssumption DEF TypeOK, Database
    <2> QED
      BY <1>6, <2>1, AloneCommit DEF CreateGrant
  <1>7. ASSUME NEW p \in Providers, CreateProvider(t, p) \/ DeleteProvider(t, p)
        PROVE  AloneInv'
    <2>1. /\ [db.catalog EXCEPT !.providers = @ \cup {p}] \in Catalog
          /\ [db.catalog EXCEPT !.providers = @ \ {p}] \in Catalog
      BY DEF TypeOK, Database, Catalog
    <2> QED
      BY <1>2, <1>7, <2>1 DEF CreateProvider, DeleteProvider
  <1>8. ASSUME NEW m \in Models, NEW chain \in SUBSET Providers,
               SetDeployments(t, m, chain)
        PROVE  AloneInv'
    <2>1. [db.catalog EXCEPT !.models[m] = chain] \in Catalog
      BY DEF TypeOK, Database, Catalog
    <2> QED
      BY <1>2, <1>8, <2>1 DEF SetDeployments
  <1> QED
    BY <1>3, <1>4, <1>5, <1>6, <1>7, <1>8 DEF Mutate

(* A task that gives up is no longer alone, and disturbs nobody.           *)
LEMMA AloneGiveUp ==
  ASSUME TypeOK, AloneInv, NEW t \in Tasks, GiveUp(t),
         UNCHANGED <<db, state, cell, kind>>
  PROVE  AloneInv'
  <1>1. StepsOfKind'
    BY DEF AloneInv, StepsOfKind, GiveUp, Finish, Goto, TypeOK
  <1>2. ASSUME NEW o \in alone' PROVE Knows(o)'
    <2>1. o \in alone /\ o \in Tasks /\ o # t /\ Knows(o)
      BY <1>2 DEF GiveUp, AloneInv, AloneKnows, TypeOK
    <2>2. step'[o] = step[o] /\ draft'[o] = draft[o] /\ kind'[o] = kind[o]
      BY <2>1 DEF GiveUp, Finish, Goto, TypeOK
    <2> QED
      BY <2>1, <2>2 DEF Knows, KnowsKeys, KnowsGranted, KnowsCatalog, KnowsCell,
                        ActiveKeys, SameAccounts
  <1> QED
    BY <1>1, <1>2 DEF AloneInv, AloneKnows

(* A step that only moves t on, and only changes what t knows.             *)
LEMMA AlonePrivate ==
  ASSUME TypeOK, AloneInv, NEW t \in Tasks, NEW s, NEW f,
         step' = [step EXCEPT ![t] = s], draft' = [draft EXCEPT ![t] = f],
         UNCHANGED <<db, state, cell, kind, alone>>,
         StepsOfKind', t \in alone => Knows(t)'
  PROVE  AloneInv'
  <1>1. ASSUME NEW o \in alone', o # t PROVE Knows(o)'
    <2>1. o \in alone /\ o \in Tasks /\ Knows(o)
      BY <1>1 DEF AloneInv, AloneKnows, TypeOK
    <2>2. step'[o] = step[o] /\ draft'[o] = draft[o] /\ kind'[o] = kind[o]
      BY <1>1, <2>1 DEF TypeOK
    <2> QED
      BY <2>1, <2>2 DEF Knows, KnowsKeys, KnowsGranted, KnowsCatalog, KnowsCell,
                        ActiveKeys, SameAccounts
  <1> QED
    BY <1>1 DEF AloneInv, AloneKnows

(* A step of a refresh keeps what every undisturbed task knows: a read makes *)
(* it know more, a store takes the tasks it disturbs out of `alone`.         *)
LEMMA AloneRefresh ==
  ASSUME TypeOK, AloneInv, NEW t \in Tasks, Refresh(t)
  PROVE  AloneInv'
  <1> USE DEF AloneInv
  <1>0. t \in alone => Knows(t)
    BY DEF AloneKnows
  <1>1. CASE ReadKeys(t)
    <2> DEFINE f == [draft[t] EXCEPT !.api_keys = {k \in Keys : db.keys[k] = "active"}]
    <2>1. step' = [step EXCEPT ![t] = "active_users"] /\ draft' = [draft EXCEPT ![t] = f]
      BY <1>1 DEF ReadKeys, Goto
    <2>2. StepsOfKind'
      BY <1>1 DEF ReadKeys, Goto, StepsOfKind, TypeOK
    <2>3. Knows(t)'
      BY <1>1 DEF ReadKeys, Goto, StepsOfKind, TypeOK, GatewayState, Knows, KnowsKeys
    <2> QED
      BY <1>1, <2>1, <2>2, <2>3, AlonePrivate DEF ReadKeys
  <1>2. CASE ReadUsers(t)
    <2> DEFINE f == [draft[t] EXCEPT !.api_keys = KeepOwned(@, db.users)]
    <2>1. step' = [step EXCEPT ![t] = "load"] /\ draft' = [draft EXCEPT ![t] = f]
      BY <1>2 DEF ReadUsers, Goto
    <2>2. StepsOfKind'
      BY <1>2 DEF ReadUsers, Goto, StepsOfKind, TypeOK
    <2>3. kind[t] = "keys" /\ draft'[t].api_keys = KeepOwned(draft[t].api_keys, db.users)
      BY <1>2, <2>1 DEF ReadUsers, StepsOfKind, TypeOK, GatewayState
    <2>4. t \in alone => draft'[t].api_keys = ActiveKeys(db)
      BY <1>0, <1>2, <2>3 DEF ReadUsers, Knows, KnowsKeys, KeepOwned, ActiveKeys
    <2>5. t \in alone => Knows(t)'
      BY <1>2, <2>1, <2>3, <2>4 DEF ReadUsers, TypeOK, Knows, KnowsKeys, ActiveKeys
    <2> QED
      BY <1>2, <2>1, <2>2, <2>5, AlonePrivate DEF ReadUsers
  <1>3. CASE ReadGrants(t)
    <2> DEFINE f == [draft[t] EXCEPT !.granted = db.granted]
    <2>1. step' = [step EXCEPT ![t] = "load"] /\ draft' = [draft EXCEPT ![t] = f]
      BY <1>3 DEF ReadGrants, Goto
    <2>2. StepsOfKind'
      BY <1>3 DEF ReadGrants, Goto, StepsOfKind, TypeOK
    <2>3. Knows(t)'
      BY <1>3 DEF ReadGrants, Goto, StepsOfKind, TypeOK, GatewayState, Knows, KnowsGranted
    <2> QED
      BY <1>3, <2>1, <2>2, <2>3, AlonePrivate DEF ReadGrants
  <1>4. CASE ReadProviders(t)
    <2> DEFINE c == [draft[t].catalog EXCEPT !.providers = db.catalog.providers]
               f == [draft[t] EXCEPT !.catalog = c]
    <2>1. step' = [step EXCEPT ![t] = "list_models"] /\ draft' = [draft EXCEPT ![t] = f]
      BY <1>4 DEF ReadProviders, Goto
    <2>2. StepsOfKind'
      BY <1>4 DEF ReadProviders, Goto, StepsOfKind, TypeOK
    <2>3. c.providers = db.catalog.providers
      BY DEF TypeOK, GatewayState, Catalog
    <2>4. f.catalog = c
      BY DEF TypeOK, GatewayState
    <2> HIDE DEF c, f
    <2>5. Knows(t)'
      BY <1>4, <2>1, <2>3, <2>4
      DEF ReadProviders, StepsOfKind, TypeOK, Knows, KnowsCatalog
    <2> QED
      BY <1>4, <2>1, <2>2, <2>5, AlonePrivate DEF ReadProviders
  <1>5. CASE ReadModels(t)
    <2> DEFINE c == [draft[t].catalog EXCEPT !.models = db.catalog.models]
               f == [draft[t] EXCEPT !.catalog = c]
    <2>1. step' = [step EXCEPT ![t] = "list_deployments"] /\ draft' = [draft EXCEPT ![t] = f]
      BY <1>5 DEF ReadModels, Goto
    <2>2. StepsOfKind'
      BY <1>5 DEF ReadModels, Goto, StepsOfKind, TypeOK
    <2>3. kind[t] = "catalog"
      BY <1>5 DEF ReadModels, StepsOfKind
    <2>4. draft[t].catalog \in Catalog /\ db.catalog \in Catalog
      BY DEF TypeOK, GatewayState, Database
    <2>5. t \in alone => draft[t].catalog.providers = db.catalog.providers
      BY <1>0, <1>5, <2>3 DEF ReadModels, Knows, KnowsCatalog
    <2>6. t \in alone => c = db.catalog
      BY <2>4, <2>5 DEF Catalog
    <2>7. f.catalog = c
      BY DEF TypeOK, GatewayState
    <2> HIDE DEF c, f
    <2>8. t \in alone => Knows(t)'
      BY <1>5, <2>1, <2>3, <2>6, <2>7 DEF ReadModels, TypeOK, Knows, KnowsCatalog
    <2> QED
      BY <1>5, <2>1, <2>2, <2>8, AlonePrivate DEF ReadModels
  <1>12. CASE ReadDeployments(t)
    <2>1. PICK unlisted \in SUBSET {m \in Models : draft[t].catalog.models[m] = {}} :
            draft' = [draft EXCEPT ![t].catalog.models =
                        [m \in Models |-> IF m \in unlisted THEN {} ELSE db.catalog.models[m]]]
      BY <1>12 DEF ReadDeployments
    <2> DEFINE c == [draft[t].catalog EXCEPT !.models =
                       [m \in Models |-> IF m \in unlisted THEN {} ELSE db.catalog.models[m]]]
               f == [draft[t] EXCEPT !.catalog = c]
    <2>2. step' = [step EXCEPT ![t] = "load_from_path"] /\ draft' = [draft EXCEPT ![t] = f]
      BY <1>12, <2>1 DEF ReadDeployments, Goto
    <2>3. StepsOfKind'
      BY <1>12 DEF ReadDeployments, Goto, StepsOfKind, TypeOK
    <2>4. kind[t] = "catalog"
      BY <1>12 DEF ReadDeployments, StepsOfKind
    <2>5. t \in alone => draft[t].catalog = db.catalog
      BY <1>0, <1>12, <2>4 DEF ReadDeployments, Knows, KnowsCatalog
    <2>6. db.catalog \in Catalog
      BY DEF TypeOK, Database
    <2>7. t \in alone => c = db.catalog
      <3> SUFFICES ASSUME t \in alone PROVE c = db.catalog
        OBVIOUS
      <3>1. [m \in Models |-> IF m \in unlisted THEN {} ELSE db.catalog.models[m]]
              = db.catalog.models
        BY <2>5, <2>6 DEF Catalog
      <3> QED BY <2>5, <2>6, <3>1 DEF Catalog
    <2>8. f.catalog = c
      BY DEF TypeOK, GatewayState
    <2> HIDE DEF c, f
    <2>9. t \in alone => Knows(t)'
      BY <1>12, <2>2, <2>4, <2>7, <2>8 DEF ReadDeployments, TypeOK, Knows, KnowsCatalog
    <2> QED
      BY <1>12, <2>2, <2>3, <2>9, AlonePrivate DEF ReadDeployments
  <1>6. CASE RefreshFails(t)
    BY <1>6, AloneGiveUp DEF RefreshFails
  <1>7. CASE LoadFile(t)
    <2>1. CASE file = Invalid
      BY <1>7, <2>1, AloneGiveUp DEF LoadFile
    <2>2. CASE file # Invalid
      <3> DEFINE f == [draft[t] EXCEPT !.retry = file]
                 s == IF kind[t] = "reload" THEN "catalog" ELSE "load"
      <3>1. step' = [step EXCEPT ![t] = s] /\ draft' = [draft EXCEPT ![t] = f]
        BY <1>7, <2>2 DEF LoadFile, Goto
      <3>2. StepsOfKind'
        BY <1>7, <2>2 DEF LoadFile, Goto, StepsOfKind, TypeOK
      <3>3. f.catalog = draft[t].catalog
        BY DEF TypeOK, GatewayState
      <3>4. kind[t] \in {"catalog", "reload"}
        BY <1>7 DEF LoadFile, StepsOfKind
      <3> HIDE DEF f
      <3>5. t \in alone => Knows(t)'
        BY <1>0, <1>7, <2>2, <3>1, <3>3, <3>4
        DEF LoadFile, TypeOK, Knows, KnowsCatalog, KnowsCell
      <3> QED
        BY <1>7, <2>2, <3>1, <3>2, <3>5, AlonePrivate DEF LoadFile
    <2> QED
      BY <2>1, <2>2
  <1>8. CASE LoadCatalog(t)
    <2> DEFINE f == [draft[t] EXCEPT !.catalog = cell]
    <2>1. step' = [step EXCEPT ![t] = "load"] /\ draft' = [draft EXCEPT ![t] = f]
      BY <1>8 DEF LoadCatalog, Goto
    <2>2. StepsOfKind'
      BY <1>8 DEF LoadCatalog, Goto, StepsOfKind, TypeOK
    <2>3. f.catalog = cell
      BY DEF TypeOK, GatewayState
    <2> HIDE DEF f
    <2>4. Knows(t)'
      BY <1>8, <2>1, <2>3 DEF LoadCatalog, StepsOfKind, TypeOK, Knows, KnowsCell
    <2> QED
      BY <1>8, <2>1, <2>2, <2>4, AlonePrivate DEF LoadCatalog
  <1>9. CASE LoadState(t)
    <2>1. CASE kind[t] \in {"catalog", "reload"} /\ ~Buildable(draft[t].catalog)
      BY <1>9, <2>1, AloneGiveUp DEF LoadState
    <2>2. CASE ~(kind[t] \in {"catalog", "reload"} /\ ~Buildable(draft[t].catalog))
      <3> DEFINE s == IF kind[t] = "catalog" THEN "store_catalog" ELSE "store"
      <3>1. /\ step' = [step EXCEPT ![t] = s]
            /\ draft' = [draft EXCEPT ![t] = NextState(t)]
            /\ UNCHANGED <<db, state, cell, kind, alone>>
        BY <1>9, <2>2 DEF LoadState, Goto
      <3>2. StepsOfKind'
        BY <3>1 DEF StepsOfKind, TypeOK
      <3>3. step'[t] = s /\ draft'[t] = NextState(t) /\ step[t] = "load"
        BY <1>9, <3>1 DEF LoadState, TypeOK
      <3>4. kind[t] \in Kinds
        BY DEF TypeOK
      <3>5. CASE kind[t] = "keys"
        <4>1. t \in alone => draft'[t] = WithApiKeys(state, ActiveKeys(db))
          BY <1>0, <3>3, <3>5, NextStateParts DEF Knows, KnowsKeys
        <4>2. t \in alone => Knows(t)'
          BY <3>1, <3>3, <3>5, <4>1 DEF Knows, KnowsKeys, ActiveKeys
        <4> QED
          BY <3>1, <3>2, <4>2, AlonePrivate
      <3>6. CASE kind[t] = "granted"
        <4>1. t \in alone => draft'[t] = WithGranted(state, db.granted)
          BY <1>0, <3>3, <3>6, NextStateParts DEF Knows, KnowsGranted
        <4>2. t \in alone => Knows(t)'
          BY <3>1, <3>3, <3>6, <4>1 DEF Knows, KnowsGranted
        <4> QED
          BY <3>1, <3>2, <4>2, AlonePrivate
      <3>7. CASE kind[t] = "catalog"
        <4>1. t \in alone => draft'[t].catalog = db.catalog /\ SameAccounts(draft'[t], state)
          BY <1>0, <3>3, <3>7, NextStateParts DEF Knows, KnowsCatalog
        <4>2. t \in alone => Knows(t)'
          BY <3>1, <3>3, <3>7, <4>1 DEF Knows, KnowsCatalog, SameAccounts
        <4> QED
          BY <3>1, <3>2, <4>2, AlonePrivate
      <3>8. CASE kind[t] = "reload"
        <4>1. t \in alone => draft'[t].catalog = cell /\ SameAccounts(draft'[t], state)
          BY <1>0, <3>3, <3>8, NextStateParts DEF Knows, KnowsCell
        <4>2. t \in alone => Knows(t)'
          BY <3>1, <3>3, <3>8, <4>1 DEF Knows, KnowsCell, SameAccounts
        <4> QED
          BY <3>1, <3>2, <4>2, AlonePrivate
      <3> QED
        BY <3>4, <3>5, <3>6, <3>7, <3>8 DEF Kinds
    <2> QED
      BY <2>1, <2>2
  <1>10. CASE StoreCell(t)
    <2>1. StepsOfKind'
      BY <1>10 DEF StoreCell, Goto, StepsOfKind, TypeOK
    <2>2. ASSUME NEW o \in alone' PROVE Knows(o)'
      <3>1. o \in alone /\ o \in Tasks /\ kind[o] # "reload" /\ Knows(o)
        BY <1>10, <2>2 DEF StoreCell, AloneKnows, TypeOK
      <3>2. /\ draft' = draft /\ state' = state /\ db' = db /\ kind' = kind
            /\ o # t => step'[o] = step[o]
            /\ o = t => step[o] = "store_catalog" /\ step'[o] = "store"
                       /\ kind[o] = "catalog"
        BY <1>10, <3>1 DEF StoreCell, Goto, StepsOfKind, TypeOK
      <3> QED
        BY <3>1, <3>2 DEF Knows, KnowsKeys, KnowsGranted, KnowsCatalog,
                          ActiveKeys, SameAccounts
    <2> QED
      BY <2>1, <2>2 DEF AloneKnows
  <1>11. CASE StoreState(t)
    <2>1. StepsOfKind'
      BY <1>11 DEF StoreState, Finish, Goto, StepsOfKind, TypeOK
    <2>2. ASSUME NEW o \in alone' PROVE Knows(o)'
      <3>1. /\ o \in alone /\ o \in Tasks /\ o # t /\ Knows(o)
            /\ step[o] \notin {"store_catalog", "store"}
        BY <1>11, <2>2 DEF StoreState, AloneKnows, TypeOK
      <3>2. /\ draft'[o] = draft[o] /\ step'[o] = step[o] /\ kind' = kind
            /\ db' = db /\ cell' = cell
        BY <1>11, <3>1 DEF StoreState, Finish, Goto, TypeOK
      <3> QED
        BY <3>1, <3>2 DEF Knows, KnowsKeys, KnowsGranted, KnowsCatalog, KnowsCell,
                          ActiveKeys
    <2> QED
      BY <2>1, <2>2 DEF AloneKnows
  <1> QED
    BY <1>1, <1>2, <1>3, <1>4, <1>5, <1>6, <1>7, <1>8, <1>9, <1>10, <1>11, <1>12
    DEF Refresh

(* AloneInv is preserved by every step of the specification.                 *)
LEMMA AloneNext == TypeOK /\ AloneInv /\ [Next]_vars => AloneInv'
  <1> SUFFICES ASSUME TypeOK, AloneInv, [Next]_vars PROVE AloneInv'
    OBVIOUS
  <1> USE DEF AloneInv, AloneKnows, Knows, KnowsKeys, KnowsGranted,
              KnowsCatalog, KnowsCell, ActiveKeys, SameAccounts
  <1>1. ASSUME NEW t \in Tasks, StartReload(t) PROVE AloneInv'
    <2>1. StepsOfKind'
      BY <1>1 DEF StartReload, Goto, StepsOfKind, TypeOK
    <2>2. /\ step'[t] = "load_from_path" /\ kind'[t] = "reload"
          /\ \A o \in alone' \ {t} : /\ o \in alone /\ o \in Tasks
                                      /\ step'[o] = step[o] /\ kind'[o] = kind[o]
          /\ UNCHANGED <<db, state, cell, draft>>
      BY <1>1 DEF StartReload, Goto, TypeOK
    <2> QED
      BY <2>1, <2>2
  <1>2. CASE EditFile
    BY <1>2, SMTT(30) DEF EditFile, StepsOfKind
  <1>3. CASE Restart
    BY <1>3 DEF Restart, StepsOfKind
  <1>4. CASE UNCHANGED vars
    BY <1>4 DEF vars, StepsOfKind
  <1> QED
    BY <1>1, <1>2, <1>3, <1>4, AloneMutate, AloneRefresh DEF Next

(* A refresh that no commit to its part and no store after its load        *)
(* interfered with installs exactly what the database holds for its part,  *)
(* and leaves every other part as it was served.                           *)
THEOREM UncontendedRefreshTheorem == Spec => UncontendedRefreshIsExact
  <1>1. TypeOK /\ AloneInv /\ [Next]_vars => (TypeOK /\ AloneInv)'
    BY TypeNext, AloneNext
  <1>2. TypeOK /\ AloneInv /\ [Next]_vars
          => [\A t \in alone : StoreState(t) => UncontendedStore(t)]_vars
    <2> SUFFICES ASSUME TypeOK, AloneInv, NEW t \in alone, StoreState(t)
                 PROVE  UncontendedStore(t)
      OBVIOUS
    <2>1. t \in Tasks /\ Knows(t) /\ step[t] = "store" /\ state' = draft[t]
      BY DEF AloneInv, AloneKnows, StoreState, TypeOK
    <2> QED
      BY <2>1 DEF UncontendedStore, Knows, KnowsKeys, KnowsGranted, KnowsCatalog,
                  KnowsCell
  <1> QED
    BY <1>1, <1>2, TypeInit, AloneInit, PTL DEF Spec, UncontendedRefreshIsExact

-----------------------------------------------------------------------------
(* Where handlers and watcher take turns, the snapshot implements the      *)
(* register of SnapshotRegister.                                           *)

(* At most one task, so that a started handler meets nobody.               *)
InTurn == \A s, t \in Tasks : s = t

RunningIsAlone == \A t \in Tasks : step[t] # "idle" => t \in alone

(* A refresh of the part is under way.                                     *)
Due(k) == \E t \in Tasks : step[t] # "idle" /\ kind[t] = k

(* A part that is neither due nor missed is served as it is committed.     *)
Served ==
  /\ "keys" \notin missed /\ ~Due("keys") => state.api_keys = ActiveKeys(db)
  /\ "granted" \notin missed /\ ~Due("granted") => state.granted = db.granted
  /\ "catalog" \notin missed /\ ~Due("catalog") => state.catalog = db.catalog

(* store_catalog sets the cell and the snapshot one after the other.       *)
BetweenStores(t) == step[t] = "store" /\ kind[t] = "catalog"
CellServed ==
  /\ \A t \in Tasks : BetweenStores(t) => cell = draft[t].catalog
  /\ (\A t \in Tasks : ~BetweenStores(t)) => cell = state.catalog

ServedInv == RunningIsAlone /\ Served /\ CellServed

-----------------------------------------------------------------------------
(* What the accounts of a snapshot are when it boots, and when one part of *)
(* it is replaced.                                                         *)

LEMMA BootFields ==
  ASSUME NEW d, NEW p
  PROVE  /\ BootState(d, p).api_keys = ActiveKeys(d)
         /\ BootState(d, p).granted = d.granted
         /\ BootState(d, p).catalog = d.catalog
  BY DEF BootState, WithApiKeys, WithGranted, WithSpendCounter, FromParts

LEMMA WithParts ==
  ASSUME NEW s \in GatewayState, NEW ks, NEW g
  PROVE  /\ WithApiKeys(s, ks).api_keys = ks
         /\ WithApiKeys(s, ks).granted = s.granted
         /\ WithApiKeys(s, ks).catalog = s.catalog
         /\ WithGranted(s, g).granted = g
         /\ WithGranted(s, g).api_keys = s.api_keys
         /\ WithGranted(s, g).catalog = s.catalog
  BY DEF WithApiKeys, WithGranted, GatewayState

(* At boot every part is served.                                           *)
LEMMA ServedInit == Init => ServedInv
  BY BootFields DEF Init, ServedInv, RunningIsAlone, Served, CellServed, BetweenStores

-----------------------------------------------------------------------------
(* A commit finds every handler at rest: its own part becomes due, and the *)
(* others are what they were.                                              *)
LEMMA ServedCommit ==
  ASSUME TypeOK, InTurn, ServedInv, NEW t \in Tasks, NEW d, NEW k, NEW first, NEW revoked,
         first # "idle", first # "store",
         Commit(t, d, k, first, revoked),
         k # "keys" => d.keys = db.keys /\ d.users = db.users,
         k # "granted" => d.granted = db.granted,
         k # "catalog" => d.catalog = db.catalog
  PROVE  ServedInv'
<1>1. /\ step[t] = "idle" /\ step'[t] = first /\ kind'[t] = k /\ t \in alone'
      /\ UNCHANGED <<cell, state, missed>> /\ db' = d
  BY DEF Commit, Goto, TypeOK
<1>2. \A o \in Tasks : o = t
  BY DEF InTurn
<1>3. Due(k)' /\ \A j : ~Due(j)
  BY <1>1, <1>2 DEF Due
<1>4. RunningIsAlone'
  BY <1>1, <1>2 DEF RunningIsAlone
<1>5. cell = state.catalog
  BY <1>1, <1>2 DEF ServedInv, CellServed, BetweenStores
<1>6. k # "keys" => ActiveKeys(d) = ActiveKeys(db)
  BY DEF ActiveKeys
<1>7. Served'
  BY <1>1, <1>3, <1>6 DEF ServedInv, Served
<1> QED
  BY <1>1, <1>2, <1>4, <1>5, <1>7 DEF ServedInv, CellServed, BetweenStores

(* A step that neither commits nor stores, and does not end the refresh.   *)
LEMMA ServedPrivate ==
  ASSUME TypeOK, InTurn, ServedInv, NEW t \in Tasks,
         step[t] # "idle", step'[t] # "idle", ~BetweenStores(t), ~BetweenStores(t)',
         UNCHANGED <<db, cell, state, kind, missed, alone>>
  PROVE  ServedInv'
<1>1. \A o \in Tasks : o = t
  BY DEF InTurn
<1>2. \A k : Due(k)' <=> Due(k)
  BY <1>1 DEF Due
<1>3. Served'
  BY <1>2 DEF ServedInv, Served, ActiveKeys
<1>4. cell = state.catalog
  BY <1>1 DEF ServedInv, CellServed, BetweenStores
<1> QED
  BY <1>1, <1>3, <1>4 DEF ServedInv, RunningIsAlone, CellServed, BetweenStores

(* A refresh that gives up leaves its part missed.                         *)
LEMMA ServedGiveUp ==
  ASSUME TypeOK, InTurn, ServedInv, NEW t \in Tasks, GiveUp(t), ~BetweenStores(t),
         UNCHANGED <<db, cell, state, kind>>
  PROVE  ServedInv'
<1>1. \A o \in Tasks : o = t
  BY DEF InTurn
<1>2. /\ missed' = missed \cup {kind[t]}
      /\ step'[t] = "idle"
  BY DEF GiveUp, Finish, Goto, TypeOK
<1>3. \A k : Due(k) => k = kind[t]
  BY <1>1 DEF Due
<1>4. Served'
  BY <1>2, <1>3 DEF ServedInv, Served, ActiveKeys
<1>5. cell = state.catalog
  BY <1>1 DEF ServedInv, CellServed, BetweenStores
<1> QED
  BY <1>1, <1>2, <1>4, <1>5 DEF ServedInv, RunningIsAlone, CellServed, BetweenStores

-----------------------------------------------------------------------------
(* A store serves the committed part, and leaves the other two alone.      *)
StoresOnly(k) ==
  /\ state'.api_keys = IF k = "keys" THEN ActiveKeys(db) ELSE state.api_keys
  /\ state'.granted = IF k = "granted" THEN db.granted ELSE state.granted
  /\ state'.catalog = IF k = "catalog" THEN db.catalog ELSE state.catalog

LEMMA StoreEffect ==
  ASSUME TypeOK, InTurn, AloneInv, ServedInv, NEW t \in Tasks, StoreState(t)
  PROVE  StoresOnly(kind[t])
<1>1. step[t] = "store" /\ state' = draft[t] /\ state \in GatewayState /\ kind[t] \in Kinds
  BY DEF StoreState, TypeOK
<1>2. Knows(t)
  BY <1>1 DEF ServedInv, RunningIsAlone, AloneInv, AloneKnows
<1>3. CASE kind[t] = "keys"
  <2>1. draft[t] = WithApiKeys(state, ActiveKeys(db))
    BY <1>1, <1>2, <1>3 DEF Knows, KnowsKeys
  <2> QED
    BY <1>1, <1>3, <2>1, WithParts DEF StoresOnly
<1>4. CASE kind[t] = "granted"
  <2>1. draft[t] = WithGranted(state, db.granted)
    BY <1>1, <1>2, <1>4 DEF Knows, KnowsGranted
  <2> QED
    BY <1>1, <1>4, <2>1, WithParts DEF StoresOnly
<1>5. CASE kind[t] = "catalog"
  BY <1>1, <1>2, <1>5 DEF Knows, KnowsCatalog, SameAccounts, StoresOnly
<1>6. CASE kind[t] = "reload"
  <2>1. cell = state.catalog
    BY <1>6 DEF ServedInv, CellServed, BetweenStores, InTurn
  <2> QED
    BY <1>1, <1>2, <1>6, <2>1 DEF Knows, KnowsCell, SameAccounts, StoresOnly
<1> QED
  BY <1>1, <1>3, <1>4, <1>5, <1>6 DEF Kinds

(* After its store a part is neither due nor missed, and it is served.     *)
LEMMA ServedStore ==
  ASSUME TypeOK, InTurn, AloneInv, ServedInv, NEW t \in Tasks, StoreState(t)
  PROVE  ServedInv'
<1>1. \A o \in Tasks : o = t
  BY DEF InTurn
<1>2. /\ missed' = missed \ {kind[t]} /\ UNCHANGED <<db, cell>>
      /\ step[t] = "store" /\ step'[t] = "idle" /\ state' = draft[t]
  BY DEF StoreState, Finish, Goto, TypeOK
<1>3. StoresOnly(kind[t])
  BY StoreEffect
<1>4. \A k : Due(k) => k = kind[t]
  BY <1>1 DEF Due
<1>5. Served'
  BY <1>2, <1>3, <1>4 DEF ServedInv, Served, ActiveKeys, StoresOnly
<1>6. cell = state'.catalog
  <2>1. CASE kind[t] = "catalog"
    BY <1>2, <2>1 DEF ServedInv, CellServed, BetweenStores
  <2>2. CASE kind[t] # "catalog"
    BY <1>1, <1>3, <2>2 DEF ServedInv, CellServed, BetweenStores, StoresOnly
  <2> QED
    BY <2>1, <2>2
<1> QED
  BY <1>1, <1>2, <1>5, <1>6 DEF ServedInv, RunningIsAlone, CellServed, BetweenStores

(* store_catalog's first store.                                            *)
LEMMA ServedStoreCell ==
  ASSUME TypeOK, InTurn, AloneInv, ServedInv, NEW t \in Tasks, StoreCell(t)
  PROVE  ServedInv'
<1>1. \A o \in Tasks : o = t
  BY DEF InTurn
<1>2. /\ step[t] = "store_catalog" /\ kind[t] = "catalog"
      /\ step'[t] = "store" /\ cell' = draft[t].catalog
      /\ UNCHANGED <<db, state, missed, kind, draft>>
  BY DEF StoreCell, Goto, TypeOK, AloneInv, StepsOfKind
<1>3. \A k : Due(k)' <=> Due(k)
  BY <1>1, <1>2 DEF Due
<1>4. Served'
  BY <1>2, <1>3 DEF ServedInv, Served, ActiveKeys
<1>5. t \in alone'
  BY <1>2 DEF StoreCell, ServedInv, RunningIsAlone
<1> QED
  BY <1>1, <1>2, <1>4, <1>5 DEF ServedInv, RunningIsAlone, CellServed, BetweenStores

(* Every step of a refresh.                                                *)
LEMMA ServedRefresh ==
  ASSUME TypeOK, InTurn, AloneInv, ServedInv, NEW t \in Tasks, Refresh(t)
  PROVE  ServedInv'
<1> USE DEF BetweenStores
<1>1. CASE ReadKeys(t) \/ ReadUsers(t) \/ ReadGrants(t) \/ ReadProviders(t)
           \/ ReadModels(t) \/ ReadDeployments(t) \/ LoadCatalog(t)
  <2>1. /\ step[t] \notin {"idle", "store"} /\ step'[t] \notin {"idle", "store"}
        /\ UNCHANGED <<db, cell, state, kind, missed, alone>>
    BY <1>1 DEF ReadKeys, ReadUsers, ReadGrants, ReadProviders, ReadModels, ReadDeployments,
       LoadCatalog,
       Goto, TypeOK
  <2> QED
    BY <2>1, ServedPrivate
<1>2. CASE RefreshFails(t)
  BY <1>2, ServedGiveUp DEF RefreshFails
<1>3. CASE LoadFile(t)
  <2>1. CASE file = Invalid
    BY <1>3, <2>1, ServedGiveUp DEF LoadFile
  <2>2. CASE file # Invalid
    <3>1. /\ step[t] \notin {"idle", "store"} /\ step'[t] \notin {"idle", "store"}
          /\ UNCHANGED <<db, cell, state, kind, missed, alone>>
      BY <1>3, <2>2 DEF LoadFile, Goto, TypeOK
    <3> QED
      BY <3>1, ServedPrivate
  <2> QED
    BY <2>1, <2>2
<1>4. CASE LoadState(t)
  <2>1. CASE kind[t] \in {"catalog", "reload"} /\ ~Buildable(draft[t].catalog)
    BY <1>4, <2>1, ServedGiveUp DEF LoadState
  <2>2. CASE ~(kind[t] \in {"catalog", "reload"} /\ ~Buildable(draft[t].catalog))
    <3>1. /\ step[t] = "load" /\ step'[t] # "idle" /\ ~BetweenStores(t)'
          /\ UNCHANGED <<db, cell, state, kind, missed, alone>>
      BY <1>4, <2>2 DEF LoadState, Goto, TypeOK
    <3> QED
      BY <3>1, ServedPrivate
  <2> QED
    BY <2>1, <2>2
<1> QED
  BY <1>1, <1>2, <1>3, <1>4, ServedStoreCell, ServedStore DEF Refresh

-----------------------------------------------------------------------------
(* The handlers' commits, each of one part.                                *)
CommitsOnly(t, k, d) ==
  /\ d \in Database
  /\ k # "keys" => d.keys = db.keys /\ d.users = db.users
  /\ k # "granted" => d.granted = db.granted
  /\ k # "catalog" => d.catalog = db.catalog
  /\ \E first \in {"active_key_map", "grant_sums", "list_providers"}, revoked \in SUBSET Keys :
       Commit(t, d, k, first, revoked)

(* Every mutation commits to one part, or answers without a change.        *)
LEMMA MutateCommits ==
  ASSUME TypeOK, NEW t \in Tasks, Mutate(t)
  PROVE  \/ \E k \in {"keys", "granted", "catalog"} : \E d \in Database : CommitsOnly(t, k, d)
         \/ UNCHANGED <<db, cell, state, step, kind, draft, missed, alone>>
<1>1. ASSUME NEW d \in Database, NEW revoked \in SUBSET Keys, CommitKeys(t, d, revoked),
             d.granted = db.granted, d.catalog = db.catalog
      PROVE  \E e \in Database : CommitsOnly(t, "keys", e)
  <2>1. CommitsOnly(t, "keys", d)
    BY <1>1 DEF CommitKeys, CommitsOnly
  <2> QED
    BY <2>1
<1>2. ASSUME NEW c \in Catalog, CommitCatalog(t, c)
      PROVE  \E d \in Database : CommitsOnly(t, "catalog", d)
  <2> DEFINE d == [db EXCEPT !.catalog = c]
  <2>1. d \in Database /\ d.granted = db.granted /\ d.keys = db.keys /\ d.users = db.users
    BY DEF TypeOK, Database
  <2> HIDE DEF d
  <2>2. Commit(t, d, "catalog", "list_providers", {})
    BY <1>2 DEF CommitCatalog, d
  <2> QED
    BY <2>1, <2>2 DEF CommitsOnly
<1>3. ASSUME NEW k \in Keys, CreateKey(t, k) \/ RevokeKey(t, k)
      PROVE  \E d \in Database : CommitsOnly(t, "keys", d)
  <2>1. PICK s \in {"active", "revoked"}, revoked \in SUBSET Keys :
               CommitKeys(t, [db EXCEPT !.keys[k] = s], revoked)
    BY <1>3 DEF CreateKey, RevokeKey
  <2> DEFINE d == [db EXCEPT !.keys[k] = s]
  <2>2. d \in Database /\ d.granted = db.granted /\ d.catalog = db.catalog
    BY DEF TypeOK, Database
  <2>3. CommitKeys(t, d, revoked)
    BY <2>1
  <2> HIDE DEF d
  <2> QED
    BY <1>1, <2>2, <2>3
<1>4. ASSUME NEW k \in Keys, RevokeAgain(t, k)
      PROVE  UNCHANGED <<db, cell, state, step, kind, draft, missed, alone>>
  BY <1>4 DEF RevokeAgain
<1>5. ASSUME NEW u \in Users, DisableUser(t, u) \/ EnableUser(t, u)
      PROVE  \E d \in Database : CommitsOnly(t, "keys", d)
  <2>1. db.users \ {u} \in SUBSET Users /\ db.users \cup {u} \in SUBSET Users
    BY DEF TypeOK, Database
  <2>2. PICK us \in SUBSET Users : CommitKeys(t, [db EXCEPT !.users = us], {})
    BY <1>5, <2>1 DEF DisableUser, EnableUser
  <2> DEFINE d == [db EXCEPT !.users = us]
  <2>3. d \in Database /\ d.granted = db.granted /\ d.catalog = db.catalog
    BY DEF TypeOK, Database
  <2>4. CommitKeys(t, d, {})
    BY <2>2
  <2> HIDE DEF d
  <2> QED
    BY <1>1, <2>3, <2>4
<1>6. ASSUME NEW u \in Users, NEW a \in GrantAmounts, CreateGrant(t, u, a)
      PROVE  \E d \in Database : CommitsOnly(t, "granted", d)
  <2> DEFINE d == [db EXCEPT !.granted[u] = @ + a]
  <2>1. d \in Database /\ d.catalog = db.catalog /\ d.keys = db.keys /\ d.users = db.users
    BY GrantAssumption DEF TypeOK, Database
  <2> HIDE DEF d
  <2>2. Commit(t, d, "granted", "grant_sums", {})
    BY <1>6 DEF CreateGrant, d
  <2> QED
    BY <2>1, <2>2 DEF CommitsOnly
<1>7. ASSUME NEW p \in Providers, CreateProvider(t, p) \/ DeleteProvider(t, p)
      PROVE  \E d \in Database : CommitsOnly(t, "catalog", d)
  <2>1. /\ [db.catalog EXCEPT !.providers = @ \cup {p}] \in Catalog
        /\ [db.catalog EXCEPT !.providers = @ \ {p}] \in Catalog
    BY DEF TypeOK, Database, Catalog
  <2> QED
    BY <1>2, <1>7, <2>1 DEF CreateProvider, DeleteProvider
<1>8. ASSUME NEW m \in Models, NEW chain \in SUBSET Providers, SetDeployments(t, m, chain)
      PROVE  \E d \in Database : CommitsOnly(t, "catalog", d)
  <2>1. [db.catalog EXCEPT !.models[m] = chain] \in Catalog
    BY DEF TypeOK, Database, Catalog
  <2> QED
    BY <1>2, <1>8, <2>1 DEF SetDeployments
<1> QED
  BY <1>3, <1>4, <1>5, <1>6, <1>7, <1>8 DEF Mutate

(* Every step keeps what is served.                                        *)
LEMMA ServedNext ==
  ASSUME InTurn
  PROVE  TypeOK /\ AloneInv /\ ServedInv /\ [Next]_vars => ServedInv'
<1> SUFFICES ASSUME TypeOK, AloneInv, ServedInv, [Next]_vars PROVE ServedInv'
  OBVIOUS
<1>1. ASSUME NEW t \in Tasks, Mutate(t) PROVE ServedInv'
  <2>1. ASSUME NEW k \in {"keys", "granted", "catalog"}, NEW d \in Database, CommitsOnly(t, k, d)
        PROVE  ServedInv'
    BY <2>1, ServedCommit DEF CommitsOnly
  <2>2. CASE UNCHANGED <<db, cell, state, step, kind, draft, missed, alone>>
    BY <2>2 DEF ServedInv, RunningIsAlone, Served, CellServed, BetweenStores, Due, ActiveKeys
  <2> QED
    BY <1>1, <2>1, <2>2, MutateCommits
<1>2. ASSUME NEW t \in Tasks, StartReload(t) PROVE ServedInv'
  <2>1. /\ step[t] = "idle" /\ step'[t] = "load_from_path" /\ kind'[t] = "reload" /\ t \in alone'
        /\ UNCHANGED <<db, cell, state, missed>>
    BY <1>2 DEF StartReload, Goto, TypeOK
  <2>2. \A o \in Tasks : o = t
    BY DEF InTurn
  <2>3. Served'
    BY <2>1, <2>2 DEF ServedInv, Served, Due, ActiveKeys
  <2> QED
    BY <2>1, <2>2, <2>3 DEF ServedInv, RunningIsAlone, CellServed, BetweenStores
<1>3. CASE EditFile
  BY <1>3 DEF EditFile, ServedInv, RunningIsAlone, Served, CellServed, BetweenStores, Due,
     ActiveKeys
<1>4. CASE Restart
  <2>1. /\ \A t \in Tasks : step'[t] = "idle"
        /\ cell' = db.catalog /\ state' = BootState(db, file) /\ db' = db
    BY <1>4 DEF Restart
  <2> QED
    BY <2>1, BootFields DEF ServedInv, RunningIsAlone, Served, CellServed, BetweenStores, ActiveKeys
<1>5. CASE UNCHANGED vars
  BY <1>5 DEF vars, ServedInv, RunningIsAlone, Served, CellServed, BetweenStores, Due, ActiveKeys
<1> QED
  BY <1>1, <1>2, <1>3, <1>4, <1>5, ServedRefresh DEF Next

(* When handlers run one at a time, and none of them is running, each part *)
(* of the snapshot whose last refresh was not missed is what PostgreSQL    *)
(* holds (reload.rs:86-176).                                               *)
THEOREM ServesWhatIsCommitted ==
  ASSUME InTurn
  PROVE  Spec => []ServesCommittedData
<1>1. TypeOK /\ AloneInv /\ ServedInv /\ [Next]_vars => (TypeOK /\ AloneInv /\ ServedInv)'
  BY TypeNext, AloneNext, ServedNext
<1>2. ServedInv => ServesCommittedData
  BY DEF ServedInv, Served, Due, ServesCommittedData
<1> QED
  BY <1>1, <1>2, TypeInit, AloneInit, ServedInit, PTL DEF Spec

-----------------------------------------------------------------------------
(* The refinement.                                                         *)
Truth == [keys |-> ActiveKeys(db), granted |-> db.granted, catalog |-> db.catalog]
Serving == [keys |-> state.api_keys, granted |-> state.granted, catalog |-> state.catalog]
PartNames == {"keys", "granted", "catalog"}

(* What is committed is a register: each part has its type.                *)
LEMMA TruthIsRegister ==
  ASSUME TypeOK
  PROVE  Register!IsRegister(Truth)
<1>1. DOMAIN Truth = PartNames
  BY DEF Truth, PartNames
<1>2. ActiveKeys(db) \in SUBSET Keys /\ db.granted \in [Users -> Int] /\ db.catalog \in Catalog
  BY DEF TypeOK, Database, ActiveKeys
<1>3. \A p \in PartNames : Truth[p] \in PartValue(p)
  BY <1>2 DEF Truth, PartNames, PartValue
<1> QED
  BY <1>1, <1>3 DEF Register!IsRegister, PartNames

(* The snapshot a process starts with serves everything.                   *)
LEMMA RegisterInit ==
  ASSUME Init
  PROVE  Register!Init
<1>1. Serving = Truth
  BY BootFields DEF Init, Serving, Truth
<1>2. TypeOK
  BY TypeInit
<1> QED
  BY <1>1, <1>2, TruthIsRegister DEF Register!Init, Serving, Truth

(* Neither a commit nor a store: a stutter of the register.                *)
LEMMA RegisterStutter ==
  ASSUME UNCHANGED <<db, state>>
  PROVE  UNCHANGED Register!vars
  BY DEF Register!vars, ActiveKeys

(* A mutation is a commit of its part.                                     *)
LEMMA RegisterCommit ==
  ASSUME TypeOK, TypeOK', NEW t \in Tasks, NEW k \in PartNames, NEW d \in Database,
         CommitsOnly(t, k, d)
  PROVE  Register!Commit(k)
<1>1. db' = d /\ state' = state
  BY DEF CommitsOnly, Commit
<1>2. Register!IsRegister(Truth')
  <2>1. DOMAIN Truth' = PartNames
    BY DEF Truth, PartNames
  <2>2. ActiveKeys(db)' \in SUBSET Keys /\ db'.granted \in [Users -> Int] /\ db'.catalog \in Catalog
    BY DEF TypeOK, Database, ActiveKeys
  <2>3. \A p \in PartNames : Truth'[p] \in PartValue(p)
    BY <2>2 DEF Truth, PartNames, PartValue
  <2> QED
    BY <2>1, <2>3 DEF Register!IsRegister, PartNames
<1>3. \A p \in PartNames \ {k} : Truth'[p] = Truth[p]
  BY <1>1 DEF Truth, PartNames, CommitsOnly, ActiveKeys
<1>4. Serving' = Serving
  BY <1>1 DEF Serving
<1> QED
  BY <1>2, <1>3, <1>4 DEF Register!Commit, Truth, Serving, PartNames

(* The store of a refresh is the register's refresh of its part, and that  *)
(* of a reload is a stutter.                                               *)
LEMMA RegisterStore ==
  ASSUME TypeOK, InTurn, AloneInv, ServedInv, NEW t \in Tasks, StoreState(t)
  PROVE  Register!Next \/ UNCHANGED Register!vars
<1>1. StoresOnly(kind[t]) /\ db' = db /\ kind[t] \in Kinds
  BY StoreEffect DEF StoreState, TypeOK
<1>2. Truth' = Truth
  BY <1>1 DEF Truth, ActiveKeys
<1>3. CASE kind[t] \in PartNames
  <2>1. Serving' = [Serving EXCEPT ![kind[t]] = Truth[kind[t]]]
    BY <1>1, <1>3 DEF StoresOnly, Serving, Truth, PartNames
  <2>2. Register!Refresh(kind[t])
    BY <1>2, <2>1 DEF Register!Refresh, Serving, Truth
  <2> QED
    BY <1>3, <2>2 DEF Register!Next, PartNames
<1>4. CASE kind[t] = "reload"
  <2>1. Serving' = Serving
    BY <1>1, <1>4 DEF StoresOnly, Serving
  <2> QED
    BY <1>2, <2>1 DEF Register!vars, Serving, Truth
<1> QED
  BY <1>1, <1>3, <1>4 DEF Kinds, PartNames

(* Every step maps to a step of the register or to none.                   *)
LEMMA RegisterNext ==
  ASSUME InTurn
  PROVE  TypeOK /\ TypeOK' /\ AloneInv /\ ServedInv /\ [Next]_vars => [Register!Next]_(Register!vars)
<1> SUFFICES ASSUME TypeOK, TypeOK', AloneInv, ServedInv, [Next]_vars
             PROVE  Register!Next \/ UNCHANGED Register!vars
  OBVIOUS
<1>1. ASSUME NEW t \in Tasks, Mutate(t) PROVE Register!Next \/ UNCHANGED Register!vars
  <2>1. ASSUME NEW k \in PartNames, NEW d \in Database, CommitsOnly(t, k, d)
        PROVE  Register!Next
    <3>1. Register!Commit(k)
      BY <2>1, RegisterCommit
    <3> QED
      BY <3>1 DEF Register!Next, PartNames
  <2> QED
    BY <1>1, <2>1, MutateCommits, RegisterStutter DEF PartNames
<1>2. ASSUME NEW t \in Tasks, Refresh(t) PROVE Register!Next \/ UNCHANGED Register!vars
  <2>1. StoreState(t) \/ UNCHANGED <<db, state>>
    BY <1>2 DEF Refresh, ReadKeys, ReadUsers, ReadGrants, ReadProviders, ReadModels,
       ReadDeployments, RefreshFails, LoadFile, LoadCatalog, LoadState, StoreCell
  <2> QED
    BY <2>1, RegisterStore, RegisterStutter
<1>3. ASSUME NEW t \in Tasks, StartReload(t) PROVE UNCHANGED Register!vars
  BY <1>3, RegisterStutter DEF StartReload
<1>4. CASE EditFile
  BY <1>4, RegisterStutter DEF EditFile
<1>5. CASE Restart
  <2>1. db' = db /\ state' = BootState(db, file)
    BY <1>5 DEF Restart
  <2>2. Serving' = Truth /\ Truth' = Truth
    BY <2>1, BootFields DEF Serving, Truth, ActiveKeys
  <2>3. Register!Boot
    BY <2>2 DEF Register!Boot, Serving, Truth
  <2> QED
    BY <2>3 DEF Register!Next
<1>6. CASE UNCHANGED vars
  BY <1>6, RegisterStutter DEF vars
<1> QED
  BY <1>1, <1>2, <1>3, <1>4, <1>5, <1>6 DEF Next

(* Where handlers and reloads do not overlap, the snapshot implements the  *)
(* register: whatever a refresh reads in separate queries and stores at    *)
(* the end, it serves exactly the committed part it is for, and reloads    *)
(* serve nothing new of the database (reload.rs:86-176).                   *)
THEOREM SnapshotImplementsRegister ==
  ASSUME InTurn
  PROVE  Spec => ImplementsRegister
<1>1. TypeOK /\ AloneInv /\ ServedInv /\ [Next]_vars => (TypeOK /\ AloneInv /\ ServedInv)'
  BY TypeNext, AloneNext, ServedNext
<1> QED
  BY <1>1, TypeInit, AloneInit, ServedInit, RegisterInit, RegisterNext, PTL
  DEF Spec, ImplementsRegister, Register!Spec
=============================================================================
