-------------------------- MODULE HotReload_proofs --------------------------
(***************************************************************************)
(* Proofs about HotReload: the watcher adds nothing to what a snapshot can *)
(* be, and, where handlers and watcher take turns, forgets no edit.        *)
(***************************************************************************)
EXTENDS HotReload, SharedGatewayState_proofs, SequenceTheorems

(* With the watcher beside it, the gateway still only takes its own steps. *)
LEMMA HotStep == [HotNext]_hotVars => [Next]_vars
  <1> SUFFICES ASSUME [HotNext]_hotVars PROVE [Next]_vars
    OBVIOUS
  <1>1. ASSUME NEW t \in Tasks, HotMutate(t) \/ PostReload(t) \/ HotRefresh(t)
        PROVE  Next
    BY <1>1 DEF HotMutate, PostReload, HotRefresh, Next
  <1>2. ASSUME HotEditFile \/ HotRestart PROVE Next
    BY <1>2 DEF HotEditFile, HotRestart, Next
  <1>3. ASSUME QuietElapses PROVE Next
    BY <1>3, WatcherAssumption DEF QuietElapses, Next
  <1>4. ASSUME SiblingChanges \/ StartWatching \/ Receive \/ Debounce \/ WatcherStops
        PROVE  UNCHANGED vars
    BY <1>4 DEF SiblingChanges, StartWatching, Receive, Debounce, WatcherStops
  <1>5. ASSUME UNCHANGED hotVars PROVE UNCHANGED vars
    BY <1>5 DEF hotVars
  <1> QED
    BY <1>1, <1>2, <1>3, <1>4, <1>5 DEF HotNext, WatcherThread

(* The composition implements the gateway alone, so that whatever is true  *)
(* of every behaviour of SharedGatewayState is true of it too.             *)
THEOREM HotImplementsGateway == HotSpec => Spec
  <1>1. HotInit => Init
    BY DEF HotInit
  <1> QED
    BY <1>1, HotStep, PTL DEF HotSpec, Spec

-----------------------------------------------------------------------------
(* The watcher's own variables, and the reload it waits for.               *)

(* Events of the config file, however many, keep the channel well typed.   *)
LEMMA NotifiedType ==
  ASSUME channel \in Seq(FileEvents), NEW e \in FileEvents
  PROVE  /\ Notified(e) \in Seq(FileEvents)
         /\ Watching => /\ Len(Notified(e)) = Len(channel) + 1
                        /\ Notified(e)[Len(channel) + 1] = e
                        /\ \A i \in 1 .. Len(channel) : Notified(e)[i] = channel[i]
         /\ ~Watching => Notified(e) = channel
  BY AppendProperties DEF Notified

(* A task that starts is not idle.                                         *)
LEMMA MutateStarts ==
  ASSUME TypeOK, NEW t \in Tasks, Mutate(t)
  PROVE  step[t] = "idle"
  BY DEF Mutate, CreateKey, RevokeKey, RevokeAgain, DisableUser, EnableUser,
         CreateGrant, CreateProvider, DeleteProvider, SetDeployments,
         CommitKeys, CommitCatalog, Commit

(* What the steps of the other tasks leave of the watcher's task.          *)
LEMMA OthersLeaveWatcher ==
  ASSUME TypeOK, NEW t \in Tasks, t # Watcher, Mutate(t) \/ StartReload(t) \/ Refresh(t)
  PROVE  step'[Watcher] = step[Watcher] /\ kind'[Watcher] = kind[Watcher]
  <1> USE WatcherAssumption DEF TypeOK, Goto
  <1>1. CASE Mutate(t)
    BY <1>1
    DEF Mutate, CreateKey, RevokeKey, RevokeAgain, DisableUser, EnableUser,
        CreateGrant, CreateProvider, DeleteProvider, SetDeployments,
        CommitKeys, CommitCatalog, Commit
  <1>2. CASE StartReload(t)
    BY <1>2 DEF StartReload
  <1>3. CASE Refresh(t)
    BY <1>3
    DEF Refresh, ReadKeys, ReadUsers, ReadGrants, ReadProviders, ReadModels,
        ReadDeployments, RefreshFails, LoadFile, LoadCatalog, LoadState, StoreCell, StoreState,
        GiveUp, Finish
  <1> QED
    BY <1>1, <1>2, <1>3

(* A refresh keeps the kind it started with.                               *)
LEMMA RefreshKeepsKind ==
  ASSUME NEW t \in Tasks, Refresh(t)
  PROVE  kind' = kind
  BY DEF Refresh, ReadKeys, ReadUsers, ReadGrants, ReadProviders, ReadModels,
         ReadDeployments, RefreshFails, LoadFile, LoadCatalog, LoadState, StoreCell, StoreState

(* WatcherTypeOK is inductive, given the types of the gateway.             *)
LEMMA WatcherTypeNext == TypeOK /\ WatcherTypeOK /\ [HotNext]_hotVars => WatcherTypeOK'
  <1> SUFFICES ASSUME TypeOK, WatcherTypeOK, [HotNext]_hotVars PROVE WatcherTypeOK'
    OBVIOUS
  <1> USE WatcherAssumption, MaxExtrasAssumption DEF WatcherTypeOK, FileEvents
  <1>1. ASSUME NEW t \in Tasks, HotMutate(t) PROVE WatcherTypeOK'
    <2>1. step[t] = "idle"
      BY <1>1, MutateStarts DEF HotMutate
    <2>2. CASE t = Watcher
      BY <1>1, <2>1, <2>2 DEF HotMutate, watcherVars
    <2>3. CASE t # Watcher
      BY <1>1, <2>3, OthersLeaveWatcher DEF HotMutate, watcherVars
    <2> QED
      BY <2>2, <2>3
  <1>2. ASSUME NEW t \in Tasks, PostReload(t) PROVE WatcherTypeOK'
    <2>1. step[t] = "idle"
      BY <1>2 DEF PostReload, StartReload
    <2>2. t # Watcher => step'[Watcher] = step[Watcher] /\ kind'[Watcher] = kind[Watcher]
      BY <1>2, OthersLeaveWatcher DEF PostReload
    <2> QED
      BY <1>2, <2>1, <2>2 DEF PostReload, Extra
  <1>3. ASSUME NEW t \in Tasks, HotRefresh(t) PROVE WatcherTypeOK'
    <2>1. kind' = kind
      BY <1>3, RefreshKeepsKind DEF HotRefresh
    <2>2. t # Watcher => step'[Watcher] = step[Watcher]
      BY <1>3, OthersLeaveWatcher DEF HotRefresh
    <2>3. channel' \in Seq(FileEvents)
      BY <1>3, NotifiedType DEF HotRefresh
    <2> QED
      BY <1>3, <2>1, <2>2, <2>3 DEF HotRefresh, ReloadEnds
  <1>4. CASE HotEditFile
    BY <1>4, NotifiedType DEF HotEditFile, EditFile, Notify, Watching
  <1>5. CASE SiblingChanges
    BY <1>5, NotifiedType DEF SiblingChanges, Extra, Notify, vars
  <1>6. CASE HotRestart
    BY <1>6, EmptySeq DEF HotRestart
  <1>7. CASE WatcherStops
    BY <1>7 DEF WatcherStops, ReloadIsDue, vars
  <1>8. CASE StartWatching
    BY <1>8 DEF StartWatching, vars
  <1>9. CASE Receive \/ Debounce
    BY <1>9, HeadTailProperties DEF Receive, Debounce, vars
  <1>10. CASE QuietElapses
    BY <1>10 DEF QuietElapses, StartReload, Goto, TypeOK
  <1>11. CASE UNCHANGED hotVars
    BY <1>11 DEF hotVars, vars, watcherVars
  <1> QED
    BY <1>1, <1>2, <1>3, <1>4, <1>5, <1>6, <1>7, <1>8, <1>9, <1>10, <1>11
    DEF HotNext, WatcherThread

(* The variables of the watcher have their types, and it runs a reload     *)
(* exactly while its task does (reload.rs:213-266).                        *)
THEOREM WatcherTypeCorrect == HotSpec => []WatcherTypeOK
  <1>1. HotInit => WatcherTypeOK
    <2>1. <<>> \in Seq(FileEvents)
      BY EmptySeq
    <2>2. 0 \in 0 .. MaxExtras
      BY MaxExtrasAssumption
    <2>3. HotInit => watcher = "starting" /\ watcher # "reload"
      BY DEF HotInit
    <2> QED
      BY <2>1, <2>2, <2>3 DEF HotInit, WatcherTypeOK
  <1>2. HotSpec => []TypeOK
    BY HotImplementsGateway, TypeCorrect
  <1> QED
    BY <1>1, <1>2, WatcherTypeNext, PTL DEF HotSpec

-----------------------------------------------------------------------------
(* No edit is forgotten when handlers and watcher take turns.  EditIsPending*)
(* is strengthened by what the one running refresh holds of the file: a    *)
(* draft that is out of date has an event behind it, and a refresh of keys *)
(* or credit stores the policy it loaded.                                  *)
HoldsPolicy == step[Watcher] \in {"catalog", "load", "store_catalog", "store"}
DraftIsCovered ==
  /\ HoldsPolicy /\ kind[Watcher] \in {"catalog", "reload"} =>
       draft[Watcher].retry = file \/ unseen \/ ReloadIsDue
  /\ step[Watcher] = "store" /\ kind[Watcher] \in {"keys", "granted"} =>
       draft[Watcher].retry = state.retry
  /\ step[Watcher] = "load" /\ kind[Watcher] = "reload" =>
       draft[Watcher].catalog = cell
PendingInv == EditIsPending /\ DraftIsCovered

(* A reload takes these steps only.                                        *)
ReloadSteps ==
  kind[Watcher] = "reload" =>
    step[Watcher] \in {"idle", "load_from_path", "catalog", "load", "store"}

LEMMA StepsOfReload ==
  ASSUME TypeOK, StepsOfKind
  PROVE  ReloadSteps
  BY WatcherAssumption DEF TypeOK, StepsOfKind, ReloadSteps, Steps, Kinds

(* Events that arrive, or are received while the window is open, leave a   *)
(* due reload due.                                                         *)
LEMMA DueStaysDue ==
  ASSUME WatcherTypeOK, ReloadIsDue, NEW e \in FileEvents, watcher' = watcher,
         channel' = channel \/ channel' = Notified(e)
  PROVE  ReloadIsDue'
  <1>1. CASE watcher = "quiet"
    BY <1>1 DEF ReloadIsDue
  <1>2. CASE watcher # "quiet"
    <2>1. PICK i \in 1 .. Len(channel) : EventTouchesConfig(channel[i])
      BY <1>2 DEF ReloadIsDue
    <2>2. /\ Watching => /\ Len(Notified(e)) = Len(channel) + 1
                         /\ Notified(e)[i] = channel[i]
          /\ ~Watching => Notified(e) = channel
      BY <2>1, NotifiedType DEF WatcherTypeOK
    <2>3. i \in 1 .. Len(channel') /\ channel'[i] = channel[i]
      BY <2>1, <2>2 DEF WatcherTypeOK
    <2> QED
      BY <2>1, <2>3 DEF ReloadIsDue, EventTouchesConfig
  <1> QED
    BY <1>1, <1>2

(* The policy of what a task stores.                                       *)
LEMMA NextStatePolicy ==
  ASSUME TypeOK, NEW t \in Tasks
  PROVE  /\ kind[t] \in {"keys", "granted"} => NextState(t).retry = state.retry
         /\ kind[t] \in {"catalog", "reload"} => NextState(t).retry = draft[t].retry
  <1>1. state \in GatewayState
    BY DEF TypeOK
  <1> QED
    BY <1>1 DEF NextState, WithApiKeys, WithGranted, WithSpendCounter, Rebuilt,
                FromParts, GatewayState

(* With one task, every step of a refresh keeps the pending edit.          *)
LEMMA PendingRefresh ==
  ASSUME TypeOK, ResolveInv, StepsOfKind, WatcherTypeOK, PendingInv,
         HotRefresh(Watcher)
  PROVE  PendingInv'
  <1> DEFINE w == Watcher
  <1> USE WatcherAssumption
  <1>1. /\ Refresh(w) /\ unseen' = unseen
        /\ watcher' = IF ReloadEnds(w) THEN "recv" ELSE watcher
        /\ channel' = channel \/ channel' = Notified("read")
    BY DEF HotRefresh
  <1>2. /\ kind' = kind /\ kind[w] \in Kinds /\ ReloadSteps
        /\ watcher = "reload" => kind[w] = "reload"
    BY <1>1, RefreshKeepsKind, StepsOfReload DEF TypeOK, WatcherTypeOK
  <1>3. ReloadIsDue => ReloadIsDue'
    <2>1. CASE ReloadEnds(w)
      <3> SUFFICES ASSUME ReloadIsDue PROVE ReloadIsDue'
        OBVIOUS
      <3>1. PICK i \in 1 .. Len(channel) : EventTouchesConfig(channel[i])
        BY <2>1 DEF ReloadIsDue, ReloadEnds
      <3>2. i \in 1 .. Len(channel') /\ channel'[i] = channel[i]
        BY <1>1, <3>1, NotifiedType DEF WatcherTypeOK, FileEvents
      <3> QED
        BY <3>1, <3>2 DEF ReloadIsDue, EventTouchesConfig
    <2>2. CASE ~ReloadEnds(w)
      BY <1>1, <2>2, DueStaysDue DEF FileEvents
    <2> QED
      BY <2>1, <2>2
  <1> USE DEF PendingInv, EditIsPending, DraftIsCovered, HoldsPolicy,
              ReloadBringsFile, TypeOK, Goto
  <1>4. CASE ReadKeys(w) \/ ReadUsers(w) \/ ReadGrants(w) \/ ReadProviders(w) \/ ReadModels(w)
             \/ ReadDeployments(w)
    <2>1. /\ UNCHANGED <<file, state>> /\ step[w] \notin {"load_from_path", "catalog", "load", "store"}
          /\ step'[w] \in {"active_users", "load", "list_models", "list_deployments", "load_from_path"}
          /\ step'[w] = "load" => kind[w] \in {"keys", "granted"}
      BY <1>4, <1>2
      DEF ReadKeys, ReadUsers, ReadGrants, ReadProviders, ReadModels, ReadDeployments,
          StepsOfKind
    <2>2. watcher # "reload"
      BY <1>2, <2>1 DEF ReloadSteps, WatcherTypeOK
    <2> QED
      BY <1>1, <1>2, <1>3, <2>1, <2>2 DEF ReloadEnds
  <1>5. CASE RefreshFails(w)
    <2>1. /\ UNCHANGED <<file, state>> /\ step'[w] = "idle"
          /\ step[w] \notin {"idle", "load_from_path", "catalog", "load", "store"}
      BY <1>5 DEF RefreshFails, GiveUp, Finish
    <2>2. watcher # "reload"
      BY <1>2, <2>1 DEF ReloadSteps, WatcherTypeOK
    <2> QED
      BY <1>1, <1>2, <1>3, <2>1, <2>2 DEF ReloadEnds
  <1>6. CASE LoadFile(w)
    <2>1. /\ UNCHANGED <<file, state>> /\ step[w] = "load_from_path"
          /\ kind[w] \in {"catalog", "reload"}
      BY <1>6, <1>2 DEF LoadFile, StepsOfKind
    <2>2. CASE file = Invalid
      <3>1. step'[w] = "idle"
        BY <1>6, <2>2 DEF LoadFile, GiveUp, Finish
      <3> QED
        BY <2>1, <2>2, <3>1
    <2>3. CASE file # Invalid
      <3>1. /\ draft'[w].retry = file
            /\ step'[w] = IF kind[w] = "reload" THEN "catalog" ELSE "load"
        BY <1>6, <2>3 DEF LoadFile, GatewayState
      <3>2. ~ReloadEnds(w)
        BY <3>1 DEF ReloadEnds
      <3> QED
        BY <1>1, <1>2, <1>3, <2>1, <3>1, <3>2
    <2> QED
      BY <2>2, <2>3
  <1>7. CASE LoadCatalog(w)
    <2>1. /\ UNCHANGED <<file, state, cell>> /\ step[w] = "catalog" /\ step'[w] = "load"
          /\ draft'[w] = [draft[w] EXCEPT !.catalog = cell] /\ kind[w] = "reload"
      BY <1>7, <1>2 DEF LoadCatalog, StepsOfKind
    <2>2. draft'[w].retry = draft[w].retry /\ draft'[w].catalog = cell
      BY <2>1 DEF GatewayState
    <2> QED
      BY <1>1, <1>2, <1>3, <2>1, <2>2 DEF ReloadEnds
  <1>8. CASE LoadState(w)
    <2>1. UNCHANGED <<file, state, cell>> /\ step[w] = "load"
      BY <1>8 DEF LoadState
    <2>2. CASE kind[w] = "reload"
      <3>1. Buildable(draft[w].catalog)
        BY <2>1, <2>2 DEF ResolveInv, SnapshotsResolve, Buildable
      <3>2. step'[w] = "store" /\ draft'[w].retry = draft[w].retry
        BY <1>8, <2>2, <3>1, NextStatePolicy DEF LoadState
      <3> QED
        BY <1>1, <1>2, <1>3, <2>1, <2>2, <3>2 DEF ReloadEnds
    <2>3. CASE kind[w] # "reload"
      <3>1. \/ step'[w] = "idle"
            \/ /\ step'[w] \in {"store_catalog", "store"}
               /\ draft'[w].retry =
                    IF kind[w] = "catalog" THEN draft[w].retry ELSE state.retry
        <4>1. CASE kind[w] = "catalog" /\ ~Buildable(draft[w].catalog)
          BY <1>8, <4>1 DEF LoadState, GiveUp, Finish
        <4>2. CASE kind[w] = "catalog" /\ Buildable(draft[w].catalog)
          BY <1>8, <4>2, NextStatePolicy DEF LoadState
        <4>3. CASE kind[w] \in {"keys", "granted"}
          BY <1>8, <4>3, NextStatePolicy DEF LoadState
        <4> QED
          BY <1>2, <2>3, <4>1, <4>2, <4>3 DEF Kinds
      <3>2. watcher # "reload"
        BY <1>2, <2>3
      <3> QED
        BY <1>1, <1>2, <1>3, <2>1, <2>3, <3>1, <3>2 DEF ReloadEnds, Kinds
    <2> QED
      BY <2>2, <2>3
  <1>9. CASE StoreCell(w)
    <2>1. /\ UNCHANGED <<file, state, draft>> /\ step[w] = "store_catalog" /\ step'[w] = "store"
          /\ kind[w] = "catalog"
      BY <1>9 DEF StoreCell, StepsOfKind
    <2> QED
      BY <1>1, <1>2, <1>3, <2>1 DEF ReloadEnds
  <1>10. CASE StoreState(w)
    <2>1. /\ UNCHANGED file /\ step[w] = "store" /\ step'[w] = "idle"
          /\ state' = draft[w]
      BY <1>10 DEF StoreState, Finish
    <2> QED
      BY <1>1, <1>2, <1>3, <2>1 DEF Kinds
  <1> QED
    BY <1>1, <1>4, <1>5, <1>6, <1>7, <1>8, <1>9, <1>10 DEF Refresh

(* So does every other step.                                               *)
LEMMA PendingNext ==
  ASSUME Tasks = {Watcher}
  PROVE  TypeOK /\ ResolveInv /\ StepsOfKind /\ WatcherTypeOK /\ PendingInv
           /\ [HotNext]_hotVars => PendingInv'
  <1> SUFFICES ASSUME TypeOK, ResolveInv, StepsOfKind, WatcherTypeOK, PendingInv,
                      [HotNext]_hotVars
               PROVE  PendingInv'
    OBVIOUS
  <1> USE WatcherAssumption
  <1> USE DEF PendingInv, EditIsPending, DraftIsCovered, HoldsPolicy, ReloadBringsFile
  <1>1. ASSUME HotMutate(Watcher) PROVE PendingInv'
    <2>1. /\ step[Watcher] = "idle" /\ UNCHANGED <<file, state, draft, watcherVars>>
          /\ ~(step'[Watcher] \in {"catalog", "load", "store_catalog", "store"})
      BY <1>1
      DEF HotMutate, Mutate, CreateKey, RevokeKey, RevokeAgain, DisableUser,
          EnableUser, CreateGrant, CreateProvider, DeleteProvider, SetDeployments,
          CommitKeys, CommitCatalog, Commit, Goto, TypeOK
    <2>2. watcher # "reload"
      BY <2>1 DEF WatcherTypeOK
    <2> QED
      BY <2>1, <2>2 DEF watcherVars, ReloadIsDue
  <1>2. ASSUME PostReload(Watcher) PROVE PendingInv'
    <2>1. /\ step[Watcher] = "idle" /\ step'[Watcher] = "load_from_path"
          /\ UNCHANGED <<file, state, channel, watcher, unseen>>
      BY <1>2 DEF PostReload, StartReload, Goto, TypeOK
    <2> QED
      BY <2>1 DEF WatcherTypeOK, ReloadIsDue
  <1>3. CASE HotEditFile
    <2>1. unseen' \/ ReloadIsDue'
      <3>1. CASE Watching
        <4>1. Len(channel') \in 1 .. Len(channel') /\ channel'[Len(channel')] = "write"
          BY <1>3, <3>1, NotifiedType DEF HotEditFile, Notify, WatcherTypeOK, FileEvents
        <4> QED
          BY <4>1 DEF ReloadIsDue, EventTouchesConfig
      <3>2. CASE ~Watching
        BY <1>3, <3>2 DEF HotEditFile
      <3> QED
        BY <3>1, <3>2
    <2> QED
      BY <1>3, <2>1 DEF HotEditFile, EditFile
  <1>4. CASE SiblingChanges
    <2>1. UNCHANGED <<vars, watcher, unseen>> /\ channel' = Notified("sibling")
      BY <1>4 DEF SiblingChanges, Notify
    <2>2. ReloadIsDue => ReloadIsDue'
      BY <2>1, DueStaysDue DEF FileEvents
    <2> QED
      BY <2>1, <2>2 DEF vars
  <1>5. CASE HotRestart
    <2>1. state'.retry = file' /\ step'[Watcher] = "idle"
      BY <1>5
      DEF HotRestart, Restart, BootState, WithApiKeys, WithGranted, WithSpendCounter,
          FromParts
    <2> QED
      BY <2>1
  <1>6. CASE WatcherStops
    BY <1>6 DEF WatcherStops, vars, WatcherTypeOK
  <1>7. CASE StartWatching
    BY <1>7 DEF StartWatching, vars, ReloadIsDue
  <1>8. CASE Receive
    <2>1. /\ UNCHANGED <<vars, unseen>> /\ channel # <<>> /\ channel' = Tail(channel)
          /\ watcher = "recv"
          /\ watcher' = IF EventTouchesConfig(Head(channel)) THEN "quiet" ELSE "recv"
      BY <1>8 DEF Receive
    <2>2. ReloadIsDue => ReloadIsDue'
      <3> SUFFICES ASSUME ReloadIsDue, ~EventTouchesConfig(Head(channel)) PROVE ReloadIsDue'
        BY <2>1 DEF ReloadIsDue
      <3>1. PICK i \in 1 .. Len(channel) : EventTouchesConfig(channel[i])
        BY <2>1 DEF ReloadIsDue
      <3>2. i # 1
        BY <3>1, <2>1 DEF WatcherTypeOK
      <3>3. i - 1 \in 1 .. Len(channel') /\ channel'[i - 1] = channel[i]
        BY <2>1, <3>1, <3>2, HeadTailProperties DEF WatcherTypeOK
      <3> QED
        BY <3>1, <3>3 DEF ReloadIsDue, EventTouchesConfig
    <2> QED
      BY <2>1, <2>2 DEF vars
  <1>9. CASE Debounce
    BY <1>9 DEF Debounce, vars, ReloadIsDue
  <1>10. CASE QuietElapses
    <2>1. /\ watcher' = "reload" /\ step'[Watcher] = "load_from_path"
          /\ UNCHANGED <<file, state, unseen>>
      BY <1>10 DEF QuietElapses, StartReload, Goto, TypeOK
    <2> QED
      BY <2>1
  <1>11. CASE UNCHANGED hotVars
    BY <1>11 DEF hotVars, vars, watcherVars, ReloadIsDue
  <1> QED
    BY <1>1, <1>2, <1>3, <1>4, <1>5, <1>6, <1>7, <1>8, <1>9, <1>10, <1>11,
       PendingRefresh
    DEF HotNext, WatcherThread

(* With handlers and watcher taking turns, an edit the watcher was told of *)
(* is either served or still on its way (reload.rs:236-265).               *)
THEOREM NoEditIsForgotten ==
  ASSUME Tasks = {Watcher}
  PROVE  HotSpec => []EditIsPending
  <1>1. HotInit => PendingInv
    BY WatcherAssumption
    DEF HotInit, Init, PendingInv, EditIsPending, DraftIsCovered, HoldsPolicy,
        BootState, WithApiKeys, WithGranted, WithSpendCounter, FromParts
  <1>2. TypeOK /\ ResolveInv /\ StepsOfKind /\ AloneInv /\ [HotNext]_hotVars
          => (TypeOK /\ ResolveInv /\ AloneInv)'
    BY HotStep, TypeNext, ResolveNext, AloneNext
  <1>3. AloneInv => StepsOfKind
    BY DEF AloneInv
  <1>4. PendingInv => EditIsPending
    BY DEF PendingInv
  <1>5. HotInit => TypeOK /\ ResolveInv /\ AloneInv
    BY TypeInit, ResolveInit, AloneInit DEF HotInit
  <1> QED
    BY <1>1, <1>2, <1>3, <1>4, <1>5, PendingNext, WatcherTypeCorrect, PTL DEF HotSpec
=============================================================================
