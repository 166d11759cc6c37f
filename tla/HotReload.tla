----------------------------- MODULE HotReload -----------------------------
(***************************************************************************)
(* The config watcher (reload.rs) composed with the snapshot it reloads.   *)
(* A thread receives the file system's events about the directory of the   *)
(* config file, waits for a burst of them to go quiet, and reloads.  The   *)
(* reload reads the file, which is an event of the same directory.         *)
(*                                                                         *)
(* The watcher's reload runs as task Watcher of SharedGatewayState: as one *)
(* more task it runs beside the handlers, and as the only task it takes    *)
(* turns with them.                                                        *)
(***************************************************************************)
EXTENDS SharedGatewayState, Sequences

CONSTANTS
  Watcher,    \* the task that runs the watcher's reloads
  MaxExtras   \* bound: POST /reload requests and changes of sibling files

ASSUME WatcherAssumption == Watcher \in Tasks
ASSUME MaxExtrasAssumption == MaxExtras \in Nat

VARIABLES
  channel,    \* events sent and not yet received
  watcher,    \* where the config-watcher thread is
  unseen,     \* the last edit of the file is one no event will be handled for
  extras

watcherVars == <<channel, watcher, unseen, extras>>
hotVars == <<vars, watcherVars>>

-----------------------------------------------------------------------------
(* Events: the config file was changed or read, or a sibling was changed.  *)
FileEvents == {"write", "read", "sibling"}

EventTouchesConfigOnReads(event) == event \in {"write", "read"}
EventTouchesConfig(event) == event = "write"

(* Directory events reach the channel once the directory is watched.       *)
Watching == watcher \in {"recv", "quiet", "reload"}
Notified(event) == IF Watching THEN Append(channel, event) ELSE channel
Notify(event) == channel' = Notified(event)

HotInit ==
  /\ Init
  /\ channel = <<>>
  /\ watcher = "starting"
  /\ unseen = FALSE
  /\ extras = 0

-----------------------------------------------------------------------------
(* The gateway's own steps, and what the directory says of them.           *)

HotMutate(t) == Mutate(t) /\ UNCHANGED watcherVars

Extra == extras < MaxExtras /\ extras' = extras + 1

PostReload(t) ==
  /\ Extra
  /\ StartReload(t)
  /\ UNCHANGED <<channel, watcher, unseen>>

(* The thread goes back to recv when the reload it runs ended, well or not.*)
ReloadEnds(t) == t = Watcher /\ watcher = "reload" /\ step'[t] = "idle"

HotRefreshDraining(t) ==
  /\ Refresh(t)
  /\ channel' = IF ReloadEnds(t) THEN <<>>
                ELSE IF step[t] = "load_from_path" THEN Notified("read")
                ELSE channel
  /\ watcher' = IF ReloadEnds(t) THEN "recv" ELSE watcher
  /\ UNCHANGED <<unseen, extras>>
HotRefresh(t) ==
  /\ Refresh(t)
  /\ channel' = IF step[t] = "load_from_path" THEN Notified("read") ELSE channel
  /\ watcher' = IF ReloadEnds(t) THEN "recv" ELSE watcher
  /\ UNCHANGED <<unseen, extras>>

HotEditFile ==
  /\ EditFile
  /\ Notify("write")
  /\ unseen' = ~Watching
  /\ UNCHANGED <<watcher, extras>>

SiblingChanges ==
  /\ Extra
  /\ Watching
  /\ Notify("sibling")
  /\ UNCHANGED <<vars, watcher, unseen>>

(* Boot reads the file long before it spawns the watcher.                  *)
HotRestart ==
  /\ Restart
  /\ channel' = <<>>
  /\ watcher' = "starting"
  /\ unseen' = FALSE
  /\ UNCHANGED extras

-----------------------------------------------------------------------------
(* The config-watcher thread.                                              *)

StartWatching ==
  /\ watcher = "starting"
  /\ watcher' = "recv"
  /\ UNCHANGED <<vars, channel, unseen, extras>>

(* An event about the config file is queued or waits for the window.       *)
ReloadIsDue ==
  watcher = "quiet" \/ \E i \in 1 .. Len(channel) : EventTouchesConfig(channel[i])

(* The directory cannot be watched, or the channel closes: the thread ends *)
(* and the gateway goes on without it.                                     *)
WatcherStops ==
  /\ watcher \in {"starting", "recv", "quiet"}
  /\ watcher' = "stopped"
  /\ channel' = <<>>
  /\ unseen' = (unseen \/ ReloadIsDue)
  /\ UNCHANGED <<vars, extras>>

Receive ==
  /\ watcher = "recv"
  /\ channel # <<>>
  /\ channel' = Tail(channel)
  /\ watcher' = IF EventTouchesConfig(Head(channel)) THEN "quiet" ELSE "recv"
  /\ UNCHANGED <<vars, unseen, extras>>

(* Any event at all starts the window again.                               *)
Debounce ==
  /\ watcher = "quiet"
  /\ channel # <<>>
  /\ channel' = Tail(channel)
  /\ UNCHANGED <<vars, watcher, unseen, extras>>

(* recv_timeout gives up only on an empty channel.                         *)
QuietElapses ==
  /\ watcher = "quiet"
  /\ channel = <<>>
  /\ StartReload(Watcher)
  /\ watcher' = "reload"
  /\ UNCHANGED <<channel, unseen, extras>>

WatcherThread == StartWatching \/ Receive \/ Debounce \/ QuietElapses

-----------------------------------------------------------------------------
HotNext ==
  \/ \E t \in Tasks : HotMutate(t) \/ PostReload(t) \/ HotRefresh(t)
  \/ HotEditFile
  \/ SiblingChanges
  \/ HotRestart
  \/ WatcherStops
  \/ WatcherThread

HotSpec == HotInit /\ [][HotNext]_hotVars

(* The thread is scheduled, recv and recv_timeout return once there is an  *)
(* event or the window is over, and the handlers are polled.  As the only  *)
(* task, the watcher gets its turn between handlers.                       *)
HotFairSpec ==
  /\ HotSpec
  /\ WF_hotVars(WatcherThread)
  /\ \A t \in Tasks : WF_hotVars(HotRefresh(t))

-----------------------------------------------------------------------------
(* Properties.                                                             *)

(* The watcher runs a reload exactly while its task does.                  *)
WatcherTypeOK ==
  /\ channel \in Seq(FileEvents)
  /\ watcher \in {"starting", "recv", "quiet", "reload", "stopped"}
  /\ unseen \in BOOLEAN
  /\ extras \in 0 .. MaxExtras
  /\ watcher = "reload" => kind[Watcher] = "reload" /\ step[Watcher] # "idle"

(* No edit is forgotten (config-hot-reload/spec.md:63): while a valid file *)
(* differs from what is served, there is an event of it still to be        *)
(* handled, or the reload it led to has yet to read the file or holds what *)
(* it read.  It needs handlers and watcher to take turns: a catalog        *)
(* refresh that read the file before an edit may store after the watcher's *)
(* reload of it (reload.rs:117-134).                                       *)
ReloadBringsFile ==
  /\ watcher = "reload"
  /\ step[Watcher] = "load_from_path" \/ draft[Watcher].retry = file
EditIsPending ==
  file = Invalid \/ state.retry = file \/ unseen \/ ReloadIsDue \/ ReloadBringsFile

(* The watcher reloads when the file changes                               *)
(* (config-hot-reload/spec.md:63): when the outside has come to rest, the  *)
(* policy of a valid file is the one that is served, whatever was edited,  *)
(* refreshed or reloaded meanwhile, unless the last edit came before the   *)
(* directory was watched or after the watcher had stopped.                 *)
EditIsLoaded == <>[](file # Invalid => state.retry = file \/ unseen)

(* A reload reads the file it is triggered by; the watcher does not react  *)
(* to that read, and comes to rest on an empty channel                     *)
(* (event_touches_config, reload.rs:268-288).                              *)
ReloadsCease == <>[](watcher = "stopped" \/ (watcher = "recv" /\ channel = <<>>))
=============================================================================
