---------------------------- MODULE MCHotReload ----------------------------
(* One user; the handlers and the watcher take turns. *)
EXTENDS HotReload

CONSTANTS u1, t1

OneOwner == [k \in Keys |-> u1]
=============================================================================
