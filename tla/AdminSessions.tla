---------------------------- MODULE AdminSessions ----------------------------
(***************************************************************************)
(* The console's sessions and login lockout (admin/session.rs) with the    *)
(* handlers that drive them: login and logout (admin/mod.rs), and the      *)
(* disable, enable and password reset of a user (admin/account_api.rs).    *)
(* Both stores are modelled: process memory, where a call is one critical  *)
(* section, and Redis, where a call is one or two round trips, any of      *)
(* which may fail, and a session is found again through the index of its   *)
(* user.                                                                   *)
(*                                                                         *)
(* A password is reduced to whether it matches.  A token whose session is  *)
(* gone and that nothing refers to stands for a fresh one.  Time is the    *)
(* choice of when a TTL or a lockout window ends.  A session whose cookie  *)
(* was never sent, since the answer to its write was lost, has no holder   *)
(* and is left out.  MaxEvents bounds failed commands, hang-ups and        *)
(* restarts.                                                               *)
(***************************************************************************)
EXTENDS Integers, FiniteSetsExt

CONSTANTS
  Users,
  Names,        \* the usernames logins carry, whether or not a user has it
  Logins,       \* the login requests in flight
  Handlers,     \* the user-management requests in flight
  Tokens,
  Nobody,
  Threshold,    \* LOCKOUT_THRESHOLD
  MaxEntries,   \* LOCKOUT_MAX_ENTRIES
  MaxEvents

ASSUME NameAssumption == Users \subseteq Names /\ IsFiniteSet(Names)
ASSUME LoginAssumption == IsFiniteSet(Logins)
ASSUME NobodyAssumption == Nobody \notin Users
ASSUME LimitAssumption == Threshold \in Nat \ {0} /\ MaxEntries \in Nat /\ MaxEvents \in Nat

VARIABLES
  backend,     \* which SessionStore the process was started with
  active,      \* users.status
  sessions,    \* the user of a live session
  index,       \* session_user:{user}
  entries,     \* the names the LoginLimiter has an entry for
  fails,       \* consecutive_failures, lockout_fails:{name}
  locked,      \* locked_until lies ahead, lockout:{name} exists
  login, handler,
  overlap,     \* history: how a session's login overlapped an invalidation
  missed,      \* history: users with an invalidation that was given up, and
               \* whose sessions no other has looked up since
  failures,    \* history: failures counted since the name last started over
  events

limiterVars == <<entries, fails, locked, failures>>
sessionVars == <<sessions, index, overlap>>
vars == <<backend, active, sessionVars, limiterVars, login, handler, missed, events>>

-----------------------------------------------------------------------------
Memory == backend = "memory"
Redis == backend = "redis"

Live(u) == {tok \in Tokens : sessions[tok] = u}
Unused == {tok \in Tokens : /\ sessions[tok] = Nobody
                            /\ \A u \in Users : tok \notin index[u]
                            /\ \A h \in Handlers : tok \notin handler[h].found}

IdleLogin == [step |-> "idle", name |-> Nobody, late |-> FALSE]
Resting == [step |-> "idle", user |-> Nobody, found |-> {}]

Init ==
  /\ backend \in {"memory", "redis"}
  /\ active = [u \in Users |-> TRUE]
  /\ sessions = [tok \in Tokens |-> Nobody]
  /\ index = [u \in Users |-> {}]
  /\ entries = {}
  /\ fails = [n \in Names |-> 0]
  /\ locked = {}
  /\ login = [t \in Logins |-> IdleLogin]
  /\ handler = [h \in Handlers |-> Resting]
  /\ overlap = [tok \in Tokens |-> "none"]
  /\ missed = {}
  /\ failures = [n \in Names |-> 0]
  /\ events = 0

Event == events < MaxEvents /\ events' = events + 1
NoEvent == UNCHANGED events
Goto(t, step) == login' = [login EXCEPT ![t].step = step]
EndLogin(t) == login' = [login EXCEPT ![t] = IdleLogin]

-----------------------------------------------------------------------------
(* The lockout.                                                            *)

(* LoginLimiter::register_failure.  A full map first drops the entries     *)
(* that neither lock nor count; if that frees nothing a new name goes      *)
(* uncounted.                                                              *)
Kept(n) ==
  IF Cardinality(entries) >= MaxEntries /\ n \notin entries
  THEN {m \in entries : m \in locked \/ fails[m] > 0}
  ELSE entries

HasRoomForOneMore(n) == n \in Kept(n) \/ Cardinality(Kept(n)) <= MaxEntries
HasRoom(n) == n \in Kept(n) \/ Cardinality(Kept(n)) < MaxEntries
ReachesThresholdLate(n) == fails[n] + 1 > Threshold
ReachesThreshold(n) == fails[n] + 1 >= Threshold

CountInMemory(n) ==
  /\ IF HasRoom(n)
     THEN /\ entries' = Kept(n) \cup {n}
          /\ failures' = [failures EXCEPT ![n] = @ + 1]
          /\ IF ReachesThreshold(n)
             THEN locked' = locked \cup {n} /\ fails' = [fails EXCEPT ![n] = 0]
             ELSE fails' = [fails EXCEPT ![n] = @ + 1] /\ UNCHANGED locked
     ELSE /\ entries' = Kept(n)
          /\ UNCHANGED <<fails, locked, failures>>

(* Its Redis form: INCR, and at the threshold a second pipeline.           *)
CountInRedis(t, n) ==
  /\ fails' = [fails EXCEPT ![n] = @ + 1]
  /\ failures' = [failures EXCEPT ![n] = @ + 1]
  /\ IF ReachesThreshold(n) THEN Goto(t, "lock") ELSE EndLogin(t)
  /\ UNCHANGED <<entries, locked>>

LockInRedis(n) ==
  /\ locked' = locked \cup {n}
  /\ fails' = [fails EXCEPT ![n] = 0]
  /\ UNCHANGED <<entries, failures>>

(* LoginLimiter::reset; the two DELs in Redis.                             *)
Forget(n) ==
  /\ entries' = entries \ {n}
  /\ fails' = [fails EXCEPT ![n] = 0]
  /\ locked' = locked \ {n}
  /\ failures' = [failures EXCEPT ![n] = 0]

-----------------------------------------------------------------------------
(* login.                                                                  *)

(* is_locked: an unanswered EXISTS counts as not locked.                   *)
StartLogin(t, n) ==
  /\ login[t].step = "idle"
  /\ login' = [login EXCEPT ![t] = [IdleLogin EXCEPT !.step = "find", !.name = n]]
  /\ IF n \in locked THEN Redis /\ Event ELSE NoEvent
  /\ UNCHANGED <<backend, active, sessionVars, limiterVars, handler, missed>>

(* find_user_by_username and the verification of what it returned.         *)
FindUserOfAnyStatus(t) ==
  /\ login[t].step = "find"
  /\ Goto(t, IF login[t].name \in Users THEN "clear" ELSE "fail")
  /\ UNCHANGED <<backend, active, sessionVars, limiterVars, handler, missed, events>>

FindUser(t) ==
  LET n == login[t].name IN
  /\ login[t].step = "find"
  /\ \/ n \in Users /\ active[n] /\ Goto(t, "clear")
     \/ Goto(t, "fail")
     \/ EndLogin(t)   \* the lookup failed: 500
  /\ UNCHANGED <<backend, active, sessionVars, limiterVars, handler, missed, events>>

RegisterFailure(t) ==
  LET n == login[t].name IN
  /\ login[t].step = "fail"
  /\ \/ Memory /\ CountInMemory(n) /\ EndLogin(t) /\ NoEvent
     \/ Redis /\ CountInRedis(t, n) /\ NoEvent
     \/ Redis /\ Event /\ EndLogin(t) /\ UNCHANGED limiterVars
  /\ UNCHANGED <<backend, active, sessionVars, handler, missed>>

(* A lock that is not written is left to the next failure: the counter     *)
(* stays at the threshold.                                                 *)
Lock(t) ==
  /\ login[t].step = "lock"
  /\ \/ LockInRedis(login[t].name) /\ NoEvent
     \/ Event /\ UNCHANGED limiterVars
  /\ EndLogin(t)
  /\ UNCHANGED <<backend, active, sessionVars, handler, missed>>

ClearFailures(t) ==
  /\ login[t].step = "clear"
  /\ \/ Forget(login[t].name) /\ NoEvent
     \/ Redis /\ Event /\ UNCHANGED limiterVars
  /\ Goto(t, "open")
  /\ UNCHANGED <<backend, active, sessionVars, handler, missed>>

(* SessionStore::open.  The index entry a session is opened with is lost   *)
(* if an invalidation has read the index but not yet deleted it.           *)
BetweenReadAndDelete(u) ==
  \E h \in Handlers : handler[h].step = "delete" /\ handler[h].user = u

Store(tok, u) ==
  /\ sessions' = [sessions EXCEPT ![tok] = u]
  /\ index' = IF Redis THEN [index EXCEPT ![u] = @ \cup {tok}] ELSE index

Open(t) ==
  LET u == login[t].name IN
  /\ login[t].step = "open"
  /\ \/ \E tok \in Unused :
          /\ Store(tok, u)
          /\ overlap' = [overlap EXCEPT ![tok] = IF BetweenReadAndDelete(u) THEN "crossed"
                                                 ELSE IF login[t].late THEN "late"
                                                 ELSE "none"]
          /\ NoEvent
     \/ Redis /\ Event /\ UNCHANGED sessionVars
  /\ EndLogin(t)
  /\ UNCHANGED <<backend, active, limiterVars, handler, missed>>

(* The client hangs up, and the handler is dropped where it awaits.  In    *)
(* memory it awaits nothing but the user lookup.                           *)
HangUp(t) ==
  /\ login[t].step \in (IF Memory THEN {"find"} ELSE {"find", "fail", "lock", "clear", "open"})
  /\ Event
  /\ EndLogin(t)
  /\ UNCHANGED <<backend, active, sessionVars, limiterVars, handler, missed>>

-----------------------------------------------------------------------------
(* Sessions that end one at a time.                                        *)

Close(gone) ==
  /\ sessions' = [tok \in Tokens |-> IF tok \in gone THEN Nobody ELSE sessions[tok]]
  /\ overlap' = [tok \in Tokens |-> IF tok \in gone THEN "none" ELSE overlap[tok]]

(* logout: the DEL of a session, and SREM when its GET found the user.     *)
Logout(tok) ==
  /\ sessions[tok] /= Nobody
  /\ Close({tok})
  /\ \/ index' = [index EXCEPT ![sessions[tok]] = @ \ {tok}] /\ NoEvent
     \/ Redis /\ Event /\ UNCHANGED index
  /\ UNCHANGED <<backend, active, limiterVars, login, handler, missed>>

(* A session reaches its TTL.                                              *)
Expire(tok) ==
  /\ sessions[tok] /= Nobody
  /\ Close({tok})
  /\ UNCHANGED <<backend, active, index, limiterVars, login, handler, missed, events>>

(* The index, whose TTL every open renews, outlives the sessions in it.    *)
ExpireIndexEarly(u) ==
  /\ index[u] /= {}
  /\ index' = [index EXCEPT ![u] = {}]
  /\ UNCHANGED <<backend, active, sessions, overlap, limiterVars, login, handler, missed, events>>

ExpireIndex(u) ==
  /\ index[u] /= {} /\ index[u] \cap Live(u) = {}
  /\ index' = [index EXCEPT ![u] = {}]
  /\ UNCHANGED <<backend, active, sessions, overlap, limiterVars, login, handler, missed, events>>

(* The lockout window ends.  Redis forgets a count after the same window.  *)
EndWindow(n) ==
  /\ \/ n \in locked /\ locked' = locked \ {n} /\ UNCHANGED fails
     \/ Redis /\ fails[n] > 0 /\ fails' = [fails EXCEPT ![n] = 0] /\ UNCHANGED locked
  /\ failures' = [failures EXCEPT ![n] = 0]
  /\ UNCHANGED <<backend, active, sessionVars, entries, login, handler, missed, events>>

-----------------------------------------------------------------------------
(* The user-management handlers.  Both invalidations commit to the         *)
(* database first.                                                         *)

StartInvalidation(h, u) ==
  /\ handler[h].step = "idle"
  /\ handler' = [handler EXCEPT ![h] = [step |-> "drop", user |-> u, found |-> {}]]
  /\ UNCHANGED <<backend, sessionVars, limiterVars, login, missed, events>>

DisableUser(h, u) ==
  /\ StartInvalidation(h, u)
  /\ active' = [active EXCEPT ![u] = FALSE]

ResetPassword(h, u) ==
  /\ StartInvalidation(h, u)
  /\ UNCHANGED active

EnableUser(u) ==
  /\ active' = [active EXCEPT ![u] = TRUE]
  /\ UNCHANGED <<backend, sessionVars, limiterVars, login, handler, missed, events>>

(* The logins of a user that verified before its sessions are looked up.   *)
MarkLate(u) ==
  login' = [t \in Logins |->
              IF login[t].name = u /\ login[t].step \in {"clear", "open"}
              THEN [login[t] EXCEPT !.late = TRUE] ELSE login[t]]

Rest(h) == handler' = [handler EXCEPT ![h] = Resting]

(* remove_user of the store in memory.                                     *)
DropSessions(h) ==
  LET u == handler[h].user IN
  /\ Memory /\ handler[h].step = "drop"
  /\ Close(Live(u))
  /\ MarkLate(u)
  /\ Rest(h)
  /\ missed' = missed \ {u}
  /\ UNCHANGED <<backend, active, index, limiterVars, events>>

(* remove_user of the Redis store: SMEMBERS, then the pipeline of DELs.    *)
ReadIndex(h) ==
  LET u == handler[h].user IN
  /\ Redis /\ handler[h].step = "drop"
  /\ handler' = [handler EXCEPT ![h].step = "delete", ![h].found = index[u]]
  /\ MarkLate(u)
  /\ missed' = missed \ {u}
  /\ UNCHANGED <<backend, active, sessionVars, limiterVars, events>>

DeleteFound(h) ==
  /\ handler[h].step = "delete"
  /\ Close(handler[h].found)
  /\ index' = [index EXCEPT ![handler[h].user] = {}]
  /\ Rest(h)
  /\ UNCHANGED <<backend, active, limiterVars, login, missed, events>>

(* A command fails, which is only logged, or the client hangs up: of the   *)
(* DELs any may have been executed.                                        *)
GiveUp(h) ==
  /\ handler[h].step /= "idle"
  /\ Event
  /\ \E gone \in SUBSET handler[h].found : Close(gone)
  /\ Rest(h)
  /\ missed' = missed \cup {handler[h].user}
  /\ UNCHANGED <<backend, active, index, limiterVars, login>>

(* The process restarts: memory is lost, and so are the handlers.          *)
Restart ==
  /\ Event
  /\ login' = [t \in Logins |-> IdleLogin]
  /\ handler' = [h \in Handlers |-> Resting]
  /\ missed' = missed \cup {u \in Users : \E h \in Handlers : handler[h].user = u}
  /\ IF Memory
     THEN /\ Close(Tokens)
          /\ entries' = {} /\ locked' = {}
          /\ fails' = [n \in Names |-> 0]
          /\ failures' = [n \in Names |-> 0]
     ELSE /\ failures' = [n \in Names |-> IF fails[n] >= Threshold THEN 0 ELSE failures[n]]
          /\ UNCHANGED <<sessions, overlap, entries, fails, locked>>
  /\ UNCHANGED <<backend, active, index>>

-----------------------------------------------------------------------------
LoginStep(t) ==
  \/ \E n \in Names : StartLogin(t, n)
  \/ FindUser(t) \/ RegisterFailure(t) \/ Lock(t) \/ ClearFailures(t) \/ Open(t) \/ HangUp(t)

HandlerStep(h) ==
  \/ \E u \in Users : DisableUser(h, u) \/ ResetPassword(h, u)
  \/ DropSessions(h) \/ ReadIndex(h) \/ DeleteFound(h) \/ GiveUp(h)

Next ==
  \/ \E t \in Logins : LoginStep(t)
  \/ \E h \in Handlers : HandlerStep(h)
  \/ \E tok \in Tokens : Logout(tok) \/ Expire(tok)
  \/ \E u \in Users : EnableUser(u) \/ ExpireIndex(u)
  \/ \E n \in Names : EndWindow(n)
  \/ Restart

Spec == Init /\ [][Next]_vars

-----------------------------------------------------------------------------
(* Properties.                                                             *)

(* Every variable has its type; the limiter never tracks more names than   *)
(* its cap (session.rs:181-192).                                           *)
TypeOK ==
  /\ backend \in {"memory", "redis"}
  /\ active \in [Users -> BOOLEAN]
  /\ sessions \in [Tokens -> Users \cup {Nobody}]
  /\ index \in [Users -> SUBSET Tokens]
  /\ entries \subseteq Names /\ Cardinality(entries) <= MaxEntries
  /\ fails \in [Names -> Nat]
  /\ locked \subseteq Names
  /\ login \in [Logins -> [step : {"idle", "find", "fail", "lock", "clear", "open"},
                           name : Names \cup {Nobody}, late : BOOLEAN]]
  /\ handler \in [Handlers -> [step : {"idle", "drop", "delete"},
                               user : Users \cup {Nobody}, found : SUBSET Tokens]]
  /\ overlap \in [Tokens -> {"none", "late", "crossed"}]
  /\ missed \subseteq Users
  /\ failures \in [Names -> Nat]
  /\ events \in 0 .. MaxEvents

(* session.rs:213 "Per-user token index so disabling a user can find all   *)
(* their sessions": in Redis a live session is in the index of its user,   *)
(* whatever logins, logouts, expiries and half-done invalidations ran,     *)
(* unless it was opened while remove_user was between its SMEMBERS and its *)
(* DEL of the index.                                                       *)
IndexFindsSessions ==
  Redis => \A tok \in Tokens :
    sessions[tok] \in Users => tok \in index[sessions[tok]] \/ overlap[tok] = "crossed"

Invalidating(u) == \E h \in Handlers : handler[h].user = u

(* Once a disable has run to its end, a session of the disabled user that  *)
(* still lives belongs to a login that overlapped an invalidation: it had  *)
(* verified the password before the sessions were dropped, or its index    *)
(* entry was lost.  No other order of logins, logouts, re-enabling and     *)
(* concurrent invalidations leaves one.                                    *)
SignedOutUnlessOverlapping ==
  \A u \in Users : ~active[u] /\ ~Invalidating(u) /\ u \notin missed
    => \A tok \in Live(u) : overlap[tok] /= "none"

(* The lockout of LOCKOUT_THRESHOLD consecutive failures under concurrent  *)
(* logins: before a name locks, no more failures are counted for it than   *)
(* the threshold, one for each other login already past its check, and one *)
(* for each command that failed (an unanswered check, a lock not written). *)
(* The failure a full map refuses is not counted.                          *)
LockoutBoundsFailures ==
  \A n \in Names : failures[n] <= Threshold + Cardinality(Logins) - 1 + events

(* user-accounts/spec.md:53 "the user's sessions MUST become invalid", and *)
(* account_api.rs:125 "Sessions die immediately": a disabled user whose    *)
(* invalidation completed has no session.                                  *)
DisabledUserIsSignedOut ==
  \A u \in Users : ~active[u] /\ ~Invalidating(u) /\ u \notin missed => Live(u) = {}
=============================================================================
