------------------------------- MODULE Accounts -------------------------------
(***************************************************************************)
(* The account tables while the gateway serves (account/store.rs,          *)
(* admin/account_api.rs): requests of the console create users, disable    *)
(* and enable them, reset or change passwords, create, limit and revoke    *)
(* keys.  A request is one query after another, so requests interleave     *)
(* between the row a handler found and the columns it updates; any query   *)
(* may fail and any client hang up, which ends the request there.          *)
(*                                                                         *)
(* A user is signed in or not, "late" if what keeps it signed in survived  *)
(* a disable: AdminSessions models the sessions themselves, in either      *)
(* store.  The refresh a handler ends with is SharedGatewayState's.        *)
(* MaxRequests bounds the requests, logins aside.                          *)
(***************************************************************************)
EXTENDS AccountBoot

CONSTANTS
  Tasks,      \* the requests in flight
  MaxRequests

ASSUME RequestsAssumption == MaxRequests \in Nat

VARIABLES
  requests,   \* the requests that ever began, logins aside
  sessions,   \* how a user is signed in: "none", "live" or "late"
  task,
  crossed     \* history: a disable was carried out for somebody who was
              \* disabled, by a request or session that overlapped that

vars == <<bootVars, requests, sessions, task, crossed>>
accountVars == <<file, schema, recorded, boot, config, at, draft>>

ManagingUsers == {"create user", "disable", "enable", "reset"}
OnKeys == {"limit", "revoke"}
Operations == ManagingUsers \cup OnKeys \cup {"change", "create key"}

Idle == [step |-> "idle", op |-> "none", by |-> Nobody, late |-> FALSE,
         on |-> Nobody, row |-> NoUser, set |-> <<>>]

Init ==
  /\ BootInit
  /\ requests = 0
  /\ sessions = [u \in Names |-> "none"]
  /\ task = [t \in Tasks |-> Idle]
  /\ crossed = FALSE

NewRequest == requests < MaxRequests /\ requests' = requests + 1
Goto(t, step) == task' = [task EXCEPT ![t].step = step]
Done(t) == task' = [task EXCEPT ![t] = Idle]

-----------------------------------------------------------------------------
(* The requests as require_session, require_admin and the checks that need *)
(* no query let them in.  The role is the session's; a row's never changes.*)

(* The columns an operation sets on the row it is about.                   *)
Sets(op) ==
  CASE op = "create user" -> [password: Passwords, phc: {TRUE}, role: {"admin", "user"},
                              status: {"active"}]
    [] op = "disable" -> [status: {"disabled"}]
    [] op = "enable" -> [status: {"active"}]
    [] op \in {"reset", "change"} -> [password: Passwords, phc: {TRUE}]
    [] op = "limit" -> [limits: Limits]
    [] op = "revoke" -> [status: {"revoked"}]
    [] OTHER -> {<<>>}

Targets(op, u) ==
  CASE op = "create user" -> Names
    [] op = "disable" -> {v \in Names : users[v] # NoUser} \ {u}
    [] op \in {"enable", "reset"} -> {v \in Names : users[v] # NoUser}
    [] op = "change" -> {u}
    [] op \in OnKeys -> {k \in Keys : keys[k] # NoKey}
    \* generate_api_key repeats no key.
    [] op = "create key" ->
         {k \in Keys : /\ keys[k] = NoKey /\ \A q \in Tasks : task[q].on # k
                        /\ \A f \in Files : k \notin ToSet(f.gateway_keys)}

FirstStep(op) ==
  CASE op \in {"disable", "enable", "reset"} -> "find"
    [] op = "change" -> "verify"
    [] op \in OnKeys -> "check"
    [] OTHER -> "insert"

Begin(t) ==
  /\ boot = "up" /\ task[t].step = "idle" /\ NewRequest
  /\ \E u \in Names, op \in Operations :
       /\ sessions[u] # "none"
       /\ op \in ManagingUsers => users[u].role = "admin"
       /\ \E on \in Targets(op, u), set \in Sets(op) :
            task' = [task EXCEPT ![t] =
              [step |-> FirstStep(op), op |-> op, by |-> u, late |-> sessions[u] = "late",
               on |-> on, row |-> NoUser, set |-> set]]
  /\ UNCHANGED <<bootVars, sessions, crossed>>

-----------------------------------------------------------------------------
(* The rows of users and keys.                                             *)

Row(x) == IF x \in Names THEN users[x] ELSE keys[x]

(* ActiveModel::update writes the columns that are Set, not those it read. *)
UpdatedAsRead(row, read, set) ==
  [c \in DOMAIN row |-> IF c \in DOMAIN set THEN set[c] ELSE read[c]]
Updated(row, read, set) ==
  [c \in DOMAIN row |-> IF c \in DOMAIN set THEN set[c] ELSE row[c]]

(* find_by_id of set_user_status, set_password_hash, revoke_key and        *)
(* set_key_limits; no row is ever deleted.                                 *)
FindRow(t) ==
  /\ task[t].step = "find"
  /\ task' = [task EXCEPT ![t].step = "update", ![t].row = Row(task[t].on)]
  /\ UNCHANGED <<bootVars, requests, sessions, crossed>>

(* A disable whose author was disabled meanwhile.                          *)
Invalidating(u) ==
  \E t \in Tasks : task[t].step = "drop" /\ task[t].op = "disable" /\ task[t].on = u
Crosses(t) ==
  /\ task[t].op = "disable"
  /\ users[task[t].by].status = "disabled"
  /\ task[t].late \/ Invalidating(task[t].by)

UpdateUserKeepingSessions(t) ==
  LET u == task[t].on IN
  /\ task[t].step = "update" /\ u \in Names
  /\ users' = [users EXCEPT ![u] = Updated(@, task[t].row, task[t].set)]
  /\ crossed' = (crossed \/ Crosses(t))
  /\ Done(t)
  /\ UNCHANGED <<accountVars, requests, keys, sessions, events>>
UpdateUser(t) ==
  LET u == task[t].on IN
  /\ task[t].step = "update" /\ u \in Names
  /\ users' = [users EXCEPT ![u] = Updated(@, task[t].row, task[t].set)]
  /\ crossed' = (crossed \/ Crosses(t))
  /\ IF task[t].op \in {"disable", "reset"} THEN Goto(t, "drop") ELSE Done(t)
  /\ UNCHANGED <<accountVars, requests, keys, sessions, events>>

UpdateKey(t) ==
  LET k == task[t].on IN
  /\ task[t].step = "update" /\ k \in Keys
  /\ keys' = [keys EXCEPT ![k] = Updated(@, task[t].row, task[t].set)]
  /\ Done(t)
  /\ UNCHANGED <<accountVars, requests, users, sessions, crossed, events>>

-----------------------------------------------------------------------------
(* create_user: the username is looked up, then inserted, and is UNIQUE,   *)
(* so of two requests past the lookup one is told of the conflict.         *)
InsertUser(t) ==
  LET u == task[t].on IN
  /\ task[t].step = "insert" /\ task[t].op = "create user"
  /\ users' = IF users[u] = NoUser THEN [users EXCEPT ![u] = task[t].set] ELSE users
  /\ Done(t)
  /\ UNCHANGED <<accountVars, requests, keys, sessions, crossed, events>>

(* create_key; owned by the session's user, disabled meanwhile or not.     *)
InsertKey(t) ==
  LET k == task[t].on IN
  /\ task[t].step = "insert" /\ task[t].op = "create key"
  /\ keys[k] = NoKey
  /\ \E limits \in Limits :
       keys' = [keys EXCEPT ![k] =
                  [owner |-> task[t].by, status |-> "active", limits |-> limits]]
  /\ Done(t)
  /\ UNCHANGED <<accountVars, requests, users, sessions, crossed, events>>

(* change_own_password: get_user, and the current password verifies or not.*)
VerifyCurrent(t) ==
  /\ task[t].step = "verify"
  /\ Goto(t, "find") \/ Done(t)
  /\ UNCHANGED <<bootVars, requests, sessions, crossed>>

(* update_key and revoke_key: get_key, and whether it is the caller's.     *)
MayManage(u, key) == users[u].role = "admin" \/ key.owner = u

CheckKey(t) ==
  LET key == keys[task[t].on] IN
  /\ task[t].step = "check"
  /\ IF /\ MayManage(task[t].by, key)
        /\ task[t].op = "revoke" => key.status = "active"
       THEN Goto(t, "find") ELSE Done(t)
  /\ UNCHANGED <<bootVars, requests, sessions, crossed>>

-----------------------------------------------------------------------------
(* Signing in and out.                                                     *)

(* login: an active user, whose password may match; then open.             *)
Login(t) ==
  /\ boot = "up" /\ task[t].step = "idle"
  /\ \E u \in Names :
       /\ users[u].status = "active"
       /\ task' = [task EXCEPT ![t] = [Idle EXCEPT !.step = "open", !.op = "login",
                                                   !.by = u, !.on = u]]
  /\ UNCHANGED <<bootVars, requests, sessions, crossed>>

Open(t) ==
  LET u == task[t].by IN
  /\ task[t].step = "open"
  /\ sessions' = [sessions EXCEPT ![u] = IF task[t].late \/ @ = "late" THEN "late" ELSE "live"]
  /\ Done(t)
  /\ UNCHANGED <<bootVars, requests, crossed>>

(* logout, or the TTL.                                                     *)
SignOut(u) ==
  /\ sessions[u] # "none"
  /\ sessions' = [sessions EXCEPT ![u] = "none"]
  /\ UNCHANGED <<bootVars, requests, task, crossed>>

(* drop_user_sessions of disable_user and reset_password.  What the        *)
(* disabled user has in flight goes on.                                    *)
GoesOn(t, u) == task' = [q \in Tasks |->
  IF q = t THEN Idle
  ELSE IF task[q].by = u THEN [task[q] EXCEPT !.late = @ \/ task[t].op = "disable"]
  ELSE task[q]]

DropSessions(t) ==
  /\ task[t].step = "drop"
  /\ sessions' = [sessions EXCEPT ![task[t].on] = "none"]
  /\ GoesOn(t, task[t].on)
  /\ UNCHANGED <<bootVars, requests, crossed>>

-----------------------------------------------------------------------------
(* A query fails or the client hangs up.  Of a disable in front of its     *)
(* drop the user stays signed in.                                          *)
GiveUp(t) ==
  /\ task[t].step # "idle"
  /\ Event
  /\ IF task[t].step = "drop"
       THEN /\ GoesOn(t, task[t].on)
            /\ sessions' = [sessions EXCEPT ![task[t].on] =
                              IF @ = "live" /\ task[t].op = "disable" THEN "late" ELSE @]
       ELSE Done(t) /\ UNCHANGED sessions
  /\ UNCHANGED <<accountVars, requests, users, keys, crossed>>

(* The process dies; only sessions in Redis outlive it.                    *)
Die ==
  /\ boot = "up"
  /\ Event
  /\ boot' = "down"
  /\ task' = [t \in Tasks |-> Idle]
  /\ sessions' \in {[u \in Names |-> "none"],
                    [u \in Names |-> IF sessions[u] = "live" /\ Invalidating(u)
                                     THEN "late" ELSE sessions[u]]}
  /\ UNCHANGED <<file, database, config, at, draft, requests, crossed>>

-----------------------------------------------------------------------------
Boot ==
  /\ BootStep \/ DieInBoot \/ EditFile
  /\ UNCHANGED <<requests, sessions, task, crossed>>

Request(t) ==
  \/ Begin(t) \/ FindRow(t) \/ UpdateUser(t) \/ UpdateKey(t)
  \/ InsertUser(t) \/ InsertKey(t) \/ VerifyCurrent(t) \/ CheckKey(t)
  \/ Login(t) \/ Open(t) \/ DropSessions(t) \/ GiveUp(t)

Next ==
  \/ Boot \/ Die
  \/ \E t \in Tasks : Request(t)
  \/ \E u \in Names : SignOut(u)

Spec == Init /\ [][Next]_vars

-----------------------------------------------------------------------------
(* Properties.                                                             *)

TaskTypes ==
  [step: {"idle", "find", "update", "drop", "insert", "verify", "check", "open"},
   op: Operations \cup {"login", "none"}, by: Names \cup {Nobody}, late: BOOLEAN,
   on: Names \cup Keys \cup {Nobody}, row: UserRows \cup KeyRows \cup {NoUser, NoKey},
   set: UNION {Sets(op) : op \in Operations \cup {"none"}}]
TypeOK ==
  /\ BootTypeOK
  /\ requests \in 0 .. MaxRequests
  /\ sessions \in [Names -> {"none", "live", "late"}]
  /\ task \in [Tasks -> TaskTypes]
  /\ crossed \in BOOLEAN

(* Nobody can disable the account they act from (account_api.rs:120), and  *)
(* disabling a user drops its sessions (account_api.rs:125): as long as no *)
(* administrator who was being disabled, or whose session outlived that,   *)
(* disabled another in return, there is an administrator left to sign in.  *)
(* Without one the console is closed for good, since a boot seeds only a   *)
(* database without users.                                                 *)
AnAdminRemains ==
  users # NoUsers /\ ~crossed =>
    \E u \in Names : users[u].role = "admin" /\ users[u].status = "active"

(* A row is changed by one request at a time, in the columns the request   *)
(* is about, to the values it asks for: however updates that read the same *)
(* row interleave, none undoes another, so a revoked key stays revoked and *)
(* a password that was reset does not come back.  Only an administrator or *)
(* the owner changes it, and no account is replaced by one of its name     *)
(* (account/store.rs:181-282, user-accounts/spec.md:14-16).                *)
Asked(t, x) ==
  /\ task[t].on = x /\ task[t].step = "update"
  /\ \A c \in DOMAIN Row(x) : Row(x)'[c] # Row(x)[c] =>
       c \in DOMAIN task[t].set /\ Row(x)'[c] = task[t].set[c]
  /\ \/ users[task[t].by].role = "admin"
     \/ IF x \in Names THEN task[t].by = x ELSE keys[x].owner = task[t].by
RowsChangeOnlyAsAsked ==
  [][\A x \in Names \cup Keys :
       Row(x) \notin {NoUser, NoKey} /\ Row(x)' # Row(x) => \E t \in Tasks : Asked(t, x)]_vars
=============================================================================
