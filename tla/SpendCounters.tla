---------------------------- MODULE SpendCounters ----------------------------
(***************************************************************************)
(* The prepaid quota (quota/mod.rs, quota/counter.rs): a request is        *)
(* admitted when the spend counters of its user, and of its key if it has  *)
(* a cap, are below their limits; once it is answered its cost is added to *)
(* both and its usage record is handed to the writer; and a loop re-reads  *)
(* from PostgreSQL what was spent and resets the counters to it.  Counters *)
(* live in process memory, or in Redis with a shadow in memory that stands *)
(* in for it during an outage.                                             *)
(*                                                                         *)
(* A counter holds how often it counts each request, so that what it is    *)
(* worth is the sum of their costs.  The writer is reduced to the set of   *)
(* records it holds, as which RecordedSpend shows UsageWriter to behave.   *)
(* Grants and caps do not change.                                          *)
(* MaxEvents bounds outages, restarts and failed passes.                   *)
(***************************************************************************)
EXTENDS Integers, FiniteSetsExt

CONSTANTS
  Users, Keys,
  Requests,
  KeyOf,         \* the key of a request
  Owner,         \* the user of a key
  Cost,          \* estimated_cost of a request
  Capped,        \* the keys with a spend cap
  Limit,         \* granted of a user, spend_cap_usd of a capped key
  MaxEvents

Scopes == Users \cup Keys

ASSUME KeyAssumption == KeyOf \in [Requests -> Keys] /\ Owner \in [Keys -> Users]
ASSUME ScopeAssumption == Users \cap Keys = {}
ASSUME CostAssumption == Cost \in [Requests -> Nat] /\ IsFiniteSet(Requests)
ASSUME LimitAssumption == Capped \subseteq Keys /\ Limit \in [Scopes -> Int]
ASSUME EventsAssumption == MaxEvents \in Nat

VARIABLES
  backend,     \* which SpendCounter build_router chose
  memory,      \* MemoryCounter.values, the shadow of a RedisCounter
  redis,       \* the counters Redis holds
  up,          \* Redis answers
  step,        \* where a request is
  got,         \* what its last GET returned
  answered,    \* history: the requests a provider answered, at a cost
  queued,      \* records the usage writer holds
  rows,        \* usage_records
  pass,        \* where reconcile_counters is, "idle" between two ticks
  sums,        \* the rows its two queries summed, per scope
  todo,        \* the scopes it still has to reset
  setting,     \* the scopes it has reset in the shadow but not in Redis
  booting,     \* the pass is the one that seeds the counters before serving
  reconciled,  \* history: what the last complete pass reset a scope to
  quiet,       \* history: nothing was added or written since the pass began
  events

requestVars == <<step, got, answered>>
writerVars == <<queued, rows>>
passVars == <<pass, sums, todo, setting, booting, reconciled>>
vars == <<backend, memory, redis, up, requestVars, writerVars, passVars, quiet, events>>

-----------------------------------------------------------------------------
Zero == [r \in Requests |-> 0]
Counters == [Scopes -> [Requests -> Nat]]

User(r) == Owner[KeyOf[r]]
ScopesOf(r) == {User(r), KeyOf[r]}
Of(s, records) == {r \in records : s \in ScopesOf(r)}

CountedOnce(records) == [r \in Requests |-> IF r \in records THEN 1 ELSE 0]
Spent(counter) == MapThenSumSet(LAMBDA r : Cost[r] * counter[r], Requests)

(* Whether [redis] is configured.                                          *)
Redis == backend = "redis"

(* What a read is answered from.                                           *)
Current(s) == IF Redis /\ up THEN redis[s] ELSE memory[s]

Add(counter, s, r) == [counter EXCEPT ![s][r] = @ + 1]

-----------------------------------------------------------------------------
Init ==
  /\ backend \in {"memory", "redis"}
  /\ memory = [s \in Scopes |-> Zero]
  /\ redis = [s \in Scopes |-> Zero]
  /\ up = TRUE
  /\ step = [r \in Requests |-> "start"]
  /\ got = [r \in Requests |-> Zero]
  /\ answered = {}
  /\ queued = {}
  /\ rows = {}
  /\ pass = "by_user"
  /\ sums = [s \in Scopes |-> {}]
  /\ todo = {}
  /\ setting = {}
  /\ booting = TRUE
  /\ reconciled = [s \in Scopes |-> {}]
  /\ quiet = TRUE
  /\ events = 0

Event == events < MaxEvents /\ events' = events + 1
Goto(r, next) == step' = [step EXCEPT ![r] = next]

-----------------------------------------------------------------------------
(* check_quota.                                                            *)

CheckedScope(r) == IF step[r] = "key" \/ step[r] = "warm_key" THEN KeyOf[r] ELSE User(r)

(* Once the value is known: over the limit, on to the key's cap, or in.    *)
Decide(r, s, value) ==
  IF Spent(value) >= Limit[s] THEN Goto(r, IF s = User(r) THEN "user_exhausted"
                                                          ELSE "key_cap_reached")
  ELSE IF s = User(r) /\ KeyOf[r] \in Capped THEN Goto(r, "key")
  ELSE Goto(r, "serving")

(* get: one lock in memory, one GET in Redis.                              *)
Get(r) ==
  /\ ~booting
  /\ step[r] \in {"start", "key"}
  /\ LET s == CheckedScope(r) IN
       IF Redis /\ up
         THEN /\ got' = [got EXCEPT ![r] = redis[s]]
              /\ Goto(r, IF step[r] = "start" THEN "warm_user" ELSE "warm_key")
         ELSE Decide(r, s, memory[s]) /\ UNCHANGED got
  /\ UNCHANGED <<memory, redis, up, backend, answered, writerVars, passVars, quiet, events>>

(* RedisCounter::get sets its shadow to what Redis answered.               *)
Warm(r) ==
  /\ step[r] \in {"warm_user", "warm_key"}
  /\ memory' = [memory EXCEPT ![CheckedScope(r)] = got[r]]
  /\ Decide(r, CheckedScope(r), got[r])
  /\ got' = [got EXCEPT ![r] = Zero]
  /\ quiet' = FALSE
  /\ UNCHANGED <<redis, up, backend, answered, writerVars, passVars, events>>

-----------------------------------------------------------------------------
(* record_usage.                                                           *)

(* The provider's answer is complete.                                      *)
Answer(r) ==
  /\ step[r] = "serving"
  /\ answered' = answered \cup {r}
  /\ Goto(r, "add_user")
  /\ UNCHANGED <<memory, redis, up, backend, got, writerVars, passVars, quiet, events>>

(* add: the shadow first, then INCRBYFLOAT, which an outage loses.         *)
AddUserReplacing(r) ==
  /\ step[r] = "add_user"
  /\ memory' = [memory EXCEPT ![User(r)] = CountedOnce({r})]
  /\ Goto(r, IF Redis THEN "incr_user" ELSE "add_key")
  /\ quiet' = FALSE
  /\ UNCHANGED <<redis, up, backend, got, answered, writerVars, passVars, events>>
AddUser(r) ==
  /\ step[r] = "add_user"
  /\ memory' = Add(memory, User(r), r)
  /\ Goto(r, IF Redis THEN "incr_user" ELSE "add_key")
  /\ quiet' = FALSE
  /\ UNCHANGED <<redis, up, backend, got, answered, writerVars, passVars, events>>

(* Redis executes a command that was sent, also if the handler is dropped  *)
(* while it awaits the reply.                                              *)
IncrUser(r) ==
  /\ step[r] = "incr_user"
  /\ redis' = IF up THEN Add(redis, User(r), r) ELSE redis
  /\ \E next \in {"add_key", "over"} : Goto(r, next)
  /\ quiet' = FALSE
  /\ UNCHANGED <<memory, up, backend, got, answered, writerVars, passVars, events>>

AddKey(r) ==
  /\ step[r] = "add_key"
  /\ memory' = Add(memory, KeyOf[r], r)
  /\ Goto(r, IF Redis THEN "incr_key" ELSE "record")
  /\ quiet' = FALSE
  /\ UNCHANGED <<redis, up, backend, got, answered, writerVars, passVars, events>>

IncrKey(r) ==
  /\ step[r] = "incr_key"
  /\ redis' = IF up THEN Add(redis, KeyOf[r], r) ELSE redis
  /\ \E next \in {"record", "over"} : Goto(r, next)
  /\ quiet' = FALSE
  /\ UNCHANGED <<memory, up, backend, got, answered, writerVars, passVars, events>>

(* record: the writer takes the record or, when it is full, loses it.      *)
Record(r) ==
  /\ step[r] = "record"
  /\ Goto(r, "over")
  /\ queued' \in {queued, queued \cup {r}}
  /\ quiet' = FALSE
  /\ UNCHANGED <<memory, redis, up, backend, got, answered, rows, passVars, events>>

(* The client hangs up, or no provider answers: the handler is dropped at  *)
(* an await that really waits, so never between two memory counters, and   *)
(* before its command was sent.                                            *)
Leave(r) ==
  /\ \/ step[r] = "serving"
     \/ Redis /\ step[r] \in {"start", "key", "incr_user", "incr_key"}
  /\ Goto(r, "over")
  /\ UNCHANGED <<memory, redis, up, backend, got, answered, writerVars, passVars, quiet, events>>

(* A flush of the writer: a whole batch becomes rows or is lost.           *)
Flush ==
  \E batch \in (SUBSET queued) \ {{}} :
    /\ queued' = queued \ batch
    /\ rows' \in {rows, rows \cup batch}
    /\ quiet' = FALSE
    /\ UNCHANGED <<memory, redis, up, backend, requestVars, passVars, events>>

-----------------------------------------------------------------------------
(* reconcile_counters.                                                     *)

(* The writer holds nothing, and no request is between its first add and   *)
(* its record: PostgreSQL then knows all that was spent.                   *)
AllRecorded ==
  /\ queued = {}
  /\ \A r \in Requests : step[r] \notin {"warm_user", "warm_key", "add_user",
                                         "incr_user", "add_key", "incr_key", "record"}

Tick ==
  /\ pass = "idle"
  /\ pass' = "by_user"
  /\ quiet' = (AllRecorded /\ up)
  /\ UNCHANGED <<memory, redis, up, backend, requestVars, writerVars, sums, todo, setting,
                 booting, reconciled, events>>

(* spend_sums: two queries, two states of the table.  A scope without rows *)
(* is in neither answer.                                                   *)
SumByUser ==
  /\ pass = "by_user"
  /\ sums' = [s \in Scopes |-> IF s \in Users THEN Of(s, rows) ELSE {}]
  /\ pass' = "by_key"
  /\ UNCHANGED <<memory, redis, up, backend, requestVars, writerVars, todo, setting,
                 booting, reconciled, quiet, events>>

SumByKey ==
  /\ pass = "by_key"
  /\ sums' = [s \in Scopes |-> IF s \in Keys THEN Of(s, rows) ELSE sums[s]]
  /\ todo' = {s \in Scopes : sums'[s] # {}}
  /\ pass' = "reset"
  /\ UNCHANGED <<memory, redis, up, backend, requestVars, writerVars, setting, booting,
                 reconciled, quiet, events>>

(* The users first; within them, and within the keys, in any order.        *)
ResetTo(s, counter) ==
  /\ pass = "reset" /\ setting = {}
  /\ s \in todo
  /\ s \in Keys => todo \subseteq Keys
  /\ todo' = todo \ {s}
  /\ memory' = [memory EXCEPT ![s] = counter]
  /\ setting' = IF Redis THEN {s} ELSE {}
  /\ UNCHANGED <<redis, up, backend, requestVars, writerVars, pass, sums, booting,
                 reconciled, quiet, events>>
ResetAdding(s) ==
  ResetTo(s, [r \in Requests |-> memory[s][r] + CountedOnce(sums[s])[r]])
ResetNeverLowering(s) ==
  ResetTo(s, IF Spent(memory[s]) > Spent(CountedOnce(sums[s]))
               THEN memory[s] ELSE CountedOnce(sums[s]))
ResetShadowOnly(s) ==
  /\ pass = "reset"
  /\ s \in todo
  /\ todo' = todo \ {s}
  /\ memory' = [memory EXCEPT ![s] = CountedOnce(sums[s])]
  /\ UNCHANGED <<redis, up, backend, requestVars, writerVars, pass, sums, setting, booting,
                 reconciled, quiet, events>>
Reset(s) == ResetTo(s, CountedOnce(sums[s]))

(* SET, whose failure is only logged.                                      *)
SetRedisAdding(s) ==
  /\ s \in setting
  /\ setting' = {}
  /\ redis' = IF up
                THEN [redis EXCEPT ![s] =
                        [r \in Requests |-> @[r] + CountedOnce(sums[s])[r]]]
                ELSE redis
  /\ UNCHANGED <<memory, up, backend, requestVars, writerVars, pass, sums, todo, booting,
                 reconciled, quiet, events>>
SetRedis(s) ==
  /\ s \in setting
  /\ setting' = {}
  /\ redis' = IF up THEN [redis EXCEPT ![s] = CountedOnce(sums[s])] ELSE redis
  /\ UNCHANGED <<memory, up, backend, requestVars, writerVars, pass, sums, todo, booting,
                 reconciled, quiet, events>>

EndPass ==
  /\ pass = "reset" /\ todo = {} /\ setting = {}
  /\ pass' = "idle"
  /\ booting' = FALSE
  /\ reconciled' = sums
  /\ UNCHANGED <<memory, redis, up, backend, requestVars, writerVars, sums, todo, setting,
                 quiet, events>>

(* A query fails: nothing is reset until the next tick; at boot the        *)
(* process exits, and is started again.                                    *)
PassFails ==
  /\ pass \in {"by_user", "by_key"}
  /\ Event
  /\ pass' = IF booting THEN "by_user" ELSE "idle"
  /\ UNCHANGED <<memory, redis, up, backend, requestVars, writerVars, sums, todo, setting,
                 booting, reconciled, quiet>>

-----------------------------------------------------------------------------
(* Redis goes away, with its data intact, and comes back.                  *)
Outage ==
  /\ Redis /\ up
  /\ Event
  /\ up' = FALSE
  /\ quiet' = FALSE
  /\ UNCHANGED <<memory, redis, backend, requestVars, writerVars, passVars>>

Recover ==
  /\ ~up
  /\ up' = TRUE
  /\ quiet' = FALSE
  /\ UNCHANGED <<memory, redis, backend, requestVars, writerVars, passVars, events>>

(* The process dies and boots: memory is gone, and so are the requests in  *)
(* flight and the records the writer held.  Boot insists on Redis.         *)
Restart ==
  /\ Event
  /\ up
  /\ memory' = [s \in Scopes |-> Zero]
  /\ step' = [r \in Requests |-> IF step[r] = "start" THEN "start" ELSE "over"]
  /\ got' = [r \in Requests |-> Zero]
  /\ queued' = {}
  /\ pass' = "by_user"
  /\ todo' = {}
  /\ setting' = {}
  /\ booting' = TRUE
  /\ reconciled' = [s \in Scopes |-> {}]
  /\ quiet' = TRUE
  /\ UNCHANGED <<redis, up, backend, answered, rows, sums>>

-----------------------------------------------------------------------------
Pass == Tick \/ SumByUser \/ SumByKey \/ EndPass
          \/ \E s \in Scopes : Reset(s) \/ SetRedis(s)

Next ==
  \/ \E r \in Requests :
       \/ Get(r) \/ Warm(r) \/ Answer(r) \/ Leave(r)
       \/ AddUser(r) \/ IncrUser(r) \/ AddKey(r) \/ IncrKey(r) \/ Record(r)
  \/ Flush
  \/ Pass \/ PassFails
  \/ Outage \/ Recover \/ Restart

Spec == Init /\ [][Next]_vars

(* spawn_reconciliation loops for ever, and an outage of Redis ends.  That *)
(* a query or a command of a pass returns or errs is assumed: the code     *)
(* sets no timeout on either.                                              *)
FairSpec == Spec /\ WF_vars(Pass) /\ WF_vars(Recover)

-----------------------------------------------------------------------------
(* Properties.                                                             *)

TypeOK ==
  /\ backend \in {"memory", "redis"}
  /\ memory \in Counters
  /\ redis \in Counters
  /\ up \in BOOLEAN
  /\ step \in [Requests -> {"start", "warm_user", "key", "warm_key", "serving",
                            "add_user", "incr_user", "add_key", "incr_key",
                            "record", "over", "user_exhausted", "key_cap_reached"}]
  /\ got \in [Requests -> [Requests -> Nat]]
  /\ answered \subseteq Requests
  /\ queued \subseteq Requests
  /\ rows \subseteq Requests
  /\ pass \in {"idle", "by_user", "by_key", "reset"}
  /\ sums \in [Scopes -> SUBSET Requests]
  /\ \A s \in Scopes : sums[s] \subseteq Of(s, Requests)
  /\ todo \subseteq Scopes
  /\ setting \subseteq Scopes
  /\ booting \in BOOLEAN
  /\ reconciled \in [Scopes -> SUBSET Requests]
  /\ quiet \in BOOLEAN
  /\ events \in 0 .. MaxEvents

(* No interleaving of adds, records, inserts and resets, and no outage or  *)
(* restart, makes a counter count a request twice or before it cost        *)
(* anything: record_usage adds before it records, so that a sum read from  *)
(* the table never holds a cost whose add is still to come                 *)
(* (router.rs:763-800, quota/mod.rs:25-31).                                *)
NeverOvercounts ==
  \A s \in Scopes, r \in Requests :
    /\ memory[s][r] <= 1 /\ redis[s][r] <= 1
    /\ memory[s][r] + redis[s][r] > 0 => r \in Of(s, answered)

(* A 402 names a limit that what was really spent has reached.             *)
RejectsOnlyRealSpend ==
  \A r \in Requests :
    /\ step[r] = "user_exhausted" =>
         Spent(CountedOnce(Of(User(r), answered))) >= Limit[User(r)]
    /\ step[r] = "key_cap_reached" =>
         Spent(CountedOnce(Of(KeyOf[r], answered))) >= Limit[KeyOf[r]]

(* "counter drift is bounded by the reconciliation interval"               *)
(* (credit-quota/spec.md:50): what a complete pass found in PostgreSQL     *)
(* stays counted, whatever is admitted, added and reset after it.  It holds  *)
(* of counters in process memory: Redis is trusted at once after an outage. *)
DriftIsBounded ==
  ~Redis => \A s \in Scopes : \A r \in reconciled[s] : Current(s)[r] >= 1

(* A pass nothing interfered with leaves every counter it resets exactly   *)
(* at the table's sum.                                                     *)
Exact(s) == Current(s)' = CountedOnce(Of(s, rows))
QuietPassIsExact ==
  [][quiet /\ EndPass => \A s \in Scopes : Of(s, rows) # {} => Exact(s)]_vars

(* When requests stop, the counters of everyone with a row in the table    *)
(* come to count exactly their rows, after any failed passes, outages and  *)
(* restarts.                                                               *)
CountersConverge ==
  \A s \in Scopes :
    <>[](Of(s, rows) # {} => Current(s) = CountedOnce(Of(s, rows)))
=============================================================================
