------------------------ MODULE SpendCounters_proofs ------------------------
(***************************************************************************)
(* No counter ever counts a request twice, or before it cost anything, for *)
(* any users, keys, limits, costs and number of requests, with and without *)
(* Redis; and in process memory the drift of a counter is bounded by the   *)
(* last complete pass.                                                     *)
(***************************************************************************)
EXTENDS SpendCounters, FiniteSetTheorems, TLAPS

-----------------------------------------------------------------------------
(* Data.                                                                   *)

(* The scopes of a request are two different ones.                         *)
LEMMA ScopesOfRequest ==
  ASSUME NEW r \in Requests
  PROVE  /\ User(r) \in Users /\ KeyOf[r] \in Keys
         /\ User(r) \in Scopes /\ KeyOf[r] \in Scopes
         /\ User(r) # KeyOf[r]
         /\ ScopesOf(r) = {User(r), KeyOf[r]}
  BY KeyAssumption, ScopeAssumption DEF User, Scopes, ScopesOf

(* What add leaves in the counters.                                        *)
LEMMA AddValue ==
  ASSUME NEW counter \in Counters, NEW s \in Scopes, NEW r \in Requests
  PROVE  /\ Add(counter, s, r) \in Counters
         /\ Add(counter, s, r)[s][r] = counter[s][r] + 1
         /\ \A t \in Scopes, q \in Requests :
              t # s \/ q # r => Add(counter, s, r)[t][q] = counter[t][q]
  <1> DEFINE row == [counter[s] EXCEPT ![r] = counter[s][r] + 1]
  <1>1. counter[s] \in [Requests -> Nat]
    BY DEF Counters
  <1>2. row \in [Requests -> Nat] /\ row[r] = counter[s][r] + 1
        /\ \A q \in Requests : q # r => row[q] = counter[s][q]
    BY <1>1
  <1>3. Add(counter, s, r) = [counter EXCEPT ![s] = row]
    BY <1>1 DEF Add, Counters
  <1> HIDE DEF row
  <1> QED
    BY <1>2, <1>3 DEF Counters

(* What a reset leaves.                                                    *)
LEMMA ResetValue ==
  ASSUME NEW counter \in Counters, NEW s \in Scopes,
         NEW row \in [Requests -> Nat]
  PROVE  /\ [counter EXCEPT ![s] = row] \in Counters
         /\ [counter EXCEPT ![s] = row][s] = row
         /\ \A t \in Scopes : t # s => [counter EXCEPT ![s] = row][t] = counter[t]
  BY DEF Counters

(* A set of requests as a counter.                                         *)
LEMMA CountedOnceValue ==
  ASSUME NEW records
  PROVE  /\ CountedOnce(records) \in [Requests -> Nat]
         /\ \A r \in Requests : CountedOnce(records)[r] <= 1
         /\ \A r \in Requests : CountedOnce(records)[r] > 0 <=> r \in records
  BY DEF CountedOnce

(* Where a decision leaves a request.                                      *)
LEMMA Decided ==
  ASSUME TypeOK, NEW r \in Requests, NEW s, NEW value, Decide(r, s, value)
  PROVE  \E next \in {"user_exhausted", "key_cap_reached", "key", "serving"} :
           step' = [step EXCEPT ![r] = next]
  BY DEF Decide, Goto, TypeOK

-----------------------------------------------------------------------------
(* Types.                                                                  *)

(* At boot the variables have their types.                                 *)
LEMMA TypeInit == Init => TypeOK
  BY EventsAssumption DEF Init, TypeOK, Counters, Zero

(* The steps of a request keep them.                                       *)
LEMMA TypeRequest ==
  ASSUME TypeOK, NEW r \in Requests,
         Get(r) \/ Warm(r) \/ Answer(r) \/ Leave(r) \/ AddUser(r) \/ IncrUser(r)
           \/ AddKey(r) \/ IncrKey(r) \/ Record(r)
  PROVE  TypeOK'
  <1> USE DEF requestVars, writerVars, passVars, Goto
  <1>s. CheckedScope(r) \in Scopes /\ User(r) \in Scopes /\ KeyOf[r] \in Scopes
    BY ScopesOfRequest DEF CheckedScope
  <1>z. Zero \in [Requests -> Nat]
    BY DEF Zero
  <1>1. ASSUME Get(r) PROVE TypeOK'
    <2>1. step' \in [Requests -> {"start", "warm_user", "key", "warm_key", "serving",
                            "add_user", "incr_user", "add_key", "incr_key",
                            "record", "over", "user_exhausted", "key_cap_reached"}]
      BY <1>1, Decided DEF Get, TypeOK
    <2>2. got' \in [Requests -> [Requests -> Nat]]
      BY <1>1, <1>s DEF Get, TypeOK, Counters
    <2> QED
      BY <1>1, <2>1, <2>2 DEF Get, TypeOK
  <1>2. ASSUME Warm(r) PROVE TypeOK'
    <2>1. step' \in [Requests -> {"start", "warm_user", "key", "warm_key", "serving",
                            "add_user", "incr_user", "add_key", "incr_key",
                            "record", "over", "user_exhausted", "key_cap_reached"}]
      BY <1>2, Decided DEF Warm, TypeOK
    <2>2. memory' \in Counters
      BY <1>2, <1>s, ResetValue DEF Warm, TypeOK
    <2>3. got' \in [Requests -> [Requests -> Nat]]
      BY <1>2, <1>z DEF Warm, TypeOK
    <2> QED
      BY <1>2, <2>1, <2>2, <2>3 DEF Warm, TypeOK
  <1>3. ASSUME Answer(r) \/ Leave(r) \/ Record(r) PROVE TypeOK'
    BY <1>3 DEF Answer, Leave, Record, TypeOK
  <1>4. ASSUME AddUser(r) \/ AddKey(r) PROVE TypeOK'
    <2>1. memory' \in Counters
      BY <1>4, <1>s, AddValue DEF AddUser, AddKey, TypeOK
    <2> QED
      BY <1>4, <2>1 DEF AddUser, AddKey, TypeOK
  <1>5. ASSUME IncrUser(r) \/ IncrKey(r) PROVE TypeOK'
    <2>1. redis' \in Counters
      BY <1>5, <1>s, AddValue DEF IncrUser, IncrKey, TypeOK
    <2> QED
      BY <1>5, <2>1 DEF IncrUser, IncrKey, TypeOK
  <1> QED
    BY <1>1, <1>2, <1>3, <1>4, <1>5

(* So do the steps of a pass.                                              *)
LEMMA TypePass == TypeOK /\ (Pass \/ PassFails) => TypeOK'
  <1> USE DEF requestVars, writerVars, passVars
  <1> SUFFICES ASSUME TypeOK, Pass \/ PassFails PROVE TypeOK'
    OBVIOUS
  <1>1. ASSUME Tick PROVE TypeOK'
    <2>1. quiet' \in BOOLEAN
      BY <1>1 DEF Tick, AllRecorded
    <2> QED
      BY <1>1, <2>1 DEF Tick, TypeOK
  <1>5. ASSUME EndPass PROVE TypeOK'
    BY <1>5 DEF EndPass, TypeOK
  <1>6. ASSUME PassFails PROVE TypeOK'
    BY <1>6, EventsAssumption DEF PassFails, Event, TypeOK
  <1>2. ASSUME SumByUser \/ SumByKey PROVE TypeOK'
    BY <1>2, ZenonT(60) DEF SumByUser, SumByKey, TypeOK, Of
  <1>3. ASSUME NEW s \in Scopes, Reset(s) PROVE TypeOK'
    <2>1. memory' \in Counters
      BY <1>3, ResetValue, CountedOnceValue DEF Reset, ResetTo, TypeOK
    <2> QED
      BY <1>3, <2>1 DEF Reset, ResetTo, TypeOK
  <1>4. ASSUME NEW s \in Scopes, SetRedis(s) PROVE TypeOK'
    <2>1. redis' \in Counters
      BY <1>4, ResetValue, CountedOnceValue DEF SetRedis, TypeOK
    <2> QED
      BY <1>4, <2>1 DEF SetRedis, TypeOK
  <1> QED
    BY <1>1, <1>2, <1>3, <1>4, <1>5, <1>6 DEF Pass

(* Every step keeps the types.                                             *)
LEMMA TypeNext == TypeOK /\ [Next]_vars => TypeOK'
  <1> USE DEF requestVars, writerVars, passVars
  <1> SUFFICES ASSUME TypeOK, [Next]_vars PROVE TypeOK'
    OBVIOUS
  <1>1. CASE Flush
    BY <1>1 DEF Flush, TypeOK
  <1>2. CASE Outage
    <2>1. events' \in 0 .. MaxEvents
      BY <1>2, EventsAssumption DEF Outage, Event, TypeOK
    <2>2. UNCHANGED <<backend, memory, redis, step, got, answered, queued, rows, pass, sums,
                      todo, setting, booting, reconciled>>
      BY <1>2 DEF Outage
    <2>3. up' \in BOOLEAN /\ quiet' \in BOOLEAN
      BY <1>2 DEF Outage
    <2> QED
      BY <2>1, <2>2, <2>3 DEF TypeOK
  <1>5. CASE Recover
    BY <1>5 DEF Recover, TypeOK
  <1>3. CASE Restart
    BY <1>3, EventsAssumption DEF Restart, Event, TypeOK, Counters, Zero
  <1>4. CASE UNCHANGED vars
    BY <1>4 DEF vars, TypeOK, Of
  <1> QED
    BY <1>1, <1>2, <1>3, <1>4, <1>5, TypeRequest, TypePass DEF Next

(* The variables of every reachable state have their types                 *)
(* (quota/counter.rs, quota/mod.rs).                                       *)
THEOREM TypeCorrect == Spec => []TypeOK
  BY TypeInit, TypeNext, PTL DEF Spec

-----------------------------------------------------------------------------
(* No request is counted twice, or before it cost anything.  Why: a cost   *)
(* that is added is added once, in the order user, key, record; what is    *)
(* recorded has been added; and a reset puts in what was recorded.         *)

(* The add, or the increment of Redis, of r's cost to s is behind it.      *)
Added(r, s) ==
  IF s = User(r) THEN step[r] # "add_user"
  ELSE step[r] \notin {"add_user", "incr_user", "add_key"}
Incremented(r, s) ==
  IF s = User(r) THEN step[r] \notin {"add_user", "incr_user"}
  ELSE step[r] \notin {"add_user", "incr_user", "add_key", "incr_key"}

Before == {"start", "warm_user", "key", "warm_key", "serving", "user_exhausted",
           "key_cap_reached"}
AnsweredPast == \A r \in answered : step[r] \notin Before
AddingAnswered ==
  \A r \in Requests :
    step[r] \in {"add_user", "incr_user", "add_key", "incr_key", "record"} =>
      r \in answered

MemoryOnce ==
  \A s \in Scopes, r \in Requests :
    /\ memory[s][r] <= 1
    /\ memory[s][r] > 0 => r \in answered /\ s \in ScopesOf(r) /\ Added(r, s)
RedisOnce ==
  \A s \in Scopes, r \in Requests :
    /\ redis[s][r] <= 1
    /\ redis[s][r] > 0 => r \in answered /\ s \in ScopesOf(r) /\ Incremented(r, s)
GotOnce ==
  \A q \in Requests : step[q] \in {"warm_user", "warm_key"} =>
    \A r \in Requests :
      /\ got[q][r] <= 1
      /\ got[q][r] > 0 => /\ r \in answered /\ CheckedScope(q) \in ScopesOf(r)
                          /\ Incremented(r, CheckedScope(q))

RecordedOver == \A r \in queued \cup rows : r \in answered /\ step[r] = "over"
SumsAreRows == \A s \in Scopes : sums[s] \subseteq Of(s, rows)

Sound ==
  /\ AnsweredPast /\ AddingAnswered
  /\ MemoryOnce /\ RedisOnce /\ GotOnce
  /\ RecordedOver /\ SumsAreRows

(* What Sound says of the counters.                                        *)
LEMMA SoundSuffices == TypeOK /\ Sound => NeverOvercounts
  BY DEF Sound, MemoryOnce, RedisOnce, NeverOvercounts, Of, TypeOK, Counters

(* At boot every counter is zero.                                          *)
LEMMA SoundInit == Init => Sound
  BY DEF Init, Sound, AnsweredPast, AddingAnswered, MemoryOnce, RedisOnce, GotOnce,
         RecordedOver, SumsAreRows, Zero, Of

(* A decision moves a request that has cost nothing yet.                   *)
LEMMA SoundGet ==
  ASSUME TypeOK, Sound, NEW r \in Requests, Get(r)
  PROVE  Sound'
  <1> USE DEF requestVars, writerVars, passVars, Goto
  <1>1. r \notin answered /\ step[r] \in {"start", "key"}
    BY DEF Get, Sound, AnsweredPast, Before
  <1>2. PICK next \in Before : step' = [step EXCEPT ![r] = next]
    BY Decided DEF Get, Before
  <1>3. UNCHANGED <<memory, redis, answered, queued, rows, sums>>
    BY DEF Get
  <1>4. \A q \in Requests : q # r => step'[q] = step[q]
    BY <1>2
  <1>5. step'[r] = next
    BY <1>2 DEF TypeOK
  <1>6. AnsweredPast' /\ AddingAnswered'
    BY <1>1, <1>3, <1>4, <1>5 DEF Sound, AnsweredPast, AddingAnswered, Before, TypeOK
  <1>7. \A q \in Requests, s \in Scopes : q # r =>
          (Added(q, s) <=> Added(q, s)') /\ (Incremented(q, s) <=> Incremented(q, s)')
    BY <1>4 DEF Added, Incremented
  <1>8. MemoryOnce' /\ RedisOnce'
    BY <1>1, <1>3, <1>7 DEF Sound, MemoryOnce, RedisOnce
  <1>9. GotOnce'
    <2> SUFFICES ASSUME NEW q \in Requests, step'[q] \in {"warm_user", "warm_key"},
                        NEW x \in Requests
                 PROVE  (/\ got[q][x] <= 1
                         /\ got[q][x] > 0 =>
                              /\ x \in answered /\ CheckedScope(q) \in ScopesOf(x)
                              /\ Incremented(x, CheckedScope(q)))'
      BY DEF GotOnce
    <2>1. CheckedScope(q) \in Scopes /\ CheckedScope(q)' \in Scopes
      BY ScopesOfRequest DEF CheckedScope
    <2>2. CASE q # r
      <3>1. got'[q] = got[q] /\ CheckedScope(q)' = CheckedScope(q)
        BY <1>4, <2>2 DEF Get, TypeOK, CheckedScope
      <3>2. /\ got[q][x] <= 1
            /\ got[q][x] > 0 => /\ x \in answered /\ CheckedScope(q) \in ScopesOf(x)
                                /\ Incremented(x, CheckedScope(q))
        BY <1>4, <2>2 DEF Sound, GotOnce
      <3> QED
        BY <1>1, <1>3, <1>4, <2>1, <3>1, <3>2 DEF Incremented
    <2>3. CASE q = r
      <3>1. got'[r] = redis[CheckedScope(r)] /\ CheckedScope(r)' = CheckedScope(r)
        <4>1. Redis /\ up
          BY <1>5, <2>3 DEF Get, Decide, TypeOK
        <4>2. got' = [got EXCEPT ![r] = redis[CheckedScope(r)]]
          BY <4>1 DEF Get
        <4>3. step'[r] = IF step[r] = "start" THEN "warm_user" ELSE "warm_key"
          BY <4>1 DEF Get, TypeOK
        <4> QED
          BY <1>1, <4>2, <4>3 DEF CheckedScope, TypeOK
      <3> QED
        BY <1>1, <1>3, <1>4, <2>1, <2>3, <3>1 DEF Sound, RedisOnce, Incremented
    <2> QED
      BY <2>2, <2>3
  <1>10. RecordedOver' /\ SumsAreRows'
    BY <1>1, <1>3, <1>4 DEF Sound, RecordedOver, SumsAreRows, TypeOK
  <1> QED
    BY <1>6, <1>8, <1>9, <1>10 DEF Sound
(* A request that moves on, past nothing its cost still has to be added to, *)
(* leaves what the others got, and what the counters say of them.           *)
LEMMA MovingOn ==
  ASSUME TypeOK, Sound, NEW r \in Requests, NEW next,
         step' = [step EXCEPT ![r] = next], next \notin {"warm_user", "warm_key"},
         answered \subseteq answered',
         \A q \in Requests : q # r => got'[q] = got[q],
         r \in answered => \A s \in Scopes : /\ Added(r, s) => Added(r, s)'
                                             /\ Incremented(r, s) => Incremented(r, s)'
  PROVE  /\ GotOnce'
         /\ \A q \in answered, s \in Scopes : /\ Added(q, s) => Added(q, s)'
                                              /\ Incremented(q, s) => Incremented(q, s)'
  <1>1. step'[r] = next /\ \A q \in Requests : q # r => step'[q] = step[q]
    BY DEF TypeOK
  <1>2. answered \subseteq Requests
    BY DEF TypeOK
  <1>3. ASSUME NEW q \in answered, NEW s \in Scopes
        PROVE  /\ Added(q, s) => Added(q, s)'
               /\ Incremented(q, s) => Incremented(q, s)'
    <2>1. CASE q = r
      BY <2>1
    <2>2. CASE q # r
      BY <1>1, <1>2, <2>2 DEF Added, Incremented
    <2> QED
      BY <2>1, <2>2
  <1>4. GotOnce'
    <2> SUFFICES ASSUME NEW q \in Requests, step'[q] \in {"warm_user", "warm_key"},
                        NEW x \in Requests
                 PROVE  (/\ got[q][x] <= 1
                         /\ got[q][x] > 0 =>
                              /\ x \in answered /\ CheckedScope(q) \in ScopesOf(x)
                              /\ Incremented(x, CheckedScope(q)))'
      BY DEF GotOnce
    <2>1. q # r /\ got'[q] = got[q] /\ step'[q] = step[q]
      BY <1>1
    <2>2. CheckedScope(q) \in Scopes /\ CheckedScope(q)' = CheckedScope(q)
      BY <2>1, ScopesOfRequest DEF CheckedScope
    <2>3. /\ got[q][x] <= 1
          /\ got[q][x] > 0 => /\ x \in answered /\ CheckedScope(q) \in ScopesOf(x)
                              /\ Incremented(x, CheckedScope(q))
      BY <2>1 DEF Sound, GotOnce
    <2>4. x \in answered /\ Incremented(x, CheckedScope(q)) =>
            (IF CheckedScope(q) = User(x) THEN step'[x] \notin {"add_user", "incr_user"}
             ELSE step'[x] \notin {"add_user", "incr_user", "add_key", "incr_key"})
      BY <1>3, <2>2 DEF Incremented
    <2> QED
      BY <2>1, <2>2, <2>3, <2>4 DEF Incremented
  <1> QED
    BY <1>3, <1>4

(* The shadow is set to what Redis answered; the request goes on.          *)
LEMMA SoundWarm ==
  ASSUME TypeOK, Sound, NEW r \in Requests, Warm(r)
  PROVE  Sound'
  <1> USE DEF requestVars, writerVars, passVars, Goto
  <1>1. r \notin answered /\ step[r] \in {"warm_user", "warm_key"}
    BY DEF Warm, Sound, AnsweredPast, Before
  <1>2. PICK next \in Before \ {"warm_user", "warm_key"} :
          step' = [step EXCEPT ![r] = next]
    BY Decided DEF Warm, Before
  <1>3. /\ UNCHANGED <<redis, answered, queued, rows, sums>>
        /\ memory' = [memory EXCEPT ![CheckedScope(r)] = got[r]]
        /\ got' = [got EXCEPT ![r] = Zero]
    BY DEF Warm
  <1>4. step'[r] = next /\ \A q \in Requests : q # r => step'[q] = step[q]
    BY <1>2 DEF TypeOK
  <1>5. /\ GotOnce'
        /\ \A q \in answered, s \in Scopes : /\ Added(q, s) => Added(q, s)'
                                             /\ Incremented(q, s) => Incremented(q, s)'
    <2>1. \A q \in Requests : q # r => got'[q] = got[q]
      BY <1>3 DEF TypeOK
    <2> QED
      BY <1>1, <1>2, <1>3, <2>1, MovingOn
  <1>6. AnsweredPast' /\ AddingAnswered'
    BY <1>1, <1>3, <1>4 DEF Sound, AnsweredPast, AddingAnswered, Before, TypeOK
  <1>7. RedisOnce'
    BY <1>3, <1>5 DEF Sound, RedisOnce
  <1>8. MemoryOnce'
    <2> SUFFICES ASSUME NEW s \in Scopes, NEW x \in Requests
                 PROVE  /\ memory'[s][x] <= 1
                        /\ memory'[s][x] > 0 =>
                             x \in answered /\ s \in ScopesOf(x) /\ Added(x, s)'
      BY <1>3 DEF MemoryOnce
    <2>1. CASE s = CheckedScope(r)
      <3>1. memory'[s] = got[r]
        BY <1>3, <2>1 DEF TypeOK, Counters
      <3>2. /\ got[r][x] <= 1
            /\ got[r][x] > 0 => /\ x \in answered /\ CheckedScope(r) \in ScopesOf(x)
                                /\ Incremented(x, CheckedScope(r))
        BY <1>1 DEF Sound, GotOnce
      <3>3. Incremented(x, s) => Added(x, s)
        BY DEF Incremented, Added
      <3> QED
        BY <1>5, <2>1, <3>1, <3>2, <3>3
    <2>2. CASE s # CheckedScope(r)
      <3>1. memory'[s] = memory[s]
        BY <1>3, <2>2 DEF TypeOK, Counters
      <3> QED
        BY <1>5, <3>1 DEF Sound, MemoryOnce
    <2> QED
      BY <2>1, <2>2
  <1>9. RecordedOver' /\ SumsAreRows'
    BY <1>1, <1>3, <1>4 DEF Sound, RecordedOver, SumsAreRows, TypeOK
  <1> QED
    BY <1>5, <1>6, <1>7, <1>8, <1>9 DEF Sound

(* A provider answers, the client leaves, or the record is handed over.    *)
LEMMA SoundMove ==
  ASSUME TypeOK, Sound, NEW r \in Requests, Answer(r) \/ Leave(r) \/ Record(r)
  PROVE  Sound'
  <1> USE DEF requestVars, writerVars, passVars, Goto
  <1>1. PICK next \in {"add_user", "over"} : step' = [step EXCEPT ![r] = next]
    BY DEF Answer, Leave, Record
  <1>2. /\ UNCHANGED <<memory, redis, got, rows, sums>>
        /\ answered' \in {answered, answered \cup {r}}
        /\ queued' \in {queued, queued \cup {r}}
    BY DEF Answer, Leave, Record
  <1>3. step'[r] = next /\ \A q \in Requests : q # r => step'[q] = step[q]
    BY <1>1 DEF TypeOK
  <1>4. r \in answered => next = "over"
    BY <1>3 DEF Answer, Leave, Record, Sound, AnsweredPast, Before, TypeOK
  <1>5. /\ GotOnce'
        /\ \A q \in answered, s \in Scopes : /\ Added(q, s) => Added(q, s)'
                                             /\ Incremented(q, s) => Incremented(q, s)'
    <2>1. r \in answered => \A s \in Scopes : Added(r, s)' /\ Incremented(r, s)'
      BY <1>3, <1>4 DEF Added, Incremented
    <2> QED
      BY <1>1, <1>2, <2>1, MovingOn
  <1>6. AnsweredPast' /\ AddingAnswered'
    <2>1. next = "add_user" => r \in answered'
      BY <1>3 DEF Answer, Leave, Record, TypeOK
    <2> QED
      BY <1>2, <1>3, <2>1 DEF Sound, AnsweredPast, AddingAnswered, Before, TypeOK
  <1>7. RedisOnce' /\ MemoryOnce'
    BY <1>2, <1>5 DEF Sound, RedisOnce, MemoryOnce
  <1>8. RecordedOver'
    <2>1. queued' # queued => r \in answered /\ next = "over"
      BY <1>3 DEF Answer, Leave, Record, Sound, AddingAnswered, TypeOK
    <2>2. r \in queued \cup rows => next = "over"
      BY <1>4 DEF Sound, RecordedOver
    <2> QED
      BY <1>2, <1>3, <2>1, <2>2 DEF Sound, RecordedOver, TypeOK
  <1>9. SumsAreRows'
    BY <1>2 DEF Sound, SumsAreRows, Of
  <1> QED
    BY <1>5, <1>6, <1>7, <1>8, <1>9 DEF Sound
(* An add finds a zero, since the step it takes is still ahead.            *)
LEMMA SoundAdd ==
  ASSUME TypeOK, Sound, NEW r \in Requests,
         AddUser(r) \/ AddKey(r) \/ IncrUser(r) \/ IncrKey(r)
  PROVE  Sound'
  <1> USE DEF requestVars, writerVars, passVars, Goto
  <1>s. /\ User(r) \in Scopes /\ KeyOf[r] \in Scopes /\ User(r) # KeyOf[r]
        /\ ScopesOf(r) = {User(r), KeyOf[r]}
    BY ScopesOfRequest
  <1>1. PICK next \in {"incr_user", "add_key", "incr_key", "record", "over"} :
          step' = [step EXCEPT ![r] = next]
    BY DEF AddUser, AddKey, IncrUser, IncrKey
  <1>2. UNCHANGED <<got, answered, queued, rows, sums>>
    BY DEF AddUser, AddKey, IncrUser, IncrKey
  <1>3. step'[r] = next /\ \A q \in Requests : q # r => step'[q] = step[q]
    BY <1>1 DEF TypeOK
  <1>4. r \in answered /\ r \notin queued \cup rows
    BY DEF AddUser, AddKey, IncrUser, IncrKey, Sound, AddingAnswered, RecordedOver
  <1>5. \A s \in Scopes : /\ Added(r, s) => Added(r, s)'
                          /\ Incremented(r, s) => Incremented(r, s)'
    <2>1. CASE step[r] = "add_user"
      BY <1>3, <2>1 DEF AddUser, AddKey, IncrUser, IncrKey, Added, Incremented, TypeOK
    <2>2. CASE step[r] # "add_user"
      BY <1>3, <2>2 DEF AddUser, AddKey, IncrUser, IncrKey, Added, Incremented, TypeOK
    <2> QED
      BY <2>1, <2>2
  <1>6. /\ GotOnce'
        /\ \A q \in answered, s \in Scopes : /\ Added(q, s) => Added(q, s)'
                                             /\ Incremented(q, s) => Incremented(q, s)'
    BY <1>1, <1>2, <1>5, MovingOn
  <1>7. AnsweredPast' /\ AddingAnswered'
    BY <1>2, <1>3, <1>4 DEF Sound, AnsweredPast, AddingAnswered, Before, TypeOK
  <1>8. ASSUME NEW s \in ScopesOf(r), memory' = Add(memory, s, r),
               ~Added(r, s), Added(r, s)'
        PROVE  MemoryOnce'
    <2>1. memory[s][r] = 0
      BY <1>s, <1>8 DEF Sound, MemoryOnce, TypeOK, Counters
    <2>3. s \in Scopes /\ memory \in Counters
      BY <1>s DEF TypeOK
    <2>4. /\ Add(memory, s, r)[s][r] = memory[s][r] + 1
          /\ \A t \in Scopes, q \in Requests :
               t # s \/ q # r => Add(memory, s, r)[t][q] = memory[t][q]
      BY <2>3, AddValue
    <2>2. /\ memory'[s][r] = 1
          /\ \A t \in Scopes, q \in Requests :
               t # s \/ q # r => memory'[t][q] = memory[t][q]
      BY <1>8, <2>1, <2>4
    <2> QED
      BY <1>2, <1>4, <1>6, <1>8, <2>2 DEF Sound, MemoryOnce
  <1>9. ASSUME NEW s \in ScopesOf(r), redis' = Add(redis, s, r),
               ~Incremented(r, s), Incremented(r, s)'
        PROVE  RedisOnce'
    <2>1. redis[s][r] = 0
      BY <1>s, <1>9 DEF Sound, RedisOnce, TypeOK, Counters
    <2>3. s \in Scopes /\ redis \in Counters
      BY <1>s DEF TypeOK
    <2>4. /\ Add(redis, s, r)[s][r] = redis[s][r] + 1
          /\ \A t \in Scopes, q \in Requests :
               t # s \/ q # r => Add(redis, s, r)[t][q] = redis[t][q]
      BY <2>3, AddValue
    <2>2. /\ redis'[s][r] = 1
          /\ \A t \in Scopes, q \in Requests :
               t # s \/ q # r => redis'[t][q] = redis[t][q]
      BY <1>9, <2>1, <2>4
    <2> QED
      BY <1>2, <1>4, <1>6, <1>9, <2>2 DEF Sound, RedisOnce
  <1>10. memory' = memory => MemoryOnce'
    BY <1>2, <1>6 DEF Sound, MemoryOnce
  <1>11. redis' = redis => RedisOnce'
    BY <1>2, <1>6 DEF Sound, RedisOnce
  <1>12. MemoryOnce' /\ RedisOnce'
    <2>1. CASE AddUser(r)
      <3>1. ~Added(r, User(r)) /\ Added(r, User(r))'
        BY <1>3, <2>1 DEF AddUser, Added, TypeOK
      <3> QED
        BY <1>s, <1>8, <1>11, <2>1, <3>1 DEF AddUser
    <2>2. CASE AddKey(r)
      <3>1. ~Added(r, KeyOf[r]) /\ Added(r, KeyOf[r])'
        BY <1>s, <1>3, <2>2 DEF AddKey, Added, TypeOK
      <3> QED
        BY <1>s, <1>8, <1>11, <2>2, <3>1 DEF AddKey
    <2>3. CASE IncrUser(r)
      <3>1. ~Incremented(r, User(r)) /\ Incremented(r, User(r))'
        BY <1>3, <2>3 DEF IncrUser, Incremented, TypeOK
      <3> QED
        BY <1>s, <1>9, <1>10, <1>11, <2>3, <3>1 DEF IncrUser
    <2>4. CASE IncrKey(r)
      <3>1. ~Incremented(r, KeyOf[r]) /\ Incremented(r, KeyOf[r])'
        BY <1>s, <1>3, <2>4 DEF IncrKey, Incremented, TypeOK
      <3> QED
        BY <1>s, <1>9, <1>10, <1>11, <2>4, <3>1 DEF IncrKey
    <2> QED
      BY <2>1, <2>2, <2>3, <2>4
  <1>13. RecordedOver' /\ SumsAreRows'
    BY <1>2, <1>3, <1>4 DEF Sound, RecordedOver, SumsAreRows, TypeOK, Of
  <1> QED
    BY <1>6, <1>7, <1>12, <1>13 DEF Sound

(* A pass reads rows and puts in what it read.                             *)
LEMMA SoundPass ==
  ASSUME TypeOK, Sound, Pass \/ PassFails
  PROVE  Sound'
  <1> USE DEF requestVars, writerVars, passVars
  <1>1. UNCHANGED <<step, got, answered, queued, rows>>
    BY DEF Pass, PassFails, Tick, SumByUser, SumByKey, EndPass, Reset, ResetTo, SetRedis
  <1>2. \A q \in Requests, s \in Scopes : /\ Added(q, s) => Added(q, s)'
                                          /\ Incremented(q, s) => Incremented(q, s)'
    BY <1>1 DEF Added, Incremented
  <1>3. AnsweredPast' /\ AddingAnswered' /\ GotOnce' /\ RecordedOver'
    BY <1>1 DEF Sound, AnsweredPast, AddingAnswered, GotOnce, RecordedOver,
                Incremented, CheckedScope
  <1>4. SumsAreRows'
    <2>1. CASE SumByUser
      BY <1>1, <2>1 DEF SumByUser, Sound, SumsAreRows, TypeOK
    <2>2. CASE SumByKey
      BY <1>1, <2>2 DEF SumByKey, Sound, SumsAreRows, TypeOK
    <2>3. CASE UNCHANGED sums
      BY <1>1, <2>3 DEF Sound, SumsAreRows, Of
    <2> QED
      BY <2>1, <2>2, <2>3
      DEF Pass, PassFails, Tick, EndPass, Reset, ResetTo, SetRedis
  <1>5. ASSUME NEW s \in Scopes, NEW x \in Requests
        PROVE  LET counted == CountedOnce(sums[s])[x] IN
                 /\ counted <= 1
                 /\ counted > 0 => /\ x \in answered /\ s \in ScopesOf(x)
                                   /\ Added(x, s)' /\ Incremented(x, s)'
    <2>1. x \in sums[s] => x \in rows /\ s \in ScopesOf(x)
      BY DEF Sound, SumsAreRows, Of
    <2>2. x \in rows => x \in answered /\ step[x] = "over"
      BY DEF Sound, RecordedOver
    <2> QED
      BY <1>1, <2>1, <2>2, CountedOnceValue DEF Added, Incremented
  <1>6. MemoryOnce'
    <2>1. ASSUME NEW s \in Scopes, Reset(s) PROVE MemoryOnce'
      <3>1. /\ memory'[s] = CountedOnce(sums[s])
            /\ \A t \in Scopes : t # s => memory'[t] = memory[t]
        BY <2>1 DEF Reset, ResetTo, TypeOK, Counters
      <3> QED
        BY <1>1, <1>2, <1>5, <3>1 DEF Sound, MemoryOnce
    <2>2. CASE UNCHANGED memory
      BY <1>1, <1>2, <2>2 DEF Sound, MemoryOnce
    <2> QED
      BY <2>1, <2>2
      DEF Pass, PassFails, Tick, SumByUser, SumByKey, EndPass, SetRedis
  <1>7. RedisOnce'
    <2>1. ASSUME NEW s \in Scopes, SetRedis(s), up PROVE RedisOnce'
      <3>1. /\ redis'[s] = CountedOnce(sums[s])
            /\ \A t \in Scopes : t # s => redis'[t] = redis[t]
        BY <2>1 DEF SetRedis, TypeOK, Counters
      <3> QED
        BY <1>1, <1>2, <1>5, <3>1 DEF Sound, RedisOnce
    <2>2. CASE UNCHANGED redis
      BY <1>1, <1>2, <2>2 DEF Sound, RedisOnce
    <2> QED
      BY <2>1, <2>2
      DEF Pass, PassFails, Tick, SumByUser, SumByKey, EndPass, Reset, ResetTo, SetRedis
  <1> QED
    BY <1>3, <1>4, <1>6, <1>7 DEF Sound

(* Outages add nothing; a restart forgets, and what it cuts short is over. *)
LEMMA SoundEnvironment ==
  ASSUME TypeOK, Sound, Flush \/ Outage \/ Recover \/ Restart \/ UNCHANGED vars
  PROVE  Sound'
  <1> USE DEF requestVars, writerVars, passVars
  <1>1. CASE Flush \/ Outage \/ Recover \/ UNCHANGED vars
    <2>1. /\ UNCHANGED <<memory, redis, step, got, answered, sums>>
          /\ queued' \cup rows' \subseteq queued \cup rows
          /\ rows \subseteq rows'
      BY <1>1 DEF Flush, Outage, Recover, vars
    <2>2. \A q \in Requests, s \in Scopes : /\ Added(q, s) => Added(q, s)'
                                            /\ Incremented(q, s) => Incremented(q, s)'
      BY <2>1 DEF Added, Incremented
    <2>3. AnsweredPast' /\ AddingAnswered' /\ GotOnce' /\ RecordedOver'
      BY <2>1 DEF Sound, AnsweredPast, AddingAnswered, GotOnce, RecordedOver,
                  Incremented, CheckedScope
    <2>4. MemoryOnce' /\ RedisOnce' /\ SumsAreRows'
      BY <2>1, <2>2 DEF Sound, MemoryOnce, RedisOnce, SumsAreRows, Of
    <2> QED
      BY <2>3, <2>4 DEF Sound
  <1>2. CASE Restart
    <2>1. /\ UNCHANGED <<redis, answered, rows, sums>> /\ queued' = {}
          /\ memory' = [s \in Scopes |-> Zero]
          /\ step' = [r \in Requests |-> IF step[r] = "start" THEN "start" ELSE "over"]
      BY <1>2 DEF Restart
    <2>2. \A q \in answered : q \in Requests /\ step'[q] = "over"
      BY <2>1 DEF Sound, AnsweredPast, Before, TypeOK
    <2>3. AnsweredPast' /\ AddingAnswered' /\ RecordedOver'
      BY <2>1, <2>2 DEF Sound, AnsweredPast, AddingAnswered, RecordedOver, Before
    <2>4. GotOnce' /\ MemoryOnce'
      BY <2>1 DEF GotOnce, MemoryOnce, Zero
    <2>5. RedisOnce'
      BY <2>1, <2>2 DEF Sound, RedisOnce, Incremented
    <2>6. SumsAreRows'
      BY <2>1 DEF Sound, SumsAreRows, Of
    <2> QED
      BY <2>3, <2>4, <2>5, <2>6 DEF Sound
  <1> QED
    BY <1>1, <1>2

(* Every step keeps the counters sound.                                    *)
LEMMA SoundNext == TypeOK /\ Sound /\ [Next]_vars => Sound'
  BY SoundGet, SoundWarm, SoundMove, SoundAdd, SoundPass, SoundEnvironment DEF Next

(* No counter counts a request twice or before it cost anything, with or   *)
(* without Redis (router.rs:763-800, quota/mod.rs:21-33).                  *)
THEOREM NeverOvercountsTheorem == Spec => []NeverOvercounts
  <1>1. TypeOK /\ Sound /\ [Next]_vars => (TypeOK /\ Sound)'
    BY TypeNext, SoundNext
  <1> QED
    BY TypeInit, SoundInit, SoundSuffices, <1>1, PTL DEF Spec
-----------------------------------------------------------------------------
(* In process memory what a complete pass found stays counted.  Why: rows  *)
(* are never deleted, so the sums of a later pass hold at least what the   *)
(* last complete one found, and an add only adds.                          *)

OnlyMemory ==
  /\ \A r \in Requests :
       step[r] \notin {"warm_user", "warm_key", "incr_user", "incr_key"}
  /\ setting = {}
ReconciledAreRows == \A s \in Scopes : reconciled[s] \subseteq Of(s, rows)
SumsCover ==
  /\ pass = "by_key" => \A s \in Users : reconciled[s] \subseteq sums[s]
  /\ pass = "reset" => \A s \in Scopes : reconciled[s] \subseteq sums[s]
ResetIsDone ==
  pass = "reset" => \A s \in Scopes \ todo : \A r \in sums[s] : memory[s][r] >= 1
KeepsCounting == \A s \in Scopes : \A r \in reconciled[s] : memory[s][r] >= 1

Kept ==
  /\ OnlyMemory /\ ReconciledAreRows /\ SumsCover /\ ResetIsDone /\ KeepsCounting

(* At boot no pass is complete.                                            *)
LEMMA KeptInit == Init => Kept
  BY DEF Init, Kept, OnlyMemory, ReconciledAreRows, SumsCover, ResetIsDone,
         KeepsCounting, Scopes

(* A step of a request resets nothing and lowers no counter.               *)
LEMMA KeptRequest ==
  ASSUME ~Redis, TypeOK, Kept, NEW r \in Requests,
         Get(r) \/ Warm(r) \/ Answer(r) \/ Leave(r) \/ AddUser(r) \/ IncrUser(r)
           \/ AddKey(r) \/ IncrKey(r) \/ Record(r)
  PROVE  Kept'
  <1> USE DEF requestVars, writerVars, passVars, Goto
  <1>1. ~Warm(r) /\ ~IncrUser(r) /\ ~IncrKey(r)
    BY DEF Kept, OnlyMemory, Warm, IncrUser, IncrKey
  <1>2. UNCHANGED <<rows, pass, sums, todo, setting, reconciled>>
    BY <1>1 DEF Get, Answer, Leave, AddUser, AddKey, Record
  <1>3. PICK next \in Before \cup {"add_user", "add_key", "record", "over"} :
          step' = [step EXCEPT ![r] = next] /\ next \notin {"warm_user", "warm_key"}
    <2>1. CASE Get(r)
      BY <2>1, Decided DEF Get, Before
    <2> QED
      BY <1>1, <2>1 DEF Answer, Leave, AddUser, AddKey, Record
  <1>4. OnlyMemory'
    BY <1>2, <1>3 DEF Kept, OnlyMemory, Before, TypeOK
  <1>5. \A t \in Scopes, q \in Requests : memory'[t][q] >= memory[t][q]
    <2>0. memory \in Counters /\ \A t \in Scopes, q \in Requests : memory[t][q] \in Nat
      BY DEF TypeOK, Counters
    <2>1. ASSUME NEW s \in Scopes, memory' = Add(memory, s, r)
          PROVE  \A t \in Scopes, q \in Requests : memory'[t][q] >= memory[t][q]
      <3>1. /\ Add(memory, s, r)[s][r] = memory[s][r] + 1
            /\ \A t \in Scopes, q \in Requests :
                 t # s \/ q # r => Add(memory, s, r)[t][q] = memory[t][q]
        BY <2>0, AddValue
      <3> QED
        BY <2>0, <2>1, <3>1
    <2>2. CASE AddUser(r) \/ AddKey(r)
      BY <2>1, <2>2, ScopesOfRequest DEF AddUser, AddKey
    <2>3. CASE memory' = memory
      BY <2>0, <2>3
    <2> QED
      BY <1>1, <2>2, <2>3 DEF Get, Answer, Leave, Record
  <1>6. \A t \in Scopes, q \in Requests :
          memory[t][q] \in Int /\ (memory[t][q] >= 1 => memory'[t][q] >= 1)
    <2>1. memory' \in Counters
      BY TypeRequest DEF TypeOK
    <2>2. \A t \in Scopes, q \in Requests : memory[t][q] \in Nat /\ memory'[t][q] \in Nat
      BY <2>1 DEF TypeOK, Counters
    <2> QED
      BY <1>5, <2>2
  <1>7. \A t \in Scopes : sums[t] \subseteq Requests /\ reconciled[t] \subseteq Requests
    BY DEF TypeOK
  <1>8. ReconciledAreRows' /\ SumsCover' /\ ResetIsDone' /\ KeepsCounting'
    BY <1>2, <1>6, <1>7
    DEF Kept, ReconciledAreRows, SumsCover, ResetIsDone, KeepsCounting, Of
  <1> QED
    BY <1>4, <1>8 DEF Kept

(* A pass reads at least what the last one found, and puts it in.          *)
LEMMA KeptPass ==
  ASSUME ~Redis, TypeOK, Sound, Kept, Pass \/ PassFails
  PROVE  Kept'
  <1> USE DEF requestVars, writerVars, passVars
  <1>1. CASE Tick \/ PassFails
    BY <1>1 DEF Tick, PassFails, Kept, OnlyMemory, ReconciledAreRows, SumsCover,
                ResetIsDone, KeepsCounting, Of
  <1>2. CASE SumByUser
    <2>1. \A s \in Users : s \in Scopes /\ sums'[s] = Of(s, rows)
      BY <1>2 DEF SumByUser, Scopes
    <2> QED
      BY <1>2, <2>1 DEF SumByUser, Kept, OnlyMemory, ReconciledAreRows, SumsCover,
                        ResetIsDone, KeepsCounting, Of
  <1>3. CASE SumByKey
    <2>1. /\ \A s \in Keys : sums'[s] = Of(s, rows)
          /\ \A s \in Users : sums'[s] = sums[s]
          /\ \A s \in Scopes \ todo' : sums'[s] = {}
      BY <1>3, ScopeAssumption DEF SumByKey, Scopes
    <2>2. \A s \in Scopes : reconciled[s] \subseteq sums'[s]
      BY <1>3, <2>1 DEF SumByKey, Scopes, Kept, SumsCover, ReconciledAreRows
    <2> QED
      BY <1>3, <2>1, <2>2 DEF SumByKey, Kept, OnlyMemory, ReconciledAreRows, SumsCover,
                        ResetIsDone, KeepsCounting, Of
  <1>4. ASSUME NEW s \in Scopes, Reset(s) PROVE Kept'
    <2>1. /\ memory'[s] = CountedOnce(sums[s])
          /\ \A t \in Scopes : t # s => memory'[t] = memory[t]
      BY <1>4 DEF Reset, ResetTo, TypeOK, Counters
    <2>2. \A r \in sums[s] : memory'[s][r] >= 1
      BY <2>1 DEF CountedOnce, TypeOK
    <2>3. /\ UNCHANGED <<step, rows, pass, sums, reconciled>> /\ setting' = {}
          /\ pass = "reset" /\ todo' = todo \ {s}
      BY <1>4 DEF Reset, ResetTo
    <2>4. OnlyMemory' /\ ReconciledAreRows' /\ SumsCover'
      BY <2>3 DEF Kept, OnlyMemory, ReconciledAreRows, SumsCover, Of
    <2>5. ResetIsDone'
      BY <2>1, <2>2, <2>3 DEF Kept, ResetIsDone
    <2>6. KeepsCounting'
      BY <2>1, <2>2, <2>3 DEF Kept, SumsCover, KeepsCounting
    <2> QED
      BY <2>4, <2>5, <2>6 DEF Kept
  <1>5. ASSUME NEW s \in Scopes, SetRedis(s) PROVE Kept'
    BY <1>5 DEF SetRedis, Kept, OnlyMemory
  <1>6. CASE EndPass
    <2>1. \A s \in Scopes : s \in Scopes \ todo
      BY <1>6 DEF EndPass
    <2>2. \A s \in Scopes : sums[s] \subseteq Of(s, rows)
      BY DEF Sound, SumsAreRows
    <2> QED
      BY <1>6, <2>1, <2>2 DEF EndPass, Kept, OnlyMemory, ReconciledAreRows,
                              SumsCover, ResetIsDone, KeepsCounting, Of
  <1> QED
    BY <1>1, <1>2, <1>3, <1>4, <1>5, <1>6 DEF Pass

(* The environment adds rows, or ends the process and what it kept.        *)
LEMMA KeptEnvironment ==
  ASSUME ~Redis, TypeOK, Kept,
         Flush \/ Outage \/ Recover \/ Restart \/ UNCHANGED vars
  PROVE  Kept'
  <1> USE DEF requestVars, writerVars, passVars
  <1>1. CASE Flush
    BY <1>1 DEF Flush, Kept, OnlyMemory, ReconciledAreRows, SumsCover, ResetIsDone,
                KeepsCounting, Of
  <1>2. CASE Outage \/ Recover \/ UNCHANGED vars
    BY <1>2 DEF Outage, Recover, vars, Kept, OnlyMemory, ReconciledAreRows, SumsCover,
                ResetIsDone, KeepsCounting, Of
  <1>3. CASE Restart
    BY <1>3 DEF Restart, Kept, OnlyMemory, ReconciledAreRows, SumsCover, ResetIsDone,
                KeepsCounting, Scopes
  <1> QED
    BY <1>1, <1>2, <1>3

(* The counter chosen at boot stays, through restarts too.                 *)
LEMMA BackendStays == [Next]_vars => backend' = backend
  BY DEF Next, vars, Get, Warm, Answer, Leave, AddUser, IncrUser, AddKey, IncrKey,
         Record, Flush, Pass, Tick, SumByUser, SumByKey, EndPass, Reset, ResetTo,
         SetRedis, PassFails, Outage, Recover, Restart

(* In process memory the drift of a counter is bounded by the last         *)
(* complete pass (quota/mod.rs:16-33, quota/counter.rs:41-66).             *)
THEOREM DriftIsBoundedInMemory == Spec => []DriftIsBounded
  <1> DEFINE KeptInMemory == ~Redis => Kept
  <1>1. Init => KeptInMemory
    BY KeptInit
  <1>2. TypeOK /\ Sound /\ KeptInMemory /\ [Next]_vars
          => (TypeOK /\ Sound /\ KeptInMemory)'
    <2> SUFFICES ASSUME TypeOK, Sound, KeptInMemory, [Next]_vars
                 PROVE  TypeOK' /\ Sound' /\ (~Redis' => Kept')
      OBVIOUS
    <2>1. TypeOK' /\ Sound'
      BY TypeNext, SoundNext
    <2>2. Redis' = Redis
      BY BackendStays DEF Redis
    <2>3. ~Redis => Kept'
      BY KeptRequest, KeptPass, KeptEnvironment DEF Next
    <2> QED
      BY <2>1, <2>2, <2>3
  <1>3. KeptInMemory => DriftIsBounded
    BY DEF Kept, KeepsCounting, DriftIsBounded, Current
  <1> HIDE DEF KeptInMemory
  <1> QED
    BY TypeInit, SoundInit, <1>1, <1>2, <1>3, PTL DEF Spec

-----------------------------------------------------------------------------
(* A pass that nothing interferes with.  Why: while it is quiet no row is  *)
(* inserted and no counter changes but by the pass itself, so that its     *)
(* sums stay those of the table, and what it has reset stays reset, in     *)
(* Redis once the SET for it is through.                                   *)

SumsAreExact ==
  /\ pass = "by_key" => \A s \in Users : sums[s] = Of(s, rows)
  /\ pass = "reset" => \A s \in Scopes : sums[s] = Of(s, rows)
ResetsAreExact ==
  pass = "reset" => \A s \in Scopes \ todo : sums[s] # {} =>
    /\ memory[s] = CountedOnce(sums[s])
    /\ Redis /\ s \notin setting => redis[s] = CountedOnce(sums[s])
OneAtATime == \A s, t \in setting : s = t

QuietPass ==
  /\ OneAtATime
  /\ quiet => up /\ SumsAreExact /\ ResetsAreExact

(* The pass that seeds the counters has yet to read the table.             *)
LEMMA QuietInit == Init => QuietPass
  BY DEF Init, QuietPass, OneAtATime, SumsAreExact, ResetsAreExact

(* What does not end the quiet touches no counter, row or part of a pass.  *)
LEMMA QuietUntouched ==
  ASSUME QuietPass, UNCHANGED setting,
         quiet' = FALSE \/ UNCHANGED <<memory, redis, backend, up, rows, pass, sums, todo, quiet>>
  PROVE  QuietPass'
  BY DEF QuietPass, OneAtATime, SumsAreExact, ResetsAreExact, Redis, Of

(* A pass keeps its sums and its resets exact.                             *)
LEMMA QuietInPass ==
  ASSUME TypeOK, QuietPass, Pass \/ PassFails
  PROVE  QuietPass'
  <1> USE DEF requestVars, writerVars, passVars
  <1>1. CASE Tick
    <2>1. quiet' => up'
      BY <1>1 DEF Tick
    <2> QED
      BY <1>1, <2>1 DEF Tick, QuietPass, OneAtATime, SumsAreExact, ResetsAreExact
  <1>2. CASE PassFails \/ EndPass
    BY <1>2 DEF PassFails, EndPass, QuietPass, OneAtATime, SumsAreExact, ResetsAreExact
  <1>3. CASE SumByUser
    <2>1. \A s \in Users : sums'[s] = Of(s, rows)
      BY <1>3 DEF SumByUser, Scopes
    <2>2. pass' = "by_key" /\ UNCHANGED <<rows, up, quiet, setting>>
      BY <1>3 DEF SumByUser
    <2> QED
      BY <2>1, <2>2 DEF QuietPass, OneAtATime, SumsAreExact, ResetsAreExact, Of
  <1>4. CASE SumByKey
    <2>1. /\ \A s \in Keys : sums'[s] = Of(s, rows)
          /\ \A s \in Users : sums'[s] = sums[s]
          /\ \A s \in Scopes \ todo' : sums'[s] = {}
      BY <1>4, ScopeAssumption DEF SumByKey, Scopes
    <2>2. pass = "by_key" /\ pass' = "reset" /\ UNCHANGED <<rows, up, quiet, setting>>
      BY <1>4 DEF SumByKey
    <2>3. quiet => \A s \in Scopes : sums'[s] = Of(s, rows)
      BY <2>1, <2>2 DEF QuietPass, SumsAreExact, Scopes
    <2> QED
      BY <2>1, <2>2, <2>3 DEF QuietPass, OneAtATime, SumsAreExact, ResetsAreExact, Of
  <1>5. ASSUME NEW s \in Scopes, Reset(s) PROVE QuietPass'
    <2>1. /\ memory'[s] = CountedOnce(sums[s])
          /\ \A t \in Scopes : t # s => memory'[t] = memory[t]
      BY <1>5 DEF Reset, ResetTo, TypeOK, Counters
    <2>2. /\ UNCHANGED <<redis, up, backend, rows, pass, sums, quiet>>
          /\ pass = "reset" /\ setting = {} /\ todo' = todo \ {s}
          /\ setting' = (IF Redis THEN {s} ELSE {})
      BY <1>5 DEF Reset, ResetTo
    <2>3. OneAtATime' /\ (SumsAreExact => SumsAreExact')
      BY <2>2 DEF OneAtATime, SumsAreExact, Of
    <2>4. ResetsAreExact => ResetsAreExact'
      BY <2>1, <2>2 DEF ResetsAreExact, Redis
    <2> QED
      BY <2>2, <2>3, <2>4 DEF QuietPass
  <1>6. ASSUME NEW s \in Scopes, SetRedis(s) PROVE QuietPass'
    <2>1. setting = {s} /\ setting' = {}
      BY <1>6 DEF SetRedis, QuietPass, OneAtATime
    <2>2. /\ up => redis'[s] = CountedOnce(sums[s])
          /\ \A t \in Scopes : t # s => redis'[t] = redis[t]
      BY <1>6 DEF SetRedis, TypeOK, Counters
    <2>3. UNCHANGED <<memory, up, backend, rows, pass, sums, todo, quiet>>
      BY <1>6 DEF SetRedis
    <2>4. OneAtATime' /\ (SumsAreExact => SumsAreExact')
      BY <2>1, <2>3 DEF OneAtATime, SumsAreExact, Of
    <2>5. up /\ ResetsAreExact => ResetsAreExact'
      BY <2>1, <2>2, <2>3 DEF ResetsAreExact, Redis
    <2> QED
      BY <2>3, <2>4, <2>5 DEF QuietPass
  <1> QED
    BY <1>1, <1>2, <1>3, <1>4, <1>5, <1>6 DEF Pass

(* Every step keeps a quiet pass exact.                                    *)
LEMMA QuietNext == TypeOK /\ QuietPass /\ [Next]_vars => QuietPass'
  <1> USE DEF requestVars, writerVars, passVars
  <1> SUFFICES ASSUME TypeOK, QuietPass, [Next]_vars PROVE QuietPass'
    OBVIOUS
  <1>1. ASSUME NEW r \in Requests,
               Get(r) \/ Warm(r) \/ Answer(r) \/ Leave(r) \/ AddUser(r) \/ IncrUser(r)
                 \/ AddKey(r) \/ IncrKey(r) \/ Record(r)
        PROVE  QuietPass'
    BY <1>1, QuietUntouched
    DEF Get, Warm, Answer, Leave, AddUser, IncrUser, AddKey, IncrKey, Record
  <1>2. CASE Flush \/ Outage \/ Recover \/ UNCHANGED vars
    BY <1>2, QuietUntouched DEF Flush, Outage, Recover, vars
  <1>3. CASE Restart
    BY <1>3 DEF Restart, QuietPass, OneAtATime, SumsAreExact, ResetsAreExact
  <1>4. CASE Pass \/ PassFails
    BY <1>4, QuietInPass
  <1> QED
    BY <1>1, <1>2, <1>3, <1>4 DEF Next

(* When such a pass ends, everything is reset.                             *)
LEMMA QuietEnds ==
  ASSUME QuietPass, quiet, EndPass, NEW s \in Scopes, Of(s, rows) # {}
  PROVE  Exact(s)
  <1>1. /\ pass = "reset" /\ todo = {} /\ setting = {}
        /\ UNCHANGED <<memory, redis, up, backend>>
    BY DEF EndPass
  <1>2. sums[s] = Of(s, rows)
    BY <1>1 DEF QuietPass, SumsAreExact
  <1>3. memory[s] = CountedOnce(Of(s, rows)) /\ (Redis => redis[s] = CountedOnce(Of(s, rows)))
    BY <1>1, <1>2 DEF QuietPass, ResetsAreExact
  <1>4. Current(s)' = IF Redis /\ up THEN redis[s] ELSE memory[s]
    BY <1>1 DEF Current, Redis
  <1> QED
    BY <1>3, <1>4 DEF Exact

(* A pass that nothing interferes with leaves each counter it resets at    *)
(* the table's sum, in process memory and in Redis (quota/mod.rs:19-55).   *)
THEOREM QuietPassIsExactTheorem == Spec => QuietPassIsExact
  <1>1. TypeOK /\ QuietPass /\ [Next]_vars => (TypeOK /\ QuietPass)'
    BY TypeNext, QuietNext
  <1>2. QuietPass /\ [Next]_vars =>
          [quiet /\ EndPass => \A s \in Scopes : Of(s, rows) # {} => Exact(s)]_vars
    BY QuietEnds
  <1> QED
    BY TypeInit, QuietInit, <1>1, <1>2, PTL DEF Spec, QuietPassIsExact

-----------------------------------------------------------------------------
(* What a counter is worth.  A fold over a set is a recursive function on  *)
(* its subsets; that the function exists, and that the sum grows with what *)
(* is summed, is induction on finite sets, in the form of the library's    *)
(* theorem on minimal elements, which takes no operator.                   *)

(* The first number that is not in a set that holds 0 and is closed under  *)
(* successor cannot be.                                                    *)
LEMMA SetOfAllNumbers ==
  ASSUME NEW L, 0 \in L, \A n \in Nat : n \in L => n + 1 \in L
  PROVE  Nat \subseteq L
  <1> DEFINE less == {ss \in Nat \X Nat : ss[1] < ss[2]}
             bad == {n \in Nat : n \notin L}
  <1> SUFFICES ASSUME bad # {} PROVE FALSE
    OBVIOUS
  <1>1. IsWellFoundedOn(less, Nat)
    BY NatLessThanWellFounded DEF OpToRel
  <1>2. bad \subseteq Nat
    OBVIOUS
  <1> HIDE DEF less
  <1>3. PICK n \in bad : \A m \in bad : <<m, n>> \notin less
    <2> HIDE DEF bad
    <2> QED
      BY <1>1, <1>2, WFMin
  <1>4. n \in Nat /\ n # 0 /\ n - 1 \in Nat
    BY <1>3
  <1>5. <<n - 1, n>> \in less
    BY <1>4 DEF less
  <1>6. n - 1 \in L
    BY <1>3, <1>4, <1>5
  <1> QED
    BY <1>3, <1>4, <1>6

(* A family of subsets of a finite set that holds a set whenever it holds  *)
(* all the smaller ones holds every one of them.                           *)
LEMMA FamilyOfAllSubsets ==
  ASSUME NEW S, IsFiniteSet(S), NEW F,
         \A T \in SUBSET S : (\A U \in SUBSET T : U # T => U \in F) => T \in F
  PROVE  SUBSET S \subseteq F
  <1> DEFINE bad == {T \in SUBSET S : T \notin F}
  <1> SUFFICES ASSUME bad # {} PROVE FALSE
    OBVIOUS
  <1>1. IsWellFoundedOn(StrictSubsetOrdering(S), SUBSET S)
    <2>1. IsWellFoundedOn(StrictSubsetOrdering(S), FiniteSubsetsOf(S))
      BY FS_StrictSubsetOrderingWellFounded
    <2>2. FiniteSubsetsOf(S) = SUBSET S
      BY FS_FiniteSubsetsOfFinite
    <2> QED
      BY <2>1, <2>2
  <1>2. bad \subseteq SUBSET S
    OBVIOUS
  <1>3. PICK T \in bad : \A U \in bad : <<U, T>> \notin StrictSubsetOrdering(S)
    <2> HIDE DEF bad
    <2> QED
      BY <1>1, <1>2, WFMin
  <1>4. \A U \in SUBSET T : U # T => U \in F
    BY <1>3 DEF StrictSubsetOrdering
  <1> QED
    BY <1>3, <1>4

(* The recursive function behind Spent.                                    *)
Pick(s) == CHOOSE r \in s : TRUE
NextSum(f, counter, s) ==
  IF s = {} THEN 0 ELSE Cost[Pick(s)] * counter[Pick(s)] + f[s \ {Pick(s)}]
SumsUp(f, counter) ==
  f = [s \in SUBSET Requests |-> NextSum(f, counter, s)]

LEMMA SpentIsSum ==
  ASSUME NEW counter
  PROVE  Spent(counter) = (CHOOSE f : SumsUp(f, counter))[Requests]
  BY DEF Spent, MapThenSumSet, MapThenFoldSet, Pick, SumsUp, NextSum

LEMMA PickedRequest ==
  ASSUME NEW s \in SUBSET Requests, s # {}
  PROVE  /\ Pick(s) \in s /\ Pick(s) \in Requests
         /\ s \ {Pick(s)} \in SUBSET Requests /\ s \ {Pick(s)} # s
         /\ IsFiniteSet(s) /\ Cardinality(s) \in Nat
         /\ Cardinality(s \ {Pick(s)}) = Cardinality(s) - 1
  <1>1. Pick(s) \in s
    BY DEF Pick
  <1>2. IsFiniteSet(s)
    BY CostAssumption, FS_Subset
  <1>3. Cardinality(s) \in Nat
    BY <1>2, FS_CardinalityType
  <1>4. Cardinality(s \ {Pick(s)}) = Cardinality(s) - 1
    BY <1>1, <1>2, FS_RemoveElement
  <1> QED
    BY <1>1, <1>2, <1>3, <1>4

(* It exists: it is built up by the size of its arguments.                 *)
LEMMA SumExists ==
  ASSUME NEW counter
  PROVE  \E f : SumsUp(f, counter)
  <1> DEFINE UpTo(f, n) == \A s \in SUBSET Requests :
               Cardinality(s) <= n => f[s] = NextSum(f, counter, s)
             L == {n \in Nat : \E f : f = [s \in SUBSET Requests |-> f[s]] /\ UpTo(f, n)}
  <1>0. \A s \in SUBSET Requests : Cardinality(s) \in Nat /\ (Cardinality(s) = 0 <=> s = {})
    BY CostAssumption, FS_Subset, FS_CardinalityType, FS_EmptySet
  <1>1. 0 \in L
    <2> DEFINE f == [s \in SUBSET Requests |-> 0]
    <2>1. f = [s \in SUBSET Requests |-> f[s]]
      OBVIOUS
    <2>2. UpTo(f, 0)
      BY <1>0 DEF NextSum
    <2> HIDE DEF f
    <2> QED
      BY <2>1, <2>2
  <1>2. ASSUME NEW n \in Nat, n \in L PROVE n + 1 \in L
    <2>1. PICK f : f = [s \in SUBSET Requests |-> f[s]] /\ UpTo(f, n)
      BY <1>2
    <2> DEFINE h == [s \in SUBSET Requests |->
                       IF Cardinality(s) = n + 1 THEN NextSum(f, counter, s) ELSE f[s]]
    <2>2. h = [s \in SUBSET Requests |-> h[s]]
      OBVIOUS
    <2>3. ASSUME NEW s \in SUBSET Requests, Cardinality(s) <= n + 1
          PROVE  h[s] = NextSum(h, counter, s)
      <3>1. h[s] = NextSum(f, counter, s)
        <4>1. h[s] = IF Cardinality(s) = n + 1 THEN NextSum(f, counter, s) ELSE f[s]
          OBVIOUS
        <4>2. Cardinality(s) # n + 1 => Cardinality(s) <= n
          BY <1>0, <2>3
        <4>3. Cardinality(s) <= n => f[s] = NextSum(f, counter, s)
          BY <2>1
        <4> QED
          BY <4>1, <4>2, <4>3
      <3>2. CASE s = {}
        BY <3>1, <3>2 DEF NextSum
      <3>3. CASE s # {}
        <4>1. /\ s \ {Pick(s)} \in SUBSET Requests
              /\ Cardinality(s \ {Pick(s)}) # n + 1
          BY <1>0, <2>3, <3>3, PickedRequest
        <4>2. h[s \ {Pick(s)}] = f[s \ {Pick(s)}]
          BY <4>1
        <4> QED
          BY <3>1, <3>3, <4>2 DEF NextSum
      <3> QED
        BY <3>2, <3>3
    <2>4. UpTo(h, n + 1)
      BY <2>3
    <2>5. n + 1 \in Nat
      OBVIOUS
    <2> HIDE DEF h, UpTo
    <2> QED
      BY <2>2, <2>4, <2>5
  <1>3. Nat \subseteq L
    <2> HIDE DEF L
    <2> QED
      BY <1>1, <1>2, SetOfAllNumbers
  <1>4. Cardinality(Requests) \in L
    BY <1>0, <1>3
  <1>5. PICK f : f = [s \in SUBSET Requests |-> f[s]] /\ UpTo(f, Cardinality(Requests))
    BY <1>4
  <1>6. \A s \in SUBSET Requests : Cardinality(s) <= Cardinality(Requests)
    BY CostAssumption, FS_Subset
  <1>7. SumsUp(f, counter)
    BY <1>5, <1>6 DEF SumsUp
  <1> QED
    BY <1>7

(* A counter that counts no more is worth no more.                         *)
LEMMA SpentGrows ==
  ASSUME NEW few \in [Requests -> Nat], NEW many \in [Requests -> Nat],
         \A r \in Requests : few[r] <= many[r] /\ many[r] <= 1
  PROVE  Spent(few) \in Nat /\ Spent(many) \in Nat /\ Spent(few) <= Spent(many)
  <1> DEFINE f == CHOOSE x : SumsUp(x, few)
             g == CHOOSE x : SumsUp(x, many)
             F == {s \in SUBSET Requests : f[s] \in Nat /\ g[s] \in Nat /\ f[s] <= g[s]}
  <1>1. SumsUp(f, few) /\ SumsUp(g, many)
    BY SumExists
  <1>2. Spent(few) = f[Requests] /\ Spent(many) = g[Requests]
    BY SpentIsSum
  <1> HIDE DEF f, g
  <1>3. \A s \in SUBSET Requests : f[s] = NextSum(f, few, s) /\ g[s] = NextSum(g, many, s)
    BY <1>1 DEF SumsUp
  <1>4. ASSUME NEW r \in Requests
        PROVE  /\ Cost[r] * few[r] \in Nat /\ Cost[r] * many[r] \in Nat
               /\ Cost[r] * few[r] <= Cost[r] * many[r]
    <2>1. Cost[r] \in Nat /\ few[r] \in 0 .. 1 /\ many[r] \in 0 .. 1 /\ few[r] <= many[r]
      BY CostAssumption
    <2>2. CASE few[r] = 0
      BY <2>1, <2>2
    <2>3. CASE few[r] = 1 /\ many[r] = 1
      BY <2>1, <2>3
    <2> QED
      BY <2>1, <2>2, <2>3
  <1>5. ASSUME NEW s \in SUBSET Requests, \A u \in SUBSET s : u # s => u \in F
        PROVE  s \in F
    <2>1. CASE s = {}
      <3>1. f[s] = 0 /\ g[s] = 0
        BY <1>3, <2>1 DEF NextSum
      <3> QED
        BY <3>1
    <2>2. CASE s # {}
      <3> DEFINE rest == s \ {Pick(s)}
      <3>1. Pick(s) \in Requests /\ rest \in F
        BY <1>5, <2>2, PickedRequest
      <3>2. /\ f[s] = Cost[Pick(s)] * few[Pick(s)] + f[rest]
            /\ g[s] = Cost[Pick(s)] * many[Pick(s)] + g[rest]
        BY <1>3, <2>2 DEF NextSum
      <3>3. f[rest] \in Nat /\ g[rest] \in Nat /\ f[rest] <= g[rest]
        BY <3>1
      <3> HIDE DEF rest
      <3>4. f[s] \in Nat /\ g[s] \in Nat /\ f[s] <= g[s]
        BY <1>4, <3>1, <3>2, <3>3
      <3> QED
        BY <3>4
    <2> QED
      BY <2>1, <2>2
  <1>6. SUBSET Requests \subseteq F
    <2> HIDE DEF F
    <2> QED
      BY <1>5, CostAssumption, FamilyOfAllSubsets
  <1> QED
    BY <1>2, <1>6

-----------------------------------------------------------------------------
(* A rejection is earned.  Why: every value check_quota decides on counts  *)
(* once, and only requests of the scope that were answered, so that it is  *)
(* worth no more than they cost; and answers are never taken back.         *)

(* What a sound value is worth.                                            *)
LEMMA SoundValueIsCovered ==
  ASSUME TypeOK, NEW s \in Scopes, NEW value \in [Requests -> Nat],
         \A x \in Requests : /\ value[x] <= 1
                             /\ value[x] > 0 => x \in answered /\ s \in ScopesOf(x)
  PROVE  /\ Spent(value) \in Nat
         /\ Spent(CountedOnce(Of(s, answered))) \in Nat
         /\ Spent(value) <= Spent(CountedOnce(Of(s, answered)))
  <1> DEFINE real == CountedOnce(Of(s, answered))
  <1>1. real \in [Requests -> Nat]
    BY CountedOnceValue
  <1>2. ASSUME NEW x \in Requests
        PROVE  value[x] <= real[x] /\ real[x] <= 1
    <2>1. real[x] <= 1 /\ (real[x] > 0 <=> x \in Of(s, answered)) /\ real[x] \in Nat
      BY <1>1, CountedOnceValue
    <2>2. value[x] > 0 => x \in Of(s, answered)
      BY DEF Of
    <2>3. value[x] \in Nat /\ value[x] <= 1
      OBVIOUS
    <2> HIDE DEF real
    <2> QED
      BY <2>1, <2>2, <2>3
  <1> HIDE DEF real
  <1>3. Spent(value) \in Nat /\ Spent(real) \in Nat /\ Spent(value) <= Spent(real)
    BY <1>1, <1>2, SpentGrows
  <1> QED
    BY <1>3 DEF real

(* Answers only add to what was really spent.                              *)
LEMMA RealSpendGrows ==
  ASSUME NEW s, NEW before, NEW after, before \subseteq after
  PROVE  /\ Spent(CountedOnce(Of(s, before))) \in Nat
         /\ Spent(CountedOnce(Of(s, after))) \in Nat
         /\ Spent(CountedOnce(Of(s, before))) <= Spent(CountedOnce(Of(s, after)))
  <1> DEFINE few == CountedOnce(Of(s, before))
             many == CountedOnce(Of(s, after))
  <1>1. few \in [Requests -> Nat] /\ many \in [Requests -> Nat]
    BY CountedOnceValue
  <1>2. ASSUME NEW x \in Requests PROVE few[x] <= many[x] /\ many[x] <= 1
    BY DEF CountedOnce, Of
  <1> HIDE DEF few, many
  <1>3. Spent(few) \in Nat /\ Spent(many) \in Nat /\ Spent(few) <= Spent(many)
    BY <1>1, <1>2, SpentGrows
  <1> QED
    BY <1>3 DEF few, many

Reached(s, spenders) == Spent(CountedOnce(Of(s, spenders))) >= Limit[s]

(* At boot nothing is rejected.                                            *)
LEMMA RejectsInit == Init => RejectsOnlyRealSpend
  BY DEF Init, RejectsOnlyRealSpend

(* A decision names the limit of the scope it was about.                   *)
LEMMA DecisionIsEarned ==
  ASSUME TypeOK, NEW r \in Requests, NEW s \in {User(r), KeyOf[r]},
         NEW value, Decide(r, s, value),
         Spent(value) \in Nat,
         Spent(CountedOnce(Of(s, answered))) \in Nat,
         Spent(value) <= Spent(CountedOnce(Of(s, answered)))
  PROVE  /\ \A q \in Requests : q # r => step'[q] = step[q]
         /\ step'[r] = "user_exhausted" => Reached(User(r), answered)
         /\ step'[r] = "key_cap_reached" => Reached(KeyOf[r], answered)
  <1>1. Limit[s] \in Int
    BY LimitAssumption, ScopesOfRequest
  <1>2. Spent(value) >= Limit[s] => Reached(s, answered)
    BY <1>1 DEF Reached
  <1>3. \A q \in Requests : q # r => step'[q] = step[q]
    BY DEF Decide, Goto, TypeOK
  <1>4. User(r) # KeyOf[r]
    BY ScopesOfRequest
  <1>5. CASE Spent(value) >= Limit[s]
    <2>1. step'[r] = IF s = User(r) THEN "user_exhausted" ELSE "key_cap_reached"
      BY <1>5 DEF Decide, Goto, TypeOK
    <2> QED
      BY <1>2, <1>3, <1>4, <1>5, <2>1
  <1>6. CASE ~(Spent(value) >= Limit[s])
    <2>1. step'[r] \in {"key", "serving"}
      BY <1>6 DEF Decide, Goto, TypeOK
    <2> QED
      BY <1>3, <2>1
  <1> QED
    BY <1>5, <1>6

(* Every step keeps the rejections earned.                                 *)
LEMMA RejectsNext ==
  TypeOK /\ Sound /\ RejectsOnlyRealSpend /\ [Next]_vars => RejectsOnlyRealSpend'
  <1> USE DEF requestVars, writerVars, passVars
  <1> SUFFICES ASSUME TypeOK, Sound, RejectsOnlyRealSpend, [Next]_vars
               PROVE  RejectsOnlyRealSpend'
    OBVIOUS
  <1> DEFINE Earned(q, spenders) ==
               /\ step'[q] = "user_exhausted" => Reached(User(q), spenders)
               /\ step'[q] = "key_cap_reached" => Reached(KeyOf[q], spenders)
  <1>1. answered \subseteq answered'
    BY DEF Next, vars, Get, Warm, Answer, Leave, AddUser, IncrUser, AddKey, IncrKey,
           Record, Flush, Pass, Tick, SumByUser, SumByKey, EndPass, Reset, ResetTo,
           SetRedis, PassFails, Outage, Recover, Restart
  <1>2. ASSUME NEW s \in Scopes, Reached(s, answered) PROVE Reached(s, answered')
    <2>1. Limit[s] \in Int
      BY LimitAssumption
    <2> QED
      BY <1>1, <1>2, <2>1, RealSpendGrows DEF Reached
  <1>3. SUFFICES ASSUME NEW q \in Requests PROVE Earned(q, answered')
    BY DEF RejectsOnlyRealSpend, User, Reached
  <1>4. Earned(q, answered) => Earned(q, answered')
    BY <1>2, ScopesOfRequest
  <1>5. (step'[q] = step[q] \/ step'[q] \notin {"user_exhausted", "key_cap_reached"})
          => Earned(q, answered)
    BY DEF RejectsOnlyRealSpend, Reached
  <1>6. ASSUME NEW r \in Requests, Get(r) PROVE Earned(q, answered)
    <2> DEFINE s == CheckedScope(r)
    <2>1. s \in {User(r), KeyOf[r]} /\ s \in Scopes
      BY ScopesOfRequest DEF CheckedScope
    <2>2. CASE Redis /\ up
      <3>1. step'[q] = step[q] \/ step'[q] \in {"warm_user", "warm_key"}
        BY <1>6, <2>2 DEF Get, Goto, TypeOK
      <3> QED
        BY <1>5, <3>1
    <2>3. CASE ~(Redis /\ up)
      <3>1. Decide(r, s, memory[s])
        BY <1>6, <2>3 DEF Get
      <3>2. memory[s] \in [Requests -> Nat]
        BY <2>1 DEF TypeOK, Counters
      <3>3. \A x \in Requests :
              /\ memory[s][x] <= 1
              /\ memory[s][x] > 0 => x \in answered /\ s \in ScopesOf(x)
        BY <2>1 DEF Sound, MemoryOnce
      <3> HIDE DEF s
      <3>4. /\ \A p \in Requests : p # r => step'[p] = step[p]
            /\ step'[r] = "user_exhausted" => Reached(User(r), answered)
            /\ step'[r] = "key_cap_reached" => Reached(KeyOf[r], answered)
        <4>1. /\ Spent(memory[s]) \in Nat
              /\ Spent(CountedOnce(Of(s, answered))) \in Nat
              /\ Spent(memory[s]) <= Spent(CountedOnce(Of(s, answered)))
          BY <2>1, <3>2, <3>3, SoundValueIsCovered
        <4> QED
          BY <2>1, <3>1, <4>1, DecisionIsEarned
      <3> QED
        BY <1>5, <3>4
    <2> QED
      BY <2>2, <2>3
  <1>7. ASSUME NEW r \in Requests, Warm(r) PROVE Earned(q, answered)
    <2> DEFINE s == CheckedScope(r)
    <2>1. s \in {User(r), KeyOf[r]} /\ s \in Scopes
      BY ScopesOfRequest DEF CheckedScope
    <2>2. Decide(r, s, got[r]) /\ step[r] \in {"warm_user", "warm_key"}
      BY <1>7 DEF Warm
    <2>3. got[r] \in [Requests -> Nat]
      BY DEF TypeOK
    <2>4. \A x \in Requests :
            /\ got[r][x] <= 1
            /\ got[r][x] > 0 => x \in answered /\ s \in ScopesOf(x)
      BY <2>2 DEF Sound, GotOnce
    <2> HIDE DEF s
    <2>5. /\ \A p \in Requests : p # r => step'[p] = step[p]
          /\ step'[r] = "user_exhausted" => Reached(User(r), answered)
          /\ step'[r] = "key_cap_reached" => Reached(KeyOf[r], answered)
      <3>1. /\ Spent(got[r]) \in Nat
            /\ Spent(CountedOnce(Of(s, answered))) \in Nat
            /\ Spent(got[r]) <= Spent(CountedOnce(Of(s, answered)))
        BY <2>1, <2>3, <2>4, SoundValueIsCovered
      <3> QED
        BY <2>1, <2>2, <3>1, DecisionIsEarned
    <2> QED
      BY <1>5, <2>5
  <1>8. ASSUME NEW r \in Requests,
               Answer(r) \/ Leave(r) \/ AddUser(r) \/ IncrUser(r) \/ AddKey(r)
                 \/ IncrKey(r) \/ Record(r)
        PROVE  Earned(q, answered)
    <2>1. step'[q] = step[q] \/ step'[q] \in {"add_user", "over", "incr_user", "add_key",
                                             "incr_key", "record"}
      BY <1>8 DEF Answer, Leave, AddUser, IncrUser, AddKey, IncrKey, Record, Goto, TypeOK
    <2> QED
      BY <1>5, <2>1
  <1>9. ASSUME Restart PROVE Earned(q, answered)
    <2>1. step'[q] \in {"start", "over"}
      BY <1>9 DEF Restart
    <2> QED
      BY <1>5, <2>1
  <1>10. ASSUME Flush \/ Pass \/ PassFails \/ Outage \/ Recover \/ UNCHANGED vars
         PROVE  Earned(q, answered)
    <2>1. step' = step
      BY <1>10 DEF vars, Flush, Pass, Tick, SumByUser, SumByKey, EndPass, Reset, ResetTo,
                   SetRedis, PassFails, Outage, Recover
    <2> QED
      BY <1>5, <2>1
  <1> HIDE DEF Earned
  <1> QED
    BY <1>4, <1>6, <1>7, <1>8, <1>9, <1>10 DEF Next

(* A 402 names a limit that what the user, or the key, really spent has    *)
(* reached, whatever the costs and the limits (state.rs:329-352).          *)
THEOREM RejectionsAreEarned == Spec => []RejectsOnlyRealSpend
  <1>1. TypeOK /\ Sound /\ RejectsOnlyRealSpend /\ [Next]_vars
          => (TypeOK /\ Sound /\ RejectsOnlyRealSpend)'
    BY TypeNext, SoundNext, RejectsNext
  <1> QED
    BY TypeInit, SoundInit, RejectsInit, <1>1, PTL DEF Spec
=============================================================================
