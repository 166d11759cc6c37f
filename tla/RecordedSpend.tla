---------------------------- MODULE RecordedSpend ----------------------------
(***************************************************************************)
(* The usage writer and the spend counters as one process: a request whose *)
(* cost was added to the counters stamps a record and offers it to the     *)
(* writer's channel, the rows the writer inserts are those the             *)
(* reconciliation sums, and a death of the process takes both              *)
(* (proxy/router.rs:736-803, main.rs:38-81).  Where SpendCounters has a    *)
(* set of records and a flush of any part of it, this has UsageWriter.     *)
(***************************************************************************)
EXTENDS UsageWriter

CONSTANTS Users, Owner, Cost, Capped, Limit, MaxEvents  \* of SpendCounters

VARIABLES backend, memory, redis, up, step, got, answered, pass, sums, todo,
          setting, booting, reconciled, quiet, events   \* of SpendCounters

passState == <<pass, sums, todo, setting, booting, reconciled>>
counterVars == <<backend, memory, redis, up, step, got, answered, passState, quiet, events>>
recordedVars == <<vars, counterVars>>

(* The counters' view of the writer: what is pending, in no order.         *)
Counters == INSTANCE SpendCounters WITH Requests <- Records, queued <- ToSet(Pending)

RecordedInit == Init /\ Counters!Init

-----------------------------------------------------------------------------
(* Admission and record_usage up to the record.  Once the signal is sent   *)
(* nobody is admitted.                                                     *)
ServeRequest(r) ==
  /\ ~closing
  /\ UNCHANGED vars
  /\ \/ Counters!Get(r) \/ Counters!Warm(r) \/ Counters!Answer(r) \/ Counters!Leave(r)
     \/ Counters!AddUser(r) \/ Counters!IncrUser(r) \/ Counters!AddKey(r) \/ Counters!IncrKey(r)

(* The record is built after the two adds.                                 *)
StampRecord(r) == step[r] = "record" /\ Stamp(r) /\ UNCHANGED counterVars

OfferRecord(r) ==
  /\ step[r] = "record"
  /\ Record(r)
  /\ step' = [step EXCEPT ![r] = "over"]
  /\ quiet' = FALSE
  /\ UNCHANGED <<backend, memory, redis, up, got, answered, passState, events>>

-----------------------------------------------------------------------------
(* The writer's task; only its INSERT changes what the counters rely on.   *)
MoveRecords == (Recv \/ Tick \/ Drain \/ Touch) /\ UNCHANGED counterVars

InsertRecords ==
  /\ Insert
  /\ quiet' = FALSE
  /\ UNCHANGED <<backend, memory, redis, up, step, got, answered, passState, events>>

(* The reconciliation's task knows nothing of the writer but its rows.     *)
Reconcile ==
  /\ UNCHANGED vars
  /\ Counters!Pass \/ Counters!PassFails

-----------------------------------------------------------------------------
(* axum::serve returns once no request is in flight.                       *)
Idle == {"start", "over", "user_exhausted", "key_cap_reached"}
StopServing ==
  /\ ~booting
  /\ \A r \in Records : step[r] \in Idle
  /\ Shutdown
  /\ UNCHANGED counterVars

RedisGoesOrReturns == UNCHANGED vars /\ (Counters!Outage \/ Counters!Recover)

(* Both restart with what they keep: the rows, and what is in Redis.       *)
RestartProcess == Restart /\ Counters!Restart

-----------------------------------------------------------------------------
RecordedNext ==
  \/ \E r \in Records : ServeRequest(r) \/ StampRecord(r) \/ OfferRecord(r)
  \/ MoveRecords \/ InsertRecords \/ Reconcile
  \/ StopServing \/ RedisGoesOrReturns \/ RestartProcess

RecordedSpec == RecordedInit /\ [][RecordedNext]_recordedVars

-----------------------------------------------------------------------------
(* The real writer is one that SpendCounters allows for: a record handed   *)
(* over becomes a row or is lost, once, and never both a row and pending   *)
(* (recorder.rs:214-240).  So what the counters promise holds with the     *)
(* channel, the buffer, the batches and their drain.                       *)
ImplementsCounters == Counters!Spec
=============================================================================
