----------------------------- MODULE UsageWriter -----------------------------
(***************************************************************************)
(* The batched usage recorder (usage/recorder.rs): finished requests offer *)
(* a record to a bounded channel without waiting; one background task      *)
(* moves records from the channel to a buffer and flushes the buffer to    *)
(* PostgreSQL when it holds a batch, at every tick of an interval, and a   *)
(* last time at shutdown.  A flush is two statements, each awaited: the    *)
(* INSERT of the batch and the UPDATE of last_used_at of its keys; either  *)
(* may fail, and the process may die between any two steps.                *)
(*                                                                         *)
(* A record is its identity, its key and its created_at.  MaxRestarts      *)
(* bounds the deaths of the process.                                       *)
(***************************************************************************)
EXTENDS SequencesExt, Integers

CONSTANTS
  Records,     \* one per finished request
  Keys,
  KeyOf,       \* the api_key_id of a record
  Capacity,    \* USAGE_CHANNEL_CAPACITY
  BatchSize,   \* USAGE_BATCH_SIZE
  MaxRestarts

ASSUME KeyOfAssumption == KeyOf \in [Records -> Keys]
ASSUME CapacityAssumption == Capacity \in Nat \ {0}
ASSUME BatchSizeAssumption == BatchSize \in Nat \ {0}
ASSUME RestartsAssumption == MaxRestarts \in Nat

VARIABLES
  clock,      \* Utc::now(), one tick per record stamped
  created,    \* created_at of a record, 0 before the request finished
  offered,    \* records handed to record(), or gone with their request
  queue,      \* the channel
  buffer,     \* run_writer's buffer
  batch,      \* the argument of the flush that is running
  writer,     \* where run_writer is
  closing,    \* the shutdown signal was sent
  draining,   \* run_writer left its loop: the running flush is the last
  rows,       \* usage_records
  last_used,  \* api_keys.last_used_at
  accepted,   \* history: every record the channel took
  dropped,    \* history: records of a failed INSERT or of a dead process
  restarts

vars == <<clock, created, offered, queue, buffer, batch, writer, closing,
          draining, rows, last_used, accepted, dropped, restarts>>

WriterSteps == {"select", "insert", "touch", "exited"}

(* Accepted and not decided yet, oldest first.                             *)
Inserting == IF writer = "insert" THEN batch ELSE <<>>
Pending == Inserting \o buffer \o queue

-----------------------------------------------------------------------------
Init ==
  /\ clock = 0
  /\ created = [r \in Records |-> 0]
  /\ offered = {}
  /\ queue = <<>>
  /\ buffer = <<>>
  /\ batch = <<>>
  /\ writer = "select"
  /\ closing = FALSE
  /\ draining = FALSE
  /\ rows = {}
  /\ last_used = [k \in Keys |-> 0]
  /\ accepted = <<>>
  /\ dropped = {}
  /\ restarts = 0

(* record_usage builds the record; another request may offer its own       *)
(* before this one is offered.                                             *)
Stamp(r) ==
  /\ ~closing
  /\ created[r] = 0
  /\ clock' = clock + 1
  /\ created' = [created EXCEPT ![r] = clock']
  /\ UNCHANGED <<offered, queue, buffer, batch, writer, closing, draining,
                 rows, last_used, accepted, dropped, restarts>>

(* try_send: a full channel refuses the record, and nobody waits.          *)
Record(r) ==
  /\ created[r] # 0
  /\ r \notin offered
  /\ offered' = offered \cup {r}
  /\ IF Len(queue) < Capacity
       THEN /\ queue' = Append(queue, r)
            /\ accepted' = Append(accepted, r)
       ELSE UNCHANGED <<queue, accepted>>
  /\ UNCHANGED <<clock, created, buffer, batch, writer, closing, draining,
                 rows, last_used, dropped, restarts>>

-----------------------------------------------------------------------------
(* run_writer.                                                             *)

(* sink.flush(take(&mut buffer)).                                          *)
FlushCloned(records) ==
  /\ batch' = records
  /\ writer' = "insert"
  /\ UNCHANGED buffer
Flush(records) ==
  /\ batch' = records
  /\ buffer' = <<>>
  /\ writer' = "insert"

BatchIsOverfull(records) == Len(records) > BatchSize
BatchIsFull(records) == Len(records) >= BatchSize

Recv ==
  /\ writer = "select"
  /\ queue # <<>>
  /\ queue' = Tail(queue)
  /\ LET received == Append(buffer, Head(queue)) IN
       IF BatchIsFull(received)
         THEN Flush(received)
         ELSE buffer' = received /\ UNCHANGED <<batch, writer>>
  /\ UNCHANGED <<clock, created, offered, closing, draining, rows, last_used,
                 accepted, dropped, restarts>>

TickFullOnly ==
  /\ writer = "select"
  /\ BatchIsFull(buffer)
  /\ Flush(buffer)
  /\ UNCHANGED <<clock, created, offered, queue, closing, draining, rows,
                 last_used, accepted, dropped, restarts>>
Tick ==
  /\ writer = "select"
  /\ buffer # <<>>
  /\ Flush(buffer)
  /\ UNCHANGED <<clock, created, offered, queue, closing, draining, rows,
                 last_used, accepted, dropped, restarts>>

(* The shutdown branch: what is queued joins the buffer, and the loop ends *)
(* with one more flush, which returns at once when there is nothing.       *)
DrainBufferOnly ==
  /\ writer = "select"
  /\ closing
  /\ draining' = TRUE
  /\ IF buffer = <<>>
       THEN writer' = "exited" /\ UNCHANGED <<buffer, batch>>
       ELSE Flush(buffer)
  /\ UNCHANGED <<clock, created, offered, queue, closing, rows, last_used,
                 accepted, dropped, restarts>>
DrainWithoutBreak ==
  /\ writer = "select"
  /\ closing
  /\ queue' = <<>>
  /\ buffer' = buffer \o queue
  /\ UNCHANGED <<clock, created, offered, batch, writer, closing, draining,
                 rows, last_used, accepted, dropped, restarts>>
Drain ==
  /\ writer = "select"
  /\ closing
  /\ draining' = TRUE
  /\ queue' = <<>>
  /\ IF buffer \o queue = <<>>
       THEN writer' = "exited" /\ UNCHANGED <<buffer, batch>>
       ELSE Flush(buffer \o queue)
  /\ UNCHANGED <<clock, created, offered, closing, rows, last_used, accepted,
                 dropped, restarts>>

(* The INSERT of the whole batch.  An error drops the batch, whether the   *)
(* statement took effect (the connection broke after it) or not.           *)
InsertFirst ==
  /\ writer = "insert"
  /\ writer' = "touch"
  /\ rows' = rows \cup {Head(batch)}
  /\ UNCHANGED <<clock, created, offered, queue, buffer, batch, closing,
                 draining, last_used, accepted, dropped, restarts>>
InsertRetrying ==
  /\ writer = "insert"
  /\ \E failed \in BOOLEAN, written \in BOOLEAN :
       /\ failed \/ written
       /\ rows' = IF written THEN rows \cup ToSet(batch) ELSE rows
       /\ writer' = IF failed THEN "insert" ELSE "touch"
  /\ UNCHANGED <<clock, created, offered, queue, buffer, batch, closing,
                 draining, last_used, accepted, dropped, restarts>>
Insert ==
  /\ writer = "insert"
  /\ writer' = "touch"
  /\ \E failed \in BOOLEAN, written \in BOOLEAN :
       /\ failed \/ written
       /\ rows' = IF written THEN rows \cup ToSet(batch) ELSE rows
       /\ dropped' = IF failed THEN dropped \cup ToSet(batch) ELSE dropped
  /\ UNCHANGED <<clock, created, offered, queue, buffer, batch, closing,
                 draining, last_used, accepted, restarts>>

(* The UPDATE: one timestamp, the newest of the batch, for all its keys.   *)
Newest(r) == \A s \in ToSet(batch) : created[s] <= created[r]
TouchedKeys == {KeyOf[r] : r \in ToSet(batch)}

Touch ==
  /\ writer = "touch"
  /\ \E newest \in ToSet(batch), failed \in BOOLEAN :
       /\ Newest(newest)
       /\ last_used' = [k \in Keys |-> IF ~failed /\ k \in TouchedKeys
                                        THEN created[newest] ELSE last_used[k]]
  /\ batch' = <<>>
  /\ writer' = IF draining THEN "exited" ELSE "select"
  /\ UNCHANGED <<clock, created, offered, queue, buffer, closing, draining,
                 rows, accepted, dropped, restarts>>

-----------------------------------------------------------------------------
(* main.rs: the listener stopped and the requests in flight are done.      *)
Shutdown ==
  /\ ~closing
  /\ \A r \in Records : created[r] # 0 => r \in offered
  /\ closing' = TRUE
  /\ UNCHANGED <<clock, created, offered, queue, buffer, batch, writer,
                 draining, rows, last_used, accepted, dropped, restarts>>

(* The process dies, or has exited, and starts again with empty memory.    *)
Restart ==
  /\ restarts < MaxRestarts
  /\ restarts' = restarts + 1
  /\ offered' = {r \in Records : created[r] # 0}
  /\ queue' = <<>>
  /\ buffer' = <<>>
  /\ batch' = <<>>
  /\ writer' = "select"
  /\ closing' = FALSE
  /\ draining' = FALSE
  /\ dropped' = dropped \cup ToSet(Pending)
  /\ UNCHANGED <<clock, created, rows, last_used, accepted>>

-----------------------------------------------------------------------------
Next ==
  \/ \E r \in Records : Stamp(r) \/ Record(r)
  \/ Recv \/ Tick \/ Drain \/ Insert \/ Touch
  \/ Shutdown \/ Restart

Spec == Init /\ [][Next]_vars

(* The writer is a spawned task: the runtime polls it, select! takes each  *)
(* of its ready branches sooner or later, a statement returns or errs.     *)
WriterFairness ==
  /\ WF_vars(Recv) /\ WF_vars(Tick) /\ WF_vars(Drain)
  /\ WF_vars(Insert) /\ WF_vars(Touch)
FairSpec == Spec /\ WriterFairness

-----------------------------------------------------------------------------
(* Properties.                                                             *)

TypeOK ==
  /\ clock \in Nat
  /\ created \in [Records -> Nat]
  /\ offered \subseteq Records
  /\ queue \in Seq(Records) /\ Len(queue) <= Capacity
  /\ buffer \in Seq(Records)
  /\ batch \in Seq(Records)
  /\ writer \in WriterSteps
  /\ closing \in BOOLEAN
  /\ draining \in BOOLEAN
  /\ rows \subseteq Records
  /\ last_used \in [Keys -> Nat]
  /\ accepted \in Seq(Records)
  /\ dropped \subseteq Records
  /\ restarts \in 0 .. MaxRestarts

(* What the writer holds is bounded whatever the database does ("a         *)
(* transient database problem never wedges the writer or grows memory",    *)
(* recorder.rs:208-209).  The largest INSERT is the shutdown drain's: one  *)
(* full channel and one incomplete batch, at 22 parameters a record out of *)
(* the 65535 PostgreSQL binds.                                             *)
MemoryBounded ==
  /\ Len(queue) <= Capacity
  /\ Len(buffer) < BatchSize
  /\ Len(batch) <= IF draining THEN Capacity + BatchSize - 1 ELSE BatchSize
  /\ writer \in {"insert", "touch"} => buffer = <<>>
  /\ draining => queue = <<>> /\ buffer = <<>>

(* No accepted record leaves memory undecided, is duplicated or overtakes  *)
(* another: what is pending is exactly the end of what was accepted,       *)
(* across the channel, the buffer and the batch being inserted.            *)
PendingIsSuffix ==
  LET decided == Len(accepted) - Len(Pending)
  IN  decided >= 0 /\ accepted = SubSeq(accepted, 1, decided) \o Pending

(* After a graceful shutdown every record the channel ever took is a row   *)
(* or belonged to a failed INSERT or a dead process: the drain leaves      *)
(* nothing behind ("flush any buffered usage records before exit",         *)
(* main.rs:74-76).                                                         *)
NothingLeftAtExit ==
  writer = "exited" => ToSet(accepted) \subseteq rows \cup dropped

(* A record the channel took is decided in the end, even when traffic      *)
(* stops below the batch size (recorder.rs:26).                            *)
AcceptedIsDecided ==
  \A r \in Records : r \in ToSet(queue) ~> r \in rows \cup dropped

(* The shutdown signal ends the writer, so main.rs:78 returns.             *)
ShutdownCompletes == closing ~> (writer = "exited" \/ ~closing)

(* The writer implements the ledger: it settles accepted records in order  *)
(* and by whole batches, and stores none twice.                            *)
Ledger ==
  INSTANCE UsageLedger WITH
    accepted <- accepted,
    settled <- Len(accepted) - Len(Pending),
    stored <- rows
ImplementsLedger == Ledger!Spec
=============================================================================
