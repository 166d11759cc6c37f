-------------------------- MODULE UsageWriter_proofs --------------------------
(***************************************************************************)
(* What the usage writer guarantees for every set of records, every        *)
(* channel capacity and every batch size.                                  *)
(***************************************************************************)
EXTENDS RecordedSpend, SequenceTheorems, TLAPS

(* Once the shutdown signal is sent no request is left to offer a record,  *)
(* and the loop is left for good only because of that signal.              *)
QuietAfterShutdown ==
  /\ draining => closing
  /\ closing => \A r \in Records : created[r] # 0 => r \in offered
  /\ writer = "exited" => draining

(* The form of PendingIsSuffix that is preserved by concatenation.         *)
SuffixInv == \E decided \in Seq(Records) : accepted = decided \o Pending

DecidedOrPending == ToSet(accepted) \subseteq rows \cup dropped \cup ToSet(Pending)

IInv == TypeOK /\ QuietAfterShutdown /\ MemoryBounded /\ SuffixInv /\ DecidedOrPending

-----------------------------------------------------------------------------
(* The elements of a sequence are those of its parts.                      *)
LEMMA ToSetConcat ==
  ASSUME NEW S, NEW s \in Seq(S), NEW t \in Seq(S)
  PROVE  /\ ToSet(s) \subseteq S
         /\ ToSet(s \o t) = ToSet(s) \cup ToSet(t)
PROOF
  <1>1. ToSet(s) \subseteq S
    BY DEF ToSet
  <1>2. /\ s \o t \in Seq(S)
        /\ Len(s \o t) = Len(s) + Len(t)
        /\ \A i \in 1 .. Len(s) + Len(t) :
             (s \o t)[i] = IF i <= Len(s) THEN s[i] ELSE t[i - Len(s)]
    BY ConcatProperties
  <1>3. ToSet(s \o t) \subseteq ToSet(s) \cup ToSet(t)
    BY <1>2 DEF ToSet
  <1>4. ToSet(s) \subseteq ToSet(s \o t)
    BY <1>2 DEF ToSet
  <1>5. ToSet(t) \subseteq ToSet(s \o t)
    <2>1. SUFFICES ASSUME NEW i \in 1 .. Len(t)
                   PROVE  t[i] \in ToSet(s \o t)
      BY DEF ToSet
    <2> DEFINE j == Len(s) + i
    <2>2. j \in 1 .. Len(s) + Len(t) /\ ~(j <= Len(s)) /\ j - Len(s) = i
      BY LenProperties
    <2>3. (s \o t)[j] = t[i]
      BY <1>2, <2>2
    <2>4. j \in DOMAIN (s \o t)
      BY <1>2, <2>2, LenProperties
    <2> HIDE DEF j
    <2> QED  BY <2>3, <2>4 DEF ToSet
  <1> QED  BY <1>1, <1>3, <1>4, <1>5

(* Appending is concatenating.                                             *)
LEMMA AppendFacts ==
  ASSUME NEW S, NEW s \in Seq(S), NEW e \in S
  PROVE  /\ Append(s, e) \in Seq(S)
         /\ Append(s, e) = s \o <<e>>
         /\ Len(Append(s, e)) = Len(s) + 1
         /\ <<e>> \in Seq(S)
PROOF BY AppendProperties, AppendIsConcat

(* Moving the head of a sequence to the end of the one before it leaves    *)
(* their concatenation as it was.                                          *)
LEMMA MoveHead ==
  ASSUME NEW S, NEW s \in Seq(S), NEW q \in Seq(S), q # <<>>
  PROVE  /\ Head(q) \in S /\ Tail(q) \in Seq(S)
         /\ Len(Tail(q)) = Len(q) - 1
         /\ Append(s, Head(q)) \o Tail(q) = s \o q
PROOF
  <1>1. Head(q) \in S /\ Tail(q) \in Seq(S) /\ Len(Tail(q)) = Len(q) - 1
    BY HeadTailProperties
  <1>2. q = <<Head(q)>> \o Tail(q)
    BY <1>1
  <1>3. <<Head(q)>> \in Seq(S) /\ Append(s, Head(q)) = s \o <<Head(q)>>
    BY <1>1, AppendFacts
  <1>4. (s \o <<Head(q)>>) \o Tail(q) = s \o (<<Head(q)>> \o Tail(q))
    BY <1>1, <1>3, ConcatAssociative
  <1> QED  BY <1>1, <1>2, <1>3, <1>4

-----------------------------------------------------------------------------
(* Type correctness and the bounds.                                        *)

(* The elements of what the writer holds are records.                      *)
LEMMA BatchElements ==
  ASSUME TypeOK
  PROVE  ToSet(batch) \subseteq Records /\ ToSet(Pending) \subseteq Records
PROOF
  <1>1. Inserting \in Seq(Records)
    BY EmptySeq DEF TypeOK, Inserting
  <1>2. Pending \in Seq(Records)
    BY <1>1, ConcatProperties DEF TypeOK, Pending
  <1> QED  BY <1>2, ToSetConcat DEF TypeOK

(* Every step keeps the types.                                             *)
LEMMA TypeNext ==
  ASSUME TypeOK, [Next]_vars
  PROVE  TypeOK'
PROOF
  <1> USE DEF TypeOK, WriterSteps
  <1> USE CapacityAssumption, BatchSizeAssumption, RestartsAssumption, KeyOfAssumption
  <1>0. <<>> \in Seq(Records) /\ Len(<<>>) = 0
    BY EmptySeq
  <1>1. ASSUME NEW r \in Records, Stamp(r) PROVE TypeOK'
    BY <1>1 DEF Stamp
  <1>2. ASSUME NEW r \in Records, Record(r) PROVE TypeOK'
    <2>1. Len(queue) < Capacity =>
            /\ Append(queue, r) \in Seq(Records)
            /\ Len(Append(queue, r)) <= Capacity
            /\ Append(accepted, r) \in Seq(Records)
      BY AppendFacts, LenProperties
    <2> QED  BY <1>2, <2>1 DEF Record
  <1>3. CASE Recv
    <2>1. /\ Tail(queue) \in Seq(Records) /\ Len(Tail(queue)) <= Capacity
          /\ Append(buffer, Head(queue)) \in Seq(Records)
      BY <1>3, MoveHead, AppendFacts, LenProperties DEF Recv
    <2> QED  BY <1>3, <2>1, <1>0 DEF Recv, Flush
  <1>4. CASE Tick
    BY <1>4, <1>0 DEF Tick, Flush
  <1>5. CASE Drain
    <2>1. buffer \o queue \in Seq(Records)
      BY ConcatProperties
    <2>2. CASE buffer \o queue = <<>>
      BY <1>5, <2>2, <1>0 DEF Drain
    <2>3. CASE buffer \o queue # <<>>
      <3> DEFINE remaining == buffer \o queue
      <3>1. remaining \in Seq(Records)
        BY <2>1
      <3>2. /\ draining' = TRUE /\ queue' = <<>>
            /\ batch' = remaining /\ buffer' = <<>> /\ writer' = "insert"
            /\ UNCHANGED <<clock, created, offered, closing, rows, last_used,
                           accepted, dropped, restarts>>
        BY <1>5, <2>3 DEF Drain, Flush
      <3> HIDE DEF remaining
      <3> QED  BY <3>1, <3>2, <1>0
    <2> QED  BY <2>2, <2>3
  <1>6. CASE Insert
    BY <1>6, BatchElements DEF Insert
  <1>7. CASE Touch
    BY <1>7, BatchElements, <1>0 DEF Touch
  <1>8. CASE Shutdown
    BY <1>8 DEF Shutdown
  <1>9. CASE Restart
    <2>1. restarts' \in 0 .. MaxRestarts
      BY <1>9 DEF Restart
    <2>2. dropped' \subseteq Records /\ offered' \subseteq Records
      BY <1>9, BatchElements DEF Restart
    <2>3. /\ queue' = <<>> /\ buffer' = <<>> /\ batch' = <<>>
          /\ writer' = "select" /\ closing' = FALSE /\ draining' = FALSE
          /\ UNCHANGED <<clock, created, rows, last_used, accepted>>
      BY <1>9 DEF Restart
    <2>4. /\ queue' \in Seq(Records) /\ Len(queue') <= Capacity
          /\ buffer' \in Seq(Records) /\ batch' \in Seq(Records)
      BY <2>3, <1>0
    <2>5. closing' \in BOOLEAN /\ draining' \in BOOLEAN /\ writer' \in WriterSteps
      BY <2>3
    <2> QED  BY <2>1, <2>2, <2>3, <2>4, <2>5
  <1>10. CASE UNCHANGED vars
    BY <1>10 DEF vars
  <1> QED  BY <1>1, <1>2, <1>3, <1>4, <1>5, <1>6, <1>7, <1>8, <1>9, <1>10 DEF Next

(* The writer is only in its loop before it drains, so a drain follows at  *)
(* most one full channel and one incomplete batch.                         *)
LEMMA BoundsNext ==
  ASSUME TypeOK, QuietAfterShutdown, MemoryBounded, [Next]_vars
  PROVE  QuietAfterShutdown' /\ MemoryBounded'
PROOF
  <1> USE DEF TypeOK, WriterSteps, QuietAfterShutdown, MemoryBounded
  <1> USE CapacityAssumption, BatchSizeAssumption, LenProperties
  <1>0. <<>> \in Seq(Records) /\ Len(<<>>) = 0
    BY EmptySeq
  <1>1. ASSUME NEW r \in Records, Stamp(r) PROVE QuietAfterShutdown' /\ MemoryBounded'
    BY <1>1 DEF Stamp
  <1>2. ASSUME NEW r \in Records, Record(r) PROVE QuietAfterShutdown' /\ MemoryBounded'
    BY <1>2 DEF Record
  <1>3. CASE Recv
    <2>1. ~draining
      BY <1>3 DEF Recv
    <2>2. /\ Len(Append(buffer, Head(queue))) = Len(buffer) + 1
          /\ Len(<<>>) = 0
      BY <1>3, MoveHead, AppendFacts DEF Recv
    <2> QED  BY <1>3, <2>1, <2>2 DEF Recv, Flush, BatchIsFull
  <1>4. CASE Tick
    BY <1>4, <1>0 DEF Tick, Flush
  <1>5. CASE Drain
    <2>1. Len(buffer \o queue) = Len(buffer) + Len(queue) /\ Len(<<>>) = 0
      BY ConcatProperties
    <2>2. ~draining => Len(batch) <= BatchSize
      OBVIOUS
    <2>3. buffer \o queue = <<>> => buffer = <<>>
      BY <2>1, <1>0
    <2>4. QuietAfterShutdown'
      BY <1>5 DEF Drain
    <2>5. queue' = <<>> /\ buffer' = <<>> /\ draining'
      BY <1>5, <2>3 DEF Drain, Flush
    <2>6. Len(batch') <= Capacity + BatchSize - 1
      <3>1. CASE buffer \o queue = <<>>
        BY <1>5, <2>2, <3>1 DEF Drain
      <3>2. CASE buffer \o queue # <<>>
        <4>1. batch' = buffer \o queue
          BY <1>5, <3>2 DEF Drain, Flush
        <4> QED
          BY <2>1, <4>1
      <3> QED
        BY <3>1, <3>2
    <2> QED
      BY <1>0, <2>4, <2>5, <2>6
  <1>6. CASE Insert
    BY <1>6 DEF Insert
  <1>7. CASE Touch
    BY <1>7, <1>0 DEF Touch
  <1>8. CASE Shutdown
    BY <1>8 DEF Shutdown
  <1>9. CASE Restart
    BY <1>9, <1>0 DEF Restart
  <1>10. CASE UNCHANGED vars
    BY <1>10 DEF vars
  <1> QED  BY <1>1, <1>2, <1>3, <1>4, <1>5, <1>6, <1>7, <1>8, <1>9, <1>10 DEF Next

-----------------------------------------------------------------------------
(* Order and accounting.                                                   *)

(* How each step changes what is pending: a record joins at the end, an    *)
(* INSERT takes the batch off the front, a restart empties it, and moving  *)
(* records from the channel to the buffer to the batch changes nothing.    *)
LEMMA PendingSteps ==
  ASSUME TypeOK, MemoryBounded, QuietAfterShutdown
  PROVE  /\ Pending \in Seq(Records)
         /\ \A r \in Records :
              Record(r) => \/ /\ Pending' = Append(Pending, r)
                             /\ accepted' = Append(accepted, r)
                          \/ UNCHANGED <<Pending, accepted>>
         /\ Recv \/ Tick \/ Drain \/ Touch \/ Shutdown => UNCHANGED Pending
         /\ Insert => Pending' \in Seq(Records) /\ Pending = batch \o Pending'
         /\ Restart => Pending' = <<>>
PROOF
  <1> USE DEF TypeOK
  <1>0. <<>> \in Seq(Records) /\ <<>> \o <<>> = <<>>
    BY EmptySeq, ConcatEmptySeq
  <1>1. /\ Inserting \in Seq(Records)
        /\ Inserting \o buffer \in Seq(Records)
        /\ Pending \in Seq(Records)
    <2>1. Inserting \in Seq(Records)
      BY <1>0 DEF Inserting
    <2> QED  BY <2>1, ConcatProperties DEF Pending
  <1>2. ASSUME NEW r \in Records, Record(r)
        PROVE  \/ /\ Pending' = Append(Pending, r)
                  /\ accepted' = Append(accepted, r)
               \/ UNCHANGED <<Pending, accepted>>
    <2>1. CASE Len(queue) < Capacity
      <3> DEFINE front == Inserting \o buffer
      <3>1. front \in Seq(Records) /\ front' = front
        BY <1>1, <1>2 DEF Record, Inserting
      <3>2. queue' = Append(queue, r) /\ accepted' = Append(accepted, r)
        BY <1>2, <2>1 DEF Record
      <3>3. <<r>> \in Seq(Records) /\ Append(queue, r) = queue \o <<r>>
        BY AppendFacts
      <3>4. Pending = front \o queue /\ Pending' = front \o queue'
        BY <3>1 DEF Pending
      <3> DEFINE last == <<r>>
      <3>7. last \in Seq(Records)
        BY <3>3
      <3> HIDE DEF front, last
      <3>8. queue \in Seq(Records)
        OBVIOUS
      <3>5. (front \o queue) \o last = front \o (queue \o last)
        BY ONLY <3>1, <3>7, <3>8, ConcatAssociative
      <3>6. Append(Pending, r) = Pending \o <<r>>
        BY <1>1, AppendFacts
      <3> QED  BY <3>2, <3>3, <3>4, <3>5, <3>6 DEF last
    <2>2. CASE ~(Len(queue) < Capacity)
      BY <1>2, <2>2 DEF Record, Pending, Inserting
    <2> QED  BY <2>1, <2>2
  <1>3. ASSUME writer = "select"
        PROVE  Pending = buffer \o queue
    BY <1>3, ConcatEmptySeq DEF Pending, Inserting
  <1>4. ASSUME NEW records \in Seq(Records), Flush(records), queue' \in Seq(Records)
        PROVE  Pending' = records \o queue'
    <2>1. Pending' = (records \o <<>>) \o queue'
      BY <1>4 DEF Flush, Pending, Inserting
    <2>2. records \o <<>> = records
      BY ConcatEmptySeq
    <2> QED  BY <2>1, <2>2
  <1>5. ASSUME Recv PROVE UNCHANGED Pending
    <2> DEFINE received == Append(buffer, Head(queue))
    <2>1. /\ received \in Seq(Records) /\ queue' = Tail(queue)
          /\ queue' \in Seq(Records) /\ received \o queue' = buffer \o queue
      BY <1>5, MoveHead, AppendFacts DEF Recv
    <2>2. Flush(received) \/ (buffer' = received /\ writer' = "select")
      BY <1>5 DEF Recv
    <2>3. Pending = buffer \o queue
      BY <1>3, <1>5 DEF Recv
    <2> HIDE DEF received
    <2>4. CASE Flush(received)
      BY <2>1, <2>3, <2>4, <1>4
    <2>5. CASE buffer' = received /\ writer' = "select"
      <3>1. Pending' = (<<>> \o received) \o queue'
        BY <2>5 DEF Pending, Inserting
      <3>2. <<>> \o received = received
        BY <2>1, ConcatEmptySeq
      <3> QED  BY <3>1, <3>2, <2>1, <2>3
    <2> QED  BY <2>2, <2>4, <2>5
  <1>6. ASSUME Tick PROVE UNCHANGED Pending
    BY <1>6, <1>3, <1>4 DEF Tick
  <1>7. ASSUME Drain PROVE UNCHANGED Pending
    <2> DEFINE remaining == buffer \o queue
    <2>1. remaining \in Seq(Records) /\ Pending = remaining /\ queue' = <<>>
      BY <1>7, <1>3, ConcatProperties DEF Drain
    <2>2. \/ Flush(remaining)
          \/ remaining = <<>> /\ writer' = "exited" /\ buffer' = buffer
      BY <1>7 DEF Drain
    <2>3. remaining = <<>> => buffer = <<>>
      BY ConcatEqualIffEmpty
    <2> HIDE DEF remaining
    <2>4. CASE Flush(remaining)
      <3>1. Pending' = remaining \o <<>>
        BY <2>1, <2>4, <1>4, <1>0
      <3> QED  BY <3>1, <2>1, ConcatEmptySeq
    <2>5. CASE remaining = <<>> /\ writer' = "exited" /\ buffer' = buffer
      BY <2>1, <2>3, <2>5, <1>0 DEF Pending, Inserting
    <2> QED  BY <2>2, <2>4, <2>5
  <1>8. ASSUME Touch PROVE UNCHANGED Pending
    BY <1>8 DEF Touch, Pending, Inserting
  <1>9. ASSUME Shutdown PROVE UNCHANGED Pending
    BY <1>9 DEF Shutdown, Pending, Inserting
  <1>10. ASSUME Insert
         PROVE  Pending' \in Seq(Records) /\ Pending = batch \o Pending'
    <2>1. /\ Pending = (batch \o buffer) \o queue
          /\ Pending' = (<<>> \o buffer) \o queue
      BY <1>10 DEF Insert, Pending, Inserting
    <2>2. <<>> \o buffer = buffer /\ buffer \o queue \in Seq(Records)
      BY ConcatEmptySeq, ConcatProperties
    <2>3. batch \in Seq(Records) /\ buffer \in Seq(Records) /\ queue \in Seq(Records)
      OBVIOUS
    <2>4. (batch \o buffer) \o queue = batch \o (buffer \o queue)
      BY ONLY <2>3, ConcatAssociative
    <2> QED  BY <2>1, <2>2, <2>4
  <1>11. ASSUME Restart PROVE Pending' = <<>>
    BY <1>11, <1>0 DEF Restart, Pending, Inserting
  <1> QED  BY <1>1, <1>2, <1>5, <1>6, <1>7, <1>8, <1>9, <1>10, <1>11

(* Accepted is what was decided followed by what is pending.               *)
LEMMA SuffixNext ==
  ASSUME TypeOK, MemoryBounded, QuietAfterShutdown, SuffixInv, [Next]_vars
  PROVE  SuffixInv'
PROOF
  <1>1. PICK decided \in Seq(Records) : accepted = decided \o Pending
    BY DEF SuffixInv
  <1>2. Pending \in Seq(Records) /\ accepted \in Seq(Records) /\ batch \in Seq(Records)
    BY PendingSteps DEF TypeOK
  <1>3. ASSUME UNCHANGED <<Pending, accepted>> PROVE SuffixInv'
    BY <1>1, <1>3 DEF SuffixInv
  <1>4. ASSUME NEW r \in Records, Record(r) PROVE SuffixInv'
    <2>1. CASE UNCHANGED <<Pending, accepted>>
      BY <1>3, <2>1
    <2>2. CASE Pending' = Append(Pending, r) /\ accepted' = Append(accepted, r)
      <3> DEFINE last == <<r>>
      <3>1. /\ last \in Seq(Records)
            /\ Append(Pending, r) = Pending \o last
            /\ Append(accepted, r) = accepted \o last
        BY <1>2, AppendFacts
      <3> HIDE DEF last
      <3>2. (decided \o Pending) \o last = decided \o (Pending \o last)
        BY ONLY <1>1, <1>2, <3>1, ConcatAssociative
      <3> QED  BY <1>1, <2>2, <3>1, <3>2 DEF SuffixInv
    <2> QED  BY <1>4, <2>1, <2>2, PendingSteps
  <1>5. ASSUME Insert PROVE SuffixInv'
    <2>1. Pending' \in Seq(Records) /\ Pending = batch \o Pending'
      BY <1>5, PendingSteps
    <2>2. decided \o batch \in Seq(Records)
      BY <1>1, <1>2, ConcatProperties
    <2> DEFINE rest == Pending'
    <2>3. rest \in Seq(Records) /\ Pending = batch \o rest
      BY <2>1
    <2> HIDE DEF rest
    <2>4. (decided \o batch) \o rest = decided \o (batch \o rest)
      BY ONLY <1>1, <1>2, <2>3, ConcatAssociative
    <2>5. accepted' = (decided \o batch) \o rest
      BY <1>1, <1>5, <2>3, <2>4 DEF Insert
    <2> QED  BY <2>2, <2>5 DEF SuffixInv, rest
  <1>6. ASSUME Restart PROVE SuffixInv'
    <2>1. Pending' = <<>> /\ accepted' = accepted
      BY <1>6, PendingSteps DEF Restart
    <2>2. accepted = accepted \o <<>>
      BY <1>2, ConcatEmptySeq
    <2> QED  BY <1>2, <2>1, <2>2 DEF SuffixInv
  <1>7. ASSUME NEW r \in Records, Stamp(r) PROVE SuffixInv'
    BY <1>3, <1>7 DEF Stamp, Pending, Inserting
  <1>8. ASSUME Recv \/ Tick \/ Drain \/ Touch \/ Shutdown PROVE SuffixInv'
    <2>1. UNCHANGED accepted
      BY <1>8 DEF Recv, Tick, Drain, Touch, Shutdown
    <2> QED  BY <1>3, <1>8, <2>1, PendingSteps
  <1>9. ASSUME UNCHANGED vars PROVE SuffixInv'
    BY <1>3, <1>9 DEF vars, Pending, Inserting
  <1> QED  BY <1>4, <1>5, <1>6, <1>7, <1>8, <1>9 DEF Next

(* A record leaves what is pending only for the table or for `dropped`.    *)
LEMMA DecidedNext ==
  ASSUME TypeOK, MemoryBounded, QuietAfterShutdown, DecidedOrPending, [Next]_vars
  PROVE  DecidedOrPending'
PROOF
  <1>1. Pending \in Seq(Records) /\ accepted \in Seq(Records) /\ batch \in Seq(Records)
    BY PendingSteps DEF TypeOK
  <1>2. ASSUME UNCHANGED <<Pending, accepted, rows, dropped>> PROVE DecidedOrPending'
    BY <1>2 DEF DecidedOrPending
  <1>3. ASSUME NEW r \in Records, Record(r) PROVE DecidedOrPending'
    <2>1. UNCHANGED <<rows, dropped>>
      BY <1>3 DEF Record
    <2>2. CASE UNCHANGED <<Pending, accepted>>
      BY <1>2, <2>1, <2>2
    <2>3. CASE Pending' = Append(Pending, r) /\ accepted' = Append(accepted, r)
      <3> DEFINE last == <<r>>
      <3>1. /\ last \in Seq(Records)
            /\ Append(Pending, r) = Pending \o last
            /\ Append(accepted, r) = accepted \o last
        BY <1>1, AppendFacts
      <3> HIDE DEF last
      <3>2. /\ ToSet(Pending \o last) = ToSet(Pending) \cup ToSet(last)
            /\ ToSet(accepted \o last) = ToSet(accepted) \cup ToSet(last)
        BY <1>1, <3>1, ToSetConcat
      <3> QED  BY <2>1, <2>3, <3>1, <3>2 DEF DecidedOrPending
    <2> QED  BY <1>3, <2>2, <2>3, PendingSteps
  <1>4. ASSUME Insert PROVE DecidedOrPending'
    <2> DEFINE rest == Pending'
    <2>1. rest \in Seq(Records) /\ Pending = batch \o rest
      BY <1>4, PendingSteps
    <2>2. /\ UNCHANGED accepted
          /\ rows \subseteq rows' /\ dropped \subseteq dropped'
          /\ ToSet(batch) \subseteq rows' \cup dropped'
      BY <1>4 DEF Insert
    <2> HIDE DEF rest
    <2>3. ToSet(Pending) = ToSet(batch) \cup ToSet(rest)
      BY <1>1, <2>1, ToSetConcat
    <2>4. ToSet(accepted)' = ToSet(accepted)
      BY <2>2
    <2> QED  BY <2>2, <2>3, <2>4 DEF DecidedOrPending, rest
  <1>5. ASSUME Restart PROVE DecidedOrPending'
    BY <1>5 DEF Restart, DecidedOrPending
  <1>6. ASSUME NEW r \in Records, Stamp(r) PROVE DecidedOrPending'
    BY <1>2, <1>6 DEF Stamp, Pending, Inserting
  <1>7. ASSUME Recv \/ Tick \/ Drain \/ Touch \/ Shutdown PROVE DecidedOrPending'
    <2>1. UNCHANGED <<accepted, rows, dropped>>
      BY <1>7 DEF Recv, Tick, Drain, Touch, Shutdown
    <2> QED  BY <1>2, <1>7, <2>1, PendingSteps
  <1>8. ASSUME UNCHANGED vars PROVE DecidedOrPending'
    BY <1>2, <1>8 DEF vars, Pending, Inserting
  <1> QED  BY <1>3, <1>4, <1>5, <1>6, <1>7, <1>8 DEF Next

-----------------------------------------------------------------------------
(* The inductive invariant holds at boot.                                  *)
LEMMA InitInv == Init => IInv
PROOF
  <1> SUFFICES ASSUME Init PROVE IInv
    OBVIOUS
  <1> USE DEF Init
  <1>1. <<>> \in Seq(Records) /\ Len(<<>>) = 0 /\ <<>> \o <<>> = <<>>
    BY EmptySeq, ConcatEmptySeq
  <1>2. TypeOK
    <2>1. Len(queue) <= Capacity /\ restarts \in 0 .. MaxRestarts
      BY <1>1, CapacityAssumption, RestartsAssumption
    <2>2. /\ queue \in Seq(Records) /\ buffer \in Seq(Records)
          /\ batch \in Seq(Records) /\ accepted \in Seq(Records)
      BY <1>1
    <2> QED  BY <2>1, <2>2 DEF TypeOK, WriterSteps
  <1>3. QuietAfterShutdown
    BY DEF QuietAfterShutdown
  <1>4. MemoryBounded
    BY <1>1, CapacityAssumption, BatchSizeAssumption DEF MemoryBounded
  <1>5. Pending = <<>>
    BY <1>1 DEF Pending, Inserting
  <1>6. SuffixInv
    BY <1>1, <1>5 DEF SuffixInv
  <1>7. DecidedOrPending
    BY <1>5 DEF DecidedOrPending
  <1> QED  BY <1>2, <1>3, <1>4, <1>6, <1>7 DEF IInv

(* No step breaks any part of it.                                          *)
LEMMA InvNext == IInv /\ [Next]_vars => IInv'
PROOF BY TypeNext, BoundsNext, SuffixNext, DecidedNext DEF IInv

(* So it holds in every reachable state.                                   *)
LEMMA InductiveInvariant == Spec => []IInv
PROOF BY InitInv, InvNext, PTL DEF Spec

(* The channel, the buffer and the batch only ever hold records; the       *)
(* channel never holds more than its capacity.                             *)
THEOREM TypeCorrect == Spec => []TypeOK
PROOF BY InductiveInvariant, PTL DEF IInv

(* No flush is larger than a batch, except the last one of a shutdown,     *)
(* which is one channel and one incomplete batch at most.                  *)
THEOREM WriterIsBounded == Spec => []MemoryBounded
PROOF BY InductiveInvariant, PTL DEF IInv

(* Records leave the writer in the order the channel took them, none is    *)
(* duplicated or skipped.                                                  *)
THEOREM PendingIsAlwaysSuffix == Spec => []PendingIsSuffix
PROOF
  <1>1. IInv => PendingIsSuffix
    <2> SUFFICES ASSUME IInv PROVE PendingIsSuffix
      OBVIOUS
    <2>1. PICK decided \in Seq(Records) : accepted = decided \o Pending
      BY DEF IInv, SuffixInv
    <2>2. Pending \in Seq(Records)
      BY PendingSteps DEF IInv
    <2>3. /\ Len(accepted) = Len(decided) + Len(Pending)
          /\ Len(decided) \in Nat /\ Len(Pending) \in Nat
      BY <2>1, <2>2, ConcatProperties, LenProperties
    <2>4. SubSeq(accepted, 1, Len(decided)) = decided
      <3>1. CASE Len(decided) = 0
        BY <3>1, <2>1, <2>3, SubSeqEmpty, EmptySeq
      <3>2. CASE Len(decided) # 0
        <4>1. 1 \in 1 .. Len(decided) /\ Len(decided) \in 1 .. Len(decided)
          BY <3>2, <2>3
        <4> QED  BY ONLY <4>1, <2>1, <2>2, SubSeqOfConcat1, SubSeqFull
      <3> QED  BY <3>1, <3>2
    <2> QED  BY <2>1, <2>3, <2>4 DEF PendingIsSuffix
  <1> QED  BY <1>1, InductiveInvariant, PTL

(* A graceful shutdown leaves no accepted record behind.                   *)
THEOREM GracefulShutdown == Spec => []NothingLeftAtExit
PROOF
  <1>1. IInv => NothingLeftAtExit
    <2> SUFFICES ASSUME IInv, writer = "exited"
                 PROVE  ToSet(accepted) \subseteq rows \cup dropped
      BY DEF NothingLeftAtExit
    <2>1. queue = <<>> /\ buffer = <<>>
      BY DEF IInv, QuietAfterShutdown, MemoryBounded
    <2>2. Pending = <<>>
      BY <2>1 DEF Pending, Inserting
    <2>3. ToSet(<<>>) = {}
      BY DEF ToSet
    <2> QED  BY <2>2, <2>3 DEF IInv, DecidedOrPending
  <1> QED  BY <1>1, InductiveInvariant, PTL

-----------------------------------------------------------------------------
(* The writer implements the ledger.                                       *)

(* A record is accepted at most once, even across a restart, since it was  *)
(* offered; and an INSERT has something to insert.                         *)
OfferedOnce ==
  /\ ToSet(accepted) \subseteq offered
  /\ \A r \in offered : created[r] # 0
  /\ writer = "insert" => batch # <<>>

LEMMA OfferedNext ==
  ASSUME TypeOK, OfferedOnce, [Next]_vars
  PROVE  OfferedOnce'
PROOF
  <1> USE DEF TypeOK, OfferedOnce
  <1>1. ASSUME NEW r \in Records, Stamp(r) PROVE OfferedOnce'
    BY <1>1 DEF Stamp
  <1>2. ASSUME NEW r \in Records, Record(r) PROVE OfferedOnce'
    <2>1. ToSet(Append(accepted, r)) = ToSet(accepted) \cup {r}
      <3> DEFINE last == <<r>>
      <3>1. last \in Seq(Records) /\ Append(accepted, r) = accepted \o last
        BY AppendFacts
      <3>2. ToSet(last) = {r}
        BY DEF ToSet
      <3> HIDE DEF last
      <3> QED  BY <3>1, <3>2, ToSetConcat
    <2> QED  BY <1>2, <2>1 DEF Record
  <1>3. CASE Recv
    <2> DEFINE received == Append(buffer, Head(queue))
    <2>1. Len(received) = Len(buffer) + 1
      BY <1>3, MoveHead, AppendFacts DEF Recv
    <2>2. Len(buffer) \in Nat /\ Len(<<>>) = 0
      BY LenProperties
    <2>3. Recv => (writer' = "insert" => batch' = received)
      BY DEF Recv, Flush
    <2> HIDE DEF received
    <2>4. received # <<>>
      BY ONLY <2>1, <2>2
    <2> QED  BY <1>3, <2>3, <2>4 DEF Recv
  <1>4. CASE Tick
    BY <1>4 DEF Tick, Flush
  <1>5. CASE Drain
    BY <1>5 DEF Drain, Flush
  <1>6. CASE Insert
    BY <1>6 DEF Insert
  <1>7. CASE Touch
    BY <1>7 DEF Touch
  <1>8. CASE Shutdown
    BY <1>8 DEF Shutdown
  <1>9. CASE Restart
    BY <1>9 DEF Restart
  <1>10. CASE UNCHANGED vars
    BY <1>10 DEF vars
  <1> QED  BY <1>1, <1>2, <1>3, <1>4, <1>5, <1>6, <1>7, <1>8, <1>9, <1>10 DEF Next

Settled == Len(accepted) - Len(Pending)

(* The second of two sequences begins where the first ends.                *)
LEMMA ConcatAt ==
  ASSUME NEW S, NEW s \in Seq(S), NEW t \in Seq(S)
  PROVE  /\ s \o t \in Seq(S) /\ Len(s \o t) = Len(s) + Len(t)
         /\ \A i \in 1 .. Len(s) : (s \o t)[i] = s[i]
         /\ \A j \in 1 .. Len(t) : (s \o t)[Len(s) + j] = t[j]
PROOF
  <1>1. /\ s \o t \in Seq(S)
        /\ Len(s \o t) = Len(s) + Len(t)
        /\ \A i \in 1 .. Len(s) + Len(t) :
             (s \o t)[i] = IF i <= Len(s) THEN s[i] ELSE t[i - Len(s)]
    BY ConcatProperties
  <1>2. Len(s) \in Nat /\ Len(t) \in Nat
    BY LenProperties
  <1>3. ASSUME NEW j \in 1 .. Len(t) PROVE (s \o t)[Len(s) + j] = t[j]
    <2> DEFINE i == Len(s) + j
    <2>1. i \in 1 .. Len(s) + Len(t) /\ ~(i <= Len(s)) /\ i - Len(s) = j
      BY <1>2
    <2> HIDE DEF i
    <2>2. (s \o t)[i] = t[j]
      BY <1>1, <2>1
    <2> QED  BY <2>2 DEF i
  <1> QED  BY <1>1, <1>2, <1>3

(* What an INSERT decides are the records of the ledger's next batch.      *)
LEMMA BatchIsNext ==
  ASSUME NEW decided \in Seq(Records), NEW next \in Seq(Records), NEW rest \in Seq(Records)
  PROVE  LET all == decided \o (next \o rest) IN
         /\ Len(all) = Len(decided) + Len(next) + Len(rest)
         /\ {all[i] : i \in Len(decided) + 1 .. Len(decided) + Len(next)} = ToSet(next)
PROOF
  <1> DEFINE tail == next \o rest
             all == decided \o tail
             ledger == {all[i] : i \in Len(decided) + 1 .. Len(decided) + Len(next)}
  <1>1. /\ tail \in Seq(Records) /\ Len(tail) = Len(next) + Len(rest)
        /\ \A j \in 1 .. Len(next) : tail[j] = next[j]
    BY ConcatAt
  <1>2. /\ Len(decided) \in Nat /\ Len(next) \in Nat /\ Len(rest) \in Nat
        /\ DOMAIN next = 1 .. Len(next)
    BY LenProperties
  <1> HIDE DEF tail
  <1>3. /\ Len(all) = Len(decided) + Len(tail)
        /\ \A j \in 1 .. Len(tail) : all[Len(decided) + j] = tail[j]
    <2>1. decided \in Seq(Records) /\ tail \in Seq(Records)
      BY <1>1
    <2> QED  BY ONLY <2>1, ConcatAt
  <1> HIDE DEF all
  <1>4. ASSUME NEW j \in 1 .. Len(next) PROVE all[Len(decided) + j] = next[j]
    BY <1>1, <1>2, <1>3
  <1>5. ledger \subseteq ToSet(next)
    <2> SUFFICES ASSUME NEW i \in Len(decided) + 1 .. Len(decided) + Len(next)
                 PROVE  all[i] \in ToSet(next)
      OBVIOUS
    <2>1. i - Len(decided) \in 1 .. Len(next) /\ Len(decided) + (i - Len(decided)) = i
      BY <1>2
    <2>2. all[i] = next[i - Len(decided)]
      BY <1>4, <2>1
    <2> QED  BY <1>2, <2>1, <2>2 DEF ToSet
  <1>6. ToSet(next) \subseteq ledger
    <2> SUFFICES ASSUME NEW j \in 1 .. Len(next) PROVE next[j] \in ledger
      BY <1>2 DEF ToSet
    <2>1. Len(decided) + j \in Len(decided) + 1 .. Len(decided) + Len(next)
      BY <1>2
    <2> QED  BY <1>4, <2>1
  <1>7. Len(all) = Len(decided) + Len(next) + Len(rest)
    BY <1>1, <1>2, <1>3
  <1> QED  BY <1>5, <1>6, <1>7 DEF all, tail

(* Accepting a record leaves what is settled as it was.                    *)
LEMMA LedgerAccept ==
  ASSUME IInv, OfferedOnce, NEW r \in Records, Record(r)
  PROVE  Ledger!Accept(r) \/ UNCHANGED Ledger!vars
PROOF
  <1>1. rows' = rows /\ r \notin ToSet(accepted)
    BY DEF Record, OfferedOnce
  <1>2. CASE UNCHANGED <<Pending, accepted>>
    BY <1>1, <1>2 DEF Ledger!vars
  <1>3. CASE Pending' = Append(Pending, r) /\ accepted' = Append(accepted, r)
    <2>1. /\ accepted \in Seq(Records) /\ Pending \in Seq(Records)
          /\ Len(Append(accepted, r)) = Len(accepted) + 1
          /\ Len(Append(Pending, r)) = Len(Pending) + 1
      BY PendingSteps, AppendFacts DEF IInv, TypeOK
    <2>2. Settled' = Settled
      BY <1>3, <2>1, LenProperties DEF Settled
    <2>3. \A i \in 1 .. Len(accepted) : accepted[i] # r
      BY <1>1, <2>1, LenProperties DEF ToSet
    <2> QED  BY <1>1, <1>3, <2>2, <2>3 DEF Ledger!Accept, Settled
  <1> QED  BY <1>2, <1>3, PendingSteps DEF IInv

(* An INSERT settles its batch, as stored or as lost.                      *)
LEMMA LedgerInsert ==
  ASSUME IInv, OfferedOnce, Insert
  PROVE  Ledger!Next
PROOF
  <1> DEFINE rest == Pending'
  <1>1. rest \in Seq(Records) /\ Pending = batch \o rest
    BY PendingSteps DEF IInv
  <1>2. PICK decided \in Seq(Records) : accepted = decided \o Pending
    BY DEF IInv, SuffixInv
  <1>3. batch \in Seq(Records) /\ batch # <<>> /\ accepted' = accepted
    BY DEF IInv, TypeOK, OfferedOnce, Insert
  <1> HIDE DEF rest
  <1>4. /\ Len(accepted) = Len(decided) + Len(batch) + Len(rest)
        /\ {accepted[i] : i \in Len(decided) + 1 .. Len(decided) + Len(batch)} = ToSet(batch)
    <2> DEFINE all == decided \o (batch \o rest)
    <2>1. /\ Len(all) = Len(decided) + Len(batch) + Len(rest)
          /\ {all[i] : i \in Len(decided) + 1 .. Len(decided) + Len(batch)} = ToSet(batch)
      BY ONLY <1>1, <1>2, <1>3, BatchIsNext
    <2>2. accepted = all
      BY <1>1, <1>2
    <2> HIDE DEF all
    <2> QED  BY <2>1, <2>2
  <1>5. Len(Pending) = Len(batch) + Len(rest)
    BY <1>1, <1>3, ConcatAt
  <1>6. /\ Len(decided) \in Nat /\ Len(batch) \in Nat /\ Len(rest) \in Nat
        /\ Len(batch) # 0
    BY <1>1, <1>3, LenProperties, EmptySeq
  <1>7. Settled = Len(decided) /\ Settled' = Len(decided) + Len(batch)
    BY <1>3, <1>4, <1>5, <1>6 DEF Settled, rest
  <1>8. /\ Settled' \in Settled + 1 .. Len(accepted)
        /\ {accepted[i] : i \in Settled + 1 .. Settled'} = ToSet(batch)
    BY <1>4, <1>6, <1>7
  <1>9. rows' = rows \cup ToSet(batch) \/ rows' = rows
    BY DEF Insert
  <1>10. Ledger!Store(Settled') \/ Ledger!Lose(Settled')
    BY <1>3, <1>8, <1>9 DEF Ledger!Store, Ledger!Lose, Ledger!Batch, Settled
  <1> QED  BY <1>8, <1>10 DEF Ledger!Next, Settled

(* A death of the process loses what was pending.                          *)
LEMMA LedgerRestart ==
  ASSUME IInv, Restart
  PROVE  Ledger!Next \/ UNCHANGED Ledger!vars
PROOF
  <1>1. accepted' = accepted /\ rows' = rows /\ Pending' = <<>>
    BY PendingSteps DEF Restart, IInv
  <1>2. PICK decided \in Seq(Records) : accepted = decided \o Pending
    BY DEF IInv, SuffixInv
  <1>3. /\ Pending \in Seq(Records) /\ Len(accepted) = Len(decided) + Len(Pending)
    BY <1>2, PendingSteps, ConcatAt DEF IInv
  <1>4. Len(decided) \in Nat /\ Len(Pending) \in Nat /\ Len(<<>>) = 0
    BY <1>3, LenProperties
  <1>5. Settled = Len(decided) /\ Settled' = Len(accepted)
    BY <1>1, <1>3, <1>4 DEF Settled
  <1>6. CASE Len(Pending) = 0
    <2>1. Settled' = Settled
      BY <1>3, <1>4, <1>5, <1>6
    <2> QED  BY <1>1, <2>1 DEF Ledger!vars, Settled
  <1>7. CASE Len(Pending) # 0
    <2>1. Settled' \in Settled + 1 .. Len(accepted)
      BY <1>3, <1>4, <1>5, <1>7
    <2>2. Ledger!Lose(Settled')
      BY <1>1 DEF Ledger!Lose, Settled
    <2> QED  BY <2>1, <2>2 DEF Ledger!Next, Settled
  <1> QED  BY <1>6, <1>7

(* Every step of the writer is one of the ledger, or none.                 *)
LEMMA LedgerNext == IInv /\ OfferedOnce /\ [Next]_vars => [Ledger!Next]_(Ledger!vars)
PROOF
  <1> SUFFICES ASSUME IInv, OfferedOnce, [Next]_vars
               PROVE  Ledger!Next \/ UNCHANGED Ledger!vars
    OBVIOUS
  <1>1. ASSUME UNCHANGED <<Pending, accepted, rows>> PROVE UNCHANGED Ledger!vars
    BY <1>1 DEF Ledger!vars
  <1>2. ASSUME NEW r \in Records, Record(r) PROVE Ledger!Next \/ UNCHANGED Ledger!vars
    BY <1>2, LedgerAccept DEF Ledger!Next
  <1>3. ASSUME NEW r \in Records, Stamp(r) PROVE UNCHANGED Ledger!vars
    BY <1>1, <1>3 DEF Stamp, Pending, Inserting
  <1>4. ASSUME Recv \/ Tick \/ Drain \/ Touch \/ Shutdown PROVE UNCHANGED Ledger!vars
    <2>1. UNCHANGED <<accepted, rows>>
      BY <1>4 DEF Recv, Tick, Drain, Touch, Shutdown
    <2> QED  BY <1>1, <1>4, <2>1, PendingSteps DEF IInv
  <1>5. ASSUME UNCHANGED vars PROVE UNCHANGED Ledger!vars
    BY <1>1, <1>5 DEF vars, Pending, Inserting
  <1> QED  BY <1>2, <1>3, <1>4, <1>5, LedgerInsert, LedgerRestart DEF Next

(* The recorder implements the ledger for any channel and batch: records   *)
(* are settled in the order they were accepted, a whole batch at a time,   *)
(* and none is stored twice or after it was lost (recorder.rs:158-304).    *)
THEOREM WriterImplementsLedger == Spec => ImplementsLedger
PROOF
  <1>1. Init => IInv
    BY InitInv
  <1>2. Init => OfferedOnce
    BY DEF Init, OfferedOnce, ToSet
  <1>3. Init => Ledger!Init
    <2> SUFFICES ASSUME Init PROVE Ledger!Init
      OBVIOUS
    <2>1. <<>> \o <<>> = <<>> /\ Len(<<>>) = 0
      BY EmptySeq, ConcatEmptySeq
    <2>2. Pending = <<>>
      BY <2>1 DEF Init, Pending, Inserting
    <2> QED  BY <2>1, <2>2 DEF Init, Ledger!Init
  <1>4. IInv /\ OfferedOnce /\ [Next]_vars => IInv' /\ OfferedOnce'
    BY InvNext, OfferedNext DEF IInv
  <1> QED  BY <1>1, <1>2, <1>3, <1>4, LedgerNext, PTL DEF Spec, ImplementsLedger, Ledger!Spec
-----------------------------------------------------------------------------
(* The writer beside the spend counters.                                   *)

(* The records accepted are different ones.                                *)
AcceptedOnce == \A i, j \in 1 .. Len(accepted) : accepted[i] = accepted[j] => i = j

LEMMA AcceptedNext ==
  ASSUME TypeOK, OfferedOnce, AcceptedOnce, [Next]_vars
  PROVE  AcceptedOnce'
PROOF
  <1>1. ASSUME UNCHANGED accepted PROVE AcceptedOnce'
    BY <1>1 DEF AcceptedOnce
  <1>2. ASSUME NEW r \in Records, Record(r), accepted' = Append(accepted, r)
        PROVE  AcceptedOnce'
    <2>1. /\ accepted \in Seq(Records) /\ Len(accepted) \in Nat
          /\ DOMAIN accepted = 1 .. Len(accepted)
      BY LenProperties DEF TypeOK
    <2>2. \A i \in 1 .. Len(accepted) : accepted[i] # r
      BY <1>2, <2>1 DEF Record, OfferedOnce, ToSet
    <2>3. /\ Len(accepted') = Len(accepted) + 1
          /\ \A i \in 1 .. Len(accepted) : accepted'[i] = accepted[i]
          /\ accepted'[Len(accepted) + 1] = r
      BY <1>2, <2>1, AppendProperties
    <2>4. \A i \in 1 .. Len(accepted') : i \in 1 .. Len(accepted) \/ i = Len(accepted) + 1
      BY <2>1, <2>3
    <2> QED  BY <2>2, <2>3, <2>4 DEF AcceptedOnce
  <1> QED
    BY <1>1, <1>2 DEF Next, vars, Stamp, Record, Recv, Tick, Drain, Insert, Touch, Shutdown, Restart

(* An INSERT takes its batch, and nothing else, out of what is pending.    *)
LEMMA InsertTakesBatch ==
  ASSUME IInv, OfferedOnce, AcceptedOnce, Insert
  PROVE  /\ ToSet(batch) \subseteq ToSet(Pending) /\ ToSet(batch) # {}
         /\ ToSet(Pending') = ToSet(Pending) \ ToSet(batch)
PROOF
  <1> DEFINE rest == Pending'
  <1>1. rest \in Seq(Records) /\ Pending = batch \o rest
    BY PendingSteps DEF IInv
  <1>2. PICK decided \in Seq(Records) : accepted = decided \o Pending
    BY DEF IInv, SuffixInv
  <1>3. batch \in Seq(Records) /\ batch # <<>>
    BY DEF IInv, TypeOK, OfferedOnce, Insert
  <1> HIDE DEF rest
  <1>4. ToSet(Pending) = ToSet(batch) \cup ToSet(rest)
    BY ONLY <1>1, <1>3, ToSetConcat
  <1>5. /\ Len(decided) \in Nat /\ Len(batch) \in Nat /\ Len(rest) \in Nat
        /\ DOMAIN batch = 1 .. Len(batch) /\ DOMAIN rest = 1 .. Len(rest)
    BY <1>1, <1>2, <1>3, LenProperties
  <1>6. /\ Len(Pending) = Len(batch) + Len(rest)
        /\ \A i \in 1 .. Len(batch) : Pending[i] = batch[i]
        /\ \A j \in 1 .. Len(rest) : Pending[Len(batch) + j] = rest[j]
    BY <1>1, <1>3, ConcatAt
  <1>7. /\ Len(accepted) = Len(decided) + Len(Pending)
        /\ \A i \in 1 .. Len(Pending) : accepted[Len(decided) + i] = Pending[i]
    <2>1. Pending \in Seq(Records)
      BY PendingSteps DEF IInv
    <2> QED  BY <1>2, <2>1, ConcatAt
  <1>8. ASSUME NEW i \in 1 .. Len(batch), NEW j \in 1 .. Len(rest) PROVE batch[i] # rest[j]
    <2> DEFINE x == Len(decided) + i
               y == Len(decided) + (Len(batch) + j)
    <2>1. x \in 1 .. Len(accepted) /\ y \in 1 .. Len(accepted) /\ x # y
      BY <1>5, <1>6, <1>7
    <2>2. i \in 1 .. Len(Pending) /\ Len(batch) + j \in 1 .. Len(Pending)
      BY <1>5, <1>6
    <2>3. accepted[x] = batch[i] /\ accepted[y] = rest[j]
      BY <1>6, <1>7, <2>2
    <2> HIDE DEF x, y
    <2> QED  BY <2>1, <2>3 DEF AcceptedOnce
  <1>9. ToSet(batch) \cap ToSet(rest) = {}
    BY <1>5, <1>8 DEF ToSet
  <1>10. ToSet(batch) # {}
    <2>1. 1 \in 1 .. Len(batch)
      BY <1>3, <1>5, EmptySeq
    <2> QED  BY <1>5, <2>1 DEF ToSet
  <1> QED  BY <1>4, <1>9, <1>10 DEF rest

(* What the two processes do together is what the writer does.             *)
LEMMA RecordedIsWriter == [RecordedNext]_recordedVars => [Next]_vars
  BY DEF RecordedNext, recordedVars, ServeRequest, StampRecord, OfferRecord, MoveRecords,
         InsertRecords, Reconcile, StopServing, RedisGoesOrReturns, RestartProcess, Next

(* And what the counters see of it.                                        *)
LEMMA CountersNext ==
  ASSUME IInv, OfferedOnce, AcceptedOnce, [RecordedNext]_recordedVars
  PROVE  [Counters!Next]_(Counters!vars)
PROOF
  <1> DEFINE Seen == ToSet(Pending)
  <1>t. TypeOK /\ MemoryBounded /\ QuietAfterShutdown
    BY DEF IInv
  <1>s. ASSUME UNCHANGED vars PROVE UNCHANGED <<Seen, rows>>
    BY <1>s DEF vars, Pending, Inserting
  <1>c. ASSUME UNCHANGED counterVars, UNCHANGED <<Seen, rows>> PROVE UNCHANGED Counters!vars
    BY <1>c DEF counterVars, passState, Counters!vars, Counters!requestVars,
                Counters!writerVars, Counters!passVars
  <1>1. ASSUME NEW r \in Records, ServeRequest(r) PROVE Counters!Next
    BY <1>1 DEF ServeRequest, Counters!Next
  <1>2. ASSUME NEW r \in Records, StampRecord(r) PROVE UNCHANGED Counters!vars
    <2>1. UNCHANGED <<Seen, rows>>
      BY <1>2 DEF StampRecord, Stamp, Pending, Inserting
    <2> QED  BY <1>2, <1>c, <2>1 DEF StampRecord
  <1>3. ASSUME NEW r \in Records, OfferRecord(r) PROVE Counters!Next
    <2>1. Record(r) /\ UNCHANGED rows
      BY <1>3 DEF OfferRecord, Record
    <2>2. Pending' = Append(Pending, r) \/ UNCHANGED Pending
      BY <1>t, <2>1, PendingSteps
    <2>3. Pending \in Seq(Records)
      BY <1>t, PendingSteps
    <2>4. Pending' = Append(Pending, r) => Seen' = Seen \cup {r}
      <3> DEFINE last == <<r>>
      <3>1. last \in Seq(Records) /\ Append(Pending, r) = Pending \o last
        BY <2>3, AppendFacts
      <3>2. ToSet(last) = {r}
        BY DEF ToSet
      <3> HIDE DEF last
      <3> QED  BY <2>3, <3>1, <3>2, ToSetConcat
    <2>5. Seen' = Seen \/ Seen' = Seen \cup {r}
      BY <2>2, <2>4
    <2>6. Counters!Record(r)
      BY <1>3, <2>1, <2>5 DEF OfferRecord, passState, Counters!Record, Counters!Goto,
                              Counters!passVars
    <2> QED  BY <2>6 DEF Counters!Next
  <1>4. ASSUME MoveRecords PROVE UNCHANGED Counters!vars
    <2>1. UNCHANGED Pending
      BY <1>4, <1>t, PendingSteps DEF MoveRecords
    <2>2. UNCHANGED rows
      BY <1>4 DEF MoveRecords, Recv, Tick, Drain, Touch
    <2> QED  BY <1>4, <1>c, <2>1, <2>2 DEF MoveRecords
  <1>5. ASSUME InsertRecords PROVE Counters!Next
    <2> DEFINE taken == ToSet(batch)
    <2>1. Insert /\ rows' \in {rows, rows \cup taken}
      BY <1>5 DEF InsertRecords, Insert
    <2>4. /\ ToSet(batch) \subseteq ToSet(Pending) /\ ToSet(batch) # {}
          /\ ToSet(Pending') = ToSet(Pending) \ ToSet(batch)
      BY <2>1, InsertTakesBatch
    <2>5. Seen' = ToSet(Pending')
      BY DEF ToSet
    <2>2. taken \subseteq Seen /\ taken # {} /\ Seen' = Seen \ taken
      BY ONLY <2>4, <2>5
    <2> HIDE DEF taken, Seen
    <2>3. /\ quiet' = FALSE
          /\ UNCHANGED <<memory, redis, up, backend, Counters!requestVars, Counters!passVars, events>>
      BY <1>5 DEF InsertRecords, passState, Counters!requestVars, Counters!passVars
    <2>6. taken \in (SUBSET Seen) \ {{}}
      BY <2>2
    <2>7. Counters!Flush
      BY ONLY <2>1, <2>2, <2>3, <2>6 DEF Counters!Flush, Seen
    <2> QED  BY <2>7 DEF Counters!Next
  <1>6. ASSUME Reconcile PROVE Counters!Next
    BY <1>6 DEF Reconcile, Counters!Next
  <1>7. ASSUME StopServing PROVE UNCHANGED Counters!vars
    <2>1. UNCHANGED <<Seen, rows>>
      BY <1>7 DEF StopServing, Shutdown, Pending, Inserting
    <2> QED  BY <1>7, <1>c, <2>1 DEF StopServing
  <1>8. ASSUME RedisGoesOrReturns PROVE Counters!Next
    BY <1>8 DEF RedisGoesOrReturns, Counters!Next
  <1>9. ASSUME RestartProcess PROVE Counters!Next
    BY <1>9 DEF RestartProcess, Counters!Next
  <1>10. ASSUME UNCHANGED recordedVars PROVE UNCHANGED Counters!vars
    BY <1>10, <1>c, <1>s DEF recordedVars
  <1> QED
    BY <1>1, <1>2, <1>3, <1>4, <1>5, <1>6, <1>7, <1>8, <1>9, <1>10 DEF RecordedNext

(* The restart of both is one of the writer's: what it leaves pending and  *)
(* in the table is what the counters expect of a restart.                  *)
LEMMA RestartsAgree ==
  ASSUME IInv, Restart
  PROVE  ToSet(Pending)' = {} /\ UNCHANGED rows
  <1>1. Pending' = <<>>
    BY PendingSteps DEF IInv
  <1> QED  BY <1>1 DEF Restart, ToSet

(* Beside the counters the writer is still the writer, so that the         *)
(* theorems above hold of it.                                              *)
THEOREM RecordedImplementsWriter == RecordedSpec => Spec
  BY RecordedIsWriter, PTL DEF RecordedSpec, RecordedInit, Spec

(* The writer is what SpendCounters takes it for, a set of records of      *)
(* which any part becomes rows or is lost, once: what the counters         *)
(* promise holds with the channel, the batches and the drain               *)
(* (proxy/router.rs:763-803, recorder.rs:158-304).                         *)
THEOREM WriterServesCounters == RecordedSpec => ImplementsCounters
PROOF
  <1>1. Init => IInv
    BY InitInv
  <1>2. Init => OfferedOnce /\ AcceptedOnce
    BY DEF Init, OfferedOnce, AcceptedOnce, ToSet
  <1>3. IInv /\ OfferedOnce /\ AcceptedOnce /\ [RecordedNext]_recordedVars
          => IInv' /\ OfferedOnce' /\ AcceptedOnce'
    BY InvNext, OfferedNext, AcceptedNext, RecordedIsWriter DEF IInv
  <1>4. RecordedInit => Init /\ Counters!Init
    BY DEF RecordedInit
  <1> QED
    BY <1>1, <1>2, <1>3, <1>4, CountersNext, PTL
    DEF RecordedSpec, ImplementsCounters, Counters!Spec
=============================================================================
