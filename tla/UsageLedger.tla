----------------------------- MODULE UsageLedger -----------------------------
(***************************************************************************)
(* What the usage recorder promises to its readers: records it accepted    *)
(* are settled in the order they were accepted, a whole batch at a time.   *)
(* A settled batch is stored or lost as one, and no record is stored       *)
(* twice or after it was settled.                                          *)
(***************************************************************************)
EXTENDS Sequences, Naturals

CONSTANT Records

VARIABLES
  accepted,  \* every record the channel took, oldest first
  settled,   \* how many of them are decided
  stored     \* rows of usage_records

vars == <<accepted, settled, stored>>

Init == accepted = <<>> /\ settled = 0 /\ stored = {}

Accept(r) ==
  /\ \A i \in 1 .. Len(accepted) : accepted[i] # r
  /\ accepted' = Append(accepted, r)
  /\ UNCHANGED <<settled, stored>>

Batch(n) == {accepted[i] : i \in settled + 1 .. n}

Store(n) ==
  /\ settled' = n
  /\ stored' = stored \cup Batch(n)
  /\ UNCHANGED accepted

Lose(n) ==
  /\ settled' = n
  /\ UNCHANGED <<accepted, stored>>

Next ==
  \/ \E r \in Records : Accept(r)
  \/ \E n \in settled + 1 .. Len(accepted) : Store(n) \/ Lose(n)

Spec == Init /\ [][Next]_vars
=============================================================================
