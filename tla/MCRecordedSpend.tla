--------------------------- MODULE MCRecordedSpend ---------------------------
(* A small instance: requests of one key, in memory; two of them in Redis. *)
(* Passes are those of a boot: the races of passes and requests are those  *)
(* of MCSpendCounters.                                                     *)
EXTENDS RecordedSpend, TLC

CONSTANTS u1, k1, c

OneKey == [r \in Records |-> k1]
OneOwner == [k \in Keys |-> u1]
UnitCost == [r \in Records |-> 1]
SmallLimits == [s \in Users \cup Keys |-> 2]

ThirdStaysAway == backend = "redis" => step'[c] = "start"
SeedsOnly == pass = "idle" /\ pass' = "by_user" => booting'
MCSpec ==
  /\ RecordedInit
  /\ [][RecordedNext /\ ThirdStaysAway /\ SeedsOnly]_recordedVars
  /\ WriterFairness
=============================================================================
