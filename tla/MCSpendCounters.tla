--------------------------- MODULE MCSpendCounters ---------------------------
(* Small instances: requests on a capped key and another key of one user;  *)
(* with Redis, whose instance is the larger one, only those on the first.  *)
EXTENDS SpendCounters, TLC

CONSTANTS u1, k1, k2, a, b, c

KeyTable == [r \in Requests |-> IF r = c THEN k2 ELSE k1]
OneOwner == [k \in Keys |-> u1]
ThirdStaysAway == Redis => step'[c] = "start"
MCSpec == Init /\ [][Next /\ ThirdStaysAway]_vars /\ WF_vars(Pass) /\ WF_vars(Recover)

UnitCost == [r \in Requests |-> 1]
SmallLimits == [s \in Scopes |-> IF s = u1 THEN 2 ELSE 1]
=============================================================================
