\* A channel of one, batches of two: full, partial and final batches, and
\* one record left below the batch size.
SPECIFICATION MCSpec
CONSTANTS
  u1 = u1  k1 = k1  c = c
  Records = {a, b, c}
  Users = {u1}
  Keys = {k1}
  KeyOf <- OneKey
  Owner <- OneOwner
  Cost <- UnitCost
  Capped = {}
  Limit <- SmallLimits
  Capacity = 1
  BatchSize = 2
  MaxRestarts = 1
  MaxEvents = 1
INVARIANTS MemoryBounded PendingIsSuffix NothingLeftAtExit
PROPERTIES ImplementsLedger ImplementsCounters AcceptedIsDecided ShutdownCompletes
\* The process exits.
CHECK_DEADLOCK FALSE
