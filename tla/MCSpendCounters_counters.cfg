\* Counters in process memory or in Redis, with outages and restarts.
SPECIFICATION MCSpec
CONSTANTS
  u1 = u1  k1 = k1  k2 = k2  a = a  b = b  c = c
  Users = {u1}
  Keys = {k1, k2}
  Requests = {a, b, c}
  KeyOf <- KeyTable
  Owner <- OneOwner
  Cost <- UnitCost
  Capped = {k1}
  Limit <- SmallLimits
  MaxEvents = 2
INVARIANTS NeverOvercounts RejectsOnlyRealSpend DriftIsBounded
PROPERTIES QuietPassIsExact CountersConverge
