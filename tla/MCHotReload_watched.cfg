\* One handler or reload at a time, any of whose queries may fail.
CHECK_DEADLOCK FALSE \* once nothing happens outside, every thread waits for good
SPECIFICATION HotFairSpec
CONSTANTS
  u1 = u1  t1 = t1
  Tasks = {t1}
  Watcher = t1
  Users = {u1}
  Keys = {k1}
  Owner <- OneOwner
  Providers = {p1}
  Models = {}
  Policies = {r1, r2}
  Invalid = Invalid
  GrantAmounts = {1}
  RefreshCanFail = TRUE
  MaxEvents = 3
  MaxExtras = 1
INVARIANTS EditIsPending ServesCommittedData
PROPERTIES ImplementsRegister KeyChangesReachSnapshot EditIsLoaded ReloadsCease
