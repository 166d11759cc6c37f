\* Two handlers racing, any of whose queries may fail: what is left of every refresh, and torn reads.
SPECIFICATION Spec
CONSTANTS
  u1 = u1  k1 = k1  k2 = k2
  Tasks = {t1, t2}
  Users = {u1}
  Keys = {k1}
  Owner <- OneOwner
  Providers = {p1, p2}
  Models = {m1}
  Policies = {r1}
  Invalid = Invalid
  GrantAmounts = {1}
  RefreshCanFail = TRUE
  MaxEvents = 3
INVARIANTS TypeOK SnapshotsResolve
SYMMETRY Symmetry
PROPERTY UncontendedRefreshIsExact
