\* One handler whose refresh fails, and the retry of the revocation.
SPECIFICATION Spec
CONSTANTS
  u1 = u1  k1 = k1  k2 = k2
  Tasks = {t1}
  Users = {u1}
  Keys = {k1, k2}
  Owner <- OneOwner
  Providers = {p1, p2}
  Models = {m1}
  Policies = {r1}
  Invalid = Invalid
  GrantAmounts <- GrantOrClawback
  RefreshCanFail = TRUE
  MaxEvents = 2
INVARIANT AcknowledgedRevocationHolds
