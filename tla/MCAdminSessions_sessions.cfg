\* Either store: a known and an unknown username, two logins, two handlers.
SPECIFICATION Spec
CONSTANTS
  u1 = u1  ghost = ghost
  Users = {u1}
  Names = {u1, ghost}
  Logins = {t1, t2}
  Handlers = {h1, h2}
  Tokens = {a}
  Nobody = Nobody
  Threshold = 2
  MaxEntries = 1
  MaxEvents = 1
SYMMETRY Symmetry
INVARIANTS TypeOK IndexFindsSessions SignedOutUnlessOverlapping LockoutBoundsFailures
