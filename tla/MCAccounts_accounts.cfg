\* Boots that die anywhere, from files that are edited, written back and cut short, and two
\* requests in flight.
SPECIFICATION Spec
CONSTANTS
  admin = admin  bob = bob  p = p  q = q  old1 = old1  old2 = old2  fresh = fresh  t1 = t1  t2 = t2
  Nobody = Nobody  NoPassword = NoPassword
  Files <- SomeFiles
  Invalid = Invalid
  Migrations <- TwoMigrations
  IfNotExists = {"usage"}
  Names = {admin, bob}
  Admin = admin
  Passwords = {p, q}
  Keys = {old1, old2, fresh}
  Limits = {"any", "some"}
  NoLimits = "any"
  MaxEvents = 2
  MaxRequests = 3
  Tasks = {t1, t2}
INVARIANTS TypeOK AnAdminRemains
PROPERTIES BootOnlySeedsEmptyTables OnlyConfigStopsBoot RowsChangeOnlyAsAsked
\* Without a password the gateway never starts.
CHECK_DEADLOCK FALSE
SYMMETRY Symmetry
