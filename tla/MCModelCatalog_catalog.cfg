\* The import of a file and what administrators then do, with failures and
\* restarts at any step.
SPECIFICATION Spec
CONSTANTS
  p1 = p1  p2 = p2  m1 = m1  m2 = m2  x = x
  Tasks = {t1, t2}
  Providers = {p1, p2}
  Models = {m1, m2}
  Upstreams = {x}
  RuleIds = {r1, r2}
  None = None
  FileProviders <- ProvidersOfFile
  FileRules <- RulesOfFile
  Routes <- RoutesOfFile
  Aliases <- AliasesOfFile
  Chains <- SubmittedChains
  RuleInputs <- SubmittedPairs
  MaxEvents = 3
INVARIANTS TypeOK EnabledIsPricedUnlessRaced ImportLeavesPopulatedTables
CHECK_DEADLOCK FALSE
