\* Two edits of one model's chain.
SPECIFICATION Spec
CONSTANTS
  p1 = p1  p2 = p2  m1 = m1  m2 = m2  x = x
  Tasks = {t1, t2}
  Providers = {p1, p2}
  Models = {m1, m2}
  Upstreams = {x}
  RuleIds = {r1, r2}
  None = None
  FileProviders <- ProvidersOfFile
  FileRules <- RulesOfFile
  Routes <- RoutesOfFile
  Aliases <- AliasesOfFile
  Chains <- SubmittedChains
  RuleInputs <- SubmittedPairs
  MaxEvents = 2
INVARIANT ChainsAreReplacedWholesale
CHECK_DEADLOCK FALSE
