\* One request walking its chain, metered, while the snapshot is swapped twice.
SPECIFICATION MCSpec
CONSTANTS
  a = a  b = b  broken = broken  other = other  r1 = r1  r2 = r2  k1 = k1
  m = m  m2 = m2  start = start  delta = delta  closing = closing  hit = hit  noise = noise
  Requests = {r1, r2}
  Providers = {a, b, broken, other}
  Protocols = {"openai", "anthropic"}
  ProtocolOf <- ProtocolTable
  KeyOf <- OneKey
  Snapshots <- SomeSnapshots
  Statuses = {200, 404, 429, 500, 529}
  Unusable = {broken}
  MaxSwaps = 2
  UpstreamModel <- ModelTable
  Events = {start, delta, closing, hit, noise}
  Payload <- PayloadTable
  Streams <- SomeStreams
INVARIANTS ChainIsWalkedInOrder ForwardsOnlyLastAnswer
INVARIANTS StreamIsMeteredAsWhole BillMatchesRecord PricedByMostSpecificRule FlatRateBillsTotal
PROPERTY HandlersComeToRest
\* The request ends.
CHECK_DEADLOCK FALSE
