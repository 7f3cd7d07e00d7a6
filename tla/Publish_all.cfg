SPECIFICATION AllSpec
CONSTANTS
  Sidecars = 2
  Runs = 2
  p = p
  q = q
  Pids <- TwoPids
  Inputs <- Documents
  Components <- TenComponents
  Spelling <- SomeSpelling
  Publishers = {1, 2, 3}
  Digests = {1, 2, 3}
  NoDigest = 0
  MaxVersion = 3
  Downgraders = {3}
INVARIANTS RegistryStaysCurrent PinsAreCurrent NothingLost OneGeneration ScriptKeepsItsFiles ExportExact
PROPERTIES PublishesNewer
