SPECIFICATION SourcesSpec
CONSTANTS
  fr = fr
  fa = fa
  fp = fp
  fc = fc
  fd = fd
  fe = fe
  Fns <- SixFns
  Keys = {"k", "j"}
  Values = {1, 2}
  Unset = unset
  NoFile = nofile
  NoLayout = nolayout
  Layouts <- TwoLayouts
  RootName = root
  MaxDepth = 5
  Programs <- AllPrograms
  None = none
  Missing = missing
  Aliases <- AliasTable
  Numerals = {"1"}
  MaxSelect = 3
  LoadCalls <- AllLoads
  Compiles <- ThreeCompiles
  Jobs <- Processes
  Modules <- Files
  BasePath <- SitePath
  Imported <- Before
  AtOnce = 1
  Absent = absent
  RefCalls <- AllRefs
  Sessions <- Orders
  Handles <- SixHandles
  Capitalized <- Titles
  Workshops <- AllWorkshops
  Asks <- AllAsks
  Word = word
  MaxBumps = 2
  MaxDecimal = 20
  Programs1 <- Bundles
  Value = 0
  Numbers = {0, 1, 2, 3, 4, 9, 10, 11}
INVARIANTS SharedMeansEqualApart BundleOrReason LoadIsExact LoadsClean RefsLeadHome TraceIsFaithful BumpIsExact BundleRuns
PROPERTIES SourcesEnd
