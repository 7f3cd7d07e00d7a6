SPECIFICATION ModulesSpec
CHECK_DEADLOCK FALSE
CONSTANTS
  Compiles <- ThreeCompiles
  Jobs <- Processes
  Modules <- Files
  BasePath <- SitePath
  Imported <- Before
  AtOnce = 2
INVARIANTS AsAlone
