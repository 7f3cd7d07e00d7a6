SPECIFICATION FairRunnerSpec
CONSTANTS
  MaxAttempts = 3
  RecoveryLookups = 2
  Wait = TRUE
  Settings <- ThreeSettings
INVARIANTS SubmissionFollowed OneRunOfUse HooksPaired PreparationOfBody
PROPERTIES ReportsTruthfully ImplementsLogicalRun CallEnds
