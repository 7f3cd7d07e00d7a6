SPECIFICATION FairSpec
CONSTANTS
  Docs <- MCDocs
  Pipelines = {"templated", "bare"}
  Tasks <- MCTasks
  Dir <- MCDir
  Template <- MCTemplate
  Own <- MCOwn
  Version <- MCVersion
  Refs <- MCRefs
  Means <- MCMeans
  Dirs = {"a", "b"}
  NoDir = "nowhere"
  NoDoc = "no document"
  Params = {"x", "y"}
  Values = {1, 2}
  Overrides <- MCOverrides
  RecursiveContext = "child-priority"
  MaxDepth = 4
  MaxCalls = 2
PROPERTY SeveralNeverRaise
CHECK_DEADLOCK FALSE
