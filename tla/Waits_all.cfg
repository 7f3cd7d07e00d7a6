SPECIFICATION WaitsSpec
CONSTANTS
  Tasks = {t1, t2}
  Calls <- FourCalls
  MaxWait = 3
  PollInterval = 2
  RetryInterval = 2
  ReadTime = 1
  Jumps = 1
  JumpSize = 2
  container = container
  graph = graph
  step = step
  inner1 = inner1
  inner2 = inner2
  Children <- TwoKinds
  Blank = {}
  Leaves <- ThreeLeaves
  Parent <- OneStepTwoBelow
  Graphs = {graph}
  TaskCalls <- TwoCalls
  TaskMaxWait = 1
  TaskInterval = 1
  MaxRootFailures = 2
  RequestTime = 1
INVARIANTS ReportIsTrue NoLatePoll TaskStatusesSurface OneRequestLate
PROPERTIES WaitsEnd
