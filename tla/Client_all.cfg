SPECIFICATION ClientSpec
CONSTANTS
  root = root
  e1 = e1
  e2 = e2
  e3 = e3
  e4 = e4
  Ids <- FiveIds
  Root = root
  Trees <- ThreeTrees
  PoolSizes = {1, 2}
  Methods = {"get", "stream", "mutation"}
  MaxAttempts = 4
  MaxSends = 6
  MaxRedirects = 2
  MaxRounds = 2
  MaxElapsed = 6
  MaxBackoff = 2
  MaxRetryAfter = 3
  RetryAfters = {0, 4}
  SendTime = 1
  SlotTime = 2
  MaxOpens = 3
  SeeOther = FALSE
  Workers = {w1, w2}
  Nobody = nobody
  Intervals = {0, 2}
  Delays = {0, 1, 3}
  MaxJitter = 1
  MaxWait = 3
  Searches <- SomeSearches
  Histories <- SomeHistories
  NewRuns <- LaterRuns
  WhoAmI = "ann"
  Offset = 1
  PageSize = 2
  MaxSearches = 3
INVARIANTS AnswersInTime AppliedOnce OneConnection TreeIsExact OwnerSleeps SearchIsExact
PROPERTIES CallsEnd ImplementsPacedStarts
