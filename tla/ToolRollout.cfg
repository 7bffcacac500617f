\* Two requests with two searches each, one token.  The job may end.
SPECIFICATION FairSpec
CONSTANTS
  Calls <- MCCalls
  Reqs = {r1, r2}
  MaxTurns = 2
  MaxCalls = 2
  GenLens = {1}
  ToolLens = {2}
  Renderings = {0, 1}
  Recodings = {0, 1}
  PromptLen = 2
  ResponseLength = 4
  MaxModelLen = 9
  Cuttable = {r2}
  MaxBatches = 1
  RateLimit = 1
  NumWorkers = 2
  ReleaseThreads = {t1}
CHECK_DEADLOCK FALSE
INVARIANTS
  TokensAreConserved
  InstancesFollowRequests
  CallsAreAnswered
  BudgetsHold
PROPERTIES
  BatchEnds
  BucketSpec
