\* Pass@k against its docstring: is the best response rewarded?
SPECIFICATION Spec
CONSTANTS
  Trajs = {1, 2}
  Uids <- OneOrTwoPrompts
  Plays <- SomePlays
  WinReward = 10
  Gamma = 2
  Penalty = 1
  Divisor = 2
  WorldSize = 2
  BalanceBatch = TRUE
INVARIANTS
  BestResponseIsRewarded
CHECK_DEADLOCK FALSE
