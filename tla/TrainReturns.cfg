\* R_belief of rows that were dealt out to two ranks.
SPECIFICATION Spec
CONSTANTS
  Trajs = {1, 2}
  Uids <- OneOrTwoPrompts
  Plays <- SomePlays
  WinReward = 10
  Gamma = 2
  Penalty = 1
  Divisor = 2
  WorldSize = 2
  BalanceBatch = TRUE
INVARIANTS
  BeliefReturnsFollowTime
CHECK_DEADLOCK FALSE
