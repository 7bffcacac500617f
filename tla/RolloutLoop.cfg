\* Two environments of one group over three iterations; two groups of two
\* episodes, up to three tries.
SPECIFICATION LoopSpec
CONSTANTS
  BatchSize = 2
  GroupN = 2
  MaxSteps = 3
  Actions = {look, take}
  Intrinsics <- OneIntrinsic
  WinReward = 10
  UseResultReward = TRUE
  NoAction = NoAction
  Prompts = 2
  GroupSize = 2
  MaxTries = 3
  IntrinsicSums <- TwoSums
  WinPay = 10
  Tasks <- TwoTasks
INVARIANTS
  RewardsMatchGames
  RowsFollowEpisodes
  BatchIsEpisodes
  TriesFillTheBatch
  EpisodesStayTogether
PROPERTIES
  ImplementsEpisodes
  RolloutEnds
