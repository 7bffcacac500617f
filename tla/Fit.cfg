\* Two trajectories on two ranks, padded to a multiple of six.
\* Calls with up to twelve rows of three lengths; micro-batches of two rows,
\* and a last mini-batch of two rows where others have four.
SPECIFICATION FitSpec
CONSTANTS
  Trajs = {1, 2}
  Uids <- OneOrTwoPrompts
  Plays <- SomePlays
  WinReward = 10
  Gamma = 2
  Penalty = 1
  Divisor = 6
  WorldSize = 2
  BalanceBatch = TRUE
  Shapes <- SomeShapes
  Batches <- SomeBatches
  Sizes = {1, 3, 4, 6}
  MicroBatch = 2
  MiniBatch = 4
  MaxTokens = 5
INVARIANTS
  EveryStepTrains
  ReturnsFollowTime
  TaskAdvantagesCancel
  LoneStepsAreNeutral
  AnswersInOrder
  LoadsBalance
  RowsCountAlike
PROPERTIES
  CallReturns
\* A batch smaller than its padding ends in an exception, a call when it has
\* returned.
CHECK_DEADLOCK FALSE
