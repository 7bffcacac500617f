\* Two steps, up to two turns, one death of the job.
SPECIFICATION FairSpec
CONSTANTS
  Ranks <- MCRanks
  GroupOf <- MCGroupOf
  Leads <- MCLeads
  Configs <- MCConfigs
  MaxSteps = 2
  MaxTurns = 2
  MaxCrashes = 1
  Dummy = Dummy
  None = None
\* The training ends.
CHECK_DEADLOCK FALSE
INVARIANTS
  GenerationIsThePolicys
  RanksOfAGroupAgree
  TrainingDrawsInOrder
  MemoryIsInPlace
PROPERTIES
  RunEnds
