\* LoRA with the default load format, across one death of the job.
SPECIFICATION Spec
CONSTANTS
  Ranks <- MCRanks
  GroupOf <- MCGroupOf
  Leads <- MCLeads
  Configs <- LoraByDefault
  MaxSteps = 2
  MaxTurns = 2
  MaxCrashes = 1
  Dummy = Dummy
  None = None
CHECK_DEADLOCK FALSE
INVARIANTS
  FirstGenerationIsThePolicys
