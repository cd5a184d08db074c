SPECIFICATION FairSpec
CHECK_DEADLOCK FALSE
CONSTANTS
  world_size = 3
  MaxCommunicators = 2
  MaxRepeats = 1
  MAX_RULES = 100
  MAX_CONNECTIONS_NUM = 10
INVARIANT TypeOK
INVARIANT Paired
INVARIANT NoConfigDuringCall
INVARIANT EveryConnectionReceived
INVARIANT SurvivesOneCommunicator
PROPERTY FirstCallReturns
