SPECIFICATION FairSpec
CONSTANTS
  i1 = i1
  i2 = i2
  None = None
  Invocations = {i1,i2}
  Acp = {i2}
  AgentOf <- OneTool
  MaxTotal = 1
  MaxPerAgent = 2
  MaxAttempts <- Tries
  MaxCrashes = 0
  MayFail = {}
CHECK_DEADLOCK FALSE
PROPERTIES
    InterruptEndsAll
