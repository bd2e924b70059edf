SPECIFICATION Spec
CONSTANTS
  i1 = i1
  i2 = i2
  None = None
  Invocations = {i1,i2}
  Acp = {i2}
  AgentOf <- OneTool
  MaxTotal = 2
  MaxPerAgent = 2
  MaxAttempts <- Tries
  MaxCrashes = 1
  MayFail = {i1}
CHECK_DEADLOCK FALSE
INVARIANTS
    PausedIsOnDisk
    CountsExact
    OneCascadeWord
    NoOpenCallAtRest
    CascadeFreesAcp
PROPERTIES
    RecordOutlivesItsCall
    CascadeIsLastWord
