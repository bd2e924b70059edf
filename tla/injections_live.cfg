SPECIFICATION FairSpec
CONSTANTS
  m1 = m1
  m2 = m2
  m3 = m3
  i1 = i1
  Work = Work
  None = None
  Messages = {m1,m2,m3}
  Injects = {}
  Withdrawn = {m3}
  MaxPasses = 1
  MaxCalls = 1
  MaxFails = 1
  MaxStops = 0
CHECK_DEADLOCK FALSE
INVARIANTS
    OrderOfCommit
PROPERTIES
    EveryTextIsSettled
