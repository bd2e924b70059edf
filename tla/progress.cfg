SPECIFICATION FairSpec
CONSTANTS
  m1 = m1
  m2 = m2
  r1 = r1
  r2 = r2
  n1 = n1
  c1 = c1
  s1 = s1
  k1 = k1
  b1 = b1
  a1 = a1
  a2 = a2
  None = None
  Messages = {m1}
  Retries = {r1}
  Notes = {r1}
  News = {n1}
  Clears = {}
  Restores = {}
  Rollbacks = {k1}
  Rebuilds = {}
  SubAgents = {a1}
  MaxTasks = 2
  MaxStops = 0
  MaxRaises = 1
INVARIANTS
    LoadMeetsNoCommit
PROPERTIES
    EventsSettle
