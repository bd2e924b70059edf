SPECIFICATION Spec
CONSTANTS
  m1 = m1
  m2 = m2
  r1 = r1
  r2 = r2
  n1 = n1
  c1 = c1
  s1 = s1
  k1 = k1
  b1 = b1
  a1 = a1
  a2 = a2
  None = None
  Messages = {m1,m2}
  Retries = {r1,r2}
  Notes = {r1}
  News = {}
  Clears = {}
  Restores = {}
  Rollbacks = {}
  Rebuilds = {}
  SubAgents = {a1,a2}
  MaxTasks = 4
  MaxStops = 1
  MaxRaises = 1
SYMMETRY PromptSymmetry
INVARIANTS
    SingleLiveRun
    StateMirrorsTurn
    StopHitsItsRun
PROPERTIES
    BoundStopIsObeyed
    NewestRetryWins
