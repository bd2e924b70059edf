SPECIFICATION Spec
CONSTANTS
  m1 = m1
  m2 = m2
  m3 = m3
  i1 = i1
  Work = Work
  None = None
  Messages = {m1,m2}
  Injects = {}
  Withdrawn = {m1,m2}
  MaxPasses = 3
  MaxCalls = 2
  MaxFails = 2
  MaxStops = 1
CHECK_DEADLOCK FALSE
SYMMETRY TextSymmetry
INVARIANTS
    EveryTextHasItsPlace
    MarksAreObservable
PROPERTIES
    OnlyOrphansAreDropped
    KeepsPromise
    CancelBeatsAdmission
