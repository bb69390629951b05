SPECIFICATION Spec
CONSTANTS
  Slot = {s1, s2}
  Change = {x1}
  Session = {A, B}
  None = None
  MaxStore = 2
  MaxRetries = 1
  MaxCalls = 3
  MaxMoves = 1
  MaxSignIns = 1
INVARIANTS
  EveryWriteWasPreviewed
CHECK_DEADLOCK FALSE
