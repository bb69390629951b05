SPECIFICATION Spec
CONSTANTS
  Slot = {s1, s2}
  Change = {x1}
  Session = {A, B}
  None = None
  MaxStore = 2
  MaxRetries = 1
  MaxCalls = 4
  MaxMoves = 1
  MaxSignIns = 1
SYMMETRY Interchangeable
INVARIANTS
  TypeOK
  OneApprovalOneWrite
  SentAsApproved
  DirectWriteIsSentOnce
  OnlyTheOldestIsEvicted
CHECK_DEADLOCK FALSE
