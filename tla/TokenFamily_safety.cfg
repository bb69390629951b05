SPECIFICATION Spec
CONSTANTS
  Request = {r1, r2, r3}
  MaxAttempts = 2
  MaxUsed = 2
  Faults = TRUE
  MaxArrivals = 5
SYMMETRY Interchangeable
INVARIANTS
  TypeOK
  CodeMakesOneFamily
  ReuseIsReplay
  DoomIsFinal
PROPERTY
  ImplementsChain
CHECK_DEADLOCK FALSE
