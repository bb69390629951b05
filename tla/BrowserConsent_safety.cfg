SPECIFICATION Spec
CONSTANTS
  Post = {x1, x2}
  GrantId = {g1, g2}
  NoGrant = NoGrant
  Faults = {"redis", "postgres", "process"}
  MaxArrivals = 5
SYMMETRY Interchangeable
INVARIANTS
  TypeOK
  RedirectIsBacked
  SignupOnce
PROPERTIES
  NothingIsUndone
  ImplementsDecision
CHECK_DEADLOCK FALSE
