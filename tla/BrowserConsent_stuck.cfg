SPECIFICATION Spec
CONSTANTS
  Post = {x1, x2}
  GrantId = {g1, g2}
  NoGrant = NoGrant
  Faults = {"postgres"}
  MaxArrivals = 4
INVARIANTS
  RetryStaysPossible
CHECK_DEADLOCK FALSE
