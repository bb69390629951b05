SPECIFICATION FairSpec
CONSTANTS
  Post = {x1, x2}
  GrantId = {g1, g2}
  NoGrant = NoGrant
  Faults = {}
  MaxArrivals = 4
INVARIANTS
  RetryStaysPossible
PROPERTIES
  ConsentSettles
CHECK_DEADLOCK FALSE
