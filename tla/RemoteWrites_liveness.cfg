CONSTANTS
  Session = {s1}
  Call = {c1, c2}
  WorkId = {w1, w2, w3}
  Digest = {d1}
  Grant = {g0}
  HomeGrant = g0
  Faults = FALSE
  MaxArrivals = 4
SPECIFICATION FairSpec
CHECK_DEADLOCK FALSE
PROPERTIES
  SessionComesBack
  ClaimIsSettled
  ImplementsLedger
