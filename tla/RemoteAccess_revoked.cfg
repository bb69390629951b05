CONSTANTS
  Session = {s1}
  Call = {c1}
  WorkId = {w1}
  Digest = {d1}
  Grant = {g0, g1}
  HomeGrant = g0
  Faults = TRUE
  MaxArrivals = 3
  Request = {r1}
  MaxAttempts = 2
  MaxUsed = 1
  MaxRequests = 6
SPECIFICATION AccessSpec
CHECK_DEADLOCK FALSE
INVARIANTS
  EndedAccessWritesNothing
