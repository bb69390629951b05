CONSTANTS
  Session = {s1}
  Call = {c1}
  WorkId = {w1}
  Digest = {d1}
  Grant = {g0, g1}
  HomeGrant = g0
  Faults = FALSE
  MaxArrivals = 5
SPECIFICATION Spec
CHECK_DEADLOCK FALSE
INVARIANT
  UnresolvedIsReported
