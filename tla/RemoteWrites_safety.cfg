CONSTANTS
  Session = {s1}
  Call = {c1, c2}
  WorkId = {w1, w2}
  Digest = {d1, d2}
  Grant = {g0, g1}
  HomeGrant = g0
  Faults = TRUE
  MaxArrivals = 5
SPECIFICATION Spec
SYMMETRY Interchangeable
CHECK_DEADLOCK FALSE
INVARIANTS
  TypeOK
  SessionExclusive
  AtMostOneRequest
  OneUnresolvedPerScope
  NothingForgotten
  NoBlindRepeat
  PreviewsDieOnSwitch
  RevocationStopsWrites
  SubmittedWasAcked
