SPECIFICATION FairSpec
CONSTANTS
  c1 = c1
  c2 = c2
  u1 = u1
  u2 = u2
  None = None
  Slot = {s1, s2}
  Setups <- MCSetups
  Camp = {c1, c2}
  Overseas <- MCOverseas
  User = {u1, u2}
  CampOf <- MCCampOf
  MaxSignIns = 2
  MaxCrashes = 1
INVARIANTS
  TypeOK
  OneSession
  ReportedIsSaved
  SignInIsOffered
PROPERTIES
  ProfileFollowsCamp
CHECK_DEADLOCK FALSE
