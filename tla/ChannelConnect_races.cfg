SPECIFICATION Spec
CONSTANTS
  Slot = {s1, s2}
  Camp = {A, B}
  Home = A
  Budgets <- MCBudgets
SYMMETRY Interchangeable
INVARIANTS
  TypeOK
  BaselineBeforeLaunch
  SuccessIsEarned
  LinkOpensOnce
PROPERTY
  ReopeningKeepsBaseline
CHECK_DEADLOCK FALSE
