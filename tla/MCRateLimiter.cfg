SPECIFICATION Spec
CHECK_DEADLOCK FALSE
CONSTANTS
  r1 = r1
  r2 = r2
  r3 = r3
  r4 = r4
  Requests = {r1, r2, r3, r4}
  Limit = 2
  Window = 3
  MaxDelay = 1
  MaxTime = 5
SYMMETRY Symmetry
INVARIANTS
  TypeOK
  AllowedWithinLimit
  RejectedOnlyWhenFull
PROPERTY CompletedEntriesLast
