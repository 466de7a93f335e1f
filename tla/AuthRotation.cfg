SPECIFICATION Spec
CHECK_DEADLOCK FALSE
CONSTANTS
  A = A
  B = B
  e1 = e1
  q1 = q1
  q2 = q2
  Replicas = {A, B}
  Emails = {e1}
  Requests = {q1, q2}
  UserCap = 2
  TokenCap = 3
  BootCap = 1
SYMMETRY Symmetry
INVARIANT TokenExchangedOnce
