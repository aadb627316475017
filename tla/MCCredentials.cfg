\* Two requests at once, three tokens, the lock's real threshold.
CONSTANTS
  None = None
  Request = {r1, r2}
  Token = {t1, t2, t3}
  MaxAttempts = 3
  MaxLapses = 1
  MaxCount = 4
SPECIFICATION Spec
SYMMETRY Ids
INVARIANTS TokenSpentOnce WrongCodesBounded MailsPerWindow
PROPERTIES DeactivationRevokes
CHECK_DEADLOCK FALSE
