\* Three accounts or uploads (y), two requests or submissions at once (x), a browser's
\* three requests; a clock of three ticks, so that every life and cooldown can run out.
CONSTANTS
  None = None
  Administrator = Administrator
  Commenter = Commenter
  User = {y1, y2, y3}
  Role = {Administrator, Commenter}
  Request = {x1, x2}
  Upload = {y1, y2, y3}
  MaxKeys = 3
  MaxCodes = 2
  MaxStarts = 4
  Caller = {x1, x2}
  Visitor = {v1}
  Name = {n1}
  Cooldown = 1
  Retention = 1
  TokenLife = 1
  CacheLife = 1
  MaxNow = 2
  MaxForms = 3
  MaxDrawn = 2
  MaxRequests = 3
SPECIFICATION MCSpec
SYMMETRY Symmetric
INVARIANTS RowsHaveFiles MailsSpaced OrdersVetted SessionsHold
PROPERTY AdministratorsRemain
CHECK_DEADLOCK FALSE
