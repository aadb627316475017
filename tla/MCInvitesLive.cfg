\* One invite that two requests compete for.
CONSTANTS
  None = None
  Administrator = Administrator
  Commenter = Commenter
  Invite = {i1}
  User = {u1, u2}
  Email = {e1, e2}
  Sub = {s1}
  Role = {Administrator, Commenter}
  Request = {r1, r2}
SPECIFICATION FairSpec
PROPERTIES AcceptanceAnswered
CHECK_DEADLOCK FALSE
