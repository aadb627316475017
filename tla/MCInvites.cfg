\* Two invites, accounts, addresses and requests, both sign-in modes.
CONSTANTS
  None = None
  Administrator = Administrator
  Commenter = Commenter
  Invite = {i1, i2}
  User = {u1, u2}
  Email = {e1, e2}
  Sub = {s1}
  Role = {Administrator, Commenter}
  Request = {r1, r2}
SPECIFICATION Spec
SYMMETRY Ids
INVARIANTS SingleUse InertRowsRedeemable HintIsKept OneCredentialEach
PROPERTIES CredentialsSettle DeadStaysDead ImplementsRegistry
CHECK_DEADLOCK FALSE
