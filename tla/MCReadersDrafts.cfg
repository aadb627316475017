\* Violated: an attachment of a draft in a category is served to its audience.
CONSTANTS
  User = {u1, u2}
  Category = {c1}
  Post = {p1}
  Reader = {r1}
  Editor = {e1, e2}
  Nobody = Nobody
  MaxWrites = 1
  Row = {1, 2, 3}
  Time = {1, 2}
  Kind = {"k1", "k2"}
  All = All
  Limit = 1
  MaxAsked = 3
  MaxChanges = 1
  Tab = {t1, t2}
  FirstItems = 2
  MaxTyped = 0
  MaxFails = 0
SPECIFICATION MCSpec
SYMMETRY Symmetric
PROPERTY DraftsAreInvisible
CHECK_DEADLOCK FALSE
