\* Two users, a category and a post; three rows on pages of one; two forms, each on
\* an album of two items or new.
CONSTANTS
  User = {u1, u2}
  Category = {c1}
  Post = {p1}
  Reader = {r1}
  Editor = {e1, e2}
  Nobody = Nobody
  MaxWrites = 1
  Row = {1, 2, 3}
  Time = {1, 2}
  Kind = {"k1", "k2"}
  All = All
  Limit = 1
  MaxAsked = 3
  MaxChanges = 1
  Tab = {t1, t2}
  FirstItems = 2
  MaxTyped = 2
  MaxFails = 1
SPECIFICATION MCSpec
SYMMETRY Symmetric
INVARIANTS ListingAgreesWithPage NoMixedLists ListFollowsRows SavedAsSent
PROPERTIES ServedWasReadable
CHECK_DEADLOCK FALSE
