\* Two users; one bar under a comment and one of a lightbox, two items, two kinds; two
\* threads, one a moderator's, with two calls at once.  k1, k2 stand for kinds and calls.
CONSTANTS
  Nil = Nil
  Reactor = {x1, x2}
  Bar = {b1, b2}
  Lightbox = {b2}
  Returning = {b1}
  Editable = {b1}
  Item = {i1, i2}
  React = {k1, k2}
  MaxClicks = 2
  Thread = {t1, t2}
  Moderators = {t2}
  Call = {k1, k2}
  MaxComments = 2
  MaxWrites = 3
  MaxEvents = 1
SPECIFICATION MCSpec
SYMMETRY Symmetric
INVARIANTS RestingBarIsRight OneKindUnlessDisturbed OwnCommentsRight
CHECK_DEADLOCK FALSE
