\* Two uploads of an archive with one post and one album of one picture each; two
\* pictures, a body that is white space, two dates or none, two uploads; texts with a
\* link, a space, punctuation, brackets and characters of two, three and four bytes,
\* one of them ending in a byte that trim takes for white space.
CONSTANTS
  p1 = p1
  p2 = p2
  a1 = a1
  j0 = j0
  Album = {a1}
  Concurrency = 2
  FlushEvery = 3
  LogCap = 1
  Job = {j1, j2}
  Post = {p1}
  Empty = {}
  Media <- OneEach
  Uri = {u1, u2}
  Text = {"blank", "t"}
  Blank = {"blank"}
  Time = {0, 1, 2}
  MaxWork = 3
  MaxUploads = 2
  Point = {0, 32, 33, 40, 41, 171, 194, 224, 8217, 129442}
  MaxText = 4
SPECIFICATION ArchiveSpec
SYMMETRY Symmetric
INVARIANTS RowsHaveObjects ImportedOnce ArchiveKept TextRestored
CHECK_DEADLOCK FALSE
