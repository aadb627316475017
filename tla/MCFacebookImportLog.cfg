\* One upload: an empty post, a post with a picture, an album of two.
CONSTANTS
  p1 = p1
  p2 = p2
  a1 = a1
  j0 = j0
  Album = {a1}
  Concurrency = 2
  FlushEvery = 2
  LogCap = 2
  Job = {j1}
  Post = {p1, p2}
  Empty = {p2}
  Media <- Mixed
SPECIFICATION Spec
PROPERTIES LogOnlyGrows
CHECK_DEADLOCK FALSE
