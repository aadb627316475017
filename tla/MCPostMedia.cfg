\* One post, two requests at once on up to three attachments; ordinals have three bits.
CONSTANTS
  Request = {r1, r2}
  MaxMedia = 3
  MaxFiles = 2
  Half = 4
  Offset = 2
  Typed <- Ends
  MaxFaults = 1
SPECIFICATION Spec
SYMMETRY Requests
INVARIANTS RowsHaveObjects ObjectsAccounted
PROPERTIES CoverStays ReorderSucceeds
CHECK_DEADLOCK FALSE
