SPECIFICATION ReplySpec
CONSTANTS
  Lengths = {0, 1, 2, 5}
  Sizes = {0, 1, 4, 5, 8}
  Chunk = 2
  Capacity = 2
INVARIANTS
  EndMeansAll
  LastMarkIsTrue
PROPERTIES
  TaskIsReleased
CHECK_DEADLOCK FALSE
