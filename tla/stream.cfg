SPECIFICATION StreamSpec
CONSTANTS
  Request = 3
  OutMax = 3
  ErrMax = 1
  Window = 1
  Channel = 1
  Pipe = 1
  ErrPipe = 1
INVARIANTS
  InputIsWhole
  ErrorsSurface
PROPERTIES
  CallsEnd
  CallIsTransparent
CHECK_DEADLOCK FALSE
