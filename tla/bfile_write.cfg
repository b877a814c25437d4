\* Two and a half blocks of three bytes, short writes, a disk that may fill up.
SPECIFICATION Spec
CONSTANTS
  BufferSize = 3
  Byte = {0, 1}
  Junk = 0
  Requests = {1, 2, 4}
  MaxBytes = 7
  MayFillUp = TRUE
INVARIANTS FlushInBlock NothingLost
PROPERTIES SinkSpec CallsReturn
\* A closed file accepts no call.
CHECK_DEADLOCK FALSE
