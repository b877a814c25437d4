\* A file of two blocks and a bit, with short reads and with truncation, and
\* the same bytes in memory.
SPECIFICATION Spec
CONSTANTS
  BlockSize = 6
  Size = 13
  Disk <- MCDisk
  Byte <- MCByte
  Junk <- MCJunk
  MayTruncate = TRUE
  Requests = {1, 4, 7}
INVARIANTS WindowOK
PROPERTIES StreamSpec CallsReturn
\* A failed assertion stops the program.
CHECK_DEADLOCK FALSE
