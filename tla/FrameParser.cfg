SPECIFICATION Spec
CONSTANTS
  Byte = {0, 1, 2, 3, 4}
  Addresses = {2}
  Crc <- MCCrc
  MaxFrame = 5
  MaxChunk = 2
  MaxStream = 8
INVARIANTS FramesAreStream NoFrameLost
\* The stream is bounded: the model stops when it is used up.
CHECK_DEADLOCK FALSE
