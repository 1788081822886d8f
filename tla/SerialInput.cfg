SPECIFICATION Spec
CONSTANTS
  Byte <- MCByte
  Addresses = {200, 238}
  Crc <- MCCrc
  MaxFrame = 64
  DeviceFrames <- MCFrames
  Junk <- MCJunk
  Mark <- MCMark
  JunkSize = 8
  Network = {"sent", "blocked", "failed"}
  MaxFrames = 2
INVARIANTS SentAreWritten JunkCostsNoFrame AnswersArrive
\* The device stops after MaxFrames frames.
CHECK_DEADLOCK FALSE
