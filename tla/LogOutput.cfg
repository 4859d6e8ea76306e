SPECIFICATION FairOutputSpec
CONSTANTS
  Users = {u1, u2}
  NoBuffer = NoBuffer
  block_size_ = 2
  Bases = {0, 2}
  MaxBlocks = 2
  FILE_SIZE = 3
  FILEBUFF_SIZE = 2
CHECK_DEADLOCK FALSE
INVARIANTS
  NoBufferShared
  NoLostWakeup
PROPERTIES
  LinesInOrder
  StopReturns
  MessageIsWritten
  OnlyRestartLosesLines
