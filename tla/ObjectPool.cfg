SPECIFICATION Spec
CONSTANTS
  block_size_ = 3
  Bases = {0, 3, 7, 9}
  MaxBlocks = 3
INVARIANTS
  NoObjectTwice
  OutIsAllocated
  NothingLost
