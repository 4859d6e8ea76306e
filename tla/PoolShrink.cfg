SPECIFICATION FairSpec
CONSTANTS
  block_size_ = 2
  Bases = {0, 2, 4}
  MaxBlocks = 2
PROPERTIES
  ShrinkReturns
