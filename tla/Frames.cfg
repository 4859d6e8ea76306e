SPECIFICATION FairSpec
CONSTANTS
  Base = 4
  LenBytes = 2
  KeyBytes = 4
  Key = 1
  Null = Null
  Packets <- MCPackets
  MaxBytes = 6
  SocketRoom = 4
  IovMax = 2
  ThrowAfter = {"nothing", "key", "all"}
  PeerMayEnd = {"fin", "reset"}
CHECK_DEADLOCK FALSE
INVARIANTS
  TypeOK
  OutputIsPackets
  InputIsConserved
PROPERTIES
  DeliversFrames
  FramesAreDelivered
