SPECIFICATION Spec
CONSTANTS
  Conns = {c1}
  Fds = {3}
  Loops = {l1}
  Workers = {w1, w2, w3}
  Users = {u1}
  Main = main
  NoConn = NoConn
  NoThread = NoThread
  Script <- ScriptThree
  SndRoom = 1
  MaxPush = 0
  MaxClose = 1
  PeerMayEnd = {"fin", "reset"}
  AddMayFail = FALSE
CHECK_DEADLOCK FALSE
INVARIANTS
  UnpackScheduledOnce
  NoLostInput
  NoLostClose
  StreamIn
  AtMostTwoLateCallbacks
SYMMETRY Symmetry
