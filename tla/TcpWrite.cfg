SPECIFICATION Spec
CONSTANTS
  Conns = {c1}
  Fds = {3}
  Loops = {l1}
  Workers = {w1, w2}
  Users = {u1}
  Main = main
  NoConn = NoConn
  NoThread = NoThread
  Script <- ScriptNone
  SndRoom = 1
  MaxPush = 3
  MaxClose = 1
  PeerMayEnd = {"reset"}
  AddMayFail = FALSE
CHECK_DEADLOCK FALSE
INVARIANTS
  TypeOK
  OneWriter
  StreamOut
SYMMETRY Symmetry
