SPECIFICATION FairSpec
CONSTANTS
  Conns = {c1}
  Fds = {3}
  Loops = {l1}
  Workers = {w1, w2}
  Users = {u1}
  Main = main
  NoConn = NoConn
  NoThread = NoThread
  Script <- ScriptBad
  SndRoom = 1
  MaxPush = 1
  MaxClose = 0
  PeerMayEnd = {"fin"}
  AddMayFail = FALSE
CHECK_DEADLOCK FALSE
PROPERTIES
  FinReclaims
  InputIsUnpacked
  BadFrameReclaims
