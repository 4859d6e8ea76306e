SPECIFICATION FairSpec
CONSTANTS
  Conns = {c1}
  Fds = {3}
  Loops = {l1}
  Workers = {w1, w2}
  Users = {u1}
  Main = main
  NoConn = NoConn
  NoThread = NoThread
  Script <- ScriptNone
  SndRoom = 1
  MaxPush = 2
  MaxClose = 0
  PeerMayEnd = {}
  AddMayFail = FALSE
CHECK_DEADLOCK FALSE
PROPERTIES
  ScheduledSendRuns
