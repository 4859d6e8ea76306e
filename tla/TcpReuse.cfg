SPECIFICATION Spec
CONSTANTS
  Conns = {c1, c2}
  Fds = {3}
  Loops = {l1, l2}
  Workers = {w1}
  Users = {u1}
  Main = main
  NoConn = NoConn
  NoThread = NoThread
  Script <- ScriptNone
  SndRoom = 1
  MaxPush = 1
  MaxClose = 0
  PeerMayEnd = {"reset"}
  AddMayFail = TRUE
CHECK_DEADLOCK FALSE
INVARIANTS
  EventsReachLiveClients
  RemoveFindsOwner
  AddFindsNoOwner
  QueuedTasksAreLive
  MisdeliveredAfterDeath
SYMMETRY SymmetryConns
