SPECIFICATION FairSpec
CONSTANTS
  Loops = {l1}
  Acceptor = acc
  Workers = {w1, w2}
  t1 = t1
  Tasks <- OneTask
  TaskLists <- OneAtATime
  MaxPending = 2
  MaxTasks = 1
CHECK_DEADLOCK FALSE
INVARIANTS
  FreedAlone
  PoolServesMain
  NoTaskOutlivesStop
PROPERTIES
  MainRunsInOrder
  StopReturns
  AddIsRun
