SPECIFICATION FairSpec
CONSTANTS
  Workers = {w1, w2, w3}
  t1 = t1
  t2 = t2
  t3 = t3
  Tasks <- SomeTasks
  TaskLists <- OneOrTwo
  MaxTasks = 3
CHECK_DEADLOCK FALSE
INVARIANTS
  NoLostWakeup
PROPERTIES
  
  StopReturns
  WorkIsTaken
