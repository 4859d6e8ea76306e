---------------------------- MODULE ThreadProofs ----------------------------
(***************************************************************************)
(* The two kinds of threads that run what they are given.  ThreadPool      *)
(* keeps its shape, loses no wakeup and implements an Executor that may    *)
(* discard, for any tasks and any number of workers.  TaskThread keeps its *)
(* shape and implements one that does not, for any functions and any bound *)
(* on how many of them wait; its state stands beside the pool's under      *)
(* names of its own.                                                       *)
(***************************************************************************)
EXTENDS ThreadPool, QueueLemmas

-----------------------------------------------------------------------------
(* Every variable keeps its shape, and threads_ names exactly the workers   *)
(* that have been started and not joined.                                   *)
THEOREM TypeCorrect == Spec => []TypeOK
<1>1. Init => TypeOK
  BY EmptySeq DEF Init, TypeOK, WorkerPcs
<1>2. TypeOK /\ [Next]_vars => TypeOK'
  <2> SUFFICES ASSUME TypeOK, [Next]_vars PROVE TypeOK'
    OBVIOUS
  <2>a. pc \in [Workers -> WorkerPcs]
    BY DEF TypeOK
  <2>n. /\ notify_all \in [Workers -> WorkerPcs]
        /\ \A w \in Workers : notify_all[w] # "none" <=> pc[w] # "none"
    BY <2>a DEF notify_all, WorkerPcs
  <2>1. CASE StartBegin
    BY <2>1 DEF StartBegin, TypeOK
  <2>2. ASSUME NEW w \in Workers, StartThread(w) PROVE TypeOK'
    BY <2>2 DEF StartThread, TypeOK, WorkerPcs
  <2>3. CASE StopBegin
    <3>1. task_list' \in Seq(Tasks)
      BY <2>3, EmptySeq DEF StopBegin, ClearTasks
    <3> QED
      BY <2>3, <2>n, <3>1 DEF StopBegin, TypeOK
  <2>4. CASE StopJoin
    BY <2>4 DEF StopJoin, TypeOK, WorkerPcs
  <2>5. CASE AcceptDirect
    BY <2>5 DEF AcceptDirect, TypeOK
  <2>6. CASE AcceptBegin
    BY <2>6 DEF AcceptBegin, TypeOK
  <2>7. ASSUME NEW fs \in TaskLists, accept_task_list(fs) PROVE TypeOK'
    <3>1. task_list \in Seq(Tasks) /\ fs \in Seq(Tasks)
      BY PoolAssumption DEF TypeOK
    <3>2. task_list' \in Seq(Tasks)
      BY <2>7, <3>1, ConcatProperties DEF accept_task_list, AcceptAtEnd
    <3> QED
      BY <2>7, <3>2 DEF accept_task_list, TypeOK
  <2>8. CASE AcceptNotify
    BY <2>8, <2>n DEF AcceptNotify, TypeOK
  <2>9. ASSUME NEW w \in Workers, WorkerTest(w) PROVE TypeOK'
    BY <2>9 DEF WorkerTest, TypeOK, WorkerPcs
  <2>10. ASSUME NEW w \in Workers, WorkerWait(w) PROVE TypeOK'
    BY <2>10 DEF WorkerWait, TypeOK, WorkerPcs
  <2>11. ASSUME NEW w \in Workers, WorkerSpurious(w) PROVE TypeOK'
    BY <2>11 DEF WorkerSpurious, TypeOK, WorkerPcs
  <2>12. ASSUME NEW w \in Workers, require_task(w) PROVE TypeOK'
    <3>1. task_list \in Seq(Tasks) /\ task_list # <<>>
      BY <2>12 DEF require_task, TypeOK
    <3>2. task_list' \in Seq(Tasks) /\ last' \in {<<f>> : f \in Tasks}
      BY <2>12, <3>1, HeadTailProperties DEF require_task
    <3>3. /\ pc' \in [Workers -> WorkerPcs]
          /\ \A v \in Workers : v \in threads <=> pc'[v] # "none"
      BY <2>12 DEF require_task, TypeOK, WorkerPcs
    <3> QED
      BY <2>12, <3>2, <3>3 DEF require_task, TypeOK
  <2>13. ASSUME NEW w \in Workers, WorkerNothing(w) PROVE TypeOK'
    BY <2>13 DEF WorkerNothing, TypeOK, WorkerPcs
  <2>14. ASSUME NEW w \in Workers, WorkerDone(w) PROVE TypeOK'
    BY <2>14 DEF WorkerDone, TypeOK, WorkerPcs
  <2>15. CASE UNCHANGED vars
    BY <2>15 DEF vars, TypeOK
  <2> QED
    BY <2>1, <2>2, <2>3, <2>4, <2>5, <2>6, <2>7, <2>8, <2>9, <2>10, <2>11,
       <2>12, <2>13, <2>14, <2>15 DEF Next, start, stop, accept, thread_loop
<1> QED
  BY <1>1, <1>2, PTL DEF Spec

-----------------------------------------------------------------------------
(* No wakeup is lost.  With the type invariant the property is inductive: a *)
(* worker goes to sleep only while the pool runs and the list is empty,     *)
(* both seen under list_mutex_; whoever puts tasks there has its notify     *)
(* still to come, and stop changes running_ and notifies under that mutex.  *)
THEOREM WakeupsKept == Spec => []NoLostWakeup
<1>1. Init => NoLostWakeup
  BY DEF Init, NoLostWakeup
<1>2. TypeOK /\ NoLostWakeup /\ [Next]_vars => NoLostWakeup'
  <2> SUFFICES ASSUME TypeOK, NoLostWakeup, [Next]_vars,
                      NEW v \in Workers, pc'[v] = "waiting"
               PROVE  running' /\ (task_list' # <<>> => caller' = "notify")
    BY DEF NoLostWakeup
  <2>a. pc \in [Workers -> WorkerPcs]
    BY DEF TypeOK
  <2>k. pc[v] = "waiting" => running /\ (task_list # <<>> => caller = "notify")
    BY DEF NoLostWakeup
  <2>n. notify_all[v] # "waiting"
    BY DEF notify_all
  <2>1. CASE StartBegin
    BY <2>1, <2>k DEF StartBegin
  <2>2. ASSUME NEW w \in Workers, StartThread(w)
        PROVE  running' /\ (task_list' # <<>> => caller' = "notify")
    BY <2>2, <2>a, <2>k DEF StartThread
  <2>3. CASE StopBegin \/ AcceptNotify
    BY <2>3, <2>n DEF StopBegin, AcceptNotify
  <2>4. CASE StopJoin
    BY <2>4 DEF StopJoin
  <2>5. CASE AcceptDirect \/ AcceptBegin
    BY <2>5, <2>k DEF AcceptDirect, AcceptBegin
  <2>6. ASSUME NEW fs \in TaskLists, accept_task_list(fs)
        PROVE  running' /\ (task_list' # <<>> => caller' = "notify")
    BY <2>6, <2>k DEF accept_task_list
  <2>7. ASSUME NEW w \in Workers, WorkerWait(w)
        PROVE  running' /\ (task_list' # <<>> => caller' = "notify")
    BY <2>7 DEF WorkerWait
  <2>8. ASSUME NEW w \in Workers,
               WorkerTest(w) \/ WorkerSpurious(w) \/ WorkerNothing(w) \/ WorkerDone(w)
        PROVE  running' /\ (task_list' # <<>> => caller' = "notify")
    <3>1. pc[v] = "waiting"
      BY <2>8, <2>a DEF WorkerTest, WorkerSpurious, WorkerNothing, WorkerDone
    <3>2. UNCHANGED <<running, task_list, caller>>
      BY <2>8 DEF WorkerTest, WorkerSpurious, WorkerNothing, WorkerDone
    <3> QED
      BY <3>1, <3>2, <2>k
  <2>9. ASSUME NEW w \in Workers, require_task(w)
        PROVE  running' /\ (task_list' # <<>> => caller' = "notify")
    <3>1. pc[v] = "waiting" /\ task_list # <<>> /\ UNCHANGED <<running, caller>>
      BY <2>9, <2>a DEF require_task
    <3> QED
      BY <3>1, <2>k
  <2>10. CASE UNCHANGED vars
    BY <2>10, <2>k DEF vars
  <2> QED
    BY <2>1, <2>2, <2>3, <2>4, <2>5, <2>6, <2>7, <2>8, <2>9, <2>10
       DEF Next, start, stop, accept, thread_loop
<1> QED
  BY <1>1, <1>2, TypeCorrect, PTL DEF Spec

-----------------------------------------------------------------------------
(* ThreadPool implements an Executor that may discard: a hand-in posts,     *)
(* require_task starts, stop discards.                                      *)
THEOREM InOrder == Spec => TakesInOrder
<1>1. Init => Promise!Init
  BY DEF Init, Promise!Init
<1>2. TypeOK /\ [Next]_vars => [Promise!Next]_(Promise!vars)
  <2> SUFFICES ASSUME TypeOK, [Next]_vars
               PROVE  Promise!Next \/ UNCHANGED Promise!vars
    OBVIOUS
  <2>1. ASSUME NEW fs \in TaskLists, accept_task_list(fs) PROVE Promise!Next
    <3>1. task_list \in Seq(Tasks) /\ fs \in Seq(Tasks) /\ fs # <<>>
      BY <2>1, PoolAssumption DEF TypeOK, accept_task_list
    <3>2. task_list' = task_list \o fs /\ UNCHANGED last
      BY <2>1 DEF accept_task_list, AcceptAtEnd
    <3>3. fs = SubSeq(task_list', Len(task_list) + 1, Len(task_list'))
      BY <3>1, <3>2, PostedPart
    <3>4. Promise!Post
      BY <3>1, <3>2, <3>3 DEF Promise!Post
    <3> QED
      BY <3>4 DEF Promise!Next
  <2>2. ASSUME NEW w \in Workers, require_task(w) PROVE Promise!Next
    BY <2>2 DEF require_task, Promise!Start, Promise!Next
  <2>3. CASE StopBegin
    BY <2>3 DEF StopBegin, ClearTasks, Promise!Discard, Promise!Next
  <2>4. CASE start \/ StopJoin \/ AcceptDirect \/ AcceptBegin \/ AcceptNotify
               \/ UNCHANGED vars
    BY <2>4 DEF start, StartBegin, StartThread, StopJoin, AcceptDirect,
                AcceptBegin, AcceptNotify, vars, Promise!vars
  <2>5. ASSUME NEW w \in Workers,
               WorkerTest(w) \/ WorkerWait(w) \/ WorkerSpurious(w)
                 \/ WorkerNothing(w) \/ WorkerDone(w)
        PROVE  UNCHANGED Promise!vars
    BY <2>5 DEF WorkerTest, WorkerWait, WorkerSpurious, WorkerNothing,
                WorkerDone, Promise!vars
  <2> QED
    BY <2>1, <2>2, <2>3, <2>4, <2>5 DEF Next, stop, accept, thread_loop
<1>3. Spec => Promise!Spec
  BY <1>1, <1>2, TypeCorrect, PTL DEF Spec, Promise!Spec
<1> QED
  BY <1>3 DEF TakesInOrder

-----------------------------------------------------------------------------
(* TaskThread *)

CONSTANTS Functions, MaxPending
VARIABLES t_running, t_pc, t_stopping, t_write, t_read, t_last

Task == INSTANCE TaskThread WITH
  running <- t_running, pc <- t_pc, stopping <- t_stopping, write <- t_write,
  read <- t_read, last <- t_last

(* Every variable keeps its shape, and stop only waits for a thread that    *)
(* has been started.                                                        *)
THEOREM ThreadTypes == Task!Spec => []Task!TypeOK
<1>1. Task!Init => Task!TypeOK
  BY EmptySeq DEF Task!Init, Task!TypeOK, Task!Pcs
<1>2. Task!TypeOK /\ [Task!Next]_(Task!vars) => Task!TypeOK'
  <2> SUFFICES ASSUME Task!TypeOK, [Task!Next]_(Task!vars) PROVE Task!TypeOK'
    OBVIOUS
  <2> USE DEF Task!TypeOK, Task!Pcs
  <2>1. ASSUME NEW f \in Functions, Task!run_in_thread(f) PROVE Task!TypeOK'
    BY <2>1 DEF Task!run_in_thread, Task!EmplaceBack, Task!wakeup
  <2>2. CASE Task!RunBeyondBound
    BY <2>2 DEF Task!RunBeyondBound, Task!wakeup
  <2>3. CASE Task!start
    BY <2>3 DEF Task!start
  <2>4. CASE Task!StopBegin
    BY <2>4 DEF Task!StopBegin
  <2>5. CASE Task!StopWakeup
    BY <2>5 DEF Task!StopWakeup, Task!wakeup
  <2>6. CASE Task!StopJoin
    BY <2>6 DEF Task!StopJoin
  <2>7. CASE Task!LoopTest
    BY <2>7 DEF Task!LoopTest
  <2>8. CASE Task!LoopWait
    BY <2>8 DEF Task!LoopWait
  <2>9. CASE Task!LoopSpurious
    BY <2>9 DEF Task!LoopSpurious
  <2>10. CASE Task!LoopSplice
    BY <2>10, ConcatProperties DEF Task!LoopSplice
  <2>11. CASE Task!LoopCheck
    BY <2>11 DEF Task!LoopCheck
  <2>12. CASE Task!LoopCall
    BY <2>12, HeadTailProperties DEF Task!LoopCall
  <2>13. CASE Task!LoopClear
    BY <2>13 DEF Task!LoopClear
  <2>14. CASE UNCHANGED Task!vars
    BY <2>14 DEF Task!vars
  <2> QED
    BY <2>1, <2>2, <2>3, <2>4, <2>5, <2>6, <2>7, <2>8, <2>9, <2>10, <2>11,
       <2>12, <2>13, <2>14 DEF Task!Next, Task!stop, Task!loop
<1> QED
  BY <1>1, <1>2, PTL DEF Task!Spec

-----------------------------------------------------------------------------
(* TaskThread implements Executor: run_in_thread posts, the call of a       *)
(* function starts it, and everything else, the splice from one list to the *)
(* other above all, leaves what is pending as it is.                        *)
THEOREM ThreadInOrder == Task!Spec => Task!RunsInOrder
<1>1. Task!Init => Task!Promise!Init
  BY DEF Task!Init, Task!Promise!Init
<1>2. Task!TypeOK /\ [Task!Next]_(Task!vars) => [Task!Promise!Next]_(Task!Promise!vars)
  <2> SUFFICES ASSUME Task!TypeOK, [Task!Next]_(Task!vars)
               PROVE  Task!Promise!Next \/ UNCHANGED Task!Promise!vars
    OBVIOUS
  <2>t. t_read \in Seq(Functions) /\ t_write \in Seq(Functions)
    BY DEF Task!TypeOK
  <2>1. ASSUME NEW f \in Functions, Task!run_in_thread(f) PROVE Task!Promise!Next
    <3>1. t_write' = t_write \o <<f>> /\ UNCHANGED <<t_read, t_last>>
      BY <2>1, <2>t, AppendIsConcat DEF Task!run_in_thread, Task!EmplaceBack
    <3>2. t_read' \o t_write' = (t_read \o t_write) \o <<f>>
      BY <3>1, <2>t, ConcatAssociative
    <3>3. <<f>> \in Seq(Functions) /\ <<f>> # <<>> /\ t_read \o t_write \in Seq(Functions)
      BY <2>t, ConcatProperties
    <3>4. <<f>> = SubSeq(t_read' \o t_write', Len(t_read \o t_write) + 1, Len(t_read' \o t_write'))
      BY <3>2, <3>3, PostedPart
    <3>5. Task!Promise!Post
      BY <3>1, <3>2, <3>3, <3>4 DEF Task!Promise!Post
    <3> QED
      BY <3>5 DEF Task!Promise!Next
  <2>2. CASE Task!LoopCall
    <3>1. t_read # <<>> /\ t_last' = <<Head(t_read)>> /\ t_read' = Tail(t_read) /\ t_write' = t_write
      BY <2>2 DEF Task!LoopCall
    <3>2. /\ t_read \o t_write # <<>>
          /\ Head(t_read \o t_write) = Head(t_read)
          /\ Tail(t_read \o t_write) = t_read' \o t_write'
      BY <3>1, <2>t, HeadOfPending
    <3>3. Task!Promise!Start
      BY <3>1, <3>2 DEF Task!Promise!Start
    <3> QED
      BY <3>3 DEF Task!Promise!Next
  <2>3. CASE Task!LoopSplice
    <3>1. t_read' = t_read \o t_write /\ t_write' = <<>> /\ t_last' = t_last
      BY <2>3 DEF Task!LoopSplice
    <3>2. t_read' \o t_write' = t_read \o t_write
      BY <3>1, <2>t, ConcatProperties, ConcatEmptySeq
    <3> QED
      BY <3>1, <3>2 DEF Task!Promise!vars
  <2>4. CASE Task!RunBeyondBound \/ Task!start \/ Task!stop \/ Task!LoopTest
               \/ Task!LoopWait \/ Task!LoopSpurious \/ Task!LoopCheck \/ Task!LoopClear
               \/ UNCHANGED Task!vars
    <3>1. UNCHANGED <<t_write, t_read, t_last>>
      BY <2>4 DEF Task!RunBeyondBound, Task!start, Task!stop, Task!StopBegin,
                  Task!StopWakeup, Task!StopJoin, Task!LoopTest, Task!LoopWait,
                  Task!LoopSpurious, Task!LoopCheck, Task!LoopClear, Task!vars
    <3> QED
      BY <3>1 DEF Task!Promise!vars
  <2> QED
    BY <2>1, <2>2, <2>3, <2>4 DEF Task!Next, Task!loop
<1>3. Task!Spec => []Task!TypeOK
  BY ThreadTypes
<1>4. Task!Spec => Task!Promise!Spec
  BY <1>1, <1>2, <1>3, PTL DEF Task!Spec, Task!Promise!Spec
<1> QED
  BY <1>4 DEF Task!RunsInOrder
=============================================================================
