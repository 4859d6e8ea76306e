------------------------- MODULE ManagerLifeProofs --------------------------
(***************************************************************************)
(* A manager that is stopped has nobody left in its pools when it frees    *)
(* them, for any number of loops, workers and tasks.                       *)
(***************************************************************************)
EXTENDS ManagerLife, TLAPS

(* What ThreadProofs proves, of main_thread_ and of packer_thread_.         *)
Threads == INSTANCE ThreadProofs WITH
  running <- p_running, owner <- p_owner, caller <- p_caller, threads <- p_threads,
  pc <- p_pc, task_list <- p_list, last <- p_last, direct <- p_direct,
  t_running <- m_running, t_pc <- m_pc, t_stopping <- m_stopping, t_write <- m_write,
  t_read <- m_read, t_last <- m_last

-----------------------------------------------------------------------------
(* Every step of the manager is a step of main_thread_ or leaves it alone.  *)
LEMMA MainActions ==
  /\ main_thread_!Init <=> Threads!Task!Init
  /\ \A f : main_thread_!run_in_thread(f) <=> Threads!Task!run_in_thread(f)
  /\ main_thread_!RunBeyondBound <=> Threads!Task!RunBeyondBound
  /\ main_thread_!start <=> Threads!Task!start
  /\ main_thread_!stop <=> Threads!Task!stop
  /\ main_thread_!loop <=> Threads!Task!loop
  /\ main_thread_!LoopSpurious <=> Threads!Task!LoopSpurious
  /\ main_thread_!TypeOK <=> Threads!Task!TypeOK
<1>1. main_thread_!Init <=> Threads!Task!Init BY DEF main_thread_!Init, Threads!Task!Init
<1>2. \A f : main_thread_!run_in_thread(f) <=> Threads!Task!run_in_thread(f)
  BY DEF main_thread_!run_in_thread, Threads!Task!run_in_thread, main_thread_!EmplaceBack,
         Threads!Task!EmplaceBack, main_thread_!wakeup, Threads!Task!wakeup
<1>3. main_thread_!RunBeyondBound <=> Threads!Task!RunBeyondBound
  BY DEF main_thread_!RunBeyondBound, Threads!Task!RunBeyondBound, main_thread_!wakeup,
         Threads!Task!wakeup
<1>4. main_thread_!start <=> Threads!Task!start BY DEF main_thread_!start, Threads!Task!start
<1>5. main_thread_!stop <=> Threads!Task!stop
  BY DEF main_thread_!stop, Threads!Task!stop, main_thread_!StopBegin, Threads!Task!StopBegin,
         main_thread_!StopWakeup, Threads!Task!StopWakeup, main_thread_!StopJoin,
         Threads!Task!StopJoin, main_thread_!wakeup, Threads!Task!wakeup
<1>6. main_thread_!loop <=> Threads!Task!loop
  BY DEF main_thread_!loop, Threads!Task!loop, main_thread_!LoopTest, Threads!Task!LoopTest,
         main_thread_!LoopWait, Threads!Task!LoopWait, main_thread_!LoopSplice,
         Threads!Task!LoopSplice, main_thread_!LoopCheck, Threads!Task!LoopCheck,
         main_thread_!LoopCall, Threads!Task!LoopCall,
         main_thread_!LoopClear, Threads!Task!LoopClear
<1>7. main_thread_!LoopSpurious <=> Threads!Task!LoopSpurious
  BY DEF main_thread_!LoopSpurious, Threads!Task!LoopSpurious
<1>8. main_thread_!TypeOK <=> Threads!Task!TypeOK
  BY DEF main_thread_!TypeOK, Threads!Task!TypeOK, main_thread_!Pcs, Threads!Task!Pcs
<1> QED BY <1>1, <1>2, <1>3, <1>4, <1>5, <1>6, <1>7, <1>8

LEMMA MainSteps == [Next]_vars => [Threads!Task!Next]_(Threads!Task!vars)
<1> SUFFICES ASSUME [Next]_vars PROVE Threads!Task!Next \/ UNCHANGED Threads!Task!vars
  OBVIOUS
<1>p. ASSUME NEW f \in Functions, Post(f) PROVE Threads!Task!Next
  BY <1>p, MainActions DEF Post, Threads!Task!Next
<1>l. \A l : PostsOf(l) \in Functions BY DEF PostsOf, Functions
<1>1. CASE UNCHANGED main_vars BY <1>1 DEF main_vars, Threads!Task!vars
<1>2. CASE start
  <2>1. CASE StartMain BY <2>1, MainActions DEF StartMain, Threads!Task!Next
  <2>2. CASE StartPool \/ \E l \in AllLoops : StartLoop(l)
    BY <2>2, <1>1 DEF StartPool, StartLoop
  <2> QED BY <1>2, <2>1, <2>2 DEF start
<1>3. CASE stop
  <2>1. CASE StopMain BY <2>1, MainActions DEF StopMain, Threads!Task!Next
  <2>2. CASE StopRest
    BY <2>2, <1>1 DEF StopRest, StopLoopBegin, StopLoopJoin, StopPool, FreePools
  <2> QED BY <1>3, <2>1, <2>2 DEF stop
<1>4. CASE connect BY <1>4, <1>p DEF connect, Functions
<1>5. CASE MainThread
  <2>1. CASE MainStep BY <2>1, MainActions DEF MainStep, Threads!Task!Next
  <2>2. CASE TickIdle \/ TickBegin \/ TickAccept
    BY <2>2, <1>1 DEF TickIdle, TickBegin, TickAccept
  <2> QED BY <1>5, <2>1, <2>2 DEF MainThread
<1>6. CASE Spurious
  <2>1. CASE main_thread_!LoopSpurious BY <2>1, MainActions DEF Threads!Task!Next
  <2> QED BY <1>6, <1>1, <2>1 DEF Spurious
<1>7. ASSUME NEW l \in AllLoops, LoopStep(l)
      PROVE  Threads!Task!Next \/ UNCHANGED Threads!Task!vars
  <2>1. CASE LoopPosts(l) BY <2>1, <1>p, <1>l DEF LoopPosts
  <2>2. CASE AcceptOne BY <2>2, <1>p DEF AcceptOne, Functions
  <2>3. CASE LoopTest(l) \/ LoopIdle(l) \/ AcceptBegin \/ AcceptEnds
    BY <2>3, <1>1 DEF LoopTest, LoopIdle, AcceptBegin, AcceptEnds
  <2> QED BY <1>7, <2>1, <2>2, <2>3 DEF LoopStep
<1>8. ASSUME NEW w \in Workers, PoolStep(w) PROVE UNCHANGED main_vars
  BY <1>8 DEF PoolStep
<1>9. CASE UNCHANGED vars BY <1>9, <1>1 DEF vars
<1> QED BY <1>1, <1>2, <1>3, <1>4, <1>5, <1>6, <1>7, <1>8, <1>9 DEF Next

(* Whatever the manager does, main_thread_ keeps its shape, ...             *)
THEOREM MainTypes == Spec => []main_thread_!TypeOK
<1>1. Init => Threads!Task!Init BY MainActions DEF Init
<1>2. Spec => Threads!Task!Spec BY <1>1, MainSteps, PTL DEF Spec, Threads!Task!Spec
<1>3. main_thread_!TypeOK <=> Threads!Task!TypeOK BY MainActions
<1>4. TaskLists \subseteq Seq(Tasks) BY LifeAssumption
<1>5. Threads!Task!Spec => []Threads!Task!TypeOK BY <1>4, Threads!ThreadTypes
<1> QED BY <1>2, <1>3, <1>5, PTL

(* What is posted to main_thread_ runs in its order, each once, whatever    *)
(* start, stop and the loops do meanwhile.                                  *)
THEOREM MainInOrder == Spec => MainRunsInOrder
<1>1. Init => Threads!Task!Init BY MainActions DEF Init
<1>2. Spec => Threads!Task!Spec BY <1>1, MainSteps, PTL DEF Spec, Threads!Task!Spec
<1>3. Threads!Task!RunsInOrder => MainRunsInOrder
  <2>1. Threads!Task!Promise!Init => main_thread_!Promise!Init
    BY DEF Threads!Task!Promise!Init, main_thread_!Promise!Init
  <2>2. [Threads!Task!Promise!Next]_(Threads!Task!Promise!vars)
          => [main_thread_!Promise!Next]_(main_thread_!Promise!vars)
    BY DEF Threads!Task!Promise!Next, main_thread_!Promise!Next, Threads!Task!Promise!vars,
           main_thread_!Promise!vars, Threads!Task!Promise!Post, main_thread_!Promise!Post,
           Threads!Task!Promise!Start, main_thread_!Promise!Start, Threads!Task!Promise!Discard,
           main_thread_!Promise!Discard
  <2> QED BY <2>1, <2>2, PTL DEF Threads!Task!RunsInOrder, MainRunsInOrder,
             main_thread_!RunsInOrder,
             Threads!Task!Promise!Spec, main_thread_!Promise!Spec
<1>4. TaskLists \subseteq Seq(Tasks) BY LifeAssumption
<1>5. Threads!Task!Spec => Threads!Task!RunsInOrder BY <1>4, Threads!ThreadInOrder
<1> QED BY <1>2, <1>3, <1>5

-----------------------------------------------------------------------------
(* The same of packer_thread_.                                              *)
LEMMA PackerActions ==
  /\ packer_thread_!Init <=> Threads!Init
  /\ packer_thread_!start <=> Threads!start
  /\ packer_thread_!stop <=> Threads!stop
  /\ packer_thread_!AcceptBegin <=> Threads!AcceptBegin
  /\ packer_thread_!AcceptDirect <=> Threads!AcceptDirect
  /\ packer_thread_!AcceptNotify <=> Threads!AcceptNotify
  /\ \A fs : packer_thread_!accept_task_list(fs) <=> Threads!accept_task_list(fs)
  /\ \A w : packer_thread_!thread_loop(w) <=> Threads!thread_loop(w)
  /\ \A w : packer_thread_!WorkerSpurious(w) <=> Threads!WorkerSpurious(w)
  /\ packer_thread_!TypeOK <=> Threads!TypeOK
<1>1. packer_thread_!Init <=> Threads!Init BY DEF packer_thread_!Init, Threads!Init
<1>2. packer_thread_!start <=> Threads!start
  BY DEF packer_thread_!start, Threads!start, packer_thread_!StartBegin, Threads!StartBegin,
         packer_thread_!StartThread, Threads!StartThread
<1>3. packer_thread_!stop <=> Threads!stop
  BY DEF packer_thread_!stop, Threads!stop, packer_thread_!StopBegin, Threads!StopBegin,
         packer_thread_!StopJoin, Threads!StopJoin, packer_thread_!ClearTasks,
         Threads!ClearTasks, packer_thread_!notify_all, Threads!notify_all
<1>4. packer_thread_!AcceptBegin <=> Threads!AcceptBegin
  BY DEF packer_thread_!AcceptBegin, Threads!AcceptBegin
<1>5. packer_thread_!AcceptDirect <=> Threads!AcceptDirect
  BY DEF packer_thread_!AcceptDirect, Threads!AcceptDirect
<1>6. packer_thread_!AcceptNotify <=> Threads!AcceptNotify
  BY DEF packer_thread_!AcceptNotify, Threads!AcceptNotify, packer_thread_!notify_all,
         Threads!notify_all
<1>7. \A fs : packer_thread_!accept_task_list(fs) <=> Threads!accept_task_list(fs)
  BY DEF packer_thread_!accept_task_list, Threads!accept_task_list,
         packer_thread_!AcceptAtEnd, Threads!AcceptAtEnd
<1>8. \A w : packer_thread_!thread_loop(w) <=> Threads!thread_loop(w)
  BY DEF packer_thread_!thread_loop, Threads!thread_loop, packer_thread_!WorkerTest,
         Threads!WorkerTest, packer_thread_!WorkerWait, Threads!WorkerWait,
         packer_thread_!require_task, Threads!require_task, packer_thread_!WorkerNothing,
         Threads!WorkerNothing, packer_thread_!WorkerDone, Threads!WorkerDone
<1>9. \A w : packer_thread_!WorkerSpurious(w) <=> Threads!WorkerSpurious(w)
  BY DEF packer_thread_!WorkerSpurious, Threads!WorkerSpurious
<1>10. packer_thread_!TypeOK <=> Threads!TypeOK
  BY DEF packer_thread_!TypeOK, Threads!TypeOK, packer_thread_!WorkerPcs, Threads!WorkerPcs
<1> QED BY <1>1, <1>2, <1>3, <1>4, <1>5, <1>6, <1>7, <1>8, <1>9, <1>10

LEMMA PackerSteps == [Next]_vars => [Threads!Next]_(Threads!vars)
<1> SUFFICES ASSUME [Next]_vars PROVE Threads!Next \/ UNCHANGED Threads!vars
  OBVIOUS
<1>1. CASE UNCHANGED pool_vars BY <1>1 DEF pool_vars, Threads!vars
<1>2. CASE StartPool BY <1>2, PackerActions DEF StartPool, Threads!Next
<1>3. CASE StopPool BY <1>3, PackerActions DEF StopPool, Threads!Next
<1>4. CASE TickBegin BY <1>4, PackerActions DEF TickBegin, Threads!Next, Threads!accept
<1>5. CASE TickAccept BY <1>5, PackerActions DEF TickAccept, Threads!Next, Threads!accept
<1>6. ASSUME NEW w \in Workers, PoolStep(w) PROVE Threads!Next
  BY <1>6, PackerActions DEF PoolStep, Threads!Next
<1>7. ASSUME NEW w \in Workers, packer_thread_!WorkerSpurious(w) PROVE Threads!Next
  BY <1>7, PackerActions DEF Threads!Next
<1>8. ASSUME NEW l \in AllLoops, LoopStep(l) PROVE UNCHANGED pool_vars
  BY <1>8 DEF LoopStep, LoopTest, LoopIdle, LoopPosts, AcceptBegin, AcceptOne, AcceptEnds
<1>9. CASE start \/ stop
  <2>1. CASE StartMain \/ \E l \in AllLoops : StartLoop(l)
    BY <2>1, <1>1 DEF StartMain, StartLoop
  <2>2. CASE StopMain \/ FreePools \/ \E l \in AllLoops : StopLoopBegin(l) \/ StopLoopJoin(l)
    BY <2>2, <1>1 DEF StopMain, FreePools, StopLoopBegin, StopLoopJoin
  <2> QED BY <1>9, <1>2, <1>3, <2>1, <2>2 DEF start, stop, StopRest
<1>10. CASE MainThread
  <2>1. CASE MainStep \/ TickIdle BY <2>1, <1>1 DEF MainStep, TickIdle
  <2> QED BY <1>10, <1>4, <1>5, <2>1 DEF MainThread
<1>11. CASE connect BY <1>11, <1>1 DEF connect
<1>12. CASE Spurious BY <1>12, <1>1, <1>7 DEF Spurious
<1>13. CASE UNCHANGED vars BY <1>13, <1>1 DEF vars
<1> QED BY <1>1, <1>6, <1>8, <1>9, <1>10, <1>11, <1>12, <1>13 DEF Next

(* ... and so does packer_thread_, with the tasks do_send_timeout hands in. *)
THEOREM PackerTypes == Spec => []packer_thread_!TypeOK
<1>1. Init => Threads!Init BY PackerActions DEF Init
<1>2. Spec => Threads!Spec BY <1>1, PackerSteps, PTL DEF Spec, Threads!Spec
<1>3. packer_thread_!TypeOK <=> Threads!TypeOK BY PackerActions
<1>4. TaskLists \subseteq Seq(Tasks) BY LifeAssumption
<1>5. Threads!Spec => []Threads!TypeOK BY <1>4, Threads!TypeCorrect
<1> QED BY <1>2, <1>3, <1>5, PTL

-----------------------------------------------------------------------------
(* Where the owner stands decides who else there is.                        *)

Starts == {"new", "start_loops", "start_pool", "start_main"}
Stops == {"stop_acceptor", "join_loop", "stop_loops", "stop_pool", "free", "down"}
LifeTypes ==
  /\ at \in Starts \cup {"up", "stop_main"} \cup Stops
  /\ loop_pc \in [AllLoops -> {"none", "test", "io", "accept", "done"}]
  /\ quit \in [AllLoops -> BOOLEAN]

(* main_thread_ runs from its start to its join.                            *)
MainStands ==
  /\ at \in Starts \cup Stops => m_pc = "none" /\ ~m_running /\ m_stopping = "no"
  /\ at = "up" => m_running
  /\ at = "stop_main" => m_stopping # "no"

(* packer_thread_ is whole from before main_thread_ starts until after it   *)
(* has been joined.                                                         *)
Whole == p_owner = "idle" /\ p_running /\ p_threads = Workers
Gone == p_owner = "idle" /\ ~p_running /\ p_threads = {} /\ p_list = <<>>
PackerStands ==
  /\ at \in {"new", "start_loops", "free", "down"} => Gone
  /\ at = "start_pool" => Gone \/ (p_owner = "start" /\ p_running)
  /\ at \in {"start_main", "up", "stop_main", "stop_acceptor", "join_loop", "stop_loops"} =>
       Whole
  /\ at = "stop_pool" => Whole \/ (p_owner = "stop" /\ ~p_running /\ p_list = <<>>)

(* Only do_send_timeout hands tasks in, and it runs in a call of main_thread_. *)
TickStands ==
  /\ tick # "no" => m_pc = "call"
  /\ p_caller # "idle" => tick = "accept"
  /\ ~p_direct

(* A loop that has been told to quit has been joined, but for the one the   *)
(* owner is joining.                                                        *)
LoopsStand ==
  /\ at \in Starts \cup {"up", "stop_main", "stop_acceptor"} => \A l \in AllLoops : ~quit[l]
  /\ at \in {"stop_loops", "stop_pool", "free", "down"} =>
       \A l \in AllLoops : quit[l] => loop_pc[l] = "none"
  /\ at = "join_loop" =>
       \E l \in AllLoops : quit[l] /\ \A k \in AllLoops \ {l} : quit[k] => loop_pc[k] = "none"
  /\ at \in {"join_loop", "stop_loops"} => quit[Acceptor]
  /\ at \in {"stop_pool", "free", "down"} => \A l \in AllLoops : quit[l]
  /\ pools = "freed" => at = "down"

LifeInv == LifeTypes /\ MainStands /\ PackerStands /\ TickStands /\ LoopsStand
Types == main_thread_!TypeOK /\ packer_thread_!TypeOK

LEMMA LifeInit == Init => LifeInv
BY LifeAssumption
   DEF Init, LifeInv, LifeTypes, Starts, Stops, MainStands, PackerStands, Whole, Gone,
       TickStands, LoopsStand, main_thread_!Init, packer_thread_!Init

(* The owner starts the parts in their order ...                            *)
LEMMA StartStands ==
  ASSUME Types, LifeInv, start PROVE LifeInv'
<1>t. LifeTypes BY DEF LifeInv
<1>1. ASSUME NEW l \in AllLoops, StartLoop(l) PROVE LifeInv'
  <2>1. /\ at \in {"new", "start_loops"} /\ at' \in {"start_loops", "start_pool"}
        /\ UNCHANGED <<quit, pools, tick, main_vars, pool_vars>>
    BY <1>1 DEF StartLoop
  <2>2. at' = "start_loops" \/ at = "start_loops" \/ at' = "start_pool"
    BY <2>1
  <2>3. LifeTypes' BY <1>1, <1>t, <2>1 DEF StartLoop, LifeTypes, Starts
  <2>4. MainStands' BY <2>1 DEF LifeInv, MainStands, Starts, Stops, main_vars
  <2>5. PackerStands' BY <2>1 DEF LifeInv, PackerStands, Whole, Gone, pool_vars
  <2>6. TickStands' BY <2>1 DEF LifeInv, TickStands, main_vars, pool_vars
  <2>7. LoopsStand' BY <2>1 DEF LifeInv, LoopsStand, Starts
  <2> QED BY <2>3, <2>4, <2>5, <2>6, <2>7 DEF LifeInv
<1>2. CASE StartPool
  <2>1. /\ at = "start_pool" /\ at' = (IF p_owner' = "idle" THEN "start_main" ELSE "start_pool")
        /\ UNCHANGED <<loop_pc, quit, pools, tick, main_vars>> /\ packer_thread_!start
    BY <1>2 DEF StartPool
  <2>2. LifeTypes' BY <1>t, <2>1 DEF LifeTypes, Starts
  <2>3. MainStands' BY <2>1 DEF LifeInv, MainStands, Starts, Stops, main_vars
  <2>4. p_caller' = p_caller /\ p_direct' = p_direct
    BY <2>1 DEF packer_thread_!start, packer_thread_!StartBegin, packer_thread_!StartThread
  <2>5. PackerStands'
    <3>1. CASE packer_thread_!StartBegin
      BY <2>1, <3>1 DEF packer_thread_!StartBegin, PackerStands
    <3>2. ASSUME NEW w \in Workers, packer_thread_!StartThread(w) PROVE PackerStands'
      <4>1. p_running BY <2>1, <3>2 DEF packer_thread_!StartThread, LifeInv, PackerStands, Gone
      <4>2. p_owner' = "idle" => p_threads' = Workers
        BY <3>2 DEF packer_thread_!StartThread
      <4>3. p_running' = p_running /\ p_owner' \in {"idle", "start"}
        BY <3>2 DEF packer_thread_!StartThread
      <4> QED BY <2>1, <4>1, <4>2, <4>3 DEF PackerStands, Whole
    <3> QED BY <2>1, <3>1, <3>2 DEF packer_thread_!start
  <2>6. TickStands' BY <2>1, <2>4 DEF LifeInv, TickStands, main_vars
  <2>7. LoopsStand' BY <2>1 DEF LifeInv, LoopsStand, Starts
  <2> QED BY <2>2, <2>3, <2>5, <2>6, <2>7 DEF LifeInv
<1>3. CASE StartMain
  <2>1. /\ at = "start_main" /\ at' = "up" /\ main_thread_!start
        /\ UNCHANGED <<loop_pc, quit, pools, tick, pool_vars>>
    BY <1>3 DEF StartMain
  <2>2. LifeTypes' BY <1>t, <2>1 DEF LifeTypes
  <2>3. MainStands' BY <2>1 DEF MainStands, Starts, Stops, main_thread_!start
  <2>4. PackerStands' BY <2>1 DEF LifeInv, PackerStands, Whole, pool_vars
  <2>5. TickStands'
    BY <2>1 DEF LifeInv, TickStands, MainStands, Starts, pool_vars
  <2>6. LoopsStand' BY <2>1 DEF LifeInv, LoopsStand, Starts
  <2> QED BY <2>2, <2>3, <2>4, <2>5, <2>6 DEF LifeInv
<1> QED BY <1>1, <1>2, <1>3 DEF start

(* ... and stops them: main_thread_, the acceptor, the loops, the workers,  *)
(* each joined before the next is told, and frees the pools last.           *)
LEMMA StopStands ==
  ASSUME Types, LifeInv, stop PROVE LifeInv'
<1>t. LifeTypes BY DEF LifeInv
<1>1. CASE StopMain
  <2>1. /\ at \in {"up", "stop_main"} /\ main_thread_!stop
        /\ at' = (IF m_stopping' = "no" THEN "stop_acceptor" ELSE "stop_main")
        /\ UNCHANGED <<loop_pc, quit, pools, tick, pool_vars>>
    BY <1>1 DEF StopMain
  <2>2. LifeTypes' BY <1>t, <2>1 DEF LifeTypes, Stops
  <2>3. /\ m_stopping' = "no" => m_pc' = "none" /\ ~m_running'
        /\ m_pc = "call" => m_pc' = "call"
    BY <2>1 DEF main_thread_!stop, main_thread_!StopBegin, main_thread_!StopWakeup,
                main_thread_!StopJoin, main_thread_!wakeup, Types, main_thread_!TypeOK
  <2>4. MainStands' BY <2>1, <2>3 DEF MainStands, Starts, Stops
  <2>5. PackerStands' BY <2>1 DEF LifeInv, PackerStands, Whole, pool_vars
  <2>6. TickStands' BY <2>1, <2>3 DEF LifeInv, TickStands, pool_vars
  <2>7. LoopsStand' BY <2>1 DEF LifeInv, LoopsStand, Starts
  <2> QED BY <2>2, <2>4, <2>5, <2>6, <2>7 DEF LifeInv
<1>2. ASSUME NEW l \in AllLoops, StopLoopBegin(l) PROVE LifeInv'
  <2>1. /\ at \in {"stop_acceptor", "stop_loops"} /\ at' = "join_loop"
        /\ l = Acceptor \/ at = "stop_loops"
        /\ quit' = [quit EXCEPT ![l] = TRUE]
        /\ UNCHANGED <<loop_pc, pools, tick, main_vars, pool_vars>>
    BY <1>2 DEF StopLoopBegin
  <2>2. LifeTypes' BY <1>t, <2>1 DEF LifeTypes, Stops
  <2>3. MainStands' BY <2>1 DEF LifeInv, MainStands, Starts, Stops, main_vars
  <2>4. PackerStands' BY <2>1 DEF LifeInv, PackerStands, Whole, pool_vars
  <2>5. TickStands' BY <2>1 DEF LifeInv, TickStands, main_vars, pool_vars
  <2>6. LoopsStand'
    <3>1. quit'[l] /\ \A k \in AllLoops \ {l} : quit'[k] = quit[k]
      BY <1>t, <2>1 DEF LifeTypes
    <3>2. \A k \in AllLoops \ {l} : quit[k] => loop_pc[k] = "none"
      BY <2>1 DEF LifeInv, LoopsStand
    <3>3. Acceptor \in AllLoops BY DEF AllLoops
    <3>4. quit'[Acceptor]
      BY <2>1, <3>1, <3>3 DEF LifeInv, LoopsStand
    <3>5. pools # "freed" BY <2>1 DEF LifeInv, LoopsStand
    <3> QED BY <2>1, <3>1, <3>2, <3>4, <3>5 DEF LoopsStand, Starts
  <2> QED BY <2>2, <2>3, <2>4, <2>5, <2>6 DEF LifeInv
<1>3. ASSUME NEW l \in AllLoops, StopLoopJoin(l) PROVE LifeInv'
  <2>1. /\ at = "join_loop" /\ quit[l] /\ loop_pc[l] = "done"
        /\ at' = (IF \E k \in Loops : ~quit[k] THEN "stop_loops" ELSE "stop_pool")
        /\ loop_pc' = [loop_pc EXCEPT ![l] = "none"]
        /\ UNCHANGED <<quit, pools, tick, main_vars, pool_vars>>
    BY <1>3 DEF StopLoopJoin, AfterLoops
  <2>2. LifeTypes' BY <1>t, <2>1 DEF LifeTypes, Stops
  <2>3. MainStands' BY <2>1 DEF LifeInv, MainStands, Starts, Stops, main_vars
  <2>4. PackerStands' BY <2>1 DEF LifeInv, PackerStands, Whole, pool_vars
  <2>5. TickStands' BY <2>1 DEF LifeInv, TickStands, main_vars, pool_vars
  <2>6. LoopsStand'
    <3>1. loop_pc'[l] = "none" /\ \A k \in AllLoops \ {l} : loop_pc'[k] = loop_pc[k]
      BY <1>t, <2>1 DEF LifeTypes
    <3>2. \A k \in AllLoops \ {l} : quit[k] => loop_pc[k] = "none"
      BY <2>1 DEF LifeInv, LoopsStand
    <3>3. \A k \in AllLoops : quit'[k] => loop_pc'[k] = "none" BY <2>1, <3>1, <3>2
    <3>4. quit'[Acceptor] BY <2>1 DEF LifeInv, LoopsStand
    <3>5. at' = "stop_pool" => \A k \in AllLoops : quit'[k] BY <2>1, <3>4 DEF AllLoops
    <3>6. pools' # "freed" BY <2>1 DEF LifeInv, LoopsStand
    <3> QED BY <2>1, <3>3, <3>4, <3>5, <3>6 DEF LoopsStand, Starts
  <2> QED BY <2>2, <2>3, <2>4, <2>5, <2>6 DEF LifeInv
<1>4. CASE StopPool
  <2>1. /\ at = "stop_pool" /\ at' = (IF p_owner' = "idle" THEN "free" ELSE "stop_pool")
        /\ UNCHANGED <<loop_pc, quit, pools, tick, main_vars>> /\ packer_thread_!stop
    BY <1>4 DEF StopPool
  <2>2. LifeTypes' BY <1>t, <2>1 DEF LifeTypes, Stops
  <2>3. MainStands' BY <2>1 DEF LifeInv, MainStands, Starts, Stops, main_vars
  <2>4. p_caller' = p_caller /\ p_direct' = p_direct
    BY <2>1 DEF packer_thread_!stop, packer_thread_!StopBegin, packer_thread_!StopJoin
  <2>5. PackerStands'
    <3>1. CASE packer_thread_!StopBegin
      BY <2>1, <3>1 DEF packer_thread_!StopBegin, packer_thread_!ClearTasks, PackerStands
    <3>2. CASE packer_thread_!StopJoin
      <4>1. ~p_running /\ p_list = <<>>
        BY <2>1, <3>2 DEF packer_thread_!StopJoin, LifeInv, PackerStands, Whole
      <4> QED BY <2>1, <3>2, <4>1 DEF packer_thread_!StopJoin, PackerStands, Gone
    <3> QED BY <2>1, <3>1, <3>2 DEF packer_thread_!stop
  <2>6. TickStands' BY <2>1, <2>4 DEF LifeInv, TickStands, main_vars
  <2>7. LoopsStand' BY <2>1 DEF LifeInv, LoopsStand, Starts
  <2> QED BY <2>2, <2>3, <2>5, <2>6, <2>7 DEF LifeInv
<1>5. CASE FreePools
  <2>1. /\ at = "free" /\ at' = "down"
        /\ UNCHANGED <<loop_pc, quit, tick, main_vars, pool_vars>>
    BY <1>5 DEF FreePools
  <2>2. LifeTypes' BY <1>t, <2>1 DEF LifeTypes, Stops
  <2>3. MainStands' BY <2>1 DEF LifeInv, MainStands, Starts, Stops, main_vars
  <2>4. PackerStands' BY <2>1 DEF LifeInv, PackerStands, Gone, pool_vars
  <2>5. TickStands' BY <2>1 DEF LifeInv, TickStands, main_vars, pool_vars
  <2>6. LoopsStand' BY <2>1 DEF LifeInv, LoopsStand, Starts
  <2> QED BY <2>2, <2>3, <2>4, <2>5, <2>6 DEF LifeInv
<1> QED BY <1>1, <1>2, <1>3, <1>4, <1>5 DEF stop, StopRest

(* A post reaches main_thread_ at most by waking it up.                     *)
LEMMA PostStands ==
  ASSUME MainStands, at' = at, NEW f, Post(f) PROVE MainStands'
<1>1. /\ m_pc = "none" => m_pc' = "none"
      /\ UNCHANGED <<m_running, m_stopping>>
  BY DEF Post, main_thread_!run_in_thread, main_thread_!RunBeyondBound, main_thread_!wakeup
<1> QED BY <1>1 DEF MainStands

LEMMA PostCalls == ASSUME NEW f, Post(f), m_pc = "call" PROVE m_pc' = "call"
BY DEF Post, main_thread_!run_in_thread, main_thread_!RunBeyondBound, main_thread_!wakeup

LEMMA LoopStands ==
  ASSUME Types, LifeInv, NEW l \in AllLoops, LoopStep(l) PROVE LifeInv'
<1>t. LifeTypes BY DEF LifeInv
<1>a. Acceptor \in AllLoops BY DEF AllLoops
<1>1. /\ UNCHANGED <<at, quit, pools, tick, pool_vars>>
      /\ main_vars' = main_vars \/ \E f \in Functions : Post(f)
  BY DEF LoopStep, LoopTest, LoopIdle, LoopPosts, AcceptBegin, AcceptOne, AcceptEnds,
         PostsOf, Functions, life_vars
<1>2. PICK k \in AllLoops, p \in {"test", "io", "accept", "done"} :
        \/ loop_pc' = loop_pc
        \/ loop_pc[k] # "none" /\ loop_pc' = [loop_pc EXCEPT ![k] = p]
  BY <1>a DEF LoopStep, LoopTest, LoopIdle, LoopPosts, AcceptBegin, AcceptOne, AcceptEnds,
              life_vars
<1>3. \A j \in AllLoops : loop_pc[j] = "none" => loop_pc'[j] = "none"
  BY <1>t, <1>2 DEF LifeTypes
<1>4. LifeTypes' BY <1>t, <1>1, <1>2 DEF LifeTypes
<1>5. MainStands' BY <1>1, PostStands DEF LifeInv, MainStands, main_vars
<1>6. PackerStands' BY <1>1 DEF LifeInv, PackerStands, Whole, Gone, pool_vars
<1>7. TickStands' BY <1>1, PostCalls DEF LifeInv, TickStands, main_vars, pool_vars
<1>8. LoopsStand' BY <1>1, <1>3 DEF LifeInv, LoopsStand
<1> QED BY <1>4, <1>5, <1>6, <1>7, <1>8 DEF LifeInv

LEMMA ConnectStands == ASSUME Types, LifeInv, connect PROVE LifeInv'
<1>1. UNCHANGED <<life_vars, pool_vars>> /\ Post("add") BY DEF connect
<1>2. LifeTypes' BY <1>1 DEF LifeInv, LifeTypes, life_vars
<1>3. MainStands' BY <1>1, PostStands DEF LifeInv, life_vars
<1>4. PackerStands' BY <1>1 DEF LifeInv, PackerStands, Whole, Gone, life_vars, pool_vars
<1>5. TickStands' BY <1>1, PostCalls DEF LifeInv, TickStands, life_vars, pool_vars
<1>6. LoopsStand' BY <1>1 DEF LifeInv, LoopsStand, life_vars
<1> QED BY <1>2, <1>3, <1>4, <1>5, <1>6 DEF LifeInv

(* main_thread_ hands tasks in only while the pool is whole.                *)
LEMMA TickWhole ==
  ASSUME LifeInv, Types, tick # "no" PROVE at \in {"up", "stop_main"} /\ Whole
<1>1. m_pc = "call" BY DEF LifeInv, TickStands
<1>2. at \in {"up", "stop_main"} BY <1>1 DEF LifeInv, LifeTypes, MainStands
<1> QED BY <1>2 DEF LifeInv, PackerStands

LEMMA MainThreadStands == ASSUME Types, LifeInv, MainThread PROVE LifeInv'
<1>1. CASE MainStep
  <2>1. /\ tick = "no" /\ main_thread_!loop
        /\ tick' \in {"no", "scan"} /\ (tick' = "scan" => m_pc = "call" /\ m_read # <<>>)
        /\ UNCHANGED <<at, loop_pc, quit, pools, pool_vars>>
    BY <1>1 DEF MainStep
  <2>2. /\ UNCHANGED <<m_running, m_stopping>> /\ m_pc # "none"
        /\ m_pc = "call" /\ m_read # <<>> => m_pc' = "call"
    BY <2>1 DEF main_thread_!loop, main_thread_!LoopTest, main_thread_!LoopWait,
                main_thread_!LoopSplice, main_thread_!LoopCheck, main_thread_!LoopCall,
                main_thread_!LoopClear
  <2>3. LifeTypes' BY <2>1 DEF LifeInv, LifeTypes
  <2>4. MainStands' BY <2>1, <2>2 DEF LifeInv, MainStands
  <2>5. PackerStands' BY <2>1 DEF LifeInv, PackerStands, Whole, Gone, pool_vars
  <2>6. TickStands' BY <2>1, <2>2 DEF LifeInv, TickStands, pool_vars
  <2>7. LoopsStand' BY <2>1 DEF LifeInv, LoopsStand
  <2> QED BY <2>3, <2>4, <2>5, <2>6, <2>7 DEF LifeInv
<1>2. ASSUME tick # "no", UNCHANGED <<at, loop_pc, quit, pools, main_vars>>,
             UNCHANGED <<p_owner, p_running, p_threads, p_direct>>,
             p_caller' # "idle" => tick' = "accept"
      PROVE  LifeInv'
  <2>1. at \in {"up", "stop_main"} /\ Whole BY <1>2, TickWhole
  <2>2. LifeTypes' BY <1>2 DEF LifeInv, LifeTypes
  <2>3. MainStands' BY <1>2 DEF LifeInv, MainStands, main_vars
  <2>4. PackerStands' BY <1>2, <2>1 DEF PackerStands, Whole
  <2>5. TickStands' BY <1>2 DEF LifeInv, TickStands, main_vars
  <2>6. LoopsStand' BY <1>2 DEF LifeInv, LoopsStand
  <2> QED BY <2>2, <2>3, <2>4, <2>5, <2>6 DEF LifeInv
<1>3. CASE TickIdle
  BY <1>2, <1>3 DEF TickIdle, LifeInv, TickStands, pool_vars
<1>4. CASE TickBegin
  <2>1. p_threads # {} BY <1>4, TickWhole, LifeAssumption DEF TickBegin, Whole
  <2>2. packer_thread_!AcceptBegin /\ tick' = "accept"
    BY <1>4, <2>1 DEF TickBegin, packer_thread_!AcceptDirect
  <2> QED BY <1>2, <1>4, <2>2 DEF TickBegin, packer_thread_!AcceptBegin
<1>5. CASE TickAccept
  <2>1. ASSUME NEW fs \in TaskLists, packer_thread_!accept_task_list(fs), UNCHANGED tick
        PROVE  LifeInv'
    BY <1>2, <1>5, <2>1 DEF TickAccept, packer_thread_!accept_task_list
  <2>2. CASE packer_thread_!AcceptNotify
    BY <1>2, <1>5, <2>2 DEF TickAccept, packer_thread_!AcceptNotify
  <2> QED BY <1>5, <2>1, <2>2 DEF TickAccept
<1> QED BY <1>1, <1>3, <1>4, <1>5 DEF MainThread

LEMMA PoolStands ==
  ASSUME Types, LifeInv, UNCHANGED <<life_vars, main_vars>>, NEW w \in Workers,
         packer_thread_!thread_loop(w) \/ packer_thread_!WorkerSpurious(w)
  PROVE  LifeInv'
<1>1. /\ UNCHANGED <<p_running, p_owner, p_caller, p_threads, p_direct>>
      /\ p_list = <<>> => p_list' = <<>>
  BY DEF packer_thread_!thread_loop, packer_thread_!WorkerTest, packer_thread_!WorkerWait,
         packer_thread_!require_task, packer_thread_!WorkerNothing,
         packer_thread_!WorkerDone, packer_thread_!WorkerSpurious
<1>2. LifeTypes' BY DEF LifeInv, LifeTypes, life_vars
<1>3. MainStands' BY DEF LifeInv, MainStands, life_vars, main_vars
<1>4. PackerStands' BY <1>1 DEF LifeInv, PackerStands, Whole, Gone, life_vars
<1>5. TickStands' BY <1>1 DEF LifeInv, TickStands, life_vars, main_vars
<1>6. LoopsStand' BY DEF LifeInv, LoopsStand, life_vars
<1> QED BY <1>2, <1>3, <1>4, <1>5, <1>6 DEF LifeInv

LEMMA WakesStand ==
  ASSUME Types, LifeInv, main_thread_!LoopSpurious, UNCHANGED <<life_vars, pool_vars>>
  PROVE  LifeInv'
<1>1. m_pc = "waiting" /\ m_pc' = "woken" /\ UNCHANGED <<m_running, m_stopping>>
  BY DEF main_thread_!LoopSpurious
<1>2. LifeTypes' BY DEF LifeInv, LifeTypes, life_vars
<1>3. MainStands' BY <1>1 DEF LifeInv, MainStands, life_vars
<1>4. PackerStands' BY DEF LifeInv, PackerStands, Whole, Gone, life_vars, pool_vars
<1>5. TickStands' BY <1>1 DEF LifeInv, TickStands, life_vars, pool_vars
<1>6. LoopsStand' BY DEF LifeInv, LoopsStand, life_vars
<1> QED BY <1>2, <1>3, <1>4, <1>5, <1>6 DEF LifeInv

LEMMA LifeStep == ASSUME Types, LifeInv, [Next]_vars PROVE LifeInv'
<1>1. CASE UNCHANGED vars
  BY <1>1 DEF vars, life_vars, main_vars, pool_vars, LifeInv, LifeTypes, MainStands,
              PackerStands, Whole, Gone, TickStands, LoopsStand
<1>2. CASE Spurious BY <1>2, WakesStand, PoolStands DEF Spurious
<1>3. ASSUME NEW w \in Workers, PoolStep(w) PROVE LifeInv'
  BY <1>3, PoolStands DEF PoolStep
<1> QED BY <1>1, <1>2, <1>3, StartStands, StopStands, ConnectStands, MainThreadStands,
           LoopStands DEF Next

LEMMA LifeCorrect == Spec => [](Types /\ LifeInv)
<1>1. Spec => []Types BY MainTypes, PackerTypes, PTL DEF Types
<1> QED BY <1>1, LifeInit, LifeStep, PTL DEF Spec

-----------------------------------------------------------------------------
(* TcpManager::stop frees the pools when every loop, main_thread_ and every *)
(* worker has been joined.                                                  *)
THEOREM FreedByTheLast == Spec => []FreedAlone
<1>1. Types /\ LifeInv => FreedAlone
  <2> SUFFICES ASSUME Types, LifeInv, pools = "freed" PROVE FreedAlone
    BY DEF FreedAlone
  <2>1. at = "down" BY DEF LifeInv, LoopsStand
  <2>2. \A l \in AllLoops : loop_pc[l] = "none" BY <2>1 DEF LifeInv, LoopsStand
  <2>3. m_pc = "none" BY <2>1 DEF LifeInv, MainStands, Stops
  <2>4. p_threads = {} BY <2>1 DEF LifeInv, PackerStands, Gone
  <2>5. \A w \in Workers : p_pc[w] = "none"
    BY <2>4 DEF Types, packer_thread_!TypeOK
  <2> QED BY <2>2, <2>3, <2>5 DEF FreedAlone
<1> QED BY <1>1, LifeCorrect, PTL

(* do_send_timeout always finds packer_thread_ complete and at rest, and so *)
(* never runs a task itself.                                                *)
THEOREM PoolServes == Spec => []PoolServesMain
<1>1. Types /\ LifeInv => PoolServesMain
  <2> SUFFICES ASSUME Types, LifeInv PROVE PoolServesMain
    OBVIOUS
  <2>1. ~p_direct BY DEF LifeInv, TickStands
  <2>2. ASSUME p_caller # "idle" PROVE Whole
    BY <2>2, TickWhole DEF LifeInv, TickStands
  <2> QED BY <2>1, <2>2 DEF PoolServesMain, Whole
<1> QED BY <1>1, LifeCorrect, PTL

(* When stop has joined the workers nothing is left for a next start.       *)
THEOREM TasksEndWithStop == Spec => []NoTaskOutlivesStop
<1>1. Types /\ LifeInv => NoTaskOutlivesStop
  BY DEF LifeInv, PackerStands, Gone, NoTaskOutlivesStop
<1> QED BY <1>1, LifeCorrect, PTL
=============================================================================
