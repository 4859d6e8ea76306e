---------------------------- MODULE ManagerLife -----------------------------
(***************************************************************************)
(* The life of a TcpManager: start brings up acceptor_loop_, the event     *)
(* loops, packer_thread_ and main_thread_, stop takes them down in another *)
(* order and then frees the pools all of them have used.                   *)
(*                                                                         *)
(* main_thread_ is a TaskThread that is posted to by the timer and the     *)
(* listening sockets of a TcpServer on acceptor_loop_, by the event loops  *)
(* and by TcpClient::connect, and whose do_send_timeout hands tasks to     *)
(* packer_thread_, a ThreadPool.                                           *)
(*                                                                         *)
(* A manager that has been stopped is not followed into a second start:    *)
(* stop_loop leaves events_ empty, and epoll_wait is then given the first  *)
(* element of an empty vector.                                             *)
(*                                                                         *)
(* A definition that only a "mutants" entry of PROJECT.json uses is a      *)
(* wrong version of the one after it, kept to show that a property         *)
(* notices.                                                                *)
(***************************************************************************)
EXTENDS Naturals, Sequences

CONSTANTS
  Loops,        \* socket_loop_
  Acceptor,     \* acceptor_loop_
  Workers,      \* the threads of packer_thread_
  Tasks,        \* tasks of packer_thread_
  TaskLists,    \* the lists of them do_send_timeout may hand in
  MaxPending,   \* bound: functions posted to main_thread_ and not run
  MaxTasks      \* bound: tasks in packer_thread_ and not taken

AllLoops == Loops \cup {Acceptor}
Functions == {"tick", "add", "remove"}

ASSUME LifeAssumption ==
  Acceptor \notin Loops /\ Loops # {} /\ Workers # {} /\ TaskLists \subseteq Seq(Tasks)

VARIABLES
  at,           \* where the thread that calls start and stop stands
  loop_pc,      \* where EventManager::loop of each event loop stands
  quit,         \* EventManager::quit_
  pools,        \* buffer_pool_, client_pool_, handle_pool_: "kept" or "freed"
  tick,         \* where do_send_timeout stands: "no", "scan" or "accept"
  m_running, m_pc, m_stopping, m_write, m_read, m_last,        \* main_thread_
  p_running, p_owner, p_caller, p_threads, p_pc, p_list, p_last, p_direct

main_vars == <<m_running, m_pc, m_stopping, m_write, m_read, m_last>>
pool_vars == <<p_running, p_owner, p_caller, p_threads, p_pc, p_list, p_last, p_direct>>
life_vars == <<at, loop_pc, quit, pools, tick>>
vars == <<life_vars, main_vars, pool_vars>>

main_thread_ == INSTANCE TaskThread WITH
  running <- m_running, pc <- m_pc, stopping <- m_stopping, write <- m_write,
  read <- m_read, last <- m_last

packer_thread_ == INSTANCE ThreadPool WITH
  running <- p_running, owner <- p_owner, caller <- p_caller, threads <- p_threads,
  pc <- p_pc, task_list <- p_list, last <- p_last, direct <- p_direct

Init ==
  /\ at = "new" /\ pools = "kept" /\ tick = "no"
  /\ loop_pc = [l \in AllLoops |-> "none"]
  /\ quit = [l \in AllLoops |-> FALSE]
  /\ main_thread_!Init /\ packer_thread_!Init

-----------------------------------------------------------------------------
(* TcpManager::start, in its order *)

StartLoop(l) ==
  /\ at = IF l = Acceptor THEN "new" ELSE "start_loops"
  /\ loop_pc[l] = "none"
  /\ loop_pc' = [loop_pc EXCEPT ![l] = "test"]
  /\ at' = IF \E k \in Loops : loop_pc'[k] = "none" THEN "start_loops" ELSE "start_pool"
  /\ UNCHANGED <<quit, pools, tick, main_vars, pool_vars>>

StartPool ==
  /\ at = "start_pool"
  /\ packer_thread_!start
  /\ at' = IF p_owner' = "idle" THEN "start_main" ELSE "start_pool"
  /\ UNCHANGED <<loop_pc, quit, pools, tick, main_vars>>

StartMain ==
  /\ at = "start_main"
  /\ main_thread_!start
  /\ at' = "up"
  /\ UNCHANGED <<loop_pc, quit, pools, tick, pool_vars>>

-----------------------------------------------------------------------------
(* TcpManager::stop, in its order *)

StopMain ==
  /\ at \in {"up", "stop_main"}
  /\ main_thread_!stop
  /\ at' = IF m_stopping' = "no" THEN "stop_acceptor" ELSE "stop_main"
  /\ UNCHANGED <<loop_pc, quit, pools, tick, pool_vars>>

(* EventManager::stop_loop: ready_quit sets quit_ and joins. *)
StopLoopBegin(l) ==
  /\ at = IF l = Acceptor THEN "stop_acceptor" ELSE "stop_loops"
  /\ ~quit[l]
  /\ quit' = [quit EXCEPT ![l] = TRUE]
  /\ at' = "join_loop"
  /\ UNCHANGED <<loop_pc, pools, tick, main_vars, pool_vars>>

AfterLoops == IF \E k \in Loops : ~quit[k] THEN "stop_loops" ELSE "stop_pool"

StopLoopDetached(l) ==   \* as if the loop's thread were not waited for
  /\ at = "join_loop" /\ quit[l]
  /\ at' = AfterLoops
  /\ UNCHANGED <<loop_pc, quit, pools, tick, main_vars, pool_vars>>

StopLoopJoin(l) ==
  /\ at = "join_loop" /\ quit[l] /\ loop_pc[l] = "done"
  /\ loop_pc' = [loop_pc EXCEPT ![l] = "none"]
  /\ at' = AfterLoops
  /\ UNCHANGED <<quit, pools, tick, main_vars, pool_vars>>

StopPool ==
  /\ at = "stop_pool"
  /\ packer_thread_!stop
  /\ at' = IF p_owner' = "idle" THEN "free" ELSE "stop_pool"
  /\ UNCHANGED <<loop_pc, quit, pools, tick, main_vars>>

(* The maps are cleared and the three pools freed. *)
FreePools ==
  /\ at = "free"
  /\ pools' = "freed"
  /\ at' = "down"
  /\ UNCHANGED <<loop_pc, quit, tick, main_vars, pool_vars>>

-----------------------------------------------------------------------------
(* The event loops *)

LoopTest(l) ==
  /\ loop_pc[l] = "test"
  /\ loop_pc' = [loop_pc EXCEPT ![l] = IF quit[l] THEN "done" ELSE "io"]
  /\ UNCHANGED <<at, quit, pools, tick, main_vars, pool_vars>>

(* loop_io looks at quit_ again.  The timer ticks for ever, other handlers   *)
(* may have nothing to do.                                                  *)
LoopIdle(l) ==
  /\ loop_pc[l] = "io" /\ (quit[l] \/ l # Acceptor)
  /\ loop_pc' = [loop_pc EXCEPT ![l] = "test"]
  /\ UNCHANGED <<at, quit, pools, tick, main_vars, pool_vars>>

(* send_timeout and remove_client post to main_thread_.                     *)
PostsOf(l) == IF l = Acceptor THEN "tick" ELSE "remove"
Post(f) == main_thread_!run_in_thread(f) \/ main_thread_!RunBeyondBound

LoopPostsWhileUp(l) ==   \* as if send_timeout minded TcpManager::running_
  /\ loop_pc[l] = "io" /\ ~quit[l] /\ at \in {"new", "start_loops", "start_pool", "start_main", "up"}
  /\ Post(PostsOf(l))
  /\ loop_pc' = [loop_pc EXCEPT ![l] = "test"]
  /\ UNCHANGED <<at, quit, pools, tick, pool_vars>>

LoopPosts(l) ==
  /\ loop_pc[l] = "io" /\ ~quit[l]
  /\ Post(PostsOf(l))
  /\ loop_pc' = [loop_pc EXCEPT ![l] = "test"]
  /\ UNCHANGED <<at, quit, pools, tick, pool_vars>>

(* handle_accept accepts while there are connections, and looks at nothing   *)
(* else meanwhile, quit_ included.  TcpServer::start has made the listening  *)
(* sockets before it starts the manager.                                     *)
AcceptBegin ==
  /\ loop_pc[Acceptor] = "io" /\ ~quit[Acceptor]
  /\ loop_pc' = [loop_pc EXCEPT ![Acceptor] = "accept"]
  /\ UNCHANGED <<at, quit, pools, tick, main_vars, pool_vars>>

AcceptOne ==
  /\ loop_pc[Acceptor] = "accept"
  /\ Post("add")
  /\ UNCHANGED <<life_vars, pool_vars>>

(* EAGAIN, or an error. *)
AcceptEnds ==
  /\ loop_pc[Acceptor] = "accept"
  /\ loop_pc' = [loop_pc EXCEPT ![Acceptor] = "test"]
  /\ UNCHANGED <<at, quit, pools, tick, main_vars, pool_vars>>

(* TcpClient::connect, from the thread that started the manager.             *)
connect ==
  /\ at = "up"
  /\ Post("add")
  /\ UNCHANGED <<life_vars, pool_vars>>

LoopStep(l) ==
  \/ LoopTest(l) \/ LoopIdle(l) \/ LoopPosts(l)
  \/ l = Acceptor /\ (AcceptBegin \/ AcceptOne \/ AcceptEnds)

-----------------------------------------------------------------------------
(* main_thread_ *)

MainStep ==
  /\ tick = "no"
  /\ main_thread_!loop
  /\ tick' = IF m_pc = "call" /\ m_read # <<>> /\ Head(m_read) = "tick"
             THEN "scan" ELSE "no"
  /\ UNCHANGED <<at, loop_pc, quit, pools, pool_vars>>

(* do_send_timeout hands its tasks to packer_thread_, if it has any.        *)
TickIdle ==
  /\ tick = "scan"
  /\ tick' = "no"
  /\ UNCHANGED <<at, loop_pc, quit, pools, main_vars, pool_vars>>

TickBegin ==
  /\ tick = "scan"
  /\ \/ packer_thread_!AcceptBegin /\ tick' = "accept"
     \/ packer_thread_!AcceptDirect /\ tick' = "no"
  /\ UNCHANGED <<at, loop_pc, quit, pools, main_vars>>

TickAccept ==
  /\ tick = "accept"
  /\ \/ \E fs \in TaskLists : packer_thread_!accept_task_list(fs) /\ UNCHANGED tick
     \/ packer_thread_!AcceptNotify /\ tick' = "no"
  /\ UNCHANGED <<at, loop_pc, quit, pools, main_vars>>

MainThread == MainStep \/ TickIdle \/ TickBegin \/ TickAccept

-----------------------------------------------------------------------------
(* packer_thread_ *)

PoolStep(w) ==
  /\ packer_thread_!thread_loop(w)
  /\ UNCHANGED <<life_vars, main_vars>>

Spurious ==
  \/ main_thread_!LoopSpurious /\ UNCHANGED <<life_vars, pool_vars>>
  \/ \E w \in Workers : packer_thread_!WorkerSpurious(w) /\ UNCHANGED <<life_vars, main_vars>>

-----------------------------------------------------------------------------
start == (\E l \in AllLoops : StartLoop(l)) \/ StartPool \/ StartMain
StopRest == (\E l \in AllLoops : StopLoopBegin(l) \/ StopLoopJoin(l)) \/ StopPool \/ FreePools
stop == StopMain \/ StopRest
stopping == at \in {"stop_main", "stop_acceptor", "join_loop", "stop_loops",
                    "stop_pool", "free"}

Next ==
  \/ start \/ stop \/ connect \/ MainThread \/ Spurious
  \/ \E l \in AllLoops : LoopStep(l)
  \/ \E w \in Workers : PoolStep(w)

Spec == Init /\ [][Next]_vars

(* Every thread runs, a stop that has begun goes on, tasks return; the      *)
(* connections come with a gap, and the timer ticks whatever they do, since *)
(* epoll reports both.  Nothing is owed by the condition variables, and     *)
(* nobody has to call stop.                                                 *)
Fairness ==
  /\ WF_vars(start) /\ WF_vars(stop /\ stopping)
  /\ WF_vars(MainThread)
  /\ \A l \in AllLoops : WF_vars(LoopStep(l))
  /\ SF_vars(LoopPosts(Acceptor)) /\ WF_vars(AcceptEnds)
  /\ \A w \in Workers : WF_vars(PoolStep(w))

FairSpec == Spec /\ Fairness

-----------------------------------------------------------------------------
(* Properties *)

(* The pools are freed by the last thread: when free_all runs, every loop,  *)
(* main_thread_ and every worker has been joined.                           *)
FreedAlone ==
  pools = "freed" =>
    /\ \A l \in AllLoops : loop_pc[l] = "none"
    /\ m_pc = "none"
    /\ \A w \in Workers : p_pc[w] = "none"

(* threads_ has no lock, so main_thread_ must find it complete: it is never *)
(* inside accept_task_list while packer_thread_ starts or stops, and never  *)
(* runs a task itself.                                                      *)
PoolServesMain ==
  /\ ~p_direct
  /\ p_caller # "idle" => p_owner = "idle" /\ p_running /\ p_threads = Workers

(* No task that stop has dropped or not reached waits for a next start.     *)
NoTaskOutlivesStop == at \in {"free", "down"} => p_list = <<>>

(* What is posted to main_thread_ runs in its order, whatever stop does.    *)
MainRunsInOrder == main_thread_!RunsInOrder

(* TcpManager::stop returns, although TaskThread::stop notifies without the *)
(* lock and its notify can be lost: the timer is still ticking.             *)
StopReturns == at = "stop_main" ~> at = "down"

(* A connection add_client has posted is added, unless stop comes first,    *)
(* although loop waits without a look at the list.                          *)
AddIsRun ==
  (\E i \in 1 .. Len(m_write) : m_write[i] = "add") ~> (m_last = <<"add">> \/ stopping \/ at = "down")
=============================================================================
