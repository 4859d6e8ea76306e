----------------------------- MODULE ThreadPool -----------------------------
(***************************************************************************)
(* ThreadPool: workers that take tasks from one list, first in first out.  *)
(* stop empties the list, wakes the workers and joins them; with no        *)
(* threads a task is run by whoever hands it in.  One thread, the owner,   *)
(* starts and stops the pool and one, the caller, hands tasks in; they may *)
(* be at it at the same time, threads_ having no lock.                     *)
(*                                                                         *)
(* A definition that only a "mutants" entry of PROJECT.json uses is a      *)
(* wrong version of the one after it, kept to show that a property         *)
(* notices.                                                                *)
(***************************************************************************)
EXTENDS Naturals, Sequences

CONSTANTS
  Tasks,        \* what the workers run
  TaskLists,    \* what may be handed in at a time
  Workers,      \* the threads start makes
  MaxTasks      \* bound: tasks waiting at a time

ASSUME PoolAssumption == TaskLists \subseteq Seq(Tasks)

VARIABLES
  running,      \* running_
  owner,        \* what the owner is in the middle of
  caller,       \* where the caller stands in accept_task_list
  threads,      \* threads_, the workers made so far
  pc,           \* where each worker stands; "none" while it is not started
  task_list,    \* task_list_
  last,         \* the task a worker took last
  direct        \* whether the caller has ever run tasks itself

vars == <<running, owner, caller, threads, pc, task_list, last, direct>>

Init ==
  /\ running = FALSE /\ owner = "idle" /\ caller = "idle" /\ threads = {}
  /\ pc = [w \in Workers |-> "none"]
  /\ task_list = <<>> /\ last = <<>> /\ direct = FALSE

(* out_cond_.notify_all() *)
NotifyNobody == pc
notify_all == [w \in Workers |-> IF pc[w] = "waiting" THEN "take" ELSE pc[w]]

-----------------------------------------------------------------------------
(* The owner *)

StartBegin ==
  /\ ~running /\ owner = "idle"
  /\ running' = TRUE
  /\ owner' = "start"
  /\ UNCHANGED <<caller, threads, pc, task_list, last, direct>>

(* The threads are made and started one after the other. *)
StartThread(w) ==
  /\ owner = "start" /\ w \notin threads
  /\ threads' = threads \cup {w}
  /\ pc' = [pc EXCEPT ![w] = "test"]
  /\ owner' = IF threads' = Workers THEN "idle" ELSE "start"
  /\ UNCHANGED <<running, caller, task_list, last, direct>>

KeepTasks == task_list
ClearTasks == <<>>

StopBegin ==
  /\ owner = "idle"
  /\ running' = FALSE
  /\ task_list' = ClearTasks
  /\ pc' = notify_all
  /\ owner' = "stop"
  /\ UNCHANGED <<caller, threads, last, direct>>

(* Every thread is joined, then threads_ is cleared. *)
StopJoin ==
  /\ owner = "stop" /\ \A w \in threads : pc[w] = "done"
  /\ threads' = {}
  /\ pc' = [w \in Workers |-> "none"]
  /\ owner' = "idle"
  /\ UNCHANGED <<running, caller, task_list, last, direct>>

-----------------------------------------------------------------------------
(* The caller, in accept_task or accept_task_list: without threads it runs  *)
(* the tasks itself, else they go to the end of the list, and the workers   *)
(* are notified after list_mutex_ is released.                              *)

AcceptDirect ==
  /\ caller = "idle" /\ threads = {}
  /\ direct' = TRUE
  /\ UNCHANGED <<running, owner, caller, threads, pc, task_list, last>>

AcceptBegin ==
  /\ caller = "idle" /\ threads # {}
  /\ caller' = "put"
  /\ UNCHANGED <<running, owner, threads, pc, task_list, last, direct>>

AcceptAtFront(fs) == fs \o task_list
AcceptAtEnd(fs) == task_list \o fs

accept_task_list(fs) ==
  /\ caller = "put" /\ fs # <<>>
  /\ Len(task_list) + Len(fs) <= MaxTasks
  /\ task_list' = AcceptAtEnd(fs)
  /\ caller' = "notify"
  /\ UNCHANGED <<running, owner, threads, pc, last, direct>>

AcceptNotify ==
  /\ caller = "notify"
  /\ pc' = notify_all
  /\ caller' = "idle"
  /\ UNCHANGED <<running, owner, threads, task_list, last, direct>>

-----------------------------------------------------------------------------
(* thread_loop and require_task *)

WorkerTest(w) ==
  /\ pc[w] = "test"
  /\ pc' = [pc EXCEPT ![w] = IF running THEN "take" ELSE "done"]
  /\ UNCHANGED <<running, owner, caller, threads, task_list, last, direct>>

WorkerWaitAlways(w) ==   \* as if require_task did not look at running_
  /\ pc[w] = "take" /\ task_list = <<>>
  /\ pc' = [pc EXCEPT ![w] = "waiting"]
  /\ UNCHANGED <<running, owner, caller, threads, task_list, last, direct>>

WorkerWait(w) ==
  /\ pc[w] = "take" /\ running /\ task_list = <<>>
  /\ pc' = [pc EXCEPT ![w] = "waiting"]
  /\ UNCHANGED <<running, owner, caller, threads, task_list, last, direct>>

(* A condition variable may wake up by itself. *)
WorkerSpurious(w) ==
  /\ pc[w] = "waiting"
  /\ pc' = [pc EXCEPT ![w] = "take"]
  /\ UNCHANGED <<running, owner, caller, threads, task_list, last, direct>>

require_task(w) ==
  /\ pc[w] = "take" /\ task_list # <<>>
  /\ last' = <<Head(task_list)>>
  /\ task_list' = Tail(task_list)
  /\ pc' = [pc EXCEPT ![w] = "run"]
  /\ UNCHANGED <<running, owner, caller, threads, direct>>

(* Stopped with nothing to do: an empty task. *)
WorkerNothing(w) ==
  /\ pc[w] = "take" /\ ~running /\ task_list = <<>>
  /\ pc' = [pc EXCEPT ![w] = "test"]
  /\ UNCHANGED <<running, owner, caller, threads, task_list, last, direct>>

(* The task returns, or throws a std::exception. *)
WorkerDone(w) ==
  /\ pc[w] = "run"
  /\ pc' = [pc EXCEPT ![w] = "test"]
  /\ UNCHANGED <<running, owner, caller, threads, task_list, last, direct>>

thread_loop(w) ==
  WorkerTest(w) \/ WorkerWait(w) \/ require_task(w) \/ WorkerNothing(w) \/ WorkerDone(w)

start == StartBegin \/ \E w \in Workers : StartThread(w)
stop == StopBegin \/ StopJoin
accept == AcceptDirect \/ AcceptBegin \/ AcceptNotify
            \/ \E fs \in TaskLists : accept_task_list(fs)

Next ==
  \/ start \/ stop \/ accept
  \/ \E w \in Workers : thread_loop(w) \/ WorkerSpurious(w)

Spec == Init /\ [][Next]_vars

(* The workers run, a start, a stop or a hand-in that has begun goes on.    *)
(* Nobody has to begin one, and no condition variable wakes up by itself.   *)
FairSpec ==
  /\ Spec
  /\ WF_vars(StopJoin) /\ WF_vars(\E w \in Workers : StartThread(w))
  /\ WF_vars(AcceptNotify)
  /\ \A w \in Workers : WF_vars(thread_loop(w))

-----------------------------------------------------------------------------
(* Properties *)

WorkerPcs == {"none", "test", "take", "waiting", "run", "done"}

(* Every variable has the shape the class gives it, and a worker that has   *)
(* been started is in threads_ until it has been joined.                    *)
TypeOK ==
  /\ running \in BOOLEAN /\ direct \in BOOLEAN
  /\ owner \in {"idle", "start", "stop"} /\ caller \in {"idle", "put", "notify"}
  /\ threads \subseteq Workers /\ pc \in [Workers -> WorkerPcs]
  /\ \A w \in Workers : w \in threads <=> pc[w] # "none"
  /\ task_list \in Seq(Tasks)
  /\ last \in {<<>>} \cup {<<f>> : f \in Tasks}

Promise == INSTANCE Executor WITH
  Discards <- TRUE, pending <- task_list, started <- last

(* Tasks are taken in the order they were handed in, each by one worker,    *)
(* and only stop drops any.                                                 *)
TakesInOrder == Promise!Spec

(* No wakeup is lost: a worker sleeps only while the pool runs, and if there *)
(* is work, the caller that brought it is about to notify.                  *)
NoLostWakeup ==
  \A w \in Workers : pc[w] = "waiting" =>
    running /\ (task_list # <<>> => caller = "notify")

(* stop returns: its notify_all reaches every worker that waits, and one    *)
(* that does not wait yet sees running_ before it does.                     *)
StopReturns == owner = "stop" ~> owner = "idle"

(* As long as the pool runs, work on the list finds a worker.               *)
WorkIsTaken ==
  (running /\ task_list # <<>>) ~>
    (~running \/ task_list = <<>> \/ \E w \in Workers : pc[w] = "run")
=============================================================================
