----------------------------- MODULE TaskThread -----------------------------
(***************************************************************************)
(* TaskThread: a thread that runs posted functions in their order.         *)
(* run_in_thread appends to loop_functions_write_ and notifies, loop waits *)
(* on the condition variable and takes the whole list.  The wait does not  *)
(* look at the list first and stop notifies without the lock, so a notify  *)
(* that comes while the thread is not waiting is lost.                     *)
(*                                                                         *)
(* A definition that only a "mutants" entry of PROJECT.json uses is a      *)
(* wrong version of the one after it, kept to show that a property         *)
(* notices.                                                                *)
(***************************************************************************)
EXTENDS Naturals, Sequences

CONSTANTS
  Functions,    \* what may be posted
  MaxPending    \* bound: functions waiting at a time

VARIABLES
  running,      \* running_, read without a lock
  pc,           \* where loop stands; "none" while loop_thread_ is not started
  stopping,     \* where stop stands
  write,        \* loop_functions_write_
  read,         \* loop_functions_read_, without what has been called
  last          \* the function called last

vars == <<running, pc, stopping, write, read, last>>

Init ==
  /\ running = FALSE /\ pc = "none" /\ stopping = "no"
  /\ write = <<>> /\ read = <<>> /\ last = <<>>

(* func_cond_.notify_one(): a thread that waits goes on, else nothing is kept. *)
WakeupNobody == pc' = pc
wakeup == pc' = IF pc = "waiting" THEN "woken" ELSE pc

-----------------------------------------------------------------------------
(* Any thread *)

EmplaceFront(f) == <<f>> \o write
EmplaceBack(f) == Append(write, f)

run_in_thread(f) ==
  /\ Len(write) + Len(read) < MaxPending
  /\ write' = EmplaceBack(f)
  /\ wakeup
  /\ UNCHANGED <<running, stopping, read, last>>

(* Beyond the bound a function is not kept; its notify is.                  *)
RunBeyondBound ==
  /\ Len(write) + Len(read) = MaxPending
  /\ wakeup
  /\ UNCHANGED <<running, stopping, write, read, last>>

-----------------------------------------------------------------------------
(* The owner *)

start ==
  /\ ~running /\ pc = "none" /\ stopping = "no"
  /\ running' = TRUE
  /\ pc' = "test"
  /\ UNCHANGED <<stopping, write, read, last>>

StopBegin ==
  /\ running /\ stopping = "no"
  /\ running' = FALSE
  /\ stopping' = "wakeup"
  /\ UNCHANGED <<pc, write, read, last>>

StopWakeup ==
  /\ stopping = "wakeup"
  /\ wakeup
  /\ stopping' = "join"
  /\ UNCHANGED <<running, write, read, last>>

(* Thread::stop joins the thread; then it is deleted.                       *)
StopDetach ==            \* as if the thread were not waited for
  /\ stopping = "join"
  /\ stopping' = "no"
  /\ UNCHANGED <<running, pc, write, read, last>>

StopJoin ==
  /\ stopping = "join" /\ pc = "done"
  /\ pc' = "none"
  /\ stopping' = "no"
  /\ UNCHANGED <<running, write, read, last>>

-----------------------------------------------------------------------------
(* loop *)

LoopTest ==
  /\ pc = "test"
  /\ pc' = IF running THEN "lock" ELSE "done"
  /\ UNCHANGED <<running, stopping, write, read, last>>

LoopWait ==
  /\ pc = "lock"
  /\ pc' = "waiting"
  /\ UNCHANGED <<running, stopping, write, read, last>>

(* A condition variable may wake up by itself. *)
LoopSpurious ==
  /\ pc = "waiting"
  /\ pc' = "woken"
  /\ UNCHANGED <<running, stopping, write, read, last>>

LoopSplice ==
  /\ pc = "woken"
  /\ read' = read \o write
  /\ write' = <<>>
  /\ pc' = "check"
  /\ UNCHANGED <<running, stopping, last>>

LoopCheck ==
  /\ pc = "check"
  /\ pc' = IF running /\ read # <<>> THEN "call" ELSE "test"
  /\ UNCHANGED <<running, stopping, write, read, last>>

LoopCall ==
  /\ pc = "call" /\ read # <<>>
  /\ last' = <<Head(read)>>
  /\ read' = Tail(read)
  /\ UNCHANGED <<running, pc, stopping, write>>

LoopClear ==
  /\ pc = "call" /\ read = <<>>
  /\ pc' = "test"
  /\ UNCHANGED <<running, stopping, write, read, last>>

loop == LoopTest \/ LoopWait \/ LoopSplice \/ LoopCheck \/ LoopCall \/ LoopClear
stop == StopBegin \/ StopWakeup \/ StopJoin

Next ==
  \/ \E f \in Functions : run_in_thread(f)
  \/ RunBeyondBound \/ start \/ stop \/ loop \/ LoopSpurious

Spec == Init /\ [][Next]_vars

-----------------------------------------------------------------------------
(* Properties *)

Pcs == {"none", "test", "lock", "waiting", "woken", "check", "call", "done"}

(* Every variable has the shape the class gives it, and a stop waits for a  *)
(* thread that is there.                                                    *)
TypeOK ==
  /\ running \in BOOLEAN /\ pc \in Pcs /\ stopping \in {"no", "wakeup", "join"}
  /\ write \in Seq(Functions) /\ read \in Seq(Functions)
  /\ last \in {<<>>} \cup {<<f>> : f \in Functions}
  /\ running => pc # "none" /\ pc # "done" /\ stopping = "no"
  /\ stopping # "no" => pc # "none"

Promise == INSTANCE Executor WITH
  Discards <- FALSE, pending <- read \o write, started <- last

(* Functions run in the order they were posted, each once, across a stop    *)
(* and a start too: what a stop leaves on the lists is run first after the  *)
(* next start.                                                              *)
RunsInOrder == Promise!Spec
=============================================================================
