----------------------------- MODULE LogThread ------------------------------
(***************************************************************************)
(* Log: log_info formats a message into a Buffer of buff_pool_, an         *)
(* ObjectPool, and puts it on write_list_; the log thread takes the whole  *)
(* list, writes the messages to the file and gives the buffers back.       *)
(*                                                                         *)
(* Starting and stopping a Thread logs too: the new thread when it starts  *)
(* and when it ends, and Thread::stop before it joins.  Log::stop notifies *)
(* without list_mutex_, so it is that last message that wakes the log      *)
(* thread for certain.                                                     *)
(*                                                                         *)
(* A definition that only a "mutants" entry of PROJECT.json uses is a      *)
(* wrong version of the one after it, kept to show that a property         *)
(* notices.                                                                *)
(***************************************************************************)
EXTENDS Integers, FiniteSets, SequencesExt

CONSTANTS
  Users,        \* threads that call LOG_INFO
  NoBuffer,
  block_size_, Bases, MaxBlocks       \* of buff_pool_; MaxBlocks is a bound

ASSUME LogAssumption == block_size_ \in Nat \ {0} /\ Bases \subseteq Nat /\ NoBuffer \notin Nat

(* The bound leaves room for the messages of the owner and the log thread:  *)
(* if users could hold every buffer, the message that ends a stop would     *)
(* be dropped, where the code just asks malloc for another block.           *)
ASSUME BoundAssumption ==
  /\ IsFiniteSet(Users) /\ MaxBlocks \in Nat
  /\ Cardinality(Users) < MaxBlocks * block_size_

VARIABLES
  running_,
  pc,           \* where the log thread stands; "none" while it is not started
  stopping,     \* where Log::stop stands
  write_list_,
  log_list_,
  last,         \* the buffer written last
  hold,         \* the buffer each user is formatting a message into
  block_list_, out                    \* buff_pool_

pool_vars == <<block_list_, out>>
vars == <<running_, pc, stopping, write_list_, log_list_, last, hold, pool_vars>>

buff_pool_ == INSTANCE ObjectPool WITH iter <- 0

Init ==
  /\ running_ = FALSE /\ pc = "none" /\ stopping = "no"
  /\ write_list_ = <<>> /\ log_list_ = <<>> /\ last = <<>>
  /\ hold = [u \in Users |-> NoBuffer]
  /\ buff_pool_!Init

-----------------------------------------------------------------------------
(* log_info.  A message of the owner or of the log thread itself is one     *)
(* step; beyond the bound on buffers a message is not kept, its notify is.  *)

WakeupNobody == pc
wakeup == IF pc = "waiting" THEN "woken" ELSE pc

PushFront(b) == <<b>> \o write_list_
PushBack(b) == Append(write_list_, b)

Exhausted ==
  /\ Len(block_list_) = MaxBlocks
  /\ \A i \in DOMAIN block_list_ : block_list_[i].free = <<>>

PutMessage ==
  \/ /\ buff_pool_!pop
     /\ \E b \in out' \ out : write_list_' = PushBack(b)
  \/ Exhausted /\ UNCHANGED <<write_list_, pool_vars>>

UserBegin(u) ==
  /\ hold[u] = NoBuffer
  /\ buff_pool_!pop
  /\ \E b \in out' \ out : hold' = [hold EXCEPT ![u] = b]
  /\ UNCHANGED <<running_, pc, stopping, write_list_, log_list_, last>>

UserPushKeeps(u) ==      \* as if log_info went on using the buffer
  /\ hold[u] # NoBuffer
  /\ write_list_' = PushBack(hold[u])
  /\ pc' = wakeup
  /\ UNCHANGED <<running_, stopping, log_list_, last, hold, pool_vars>>

UserPush(u) ==
  /\ hold[u] # NoBuffer
  /\ write_list_' = PushBack(hold[u])
  /\ pc' = wakeup
  /\ hold' = [hold EXCEPT ![u] = NoBuffer]
  /\ UNCHANGED <<running_, stopping, log_list_, last, pool_vars>>

UserBeyondBound ==
  /\ Exhausted
  /\ pc' = wakeup
  /\ UNCHANGED <<running_, stopping, write_list_, log_list_, last, hold, pool_vars>>

-----------------------------------------------------------------------------
(* The owner *)

start ==
  /\ ~running_ /\ pc = "none" /\ stopping = "no"
  /\ running_' = TRUE
  /\ pc' = "hello"
  /\ UNCHANGED <<stopping, write_list_, log_list_, last, hold, pool_vars>>

StopBegin ==
  /\ running_ /\ stopping = "no"
  /\ running_' = FALSE
  /\ stopping' = "notify"
  /\ UNCHANGED <<pc, write_list_, log_list_, last, hold, pool_vars>>

StopNotify ==
  /\ stopping = "notify"
  /\ pc' = wakeup
  /\ stopping' = "log"
  /\ UNCHANGED <<running_, write_list_, log_list_, last, hold, pool_vars>>

(* Thread::stop: first LOG_INFO, then pthread_join. *)
StopLogQuiet ==          \* as if it did not log
  /\ stopping = "log"
  /\ stopping' = "join"
  /\ UNCHANGED <<running_, pc, write_list_, log_list_, last, hold, pool_vars>>

StopLog ==
  /\ stopping = "log"
  /\ PutMessage
  /\ pc' = wakeup
  /\ stopping' = "join"
  /\ UNCHANGED <<running_, log_list_, last, hold>>

StopJoin ==
  /\ stopping = "join" /\ pc = "done"
  /\ pc' = "none"
  /\ stopping' = "no"
  /\ UNCHANGED <<running_, write_list_, log_list_, last, hold, pool_vars>>

stop == StopBegin \/ StopNotify \/ StopLog \/ StopJoin

-----------------------------------------------------------------------------
(* The log thread: Thread::inner_start around loop_write *)

ThreadStarted ==
  /\ pc = "hello"
  /\ PutMessage
  /\ pc' = "lock"
  /\ UNCHANGED <<running_, stopping, log_list_, last, hold>>

LoopWaitAlways ==        \* as if loop_write did not look at the list first
  /\ pc = "lock"
  /\ pc' = "waiting"
  /\ UNCHANGED <<running_, stopping, write_list_, log_list_, last, hold, pool_vars>>

LoopWait ==
  /\ pc = "lock" /\ write_list_ = <<>>
  /\ pc' = "waiting"
  /\ UNCHANGED <<running_, stopping, write_list_, log_list_, last, hold, pool_vars>>

(* A condition variable may wake up by itself. *)
LoopSpurious ==
  /\ pc = "waiting"
  /\ pc' = "woken"
  /\ UNCHANGED <<running_, stopping, write_list_, log_list_, last, hold, pool_vars>>

LoopSplice ==
  /\ pc = "woken" \/ (pc = "lock" /\ write_list_ # <<>>)
  /\ log_list_' = log_list_ \o write_list_
  /\ write_list_' = <<>>
  /\ pc' = "write"
  /\ UNCHANGED <<running_, stopping, last, hold, pool_vars>>

LoopWrite ==
  /\ pc = "write" /\ log_list_ # <<>>
  /\ last' = <<Head(log_list_)>>
  /\ buff_pool_!push(Head(log_list_))
  /\ log_list_' = Tail(log_list_)
  /\ UNCHANGED <<running_, pc, stopping, write_list_, hold>>

LoopTest ==
  /\ pc = "write" /\ log_list_ = <<>>
  /\ pc' = IF running_ THEN "lock" ELSE "bye"
  /\ UNCHANGED <<running_, stopping, write_list_, log_list_, last, hold, pool_vars>>

ThreadExit ==
  /\ pc = "bye"
  /\ PutMessage
  /\ pc' = "done"
  /\ UNCHANGED <<running_, stopping, log_list_, last, hold>>

loop_write ==
  ThreadStarted \/ LoopWait \/ LoopSplice \/ LoopWrite \/ LoopTest \/ ThreadExit

Next ==
  \/ \E u \in Users : UserBegin(u) \/ UserPush(u)
  \/ UserBeyondBound \/ start \/ stop \/ loop_write \/ LoopSpurious

Spec == Init /\ [][Next]_vars

(* The log thread runs and a stop that has begun goes on.  Nobody has to    *)
(* log anything and no condition variable wakes up by itself.               *)
FairSpec == Spec /\ WF_vars(loop_write) /\ WF_vars(stop /\ stopping # "no")

-----------------------------------------------------------------------------
(* Properties *)

Pcs == {"none", "hello", "lock", "waiting", "woken", "write", "bye", "done"}

(* Every variable has the shape the class gives it.                         *)
TypeOK ==
  /\ running_ \in BOOLEAN /\ pc \in Pcs
  /\ stopping \in {"no", "notify", "log", "join"}
  /\ write_list_ \in Seq(Nat) /\ log_list_ \in Seq(Nat)
  /\ last \in {<<>>} \cup {<<b>> : b \in Nat}
  /\ hold \in [Users -> Nat \cup {NoBuffer}]
  /\ buff_pool_!TypeOK
  /\ running_ => pc \in Pcs \ {"none", "bye", "done"} /\ stopping = "no"
  /\ stopping # "no" => pc # "none"

waiting_to_be_written == log_list_ \o write_list_

(* A buffer that is out of the pool is in one place: on a list, once, or in *)
(* the hands of the one user who fills it.                                  *)
NoBufferShared ==
  LET held == {hold[u] : u \in Users} \ {NoBuffer} IN
    /\ IsInjective(waiting_to_be_written)
    /\ ToSet(waiting_to_be_written) = out \ held
    /\ held \subseteq out
    /\ \A u, v \in Users : u # v /\ hold[u] = hold[v] => hold[u] = NoBuffer

(* The log thread sleeps only when there is nothing to write and the        *)
(* message that ends every stop is still to come.                           *)
NoLostWakeup ==
  pc = "waiting" => write_list_ = <<>> /\ (running_ \/ stopping \in {"notify", "log"})

Promise == INSTANCE Executor WITH
  Discards <- FALSE, pending <- waiting_to_be_written, started <- last

(* Messages are written in the order they were pushed, each once; what the  *)
(* log thread leaves behind when it stops is the first to be written when   *)
(* it is started again.                                                     *)
LinesInOrder == Promise!Spec

(* Log::stop returns, though its own notify may come too early.             *)
StopReturns == stopping # "no" ~> stopping = "no"

(* While the log runs, a message that has been pushed gets written.         *)
Buffers == UNION {b .. b + block_size_ - 1 : b \in Bases}
MessageIsWritten ==
  \A b \in Buffers : (running_ /\ b \in ToSet(write_list_)) ~> (~running_ \/ last = <<b>>)
=============================================================================
