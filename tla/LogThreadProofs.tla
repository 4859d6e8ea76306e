-------------------------- MODULE LogThreadProofs ---------------------------
(***************************************************************************)
(* Log never has a buffer in two places and writes messages in the order   *)
(* they were pushed, for any number of users and any pool of buffers.      *)
(* What it needs of buff_pool_ are the theorems of ObjectPoolProofs.       *)
(* With its file beside it the log does what it does alone, and only a new *)
(* start takes lines from the file.                                        *)
(***************************************************************************)
EXTENDS LogOutput, FiniteSetTheorems, QueueLemmas

Pool == INSTANCE ObjectPoolProofs WITH iter <- 0

held == {hold[u] : u \in Users} \ {NoBuffer}

(* The inductive invariant: shapes, the pool's own invariant, and every     *)
(* buffer that is out in exactly one place.                                 *)
LogInv == TypeOK /\ Pool!PoolInv /\ NoBufferShared

-----------------------------------------------------------------------------
(* The log knows its pool under another name.                               *)
LEMMA PoolTyped ==
  ASSUME Pool!PoolInv
  PROVE  buff_pool_!TypeOK
BY DEF Pool!PoolInv, Pool!TypeOK, Pool!Blocks, buff_pool_!TypeOK, buff_pool_!Blocks

LEMMA PoolTypedNext ==
  ASSUME Pool!PoolInv'
  PROVE  buff_pool_!TypeOK'
BY DEF Pool!PoolInv, Pool!TypeOK, Pool!Blocks, buff_pool_!TypeOK, buff_pool_!Blocks

(* What a message does to the lists, whoever pushes it: its buffer comes    *)
(* last, and nothing else is touched.                                       *)
LEMMA PushedLast ==
  ASSUME TypeOK, NEW b \in Nat, write_list_' = PushBack(b), log_list_' = log_list_
  PROVE  /\ write_list_' \in Seq(Nat)
         /\ waiting_to_be_written \in Seq(Nat)
         /\ waiting_to_be_written' = Append(waiting_to_be_written, b)
         /\ waiting_to_be_written' = waiting_to_be_written \o <<b>>
<1>1. log_list_ \in Seq(Nat) /\ write_list_ \in Seq(Nat) /\ <<b>> \in Seq(Nat)
  BY DEF TypeOK
<1>2. write_list_' = write_list_ \o <<b>> /\ write_list_' \in Seq(Nat)
  BY <1>1, AppendIsConcat, AppendProperties DEF PushBack
<1>3. waiting_to_be_written' = waiting_to_be_written \o <<b>>
  BY <1>1, <1>2, ConcatAssociative DEF waiting_to_be_written
<1>4. waiting_to_be_written \in Seq(Nat)
  BY <1>1, ConcatProperties DEF waiting_to_be_written
<1>5. Append(waiting_to_be_written, b) = waiting_to_be_written \o <<b>>
  BY <1>4, AppendIsConcat
<1> QED
  BY <1>2, <1>3, <1>4, <1>5

(* The pool's steps, as buff_pool_ takes them.                              *)
LEMMA PoolSteps ==
  ASSUME Pool!PoolInv
  PROVE  /\ buff_pool_!pop => Pool!PoolInv' /\ \E x \in Nat \ out : out' = out \cup {x}
         /\ \A o \in out : buff_pool_!push(o) => Pool!PoolInv' /\ out' = out \ {o}
         /\ UNCHANGED pool_vars => Pool!PoolInv'
<1>a. block_size_ \in Nat \ {0} /\ Bases \subseteq Nat
  BY LogAssumption
<1>1. ASSUME buff_pool_!pop PROVE Pool!PoolInv' /\ \E x \in Nat \ out : out' = out \cup {x}
  <2>1. Pool!pop /\ (Pool!PopFree \/ Pool!PopNew)
    BY <1>1 DEF buff_pool_!pop, buff_pool_!PopFree, buff_pool_!PopNew, Pool!pop,
                Pool!PopFree, Pool!PopNew, buff_pool_!IsFresh, Pool!IsFresh,
                buff_pool_!NewBlock, Pool!NewBlock, buff_pool_!Memory, Pool!Memory
  <2> QED
    BY <1>a, <2>1, Pool!PopGives, Pool!PopFreeStep, Pool!PopNewStep
<1>2. ASSUME NEW o \in out, buff_pool_!push(o) PROVE Pool!PoolInv' /\ out' = out \ {o}
  <2>1. Pool!push(o)
    BY <1>2 DEF buff_pool_!push, Pool!push, buff_pool_!IsHome, Pool!IsHome,
                buff_pool_!valid, Pool!valid
  <2>2. out' = out \ {o}
    BY <2>1 DEF Pool!push
  <2> QED
    BY <1>a, <2>1, <2>2, Pool!PushStep
<1>3. ASSUME UNCHANGED pool_vars PROVE Pool!PoolInv'
  BY <1>3 DEF pool_vars, Pool!PoolInv, Pool!TypeOK, Pool!BlocksApart, Pool!OutIsAllocated
<1> QED
  BY <1>1, <1>2, <1>3

(* A message that is made and pushed in one step.                           *)
LEMMA PutStep ==
  ASSUME LogInv, PutMessage, UNCHANGED <<log_list_, hold>>
  PROVE  write_list_' \in Seq(Nat) /\ Pool!PoolInv' /\ NoBufferShared'
<1>1. CASE UNCHANGED <<write_list_, pool_vars>>
  BY <1>1, PoolSteps
     DEF LogInv, TypeOK, NoBufferShared, waiting_to_be_written, pool_vars
<1>2. CASE buff_pool_!pop /\ \E b \in out' \ out : write_list_' = PushBack(b)
  <2>1. Pool!PoolInv'
    BY <1>2, PoolSteps DEF LogInv
  <2>2. PICK b \in Nat \ out : out' = out \cup {b}
    BY <1>2, PoolSteps DEF LogInv
  <2>3. write_list_' = PushBack(b)
    BY <1>2, <2>2
  <2> DEFINE w == waiting_to_be_written
  <2>4. write_list_' \in Seq(Nat) /\ w \in Seq(Nat) /\ w' = Append(w, b)
    BY <2>3, PushedLast DEF LogInv
  <2>5. IsInjective(w) /\ ToSet(w) = out \ held /\ held \subseteq out
    BY DEF LogInv, NoBufferShared, held
  <2>6. IsInjective(w') /\ ToSet(w') = ToSet(w) \cup {b}
    BY <2>2, <2>4, <2>5, AppendSet
  <2>7. held' = held
    BY DEF held
  <2>8. ToSet(w') = out' \ held' /\ held' \subseteq out'
    BY <2>2, <2>5, <2>6, <2>7
  <2>9. \A u, v \in Users : u # v /\ hold'[u] = hold'[v] => hold'[u] = NoBuffer
    BY DEF LogInv, NoBufferShared
  <2> QED
    BY <2>1, <2>4, <2>6, <2>8, <2>9 DEF NoBufferShared, held
<1> QED
  BY <1>1, <1>2 DEF PutMessage

(* A buffer comes from the pool into the hands of a user, ...               *)
LEMMA UserBeginStep ==
  ASSUME LogInv, NEW u \in Users, UserBegin(u)
  PROVE  LogInv'
<1>1. Pool!PoolInv'
  BY PoolSteps DEF LogInv, UserBegin
<1>2. PICK b \in Nat \ out : out' = out \cup {b}
  BY PoolSteps DEF LogInv, UserBegin
<1>3. /\ hold' = [hold EXCEPT ![u] = b] /\ hold[u] = NoBuffer
      /\ UNCHANGED <<running_, pc, stopping, write_list_, log_list_, last>>
  BY <1>2 DEF UserBegin
<1>4. hold \in [Users -> Nat \cup {NoBuffer}] /\ NoBuffer \notin Nat
  BY LogAssumption DEF LogInv, TypeOK
<1>5. TypeOK'
  BY PoolTypedNext, <1>1, <1>3, <1>4 DEF LogInv, TypeOK
<1>6. held' = held \cup {b}
  BY <1>3, <1>4 DEF held
<1>7. /\ ToSet(waiting_to_be_written) = out \ held /\ held \subseteq out
      /\ IsInjective(waiting_to_be_written)
      /\ \A v, w \in Users : v # w /\ hold[v] = hold[w] => hold[v] = NoBuffer
  BY DEF LogInv, NoBufferShared, held
<1>8. waiting_to_be_written' = waiting_to_be_written
  BY <1>3 DEF waiting_to_be_written
<1>9. ToSet(waiting_to_be_written') = out' \ held' /\ held' \subseteq out'
  BY <1>2, <1>6, <1>7, <1>8
<1>10. \A v, w \in Users : v # w /\ hold'[v] = hold'[w] => hold'[v] = NoBuffer
  <2> SUFFICES ASSUME NEW v \in Users, NEW w \in Users, v # w, hold'[v] = hold'[w]
               PROVE  hold'[v] = NoBuffer
    OBVIOUS
  <2>1. \A x \in Users : hold[x] # b
    BY <1>2, <1>4, <1>7 DEF held
  <2> QED
    BY <2>1, <1>3, <1>4, <1>7
<1> QED
  BY <1>1, <1>5, <1>7, <1>8, <1>9, <1>10 DEF LogInv, NoBufferShared, held

(* ... from there to the end of write_list_, ...                            *)
LEMMA UserPushStep ==
  ASSUME LogInv, NEW u \in Users, UserPush(u)
  PROVE  LogInv'
<1> DEFINE b == hold[u]
           w == waiting_to_be_written
<1>1. /\ hold \in [Users -> Nat \cup {NoBuffer}] /\ NoBuffer \notin Nat
      /\ b \in Nat /\ write_list_' = PushBack(b)
      /\ hold' = [hold EXCEPT ![u] = NoBuffer]
      /\ UNCHANGED <<running_, stopping, log_list_, last, pool_vars>>
      /\ pc' = IF pc = "waiting" THEN "woken" ELSE pc
  BY LogAssumption DEF LogInv, TypeOK, UserPush, wakeup
<1>2. Pool!PoolInv'
  BY <1>1, PoolSteps DEF LogInv
<1>3. write_list_' \in Seq(Nat) /\ w \in Seq(Nat) /\ w' = Append(w, b)
  BY <1>1, PushedLast DEF LogInv
<1>4. TypeOK'
  BY PoolTypedNext, <1>1, <1>2, <1>3 DEF LogInv, TypeOK, Pcs
<1>5. /\ ToSet(w) = out \ held /\ held \subseteq out /\ IsInjective(w)
      /\ \A v, x \in Users : v # x /\ hold[v] = hold[x] => hold[v] = NoBuffer
  BY DEF LogInv, NoBufferShared, held
<1>6. b \in held /\ held' = held \ {b}
  BY <1>1, <1>5 DEF held
<1>7. IsInjective(w') /\ ToSet(w') = ToSet(w) \cup {b}
  BY <1>1, <1>3, <1>5, <1>6, AppendSet
<1>8. out' = out
  BY <1>1 DEF pool_vars
<1>9. ToSet(w') = out' \ held' /\ held' \subseteq out'
  BY <1>5, <1>6, <1>7, <1>8
<1>10. \A v, x \in Users : v # x /\ hold'[v] = hold'[x] => hold'[v] = NoBuffer
  BY <1>1, <1>5
<1> QED
  BY <1>2, <1>4, <1>7, <1>9, <1>10 DEF LogInv, NoBufferShared, held

(* ... and from the front of log_list_ back to the pool.                    *)
LEMMA WriteStep ==
  ASSUME LogInv, LoopWrite
  PROVE  /\ LogInv'
         /\ waiting_to_be_written # <<>>
         /\ last' = <<Head(waiting_to_be_written)>>
         /\ waiting_to_be_written' = Tail(waiting_to_be_written)
<1> DEFINE w == waiting_to_be_written
<1>1. /\ log_list_ \in Seq(Nat) /\ write_list_ \in Seq(Nat) /\ log_list_ # <<>>
      /\ last' = <<Head(log_list_)>> /\ log_list_' = Tail(log_list_)
      /\ buff_pool_!push(Head(log_list_))
      /\ UNCHANGED <<running_, pc, stopping, write_list_, hold>>
  BY DEF LogInv, TypeOK, LoopWrite
<1>2. w # <<>> /\ Head(w) = Head(log_list_) /\ Tail(w) = w'
  BY <1>1, HeadOfPending DEF waiting_to_be_written
<1>3. w \in Seq(Nat)
  BY <1>1, ConcatProperties DEF waiting_to_be_written
<1>4. /\ ToSet(w) = out \ held /\ held \subseteq out /\ IsInjective(w)
      /\ \A v, x \in Users : v # x /\ hold[v] = hold[x] => hold[v] = NoBuffer
  BY DEF LogInv, NoBufferShared, held
<1>5. IsInjective(w') /\ Head(w) \in ToSet(w) /\ ToSet(w') = ToSet(w) \ {Head(w)}
  BY <1>2, <1>3, <1>4, TailSet
<1>6. Head(log_list_) \in out
  BY <1>2, <1>4, <1>5
<1>7. Pool!PoolInv' /\ out' = out \ {Head(log_list_)}
  BY <1>1, <1>6, PoolSteps DEF LogInv
<1>8. held' = held
  BY <1>1 DEF held
<1>9. ToSet(w') = out' \ held' /\ held' \subseteq out'
  BY <1>2, <1>4, <1>5, <1>7, <1>8
<1>10. log_list_' \in Seq(Nat) /\ last' \in {<<b>> : b \in Nat}
  BY <1>1, HeadTailProperties
<1>11. TypeOK'
  BY PoolTypedNext, <1>1, <1>7, <1>10 DEF LogInv, TypeOK
<1>12. \A v, x \in Users : v # x /\ hold'[v] = hold'[x] => hold'[v] = NoBuffer
  BY <1>1, <1>4
<1>13. LogInv'
  BY <1>5, <1>7, <1>9, <1>11, <1>12 DEF LogInv, NoBufferShared, held
<1> QED
  BY <1>1, <1>2, <1>13

(* Taking the whole of write_list_ changes nothing in what is waiting.      *)
LEMMA SpliceStep ==
  ASSUME LogInv, LoopSplice
  PROVE  LogInv' /\ waiting_to_be_written' = waiting_to_be_written
<1>1. /\ log_list_ \in Seq(Nat) /\ write_list_ \in Seq(Nat)
      /\ log_list_' = log_list_ \o write_list_ /\ write_list_' = <<>>
      /\ UNCHANGED <<running_, stopping, last, hold, pool_vars>>
      /\ pc' = "write" /\ pc \in {"woken", "lock"}
  BY DEF LogInv, TypeOK, LoopSplice
<1>2. log_list_' \in Seq(Nat) /\ waiting_to_be_written' = waiting_to_be_written
  BY <1>1, ConcatProperties, ConcatEmptySeq DEF waiting_to_be_written
<1>3. Pool!PoolInv'
  BY <1>1, PoolSteps DEF LogInv
<1>4. TypeOK'
  BY PoolTypedNext, <1>1, <1>2, <1>3, EmptySeq DEF LogInv, TypeOK, Pcs
<1> QED
  BY <1>1, <1>2, <1>3, <1>4 DEF LogInv, NoBufferShared, pool_vars

(* Steps that move no buffer.                                               *)
Quiet ==
  \/ UserBeyondBound \/ start \/ StopBegin \/ StopNotify \/ StopJoin
  \/ LoopWait \/ LoopSpurious \/ LoopTest \/ UNCHANGED vars

LEMMA QuietStep ==
  ASSUME LogInv, Quiet
  PROVE  LogInv' /\ UNCHANGED <<write_list_, log_list_, last>>
<1> DEFINE Shape(r, p, s) ==
             /\ r \in BOOLEAN /\ p \in Pcs /\ s \in {"no", "notify", "log", "join"}
             /\ r => p \in Pcs \ {"none", "bye", "done"} /\ s = "no"
             /\ s # "no" => p # "none"
<1>1. UNCHANGED <<write_list_, log_list_, last, hold, pool_vars>>
  BY DEF Quiet, UserBeyondBound, start, StopBegin, StopNotify, StopJoin,
         LoopWait, LoopSpurious, LoopTest, vars
<1>2. Shape(running_', pc', stopping')
  <2>1. Shape(running_, pc, stopping)
    BY DEF LogInv, TypeOK
  <2>2. CASE start
    BY <2>2 DEF start, Pcs
  <2>6. CASE StopBegin
    BY <2>1, <2>6 DEF StopBegin, Pcs
  <2>7. CASE StopJoin
    <3>1. running_ = FALSE
      BY <2>1, <2>7 DEF StopJoin
    <3> QED
      BY <2>7, <3>1 DEF StopJoin, Pcs
  <2>3. CASE UserBeyondBound \/ StopNotify
    BY <2>1, <2>3 DEF UserBeyondBound, StopNotify, wakeup, Pcs
  <2>4. CASE LoopWait \/ LoopSpurious \/ LoopTest
    BY <2>1, <2>4 DEF LoopWait, LoopSpurious, LoopTest, Pcs
  <2>5. CASE UNCHANGED vars
    BY <2>1, <2>5 DEF vars
  <2> QED
    BY <2>2, <2>3, <2>4, <2>5, <2>6, <2>7 DEF Quiet
<1>3. Pool!PoolInv'
  BY <1>1, PoolSteps DEF LogInv
<1>4. TypeOK'
  BY PoolTypedNext, <1>1, <1>2, <1>3 DEF LogInv, TypeOK
<1> QED
  BY <1>1, <1>3, <1>4 DEF LogInv, NoBufferShared, waiting_to_be_written, pool_vars

(* The three messages of Thread.                                            *)
LEMMA ThreadMessageStep ==
  ASSUME LogInv, StopLog \/ ThreadStarted \/ ThreadExit
  PROVE  LogInv' /\ PutMessage /\ UNCHANGED <<log_list_, last, hold>>
<1>1. PutMessage /\ UNCHANGED <<running_, log_list_, last, hold>>
  BY DEF StopLog, ThreadStarted, ThreadExit
<1>2. write_list_' \in Seq(Nat) /\ Pool!PoolInv' /\ NoBufferShared'
  BY <1>1, PutStep
<1>3. /\ pc' \in Pcs /\ stopping' \in {"no", "notify", "log", "join"}
      /\ running_' => pc' \in Pcs \ {"none", "bye", "done"} /\ stopping' = "no"
      /\ stopping' # "no" => pc' # "none"
  BY DEF LogInv, TypeOK, Pcs, StopLog, ThreadStarted, ThreadExit, wakeup
<1>4. TypeOK'
  BY PoolTypedNext, <1>1, <1>2, <1>3 DEF LogInv, TypeOK
<1> QED
  BY <1>1, <1>2, <1>4 DEF LogInv

-----------------------------------------------------------------------------
(* The invariant holds: every buffer that is out is in one place.           *)
THEOREM LogCorrect == Spec => []LogInv
<1>1. Init => LogInv
  <2> SUFFICES ASSUME Init PROVE LogInv
    OBVIOUS
  <2>1. Pool!PoolInv
    <3>1. PICK b \in Bases : block_list_ = <<Pool!NewBlock(b)>>
      BY DEF Init, buff_pool_!Init, buff_pool_!NewBlock, Pool!NewBlock
    <3>2. b \in Nat /\ out = {}
      BY LogAssumption DEF Init, buff_pool_!Init
    <3>3. Pool!Kept(Pool!NewBlock(b), {})
      BY LogAssumption, <3>2, Pool!NewKept
    <3>4. DOMAIN block_list_ = {1} /\ block_list_[1] = Pool!NewBlock(b)
      BY <3>1
    <3>5. block_list_ \in Seq(Pool!Blocks)
      BY <3>1, <3>3 DEF Pool!Kept
    <3> QED
      BY <3>2, <3>3, <3>4, <3>5
         DEF Pool!PoolInv, Pool!TypeOK, Pool!BlocksApart, Pool!OutIsAllocated
  <2>2. TypeOK
    BY <2>1, PoolTyped, EmptySeq, LogAssumption DEF Init, TypeOK, Pcs
  <2>3. waiting_to_be_written = <<>> /\ out = {} /\ hold = [u \in Users |-> NoBuffer]
    BY ConcatEmptySeq, EmptySeq DEF Init, buff_pool_!Init, waiting_to_be_written
  <2>4. IsInjective(<<>>) /\ ToSet(<<>>) = {}
    BY DEF IsInjective, ToSet
  <2>5. NoBufferShared
    BY <2>3, <2>4 DEF NoBufferShared
  <2> QED
    BY <2>1, <2>2, <2>5 DEF LogInv
<1>2. LogInv /\ [Next]_vars => LogInv'
  BY UserBeginStep, UserPushStep, WriteStep, SpliceStep, QuietStep, ThreadMessageStep
     DEF Next, stop, loop_write, Quiet
<1> QED
  BY <1>1, <1>2, PTL DEF Spec

(* No buffer is on a list twice, or on a list and in somebody's hands.      *)
THEOREM BuffersOwned == Spec => []NoBufferShared
<1>1. LogInv => NoBufferShared
  BY DEF LogInv
<1> QED
  BY <1>1, LogCorrect, PTL

-----------------------------------------------------------------------------
(* No wakeup is lost.  NoLostWakeup is inductive together with where the    *)
(* log thread stands before it sleeps: it has just looked at write_list_,   *)
(* or at running_ before that, or its own first message is on the list.     *)
WakeInv ==
  /\ NoLostWakeup
  /\ pc = "lock" /\ ~running_ => write_list_ # <<>> \/ stopping \in {"notify", "log"}
  /\ pc # "write" => log_list_ = <<>>

(* Only the lists can use the pool up: there are fewer users than buffers.  *)
LEMMA RoomForOwner ==
  ASSUME LogInv, Exhausted, log_list_ = <<>>
  PROVE  write_list_ # <<>>
<1> SUFFICES ASSUME write_list_ = <<>> PROVE FALSE
  OBVIOUS
<1>1. /\ block_size_ \in Nat \ {0} /\ MaxBlocks \in Nat /\ IsFiniteSet(Users)
      /\ Cardinality(Users) < MaxBlocks * block_size_
  BY LogAssumption, BoundAssumption
<1> DEFINE Places == (1 .. MaxBlocks) \X (1 .. block_size_)
           Addr(p) == block_list_[p[1]]._begin + p[2] - 1
<1>2. /\ block_list_ \in Seq(Pool!Blocks) /\ DOMAIN block_list_ = 1 .. MaxBlocks
      /\ \A i \in 1 .. MaxBlocks :
           /\ block_list_[i] \in Pool!Blocks /\ block_list_[i].free = <<>>
           /\ block_list_[i]._end = block_list_[i]._begin + block_size_ - 1
           /\ Pool!Memory(block_list_[i]) \subseteq out
  <2>1. block_list_ \in Seq(Pool!Blocks) /\ DOMAIN block_list_ = 1 .. MaxBlocks
    BY <1>1 DEF LogInv, Pool!PoolInv, Pool!TypeOK, Exhausted
  <2>2. Pool!ToSet(<<>>) = {}
    BY DEF Pool!ToSet
  <2> QED
    BY <2>1, <2>2 DEF LogInv, Pool!PoolInv, Pool!Kept, Exhausted
<1>3. \A i, j \in 1 .. MaxBlocks :
        i # j => Pool!Memory(block_list_[i]) \cap Pool!Memory(block_list_[j]) = {}
  BY <1>2 DEF LogInv, Pool!PoolInv, Pool!BlocksApart
<1>4. out = held
  <2>1. waiting_to_be_written = <<>>
    BY ConcatEmptySeq, EmptySeq DEF waiting_to_be_written
  <2>2. ToSet(<<>>) = {}
    BY DEF ToSet
  <2> QED
    BY <2>1, <2>2 DEF LogInv, NoBufferShared, held
<1>5. ASSUME NEW p \in Places
      PROVE  /\ p[1] \in 1 .. MaxBlocks /\ p[2] \in 1 .. block_size_ /\ p = <<p[1], p[2]>>
             /\ block_list_[p[1]]._begin \in Nat
             /\ Addr(p) \in Pool!Memory(block_list_[p[1]])
  <2>1. p[1] \in 1 .. MaxBlocks /\ p[2] \in 1 .. block_size_ /\ p = <<p[1], p[2]>>
    OBVIOUS
  <2> DEFINE bl == block_list_[p[1]]
  <2>2. bl \in Pool!Blocks /\ bl._end = bl._begin + block_size_ - 1
    BY <1>2, <2>1
  <2>3. bl._begin \in Nat
    BY <2>2 DEF Pool!Blocks
  <2>4. Addr(p) \in bl._begin .. bl._end
    BY <1>1, <2>1, <2>2, <2>3
  <2> QED
    BY <2>1, <2>3, <2>4 DEF Pool!Memory
<1>6. \A p \in Places : \E u \in Users : hold[u] = Addr(p)
  <2> SUFFICES ASSUME NEW p \in Places PROVE Addr(p) \in held
    BY DEF held
  <2> QED
    BY <1>2, <1>4, <1>5
<1> DEFINE f == [p \in Places |-> CHOOSE u \in Users : hold[u] = Addr(p)]
<1>7. f \in [Places -> Users] /\ \A p \in Places : hold[f[p]] = Addr(p)
  BY <1>6
<1>8. IsFiniteSet(Places) /\ Cardinality(Places) = MaxBlocks * block_size_
  <2>1. /\ IsFiniteSet(1 .. MaxBlocks) /\ Cardinality(1 .. MaxBlocks) = MaxBlocks
        /\ IsFiniteSet(1 .. block_size_) /\ Cardinality(1 .. block_size_) = block_size_
    BY <1>1, FS_Interval
  <2> DEFINE I == 1 .. MaxBlocks
             J == 1 .. block_size_
  <2>2. IsFiniteSet(I) /\ IsFiniteSet(J)
    BY <2>1
  <2> HIDE DEF I, J
  <2>3. IsFiniteSet(I \X J) /\ Cardinality(I \X J) = Cardinality(I) * Cardinality(J)
    BY <2>2, FS_Product
  <2> QED
    BY <2>1, <2>3 DEF I, J
<1>9. PICK p \in Places, q \in Places : p # q /\ f[p] = f[q]
  <2> HIDE DEF Places, f
  <2> QED
    BY <1>1, <1>7, <1>8, FS_PigeonHole
<1>10. Addr(p) = Addr(q)
  BY <1>7, <1>9
<1>11. p[1] = q[1]
  <2> HIDE DEF Addr
  <2> QED
    BY <1>3, <1>5, <1>10
<1>12. block_list_[p[1]]._begin + p[2] - 1 = block_list_[p[1]]._begin + q[2] - 1
  BY <1>10, <1>11
<1>13. p[2] = q[2]
  <2>1. p[2] \in Nat /\ q[2] \in Nat /\ block_list_[p[1]]._begin \in Nat
    BY <1>1, <1>5
  <2> QED
    BY <1>12, <2>1
<1> QED
  BY <1>5, <1>9, <1>11, <1>13

(* So what the owner or the log thread pushes is on the list afterwards.    *)
LEMMA PutReaches ==
  ASSUME LogInv, PutMessage, log_list_ = <<>>
  PROVE  write_list_' # <<>>
<1>1. CASE Exhausted /\ UNCHANGED <<write_list_, pool_vars>>
  BY <1>1, RoomForOwner
<1>2. CASE \E b \in out' \ out : write_list_' = PushBack(b)
  <2>1. write_list_ \in Seq(Nat)
    BY DEF LogInv, TypeOK
  <2> QED
    BY <1>2, <2>1 DEF PushBack
<1> QED
  BY <1>1, <1>2 DEF PutMessage

LEMMA WakeStep ==
  ASSUME LogInv, WakeInv, [Next]_vars
  PROVE  WakeInv'
<1> USE DEF WakeInv, NoLostWakeup
<1>1. ASSUME NEW u \in Users, UserBegin(u) PROVE WakeInv'
  BY <1>1 DEF UserBegin
<1>2. ASSUME NEW u \in Users, UserPush(u) PROVE WakeInv'
  <2>1. write_list_ \in Seq(Nat)
    BY DEF LogInv, TypeOK
  <2> QED
    BY <1>2, <2>1 DEF UserPush, wakeup, PushBack
<1>3. CASE UserBeyondBound
  BY <1>3 DEF UserBeyondBound, wakeup
<1>4. CASE start
  BY <1>4 DEF start
<1>5. CASE StopBegin
  BY <1>5 DEF StopBegin
<1>6. CASE StopNotify
  BY <1>6 DEF StopNotify, wakeup
<1>7. CASE StopLog
  <2>1. pc # "write" => write_list_' # <<>>
    BY <1>7, PutReaches DEF StopLog
  <2> QED
    BY <1>7, <2>1 DEF StopLog, wakeup
<1>8. CASE StopJoin
  BY <1>8 DEF StopJoin
<1>9. CASE ThreadStarted
  <2>1. write_list_' # <<>>
    BY <1>9, PutReaches DEF ThreadStarted
  <2> QED
    BY <1>9, <2>1 DEF ThreadStarted
<1>10. CASE LoopWait
  BY <1>10 DEF LoopWait
<1>11. CASE LoopSplice \/ LoopWrite
  BY <1>11 DEF LoopSplice, LoopWrite
<1>12. CASE LoopTest
  BY <1>12 DEF LoopTest
<1>13. CASE ThreadExit \/ LoopSpurious
  BY <1>13 DEF ThreadExit, LoopSpurious
<1>14. CASE UNCHANGED vars
  BY <1>14 DEF vars
<1> QED
  BY <1>1, <1>2, <1>3, <1>4, <1>5, <1>6, <1>7, <1>8, <1>9, <1>10, <1>11, <1>12, <1>13, <1>14
     DEF Next, stop, loop_write

(* The log thread never sleeps over a message, nor over the stop that is to *)
(* end it, although Log::stop notifies without list_mutex_.                 *)
THEOREM WakeupsKept == Spec => []NoLostWakeup
<1>1. Init => WakeInv
  BY DEF Init, WakeInv, NoLostWakeup
<1>2. LogInv /\ WakeInv /\ [Next]_vars => WakeInv'
  BY WakeStep
<1>3. WakeInv => NoLostWakeup
  BY DEF WakeInv
<1> QED
  BY <1>1, <1>2, <1>3, LogCorrect, PTL DEF Spec

-----------------------------------------------------------------------------
(* Log implements Executor: a message is posted when its buffer goes behind *)
(* write_list_ and started when it is written; taking the list over leaves  *)
(* what is pending as it is, also from one run of the log to the next.      *)
LEMMA PushPosts ==
  ASSUME TypeOK, NEW b \in Nat, write_list_' = PushBack(b), UNCHANGED <<log_list_, last>>
  PROVE  Promise!Next
<1> DEFINE w == waiting_to_be_written
<1>1. w \in Seq(Nat) /\ w' = w \o <<b>> /\ <<b>> \in Seq(Nat) /\ <<b>> # <<>>
  BY PushedLast
<1>2. <<b>> = SubSeq(w', Len(w) + 1, Len(w'))
  BY <1>1, PostedPart
<1>3. Promise!Post
  BY <1>1, <1>2 DEF Promise!Post
<1> QED
  BY <1>3 DEF Promise!Next

(* Log implements Executor without discarding: the messages are written in  *)
(* the order log_info pushed them, each once, also across a stop and a      *)
(* start.                                                                   *)
THEOREM InOrder == Spec => LinesInOrder
<1>1. Init => Promise!Init
  BY ConcatEmptySeq, EmptySeq DEF Init, Promise!Init, waiting_to_be_written
<1>2. LogInv /\ [Next]_vars => [Promise!Next]_(Promise!vars)
  <2> SUFFICES ASSUME LogInv, [Next]_vars
               PROVE  Promise!Next \/ UNCHANGED Promise!vars
    OBVIOUS
  <2>1. ASSUME UNCHANGED <<write_list_, log_list_, last>> PROVE UNCHANGED Promise!vars
    BY <2>1 DEF Promise!vars, waiting_to_be_written
  <2>2. ASSUME NEW u \in Users, UserBegin(u) PROVE UNCHANGED Promise!vars
    BY <2>1, <2>2 DEF UserBegin
  <2>3. ASSUME NEW u \in Users, UserPush(u) PROVE Promise!Next
    <3>1. hold[u] \in Nat /\ TypeOK
      BY <2>3 DEF LogInv, TypeOK, UserPush
    <3> QED
      BY <2>3, <3>1, PushPosts DEF UserPush
  <2>4. CASE StopLog \/ ThreadStarted \/ ThreadExit
    <3>1. PutMessage /\ UNCHANGED <<log_list_, last>> /\ TypeOK
      BY <2>4, ThreadMessageStep DEF LogInv
    <3>2. CASE UNCHANGED <<write_list_, pool_vars>>
      BY <2>1, <3>1, <3>2
    <3>3. CASE buff_pool_!pop /\ \E b \in out' \ out : write_list_' = PushBack(b)
      <4>1. \E x \in Nat \ out : out' = out \cup {x}
        BY <3>3, PoolSteps DEF LogInv
      <4>2. \E b \in Nat : write_list_' = PushBack(b)
        BY <3>3, <4>1
      <4> QED
        BY <3>1, <4>2, PushPosts
    <3> QED
      BY <3>1, <3>2, <3>3 DEF PutMessage
  <2>5. CASE LoopWrite
    <3>1. Promise!Start
      BY <2>5, WriteStep DEF Promise!Start
    <3> QED
      BY <3>1 DEF Promise!Next
  <2>6. CASE LoopSplice
    BY <2>6, SpliceStep DEF LoopSplice, Promise!vars
  <2>7. CASE Quiet
    BY <2>1, <2>7, QuietStep
  <2> QED
    BY <2>2, <2>3, <2>4, <2>5, <2>6, <2>7 DEF Next, stop, loop_write, Quiet
<1>3. Spec => Promise!Spec
  BY <1>1, <1>2, LogCorrect, PTL DEF Spec, Promise!Spec
<1> QED
  BY <1>3 DEF LinesInOrder

-----------------------------------------------------------------------------
(* The log and its file *)

(* Log::start opens a file and loop_write appends to it, whatever the file  *)
(* does then: what is proved of Log alone holds with it.                    *)
THEOREM FileBeside == OutputSpec => Spec
<1>1. OutputInit => Init BY DEF OutputInit
<1>2. [OutputNext]_OutputVars => [Next]_vars
  <2>1. OpenFile => Next BY DEF OpenFile, Next
  <2>2. WriteLine => Next BY DEF WriteLine, loop_write, Next
  <2>3. Elsewhere => Next BY DEF Elsewhere, loop_write, Next
  <2>4. UNCHANGED OutputVars => UNCHANGED vars BY DEF OutputVars
  <2> QED BY <2>1, <2>2, <2>3, <2>4 DEF OutputNext
<1> QED BY <1>1, <1>2, PTL DEF OutputSpec, Spec

(* A new file in the middle of a run is opened behind close_fp, which       *)
(* flushes: no line is lost but those a second start finds in buffer_.      *)
THEOREM RestartLosesLines == OutputSpec => OnlyRestartLosesLines
<1>1. OpenFile => pc = "none" /\ pc' = "hello" BY DEF OpenFile, start
<1>2. WriteLine => orphans' = orphans
  BY DEF WriteLine, file_!append, file_!Rotate, file_!open_fp
<1>3. Elsewhere /\ UNCHANGED file_vars => orphans' = orphans BY DEF file_vars
<1>4. UNCHANGED OutputVars => orphans' = orphans BY DEF OutputVars, file_vars
<1>5. [OutputNext]_OutputVars => (orphans' # orphans => pc = "none" /\ pc' = "hello")
  BY <1>1, <1>2, <1>3, <1>4 DEF OutputNext
<1> QED BY <1>5, PTL DEF OutputSpec, OnlyRestartLosesLines
=============================================================================
