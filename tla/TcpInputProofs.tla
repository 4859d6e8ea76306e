--------------------------- MODULE TcpInputProofs ---------------------------
(***************************************************************************)
(* What the peer sends is unpacked once, in order and in time: FLAG_HANDLE *)
(* and unpack_mutex_ keep the tasks of a connection apart, FLAG_NEXT never *)
(* goes down while input is left, and close_client is followed by two      *)
(* callbacks at most.                                                      *)
(***************************************************************************)
EXTENDS TcpCoreProofs, FiniteSetTheorems

-----------------------------------------------------------------------------
(* Who may unpack *)

UnpackOf(c) == [op |-> "unpack", c |-> c]
Inner == {"splice", "parse", "finish", "callback", "bad"}
Known(c) == stage[c] \in {"live", "dead"}
Handling(w, c) == th[w].c = c /\ th[w].pc \in Inner
BeforeSplice(w, c) == th[w].c = c /\ th[w].pc \in {"unpack", "splice"}
Scheduled(c) == InSeq(UnpackOf(c), PoolQueue) \/ \E w \in Workers : BeforeSplice(w, c)

(* unpack_mutex_ is held by the worker that is inside do_handle_unpack.     *)
HolderOK(c) == \A w \in Workers : mutex[c].unpack = w <=> Handling(w, c)

(* There is one unpack task of c at most that has not spliced recv_list_,   *)
(* in a queue or in the hands of a worker ...                               *)
OnePending(c) ==
  /\ Ends(PoolQueue, UnpackOf(c), {UnpackOf(c)})
  /\ \A w \in Workers : BeforeSplice(w, c) =>
       /\ ~InSeq(UnpackOf(c), PoolQueue)
       /\ \A v \in Workers : BeforeSplice(v, c) => v = w

(* ... and FLAG_HANDLE says whether there is.                               *)
HandleOK(c) ==
  Live(c) /\ ~flags[c].closed => ("HANDLE" \in flags[c].read <=> Scheduled(c))
MarkOK == th[Main].pc = "mark_read" => "HANDLE" \notin flags[th[Main].c].read

(* A connection comes into client_map_ with no flag up and no task.         *)
Fresh(c) ==
  ~Known(c) =>
    flags[c] = NoFlags /\ hist[c].late = 0 /\ \A w \in Workers : th[w].c # c

TaskOK(c) == HolderOK(c) /\ OnePending(c) /\ HandleOK(c)
TaskInv == MarkOK /\ (\A c \in Conns : TaskOK(c)) /\ (\A c \in Conns : Fresh(c))

-----------------------------------------------------------------------------
(* What a step leaves alone *)

SameTask(d) ==
  /\ Mild(PoolQueue, PoolQueue', {UnpackOf(d)})
  /\ InSeq(UnpackOf(d), PoolQueue') <=> InSeq(UnpackOf(d), PoolQueue)
SameStand(w, d) ==
  /\ Handling(w, d)' <=> Handling(w, d)
  /\ BeforeSplice(w, d)' <=> BeforeSplice(w, d)
SameHandle(d) ==
  /\ Live(d)' => Live(d) /\ ("HANDLE" \in flags'[d].read <=> "HANDLE" \in flags[d].read)
  /\ flags[d].closed /\ Live(d)' => flags'[d].closed

LEMMA OneTask ==
  ASSUME TypeOK, NEW d \in Conns, OnePending(d), SameTask(d),
         \A w \in Workers : SameStand(w, d)
  PROVE  OnePending(d)' /\ (Scheduled(d)' <=> Scheduled(d))
<1>1. PoolQueue \in Seq(TaskT) BY QueueTypes
<1>2. Ends(PoolQueue', UnpackOf(d), {UnpackOf(d)})
  BY <1>1, MildEnds DEF SameTask, OnePending
<1> QED BY <1>2 DEF OnePending, SameTask, SameStand, Scheduled

LEMMA TaskStays ==
  ASSUME TypeOK, NEW d \in Conns, TaskOK(d), SameTask(d), SameHandle(d),
         \A w \in Workers : SameStand(w, d), mutex'[d].unpack = mutex[d].unpack
  PROVE  TaskOK(d)'
<1>1. OnePending(d)' /\ (Scheduled(d)' <=> Scheduled(d)) BY OneTask DEF TaskOK
<1>2. HolderOK(d)' BY DEF TaskOK, HolderOK, SameStand
<1>3. HandleOK(d)' BY <1>1 DEF TaskOK, HandleOK, SameHandle
<1> QED BY <1>1, <1>2, <1>3 DEF TaskOK

(* A worker moves outside handle_unpack, or inside it past the splice.      *)
Strides(w) ==
  \/ th'[w] = th[w]
  \/ {th[w].pc, th'[w].pc} \cap (Inner \cup {"unpack"}) = {}
  \/ th'[w].c = th[w].c /\ {th[w].pc, th'[w].pc} \subseteq Inner \ {"splice"}

(* Nothing, or a task that is not an unpack task, is added to the queue.    *)
OtherTask ==
  \/ PoolQueue' = PoolQueue
  \/ \E y \in TaskT : y.op # "unpack" /\ PoolQueue' = Append(PoolQueue, y)

LEMMA StrideStands ==
  ASSUME NEW w \in Workers, Strides(w), NEW d \in Conns PROVE SameStand(w, d)
BY DEF Strides, SameStand, Handling, BeforeSplice, Inner

LEMMA OtherSame ==
  ASSUME TypeOK, OtherTask, NEW d \in Conns PROVE SameTask(d)
<1>1. PoolQueue \in Seq(TaskT) BY QueueTypes
<1>2. CASE PoolQueue' = PoolQueue BY <1>2 DEF SameTask, Mild
<1>3. ASSUME NEW y \in TaskT, y.op # "unpack", PoolQueue' = Append(PoolQueue, y)
      PROVE  SameTask(d)
  <2>1. y # UnpackOf(d) BY <1>3 DEF UnpackOf
  <2>2. InSeq(UnpackOf(d), PoolQueue') <=> InSeq(UnpackOf(d), PoolQueue)
    BY <1>1, <1>3, <2>1, InAppend
  <2>3. y \notin {UnpackOf(d)} BY <2>1
  <2>4. Mild(PoolQueue, PoolQueue', {UnpackOf(d)}) BY <1>3, <2>3 DEF Mild
  <2> QED BY <2>2, <2>4 DEF SameTask
<1> QED BY <1>2, <1>3 DEF OtherTask

SameMark ==
  th'[Main].pc = "mark_read" => th'[Main] = th[Main] /\ (\A d \in Conns : Live(d) => Live(d)')
TaskStill ==
  /\ OtherTask
  /\ \A d \in Conns : SameHandle(d)
  /\ \A d \in Conns : mutex'[d].unpack = mutex[d].unpack
  /\ \A w \in Workers : Strides(w)
  /\ SameMark

LEMMA MarkStays ==
  ASSUME TypeOK, MainInside, MarkOK, SameMark, \A d \in Conns : SameHandle(d)
  PROVE  MarkOK'
<1>1. ASSUME th'[Main].pc = "mark_read" PROVE "HANDLE" \notin flags'[th'[Main].c].read
  <2>1. th'[Main] = th[Main] BY <1>1 DEF SameMark
  <2>2. th[Main].c \in Conns
    BY <1>1, <2>1, Kinds DEF TypeOK, ThreadsOK, LocalOK
  <2>3. th[Main].c # NoConn BY <2>2, CoreAssumption
  <2>4. Live(th[Main].c) BY <2>3 DEF MainInside
  <2>5. PICK d \in Conns : d = th[Main].c BY <2>2
  <2>6. Live(d)' BY <1>1, <2>4, <2>5 DEF SameMark
  <2>7. "HANDLE" \notin flags[d].read BY <1>1, <2>1, <2>5 DEF MarkOK
  <2> QED BY <2>1, <2>5, <2>6, <2>7 DEF SameHandle
<1> QED BY <1>1 DEF MarkOK

LEMMA StillTasks ==
  ASSUME TypeOK, ReuseInv, TaskInv, TaskStill
  PROVE  MarkOK' /\ \A d \in Conns : TaskOK(d)'
<1>1. MarkOK' BY MarkStays DEF TaskInv, TaskStill, ReuseInv
<1>2. \A d \in Conns : TaskOK(d)'
  BY TaskStays, OtherSame, StrideStands DEF TaskInv, TaskStill
<1> QED BY <1>1, <1>2

-----------------------------------------------------------------------------
(* Steps that have nothing to do with the input of any connection *)

QuietThreads ==
  /\ \A w \in Workers :
       \/ th'[w] = th[w]
       \/ /\ {th[w].pc, th'[w].pc} \cap (Inner \cup {"unpack", "fail"}) = {}
          /\ th'[w].c \in {th[w].c, NoConn}
  /\ \A l \in Loops :
       \/ th'[l] = th[l]
       \/ {th[l].pc, th'[l].pc} \cap {"set_update", "push_recv", "fail"} = {}
  /\ th'[Main] = th[Main] \/ "mark_read" \notin {th[Main].pc, th'[Main].pc}
SameFlags ==
  \A d \in Conns :
    /\ flags'[d].read = flags[d].read /\ flags'[d].shut = flags[d].shut
    /\ flags'[d].closed = flags[d].closed
    /\ Live(d) \/ flags'[d] = flags[d]
SameInput ==
  \A d \in Conns :
    /\ lists'[d].recv = lists[d].recv /\ lists'[d].unpack = lists[d].unpack
    /\ hist'[d].parsed = hist[d].parsed /\ hist'[d].cleared = hist[d].cleared
    /\ hist'[d].late = hist[d].late
    /\ sock'[d].inbox = sock[d].inbox /\ sock'[d].sent = sock[d].sent
    /\ sock'[d].peer = sock[d].peer
    /\ mutex'[d].unpack = mutex[d].unpack
InputStill == stage' = stage /\ OtherTask /\ QuietThreads /\ SameFlags /\ SameInput

(* What has been sent, and how the peer stands, is not in room or edge.     *)
SameSock ==
  \A d \in Conns : /\ sock'[d].inbox = sock[d].inbox /\ sock'[d].sent = sock[d].sent
                   /\ sock'[d].peer = sock[d].peer

LEMMA SockRoom ==
  ASSUME TypeOK, NEW c, NEW r, NEW e, sock' = [sock EXCEPT ![c].room = r, ![c].edge = e]
  PROVE  SameSock
<1>1. sock \in [Conns -> SockT] BY DEF TypeOK
<1>2. ASSUME NEW d \in Conns
      PROVE  /\ sock'[d].inbox = sock[d].inbox /\ sock'[d].sent = sock[d].sent
             /\ sock'[d].peer = sock[d].peer
  <2>1. sock[d] \in SockT BY <1>1
  <2>2. CASE d = c
    <3>1. sock'[d] = [sock[d] EXCEPT !.room = r, !.edge = e] BY <1>1, <2>2
    <3>2. PICK s \in SockT : s = sock[d] BY <2>1
    <3>3. PICK s1 \in {[s EXCEPT !.room = r]} :
            s1.inbox = s.inbox /\ s1.sent = s.sent /\ s1.peer = s.peer
            /\ DOMAIN s1 = DOMAIN s
      BY DEF SockT
    <3>4. sock'[d] = [s1 EXCEPT !.edge = e] BY <3>1, <3>2
    <3> QED BY <3>2, <3>3, <3>4 DEF SockT
  <2>3. CASE d # c
    <3>1. sock'[d] = sock[d] BY <1>1, <2>3
    <3> QED BY <3>1
  <2> QED BY <2>2, <2>3
<1> QED BY <1>2 DEF SameSock

LEMMA SockOnly ==
  ASSUME TypeOK, NEW c, NEW x,
         sock' = [sock EXCEPT ![c].room = x] \/ sock' = [sock EXCEPT ![c].edge = x]
  PROVE  SameSock
<1>1. sock \in [Conns -> SockT] BY DEF TypeOK
<1>2. \A d \in Conns : \/ sock'[d] = sock[d]
                       \/ sock'[d] = [sock[d] EXCEPT !.room = x]
                       \/ sock'[d] = [sock[d] EXCEPT !.edge = x]
  BY <1>1
<1>3. \A d \in Conns : sock[d] \in SockT BY <1>1
<1> QED BY <1>2, <1>3 DEF SameSock, SockT

LEMMA MainIsLive ==
  ASSUME TypeOK, ReuseInv, th[Main].pc \notin {"idle", "scan"}
  PROVE  Live(th[Main].c) /\ th[Main].c \in Conns
<1>1. th[Main].c \in Conns BY Kinds DEF TypeOK, ThreadsOK, LocalOK
<1>2. th[Main].c # NoConn BY <1>1, CoreAssumption
<1> QED BY <1>1, <1>2 DEF ReuseInv, MainInside

(* The rounds of do_send_timeout. *)
LEMMA TickInput ==
  ASSUME TypeOK, ReuseInv, 
         \/ TickStart
         \/ TickEnd
         \/ TickWrite
         \/ handle_write_update
  PROVE  InputStill
<1>th. th \in [Threads -> ThreadT] BY DEF TypeOK, ThreadsOK
<1>types. /\ flags \in [Conns -> FlagsT] /\ lists \in [Conns -> ListsT]
         /\ hist \in [Conns -> HistT] /\ sock \in [Conns -> SockT]
         /\ mutex \in [Conns -> MutexT]
  BY DEF TypeOK
<1>main. th[Main].pc \notin {"idle", "scan"} => Live(th[Main].c) /\ th[Main].c \in Conns
  BY MainIsLive
<1>1. CASE TickStart
  <2>1. QuietThreads
    BY <1>1, <1>th, GotoAt, Kinds DEF TickStart, At, Writers, QuietThreads,
       Inner
  <2>2. SameFlags
    BY <1>1 DEF TickStart, SameFlags
  <2>3. SameInput
    BY <1>1 DEF TickStart, SameInput
  <2>4. stage' = stage /\ PoolQueue' = PoolQueue
    BY <1>1 DEF TickStart, PoolQueue, objVars, mainVars
  <2> QED BY <2>1, <2>2, <2>3, <2>4 DEF InputStill, OtherTask
<1>2. CASE TickEnd
  <2>1. QuietThreads
    BY <1>2, <1>th, ReturnAt, Kinds DEF TickEnd, At, HomePc, Writers,
       QuietThreads, Inner
  <2>2. SameFlags
    BY <1>2 DEF TickEnd, SameFlags
  <2>3. SameInput
    BY <1>2 DEF TickEnd, SameInput
  <2>4. stage' = stage /\ PoolQueue' = PoolQueue
    <3>1. task_list \o fun_list \in Seq(TaskT) BY ConcatProperties DEF TypeOK, MainOK
    <3>2. (task_list \o fun_list) \o <<>> = task_list \o fun_list BY <3>1, JoinEmpty
    <3> QED BY <1>2, <3>2 DEF TickEnd, accept_task_list, PoolQueue, objVars
  <2> QED BY <2>1, <2>2, <2>3, <2>4 DEF InputStill, OtherTask
<1>3. CASE TickWrite
  <2>1. QuietThreads
    BY <1>3, <1>th, Kinds DEF TickWrite, At, ThreadT, Home, HomePc, Writers,
       QuietThreads, Inner
  <2>2. SameFlags
    BY <1>3 DEF TickWrite, SameFlags
  <2>3. SameInput
    BY <1>3 DEF TickWrite, SameInput
  <2>4. stage' = stage /\ PoolQueue' = PoolQueue
    BY <1>3 DEF TickWrite, PoolQueue, objVars, mainVars
  <2> QED BY <2>1, <2>2, <2>3, <2>4 DEF InputStill, OtherTask
<1>4. CASE handle_write_update
  <2>1. QuietThreads
    BY <1>4, <1>th, Kinds DEF handle_write_update, At, ThreadT, Home, HomePc,
       Writers, QuietThreads, Inner
  <2>2. SameFlags
    BY <1>4, <1>types, <1>main DEF handle_write_update, At, Live, SameFlags,
       FlagsT, NoFlags
  <2>3. SameInput
    BY <1>4 DEF handle_write_update, SameInput
  <2>5. PICK y \in TaskT : y.op = "send" /\ fun_list' = Append(fun_list, y)
    BY <1>4, <1>main DEF handle_write_update, TaskT, TaskOps
  <2>6. task_list \in Seq(TaskT) /\ fun_list \in Seq(TaskT) BY DEF TypeOK, MainOK
  <2>7. task_list \o Append(fun_list, y) = Append(task_list \o fun_list, y)
    BY <2>6, JoinAppend
  <2>8. task_list' = task_list /\ stage' = stage BY <1>4 DEF handle_write_update, objVars
  <2>4. stage' = stage /\ OtherTask BY <2>5, <2>7, <2>8 DEF OtherTask, PoolQueue
  <2> QED BY <2>1, <2>2, <2>3, <2>4 DEF InputStill, OtherTask
<1> QED BY <1>1, <1>2, <1>3, <1>4

(* Tasks that are not handle_unpack. *)
LEMMA WorkerInput ==
  ASSUME TypeOK, ReuseInv, NEW w \in Workers,
         \/ req_close(w)
         \/ timeout_send(w)
  PROVE  InputStill
<1>th. th \in [Threads -> ThreadT] BY DEF TypeOK, ThreadsOK
<1>types. /\ flags \in [Conns -> FlagsT] /\ lists \in [Conns -> ListsT]
         /\ hist \in [Conns -> HistT] /\ sock \in [Conns -> SockT]
         /\ mutex \in [Conns -> MutexT]
  BY DEF TypeOK
<1>main. th[Main].pc \notin {"idle", "scan"} => Live(th[Main].c) /\ th[Main].c \in Conns
  BY MainIsLive
<1>1. CASE req_close(w)
  <2>1. QuietThreads
    BY <1>1, <1>th, ReturnAt, Kinds DEF req_close, At, HomePc, Writers,
       QuietThreads, Inner
  <2>2. SameFlags
    BY <1>1 DEF req_close, SameFlags
  <2>3. SameInput
    BY <1>1 DEF req_close, SameInput
  <2>4. stage' = stage /\ PoolQueue' = PoolQueue
    BY <1>1 DEF req_close, PoolQueue, objVars, mainVars
  <2> QED BY <2>1, <2>2, <2>3, <2>4 DEF InputStill, OtherTask
<1>2. CASE timeout_send(w)
  <2>1. QuietThreads
    BY <1>2, <1>th, GotoAt, ReturnAt, Kinds DEF timeout_send, At, HomePc,
       Writers, QuietThreads, Inner
  <2>2. SameFlags
    BY <1>2 DEF timeout_send, SameFlags
  <2>3. SameInput
    BY <1>2 DEF timeout_send, SameInput
  <2>4. stage' = stage /\ PoolQueue' = PoolQueue
    BY <1>2 DEF timeout_send, PoolQueue, objVars, mainVars
  <2> QED BY <2>1, <2>2, <2>3, <2>4 DEF InputStill, OtherTask
<1> QED BY <1>1, <1>2

(* write_data, but where it fails or looks at the end of the connection. *)
LEMMA WriteInput ==
  ASSUME TypeOK, ReuseInv, NEW t \in Writers,
         \/ WriteBusy(t)
         \/ WriteLock(t)
         \/ WriteGather(t)
         \/ WriteAgain(t)
         \/ WriteSome(t)
         \/ WatchWriteLoad(t)
         \/ WatchWriteOn(t)
  PROVE  InputStill
<1>th. th \in [Threads -> ThreadT] BY DEF TypeOK, ThreadsOK
<1>types. /\ flags \in [Conns -> FlagsT] /\ lists \in [Conns -> ListsT]
         /\ hist \in [Conns -> HistT] /\ sock \in [Conns -> SockT]
         /\ mutex \in [Conns -> MutexT]
  BY DEF TypeOK
<1>main. th[Main].pc \notin {"idle", "scan"} => Live(th[Main].c) /\ th[Main].c \in Conns
  BY MainIsLive
<1>1. CASE WriteBusy(t)
  <2>1. QuietThreads
    BY <1>1, <1>th, ReturnAt, Kinds DEF WriteBusy, At, HomePc, Writers,
       QuietThreads, Inner
  <2>2. SameFlags
    BY <1>1 DEF WriteBusy, SameFlags
  <2>3. SameInput
    BY <1>1 DEF WriteBusy, SameInput
  <2>4. stage' = stage /\ PoolQueue' = PoolQueue
    BY <1>1 DEF WriteBusy, PoolQueue, objVars, mainVars
  <2> QED BY <2>1, <2>2, <2>3, <2>4 DEF InputStill, OtherTask
<1>2. CASE WriteLock(t)
  <2>1. QuietThreads
    BY <1>2, <1>th, GotoAt, Kinds DEF WriteLock, At, Writers, QuietThreads,
       Inner
  <2>2. SameFlags
    BY <1>2 DEF WriteLock, SameFlags
  <2>3. SameInput
    BY <1>2, <1>types DEF WriteLock, SameInput, ListsT, HistT, SockT, MutexT
  <2>4. stage' = stage /\ PoolQueue' = PoolQueue
    BY <1>2 DEF WriteLock, PoolQueue, objVars, mainVars
  <2> QED BY <2>1, <2>2, <2>3, <2>4 DEF InputStill, OtherTask
<1>3. CASE WriteGather(t)
  <2>1. QuietThreads
    BY <1>3, <1>th, Kinds DEF WriteGather, At, ThreadT, Home, HomePc, Writers,
       QuietThreads, Inner
  <2>2. SameFlags
    BY <1>3, <1>types, <1>main DEF WriteGather, At, Live, SameFlags, FlagsT,
       NoFlags
  <2>3. SameInput
    BY <1>3, <1>types DEF WriteGather, SameInput, ListsT, HistT, SockT, MutexT
  <2>4. stage' = stage /\ PoolQueue' = PoolQueue
    BY <1>3 DEF WriteGather, PoolQueue, objVars, mainVars
  <2> QED BY <2>1, <2>2, <2>3, <2>4 DEF InputStill, OtherTask
<1>4. CASE WriteAgain(t)
  <2>1. QuietThreads
    BY <1>4, <1>th, ReturnAt, Kinds DEF WriteAgain, At, HomePc, WriteUnlock,
       Writers, QuietThreads, Inner
  <2>2. SameFlags
    BY <1>4 DEF WriteAgain, SameFlags
  <2>3. SameInput
    BY <1>4, <1>types DEF WriteAgain, SameInput, WriteUnlock, ListsT, HistT,
       SockT, MutexT
  <2>4. stage' = stage /\ PoolQueue' = PoolQueue
    BY <1>4 DEF WriteAgain, PoolQueue, objVars, mainVars
  <2> QED BY <2>1, <2>2, <2>3, <2>4 DEF InputStill, OtherTask
<1>5. CASE WriteSome(t)
  <2>1. QuietThreads
    <3>1. PICK n, p : /\ th[t].pc = "writev" /\ p \in {"watch_on", "pop"}
                      /\ th' = [th EXCEPT ![t].n = n, ![t].iov = <<>>, ![t].pc = p]
      BY <1>5 DEF WriteSome, At
    <3>2. t \in Threads /\ t # Main BY Kinds DEF Writers
    <3>3. /\ th'[t].pc \in {"watch_on", "pop"} /\ th'[t].c = th[t].c
          /\ \A s \in Threads \ {t} : th'[s] = th[s]
      BY <1>th, <3>1, <3>2 DEF ThreadT
    <3> QED BY <3>1, <3>2, <3>3, Kinds DEF QuietThreads, Inner
  <2>2. SameFlags
    BY <1>5 DEF WriteSome, SameFlags
  <2>3. SameInput
    <3>1. SameSock BY <1>5, SockOnly DEF WriteSome
    <3>2. PICK x : hist' = [hist EXCEPT ![th[t].c].wire = x] BY <1>5 DEF WriteSome
    <3>3. \A d \in Conns : /\ hist'[d].parsed = hist[d].parsed
                           /\ hist'[d].cleared = hist[d].cleared
                           /\ hist'[d].late = hist[d].late
      BY <1>types, <3>2 DEF HistT
    <3>4. lists' = lists /\ mutex' = mutex BY <1>5 DEF WriteSome
    <3> QED BY <3>1, <3>3, <3>4 DEF SameInput, SameSock
  <2>4. stage' = stage /\ PoolQueue' = PoolQueue
    BY <1>5 DEF WriteSome, PoolQueue, objVars, mainVars
  <2> QED BY <2>1, <2>2, <2>3, <2>4 DEF InputStill, OtherTask
<1>6. CASE WatchWriteLoad(t)
  <2>1. QuietThreads
    BY <1>6, <1>th, Kinds DEF WatchWriteLoad, At, ThreadT, Home, HomePc,
       Writers, QuietThreads, Inner
  <2>2. SameFlags
    BY <1>6 DEF WatchWriteLoad, SameFlags
  <2>3. SameInput
    BY <1>6 DEF WatchWriteLoad, SameInput
  <2>4. stage' = stage /\ PoolQueue' = PoolQueue
    BY <1>6 DEF WatchWriteLoad, PoolQueue, objVars, mainVars
  <2> QED BY <2>1, <2>2, <2>3, <2>4 DEF InputStill, OtherTask
<1>7. CASE WatchWriteOn(t)
  <2>1. QuietThreads
    BY <1>7, <1>th, Kinds DEF WatchWriteOn, At, ThreadT, Home, HomePc,
       Writers, QuietThreads, Inner
  <2>2. SameFlags
    BY <1>7, <1>types, <1>main DEF WatchWriteOn, At, Live, SameFlags, FlagsT,
       NoFlags
  <2>3. SameInput
    BY <1>7 DEF WatchWriteOn, SameInput
  <2>4. stage' = stage /\ PoolQueue' = PoolQueue
    BY <1>7 DEF WatchWriteOn, PoolQueue, objVars, mainVars
  <2> QED BY <2>1, <2>2, <2>3, <2>4 DEF InputStill, OtherTask
<1> QED BY <1>1, <1>2, <1>3, <1>4, <1>5, <1>6, <1>7

(* A loop that runs posted functions, waits, dispatches, or watches. *)
LEMMA LoopInput ==
  ASSUME TypeOK, ReuseInv, NEW l \in Loops,
         \/ LoopSplice(l)
         \/ do_add_handle(l)
         \/ AddHandleFails(l)
         \/ do_update_handle(l)
         \/ close(l)
         \/ loop_io(l)
         \/ \E e \in batch[l] : handle_event(l, e)
         \/ WatchReadLoad(l)
         \/ WatchReadOff(l)
         \/ WatchWriteOff(l)
  PROVE  InputStill
<1>th. th \in [Threads -> ThreadT] BY DEF TypeOK, ThreadsOK
<1>types. /\ flags \in [Conns -> FlagsT] /\ lists \in [Conns -> ListsT]
         /\ hist \in [Conns -> HistT] /\ sock \in [Conns -> SockT]
         /\ mutex \in [Conns -> MutexT]
  BY DEF TypeOK
<1>main. th[Main].pc \notin {"idle", "scan"} => Live(th[Main].c) /\ th[Main].c \in Conns
  BY MainIsLive
<1>1. CASE LoopSplice(l)
  <2>1. QuietThreads
    BY <1>1, <1>th, GotoAt, Kinds DEF LoopSplice, At, Writers, QuietThreads,
       Inner
  <2>2. SameFlags
    BY <1>1 DEF LoopSplice, SameFlags
  <2>3. SameInput
    BY <1>1 DEF LoopSplice, SameInput
  <2>4. stage' = stage /\ PoolQueue' = PoolQueue
    BY <1>1 DEF LoopSplice, PoolQueue, objVars, mainVars
  <2> QED BY <2>1, <2>2, <2>3, <2>4 DEF InputStill, OtherTask
<1>2. CASE do_add_handle(l)
  <2>1. QuietThreads
    BY <1>2 DEF do_add_handle, QuietThreads
  <2>2. SameFlags
    BY <1>2 DEF do_add_handle, SameFlags
  <2>3. SameInput
    <3>1. SameSock
      <4>1. CASE sock' = sock BY <4>1 DEF SameSock
      <4>2. PICK c, x : sock' = sock \/ sock' = [sock EXCEPT ![c].edge = x]
        BY <1>2 DEF do_add_handle, Register
      <4> QED BY <4>1, <4>2, SockOnly
    <3> QED BY <1>2, <3>1 DEF do_add_handle, SameInput, SameSock
  <2>4. stage' = stage /\ PoolQueue' = PoolQueue
    BY <1>2 DEF do_add_handle, PoolQueue, objVars, mainVars
  <2> QED BY <2>1, <2>2, <2>3, <2>4 DEF InputStill, OtherTask
<1>3. CASE AddHandleFails(l)
  <2>1. QuietThreads
    BY <1>3 DEF AddHandleFails, QuietThreads
  <2>2. SameFlags
    BY <1>3 DEF AddHandleFails, SameFlags
  <2>3. SameInput
    BY <1>3 DEF AddHandleFails, SameInput
  <2>4. stage' = stage /\ PoolQueue' = PoolQueue
    BY <1>3 DEF AddHandleFails, PoolQueue, objVars, mainVars
  <2> QED BY <2>1, <2>2, <2>3, <2>4 DEF InputStill, OtherTask
<1>4. CASE do_update_handle(l)
  <2>1. QuietThreads
    BY <1>4 DEF do_update_handle, QuietThreads
  <2>2. SameFlags
    BY <1>4 DEF do_update_handle, SameFlags
  <2>3. SameInput
    <3>1. SameSock
      <4>1. CASE sock' = sock BY <4>1 DEF SameSock
      <4>2. PICK c, x : sock' = sock \/ sock' = [sock EXCEPT ![c].edge = x]
        BY <1>4 DEF do_update_handle, Register
      <4> QED BY <4>1, <4>2, SockOnly
    <3> QED BY <1>4, <3>1 DEF do_update_handle, SameInput, SameSock
  <2>4. stage' = stage /\ PoolQueue' = PoolQueue
    BY <1>4 DEF do_update_handle, PoolQueue, objVars, mainVars
  <2> QED BY <2>1, <2>2, <2>3, <2>4 DEF InputStill, OtherTask
<1>5. CASE close(l)
  <2>1. QuietThreads
    BY <1>5 DEF close, QuietThreads
  <2>2. SameFlags
    BY <1>5 DEF close, SameFlags
  <2>3. SameInput
    BY <1>5 DEF close, SameInput
  <2>4. stage' = stage /\ PoolQueue' = PoolQueue
    BY <1>5 DEF close, PoolQueue, objVars, mainVars
  <2> QED BY <2>1, <2>2, <2>3, <2>4 DEF InputStill, OtherTask
<1>6. CASE loop_io(l)
  <2>1. QuietThreads
    BY <1>6, <1>th, GotoAt, Kinds DEF loop_io, At, Writers, QuietThreads,
       Inner
  <2>2. SameFlags
    BY <1>6 DEF loop_io, SameFlags
  <2>3. SameInput
    BY <1>6, <1>types DEF loop_io, SameInput, ListsT, HistT, SockT, MutexT
  <2>4. stage' = stage /\ PoolQueue' = PoolQueue
    BY <1>6 DEF loop_io, PoolQueue, objVars, mainVars
  <2> QED BY <2>1, <2>2, <2>3, <2>4 DEF InputStill, OtherTask
<1>7. ASSUME NEW e \in batch[l], handle_event(l, e) PROVE InputStill
  <2>1. QuietThreads
    BY <1>7, <1>th, Kinds DEF handle_event, At, ThreadT, Home, HomePc,
       Writers, QuietThreads, Inner
  <2>2. SameFlags
    BY <1>7 DEF handle_event, SameFlags
  <2>3. SameInput
    BY <1>7 DEF handle_event, SameInput
  <2>4. stage' = stage /\ PoolQueue' = PoolQueue
    BY <1>7 DEF handle_event, PoolQueue, objVars, mainVars
  <2> QED BY <2>1, <2>2, <2>3, <2>4 DEF InputStill, OtherTask
<1>8. CASE WatchReadLoad(l)
  <2>1. QuietThreads
    BY <1>8, <1>th, Kinds DEF WatchReadLoad, At, ThreadT, Home, HomePc,
       Writers, QuietThreads, Inner
  <2>2. SameFlags
    BY <1>8 DEF WatchReadLoad, SameFlags
  <2>3. SameInput
    BY <1>8 DEF WatchReadLoad, SameInput
  <2>4. stage' = stage /\ PoolQueue' = PoolQueue
    BY <1>8 DEF WatchReadLoad, PoolQueue, objVars, mainVars
  <2> QED BY <2>1, <2>2, <2>3, <2>4 DEF InputStill, OtherTask
<1>9. CASE WatchReadOff(l)
  <2>1. QuietThreads
    BY <1>9, <1>th, ReturnAt, Kinds DEF WatchReadOff, At, HomePc, Writers,
       QuietThreads, Inner
  <2>2. SameFlags
    BY <1>9 DEF WatchReadOff, SameFlags
  <2>3. SameInput
    BY <1>9 DEF WatchReadOff, SameInput
  <2>4. stage' = stage /\ PoolQueue' = PoolQueue
    BY <1>9 DEF WatchReadOff, PoolQueue, objVars, mainVars
  <2> QED BY <2>1, <2>2, <2>3, <2>4 DEF InputStill, OtherTask
<1>10. CASE WatchWriteOff(l)
  <2>1. QuietThreads
    BY <1>10, <1>th, Kinds DEF WatchWriteOff, At, ThreadT, Home, HomePc,
       Writers, QuietThreads, Inner
  <2>2. SameFlags
    BY <1>10, <1>types, <1>main DEF WatchWriteOff, At, Live, SameFlags,
       FlagsT, NoFlags
  <2>3. SameInput
    BY <1>10 DEF WatchWriteOff, SameInput
  <2>4. stage' = stage /\ PoolQueue' = PoolQueue
    BY <1>10 DEF WatchWriteOff, PoolQueue, objVars, mainVars
  <2> QED BY <2>1, <2>2, <2>3, <2>4 DEF InputStill, OtherTask
<1> QED BY <1>1, <1>2, <1>3, <1>4, <1>5, <1>6, <1>7, <1>8, <1>9, <1>10

(* Application threads, but for close_read. *)
LEMMA UserInput ==
  ASSUME TypeOK, ReuseInv, NEW u \in Users,
         \/ \E k \in Conns : PushLookup(u, k)
         \/ \E k \in Conns : CloseLookup(u, k)
         \/ PushClient(u)
         \/ PushCheck(u)
         \/ push_send_pack(u)
         \/ CloseClient(u)
         \/ remove_fd(u)
  PROVE  InputStill
<1>th. th \in [Threads -> ThreadT] BY DEF TypeOK, ThreadsOK
<1>types. /\ flags \in [Conns -> FlagsT] /\ lists \in [Conns -> ListsT]
         /\ hist \in [Conns -> HistT] /\ sock \in [Conns -> SockT]
         /\ mutex \in [Conns -> MutexT]
  BY DEF TypeOK
<1>main. th[Main].pc \notin {"idle", "scan"} => Live(th[Main].c) /\ th[Main].c \in Conns
  BY MainIsLive
<1>1. ASSUME NEW k \in Conns, PushLookup(u, k) PROVE InputStill
  <2>1. QuietThreads
    BY <1>1, <1>th, Kinds DEF PushLookup, At, Writers, QuietThreads, Inner
  <2>2. SameFlags
    BY <1>1 DEF PushLookup, SameFlags
  <2>3. SameInput
    BY <1>1 DEF PushLookup, SameInput
  <2>4. stage' = stage /\ PoolQueue' = PoolQueue
    BY <1>1 DEF PushLookup, PoolQueue, objVars, mainVars
  <2> QED BY <2>1, <2>2, <2>3, <2>4 DEF InputStill, OtherTask
<1>2. ASSUME NEW k \in Conns, CloseLookup(u, k) PROVE InputStill
  <2>1. QuietThreads
    BY <1>2, <1>th, Kinds DEF CloseLookup, At, Writers, QuietThreads, Inner
  <2>2. SameFlags
    BY <1>2 DEF CloseLookup, SameFlags
  <2>3. SameInput
    BY <1>2 DEF CloseLookup, SameInput
  <2>4. stage' = stage /\ PoolQueue' = PoolQueue
    BY <1>2 DEF CloseLookup, PoolQueue, objVars, mainVars
  <2> QED BY <2>1, <2>2, <2>3, <2>4 DEF InputStill, OtherTask
<1>3. CASE PushClient(u)
  <2>1. QuietThreads
    BY <1>3, <1>th, Kinds DEF PushClient, At, Writers, QuietThreads, Inner
  <2>2. SameFlags
    BY <1>3 DEF PushClient, SameFlags
  <2>3. SameInput
    BY <1>3 DEF PushClient, SameInput
  <2>4. stage' = stage /\ PoolQueue' = PoolQueue
    BY <1>3 DEF PushClient, PoolQueue, objVars, mainVars
  <2> QED BY <2>1, <2>2, <2>3, <2>4 DEF InputStill, OtherTask
<1>4. CASE PushCheck(u)
  <2>1. QuietThreads
    BY <1>4, <1>th, GotoAt, ReturnAt, Kinds DEF PushCheck, At, HomePc,
       Writers, QuietThreads, Inner
  <2>2. SameFlags
    BY <1>4 DEF PushCheck, SameFlags
  <2>3. SameInput
    BY <1>4 DEF PushCheck, SameInput
  <2>4. stage' = stage /\ PoolQueue' = PoolQueue
    BY <1>4 DEF PushCheck, PoolQueue, objVars, mainVars
  <2> QED BY <2>1, <2>2, <2>3, <2>4 DEF InputStill, OtherTask
<1>5. CASE push_send_pack(u)
  <2>1. QuietThreads
    BY <1>5, <1>th, ReturnAt, Kinds DEF push_send_pack, At, HomePc, Writers,
       QuietThreads, Inner
  <2>2. SameFlags
    BY <1>5, <1>types, <1>main DEF push_send_pack, At, Live, SameFlags,
       FlagsT, NoFlags
  <2>3. SameInput
    BY <1>5, <1>types DEF push_send_pack, SameInput, ListsT, HistT, SockT,
       MutexT
  <2>4. stage' = stage /\ PoolQueue' = PoolQueue
    BY <1>5 DEF push_send_pack, PoolQueue, objVars, mainVars
  <2> QED BY <2>1, <2>2, <2>3, <2>4 DEF InputStill, OtherTask
<1>6. CASE CloseClient(u)
  <2>1. QuietThreads
    BY <1>6, <1>th, Kinds DEF CloseClient, At, Writers, QuietThreads, Inner
  <2>2. SameFlags
    BY <1>6 DEF CloseClient, SameFlags
  <2>3. SameInput
    BY <1>6 DEF CloseClient, SameInput
  <2>4. stage' = stage /\ PoolQueue' = PoolQueue
    BY <1>6 DEF CloseClient, PoolQueue, objVars, mainVars
  <2> QED BY <2>1, <2>2, <2>3, <2>4 DEF InputStill, OtherTask
<1>7. CASE remove_fd(u)
  <2>1. QuietThreads
    BY <1>7, <1>th, ReturnAt, Kinds DEF remove_fd, At, HomePc, Writers,
       QuietThreads, Inner
  <2>2. SameFlags
    BY <1>7 DEF remove_fd, SameFlags
  <2>3. SameInput
    BY <1>7 DEF remove_fd, SameInput
  <2>4. stage' = stage /\ PoolQueue' = PoolQueue
    BY <1>7 DEF remove_fd, PoolQueue, objVars, mainVars
  <2> QED BY <2>1, <2>2, <2>3, <2>4 DEF InputStill, OtherTask
<1> QED BY <1>1, <1>2, <1>3, <1>4, <1>5, <1>6, <1>7

(* The peer reads. *)
LEMMA DrainInput ==
  ASSUME TypeOK, ReuseInv, 
         \/ \E c \in Conns : PeerDrain(c)
  PROVE  InputStill
<1>th. th \in [Threads -> ThreadT] BY DEF TypeOK, ThreadsOK
<1>types. /\ flags \in [Conns -> FlagsT] /\ lists \in [Conns -> ListsT]
         /\ hist \in [Conns -> HistT] /\ sock \in [Conns -> SockT]
         /\ mutex \in [Conns -> MutexT]
  BY DEF TypeOK
<1>main. th[Main].pc \notin {"idle", "scan"} => Live(th[Main].c) /\ th[Main].c \in Conns
  BY MainIsLive
<1>1. ASSUME NEW c \in Conns, PeerDrain(c) PROVE InputStill
  <2>1. QuietThreads
    BY <1>1 DEF PeerDrain, QuietThreads
  <2>2. SameFlags
    BY <1>1 DEF PeerDrain, SameFlags
  <2>3. SameInput
    <3>1. SameSock BY <1>1, SockRoom, Zenon DEF PeerDrain
    <3> QED BY <1>1, <3>1 DEF PeerDrain, SameInput, SameSock
  <2>4. stage' = stage /\ PoolQueue' = PoolQueue
    BY <1>1 DEF PeerDrain, PoolQueue, objVars, mainVars
  <2> QED BY <2>1, <2>2, <2>3, <2>4 DEF InputStill, OtherTask
<1> QED BY <1>1

(* A step that neither makes a connection known nor moves a worker into one *)
(* that is not.                                                             *)
FreshFields ==
  \A d \in Conns :
    /\ Known(d) => Known(d)'
    /\ Live(d) \/ Known(d)' \/ (flags'[d] = flags[d] /\ hist'[d].late = hist[d].late)
WorkersStride ==
  \A w \in Workers : Strides(w) /\ (th'[w] = th[w] \/ th'[w].c \in {th[w].c, NoConn})
TaskCalm ==
  /\ OtherTask /\ SameMark /\ WorkersStride /\ FreshFields
  /\ \A d \in Conns : SameHandle(d)
  /\ \A d \in Conns : mutex'[d].unpack = mutex[d].unpack

LEMMA FreshStays ==
  ASSUME TaskInv, FreshFields,
         \A w \in Workers : \/ th'[w].c \in {th[w].c, NoConn}
                            \/ stage'[th'[w].c] \in {"live", "dead"}
  PROVE  \A d \in Conns : Fresh(d)'
<1> SUFFICES ASSUME NEW d \in Conns, ~Known(d)'
             PROVE  flags'[d] = NoFlags /\ hist'[d].late = 0 /\ \A w \in Workers : th'[w].c # d
  BY DEF Fresh
<1>1. ~Known(d) /\ ~Live(d) BY DEF FreshFields, Known, Live
<1>2. flags[d] = NoFlags /\ hist[d].late = 0 /\ \A w \in Workers : th[w].c # d
  BY <1>1 DEF TaskInv, Fresh
<1>3. d # NoConn BY CoreAssumption
<1>4. \A w \in Workers : th'[w].c # d BY <1>2, <1>3 DEF Known
<1> QED BY <1>1, <1>2, <1>4 DEF FreshFields

LEMMA CalmTaskInv == ASSUME TypeOK, ReuseInv, TaskInv, TaskCalm PROVE TaskInv'
<1>1. TaskStill BY DEF TaskCalm, TaskStill, WorkersStride
<1>2. MarkOK' /\ \A d \in Conns : TaskOK(d)' BY <1>1, StillTasks
<1>3. \A w \in Workers : th'[w].c \in {th[w].c, NoConn} BY DEF TaskCalm, WorkersStride
<1>4. \A d \in Conns : Fresh(d)' BY <1>3, FreshStays DEF TaskCalm
<1> QED BY <1>2, <1>4 DEF TaskInv

LEMMA InputTasks == ASSUME TypeOK, ReuseInv, InputStill PROVE TaskCalm
<1>1. OtherTask /\ SameMark BY DEF InputStill, QuietThreads, SameMark, Live
<1>2. WorkersStride BY DEF InputStill, QuietThreads, WorkersStride, Strides
<1>3. FreshFields BY DEF InputStill, SameFlags, SameInput, FreshFields, Known, Live
<1>4. \A d \in Conns : SameHandle(d) /\ mutex'[d].unpack = mutex[d].unpack
  BY DEF InputStill, SameFlags, SameInput, SameHandle, Live
<1> QED BY <1>1, <1>2, <1>3, <1>4 DEF TaskCalm

(* The peer and the kernel. *)
LEMMA PeerTasks ==
  ASSUME TypeOK, WriteInv, ReuseInv, 
         \/ \E c \in Conns : PeerSend(c)
         \/ \E c \in Conns, how \in PeerMayEnd : PeerEnd(c, how)
         \/ \E c \in Conns, f \in Fds : Accept(c, f)
  PROVE  TaskCalm
<1>th. th \in [Threads -> ThreadT] BY DEF TypeOK, ThreadsOK
<1>types. /\ flags \in [Conns -> FlagsT] /\ hist \in [Conns -> HistT] /\ ObjOK
         /\ mutex \in [Conns -> MutexT]
  BY DEF TypeOK
<1>1. ASSUME NEW c \in Conns, PeerSend(c) PROVE TaskCalm
  <2>1. WorkersStride /\ SameMark
    BY <1>1 DEF PeerSend, WorkersStride, Strides, SameMark, Live, objVars
  <2>2. \A d \in Conns : SameHandle(d)
    BY <1>1, <1>types DEF PeerSend, SameHandle, Live, FlagsT, NoFlags, objVars
  <2>3. \A d \in Conns : mutex'[d].unpack = mutex[d].unpack
    BY <1>1 DEF PeerSend
  <2>4. FreshFields
    BY <1>1, <1>types DEF PeerSend, At, FreshFields, Known, Live, FlagsT,
       HistT, objVars
  <2>5. OtherTask
    BY <1>1 DEF PeerSend, OtherTask, PoolQueue, mainVars
  <2> QED BY <2>1, <2>2, <2>3, <2>4, <2>5 DEF TaskCalm
<1>2. ASSUME NEW c \in Conns, NEW how \in PeerMayEnd, PeerEnd(c, how) PROVE TaskCalm
  <2>1. WorkersStride /\ SameMark
    BY <1>2 DEF PeerEnd, WorkersStride, Strides, SameMark, Live, objVars
  <2>2. \A d \in Conns : SameHandle(d)
    BY <1>2, <1>types DEF PeerEnd, SameHandle, Live, FlagsT, NoFlags, objVars
  <2>3. \A d \in Conns : mutex'[d].unpack = mutex[d].unpack
    BY <1>2 DEF PeerEnd
  <2>4. FreshFields
    BY <1>2, <1>types DEF PeerEnd, At, FreshFields, Known, Live, FlagsT,
       HistT, objVars
  <2>5. OtherTask
    BY <1>2 DEF PeerEnd, OtherTask, PoolQueue, mainVars
  <2> QED BY <2>1, <2>2, <2>3, <2>4, <2>5 DEF TaskCalm
<1>3. ASSUME NEW c \in Conns, NEW f \in Fds, Accept(c, f) PROVE TaskCalm
  <2>1. WorkersStride /\ SameMark
    BY <1>3 DEF Accept, WorkersStride, Strides, SameMark, Live, objVars
  <2>2. \A d \in Conns : SameHandle(d)
    BY <1>3, <1>types DEF Accept, ObjOK, SameHandle, Live, FlagsT, NoFlags,
       objVars
  <2>3. \A d \in Conns : mutex'[d].unpack = mutex[d].unpack
    BY <1>3 DEF Accept
  <2>4. FreshFields
    BY <1>3, <1>types DEF Accept, At, ObjOK, FreshFields, Known, Live, FlagsT,
       HistT, objVars
  <2>5. OtherTask
    BY <1>3 DEF Accept, OtherTask, PoolQueue, mainVars
  <2> QED BY <2>1, <2>2, <2>3, <2>4, <2>5 DEF TaskCalm
<1> QED BY <1>1, <1>2, <1>3

(* do_send_timeout closes a client. *)
LEMMA ScanTasks ==
  ASSUME TypeOK, WriteInv, ReuseInv, 
         \/ \E c \in Conns : TickClient(c)
  PROVE  TaskCalm
<1>th. th \in [Threads -> ThreadT] BY DEF TypeOK, ThreadsOK
<1>types. /\ flags \in [Conns -> FlagsT] /\ hist \in [Conns -> HistT] /\ ObjOK
         /\ mutex \in [Conns -> MutexT]
  BY DEF TypeOK
<1>1. ASSUME NEW c \in Conns, TickClient(c) PROVE TaskCalm
  <2>1. WorkersStride /\ SameMark
    <3>1. th'[Main] = th[Main] \/ th'[Main].pc = "test_read"
      BY <1>1, <1>th, Kinds DEF TickClient, ThreadT
    <3>2. stage' = stage /\ \A w \in Workers : th'[w] = th[w]
      BY <1>1, <1>th, Kinds DEF TickClient, objVars
    <3> QED BY <3>1, <3>2 DEF WorkersStride, Strides, SameMark, Live
  <2>a. /\ UNCHANGED <<stage, hist>> /\ Live(c)
        /\ flags' = flags \/ flags' = [flags EXCEPT ![c].closed = TRUE]
    BY <1>1 DEF TickClient, set_close, objVars, ReuseInv, MainInside
  <2>2. \A d \in Conns : SameHandle(d)
    BY <2>a, <1>types DEF SameHandle, Live, FlagsT
  <2>3. \A d \in Conns : mutex'[d].unpack = mutex[d].unpack
    BY <1>1 DEF TickClient
  <2>4. FreshFields BY <2>a, <1>types DEF FreshFields, Known, Live
  <2>6. PICK y \in TaskT : y.op = "close" /\ fun_list' \in {fun_list, Append(fun_list, y)}
    <3>1. CloseOf(c) \in TaskT /\ CloseOf(c).op = "close" BY <1>1, OfTypes DEF CloseOf
    <3> QED BY <1>1, <3>1 DEF TickClient, CloseOf
  <2>7. task_list \in Seq(TaskT) /\ fun_list \in Seq(TaskT) BY DEF TypeOK, MainOK
  <2>8. task_list \o Append(fun_list, y) = Append(task_list \o fun_list, y)
    BY <2>7, JoinAppend
  <2>9. task_list' = task_list BY <1>1 DEF TickClient
  <2>5. OtherTask BY <2>6, <2>8, <2>9 DEF OtherTask, PoolQueue
  <2> QED BY <2>1, <2>2, <2>3, <2>4, <2>5 DEF TaskCalm
<1> QED BY <1>1

(* A client is destroyed. *)
LEMMA RemoveTasks ==
  ASSUME TypeOK, WriteInv, ReuseInv, 
         \/ DoRemoveClient
  PROVE  TaskCalm
<1>th. th \in [Threads -> ThreadT] BY DEF TypeOK, ThreadsOK
<1>types. /\ flags \in [Conns -> FlagsT] /\ hist \in [Conns -> HistT] /\ ObjOK
         /\ mutex \in [Conns -> MutexT]
  BY DEF TypeOK
<1>1. CASE DoRemoveClient
  <2>1. WorkersStride /\ SameMark
    BY <1>1 DEF DoRemoveClient, WorkersStride, Strides, SameMark, Live,
       objVars
  <2>a. \/ UNCHANGED <<stage, flags>>
        \/ \E d \in Conns : /\ Live(d) /\ stage' = [stage EXCEPT ![d] = "dead"]
                            /\ flags' = [flags EXCEPT ![d] = NoFlags]
    <3>1. \A f \in Fds : client_map[f] # NoConn => client_map[f] \in Conns /\ Live(client_map[f])
      BY DEF WriteInv, MapNamesLive, TypeOK, MapOK
    <3>2. PICK f \in Fds \cup {0} :
            \/ UNCHANGED <<stage, flags>>
            \/ /\ f \in Fds /\ client_map[f] # NoConn
               /\ stage' = [stage EXCEPT ![client_map[f]] = "dead"]
               /\ flags' = [flags EXCEPT ![client_map[f]] = NoFlags]
      BY <1>1, CoreAssumption DEF DoRemoveClient, TypeOK, MainOK
    <3> QED BY <3>1, <3>2
  <2>2. \A d \in Conns : SameHandle(d)
    BY <2>a, <1>types DEF ObjOK, SameHandle, Live
  <2>3. \A d \in Conns : mutex'[d].unpack = mutex[d].unpack
    BY <1>1 DEF DoRemoveClient
  <2>b. hist' = hist BY <1>1 DEF DoRemoveClient
  <2>4. FreshFields BY <2>a, <2>b, <1>types DEF ObjOK, FreshFields, Known, Live
  <2>5. OtherTask
    BY <1>1 DEF DoRemoveClient, OtherTask, PoolQueue, mainVars
  <2> QED BY <2>1, <2>2, <2>3, <2>4, <2>5 DEF TaskCalm
<1> QED BY <1>1

(* A worker past the splice. *)
LEMMA WorkerTasks ==
  ASSUME TypeOK, WriteInv, ReuseInv, NEW w \in Workers,
         \/ \E i \in 1 .. Len(Script) : UnpackFrame(w, i)
         \/ CallbackStart(w)
         \/ CallbackCloses(w)
         \/ UnpackBad(w)
  PROVE  TaskCalm
<1>th. th \in [Threads -> ThreadT] BY DEF TypeOK, ThreadsOK
<1>types. /\ flags \in [Conns -> FlagsT] /\ hist \in [Conns -> HistT] /\ ObjOK
         /\ mutex \in [Conns -> MutexT]
  BY DEF TypeOK
<1>1. ASSUME NEW i \in 1 .. Len(Script), UnpackFrame(w, i) PROVE TaskCalm
  <2>0. /\ th[w].pc = "parse" /\ th'[w].pc = "finish" /\ th'[w].c = th[w].c
        /\ \A s \in Threads \ {w} : th'[s] = th[s]
    BY <1>1, <1>th, GotoAt, Kinds DEF UnpackFrame, At
  <2>1. WorkersStride /\ SameMark
    BY <1>1, <2>0, Kinds DEF UnpackFrame, WorkersStride, Strides, SameMark, Inner, Live, objVars
  <2>2. \A d \in Conns : SameHandle(d)
    BY <1>1, <1>types DEF UnpackFrame, SameHandle, Live, FlagsT, NoFlags,
       objVars
  <2>3. \A d \in Conns : mutex'[d].unpack = mutex[d].unpack
    BY <1>1 DEF UnpackFrame
  <2>4. FreshFields
    BY <1>1, <1>types DEF UnpackFrame, At, FreshFields, Known, Live, FlagsT,
       HistT, objVars
  <2>5. OtherTask
    BY <1>1 DEF UnpackFrame, OtherTask, PoolQueue, mainVars
  <2> QED BY <2>1, <2>2, <2>3, <2>4, <2>5 DEF TaskCalm
<1>2. CASE CallbackStart(w)
  <2>1. WorkersStride /\ SameMark
    BY <1>2, <1>th, GotoAt, Kinds DEF CallbackStart, At, Writers,
       WorkersStride, Strides, SameMark, Inner, Live, objVars
  <2>2. \A d \in Conns : SameHandle(d)
    BY <1>2, <1>types DEF CallbackStart, SameHandle, Live, FlagsT, NoFlags,
       objVars
  <2>3. \A d \in Conns : mutex'[d].unpack = mutex[d].unpack
    BY <1>2, <1>types DEF CallbackStart, MutexT
  <2>4. FreshFields
    BY <1>2, <1>types DEF CallbackStart, At, FreshFields, Known, Live, FlagsT,
       HistT, objVars
  <2>5. OtherTask
    BY <1>2 DEF CallbackStart, OtherTask, PoolQueue, mainVars
  <2> QED BY <2>1, <2>2, <2>3, <2>4, <2>5 DEF TaskCalm
<1>3. CASE CallbackCloses(w)
  <2>1. WorkersStride /\ SameMark
    BY <1>3 DEF CallbackCloses, WorkersStride, Strides, SameMark, Live,
       objVars
  <2>2. \A d \in Conns : SameHandle(d)
    BY <1>3, <1>types DEF CallbackCloses, SameHandle, Live, FlagsT, NoFlags,
       objVars
  <2>3. \A d \in Conns : mutex'[d].unpack = mutex[d].unpack
    BY <1>3 DEF CallbackCloses
  <2>4. FreshFields
    BY <1>3, <1>types DEF CallbackCloses, At, FreshFields, Known, Live,
       FlagsT, HistT, objVars
  <2>5. OtherTask
    BY <1>3 DEF CallbackCloses, OtherTask, PoolQueue, mainVars
  <2> QED BY <2>1, <2>2, <2>3, <2>4, <2>5 DEF TaskCalm
<1>4. CASE UnpackBad(w)
  <2>0. /\ th[w].pc = "parse" /\ th'[w].pc = "bad" /\ th'[w].c = th[w].c
        /\ \A s \in Threads \ {w} : th'[s] = th[s]
    BY <1>4, <1>th, GotoAt, Kinds DEF UnpackBad, At
  <2>1. WorkersStride /\ SameMark
    BY <1>4, <2>0, Kinds DEF UnpackBad, WorkersStride, Strides, SameMark, Inner, Live, objVars
  <2>2. \A d \in Conns : SameHandle(d)
    BY <1>4, <1>types DEF UnpackBad, SameHandle, Live, FlagsT, NoFlags,
       objVars
  <2>3. \A d \in Conns : mutex'[d].unpack = mutex[d].unpack
    BY <1>4 DEF UnpackBad
  <2>4. FreshFields
    BY <1>4, <1>types DEF UnpackBad, At, FreshFields, Known, Live, FlagsT,
       HistT, objVars
  <2>5. OtherTask
    BY <1>4 DEF UnpackBad, OtherTask, PoolQueue, mainVars
  <2> QED BY <2>1, <2>2, <2>3, <2>4, <2>5 DEF TaskCalm
<1> QED BY <1>1, <1>2, <1>3, <1>4

(* write_data where it ends the connection. *)
LEMMA WriteTasks ==
  ASSUME TypeOK, WriteInv, ReuseInv, NEW t \in Writers,
         \/ WriteNothing(t)
         \/ WriteError(t)
         \/ WriteFail(t)
         \/ WritePop(t)
  PROVE  TaskCalm
<1>th. th \in [Threads -> ThreadT] BY DEF TypeOK, ThreadsOK
<1>types. /\ flags \in [Conns -> FlagsT] /\ hist \in [Conns -> HistT] /\ ObjOK
         /\ mutex \in [Conns -> MutexT]
  BY DEF TypeOK
<1>1. CASE WriteNothing(t)
  <2>1. WorkersStride /\ SameMark
    BY <1>1, <1>th, ReturnAt, Kinds DEF WriteNothing, At, HomePc, WriteUnlock,
       ForceIfReady, Writers, WorkersStride, Strides, SameMark, Inner, Live,
       objVars
  <2>2. \A d \in Conns : SameHandle(d)
    BY <1>1, <1>types DEF WriteNothing, WriteUnlock, ForceIfReady, SameHandle,
       Live, FlagsT, NoFlags, objVars
  <2>3. \A d \in Conns : mutex'[d].unpack = mutex[d].unpack
    BY <1>1, <1>types DEF WriteNothing, WriteUnlock, MutexT
  <2>4. FreshFields
    BY <1>1, <1>types DEF WriteNothing, At, WriteUnlock, ForceIfReady,
       FreshFields, Known, Live, FlagsT, HistT, objVars
  <2>5. OtherTask
    BY <1>1 DEF WriteNothing, OtherTask, PoolQueue, mainVars
  <2> QED BY <2>1, <2>2, <2>3, <2>4, <2>5 DEF TaskCalm
<1>2. CASE WriteError(t)
  <2>1. WorkersStride /\ SameMark
    BY <1>2, <1>th, GotoAt, Kinds DEF WriteError, At, Writers, WorkersStride,
       Strides, SameMark, Inner, Live, objVars
  <2>2. \A d \in Conns : SameHandle(d)
    BY <1>2, <1>types DEF WriteError, SameHandle, Live, FlagsT, NoFlags,
       objVars
  <2>3. \A d \in Conns : mutex'[d].unpack = mutex[d].unpack
    BY <1>2 DEF WriteError
  <2>4. FreshFields
    BY <1>2, <1>types DEF WriteError, At, FreshFields, Known, Live, FlagsT,
       HistT, objVars
  <2>5. OtherTask
    BY <1>2 DEF WriteError, OtherTask, PoolQueue, mainVars
  <2> QED BY <2>1, <2>2, <2>3, <2>4, <2>5 DEF TaskCalm
<1>3. CASE WriteFail(t)
  <2>1. WorkersStride /\ SameMark
    BY <1>3, <1>th, ReturnAt, Kinds DEF WriteFail, At, HomePc, WriteUnlock,
       set_update, Writers, WorkersStride, Strides, SameMark, Inner, Live,
       objVars
  <2>2. \A d \in Conns : SameHandle(d)
    BY <1>3, <1>types DEF WriteFail, WriteUnlock, set_update, SameHandle,
       Live, FlagsT, NoFlags, objVars
  <2>3. \A d \in Conns : mutex'[d].unpack = mutex[d].unpack
    BY <1>3, <1>types DEF WriteFail, WriteUnlock, MutexT
  <2>4. FreshFields
    BY <1>3, <1>types DEF WriteFail, At, WriteUnlock, set_update, FreshFields,
       Known, Live, FlagsT, HistT, objVars
  <2>5. OtherTask
    BY <1>3 DEF WriteFail, OtherTask, PoolQueue, mainVars
  <2> QED BY <2>1, <2>2, <2>3, <2>4, <2>5 DEF TaskCalm
<1>4. CASE WritePop(t)
  <2>1. WorkersStride /\ SameMark
    BY <1>4, <1>th, ReturnAt, Kinds DEF WritePop, At, HomePc, WriteUnlock,
       ForceIfReady, Writers, WorkersStride, Strides, SameMark, Inner, Live,
       objVars
  <2>2. \A d \in Conns : SameHandle(d)
    BY <1>4, <1>types DEF WritePop, WriteUnlock, ForceIfReady, SameHandle,
       Live, FlagsT, NoFlags, objVars
  <2>3. \A d \in Conns : mutex'[d].unpack = mutex[d].unpack
    BY <1>4, <1>types DEF WritePop, WriteUnlock, MutexT
  <2>4. FreshFields
    BY <1>4, <1>types DEF WritePop, At, WriteUnlock, ForceIfReady,
       FreshFields, Known, Live, FlagsT, HistT, objVars
  <2>5. OtherTask
    BY <1>4 DEF WritePop, OtherTask, PoolQueue, mainVars
  <2> QED BY <2>1, <2>2, <2>3, <2>4, <2>5 DEF TaskCalm
<1> QED BY <1>1, <1>2, <1>3, <1>4

(* A loop that reads. *)
LEMMA LoopTasks ==
  ASSUME TypeOK, WriteInv, ReuseInv, NEW l \in Loops,
         \/ read_data(l)
         \/ ReadEnded(l)
         \/ PushRecv(l)
  PROVE  TaskCalm
<1>th. th \in [Threads -> ThreadT] BY DEF TypeOK, ThreadsOK
<1>types. /\ flags \in [Conns -> FlagsT] /\ hist \in [Conns -> HistT] /\ ObjOK
         /\ mutex \in [Conns -> MutexT]
  BY DEF TypeOK
<1>1. CASE read_data(l)
  <2>1. WorkersStride /\ SameMark
    BY <1>1, <1>th, Kinds DEF read_data, At, ThreadT, Home, HomePc, Writers,
       WorkersStride, Strides, SameMark, Inner, Live, objVars
  <2>2. \A d \in Conns : SameHandle(d)
    BY <1>1, <1>types DEF read_data, SameHandle, Live, FlagsT, NoFlags,
       objVars
  <2>3. \A d \in Conns : mutex'[d].unpack = mutex[d].unpack
    BY <1>1 DEF read_data
  <2>4. FreshFields
    BY <1>1, <1>types DEF read_data, At, FreshFields, Known, Live, FlagsT,
       HistT, objVars
  <2>5. OtherTask
    BY <1>1 DEF read_data, OtherTask, PoolQueue, mainVars
  <2> QED BY <2>1, <2>2, <2>3, <2>4, <2>5 DEF TaskCalm
<1>2. CASE ReadEnded(l)
  <2>1. WorkersStride /\ SameMark
    BY <1>2, <1>th, GotoAt, Kinds DEF ReadEnded, At, set_update, Writers,
       WorkersStride, Strides, SameMark, Inner, Live, objVars
  <2>2. \A d \in Conns : SameHandle(d)
    BY <1>2, <1>types DEF ReadEnded, set_update, SameHandle, Live, FlagsT,
       NoFlags, objVars
  <2>3. \A d \in Conns : mutex'[d].unpack = mutex[d].unpack
    BY <1>2 DEF ReadEnded
  <2>4. FreshFields
    BY <1>2, <1>types DEF ReadEnded, At, set_update, FreshFields, Known, Live,
       FlagsT, HistT, objVars
  <2>5. OtherTask
    BY <1>2 DEF ReadEnded, OtherTask, PoolQueue, mainVars
  <2> QED BY <2>1, <2>2, <2>3, <2>4, <2>5 DEF TaskCalm
<1>3. CASE PushRecv(l)
  <2>1. WorkersStride /\ SameMark
    BY <1>3, <1>th, Kinds DEF PushRecv, At, set_update, ThreadT, Home, HomePc,
       Writers, WorkersStride, Strides, SameMark, Inner, Live, objVars
  <2>2. \A d \in Conns : SameHandle(d)
    BY <1>3, <1>types DEF PushRecv, set_update, SameHandle, Live, FlagsT,
       NoFlags, objVars
  <2>3. \A d \in Conns : mutex'[d].unpack = mutex[d].unpack
    BY <1>3 DEF PushRecv
  <2>4. FreshFields
    BY <1>3, <1>types DEF PushRecv, At, set_update, FreshFields, Known, Live,
       FlagsT, HistT, objVars
  <2>5. OtherTask
    BY <1>3 DEF PushRecv, OtherTask, PoolQueue, mainVars
  <2> QED BY <2>1, <2>2, <2>3, <2>4, <2>5 DEF TaskCalm
<1> QED BY <1>1, <1>2, <1>3

(* close_client. *)
LEMMA CloseTasks ==
  ASSUME TypeOK, WriteInv, ReuseInv, NEW u \in Users,
         \/ close_read(u)
  PROVE  TaskCalm
<1>th. th \in [Threads -> ThreadT] BY DEF TypeOK, ThreadsOK
<1>types. /\ flags \in [Conns -> FlagsT] /\ hist \in [Conns -> HistT] /\ ObjOK
         /\ mutex \in [Conns -> MutexT]
  BY DEF TypeOK
<1>1. CASE close_read(u)
  <2>1. WorkersStride /\ SameMark
    BY <1>1, <1>th, Kinds DEF close_read, At, ThreadT, Home, HomePc, Writers,
       WorkersStride, Strides, SameMark, Inner, Live, objVars
  <2>2. \A d \in Conns : SameHandle(d)
    BY <1>1, <1>types DEF close_read, SameHandle, Live, FlagsT, NoFlags,
       objVars
  <2>3. \A d \in Conns : mutex'[d].unpack = mutex[d].unpack
    BY <1>1 DEF close_read
  <2>4. FreshFields
    BY <1>1, <1>types DEF close_read, At, FreshFields, Known, Live, FlagsT,
       HistT, objVars
  <2>5. OtherTask
    BY <1>1 DEF close_read, OtherTask, PoolQueue, mainVars
  <2> QED BY <2>1, <2>2, <2>3, <2>4, <2>5 DEF TaskCalm
<1> QED BY <1>1

-----------------------------------------------------------------------------
(* The life of an unpack task: scheduled, taken, run *)

LEMMA StillTaskOK ==
  ASSUME TypeOK, TaskInv, OtherTask, \A w \in Workers : Strides(w),
         \A d \in Conns : SameHandle(d), \A d \in Conns : mutex'[d].unpack = mutex[d].unpack
  PROVE  \A d \in Conns : TaskOK(d)'
BY TaskStays, OtherSame, StrideStands DEF TaskInv

LEMMA NotScheduled ==
  ASSUME TypeOK, ReuseInv, TaskInv, NEW c \in Conns, ~Known(c) PROVE ~Scheduled(c)
<1>1. UnpackOf(c) \in TasksOf(c) BY DEF UnpackOf, TasksOf, TaskOps
<1>2. ~InSeq(UnpackOf(c), PoolQueue)
  BY <1>1 DEF ReuseInv, TasksLive, Idle, Live, Known
<1>3. \A w \in Workers : ~BeforeSplice(w, c) BY DEF TaskInv, Fresh, BeforeSplice
<1> QED BY <1>2, <1>3 DEF Scheduled

LEMMA AddTasks ==
  ASSUME TypeOK, WriteInv, ReuseInv, TaskInv, NEW c \in Conns, NEW l \in Loops, DoAddClient(c, l)
  PROVE  TaskInv'
<1>1. stage[c] = "adding"
  <2>1. InSeq(AddOf(c), main_funcs) BY QueueTypes, InTail DEF DoAddClient, AddOf
  <2> QED BY <2>1 DEF WriteInv, AddedOnce, InSeq, AddOf
<1>2. /\ UNCHANGED <<flags, hist, th, mutex>> /\ PoolQueue' = PoolQueue
      /\ stage' = [stage EXCEPT ![c] = "live"] /\ th[Main].pc = "idle"
  BY DEF DoAddClient, PoolQueue
<1>3. \A d \in Conns \ {c} : stage'[d] = stage[d] BY <1>2 DEF TypeOK, ObjOK
<1>4. stage'[c] = "live" BY <1>2 DEF TypeOK, ObjOK
<1>5. \A d \in Conns : SameTask(d) /\ \A w \in Workers : SameStand(w, d)
  BY <1>2 DEF SameTask, Mild, SameStand, Handling, BeforeSplice
<1>6. ASSUME NEW d \in Conns \ {c} PROVE TaskOK(d)'
  <2>1. SameHandle(d) BY <1>2, <1>3 DEF SameHandle, Live
  <2> QED BY <1>2, <1>5, <2>1, TaskStays DEF TaskInv
<1>7. TaskOK(c)'
  <2>1. ~Known(c) BY <1>1 DEF Known
  <2>2. "HANDLE" \notin flags'[c].read BY <1>2, <2>1 DEF TaskInv, Fresh, NoFlags
  <2>3. OnePending(c)' /\ ~Scheduled(c)' BY <1>5, <2>1, OneTask, NotScheduled DEF TaskInv, TaskOK
  <2>4. HolderOK(c)' BY <1>2 DEF TaskInv, TaskOK, HolderOK, Handling
  <2> QED BY <2>2, <2>3, <2>4 DEF TaskOK, HandleOK
<1>8. MarkOK' BY <1>2 DEF MarkOK
<1>9. \A d \in Conns : Fresh(d)'
  <2>1. FreshFields BY <1>2, <1>3, <1>4 DEF FreshFields, Known, Live
  <2> QED BY <1>2, <2>1, FreshStays
<1> QED BY <1>6, <1>7, <1>8, <1>9 DEF TaskInv

(* do_send_timeout looks at FLAG_HANDLE ... *)
LEMMA TestTasks == ASSUME TypeOK, ReuseInv, TaskInv, TickRead PROVE TaskInv'
<1>th. th \in [Threads -> ThreadT] BY DEF TypeOK, ThreadsOK
<1>1. /\ UNCHANGED <<stage, flags, hist, mutex>> /\ PoolQueue' = PoolQueue
      /\ \A s \in Threads \ {Main} : th'[s] = th[s]
      /\ th'[Main].c = th[Main].c
      /\ th'[Main].pc = "mark_read" => "HANDLE" \notin flags[th[Main].c].read
  BY <1>th, Kinds, GotoAt DEF TickRead, is_update, PoolQueue, objVars, mainVars
<1>2. \A w \in Workers : th'[w] = th[w] BY <1>1, Kinds
<1>3. \A d \in Conns : TaskOK(d)'
  BY <1>1, <1>2, StillTaskOK DEF OtherTask, Strides, SameHandle, Live
<1>4. \A d \in Conns : Fresh(d)' BY <1>1, <1>2, FreshStays DEF FreshFields, Known
<1>5. MarkOK' BY <1>1 DEF MarkOK
<1> QED BY <1>3, <1>4, <1>5 DEF TaskInv

(* ... and raises it with the task. *)
LEMMA MarkTasks == ASSUME TypeOK, ReuseInv, TaskInv, handle_update PROVE TaskInv'
<1>th. th \in [Threads -> ThreadT] BY DEF TypeOK, ThreadsOK
<1>0. th[Main].pc = "mark_read" BY DEF handle_update
<1>1. PICK c \in Conns : c = th[Main].c /\ Live(c)
  BY <1>0, MainIsLive
<1>2. "HANDLE" \notin flags[c].read /\ ~flags[c].closed
  <2>1. th[Main].c # NoConn BY <1>1, CoreAssumption
  <2> QED BY <1>0, <1>1, <2>1 DEF TaskInv, MarkOK, ReuseInv, MainInside
<1>3. ~Scheduled(c) /\ ~InSeq(UnpackOf(c), PoolQueue)
  BY <1>1, <1>2 DEF TaskInv, TaskOK, HandleOK, Scheduled
<1>4. PoolQueue' = Append(PoolQueue, UnpackOf(c))
  <2>1. UnpackOf(c) \in TaskT BY DEF UnpackOf, TaskT, TaskOps
  <2>2. task_list \in Seq(TaskT) /\ fun_list \in Seq(TaskT) BY DEF TypeOK, MainOK
  <2>3. task_list \o Append(fun_list, UnpackOf(c)) = Append(task_list \o fun_list, UnpackOf(c))
    BY <2>1, <2>2, JoinAppend
  <2> QED BY <1>1, <2>3 DEF handle_update, UnpackOf, PoolQueue
<1>5. /\ UNCHANGED <<stage, hist, mutex>>
      /\ flags' = [flags EXCEPT ![c].read = @ \cup {"HANDLE"}]
      /\ th'[Main].pc = "test_write" /\ \A w \in Workers : th'[w] = th[w]
  BY <1>th, <1>1, Kinds, GotoAt DEF handle_update, objVars
<1>6. flags \in [Conns -> FlagsT] BY DEF TypeOK
<1>7. PoolQueue \in Seq(TaskT) BY QueueTypes
<1>8. \A d \in Conns, w \in Workers : SameStand(w, d)
  BY <1>5 DEF SameStand, Handling, BeforeSplice
<1>9. ASSUME NEW d \in Conns \ {c} PROVE TaskOK(d)'
  <2>1. SameHandle(d) BY <1>5, <1>6 DEF SameHandle, Live
  <2>2. UnpackOf(c) # UnpackOf(d) BY DEF UnpackOf
  <2>3. SameTask(d)
    <3>1. InSeq(UnpackOf(d), PoolQueue') <=> InSeq(UnpackOf(d), PoolQueue)
      BY <1>4, <1>7, <2>2, InAppend
    <3>2. UnpackOf(c) \notin {UnpackOf(d)} BY <2>2
    <3>3. Mild(PoolQueue, PoolQueue', {UnpackOf(d)}) BY <1>4, <3>2 DEF Mild
    <3> QED BY <3>1, <3>3 DEF SameTask
  <2> QED BY <1>5, <1>8, <2>1, <2>3, TaskStays DEF TaskInv
<1>10. TaskOK(c)'
  <2>1. Ends(PoolQueue', UnpackOf(c), {UnpackOf(c)})
    BY <1>3, <1>4, <1>7, EndsAppend DEF TaskInv, TaskOK, OnePending
  <2>2. InSeq(UnpackOf(c), PoolQueue') BY <1>4, <1>7, InAppend
  <2>3. \A w \in Workers : ~BeforeSplice(w, c)' BY <1>3, <1>8 DEF Scheduled, SameStand
  <2>4. HolderOK(c)' BY <1>5, <1>8 DEF TaskInv, TaskOK, HolderOK, SameStand
  <2>5. "HANDLE" \in flags'[c].read BY <1>5, <1>6 DEF FlagsT
  <2>6. OnePending(c)' BY <2>1, <2>3 DEF OnePending
  <2>7. HandleOK(c)' BY <2>2, <2>5 DEF HandleOK, Scheduled
  <2> QED BY <2>4, <2>6, <2>7 DEF TaskOK
<1>11. MarkOK' BY <1>5 DEF MarkOK
<1>12. \A d \in Conns : Fresh(d)'
  <2>1. FreshFields BY <1>1, <1>5, <1>6 DEF FreshFields, Known, Live
  <2> QED BY <1>5, <2>1, FreshStays
<1> QED BY <1>9, <1>10, <1>11, <1>12 DEF TaskInv

(* A worker takes a task. *)
LEMMA TakeTasks ==
  ASSUME TypeOK, ReuseInv, TaskInv, NEW w \in Workers, RequireTask(w) PROVE TaskInv'
<1>th. th \in [Threads -> ThreadT] BY DEF TypeOK, ThreadsOK
<1>1. PICK x \in TaskT : /\ x = Head(PoolQueue) /\ PoolQueue # <<>>
                         /\ PoolQueue' = Tail(PoolQueue) /\ x = Head(task_list)
  <2>1. task_list \in Seq(TaskT) /\ fun_list \in Seq(TaskT) /\ task_list # <<>>
    BY DEF RequireTask, TypeOK, MainOK
  <2>2. Head(task_list) \in TaskT BY <2>1, TailAt
  <2> QED BY <2>1, <2>2, JoinTail DEF RequireTask, PoolQueue, mainVars
<1>2. /\ UNCHANGED <<stage, flags, hist, mutex>> /\ th[w].pc = "idle"
      /\ th'[w].pc = x.op /\ th'[w].c = x.c
      /\ \A v \in Workers \ {w} : th'[v] = th[v]
      /\ th'[Main] = th[Main]
  BY <1>th, <1>1, Kinds DEF RequireTask, ThreadT, objVars
<1>3. PoolQueue \in Seq(TaskT) BY QueueTypes
<1>4. x.op \notin Inner /\ x = [op |-> x.op, c |-> x.c] /\ x.c \in Conns
  BY DEF TaskT, TaskOps, Inner
<1>5. ASSUME NEW d \in Conns PROVE TaskOK(d)'
  <2>1. SameHandle(d) BY <1>2 DEF SameHandle, Live
  <2>2. CASE x # UnpackOf(d)
    <3>1. SameTask(d) BY <1>1, <1>3, <2>2, InTail DEF SameTask, Mild
    <3>2. x.op = "unpack" => x.c # d BY <1>4, <2>2 DEF UnpackOf
    <3>3. \A v \in Workers : SameStand(v, d)
      BY <1>2, <1>4, <3>2 DEF SameStand, Handling, BeforeSplice, Inner
    <3> QED BY <1>2, <2>1, <3>1, <3>3, TaskStays DEF TaskInv
  <2>3. CASE x = UnpackOf(d)
    <3>1. InSeq(UnpackOf(d), PoolQueue) BY <1>1, <1>3, <2>3, InTail
    <3>2. Ends(PoolQueue, UnpackOf(d), {UnpackOf(d)})
          /\ \A v \in Workers : ~BeforeSplice(v, d)
      BY <3>1 DEF TaskInv, TaskOK, OnePending
    <3>3. Ends(PoolQueue', UnpackOf(d), {UnpackOf(d)}) /\ ~InSeq(UnpackOf(d), PoolQueue')
      BY <1>1, <1>3, <2>3, <3>2, EndsTail
    <3>4. \A v \in Workers : BeforeSplice(v, d)' <=> v = w
      BY <1>2, <2>3, <3>2 DEF BeforeSplice, UnpackOf
    <3>5. \A v \in Workers : Handling(v, d)' <=> Handling(v, d)
      BY <1>2, <1>4 DEF Handling, Inner
    <3>6. OnePending(d)' BY <3>3, <3>4 DEF OnePending
    <3>7. HolderOK(d)' BY <1>2, <3>5 DEF TaskInv, TaskOK, HolderOK
    <3>8. HandleOK(d)'
      BY <1>2, <3>1, <3>4 DEF TaskInv, TaskOK, HandleOK, Scheduled, Live
    <3> QED BY <3>6, <3>7, <3>8 DEF TaskOK
  <2> QED BY <2>2, <2>3
<1>6. MarkOK' BY <1>2 DEF TaskInv, MarkOK
<1>7. \A d \in Conns : Fresh(d)'
  <2>1. FreshFields BY <1>2 DEF FreshFields, Known
  <2>2. Live(x.c)
    <3>1. InSeq(x, PoolQueue) BY <1>1, <1>3, InTail
    <3>2. x \in TasksOf(x.c) BY <1>4 DEF TasksOf, TaskT
    <3> QED BY <1>4, <3>1, <3>2 DEF ReuseInv, TasksLive, Idle
  <2> QED BY <1>2, <2>1, <2>2, FreshStays DEF Live
<1> QED BY <1>5, <1>6, <1>7 DEF TaskInv

(* A worker in handle_unpack of c touches nothing of any other connection.  *)
OnlyAt(w, c) ==
  /\ w \in Workers /\ c \in Conns /\ th[w].c = c /\ Live(c) /\ th[w].pc \in Inner \cup {"unpack"}
  /\ stage' = stage /\ PoolQueue' = PoolQueue
  /\ th'[Main] = th[Main] /\ \A v \in Workers \ {w} : th'[v] = th[v]
  /\ th'[w].c \in {c, NoConn}
  /\ \A d \in Conns \ {c} :
       /\ flags'[d] = flags[d] /\ hist'[d] = hist[d] /\ mutex'[d].unpack = mutex[d].unpack

LEMMA InsideTasks ==
  ASSUME TypeOK, ReuseInv, TaskInv, NEW w, NEW c, OnlyAt(w, c), HolderOK(c)',
         OnePending(c)', HandleOK(c)', "HANDLE" \in flags'[c].read => "HANDLE" \in flags[c].read
  PROVE  TaskInv'
<1>w. w \in Workers /\ c \in Conns /\ c # NoConn /\ th[w].c = c
  BY CoreAssumption DEF OnlyAt
<1>1. ASSUME NEW d \in Conns \ {c} PROVE TaskOK(d)'
  <2>1. SameTask(d) BY DEF OnlyAt, SameTask, Mild
  <2>2. \A v \in Workers : SameStand(v, d)
    <3>1. \A v \in Workers \ {w} : SameStand(v, d) BY DEF OnlyAt, SameStand, Handling, BeforeSplice
    <3>2. d # NoConn BY CoreAssumption
    <3>3. SameStand(w, d) BY <1>w, <3>2 DEF OnlyAt, SameStand, Handling, BeforeSplice
    <3> QED BY <3>1, <3>3
  <2>3. SameHandle(d) BY DEF OnlyAt, SameHandle, Live
  <2> QED BY <2>1, <2>2, <2>3, TaskStays DEF OnlyAt, TaskInv
<1>2. MarkOK'
  <2>1. ASSUME th'[Main].pc = "mark_read" PROVE "HANDLE" \notin flags'[th'[Main].c].read
    <3>1. th'[Main] = th[Main] BY DEF OnlyAt
    <3>2. PICK d \in Conns : d = th[Main].c BY <2>1, <3>1, MainIsLive
    <3>3. "HANDLE" \notin flags[d].read BY <2>1, <3>1, <3>2 DEF TaskInv, MarkOK
    <3>4. d = c \/ flags'[d] = flags[d] BY DEF OnlyAt
    <3> QED BY <3>1, <3>2, <3>3, <3>4
  <2> QED BY <2>1 DEF MarkOK
<1>3. \A d \in Conns : Fresh(d)'
  <2>1. FreshFields BY DEF OnlyAt, FreshFields, Known, Live
  <2> QED BY <1>w, <2>1, FreshStays DEF OnlyAt
<1> QED BY <1>1, <1>2, <1>3 DEF TaskInv, TaskOK

(* unpack_mutex_ is released by the worker that leaves do_handle_unpack.    *)
LEMMA Release ==
  ASSUME TypeOK, TaskInv, NEW w, NEW c, OnlyAt(w, c), th[w].pc \in Inner,
         th'[w].pc = "idle", mutex'[c].unpack = NoThread
  PROVE  HolderOK(c)'
<1>1. \A v \in Workers : v # NoThread /\ v \in Threads BY CoreAssumption DEF Threads
<1>2. mutex[c].unpack = w BY DEF OnlyAt, TaskInv, TaskOK, HolderOK, Handling
<1>3. \A v \in Workers \ {w} : ~Handling(v, c)'
  BY <1>2 DEF OnlyAt, TaskInv, TaskOK, HolderOK, Handling
<1>4. ~Handling(w, c)' BY DEF Handling, Inner
<1> QED BY <1>1, <1>3, <1>4 DEF HolderOK

LEMMA SpliceDone ==
  ASSUME TaskInv, NEW w, NEW c, OnlyAt(w, c), th[w].pc = "splice",
         th'[w].pc \notin {"unpack", "splice"}
  PROVE  OnePending(c)' /\ ~Scheduled(c)'
<1>1. BeforeSplice(w, c) BY DEF OnlyAt, BeforeSplice
<1>2. ~InSeq(UnpackOf(c), PoolQueue) /\ \A v \in Workers \ {w} : ~BeforeSplice(v, c)
  BY <1>1 DEF OnlyAt, TaskInv, TaskOK, OnePending
<1>3. \A v \in Workers : ~BeforeSplice(v, c)' BY <1>2 DEF OnlyAt, BeforeSplice
<1>4. ~InSeq(UnpackOf(c), PoolQueue') BY <1>2 DEF OnlyAt
<1>5. Ends(PoolQueue', UnpackOf(c), {UnpackOf(c)}) BY <1>4, EndsNone
<1> QED BY <1>3, <1>4, <1>5 DEF OnePending, Scheduled

(* Past the splice, FLAG_HANDLE and the tasks are left as they are.         *)
LEMMA PastSplice ==
  ASSUME TypeOK, TaskInv, NEW w, NEW c, OnlyAt(w, c), th[w].pc \in Inner \ {"splice"},
         th'[w].pc \notin {"unpack", "splice"},
         "HANDLE" \in flags'[c].read <=> "HANDLE" \in flags[c].read,
         flags'[c].closed = flags[c].closed
  PROVE  OnePending(c)' /\ HandleOK(c)'
<1>1. \A v \in Workers : BeforeSplice(v, c)' <=> BeforeSplice(v, c)
  BY DEF OnlyAt, BeforeSplice, Inner
<1>2. OnePending(c)' /\ (Scheduled(c)' <=> Scheduled(c))
  BY <1>1 DEF OnlyAt, TaskInv, TaskOK, OnePending, Scheduled
<1>3. HandleOK(c)' BY <1>2 DEF OnlyAt, TaskInv, TaskOK, HandleOK, Live
<1> QED BY <1>2, <1>3

(* A worker enters do_handle_unpack, or finds the client closed.            *)
LEMMA EnterTasks ==
  ASSUME TypeOK, ReuseInv, TaskInv, NEW w \in Workers, handle_unpack(w) PROVE TaskInv'
<1>th. th \in [Threads -> ThreadT] BY DEF TypeOK, ThreadsOK
<1>c. PICK c \in Conns : c = th[w].c BY DEF handle_unpack, At
<1>1. /\ UNCHANGED <<stage, flags, hist>> /\ PoolQueue' = PoolQueue
      /\ Live(c) /\ th[w].pc = "unpack" /\ mutex[c].unpack = NoThread
  BY <1>c DEF handle_unpack, At, Live, PoolQueue, objVars, mainVars
<1>m. mutex \in [Conns -> MutexT] BY DEF TypeOK
<1>n. \A v \in Workers : v # NoThread BY CoreAssumption DEF Threads
<1>2. CASE flags[c].closed
  <2>1. /\ mutex' = mutex /\ th'[w].pc = "idle" /\ th'[w].c = NoConn
        /\ \A s \in Threads \ {w} : th'[s] = th[s]
    BY <1>2, <1>c, <1>th, ReturnAt, Kinds DEF handle_unpack, HomePc
  <2>2. OnlyAt(w, c) BY <1>1, <1>c, <2>1, Kinds DEF OnlyAt, Inner
  <2>3. \A v \in Workers : Handling(v, c)' <=> Handling(v, c)
    BY <1>1, <2>1, Kinds DEF Handling, Inner
  <2>4. HolderOK(c)' BY <2>1, <2>3 DEF TaskInv, TaskOK, HolderOK
  <2>5. \A v \in Workers : BeforeSplice(v, c)' => BeforeSplice(v, c)
    BY <1>1, <2>1, Kinds DEF BeforeSplice
  <2>6. OnePending(c)' BY <1>1, <2>5 DEF TaskInv, TaskOK, OnePending
  <2>7. HandleOK(c)' BY <1>1, <1>2 DEF HandleOK
  <2> QED BY <1>1, <2>2, <2>4, <2>6, <2>7, InsideTasks
<1>3. CASE ~flags[c].closed
  <2>1. /\ mutex' = [mutex EXCEPT ![c].unpack = w] /\ th'[w].pc = "splice" /\ th'[w].c = c
        /\ \A s \in Threads \ {w} : th'[s] = th[s]
    BY <1>3, <1>c, <1>th, GotoAt, Kinds DEF handle_unpack
  <2>2. /\ mutex'[c].unpack = w
        /\ \A d \in Conns \ {c} : mutex'[d].unpack = mutex[d].unpack
    BY <2>1, <1>m DEF MutexT
  <2>3. OnlyAt(w, c) BY <1>1, <1>c, <2>1, <2>2, Kinds DEF OnlyAt, Inner
  <2>4. \A v \in Workers : ~Handling(v, c)
    BY <1>1, <1>n DEF TaskInv, TaskOK, HolderOK
  <2>5. HolderOK(c)'
    <3>1. \A v \in Workers \ {w} : ~Handling(v, c)' BY <2>1, <2>4, Kinds DEF Handling
    <3>2. Handling(w, c)' BY <2>1 DEF Handling, Inner
    <3> QED BY <2>2, <3>1, <3>2 DEF HolderOK
  <2>6. \A v \in Workers : BeforeSplice(v, c)' <=> BeforeSplice(v, c)
    BY <1>1, <1>c, <2>1, Kinds DEF BeforeSplice
  <2>7. OnePending(c)' /\ (Scheduled(c)' <=> Scheduled(c))
    BY <1>1, <2>6 DEF TaskInv, TaskOK, OnePending, Scheduled
  <2>8. HandleOK(c)' BY <1>1, <2>7 DEF TaskInv, TaskOK, HandleOK, Live
  <2> QED BY <1>1, <2>3, <2>5, <2>7, <2>8, InsideTasks
<1> QED BY <1>2, <1>3

(* recv_list_ is spliced, and FLAG_HANDLE comes down with FLAG_NEXT.        *)
LEMMA SpliceTasks ==
  ASSUME TypeOK, ReuseInv, TaskInv, NEW w \in Workers, UnpackNothing(w) \/ UnpackSplice(w)
  PROVE  TaskInv'
<1>th. th \in [Threads -> ThreadT] BY DEF TypeOK, ThreadsOK
<1>types. flags \in [Conns -> FlagsT] /\ mutex \in [Conns -> MutexT] BY DEF TypeOK
<1>c. PICK c \in Conns : c = th[w].c BY DEF UnpackNothing, UnpackSplice, At
<1>1. /\ UNCHANGED <<stage, hist>> /\ PoolQueue' = PoolQueue
      /\ Live(c) /\ th[w].pc = "splice"
  BY <1>c DEF UnpackNothing, UnpackSplice, At, Live, PoolQueue, objVars, mainVars
<1>2. CASE UnpackNothing(w)
  <2>1. /\ th'[w].pc = "idle" /\ th'[w].c = NoConn
        /\ \A s \in Threads \ {w} : th'[s] = th[s]
    BY <1>2, <1>th, ReturnAt, Kinds DEF UnpackNothing, HomePc
  <2>2. /\ flags' = [flags EXCEPT ![c].read = (@ \cap {"CLOSE"}) \cup ForceIfReady(c)]
        /\ mutex' = [mutex EXCEPT ![c].unpack = NoThread]
    BY <1>2, <1>c DEF UnpackNothing
  <2>3. "HANDLE" \notin flags'[c].read
    BY <2>2, <1>types DEF FlagsT, ForceIfReady
  <2>4. /\ mutex'[c].unpack = NoThread
        /\ \A d \in Conns \ {c} : mutex'[d].unpack = mutex[d].unpack /\ flags'[d] = flags[d]
    BY <2>2, <1>types DEF MutexT
  <2>5. OnlyAt(w, c) BY <1>1, <1>c, <2>1, <2>4, Kinds DEF OnlyAt, Inner
  <2>6. HolderOK(c)' BY <1>1, <2>1, <2>4, <2>5, Release DEF Inner
  <2>7. OnePending(c)' /\ ~Scheduled(c)' BY <1>1, <2>1, <2>5, SpliceDone
  <2>8. HandleOK(c)' BY <2>3, <2>7 DEF HandleOK
  <2> QED BY <2>3, <2>5, <2>6, <2>7, <2>8, InsideTasks
<1>3. CASE UnpackSplice(w)
  <2>1. /\ th'[w].pc = "parse" /\ th'[w].c = c
        /\ \A s \in Threads \ {w} : th'[s] = th[s]
    BY <1>3, <1>c, <1>th, GotoAt, Kinds DEF UnpackSplice
  <2>2. flags' = [flags EXCEPT ![c].read = @ \cap {"CLOSE"}] /\ mutex' = mutex
    BY <1>3, <1>c DEF UnpackSplice
  <2>3. "HANDLE" \notin flags'[c].read BY <2>2, <1>types DEF FlagsT
  <2>4. \A d \in Conns \ {c} : flags'[d] = flags[d] BY <2>2, <1>types
  <2>5. OnlyAt(w, c) BY <1>1, <1>c, <2>1, <2>2, <2>4, Kinds DEF OnlyAt, Inner
  <2>6. \A v \in Workers : Handling(v, c)' <=> Handling(v, c)
    BY <1>1, <1>c, <2>1, Kinds DEF Handling, Inner
  <2>9. HolderOK(c)' BY <2>2, <2>6 DEF TaskInv, TaskOK, HolderOK
  <2>7. OnePending(c)' /\ ~Scheduled(c)' BY <1>1, <2>1, <2>5, SpliceDone
  <2>8. HandleOK(c)' BY <2>3, <2>7 DEF HandleOK
  <2> QED BY <2>3, <2>5, <2>7, <2>8, <2>9, InsideTasks
<1> QED BY <1>2, <1>3

(* A worker leaves do_handle_unpack past the splice.                        *)
LEMMA LeaveTasks ==
  ASSUME TypeOK, ReuseInv, TaskInv, NEW w \in Workers,
         UnpackPartial(w) \/ CallbackEnd(w) \/ UnpackBadClose(w)
  PROVE  TaskInv'
<1>th. th \in [Threads -> ThreadT] BY DEF TypeOK, ThreadsOK
<1>types. /\ flags \in [Conns -> FlagsT] /\ mutex \in [Conns -> MutexT]
          /\ hist \in [Conns -> HistT]
  BY DEF TypeOK
<1>c. PICK c \in Conns : c = th[w].c BY DEF UnpackPartial, CallbackEnd, UnpackBadClose, At
<1>1. /\ stage' = stage /\ PoolQueue' = PoolQueue
      /\ Live(c) /\ th[w].pc \in {"parse", "callback", "bad"} /\ Return(w)
  BY <1>c DEF UnpackPartial, CallbackEnd, UnpackBadClose, At, Live, PoolQueue, objVars, mainVars
<1>2. /\ th'[w].pc = "idle" /\ th'[w].c = NoConn
      /\ \A s \in Threads \ {w} : th'[s] = th[s]
  BY <1>1, <1>th, ReturnAt, Kinds DEF HomePc
<1>3. /\ \A d \in Conns \ {c} : mutex'[d].unpack = mutex[d].unpack /\ hist'[d] = hist[d]
      /\ mutex'[c].unpack = NoThread
  <2>1. CASE UnpackPartial(w) BY <1>c, <1>types, <2>1 DEF UnpackPartial, MutexT
  <2>2. CASE CallbackEnd(w) BY <1>c, <1>types, <2>2 DEF CallbackEnd, MutexT
  <2>3. CASE UnpackBadClose(w) BY <1>c, <1>types, <2>3 DEF UnpackBadClose, MutexT
  <2> QED BY <2>1, <2>2, <2>3
<1>4. /\ \A d \in Conns \ {c} : flags'[d] = flags[d]
      /\ "HANDLE" \in flags'[c].read <=> "HANDLE" \in flags[c].read
      /\ flags'[c].closed = flags[c].closed
  <2>1. CASE UnpackPartial(w)
    BY <1>c, <1>types, <2>1 DEF UnpackPartial, ForceIfReady, FlagsT
  <2>2. CASE CallbackEnd(w) BY <1>c, <1>types, <2>2 DEF CallbackEnd, set_update, FlagsT
  <2>3. CASE UnpackBadClose(w) BY <1>c, <1>types, <2>3 DEF UnpackBadClose, FlagsT
  <2> QED BY <2>1, <2>2, <2>3
<1>5. OnlyAt(w, c) BY <1>1, <1>2, <1>3, <1>4, <1>c, Kinds DEF OnlyAt, Inner
<1>6. HolderOK(c)' BY <1>1, <1>2, <1>3, <1>5, Release DEF Inner
<1>7. OnePending(c)' /\ HandleOK(c)' BY <1>1, <1>2, <1>4, <1>5, PastSplice DEF Inner
<1> QED BY <1>4, <1>5, <1>6, <1>7, InsideTasks

LEMMA InitTasks == ASSUME Init PROVE TaskInv
<1>1. PoolQueue = <<>> BY EmptySeq, ConcatProperties DEF Init, PoolQueue
<1>2. \A x : ~InSeq(x, PoolQueue) BY <1>1, EmptySeq DEF InSeq
<1>3. \A w \in Workers : th[w].pc = "idle" /\ th[w].c = NoConn BY Kinds DEF Init, Home, HomePc
<1>4. th[Main].pc = "idle" BY Kinds DEF Init, Home, HomePc
<1>5. \A w \in Workers : w # NoThread BY CoreAssumption DEF Threads
<1>6. ASSUME NEW c \in Conns PROVE TaskOK(c) /\ Fresh(c)
  <2>1. /\ ~Live(c) /\ mutex[c].unpack = NoThread /\ flags[c] = NoFlags
        /\ hist[c].late = 0 /\ c # NoConn
    BY CoreAssumption DEF Init, Live
  <2>2. HolderOK(c) BY <1>3, <1>5, <2>1 DEF HolderOK, Handling, Inner
  <2>3. OnePending(c) BY <1>2, <1>3, EndsNone DEF OnePending, BeforeSplice
  <2> QED BY <1>3, <2>1, <2>2, <2>3 DEF TaskOK, HandleOK, Fresh
<1> QED BY <1>4, <1>6 DEF TaskInv, MarkOK

-----------------------------------------------------------------------------
(* The steps that are not still, each at a place of its own *)

PeerStirs ==
  \/ \E c \in Conns : PeerSend(c)
  \/ \E c \in Conns, how \in PeerMayEnd : PeerEnd(c, how)
  \/ \E c \in Conns, f \in Fds : Accept(c, f)
MainStirs ==
  \/ \E c \in Conns, l \in Loops : DoAddClient(c, l)
  \/ DoRemoveClient
  \/ \E c \in Conns : TickClient(c)
  \/ TickRead \/ handle_update
EntryStirs(w) ==
  \/ RequireTask(w) \/ handle_unpack(w)
  \/ UnpackNothing(w) \/ UnpackSplice(w) \/ UnpackPartial(w)
FrameStirs(w) ==
  \/ \E i \in 1 .. Len(Script) : UnpackFrame(w, i)
  \/ CallbackStart(w) \/ CallbackCloses(w) \/ CallbackEnd(w)
  \/ UnpackBad(w) \/ UnpackBadClose(w)
WriterStirs(t) == WriteNothing(t) \/ WriteError(t) \/ WriteFail(t) \/ WritePop(t)
LoopStirs(l) == read_data(l) \/ ReadEnded(l) \/ PushRecv(l)
Stirs ==
  \/ PeerStirs \/ MainStirs
  \/ \E w \in Workers : EntryStirs(w) \/ FrameStirs(w)
  \/ \E t \in Writers : WriterStirs(t)
  \/ \E l \in Loops : LoopStirs(l)
  \/ \E u \in Users : close_read(u)

LEMMA StutterInput == ASSUME UNCHANGED vars PROVE InputStill
BY DEF InputStill, OtherTask, PoolQueue, QuietThreads, SameFlags, SameInput,
       vars, objVars, mainVars

LEMMA StillOrStirs == ASSUME TypeOK, ReuseInv, [Next]_vars PROVE InputStill \/ Stirs
<1>1. CASE UNCHANGED vars BY <1>1, StutterInput
<1>2. CASE PeerStep BY <1>2, DrainInput DEF PeerStep, Stirs, PeerStirs
<1>3. CASE PostedStep BY <1>3 DEF PostedStep, Stirs, MainStirs
<1>4. CASE TickStep BY <1>4, TickInput DEF TickStep, Stirs, MainStirs
<1>5. ASSUME NEW t \in Writers, WriteStep(t) PROVE InputStill \/ Stirs
  BY <1>5, WriteInput DEF WriteStep, Stirs, WriterStirs
<1>6. ASSUME NEW w \in Workers, WorkerStep(w) \/ CallbackCloses(w) PROVE InputStill \/ Stirs
  BY <1>5, <1>6, WorkerInput DEF WorkerStep, Stirs, EntryStirs, FrameStirs, Writers
<1>7. ASSUME NEW l \in Loops, LoopStep(l) PROVE InputStill \/ Stirs
  BY <1>5, <1>7, LoopInput DEF LoopStep, Stirs, LoopStirs, Writers
<1>8. ASSUME NEW u \in Users, UserStep(u) PROVE InputStill \/ Stirs
  BY <1>8, UserInput DEF UserStep, CallStep, Stirs
<1>9. ASSUME NEW c \in Conns, NEW f \in Fds, Accept(c, f) PROVE InputStill \/ Stirs
  BY <1>9 DEF Stirs, PeerStirs
<1> QED BY <1>1, <1>2, <1>3, <1>4, <1>6, <1>7, <1>8, <1>9 DEF Next

-----------------------------------------------------------------------------
(* The tasks of a connection are kept apart *)

LEMMA NextTasks ==
  ASSUME TypeOK, WriteInv, ReuseInv, TaskInv, [Next]_vars PROVE TaskInv'
<1>1. CASE InputStill BY <1>1, InputTasks, CalmTaskInv
<1>2. CASE PeerStirs BY <1>2, PeerTasks, CalmTaskInv DEF PeerStirs
<1>3. CASE MainStirs
  BY <1>3, AddTasks, RemoveTasks, ScanTasks, TestTasks, MarkTasks, CalmTaskInv DEF MainStirs
<1>4. ASSUME NEW w \in Workers, EntryStirs(w) PROVE TaskInv'
  BY <1>4, TakeTasks, EnterTasks, SpliceTasks, LeaveTasks DEF EntryStirs
<1>5. ASSUME NEW w \in Workers, FrameStirs(w) PROVE TaskInv'
  BY <1>5, WorkerTasks, LeaveTasks, CalmTaskInv DEF FrameStirs
<1>6. ASSUME NEW t \in Writers, WriterStirs(t) PROVE TaskInv'
  BY <1>6, WriteTasks, CalmTaskInv DEF WriterStirs
<1>7. ASSUME NEW l \in Loops, LoopStirs(l) PROVE TaskInv'
  BY <1>7, LoopTasks, CalmTaskInv DEF LoopStirs
<1>8. ASSUME NEW u \in Users, close_read(u) PROVE TaskInv'
  BY <1>8, CloseTasks, CalmTaskInv
<1> QED BY <1>1, <1>2, <1>3, <1>4, <1>5, <1>6, <1>7, <1>8, StillOrStirs DEF Stirs

(* FLAG_HANDLE and unpack_mutex_ keep the tasks of a connection apart, for  *)
(* any number of workers.                                                   *)
THEOREM TasksCorrect == Spec => []TaskInv
<1> QED BY TypeCorrect, WriteCorrect, ReuseCorrect, InitTasks, NextTasks, PTL DEF Spec

LEMMA AtMostOne ==
  ASSUME NEW S, \A a, b \in S : a = b PROVE IsFiniteSet(S) /\ Cardinality(S) <= 1
    /\ Cardinality(S) = (IF S = {} THEN 0 ELSE 1)
<1>1. CASE S = {} BY <1>1, FS_EmptySet
<1>2. ASSUME NEW a \in S PROVE IsFiniteSet(S) /\ Cardinality(S) = 1 /\ S # {}
  <2>1. S = {a} BY <1>2
  <2> QED BY <2>1, FS_Singleton
<1> QED BY <1>1, <1>2

LEMMA OnceSwapped ==
  ASSUME NEW T, NEW q \in Seq(T), NEW r \in Seq(T), NEW x, Ends(q \o r, x, {x})
  PROVE  \A i, j \in 1 .. Len(r \o q) : (r \o q)[i] = x /\ (r \o q)[j] = x => i = j
<1>1. /\ Len(q) \in Nat /\ Len(r) \in Nat
      /\ Len(q \o r) = Len(q) + Len(r) /\ Len(r \o q) = Len(q) + Len(r)
      /\ \A i \in 1 .. Len(q) + Len(r) :
           /\ (q \o r)[i] = IF i <= Len(q) THEN q[i] ELSE r[i - Len(q)]
           /\ (r \o q)[i] = IF i <= Len(r) THEN r[i] ELSE q[i - Len(r)]
  BY LenProperties, ConcatProperties
<1> DEFINE to(i) == IF i <= Len(r) THEN i + Len(q) ELSE i - Len(r)
<1>2. ASSUME NEW i \in 1 .. Len(q) + Len(r)
      PROVE  to(i) \in 1 .. Len(q) + Len(r) /\ (q \o r)[to(i)] = (r \o q)[i]
  <2>1. CASE i <= Len(r)
    <3>1. /\ to(i) \in 1 .. Len(q) + Len(r) /\ ~(to(i) <= Len(q)) /\ to(i) - Len(q) = i
      BY <1>1, <2>1
    <3> HIDE DEF to
    <3>2. (q \o r)[to(i)] = r[to(i) - Len(q)] BY <1>1, <3>1
    <3> QED BY <1>1, <2>1, <3>1, <3>2
  <2>2. CASE ~(i <= Len(r))
    <3>1. to(i) \in 1 .. Len(q) + Len(r) /\ to(i) <= Len(q) /\ to(i) = i - Len(r)
      BY <1>1, <2>2
    <3> HIDE DEF to
    <3>2. (q \o r)[to(i)] = q[i - Len(r)] BY <1>1, <3>1
    <3> QED BY <1>1, <2>2, <3>1, <3>2
  <2> QED BY <2>1, <2>2
<1>3. ASSUME NEW i \in 1 .. Len(q) + Len(r), NEW j \in 1 .. Len(q) + Len(r), to(i) = to(j)
      PROVE  i = j
  BY <1>1, <1>3
<1>4. ASSUME NEW a \in 1 .. Len(q) + Len(r), NEW b \in 1 .. Len(q) + Len(r),
             (q \o r)[a] = x, (q \o r)[b] = x
      PROVE  a = b
  BY <1>1, <1>4 DEF Ends
<1> HIDE DEF to
<1>5. ASSUME NEW i \in 1 .. Len(q) + Len(r), NEW j \in 1 .. Len(q) + Len(r),
             (r \o q)[i] = x, (r \o q)[j] = x
      PROVE  i = j
  <2>1. /\ to(i) \in 1 .. Len(q) + Len(r) /\ (q \o r)[to(i)] = x
        /\ to(j) \in 1 .. Len(q) + Len(r) /\ (q \o r)[to(j)] = x
    BY <1>2, <1>5
  <2>2. to(i) = to(j) BY <1>4, <2>1
  <2> QED BY <1>3, <2>2
<1>6. Len(r \o q) = Len(q) + Len(r) BY <1>1
<1> QED BY <1>5, <1>6

(* How many unpack tasks of c there are: one, when there is one.            *)
LEMMA PendingIs ==
  ASSUME TypeOK, NEW c \in Conns, OnePending(c)
  PROVE  Pending(c) = IF Scheduled(c) THEN 1 ELSE 0
<1> DEFINE Q == fun_list \o task_list
           In == {i \in 1 .. Len(Q) : Q[i] = UnpackOf(c)}
           At1 == {w \in Workers : Inside(w, c) /\ th[w].pc \in {"unpack", "splice"}}
<1>1. task_list \in Seq(TaskT) /\ fun_list \in Seq(TaskT) BY DEF TypeOK, MainOK
<1>2. \A i, j \in In : i = j BY <1>1, OnceSwapped DEF OnePending, PoolQueue
<1>3. At1 = {w \in Workers : BeforeSplice(w, c)} BY DEF BeforeSplice, Inside
<1>4. \A v, w \in At1 : v = w BY <1>3 DEF OnePending
<1>5. In # {} <=> InSeq(UnpackOf(c), PoolQueue)
  <2>1. In # {} <=> InSeq(UnpackOf(c), Q) BY DEF InSeq
  <2>2. InSeq(UnpackOf(c), Q) <=> InSeq(UnpackOf(c), PoolQueue)
    BY <1>1, InJoin DEF PoolQueue
  <2> QED BY <2>1, <2>2
<1>6. At1 # {} <=> \E w \in Workers : BeforeSplice(w, c) BY <1>3
<1>7. In = {} \/ At1 = {} BY <1>3, <1>5 DEF OnePending
<1>8. Pending(c) = Cardinality(In) + Cardinality(At1) BY DEF Pending, Count, UnpackOf
<1>9. /\ Cardinality(In) = (IF In = {} THEN 0 ELSE 1)
      /\ Cardinality(At1) = (IF At1 = {} THEN 0 ELSE 1)
  <2>1. Cardinality(In) = (IF In = {} THEN 0 ELSE 1) BY <1>2, AtMostOne, Zenon
  <2>2. Cardinality(At1) = (IF At1 = {} THEN 0 ELSE 1) BY <1>4, AtMostOne, Zenon
  <2> QED BY <2>1, <2>2
<1> HIDE DEF In, At1
<1> QED BY <1>5, <1>6, <1>7, <1>8, <1>9 DEF Scheduled

LEMMA UnpackingIs ==
  ASSUME NEW c \in Conns, HolderOK(c)
  PROVE  /\ \A v, w \in Unpacking(c) : v = w
         /\ \A w \in Unpacking(c) : w \in Workers /\ Handling(w, c) /\ th[w].pc # "splice"
         /\ \A w \in Workers : Handling(w, c) /\ th[w].pc # "splice" => w \in Unpacking(c)
BY DEF HolderOK, Handling, Unpacking, Inside, Inner

(* FLAG_HANDLE is up exactly while one unpack task of the client is on its  *)
(* way and has not looked at the input, and one worker at most is past that *)
(* point (ClientEntity::is_update, TcpManager::do_send_timeout).            *)
THEOREM UnpackOnce == Spec => []UnpackScheduledOnce
<1>1. TypeOK /\ TaskInv => UnpackScheduledOnce
  <2> SUFFICES ASSUME TypeOK, TaskInv, NEW c \in Conns, Live(c), ~flags[c].closed
               PROVE  /\ Pending(c) = (IF "HANDLE" \in flags[c].read THEN 1 ELSE 0)
                      /\ Cardinality(Unpacking(c)) <= 1
    BY DEF UnpackScheduledOnce
  <2>1. TaskOK(c) BY DEF TaskInv
  <2>2. Pending(c) = (IF Scheduled(c) THEN 1 ELSE 0) BY <2>1, PendingIs DEF TaskOK
  <2>3. "HANDLE" \in flags[c].read <=> Scheduled(c) BY <2>1 DEF TaskOK, HandleOK
  <2>4. \A v, w \in Unpacking(c) : v = w BY <2>1, UnpackingIs DEF TaskOK
  <2>5. Cardinality(Unpacking(c)) <= 1 BY <2>4, AtMostOne, Zenon
  <2> QED BY <2>2, <2>3, <2>5
<1> QED BY <1>1, TypeCorrect, TasksCorrect, PTL

-----------------------------------------------------------------------------
(* A stirring step is about one connection.  Aside(d): not about d.         *)

Aside(d) ==
  /\ stage'[d] = stage[d] /\ flags'[d] = flags[d] /\ lists'[d] = lists[d]
  /\ hist'[d] = hist[d] /\ sock'[d] = sock[d] /\ mutex'[d].unpack = mutex[d].unpack
  /\ InSeq(UnpackOf(d), PoolQueue') <=> InSeq(UnpackOf(d), PoolQueue)
  /\ \A s \in Threads :
       \/ th'[s] = th[s]
       \/ th'[s].c # d /\ (th[s].c # d \/ th[s].pc = "idle")
Elsewhere(c) == \A d \in Conns \ {c} : Aside(d)

(* A thread at a place of c moves, or leaves c.                             *)
OnlyThread(t, c) ==
  /\ th[t].c = c /\ th'[t].c \in {c, NoConn} /\ Live(c)
  /\ \A s \in Threads \ {t} : th'[s] = th[s]

LEMMA ThreadsAside ==
  ASSUME NEW t \in Threads, NEW c \in Conns, NEW d \in Conns \ {c}, OnlyThread(t, c)
  PROVE  \A s \in Threads :
           \/ th'[s] = th[s]
           \/ th'[s].c # d /\ (th[s].c # d \/ th[s].pc = "idle")
BY CoreAssumption DEF OnlyThread

LEMMA PeerElse ==
  ASSUME TypeOK, NEW c \in Conns,
         \/ PeerSend(c) \/ \E how \in PeerMayEnd : PeerEnd(c, how)
         \/ \E f \in Fds : Accept(c, f)
         \/ \E l \in Loops : DoAddClient(c, l)
  PROVE  Elsewhere(c) /\ th' = th /\ PoolQueue' = PoolQueue
<1>types. ObjOK /\ sock \in [Conns -> SockT] BY DEF TypeOK
<1>1. /\ UNCHANGED <<flags, lists, hist, mutex, th>> /\ PoolQueue' = PoolQueue
      /\ \A d \in Conns \ {c} : stage'[d] = stage[d] /\ sock'[d] = sock[d]
  BY <1>types DEF ObjOK, PeerSend, PeerEnd, Accept, DoAddClient, PoolQueue, objVars, mainVars
<1> QED BY <1>1 DEF Elsewhere, Aside

LEMMA MainElse ==
  ASSUME TypeOK, ReuseInv, NEW c \in Conns,
         TickClient(c) \/ (c = th[Main].c /\ (TickRead \/ handle_update))
  PROVE  Elsewhere(c) /\ \A s \in Threads \ {Main} : th'[s] = th[s]
<1>types. flags \in [Conns -> FlagsT] BY DEF TypeOK
<1>th. th \in [Threads -> ThreadT] BY DEF TypeOK, ThreadsOK
<1>1. /\ UNCHANGED <<stage, lists, hist, mutex, sock>>
      /\ \A d \in Conns \ {c} : flags'[d] = flags[d]
  BY <1>types DEF TickClient, TickRead, handle_update, set_close, objVars
<1>2. PICK y \in TaskT : y.c = c /\ fun_list' \in {fun_list, Append(fun_list, y)}
  BY DEF TickClient, TickRead, handle_update, mainVars, TaskT, TaskOps
<1>3. task_list' = task_list BY DEF TickClient, TickRead, handle_update
<1>4. task_list \in Seq(TaskT) /\ fun_list \in Seq(TaskT) BY DEF TypeOK, MainOK
<1>5. task_list \o Append(fun_list, y) = Append(task_list \o fun_list, y) BY <1>4, JoinAppend
<1>6. PoolQueue' \in {PoolQueue, Append(PoolQueue, y)} BY <1>2, <1>3, <1>5 DEF PoolQueue
<1>7. ASSUME NEW d \in Conns \ {c}
      PROVE  InSeq(UnpackOf(d), PoolQueue') <=> InSeq(UnpackOf(d), PoolQueue)
  <2>1. UnpackOf(d) # y BY <1>2 DEF UnpackOf
  <2>2. PoolQueue \in Seq(TaskT) BY QueueTypes
  <2>3. InSeq(UnpackOf(d), Append(PoolQueue, y)) <=> InSeq(UnpackOf(d), PoolQueue)
    BY <2>1, <2>2, InAppend
  <2>4. CASE PoolQueue' = PoolQueue BY <2>4
  <2>5. CASE PoolQueue' = Append(PoolQueue, y) BY <2>3, <2>5
  <2> QED BY <1>6, <2>4, <2>5
<1>8. /\ \A s \in Threads \ {Main} : th'[s] = th[s]
      /\ th'[Main].c \in {c, NoConn} /\ th[Main].c \in {c, NoConn}
  <2>1. CASE TickClient(c)
    <3>1. th[Main].c = NoConn BY <2>1 DEF TickClient, ReuseInv, MainInside
    <3> QED BY <2>1, <3>1, <1>th, Kinds DEF TickClient, ThreadT
  <2>2. CASE TickRead \/ handle_update
    <3>1. c = th[Main].c
      <4>1. CASE TickClient(c)
        <5>1. th[Main].pc = "scan" BY <4>1 DEF TickClient
        <5> QED BY <2>2, <5>1 DEF TickRead, handle_update
      <4> QED BY <4>1
    <3> QED BY <2>2, <3>1, <1>th, GotoAt, Kinds DEF TickRead, handle_update
  <2> QED BY <2>1, <2>2
<1>9. NoConn \notin Conns BY CoreAssumption
<1> QED BY <1>1, <1>7, <1>8, <1>9 DEF Elsewhere, Aside

LEMMA TakeElse ==
  ASSUME TypeOK, NEW w \in Workers, RequireTask(w)
  PROVE  \E x \in TaskT :
           /\ PoolQueue # <<>> /\ x = Head(PoolQueue) /\ PoolQueue' = Tail(PoolQueue)
           /\ th[w].pc = "idle" /\ th'[w].pc = x.op /\ th'[w].c = x.c
           /\ \A s \in Threads \ {w} : th'[s] = th[s]
           /\ UNCHANGED <<stage, flags, lists, hist, mutex, sock>>
           /\ Elsewhere(x.c)
<1>th. th \in [Threads -> ThreadT] BY DEF TypeOK, ThreadsOK
<1>1. PICK x \in TaskT : /\ x = Head(PoolQueue) /\ PoolQueue # <<>>
                         /\ PoolQueue' = Tail(PoolQueue) /\ x = Head(task_list)
  <2>1. task_list \in Seq(TaskT) /\ fun_list \in Seq(TaskT) /\ task_list # <<>>
    BY DEF RequireTask, TypeOK, MainOK
  <2>2. Head(task_list) \in TaskT BY <2>1, TailAt
  <2> QED BY <2>1, <2>2, JoinTail DEF RequireTask, PoolQueue, mainVars
<1>2. /\ UNCHANGED <<stage, flags, lists, hist, mutex, sock>> /\ th[w].pc = "idle"
      /\ th'[w].pc = x.op /\ th'[w].c = x.c
      /\ \A s \in Threads \ {w} : th'[s] = th[s]
  BY <1>th, <1>1, Kinds DEF RequireTask, ThreadT, objVars
<1>3. PoolQueue \in Seq(TaskT) BY QueueTypes
<1>4. ASSUME NEW d \in Conns \ {x.c}
      PROVE  InSeq(UnpackOf(d), PoolQueue') <=> InSeq(UnpackOf(d), PoolQueue)
  <2>1. UnpackOf(d) # x BY DEF UnpackOf
  <2> QED BY <1>1, <1>3, <2>1, InTail
<1>5. Elsewhere(x.c) BY <1>2, <1>4 DEF Elsewhere, Aside
<1> QED BY <1>1, <1>2, <1>5

LEMMA RemoveElse ==
  ASSUME TypeOK, ReuseInv, WriteInv, DoRemoveClient
  PROVE  /\ UNCHANGED <<hist, mutex, sock, th>> /\ PoolQueue' = PoolQueue
         /\ \/ UNCHANGED <<stage, flags, lists>>
            \/ \E c \in Conns : /\ Live(c) /\ stage'[c] = "dead" /\ flags'[c] = NoFlags
                                /\ lists'[c] = NoLists /\ Elsewhere(c)
<1>1. UNCHANGED <<hist, mutex, sock, th>> /\ PoolQueue' = PoolQueue
  BY DEF DoRemoveClient, PoolQueue
<1>2. \A f \in Fds : client_map[f] # NoConn => client_map[f] \in Conns /\ Live(client_map[f])
  BY DEF WriteInv, MapNamesLive, TypeOK, MapOK
<1>3. PICK f \in Fds \cup {0} :
        \/ UNCHANGED <<stage, flags, lists>>
        \/ /\ f \in Fds /\ client_map[f] # NoConn
           /\ stage' = [stage EXCEPT ![client_map[f]] = "dead"]
           /\ flags' = [flags EXCEPT ![client_map[f]] = NoFlags]
           /\ lists' = [lists EXCEPT ![client_map[f]] = NoLists]
  BY CoreAssumption DEF DoRemoveClient, TypeOK, MainOK
<1>4. ASSUME ~UNCHANGED <<stage, flags, lists>>
      PROVE  \E c \in Conns : /\ Live(c) /\ stage'[c] = "dead" /\ flags'[c] = NoFlags
                              /\ lists'[c] = NoLists /\ Elsewhere(c)
  <2>1. PICK c \in Conns : c = client_map[f] /\ Live(c) BY <1>2, <1>3, <1>4
  <2>2. /\ stage'[c] = "dead" /\ flags'[c] = NoFlags /\ lists'[c] = NoLists
        /\ \A d \in Conns \ {c} :
             stage'[d] = stage[d] /\ flags'[d] = flags[d] /\ lists'[d] = lists[d]
    BY <1>3, <1>4, <2>1 DEF TypeOK, ObjOK
  <2>3. Elsewhere(c) BY <1>1, <2>2 DEF Elsewhere, Aside
  <2> QED BY <2>1, <2>2, <2>3
<1> QED BY <1>1, <1>4

(* A thread that has a connection in hand changes no other.                 *)
Visit(t, c) ==
  /\ OnlyThread(t, c) /\ stage' = stage /\ PoolQueue' = PoolQueue
  /\ Elsewhere(c)

LEMMA VisitIs ==
  ASSUME NEW t \in Threads, NEW c \in Conns, OnlyThread(t, c), stage' = stage,
         UNCHANGED mainVars, UNCHANGED task_list,
         \A d \in Conns \ {c} :
           /\ flags'[d] = flags[d] /\ lists'[d] = lists[d] /\ hist'[d] = hist[d]
           /\ sock'[d] = sock[d] /\ mutex'[d].unpack = mutex[d].unpack
  PROVE  Visit(t, c)
<1>1. PoolQueue' = PoolQueue BY DEF PoolQueue, mainVars
<1>2. \A d \in Conns \ {c} : Aside(d) BY <1>1, ThreadsAside DEF Aside
<1> QED BY <1>1, <1>2 DEF Visit, Elsewhere

LEMMA EntryVisits ==
  ASSUME TypeOK, NEW w \in Workers, NEW c \in Conns, c = th[w].c,
         \/ handle_unpack(w)
         \/ UnpackNothing(w) \/ UnpackSplice(w) \/ UnpackPartial(w)
  PROVE  Visit(w, c)
<1>types. /\ flags \in [Conns -> FlagsT] /\ lists \in [Conns -> ListsT]
          /\ hist \in [Conns -> HistT] /\ mutex \in [Conns -> MutexT]
  BY DEF TypeOK
<1>th. th \in [Threads -> ThreadT] /\ w \in Threads BY Kinds DEF TypeOK, ThreadsOK
<1>1. OnlyThread(w, c)
  <2>1. Live(c) /\ ((\E p : Goto(w, p)) \/ Return(w))
    BY DEF handle_unpack, UnpackNothing, UnpackSplice, UnpackPartial, At, Live
  <2> QED BY <2>1, <1>th, GotoAt, ReturnAt DEF OnlyThread
<1>2. stage' = stage /\ UNCHANGED mainVars /\ UNCHANGED task_list /\ sock' = sock
  BY DEF handle_unpack, UnpackNothing, UnpackSplice, UnpackPartial, objVars
<1>3. \A d \in Conns \ {c} :
         /\ flags'[d] = flags[d] /\ lists'[d] = lists[d] /\ hist'[d] = hist[d]
         /\ mutex'[d].unpack = mutex[d].unpack
  BY <1>types DEF handle_unpack, UnpackNothing, UnpackSplice, UnpackPartial
<1> QED BY <1>1, <1>2, <1>3, <1>th, VisitIs

LEMMA FrameVisits ==
  ASSUME TypeOK, NEW w \in Workers, NEW c \in Conns, c = th[w].c, FrameStirs(w)
  PROVE  Visit(w, c)
<1>types. /\ flags \in [Conns -> FlagsT] /\ lists \in [Conns -> ListsT]
          /\ hist \in [Conns -> HistT] /\ mutex \in [Conns -> MutexT]
  BY DEF TypeOK
<1>th. th \in [Threads -> ThreadT] /\ w \in Threads BY Kinds DEF TypeOK, ThreadsOK
<1>1. OnlyThread(w, c)
  <2>1. Live(c) /\ ((\E p : Goto(w, p)) \/ Return(w) \/ th' = th)
    BY DEF FrameStirs, UnpackFrame, CallbackStart, CallbackCloses, CallbackEnd, UnpackBad,
           UnpackBadClose, At, Live
  <2> QED BY <2>1, <1>th, GotoAt, ReturnAt DEF OnlyThread
<1>2. stage' = stage /\ UNCHANGED mainVars /\ UNCHANGED task_list /\ sock' = sock
  BY DEF FrameStirs, UnpackFrame, CallbackStart, CallbackCloses, CallbackEnd, UnpackBad,
         UnpackBadClose, objVars
<1>3. \A d \in Conns \ {c} :
         /\ flags'[d] = flags[d] /\ lists'[d] = lists[d] /\ hist'[d] = hist[d]
         /\ mutex'[d].unpack = mutex[d].unpack
  <2>1. ASSUME NEW i \in 1 .. Len(Script), UnpackFrame(w, i)
        PROVE  UNCHANGED <<flags, mutex>> /\ \A d \in Conns \ {c} :
                 lists'[d] = lists[d] /\ hist'[d] = hist[d]
    BY <2>1, <1>types DEF UnpackFrame
  <2>2. CASE UnpackBad(w)
    <3>1. UNCHANGED <<flags, mutex>> /\ \A d \in Conns \ {c} : lists'[d] = lists[d]
      BY <2>2, <1>types DEF UnpackBad
    <3>2. PICK x, y : hist' = [hist EXCEPT ![c].cleared = TRUE] \/
                      hist' = [hist EXCEPT ![c].parsed = x, ![c].cleared = y]
      BY <2>2 DEF UnpackBad
    <3> QED BY <3>1, <3>2, <1>types
  <2>3. CASE CallbackStart(w) \/ CallbackCloses(w) \/ CallbackEnd(w) \/ UnpackBadClose(w)
    BY <2>3, <1>types DEF CallbackStart, CallbackCloses, CallbackEnd, UnpackBadClose, MutexT
  <2> QED BY <2>1, <2>2, <2>3 DEF FrameStirs
<1> QED BY <1>1, <1>2, <1>3, <1>th, VisitIs

LEMMA WriterVisits ==
  ASSUME TypeOK, NEW t \in Writers, NEW c \in Conns, c = th[t].c, WriterStirs(t)
  PROVE  Visit(t, c)
<1>types. /\ flags \in [Conns -> FlagsT] /\ lists \in [Conns -> ListsT]
          /\ hist \in [Conns -> HistT] /\ mutex \in [Conns -> MutexT]
  BY DEF TypeOK
<1>th. th \in [Threads -> ThreadT] /\ t \in Threads
  BY Kinds DEF TypeOK, ThreadsOK, Writers
<1>1. OnlyThread(t, c)
  <2>1. Live(c) /\ ((\E p : Goto(t, p)) \/ Return(t))
    BY DEF WriterStirs, WriteNothing, WriteError, WriteFail, WritePop, WriteUnlock, At, Live
  <2> QED BY <2>1, <1>th, GotoAt, ReturnAt DEF OnlyThread
<1>2. stage' = stage /\ UNCHANGED mainVars /\ UNCHANGED task_list /\ UNCHANGED <<sock, hist>>
  BY DEF WriterStirs, WriteNothing, WriteError, WriteFail, WritePop, objVars
<1>3. \A d \in Conns \ {c} :
         /\ flags'[d] = flags[d] /\ lists'[d] = lists[d]
         /\ mutex'[d].unpack = mutex[d].unpack
  BY <1>types DEF WriterStirs, WriteNothing, WriteError, WriteFail, WritePop, WriteUnlock, MutexT
<1> QED BY <1>1, <1>2, <1>3, <1>th, VisitIs

LEMMA LoopVisits ==
  ASSUME TypeOK, NEW l \in Loops, NEW c \in Conns, c = th[l].c, LoopStirs(l)
  PROVE  Visit(l, c)
<1>types. /\ flags \in [Conns -> FlagsT] /\ lists \in [Conns -> ListsT]
          /\ sock \in [Conns -> SockT]
  BY DEF TypeOK
<1>th. th \in [Threads -> ThreadT] /\ l \in Threads BY Kinds DEF TypeOK, ThreadsOK
<1>1. OnlyThread(l, c)
  <2>1. Live(c) BY DEF LoopStirs, read_data, ReadEnded, PushRecv, At, Live
  <2>2. CASE read_data(l)
    BY <2>1, <2>2, <1>th DEF read_data, OnlyThread, ThreadT
  <2>3. CASE ReadEnded(l) BY <2>1, <2>3, <1>th, GotoAt DEF ReadEnded, OnlyThread
  <2>4. CASE PushRecv(l)
    BY <2>1, <2>4, <1>th DEF PushRecv, OnlyThread, Home, HomePc
  <2> QED BY <2>2, <2>3, <2>4 DEF LoopStirs
<1>2. /\ stage' = stage /\ UNCHANGED mainVars /\ UNCHANGED task_list
      /\ UNCHANGED <<hist, mutex>>
  BY DEF LoopStirs, read_data, ReadEnded, PushRecv, objVars
<1>3. \A d \in Conns \ {c} :
         flags'[d] = flags[d] /\ lists'[d] = lists[d] /\ sock'[d] = sock[d]
  BY <1>types DEF LoopStirs, read_data, ReadEnded, PushRecv
<1> QED BY <1>1, <1>2, <1>3, <1>th, VisitIs

LEMMA UserVisits ==
  ASSUME TypeOK, NEW u \in Users, NEW c \in Conns, c = th[u].c, close_read(u)
  PROVE  Visit(u, c)
<1>types. flags \in [Conns -> FlagsT] BY DEF TypeOK
<1>th. th \in [Threads -> ThreadT] /\ u \in Threads BY Kinds DEF TypeOK, ThreadsOK
<1>1. OnlyThread(u, c)
  BY <1>th DEF close_read, OnlyThread, ThreadT, At, Live
<1>2. /\ stage' = stage /\ UNCHANGED mainVars /\ UNCHANGED task_list
      /\ UNCHANGED <<hist, mutex, sock, lists>>
  BY DEF close_read, objVars
<1>3. \A d \in Conns \ {c} : flags'[d] = flags[d] BY <1>types DEF close_read
<1> QED BY <1>1, <1>2, <1>3, <1>th, VisitIs

-----------------------------------------------------------------------------
(* What has come in is not forgotten *)

NextUp(c) == "NEXT" \in flags[c].read
Parsing(w, c) == th[w].c = c /\ th[w].pc \in {"parse", "finish", "callback"}
Ending(t, c) == th[t].c = c /\ th[t].pc \in {"set_update", "fail"}

(* FLAG_NEXT is up while a list holds something, or a worker will see to it *)
InputOK(c) ==
  /\ lists[c].recv # <<>> => NextUp(c)
  /\ lists[c].unpack # <<>> => NextUp(c) \/ \E w \in Workers : Parsing(w, c)

(* ... and after close_write somebody will get to force_close.              *)
EndSeen(c) ==
  \/ {"CLOSE", "NEXT"} \cap flags[c].read # {}
  \/ Scheduled(c)
  \/ \E w \in Workers : Handling(w, c)
  \/ \E t \in Writers : Ending(t, c)
CloseSeen(c) == Live(c) /\ ~flags[c].closed /\ flags[c].shut = {"NOWRITE"} => EndSeen(c)
FlowOK(c) == InputOK(c) /\ CloseSeen(c)
FlowInv == \A c \in Conns : FlowOK(c)

(* Whatever keeps FLAG_NEXT, FLAG_CLOSE and those at work keeps FlowOK.     *)
FlowGrows(d) ==
  /\ lists'[d].recv = lists[d].recv /\ lists'[d].unpack = lists[d].unpack
  /\ flags[d].read \cap {"CLOSE", "NEXT"} \subseteq flags'[d].read
  /\ Live(d)' => Live(d) /\ (flags[d].closed => flags'[d].closed)
  /\ flags'[d].shut = {"NOWRITE"} => flags[d].shut = {"NOWRITE"}
  /\ Scheduled(d) => Scheduled(d)'
  /\ \A w \in Workers : /\ Parsing(w, d) => Parsing(w, d)'
                        /\ Handling(w, d) => Handling(w, d)'
  /\ \A t \in Writers : Ending(t, d) => Ending(t, d)'

LEMMA FlowStays ==
  ASSUME NEW d \in Conns, FlowOK(d), FlowGrows(d) PROVE FlowOK(d)'
<1>1. InputOK(d)' BY DEF FlowOK, InputOK, FlowGrows, NextUp
<1>2. EndSeen(d) => EndSeen(d)' BY DEF FlowGrows, EndSeen
<1>3. CloseSeen(d)' BY <1>2 DEF FlowOK, CloseSeen, FlowGrows
<1> QED BY <1>1, <1>3 DEF FlowOK

LEMMA AsideFlow ==
  ASSUME NEW d \in Conns, FlowOK(d), Aside(d) PROVE FlowOK(d)'
<1>1. \A t \in Workers \cup Loops : t \in Threads BY DEF Threads
<1>2. \A w \in Workers : /\ Parsing(w, d) => Parsing(w, d)'
                         /\ Handling(w, d) => Handling(w, d)'
                         /\ BeforeSplice(w, d) => BeforeSplice(w, d)'
  BY <1>1 DEF Aside, Parsing, Handling, Inner, BeforeSplice
<1>3. \A t \in Writers : Ending(t, d) => Ending(t, d)'
  BY <1>1 DEF Aside, Ending, Writers
<1>4. Scheduled(d) => Scheduled(d)' BY <1>2 DEF Aside, Scheduled
<1>5. FlowGrows(d) BY <1>2, <1>3, <1>4 DEF Aside, FlowGrows, Live
<1> QED BY <1>5, FlowStays

LEMMA ElseFlow ==
  ASSUME FlowInv, NEW c \in Conns, Elsewhere(c), FlowOK(c)' PROVE FlowInv'
BY AsideFlow DEF FlowInv, Elsewhere

LEMMA StillFlow ==
  ASSUME TypeOK, ReuseInv, FlowInv, InputStill PROVE FlowInv'
<1> SUFFICES ASSUME NEW d \in Conns PROVE FlowGrows(d)
  BY FlowStays DEF FlowInv
<1>1. \A w \in Workers : SameStand(w, d) BY InputTasks, StrideStands DEF TaskCalm, WorkersStride
<1>2. InSeq(UnpackOf(d), PoolQueue') <=> InSeq(UnpackOf(d), PoolQueue)
  BY OtherSame DEF InputStill, SameTask
<1>3. Scheduled(d) => Scheduled(d)' BY <1>1, <1>2 DEF Scheduled, SameStand
<1>4. \A w \in Workers : Parsing(w, d) => Parsing(w, d)'
  BY DEF InputStill, QuietThreads, Parsing, Inner
<1>5. ASSUME NEW t \in Writers, Ending(t, d) PROVE Ending(t, d)'
  <2>1. CASE t \in Loops BY <1>5, <2>1 DEF InputStill, QuietThreads, Ending
  <2>2. CASE t \in Workers
    <3>1. th[t].pc \in WorkerPcs BY <2>2, Kinds DEF TypeOK, ThreadsOK, LocalOK
    <3>2. th[t].pc # "set_update" BY <3>1 DEF WorkerPcs, TaskOps, WritePcs
    <3> QED BY <1>5, <2>2, <3>2 DEF InputStill, QuietThreads, Ending
  <2> QED BY <2>1, <2>2 DEF Writers
<1>6. \A w \in Workers : Handling(w, d) => Handling(w, d)' BY <1>1 DEF SameStand
<1> QED BY <1>3, <1>4, <1>5, <1>6
        DEF FlowGrows, InputStill, SameFlags, SameInput, Live

(* The peer, the kernel and main_thread_ take nothing away.                 *)
LEMMA PeerFlow ==
  ASSUME TypeOK, TaskInv, FlowInv, NEW c \in Conns,
         \/ PeerSend(c) \/ \E how \in PeerMayEnd : PeerEnd(c, how)
         \/ \E f \in Fds : Accept(c, f)
  PROVE  FlowInv'
<1>1. Elsewhere(c) /\ th' = th /\ PoolQueue' = PoolQueue BY PeerElse
<1>2. UNCHANGED <<flags, lists>> /\ (Live(c)' => Live(c))
  BY DEF PeerSend, PeerEnd, Accept, Live, TypeOK, ObjOK, objVars
<1>3. FlowGrows(c)
  BY <1>1, <1>2 DEF FlowGrows, Scheduled, BeforeSplice, Parsing, Handling, Ending
<1>4. FlowOK(c)' BY <1>3, FlowStays DEF FlowInv
<1> QED BY <1>1, <1>4, ElseFlow

LEMMA AddFlow ==
  ASSUME TypeOK, WriteInv, TaskInv, FlowInv, NEW c \in Conns, NEW l \in Loops, DoAddClient(c, l)
  PROVE  FlowInv'
<1>1. Elsewhere(c) /\ th' = th BY PeerElse
<1>2. stage[c] = "adding"
  <2>1. InSeq(AddOf(c), main_funcs) BY QueueTypes, InTail DEF DoAddClient, AddOf
  <2> QED BY <2>1 DEF WriteInv, AddedOnce, InSeq, AddOf
<1>3. flags[c] = NoFlags BY <1>2 DEF TaskInv, Fresh, Known
<1>4. UNCHANGED <<flags, lists>> BY DEF DoAddClient
<1>5. InputOK(c)' BY <1>1, <1>4 DEF FlowInv, FlowOK, InputOK, NextUp, Parsing
<1>6. CloseSeen(c)' BY <1>3, <1>4 DEF CloseSeen, NoFlags
<1>7. FlowOK(c)' BY <1>5, <1>6 DEF FlowOK
<1> QED BY <1>1, <1>7, ElseFlow

LEMMA RemoveFlow ==
  ASSUME TypeOK, WriteInv, ReuseInv, FlowInv, DoRemoveClient PROVE FlowInv'
<1>1. UNCHANGED <<hist, mutex, sock, th>> /\ PoolQueue' = PoolQueue BY RemoveElse
<1>2. CASE UNCHANGED <<stage, flags, lists>>
  <2>1. \A d \in Conns : FlowGrows(d)
    BY <1>1, <1>2 DEF FlowGrows, Scheduled, BeforeSplice, Parsing, Handling, Ending, Live
  <2> QED BY <2>1, FlowStays DEF FlowInv
<1>3. ASSUME NEW c \in Conns, stage'[c] = "dead", lists'[c] = NoLists, Elsewhere(c)
      PROVE  FlowInv'
  <2>1. FlowOK(c)' BY <1>3 DEF FlowOK, InputOK, CloseSeen, NoLists, Live
  <2> QED BY <1>3, <2>1, ElseFlow
<1> QED BY <1>2, <1>3, RemoveElse

LEMMA MainFlow ==
  ASSUME TypeOK, ReuseInv, FlowInv, NEW c \in Conns,
         TickClient(c) \/ (c = th[Main].c /\ (TickRead \/ handle_update))
  PROVE  FlowInv'
<1>1. Elsewhere(c) /\ \A s \in Threads \ {Main} : th'[s] = th[s] BY MainElse
<1>2. \A t \in Workers \cup Loops : th'[t] = th[t] BY <1>1, Kinds
<1>3. flags \in [Conns -> FlagsT] BY DEF TypeOK
<1>4. /\ UNCHANGED <<stage, lists>> /\ flags[c].read \subseteq flags'[c].read
      /\ flags'[c].shut = flags[c].shut /\ (flags[c].closed => flags'[c].closed)
  BY <1>3 DEF TickClient, TickRead, handle_update, set_close, FlagsT, objVars
<1>5. Scheduled(c) => Scheduled(c)'
  <2>1. task_list' = task_list /\ \E y \in TaskT : fun_list' \in {fun_list, Append(fun_list, y)}
    BY DEF TickClient, TickRead, handle_update, mainVars, TaskT, TaskOps
  <2>2. task_list \in Seq(TaskT) /\ fun_list \in Seq(TaskT) BY DEF TypeOK, MainOK
  <2>3. ASSUME InSeq(UnpackOf(c), PoolQueue) PROVE InSeq(UnpackOf(c), PoolQueue')
    <3>1. PICK y \in TaskT : fun_list' \in {fun_list, Append(fun_list, y)} BY <2>1
    <3>2. InSeq(UnpackOf(c), task_list) \/ InSeq(UnpackOf(c), fun_list)
      BY <2>2, <2>3, InJoin DEF PoolQueue
    <3>3. InSeq(UnpackOf(c), fun_list) => InSeq(UnpackOf(c), fun_list')
      <4>1. InSeq(UnpackOf(c), fun_list) => InSeq(UnpackOf(c), Append(fun_list, y))
        BY <2>2, InAppend
      <4> QED BY <3>1, <4>1
    <3>4. fun_list' \in Seq(TaskT) BY <2>2, <3>1
    <3> QED BY <2>1, <2>2, <3>2, <3>3, <3>4, InJoin DEF PoolQueue
  <2> QED BY <1>2, <2>3 DEF Scheduled, BeforeSplice
<1>6. FlowGrows(c)
  BY <1>2, <1>4, <1>5 DEF FlowGrows, Parsing, Handling, Ending, Writers, Live
<1>7. FlowOK(c)' BY <1>6, FlowStays DEF FlowInv
<1> QED BY <1>1, <1>7, ElseFlow

LEMMA TakeFlow ==
  ASSUME TypeOK, FlowInv, NEW w \in Workers, RequireTask(w) PROVE FlowInv'
<1>1. PICK x \in TaskT :
        /\ PoolQueue # <<>> /\ x = Head(PoolQueue) /\ PoolQueue' = Tail(PoolQueue)
        /\ th[w].pc = "idle" /\ th'[w].pc = x.op /\ th'[w].c = x.c
        /\ \A s \in Threads \ {w} : th'[s] = th[s]
        /\ UNCHANGED <<stage, flags, lists, hist, mutex, sock>>
        /\ Elsewhere(x.c)
  BY TakeElse
<1>c. PICK c \in Conns : c = x.c BY DEF TaskT
<1>2. \A t \in Workers \cup Loops : t \in Threads BY DEF Threads
<1>3. \A v \in Workers : /\ Parsing(v, c) => Parsing(v, c)'
                         /\ Handling(v, c) => Handling(v, c)'
                         /\ BeforeSplice(v, c) => BeforeSplice(v, c)'
  BY <1>1, <1>2 DEF Parsing, Handling, Inner, BeforeSplice
<1>4. \A t \in Writers : Ending(t, c) => Ending(t, c)'
  BY <1>1, <1>2 DEF Ending, Writers
<1>5. Scheduled(c) => Scheduled(c)'
  <2>1. ASSUME InSeq(UnpackOf(c), PoolQueue) PROVE Scheduled(c)'
    <3>1. UnpackOf(c) = x \/ InSeq(UnpackOf(c), PoolQueue')
      BY <1>1, <2>1, QueueTypes, InTail
    <3>2. UnpackOf(c) = x => BeforeSplice(w, c)'
      BY <1>1 DEF UnpackOf, BeforeSplice
    <3> QED BY <3>1, <3>2 DEF Scheduled
  <2> QED BY <1>3, <2>1 DEF Scheduled
<1>6. FlowGrows(c) BY <1>1, <1>3, <1>4, <1>5 DEF FlowGrows, Live
<1>7. FlowOK(c)' BY <1>6, FlowStays DEF FlowInv
<1> QED BY <1>1, <1>c, <1>7, ElseFlow

(* A worker goes into do_handle_unpack and leaves it before the first frame *)
LEMMA EntryFlow ==
  ASSUME TypeOK, TaskInv, FlowInv, NEW w \in Workers,
         \/ handle_unpack(w)
         \/ UnpackNothing(w) \/ UnpackSplice(w) \/ UnpackPartial(w)
  PROVE  FlowInv'
<1>types. /\ flags \in [Conns -> FlagsT] /\ lists \in [Conns -> ListsT] BY DEF TypeOK
<1>c. PICK c \in Conns : c = th[w].c
  BY DEF handle_unpack, UnpackNothing, UnpackSplice, UnpackPartial, At
<1>v. Visit(w, c) BY <1>c, EntryVisits
<1>t. \A t \in Writers \ {w} : th'[t] = th[t]
  BY <1>v DEF Visit, OnlyThread, Writers, Threads
<1>p. /\ stage' = stage /\ PoolQueue' = PoolQueue /\ Elsewhere(c)
      /\ \A v \in Workers \ {w} : th'[v] = th[v]
  BY <1>v, <1>t DEF Visit, Writers
<1>th. th \in [Threads -> ThreadT] /\ w \in Threads BY Kinds DEF TypeOK, ThreadsOK
<1>1. CASE handle_unpack(w)
  <2>0. th[w].pc = "unpack" /\ flags' = flags /\ lists' = lists
    BY <1>1 DEF handle_unpack, At
  <2>1. CASE flags[c].closed
    <3>1. CloseSeen(c)' BY <2>0, <2>1 DEF CloseSeen
    <3>2. \A v \in Workers : Parsing(v, c) => Parsing(v, c)' BY <2>0, <1>p DEF Parsing
    <3>3. InputOK(c)' BY <2>0, <3>2 DEF FlowInv, FlowOK, InputOK, NextUp
    <3> QED BY <3>1, <3>3, <1>p, ElseFlow DEF FlowOK
  <2>2. CASE ~flags[c].closed
    <3>1. th'[w].pc = "splice" /\ th'[w].c = c
      BY <1>1, <1>c, <1>th, <2>2, GotoAt DEF handle_unpack
    <3>2. \A v \in Workers : /\ Parsing(v, c) => Parsing(v, c)'
                             /\ Handling(v, c) => Handling(v, c)'
                             /\ BeforeSplice(v, c) => BeforeSplice(v, c)'
      BY <2>0, <3>1, <1>p DEF Parsing, Handling, BeforeSplice, Inner
    <3>3. \A t \in Writers : Ending(t, c) => Ending(t, c)' BY <2>0, <1>t DEF Ending
    <3>4. Scheduled(c) => Scheduled(c)' BY <3>2, <1>p DEF Scheduled
    <3>5. FlowGrows(c) BY <2>0, <3>2, <3>3, <3>4, <1>p DEF FlowGrows, Live
    <3>6. FlowOK(c)' BY <3>5, FlowStays DEF FlowInv
    <3> QED BY <3>6, <1>p, ElseFlow
  <2> QED BY <2>1, <2>2
<1>2. CASE UnpackNothing(w)
  <2>1. /\ lists'[c].recv = <<>> /\ lists'[c].unpack = <<>>
        /\ flags'[c].shut = flags[c].shut
        /\ ForceIfReady(c) \subseteq flags'[c].read
    BY <1>2, <1>c, <1>types DEF UnpackNothing, FlagsT
  <2>2. flags[c].shut = {"NOWRITE"} => "CLOSE" \in flags'[c].read
    BY <2>1 DEF ForceIfReady, ready_close
  <2>3. FlowOK(c)' BY <2>1, <2>2 DEF FlowOK, InputOK, CloseSeen, EndSeen
  <2> QED BY <2>3, <1>p, ElseFlow
<1>3. CASE UnpackSplice(w)
  <2>1. th'[w].pc = "parse" /\ th'[w].c = c
    BY <1>3, <1>c, <1>th, GotoAt DEF UnpackSplice
  <2>2. lists'[c].recv = <<>> BY <1>3, <1>c, <1>types DEF UnpackSplice, ListsT
  <2>3. Parsing(w, c)' /\ Handling(w, c)' BY <2>1 DEF Parsing, Handling, Inner
  <2>4. FlowOK(c)' BY <2>2, <2>3 DEF FlowOK, InputOK, CloseSeen, EndSeen
  <2> QED BY <2>4, <1>p, ElseFlow
<1>4. CASE UnpackPartial(w)
  <2>1. /\ lists'[c].recv = lists[c].recv /\ lists'[c].unpack = <<>>
        /\ flags'[c].shut = flags[c].shut
        /\ ForceIfReady(c) \cup flags[c].read \subseteq flags'[c].read
    BY <1>4, <1>c, <1>types DEF UnpackPartial, FlagsT, ListsT
  <2>2. flags[c].shut = {"NOWRITE"} => "CLOSE" \in flags'[c].read
    BY <2>1 DEF ForceIfReady, ready_close
  <2>3. InputOK(c)' BY <2>1 DEF FlowInv, FlowOK, InputOK, NextUp
  <2>4. FlowOK(c)' BY <2>1, <2>2, <2>3 DEF FlowOK, CloseSeen, EndSeen
  <2> QED BY <2>4, <1>p, ElseFlow
<1> QED BY <1>1, <1>2, <1>3, <1>4

(* ... or at a frame, which ends in set_update or in force_close.           *)
LEMMA FrameFlow ==
  ASSUME TypeOK, TaskInv, FlowInv, NEW w \in Workers, FrameStirs(w)
  PROVE  FlowInv'
<1>types. /\ flags \in [Conns -> FlagsT] /\ lists \in [Conns -> ListsT] BY DEF TypeOK
<1>c. PICK c \in Conns : c = th[w].c
  BY DEF FrameStirs, UnpackFrame, CallbackStart, CallbackCloses, CallbackEnd, UnpackBad,
         UnpackBadClose, At
<1>v. Visit(w, c) BY <1>c, FrameVisits
<1>t. \A t \in Writers \ {w} : th'[t] = th[t]
  BY <1>v DEF Visit, OnlyThread, Writers, Threads
<1>p. /\ stage' = stage /\ PoolQueue' = PoolQueue /\ Elsewhere(c)
      /\ \A v \in Workers \ {w} : th'[v] = th[v]
  BY <1>v, <1>t DEF Visit, Writers
<1>th. th \in [Threads -> ThreadT] /\ w \in Threads BY Kinds DEF TypeOK, ThreadsOK
<1>1. ASSUME NEW i \in 1 .. Len(Script), UnpackFrame(w, i) PROVE FlowInv'
  <2>1. th'[w].pc = "finish" /\ th'[w].c = c /\ flags' = flags
    BY <1>1, <1>c, <1>th, GotoAt DEF UnpackFrame
  <2>2. lists'[c].recv = lists[c].recv BY <1>1, <1>c, <1>types DEF UnpackFrame, ListsT
  <2>3. Parsing(w, c)' /\ Handling(w, c)' BY <2>1 DEF Parsing, Handling, Inner
  <2>4. FlowOK(c)'
    BY <2>1, <2>2, <2>3 DEF FlowInv, FlowOK, InputOK, CloseSeen, EndSeen, NextUp
  <2> QED BY <2>4, <1>p, ElseFlow
<1>2. CASE CallbackStart(w)
  <2>1. th'[w].pc = "callback" /\ th'[w].c = c /\ flags' = flags /\ lists' = lists
    BY <1>2, <1>c, <1>th, GotoAt DEF CallbackStart
  <2>3. Parsing(w, c)' /\ Handling(w, c)' BY <2>1 DEF Parsing, Handling, Inner
  <2>4. FlowOK(c)'
    BY <2>1, <2>3 DEF FlowInv, FlowOK, InputOK, CloseSeen, EndSeen, NextUp
  <2> QED BY <2>4, <1>p, ElseFlow
<1>3. CASE CallbackCloses(w)
  <2>1. /\ th' = th /\ lists' = lists /\ "NOREAD" \in flags'[c].shut
        /\ flags'[c].read = flags[c].read
    BY <1>3, <1>c, <1>types DEF CallbackCloses, FlagsT
  <2>2. FlowOK(c)' BY <2>1 DEF FlowInv, FlowOK, InputOK, CloseSeen, NextUp, Parsing
  <2> QED BY <2>2, <1>p, ElseFlow
<1>4. CASE CallbackEnd(w)
  <2>1. NextUp(c)' BY <1>4, <1>c, <1>types DEF CallbackEnd, set_update, NextUp, FlagsT
  <2>2. FlowOK(c)' BY <2>1 DEF FlowOK, InputOK, CloseSeen, EndSeen, NextUp
  <2> QED BY <2>2, <1>p, ElseFlow
<1>5. CASE UnpackBad(w)
  <2>1. th'[w].pc = "bad" /\ th'[w].c = c /\ lists'[c] = NoLists
    BY <1>5, <1>c, <1>th, <1>types, GotoAt DEF UnpackBad
  <2>2. Handling(w, c)' BY <2>1 DEF Handling, Inner
  <2>3. FlowOK(c)' BY <2>1, <2>2 DEF FlowOK, InputOK, CloseSeen, EndSeen, NoLists
  <2> QED BY <2>3, <1>p, ElseFlow
<1>6. CASE UnpackBadClose(w)
  <2>1. /\ lists' = lists /\ "NOREAD" \in flags'[c].shut
        /\ flags[c].read \subseteq flags'[c].read /\ th[w].pc = "bad"
    BY <1>6, <1>c, <1>types DEF UnpackBadClose, At, FlagsT
  <2>2. \A v \in Workers : Parsing(v, c) => Parsing(v, c)' BY <2>1, <1>p DEF Parsing
  <2>3. FlowOK(c)' BY <2>1, <2>2 DEF FlowInv, FlowOK, InputOK, CloseSeen, NextUp
  <2> QED BY <2>3, <1>p, ElseFlow
<1> QED BY <1>1, <1>2, <1>3, <1>4, <1>5, <1>6 DEF FrameStirs

(* do_write_data sees the end of the connection, or causes it.              *)
LEMMA WriterFlow ==
  ASSUME TypeOK, FlowInv, NEW t \in Writers, WriterStirs(t) PROVE FlowInv'
<1>types. /\ flags \in [Conns -> FlagsT] /\ lists \in [Conns -> ListsT] BY DEF TypeOK
<1>c. PICK c \in Conns : c = th[t].c
  BY DEF WriterStirs, WriteNothing, WriteError, WriteFail, WritePop, At
<1>v. Visit(t, c) BY <1>c, WriterVisits
<1>t. \A s \in Writers \ {t} : th'[s] = th[s]
  BY <1>v DEF Visit, OnlyThread, Writers, Threads
<1>p. stage' = stage /\ PoolQueue' = PoolQueue /\ Elsewhere(c) BY <1>v DEF Visit
<1>th. th \in [Threads -> ThreadT] /\ t \in Threads
  BY Kinds DEF TypeOK, ThreadsOK, Writers
<1>0. /\ lists'[c].recv = lists[c].recv /\ lists'[c].unpack = lists[c].unpack
      /\ flags[c].read \subseteq flags'[c].read
      /\ th[t].pc \notin Inner \cup {"unpack"}
      /\ flags'[c].closed = flags[c].closed
  <2>1. CASE WriteNothing(t)
    BY <2>1, <1>c, <1>types DEF WriteNothing, At, FlagsT, Inner
  <2>2. CASE WriteError(t)
    BY <2>2, <1>c, <1>types DEF WriteError, At, FlagsT, Inner
  <2>3. CASE WriteFail(t)
    BY <2>3, <1>c, <1>types DEF WriteFail, set_update, At, FlagsT, Inner
  <2>4. CASE WritePop(t)
    BY <2>4, <1>c, <1>types DEF WritePop, At, ListsT, FlagsT, Inner
  <2> QED BY <2>1, <2>2, <2>3, <2>4 DEF WriterStirs
<1>1. \A v \in Workers : /\ Parsing(v, c) => Parsing(v, c)'
                         /\ Handling(v, c) => Handling(v, c)'
                         /\ BeforeSplice(v, c) => BeforeSplice(v, c)'
  BY <1>0, <1>t DEF Parsing, Handling, BeforeSplice, Inner, Writers
<1>2. Scheduled(c) => Scheduled(c)' BY <1>1, <1>p DEF Scheduled
<1>3. InputOK(c)' BY <1>0, <1>1 DEF FlowInv, FlowOK, InputOK, NextUp
<1>4. CASE WriteNothing(t) \/ WritePop(t)
  <2>1. flags'[c].shut = flags[c].shut
    BY <1>4, <1>c, <1>types DEF WriteNothing, WritePop, FlagsT
  <2>2. \A s \in Writers : Ending(s, c) => Ending(s, c)'
    BY <1>4, <1>t DEF WriteNothing, WritePop, At, Ending
  <2>3. FlowGrows(c) BY <1>0, <1>1, <1>2, <1>p, <2>1, <2>2 DEF FlowGrows, Live
  <2>4. FlowOK(c)' BY <2>3, FlowStays DEF FlowInv
  <2> QED BY <2>4, <1>p, ElseFlow
<1>5. CASE WriteError(t)
  <2>1. th'[t].pc = "fail" /\ th'[t].c = c BY <1>5, <1>c, <1>th, GotoAt DEF WriteError
  <2>2. FlowOK(c)' BY <1>3, <2>1 DEF FlowOK, CloseSeen, EndSeen, Ending
  <2> QED BY <2>2, <1>p, ElseFlow
<1>6. CASE WriteFail(t)
  <2>1. "NEXT" \in flags'[c].read
    BY <1>6, <1>c, <1>types DEF WriteFail, set_update, FlagsT
  <2>2. FlowOK(c)' BY <1>3, <2>1 DEF FlowOK, CloseSeen, EndSeen
  <2> QED BY <2>2, <1>p, ElseFlow
<1> QED BY <1>4, <1>5, <1>6 DEF WriterStirs

(* The loop reads: close_write first, then set_update.                      *)
LEMMA LoopFlow ==
  ASSUME TypeOK, FlowInv, NEW l \in Loops, LoopStirs(l) PROVE FlowInv'
<1>types. /\ flags \in [Conns -> FlagsT] /\ lists \in [Conns -> ListsT] BY DEF TypeOK
<1>c. PICK c \in Conns : c = th[l].c
  BY DEF LoopStirs, read_data, ReadEnded, PushRecv, At
<1>v. Visit(l, c) BY <1>c, LoopVisits
<1>t. \A s \in Writers \ {l} : th'[s] = th[s]
  BY <1>v DEF Visit, OnlyThread, Writers, Threads
<1>p. stage' = stage /\ PoolQueue' = PoolQueue /\ Elsewhere(c) BY <1>v DEF Visit
<1>th. th \in [Threads -> ThreadT] /\ l \in Threads /\ l \notin Workers
  BY Kinds DEF TypeOK, ThreadsOK
<1>1. \A v \in Workers : /\ Parsing(v, c) => Parsing(v, c)'
                         /\ Handling(v, c) => Handling(v, c)'
                         /\ BeforeSplice(v, c) => BeforeSplice(v, c)'
  BY <1>th, <1>t DEF Parsing, Handling, BeforeSplice, Writers
<1>2. Scheduled(c) => Scheduled(c)' BY <1>1, <1>p DEF Scheduled
<1>3. CASE read_data(l)
  <2>1. /\ lists' = lists /\ th'[l].pc \in {"set_update", "push_recv"} /\ th'[l].c = c
        /\ flags'[c].read = flags[c].read /\ flags'[c].closed = flags[c].closed
    BY <1>3, <1>c, <1>th, <1>types DEF read_data, ThreadT, FlagsT
  <2>2. InputOK(c)' BY <1>1, <2>1 DEF FlowInv, FlowOK, InputOK, NextUp
  <2>3. CASE sock[c].peer = "open"
    <3>1. flags'[c].shut = flags[c].shut BY <1>3, <1>c, <1>types, <2>3 DEF read_data, FlagsT
    <3>2. \A s \in Writers : Ending(s, c) => Ending(s, c)'
      BY <1>3, <1>t DEF read_data, At, Ending
    <3>3. FlowGrows(c) BY <1>1, <1>2, <1>p, <2>1, <3>1, <3>2 DEF FlowGrows, Live
    <3>4. FlowOK(c)' BY <3>3, FlowStays DEF FlowInv
    <3> QED BY <3>4, <1>p, ElseFlow
  <2>4. CASE sock[c].peer # "open"
    <3>1. th'[l].pc = "set_update" BY <1>3, <1>c, <1>th, <2>4 DEF read_data, ThreadT
    <3>2. FlowOK(c)' BY <2>1, <2>2, <3>1 DEF FlowOK, CloseSeen, EndSeen, Ending, Writers
    <3> QED BY <3>2, <1>p, ElseFlow
  <2> QED BY <2>3, <2>4
<1>4. CASE ReadEnded(l)
  <2>1. NextUp(c)' BY <1>4, <1>c, <1>types DEF ReadEnded, set_update, NextUp, FlagsT
  <2>2. FlowOK(c)' BY <2>1 DEF FlowOK, InputOK, CloseSeen, EndSeen, NextUp
  <2> QED BY <2>2, <1>p, ElseFlow
<1>5. CASE PushRecv(l)
  <2>1. CASE th[l].buf = <<>>
    <3>1. UNCHANGED <<lists, flags>> /\ th[l].pc = "push_recv" BY <1>5, <2>1 DEF PushRecv, At
    <3>2. \A s \in Writers : Ending(s, c) => Ending(s, c)' BY <3>1, <1>t DEF Ending
    <3>3. FlowGrows(c) BY <1>1, <1>2, <1>p, <3>1, <3>2 DEF FlowGrows, Live
    <3>4. FlowOK(c)' BY <3>3, FlowStays DEF FlowInv
    <3> QED BY <3>4, <1>p, ElseFlow
  <2>2. CASE th[l].buf # <<>>
    <3>1. NextUp(c)' BY <1>5, <1>c, <1>types, <2>2 DEF PushRecv, set_update, NextUp, FlagsT
    <3>2. FlowOK(c)' BY <3>1 DEF FlowOK, InputOK, CloseSeen, EndSeen, NextUp
    <3> QED BY <3>2, <1>p, ElseFlow
  <2> QED BY <2>1, <2>2
<1> QED BY <1>3, <1>4, <1>5 DEF LoopStirs

LEMMA UserFlow ==
  ASSUME TypeOK, FlowInv, NEW u \in Users, close_read(u) PROVE FlowInv'
<1>types. flags \in [Conns -> FlagsT] BY DEF TypeOK
<1>c. PICK c \in Conns : c = th[u].c BY DEF close_read, At
<1>v. Visit(u, c) BY <1>c, UserVisits
<1>1. \A w \in Workers : th'[w] = th[w] BY <1>v, Kinds DEF Visit, OnlyThread
<1>2. /\ lists' = lists /\ flags'[c].read = flags[c].read /\ "NOREAD" \in flags'[c].shut
  BY <1>c, <1>types DEF close_read, FlagsT
<1>3. FlowOK(c)' BY <1>1, <1>2 DEF FlowInv, FlowOK, InputOK, CloseSeen, NextUp, Parsing
<1> QED BY <1>3, <1>v, ElseFlow DEF Visit

LEMMA InitFlow == ASSUME Init PROVE FlowInv
BY DEF Init, FlowInv, FlowOK, InputOK, CloseSeen, NoLists, Live

LEMMA NextFlow ==
  ASSUME TypeOK, WriteInv, ReuseInv, TaskInv, FlowInv, [Next]_vars PROVE FlowInv'
<1>1. CASE InputStill BY <1>1, StillFlow
<1>2. CASE PeerStirs BY <1>2, PeerFlow DEF PeerStirs
<1>3. CASE MainStirs
  <2>1. CASE TickRead \/ handle_update
    <3>1. PICK c \in Conns : c = th[Main].c BY <2>1, MainIsLive DEF TickRead, handle_update
    <3> QED BY <2>1, <3>1, MainFlow
  <2> QED BY <1>3, <2>1, AddFlow, RemoveFlow, MainFlow DEF MainStirs
<1>4. ASSUME NEW w \in Workers, EntryStirs(w) PROVE FlowInv'
  BY <1>4, TakeFlow, EntryFlow DEF EntryStirs
<1>5. ASSUME NEW w \in Workers, FrameStirs(w) PROVE FlowInv' BY <1>5, FrameFlow
<1>6. ASSUME NEW t \in Writers, WriterStirs(t) PROVE FlowInv' BY <1>6, WriterFlow
<1>7. ASSUME NEW l \in Loops, LoopStirs(l) PROVE FlowInv' BY <1>7, LoopFlow
<1>8. ASSUME NEW u \in Users, close_read(u) PROVE FlowInv' BY <1>8, UserFlow
<1> QED BY <1>1, <1>2, <1>3, <1>4, <1>5, <1>6, <1>7, <1>8, StillOrStirs DEF Stirs

(* What is in recv_list_ or unpack_list_ is announced or in hand, and so is *)
(* the end of a connection: the invariant behind the next two.              *)
THEOREM FlowCorrect == Spec => []FlowInv
<1> QED BY TypeCorrect, WriteCorrect, ReuseCorrect, TasksCorrect, InitFlow, NextFlow, PTL DEF Spec

(* Input that has been read is never forgotten: FLAG_NEXT is up, or a       *)
(* worker will put it up when its callback returns (set_update).            *)
THEOREM InputNotLost == Spec => []NoLostInput
<1>1. FlowInv => NoLostInput
  BY DEF FlowInv, FlowOK, InputOK, NextUp, NoLostInput, Parsing, Unpacking, Inside
<1> QED BY <1>1, FlowCorrect, PTL

(* Nor is the end of a connection: after close_write, unless close_client   *)
(* intervenes, somebody is on the way to force_close.                       *)
THEOREM CloseNotLost == Spec => []NoLostClose
<1>1. TypeOK /\ TaskInv /\ FlowInv => NoLostClose
  <2> SUFFICES ASSUME TypeOK, TaskInv, FlowInv, NEW c \in Conns, Live(c), ~flags[c].closed,
                      flags[c].shut = {"NOWRITE"}
               PROVE  \/ {"CLOSE", "NEXT"} \cap flags[c].read # {}
                      \/ Pending(c) > 0 \/ Unpacking(c) # {}
                      \/ \E t \in Loops \cup Workers :
                           Inside(t, c) /\ th[t].pc \in {"set_update", "fail"}
    BY DEF NoLostClose
  <2>1. EndSeen(c) BY DEF FlowInv, FlowOK, CloseSeen
  <2>2. Pending(c) = (IF Scheduled(c) THEN 1 ELSE 0) BY PendingIs DEF TaskInv, TaskOK
  <2>3. ASSUME NEW w \in Workers, Handling(w, c) PROVE Scheduled(c) \/ Unpacking(c) # {}
    BY <2>3 DEF Handling, Scheduled, BeforeSplice, Unpacking, Inside, Inner
  <2>4. (\E t \in Writers : Ending(t, c)) =>
          \E t \in Loops \cup Workers : Inside(t, c) /\ th[t].pc \in {"set_update", "fail"}
    BY DEF Writers, Ending, Inside
  <2> QED BY <2>1, <2>2, <2>3, <2>4 DEF EndSeen
<1> QED BY <1>1, TypeCorrect, TasksCorrect, FlowCorrect, PTL

-----------------------------------------------------------------------------
(* What has come in stays in order *)

Reads(l, c) == Inside(l, c) /\ th[l].pc \in {"set_update", "push_recv"}
Held(c) == hist[c].parsed \o lists[c].unpack \o lists[c].recv

(* From message_callback_ back to the socket: all the peer has sent.        *)
InOK(c) ==
  stage[c] # "dead" /\ ~hist[c].cleared /\ sock[c].peer # "reset" =>
    Held(c) \o InHand(c) \o sock[c].inbox = SubSeq(Script, 1, sock[c].sent)
SentOK(c) == sock[c].sent <= Len(Script)
InInv == \A c \in Conns : SentOK(c) /\ InOK(c)

LEMMA OneReader ==
  ASSUME TypeOK, ReuseInv, NEW c \in Conns, NEW l \in Loops, NEW k \in Loops,
         th[l].c = c, th[k].c = c
  PROVE  k = l
<1>1. c # NoConn BY CoreAssumption
<1>2. Handled(l, c) /\ Handled(k, c) BY <1>1 DEF ReuseInv, LoopInside
<1> QED BY <1>1, <1>2 DEF Handled, ReuseInv, HandlersLive

LEMMA HandIs ==
  ASSUME NEW c, NEW l \in Loops, Reads(l, c), \A k \in Loops : Reads(k, c) => k = l
  PROVE  InHand(c) = th[l].buf
<1>1. (CHOOSE k \in Loops : Inside(k, c) /\ th[k].pc \in {"set_update", "push_recv"}) = l
  BY DEF Reads
<1>2. \E k \in Loops : Inside(k, c) /\ th[k].pc \in {"set_update", "push_recv"} BY DEF Reads
<1> QED BY <1>1, <1>2 DEF InHand

LEMMA HandBecomes ==
  ASSUME NEW c, NEW l \in Loops, Reads(l, c)', \A k \in Loops : Reads(k, c)' => k = l
  PROVE  InHand(c)' = th'[l].buf
<1>1. (CHOOSE k \in Loops : Inside(k, c)' /\ th'[k].pc \in {"set_update", "push_recv"}) = l
  BY DEF Reads
<1>2. \E k \in Loops : Inside(k, c)' /\ th'[k].pc \in {"set_update", "push_recv"} BY DEF Reads
<1> QED BY <1>1, <1>2 DEF InHand

LEMMA HandEmpty ==
  ASSUME NEW c
  PROVE  /\ (\A k \in Loops : ~Reads(k, c)) => InHand(c) = <<>>
         /\ (\A k \in Loops : ~Reads(k, c)') => InHand(c)' = <<>>
BY DEF Reads, InHand

LEMMA HandStays ==
  ASSUME TypeOK, ReuseInv, NEW c \in Conns,
         \A l \in Loops : Reads(l, c)' <=> Reads(l, c),
         \A l \in Loops : Reads(l, c) => th'[l].buf = th[l].buf
  PROVE  InHand(c)' = InHand(c)
<1>1. CASE \A k \in Loops : ~Reads(k, c) BY <1>1, HandEmpty
<1>2. ASSUME NEW l \in Loops, Reads(l, c) PROVE InHand(c)' = InHand(c)
  <2>1. \A k \in Loops : Reads(k, c) => k = l BY <1>2, OneReader DEF Reads, Inside
  <2>2. InHand(c) = th[l].buf BY <1>2, <2>1, HandIs
  <2>3. InHand(c)' = th'[l].buf BY <1>2, <2>1, HandBecomes
  <2> QED BY <1>2, <2>2, <2>3
<1> QED BY <1>1, <1>2

LEMMA Joins ==
  /\ \A a, b, c \in Seq(Segments) : a \o (b \o c) = (a \o b) \o c
  /\ \A p, u, r \in Seq(Segments) : (p \o (u \o r)) \o <<>> = (p \o u) \o r
  /\ \A q, b \in Seq(Segments), e \in Segments : q \o Append(b, e) = Append(q \o b, e)
<1>0. \A a, b, c \in Seq(Segments) : (a \o b) \o c = a \o (b \o c)
  BY ConcatAssociative
<1>1. \A p, u \in Seq(Segments) : p \o u \in Seq(Segments) BY ConcatProperties
<1>2. ASSUME NEW p \in Seq(Segments), NEW u \in Seq(Segments), NEW r \in Seq(Segments)
      PROVE  (p \o (u \o r)) \o <<>> = (p \o u) \o r
  <2>1. p \o (u \o r) = (p \o u) \o r BY <1>0, Zenon
  <2>2. PICK x \in Seq(Segments) : x = (p \o u) \o r BY <1>1
  <2>3. x \o <<>> = x BY JoinEmpty
  <2> QED BY <2>1, <2>2, <2>3
<1>3. ASSUME NEW q \in Seq(Segments), NEW b \in Seq(Segments), NEW e \in Segments
      PROVE  q \o Append(b, e) = Append(q \o b, e)
  BY JoinAppend
<1> QED BY <1>0, <1>2, <1>3

LEMMA InTypes ==
  ASSUME TypeOK, ReuseInv, NEW c \in Conns
  PROVE  /\ hist[c].parsed \in Seq(Segments) /\ lists[c].unpack \in Seq(Segments)
         /\ lists[c].recv \in Seq(Segments) /\ sock[c].inbox \in Seq(Segments)
         /\ Held(c) \in Seq(Segments) /\ InHand(c) \in Seq(Segments)
<1>1. hist[c] \in HistT /\ lists[c] \in ListsT /\ sock[c] \in SockT BY DEF TypeOK
<1>2. /\ hist[c].parsed \in Seq(Segments) /\ lists[c].unpack \in Seq(Segments)
      /\ lists[c].recv \in Seq(Segments) /\ sock[c].inbox \in Seq(Segments)
  BY <1>1 DEF HistT, ListsT, SockT
<1>3. Held(c) \in Seq(Segments) BY <1>2, ConcatProperties DEF Held
<1>4. InHand(c) \in Seq(Segments)
  <2>1. CASE \A k \in Loops : ~Reads(k, c) BY <2>1, HandEmpty, EmptySeq
  <2>2. ASSUME NEW l \in Loops, Reads(l, c) PROVE InHand(c) \in Seq(Segments)
    <3>1. InHand(c) = th[l].buf BY <2>2, OneReader, HandIs DEF Reads, Inside
    <3>2. th[l] \in ThreadT BY Kinds DEF TypeOK, ThreadsOK
    <3> QED BY <3>1, <3>2 DEF ThreadT
  <2> QED BY <2>1, <2>2
<1> QED BY <1>2, <1>3, <1>4

(* The segments move together, or not at all.                               *)
SentSame(d) ==
  /\ sock'[d].sent = sock[d].sent
  /\ stage'[d] # "dead" /\ ~hist'[d].cleared /\ sock'[d].peer # "reset" =>
       /\ stage[d] # "dead" /\ ~hist[d].cleared /\ sock[d].peer # "reset"
ListsSame(d) ==
  /\ lists'[d].recv = lists[d].recv /\ lists'[d].unpack = lists[d].unpack
  /\ hist'[d].parsed = hist[d].parsed
HandSame(d) ==
  /\ sock'[d].inbox = sock[d].inbox
  /\ \A l \in Loops : /\ Reads(l, d)' <=> Reads(l, d)
                      /\ Reads(l, d) => th'[l].buf = th[l].buf

LEMMA InStays ==
  ASSUME TypeOK, ReuseInv, InInv, NEW d \in Conns, SentSame(d), ListsSame(d), HandSame(d)
  PROVE  SentOK(d)' /\ InOK(d)'
<1>1. InHand(d)' = InHand(d) BY HandStays DEF HandSame
<1>2. Held(d)' = Held(d) BY DEF ListsSame, Held
<1>3. SentOK(d) /\ InOK(d) BY DEF InInv
<1> QED BY <1>1, <1>2, <1>3 DEF InOK, SentOK, SentSame, HandSame

LEMMA HeldMoves ==
  ASSUME TypeOK, ReuseInv, InInv, NEW d \in Conns, SentSame(d), HandSame(d), Held(d)' = Held(d)
  PROVE  SentOK(d)' /\ InOK(d)'
<1>1. InHand(d)' = InHand(d) BY HandStays DEF HandSame
<1>3. SentOK(d) /\ InOK(d) BY DEF InInv
<1> QED BY <1>1, <1>3 DEF InOK, SentOK, SentSame, HandSame

LEMMA ElseIn ==
  ASSUME TypeOK, ReuseInv, InInv, NEW c \in Conns, Elsewhere(c), SentOK(c)', InOK(c)'
  PROVE  InInv'
<1>1. \A l \in Loops : l \in Threads /\ th[l].pc # "idle"
  BY Kinds DEF TypeOK, ThreadsOK, LocalOK, LoopPcs, WritePcs
<1>2. ASSUME NEW d \in Conns \ {c} PROVE SentOK(d)' /\ InOK(d)'
  <2>1. Aside(d) BY DEF Elsewhere
  <2>2. SentSame(d) /\ ListsSame(d) BY <2>1 DEF Aside, SentSame, ListsSame
  <2>3. HandSame(d) BY <1>1, <2>1 DEF Aside, HandSame, Reads, Inside
  <2> QED BY <2>2, <2>3, InStays
<1> QED BY <1>2 DEF InInv

LEMMA StillIn == ASSUME TypeOK, ReuseInv, InInv, InputStill PROVE InInv'
<1> SUFFICES ASSUME NEW d \in Conns PROVE SentSame(d) /\ ListsSame(d) /\ HandSame(d)
  BY InStays DEF InInv
<1>1. SentSame(d) /\ ListsSame(d) BY DEF InputStill, SameInput, SentSame, ListsSame
<1>2. HandSame(d) BY DEF InputStill, SameInput, QuietThreads, HandSame, Reads, Inside
<1> QED BY <1>1, <1>2

(* The peer sends one more segment.                                         *)
LEMMA SendIn ==
  ASSUME TypeOK, ReuseInv, InInv, NEW c \in Conns, PeerSend(c) PROVE InInv'
<1>1. Elsewhere(c) /\ th' = th BY PeerElse
<1> DEFINE n == sock[c].sent
           e == Script[n + 1]
<1>2. sock \in [Conns -> SockT] /\ sock[c] \in SockT BY DEF TypeOK
<1>3. n \in Nat /\ n < Len(Script) /\ Len(Script) \in Nat /\ Script \in Seq(Segments)
  BY <1>2, CoreAssumption, LenProperties DEF PeerSend, SockT
<1>4. e \in Segments
  <2>1. n + 1 \in 1 .. Len(Script) BY <1>3
  <2> QED BY <1>3, <2>1, ElementOfSeq
<1>5. SubSeq(Script, 1, n + 1) = Append(SubSeq(Script, 1, n), e)
  <2>1. n + 1 \in 1 .. Len(Script) /\ (n + 1) - 1 = n BY <1>3
  <2>2. SubSeq(Script, 1, n + 1) = SubSeq(Script, 1, (n + 1) - 1) \o <<e>>
    <3>1. 1 \in 1 .. Len(Script) /\ n + 1 \in 1 .. Len(Script) BY <1>3
    <3> QED BY <1>3, <3>1, SubSeqRecursiveSecond
  <2>3. SubSeq(Script, 1, n) \in Seq(Segments)
    <3>1. 1 \in 1 .. Len(Script) + 1 /\ n \in 0 .. Len(Script) BY <1>3
    <3>2. \A i \in 1 .. n : i \in 1 .. Len(Script) BY <1>3
    <3> QED BY <1>3, <3>1, <3>2, SubSeqProperties
  <2> QED BY <1>4, <2>1, <2>2, <2>3, AppendIsConcat
<1>6. /\ sock'[c].inbox = Append(sock[c].inbox, e) /\ sock'[c].sent = n + 1
      /\ sock'[c].peer = sock[c].peer
  BY <1>2 DEF PeerSend, SockT
<1>7. UNCHANGED <<stage, hist, lists>> BY DEF PeerSend, objVars
<1>8. InHand(c)' = InHand(c) BY <1>1 DEF InHand, Inside
<1>9. Held(c)' = Held(c) BY <1>7 DEF Held
<1>10. SentOK(c)' BY <1>3, <1>6 DEF SentOK
<1>11. InOK(c)'
  <2>1. InOK(c) BY DEF InInv
  <2>2. Held(c) \o InHand(c) \in Seq(Segments) /\ sock[c].inbox \in Seq(Segments)
    BY InTypes, ConcatProperties
  <2>3. Held(c) \o InHand(c) \o Append(sock[c].inbox, e)
          = Append(Held(c) \o InHand(c) \o sock[c].inbox, e)
    <3>1. \A q, b \in Seq(Segments), x \in Segments : q \o Append(b, x) = Append(q \o b, x)
      BY Joins
    <3> QED BY <1>4, <2>2, <3>1, Zenon
  <2> HIDE DEF n, e
  <2> QED BY <1>5, <1>6, <1>7, <1>8, <1>9, <2>1, <2>3 DEF InOK, n
<1> QED BY <1>1, <1>10, <1>11, ElseIn

LEMMA QuietIn ==
  ASSUME TypeOK, ReuseInv, InInv, NEW c \in Conns, Elsewhere(c),
         SentSame(c), ListsSame(c), HandSame(c)
  PROVE  InInv'
BY InStays, ElseIn

LEMMA PeerIn ==
  ASSUME TypeOK, WriteInv, ReuseInv, InInv, NEW c \in Conns,
         \/ \E how \in PeerMayEnd : PeerEnd(c, how)
         \/ \E f \in Fds : Accept(c, f)
         \/ \E l \in Loops : DoAddClient(c, l)
  PROVE  InInv'
<1>1. Elsewhere(c) /\ th' = th BY PeerElse
<1>2. sock \in [Conns -> SockT] /\ sock[c] \in SockT /\ ObjOK BY DEF TypeOK
<1>3. UNCHANGED <<hist, lists>> BY DEF PeerEnd, Accept, DoAddClient
<1>4. SentSame(c) /\ sock'[c].inbox = sock[c].inbox
  <2>1. ASSUME NEW how \in PeerMayEnd, PeerEnd(c, how)
        PROVE  /\ sock'[c].sent = sock[c].sent /\ sock'[c].inbox = sock[c].inbox
               /\ sock'[c].peer = how /\ stage' = stage
               /\ sock[c].peer = "reset" => FALSE
    BY <2>1, <1>2 DEF PeerEnd, SockT, objVars
  <2>2. ASSUME NEW f \in Fds, Accept(c, f) PROVE sock' = sock /\ stage[c] = "none"
    BY <2>2 DEF Accept
  <2>3. ASSUME NEW l \in Loops, DoAddClient(c, l)
        PROVE  sock' = sock
    BY <2>3 DEF DoAddClient
  <2>4. ASSUME NEW l \in Loops, DoAddClient(c, l) PROVE stage[c] # "dead"
    <3>1. InSeq(AddOf(c), main_funcs) BY <2>4, QueueTypes, InTail DEF DoAddClient, AddOf
    <3> QED BY <3>1 DEF WriteInv, AddedOnce, InSeq, AddOf
  <2> QED BY <1>3, <2>1, <2>2, <2>3, <2>4 DEF SentSame
<1>5. ListsSame(c) BY <1>3 DEF ListsSame
<1>6. HandSame(c) BY <1>1, <1>4 DEF HandSame, Reads, Inside
<1> QED BY <1>1, <1>4, <1>5, <1>6, QuietIn

LEMMA RemoveIn ==
  ASSUME TypeOK, WriteInv, ReuseInv, InInv, DoRemoveClient PROVE InInv'
<1>1. UNCHANGED <<hist, mutex, sock, th>> BY RemoveElse
<1>2. CASE UNCHANGED <<stage, flags, lists>>
  <2>1. \A d \in Conns : SentSame(d) /\ ListsSame(d) /\ HandSame(d)
    BY <1>1, <1>2 DEF SentSame, ListsSame, HandSame, Reads, Inside
  <2> QED BY <2>1, InStays DEF InInv
<1>3. ASSUME NEW c \in Conns, stage'[c] = "dead", Elsewhere(c) PROVE InInv'
  <2>1. SentOK(c)' /\ InOK(c)' BY <1>1, <1>3 DEF InInv, SentOK, InOK
  <2> QED BY <1>3, <2>1, ElseIn
<1> QED BY <1>2, <1>3, RemoveElse

LEMMA MainIn ==
  ASSUME TypeOK, ReuseInv, InInv, NEW c \in Conns,
         TickClient(c) \/ (c = th[Main].c /\ (TickRead \/ handle_update))
  PROVE  InInv'
<1>1. Elsewhere(c) /\ \A s \in Threads \ {Main} : th'[s] = th[s] BY MainElse
<1>2. \A l \in Loops : th'[l] = th[l] BY <1>1, Kinds
<1>3. UNCHANGED <<stage, lists, sock, hist>>
  BY DEF TickClient, TickRead, handle_update, objVars
<1>4. SentSame(c) /\ ListsSame(c) /\ HandSame(c)
  BY <1>2, <1>3 DEF SentSame, ListsSame, HandSame, Reads, Inside
<1> QED BY <1>1, <1>4, QuietIn

LEMMA TakeIn ==
  ASSUME TypeOK, ReuseInv, InInv, NEW w \in Workers, RequireTask(w) PROVE InInv'
<1>1. PICK x \in TaskT :
        /\ \A s \in Threads \ {w} : th'[s] = th[s]
        /\ UNCHANGED <<stage, flags, lists, hist, mutex, sock>>
        /\ Elsewhere(x.c)
  BY TakeElse
<1>c. PICK c \in Conns : c = x.c BY DEF TaskT
<1>2. \A l \in Loops : th'[l] = th[l] BY <1>1, Kinds
<1>3. SentSame(c) /\ ListsSame(c) /\ HandSame(c)
  BY <1>1, <1>2 DEF SentSame, ListsSame, HandSame, Reads, Inside
<1> QED BY <1>1, <1>c, <1>3, QuietIn

(* Steps of a worker, a user or a writer leave what a loop has in hand.     *)
LEMMA VisitHand ==
  ASSUME TypeOK, NEW t \in Threads, NEW c \in Conns, Visit(t, c),
         \/ t \notin Loops
         \/ /\ th[t].pc \notin {"set_update", "push_recv"}
            /\ th'[t].pc \notin {"set_update", "push_recv"},
         sock'[c].inbox = sock[c].inbox
  PROVE  HandSame(c)
BY DEF Visit, OnlyThread, HandSame, Reads, Inside, Threads

LEMMA EntryIn ==
  ASSUME TypeOK, ReuseInv, InInv, NEW w \in Workers,
         \/ handle_unpack(w)
         \/ UnpackNothing(w) \/ UnpackSplice(w) \/ UnpackPartial(w)
  PROVE  InInv'
<1>types. hist \in [Conns -> HistT] /\ lists \in [Conns -> ListsT] BY DEF TypeOK
<1>c. PICK c \in Conns : c = th[w].c
  BY DEF handle_unpack, UnpackNothing, UnpackSplice, UnpackPartial, At
<1>v. Visit(w, c) BY <1>c, EntryVisits
<1>p. Elsewhere(c) /\ stage' = stage BY <1>v DEF Visit
<1>s. sock' = sock BY DEF handle_unpack, UnpackNothing, UnpackSplice, UnpackPartial
<1>h. HandSame(c) BY <1>v, <1>s, Kinds, VisitHand
<1>t. /\ hist[c].parsed \in Seq(Segments) /\ lists[c].unpack \in Seq(Segments)
      /\ lists[c].recv \in Seq(Segments)
  BY InTypes
<1>1. CASE handle_unpack(w) \/ UnpackNothing(w)
  <2>1. UNCHANGED <<lists, hist>> BY <1>1 DEF handle_unpack, UnpackNothing
  <2>2. SentSame(c) /\ ListsSame(c) BY <1>p, <1>s, <2>1 DEF SentSame, ListsSame
  <2> QED BY <1>h, <1>p, <2>2, QuietIn
<1>2. CASE UnpackSplice(w)
  <2>1. /\ hist' = hist /\ lists'[c].recv = <<>>
        /\ lists'[c].unpack = lists[c].unpack \o lists[c].recv
    BY <1>2, <1>c, <1>types DEF UnpackSplice, AllIn, ListsT
  <2>2. \A p, u, r \in Seq(Segments) : (p \o (u \o r)) \o <<>> = (p \o u) \o r
    BY Joins
  <2>3. (hist[c].parsed \o (lists[c].unpack \o lists[c].recv)) \o <<>>
          = (hist[c].parsed \o lists[c].unpack) \o lists[c].recv
    BY <1>t, <2>2, Zenon
  <2>4. Held(c)' = Held(c) BY <2>1, <2>3 DEF Held
  <2>5. SentSame(c) BY <1>p, <1>s, <2>1 DEF SentSame
  <2>6. SentOK(c)' /\ InOK(c)' BY <1>h, <2>4, <2>5, HeldMoves
  <2> QED BY <1>p, <2>6, ElseIn
<1>3. CASE UnpackPartial(w)
  <2>1. /\ hist'[c].parsed = hist[c].parsed \o lists[c].unpack
        /\ hist'[c].cleared = hist[c].cleared
        /\ lists'[c].unpack = <<>> /\ lists'[c].recv = lists[c].recv
    <3>1. /\ hist' = [hist EXCEPT ![c].parsed = @ \o lists[c].unpack]
          /\ lists' = [lists EXCEPT ![c].unpack = <<>>]
      BY <1>3, <1>c DEF UnpackPartial
    <3>3. lists'[c].unpack = <<>> /\ lists'[c].recv = lists[c].recv
      BY <1>types, <3>1 DEF ListsT
    <3>4. hist'[c].parsed = hist[c].parsed \o lists[c].unpack
      BY <1>types, <3>1 DEF HistT
    <3>5. hist'[c].cleared = hist[c].cleared BY <1>types, <3>1 DEF HistT
    <3> QED BY <3>3, <3>4, <3>5
  <2>2. hist[c].parsed \o lists[c].unpack \in Seq(Segments) BY <1>t, ConcatProperties
  <2>3. (hist[c].parsed \o lists[c].unpack) \o <<>> = hist[c].parsed \o lists[c].unpack
    BY <2>2, JoinEmpty
  <2>4. Held(c)' = Held(c) BY <2>1, <2>3 DEF Held
  <2>5. SentSame(c) BY <1>p, <1>s, <2>1 DEF SentSame
  <2>6. SentOK(c)' /\ InOK(c)' BY <1>h, <2>4, <2>5, HeldMoves
  <2> QED BY <1>p, <2>6, ElseIn
<1> QED BY <1>1, <1>2, <1>3

LEMMA FrameIn ==
  ASSUME TypeOK, ReuseInv, InInv, NEW w \in Workers, FrameStirs(w) PROVE InInv'
<1>types. hist \in [Conns -> HistT] /\ lists \in [Conns -> ListsT] BY DEF TypeOK
<1>c. PICK c \in Conns : c = th[w].c
  BY DEF FrameStirs, UnpackFrame, CallbackStart, CallbackCloses, CallbackEnd, UnpackBad,
         UnpackBadClose, At
<1>v. Visit(w, c) BY <1>c, FrameVisits
<1>p. Elsewhere(c) /\ stage' = stage BY <1>v DEF Visit
<1>s. sock' = sock
  BY DEF FrameStirs, UnpackFrame, CallbackStart, CallbackCloses, CallbackEnd, UnpackBad,
         UnpackBadClose
<1>h. HandSame(c) BY <1>v, <1>s, Kinds, VisitHand
<1>1. ASSUME NEW i \in 1 .. Len(Script), UnpackFrame(w, i) PROVE InInv'
  <2>1. /\ hist'[c].parsed = hist[c].parsed \o SubSeq(lists[c].unpack, 1, i)
        /\ hist'[c].cleared = hist[c].cleared
        /\ lists'[c].unpack = Drop(lists[c].unpack, i)
        /\ lists'[c].recv = lists[c].recv
    BY <1>1, <1>c, <1>types DEF UnpackFrame, ListsT, HistT
  <2>2. i \in 0 .. Len(lists[c].unpack) BY <1>1, <1>c DEF UnpackFrame, Stops
  <2>3. (hist[c].parsed \o SubSeq(lists[c].unpack, 1, i)) \o Drop(lists[c].unpack, i)
          = hist[c].parsed \o lists[c].unpack
    BY <2>2, InTypes, MoveHead
  <2>4. Held(c)' = Held(c) BY <2>1, <2>3 DEF Held
  <2>5. SentSame(c) BY <1>p, <1>s, <2>1 DEF SentSame
  <2>6. SentOK(c)' /\ InOK(c)' BY <1>h, <2>4, <2>5, HeldMoves
  <2> QED BY <1>p, <2>6, ElseIn
<1>2. CASE UnpackBad(w)
  <2>1. hist'[c].cleared
    <3>1. PICK x : \/ hist' = [hist EXCEPT ![c].cleared = TRUE]
                   \/ hist' = [hist EXCEPT ![c].parsed = x, ![c].cleared = TRUE]
      BY <1>2, <1>c DEF UnpackBad
    <3>2. CASE hist' = [hist EXCEPT ![c].cleared = TRUE] BY <3>2, <1>types DEF HistT
    <3>3. CASE hist' = [hist EXCEPT ![c].parsed = x, ![c].cleared = TRUE]
      BY <3>3, <1>types DEF HistT
    <3> QED BY <3>1, <3>2, <3>3
  <2>2. SentOK(c)' /\ InOK(c)' BY <1>s, <2>1 DEF InInv, SentOK, InOK
  <2> QED BY <1>p, <2>2, ElseIn
<1>3. CASE CallbackStart(w) \/ CallbackCloses(w) \/ CallbackEnd(w) \/ UnpackBadClose(w)
  <2>1. /\ lists' = lists /\ hist'[c].parsed = hist[c].parsed
        /\ hist'[c].cleared = hist[c].cleared
    <3>1. CASE CallbackStart(w)
      <4>1. PICK x : hist' = [hist EXCEPT ![c].late = x] BY <1>c, <3>1 DEF CallbackStart
      <4>2. lists' = lists BY <3>1 DEF CallbackStart
      <4> QED BY <1>types, <4>1, <4>2 DEF HistT
    <3>2. CASE CallbackCloses(w) \/ CallbackEnd(w) \/ UnpackBadClose(w)
      BY <3>2 DEF CallbackCloses, CallbackEnd, UnpackBadClose
    <3> QED BY <1>3, <3>1, <3>2
  <2>2. SentSame(c) /\ ListsSame(c) BY <1>p, <1>s, <2>1 DEF SentSame, ListsSame
  <2> QED BY <1>h, <1>p, <2>2, QuietIn
<1> QED BY <1>1, <1>2, <1>3 DEF FrameStirs

LEMMA WriterIn ==
  ASSUME TypeOK, ReuseInv, InInv, NEW t \in Writers, WriterStirs(t) PROVE InInv'
<1>types. lists \in [Conns -> ListsT] BY DEF TypeOK
<1>c. PICK c \in Conns : c = th[t].c
  BY DEF WriterStirs, WriteNothing, WriteError, WriteFail, WritePop, At
<1>v. Visit(t, c) BY <1>c, WriterVisits
<1>p. Elsewhere(c) /\ stage' = stage BY <1>v DEF Visit
<1>s. UNCHANGED <<sock, hist>>
  BY DEF WriterStirs, WriteNothing, WriteError, WriteFail, WritePop
<1>th. th \in [Threads -> ThreadT] /\ t \in Threads
  BY Kinds DEF TypeOK, ThreadsOK, Writers
<1>1. /\ th[t].pc \notin {"set_update", "push_recv"}
      /\ th'[t].pc \notin {"set_update", "push_recv"}
  BY <1>th, GotoAt, ReturnAt
     DEF WriterStirs, WriteNothing, WriteError, WriteFail, WritePop, WriteUnlock, At, HomePc
<1>h. HandSame(c) BY <1>1, <1>v, <1>s, <1>th, VisitHand
<1>2. lists'[c].recv = lists[c].recv /\ lists'[c].unpack = lists[c].unpack
  BY <1>c, <1>types
     DEF WriterStirs, WriteNothing, WriteError, WriteFail, WritePop, ListsT
<1>3. SentSame(c) /\ ListsSame(c) BY <1>p, <1>s, <1>2 DEF SentSame, ListsSame
<1> QED BY <1>h, <1>p, <1>3, QuietIn

(* The loop takes all there is, and puts it behind recv_list_.              *)
LEMMA LoopIn ==
  ASSUME TypeOK, ReuseInv, InInv, NEW l \in Loops, LoopStirs(l) PROVE InInv'
<1>types. /\ sock \in [Conns -> SockT] /\ lists \in [Conns -> ListsT] BY DEF TypeOK
<1>c. PICK c \in Conns : c = th[l].c BY DEF LoopStirs, read_data, ReadEnded, PushRecv, At
<1>v. Visit(l, c) BY <1>c, LoopVisits
<1>p. Elsewhere(c) /\ stage' = stage BY <1>v DEF Visit
<1>th. th \in [Threads -> ThreadT] /\ l \in Threads BY Kinds DEF TypeOK, ThreadsOK
<1>h. hist' = hist BY DEF LoopStirs, read_data, ReadEnded, PushRecv
<1>k. \A k \in Loops \ {l} : th[k].c # c /\ th'[k] = th[k]
  BY <1>c, <1>v, OneReader DEF Visit, OnlyThread, Threads
<1>k2. \A k \in Loops : (Reads(k, c) \/ Reads(k, c)') => k = l BY <1>k DEF Reads, Inside
<1>ok. SentOK(c) /\ InOK(c) BY DEF InInv
<1>t. /\ Held(c) \in Seq(Segments) /\ sock[c].inbox \in Seq(Segments)
      /\ InHand(c) \in Seq(Segments)
  BY InTypes
<1>1. CASE read_data(l)
  <2>1. /\ sock'[c].inbox = <<>> /\ sock'[c].sent = sock[c].sent
        /\ sock'[c].peer = sock[c].peer
    BY <1>1, <1>c, <1>types DEF read_data, SockT
  <2>2. th'[l].c = c /\ th'[l].pc \in {"set_update", "push_recv"}
        /\ (sock[c].peer # "reset" => th'[l].buf = sock[c].inbox)
    BY <1>1, <1>c, <1>th DEF read_data, ThreadT
  <2>3. InHand(c) = <<>>
    <3>1. ~Reads(l, c) BY <1>1 DEF read_data, At, Reads
    <3>2. \A k \in Loops : ~Reads(k, c) BY <3>1, <1>k2
    <3> QED BY <3>2, HandEmpty
  <2>4. InHand(c)' = th'[l].buf
    <3>1. Reads(l, c)' BY <2>2 DEF Reads, Inside
    <3> QED BY <1>k2, <3>1, HandBecomes
  <2>5. Held(c)' = Held(c) BY <1>1, <1>h DEF read_data, Held
  <2>6. Held(c) \o sock[c].inbox \o <<>> = Held(c) \o <<>> \o sock[c].inbox
    <3>1. Held(c) \o sock[c].inbox \in Seq(Segments) BY <1>t, ConcatProperties
    <3> QED BY <1>t, <3>1, JoinEmpty
  <2>7. SentOK(c)' /\ InOK(c)'
    BY <1>h, <1>ok, <1>p, <2>1, <2>2, <2>3, <2>4, <2>5, <2>6 DEF SentOK, InOK
  <2> QED BY <1>p, <2>7, ElseIn
<1>2. CASE ReadEnded(l)
  <2>1. UNCHANGED <<sock, lists>> BY <1>2 DEF ReadEnded
  <2>2. /\ th[l].pc = "set_update" /\ th'[l].pc = "push_recv" /\ th'[l].c = c
        /\ th'[l].buf = th[l].buf
    BY <1>2, <1>c, <1>th DEF ReadEnded, Goto, At, ThreadT
  <2>3. HandSame(c) BY <1>c, <1>k, <2>1, <2>2 DEF HandSame, Reads, Inside
  <2>4. SentSame(c) /\ ListsSame(c) BY <1>h, <1>p, <2>1 DEF SentSame, ListsSame
  <2> QED BY <1>p, <2>3, <2>4, QuietIn
<1>3. CASE PushRecv(l)
  <2>1. sock' = sock BY <1>3 DEF PushRecv
  <2>2. th[l].pc = "push_recv" /\ th'[l].pc \notin {"set_update", "push_recv"}
    BY <1>3, <1>th DEF PushRecv, At, Home
  <2>3. InHand(c) = th[l].buf
    <3>1. Reads(l, c) BY <1>c, <2>2 DEF Reads, Inside
    <3> QED BY <1>k2, <3>1, HandIs
  <2>4. InHand(c)' = <<>>
    <3>1. ~Reads(l, c)' BY <2>2 DEF Reads
    <3>2. \A k \in Loops : ~Reads(k, c)' BY <3>1, <1>k2
    <3> QED BY <3>2, HandEmpty
  <2>5. Held(c)' = Held(c) \o InHand(c)
    <3>1. CASE th[l].buf = <<>>
      <4>1. Held(c)' = Held(c) BY <1>3, <1>h, <3>1 DEF PushRecv, Held
      <4> QED BY <1>t, <2>3, <3>1, <4>1, JoinEmpty
    <3>2. CASE th[l].buf # <<>>
      <4>1. /\ lists'[c].recv = lists[c].recv \o InHand(c)
            /\ lists'[c].unpack = lists[c].unpack
        <5>1. lists' = [lists EXCEPT ![c].recv = @ \o th[l].buf]
          BY <1>3, <1>c, <3>2 DEF PushRecv
        <5> QED BY <5>1, <1>types, <2>3 DEF ListsT
      <4>2. \A a, r, h \in Seq(Segments) : a \o (r \o h) = (a \o r) \o h BY Joins
      <4>3. (hist[c].parsed \o lists[c].unpack) \o (lists[c].recv \o InHand(c))
              = ((hist[c].parsed \o lists[c].unpack) \o lists[c].recv) \o InHand(c)
        <5>1. /\ hist[c].parsed \o lists[c].unpack \in Seq(Segments)
              /\ lists[c].recv \in Seq(Segments) /\ InHand(c) \in Seq(Segments)
          BY InTypes, ConcatProperties
        <5> QED BY <4>2, <5>1, Zenon
      <4> QED BY <1>h, <4>1, <4>3 DEF Held
    <3> QED BY <3>1, <3>2
  <2>6. Held(c) \o InHand(c) \o <<>> = Held(c) \o InHand(c)
    <3>1. Held(c) \o InHand(c) \in Seq(Segments) BY <1>t, ConcatProperties
    <3> QED BY <3>1, JoinEmpty
  <2>7. SentOK(c)' /\ InOK(c)'
    BY <1>h, <1>ok, <1>p, <2>1, <2>4, <2>5, <2>6 DEF SentOK, InOK
  <2> QED BY <1>p, <2>7, ElseIn
<1> QED BY <1>1, <1>2, <1>3 DEF LoopStirs

LEMMA UserIn ==
  ASSUME TypeOK, ReuseInv, InInv, NEW u \in Users, close_read(u) PROVE InInv'
<1>c. PICK c \in Conns : c = th[u].c BY DEF close_read, At
<1>v. Visit(u, c) BY <1>c, UserVisits
<1>1. UNCHANGED <<sock, hist, lists, stage>> BY DEF close_read, objVars
<1>2. HandSame(c) BY <1>v, <1>1, Kinds, VisitHand
<1>3. SentSame(c) /\ ListsSame(c) BY <1>1 DEF SentSame, ListsSame
<1> QED BY <1>v, <1>2, <1>3, QuietIn DEF Visit

LEMMA InitIn == ASSUME Init PROVE InInv
<1>1. \A l \in Loops : th[l].pc = "batch" BY Kinds DEF Init, Home, HomePc
<1>2. ASSUME NEW c \in Conns PROVE SentOK(c) /\ InOK(c)
  <2>1. InHand(c) = <<>> BY <1>1, HandEmpty DEF Reads
  <2>2. /\ hist[c].parsed = <<>> /\ lists[c].unpack = <<>> /\ lists[c].recv = <<>>
        /\ sock[c].inbox = <<>> /\ sock[c].sent = 0
    BY DEF Init, NoLists
  <2>3. <<>> \o <<>> = <<>> BY EmptySeq, ConcatEmptySeq
  <2>4. SubSeq(Script, 1, 0) = <<>> BY CoreAssumption, SubSeqEmpty
  <2>5. 0 <= Len(Script) BY CoreAssumption, LenProperties
  <2> QED BY <2>1, <2>2, <2>3, <2>4, <2>5 DEF SentOK, InOK, Held
<1> QED BY <1>2 DEF InInv

LEMMA NextIn == ASSUME TypeOK, WriteInv, ReuseInv, InInv, [Next]_vars PROVE InInv'
<1>1. CASE InputStill BY <1>1, StillIn
<1>2. CASE PeerStirs BY <1>2, SendIn, PeerIn DEF PeerStirs
<1>3. CASE MainStirs
  <2>1. CASE TickRead \/ handle_update
    <3>1. PICK c \in Conns : c = th[Main].c BY <2>1, MainIsLive DEF TickRead, handle_update
    <3> QED BY <2>1, <3>1, MainIn
  <2> QED BY <1>3, <2>1, PeerIn, RemoveIn, MainIn DEF MainStirs
<1>4. ASSUME NEW w \in Workers, EntryStirs(w) PROVE InInv'
  BY <1>4, TakeIn, EntryIn DEF EntryStirs
<1>5. ASSUME NEW w \in Workers, FrameStirs(w) PROVE InInv' BY <1>5, FrameIn
<1>6. ASSUME NEW t \in Writers, WriterStirs(t) PROVE InInv' BY <1>6, WriterIn
<1>7. ASSUME NEW l \in Loops, LoopStirs(l) PROVE InInv' BY <1>7, LoopIn
<1>8. ASSUME NEW u \in Users, close_read(u) PROVE InInv' BY <1>8, UserIn
<1> QED BY <1>1, <1>2, <1>3, <1>4, <1>5, <1>6, <1>7, <1>8, StillOrStirs DEF Stirs

(* What was parsed, the two lists, a loop's buffer and the socket make up   *)
(* what the peer sent, in this order: the invariant behind StreamInCorrect. *)
THEOREM InCorrect == Spec => []InInv
<1> QED BY TypeCorrect, WriteCorrect, ReuseCorrect, InitIn, NextIn, PTL DEF Spec

(* Nothing the peer sends is lost, repeated or reordered between the socket *)
(* and message_callback_, whatever script the peer follows.                 *)
THEOREM StreamInCorrect == Spec => []StreamIn
<1>1. InInv => StreamIn BY DEF InInv, InOK, Held, StreamIn, Live
<1> QED BY <1>1, InCorrect, PTL

-----------------------------------------------------------------------------
(* close_client is followed by two callbacks at most *)

(* A worker will call message_callback_ for a frame of c, and main_thread_  *)
(* or a worker will bring another to that point.                            *)
YetToCall(c) == \E w \in Workers : th[w].c = c /\ th[w].pc \in {"parse", "finish"}
YetToSplice(c) == Scheduled(c) \/ (th[Main].c = c /\ th[Main].pc = "mark_read")
NoRead(c) == "NOREAD" \in flags[c].shut

(* Each of the two that is still to come is a callback less so far, and     *)
(* before close_read none is late.                                          *)
LateOK(c) ==
  /\ hist[c].late <= 2
  /\ Live(c) => /\ ~NoRead(c) => hist[c].late = 0
                /\ YetToCall(c) \/ YetToSplice(c) => hist[c].late <= 1
                /\ YetToCall(c) /\ YetToSplice(c) => hist[c].late = 0
LateInv == \A c \in Conns : LateOK(c)

LateQuiet(d) ==
  /\ hist'[d].late = hist[d].late
  /\ Live(d)' => Live(d)
  /\ Live(d)' /\ NoRead(d) =>
       NoRead(d)' /\ (YetToCall(d)' => YetToCall(d)) /\ (YetToSplice(d)' => YetToSplice(d))

LEMMA LateStays ==
  ASSUME NEW d \in Conns, LateOK(d), LateQuiet(d) PROVE LateOK(d)'
BY DEF LateOK, LateQuiet

LEMMA AsideLate ==
  ASSUME NEW d \in Conns, LateOK(d), Aside(d) PROVE LateOK(d)'
<1>1. Main \in Threads /\ \A w \in Workers : w \in Threads BY DEF Threads
<1>2. YetToCall(d)' => YetToCall(d) BY <1>1 DEF Aside, YetToCall
<1>3. \A w \in Workers : BeforeSplice(w, d)' => BeforeSplice(w, d)
  BY <1>1 DEF Aside, BeforeSplice
<1>4. YetToSplice(d)' => YetToSplice(d)
  BY <1>1, <1>3 DEF Aside, YetToSplice, Scheduled
<1>5. LateQuiet(d) BY <1>2, <1>4 DEF Aside, LateQuiet, Live, NoRead
<1> QED BY <1>5, LateStays

LEMMA ElseLate ==
  ASSUME LateInv, NEW c \in Conns, Elsewhere(c), LateOK(c)' PROVE LateInv'
BY AsideLate DEF LateInv, Elsewhere

LEMMA StillLate ==
  ASSUME TypeOK, ReuseInv, LateInv, InputStill PROVE LateInv'
<1> SUFFICES ASSUME NEW d \in Conns PROVE LateQuiet(d)
  BY LateStays DEF LateInv
<1>1. \A w \in Workers : SameStand(w, d) BY InputTasks, StrideStands DEF TaskCalm, WorkersStride
<1>2. InSeq(UnpackOf(d), PoolQueue') <=> InSeq(UnpackOf(d), PoolQueue)
  BY OtherSame DEF InputStill, SameTask
<1>3. Scheduled(d)' => Scheduled(d) BY <1>1, <1>2 DEF Scheduled, SameStand
<1>4. YetToCall(d)' => YetToCall(d) BY DEF InputStill, QuietThreads, YetToCall, Inner
<1>5. YetToSplice(d)' => YetToSplice(d)
  BY <1>3 DEF YetToSplice, InputStill, QuietThreads
<1> QED BY <1>4, <1>5 DEF LateQuiet, InputStill, SameFlags, SameInput, Live, NoRead

LEMMA PeerLate ==
  ASSUME TypeOK, LateInv, NEW c \in Conns,
         \/ PeerSend(c) \/ \E how \in PeerMayEnd : PeerEnd(c, how)
         \/ \E f \in Fds : Accept(c, f)
  PROVE  LateInv'
<1>1. Elsewhere(c) /\ th' = th /\ PoolQueue' = PoolQueue BY PeerElse
<1>2. UNCHANGED <<flags, hist>> /\ (Live(c)' => Live(c))
  BY DEF PeerSend, PeerEnd, Accept, Live, TypeOK, ObjOK, objVars
<1>3. LateQuiet(c)
  BY <1>1, <1>2 DEF LateQuiet, YetToCall, YetToSplice, Scheduled, BeforeSplice, NoRead
<1>4. LateOK(c)' BY <1>3, LateStays DEF LateInv
<1> QED BY <1>1, <1>4, ElseLate

(* No callback of an earlier connection is counted for a new one.           *)
LEMMA AddLate ==
  ASSUME TypeOK, WriteInv, TaskInv, LateInv, NEW c \in Conns, NEW l \in Loops, DoAddClient(c, l)
  PROVE  LateInv'
<1>1. Elsewhere(c) BY PeerElse
<1>2. stage[c] = "adding"
  <2>1. InSeq(AddOf(c), main_funcs) BY QueueTypes, InTail DEF DoAddClient, AddOf
  <2> QED BY <2>1 DEF WriteInv, AddedOnce, InSeq, AddOf
<1>3. hist'[c].late = 0 BY <1>2 DEF TaskInv, Fresh, Known, DoAddClient
<1>4. LateOK(c)' BY <1>3 DEF LateOK
<1> QED BY <1>1, <1>4, ElseLate

LEMMA RemoveLate ==
  ASSUME TypeOK, WriteInv, ReuseInv, LateInv, DoRemoveClient PROVE LateInv'
<1>1. UNCHANGED <<hist, mutex, sock, th>> /\ PoolQueue' = PoolQueue BY RemoveElse
<1>2. CASE UNCHANGED <<stage, flags, lists>>
  <2>1. \A d \in Conns : LateQuiet(d)
    BY <1>1, <1>2
       DEF LateQuiet, YetToCall, YetToSplice, Scheduled, BeforeSplice, NoRead, Live
  <2> QED BY <2>1, LateStays DEF LateInv
<1>3. ASSUME NEW c \in Conns, stage'[c] = "dead", Elsewhere(c) PROVE LateInv'
  <2>1. LateOK(c)' BY <1>1, <1>3 DEF LateInv, LateOK, Live
  <2> QED BY <1>3, <2>1, ElseLate
<1> QED BY <1>2, <1>3, RemoveElse

(* do_send_timeout asks can_read before it makes another task.              *)
LEMMA MainLate ==
  ASSUME TypeOK, ReuseInv, LateInv, NEW c \in Conns,
         TickClient(c) \/ (c = th[Main].c /\ (TickRead \/ handle_update))
  PROVE  LateInv'
<1>1. Elsewhere(c) /\ \A s \in Threads \ {Main} : th'[s] = th[s] BY MainElse
<1>2. \A w \in Workers : th'[w] = th[w] BY <1>1, Kinds
<1>3. flags \in [Conns -> FlagsT] BY DEF TypeOK
<1>4. UNCHANGED <<stage, hist>> /\ flags'[c].shut = flags[c].shut
  BY <1>3 DEF TickClient, TickRead, handle_update, set_close, FlagsT, objVars
<1>5. YetToCall(c)' => YetToCall(c) BY <1>2 DEF YetToCall
<1>6. th \in [Threads -> ThreadT] BY DEF TypeOK, ThreadsOK
<1>7. ASSUME NoRead(c), YetToSplice(c)' PROVE YetToSplice(c)
  <2>1. CASE handle_update /\ c = th[Main].c BY <2>1 DEF handle_update, YetToSplice
  <2>2. CASE TickRead /\ c = th[Main].c
    <3>1. th'[Main].pc = "test_write"
      BY <1>6, <1>7, <2>2, GotoAt, Kinds DEF TickRead, can_read, NoRead
    <3>2. PoolQueue' = PoolQueue BY <2>2 DEF TickRead, PoolQueue, mainVars
    <3> QED BY <1>2, <1>7, <3>1, <3>2 DEF YetToSplice, Scheduled, BeforeSplice
  <2>3. CASE TickClient(c)
    <3>1. InSeq(UnpackOf(c), PoolQueue') <=> InSeq(UnpackOf(c), PoolQueue)
      <4>1. PICK y \in TaskT : y.op = "close" /\ fun_list' \in {fun_list, Append(fun_list, y)}
        <5>1. CloseOf(c) \in TaskT /\ CloseOf(c).op = "close" BY OfTypes DEF CloseOf
        <5> QED BY <2>3, <5>1 DEF TickClient, CloseOf
      <4>2. task_list \in Seq(TaskT) /\ fun_list \in Seq(TaskT) BY DEF TypeOK, MainOK
      <4>3. task_list \o Append(fun_list, y) = Append(task_list \o fun_list, y)
        BY <4>2, JoinAppend
      <4>4. task_list' = task_list BY <2>3 DEF TickClient
      <4>5. OtherTask BY <4>1, <4>3, <4>4 DEF OtherTask, PoolQueue
      <4> QED BY <4>5, OtherSame DEF SameTask
    <3>2. th'[Main] = th[Main] \/ th'[Main].pc = "test_read"
      BY <2>3, <1>6, Kinds DEF TickClient, ThreadT
    <3> QED BY <1>2, <1>7, <3>1, <3>2 DEF YetToSplice, Scheduled, BeforeSplice
  <2> QED BY <2>1, <2>2, <2>3
<1>8. LateQuiet(c) BY <1>4, <1>5, <1>7 DEF LateQuiet, NoRead, Live
<1>9. LateOK(c)' BY <1>8, LateStays DEF LateInv
<1> QED BY <1>1, <1>9, ElseLate

LEMMA TakeLate ==
  ASSUME TypeOK, LateInv, NEW w \in Workers, RequireTask(w) PROVE LateInv'
<1>1. PICK x \in TaskT :
        /\ PoolQueue # <<>> /\ x = Head(PoolQueue) /\ PoolQueue' = Tail(PoolQueue)
        /\ th[w].pc = "idle" /\ th'[w].pc = x.op /\ th'[w].c = x.c
        /\ \A s \in Threads \ {w} : th'[s] = th[s]
        /\ UNCHANGED <<stage, flags, lists, hist, mutex, sock>>
        /\ Elsewhere(x.c)
  BY TakeElse
<1>c. PICK c \in Conns : c = x.c BY DEF TaskT
<1>2. /\ \A v \in Workers \ {w} : th'[v] = th[v]
      /\ th'[Main] = th[Main]
  BY <1>1, Kinds DEF Threads
<1>3. x.op \in TaskOps BY DEF TaskT
<1>4. YetToCall(c)' => YetToCall(c) BY <1>1, <1>2, <1>3 DEF YetToCall, TaskOps
<1>5. YetToSplice(c)' => YetToSplice(c)
  <2>1. x = UnpackOf(c) => InSeq(UnpackOf(c), PoolQueue)
    BY <1>1, QueueTypes, InTail
  <2>2. InSeq(UnpackOf(c), PoolQueue') => InSeq(UnpackOf(c), PoolQueue)
    BY <1>1, QueueTypes, InTail
  <2>3. BeforeSplice(w, c)' => x = UnpackOf(c)
    BY <1>1, <1>c, <1>3 DEF BeforeSplice, TaskOps, TaskT, UnpackOf
  <2>4. \A v \in Workers \ {w} : BeforeSplice(v, c)' => BeforeSplice(v, c)
    BY <1>2 DEF BeforeSplice
  <2> QED BY <1>2, <2>1, <2>2, <2>3, <2>4 DEF YetToSplice, Scheduled
<1>6. LateQuiet(c) BY <1>1, <1>4, <1>5 DEF LateQuiet, NoRead, Live
<1>7. LateOK(c)' BY <1>6, LateStays DEF LateInv
<1> QED BY <1>1, <1>c, <1>7, ElseLate

(* A visit that brings no callback nearer, and may close_read.              *)
LEMMA VisitLate ==
  ASSUME LateInv, NEW t \in Threads \ {Main}, NEW c \in Conns, Visit(t, c),
         hist'[c].late = hist[c].late, NoRead(c) => NoRead(c)',
         \/ t \notin Workers
         \/ /\ th'[t].pc \in {"parse", "finish"} => th[t].pc \in {"parse", "finish"}
            /\ th'[t].pc \in {"unpack", "splice"} => th[t].pc \in {"unpack", "splice"}
  PROVE  LateInv'
<1>1. /\ th[t].c = c /\ stage' = stage /\ PoolQueue' = PoolQueue /\ Elsewhere(c)
      /\ th'[Main] = th[Main] /\ \A v \in Workers \ {t} : th'[v] = th[v]
  BY DEF Visit, OnlyThread, Threads
<1>2. YetToCall(c)' => YetToCall(c) BY <1>1 DEF YetToCall
<1>3. \A v \in Workers : BeforeSplice(v, c)' => BeforeSplice(v, c) BY <1>1 DEF BeforeSplice
<1>4. YetToSplice(c)' => YetToSplice(c) BY <1>1, <1>3 DEF YetToSplice, Scheduled
<1>5. LateQuiet(c) BY <1>1, <1>2, <1>4 DEF LateQuiet, Live
<1>6. LateOK(c)' BY <1>5, LateStays DEF LateInv
<1> QED BY <1>1, <1>6, ElseLate

(* The splice turns the task to come into a frame to come.                  *)
LEMMA SpliceLate ==
  ASSUME TypeOK, ReuseInv, TaskInv, LateInv, NEW w \in Workers, UnpackSplice(w)
  PROVE  LateInv'
<1>th. th \in [Threads -> ThreadT] /\ w \in Threads /\ w # Main
  BY Kinds DEF TypeOK, ThreadsOK
<1>types. flags \in [Conns -> FlagsT] BY DEF TypeOK
<1>c. PICK c \in Conns : c = th[w].c BY DEF UnpackSplice, At
<1>v. Visit(w, c) BY <1>c, EntryVisits
<1>1. /\ th[w].pc = "splice" /\ th'[w].pc = "parse" /\ th'[w].c = c /\ Live(c)
      /\ hist' = hist /\ mutex' = mutex /\ flags'[c].shut = flags[c].shut
      /\ flags' = [flags EXCEPT ![c].read = @ \cap {"CLOSE"}]
  BY <1>c, <1>th, <1>types, GotoAt DEF UnpackSplice, At, Live, FlagsT
<1>2. OnlyAt(w, c)
  <2>1. \A d \in Conns \ {c} : flags'[d] = flags[d] BY <1>1, <1>types
  <2>2. th'[Main] = th[Main] /\ \A v \in Workers \ {w} : th'[v] = th[v]
    BY <1>v, <1>th DEF Visit, OnlyThread, Threads
  <2> QED BY <1>c, <1>v, <1>1, <2>1, <2>2 DEF OnlyAt, Visit, Inner
<1>3. ~Scheduled(c)' BY <1>1, <1>2, SpliceDone
<1>4. ~(th'[Main].c = c /\ th'[Main].pc = "mark_read")
  <2>1. Scheduled(c) BY <1>1, <1>c DEF Scheduled, BeforeSplice
  <2>2. ASSUME th[Main].c = c, th[Main].pc = "mark_read" PROVE FALSE
    <3>1. c # NoConn BY CoreAssumption
    <3>2. ~flags[c].closed BY <2>2, <3>1 DEF ReuseInv, MainInside
    <3>3. "HANDLE" \notin flags[c].read BY <2>2 DEF TaskInv, MarkOK
    <3> QED BY <1>1, <2>1, <3>2, <3>3 DEF TaskInv, TaskOK, HandleOK
  <2> QED BY <1>2, <2>2 DEF OnlyAt
<1>5. YetToSplice(c) BY <1>1, <1>c DEF YetToSplice, Scheduled, BeforeSplice
<1>6. ~YetToSplice(c)' BY <1>3, <1>4 DEF YetToSplice
<1>7. LateOK(c)' BY <1>1, <1>5, <1>6 DEF LateInv, LateOK, NoRead, Live
<1> QED BY <1>v, <1>7, ElseLate DEF Visit

(* The callback that was to come is counted when close_read came first.     *)
LEMMA CallLate ==
  ASSUME TypeOK, TaskInv, LateInv, NEW w \in Workers, CallbackStart(w) PROVE LateInv'
<1>th. th \in [Threads -> ThreadT] /\ w \in Threads /\ w # Main
  BY Kinds DEF TypeOK, ThreadsOK
<1>types. hist \in [Conns -> HistT] BY DEF TypeOK
<1>c. PICK c \in Conns : c = th[w].c BY DEF CallbackStart, At
<1>v. Visit(w, c) BY <1>c, FrameVisits DEF FrameStirs
<1>1. /\ th[w].pc = "finish" /\ th'[w].pc = "callback" /\ th'[w].c = c /\ Live(c)
      /\ flags' = flags
      /\ hist'[c].late = IF NoRead(c) THEN hist[c].late + 1 ELSE hist[c].late
  BY <1>c, <1>th, <1>types, GotoAt DEF CallbackStart, At, Live, HistT, NoRead
<1>2. /\ th'[Main] = th[Main] /\ \A v \in Workers \ {w} : th'[v] = th[v]
      /\ stage' = stage /\ PoolQueue' = PoolQueue
  BY <1>v, <1>th DEF Visit, OnlyThread, Threads
<1>3. YetToCall(c) BY <1>1, <1>c DEF YetToCall
<1>4. ~YetToCall(c)'
  <2>1. \A v \in Workers \ {w} : ~Handling(v, c)
    BY <1>1, <1>c DEF TaskInv, TaskOK, HolderOK, Handling, Inner
  <2> QED BY <1>1, <1>2, <2>1 DEF YetToCall, Handling, Inner
<1>5. YetToSplice(c)' => YetToSplice(c)
  <2>1. \A v \in Workers : BeforeSplice(v, c)' => BeforeSplice(v, c)
    BY <1>1, <1>2 DEF BeforeSplice
  <2> QED BY <1>2, <2>1 DEF YetToSplice, Scheduled
<1>6. hist[c].late \in Nat BY <1>types DEF HistT
<1>7. LateOK(c)
  BY DEF LateInv
<1>8. LateOK(c)' BY <1>1, <1>2, <1>3, <1>4, <1>5, <1>6, <1>7 DEF LateOK, NoRead, Live
<1> QED BY <1>v, <1>8, ElseLate DEF Visit

LEMMA EntryLate ==
  ASSUME TypeOK, LateInv, NEW w \in Workers,
         handle_unpack(w) \/ UnpackNothing(w) \/ UnpackPartial(w)
  PROVE  LateInv'
<1>th. th \in [Threads -> ThreadT] /\ w \in Threads \ {Main}
  BY Kinds DEF TypeOK, ThreadsOK
<1>types. flags \in [Conns -> FlagsT] /\ hist \in [Conns -> HistT] BY DEF TypeOK
<1>c. PICK c \in Conns : c = th[w].c BY DEF handle_unpack, UnpackNothing, UnpackPartial, At
<1>v. Visit(w, c) BY <1>c, EntryVisits
<1>1. CASE handle_unpack(w)
  <2>1. /\ th[w].pc = "unpack" /\ th'[w].pc \in {"splice", "idle"} /\ UNCHANGED <<hist, flags>>
    BY <1>1, <1>th, GotoAt, ReturnAt, Kinds DEF handle_unpack, At, HomePc
  <2>2. NoRead(c) => NoRead(c)' BY <2>1 DEF NoRead
  <2> QED BY <1>th, <1>v, <2>1, <2>2, VisitLate
<1>2. CASE UnpackNothing(w) \/ UnpackPartial(w)
  <2>1. th'[w].pc = "idle"
    BY <1>2, <1>th, ReturnAt, Kinds DEF UnpackNothing, UnpackPartial, HomePc
  <2>2. hist'[c].late = hist[c].late /\ flags'[c].shut = flags[c].shut
    <3>1. CASE UnpackNothing(w) BY <3>1, <1>c, <1>types DEF UnpackNothing, FlagsT
    <3>2. CASE UnpackPartial(w)
      <4>1. /\ flags' = [flags EXCEPT ![c].read = @ \cup ForceIfReady(c)]
            /\ hist' = [hist EXCEPT ![c].parsed = @ \o lists[c].unpack]
        BY <3>2, <1>c DEF UnpackPartial
      <4> QED BY <4>1, <1>types DEF HistT, FlagsT
    <3> QED BY <1>2, <3>1, <3>2
  <2>3. NoRead(c) => NoRead(c)' BY <2>2 DEF NoRead
  <2> QED BY <1>th, <1>v, <2>1, <2>2, <2>3, VisitLate
<1> QED BY <1>1, <1>2

LEMMA FrameLate ==
  ASSUME TypeOK, LateInv, NEW w \in Workers, FrameStirs(w), ~CallbackStart(w) PROVE LateInv'
<1>th. th \in [Threads -> ThreadT] /\ w \in Threads \ {Main}
  BY Kinds DEF TypeOK, ThreadsOK
<1>types. flags \in [Conns -> FlagsT] /\ hist \in [Conns -> HistT] BY DEF TypeOK
<1>c. PICK c \in Conns : c = th[w].c
  BY DEF FrameStirs, UnpackFrame, CallbackCloses, CallbackEnd, UnpackBad, UnpackBadClose, At
<1>v. Visit(w, c) BY <1>c, FrameVisits
<1>1. ASSUME NEW i \in 1 .. Len(Script), UnpackFrame(w, i) PROVE LateInv'
  <2>1. th[w].pc = "parse" /\ th'[w].pc = "finish" /\ flags' = flags
    BY <1>1, <1>th, GotoAt DEF UnpackFrame, At
  <2>2. hist'[c].late = hist[c].late BY <1>1, <1>c, <1>types DEF UnpackFrame, HistT
  <2>3. NoRead(c) => NoRead(c)' BY <2>1 DEF NoRead
  <2> QED BY <1>th, <1>v, <2>1, <2>2, <2>3, VisitLate
<1>2. CASE CallbackCloses(w) \/ CallbackEnd(w) \/ UnpackBadClose(w)
  <2>1. th'[w] = th[w] \/ th'[w].pc = "idle"
    BY <1>2, <1>th, ReturnAt, Kinds DEF CallbackCloses, CallbackEnd, UnpackBadClose, HomePc
  <2>2. hist' = hist /\ flags[c].shut \subseteq flags'[c].shut
    BY <1>2, <1>c, <1>types DEF CallbackCloses, CallbackEnd, UnpackBadClose, FlagsT
  <2>3. NoRead(c) => NoRead(c)' BY <2>2 DEF NoRead
  <2> QED BY <1>th, <1>v, <2>1, <2>2, <2>3, VisitLate
<1>3. CASE UnpackBad(w)
  <2>1. th'[w].pc = "bad" /\ flags' = flags BY <1>3, <1>th, GotoAt DEF UnpackBad
  <2>2. hist'[c].late = hist[c].late
    <3>1. PICK x : \/ hist' = [hist EXCEPT ![c].cleared = TRUE]
                   \/ hist' = [hist EXCEPT ![c].parsed = x, ![c].cleared = TRUE]
      BY <1>3, <1>c DEF UnpackBad
    <3>2. CASE hist' = [hist EXCEPT ![c].cleared = TRUE] BY <3>2, <1>types DEF HistT
    <3>3. CASE hist' = [hist EXCEPT ![c].parsed = x, ![c].cleared = TRUE]
      BY <3>3, <1>types DEF HistT
    <3> QED BY <3>1, <3>2, <3>3
  <2>3. NoRead(c) => NoRead(c)' BY <2>1 DEF NoRead
  <2> QED BY <1>th, <1>v, <2>1, <2>2, <2>3, VisitLate
<1> QED BY <1>1, <1>2, <1>3 DEF FrameStirs

LEMMA WriterLate ==
  ASSUME TypeOK, LateInv, NEW t \in Writers, WriterStirs(t) PROVE LateInv'
<1>th. th \in [Threads -> ThreadT] /\ t \in Threads \ {Main}
  BY Kinds DEF TypeOK, ThreadsOK, Writers
<1>types. flags \in [Conns -> FlagsT] BY DEF TypeOK
<1>c. PICK c \in Conns : c = th[t].c
  BY DEF WriterStirs, WriteNothing, WriteError, WriteFail, WritePop, At
<1>v. Visit(t, c) BY <1>c, WriterVisits
<1>1. hist' = hist /\ flags[c].shut \subseteq flags'[c].shut
  BY <1>c, <1>types
     DEF WriterStirs, WriteNothing, WriteError, WriteFail, WritePop, FlagsT
<1>2. NoRead(c) => NoRead(c)' BY <1>1 DEF NoRead
<1>3. t \in Workers => th'[t].pc \in {"idle", "fail"}
  BY <1>th, GotoAt, ReturnAt, Kinds
     DEF WriterStirs, WriteNothing, WriteError, WriteFail, WritePop, WriteUnlock, HomePc
<1> QED BY <1>th, <1>v, <1>1, <1>2, <1>3, VisitLate

LEMMA LoopLate ==
  ASSUME TypeOK, LateInv, NEW l \in Loops, LoopStirs(l) PROVE LateInv'
<1>th. l \in Threads \ {Main} /\ l \notin Workers BY Kinds
<1>types. flags \in [Conns -> FlagsT] BY DEF TypeOK
<1>c. PICK c \in Conns : c = th[l].c
  BY DEF LoopStirs, read_data, ReadEnded, PushRecv, At
<1>v. Visit(l, c) BY <1>c, LoopVisits
<1>1. hist' = hist /\ flags[c].shut \subseteq flags'[c].shut
  <2>1. CASE read_data(l)
    <3>1. flags' = [flags EXCEPT ![c].shut = IF sock[c].peer = "open" THEN @
                                             ELSE @ \cup {"NOWRITE"}]
      BY <1>c, <2>1 DEF read_data
    <3>2. hist' = hist BY <2>1 DEF read_data
    <3> QED BY <1>types, <3>1, <3>2 DEF FlagsT
  <2>2. CASE ReadEnded(l) BY <1>c, <1>types, <2>2 DEF ReadEnded, FlagsT
  <2>3. CASE PushRecv(l)
    <3>1. PICK x : flags' = flags \/ flags' = [flags EXCEPT ![c].read = x]
      BY <1>c, <2>3 DEF PushRecv
    <3>2. hist' = hist BY <2>3 DEF PushRecv
    <3> QED BY <1>types, <3>1, <3>2 DEF FlagsT
  <2> QED BY <2>1, <2>2, <2>3 DEF LoopStirs
<1>2. NoRead(c) => NoRead(c)' BY <1>1 DEF NoRead
<1> QED BY <1>th, <1>v, <1>1, <1>2, VisitLate

LEMMA UserLate ==
  ASSUME TypeOK, LateInv, NEW u \in Users, close_read(u) PROVE LateInv'
<1>th. u \in Threads \ {Main} /\ u \notin Workers BY Kinds
<1>types. flags \in [Conns -> FlagsT] BY DEF TypeOK
<1>c. PICK c \in Conns : c = th[u].c BY DEF close_read, At
<1>v. Visit(u, c) BY <1>c, UserVisits
<1>1. hist' = hist /\ flags[c].shut \subseteq flags'[c].shut
  BY <1>c, <1>types DEF close_read, FlagsT
<1>2. NoRead(c) => NoRead(c)' BY <1>1 DEF NoRead
<1> QED BY <1>th, <1>v, <1>1, <1>2, VisitLate

LEMMA InitLate == ASSUME Init PROVE LateInv
BY DEF Init, LateInv, LateOK

LEMMA NextLate ==
  ASSUME TypeOK, WriteInv, ReuseInv, TaskInv, LateInv, [Next]_vars PROVE LateInv'
<1>1. CASE InputStill BY <1>1, StillLate
<1>2. CASE PeerStirs BY <1>2, PeerLate DEF PeerStirs
<1>3. CASE MainStirs
  <2>1. CASE TickRead \/ handle_update
    <3>1. PICK c \in Conns : c = th[Main].c BY <2>1, MainIsLive DEF TickRead, handle_update
    <3> QED BY <2>1, <3>1, MainLate
  <2> QED BY <1>3, <2>1, AddLate, RemoveLate, MainLate DEF MainStirs
<1>4. ASSUME NEW w \in Workers, EntryStirs(w) PROVE LateInv'
  BY <1>4, TakeLate, EntryLate, SpliceLate DEF EntryStirs
<1>5. ASSUME NEW w \in Workers, FrameStirs(w) PROVE LateInv' BY <1>5, FrameLate, CallLate
<1>6. ASSUME NEW t \in Writers, WriterStirs(t) PROVE LateInv' BY <1>6, WriterLate
<1>7. ASSUME NEW l \in Loops, LoopStirs(l) PROVE LateInv' BY <1>7, LoopLate
<1>8. ASSUME NEW u \in Users, close_read(u) PROVE LateInv' BY <1>8, UserLate
<1> QED BY <1>1, <1>2, <1>3, <1>4, <1>5, <1>6, <1>7, <1>8, StillOrStirs DEF Stirs

(* The inductive invariant about close_client and the callbacks to come.    *)
THEOREM LateCorrect == Spec => []LateInv
<1> QED BY TypeCorrect, WriteCorrect, ReuseCorrect, TasksCorrect, InitLate, NextLate, PTL DEF Spec

(* Once close_client has returned message_callback_ runs for at most two    *)
(* more frames, whatever the workers, main_thread_ and the peer do.         *)
THEOREM TwoLateCallbacks == Spec => []AtMostTwoLateCallbacks
<1>1. LateInv => AtMostTwoLateCallbacks BY DEF LateInv, LateOK, AtMostTwoLateCallbacks
<1> QED BY <1>1, LateCorrect, PTL
=============================================================================
