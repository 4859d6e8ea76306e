--------------------------- MODULE TcpCoreProofs ---------------------------
(***************************************************************************)
(* Proofs about TcpCore for every value of its constants: TypeOK is an     *)
(* invariant, and so is WriteInv, from which what push_send_pack has taken *)
(* reaches the socket in order, none lost and none twice.  The second half *)
(* is about descriptors that are used again.  What a loop, a task or a     *)
(* posted function holds names a live client for as long as it is used,    *)
(* do_remove_client finds the client it was posted for, and what a user    *)
(* pushes through a descriptor he has looked up goes astray only when the  *)
(* connection died.                                                        *)
(***************************************************************************)
EXTENDS TcpCore, SequenceTheorems, TLAPS

-----------------------------------------------------------------------------
(* A part of the state a step leaves alone keeps its shape. *)

LEMMA Frame ==
  /\ ObjOK /\ UNCHANGED objVars => ObjOK'
  /\ MapOK /\ UNCHANGED mapVars => MapOK'
  /\ MainOK /\ UNCHANGED mainVars => MainOK'
  /\ LoopOK /\ UNCHANGED loopVars => LoopOK'
  /\ ThreadsOK /\ UNCHANGED th => ThreadsOK'
<1>1. ObjOK /\ UNCHANGED objVars => ObjOK' BY DEF ObjOK, objVars
<1>2. MapOK /\ UNCHANGED mapVars => MapOK' BY DEF MapOK, mapVars
<1>3. MainOK /\ UNCHANGED mainVars => MainOK' BY DEF MainOK, mainVars
<1>4. LoopOK /\ UNCHANGED loopVars => LoopOK' BY DEF LoopOK, loopVars
<1>5. ThreadsOK /\ UNCHANGED th => ThreadsOK' BY DEF ThreadsOK, LocalOK
<1> QED BY <1>1, <1>2, <1>3, <1>4, <1>5

(* What is left of a sequence without its first n elements. *)
LEMMA DropType ==
  ASSUME NEW S, NEW s \in Seq(S), NEW n \in Nat PROVE Drop(s, n) \in Seq(S)
<1>1. n + 1 \in 1 .. Len(s) + 1 \/ n + 1 > Len(s) BY LenProperties
<1> QED BY <1>1, SubSeqProperties, LenProperties DEF Drop

(* One thread moves; it is enough to look at where it arrives. *)
LEMMA UpdOK ==
  ASSUME ThreadsOK, NEW t \in Threads, NEW r, LocalOK(t, r), th' = [th EXCEPT ![t] = r]
  PROVE  ThreadsOK'
BY DEF ThreadsOK, LocalOK

LEMMA ReturnOK == ASSUME ThreadsOK, NEW t \in Threads, Return(t) PROVE ThreadsOK'
<1>1. Home(t) \in ThreadT
  BY EmptySeq DEF Home, HomePc, ThreadT, MainPcs, WorkerPcs, LoopPcs, UserPcs, Events
<1>2. LocalOK(t, Home(t))
  BY <1>1, CoreAssumption DEF LocalOK, Home, HomePc, MainPcs, WorkerPcs, LoopPcs, UserPcs,
     TaskOps, WritePcs, Threads
<1> QED BY <1>1, <1>2, UpdOK DEF Return

LEMMA GotoOK ==
  ASSUME ThreadsOK, NEW t \in Threads, NEW p, Goto(t, p),
         LocalOK(t, [th[t] EXCEPT !.pc = p])
  PROVE  ThreadsOK'
BY UpdOK DEF Goto

LEMMA GotoWorker ==
  ASSUME ThreadsOK, NEW w \in Workers, NEW p \in WorkerPcs, Goto(w, p) PROVE ThreadsOK'
<1>1. w \in Threads /\ w \notin Loops /\ w \notin Users /\ w # Main
  BY CoreAssumption DEF Threads
<1>2. LocalOK(w, [th[w] EXCEPT !.pc = p]) BY <1>1 DEF LocalOK, ThreadsOK, ThreadT
<1> QED BY <1>1, <1>2, GotoOK

LEMMA GotoLoop ==
  ASSUME ThreadsOK, NEW l \in Loops, NEW p \in LoopPcs, Goto(l, p) PROVE ThreadsOK'
<1>1. l \in Threads /\ l \notin Workers /\ l \notin Users /\ l # Main
  BY CoreAssumption DEF Threads
<1>2. LocalOK(l, [th[l] EXCEPT !.pc = p]) BY <1>1 DEF LocalOK, ThreadsOK, ThreadT
<1> QED BY <1>1, <1>2, GotoOK

LEMMA GotoWriter ==
  ASSUME ThreadsOK, NEW t \in Workers \cup Loops, NEW p \in WritePcs, Goto(t, p)
  PROVE  ThreadsOK'
BY GotoWorker, GotoLoop DEF WorkerPcs, LoopPcs

LEMMA GotoUser ==
  ASSUME ThreadsOK, NEW u \in Users, NEW p \in UserPcs \ {"push_fd", "close_fd"}, Goto(u, p)
  PROVE  ThreadsOK'
<1>1. u \in Threads /\ u \notin Workers /\ u \notin Loops /\ u # Main
  BY CoreAssumption DEF Threads
<1>2. LocalOK(u, [th[u] EXCEPT !.pc = p]) BY <1>1 DEF LocalOK, ThreadsOK, ThreadT
<1> QED BY <1>1, <1>2, GotoOK

LEMMA GotoMain ==
  ASSUME ThreadsOK, NEW p \in MainPcs, Goto(Main, p),
         th[Main].c \in Conns \/ p \in {"idle", "scan"}
  PROVE  ThreadsOK'
<1>1. Main \in Threads /\ Main \notin Workers /\ Main \notin Loops /\ Main \notin Users
  BY CoreAssumption DEF Threads
<1>2. LocalOK(Main, [th[Main] EXCEPT !.pc = p]) BY <1>1 DEF LocalOK, ThreadsOK, ThreadT
<1> QED BY <1>1, <1>2, GotoOK

LEMMA WorkerMoves ==
  ASSUME ThreadsOK, NEW w \in Workers, NEW r \in ThreadT, r.pc \in WorkerPcs,
         th' = [th EXCEPT ![w] = r]
  PROVE  ThreadsOK'
<1>1. w \in Threads /\ w \notin Loops /\ w \notin Users /\ w # Main
  BY CoreAssumption DEF Threads
<1> QED BY <1>1, UpdOK DEF LocalOK

LEMMA LoopMoves ==
  ASSUME ThreadsOK, NEW l \in Loops, NEW r \in ThreadT, r.pc \in LoopPcs,
         th' = [th EXCEPT ![l] = r]
  PROVE  ThreadsOK'
<1>1. l \in Threads /\ l \notin Workers /\ l \notin Users /\ l # Main
  BY CoreAssumption DEF Threads
<1> QED BY <1>1, UpdOK DEF LocalOK

LEMMA WriterMoves ==
  ASSUME ThreadsOK, NEW t \in Workers \cup Loops, NEW r \in ThreadT, r.pc \in WritePcs,
         th' = [th EXCEPT ![t] = r]
  PROVE  ThreadsOK'
BY WorkerMoves, LoopMoves DEF WorkerPcs, LoopPcs

LEMMA UserMoves ==
  ASSUME ThreadsOK, NEW u \in Users, NEW r \in ThreadT, r.pc \in UserPcs,
         r.pc \in {"push_fd", "close_fd"} => r.n \in Fds, th' = [th EXCEPT ![u] = r]
  PROVE  ThreadsOK'
<1>1. u \in Threads /\ u \notin Workers /\ u \notin Loops /\ u # Main
  BY CoreAssumption DEF Threads
<1> QED BY <1>1, UpdOK DEF LocalOK

LEMMA MainMoves ==
  ASSUME ThreadsOK, NEW r \in ThreadT, r.pc \in MainPcs,
         r.pc \notin {"idle", "scan"} => r.c \in Conns, th' = [th EXCEPT ![Main] = r]
  PROVE  ThreadsOK'
<1>1. Main \in Threads /\ Main \notin Workers /\ Main \notin Loops /\ Main \notin Users
  BY CoreAssumption DEF Threads
<1> QED BY <1>1, UpdOK DEF LocalOK

LEMMA PostedOK ==
  ASSUME LoopOK, NEW l, NEW op \in FuncOps, NEW c \in Conns
  PROVE  Posted(l, [op |-> op, c |-> c]) \in [Loops -> Seq(LoopFuncT)]
<1>1. [op |-> op, c |-> c] \in LoopFuncT BY DEF LoopFuncT
<1>2. \A k \in Loops : Append(funcs_write[k], [op |-> op, c |-> c]) \in Seq(LoopFuncT)
  BY <1>1 DEF LoopOK
<1> QED BY <1>2 DEF LoopOK, Posted

-----------------------------------------------------------------------------
(* Every step keeps every variable in its type, actor by actor. *)

LEMMA PeerType ==
  ASSUME TypeOK, PeerStep PROVE TypeOK'
<1>sock. sock \in [Conns -> SockT] BY DEF TypeOK
<1>1. ASSUME NEW c \in Conns, PeerSend(c) PROVE TypeOK'
  <2>1. sock[c] \in SockT
    BY <1>sock
  <2>2. Script[sock[c].sent + 1] \in Segments
    BY <1>1, <1>sock, <2>1, CoreAssumption DEF PeerSend, SockT
  <2>3. Append(sock[c].inbox, Script[sock[c].sent + 1]) \in Seq(Segments)
    BY <2>1, <2>2 DEF SockT
  <2>4. sock[c].sent + 1 \in Nat /\ sock[c].edge \cup {"IN"} \in SUBSET
     Events
    BY <2>1 DEF SockT, Events
  <2>5. \A s \in Seq(Segments), n \in Nat, e \in SUBSET Events : [sock[c]
     EXCEPT !.inbox = s, !.sent = n, !.edge = e] \in SockT
    BY <2>1 DEF SockT
  <2> DEFINE newSock == [sock[c] EXCEPT !.inbox = Append(sock[c].inbox,
                 Script[sock[c].sent + 1]), !.sent = sock[c].sent + 1, !.edge
                 = sock[c].edge \cup {"IN"}]
  <2>6. newSock \in SockT
    BY <1>sock, <2>1, <2>2, <2>3, <2>4, <2>5 DEF SockT
  <2>7. sock' = [sock EXCEPT ![c] = newSock]
    BY <1>1, <1>sock DEF PeerSend
  <2>8. sock' \in [Conns -> SockT]
    BY <1>sock, <2>6, <2>7
  <2>9. UNCHANGED <<objVars, mapVars, mainVars, loopVars, th, flags, lists,
     mutex, handle, task_list, calls, hist>>
    BY <1>1 DEF PeerSend, objVars, mapVars, mainVars, loopVars
  <2> QED BY <2>8, <2>9, Frame DEF TypeOK
<1>2. ASSUME NEW c \in Conns, NEW how \in PeerMayEnd, PeerEnd(c, how) PROVE
   TypeOK'
  <2>1. sock' \in [Conns -> SockT]
    <3> DEFINE ended == [sock[c] EXCEPT !.peer = how,
                                        !.edge = sock[c].edge \cup {"IN", "OUT"}]
    <3>1. sock[c] \in SockT /\ how \in {"open", "fin", "reset"}
      BY <1>sock, CoreAssumption
    <3>2. ended \in SockT
      BY <3>1 DEF SockT, Events
    <3>3. sock' = [sock EXCEPT ![c] = ended]
      BY <1>2, <1>sock DEF PeerEnd
    <3> QED BY <1>sock, <3>2, <3>3
  <2>2. UNCHANGED <<objVars, mapVars, mainVars, loopVars, th, flags, lists,
     mutex, handle, task_list, calls, hist>>
    BY <1>2 DEF PeerEnd, objVars, mapVars, mainVars, loopVars
  <2> QED BY <2>1, <2>2, Frame DEF TypeOK
<1>3. ASSUME NEW c \in Conns, PeerDrain(c) PROVE TypeOK'
  <2>1. sock' \in [Conns -> SockT]
    <3> DEFINE drained == [sock[c] EXCEPT !.room = SndRoom,
                 !.edge = IF sock[c].room = 0 THEN sock[c].edge \cup {"OUT"}
                          ELSE sock[c].edge]
    <3>1. sock[c] \in SockT /\ SndRoom \in Nat
      BY <1>sock, CoreAssumption
    <3>2. drained \in SockT
      BY <3>1 DEF SockT, Events
    <3>3. sock' = [sock EXCEPT ![c] = drained]
      BY <1>3, <1>sock DEF PeerDrain
    <3> QED BY <1>sock, <3>2, <3>3
  <2>2. UNCHANGED <<objVars, mapVars, mainVars, loopVars, th, flags, lists,
     mutex, handle, task_list, calls, hist>>
    BY <1>3 DEF PeerDrain, objVars, mapVars, mainVars, loopVars
  <2> QED BY <2>1, <2>2, Frame DEF TypeOK
<1> QED BY <1>1, <1>2, <1>3 DEF PeerStep

LEMMA AcceptType ==
  ASSUME TypeOK, NEW c \in Conns, NEW f \in Fds, Accept(c, f) PROVE TypeOK'
<1>Obj. ObjOK BY DEF TypeOK
<1>Map. MapOK BY DEF TypeOK
<1>Main. MainOK BY DEF TypeOK
<1>1. ASSUME Accept(c, f) PROVE TypeOK'
  <2>1. ObjOK'
    BY <1>1, <1>Obj DEF Accept, ObjOK
  <2>2. MapOK'
    BY <1>1, <1>Map DEF Accept, MapOK, insert_fd
  <2>3. MainOK'
    BY <1>1, <1>Main DEF Accept, MainOK, MainFuncT, TaskT
  <2>4. UNCHANGED <<loopVars, th, flags, lists, mutex, handle, task_list,
     sock, calls, hist>>
    BY <1>1 DEF Accept, objVars, mapVars, mainVars, loopVars
  <2> QED BY <2>1, <2>2, <2>3, <2>4, Frame DEF TypeOK
<1> QED BY <1>1

LEMMA PostedType ==
  ASSUME TypeOK, PostedStep PROVE TypeOK'
<1>Obj. ObjOK BY DEF TypeOK
<1>Map. MapOK BY DEF TypeOK
<1>Main. MainOK BY DEF TypeOK
<1>Loop. LoopOK BY DEF TypeOK
<1>flags. flags \in [Conns -> FlagsT] BY DEF TypeOK
<1>lists. lists \in [Conns -> ListsT] BY DEF TypeOK
<1>handle. handle \in [Conns -> HandleT] BY DEF TypeOK
<1>1. ASSUME NEW c \in Conns, NEW l \in Loops, DoAddClient(c, l) PROVE
   TypeOK'
  <2>1. Tail(main_funcs) \in Seq(MainFuncT)
    BY <1>1, <1>Main DEF DoAddClient, MainOK
  <2>2. [op |-> "add", c |-> c] \in LoopFuncT
    BY <2>1 DEF LoopFuncT, FuncOps
  <2>3. ObjOK'
    BY <1>1, <1>Obj, <2>1, <2>2 DEF DoAddClient, ObjOK
  <2>4. MapOK'
    BY <1>1, <1>Map, <2>1, <2>2 DEF DoAddClient, MapOK
  <2>5. MainOK'
    BY <1>1, <1>Main, <2>1, <2>2 DEF DoAddClient, MainOK
  <2>6. handle' \in [Conns -> HandleT]
    BY <1>1, <1>handle, <2>1, <2>2 DEF DoAddClient, HandleT, Events
  <2>7. LoopOK'
    BY <1>1, <1>Loop, <2>1, <2>2 DEF DoAddClient, LoopOK, Posted
  <2>8. UNCHANGED <<th, flags, lists, mutex, task_list, sock, calls, hist>>
    BY <1>1 DEF DoAddClient, objVars, mapVars, mainVars, loopVars
  <2> QED BY <2>3, <2>4, <2>5, <2>6, <2>7, <2>8, Frame DEF TypeOK
<1>2. ASSUME DoRemoveClient PROVE TypeOK'
  <2>1. Head(main_funcs) \in MainFuncT /\ Tail(main_funcs) \in Seq(MainFuncT)
    BY <1>2, <1>Main DEF DoRemoveClient, MainOK
  <2>2. NoLists \in ListsT /\ NoFlags \in FlagsT
    BY <1>flags, <1>lists, <2>1 DEF NoLists, NoFlags, ListsT, FlagsT
  <2>3. ObjOK'
    BY <1>2, <1>Obj, <2>1, <2>2 DEF DoRemoveClient, ObjOK
  <2>4. MapOK'
    BY <1>2, <1>Map, <2>1, <2>2 DEF DoRemoveClient, MapOK
  <2>5. MainOK'
    BY <1>2, <1>Main, <2>1, <2>2 DEF DoRemoveClient, MainOK
  <2>6. flags' \in [Conns -> FlagsT]
    BY <1>2, <1>flags, <2>1, <2>2 DEF DoRemoveClient
  <2>7. lists' \in [Conns -> ListsT]
    BY <1>2, <1>lists, <2>1, <2>2 DEF DoRemoveClient
  <2>8. UNCHANGED <<loopVars, th, mutex, handle, task_list, sock, calls,
     hist>>
    BY <1>2 DEF DoRemoveClient, objVars, mapVars, mainVars, loopVars
  <2> QED BY <2>3, <2>4, <2>5, <2>6, <2>7, <2>8, Frame DEF TypeOK
<1> QED BY <1>1, <1>2 DEF PostedStep

LEMMA TickType ==
  ASSUME TypeOK, TickStep PROVE TypeOK'
<1>Map. MapOK BY DEF TypeOK
<1>Main. MainOK BY DEF TypeOK
<1>Threads. ThreadsOK BY DEF TypeOK
<1>flags. flags \in [Conns -> FlagsT] BY DEF TypeOK
<1>task. task_list \in Seq(TaskT) BY DEF TypeOK
<1>1. ASSUME TickStart PROVE TypeOK'
  <2>1. Main \in Threads
    BY DEF Threads
  <2>2. MainOK'
    BY <1>1, <1>Map, <1>Main, <2>1 DEF TickStart, MainOK, MainFuncT, TaskT,
       MapOK
  <2>3. ThreadsOK'
    BY <1>1, <1>Threads, <2>1, GotoMain DEF TickStart, MainPcs, WorkerPcs,
       LoopPcs, UserPcs, WritePcs, TaskOps
  <2>4. UNCHANGED <<objVars, mapVars, loopVars, flags, lists, mutex, handle,
     task_list, sock, calls, hist>>
    BY <1>1 DEF TickStart, objVars, mapVars, mainVars, loopVars
  <2> QED BY <2>2, <2>3, <2>4, Frame DEF TypeOK
<1>2. ASSUME TickEnd PROVE TypeOK'
  <2>1. Main \in Threads
    BY DEF Threads
  <2>2. MainOK'
    BY <1>2, <1>Main, <2>1 DEF TickEnd, MainOK, MainFuncT, TaskT
  <2>3. task_list' \in Seq(TaskT)
    BY <1>2, <1>Main, <1>task, <2>1 DEF TickEnd, accept_task_list, MainOK
  <2>4. ThreadsOK'
    BY <1>2, <1>Threads, <2>1, ReturnOK DEF TickEnd
  <2>5. UNCHANGED <<objVars, mapVars, loopVars, flags, lists, mutex, handle,
     sock, calls, hist>>
    BY <1>2 DEF TickEnd, objVars, mapVars, mainVars, loopVars
  <2> QED BY <2>2, <2>3, <2>4, <2>5, Frame DEF TypeOK
<1>3. ASSUME NEW c \in Conns, TickClient(c) PROVE TypeOK'
  <2>1. Main \in Threads
    BY DEF Threads
  <2>2. [op |-> "close", c |-> c] \in TaskT
    BY <2>1 DEF TaskT, TaskOps
  <2>3. fun_list' = fun_list \/ fun_list' = Append(fun_list, [op |-> "close",
     c |-> c])
    BY <1>3, <2>1, <2>2 DEF TickClient
  <2>4. todo' = todo \ {c} /\ main_funcs' = main_funcs
    BY <1>3, <2>1, <2>2, <2>3 DEF TickClient
  <2>5. MainOK'
    BY <1>Main, <2>1, <2>2, <2>3, <2>4 DEF MainOK
  <2> DEFINE newFlags == [flags[c] EXCEPT !.closed = TRUE]
  <2>6. newFlags \in FlagsT
    BY <1>flags DEF FlagsT
  <2>7. flags' = flags \/ flags' = [flags EXCEPT ![c] = newFlags]
    BY <1>3, <1>flags DEF TickClient, set_close
  <2>8. flags' \in [Conns -> FlagsT]
    BY <1>flags, <2>6, <2>7
  <2> DEFINE next == [th[Main] EXCEPT !.pc = "test_read", !.c = c]
  <2>9. Main \in Threads /\ th[Main] \in ThreadT
    BY <1>Threads DEF ThreadsOK, Threads
  <2>10. next \in ThreadT /\ next.pc = "test_read" /\ next.c = c
    BY <2>9, <2>1 DEF ThreadT, MainPcs, WorkerPcs, LoopPcs, UserPcs,
       WritePcs, TaskOps
  <2>11. th' = th \/ th' = [th EXCEPT ![Main] = next]
    BY <1>3, <2>9 DEF TickClient
  <2> HIDE DEF next
  <2>12. ThreadsOK'
    BY <1>Threads, <2>11, <2>10, <2>1, MainMoves, Frame DEF MainPcs
  <2>13. UNCHANGED <<objVars, mapVars, loopVars, lists, mutex, handle,
     task_list, sock, calls, hist>>
    BY <1>3 DEF TickClient, objVars, mapVars, mainVars, loopVars
  <2> QED BY <2>5, <2>8, <2>12, <2>13, Frame DEF TypeOK
<1>4. ASSUME TickRead PROVE TypeOK'
  <2>1. Main \in Threads
    BY DEF Threads
  <2>2. th[Main].c \in Conns
    BY <1>4, <1>Threads, <2>1 DEF TickRead, ThreadsOK, LocalOK
  <2>3. ThreadsOK'
    BY <1>4, <1>Threads, <2>1, <2>2, GotoMain DEF TickRead, MainPcs,
       WorkerPcs, LoopPcs, UserPcs, WritePcs, TaskOps
  <2>4. UNCHANGED <<objVars, mapVars, mainVars, loopVars, flags, lists,
     mutex, handle, task_list, sock, calls, hist>>
    BY <1>4 DEF TickRead, objVars, mapVars, mainVars, loopVars
  <2> QED BY <2>3, <2>4, Frame DEF TypeOK
<1>5. ASSUME handle_update PROVE TypeOK'
  <2>1. Main \in Threads
    BY DEF Threads
  <2>2. th[Main].c \in Conns
    BY <1>5, <1>Threads, <2>1 DEF handle_update, ThreadsOK, LocalOK
  <2>3. [op |-> "unpack", c |-> th[Main].c] \in TaskT
    BY <2>1, <2>2 DEF TaskT, TaskOps
  <2>4. MainOK'
    BY <1>5, <1>Main, <2>1, <2>2, <2>3 DEF handle_update, MainOK, MainFuncT,
       TaskT
  <2>5. flags' \in [Conns -> FlagsT]
    <3> DEFINE marked == [flags[th[Main].c] EXCEPT !.read =
                            flags[th[Main].c].read \cup {"HANDLE"}]
    <3>1. marked \in FlagsT
      BY <1>flags, <2>2 DEF FlagsT
    <3>2. flags' = [flags EXCEPT ![th[Main].c] = marked]
      BY <1>5, <1>flags, <2>2 DEF handle_update
    <3> QED BY <1>flags, <3>1, <3>2
  <2>6. ThreadsOK'
    BY <1>5, <1>Threads, <2>1, <2>2, <2>3, GotoMain DEF handle_update,
       MainPcs, WorkerPcs, LoopPcs, UserPcs, WritePcs, TaskOps
  <2>7. UNCHANGED <<objVars, mapVars, loopVars, lists, mutex, handle,
     task_list, sock, calls, hist>>
    BY <1>5 DEF handle_update, objVars, mapVars, mainVars, loopVars
  <2> QED BY <2>4, <2>5, <2>6, <2>7, Frame DEF TypeOK
<1>6. ASSUME TickWrite PROVE TypeOK'
  <2>1. Main \in Threads
    BY DEF Threads
  <2>2. th[Main].c \in Conns
    BY <1>6, <1>Threads, <2>1 DEF TickWrite, ThreadsOK, LocalOK
  <2> DEFINE next1 == [th[Main] EXCEPT !.pc = "mark_write"]
            next2 == [th[Main] EXCEPT !.pc = "scan", !.c = NoConn]
  <2>3. Main \in Threads /\ th[Main] \in ThreadT
    BY <1>Threads DEF ThreadsOK, Threads
  <2>4. next1 \in ThreadT /\ next1.pc = "mark_write" /\ next1.c = th[Main].c
    BY <2>3, <2>1 DEF ThreadT, MainPcs, WorkerPcs, LoopPcs, UserPcs,
       WritePcs, TaskOps
  <2>5. next2 \in ThreadT /\ next2.pc = "scan"
    BY <2>3, <2>1 DEF ThreadT, MainPcs, WorkerPcs, LoopPcs, UserPcs,
       WritePcs, TaskOps
  <2>6. th' = [th EXCEPT ![Main] = next1] \/ th' = [th EXCEPT ![Main] =
     next2]
    BY <1>6, <2>3 DEF TickWrite
  <2> HIDE DEF next1, next2
  <2>7. ThreadsOK'
    BY <1>Threads, <2>2, <2>6, <2>4, <2>5, <2>1, MainMoves DEF MainPcs
  <2>8. UNCHANGED <<objVars, mapVars, mainVars, loopVars, flags, lists,
     mutex, handle, task_list, sock, calls, hist>>
    BY <1>6 DEF TickWrite, objVars, mapVars, mainVars, loopVars
  <2> QED BY <2>7, <2>8, Frame DEF TypeOK
<1>7. ASSUME handle_write_update PROVE TypeOK'
  <2>1. Main \in Threads
    BY DEF Threads
  <2>2. th[Main].c \in Conns
    BY <1>7, <1>Threads, <2>1 DEF handle_write_update, ThreadsOK, LocalOK
  <2>3. [op |-> "send", c |-> th[Main].c] \in TaskT
    BY <2>1, <2>2 DEF TaskT, TaskOps
  <2>4. MainOK'
    BY <1>7, <1>Main, <2>1, <2>2, <2>3 DEF handle_write_update, MainOK,
       MainFuncT, TaskT
  <2>5. flags' \in [Conns -> FlagsT]
    <3> DEFINE marked == [flags[th[Main].c] EXCEPT !.write =
                            flags[th[Main].c].write \cup {"HANDLE"}]
    <3>1. marked \in FlagsT
      BY <1>flags, <2>2 DEF FlagsT
    <3>2. flags' = [flags EXCEPT ![th[Main].c] = marked]
      BY <1>7, <1>flags, <2>2 DEF handle_write_update
    <3> QED BY <1>flags, <3>1, <3>2
  <2>6. ThreadsOK'
    <3> DEFINE scanning == [th[Main] EXCEPT !.pc = "scan", !.c = NoConn]
    <3>1. th[Main] \in ThreadT
      BY <1>Threads, <2>1 DEF ThreadsOK
    <3>2. scanning \in ThreadT /\ scanning.pc = "scan"
      BY <3>1 DEF ThreadT, MainPcs
    <3>3. th' = [th EXCEPT ![Main] = scanning]
      BY <1>7, <3>1 DEF handle_write_update
    <3> HIDE DEF scanning
    <3> QED BY <1>Threads, <3>2, <3>3, MainMoves DEF MainPcs
  <2>7. UNCHANGED <<objVars, mapVars, loopVars, lists, mutex, handle,
     task_list, sock, calls, hist>>
    BY <1>7 DEF handle_write_update, objVars, mapVars, mainVars, loopVars
  <2> QED BY <2>4, <2>5, <2>6, <2>7, Frame DEF TypeOK
<1> QED BY <1>1, <1>2, <1>3, <1>4, <1>5, <1>6, <1>7 DEF TickStep

LEMMA WriteType ==
  ASSUME TypeOK, NEW t \in Workers \cup Loops, WriteStep(t) PROVE TypeOK'
<1>Loop. LoopOK BY DEF TypeOK
<1>Threads. ThreadsOK BY DEF TypeOK
<1>flags. flags \in [Conns -> FlagsT] BY DEF TypeOK
<1>lists. lists \in [Conns -> ListsT] BY DEF TypeOK
<1>mutex. mutex \in [Conns -> MutexT] BY DEF TypeOK
<1>handle. handle \in [Conns -> HandleT] BY DEF TypeOK
<1>sock. sock \in [Conns -> SockT] BY DEF TypeOK
<1>hist. hist \in [Conns -> HistT] BY DEF TypeOK
<1>1. ASSUME WriteBusy(t) PROVE TypeOK'
  <2>1. th[t].c \in Conns
    BY <1>1 DEF WriteBusy, At
  <2>2. t \in Threads
    BY <2>1 DEF Threads
  <2>3. ThreadsOK'
    BY <1>1, <1>Threads, <2>1, <2>2, ReturnOK DEF WriteBusy
  <2>4. UNCHANGED <<objVars, mapVars, mainVars, loopVars, flags, lists,
     mutex, handle, task_list, sock, calls, hist>>
    BY <1>1 DEF WriteBusy, objVars, mapVars, mainVars, loopVars
  <2> QED BY <2>3, <2>4, Frame DEF TypeOK
<1>2. ASSUME WriteLock(t) PROVE TypeOK'
  <2>1. th[t].c \in Conns
    BY <1>2 DEF WriteLock, At
  <2>2. t \in Threads
    BY <2>1 DEF Threads
  <2>3. mutex' \in [Conns -> MutexT]
    BY <1>2, <1>mutex, <2>1, <2>2 DEF WriteLock, MutexT
  <2>4. ThreadsOK'
    BY <1>2, <1>Threads, <2>1, <2>2, GotoWriter DEF WriteLock, MainPcs,
       WorkerPcs, LoopPcs, UserPcs, WritePcs, TaskOps
  <2>5. UNCHANGED <<objVars, mapVars, mainVars, loopVars, flags, lists,
     handle, task_list, sock, calls, hist>>
    BY <1>2 DEF WriteLock, objVars, mapVars, mainVars, loopVars
  <2> QED BY <2>3, <2>4, <2>5, Frame DEF TypeOK
<1>3. ASSUME WriteNothing(t) PROVE TypeOK'
  <2>1. th[t].c \in Conns
    BY <1>3 DEF WriteNothing, At
  <2>2. t \in Threads
    BY <2>1 DEF Threads
  <2>3. flags' \in [Conns -> FlagsT]
    BY <1>3, <1>flags, <2>1, <2>2 DEF WriteNothing, FlagsT, ForceIfReady
  <2>4. mutex' \in [Conns -> MutexT]
    BY <1>3, <1>mutex, <2>1, <2>2 DEF WriteNothing, MutexT, WriteUnlock
  <2>5. ThreadsOK'
    BY <1>3, <1>Threads, <2>1, <2>2, ReturnOK DEF WriteNothing, WriteUnlock
  <2>6. UNCHANGED <<objVars, mapVars, mainVars, loopVars, lists, handle,
     task_list, sock, calls, hist>>
    BY <1>3 DEF WriteNothing, objVars, mapVars, mainVars, loopVars
  <2> QED BY <2>3, <2>4, <2>5, <2>6, Frame DEF TypeOK
<1>4. ASSUME WriteGather(t) PROVE TypeOK'
  <2>1. th[t].c \in Conns
    BY <1>4 DEF WriteGather, At
  <2>2. t \in Threads
    BY <2>1 DEF Threads
  <2>3. AllOut(th[t].c) \in Seq(Packets)
    BY <1>lists, <2>1, <2>2 DEF AllOut, ListsT
  <2> DEFINE newFlags == [flags[th[t].c] EXCEPT !.write = {}]
  <2>4. newFlags \in FlagsT
    BY <1>flags, <2>1 DEF FlagsT
  <2>5. flags' = [flags EXCEPT ![th[t].c] = newFlags]
    BY <1>4, <1>flags, <2>1 DEF WriteGather
  <2>6. flags' \in [Conns -> FlagsT]
    BY <1>flags, <2>4, <2>5
  <2>7. lists' \in [Conns -> ListsT]
    BY <1>4, <1>lists, <2>1, <2>2, <2>3, EmptySeq DEF WriteGather, ListsT
  <2> DEFINE next == [th[t] EXCEPT !.pc = "writev", !.iov = AllOut(th[t].c)]
  <2>8. t \in Threads /\ th[t] \in ThreadT
    BY <1>Threads DEF ThreadsOK, Threads
  <2>9. next \in ThreadT /\ next.pc = "writev"
    BY <2>8, <2>1, <2>3 DEF ThreadT, MainPcs, WorkerPcs, LoopPcs, UserPcs,
       WritePcs, TaskOps
  <2>10. th' = [th EXCEPT ![t] = next]
    BY <1>4, <2>8 DEF WriteGather
  <2> HIDE DEF next
  <2>11. ThreadsOK'
    BY <1>Threads, <2>10, <2>9, <2>1, <2>3, WriterMoves DEF WritePcs
  <2>12. UNCHANGED <<objVars, mapVars, mainVars, loopVars, mutex, handle,
     task_list, sock, calls, hist>>
    BY <1>4 DEF WriteGather, objVars, mapVars, mainVars, loopVars
  <2> QED BY <2>6, <2>7, <2>11, <2>12, Frame DEF TypeOK
<1>5. ASSUME WriteError(t) PROVE TypeOK'
  <2>1. th[t].c \in Conns
    BY <1>5 DEF WriteError, At
  <2>2. t \in Threads
    BY <2>1 DEF Threads
  <2>3. flags' \in [Conns -> FlagsT]
    BY <1>5, <1>flags, <2>1, <2>2 DEF WriteError, FlagsT
  <2>4. ThreadsOK'
    BY <1>5, <1>Threads, <2>1, <2>2, GotoWriter DEF WriteError, MainPcs,
       WorkerPcs, LoopPcs, UserPcs, WritePcs, TaskOps
  <2>5. UNCHANGED <<objVars, mapVars, mainVars, loopVars, lists, mutex,
     handle, task_list, sock, calls, hist>>
    BY <1>5 DEF WriteError, objVars, mapVars, mainVars, loopVars
  <2> QED BY <2>3, <2>4, <2>5, Frame DEF TypeOK
<1>6. ASSUME WriteFail(t) PROVE TypeOK'
  <2>1. th[t].c \in Conns
    BY <1>6 DEF WriteFail, At
  <2>2. t \in Threads
    BY <2>1 DEF Threads
  <2>3. flags' \in [Conns -> FlagsT]
    BY <1>6, <1>flags, <2>1, <2>2 DEF WriteFail, FlagsT, set_update
  <2>4. mutex' \in [Conns -> MutexT]
    BY <1>6, <1>mutex, <2>1, <2>2 DEF WriteFail, MutexT, WriteUnlock
  <2>5. ThreadsOK'
    BY <1>6, <1>Threads, <2>1, <2>2, ReturnOK DEF WriteFail, WriteUnlock
  <2>6. UNCHANGED <<objVars, mapVars, mainVars, loopVars, lists, handle,
     task_list, sock, calls, hist>>
    BY <1>6 DEF WriteFail, objVars, mapVars, mainVars, loopVars
  <2> QED BY <2>3, <2>4, <2>5, <2>6, Frame DEF TypeOK
<1>7. ASSUME WriteAgain(t) PROVE TypeOK'
  <2>1. th[t].c \in Conns
    BY <1>7 DEF WriteAgain, At
  <2>2. t \in Threads
    BY <2>1 DEF Threads
  <2>3. mutex' \in [Conns -> MutexT]
    BY <1>7, <1>mutex, <2>1, <2>2 DEF WriteAgain, MutexT, WriteUnlock
  <2>4. ThreadsOK'
    BY <1>7, <1>Threads, <2>1, <2>2, ReturnOK DEF WriteAgain, WriteUnlock
  <2>5. UNCHANGED <<objVars, mapVars, mainVars, loopVars, flags, lists,
     handle, task_list, sock, calls, hist>>
    BY <1>7 DEF WriteAgain, objVars, mapVars, mainVars, loopVars
  <2> QED BY <2>3, <2>4, <2>5, Frame DEF TypeOK
<1>8. ASSUME WriteSome(t) PROVE TypeOK'
  <2>1. th[t].c \in Conns
    BY <1>8 DEF WriteSome, At
  <2>2. t \in Threads
    BY <2>1 DEF Threads
  <2>3. th[t].iov \in Seq(Packets)
    BY <1>Threads, <2>1, <2>2 DEF ThreadsOK, ThreadT
  <2>4. Len(th[t].iov) \in Nat
    BY <2>1, <2>2, <2>3
  <2>5. sock[th[t].c].room \in Nat
    BY <1>sock, <2>1, <2>2, <2>3, <2>4 DEF SockT
  <2>6. Min2(sock[th[t].c].room, Len(th[t].iov)) \in Nat /\
     Min2(sock[th[t].c].room, Len(th[t].iov)) \in 0 .. Len(th[t].iov)
    BY <1>sock, <2>1, <2>2, <2>3, <2>4, <2>5 DEF Min2
  <2>7. sock[th[t].c].room - Min2(sock[th[t].c].room, Len(th[t].iov)) \in Nat
    BY <1>sock, <2>1, <2>2, <2>3, <2>4, <2>5, <2>6 DEF Min2
  <2>8. SubSeq(th[t].iov, 1, Min2(sock[th[t].c].room, Len(th[t].iov))) \in
     Seq(Packets)
    BY <1>sock, <2>1, <2>2, <2>3, <2>4, <2>5, <2>6, <2>7, SubSeqProperties
  <2>9. hist[th[t].c].wire \o SubSeq(th[t].iov, 1, Min2(sock[th[t].c].room,
     Len(th[t].iov))) \in Seq(Packets)
    BY <1>hist, <2>1, <2>2, <2>3, <2>4, <2>5, <2>6, <2>7, <2>8 DEF HistT
  <2> DEFINE newSock == [sock[th[t].c] EXCEPT !.room = sock[th[t].c].room -
                 Min2(sock[th[t].c].room, Len(th[t].iov))]
  <2>10. newSock \in SockT
    BY <1>sock, <2>1, <2>3, <2>4, <2>5, <2>6, <2>7 DEF SockT
  <2>11. sock' = [sock EXCEPT ![th[t].c] = newSock]
    BY <1>8, <1>sock, <2>1 DEF WriteSome
  <2>12. sock' \in [Conns -> SockT]
    BY <1>sock, <2>10, <2>11
  <2>13. hist' \in [Conns -> HistT]
    BY <1>8, <1>hist, <2>1, <2>2, <2>3, <2>4, <2>5, <2>6, <2>7, <2>8, <2>9
       DEF WriteSome, HistT
  <2> DEFINE next1 == [th[t] EXCEPT !.n = Min2(sock[th[t].c].room,
                 Len(th[t].iov)), !.iov = <<>>, !.pc = "watch_on"]
            next2 == [th[t] EXCEPT !.n = Min2(sock[th[t].c].room,
                 Len(th[t].iov)), !.iov = <<>>, !.pc = "pop"]
  <2>14. t \in Threads /\ th[t] \in ThreadT
    BY <1>Threads DEF ThreadsOK, Threads
  <2>15. next1 \in ThreadT /\ next1.pc = "watch_on"
    BY <2>14, <2>1, <2>3, <2>4, <2>5, <2>6, EmptySeq DEF ThreadT, MainPcs,
       WorkerPcs, LoopPcs, UserPcs, WritePcs, TaskOps
  <2>16. next2 \in ThreadT /\ next2.pc = "pop"
    BY <2>14, <2>1, <2>3, <2>4, <2>5, <2>6, EmptySeq DEF ThreadT, MainPcs,
       WorkerPcs, LoopPcs, UserPcs, WritePcs, TaskOps
  <2>17. th' = [th EXCEPT ![t] = next1] \/ th' = [th EXCEPT ![t] = next2]
    BY <1>8, <2>14 DEF WriteSome
  <2> HIDE DEF next1, next2
  <2>18. ThreadsOK'
    BY <1>Threads, <2>17, <2>15, <2>16, <2>1, <2>3, <2>4, <2>5, <2>6,
       WriterMoves DEF WritePcs
  <2>19. UNCHANGED <<objVars, mapVars, mainVars, loopVars, flags, lists,
     mutex, handle, task_list, calls>>
    BY <1>8 DEF WriteSome, objVars, mapVars, mainVars, loopVars
  <2> QED BY <2>12, <2>13, <2>18, <2>19, Frame DEF TypeOK
<1>9. ASSUME WritePop(t) PROVE TypeOK'
  <2>1. th[t].c \in Conns
    BY <1>9 DEF WritePop, At
  <2>2. t \in Threads
    BY <2>1 DEF Threads
  <2>3. lists[th[t].c].send \in Seq(Packets)
    BY <1>lists, <2>1, <2>2 DEF ListsT
  <2>4. th[t].n \in Nat
    BY <1>Threads, <2>1, <2>2, <2>3 DEF ThreadsOK, ThreadT
  <2>5. Min2(th[t].n, Len(lists[th[t].c].send)) \in Nat
    BY <1>lists, <2>1, <2>2, <2>3, <2>4, LenProperties DEF Min2
  <2>6. Drop(lists[th[t].c].send, Min2(th[t].n, Len(lists[th[t].c].send)))
     \in Seq(Packets)
    BY <2>3, <2>5, DropType
  <2>7. lists' \in [Conns -> ListsT]
    BY <1>9, <1>lists, <2>1, <2>2, <2>3, <2>4, <2>5, <2>6 DEF WritePop,
       ListsT
  <2> DEFINE newFlags == [flags[th[t].c] EXCEPT !.read = @ \cup
                 ForceIfReady(th[t].c)]
  <2>8. newFlags \in FlagsT
    BY <1>flags, <2>1 DEF FlagsT, ForceIfReady
  <2>9. flags' = [flags EXCEPT ![th[t].c] = newFlags]
    BY <1>9, <1>flags, <2>1 DEF WritePop
  <2>10. flags' \in [Conns -> FlagsT]
    BY <1>flags, <2>8, <2>9
  <2>11. mutex' \in [Conns -> MutexT]
    BY <1>9, <1>mutex, <2>1, <2>2, <2>3, <2>4, <2>5, <2>6 DEF WritePop,
       MutexT, WriteUnlock
  <2>12. ThreadsOK'
    BY <1>9, <1>Threads, <2>1, <2>2, <2>3, <2>4, <2>5, <2>6, ReturnOK DEF
       WritePop, WriteUnlock
  <2>13. UNCHANGED <<objVars, mapVars, mainVars, loopVars, handle, task_list,
     sock, calls, hist>>
    BY <1>9 DEF WritePop, objVars, mapVars, mainVars, loopVars
  <2> QED BY <2>7, <2>10, <2>11, <2>12, <2>13, Frame DEF TypeOK
<1>10. ASSUME WatchWriteLoad(t) PROVE TypeOK'
  <2>1. th[t].c \in Conns
    BY <1>10 DEF WatchWriteLoad, At
  <2>2. handle[th[t].c].want \in SUBSET Events
    BY <1>handle, <2>1 DEF HandleT
  <2>3. th[t].pc = "watch_off" => t \in Loops
    BY <1>Threads, <2>1, <2>2, CoreAssumption DEF ThreadsOK, LocalOK,
       Threads, WorkerPcs, WritePcs, TaskOps
  <2> DEFINE next1 == [th[t] EXCEPT !.pc = "store_on", !.ev =
                 handle[th[t].c].want]
            next2 == [th[t] EXCEPT !.pc = "pop"]
            next3 == [th[t] EXCEPT !.pc = "store_off", !.ev =
                 handle[th[t].c].want]
            next4 == [th[t] EXCEPT !.pc = "try_lock"]
  <2>4. t \in Threads /\ th[t] \in ThreadT
    BY <1>Threads DEF ThreadsOK, Threads
  <2>5. next1 \in ThreadT /\ next1.pc = "store_on"
    BY <2>4, <2>1, <2>2 DEF ThreadT, MainPcs, WorkerPcs, LoopPcs, UserPcs,
       WritePcs, TaskOps
  <2>6. next2 \in ThreadT /\ next2.pc = "pop"
    BY <2>4 DEF ThreadT, MainPcs, WorkerPcs, LoopPcs, UserPcs, WritePcs,
       TaskOps
  <2>7. next3 \in ThreadT /\ next3.pc = "store_off"
    BY <2>4, <2>1, <2>2 DEF ThreadT, MainPcs, WorkerPcs, LoopPcs, UserPcs,
       WritePcs, TaskOps
  <2>8. next4 \in ThreadT /\ next4.pc = "try_lock"
    BY <2>4 DEF ThreadT, MainPcs, WorkerPcs, LoopPcs, UserPcs, WritePcs,
       TaskOps
  <2>9. (\E r \in {next1, next2} : th' = [th EXCEPT ![t] = r]) \/ (t \in
     Loops /\ \E r \in {next3, next4} : th' = [th EXCEPT ![t] = r])
    BY <1>10, <2>4, <2>3 DEF WatchWriteLoad, At
  <2> HIDE DEF next1, next2, next3, next4
  <2>10. ThreadsOK'
    BY <1>Threads, <2>3, <2>9, <2>5, <2>6, <2>7, <2>8, <2>1, <2>2,
       WriterMoves, LoopMoves DEF WritePcs, LoopPcs
  <2>11. UNCHANGED <<objVars, mapVars, mainVars, loopVars, flags, lists,
     mutex, handle, task_list, sock, calls, hist>>
    BY <1>10 DEF WatchWriteLoad, objVars, mapVars, mainVars, loopVars
  <2> QED BY <2>10, <2>11, Frame DEF TypeOK
<1>11. ASSUME WatchWriteOn(t) PROVE TypeOK'
  <2>1. th[t].c \in Conns
    BY <1>11 DEF WatchWriteOn, At
  <2>2. t \in Threads
    BY <2>1 DEF Threads
  <2>3. [op |-> "update", c |-> th[t].c] \in LoopFuncT
    BY <2>1, <2>2 DEF LoopFuncT, FuncOps
  <2>4. th[t].ev \in SUBSET Events
    BY <1>Threads, <2>1, <2>2, <2>3 DEF ThreadsOK, ThreadT
  <2>5. handle' \in [Conns -> HandleT]
    BY <1>11, <1>handle, <2>1, <2>2, <2>3, <2>4 DEF WatchWriteOn, HandleT,
       Events
  <2> DEFINE newFlags == [flags[th[t].c] EXCEPT !.waiting = TRUE]
  <2>6. newFlags \in FlagsT
    BY <1>flags, <2>1 DEF FlagsT
  <2>7. flags' = [flags EXCEPT ![th[t].c] = newFlags]
    BY <1>11, <1>flags, <2>1 DEF WatchWriteOn
  <2>8. flags' \in [Conns -> FlagsT]
    BY <1>flags, <2>6, <2>7
  <2>9. handler_map' = handler_map /\ batch' = batch /\ funcs_read' =
     funcs_read /\ funcs_write' = Posted(loop_of[th[t].c], [op |-> "update",
     c |-> th[t].c])
    BY <1>11 DEF WatchWriteOn, update_handle
  <2>10. LoopOK'
    BY <1>Loop, <2>1, <2>3, <2>9, PostedOK DEF LoopOK, FuncOps
  <2> DEFINE next == [th[t] EXCEPT !.pc = "pop", !.ev = {}]
  <2>11. t \in Threads /\ th[t] \in ThreadT
    BY <1>Threads DEF ThreadsOK, Threads
  <2>12. next \in ThreadT /\ next.pc = "pop"
    BY <2>11 DEF ThreadT, MainPcs, WorkerPcs, LoopPcs, UserPcs, WritePcs,
       TaskOps
  <2>13. th' = [th EXCEPT ![t] = next]
    BY <1>11, <2>11 DEF WatchWriteOn
  <2> HIDE DEF next
  <2>14. ThreadsOK'
    BY <1>Threads, <2>13, <2>12, WriterMoves DEF WritePcs
  <2>15. UNCHANGED <<objVars, mapVars, mainVars, lists, mutex, task_list,
     sock, calls, hist>>
    BY <1>11 DEF WatchWriteOn, objVars, mapVars, mainVars, loopVars
  <2> QED BY <2>5, <2>8, <2>10, <2>14, <2>15, Frame DEF TypeOK
<1> QED BY <1>1, <1>2, <1>3, <1>4, <1>5, <1>6, <1>7, <1>8, <1>9, <1>10, <1>11
   DEF WriteStep

LEMMA WorkerType ==
  ASSUME TypeOK, NEW w \in Workers, WorkerStep(w) \/ CallbackCloses(w) PROVE TypeOK'
<1>Map. MapOK BY DEF TypeOK
<1>Loop. LoopOK BY DEF TypeOK
<1>Threads. ThreadsOK BY DEF TypeOK
<1>flags. flags \in [Conns -> FlagsT] BY DEF TypeOK
<1>lists. lists \in [Conns -> ListsT] BY DEF TypeOK
<1>mutex. mutex \in [Conns -> MutexT] BY DEF TypeOK
<1>task. task_list \in Seq(TaskT) BY DEF TypeOK
<1>calls. calls \in [Conns -> CallsT] BY DEF TypeOK
<1>hist. hist \in [Conns -> HistT] BY DEF TypeOK
<1>1. ASSUME RequireTask(w) PROVE TypeOK'
  <2>1. w \in Threads
    BY DEF Threads
  <2>2. Head(task_list) \in TaskT /\ Tail(task_list) \in Seq(TaskT)
    BY <1>1, <1>task, <2>1 DEF RequireTask
  <2>3. Head(task_list).op \in TaskOps /\ Head(task_list).c \in Conns
    BY <1>task, <2>1, <2>2 DEF TaskT
  <2>4. task_list' \in Seq(TaskT)
    BY <1>1, <1>task, <2>1, <2>2, <2>3 DEF RequireTask
  <2> DEFINE next == [th[w] EXCEPT !.pc = Head(task_list).op, !.c =
                 Head(task_list).c]
  <2>5. w \in Threads /\ th[w] \in ThreadT
    BY <1>Threads DEF ThreadsOK, Threads
  <2>6. next \in ThreadT /\ next.pc = Head(task_list).op
    BY <2>5, <2>2, <2>3 DEF ThreadT, MainPcs, WorkerPcs, LoopPcs, UserPcs,
       WritePcs, TaskOps
  <2>7. th' = [th EXCEPT ![w] = next]
    BY <1>1, <2>5 DEF RequireTask
  <2> HIDE DEF next
  <2>8. ThreadsOK'
    BY <1>Threads, <2>7, <2>6, <2>2, <2>3, WorkerMoves DEF WorkerPcs,
       WritePcs, TaskOps
  <2>9. UNCHANGED <<objVars, mapVars, mainVars, loopVars, flags, lists,
     mutex, handle, sock, calls, hist>>
    BY <1>1 DEF RequireTask, objVars, mapVars, mainVars, loopVars
  <2> QED BY <2>4, <2>8, <2>9, Frame DEF TypeOK
<1>2. ASSUME req_close(w) PROVE TypeOK'
  <2>1. th[w].c \in Conns
    BY <1>2 DEF req_close, At
  <2>2. w \in Threads
    BY <2>1 DEF Threads
  <2>3. [op |-> "close", c |-> th[w].c] \in LoopFuncT
    BY <2>1, <2>2 DEF LoopFuncT, FuncOps
  <2>4. handler_map' = handler_map /\ batch' = batch /\ funcs_read' =
     funcs_read /\ funcs_write' = Posted(loop_of[th[w].c], [op |-> "close", c
     |-> th[w].c])
    BY <1>2 DEF req_close
  <2>5. LoopOK'
    BY <1>Loop, <2>1, <2>3, <2>4, PostedOK DEF LoopOK, FuncOps
  <2>6. ThreadsOK'
    BY <1>2, <1>Threads, <2>1, <2>2, <2>3, ReturnOK DEF req_close
  <2>7. UNCHANGED <<objVars, mapVars, mainVars, flags, lists, mutex, handle,
     task_list, sock, calls, hist>>
    BY <1>2 DEF req_close, objVars, mapVars, mainVars, loopVars
  <2> QED BY <2>5, <2>6, <2>7, Frame DEF TypeOK
<1>3. ASSUME timeout_send(w) PROVE TypeOK'
  <2>1. th[w].c \in Conns
    BY <1>3 DEF timeout_send, At
  <2>2. w \in Threads
    BY <2>1 DEF Threads
  <2>3. ThreadsOK'
    BY <1>3, <1>Threads, <2>1, <2>2, ReturnOK, GotoWorker DEF timeout_send,
       WorkerPcs, WritePcs
  <2>4. UNCHANGED <<objVars, mapVars, mainVars, loopVars, flags, lists,
     mutex, handle, task_list, sock, calls, hist>>
    BY <1>3 DEF timeout_send, objVars, mapVars, mainVars, loopVars
  <2> QED BY <2>3, <2>4, Frame DEF TypeOK
<1>4. ASSUME handle_unpack(w) PROVE TypeOK'
  <2>1. th[w].c \in Conns
    BY <1>4 DEF handle_unpack, At
  <2>2. w \in Threads
    BY <2>1 DEF Threads
  <2>3. mutex' \in [Conns -> MutexT]
    BY <1>4, <1>mutex, <2>1, <2>2 DEF handle_unpack, MutexT
  <2>4. ThreadsOK'
    BY <1>4, <1>Threads, <2>1, <2>2, ReturnOK, GotoWorker DEF handle_unpack,
       WorkerPcs
  <2>5. UNCHANGED <<objVars, mapVars, mainVars, loopVars, flags, lists,
     handle, task_list, sock, calls, hist>>
    BY <1>4 DEF handle_unpack, objVars, mapVars, mainVars, loopVars
  <2> QED BY <2>3, <2>4, <2>5, Frame DEF TypeOK
<1>5. ASSUME UnpackNothing(w) PROVE TypeOK'
  <2>1. th[w].c \in Conns
    BY <1>5 DEF UnpackNothing, At
  <2>2. w \in Threads
    BY <2>1 DEF Threads
  <2>3. flags' \in [Conns -> FlagsT]
    BY <1>5, <1>flags, <2>1, <2>2 DEF UnpackNothing, FlagsT, ForceIfReady
  <2>4. mutex' \in [Conns -> MutexT]
    BY <1>5, <1>mutex, <2>1, <2>2 DEF UnpackNothing, MutexT
  <2>5. ThreadsOK'
    BY <1>5, <1>Threads, <2>1, <2>2, ReturnOK DEF UnpackNothing
  <2>6. UNCHANGED <<objVars, mapVars, mainVars, loopVars, lists, handle,
     task_list, sock, calls, hist>>
    BY <1>5 DEF UnpackNothing, objVars, mapVars, mainVars, loopVars
  <2> QED BY <2>3, <2>4, <2>5, <2>6, Frame DEF TypeOK
<1>6. ASSUME UnpackSplice(w) PROVE TypeOK'
  <2>1. th[w].c \in Conns
    BY <1>6 DEF UnpackSplice, At
  <2>2. w \in Threads
    BY <2>1 DEF Threads
  <2>3. AllIn(th[w].c) \in Seq(Segments)
    BY <1>lists, <2>1, <2>2 DEF AllIn, ListsT
  <2> DEFINE newFlags == [flags[th[w].c] EXCEPT !.read = @ \cap {"CLOSE"}]
  <2>4. newFlags \in FlagsT
    BY <1>flags, <2>1 DEF FlagsT
  <2>5. flags' = [flags EXCEPT ![th[w].c] = newFlags]
    BY <1>6, <1>flags, <2>1 DEF UnpackSplice
  <2>6. flags' \in [Conns -> FlagsT]
    BY <1>flags, <2>4, <2>5
  <2>7. lists' \in [Conns -> ListsT]
    BY <1>6, <1>lists, <2>1, <2>2, <2>3, EmptySeq DEF UnpackSplice, ListsT
  <2>8. ThreadsOK'
    BY <1>6, <1>Threads, <2>1, <2>2, <2>3, GotoWorker DEF UnpackSplice,
       MainPcs, WorkerPcs, LoopPcs, UserPcs, WritePcs, TaskOps
  <2>9. UNCHANGED <<objVars, mapVars, mainVars, loopVars, mutex, handle,
     task_list, sock, calls, hist>>
    BY <1>6 DEF UnpackSplice, objVars, mapVars, mainVars, loopVars
  <2> QED BY <2>6, <2>7, <2>8, <2>9, Frame DEF TypeOK
<1>7. ASSUME UnpackPartial(w) PROVE TypeOK'
  <2>1. th[w].c \in Conns
    BY <1>7 DEF UnpackPartial, At
  <2>2. w \in Threads
    BY <2>1 DEF Threads
  <2>3. hist[th[w].c].parsed \o lists[th[w].c].unpack \in Seq(Segments)
    BY <1>lists, <1>hist, <2>1, <2>2 DEF HistT, ListsT
  <2>4. hist' \in [Conns -> HistT]
    BY <1>7, <1>hist, <2>1, <2>2, <2>3 DEF UnpackPartial, HistT
  <2>5. lists' \in [Conns -> ListsT]
    BY <1>7, <1>lists, <2>1, <2>2, <2>3, EmptySeq DEF UnpackPartial, ListsT
  <2>6. flags' \in [Conns -> FlagsT]
    <3> DEFINE forced == [flags[th[w].c] EXCEPT !.read =
                            flags[th[w].c].read \cup ForceIfReady(th[w].c)]
    <3>1. forced \in FlagsT
      BY <1>flags, <2>1 DEF FlagsT, ForceIfReady
    <3>2. flags' = [flags EXCEPT ![th[w].c] = forced]
      BY <1>7, <1>flags, <2>1 DEF UnpackPartial
    <3> QED BY <1>flags, <3>1, <3>2
  <2>7. mutex' \in [Conns -> MutexT]
    BY <1>7, <1>mutex, <2>1, <2>2, <2>3 DEF UnpackPartial, MutexT
  <2>8. ThreadsOK'
    BY <1>7, <1>Threads, <2>1, <2>2, <2>3, ReturnOK DEF UnpackPartial
  <2>9. UNCHANGED <<objVars, mapVars, mainVars, loopVars, handle, task_list,
     sock, calls>>
    BY <1>7 DEF UnpackPartial, objVars, mapVars, mainVars, loopVars
  <2> QED BY <2>4, <2>5, <2>6, <2>7, <2>8, <2>9, Frame DEF TypeOK
<1>8. ASSUME NEW i \in 1 .. Len(Script), UnpackFrame(w, i) PROVE TypeOK'
  <2>1. th[w].c \in Conns
    BY <1>8 DEF UnpackFrame, At
  <2>2. w \in Threads
    BY <2>1 DEF Threads
  <2>3. lists[th[w].c].unpack \in Seq(Segments)
    BY <1>lists, <2>1, <2>2 DEF ListsT
  <2>4. i \in 1 .. Len(lists[th[w].c].unpack) /\ i \in Nat
    BY <1>8, <1>lists, <2>1, <2>2, <2>3, LenProperties DEF UnpackFrame, Stops
  <2>5. SubSeq(lists[th[w].c].unpack, 1, i) \in Seq(Segments)
    BY <1>lists, <2>1, <2>2, <2>3, <2>4, SubSeqProperties
  <2>6. hist[th[w].c].parsed \o SubSeq(lists[th[w].c].unpack, 1, i) \in
     Seq(Segments)
    BY <1>hist, <2>1, <2>2, <2>3, <2>4, <2>5 DEF HistT
  <2>7. Drop(lists[th[w].c].unpack, i) \in Seq(Segments)
    BY <2>3, <2>4, DropType
  <2>8. hist' \in [Conns -> HistT]
    BY <1>8, <1>hist, <2>1, <2>2, <2>3, <2>4, <2>5, <2>6, <2>7 DEF
       UnpackFrame, HistT
  <2>9. lists' \in [Conns -> ListsT]
    BY <1>8, <1>lists, <2>1, <2>2, <2>3, <2>4, <2>5, <2>6, <2>7 DEF
       UnpackFrame, ListsT
  <2>10. ThreadsOK'
    BY <1>8, <1>Threads, <2>1, <2>2, <2>3, <2>4, <2>5, <2>6, <2>7, GotoWorker
       DEF UnpackFrame, MainPcs, WorkerPcs, LoopPcs, UserPcs, WritePcs,
       TaskOps
  <2>11. UNCHANGED <<objVars, mapVars, mainVars, loopVars, flags, mutex,
     handle, task_list, sock, calls>>
    BY <1>8 DEF UnpackFrame, objVars, mapVars, mainVars, loopVars
  <2> QED BY <2>8, <2>9, <2>10, <2>11, Frame DEF TypeOK
<1>9. ASSUME CallbackStart(w) PROVE TypeOK'
  <2>1. th[w].c \in Conns
    BY <1>9 DEF CallbackStart, At
  <2>2. w \in Threads
    BY <2>1 DEF Threads
  <2>3. (IF "NOREAD" \in flags[th[w].c].shut THEN hist[th[w].c].late + 1 ELSE
     hist[th[w].c].late) \in Nat
    BY <1>hist, <2>1, <2>2 DEF HistT
  <2>4. mutex' \in [Conns -> MutexT]
    BY <1>9, <1>mutex, <2>1, <2>2, <2>3 DEF CallbackStart, MutexT
  <2> DEFINE newHist == [hist[th[w].c] EXCEPT !.late = (IF "NOREAD" \in
                 flags[th[w].c].shut THEN hist[th[w].c].late + 1 ELSE
                 hist[th[w].c].late)]
  <2>5. newHist \in HistT
    BY <1>hist, <2>1, <2>3 DEF HistT
  <2>6. hist' = [hist EXCEPT ![th[w].c] = newHist]
    BY <1>9, <1>hist, <2>1 DEF CallbackStart
  <2>7. hist' \in [Conns -> HistT]
    BY <1>hist, <2>5, <2>6
  <2>8. ThreadsOK'
    BY <1>9, <1>Threads, <2>1, <2>2, <2>3, GotoWorker DEF CallbackStart,
       MainPcs, WorkerPcs, LoopPcs, UserPcs, WritePcs, TaskOps
  <2>9. UNCHANGED <<objVars, mapVars, mainVars, loopVars, flags, lists,
     handle, task_list, sock, calls>>
    BY <1>9 DEF CallbackStart, objVars, mapVars, mainVars, loopVars
  <2> QED BY <2>4, <2>7, <2>8, <2>9, Frame DEF TypeOK
<1>10. ASSUME CallbackEnd(w) PROVE TypeOK'
  <2>1. th[w].c \in Conns
    BY <1>10 DEF CallbackEnd, At
  <2>2. w \in Threads
    BY <2>1 DEF Threads
  <2>3. flags' \in [Conns -> FlagsT]
    BY <1>10, <1>flags, <2>1, <2>2 DEF CallbackEnd, FlagsT, set_update
  <2>4. mutex' \in [Conns -> MutexT]
    BY <1>10, <1>mutex, <2>1, <2>2 DEF CallbackEnd, MutexT
  <2>5. ThreadsOK'
    BY <1>10, <1>Threads, <2>1, <2>2, ReturnOK DEF CallbackEnd
  <2>6. UNCHANGED <<objVars, mapVars, mainVars, loopVars, lists, handle,
     task_list, sock, calls, hist>>
    BY <1>10 DEF CallbackEnd, objVars, mapVars, mainVars, loopVars
  <2> QED BY <2>3, <2>4, <2>5, <2>6, Frame DEF TypeOK
<1>11. ASSUME UnpackBad(w) PROVE TypeOK'
  <2>1. th[w].c \in Conns
    BY <1>11 DEF UnpackBad, At
  <2>2. w \in Threads
    BY <2>1 DEF Threads
  <2>3. lists[th[w].c].unpack \in Seq(Segments)
    BY <1>lists, <2>1, <2>2 DEF ListsT
  <2>4. \A i \in Stops(lists[th[w].c].unpack) : hist[th[w].c].parsed \o
     SubSeq(lists[th[w].c].unpack, 1, i) \in Seq(Segments)
    BY <1>hist, <2>1, <2>2, <2>3, SubSeqProperties DEF Stops, HistT
  <2>5. NoLists \in ListsT
    BY <1>lists, <2>1, <2>2, <2>3, <2>4, EmptySeq DEF NoLists, ListsT
  <2> DEFINE cleared == [hist[th[w].c] EXCEPT !.cleared = TRUE]
             parsed(i) == [hist[th[w].c] EXCEPT !.parsed = hist[th[w].c].parsed \o
                             SubSeq(lists[th[w].c].unpack, 1, i), !.cleared = TRUE]
  <2>6. \/ hist' = [hist EXCEPT ![th[w].c] = cleared]
        \/ \E i \in Stops(lists[th[w].c].unpack) :
             hist' = [hist EXCEPT ![th[w].c] = parsed(i)]
    BY <1>11, <1>hist, <2>1 DEF UnpackBad
  <2>7. /\ cleared \in HistT
        /\ \A i \in Stops(lists[th[w].c].unpack) : parsed(i) \in HistT
    BY <1>hist, <2>1, <2>4 DEF HistT
  <2> HIDE DEF cleared, parsed
  <2>8. hist' \in [Conns -> HistT]
    BY <1>hist, <2>6, <2>7
  <2>9. lists' \in [Conns -> ListsT]
    BY <1>11, <1>lists, <2>1, <2>5 DEF UnpackBad
  <2>10. ThreadsOK'
    BY <1>11, <1>Threads, <2>1, GotoWorker DEF UnpackBad, WorkerPcs
  <2>11. UNCHANGED <<objVars, mapVars, mainVars, loopVars, flags, mutex,
     handle, task_list, sock, calls>>
    BY <1>11 DEF UnpackBad, objVars, mapVars, mainVars, loopVars
  <2> QED BY <2>8, <2>9, <2>10, <2>11, Frame DEF TypeOK
<1>12. ASSUME UnpackBadClose(w) PROVE TypeOK'
  <2>1. th[w].c \in Conns
    BY <1>12 DEF UnpackBadClose, At
  <2>2. w \in Threads
    BY <2>1 DEF Threads
  <2>3. flags' \in [Conns -> FlagsT]
    BY <1>12, <1>flags, <2>1, <2>2 DEF UnpackBadClose, FlagsT
  <2>4. mutex' \in [Conns -> MutexT]
    BY <1>12, <1>mutex, <2>1, <2>2 DEF UnpackBadClose, MutexT
  <2>5. ThreadsOK'
    BY <1>12, <1>Threads, <2>1, <2>2, ReturnOK DEF UnpackBadClose
  <2>6. UNCHANGED <<objVars, mapVars, mainVars, loopVars, lists, handle,
     task_list, sock, calls, hist>>
    BY <1>12 DEF UnpackBadClose, objVars, mapVars, mainVars, loopVars
  <2> QED BY <2>3, <2>4, <2>5, <2>6, Frame DEF TypeOK
<1>13. ASSUME CallbackCloses(w) PROVE TypeOK'
  <2>1. th[w].c \in Conns
    BY <1>13 DEF CallbackCloses, At
  <2>2. w \in Threads
    BY <2>1 DEF Threads
  <2>3. calls[th[w].c].close < MaxClose /\ calls' = [calls EXCEPT
     ![th[w].c].close = @ + 1]
    BY <1>13 DEF CallbackCloses
  <2>4. calls' \in [Conns -> CallsT]
    <3>1. calls[th[w].c].close + 1 \in 0 .. MaxClose
      BY <1>calls, <2>1, <2>3, CoreAssumption DEF CallsT
    <3>2. [calls[th[w].c] EXCEPT !.close = @ + 1] \in CallsT
      BY <1>calls, <2>1, <3>1 DEF CallsT
    <3>3. calls' = [calls EXCEPT ![th[w].c] = [calls[th[w].c] EXCEPT !.close = @ + 1]]
      BY <2>3
    <3> QED BY <1>calls, <2>1, <3>2, <3>3
  <2>5. flags' \in [Conns -> FlagsT]
    <3>1. flags' = [flags EXCEPT ![th[w].c].shut = @ \cup {"NOREAD"}]
      BY <1>13, Zenon DEF CallbackCloses
    <3>2. flags[th[w].c].shut \cup {"NOREAD"} \subseteq {"NOREAD", "NOWRITE"}
      BY <1>flags, <2>1 DEF FlagsT
    <3> QED BY <1>flags, <2>1, <3>1, <3>2 DEF FlagsT
  <2>6. MapOK'
    BY <1>13, <1>Map, <2>1, <2>2 DEF CallbackCloses, MapOK
  <2>7. UNCHANGED <<objVars, mainVars, loopVars, th, lists, mutex, handle,
     task_list, sock, hist>>
    BY <1>13 DEF CallbackCloses, objVars, mapVars, mainVars, loopVars
  <2> QED BY <2>4, <2>5, <2>6, <2>7, Frame DEF TypeOK
<1> QED BY <1>1, <1>2, <1>3, <1>4, <1>5, <1>6, <1>7, <1>8, <1>9, <1>10,
   <1>11, <1>12, <1>13, TypeOK, WriteType DEF WorkerStep

LEMMA LoopType ==
  ASSUME TypeOK, NEW l \in Loops, LoopStep(l) PROVE TypeOK'
<1>Main. MainOK BY DEF TypeOK
<1>Loop. LoopOK BY DEF TypeOK
<1>Threads. ThreadsOK BY DEF TypeOK
<1>flags. flags \in [Conns -> FlagsT] BY DEF TypeOK
<1>lists. lists \in [Conns -> ListsT] BY DEF TypeOK
<1>handle. handle \in [Conns -> HandleT] BY DEF TypeOK
<1>sock. sock \in [Conns -> SockT] BY DEF TypeOK
<1>1. ASSUME LoopSplice(l) PROVE TypeOK'
  <2>1. l \in Threads
    BY DEF Threads
  <2>2. funcs_read[l] \o funcs_write[l] \in Seq(LoopFuncT)
    BY <1>Loop, <2>1 DEF LoopOK
  <2>3. <<>> \in Seq(LoopFuncT)
    BY <2>1, <2>2
  <2>4. handler_map' = handler_map /\ batch' = batch /\ funcs_read' =
     [funcs_read EXCEPT ![l] = @ \o funcs_write[l]] /\ funcs_write' =
     [funcs_write EXCEPT ![l] = <<>>]
    BY <1>1 DEF LoopSplice
  <2>5. LoopOK'
    BY <1>Loop, <2>3, <2>4 DEF LoopOK
  <2>6. ThreadsOK'
    BY <1>1, <1>Threads, <2>1, <2>2, <2>3, GotoLoop DEF LoopSplice, MainPcs,
       WorkerPcs, LoopPcs, UserPcs, WritePcs, TaskOps
  <2>7. UNCHANGED <<objVars, mapVars, mainVars, flags, lists, mutex, handle,
     task_list, sock, calls, hist>>
    BY <1>1 DEF LoopSplice, objVars, mapVars, mainVars, loopVars
  <2> QED BY <2>5, <2>6, <2>7, Frame DEF TypeOK
<1>2. ASSUME do_add_handle(l) PROVE TypeOK'
  <2>1. l \in Threads
    BY DEF Threads
  <2>2. funcs_read[l] \in Seq(LoopFuncT) /\ funcs_read[l] # <<>>
    BY <1>2, <1>Loop, <2>1 DEF do_add_handle, NextFunc, LoopOK
  <2>3. Head(funcs_read[l]) \in LoopFuncT /\ Tail(funcs_read[l]) \in
     Seq(LoopFuncT)
    BY <2>1, <2>2
  <2>4. Head(funcs_read[l]).c \in Conns
    BY <2>1, <2>2, <2>3 DEF LoopFuncT
  <2>5. handler_map' = handler_map \/ handler_map' = [handler_map EXCEPT ![l]
     = [handler_map[l] EXCEPT ![fd[Head(funcs_read[l]).c]] =
     Head(funcs_read[l]).c]]
    BY <1>2, <1>Loop, <2>1, <2>2, <2>3, <2>4 DEF do_add_handle, LoopOK
  <2>6. [handler_map[l] EXCEPT ![fd[Head(funcs_read[l]).c]] =
     Head(funcs_read[l]).c] \in [Fds -> Conns \cup {NoConn}]
    BY <1>Loop, <2>1, <2>2, <2>3, <2>4, <2>5 DEF LoopOK
  <2>7. handler_map' \in [Loops -> [Fds -> Conns \cup {NoConn}]]
    BY <1>Loop, <2>5, <2>6 DEF LoopOK
  <2>8. funcs_read' = [funcs_read EXCEPT ![l] = Tail(@)] /\ UNCHANGED
     <<funcs_write, batch>>
    BY <1>2, <2>1, <2>2, <2>3, <2>4, <2>5, <2>6, <2>7 DEF do_add_handle,
       FuncDone
  <2>9. LoopOK'
    BY <1>Loop, <2>3, <2>7, <2>8 DEF LoopOK
  <2> DEFINE newHandle == [handle[Head(funcs_read[l]).c] EXCEPT !.reg =
                 handle[Head(funcs_read[l]).c].want]
  <2>10. newHandle \in HandleT
    BY <1>handle, <2>2, <2>3, <2>4 DEF HandleT
  <2>11. handle' = handle \/ handle' = [handle EXCEPT
     ![Head(funcs_read[l]).c] = newHandle]
    BY <1>2, <1>handle, <2>2, <2>3, <2>4 DEF do_add_handle, Register
  <2>12. handle' \in [Conns -> HandleT]
    BY <1>handle, <2>10, <2>11
  <2> DEFINE newSock == [sock[Head(funcs_read[l]).c] EXCEPT !.edge =
                 Ready(Head(funcs_read[l]).c) \cap
                 handle[Head(funcs_read[l]).c].want]
  <2>13. newSock \in SockT
    BY <1>sock, <2>2, <2>3, <2>4 DEF SockT, Ready, Events
  <2>14. sock' = sock \/ sock' = [sock EXCEPT ![Head(funcs_read[l]).c] =
     newSock]
    BY <1>2, <1>sock, <2>2, <2>3, <2>4 DEF do_add_handle, Register
  <2>15. sock' \in [Conns -> SockT]
    BY <1>sock, <2>13, <2>14
  <2>16. UNCHANGED <<objVars, mapVars, mainVars, th, flags, lists, mutex,
     task_list, calls, hist>>
    BY <1>2 DEF do_add_handle, objVars, mapVars, mainVars, loopVars
  <2> QED BY <2>9, <2>12, <2>15, <2>16, Frame DEF TypeOK
<1>3. ASSUME AddHandleFails(l) PROVE TypeOK'
  <2>1. l \in Threads
    BY DEF Threads
  <2>2. funcs_read[l] \in Seq(LoopFuncT) /\ funcs_read[l] # <<>>
    BY <1>3, <1>Loop, <2>1 DEF AddHandleFails, NextFunc, LoopOK
  <2>3. Head(funcs_read[l]) \in LoopFuncT /\ Tail(funcs_read[l]) \in
     Seq(LoopFuncT)
    BY <2>1, <2>2
  <2>4. Head(funcs_read[l]).c \in Conns
    BY <2>1, <2>2, <2>3 DEF LoopFuncT
  <2>5. LoopOK'
    BY <1>3, <1>Loop, <2>1, <2>2, <2>3, <2>4 DEF AddHandleFails, LoopOK,
       FuncDone
  <2>6. UNCHANGED <<objVars, mapVars, mainVars, th, flags, lists, mutex,
     handle, task_list, sock, calls, hist>>
    BY <1>3 DEF AddHandleFails, objVars, mapVars, mainVars, loopVars
  <2> QED BY <2>5, <2>6, Frame DEF TypeOK
<1>4. ASSUME do_update_handle(l) PROVE TypeOK'
  <2>1. l \in Threads
    BY DEF Threads
  <2>2. funcs_read[l] \in Seq(LoopFuncT) /\ funcs_read[l] # <<>>
    BY <1>4, <1>Loop, <2>1 DEF do_update_handle, NextFunc, LoopOK
  <2>3. Head(funcs_read[l]) \in LoopFuncT /\ Tail(funcs_read[l]) \in
     Seq(LoopFuncT)
    BY <2>1, <2>2
  <2>4. Head(funcs_read[l]).c \in Conns
    BY <2>1, <2>2, <2>3 DEF LoopFuncT
  <2>5. (handle' = handle /\ sock' = sock) \/ \E h : handle' = [handle EXCEPT
     ![h].reg = handle[h].want] /\ sock' = [sock EXCEPT ![h].edge = Ready(h)
     \cap handle[h].want]
    BY <1>4, <1>handle, <2>1, <2>2, <2>3, <2>4 DEF do_update_handle, Register
  <2>6. \A h \in Conns : [handle[h] EXCEPT !.reg = handle[h].want] \in
     HandleT
    BY <1>handle DEF HandleT
  <2>7. \A h \in Conns : [sock[h] EXCEPT !.edge = Ready(h) \cap
     handle[h].want] \in SockT
    BY <1>sock DEF SockT, Ready, Events
  <2>8. LoopOK'
    BY <1>4, <1>Loop, <2>1, <2>2, <2>3, <2>4, <2>5, <2>6, <2>7 DEF
       do_update_handle, LoopOK, FuncDone
  <2>9. handle' \in [Conns -> HandleT]
    BY <1>handle, <2>5, <2>6
  <2>10. sock' \in [Conns -> SockT]
    BY <1>sock, <2>5, <2>7
  <2>11. UNCHANGED <<objVars, mapVars, mainVars, th, flags, lists, mutex,
     task_list, calls, hist>>
    BY <1>4 DEF do_update_handle, objVars, mapVars, mainVars, loopVars
  <2> QED BY <2>8, <2>9, <2>10, <2>11, Frame DEF TypeOK
<1>5. ASSUME close(l) PROVE TypeOK'
  <2>1. l \in Threads
    BY DEF Threads
  <2>2. funcs_read[l] \in Seq(LoopFuncT) /\ funcs_read[l] # <<>>
    BY <1>5, <1>Loop, <2>1 DEF close, NextFunc, LoopOK
  <2>3. Head(funcs_read[l]) \in LoopFuncT /\ Tail(funcs_read[l]) \in
     Seq(LoopFuncT)
    BY <2>1, <2>2
  <2>4. Head(funcs_read[l]).c \in Conns
    BY <2>1, <2>2, <2>3 DEF LoopFuncT
  <2>5. [op |-> "remove", c |-> Head(funcs_read[l]).c] \in MainFuncT
    BY <2>1, <2>2, <2>3, <2>4 DEF MainFuncT
  <2>6. LoopOK'
    <3>1. funcs_read' \in [Loops -> Seq(LoopFuncT)]
      BY <1>5, <1>Loop, <2>3 DEF close, LoopOK, FuncDone
    <3>2. handler_map' \in [Loops -> [Fds -> Conns \cup {NoConn}]]
      BY <1>5, <1>Loop DEF close, LoopOK, EraseHandle
    <3>3. UNCHANGED <<funcs_write, batch>>
      BY <1>5 DEF close
    <3> QED BY <1>Loop, <3>1, <3>2, <3>3 DEF LoopOK
  <2>7. MainOK'
    BY <1>5, <1>Main, <2>1, <2>2, <2>3, <2>4, <2>5 DEF close, MainOK
  <2>8. UNCHANGED <<objVars, mapVars, th, flags, lists, mutex, handle,
     task_list, sock, calls, hist>>
    BY <1>5 DEF close, objVars, mapVars, mainVars, loopVars
  <2> QED BY <2>6, <2>7, <2>8, Frame DEF TypeOK
<1>6. ASSUME loop_io(l) PROVE TypeOK'
  <2>1. l \in Threads
    BY DEF Threads
  <2>2. LoopOK'
    <3>1. \A c \in Conns : [c |-> c, ev |-> Ready(c) \cap handle[c].reg] \in EventT
      BY DEF EventT, Ready, Events
    <3>2. batch' \in [Loops -> SUBSET EventT]
      BY <1>6, <1>Loop, <3>1 DEF loop_io, LoopOK
    <3>3. UNCHANGED <<handler_map, funcs_write, funcs_read>>
      BY <1>6 DEF loop_io
    <3> QED BY <1>Loop, <3>2, <3>3 DEF LoopOK
  <2>3. sock' \in [Conns -> SockT]
    <3>1. \A c \in Conns : sock[c] \in SockT /\ [sock[c] EXCEPT !.edge = {}] \in SockT
      BY <1>sock DEF SockT
    <3> QED BY <1>6, <3>1 DEF loop_io
  <2>4. ThreadsOK'
    BY <1>6, <1>Threads, <2>1, GotoLoop DEF loop_io, MainPcs, WorkerPcs,
       LoopPcs, UserPcs, WritePcs, TaskOps
  <2>5. UNCHANGED <<objVars, mapVars, mainVars, flags, lists, mutex, handle,
     task_list, calls, hist>>
    BY <1>6 DEF loop_io, objVars, mapVars, mainVars, loopVars
  <2> QED BY <2>2, <2>3, <2>4, <2>5, Frame DEF TypeOK
<1>7. ASSUME NEW e \in batch[l], handle_event(l, e) PROVE TypeOK'
  <2>1. l \in Threads
    BY DEF Threads
  <2>2. e \in EventT
    BY <1>Loop, <2>1 DEF LoopOK
  <2>3. e.c \in Conns /\ e.ev \in SUBSET Events
    BY <2>1, <2>2 DEF EventT
  <2>4. LoopOK'
    BY <1>7, <1>Loop, <2>1, <2>2, <2>3 DEF handle_event, LoopOK
  <2> DEFINE next1 == [th[l] EXCEPT !.pc = "read_data", !.c = e.c, !.ev =
                 e.ev]
            next2 == [th[l] EXCEPT !.pc = "watch_off", !.c = e.c]
  <2>5. l \in Threads /\ th[l] \in ThreadT
    BY <1>Threads DEF ThreadsOK, Threads
  <2>6. next1 \in ThreadT /\ next1.pc = "read_data"
    BY <2>5, <2>3 DEF ThreadT, MainPcs, WorkerPcs, LoopPcs, UserPcs,
       WritePcs, TaskOps
  <2>7. next2 \in ThreadT /\ next2.pc = "watch_off"
    BY <2>5, <2>3 DEF ThreadT, MainPcs, WorkerPcs, LoopPcs, UserPcs,
       WritePcs, TaskOps
  <2>8. th' = th \/ th' = [th EXCEPT ![l] = next1] \/ th' = [th EXCEPT ![l] =
     next2]
    BY <1>7, <2>5 DEF handle_event
  <2> HIDE DEF next1, next2
  <2>9. ThreadsOK'
    BY <1>Threads, <2>8, <2>6, <2>7, <2>3, LoopMoves, Frame DEF LoopPcs,
       WritePcs
  <2>10. UNCHANGED <<objVars, mapVars, mainVars, flags, lists, mutex, handle,
     task_list, sock, calls, hist>>
    BY <1>7 DEF handle_event, objVars, mapVars, mainVars, loopVars
  <2> QED BY <2>4, <2>9, <2>10, Frame DEF TypeOK
<1>8. ASSUME read_data(l) PROVE TypeOK'
  <2>1. th[l].c \in Conns
    BY <1>8 DEF read_data, At
  <2>2. l \in Threads
    BY <2>1 DEF Threads
  <2>3. sock[th[l].c].inbox \in Seq(Segments)
    BY <1>sock, <2>1, <2>2 DEF SockT
  <2>4. sock' \in [Conns -> SockT]
    BY <1>8, <1>sock, <2>1, <2>2, <2>3, EmptySeq DEF read_data, SockT
  <2> DEFINE newFlags == [flags[th[l].c] EXCEPT !.shut = IF
                 sock[th[l].c].peer = "open" THEN @ ELSE @ \cup {"NOWRITE"}]
  <2>5. newFlags \in FlagsT
    BY <1>flags, <2>1 DEF FlagsT
  <2>6. flags' = [flags EXCEPT ![th[l].c] = newFlags]
    BY <1>8, <1>flags, <2>1 DEF read_data
  <2>7. flags' \in [Conns -> FlagsT]
    BY <1>flags, <2>5, <2>6
  <2> DEFINE next1 == [th[l] EXCEPT !.buf = <<>>, !.n = 1, !.pc =
                 "set_update"]
            next2 == [th[l] EXCEPT !.buf = sock[th[l].c].inbox, !.n = 0,
                 !.pc = "push_recv"]
            next3 == [th[l] EXCEPT !.buf = sock[th[l].c].inbox, !.n = 1,
                 !.pc = "set_update"]
  <2>8. l \in Threads /\ th[l] \in ThreadT
    BY <1>Threads DEF ThreadsOK, Threads
  <2>9. next1 \in ThreadT /\ next1.pc = "set_update"
    BY <2>8, EmptySeq DEF ThreadT, MainPcs, WorkerPcs, LoopPcs, UserPcs,
       WritePcs, TaskOps
  <2>10. next2 \in ThreadT /\ next2.pc = "push_recv"
    BY <2>8, <2>1, <2>3, EmptySeq DEF ThreadT, MainPcs, WorkerPcs, LoopPcs,
       UserPcs, WritePcs, TaskOps
  <2>11. next3 \in ThreadT /\ next3.pc = "set_update"
    BY <2>8, <2>1, <2>3, EmptySeq DEF ThreadT, MainPcs, WorkerPcs, LoopPcs,
       UserPcs, WritePcs, TaskOps
  <2>12. th' = [th EXCEPT ![l] = next1] \/ th' = [th EXCEPT ![l] = next2] \/
     th' = [th EXCEPT ![l] = next3]
    BY <1>8, <2>8 DEF read_data
  <2> HIDE DEF next1, next2, next3
  <2>13. ThreadsOK'
    BY <1>Threads, <2>12, <2>9, <2>10, <2>11, <2>1, <2>3, LoopMoves DEF
       LoopPcs, WritePcs
  <2>14. UNCHANGED <<objVars, mapVars, mainVars, loopVars, lists, mutex,
     handle, task_list, calls, hist>>
    BY <1>8 DEF read_data, objVars, mapVars, mainVars, loopVars
  <2> QED BY <2>4, <2>7, <2>13, <2>14, Frame DEF TypeOK
<1>9. ASSUME ReadEnded(l) PROVE TypeOK'
  <2>1. th[l].c \in Conns
    BY <1>9 DEF ReadEnded, At
  <2>2. l \in Threads
    BY <2>1 DEF Threads
  <2>3. flags' \in [Conns -> FlagsT]
    BY <1>9, <1>flags, <2>1, <2>2 DEF ReadEnded, FlagsT, set_update
  <2>4. ThreadsOK'
    BY <1>9, <1>Threads, <2>1, <2>2, GotoLoop DEF ReadEnded, MainPcs,
       WorkerPcs, LoopPcs, UserPcs, WritePcs, TaskOps
  <2>5. UNCHANGED <<objVars, mapVars, mainVars, loopVars, lists, mutex,
     handle, task_list, sock, calls, hist>>
    BY <1>9 DEF ReadEnded, objVars, mapVars, mainVars, loopVars
  <2> QED BY <2>3, <2>4, <2>5, Frame DEF TypeOK
<1>10. ASSUME PushRecv(l) PROVE TypeOK'
  <2>1. th[l].c \in Conns
    BY <1>10 DEF PushRecv, At
  <2>2. l \in Threads
    BY <2>1 DEF Threads
  <2>3. th[l].buf \in Seq(Segments)
    BY <1>Threads, <2>1, <2>2 DEF ThreadsOK, ThreadT
  <2>4. lists[th[l].c].recv \o th[l].buf \in Seq(Segments)
    BY <1>lists, <2>1, <2>2, <2>3 DEF ListsT
  <2> DEFINE newLists == [lists[th[l].c] EXCEPT !.recv = lists[th[l].c].recv
                 \o th[l].buf]
  <2>5. newLists \in ListsT
    BY <1>lists, <2>1, <2>3, <2>4 DEF ListsT
  <2>6. lists' = lists \/ lists' = [lists EXCEPT ![th[l].c] = newLists]
    BY <1>10, <1>lists, <2>1 DEF PushRecv
  <2>7. lists' \in [Conns -> ListsT]
    BY <1>lists, <2>5, <2>6
  <2> DEFINE newFlags == [flags[th[l].c] EXCEPT !.read = @ \cup {"NEXT"}]
  <2>8. newFlags \in FlagsT
    BY <1>flags, <2>1 DEF FlagsT
  <2>9. flags' = flags \/ flags' = [flags EXCEPT ![th[l].c] = newFlags]
    BY <1>10, <1>flags, <2>1 DEF PushRecv, set_update
  <2>10. flags' \in [Conns -> FlagsT]
    BY <1>flags, <2>8, <2>9
  <2> DEFINE next1 == [Home(l) EXCEPT !.pc = "batch", !.c = NoConn]
            next2 == [Home(l) EXCEPT !.pc = "watch_read", !.c = th[l].c]
            next3 == [Home(l) EXCEPT !.pc = "watch_off", !.c = th[l].c]
  <2>11. l \in Threads /\ th[l] \in ThreadT
    BY <1>Threads DEF ThreadsOK, Threads
  <2>12. next1 \in ThreadT /\ next1.pc = "batch"
    BY <2>11, EmptySeq DEF ThreadT, MainPcs, WorkerPcs, LoopPcs, UserPcs,
       WritePcs, TaskOps, Home, HomePc
  <2>13. next2 \in ThreadT /\ next2.pc = "watch_read"
    BY <2>11, <2>1, EmptySeq DEF ThreadT, MainPcs, WorkerPcs, LoopPcs,
       UserPcs, WritePcs, TaskOps, Home, HomePc
  <2>14. next3 \in ThreadT /\ next3.pc = "watch_off"
    BY <2>11, <2>1, EmptySeq DEF ThreadT, MainPcs, WorkerPcs, LoopPcs,
       UserPcs, WritePcs, TaskOps, Home, HomePc
  <2>15. th' = [th EXCEPT ![l] = next1] \/ th' = [th EXCEPT ![l] = next2] \/
     th' = [th EXCEPT ![l] = next3]
    BY <1>10, <2>11 DEF PushRecv, Home, HomePc
  <2> HIDE DEF next1, next2, next3
  <2>16. ThreadsOK'
    BY <1>Threads, <2>15, <2>12, <2>13, <2>14, <2>1, LoopMoves DEF LoopPcs,
       WritePcs
  <2>17. UNCHANGED <<objVars, mapVars, mainVars, loopVars, mutex, handle,
     task_list, sock, calls, hist>>
    BY <1>10 DEF PushRecv, objVars, mapVars, mainVars, loopVars
  <2> QED BY <2>7, <2>10, <2>16, <2>17, Frame DEF TypeOK
<1>11. ASSUME WatchReadLoad(l) PROVE TypeOK'
  <2>1. th[l].c \in Conns
    BY <1>11 DEF WatchReadLoad, At
  <2>2. l \in Threads
    BY <2>1 DEF Threads
  <2>3. handle[th[l].c].want \in SUBSET Events
    BY <1>handle, <2>1, <2>2 DEF HandleT
  <2> DEFINE next1 == Home(l)
            next2 == [th[l] EXCEPT !.pc = "store_read", !.ev =
                 handle[th[l].c].want]
  <2>4. l \in Threads /\ th[l] \in ThreadT
    BY <1>Threads DEF ThreadsOK, Threads
  <2>5. next1 \in ThreadT /\ next1.pc = "batch"
    BY <2>4, EmptySeq DEF ThreadT, MainPcs, WorkerPcs, LoopPcs, UserPcs,
       WritePcs, TaskOps, Home, HomePc
  <2>6. next2 \in ThreadT /\ next2.pc = "store_read"
    BY <2>4, <2>1, <2>3, EmptySeq DEF ThreadT, MainPcs, WorkerPcs, LoopPcs,
       UserPcs, WritePcs, TaskOps, Home, HomePc
  <2>7. th' = [th EXCEPT ![l] = next1] \/ th' = [th EXCEPT ![l] = next2]
    BY <1>11, <2>4 DEF WatchReadLoad
  <2> HIDE DEF next1, next2
  <2>8. ThreadsOK'
    BY <1>Threads, <2>7, <2>5, <2>6, <2>1, <2>3, LoopMoves DEF LoopPcs,
       WritePcs
  <2>9. UNCHANGED <<objVars, mapVars, mainVars, loopVars, flags, lists,
     mutex, handle, task_list, sock, calls, hist>>
    BY <1>11 DEF WatchReadLoad, objVars, mapVars, mainVars, loopVars
  <2> QED BY <2>8, <2>9, Frame DEF TypeOK
<1>12. ASSUME WatchReadOff(l) PROVE TypeOK'
  <2>1. th[l].c \in Conns
    BY <1>12 DEF WatchReadOff, At
  <2>2. l \in Threads
    BY <2>1 DEF Threads
  <2>3. [op |-> "update", c |-> th[l].c] \in LoopFuncT
    BY <2>1, <2>2 DEF LoopFuncT, FuncOps
  <2>4. th[l].ev \in SUBSET Events
    BY <1>Threads, <2>1, <2>2, <2>3 DEF ThreadsOK, ThreadT
  <2>5. handle' \in [Conns -> HandleT]
    BY <1>12, <1>handle, <2>1, <2>2, <2>3, <2>4 DEF WatchReadOff, HandleT,
       Events
  <2>6. handler_map' = handler_map /\ batch' = batch /\ funcs_read' =
     funcs_read /\ funcs_write' = Posted(loop_of[th[l].c], [op |-> "update",
     c |-> th[l].c])
    BY <1>12 DEF WatchReadOff, update_handle
  <2>7. LoopOK'
    BY <1>Loop, <2>1, <2>3, <2>6, PostedOK DEF LoopOK, FuncOps
  <2>8. ThreadsOK'
    BY <1>12, <1>Threads, <2>1, <2>2, <2>3, <2>4, ReturnOK DEF WatchReadOff
  <2>9. UNCHANGED <<objVars, mapVars, mainVars, flags, lists, mutex,
     task_list, sock, calls, hist>>
    BY <1>12 DEF WatchReadOff, objVars, mapVars, mainVars, loopVars
  <2> QED BY <2>5, <2>7, <2>8, <2>9, Frame DEF TypeOK
<1>13. ASSUME WatchWriteOff(l) PROVE TypeOK'
  <2>1. th[l].c \in Conns
    BY <1>13 DEF WatchWriteOff, At
  <2>2. l \in Threads
    BY <2>1 DEF Threads
  <2>3. [op |-> "update", c |-> th[l].c] \in LoopFuncT
    BY <2>1, <2>2 DEF LoopFuncT, FuncOps
  <2>4. th[l].ev \in SUBSET Events
    BY <1>Threads, <2>1, <2>2, <2>3 DEF ThreadsOK, ThreadT
  <2>5. handle' \in [Conns -> HandleT]
    BY <1>13, <1>handle, <2>1, <2>2, <2>3, <2>4 DEF WatchWriteOff, HandleT,
       Events
  <2> DEFINE newFlags == [flags[th[l].c] EXCEPT !.waiting = FALSE]
  <2>6. newFlags \in FlagsT
    BY <1>flags, <2>1 DEF FlagsT
  <2>7. flags' = [flags EXCEPT ![th[l].c] = newFlags]
    BY <1>13, <1>flags, <2>1 DEF WatchWriteOff
  <2>8. flags' \in [Conns -> FlagsT]
    BY <1>flags, <2>6, <2>7
  <2>9. handler_map' = handler_map /\ batch' = batch /\ funcs_read' =
     funcs_read /\ funcs_write' = Posted(loop_of[th[l].c], [op |-> "update",
     c |-> th[l].c])
    BY <1>13 DEF WatchWriteOff, update_handle
  <2>10. LoopOK'
    BY <1>Loop, <2>1, <2>3, <2>9, PostedOK DEF LoopOK, FuncOps
  <2> DEFINE next == [th[l] EXCEPT !.pc = "try_lock", !.ev = {}]
  <2>11. l \in Threads /\ th[l] \in ThreadT
    BY <1>Threads DEF ThreadsOK, Threads
  <2>12. next \in ThreadT /\ next.pc = "try_lock"
    BY <2>11 DEF ThreadT, MainPcs, WorkerPcs, LoopPcs, UserPcs, WritePcs,
       TaskOps
  <2>13. th' = [th EXCEPT ![l] = next]
    BY <1>13, <2>11 DEF WatchWriteOff
  <2> HIDE DEF next
  <2>14. ThreadsOK'
    BY <1>Threads, <2>13, <2>12, LoopMoves DEF LoopPcs, WritePcs
  <2>15. UNCHANGED <<objVars, mapVars, mainVars, lists, mutex, task_list,
     sock, calls, hist>>
    BY <1>13 DEF WatchWriteOff, objVars, mapVars, mainVars, loopVars
  <2> QED BY <2>5, <2>8, <2>10, <2>14, <2>15, Frame DEF TypeOK
<1> QED BY <1>1, <1>2, <1>3, <1>4, <1>5, <1>6, <1>7, <1>8, <1>9, <1>10,
   <1>11, <1>12, <1>13, TypeOK, WriteType DEF LoopStep

LEMMA UserType ==
  ASSUME TypeOK, NEW u \in Users, UserStep(u) PROVE TypeOK'
<1>Map. MapOK BY DEF TypeOK
<1>Threads. ThreadsOK BY DEF TypeOK
<1>flags. flags \in [Conns -> FlagsT] BY DEF TypeOK
<1>lists. lists \in [Conns -> ListsT] BY DEF TypeOK
<1>calls. calls \in [Conns -> CallsT] BY DEF TypeOK
<1>hist. hist \in [Conns -> HistT] BY DEF TypeOK
<1>1. ASSUME NEW k \in Conns, PushLookup(u, k) PROVE TypeOK'
  <2>1. u \in Threads
    BY DEF Threads
  <2>2. connect_map[k] \in Fds
    BY <1>1, <1>Map, <2>1 DEF PushLookup, MapOK
  <2>3. connect_map[k] \in Nat
    BY <2>1, <2>2, CoreAssumption
  <2>4. calls[k].push + 1 \in 0 .. MaxPush
    BY <1>1, <1>calls, <2>1, <2>2, <2>3, CoreAssumption DEF PushLookup,
       CallsT
  <2>5. [key |-> k, no |-> calls[k].push + 1] \in Packets
    BY <1>calls, <2>1, <2>2, <2>3, <2>4, CoreAssumption DEF Packets
  <2>6. <<[key |-> k, no |-> calls[k].push + 1]>> \in Seq(Packets)
    BY <1>calls, <2>1, <2>2, <2>3, <2>4, <2>5
  <2>7. calls' \in [Conns -> CallsT]
    BY <1>1, <1>calls, <2>1, <2>2, <2>3, <2>4, <2>5, <2>6 DEF PushLookup,
       CallsT
  <2> DEFINE next == [th[u] EXCEPT !.pc = "push_fd", !.n = connect_map[k],
                 !.iov = <<[key |-> k, no |-> calls[k].push + 1]>>]
  <2>8. u \in Threads /\ th[u] \in ThreadT
    BY <1>Threads DEF ThreadsOK, Threads
  <2>9. next \in ThreadT /\ next.pc = "push_fd" /\ next.n = connect_map[k]
    BY <2>8, <2>2, <2>3, <2>4, <2>5, <2>6 DEF ThreadT, MainPcs, WorkerPcs,
       LoopPcs, UserPcs, WritePcs, TaskOps
  <2>10. th' = [th EXCEPT ![u] = next]
    BY <1>1, <2>8 DEF PushLookup
  <2> HIDE DEF next
  <2>11. ThreadsOK'
    BY <1>Threads, <2>10, <2>9, <2>2, <2>3, <2>4, <2>5, <2>6, UserMoves DEF
       UserPcs
  <2>12. UNCHANGED <<objVars, mapVars, mainVars, loopVars, flags, lists,
     mutex, handle, task_list, sock, hist>>
    BY <1>1 DEF PushLookup, objVars, mapVars, mainVars, loopVars
  <2> QED BY <2>7, <2>11, <2>12, Frame DEF TypeOK
<1>2. ASSUME NEW k \in Conns, CloseLookup(u, k) PROVE TypeOK'
  <2>1. u \in Threads
    BY DEF Threads
  <2>2. connect_map[k] \in Fds
    BY <1>2, <1>Map, <2>1 DEF CloseLookup, MapOK
  <2>3. connect_map[k] \in Nat
    BY <2>1, <2>2, CoreAssumption
  <2>4. calls[k].close + 1 \in 0 .. MaxClose
    BY <1>2, <1>calls, <2>1, <2>2, <2>3, CoreAssumption DEF CloseLookup,
       CallsT
  <2>5. [key |-> k, no |-> 0] \in Packets
    BY <2>1, <2>2, <2>3, <2>4, CoreAssumption DEF Packets
  <2>6. <<[key |-> k, no |-> 0]>> \in Seq(Packets)
    BY <2>1, <2>2, <2>3, <2>4, <2>5
  <2>7. calls' \in [Conns -> CallsT]
    BY <1>2, <1>calls, <2>1, <2>2, <2>3, <2>4, <2>5, <2>6 DEF CloseLookup,
       CallsT
  <2> DEFINE next == [th[u] EXCEPT !.pc = "close_fd", !.n = connect_map[k],
                 !.iov = <<[key |-> k, no |-> 0]>>]
  <2>8. u \in Threads /\ th[u] \in ThreadT
    BY <1>Threads DEF ThreadsOK, Threads
  <2>9. next \in ThreadT /\ next.pc = "close_fd" /\ next.n = connect_map[k]
    BY <2>8, <2>2, <2>3, <2>5, <2>6 DEF ThreadT, MainPcs, WorkerPcs, LoopPcs,
       UserPcs, WritePcs, TaskOps
  <2>10. th' = [th EXCEPT ![u] = next]
    BY <1>2, <2>8 DEF CloseLookup
  <2> HIDE DEF next
  <2>11. ThreadsOK'
    BY <1>Threads, <2>10, <2>9, <2>2, <2>3, <2>5, <2>6, UserMoves DEF UserPcs
  <2>12. UNCHANGED <<objVars, mapVars, mainVars, loopVars, flags, lists,
     mutex, handle, task_list, sock, hist>>
    BY <1>2 DEF CloseLookup, objVars, mapVars, mainVars, loopVars
  <2> QED BY <2>7, <2>11, <2>12, Frame DEF TypeOK
<1>3. ASSUME PushClient(u) PROVE TypeOK'
  <2>1. u \in Threads
    BY DEF Threads
  <2>2. th[u].n \in Fds
    BY <1>3, <1>Threads, <2>1 DEF PushClient, ThreadsOK, LocalOK
  <2>3. client_map[th[u].n] \in Conns \cup {NoConn}
    BY <1>Map, <2>1, <2>2 DEF MapOK
  <2>4. ThreadsOK'
    <3>1. CASE client_map[th[u].n] = NoConn
      <4>1. Return(u) BY <1>3, <3>1, Zenon DEF PushClient, Return
      <4> QED BY <1>Threads, <2>1, <4>1, ReturnOK, Zenon
    <3>2. CASE client_map[th[u].n] # NoConn
      <4> DEFINE next == [th[u] EXCEPT !.pc = "push_client", !.c = client_map[th[u].n],
                                       !.n = 0]
      <4>1. th[u] \in ThreadT BY <1>Threads, <2>1 DEF ThreadsOK
      <4>2. next \in ThreadT /\ next.pc = "push_client"
        BY <2>3, <4>1 DEF ThreadT, UserPcs
      <4>3. th' = [th EXCEPT ![u] = next]
        BY <1>3, <3>2 DEF PushClient
      <4> HIDE DEF next
      <4> QED BY <1>Threads, <4>2, <4>3, UserMoves DEF UserPcs
    <3> QED BY <3>1, <3>2, Zenon
  <2>5. UNCHANGED <<objVars, mapVars, mainVars, loopVars, flags, lists,
     mutex, handle, task_list, sock, calls, hist>>
    BY <1>3 DEF PushClient, objVars, mapVars, mainVars, loopVars
  <2> QED BY <2>4, <2>5, Frame DEF TypeOK
<1>4. ASSUME CloseClient(u) PROVE TypeOK'
  <2>1. u \in Threads
    BY DEF Threads
  <2>2. th[u].n \in Fds
    BY <1>4, <1>Threads, <2>1 DEF CloseClient, ThreadsOK, LocalOK
  <2>3. client_map[th[u].n] \in Conns \cup {NoConn}
    BY <1>Map, <2>1, <2>2 DEF MapOK
  <2> DEFINE next1 == [th[u] EXCEPT !.pc = "remove_fd", !.c =
                 client_map[th[u].n], !.n = 0]
            next2 == [th[u] EXCEPT !.pc = "close_read", !.c =
                 client_map[th[u].n], !.n = 0]
  <2>4. u \in Threads /\ th[u] \in ThreadT
    BY <1>Threads DEF ThreadsOK, Threads
  <2>5. next1 \in ThreadT /\ next1.pc = "remove_fd"
    BY <2>4, <2>2, <2>3 DEF ThreadT, MainPcs, WorkerPcs, LoopPcs, UserPcs,
       WritePcs, TaskOps
  <2>6. next2 \in ThreadT /\ next2.pc = "close_read"
    BY <2>4, <2>2, <2>3 DEF ThreadT, MainPcs, WorkerPcs, LoopPcs, UserPcs,
       WritePcs, TaskOps
  <2>7. th' = [th EXCEPT ![u] = next1] \/ th' = [th EXCEPT ![u] = next2]
    BY <1>4, <2>4 DEF CloseClient
  <2> HIDE DEF next1, next2
  <2>8. ThreadsOK'
    BY <1>Threads, <2>7, <2>5, <2>6, <2>2, <2>3, UserMoves DEF UserPcs
  <2>9. UNCHANGED <<objVars, mapVars, mainVars, loopVars, flags, lists,
     mutex, handle, task_list, sock, calls, hist>>
    BY <1>4 DEF CloseClient, objVars, mapVars, mainVars, loopVars
  <2> QED BY <2>8, <2>9, Frame DEF TypeOK
<1>5. ASSUME PushCheck(u) PROVE TypeOK'
  <2>1. th[u].c \in Conns
    BY <1>5 DEF PushCheck, At
  <2>2. u \in Threads
    BY <2>1 DEF Threads
  <2>3. ThreadsOK'
    BY <1>5, <1>Threads, <2>1, <2>2, ReturnOK, GotoUser DEF PushCheck,
       UserPcs
  <2>4. UNCHANGED <<objVars, mapVars, mainVars, loopVars, flags, lists,
     mutex, handle, task_list, sock, calls, hist>>
    BY <1>5 DEF PushCheck, objVars, mapVars, mainVars, loopVars
  <2> QED BY <2>3, <2>4, Frame DEF TypeOK
<1>6. ASSUME push_send_pack(u) PROVE TypeOK'
  <2>1. th[u].c \in Conns
    BY <1>6 DEF push_send_pack, At
  <2>2. u \in Threads
    BY <2>1 DEF Threads
  <2>3. th[u].iov \in Seq(Packets)
    BY <1>Threads, <2>1, <2>2 DEF ThreadsOK, ThreadT
  <2>4. lists[th[u].c].pack \o th[u].iov \in Seq(Packets)
    BY <1>lists, <2>1, <2>2, <2>3 DEF ListsT
  <2>5. hist[th[u].c].accepted \o th[u].iov \in Seq(Packets)
    BY <1>hist, <2>1, <2>2, <2>3, <2>4 DEF HistT
  <2>6. lists' \in [Conns -> ListsT]
    BY <1>6, <1>lists, <2>1, <2>2, <2>3, <2>4, <2>5 DEF push_send_pack,
       ListsT
  <2> DEFINE newFlags == [flags[th[u].c] EXCEPT !.write = @ \cup {"NEXT"}]
  <2>7. newFlags \in FlagsT
    BY <1>flags, <2>1 DEF FlagsT
  <2>8. flags' = [flags EXCEPT ![th[u].c] = newFlags]
    BY <1>6, <1>flags, <2>1 DEF push_send_pack
  <2>9. flags' \in [Conns -> FlagsT]
    BY <1>flags, <2>7, <2>8
  <2>10. hist' \in [Conns -> HistT]
    BY <1>6, <1>hist, <2>1, <2>2, <2>3, <2>4, <2>5 DEF push_send_pack, HistT
  <2>11. ThreadsOK'
    BY <1>6, <1>Threads, <2>1, <2>2, <2>3, <2>4, <2>5, ReturnOK DEF
       push_send_pack
  <2>12. UNCHANGED <<objVars, mapVars, mainVars, loopVars, mutex, handle,
     task_list, sock, calls>>
    BY <1>6 DEF push_send_pack, objVars, mapVars, mainVars, loopVars
  <2> QED BY <2>6, <2>9, <2>10, <2>11, <2>12, Frame DEF TypeOK
<1>7. ASSUME close_read(u) PROVE TypeOK'
  <2>1. th[u].c \in Conns
    BY <1>7 DEF close_read, At
  <2>2. u \in Threads
    BY <2>1 DEF Threads
  <2>3. flags' \in [Conns -> FlagsT]
    BY <1>7, <1>flags, <2>1, <2>2 DEF close_read, FlagsT
  <2>4. ThreadsOK'
    <3> DEFINE next == [th[u] EXCEPT !.pc = "remove_fd", !.c = NoConn]
    <3>1. th[u] \in ThreadT BY <1>Threads, <2>2 DEF ThreadsOK
    <3>2. next \in ThreadT /\ next.pc = "remove_fd"
      BY <3>1 DEF ThreadT, UserPcs
    <3>3. th' = [th EXCEPT ![u] = next]
      BY <1>7 DEF close_read
    <3> HIDE DEF next
    <3> QED BY <1>Threads, <3>2, <3>3, UserMoves DEF UserPcs
  <2>5. UNCHANGED <<objVars, mapVars, mainVars, loopVars, lists, mutex,
     handle, task_list, sock, calls, hist>>
    BY <1>7 DEF close_read, objVars, mapVars, mainVars, loopVars
  <2> QED BY <2>3, <2>4, <2>5, Frame DEF TypeOK
<1>8. ASSUME remove_fd(u) PROVE TypeOK'
  <2>1. u \in Threads
    BY DEF Threads
  <2>2. MapOK'
    BY <1>8, <1>Map, <2>1 DEF remove_fd, MapOK
  <2>3. ThreadsOK'
    BY <1>8, <1>Threads, <2>1, ReturnOK DEF remove_fd
  <2>4. UNCHANGED <<objVars, mainVars, loopVars, flags, lists, mutex, handle,
     task_list, sock, calls, hist>>
    BY <1>8 DEF remove_fd, objVars, mapVars, mainVars, loopVars
  <2> QED BY <2>2, <2>3, <2>4, Frame DEF TypeOK
<1> QED BY <1>1, <1>2, <1>3, <1>4, <1>5, <1>6, <1>7, <1>8 DEF UserStep,
   CallStep

-----------------------------------------------------------------------------
(* Initially nothing has been accepted and every thread is idle. *)
LEMMA InitType == ASSUME Init PROVE TypeOK
<1>1. ObjOK /\ MapOK /\ LoopOK BY EmptySeq DEF Init, ObjOK, MapOK, LoopOK
<1>2. MainOK /\ task_list \in Seq(TaskT) BY EmptySeq DEF Init, MainOK
<1>3. flags \in [Conns -> FlagsT]
  <2>1. NoFlags \in FlagsT BY DEF NoFlags, FlagsT
  <2> QED BY <2>1 DEF Init
<1>4. lists \in [Conns -> ListsT]
  <2>1. NoLists \in ListsT BY EmptySeq DEF NoLists, ListsT
  <2> QED BY <2>1 DEF Init
<1>5. mutex \in [Conns -> MutexT] /\ handle \in [Conns -> HandleT]
  BY DEF Init, MutexT, HandleT
<1>6. sock \in [Conns -> SockT] BY EmptySeq, CoreAssumption DEF Init, SockT
<1>7. calls \in [Conns -> CallsT] BY CoreAssumption DEF Init, CallsT
<1>8. hist \in [Conns -> HistT] BY EmptySeq DEF Init, HistT
<1>9. ThreadsOK
  <2>1. ASSUME NEW t \in Threads PROVE Home(t) \in ThreadT /\ LocalOK(t, Home(t))
    <3>1. Home(t) \in ThreadT
      BY EmptySeq DEF Home, HomePc, ThreadT, MainPcs, WorkerPcs, LoopPcs, UserPcs, Events
    <3> QED BY <3>1, CoreAssumption DEF LocalOK, Home, HomePc, MainPcs, WorkerPcs, LoopPcs,
        UserPcs, TaskOps, WritePcs, Threads
  <2> QED BY <2>1 DEF Init, ThreadsOK
<1> QED BY <1>1, <1>2, <1>3, <1>4, <1>5, <1>6, <1>7, <1>8, <1>9 DEF TypeOK

LEMMA NextType == ASSUME TypeOK, [Next]_vars PROVE TypeOK'
<1>1. CASE UNCHANGED vars
  <2>1. UNCHANGED <<objVars, mapVars, mainVars, loopVars, th, flags, lists, mutex, handle,
                    task_list, sock, calls, hist>>
    BY <1>1 DEF vars, objVars, mapVars, mainVars, loopVars
  <2> QED BY <2>1, Frame DEF TypeOK
<1>2. CASE Next
  BY <1>2, PeerType, AcceptType, PostedType, TickType, WorkerType, LoopType, UserType DEF Next
<1> QED BY <1>1, <1>2

(* Whatever the threads, the peers and the callers do, every variable keeps *)
(* the shape its class gives it and every thread stands where its own code  *)
(* can take it: no loop ever runs a worker's code, a user past get_fd holds *)
(* a real descriptor.                                                       *)
THEOREM TypeCorrect == Spec => []TypeOK
<1> QED BY InitType, NextType, PTL DEF Spec

-----------------------------------------------------------------------------
(* Sequences *)

LEMMA DropNone == ASSUME NEW S, NEW s \in Seq(S) PROVE Drop(s, 0) = s
BY SubSeqFull DEF Drop

LEMMA DropAll == ASSUME NEW S, NEW s \in Seq(S) PROVE Drop(s, Len(s)) = <<>>
<1>1. Len(s) + 1 \in Int /\ Len(s) \in Int BY LenProperties
<1> QED BY <1>1, SubSeqEmpty DEF Drop

(* Moving the first k elements of s to the end of w. *)
LEMMA MoveHead ==
  ASSUME NEW S, NEW w \in Seq(S), NEW s \in Seq(S), NEW k \in 0 .. Len(s)
  PROVE  (w \o SubSeq(s, 1, k)) \o Drop(s, k) = w \o s
<1>1. Len(s) \in Nat BY LenProperties
<1>2. SubSeq(s, 1, k) \o Drop(s, k) = s
  <2>1. 1 \in 1 .. Len(s) + 1 /\ k \in 1 - 1 .. Len(s) /\ Len(s) \in k .. Len(s)
    BY <1>1
  <2>2. SubSeq(s, 1, k) \o SubSeq(s, k + 1, Len(s)) = SubSeq(s, 1, Len(s))
    BY <2>1, ConcatAdjacentSubSeq
  <2> QED BY <2>2, SubSeqFull DEF Drop
<1>3. \A i \in 1 .. k : s[i] \in S BY <1>1, LenProperties
<1>4. SubSeq(s, 1, k) \in Seq(S) BY <1>1, <1>3, SubSeqProperties
<1>5. Drop(s, k) \in Seq(S)
  <2>1. k \in Nat BY <1>1
  <2> QED BY <2>1, DropType
<1>6. (w \o SubSeq(s, 1, k)) \o Drop(s, k) = w \o (SubSeq(s, 1, k) \o Drop(s, k))
  <2>1. \A a, b \in Seq(S) : (w \o a) \o b = w \o (a \o b) BY ConcatAssociative
  <2> QED BY <1>4, <1>5, <2>1, Zenon
<1> QED BY <1>2, <1>6

-----------------------------------------------------------------------------
(* Steps that do not concern the output of d *)

Writers == Workers \cup Loops

(* The output of d looks the same after the step. *)
SameOut(d) ==
  /\ lists'[d].send = lists[d].send /\ lists'[d].pack = lists[d].pack
  /\ hist'[d].wire = hist[d].wire /\ hist'[d].accepted = hist[d].accepted
  /\ hist'[d].cleared = hist[d].cleared

(* No thread enters, leaves or moves inside do_write_data of d. *)
SameWriter(d) ==
  /\ mutex'[d].send = mutex[d].send
  /\ \A s \in Writers : th'[s] = th[s] \/ ~(Writing(s, d) \/ Writing(s, d)')

Part(d) == Untouched(d) /\ OutOK(d) /\ \A t \in Writers : WriterOK(d, t)

LEMMA WriterStays ==
  ASSUME NEW d \in Conns, NEW t \in Writers, WriterOK(d, t), SameWriter(d),
         Live(d)' /\ ~hist'[d].cleared => /\ Live(d) /\ ~hist[d].cleared
                                          /\ lists'[d].send = lists[d].send
  PROVE  WriterOK(d, t)'
<1>1. Writing(t, d)' <=> Writing(t, d)
  BY DEF SameWriter, Writing, Inside
<1>2. Writing(t, d) => th'[t] = th[t]
  BY DEF SameWriter
<1>3. (mutex[d].send = t)' <=> Writing(t, d)'
  BY <1>1 DEF SameWriter, WriterOK
<1>4. ASSUME Writing(t, d)', Live(d)', ~hist'[d].cleared
      PROVE  /\ th'[t].pc = "writev" => th'[t].iov = lists'[d].send
             /\ th'[t].pc \in {"watch_on", "store_on", "pop"} => th'[t].n <= Len(lists'[d].send)
  BY <1>1, <1>2, <1>4 DEF WriterOK
<1> QED BY <1>3, <1>4 DEF WriterOK

LEMMA OnWireStays ==
  ASSUME NEW d \in Conns, mutex[d].send \in Writers \cup {NoThread},
         \A t \in Writers : WriterOK(d, t), SameWriter(d)
  PROVE  OnWire(d)' = OnWire(d)
<1>1. mutex'[d].send = mutex[d].send BY DEF SameWriter
<1>2. CASE mutex[d].send = NoThread BY <1>1, <1>2 DEF OnWire
<1>3. CASE mutex[d].send \in Writers
  <2>1. Writing(mutex[d].send, d) BY <1>3 DEF WriterOK
  <2>2. th'[mutex[d].send] = th[mutex[d].send] BY <1>3, <2>1 DEF SameWriter
  <2> QED BY <1>1, <2>2 DEF OnWire
<1> QED BY <1>2, <1>3

LEMMA PartStays ==
  ASSUME NEW d \in Conns, mutex[d].send \in Writers \cup {NoThread},
         Part(d), SameOut(d), SameWriter(d), stage'[d] = stage[d]
  PROVE  Part(d)'
<1>1. \A t \in Writers : WriterOK(d, t)'
  BY WriterStays DEF Part, SameOut, Live
<1>2. Untouched(d)' BY DEF Part, Untouched, SameOut, SameWriter
<1>3. OnWire(d)' = OnWire(d) BY OnWireStays DEF Part
<1>4. OutOK(d)' BY <1>3 DEF Part, OutOK, SameOut, Live, Drop
<1> QED BY <1>1, <1>2, <1>4 DEF Part

-----------------------------------------------------------------------------
(* Sets of steps that leave WriteInv alone for one simple reason *)

Sending == WritePcs \ {"try_lock"}

(* Thread s stays where it is, or moves outside do_write_data. *)
Away(s) == th'[s] = th[s] \/ {th[s].pc, th'[s].pc} \cap Sending = {}

LEMMA Parts == WriteInv <=> AddedOnce /\ MapNamesLive /\ \A d \in Conns : Part(d)
BY DEF WriteInv, OneWriter, StreamOut, Part, Writers

LEMMA ObjectsStay ==
  ASSUME AddedOnce, MapNamesLive, UNCHANGED <<stage, fd, client_map, main_funcs>>
  PROVE  AddedOnce' /\ MapNamesLive'
BY DEF AddedOnce, MapNamesLive, Live

LEMMA SendHolder ==
  ASSUME TypeOK, NEW d \in Conns PROVE mutex[d].send \in Writers \cup {NoThread}
BY DEF TypeOK, MutexT, Writers

LEMMA Quiet ==
  ASSUME TypeOK, WriteInv, UNCHANGED <<stage, fd, client_map, main_funcs>>,
         \A s \in Writers : Away(s),
         \A d \in Conns : mutex'[d].send = mutex[d].send,
         \A d \in Conns : SameOut(d)
  PROVE  WriteInv'
<1>1. ASSUME NEW d \in Conns PROVE Part(d)'
  <2>1. SameWriter(d) BY DEF Away, SameWriter, Writing, Sending
  <2>2. Part(d) BY Parts
  <2> QED BY <2>1, <2>2, SendHolder, PartStays
<1>2. AddedOnce' /\ MapNamesLive' BY Parts, ObjectsStay
<1> QED BY <1>1, <1>2 DEF WriteInv, OneWriter, StreamOut, Part, Writers

(* The kernel and the peer. *)
LEMMA PeerQuiet ==
  ASSUME TypeOK, WriteInv,
         \/ \E c \in Conns : PeerSend(c)
         \/ \E c \in Conns : PeerDrain(c)
         \/ \E c \in Conns, how \in PeerMayEnd : PeerEnd(c, how)
  PROVE  WriteInv'
<1>th. th \in [Threads -> ThreadT] BY DEF TypeOK, ThreadsOK
<1>mutex. mutex \in [Conns -> MutexT] BY DEF TypeOK
<1>lists. lists \in [Conns -> ListsT] BY DEF TypeOK
<1>hist. hist \in [Conns -> HistT] BY DEF TypeOK
<1>1. ASSUME NEW c \in Conns, PeerSend(c) PROVE WriteInv'
  <2>1. \A s \in Writers : Away(s)
    BY <1>1 DEF PeerSend, Away
  <2>2. \A d \in Conns : mutex'[d].send = mutex[d].send
    BY <1>1 DEF PeerSend
  <2>3. \A d \in Conns : SameOut(d)
    BY <1>1 DEF PeerSend, SameOut
  <2>4. UNCHANGED <<stage, fd, client_map, main_funcs>>
    BY <1>1 DEF PeerSend, objVars, mapVars, mainVars
  <2> QED BY <2>1, <2>2, <2>3, <2>4, Quiet
<1>2. ASSUME NEW c \in Conns, PeerDrain(c) PROVE WriteInv'
  <2>1. \A s \in Writers : Away(s)
    BY <1>2 DEF PeerDrain, Away
  <2>2. \A d \in Conns : mutex'[d].send = mutex[d].send
    BY <1>2 DEF PeerDrain
  <2>3. \A d \in Conns : SameOut(d)
    BY <1>2 DEF PeerDrain, SameOut
  <2>4. UNCHANGED <<stage, fd, client_map, main_funcs>>
    BY <1>2 DEF PeerDrain, objVars, mapVars, mainVars
  <2> QED BY <2>1, <2>2, <2>3, <2>4, Quiet
<1>3. ASSUME NEW c \in Conns, NEW how \in PeerMayEnd, PeerEnd(c, how) PROVE WriteInv'
  <2>1. \A s \in Writers : Away(s)
    BY <1>3 DEF PeerEnd, Away
  <2>2. \A d \in Conns : mutex'[d].send = mutex[d].send
    BY <1>3 DEF PeerEnd
  <2>3. \A d \in Conns : SameOut(d)
    BY <1>3 DEF PeerEnd, SameOut
  <2>4. UNCHANGED <<stage, fd, client_map, main_funcs>>
    BY <1>3 DEF PeerEnd, objVars, mapVars, mainVars
  <2> QED BY <2>1, <2>2, <2>3, <2>4, Quiet
<1> QED BY <1>1, <1>2, <1>3

(* The scan of main_thread_. *)
LEMMA TickQuiet ==
  ASSUME TypeOK, WriteInv,
         \/ TickStart
         \/ TickEnd
         \/ \E c \in Conns : TickClient(c)
         \/ TickRead
         \/ handle_update
         \/ TickWrite
         \/ handle_write_update
  PROVE  WriteInv'
<1>th. th \in [Threads -> ThreadT] BY DEF TypeOK, ThreadsOK
<1>mutex. mutex \in [Conns -> MutexT] BY DEF TypeOK
<1>lists. lists \in [Conns -> ListsT] BY DEF TypeOK
<1>hist. hist \in [Conns -> HistT] BY DEF TypeOK
<1>1. ASSUME TickStart PROVE WriteInv'
  <2>1. \A s \in Writers : Away(s)
    BY <1>1, <1>th, CoreAssumption DEF TickStart, Goto, Away, Writers, Threads,
       Sending, WritePcs
  <2>2. \A d \in Conns : mutex'[d].send = mutex[d].send
    BY <1>1 DEF TickStart
  <2>3. \A d \in Conns : SameOut(d)
    BY <1>1 DEF TickStart, SameOut
  <2>4. UNCHANGED <<stage, fd, client_map, main_funcs>>
    BY <1>1 DEF TickStart, objVars, mapVars, mainVars
  <2> QED BY <2>1, <2>2, <2>3, <2>4, Quiet
<1>2. ASSUME TickEnd PROVE WriteInv'
  <2>1. \A s \in Writers : Away(s)
    BY <1>2, <1>th, CoreAssumption DEF TickEnd, Return, Home, HomePc, Away,
       Writers, Threads, Sending, WritePcs
  <2>2. \A d \in Conns : mutex'[d].send = mutex[d].send
    BY <1>2 DEF TickEnd
  <2>3. \A d \in Conns : SameOut(d)
    BY <1>2 DEF TickEnd, SameOut
  <2>4. UNCHANGED <<stage, fd, client_map, main_funcs>>
    BY <1>2 DEF TickEnd, objVars, mapVars, mainVars
  <2> QED BY <2>1, <2>2, <2>3, <2>4, Quiet
<1>3. ASSUME NEW c \in Conns, TickClient(c) PROVE WriteInv'
  <2>1. \A s \in Writers : Away(s)
    BY <1>3, <1>th, CoreAssumption DEF TickClient, Away, Writers, Threads,
       Sending, WritePcs
  <2>2. \A d \in Conns : mutex'[d].send = mutex[d].send
    BY <1>3 DEF TickClient
  <2>3. \A d \in Conns : SameOut(d)
    BY <1>3 DEF TickClient, SameOut
  <2>4. UNCHANGED <<stage, fd, client_map, main_funcs>>
    BY <1>3 DEF TickClient, objVars, mapVars, mainVars
  <2> QED BY <2>1, <2>2, <2>3, <2>4, Quiet
<1>4. ASSUME TickRead PROVE WriteInv'
  <2>1. \A s \in Writers : Away(s)
    BY <1>4, <1>th, CoreAssumption DEF TickRead, Goto, Away, Writers, Threads,
       Sending, WritePcs
  <2>2. \A d \in Conns : mutex'[d].send = mutex[d].send
    BY <1>4 DEF TickRead
  <2>3. \A d \in Conns : SameOut(d)
    BY <1>4 DEF TickRead, SameOut
  <2>4. UNCHANGED <<stage, fd, client_map, main_funcs>>
    BY <1>4 DEF TickRead, objVars, mapVars, mainVars
  <2> QED BY <2>1, <2>2, <2>3, <2>4, Quiet
<1>5. ASSUME handle_update PROVE WriteInv'
  <2>1. \A s \in Writers : Away(s)
    BY <1>5, <1>th, CoreAssumption DEF handle_update, Goto, Away, Writers,
       Threads, Sending, WritePcs
  <2>2. \A d \in Conns : mutex'[d].send = mutex[d].send
    BY <1>5 DEF handle_update
  <2>3. \A d \in Conns : SameOut(d)
    BY <1>5 DEF handle_update, SameOut
  <2>4. UNCHANGED <<stage, fd, client_map, main_funcs>>
    BY <1>5 DEF handle_update, objVars, mapVars, mainVars
  <2> QED BY <2>1, <2>2, <2>3, <2>4, Quiet
<1>6. ASSUME TickWrite PROVE WriteInv'
  <2>1. \A s \in Writers : Away(s)
    BY <1>6, <1>th, CoreAssumption DEF TickWrite, Away, Writers, Threads,
       Sending, WritePcs
  <2>2. \A d \in Conns : mutex'[d].send = mutex[d].send
    BY <1>6 DEF TickWrite
  <2>3. \A d \in Conns : SameOut(d)
    BY <1>6 DEF TickWrite, SameOut
  <2>4. UNCHANGED <<stage, fd, client_map, main_funcs>>
    BY <1>6 DEF TickWrite, objVars, mapVars, mainVars
  <2> QED BY <2>1, <2>2, <2>3, <2>4, Quiet
<1>7. ASSUME handle_write_update PROVE WriteInv'
  <2>1. \A s \in Writers : Away(s)
    BY <1>7, <1>th, CoreAssumption DEF handle_write_update, Away, Writers,
       Threads, Sending, WritePcs
  <2>2. \A d \in Conns : mutex'[d].send = mutex[d].send
    BY <1>7 DEF handle_write_update
  <2>3. \A d \in Conns : SameOut(d)
    BY <1>7 DEF handle_write_update, SameOut
  <2>4. UNCHANGED <<stage, fd, client_map, main_funcs>>
    BY <1>7 DEF handle_write_update, objVars, mapVars, mainVars
  <2> QED BY <2>1, <2>2, <2>3, <2>4, Quiet
<1> QED BY <1>1, <1>2, <1>3, <1>4, <1>5, <1>6, <1>7

(* A worker outside do_write_data. *)
LEMMA WorkerQuiet ==
  ASSUME TypeOK, WriteInv, NEW w \in Workers,
         \/ RequireTask(w)
         \/ req_close(w)
         \/ timeout_send(w)
         \/ handle_unpack(w)
         \/ UnpackNothing(w)
         \/ UnpackSplice(w)
         \/ UnpackPartial(w)
         \/ \E i \in 1 .. Len(Script) : UnpackFrame(w, i)
         \/ CallbackStart(w)
         \/ CallbackEnd(w)
         \/ UnpackBadClose(w)
         \/ CallbackCloses(w)
  PROVE  WriteInv'
<1>th. th \in [Threads -> ThreadT] BY DEF TypeOK, ThreadsOK
<1>mutex. mutex \in [Conns -> MutexT] BY DEF TypeOK
<1>lists. lists \in [Conns -> ListsT] BY DEF TypeOK
<1>hist. hist \in [Conns -> HistT] BY DEF TypeOK
<1>1. ASSUME RequireTask(w) PROVE WriteInv'
  <2>1. \A s \in Writers : Away(s)
    <3>0. Head(task_list) \in TaskT BY <1>1 DEF RequireTask, TypeOK
    <3>1. \A s \in Writers \ {w} : th'[s] = th[s]
      BY <1>1, <1>th DEF RequireTask, Writers, Threads
    <3>2. {th[w].pc, th'[w].pc} \cap Sending = {}
      BY <1>1, <1>th, <3>0 DEF RequireTask, TaskT, TaskOps, Threads, Sending,
         WritePcs
    <3> QED BY <3>1, <3>2 DEF Away
  <2>2. \A d \in Conns : mutex'[d].send = mutex[d].send
    BY <1>1 DEF RequireTask
  <2>3. \A d \in Conns : SameOut(d)
    BY <1>1 DEF RequireTask, SameOut
  <2>4. UNCHANGED <<stage, fd, client_map, main_funcs>>
    BY <1>1 DEF RequireTask, objVars, mapVars, mainVars
  <2> QED BY <2>1, <2>2, <2>3, <2>4, Quiet
<1>2. ASSUME req_close(w) PROVE WriteInv'
  <2>1. \A s \in Writers : Away(s)
    BY <1>2, <1>th, CoreAssumption DEF req_close, Return, Home, HomePc, At, Away,
       Writers, Threads, Sending, WritePcs
  <2>2. \A d \in Conns : mutex'[d].send = mutex[d].send
    BY <1>2 DEF req_close
  <2>3. \A d \in Conns : SameOut(d)
    BY <1>2 DEF req_close, SameOut
  <2>4. UNCHANGED <<stage, fd, client_map, main_funcs>>
    BY <1>2 DEF req_close, objVars, mapVars, mainVars
  <2> QED BY <2>1, <2>2, <2>3, <2>4, Quiet
<1>3. ASSUME timeout_send(w) PROVE WriteInv'
  <2>1. \A s \in Writers : Away(s)
    <3>0. Return(w) \/ Goto(w, "try_lock") BY <1>3 DEF timeout_send
    <3>1. \A s \in Writers \ {w} : th'[s] = th[s]
      BY <3>0, <1>th DEF Goto, Return, Writers, Threads
    <3>2. th[w].pc \notin Sending BY <1>3 DEF timeout_send, At, Sending, WritePcs
    <3>3. th'[w].pc \notin Sending
      <4>1. w \in Threads BY DEF Threads
      <4>2. CASE Return(w)
        <5>1. th'[w] = Home(w) BY <4>1, <4>2, <1>th DEF Return
        <5> QED BY <5>1 DEF Home, HomePc, Sending, WritePcs
      <4>3. CASE Goto(w, "try_lock")
        <5>1. th'[w].pc = "try_lock" BY <4>1, <4>3, <1>th DEF Goto, ThreadT
        <5> QED BY <5>1 DEF Sending, WritePcs
      <4> QED BY <3>0, <4>2, <4>3
    <3> QED BY <3>1, <3>2, <3>3 DEF Away
  <2>2. \A d \in Conns : mutex'[d].send = mutex[d].send
    BY <1>3 DEF timeout_send
  <2>3. \A d \in Conns : SameOut(d)
    BY <1>3 DEF timeout_send, SameOut
  <2>4. UNCHANGED <<stage, fd, client_map, main_funcs>>
    BY <1>3 DEF timeout_send, objVars, mapVars, mainVars
  <2> QED BY <2>1, <2>2, <2>3, <2>4, Quiet
<1>4. ASSUME handle_unpack(w) PROVE WriteInv'
  <2>1. \A s \in Writers : Away(s)
    <3>0. Return(w) \/ Goto(w, "splice") BY <1>4 DEF handle_unpack
    <3>1. \A s \in Writers \ {w} : th'[s] = th[s]
      BY <3>0, <1>th DEF Goto, Return, Writers, Threads
    <3>2. th[w].pc \notin Sending BY <1>4 DEF handle_unpack, At, Sending, WritePcs
    <3>3. th'[w].pc \notin Sending
      <4>1. w \in Threads BY DEF Threads
      <4>2. CASE Return(w)
        <5>1. th'[w] = Home(w) BY <4>1, <4>2, <1>th DEF Return
        <5> QED BY <5>1 DEF Home, HomePc, Sending, WritePcs
      <4>3. CASE Goto(w, "splice")
        <5>1. th'[w].pc = "splice" BY <4>1, <4>3, <1>th DEF Goto, ThreadT
        <5> QED BY <5>1 DEF Sending, WritePcs
      <4> QED BY <3>0, <4>2, <4>3
    <3> QED BY <3>1, <3>2, <3>3 DEF Away
  <2>2. \A d \in Conns : mutex'[d].send = mutex[d].send
    BY <1>4, <1>mutex DEF handle_unpack, MutexT
  <2>3. \A d \in Conns : SameOut(d)
    BY <1>4 DEF handle_unpack, SameOut
  <2>4. UNCHANGED <<stage, fd, client_map, main_funcs>>
    BY <1>4 DEF handle_unpack, objVars, mapVars, mainVars
  <2> QED BY <2>1, <2>2, <2>3, <2>4, Quiet
<1>5. ASSUME UnpackNothing(w) PROVE WriteInv'
  <2>1. \A s \in Writers : Away(s)
    BY <1>5, <1>th, CoreAssumption DEF UnpackNothing, Return, Home, HomePc, At,
       Away, Writers, Threads, Sending, WritePcs
  <2>2. \A d \in Conns : mutex'[d].send = mutex[d].send
    BY <1>5, <1>mutex DEF UnpackNothing, MutexT
  <2>3. \A d \in Conns : SameOut(d)
    BY <1>5 DEF UnpackNothing, SameOut
  <2>4. UNCHANGED <<stage, fd, client_map, main_funcs>>
    BY <1>5 DEF UnpackNothing, objVars, mapVars, mainVars
  <2> QED BY <2>1, <2>2, <2>3, <2>4, Quiet
<1>6. ASSUME UnpackSplice(w) PROVE WriteInv'
  <2>1. \A s \in Writers : Away(s)
    BY <1>6, <1>th, CoreAssumption DEF UnpackSplice, Goto, At, Away, Writers,
       Threads, Sending, WritePcs
  <2>2. \A d \in Conns : mutex'[d].send = mutex[d].send
    BY <1>6 DEF UnpackSplice
  <2>3. \A d \in Conns : SameOut(d)
    BY <1>6, <1>lists DEF UnpackSplice, SameOut, ListsT
  <2>4. UNCHANGED <<stage, fd, client_map, main_funcs>>
    BY <1>6 DEF UnpackSplice, objVars, mapVars, mainVars
  <2> QED BY <2>1, <2>2, <2>3, <2>4, Quiet
<1>7. ASSUME UnpackPartial(w) PROVE WriteInv'
  <2>1. \A s \in Writers : Away(s)
    BY <1>7, <1>th, CoreAssumption DEF UnpackPartial, Return, Home, HomePc, At,
       Away, Writers, Threads, Sending, WritePcs
  <2>2. \A d \in Conns : mutex'[d].send = mutex[d].send
    BY <1>7, <1>mutex DEF UnpackPartial, MutexT
  <2>3. \A d \in Conns : SameOut(d)
    BY <1>7, <1>lists, <1>hist DEF UnpackPartial, SameOut, ListsT, HistT
  <2>4. UNCHANGED <<stage, fd, client_map, main_funcs>>
    BY <1>7 DEF UnpackPartial, objVars, mapVars, mainVars
  <2> QED BY <2>1, <2>2, <2>3, <2>4, Quiet
<1>8. ASSUME NEW i \in 1 .. Len(Script), UnpackFrame(w, i) PROVE WriteInv'
  <2>1. PICK c \in Conns : c = th[w].c BY <1>8, Zenon DEF UnpackFrame, At
  <2>2. th' = [th EXCEPT ![w].pc = "finish"] /\ th[w].pc = "parse"
    BY <1>8, Zenon DEF UnpackFrame, Goto, At
  <2>3. UNCHANGED <<stage, fd, client_map, main_funcs, mutex>>
    BY <1>8, Zenon DEF UnpackFrame, objVars, mapVars, mainVars
  <2>4. PICK q : lists' = [lists EXCEPT ![c].unpack = q]
    BY <1>8, <2>1, Zenon DEF UnpackFrame
  <2>5. PICK p : hist' = [hist EXCEPT ![c].parsed = p]
    BY <1>8, <2>1, Zenon DEF UnpackFrame
  <2>6. \A s \in Writers : Away(s)
    <3>0. w \in Threads BY DEF Threads
    <3>1. th'[w].pc = "finish" BY <3>0, <2>2, <1>th DEF ThreadT
    <3>2. \A s \in Writers \ {w} : th'[s] = th[s]
      BY <2>2, <1>th DEF Writers, Threads
    <3> QED BY <2>2, <3>1, <3>2 DEF Away, Sending, WritePcs
  <2>7. ASSUME NEW d \in Conns PROVE SameOut(d)
    <3>1. lists'[d].send = lists[d].send /\ lists'[d].pack = lists[d].pack
      BY <2>4, <1>lists DEF ListsT
    <3>2. /\ hist'[d].wire = hist[d].wire /\ hist'[d].accepted = hist[d].accepted
          /\ hist'[d].cleared = hist[d].cleared
      BY <2>5, <1>hist DEF HistT
    <3> QED BY <3>1, <3>2 DEF SameOut
  <2>8. \A d \in Conns : mutex'[d].send = mutex[d].send BY <2>3
  <2> QED BY <2>3, <2>6, <2>7, <2>8, Quiet
<1>9. ASSUME CallbackStart(w) PROVE WriteInv'
  <2>1. \A s \in Writers : Away(s)
    BY <1>9, <1>th, CoreAssumption DEF CallbackStart, Goto, At, Away, Writers,
       Threads, Sending, WritePcs
  <2>2. \A d \in Conns : mutex'[d].send = mutex[d].send
    BY <1>9, <1>mutex DEF CallbackStart, MutexT
  <2>3. \A d \in Conns : SameOut(d)
    BY <1>9, <1>hist DEF CallbackStart, SameOut, HistT
  <2>4. UNCHANGED <<stage, fd, client_map, main_funcs>>
    BY <1>9 DEF CallbackStart, objVars, mapVars, mainVars
  <2> QED BY <2>1, <2>2, <2>3, <2>4, Quiet
<1>10. ASSUME CallbackEnd(w) PROVE WriteInv'
  <2>1. \A s \in Writers : Away(s)
    BY <1>10, <1>th, CoreAssumption DEF CallbackEnd, Return, Home, HomePc, At,
       Away, Writers, Threads, Sending, WritePcs
  <2>2. \A d \in Conns : mutex'[d].send = mutex[d].send
    BY <1>10, <1>mutex DEF CallbackEnd, MutexT
  <2>3. \A d \in Conns : SameOut(d)
    BY <1>10 DEF CallbackEnd, SameOut
  <2>4. UNCHANGED <<stage, fd, client_map, main_funcs>>
    BY <1>10 DEF CallbackEnd, objVars, mapVars, mainVars
  <2> QED BY <2>1, <2>2, <2>3, <2>4, Quiet
<1>11. ASSUME UnpackBadClose(w) PROVE WriteInv'
  <2>1. \A s \in Writers : Away(s)
    BY <1>11, <1>th, CoreAssumption DEF UnpackBadClose, Return, Home, HomePc, At,
       Away, Writers, Threads, Sending, WritePcs
  <2>2. \A d \in Conns : mutex'[d].send = mutex[d].send
    BY <1>11, <1>mutex DEF UnpackBadClose, MutexT
  <2>3. \A d \in Conns : SameOut(d)
    BY <1>11 DEF UnpackBadClose, SameOut
  <2>4. UNCHANGED <<stage, fd, client_map, main_funcs>>
    BY <1>11 DEF UnpackBadClose, objVars, mapVars, mainVars
  <2> QED BY <2>1, <2>2, <2>3, <2>4, Quiet
<1>12. ASSUME CallbackCloses(w) PROVE WriteInv'
  <2>1. \A s \in Writers : Away(s)
    BY <1>12 DEF CallbackCloses, Away
  <2>2. \A d \in Conns : mutex'[d].send = mutex[d].send
    BY <1>12 DEF CallbackCloses
  <2>3. \A d \in Conns : SameOut(d)
    BY <1>12 DEF CallbackCloses, SameOut
  <2>4. UNCHANGED <<stage, fd, client_map, main_funcs>>
    BY <1>12 DEF CallbackCloses, objVars, mapVars, mainVars
  <2> QED BY <2>1, <2>2, <2>3, <2>4, Quiet
<1> QED BY <1>1, <1>2, <1>3, <1>4, <1>5, <1>6, <1>7, <1>8, <1>9, <1>10, <1>11, <1>12

(* An event loop outside do_write_data. *)
LEMMA LoopQuiet ==
  ASSUME TypeOK, WriteInv, NEW l \in Loops,
         \/ LoopSplice(l)
         \/ do_add_handle(l)
         \/ AddHandleFails(l)
         \/ do_update_handle(l)
         \/ loop_io(l)
         \/ \E e \in batch[l] : handle_event(l, e)
         \/ read_data(l)
         \/ ReadEnded(l)
         \/ PushRecv(l)
         \/ WatchReadLoad(l)
         \/ WatchReadOff(l)
         \/ WatchWriteOff(l)
  PROVE  WriteInv'
<1>th. th \in [Threads -> ThreadT] BY DEF TypeOK, ThreadsOK
<1>mutex. mutex \in [Conns -> MutexT] BY DEF TypeOK
<1>lists. lists \in [Conns -> ListsT] BY DEF TypeOK
<1>hist. hist \in [Conns -> HistT] BY DEF TypeOK
<1>1. ASSUME LoopSplice(l) PROVE WriteInv'
  <2>1. \A s \in Writers : Away(s)
    BY <1>1, <1>th, CoreAssumption DEF LoopSplice, Goto, Away, Writers, Threads,
       Sending, WritePcs
  <2>2. \A d \in Conns : mutex'[d].send = mutex[d].send
    BY <1>1 DEF LoopSplice
  <2>3. \A d \in Conns : SameOut(d)
    BY <1>1 DEF LoopSplice, SameOut
  <2>4. UNCHANGED <<stage, fd, client_map, main_funcs>>
    BY <1>1 DEF LoopSplice, objVars, mapVars, mainVars
  <2> QED BY <2>1, <2>2, <2>3, <2>4, Quiet
<1>2. ASSUME do_add_handle(l) PROVE WriteInv'
  <2>1. \A s \in Writers : Away(s)
    BY <1>2 DEF do_add_handle, Away
  <2>2. \A d \in Conns : mutex'[d].send = mutex[d].send
    BY <1>2 DEF do_add_handle
  <2>3. \A d \in Conns : SameOut(d)
    BY <1>2 DEF do_add_handle, SameOut
  <2>4. UNCHANGED <<stage, fd, client_map, main_funcs>>
    BY <1>2 DEF do_add_handle, objVars, mapVars, mainVars
  <2> QED BY <2>1, <2>2, <2>3, <2>4, Quiet
<1>3. ASSUME AddHandleFails(l) PROVE WriteInv'
  <2>1. \A s \in Writers : Away(s)
    BY <1>3 DEF AddHandleFails, Away
  <2>2. \A d \in Conns : mutex'[d].send = mutex[d].send
    BY <1>3 DEF AddHandleFails
  <2>3. \A d \in Conns : SameOut(d)
    BY <1>3 DEF AddHandleFails, SameOut
  <2>4. UNCHANGED <<stage, fd, client_map, main_funcs>>
    BY <1>3 DEF AddHandleFails, objVars, mapVars, mainVars
  <2> QED BY <2>1, <2>2, <2>3, <2>4, Quiet
<1>4. ASSUME do_update_handle(l) PROVE WriteInv'
  <2>1. \A s \in Writers : Away(s)
    BY <1>4 DEF do_update_handle, Away
  <2>2. \A d \in Conns : mutex'[d].send = mutex[d].send
    BY <1>4 DEF do_update_handle
  <2>3. \A d \in Conns : SameOut(d)
    BY <1>4 DEF do_update_handle, SameOut
  <2>4. UNCHANGED <<stage, fd, client_map, main_funcs>>
    BY <1>4 DEF do_update_handle, objVars, mapVars, mainVars
  <2> QED BY <2>1, <2>2, <2>3, <2>4, Quiet
<1>5. ASSUME loop_io(l) PROVE WriteInv'
  <2>1. \A s \in Writers : Away(s)
    BY <1>5, <1>th, CoreAssumption DEF loop_io, Goto, Away, Writers, Threads,
       Sending, WritePcs
  <2>2. \A d \in Conns : mutex'[d].send = mutex[d].send
    BY <1>5 DEF loop_io
  <2>3. \A d \in Conns : SameOut(d)
    BY <1>5 DEF loop_io, SameOut
  <2>4. UNCHANGED <<stage, fd, client_map, main_funcs>>
    BY <1>5 DEF loop_io, objVars, mapVars, mainVars
  <2> QED BY <2>1, <2>2, <2>3, <2>4, Quiet
<1>6. ASSUME NEW e \in batch[l], handle_event(l, e) PROVE WriteInv'
  <2>1. \A s \in Writers : Away(s)
    <3>0. \/ th' = th
          \/ th' = [th EXCEPT ![l].pc = "read_data", ![l].c = e.c, ![l].ev = e.ev]
          \/ th' = [th EXCEPT ![l].pc = "watch_off", ![l].c = e.c]
      BY <1>6 DEF handle_event
    <3>1. \A s \in Writers \ {l} : th'[s] = th[s]
      BY <3>0, <1>th DEF Writers, Threads
    <3>2. th[l].pc \notin Sending BY <1>6 DEF handle_event, At, Sending, WritePcs
    <3>3. th'[l].pc \notin Sending
      <4>1. l \in Threads /\ th[l] \in ThreadT BY <1>th DEF Threads
      <4>2. th'[l].pc \in {th[l].pc, "read_data", "watch_off"}
        BY <3>0, <4>1, <1>th DEF ThreadT
      <4> QED BY <4>2, <3>2 DEF Sending, WritePcs
    <3> QED BY <3>1, <3>2, <3>3 DEF Away
  <2>2. \A d \in Conns : mutex'[d].send = mutex[d].send
    BY <1>6 DEF handle_event
  <2>3. \A d \in Conns : SameOut(d)
    BY <1>6 DEF handle_event, SameOut
  <2>4. UNCHANGED <<stage, fd, client_map, main_funcs>>
    BY <1>6 DEF handle_event, objVars, mapVars, mainVars
  <2> QED BY <2>1, <2>2, <2>3, <2>4, Quiet
<1>7. ASSUME read_data(l) PROVE WriteInv'
  <2>1. \A s \in Writers : Away(s)
    BY <1>7, <1>th, CoreAssumption DEF read_data, At, Away, Writers, Threads,
       Sending, WritePcs
  <2>2. \A d \in Conns : mutex'[d].send = mutex[d].send
    BY <1>7 DEF read_data
  <2>3. \A d \in Conns : SameOut(d)
    BY <1>7 DEF read_data, SameOut
  <2>4. UNCHANGED <<stage, fd, client_map, main_funcs>>
    BY <1>7 DEF read_data, objVars, mapVars, mainVars
  <2> QED BY <2>1, <2>2, <2>3, <2>4, Quiet
<1>8. ASSUME ReadEnded(l) PROVE WriteInv'
  <2>1. \A s \in Writers : Away(s)
    BY <1>8, <1>th, CoreAssumption DEF ReadEnded, Goto, At, Away, Writers,
       Threads, Sending, WritePcs
  <2>2. \A d \in Conns : mutex'[d].send = mutex[d].send
    BY <1>8 DEF ReadEnded
  <2>3. \A d \in Conns : SameOut(d)
    BY <1>8 DEF ReadEnded, SameOut
  <2>4. UNCHANGED <<stage, fd, client_map, main_funcs>>
    BY <1>8 DEF ReadEnded, objVars, mapVars, mainVars
  <2> QED BY <2>1, <2>2, <2>3, <2>4, Quiet
<1>9. ASSUME PushRecv(l) PROVE WriteInv'
  <2>1. \A s \in Writers : Away(s)
    BY <1>9, <1>th, CoreAssumption DEF PushRecv, Home, HomePc, At, Away, Writers,
       Threads, Sending, WritePcs
  <2>2. \A d \in Conns : mutex'[d].send = mutex[d].send
    BY <1>9 DEF PushRecv
  <2>3. \A d \in Conns : SameOut(d)
    <3>1. lists' = lists \/ lists' = [lists EXCEPT ![th[l].c].recv = @ \o th[l].buf]
      BY <1>9 DEF PushRecv
    <3>2. hist' = hist BY <1>9 DEF PushRecv
    <3>3. ASSUME NEW d \in Conns
          PROVE  lists'[d].send = lists[d].send /\ lists'[d].pack = lists[d].pack
      <4>1. CASE lists' = lists BY <4>1
      <4>2. CASE lists' = [lists EXCEPT ![th[l].c].recv = @ \o th[l].buf]
        <5>1. CASE d = th[l].c BY <4>2, <5>1, <1>lists DEF ListsT
        <5>2. CASE d # th[l].c BY <4>2, <5>2, <1>lists
        <5> QED BY <5>1, <5>2
      <4> QED BY <3>1, <4>1, <4>2
    <3> QED BY <3>2, <3>3 DEF SameOut
  <2>4. UNCHANGED <<stage, fd, client_map, main_funcs>>
    BY <1>9 DEF PushRecv, objVars, mapVars, mainVars
  <2> QED BY <2>1, <2>2, <2>3, <2>4, Quiet
<1>10. ASSUME WatchReadLoad(l) PROVE WriteInv'
  <2>1. \A s \in Writers : Away(s)
    BY <1>10, <1>th, CoreAssumption DEF WatchReadLoad, Home, HomePc, At, Away,
       Writers, Threads, Sending, WritePcs
  <2>2. \A d \in Conns : mutex'[d].send = mutex[d].send
    BY <1>10 DEF WatchReadLoad
  <2>3. \A d \in Conns : SameOut(d)
    BY <1>10 DEF WatchReadLoad, SameOut
  <2>4. UNCHANGED <<stage, fd, client_map, main_funcs>>
    BY <1>10 DEF WatchReadLoad, objVars, mapVars, mainVars
  <2> QED BY <2>1, <2>2, <2>3, <2>4, Quiet
<1>11. ASSUME WatchReadOff(l) PROVE WriteInv'
  <2>1. \A s \in Writers : Away(s)
    BY <1>11, <1>th, CoreAssumption DEF WatchReadOff, Return, Home, HomePc, At,
       Away, Writers, Threads, Sending, WritePcs
  <2>2. \A d \in Conns : mutex'[d].send = mutex[d].send
    BY <1>11 DEF WatchReadOff
  <2>3. \A d \in Conns : SameOut(d)
    BY <1>11 DEF WatchReadOff, SameOut
  <2>4. UNCHANGED <<stage, fd, client_map, main_funcs>>
    BY <1>11 DEF WatchReadOff, objVars, mapVars, mainVars
  <2> QED BY <2>1, <2>2, <2>3, <2>4, Quiet
<1>12. ASSUME WatchWriteOff(l) PROVE WriteInv'
  <2>1. \A s \in Writers : Away(s)
    BY <1>12, <1>th, CoreAssumption DEF WatchWriteOff, At, Away, Writers,
       Threads, Sending, WritePcs
  <2>2. \A d \in Conns : mutex'[d].send = mutex[d].send
    BY <1>12 DEF WatchWriteOff
  <2>3. \A d \in Conns : SameOut(d)
    BY <1>12 DEF WatchWriteOff, SameOut
  <2>4. UNCHANGED <<stage, fd, client_map, main_funcs>>
    BY <1>12 DEF WatchWriteOff, objVars, mapVars, mainVars
  <2> QED BY <2>1, <2>2, <2>3, <2>4, Quiet
<1> QED BY <1>1, <1>2, <1>3, <1>4, <1>5, <1>6, <1>7, <1>8, <1>9, <1>10, <1>11, <1>12

(* A user outside push_send_pack. *)
LEMMA UserQuiet ==
  ASSUME TypeOK, WriteInv, NEW u \in Users,
         \/ \E k \in Conns : PushLookup(u, k)
         \/ \E k \in Conns : CloseLookup(u, k)
         \/ PushClient(u)
         \/ CloseClient(u)
         \/ PushCheck(u)
         \/ close_read(u)
         \/ remove_fd(u)
  PROVE  WriteInv'
<1>th. th \in [Threads -> ThreadT] BY DEF TypeOK, ThreadsOK
<1>mutex. mutex \in [Conns -> MutexT] BY DEF TypeOK
<1>lists. lists \in [Conns -> ListsT] BY DEF TypeOK
<1>hist. hist \in [Conns -> HistT] BY DEF TypeOK
<1>1. ASSUME NEW k \in Conns, PushLookup(u, k) PROVE WriteInv'
  <2>1. \A s \in Writers : Away(s)
    <3>1. u \notin Writers BY CoreAssumption DEF Writers
    <3>2. \A s \in Writers : th'[s] = th[s] BY <1>1, <1>th, <3>1 DEF PushLookup, Writers, Threads
    <3> QED BY <3>2 DEF Away
  <2>2. \A d \in Conns : mutex'[d].send = mutex[d].send
    BY <1>1 DEF PushLookup
  <2>3. \A d \in Conns : SameOut(d)
    BY <1>1 DEF PushLookup, SameOut
  <2>4. UNCHANGED <<stage, fd, client_map, main_funcs>>
    BY <1>1 DEF PushLookup, objVars, mapVars, mainVars
  <2> QED BY <2>1, <2>2, <2>3, <2>4, Quiet
<1>2. ASSUME NEW k \in Conns, CloseLookup(u, k) PROVE WriteInv'
  <2>1. \A s \in Writers : Away(s)
    <3>1. u \notin Writers BY CoreAssumption DEF Writers
    <3>2. \A s \in Writers : th'[s] = th[s] BY <1>2, <1>th, <3>1 DEF CloseLookup, Writers, Threads
    <3> QED BY <3>2 DEF Away
  <2>2. \A d \in Conns : mutex'[d].send = mutex[d].send
    BY <1>2 DEF CloseLookup
  <2>3. \A d \in Conns : SameOut(d)
    BY <1>2 DEF CloseLookup, SameOut
  <2>4. UNCHANGED <<stage, fd, client_map, main_funcs>>
    BY <1>2 DEF CloseLookup, objVars, mapVars, mainVars
  <2> QED BY <2>1, <2>2, <2>3, <2>4, Quiet
<1>3. ASSUME PushClient(u) PROVE WriteInv'
  <2>1. \A s \in Writers : Away(s)
    BY <1>3, <1>th, CoreAssumption DEF PushClient, Home, HomePc, Away, Writers,
       Threads, Sending, WritePcs
  <2>2. \A d \in Conns : mutex'[d].send = mutex[d].send
    BY <1>3 DEF PushClient
  <2>3. \A d \in Conns : SameOut(d)
    BY <1>3 DEF PushClient, SameOut
  <2>4. UNCHANGED <<stage, fd, client_map, main_funcs>>
    BY <1>3 DEF PushClient, objVars, mapVars, mainVars
  <2> QED BY <2>1, <2>2, <2>3, <2>4, Quiet
<1>4. ASSUME CloseClient(u) PROVE WriteInv'
  <2>1. \A s \in Writers : Away(s)
    BY <1>4, <1>th, CoreAssumption DEF CloseClient, Away, Writers, Threads,
       Sending, WritePcs
  <2>2. \A d \in Conns : mutex'[d].send = mutex[d].send
    BY <1>4 DEF CloseClient
  <2>3. \A d \in Conns : SameOut(d)
    BY <1>4 DEF CloseClient, SameOut
  <2>4. UNCHANGED <<stage, fd, client_map, main_funcs>>
    BY <1>4 DEF CloseClient, objVars, mapVars, mainVars
  <2> QED BY <2>1, <2>2, <2>3, <2>4, Quiet
<1>5. ASSUME PushCheck(u) PROVE WriteInv'
  <2>1. \A s \in Writers : Away(s)
    BY <1>5, <1>th, CoreAssumption DEF PushCheck, Goto, Return, Home, HomePc, At,
       Away, Writers, Threads, Sending, WritePcs
  <2>2. \A d \in Conns : mutex'[d].send = mutex[d].send
    BY <1>5 DEF PushCheck
  <2>3. \A d \in Conns : SameOut(d)
    BY <1>5 DEF PushCheck, SameOut
  <2>4. UNCHANGED <<stage, fd, client_map, main_funcs>>
    BY <1>5 DEF PushCheck, objVars, mapVars, mainVars
  <2> QED BY <2>1, <2>2, <2>3, <2>4, Quiet
<1>6. ASSUME close_read(u) PROVE WriteInv'
  <2>1. \A s \in Writers : Away(s)
    BY <1>6, <1>th, CoreAssumption DEF close_read, At, Away, Writers, Threads,
       Sending, WritePcs
  <2>2. \A d \in Conns : mutex'[d].send = mutex[d].send
    BY <1>6 DEF close_read
  <2>3. \A d \in Conns : SameOut(d)
    BY <1>6 DEF close_read, SameOut
  <2>4. UNCHANGED <<stage, fd, client_map, main_funcs>>
    BY <1>6 DEF close_read, objVars, mapVars, mainVars
  <2> QED BY <2>1, <2>2, <2>3, <2>4, Quiet
<1>7. ASSUME remove_fd(u) PROVE WriteInv'
  <2>1. \A s \in Writers : Away(s)
    BY <1>7, <1>th, CoreAssumption DEF remove_fd, Return, Home, HomePc, Away,
       Writers, Threads, Sending, WritePcs
  <2>2. \A d \in Conns : mutex'[d].send = mutex[d].send
    BY <1>7 DEF remove_fd
  <2>3. \A d \in Conns : SameOut(d)
    BY <1>7 DEF remove_fd, SameOut
  <2>4. UNCHANGED <<stage, fd, client_map, main_funcs>>
    BY <1>7 DEF remove_fd, objVars, mapVars, mainVars
  <2> QED BY <2>1, <2>2, <2>3, <2>4, Quiet
<1> QED BY <1>1, <1>2, <1>3, <1>4, <1>5, <1>6, <1>7

-----------------------------------------------------------------------------
(* The steps of do_write_data *)

WirePcs == {"watch_on", "store_on", "pop"}

(* What send_mutex_ of c, held by nobody or by t, makes of OnWire. *)
LEMMA OnWireIs ==
  ASSUME NEW c \in Conns, NEW t \in Writers
  PROVE  /\ mutex[c].send = NoThread => OnWire(c) = 0
         /\ mutex[c].send = t =>
              OnWire(c) = IF th[t].pc \in WirePcs THEN th[t].n ELSE 0
<1>1. t # NoThread BY CoreAssumption DEF Writers, Threads
<1> QED BY <1>1 DEF OnWire, WirePcs

LEMMA OnWireBecomes ==
  ASSUME NEW c \in Conns, NEW t \in Writers
  PROVE  /\ mutex'[c].send = NoThread => OnWire(c)' = 0
         /\ mutex'[c].send = t =>
              OnWire(c)' = IF th'[t].pc \in WirePcs THEN th'[t].n ELSE 0
<1>1. t # NoThread BY CoreAssumption DEF Writers, Threads
<1> QED BY <1>1 DEF OnWire, WirePcs

(* One thread moves inside one connection; nobody else is concerned. *)
LEMMA Alone ==
  ASSUME TypeOK, WriteInv, UNCHANGED <<stage, fd, client_map, main_funcs>>,
         NEW c \in Conns, NEW t \in Writers, th[t].c = c, Live(c),
         \A s \in Writers \ {t} : th'[s] = th[s],
         th'[t].c \in {c, NoConn},
         \A d \in Conns \ {c} :
            lists'[d] = lists[d] /\ hist'[d] = hist[d] /\ mutex'[d] = mutex[d],
         mutex[c].send \in {t, NoThread}, mutex'[c].send \in {t, NoThread},
         WriterOK(c, t)', OutOK(c)'
  PROVE  WriteInv'
<1>1. ASSUME NEW d \in Conns \ {c} PROVE Part(d)'
  <2>1. d # NoConn BY CoreAssumption
  <2>2. ~Writing(t, d) /\ ~Writing(t, d)' BY <2>1 DEF Writing, Inside
  <2>3. SameWriter(d) BY <2>2 DEF SameWriter
  <2>4. SameOut(d) BY DEF SameOut
  <2>5. Part(d) BY Parts
  <2> QED BY <2>3, <2>4, <2>5, SendHolder, PartStays
<1>2. ASSUME NEW s \in Writers \ {t} PROVE WriterOK(c, s)'
  <2>1. s # NoThread BY CoreAssumption DEF Writers, Threads
  <2>2. ~Writing(s, c) BY <2>1, Parts DEF Part, WriterOK
  <2>3. ~Writing(s, c)' BY <2>2 DEF Writing, Inside
  <2>4. mutex'[c].send # s BY <2>1
  <2> QED BY <2>3, <2>4 DEF WriterOK
<1>3. Untouched(c)' BY DEF Live, Untouched
<1>4. Part(c)' BY <1>2, <1>3 DEF Part
<1>5. AddedOnce' /\ MapNamesLive' BY Parts, ObjectsStay
<1> QED BY <1>1, <1>4, <1>5 DEF WriteInv, OneWriter, StreamOut, Part, Writers

(* What holds of a thread inside do_write_data before it moves. *)
LEMMA Holder ==
  ASSUME TypeOK, WriteInv, NEW t \in Writers, NEW p \in Sending, At(t, p)
  PROVE  /\ th[t].c \in Conns /\ Live(th[t].c)
         /\ mutex[th[t].c].send = t
         /\ OnWire(th[t].c) = (IF p \in WirePcs THEN th[t].n ELSE 0)
         /\ ~hist[th[t].c].cleared =>
              /\ p = "writev" => th[t].iov = lists[th[t].c].send
              /\ p \in WirePcs => th[t].n <= Len(lists[th[t].c].send)
<1> DEFINE c == th[t].c
<1>1. c \in Conns /\ Live(c) /\ th[t].pc = p BY DEF At, Live
<1>2. Writing(t, c) BY <1>1 DEF Writing, Inside, Sending
<1>3. WriterOK(c, t) BY <1>1, Parts DEF Part
<1>4. mutex[c].send = t BY <1>2, <1>3 DEF WriterOK
<1>5. OnWire(c) = (IF p \in WirePcs THEN th[t].n ELSE 0) BY <1>1, <1>4, OnWireIs
<1>6. ~hist[c].cleared => /\ p = "writev" => th[t].iov = lists[c].send
                          /\ p \in WirePcs => th[t].n <= Len(lists[c].send)
  BY <1>1, <1>2, <1>3 DEF WriterOK, WirePcs
<1> QED BY <1>1, <1>4, <1>5, <1>6

(* A thread leaves do_write_data: send_mutex_ is free again. *)
LEMMA Leaves ==
  ASSUME TypeOK, WriteInv, NEW t \in Writers, NEW c \in Conns, th[t].c = c,
         NEW p \in Sending, At(t, p), WriteUnlock(t),
         UNCHANGED <<stage, fd, client_map, main_funcs>>, hist' = hist,
         \A d \in Conns \ {c} : lists'[d] = lists[d],
         \/ lists' = lists /\ p \notin WirePcs
         \/ OutOK(c)'
  PROVE  WriteInv'
<1>1. t \in Threads /\ t # NoThread BY CoreAssumption DEF Writers, Threads
<1>2. th \in [Threads -> ThreadT] /\ mutex \in [Conns -> MutexT]
  BY DEF TypeOK, ThreadsOK
<1>3. Live(c) /\ mutex[c].send = t BY Holder
<1>4. th' = [th EXCEPT ![t] = Home(t)] /\ mutex' = [mutex EXCEPT ![c].send = NoThread]
  BY DEF WriteUnlock, Return
<1>5. th'[t] = Home(t) /\ \A s \in Writers \ {t} : th'[s] = th[s]
  BY <1>1, <1>2, <1>4 DEF Writers, Threads
<1>6. mutex'[c].send = NoThread /\ \A d \in Conns \ {c} : mutex'[d] = mutex[d]
  BY <1>2, <1>3, <1>4 DEF MutexT
<1>7. th'[t].c = NoConn BY <1>5 DEF Home
<1>8. WriterOK(c, t)'
  <2>1. ~Writing(t, c)' BY <1>3, <1>7, CoreAssumption DEF Writing, Inside
  <2> QED BY <2>1, <1>1, <1>6 DEF WriterOK
<1>9. OutOK(c)'
  <2>1. CASE lists' = lists /\ p \notin WirePcs
    <3>1. OnWire(c)' = 0 /\ OnWire(c) = 0 BY <1>3, <1>6, <2>1, Holder, OnWireBecomes
    <3>2. OutOK(c) BY <1>3, Parts DEF Part
    <3>3. Drop(lists[c].send, OnWire(c))' = Drop(lists[c].send, OnWire(c))
      BY <2>1, <3>1 DEF Drop
    <3>4. hist' = hist /\ lists' = lists /\ stage' = stage BY <1>3, <2>1
    <3> QED BY <3>2, <3>3, <3>4 DEF OutOK, Live
  <2> QED BY <2>1
<1> QED BY <1>3, <1>5, <1>6, <1>7, <1>8, <1>9, Alone

(* A thread that holds send_mutex_ moves on inside do_write_data. *)
LEMMA GoesOn ==
  ASSUME TypeOK, WriteInv, NEW t \in Writers, NEW c \in Conns, th[t].c = c,
         NEW p \in Sending, At(t, p), UNCHANGED <<stage, fd, client_map, main_funcs>>,
         mutex' = mutex,
         \A s \in Writers \ {t} : th'[s] = th[s],
         th'[t].c = c, th'[t].pc \in Sending,
         \A d \in Conns \ {c} : lists'[d] = lists[d] /\ hist'[d] = hist[d],
         ~hist'[c].cleared =>
           /\ (th'[t].pc = "writev" => th'[t].iov = lists'[c].send)
           /\ th'[t].pc \in WirePcs => th'[t].n <= Len(lists'[c].send),
         OutOK(c)'
  PROVE  WriteInv'
<1>1. Live(c) /\ mutex[c].send = t BY Holder
<1>2. Writing(t, c)' BY DEF Writing, Inside, Sending
<1>3. WriterOK(c, t)' BY <1>1, <1>2 DEF WriterOK, WirePcs
<1> QED BY <1>1, <1>3, Alone

(* ... and its lists and the wire stay as they were. *)
LEMMA GoesOnSame ==
  ASSUME TypeOK, WriteInv, NEW t \in Writers, NEW c \in Conns, th[t].c = c,
         NEW p \in Sending, At(t, p), UNCHANGED <<stage, fd, client_map, main_funcs>>,
         mutex' = mutex,
         \A s \in Writers \ {t} : th'[s] = th[s],
         th'[t].c = c, th'[t].pc \in Sending \ {"writev"},
         p \in WirePcs <=> th'[t].pc \in WirePcs, th'[t].n = th[t].n,
         lists' = lists, hist' = hist
  PROVE  WriteInv'
<1>1. Live(c) /\ mutex[c].send = t BY Holder
<1>2. ~hist'[c].cleared /\ th'[t].pc \in WirePcs => th'[t].n <= Len(lists'[c].send)
  BY Holder
<1>3. OnWire(c)' = OnWire(c)
  <2>1. OnWire(c) = (IF p \in WirePcs THEN th[t].n ELSE 0) BY Holder
  <2>2. OnWire(c)' = IF th'[t].pc \in WirePcs THEN th'[t].n ELSE 0
    BY <1>1, OnWireBecomes
  <2> QED BY <2>1, <2>2
<1>4. OutOK(c) BY <1>1, Parts DEF Part
<1>5. OutOK(c)' BY <1>3, <1>4 DEF OutOK, Live, Drop
<1> QED BY <1>2, <1>5, GoesOn

(* What a step of do_write_data may use: its thread, its connection, types. *)
LEMMA Here ==
  ASSUME TypeOK, NEW t \in Writers, NEW p, At(t, p)
  PROVE  /\ t \in Threads /\ th \in [Threads -> ThreadT] /\ th[t].c \in Conns /\ th[t].pc = p
         /\ lists[th[t].c] \in ListsT /\ hist[th[t].c] \in HistT
         /\ th[t].n \in Nat /\ th[t].iov \in Seq(Packets)
<1>1. t \in Threads BY DEF Writers, Threads
<1>2. th \in [Threads -> ThreadT] BY DEF TypeOK, ThreadsOK
<1>3. th[t].c \in Conns /\ th[t].pc = p BY DEF At
<1>4. lists[th[t].c] \in ListsT /\ hist[th[t].c] \in HistT BY <1>3 DEF TypeOK
<1> QED BY <1>1, <1>2, <1>3, <1>4 DEF ThreadT

LEMMA WriteKeeps ==
  ASSUME TypeOK, WriteInv, NEW t \in Writers, WriteStep(t) PROVE WriteInv'
<1>th. t \in Threads /\ th \in [Threads -> ThreadT]
  BY DEF Writers, Threads, TypeOK, ThreadsOK
<1>sending. {"gather", "writev", "fail", "watch_on", "store_on", "pop"} \subseteq Sending
  BY DEF Sending, WritePcs
<1>1. ASSUME WriteBusy(t) PROVE WriteInv'
  <2>1. \A s \in Writers : Away(s)
    <3>1. th[t].pc = "try_lock" BY <1>1 DEF WriteBusy, At
    <3>2. th' = [th EXCEPT ![t] = Home(t)] BY <1>1 DEF WriteBusy, Return
    <3>3. th'[t].pc \in {"batch", "idle"} BY <3>2, <1>th DEF Home, HomePc
    <3>4. \A s \in Writers \ {t} : th'[s] = th[s]
      BY <3>2, <1>th DEF Writers, Threads
    <3> QED BY <3>1, <3>3, <3>4 DEF Away, Sending, WritePcs
  <2>2. UNCHANGED <<stage, fd, client_map, main_funcs, mutex, lists, hist>>
    BY <1>1 DEF WriteBusy, objVars, mapVars, mainVars
  <2> QED BY <2>1, <2>2, Quiet DEF SameOut
<1>2. ASSUME WriteLock(t) PROVE WriteInv'
  <2> DEFINE p == "try_lock"
  <2>1. PICK c \in Conns : c = th[t].c BY <1>2 DEF WriteLock, At
  <2>2. Live(c) /\ mutex[c].send = NoThread BY <1>2, <2>1 DEF WriteLock, At, Live
  <2>3. mutex' = [mutex EXCEPT ![c].send = t] BY <1>2, <2>1 DEF WriteLock
  <2>4. mutex'[c].send = t /\ \A d \in Conns \ {c} : mutex'[d] = mutex[d]
    BY <2>3 DEF TypeOK, MutexT
  <2>5. th' = [th EXCEPT ![t].pc = "gather"] BY <1>2 DEF WriteLock, Goto
  <2>6. th'[t].pc = "gather" /\ th'[t].c = c BY <2>1, <2>5, <1>th DEF ThreadT
  <2>7. \A s \in Writers \ {t} : th'[s] = th[s] BY <2>5, <1>th DEF Writers, Threads
  <2>8. UNCHANGED <<stage, fd, client_map, main_funcs, lists, hist>>
    BY <1>2 DEF WriteLock, objVars, mapVars, mainVars
  <2>9. WriterOK(c, t)'
    <3>1. Writing(t, c)' BY <2>6, <1>sending DEF Writing, Inside, Sending
    <3> QED BY <3>1, <2>4, <2>6 DEF WriterOK
  <2>10. OutOK(c)'
    <3>1. OnWire(c) = 0 BY <2>2, OnWireIs
    <3>2. OnWire(c)' = 0 BY <2>4, <2>6, OnWireBecomes DEF WirePcs
    <3>3. OutOK(c) BY Parts DEF Part
    <3> QED BY <3>1, <3>2, <3>3, <2>8 DEF OutOK, Live, Drop
  <2> QED BY <2>1, <2>2, <2>4, <2>6, <2>7, <2>8, <2>9, <2>10, Alone
<1>3. ASSUME WriteNothing(t) PROVE WriteInv'
  <2>1. At(t, "gather") /\ WriteUnlock(t) BY <1>3 DEF WriteNothing
  <2>2. PICK c \in Conns : c = th[t].c BY <2>1 DEF At
  <2>3. UNCHANGED <<stage, fd, client_map, main_funcs, lists, hist>>
    BY <1>3 DEF WriteNothing, objVars, mapVars, mainVars
  <2>4. "gather" \notin WirePcs BY DEF WirePcs
  <2> QED BY <2>1, <2>2, <2>3, <2>4, <1>sending, Leaves
<1>4. ASSUME WriteFail(t) PROVE WriteInv'
  <2>1. At(t, "fail") /\ WriteUnlock(t) BY <1>4 DEF WriteFail
  <2>2. PICK c \in Conns : c = th[t].c BY <2>1 DEF At
  <2>3. UNCHANGED <<stage, fd, client_map, main_funcs, lists, hist>>
    BY <1>4 DEF WriteFail, objVars, mapVars, mainVars
  <2>4. "fail" \notin WirePcs BY DEF WirePcs
  <2> QED BY <2>1, <2>2, <2>3, <2>4, <1>sending, Leaves
<1>5. ASSUME WriteAgain(t) PROVE WriteInv'
  <2>1. At(t, "writev") /\ WriteUnlock(t) BY <1>5 DEF WriteAgain
  <2>2. PICK c \in Conns : c = th[t].c BY <2>1 DEF At
  <2>3. UNCHANGED <<stage, fd, client_map, main_funcs, lists, hist>>
    BY <1>5 DEF WriteAgain, objVars, mapVars, mainVars
  <2>4. "writev" \notin WirePcs BY DEF WirePcs
  <2> QED BY <2>1, <2>2, <2>3, <2>4, <1>sending, Leaves
<1>6. ASSUME WriteError(t) PROVE WriteInv'
  <2>1. At(t, "writev") BY <1>6 DEF WriteError
  <2>2. PICK c \in Conns : c = th[t].c BY <2>1 DEF At
  <2>3. UNCHANGED <<stage, fd, client_map, main_funcs, lists, hist, mutex>>
    BY <1>6 DEF WriteError, objVars, mapVars, mainVars
  <2>4. th' = [th EXCEPT ![t].pc = "fail"] BY <1>6 DEF WriteError, Goto
  <2>5. th'[t].pc = "fail" /\ th'[t].c = c /\ th'[t].n = th[t].n
    BY <2>2, <2>4, <1>th DEF ThreadT
  <2>6. \A s \in Writers \ {t} : th'[s] = th[s] BY <2>4, <1>th DEF Writers, Threads
  <2>7. "writev" \notin WirePcs /\ "fail" \notin WirePcs BY DEF WirePcs
  <2> QED BY <2>1, <2>2, <2>3, <2>5, <2>6, <2>7, <1>sending, GoesOnSame
<1>7. ASSUME WriteGather(t) PROVE WriteInv'
  <2>1. At(t, "gather") BY <1>7 DEF WriteGather
  <2>2. PICK c \in Conns : c = th[t].c BY <2>1 DEF At
  <2>3. UNCHANGED <<stage, fd, client_map, main_funcs, hist, mutex>>
    BY <1>7 DEF WriteGather, objVars, mapVars, mainVars
  <2>4. th' = [th EXCEPT ![t].pc = "writev", ![t].iov = AllOut(c)]
    BY <1>7, <2>2 DEF WriteGather
  <2>5. th'[t].pc = "writev" /\ th'[t].c = c /\ th'[t].iov = AllOut(c)
    BY <2>2, <2>4, <1>th DEF ThreadT
  <2>6. \A s \in Writers \ {t} : th'[s] = th[s] BY <2>4, <1>th DEF Writers, Threads
  <2>7. lists' = [lists EXCEPT ![c].send = AllOut(c), ![c].pack = <<>>]
    BY <1>7, <2>2 DEF WriteGather
  <2>8. /\ lists'[c].send = AllOut(c) /\ lists'[c].pack = <<>>
        /\ \A d \in Conns \ {c} : lists'[d] = lists[d]
    BY <2>7 DEF TypeOK, ListsT
  <2>9. "writev" \notin WirePcs /\ "gather" \notin WirePcs BY DEF WirePcs
  <2>10. OutOK(c)'
    <3>1. OnWire(c) = 0 /\ mutex[c].send = t /\ Live(c)
      BY <2>1, <2>2, <2>9, <1>sending, Holder
    <3>2. OnWire(c)' = 0 BY <3>1, <2>3, <2>5, <2>9, OnWireBecomes
    <3> DEFINE S == lists[c].send
               P == lists[c].pack
               W == hist[c].wire
    <3>3. S \in Seq(Packets) /\ P \in Seq(Packets) /\ W \in Seq(Packets)
      BY DEF TypeOK, ListsT, HistT
    <3> HIDE DEF S, P, W
    <3>4. S \o P \in Seq(Packets) BY <3>3
    <3>5. Drop(S, 0) = S /\ Drop(S \o P, 0) = S \o P
      <4>1. \A s \in Seq(Packets) : Drop(s, 0) = s BY DropNone
      <4> QED BY <3>3, <3>4, <4>1
    <3>6. (W \o S) \o P = W \o (S \o P) BY <3>3, ConcatAssociative
    <3>7. (W \o (S \o P)) \o <<>> = W \o (S \o P)
      <4>1. W \o (S \o P) \in Seq(Packets) BY <3>3, <3>4
      <4> QED BY <4>1, ConcatEmptySeq
    <3>8. ~hist[c].cleared => (W \o S) \o P = hist[c].accepted
      BY <3>1, <3>5, Parts DEF Part, OutOK, S, P, W
    <3>9. ~hist[c].cleared => (W \o (S \o P)) \o <<>> = hist[c].accepted
      BY <3>6, <3>7, <3>8
    <3>10. Drop(AllOut(c), 0) = S \o P BY <3>5 DEF AllOut, S, P
    <3>11. ~hist[c].cleared =>
             (hist[c].wire \o Drop(AllOut(c), 0)) \o <<>> = hist[c].accepted
      BY <3>9, <3>10, Zenon DEF W
    <3>12. Drop(lists[c].send, OnWire(c))' = Drop(AllOut(c), 0)
      <4>1. lists'[c].send = AllOut(c) BY <2>8
      <4> QED BY <3>2, <4>1, Zenon DEF Drop
    <3>13. lists'[c].pack = <<>> BY <2>8
    <3>14. hist' = hist BY <2>3
    <3> QED BY <3>11, <3>12, <3>13, <3>14, Zenon DEF OutOK
  <2> QED BY <2>1, <2>2, <2>3, <2>5, <2>6, <2>8, <2>9, <2>10, <1>sending, GoesOn
<1>8. ASSUME WriteSome(t) PROVE WriteInv'
  <2>1. At(t, "writev") BY <1>8 DEF WriteSome
  <2>2. PICK c \in Conns : c = th[t].c BY <2>1 DEF At
  <2>3. UNCHANGED <<stage, fd, client_map, main_funcs, lists, mutex>>
    BY <1>8 DEF WriteSome, objVars, mapVars, mainVars
  <2>4. PICK k : k = Min2(sock[c].room, Len(th[t].iov)) OBVIOUS
  <2>5. k \in 0 .. Len(th[t].iov)
    <3>1. sock[c].room \in Nat /\ Len(th[t].iov) \in Nat
      BY <2>1, Here DEF TypeOK, SockT
    <3> QED BY <2>4, <3>1 DEF Min2
  <2>6. \E q \in WirePcs : th' = [th EXCEPT ![t].n = k, ![t].iov = <<>>, ![t].pc = q]
    BY <1>8, <2>2, <2>4 DEF WriteSome, WirePcs
  <2>7. th'[t].pc \in WirePcs /\ th'[t].c = c /\ th'[t].n = k
    BY <2>2, <2>6, <1>th DEF ThreadT
  <2>8. \A s \in Writers \ {t} : th'[s] = th[s] BY <2>6, <1>th DEF Writers, Threads
  <2>9. hist' = [hist EXCEPT ![c].wire = @ \o SubSeq(th[t].iov, 1, k)]
    BY <1>8, <2>2, <2>4 DEF WriteSome
  <2>10. /\ hist'[c].wire = hist[c].wire \o SubSeq(th[t].iov, 1, k)
         /\ hist'[c].accepted = hist[c].accepted /\ hist'[c].cleared = hist[c].cleared
         /\ \A d \in Conns \ {c} : hist'[d] = hist[d]
    BY <2>9 DEF TypeOK, HistT
  <2>11. "writev" \notin WirePcs /\ WirePcs \subseteq Sending
    BY DEF WirePcs, Sending, WritePcs
  <2>12. /\ OnWire(c) = 0 /\ mutex[c].send = t /\ Live(c)
         /\ ~hist[c].cleared => th[t].iov = lists[c].send
    BY <2>1, <2>2, <2>11, <1>sending, Holder
  <2>13. ~hist'[c].cleared => th'[t].n <= Len(lists'[c].send)
    BY <2>3, <2>5, <2>7, <2>10, <2>12
  <2>14. OutOK(c)'
    <3>1. OnWire(c)' = k BY <2>3, <2>7, <2>12, OnWireBecomes
    <3>2. lists[c].send \in Seq(Packets) /\ hist[c].wire \in Seq(Packets)
      BY DEF TypeOK, ListsT, HistT
    <3>3. SUFFICES ASSUME ~hist[c].cleared
          PROVE (hist'[c].wire \o Drop(lists[c].send, k)) \o lists[c].pack = hist[c].accepted
      BY <2>3, <2>10, <3>1 DEF OutOK, Drop
    <3>4. th[t].iov = lists[c].send BY <2>12, <3>3
    <3>5. hist'[c].wire \o Drop(lists[c].send, k) = hist[c].wire \o lists[c].send
      <4>1. k \in 0 .. Len(lists[c].send) BY <2>5, <3>4
      <4>2. (hist[c].wire \o SubSeq(lists[c].send, 1, k)) \o Drop(lists[c].send, k)
              = hist[c].wire \o lists[c].send
        BY <3>2, <4>1, MoveHead
      <4> QED BY <2>10, <3>4, <4>2
    <3>6. (hist[c].wire \o Drop(lists[c].send, 0)) \o lists[c].pack = hist[c].accepted
      BY <2>12, <3>3, Parts DEF Part, OutOK
    <3>7. Drop(lists[c].send, 0) = lists[c].send BY <3>2, DropNone
    <3> QED BY <3>5, <3>6, <3>7
  <2> QED
    BY <2>1, <2>2, <2>3, <2>7, <2>8, <2>10, <2>11, <2>13, <2>14, <1>sending, GoesOn
<1>9. ASSUME WatchWriteLoad(t) PROVE WriteInv'
  <2>1. PICK on \in BOOLEAN :
           /\ At(t, IF on THEN "watch_on" ELSE "watch_off")
           /\ th' = IF get_handle(th[t].c)
                    THEN [th EXCEPT ![t].pc = IF on THEN "store_on" ELSE "store_off",
                                    ![t].ev = handle[th[t].c].want]
                    ELSE [th EXCEPT ![t].pc = IF on THEN "pop" ELSE "try_lock"]
    BY <1>9 DEF WatchWriteLoad
  <2>2. UNCHANGED <<stage, fd, client_map, main_funcs, lists, mutex, hist>>
    BY <1>9 DEF WatchWriteLoad, objVars, mapVars, mainVars
  <2>3. PICK c \in Conns : c = th[t].c BY <2>1 DEF At
  <2>4. th[t].pc = (IF on THEN "watch_on" ELSE "watch_off") BY <2>1 DEF At
  <2>5. /\ \A s \in Writers \ {t} : th'[s] = th[s]
        /\ th'[t].pc \in (IF on THEN {"store_on", "pop"} ELSE {"store_off", "try_lock"})
        /\ th'[t].c = c /\ th'[t].n = th[t].n
    <3>1. CASE get_handle(th[t].c) /\ on
      <4>1. th' = [th EXCEPT ![t].pc = "store_on", ![t].ev = handle[th[t].c].want]
        BY <2>1, <3>1
      <4> QED BY <2>3, <3>1, <4>1, <1>th DEF Writers, Threads, ThreadT
    <3>2. CASE get_handle(th[t].c) /\ ~on
      <4>1. th' = [th EXCEPT ![t].pc = "store_off", ![t].ev = handle[th[t].c].want]
        BY <2>1, <3>2
      <4> QED BY <2>3, <3>2, <4>1, <1>th DEF Writers, Threads, ThreadT
    <3>3. CASE ~get_handle(th[t].c) /\ on
      <4>1. th' = [th EXCEPT ![t].pc = "pop"] BY <2>1, <3>3
      <4> QED BY <2>3, <3>3, <4>1, <1>th DEF Writers, Threads, ThreadT
    <3>4. CASE ~get_handle(th[t].c) /\ ~on
      <4>1. th' = [th EXCEPT ![t].pc = "try_lock"] BY <2>1, <3>4
      <4> QED BY <2>3, <3>4, <4>1, <1>th DEF Writers, Threads, ThreadT
    <3> QED BY <3>1, <3>2, <3>3, <3>4
  <2>6. CASE on
    <3>1. At(t, "watch_on") BY <2>1, <2>6
    <3>2. {"watch_on", "store_on", "pop"} \subseteq WirePcs BY DEF WirePcs
    <3> QED BY <2>2, <2>3, <2>5, <2>6, <3>1, <3>2, <1>sending, GoesOnSame
  <2>7. CASE ~on
    <3>1. {th[t].pc, th'[t].pc} \cap Sending = {}
      BY <2>4, <2>5, <2>7 DEF Sending, WritePcs
    <3>2. \A s \in Writers : Away(s) BY <2>5, <3>1 DEF Away
    <3> QED BY <2>2, <3>2, Quiet DEF SameOut
  <2> QED BY <2>6, <2>7
<1>10. ASSUME WatchWriteOn(t) PROVE WriteInv'
  <2>1. At(t, "store_on") BY <1>10 DEF WatchWriteOn
  <2>2. PICK c \in Conns : c = th[t].c BY <2>1 DEF At
  <2>3. UNCHANGED <<stage, fd, client_map, main_funcs, lists, mutex, hist>>
    BY <1>10 DEF WatchWriteOn, objVars, mapVars, mainVars
  <2>4. th' = [th EXCEPT ![t].pc = "pop", ![t].ev = {}] BY <1>10 DEF WatchWriteOn
  <2>5. th'[t].pc = "pop" /\ th'[t].c = c /\ th'[t].n = th[t].n
    BY <2>2, <2>4, <1>th DEF ThreadT
  <2>6. \A s \in Writers \ {t} : th'[s] = th[s] BY <2>4, <1>th DEF Writers, Threads
  <2>7. "store_on" \in WirePcs /\ "pop" \in WirePcs BY DEF WirePcs
  <2> QED BY <2>1, <2>2, <2>3, <2>5, <2>6, <2>7, <1>sending, GoesOnSame
<1>11. ASSUME WritePop(t) PROVE WriteInv'
  <2>1. At(t, "pop") /\ WriteUnlock(t) BY <1>11 DEF WritePop
  <2>2. PICK c \in Conns : c = th[t].c BY <2>1 DEF At
  <2>3. UNCHANGED <<stage, fd, client_map, main_funcs, hist>>
    BY <1>11 DEF WritePop, objVars, mapVars, mainVars
  <2>4. lists' = [lists EXCEPT ![c].send = Drop(@, Min2(th[t].n, Len(@)))]
    BY <1>11, <2>2 DEF WritePop
  <2>5. "pop" \in WirePcs BY DEF WirePcs
  <2>6. /\ OnWire(c) = th[t].n /\ mutex[c].send = t /\ Live(c)
        /\ ~hist[c].cleared => th[t].n <= Len(lists[c].send)
    BY <2>1, <2>2, <2>5, <1>sending, Holder
  <2>7. lists[c].send \in Seq(Packets) /\ th[t].n \in Nat
    BY <2>1, Here DEF TypeOK, ListsT
  <2>8. /\ lists'[c].send = Drop(lists[c].send, Min2(th[t].n, Len(lists[c].send)))
        /\ lists'[c].pack = lists[c].pack
        /\ \A d \in Conns \ {c} : lists'[d] = lists[d]
    BY <2>4 DEF TypeOK, ListsT
  <2>9. mutex'[c].send = NoThread
    BY <2>1, <2>2 DEF WriteUnlock, TypeOK, MutexT
  <2>10. OutOK(c)'
    <3>1. OnWire(c)' = 0 BY <2>9, OnWireBecomes
    <3>2. SUFFICES ASSUME ~hist[c].cleared
          PROVE (hist[c].wire \o Drop(lists'[c].send, 0)) \o lists[c].pack = hist[c].accepted
      BY <2>3, <2>8, <3>1 DEF OutOK, Drop
    <3>3. th[t].n <= Len(lists[c].send) BY <2>6, <3>2
    <3>4. Min2(th[t].n, Len(lists[c].send)) = th[t].n
      <4>1. Len(lists[c].send) \in Nat BY <2>7
      <4> QED BY <2>7, <3>3, <4>1 DEF Min2
    <3>5. lists'[c].send = Drop(lists[c].send, th[t].n) BY <2>8, <3>4
    <3>6. lists'[c].send \in Seq(Packets) BY <2>7, <3>5, DropType
    <3>7. Drop(lists'[c].send, 0) = Drop(lists[c].send, th[t].n)
      BY <3>5, <3>6, DropNone
    <3> QED BY <2>6, <3>2, <3>7, Parts DEF Part, OutOK
  <2> QED BY <2>1, <2>2, <2>3, <2>8, <2>10, <1>sending, Leaves
<1> QED
  BY <1>1, <1>2, <1>3, <1>4, <1>5, <1>6, <1>7, <1>8, <1>9, <1>10, <1>11 DEF
     WriteStep

-----------------------------------------------------------------------------
(* The other steps that touch the output, and those that make and destroy  *)
(* clients                                                                  *)

(* A user adds one packet at the end. *)
LEMMA PushKeeps ==
  ASSUME TypeOK, WriteInv, NEW u \in Users, push_send_pack(u) PROVE WriteInv'
<1>1. PICK c \in Conns : c = th[u].c /\ Live(c) BY DEF push_send_pack, At, Live
<1>2. PICK x \in Seq(Packets) : x = th[u].iov
  BY DEF TypeOK, ThreadsOK, Threads, ThreadT
<1>3. UNCHANGED <<stage, fd, client_map, main_funcs, mutex>>
  BY DEF push_send_pack, objVars, mapVars, mainVars
<1>4. \A s \in Writers : th'[s] = th[s]
  BY CoreAssumption DEF push_send_pack, Return, TypeOK, ThreadsOK, Threads, Writers
<1>5. lists' = [lists EXCEPT ![c].pack = @ \o x] /\ hist' = [hist EXCEPT ![c].accepted = @ \o x]
  BY <1>1, <1>2 DEF push_send_pack
<1>6. /\ lists'[c].send = lists[c].send /\ lists'[c].pack = lists[c].pack \o x
      /\ \A d \in Conns \ {c} : lists'[d] = lists[d]
  BY <1>5 DEF TypeOK, ListsT
<1>7. /\ hist'[c].wire = hist[c].wire /\ hist'[c].accepted = hist[c].accepted \o x
      /\ hist'[c].cleared = hist[c].cleared
      /\ \A d \in Conns \ {c} : hist'[d] = hist[d]
  BY <1>5 DEF TypeOK, HistT
<1>8. ASSUME NEW d \in Conns PROVE SameWriter(d) BY <1>3, <1>4 DEF SameWriter
<1>9. ASSUME NEW d \in Conns \ {c} PROVE Part(d)'
  <2>1. SameOut(d) BY <1>6, <1>7 DEF SameOut
  <2>2. Part(d) BY Parts
  <2> QED BY <1>3, <1>8, <2>1, <2>2, SendHolder, PartStays
<1>10. Part(c)'
  <2>1. Part(c) BY Parts
  <2>2. \A t \in Writers : WriterOK(c, t)'
    BY <1>3, <1>6, <1>7, <1>8, <2>1, WriterStays DEF Part, Live
  <2>3. Untouched(c)' BY <1>1, <1>3 DEF Untouched, Live
  <2>4. OnWire(c)' = OnWire(c) BY <1>8, <2>1, SendHolder, OnWireStays DEF Part
  <2>5. OutOK(c)'
    <3>1. SUFFICES ASSUME ~hist[c].cleared
          PROVE (hist[c].wire \o Drop(lists[c].send, OnWire(c))) \o (lists[c].pack \o x)
                  = hist[c].accepted \o x
      BY <1>6, <1>7, <2>4 DEF OutOK, Drop
    <3> DEFINE H == hist[c].wire \o Drop(lists[c].send, OnWire(c))
    <3>2. H \o lists[c].pack = hist[c].accepted BY <1>1, <2>1, <3>1 DEF Part, OutOK
    <3>3. H \in Seq(Packets)
      <4>1. OnWire(c) \in Nat
        BY SendHolder DEF OnWire, TypeOK, ThreadsOK, ThreadT, Writers, Threads
      <4>2. lists[c].send \in Seq(Packets) /\ hist[c].wire \in Seq(Packets)
        BY DEF TypeOK, ListsT, HistT
      <4>3. Drop(lists[c].send, OnWire(c)) \in Seq(Packets) BY <4>1, <4>2, DropType
      <4> QED BY <4>2, <4>3
    <3>4. lists[c].pack \in Seq(Packets) BY DEF TypeOK, ListsT
    <3> HIDE DEF H
    <3>5. (H \o lists[c].pack) \o x = H \o (lists[c].pack \o x)
      <4>1. \A h, a, b \in Seq(Packets) : (h \o a) \o b = h \o (a \o b)
        BY ConcatAssociative
      <4> QED BY <1>2, <3>3, <3>4, <4>1
    <3> QED BY <3>2, <3>5 DEF H
  <2> QED BY <2>2, <2>3, <2>5 DEF Part
<1>11. AddedOnce' /\ MapNamesLive' BY <1>3, Parts, ObjectsStay
<1> QED BY <1>9, <1>10, <1>11 DEF WriteInv, OneWriter, StreamOut, Part, Writers

(* clear() ends the claim for its connection. *)
LEMMA BadKeeps ==
  ASSUME TypeOK, WriteInv, NEW w \in Workers, UnpackBad(w) PROVE WriteInv'
<1>a. At(w, "parse") /\ Goto(w, "bad") BY Zenon DEF UnpackBad
<1>b. lists' = [lists EXCEPT ![th[w].c] = NoLists] BY Zenon DEF UnpackBad
<1>c. \/ hist' = [hist EXCEPT ![th[w].c].cleared = TRUE]
      \/ \E q : hist' = [hist EXCEPT ![th[w].c].parsed = q, ![th[w].c].cleared = TRUE]
  BY Zenon DEF UnpackBad
<1>2. UNCHANGED <<stage, fd, client_map, main_funcs, mutex>>
  BY Zenon DEF UnpackBad, objVars, mapVars, mainVars
<1>1. PICK c \in Conns : c = th[w].c /\ Live(c) BY <1>a, Zenon DEF At, Live
<1>3. \A s \in Writers : Away(s)
  <2>1. th' = [th EXCEPT ![w].pc = "bad"] /\ th[w].pc = "parse"
    BY <1>a, Zenon DEF Goto, At
  <2>2. w \in Threads /\ th \in [Threads -> ThreadT]
    BY DEF Threads, TypeOK, ThreadsOK
  <2>3. \A s \in Writers \ {w} : th'[s] = th[s] BY <2>1, <2>2 DEF Writers, Threads
  <2>4. th'[w].pc = "bad" BY <2>1, <2>2 DEF ThreadT
  <2> QED BY <2>1, <2>3, <2>4 DEF Away, Sending, WritePcs
<1>h. hist \in [Conns -> HistT] /\ lists \in [Conns -> ListsT] BY DEF TypeOK
<1>4. \A d \in Conns \ {c} : lists'[d] = lists[d] /\ hist'[d] = hist[d]
  BY <1>1, <1>b, <1>c, <1>h
<1>5. hist'[c].cleared = TRUE
  <2>3. CASE hist' = [hist EXCEPT ![c].cleared = TRUE] BY <1>h, <2>3 DEF HistT
  <2>4. ASSUME NEW q, hist' = [hist EXCEPT ![c].parsed = q, ![c].cleared = TRUE]
        PROVE  hist'[c].cleared = TRUE
    BY <1>h, <2>4 DEF HistT
  <2> QED BY <1>1, <1>c, <2>3, <2>4
<1>6. ASSUME NEW d \in Conns PROVE SameWriter(d)
  BY <1>2, <1>3 DEF SameWriter, Away, Writing, Sending
<1>7. ASSUME NEW d \in Conns \ {c} PROVE Part(d)'
  <2>1. SameOut(d) BY <1>4 DEF SameOut
  <2>2. Part(d) BY Parts
  <2> QED BY <1>2, <1>6, <2>1, <2>2, SendHolder, PartStays
<1>8. Part(c)'
  <2>1. \A t \in Writers : WriterOK(c, t)'
    <3>1. Part(c) BY Parts
    <3> QED BY <1>5, <1>6, <3>1, WriterStays DEF Part
  <2>2. Untouched(c)' BY <1>1, <1>2 DEF Untouched, Live
  <2>3. OutOK(c)' BY <1>5 DEF OutOK
  <2> QED BY <2>1, <2>2, <2>3 DEF Part
<1>9. AddedOnce' /\ MapNamesLive' BY <1>2, Parts, ObjectsStay
<1> QED BY <1>7, <1>8, <1>9 DEF WriteInv, OneWriter, StreamOut, Part, Writers

(* A new connection is in "adding" with its one request behind the others. *)
LEMMA AcceptKeeps ==
  ASSUME TypeOK, WriteInv, NEW c \in Conns, NEW f \in Fds, Accept(c, f) PROVE WriteInv'
<1>1. UNCHANGED <<client_map, mutex, lists, hist, th>> /\ stage[c] = "none"
  BY DEF Accept
<1>2. /\ stage' = [stage EXCEPT ![c] = "adding"] /\ fd' = [fd EXCEPT ![c] = f]
      /\ main_funcs' = Append(main_funcs, [op |-> "add", c |-> c])
  BY DEF Accept
<1>3. /\ stage'[c] = "adding"
      /\ \A d \in Conns \ {c} : stage'[d] = stage[d] /\ fd'[d] = fd[d]
  BY <1>2 DEF TypeOK, ObjOK
<1>4. ASSUME NEW d \in Conns PROVE Part(d)'
  <2>1. SameOut(d) /\ SameWriter(d) /\ Part(d)
    BY <1>1, Parts DEF SameOut, SameWriter
  <2>2. CASE d # c BY <1>3, <2>1, <2>2, SendHolder, PartStays
  <2>3. CASE d = c
    <3>1. \A t \in Writers : WriterOK(c, t)'
      BY <1>3, <2>1, <2>3, WriterStays DEF Part, Live
    <3>2. Untouched(c)' BY <1>1, <2>1, <2>3 DEF Part, Untouched
    <3>3. OutOK(c)' BY <1>3 DEF OutOK, Live
    <3> QED BY <2>3, <3>1, <3>2, <3>3 DEF Part
  <2> QED BY <2>2, <2>3
<1>5. AddedOnce'
  <2> DEFINE e == [op |-> "add", c |-> c]
             n == Len(main_funcs)
  <2>1. main_funcs \in Seq(MainFuncT) /\ e \in MainFuncT
    BY DEF TypeOK, MainOK, MainFuncT
  <2>2. /\ n \in Nat /\ Len(main_funcs') = n + 1 /\ main_funcs'[n + 1] = e
        /\ \A i \in 1 .. n : main_funcs'[i] = main_funcs[i]
    BY <1>2, <2>1, LenProperties, AppendProperties
  <2>3. \A i \in 1 .. n : main_funcs[i] # e
    BY <1>1, Parts DEF AddedOnce
  <2>4. \A i \in 1 .. n : main_funcs[i] \in MainFuncT BY <2>1, LenProperties
  <2>5. ASSUME NEW i \in 1 .. n + 1, main_funcs'[i].op = "add"
        PROVE  /\ stage'[main_funcs'[i].c] = "adding"
               /\ \A j \in 1 .. n + 1 : main_funcs'[j] = main_funcs'[i] => j = i
    <3>1. CASE i = n + 1 BY <1>3, <2>2, <2>3, <3>1
    <3>2. CASE i \in 1 .. n
      <4>1. main_funcs'[i] = main_funcs[i] /\ main_funcs[i].c \in Conns
        BY <2>2, <2>4, <3>2 DEF MainFuncT
      <4>2. stage[main_funcs[i].c] = "adding"
        BY <2>5, <3>2, <4>1, Parts DEF AddedOnce
      <4>3. \A j \in 1 .. n : main_funcs[j] = main_funcs[i] => j = i
        BY <2>5, <3>2, <4>1, Parts DEF AddedOnce
      <4> QED BY <1>1, <1>3, <2>2, <2>3, <3>2, <4>1, <4>2, <4>3
    <3> QED BY <2>2, <3>1, <3>2
  <2> QED BY <2>2, <2>5 DEF AddedOnce
<1>6. MapNamesLive'
  <2>1. ASSUME NEW g \in Fds, client_map[g] # NoConn
        PROVE  stage'[client_map[g]] = "live" /\ fd'[client_map[g]] = g
    <3>1. client_map[g] \in Conns BY <2>1 DEF TypeOK, MapOK
    <3>2. stage[client_map[g]] = "live" /\ fd[client_map[g]] = g
      BY <2>1, Parts DEF MapNamesLive, Live
    <3> QED BY <1>1, <1>3, <3>1, <3>2
  <2> QED BY <1>1, <2>1 DEF MapNamesLive, Live
<1> QED BY <1>4, <1>5, <1>6 DEF WriteInv, OneWriter, StreamOut, Part, Writers

(* What is left of main_thread_'s functions when the first is taken off. *)
LEMMA AddedOnceTail ==
  ASSUME TypeOK, AddedOnce, main_funcs # <<>>, main_funcs' = Tail(main_funcs),
         \A i \in 2 .. Len(main_funcs) : main_funcs[i].op = "add" =>
            stage'[main_funcs[i].c] = stage[main_funcs[i].c]
  PROVE  AddedOnce'
<1> DEFINE n == Len(main_funcs)
<1>1. n \in Nat \ {0} BY EmptySeq DEF TypeOK, MainOK
<1>2. Len(main_funcs') = n - 1 /\ \A i \in 1 .. n - 1 : main_funcs'[i] = main_funcs[i + 1]
  BY HeadTailProperties DEF TypeOK, MainOK
<1>3. ASSUME NEW i \in 1 .. n - 1, main_funcs'[i].op = "add"
      PROVE  /\ stage'[main_funcs'[i].c] = "adding"
             /\ \A j \in 1 .. n - 1 : main_funcs'[j] = main_funcs'[i] => j = i
  <2>1. i + 1 \in 2 .. n /\ main_funcs'[i] = main_funcs[i + 1] BY <1>1, <1>2
  <2>2. stage[main_funcs[i + 1].c] = "adding" BY <1>1, <1>3, <2>1 DEF AddedOnce
  <2>3. \A j \in 1 .. n : main_funcs[j] = main_funcs[i + 1] => j = i + 1
    BY <1>1, <1>3, <2>1 DEF AddedOnce
  <2>4. \A j \in 1 .. n - 1 : main_funcs'[j] = main_funcs'[i] => j = i
    BY <1>1, <1>2, <2>1, <2>3
  <2> QED BY <1>3, <2>1, <2>2, <2>4
<1> QED BY <1>2, <1>3 DEF AddedOnce

(* do_add_client: the client becomes live, empty and unlocked. *)
LEMMA AddKeeps ==
  ASSUME TypeOK, WriteInv, NEW c \in Conns, NEW l \in Loops, DoAddClient(c, l) PROVE WriteInv'
<1>1. UNCHANGED <<fd, mutex, lists, hist>> BY DEF DoAddClient
<1>2. /\ main_funcs # <<>> /\ main_funcs' = Tail(main_funcs)
      /\ Head(main_funcs) = [op |-> "add", c |-> c]
      /\ stage' = [stage EXCEPT ![c] = "live"]
      /\ client_map' = [client_map EXCEPT ![fd[c]] = c]
  BY DEF DoAddClient
<1>3. UNCHANGED th BY DEF DoAddClient
<1>4. /\ Len(main_funcs) \in Nat /\ 1 \in 1 .. Len(main_funcs)
      /\ main_funcs[1] = [op |-> "add", c |-> c]
  <2>1. main_funcs \in Seq(MainFuncT) BY DEF TypeOK, MainOK
  <2>2. Len(main_funcs) \in Nat \ {0} BY <1>2, <2>1, EmptySeq
  <2>3. Head(main_funcs) = main_funcs[1] BY <1>2, <2>1
  <2> QED BY <1>2, <2>2, <2>3
<1>5. stage[c] = "adding" BY <1>4, Parts DEF AddedOnce
<1>6. stage'[c] = "live" /\ \A d \in Conns \ {c} : stage'[d] = stage[d]
  BY <1>2 DEF TypeOK, ObjOK
<1>7. ASSUME NEW d \in Conns PROVE Part(d)'
  <2>1. SameOut(d) /\ SameWriter(d) /\ Part(d)
    BY <1>1, <1>3, Parts DEF SameOut, SameWriter
  <2>2. CASE d # c BY <1>6, <2>1, <2>2, SendHolder, PartStays
  <2>3. CASE d = c
    <3>1. /\ mutex[c].send = NoThread /\ lists[c].send = <<>> /\ lists[c].pack = <<>>
          /\ hist[c].wire = <<>> /\ hist[c].accepted = <<>>
      BY <1>5, <2>1, <2>3 DEF Part, Untouched
    <3>2. ASSUME NEW t \in Writers PROVE WriterOK(c, t)'
      <4>1. t # NoThread BY CoreAssumption DEF Writers, Threads
      <4>2. ~Writing(t, c) BY <2>1, <2>3, <3>1, <4>1 DEF Part, WriterOK
      <4>3. ~Writing(t, c)' BY <1>3, <4>2 DEF Writing, Inside
      <4> QED BY <1>1, <3>1, <4>1, <4>3 DEF WriterOK
    <3>3. Untouched(c)' BY <1>6 DEF Untouched
    <3>4. OutOK(c)'
      <4>1. OnWire(c)' = 0 BY <1>1, <3>1 DEF OnWire
      <4>2. Drop(<<>>, 0) = <<>>
        <5>1. Len(<<>>) = 0 BY EmptySeq
        <5> QED BY <5>1, SubSeqEmpty DEF Drop
      <4>3. <<>> \o <<>> = <<>> BY ConcatEmptySeq, EmptySeq
      <4>4. Drop(lists[c].send, OnWire(c))' = <<>>
        BY <1>1, <3>1, <4>1, <4>2 DEF Drop
      <4> QED BY <1>1, <3>1, <4>3, <4>4 DEF OutOK
    <3> QED BY <2>3, <3>2, <3>3, <3>4 DEF Part
  <2> QED BY <2>2, <2>3
<1>8. AddedOnce'
  <2>1. \A i \in 2 .. Len(main_funcs) : main_funcs[i].op = "add" =>
           main_funcs[i].c \in Conns \ {c}
    <3>1. \A i \in 1 .. Len(main_funcs) : main_funcs[i] \in MainFuncT
      BY LenProperties DEF TypeOK, MainOK
    <3>2. \A i \in 2 .. Len(main_funcs) : main_funcs[i] # [op |-> "add", c |-> c]
      BY <1>4, Parts DEF AddedOnce
    <3> QED BY <1>4, <3>1, <3>2 DEF MainFuncT
  <2> QED BY <1>2, <1>6, <2>1, Parts, AddedOnceTail
<1>9. MapNamesLive'
  <2>1. ASSUME NEW g \in Fds, client_map'[g] # NoConn
        PROVE  stage'[client_map'[g]] = "live" /\ fd[client_map'[g]] = g
    <3>1. client_map \in [Fds -> Conns \cup {NoConn}] BY DEF TypeOK, MapOK
    <3>2. CASE g = fd[c] BY <1>2, <1>6, <3>1, <3>2
    <3>3. CASE g # fd[c]
      <4>1. client_map'[g] = client_map[g] /\ client_map[g] \in Conns
        BY <1>2, <2>1, <3>1, <3>3
      <4>2. stage[client_map[g]] = "live" /\ fd[client_map[g]] = g
        BY <2>1, <4>1, Parts DEF MapNamesLive, Live
      <4> QED BY <1>6, <4>1, <4>2
    <3> QED BY <3>2, <3>3
  <2> QED BY <1>1, <2>1 DEF MapNamesLive, Live
<1> QED BY <1>7, <1>8, <1>9 DEF WriteInv, OneWriter, StreamOut, Part, Writers

(* do_remove_client: what happens to a dead client's output no longer counts. *)
LEMMA RemoveKeeps == ASSUME TypeOK, WriteInv, DoRemoveClient PROVE WriteInv'
<1> DEFINE f == fd[Head(main_funcs).c]
<1>1. UNCHANGED <<fd, mutex, hist, th>> BY DEF DoRemoveClient
<1>2. main_funcs # <<>> /\ main_funcs' = Tail(main_funcs) BY DEF DoRemoveClient
<1>3. CASE UNCHANGED <<stage, client_map, lists>>
  <2>1. ASSUME NEW d \in Conns PROVE Part(d)'
    <3>1. SameOut(d) /\ SameWriter(d) /\ Part(d)
      BY <1>1, <1>3, Parts DEF SameOut, SameWriter
    <3> QED BY <1>3, <3>1, SendHolder, PartStays
  <2>2. AddedOnce' BY <1>2, <1>3, Parts, AddedOnceTail
  <2>3. MapNamesLive' BY <1>1, <1>3, Parts DEF MapNamesLive, Live
  <2> QED BY <2>1, <2>2, <2>3 DEF WriteInv, OneWriter, StreamOut, Part, Writers
<1>4. ASSUME NEW g \in Fds, NEW c \in Conns, client_map[g] = c,
             client_map' = [client_map EXCEPT ![g] = NoConn],
             stage' = [stage EXCEPT ![c] = "dead"],
             lists' = [lists EXCEPT ![c] = NoLists]
      PROVE  WriteInv'
  <2>1. stage[c] = "live" /\ fd[c] = g
    BY <1>4, Parts, CoreAssumption DEF MapNamesLive, Live
  <2>2. /\ stage'[c] = "dead"
        /\ \A d \in Conns \ {c} : stage'[d] = stage[d] /\ lists'[d] = lists[d]
    BY <1>4 DEF TypeOK, ObjOK
  <2>3. ASSUME NEW d \in Conns PROVE Part(d)'
    <3>1. SameWriter(d) /\ Part(d) BY <1>1, Parts DEF SameWriter
    <3>2. CASE d # c
      <4>1. SameOut(d) BY <1>1, <2>2, <3>2 DEF SameOut
      <4> QED BY <2>2, <3>1, <3>2, <4>1, SendHolder, PartStays
    <3>3. CASE d = c
      <4>1. \A t \in Writers : WriterOK(c, t)'
        BY <2>2, <3>1, <3>3, WriterStays DEF Part, Live
      <4>2. Untouched(c)' /\ OutOK(c)' BY <2>2 DEF Untouched, OutOK, Live
      <4> QED BY <3>3, <4>1, <4>2 DEF Part
    <3> QED BY <3>2, <3>3
  <2>4. AddedOnce'
    <3>1. \A i \in 1 .. Len(main_funcs) : main_funcs[i] \in MainFuncT
      BY LenProperties DEF TypeOK, MainOK
    <3>2. \A i \in 2 .. Len(main_funcs) : i \in 1 .. Len(main_funcs)
      BY LenProperties DEF TypeOK, MainOK
    <3>3. ASSUME NEW i \in 2 .. Len(main_funcs), main_funcs[i].op = "add"
          PROVE  stage'[main_funcs[i].c] = stage[main_funcs[i].c]
      <4>1. main_funcs[i].c \in Conns BY <3>1, <3>2 DEF MainFuncT
      <4>2. stage[main_funcs[i].c] = "adding" BY <3>2, <3>3, Parts DEF AddedOnce
      <4> QED BY <2>1, <2>2, <4>1, <4>2
    <3> QED BY <1>2, <3>3, Parts, AddedOnceTail
  <2>5. MapNamesLive'
    <3>1. client_map \in [Fds -> Conns \cup {NoConn}] BY DEF TypeOK, MapOK
    <3>2. ASSUME NEW h \in Fds, client_map'[h] # NoConn
          PROVE  stage'[client_map'[h]] = "live" /\ fd[client_map'[h]] = h
      <4>1. h # g /\ client_map'[h] = client_map[h] /\ client_map[h] \in Conns
        BY <1>4, <3>1, <3>2
      <4>2. stage[client_map[h]] = "live" /\ fd[client_map[h]] = h
        BY <3>2, <4>1, Parts DEF MapNamesLive, Live
      <4>3. client_map[h] # c BY <2>1, <4>1, <4>2
      <4> QED BY <2>2, <4>1, <4>2, <4>3
    <3> QED BY <1>1, <3>2 DEF MapNamesLive, Live
  <2> QED BY <2>3, <2>4, <2>5 DEF WriteInv, OneWriter, StreamOut, Part, Writers
<1>5. CASE f \in Fds /\ client_map[f] # NoConn
  <2>1. client_map[f] \in Conns BY <1>5 DEF TypeOK, MapOK
  <2>2. /\ client_map' = [client_map EXCEPT ![f] = NoConn]
        /\ stage' = [stage EXCEPT ![client_map[f]] = "dead"]
        /\ lists' = [lists EXCEPT ![client_map[f]] = NoLists]
    BY <1>5 DEF DoRemoveClient
  <2> HIDE DEF f
  <2> QED BY <1>4, <1>5, <2>1, <2>2
<1>6. CASE ~(f \in Fds /\ client_map[f] # NoConn)
  BY <1>3, <1>6 DEF DoRemoveClient
<1> QED BY <1>5, <1>6

(* ClientEntity::close asks main_thread_ to remove, which is not an add. *)
LEMMA CloseKeeps ==
  ASSUME TypeOK, WriteInv, NEW l \in Loops, close(l) PROVE WriteInv'
<1>1. UNCHANGED <<stage, fd, client_map, mutex, lists, hist, th>>
  BY DEF close, objVars, mapVars
<1>2. PICK e : e.op = "remove" /\ main_funcs' = Append(main_funcs, e) /\ e \in MainFuncT
  <2>1. funcs_read[l] \in Seq(LoopFuncT) /\ funcs_read[l] # <<>>
    BY DEF close, NextFunc, TypeOK, LoopOK
  <2>2. Head(funcs_read[l]).c \in Conns
    <3>1. Head(funcs_read[l]) \in LoopFuncT BY <2>1, HeadTailProperties
    <3> QED BY <3>1 DEF LoopFuncT
  <2>3. [op |-> "remove", c |-> Head(funcs_read[l]).c] \in MainFuncT
    BY <2>2 DEF MainFuncT
  <2> QED BY <2>3 DEF close
<1>3. ASSUME NEW d \in Conns PROVE Part(d)'
  <2>1. SameOut(d) /\ SameWriter(d) /\ Part(d)
    BY <1>1, Parts DEF SameOut, SameWriter
  <2> QED BY <1>1, <2>1, SendHolder, PartStays
<1>4. AddedOnce'
  <2> DEFINE n == Len(main_funcs)
  <2>1. /\ n \in Nat /\ Len(main_funcs') = n + 1 /\ main_funcs'[n + 1] = e
        /\ \A i \in 1 .. n : main_funcs'[i] = main_funcs[i]
    BY <1>2, LenProperties, AppendProperties DEF TypeOK, MainOK
  <2>2. ASSUME NEW i \in 1 .. n + 1, main_funcs'[i].op = "add"
        PROVE  /\ stage[main_funcs'[i].c] = "adding"
               /\ \A j \in 1 .. n + 1 : main_funcs'[j] = main_funcs'[i] => j = i
    <3>1. i \in 1 .. n /\ main_funcs'[i] = main_funcs[i] BY <1>2, <2>1, <2>2
    <3>2. /\ stage[main_funcs[i].c] = "adding"
          /\ \A j \in 1 .. n : main_funcs[j] = main_funcs[i] => j = i
      BY <2>2, <3>1, Parts DEF AddedOnce
    <3> QED BY <1>2, <2>1, <2>2, <3>1, <3>2
  <2> QED BY <1>1, <2>1, <2>2 DEF AddedOnce
<1>5. MapNamesLive' BY <1>1, Parts DEF MapNamesLive, Live
<1> QED BY <1>3, <1>4, <1>5 DEF WriteInv, OneWriter, StreamOut, Part, Writers

-----------------------------------------------------------------------------
LEMMA InitWrite == ASSUME Init PROVE WriteInv
<1>1. AddedOnce /\ MapNamesLive
  <2>1. Len(main_funcs) = 0 BY EmptySeq DEF Init
  <2> QED BY <2>1 DEF Init, AddedOnce, MapNamesLive
<1>2. ASSUME NEW c \in Conns PROVE Untouched(c) /\ OutOK(c)
  BY DEF Init, Untouched, OutOK, Live, NoLists
<1>3. ASSUME NEW c \in Conns, NEW t \in Workers \cup Loops PROVE WriterOK(c, t)
  <2>1. t \in Threads /\ t # NoThread BY CoreAssumption DEF Threads
  <2>2. th[t].c = NoConn BY <2>1 DEF Init, Home
  <2>3. ~Writing(t, c) BY <2>2, CoreAssumption DEF Writing, Inside
  <2>4. mutex[c].send = NoThread BY DEF Init
  <2> QED BY <2>1, <2>3, <2>4 DEF WriterOK
<1> QED BY <1>1, <1>2, <1>3 DEF WriteInv, OneWriter, StreamOut

LEMMA NextWrite == ASSUME TypeOK, WriteInv, [Next]_vars PROVE WriteInv'
<1>1. CASE UNCHANGED vars
  <2>1. UNCHANGED <<stage, fd, client_map, main_funcs, mutex, lists, hist, th>>
    BY <1>1 DEF vars, objVars, mapVars, mainVars
  <2> QED BY <2>1, Quiet DEF SameOut, Away
<1>2. ASSUME NEW c \in Conns, NEW f \in Fds, Accept(c, f) PROVE WriteInv'
  BY <1>2, AcceptKeeps
<1>3. CASE PeerStep BY <1>3, PeerQuiet DEF PeerStep
<1>4. CASE PostedStep BY <1>4, AddKeeps, RemoveKeeps DEF PostedStep
<1>5. CASE TickStep BY <1>5, TickQuiet DEF TickStep
<1>6. ASSUME NEW w \in Workers, WorkerStep(w) \/ CallbackCloses(w) PROVE WriteInv'
  BY <1>6, WorkerQuiet, WriteKeeps, BadKeeps DEF WorkerStep, Writers
<1>7. ASSUME NEW l \in Loops, LoopStep(l) PROVE WriteInv'
  BY <1>7, LoopQuiet, WriteKeeps, CloseKeeps DEF LoopStep, Writers
<1>8. ASSUME NEW u \in Users, UserStep(u) PROVE WriteInv'
  BY <1>8, UserQuiet, PushKeeps DEF UserStep, CallStep
<1> QED BY <1>1, <1>2, <1>3, <1>4, <1>5, <1>6, <1>7, <1>8 DEF Next

(* WriteInv holds for any number of connections, descriptors, loops,        *)
(* workers and users, however they interleave.                              *)
THEOREM WriteCorrect == Spec => []WriteInv
<1> QED BY TypeCorrect, InitWrite, NextWrite, PTL DEF Spec

(* Whoever writes, what is on the wire, what do_write_data still has to     *)
(* send and what waits behind it are together what push_send_pack has       *)
(* taken, in that order, as long as no bad length has cleared the lists.    *)
THEOREM OutputInOrder == Spec => []StreamOut
<1>1. WriteInv => StreamOut BY DEF WriteInv
<1> QED BY <1>1, WriteCorrect, PTL

(* One thread at a time is inside do_write_data of a connection, and it is  *)
(* the one that holds send_mutex_.                                          *)
THEOREM WriteExclusive == Spec => []OneWriter
<1>1. WriteInv => OneWriter BY DEF WriteInv
<1> QED BY <1>1, WriteCorrect, PTL

-----------------------------------------------------------------------------
(* Queues: main_funcs, the tasks of the pool, the functions of a loop *)

(* Once x is in the queue, nothing of Y comes behind it.                    *)
Ends(s, x, Y) ==
  \A i, j \in 1 .. Len(s) : s[i] = x /\ s[j] \in Y => j <= i

(* r is q, or q without its head, or q with something that is not in Y.     *)
Mild(q, r, Y) ==
  \/ r = q
  \/ q # <<>> /\ r = Tail(q)
  \/ \E y : y \notin Y /\ r = Append(q, y)

LEMMA TailAt ==
  ASSUME NEW S, NEW q \in Seq(S), q # <<>>
  PROVE  /\ Len(q) \in Nat \ {0} /\ Len(Tail(q)) = Len(q) - 1
         /\ Head(q) = q[1] /\ Head(q) \in S /\ Tail(q) \in Seq(S)
         /\ \A i \in 1 .. Len(q) - 1 : Tail(q)[i] = q[i + 1] /\ i + 1 \in 1 .. Len(q)
BY EmptySeq, LenProperties, HeadTailProperties

LEMMA AppendAt ==
  ASSUME NEW S, NEW q \in Seq(S), NEW y
  PROVE  /\ Len(q) \in Nat /\ Len(Append(q, y)) = Len(q) + 1
         /\ Append(q, y)[Len(q) + 1] = y
         /\ \A i \in 1 .. Len(q) : Append(q, y)[i] = q[i]
<1>1. q \in Seq(S \cup {y}) /\ y \in S \cup {y}
  OBVIOUS
<1> QED BY <1>1, LenProperties, AppendProperties

LEMMA InTail ==
  ASSUME NEW S, NEW q \in Seq(S), q # <<>>, NEW x
  PROVE  InSeq(x, q) <=> x = Head(q) \/ InSeq(x, Tail(q))
<1>1. InSeq(x, Tail(q)) => InSeq(x, q)
  BY TailAt DEF InSeq
<1>2. x = Head(q) => InSeq(x, q)
  <2>1. 1 \in 1 .. Len(q) BY TailAt
  <2> QED BY <2>1, TailAt DEF InSeq
<1>3. ASSUME NEW i \in 1 .. Len(q), q[i] = x, x # Head(q) PROVE InSeq(x, Tail(q))
  <2>1. i # 1 BY <1>3, TailAt
  <2>2. i - 1 \in 1 .. Len(q) - 1 BY <2>1, TailAt
  <2>3. Tail(q)[i - 1] = q[i] BY <2>2, TailAt
  <2> QED BY <1>3, <2>2, <2>3, TailAt DEF InSeq
<1> QED BY <1>1, <1>2, <1>3 DEF InSeq

LEMMA InAppend ==
  ASSUME NEW S, NEW q \in Seq(S), NEW x, NEW y
  PROVE  InSeq(x, Append(q, y)) <=> x = y \/ InSeq(x, q)
<1>1. x = y => InSeq(x, Append(q, y))
  <2>1. Len(q) + 1 \in 1 .. Len(Append(q, y)) BY AppendAt
  <2> QED BY <2>1, AppendAt DEF InSeq
<1>2. InSeq(x, q) => InSeq(x, Append(q, y))
  <2>1. \A i \in 1 .. Len(q) : i \in 1 .. Len(Append(q, y)) BY AppendAt
  <2> QED BY <2>1, AppendAt DEF InSeq
<1>3. InSeq(x, Append(q, y)) => x = y \/ InSeq(x, q)
  <2>1. \A i \in 1 .. Len(Append(q, y)) : i \in 1 .. Len(q) \/ i = Len(q) + 1 BY AppendAt
  <2> QED BY <2>1, AppendAt DEF InSeq
<1> QED BY <1>1, <1>2, <1>3

LEMMA InJoin ==
  ASSUME NEW S, NEW s \in Seq(S), NEW t \in Seq(S), NEW x
  PROVE  InSeq(x, s \o t) <=> InSeq(x, s) \/ InSeq(x, t)
<1>1. /\ Len(s) \in Nat /\ Len(t) \in Nat /\ Len(s \o t) = Len(s) + Len(t)
      /\ \A i \in 1 .. Len(s) + Len(t) :
           (s \o t)[i] = IF i <= Len(s) THEN s[i] ELSE t[i - Len(s)]
  BY LenProperties, ConcatProperties
<1>2. ASSUME NEW i \in 1 .. Len(s), s[i] = x PROVE InSeq(x, s \o t)
  <2>1. i \in 1 .. Len(s \o t) /\ (s \o t)[i] = s[i] BY <1>1
  <2> QED BY <1>2, <2>1 DEF InSeq
<1>3. ASSUME NEW i \in 1 .. Len(t), t[i] = x PROVE InSeq(x, s \o t)
  <2>1. /\ Len(s) + i \in 1 .. Len(s) + Len(t) /\ ~(Len(s) + i <= Len(s))
        /\ (Len(s) + i) - Len(s) = i
    BY <1>1
  <2>2. (s \o t)[Len(s) + i] = t[i] BY <1>1, <2>1
  <2> QED BY <1>1, <1>3, <2>1, <2>2 DEF InSeq
<1>4. ASSUME NEW i \in 1 .. Len(s) + Len(t), (s \o t)[i] = x PROVE InSeq(x, s) \/ InSeq(x, t)
  <2>1. CASE i <= Len(s)
    BY <1>1, <1>4, <2>1 DEF InSeq
  <2>2. CASE ~(i <= Len(s))
    <3>1. i - Len(s) \in 1 .. Len(t) BY <1>1, <2>2
    <3> QED BY <1>1, <1>4, <2>2, <3>1 DEF InSeq
  <2> QED BY <2>1, <2>2
<1> QED BY <1>1, <1>2, <1>3, <1>4 DEF InSeq

LEMMA EndsTail ==
  ASSUME NEW S, NEW q \in Seq(S), q # <<>>, NEW x, NEW Y, Ends(q, x, Y)
  PROVE  /\ Ends(Tail(q), x, Y)
         /\ x = Head(q) => \A y \in Y : ~InSeq(y, Tail(q))
<1>1. ASSUME NEW i \in 1 .. Len(Tail(q)), NEW j \in 1 .. Len(Tail(q)),
             Tail(q)[i] = x, Tail(q)[j] \in Y
      PROVE  j <= i
  <2>1. i + 1 \in 1 .. Len(q) /\ j + 1 \in 1 .. Len(q) /\ q[i + 1] = x /\ q[j + 1] \in Y
    BY <1>1, TailAt
  <2>2. j + 1 <= i + 1 BY <2>1 DEF Ends
  <2> QED BY <2>2
<1>2. ASSUME x = Head(q), NEW j \in 1 .. Len(Tail(q)), Tail(q)[j] \in Y PROVE FALSE
  <2>1. 1 \in 1 .. Len(q) /\ q[1] = x /\ j + 1 \in 1 .. Len(q) /\ q[j + 1] \in Y
    BY <1>2, TailAt
  <2>2. j + 1 <= 1 BY <2>1 DEF Ends
  <2>3. j \in Nat /\ j >= 1 BY <1>2
  <2> QED BY <2>2, <2>3
<1> QED BY <1>1, <1>2 DEF Ends, InSeq

LEMMA EndsAppend ==
  ASSUME NEW S, NEW q \in Seq(S), NEW x, NEW Y, NEW y, Ends(q, x, Y),
         y \in Y => ~InSeq(x, q)
  PROVE  Ends(Append(q, y), x, Y)
<1> SUFFICES ASSUME NEW i \in 1 .. Len(q) + 1, NEW j \in 1 .. Len(q) + 1,
                    Append(q, y)[i] = x, Append(q, y)[j] \in Y
             PROVE  j <= i
  BY AppendAt DEF Ends
<1>1. Len(q) \in Nat BY LenProperties
<1>2. CASE i = Len(q) + 1 BY <1>1, <1>2
<1>3. CASE i \in 1 .. Len(q)
  <2>1. q[i] = x BY <1>3, AppendAt
  <2>2. CASE j = Len(q) + 1 BY <1>3, <2>1, <2>2, AppendAt DEF InSeq
  <2>3. CASE j \in 1 .. Len(q) BY <1>3, <2>1, <2>3, AppendAt DEF Ends
  <2> QED BY <1>1, <2>2, <2>3
<1> QED BY <1>1, <1>2, <1>3

LEMMA MildIn ==
  ASSUME NEW S, NEW q \in Seq(S), NEW r, NEW Y, NEW x \in Y, Mild(q, r, Y), InSeq(x, r)
  PROVE  InSeq(x, q)
<1>1. CASE r = q BY <1>1
<1>2. CASE q # <<>> /\ r = Tail(q) BY <1>2, InTail
<1>3. ASSUME NEW y, y \notin Y, r = Append(q, y) PROVE InSeq(x, q)
  <2>1. x # y BY <1>3
  <2> QED BY <1>3, <2>1, InAppend
<1> QED BY <1>1, <1>2, <1>3, Zenon DEF Mild

LEMMA MildEnds ==
  ASSUME NEW S, NEW q \in Seq(S), NEW r, NEW Y, NEW x, Mild(q, r, Y), Ends(q, x, Y)
  PROVE  Ends(r, x, Y)
BY EndsTail, EndsAppend DEF Mild

LEMMA JoinAppend ==
  ASSUME NEW S, NEW s \in Seq(S), NEW t \in Seq(S), NEW y \in S
  PROVE  s \o Append(t, y) = Append(s \o t, y)
<1>1. Append(t, y) \in Seq(S) /\ Len(Append(t, y)) = Len(t) + 1 /\ Len(t) \in Nat /\ Len(s) \in Nat
  BY AppendProperties, LenProperties
<1>2. s \o t \in Seq(S) /\ Len(s \o t) = Len(s) + Len(t)
  BY ConcatProperties
<1>3. s \o Append(t, y) \in Seq(S) /\ Len(s \o Append(t, y)) = Len(s) + Len(t) + 1
  BY <1>1, ConcatProperties
<1>4. Append(s \o t, y) \in Seq(S) /\ Len(Append(s \o t, y)) = Len(s) + Len(t) + 1
  BY <1>1, <1>2, AppendProperties
<1>5. ASSUME NEW i \in 1 .. Len(s) + Len(t) + 1
      PROVE  (s \o Append(t, y))[i] = Append(s \o t, y)[i]
  <2>0. i \in 1 .. Len(s) + Len(Append(t, y)) BY <1>1
  <2>1. (s \o Append(t, y))[i] = IF i <= Len(s) THEN s[i] ELSE Append(t, y)[i - Len(s)]
    BY <2>0, <1>1, ConcatProperties
  <2>2. CASE i <= Len(s)
    <3>1. (s \o t)[i] = s[i] BY <1>1, <2>2, ConcatProperties
    <3> QED BY <1>1, <1>2, <2>1, <2>2, <3>1, AppendProperties
  <2>3. CASE i > Len(s) /\ i <= Len(s) + Len(t)
    <3>1. i - Len(s) \in 1 .. Len(t) /\ i \in 1 .. Len(s) + Len(t) /\ ~(i <= Len(s))
      BY <1>1, <2>3
    <3>2. Append(t, y)[i - Len(s)] = t[i - Len(s)] BY <3>1, AppendProperties
    <3>3. (s \o t)[i] = t[i - Len(s)] BY <3>1, ConcatProperties
    <3>4. Append(s \o t, y)[i] = (s \o t)[i] BY <1>2, <3>1, AppendProperties
    <3> QED BY <2>1, <3>1, <3>2, <3>3, <3>4
  <2>4. CASE i = Len(s) + Len(t) + 1
    <3>1. i - Len(s) = Len(t) + 1 /\ ~(i <= Len(s)) BY <1>1, <2>4
    <3> QED BY <1>1, <1>2, <2>1, <2>4, <3>1, AppendProperties
  <2> QED BY <1>1, <2>2, <2>3, <2>4
<1> QED BY <1>3, <1>4, <1>5, SeqEqual

LEMMA JoinTail ==
  ASSUME NEW S, NEW s \in Seq(S), NEW t \in Seq(S), s # <<>>
  PROVE  s \o t # <<>> /\ Head(s \o t) = Head(s) /\ Tail(s \o t) = Tail(s) \o t
<1>1. Len(s) \in Nat \ {0} /\ Len(t) \in Nat
  BY LenProperties, EmptySeq
<1>2. s \o t \in Seq(S) /\ Len(s \o t) = Len(s) + Len(t)
  BY ConcatProperties
<1>3. s \o t # <<>> /\ Head(s \o t) = Head(s)
  BY <1>1, <1>2
<1>4. /\ Tail(s) \in Seq(S) /\ Len(Tail(s)) = Len(s) - 1
      /\ Tail(s \o t) \in Seq(S) /\ Len(Tail(s \o t)) = Len(s) + Len(t) - 1
  BY <1>1, <1>2, <1>3, HeadTailProperties
<1>5. Tail(s) \o t \in Seq(S) /\ Len(Tail(s) \o t) = Len(s) + Len(t) - 1
  BY <1>1, <1>4, ConcatProperties
<1>6. \A i \in 1 .. Len(s) + Len(t) - 1 : Tail(s \o t)[i] = (Tail(s) \o t)[i]
  BY <1>1, <1>2, <1>4, <1>5
<1> QED BY <1>3, <1>4, <1>5, <1>6, SeqEqual

LEMMA JoinEmpty == ASSUME NEW S, NEW s \in Seq(S) PROVE s \o <<>> = s /\ <<>> \o s = s
BY ConcatEmptySeq

-----------------------------------------------------------------------------
(* What makes descriptor reuse safe *)

PoolQueue == task_list \o fun_list
LoopQueue(l) == funcs_read[l] \o funcs_write[l]
AddOf(c) == [op |-> "add", c |-> c]
CloseOf(c) == [op |-> "close", c |-> c]
RemoveOf(c) == [op |-> "remove", c |-> c]
TasksOf(c) == [op : TaskOps, c : {c}]
Idle(c) == \A x \in TasksOf(c) : ~InSeq(x, PoolQueue)
AtClose(w, c) == th[w].pc = "close" /\ th[w].c = c

(* A descriptor belongs to one connection from accept to ~ClientEntity, and *)
(* a live one is in client_map_ under it.                                   *)
Owning(c) == stage[c] \in {"adding", "live"}
FdOwned == \A c, d \in Conns : Owning(c) /\ Owning(d) /\ fd[c] = fd[d] => c = d
LiveIsMapped ==
  \A c \in Conns :
    /\ Owning(c) => fd[c] \in Fds
    /\ Live(c) => loop_of[c] \in Loops /\ client_map[fd[c]] = c

(* handler_map_ of a loop holds live clients pinned to that loop only.      *)
HandlersLive ==
  \A l \in Loops, f \in Fds :
    LET h == handler_map[l][f] IN h # NoConn => Live(h) /\ fd[h] = f /\ loop_of[h] = l

(* What do_send_timeout has collected is gone when main_thread_ takes its   *)
(* next function, and until then it looks at live, unclosed clients.        *)
MainInside ==
  /\ th[Main].pc = "idle" => todo = {} /\ fun_list = <<>>
  /\ th[Main].pc \in {"idle", "scan"} => th[Main].c = NoConn
  /\ th[Main].c # NoConn => Live(th[Main].c) /\ ~flags[th[Main].c].closed
  /\ \A c \in todo : Live(c)

(* A loop runs posted functions only when it has dispatched every event, so *)
(* the handle of the client it is in, or has an event for, is still there.  *)
Handled(l, c) == fd[c] \in Fds /\ handler_map[l][fd[c]] = c
LoopInside(l) ==
  /\ th[l].pc \in {"batch", "funcs"} <=> th[l].c = NoConn
  /\ th[l].pc = "funcs" => batch[l] = {}
  /\ th[l].c # NoConn => Handled(l, th[l].c)
  /\ \A e \in batch[l] : Handled(l, e.c)

TasksLive == \A c \in Conns : ~Idle(c) => Live(c)

AddOK(c) ==
  \A l \in Loops :
    /\ Ends(LoopQueue(l), AddOf(c), {AddOf(c)})
    /\ InSeq(AddOf(c), LoopQueue(l)) =>
         Live(c) /\ loop_of[c] = l /\ handler_map[l][fd[c]] # c

(* The way of a client out of the system.  Its close task is its last task  *)
(* and comes once; the worker that runs it, the function it posts to the    *)
(* loop and the one that posts to main_thread_ follow each other, and each  *)
(* finds nothing left of the stages before it.                              *)
Closing(c) == Live(c) /\ flags[c].closed
CloseQueued(c) ==
  /\ Ends(PoolQueue, CloseOf(c), TasksOf(c))
  /\ InSeq(CloseOf(c), PoolQueue) => Closing(c)
CloseRuns(c) ==
  \A w \in Workers : AtClose(w, c) =>
    /\ Closing(c) /\ Idle(c)
    /\ \A v \in Workers : AtClose(v, c) => v = w
ClosePosted(c) ==
  \A l \in Loops :
    /\ Ends(LoopQueue(l), CloseOf(c), {CloseOf(c), AddOf(c)})
    /\ InSeq(CloseOf(c), LoopQueue(l)) =>
         Closing(c) /\ Idle(c) /\ loop_of[c] = l /\ \A w \in Workers : ~AtClose(w, c)
NoTrace(c, l) ==
  /\ ~InSeq(CloseOf(c), LoopQueue(l)) /\ ~InSeq(AddOf(c), LoopQueue(l))
  /\ handler_map[l][fd[c]] # c
RemovePosted(c) ==
  /\ Ends(main_funcs, RemoveOf(c), {RemoveOf(c)})
  /\ InSeq(RemoveOf(c), main_funcs) =>
       /\ Closing(c) /\ Idle(c)
       /\ \A w \in Workers : ~AtClose(w, c)
       /\ \A l \in Loops : NoTrace(c, l)
CloseOK(c) == CloseQueued(c) /\ CloseRuns(c) /\ ClosePosted(c) /\ RemovePosted(c)

ReuseInv ==
  /\ FdOwned /\ LiveIsMapped /\ HandlersLive /\ MainInside /\ TasksLive
  /\ \A l \in Loops : LoopInside(l)
  /\ \A c \in Conns : AddOK(c) /\ CloseOK(c)

-----------------------------------------------------------------------------
(* What a step leaves alone *)

LEMMA QueueTypes ==
  ASSUME TypeOK
  PROVE  /\ PoolQueue \in Seq(TaskT) /\ main_funcs \in Seq(MainFuncT)
         /\ \A l \in Loops : LoopQueue(l) \in Seq(LoopFuncT)
BY ConcatProperties DEF TypeOK, MainOK, LoopOK, PoolQueue, LoopQueue

LEMMA OfTypes ==
  ASSUME NEW c \in Conns
  PROVE  /\ AddOf(c) \in LoopFuncT /\ CloseOf(c) \in LoopFuncT
         /\ CloseOf(c) \in TaskT /\ CloseOf(c) \in TasksOf(c) /\ TasksOf(c) \subseteq TaskT
         /\ RemoveOf(c) \in MainFuncT
BY DEF AddOf, CloseOf, RemoveOf, TasksOf, LoopFuncT, TaskT, MainFuncT, FuncOps, TaskOps

(* Nothing a step does is about d. *)
SamePlace(d) == stage'[d] = stage[d] /\ loop_of'[d] = loop_of[d] /\ fd'[d] = fd[d]
SameConn(d) == SamePlace(d) /\ flags'[d].closed = flags[d].closed
NotAdded(d) ==
  Live(d) => \A l \in Loops : handler_map'[l][fd[d]] = d => handler_map[l][fd[d]] = d
LoopsMild(d) == \A l \in Loops : Mild(LoopQueue(l), LoopQueue(l)', {AddOf(d), CloseOf(d)})
CloseMild(d) ==
  /\ Mild(PoolQueue, PoolQueue', TasksOf(d))
  /\ \A w \in Workers : AtClose(w, d)' => AtClose(w, d)
  /\ Mild(main_funcs, main_funcs', {RemoveOf(d)})

LEMMA AddStays ==
  ASSUME TypeOK, NEW d \in Conns, AddOK(d), SamePlace(d), NotAdded(d),
         \A l \in Loops : Mild(LoopQueue(l), LoopQueue(l)', {AddOf(d)})
  PROVE  AddOK(d)'
<1> SUFFICES ASSUME NEW l \in Loops
             PROVE  /\ Ends(LoopQueue(l)', AddOf(d), {AddOf(d)})
                    /\ InSeq(AddOf(d), LoopQueue(l)') =>
                         Live(d)' /\ loop_of'[d] = l /\ handler_map'[l][fd'[d]] # d
  BY DEF AddOK
<1>1. LoopQueue(l) \in Seq(LoopFuncT) /\ Mild(LoopQueue(l), LoopQueue(l)', {AddOf(d)})
  BY QueueTypes
<1>2. Ends(LoopQueue(l)', AddOf(d), {AddOf(d)})
  BY <1>1, MildEnds DEF AddOK
<1>3. InSeq(AddOf(d), LoopQueue(l)') => InSeq(AddOf(d), LoopQueue(l))
  BY <1>1, MildIn
<1>4. InSeq(AddOf(d), LoopQueue(l)) =>
         Live(d)' /\ loop_of'[d] = l /\ handler_map'[l][fd'[d]] # d
  BY DEF AddOK, SamePlace, NotAdded, Live
<1> QED BY <1>2, <1>3, <1>4

LEMMA IdleStays ==
  ASSUME TypeOK, NEW d \in Conns, Idle(d), Mild(PoolQueue, PoolQueue', TasksOf(d))
  PROVE  Idle(d)'
<1>1. \A x \in TasksOf(d) : InSeq(x, PoolQueue') => InSeq(x, PoolQueue)
  BY QueueTypes, MildIn
<1> QED BY <1>1 DEF Idle

LEMMA ClosingStays ==
  ASSUME NEW d \in Conns, SameConn(d), Closing(d) PROVE Closing(d)'
BY DEF SameConn, SamePlace, Closing, Live

LEMMA CloseQueuedStays ==
  ASSUME TypeOK, NEW d \in Conns, CloseQueued(d), SameConn(d),
         Mild(PoolQueue, PoolQueue', TasksOf(d))
  PROVE  CloseQueued(d)'
<1>1. PoolQueue \in Seq(TaskT) /\ CloseOf(d) \in TasksOf(d)
  BY QueueTypes, OfTypes
<1>2. Ends(PoolQueue', CloseOf(d), TasksOf(d))
  BY <1>1, MildEnds DEF CloseQueued
<1>3. InSeq(CloseOf(d), PoolQueue') => InSeq(CloseOf(d), PoolQueue)
  BY <1>1, MildIn
<1> QED BY <1>2, <1>3, ClosingStays DEF CloseQueued

LEMMA CloseRunsStays ==
  ASSUME TypeOK, NEW d \in Conns, CloseRuns(d), SameConn(d),
         Mild(PoolQueue, PoolQueue', TasksOf(d)),
         \A w \in Workers : AtClose(w, d)' => AtClose(w, d)
  PROVE  CloseRuns(d)'
BY IdleStays, ClosingStays DEF CloseRuns

LEMMA ClosePostedStays ==
  ASSUME TypeOK, NEW d \in Conns, ClosePosted(d), SameConn(d), LoopsMild(d), 
         Mild(PoolQueue, PoolQueue', TasksOf(d)),
         \A w \in Workers : AtClose(w, d)' => AtClose(w, d)
  PROVE  ClosePosted(d)'
<1> SUFFICES ASSUME NEW l \in Loops
             PROVE  /\ Ends(LoopQueue(l)', CloseOf(d), {CloseOf(d), AddOf(d)})
                    /\ InSeq(CloseOf(d), LoopQueue(l)') =>
                         /\ Closing(d)' /\ Idle(d)' /\ loop_of'[d] = l
                         /\ \A w \in Workers : ~AtClose(w, d)'
  BY DEF ClosePosted
<1>1. LoopQueue(l) \in Seq(LoopFuncT) /\ Mild(LoopQueue(l), LoopQueue(l)', {AddOf(d), CloseOf(d)})
  BY QueueTypes DEF LoopsMild
<1>2. {AddOf(d), CloseOf(d)} = {CloseOf(d), AddOf(d)} OBVIOUS
<1>3. Ends(LoopQueue(l)', CloseOf(d), {CloseOf(d), AddOf(d)})
  BY <1>1, <1>2, MildEnds DEF ClosePosted
<1>4. InSeq(CloseOf(d), LoopQueue(l)') => InSeq(CloseOf(d), LoopQueue(l))
  BY <1>1, MildIn
<1>5. loop_of'[d] = loop_of[d] BY DEF SameConn, SamePlace
<1> QED BY <1>3, <1>4, <1>5, IdleStays, ClosingStays DEF ClosePosted

LEMMA RemovePostedStays ==
  ASSUME TypeOK, NEW d \in Conns, RemovePosted(d), SameConn(d), NotAdded(d), LoopsMild(d),
         CloseMild(d)
  PROVE  RemovePosted(d)'
<1>1. main_funcs \in Seq(MainFuncT) /\ Mild(main_funcs, main_funcs', {RemoveOf(d)})
  BY QueueTypes DEF CloseMild
<1>2. Ends(main_funcs', RemoveOf(d), {RemoveOf(d)})
  BY <1>1, MildEnds DEF RemovePosted
<1>3. InSeq(RemoveOf(d), main_funcs') => InSeq(RemoveOf(d), main_funcs)
  BY <1>1, MildIn
<1>4. ASSUME NEW l \in Loops, NoTrace(d, l), Live(d) PROVE NoTrace(d, l)'
  <2>1. LoopQueue(l) \in Seq(LoopFuncT) /\ Mild(LoopQueue(l), LoopQueue(l)', {AddOf(d), CloseOf(d)})
    BY QueueTypes DEF LoopsMild
  <2>2. \A x \in {AddOf(d), CloseOf(d)} : ~InSeq(x, LoopQueue(l))
    BY <1>4 DEF NoTrace
  <2>3. \A x \in {AddOf(d), CloseOf(d)} : ~InSeq(x, LoopQueue(l)')
    BY <2>1, <2>2, MildIn
  <2>4. handler_map'[l][fd'[d]] # d
    BY <1>4 DEF NoTrace, SameConn, SamePlace, NotAdded
  <2> QED BY <2>3, <2>4 DEF NoTrace
<1>5. InSeq(RemoveOf(d), main_funcs) =>
        /\ Closing(d)' /\ Idle(d)' /\ \A w \in Workers : ~AtClose(w, d)'
        /\ \A l \in Loops : NoTrace(d, l)'
  BY <1>4, IdleStays, ClosingStays DEF RemovePosted, CloseMild, Closing
<1> QED BY <1>2, <1>3, <1>5 DEF RemovePosted

LEMMA CloseStays ==
  ASSUME TypeOK, NEW d \in Conns, CloseOK(d), SameConn(d), NotAdded(d), LoopsMild(d), CloseMild(d)
  PROVE  CloseOK(d)'
BY CloseQueuedStays, CloseRunsStays, ClosePostedStays, RemovePostedStays DEF CloseOK, CloseMild

-----------------------------------------------------------------------------
(* Steps that are about no stage of the way in or out *)

UpdateOf(c) == [op |-> "update", c |-> c]

LEMMA PostedQueue ==
  ASSUME TypeOK, NEW l \in Loops, NEW y \in LoopFuncT, funcs_write' = Posted(l, y),
         funcs_read' = funcs_read
  PROVE  /\ LoopQueue(l)' = Append(LoopQueue(l), y)
         /\ \A k \in Loops \ {l} : LoopQueue(k)' = LoopQueue(k)
<1>1. /\ \A k \in Loops : funcs_read[k] \in Seq(LoopFuncT) /\ funcs_write[k] \in Seq(LoopFuncT)
      /\ funcs_write \in [Loops -> Seq(LoopFuncT)]
  BY DEF TypeOK, LoopOK
<1>2. /\ funcs_write'[l] = Append(funcs_write[l], y)
      /\ \A k \in Loops \ {l} : funcs_write'[k] = funcs_write[k]
  BY <1>1 DEF Posted
<1>3. \A q, r \in Seq(LoopFuncT) : q \o Append(r, y) = Append(q \o r, y)
  BY JoinAppend
<1>4. funcs_read[l] \o funcs_write'[l] = Append(funcs_read[l] \o funcs_write[l], y)
  BY <1>1, <1>2, <1>3, Zenon
<1> QED BY <1>2, <1>4 DEF LoopQueue

LEMMA FuncDoneQueue ==
  ASSUME TypeOK, NEW l \in Loops, FuncDone(l), funcs_read[l] # <<>>, funcs_write' = funcs_write
  PROVE  /\ LoopQueue(l) # <<>> /\ Head(LoopQueue(l)) = Head(funcs_read[l])
         /\ LoopQueue(l)' = Tail(LoopQueue(l))
         /\ \A k \in Loops \ {l} : LoopQueue(k)' = LoopQueue(k)
<1>1. /\ \A k \in Loops : funcs_read[k] \in Seq(LoopFuncT) /\ funcs_write[k] \in Seq(LoopFuncT)
      /\ funcs_read \in [Loops -> Seq(LoopFuncT)]
  BY DEF TypeOK, LoopOK
<1>2. /\ funcs_read'[l] = Tail(funcs_read[l])
      /\ \A k \in Loops \ {l} : funcs_read'[k] = funcs_read[k]
  BY <1>1 DEF FuncDone
<1>3. \A q, r \in Seq(LoopFuncT) :
        q # <<>> => q \o r # <<>> /\ Head(q \o r) = Head(q) /\ Tail(q \o r) = Tail(q) \o r
  BY JoinTail
<1>4. /\ LoopQueue(l) # <<>> /\ Head(LoopQueue(l)) = Head(funcs_read[l])
      /\ Tail(funcs_read[l]) \o funcs_write[l] = Tail(LoopQueue(l))
  BY <1>1, <1>3, Zenon DEF LoopQueue
<1> QED BY <1>2, <1>4, Zenon DEF LoopQueue

(* Thread s stays where it is, or moves in a way LoopInside, MainInside and *)
(* CloseRuns do not mind.                                                   *)
LoopStride(l) ==
  \/ th'[l].c = th[l].c /\ {th[l].pc, th'[l].pc} \cap {"batch", "funcs"} = {}
  \/ th'[l].c = NoConn /\ th'[l].pc = "batch"
  \/ th'[l].c = NoConn /\ th'[l].pc = "funcs" /\ batch[l] = {}
MainStride ==
  \/ th'[Main].c = th[Main].c /\ {th[Main].pc, th'[Main].pc} \cap {"idle", "scan"} = {}
  \/ th'[Main].c = NoConn /\ th'[Main].pc = "scan"
Calm(s) ==
  \/ th'[s] = th[s]
  \/ s \in Users
  \/ s \in Workers /\ th'[s].pc # "close"
  \/ s \in Loops /\ LoopStride(s)
  \/ s = Main /\ MainStride
QueueCalm(l) ==
  \/ LoopQueue(l)' = LoopQueue(l)
  \/ LoopQueue(l) # <<>> /\ LoopQueue(l)' = Tail(LoopQueue(l))
  \/ \E c \in Conns : LoopQueue(l)' = Append(LoopQueue(l), UpdateOf(c))
SameWorld == UNCHANGED <<stage, fd, loop_of, client_map, handler_map>>
SameClosed == \A c \in Conns : flags'[c].closed = flags[c].closed

LEMMA Kinds ==
  /\ \A w \in Workers : w \in Threads /\ w \notin Loops /\ w \notin Users /\ w # Main
  /\ \A l \in Loops : l \in Threads /\ l \notin Workers /\ l \notin Users /\ l # Main
  /\ \A u \in Users : u \in Threads /\ u \notin Workers /\ u \notin Loops /\ u # Main
  /\ Main \in Threads /\ Main \notin Workers /\ Main \notin Loops /\ Main \notin Users
BY CoreAssumption DEF Threads

LEMMA WorkerAlone ==
  ASSUME NEW w \in Workers, th'[w].pc # "close", \A s \in Threads \ {w} : th'[s] = th[s]
  PROVE  \A s \in Threads : Calm(s)
<1>1. Calm(w) BY DEF Calm
<1>2. \A s \in Threads \ {w} : Calm(s) BY DEF Calm
<1> QED BY <1>1, <1>2, Zenon

LEMMA LoopAlone ==
  ASSUME NEW l \in Loops, LoopStride(l), \A s \in Threads \ {l} : th'[s] = th[s]
  PROVE  \A s \in Threads : Calm(s)
<1>1. Calm(l) BY DEF Calm
<1>2. \A s \in Threads \ {l} : Calm(s) BY DEF Calm
<1> QED BY <1>1, <1>2, Zenon

LEMMA CalmQueues ==
  ASSUME \A l \in Loops : QueueCalm(l), NEW d \in Conns PROVE LoopsMild(d)
<1>1. \A c \in Conns : UpdateOf(c) \notin {AddOf(d), CloseOf(d)}
  BY DEF UpdateOf, AddOf, CloseOf
<1> QED BY <1>1 DEF QueueCalm, LoopsMild, Mild

LEMMA ConnStays ==
  ASSUME TypeOK, ReuseInv, NEW d \in Conns, SameConn(d), NotAdded(d), LoopsMild(d), CloseMild(d)
  PROVE  AddOK(d)' /\ CloseOK(d)'
<1>1. \A l \in Loops : Mild(LoopQueue(l), LoopQueue(l)', {AddOf(d)})
  BY DEF LoopsMild, Mild
<1> QED BY <1>1, AddStays, CloseStays DEF ReuseInv, SameConn

LEMMA CalmConns ==
  ASSUME TypeOK, ReuseInv, SameWorld, SameClosed, NEW d \in Conns, LoopsMild(d), CloseMild(d)
  PROVE  AddOK(d)' /\ CloseOK(d)'
<1>1. SameConn(d) /\ NotAdded(d)
  BY DEF SameWorld, SameClosed, SameConn, SamePlace, NotAdded
<1> QED BY <1>1, ConnStays

LEMMA CalmTasks ==
  ASSUME TypeOK, TasksLive, stage' = stage, PoolQueue' = PoolQueue PROVE TasksLive'
BY DEF TasksLive, Idle, Live

LEMMA CalmWorld ==
  ASSUME FdOwned, LiveIsMapped, HandlersLive, SameWorld
  PROVE  FdOwned' /\ LiveIsMapped' /\ HandlersLive'
BY DEF FdOwned, LiveIsMapped, HandlersLive, SameWorld, Owning, Live

LEMMA CalmMain ==
  ASSUME TypeOK, MainInside, Calm(Main), stage' = stage, SameClosed, todo' = todo,
         fun_list' = fun_list
  PROVE  MainInside'
<1>1. th[Main].c \in Conns \cup {NoConn} BY Kinds DEF TypeOK, ThreadsOK, ThreadT
<1>2. CASE th'[Main] = th[Main]
  BY <1>1, <1>2 DEF MainInside, SameClosed, Live
<1>3. CASE MainStride
  BY <1>1, <1>3 DEF MainInside, MainStride, SameClosed, Live
<1> QED BY <1>2, <1>3, Kinds DEF Calm

LEMMA CalmLoop ==
  ASSUME TypeOK, NEW l \in Loops, LoopInside(l), Calm(l), UNCHANGED <<fd, handler_map, batch>>
  PROVE  LoopInside(l)'
<1>1. CASE th'[l] = th[l]
  BY <1>1 DEF LoopInside, Handled
<1>2. CASE th'[l].c = th[l].c /\ {th[l].pc, th'[l].pc} \cap {"batch", "funcs"} = {}
  BY <1>2 DEF LoopInside, Handled
<1>3. CASE th'[l].c = NoConn /\ th'[l].pc = "batch"
  BY <1>3 DEF LoopInside, Handled
<1>4. CASE th'[l].c = NoConn /\ th'[l].pc = "funcs" /\ batch[l] = {}
  BY <1>4 DEF LoopInside, Handled
<1> QED BY <1>1, <1>2, <1>3, <1>4, Kinds DEF Calm, LoopStride

LEMMA CalmRest ==
  ASSUME TypeOK, ReuseInv, SameWorld, SameClosed, main_funcs' = main_funcs,
         PoolQueue' = PoolQueue, \A w \in Workers : th'[w] = th[w] \/ th'[w].pc # "close",
         \A l \in Loops : QueueCalm(l), MainInside', \A l \in Loops : LoopInside(l)'
  PROVE  ReuseInv'
<1>1. \A w \in Workers, d \in Conns : AtClose(w, d)' => AtClose(w, d)
  BY DEF AtClose
<1>2. \A d \in Conns : CloseMild(d) BY <1>1 DEF CloseMild, Mild
<1>3. \A d \in Conns : AddOK(d)' /\ CloseOK(d)' BY <1>2, CalmQueues, CalmConns
<1>4. FdOwned' /\ LiveIsMapped' /\ HandlersLive' BY CalmWorld DEF ReuseInv
<1>5. TasksLive' BY CalmTasks DEF ReuseInv, SameWorld
<1> QED BY <1>3, <1>4, <1>5 DEF ReuseInv

LEMMA CalmSteps ==
  ASSUME TypeOK, ReuseInv, SameWorld, SameClosed, UNCHANGED <<batch, main_funcs, todo>>,
         fun_list' = fun_list, task_list' = task_list,
         \A s \in Threads : Calm(s), \A l \in Loops : QueueCalm(l)
  PROVE  ReuseInv'
<1>1. PoolQueue' = PoolQueue BY DEF PoolQueue
<1>2. \A w \in Workers : th'[w] = th[w] \/ th'[w].pc # "close" BY Kinds DEF Calm
<1>3. MainInside' BY CalmMain, Kinds DEF ReuseInv, SameWorld
<1>4. \A l \in Loops : LoopInside(l)' BY CalmLoop, Kinds DEF ReuseInv, SameWorld
<1> QED BY <1>1, <1>2, <1>3, <1>4, CalmRest

Still ==
  /\ SameWorld /\ SameClosed
  /\ UNCHANGED <<batch, main_funcs, todo, fun_list, task_list, funcs_read, funcs_write>>

LEMMA CalmStill ==
  ASSUME TypeOK, ReuseInv, Still, \A s \in Threads : Calm(s) PROVE ReuseInv'
<1>1. \A l \in Loops : QueueCalm(l) BY DEF Still, QueueCalm, LoopQueue
<1> QED BY <1>1, CalmSteps DEF Still

LEMMA GotoAt ==
  ASSUME th \in [Threads -> ThreadT], NEW t \in Threads, NEW p, Goto(t, p)
  PROVE  th'[t].pc = p /\ th'[t].c = th[t].c /\ \A s \in Threads \ {t} : th'[s] = th[s]
BY DEF Goto, ThreadT

LEMMA ReturnAt ==
  ASSUME th \in [Threads -> ThreadT], NEW t \in Threads, Return(t)
  PROVE  th'[t].pc = HomePc(t) /\ th'[t].c = NoConn /\ \A s \in Threads \ {t} : th'[s] = th[s]
BY DEF Return, Home

LEMMA UpdateCalm ==
  ASSUME TypeOK, ReuseInv, NEW c \in Conns, Live(c), funcs_read' = funcs_read,
         funcs_write' = Posted(loop_of[c], [op |-> "update", c |-> c])
  PROVE  \A k \in Loops : QueueCalm(k)
<1>1. loop_of[c] \in Loops BY DEF ReuseInv, LiveIsMapped
<1>2. UpdateOf(c) \in LoopFuncT BY DEF UpdateOf, LoopFuncT, FuncOps
<1>3. funcs_write' = Posted(loop_of[c], UpdateOf(c)) BY DEF UpdateOf
<1>4. ASSUME NEW l \in Loops, l = loop_of[c]
      PROVE  /\ LoopQueue(l)' = Append(LoopQueue(l), UpdateOf(c))
             /\ \A k \in Loops \ {l} : LoopQueue(k)' = LoopQueue(k)
  BY <1>2, <1>3, <1>4, PostedQueue
<1> QED BY <1>1, <1>4 DEF QueueCalm

(* The kernel and the peer. *)
LEMMA PeerCalm ==
  ASSUME TypeOK, ReuseInv,
         \/ \E c \in Conns : PeerSend(c)
         \/ \E c \in Conns : PeerDrain(c)
         \/ \E c \in Conns, how \in PeerMayEnd : PeerEnd(c, how)
  PROVE  ReuseInv'
<1>th. th \in [Threads -> ThreadT] BY DEF TypeOK, ThreadsOK
<1>flags. flags \in [Conns -> FlagsT] BY DEF TypeOK
<1>1. ASSUME NEW c \in Conns, PeerSend(c) PROVE ReuseInv'
  <2>1. \A s \in Threads : Calm(s)
    BY <1>1 DEF PeerSend, Calm
  <2>2. Still
    BY <1>1, <1>flags DEF PeerSend, Still, SameWorld, SameClosed, FlagsT,
       objVars, mapVars, mainVars, loopVars
  <2> QED BY <2>1, <2>2, CalmStill
<1>2. ASSUME NEW c \in Conns, PeerDrain(c) PROVE ReuseInv'
  <2>1. \A s \in Threads : Calm(s)
    BY <1>2 DEF PeerDrain, Calm
  <2>2. Still
    BY <1>2, <1>flags DEF PeerDrain, Still, SameWorld, SameClosed, FlagsT,
       objVars, mapVars, mainVars, loopVars
  <2> QED BY <2>1, <2>2, CalmStill
<1>3. ASSUME NEW c \in Conns, NEW how \in PeerMayEnd, PeerEnd(c, how) PROVE ReuseInv'
  <2>1. \A s \in Threads : Calm(s)
    BY <1>3 DEF PeerEnd, Calm
  <2>2. Still
    BY <1>3, <1>flags DEF PeerEnd, Still, SameWorld, SameClosed, FlagsT,
       objVars, mapVars, mainVars, loopVars
  <2> QED BY <2>1, <2>2, CalmStill
<1> QED BY <1>1, <1>2, <1>3

(* The tests of do_send_timeout. *)
LEMMA ScanCalm ==
  ASSUME TypeOK, ReuseInv,
         \/ TickRead
         \/ TickWrite
  PROVE  ReuseInv'
<1>th. th \in [Threads -> ThreadT] BY DEF TypeOK, ThreadsOK
<1>flags. flags \in [Conns -> FlagsT] BY DEF TypeOK
<1>1. ASSUME TickRead PROVE ReuseInv'
  <2>1. \A s \in Threads : Calm(s)
    BY <1>1, <1>th, GotoAt, Kinds DEF TickRead, Calm, LoopStride, MainStride
  <2>2. Still
    BY <1>1, <1>flags DEF TickRead, Still, SameWorld, SameClosed, FlagsT,
       objVars, mapVars, mainVars, loopVars
  <2> QED BY <2>1, <2>2, CalmStill
<1>2. ASSUME TickWrite PROVE ReuseInv'
  <2>1. \A s \in Threads : Calm(s)
    BY <1>2, <1>th, Kinds DEF TickWrite, Calm, LoopStride, MainStride
  <2>2. Still
    BY <1>2, <1>flags DEF TickWrite, Still, SameWorld, SameClosed, FlagsT,
       objVars, mapVars, mainVars, loopVars
  <2> QED BY <2>1, <2>2, CalmStill
<1> QED BY <1>1, <1>2

(* A worker inside handle_unpack, and where timeout_send begins. *)
LEMMA WorkerCalm ==
  ASSUME TypeOK, ReuseInv, NEW w \in Workers,
         \/ timeout_send(w)
         \/ handle_unpack(w)
         \/ UnpackNothing(w)
         \/ UnpackSplice(w)
         \/ UnpackPartial(w)
         \/ \E i \in 1 .. Len(Script) : UnpackFrame(w, i)
         \/ CallbackStart(w)
         \/ CallbackCloses(w)
         \/ CallbackEnd(w)
         \/ UnpackBad(w)
         \/ UnpackBadClose(w)
  PROVE  ReuseInv'
<1>th. th \in [Threads -> ThreadT] BY DEF TypeOK, ThreadsOK
<1>flags. flags \in [Conns -> FlagsT] BY DEF TypeOK
<1>1. ASSUME timeout_send(w) PROVE ReuseInv'
  <2>1. \A s \in Threads : Calm(s)
    BY <1>1, <1>th, GotoAt, ReturnAt, Kinds DEF timeout_send, HomePc, Calm,
       LoopStride, MainStride
  <2>2. Still
    BY <1>1, <1>flags DEF timeout_send, Still, SameWorld, SameClosed, FlagsT,
       objVars, mapVars, mainVars, loopVars
  <2> QED BY <2>1, <2>2, CalmStill
<1>2. ASSUME handle_unpack(w) PROVE ReuseInv'
  <2>1. \A s \in Threads : Calm(s)
    BY <1>2, <1>th, GotoAt, ReturnAt, Kinds DEF handle_unpack, HomePc, Calm,
       LoopStride, MainStride
  <2>2. Still
    BY <1>2, <1>flags DEF handle_unpack, Still, SameWorld, SameClosed, FlagsT,
       objVars, mapVars, mainVars, loopVars
  <2> QED BY <2>1, <2>2, CalmStill
<1>3. ASSUME UnpackNothing(w) PROVE ReuseInv'
  <2>1. \A s \in Threads : Calm(s)
    BY <1>3, <1>th, ReturnAt, Kinds DEF UnpackNothing, HomePc, Calm,
       LoopStride, MainStride
  <2>2. Still
    BY <1>3, <1>flags DEF UnpackNothing, Still, SameWorld, SameClosed, FlagsT,
       objVars, mapVars, mainVars, loopVars
  <2> QED BY <2>1, <2>2, CalmStill
<1>4. ASSUME UnpackSplice(w) PROVE ReuseInv'
  <2>1. \A s \in Threads : Calm(s)
    BY <1>4, <1>th, GotoAt, Kinds DEF UnpackSplice, Calm, LoopStride,
       MainStride
  <2>2. Still
    BY <1>4, <1>flags DEF UnpackSplice, Still, SameWorld, SameClosed, FlagsT,
       objVars, mapVars, mainVars, loopVars
  <2> QED BY <2>1, <2>2, CalmStill
<1>5. ASSUME UnpackPartial(w) PROVE ReuseInv'
  <2>1. \A s \in Threads : Calm(s)
    BY <1>5, <1>th, ReturnAt, Kinds DEF UnpackPartial, HomePc, Calm,
       LoopStride, MainStride
  <2>2. Still
    BY <1>5, <1>flags DEF UnpackPartial, Still, SameWorld, SameClosed, FlagsT,
       objVars, mapVars, mainVars, loopVars
  <2> QED BY <2>1, <2>2, CalmStill
<1>6. ASSUME NEW i \in 1 .. Len(Script), UnpackFrame(w, i) PROVE ReuseInv'
  <2>1. \A s \in Threads : Calm(s)
    <3>1. Goto(w, "finish") BY <1>6, Zenon DEF UnpackFrame
    <3>2. th'[w].pc = "finish" /\ \A s \in Threads \ {w} : th'[s] = th[s]
      BY <1>th, <3>1, GotoAt, Kinds, Zenon
    <3> QED BY <3>2, WorkerAlone, Zenon
  <2>2. Still
    BY <1>6, <1>flags DEF UnpackFrame, Still, SameWorld, SameClosed, FlagsT,
       objVars, mapVars, mainVars, loopVars
  <2> QED BY <2>1, <2>2, CalmStill
<1>7. ASSUME CallbackStart(w) PROVE ReuseInv'
  <2>1. \A s \in Threads : Calm(s)
    BY <1>7, <1>th, GotoAt, Kinds DEF CallbackStart, Calm, LoopStride,
       MainStride
  <2>2. Still
    BY <1>7, <1>flags DEF CallbackStart, Still, SameWorld, SameClosed, FlagsT,
       objVars, mapVars, mainVars, loopVars
  <2> QED BY <2>1, <2>2, CalmStill
<1>8. ASSUME CallbackCloses(w) PROVE ReuseInv'
  <2>1. \A s \in Threads : Calm(s)
    BY <1>8 DEF CallbackCloses, Calm
  <2>2. Still
    BY <1>8, <1>flags DEF CallbackCloses, Still, SameWorld, SameClosed,
       FlagsT, objVars, mapVars, mainVars, loopVars
  <2> QED BY <2>1, <2>2, CalmStill
<1>9. ASSUME CallbackEnd(w) PROVE ReuseInv'
  <2>1. \A s \in Threads : Calm(s)
    BY <1>9, <1>th, ReturnAt, Kinds DEF CallbackEnd, HomePc, Calm, LoopStride,
       MainStride
  <2>2. Still
    BY <1>9, <1>flags DEF CallbackEnd, Still, SameWorld, SameClosed, FlagsT,
       objVars, mapVars, mainVars, loopVars
  <2> QED BY <2>1, <2>2, CalmStill
<1>10. ASSUME UnpackBad(w) PROVE ReuseInv'
  <2>1. \A s \in Threads : Calm(s)
    BY <1>10, <1>th, GotoAt, Kinds DEF UnpackBad, Calm, LoopStride, MainStride
  <2>2. Still
    BY <1>10, <1>flags DEF UnpackBad, Still, SameWorld, SameClosed, FlagsT,
       objVars, mapVars, mainVars, loopVars
  <2> QED BY <2>1, <2>2, CalmStill
<1>11. ASSUME UnpackBadClose(w) PROVE ReuseInv'
  <2>1. \A s \in Threads : Calm(s)
    BY <1>11, <1>th, ReturnAt, Kinds DEF UnpackBadClose, HomePc, Calm,
       LoopStride, MainStride
  <2>2. Still
    BY <1>11, <1>flags DEF UnpackBadClose, Still, SameWorld, SameClosed,
       FlagsT, objVars, mapVars, mainVars, loopVars
  <2> QED BY <2>1, <2>2, CalmStill
<1> QED BY <1>1, <1>2, <1>3, <1>4, <1>5, <1>6, <1>7, <1>8, <1>9, <1>10, <1>11

(* write_data, by a worker or by the loop. *)
LEMMA WriterCalm ==
  ASSUME TypeOK, ReuseInv, NEW t \in Writers,
         \/ WriteBusy(t)
         \/ WriteLock(t)
         \/ WriteNothing(t)
         \/ WriteGather(t)
         \/ WriteError(t)
         \/ WriteFail(t)
         \/ WriteAgain(t)
         \/ WriteSome(t)
         \/ WatchWriteLoad(t)
         \/ WatchWriteOn(t)
         \/ WritePop(t)
  PROVE  ReuseInv'
<1>th. th \in [Threads -> ThreadT] BY DEF TypeOK, ThreadsOK
<1>flags. flags \in [Conns -> FlagsT] BY DEF TypeOK
<1>1. ASSUME WriteBusy(t) PROVE ReuseInv'
  <2>1. \A s \in Threads : Calm(s)
    BY <1>1, <1>th, ReturnAt, Kinds DEF WriteBusy, At, HomePc, Writers, Calm,
       LoopStride, MainStride
  <2>2. Still
    BY <1>1, <1>flags DEF WriteBusy, Still, SameWorld, SameClosed, FlagsT,
       objVars, mapVars, mainVars, loopVars
  <2> QED BY <2>1, <2>2, CalmStill
<1>2. ASSUME WriteLock(t) PROVE ReuseInv'
  <2>1. \A s \in Threads : Calm(s)
    BY <1>2, <1>th, GotoAt, Kinds DEF WriteLock, At, Writers, Calm,
       LoopStride, MainStride
  <2>2. Still
    BY <1>2, <1>flags DEF WriteLock, Still, SameWorld, SameClosed, FlagsT,
       objVars, mapVars, mainVars, loopVars
  <2> QED BY <2>1, <2>2, CalmStill
<1>3. ASSUME WriteNothing(t) PROVE ReuseInv'
  <2>1. \A s \in Threads : Calm(s)
    BY <1>3, <1>th, ReturnAt, Kinds DEF WriteNothing, At, WriteUnlock, HomePc,
       Writers, Calm, LoopStride, MainStride
  <2>2. Still
    BY <1>3, <1>flags DEF WriteNothing, Still, SameWorld, SameClosed, FlagsT,
       objVars, mapVars, mainVars, loopVars
  <2> QED BY <2>1, <2>2, CalmStill
<1>4. ASSUME WriteGather(t) PROVE ReuseInv'
  <2>1. \A s \in Threads : Calm(s)
    BY <1>4, <1>th, Kinds DEF WriteGather, At, Writers, Calm, LoopStride,
       MainStride
  <2>2. Still
    BY <1>4, <1>flags DEF WriteGather, Still, SameWorld, SameClosed, FlagsT,
       objVars, mapVars, mainVars, loopVars
  <2> QED BY <2>1, <2>2, CalmStill
<1>5. ASSUME WriteError(t) PROVE ReuseInv'
  <2>1. \A s \in Threads : Calm(s)
    BY <1>5, <1>th, GotoAt, Kinds DEF WriteError, At, Writers, Calm,
       LoopStride, MainStride
  <2>2. Still
    BY <1>5, <1>flags DEF WriteError, Still, SameWorld, SameClosed, FlagsT,
       objVars, mapVars, mainVars, loopVars
  <2> QED BY <2>1, <2>2, CalmStill
<1>6. ASSUME WriteFail(t) PROVE ReuseInv'
  <2>1. \A s \in Threads : Calm(s)
    BY <1>6, <1>th, ReturnAt, Kinds DEF WriteFail, At, WriteUnlock, HomePc,
       Writers, Calm, LoopStride, MainStride
  <2>2. Still
    BY <1>6, <1>flags DEF WriteFail, Still, SameWorld, SameClosed, FlagsT,
       objVars, mapVars, mainVars, loopVars
  <2> QED BY <2>1, <2>2, CalmStill
<1>7. ASSUME WriteAgain(t) PROVE ReuseInv'
  <2>1. \A s \in Threads : Calm(s)
    BY <1>7, <1>th, ReturnAt, Kinds DEF WriteAgain, At, WriteUnlock, HomePc,
       Writers, Calm, LoopStride, MainStride
  <2>2. Still
    BY <1>7, <1>flags DEF WriteAgain, Still, SameWorld, SameClosed, FlagsT,
       objVars, mapVars, mainVars, loopVars
  <2> QED BY <2>1, <2>2, CalmStill
<1>8. ASSUME WriteSome(t) PROVE ReuseInv'
  <2>1. \A s \in Threads : Calm(s)
    <3>1. /\ th[t].pc = "writev" /\ th'[t].pc \in {"watch_on", "pop"}
          /\ th'[t].c = th[t].c /\ \A s \in Threads \ {t} : th'[s] = th[s]
      <4>1. PICK n, p : /\ th[t].pc = "writev" /\ p \in {"watch_on", "pop"}
                        /\ th' = [th EXCEPT ![t].n = n, ![t].iov = <<>>, ![t].pc = p]
        BY <1>8 DEF WriteSome, At
      <4>2. t \in Threads BY Kinds DEF Writers
      <4> QED BY <1>th, <4>1, <4>2 DEF ThreadT
    <3>2. CASE t \in Workers
      <4>1. th'[t].pc # "close" BY <3>1
      <4> QED BY <3>1, <3>2, <4>1, WorkerAlone, Zenon
    <3>3. CASE t \in Loops
      <4>1. LoopStride(t) BY <3>1 DEF LoopStride
      <4> QED BY <3>1, <3>3, <4>1, LoopAlone, Zenon
    <3> QED BY <3>2, <3>3, Zenon DEF Writers
  <2>2. Still
    BY <1>8, <1>flags DEF WriteSome, Still, SameWorld, SameClosed, FlagsT,
       objVars, mapVars, mainVars, loopVars
  <2> QED BY <2>1, <2>2, CalmStill
<1>9. ASSUME WatchWriteLoad(t) PROVE ReuseInv'
  <2>1. \A s \in Threads : Calm(s)
    BY <1>9, <1>th, Kinds DEF WatchWriteLoad, At, Writers, Calm, LoopStride,
       MainStride
  <2>2. Still
    BY <1>9, <1>flags DEF WatchWriteLoad, Still, SameWorld, SameClosed,
       FlagsT, objVars, mapVars, mainVars, loopVars
  <2> QED BY <2>1, <2>2, CalmStill
<1>10. ASSUME WatchWriteOn(t) PROVE ReuseInv'
  <2>1. \A s \in Threads : Calm(s)
    BY <1>10, <1>th, Kinds DEF WatchWriteOn, At, Writers, Calm, LoopStride,
       MainStride
  <2>2. SameWorld /\ SameClosed /\ UNCHANGED <<batch, main_funcs, todo, fun_list, task_list>>
    BY <1>10, <1>flags DEF WatchWriteOn, SameWorld, SameClosed, FlagsT,
       objVars, mapVars, mainVars
  <2>3. \A k \in Loops : QueueCalm(k)
    BY <1>10, UpdateCalm DEF WatchWriteOn, Live, At, update_handle, UpdateOf
  <2> QED BY <2>1, <2>2, <2>3, CalmSteps
<1>11. ASSUME WritePop(t) PROVE ReuseInv'
  <2>1. \A s \in Threads : Calm(s)
    BY <1>11, <1>th, ReturnAt, Kinds DEF WritePop, At, WriteUnlock, HomePc,
       Writers, Calm, LoopStride, MainStride
  <2>2. Still
    BY <1>11, <1>flags DEF WritePop, Still, SameWorld, SameClosed, FlagsT,
       objVars, mapVars, mainVars, loopVars
  <2> QED BY <2>1, <2>2, CalmStill
<1> QED BY <1>1, <1>2, <1>3, <1>4, <1>5, <1>6, <1>7, <1>8, <1>9, <1>10, <1>11

LEMMA SpliceCalm ==
  ASSUME TypeOK, NEW l \in Loops, funcs_read' = [funcs_read EXCEPT ![l] = @ \o funcs_write[l]],
         funcs_write' = [funcs_write EXCEPT ![l] = <<>>]
  PROVE  \A k \in Loops : QueueCalm(k)
<1>1. /\ \A k \in Loops : funcs_read[k] \in Seq(LoopFuncT) /\ funcs_write[k] \in Seq(LoopFuncT)
      /\ funcs_read \in [Loops -> Seq(LoopFuncT)] /\ funcs_write \in [Loops -> Seq(LoopFuncT)]
  BY DEF TypeOK, LoopOK
<1>2. funcs_read[l] \o funcs_write[l] \in Seq(LoopFuncT)
  BY <1>1, ConcatProperties
<1>3. (funcs_read[l] \o funcs_write[l]) \o <<>> = funcs_read[l] \o funcs_write[l]
  BY <1>2, JoinEmpty
<1>4. /\ funcs_read'[l] = funcs_read[l] \o funcs_write[l] /\ funcs_write'[l] = <<>>
      /\ \A k \in Loops \ {l} : funcs_read'[k] = funcs_read[k] /\ funcs_write'[k] = funcs_write[k]
  BY <1>1
<1> QED BY <1>3, <1>4 DEF QueueCalm, LoopQueue

(* A loop that reads, watches, or runs do_update_handle. *)
LEMMA LoopCalm ==
  ASSUME TypeOK, ReuseInv, NEW l \in Loops,
         \/ LoopSplice(l)
         \/ AddHandleFails(l)
         \/ do_update_handle(l)
         \/ read_data(l)
         \/ ReadEnded(l)
         \/ PushRecv(l)
         \/ WatchReadLoad(l)
         \/ WatchReadOff(l)
         \/ WatchWriteOff(l)
  PROVE  ReuseInv'
<1>th. th \in [Threads -> ThreadT] BY DEF TypeOK, ThreadsOK
<1>flags. flags \in [Conns -> FlagsT] BY DEF TypeOK
<1>1. ASSUME LoopSplice(l) PROVE ReuseInv'
  <2>1. \A s \in Threads : Calm(s)
    BY <1>1, <1>th, GotoAt, Kinds DEF LoopSplice, Calm, LoopStride, MainStride
  <2>2. SameWorld /\ SameClosed /\ UNCHANGED <<batch, main_funcs, todo, fun_list, task_list>>
    BY <1>1, <1>flags DEF LoopSplice, SameWorld, SameClosed, FlagsT, objVars,
       mapVars, mainVars
  <2>3. \A k \in Loops : QueueCalm(k)
    BY <1>1, SpliceCalm DEF LoopSplice
  <2> QED BY <2>1, <2>2, <2>3, CalmSteps
<1>2. ASSUME AddHandleFails(l) PROVE ReuseInv'
  <2>1. \A s \in Threads : Calm(s)
    BY <1>2 DEF AddHandleFails, Calm
  <2>2. SameWorld /\ SameClosed /\ UNCHANGED <<batch, main_funcs, todo, fun_list, task_list>>
    BY <1>2, <1>flags DEF AddHandleFails, SameWorld, SameClosed, FlagsT,
       objVars, mapVars, mainVars
  <2>3. \A k \in Loops : QueueCalm(k)
    BY <1>2, FuncDoneQueue DEF AddHandleFails, NextFunc, QueueCalm
  <2> QED BY <2>1, <2>2, <2>3, CalmSteps
<1>3. ASSUME do_update_handle(l) PROVE ReuseInv'
  <2>1. \A s \in Threads : Calm(s)
    BY <1>3 DEF do_update_handle, Calm
  <2>2. SameWorld /\ SameClosed /\ UNCHANGED <<batch, main_funcs, todo, fun_list, task_list>>
    BY <1>3, <1>flags DEF do_update_handle, SameWorld, SameClosed, FlagsT,
       objVars, mapVars, mainVars
  <2>3. \A k \in Loops : QueueCalm(k)
    BY <1>3, FuncDoneQueue DEF do_update_handle, NextFunc, QueueCalm
  <2> QED BY <2>1, <2>2, <2>3, CalmSteps
<1>4. ASSUME read_data(l) PROVE ReuseInv'
  <2>1. \A s \in Threads : Calm(s)
    <3>1. /\ th[l].pc = "read_data" /\ th'[l].pc \in {"push_recv", "set_update"}
          /\ th'[l].c = th[l].c /\ \A s \in Threads \ {l} : th'[s] = th[s]
      <4>1. PICK b, n, p : /\ th[l].pc = "read_data" /\ p \in {"push_recv", "set_update"}
                           /\ th' = [th EXCEPT ![l].buf = b, ![l].n = n, ![l].pc = p]
        BY <1>4 DEF read_data, At
      <4>2. l \in Threads BY Kinds, Zenon
      <4> QED BY <1>th, <4>1, <4>2 DEF ThreadT
    <3>2. LoopStride(l) BY <3>1 DEF LoopStride
    <3> QED BY <3>1, <3>2, LoopAlone, Zenon
  <2>2. Still
    BY <1>4, <1>flags DEF read_data, Still, SameWorld, SameClosed, FlagsT,
       objVars, mapVars, mainVars, loopVars
  <2> QED BY <2>1, <2>2, CalmStill
<1>5. ASSUME ReadEnded(l) PROVE ReuseInv'
  <2>1. \A s \in Threads : Calm(s)
    BY <1>5, <1>th, GotoAt, Kinds DEF ReadEnded, At, Calm, LoopStride,
       MainStride
  <2>2. Still
    BY <1>5, <1>flags DEF ReadEnded, Still, SameWorld, SameClosed, FlagsT,
       objVars, mapVars, mainVars, loopVars
  <2> QED BY <2>1, <2>2, CalmStill
<1>6. ASSUME PushRecv(l) PROVE ReuseInv'
  <2>1. \A s \in Threads : Calm(s)
    BY <1>6, <1>th, Kinds DEF PushRecv, At, Home, HomePc, Calm, LoopStride,
       MainStride
  <2>2. Still
    BY <1>6, <1>flags DEF PushRecv, Still, SameWorld, SameClosed, FlagsT,
       objVars, mapVars, mainVars, loopVars
  <2> QED BY <2>1, <2>2, CalmStill
<1>7. ASSUME WatchReadLoad(l) PROVE ReuseInv'
  <2>1. \A s \in Threads : Calm(s)
    BY <1>7, <1>th, Kinds DEF WatchReadLoad, At, Home, HomePc, Calm,
       LoopStride, MainStride
  <2>2. Still
    BY <1>7, <1>flags DEF WatchReadLoad, Still, SameWorld, SameClosed, FlagsT,
       objVars, mapVars, mainVars, loopVars
  <2> QED BY <2>1, <2>2, CalmStill
<1>8. ASSUME WatchReadOff(l) PROVE ReuseInv'
  <2>1. \A s \in Threads : Calm(s)
    BY <1>8, <1>th, ReturnAt, Kinds DEF WatchReadOff, At, HomePc, Calm,
       LoopStride, MainStride
  <2>2. SameWorld /\ SameClosed /\ UNCHANGED <<batch, main_funcs, todo, fun_list, task_list>>
    BY <1>8, <1>flags DEF WatchReadOff, SameWorld, SameClosed, FlagsT,
       objVars, mapVars, mainVars
  <2>3. \A k \in Loops : QueueCalm(k)
    BY <1>8, UpdateCalm DEF WatchReadOff, Live, At, update_handle, UpdateOf
  <2> QED BY <2>1, <2>2, <2>3, CalmSteps
<1>9. ASSUME WatchWriteOff(l) PROVE ReuseInv'
  <2>1. \A s \in Threads : Calm(s)
    BY <1>9, <1>th, Kinds DEF WatchWriteOff, At, Calm, LoopStride, MainStride
  <2>2. SameWorld /\ SameClosed /\ UNCHANGED <<batch, main_funcs, todo, fun_list, task_list>>
    BY <1>9, <1>flags DEF WatchWriteOff, SameWorld, SameClosed, FlagsT,
       objVars, mapVars, mainVars
  <2>3. \A k \in Loops : QueueCalm(k)
    BY <1>9, UpdateCalm DEF WatchWriteOff, Live, At, update_handle, UpdateOf
  <2> QED BY <2>1, <2>2, <2>3, CalmSteps
<1> QED BY <1>1, <1>2, <1>3, <1>4, <1>5, <1>6, <1>7, <1>8, <1>9

(* Application threads. *)
LEMMA UserCalm ==
  ASSUME TypeOK, ReuseInv, NEW u \in Users,
         \/ \E k \in Conns : PushLookup(u, k)
         \/ \E k \in Conns : CloseLookup(u, k)
         \/ PushClient(u)
         \/ PushCheck(u)
         \/ push_send_pack(u)
         \/ CloseClient(u)
         \/ close_read(u)
         \/ remove_fd(u)
  PROVE  ReuseInv'
<1>th. th \in [Threads -> ThreadT] BY DEF TypeOK, ThreadsOK
<1>flags. flags \in [Conns -> FlagsT] BY DEF TypeOK
<1>1. ASSUME NEW k \in Conns, PushLookup(u, k) PROVE ReuseInv'
  <2>1. \A s \in Threads : Calm(s)
    BY <1>1, <1>th, Kinds DEF PushLookup, Calm, LoopStride, MainStride
  <2>2. Still
    BY <1>1, <1>flags DEF PushLookup, Still, SameWorld, SameClosed, FlagsT,
       objVars, mapVars, mainVars, loopVars
  <2> QED BY <2>1, <2>2, CalmStill
<1>2. ASSUME NEW k \in Conns, CloseLookup(u, k) PROVE ReuseInv'
  <2>1. \A s \in Threads : Calm(s)
    BY <1>2, <1>th, Kinds DEF CloseLookup, Calm, LoopStride, MainStride
  <2>2. Still
    BY <1>2, <1>flags DEF CloseLookup, Still, SameWorld, SameClosed, FlagsT,
       objVars, mapVars, mainVars, loopVars
  <2> QED BY <2>1, <2>2, CalmStill
<1>3. ASSUME PushClient(u) PROVE ReuseInv'
  <2>1. \A s \in Threads : Calm(s)
    BY <1>3, <1>th, Kinds DEF PushClient, Calm, LoopStride, MainStride
  <2>2. Still
    BY <1>3, <1>flags DEF PushClient, Still, SameWorld, SameClosed, FlagsT,
       objVars, mapVars, mainVars, loopVars
  <2> QED BY <2>1, <2>2, CalmStill
<1>4. ASSUME PushCheck(u) PROVE ReuseInv'
  <2>1. \A s \in Threads : Calm(s)
    BY <1>4, <1>th, GotoAt, ReturnAt, Kinds DEF PushCheck, Calm, LoopStride,
       MainStride
  <2>2. Still
    BY <1>4, <1>flags DEF PushCheck, Still, SameWorld, SameClosed, FlagsT,
       objVars, mapVars, mainVars, loopVars
  <2> QED BY <2>1, <2>2, CalmStill
<1>5. ASSUME push_send_pack(u) PROVE ReuseInv'
  <2>1. \A s \in Threads : Calm(s)
    BY <1>5, <1>th, ReturnAt, Kinds DEF push_send_pack, Calm, LoopStride,
       MainStride
  <2>2. Still
    BY <1>5, <1>flags DEF push_send_pack, Still, SameWorld, SameClosed,
       FlagsT, objVars, mapVars, mainVars, loopVars
  <2> QED BY <2>1, <2>2, CalmStill
<1>6. ASSUME CloseClient(u) PROVE ReuseInv'
  <2>1. \A s \in Threads : Calm(s)
    BY <1>6, <1>th, Kinds DEF CloseClient, Calm, LoopStride, MainStride
  <2>2. Still
    BY <1>6, <1>flags DEF CloseClient, Still, SameWorld, SameClosed, FlagsT,
       objVars, mapVars, mainVars, loopVars
  <2> QED BY <2>1, <2>2, CalmStill
<1>7. ASSUME close_read(u) PROVE ReuseInv'
  <2>1. \A s \in Threads : Calm(s)
    BY <1>7, <1>th, Kinds DEF close_read, Calm, LoopStride, MainStride
  <2>2. Still
    BY <1>7, <1>flags DEF close_read, Still, SameWorld, SameClosed, FlagsT,
       objVars, mapVars, mainVars, loopVars
  <2> QED BY <2>1, <2>2, CalmStill
<1>8. ASSUME remove_fd(u) PROVE ReuseInv'
  <2>1. \A s \in Threads : Calm(s)
    BY <1>8, <1>th, ReturnAt, Kinds DEF remove_fd, Calm, LoopStride,
       MainStride
  <2>2. Still
    BY <1>8, <1>flags DEF remove_fd, Still, SameWorld, SameClosed, FlagsT,
       objVars, mapVars, mainVars, loopVars
  <2> QED BY <2>1, <2>2, CalmStill
<1> QED BY <1>1, <1>2, <1>3, <1>4, <1>5, <1>6, <1>7, <1>8

-----------------------------------------------------------------------------
(* A connection that is not closing has nothing on its way out, and having  *)
(* nothing on its way out is all CloseOK asks of it.                        *)

NoClose(c) ==
  /\ ~InSeq(CloseOf(c), PoolQueue)
  /\ \A w \in Workers : ~AtClose(w, c)
  /\ \A l \in Loops : ~InSeq(CloseOf(c), LoopQueue(l))
  /\ ~InSeq(RemoveOf(c), main_funcs)

LEMMA NotClosing ==
  ASSUME NEW c \in Conns, CloseOK(c), ~Closing(c) PROVE NoClose(c)
BY DEF CloseOK, CloseQueued, CloseRuns, ClosePosted, RemovePosted, NoClose

LEMMA EndsNone == ASSUME NEW s, NEW x, NEW Y, ~InSeq(x, s) PROVE Ends(s, x, Y)
BY DEF Ends, InSeq

LEMMA CloseVacant == ASSUME NEW c \in Conns, NoClose(c)' PROVE CloseOK(c)'
<1>1. /\ ~InSeq(CloseOf(c), PoolQueue') /\ ~InSeq(RemoveOf(c), main_funcs')
      /\ \A w \in Workers : ~AtClose(w, c)'
      /\ \A l \in Loops : ~InSeq(CloseOf(c), LoopQueue(l)')
  BY DEF NoClose
<1>2. CloseQueued(c)' BY <1>1, EndsNone DEF CloseQueued
<1>3. CloseRuns(c)' BY <1>1 DEF CloseRuns
<1>4. ClosePosted(c)' BY <1>1, EndsNone DEF ClosePosted
<1>5. RemovePosted(c)' BY <1>1, EndsNone DEF RemovePosted
<1> QED BY <1>2, <1>3, <1>4, <1>5 DEF CloseOK

LEMMA TasksOfOther ==
  ASSUME NEW c \in Conns, NEW d \in Conns, c # d, NEW y, y.c = c PROVE y \notin TasksOf(d)
BY DEF TasksOf

(* handler_map_ holds a client only while it lives.                         *)
LEMMA HandledLive ==
  ASSUME ReuseInv, NEW l \in Loops, NEW c \in Conns, Handled(l, c)
  PROVE  Live(c) /\ loop_of[c] = l
<1>1. c # NoConn BY CoreAssumption
<1> QED BY <1>1 DEF ReuseInv, HandlersLive, Handled

-----------------------------------------------------------------------------
(* do_send_timeout *)

LEMMA TickStartKeeps == ASSUME TypeOK, MapNamesLive, ReuseInv, TickStart PROVE ReuseInv'
<1>th. th \in [Threads -> ThreadT] BY DEF TypeOK, ThreadsOK
<1>1. SameWorld /\ SameClosed /\ PoolQueue' = PoolQueue /\ main_funcs' = main_funcs
  BY DEF TickStart, SameWorld, SameClosed, PoolQueue, objVars, mapVars, loopVars
<1>2. /\ th'[Main].pc = "scan" /\ th'[Main].c = th[Main].c
      /\ \A s \in Threads \ {Main} : th'[s] = th[s]
  BY <1>th, GotoAt, Kinds DEF TickStart
<1>3. \A l \in Loops : QueueCalm(l)
  BY DEF TickStart, QueueCalm, LoopQueue, loopVars
<1>4. \A c \in todo' : Live(c)
  BY DEF TickStart, MapNamesLive
<1>5. MainInside'
  <2>1. th[Main].c = NoConn BY DEF ReuseInv, MainInside, TickStart
  <2> QED BY <2>1, <1>1, <1>2, <1>4 DEF MainInside, SameWorld, Live
<1>6. \A l \in Loops : LoopInside(l)'
  <2>1. UNCHANGED <<fd, handler_map, batch>> BY DEF TickStart, objVars, loopVars
  <2> QED BY <2>1, <1>2, Kinds, CalmLoop DEF ReuseInv, Calm
<1> QED BY <1>1, <1>2, <1>3, <1>5, <1>6, CalmRest, Kinds

LEMMA TickEndKeeps == ASSUME TypeOK, ReuseInv, TickEnd PROVE ReuseInv'
<1>th. th \in [Threads -> ThreadT] BY DEF TypeOK, ThreadsOK
<1>1. SameWorld /\ SameClosed /\ main_funcs' = main_funcs
  BY DEF TickEnd, SameWorld, SameClosed, objVars, mapVars, loopVars
<1>2. PoolQueue' = PoolQueue
  <2>1. PoolQueue \in Seq(TaskT) BY QueueTypes
  <2>2. PoolQueue' = PoolQueue \o <<>> BY DEF TickEnd, accept_task_list, PoolQueue
  <2> QED BY <2>1, <2>2, JoinEmpty
<1>3. /\ th'[Main].pc = "idle" /\ th'[Main].c = NoConn
      /\ \A s \in Threads \ {Main} : th'[s] = th[s]
  BY <1>th, ReturnAt, Kinds DEF TickEnd, HomePc
<1>4. \A l \in Loops : QueueCalm(l)
  BY DEF TickEnd, QueueCalm, LoopQueue, loopVars
<1>5. MainInside' BY <1>3 DEF TickEnd, MainInside
<1>6. \A l \in Loops : LoopInside(l)'
  <2>1. UNCHANGED <<fd, handler_map, batch>> BY DEF TickEnd, objVars, loopVars
  <2> QED BY <2>1, <1>3, Kinds, CalmLoop DEF ReuseInv, Calm
<1> QED BY <1>1, <1>2, <1>3, <1>4, <1>5, <1>6, CalmRest, Kinds

(* A task that is not the close task joins fun_list_ behind a client that   *)
(* is not closing.                                                          *)
LEMMA TaskAdded ==
  ASSUME TypeOK, ReuseInv, SameWorld, SameClosed, main_funcs' = main_funcs, MainInside',
         NEW y \in TaskT, y.op # "close", Live(y.c), ~flags[y.c].closed,
         fun_list' = Append(fun_list, y), task_list' = task_list,
         \A s \in Threads \ {Main} : th'[s] = th[s], UNCHANGED loopVars
  PROVE  ReuseInv'
<1> DEFINE c == y.c
<1>c. c \in Conns BY DEF TaskT
<1>1. PoolQueue' = Append(PoolQueue, y)
  <2>1. task_list \in Seq(TaskT) /\ fun_list \in Seq(TaskT) BY DEF TypeOK, MainOK
  <2> QED BY <2>1, JoinAppend DEF PoolQueue
<1>2. /\ \A w \in Workers, d \in Conns : AtClose(w, d)' => AtClose(w, d)
      /\ \A l \in Loops : QueueCalm(l) /\ LoopQueue(l)' = LoopQueue(l)
  BY Kinds DEF AtClose, QueueCalm, LoopQueue, loopVars
<1>3. \A d \in Conns : SameConn(d) /\ NotAdded(d)
  BY DEF SameWorld, SameClosed, SameConn, SamePlace, NotAdded
<1>4. \A d \in Conns : AddOK(d)'
  BY <1>2, <1>3, AddStays DEF ReuseInv, Mild, SameConn
<1>5. ASSUME NEW d \in Conns, d # c PROVE CloseOK(d)'
  <2>1. y \notin TasksOf(d) BY <1>c, <1>5, TasksOfOther
  <2>2. CloseMild(d) BY <2>1, <1>1, <1>2 DEF CloseMild, Mild
  <2> QED BY <2>2, <1>2, <1>3, CalmQueues, ConnStays
<1>6. CloseOK(c)'
  <2>1. NoClose(c) BY <1>c, NotClosing DEF ReuseInv, Closing
  <2>2. y # CloseOf(c) BY DEF CloseOf
  <2>3. ~InSeq(CloseOf(c), PoolQueue')
    BY <1>1, <2>1, <2>2, QueueTypes, InAppend DEF NoClose
  <2>4. NoClose(c)'
    BY <1>c, <1>2, <2>1, <2>3 DEF NoClose
  <2> QED BY <1>c, <2>4, CloseVacant
<1>7. TasksLive'
  <2> SUFFICES ASSUME NEW d \in Conns, ~Idle(d)' PROVE Live(d)'
    BY DEF TasksLive
  <2>1. CASE d = c BY <2>1 DEF SameWorld, Live
  <2>2. CASE d # c
    <3>1. y \notin TasksOf(d) BY <1>c, <2>2, TasksOfOther
    <3>2. ~Idle(d) BY <3>1, <1>1, IdleStays DEF Mild
    <3> QED BY <3>2 DEF ReuseInv, TasksLive, SameWorld, Live
  <2> QED BY <2>1, <2>2
<1>8. FdOwned' /\ LiveIsMapped' /\ HandlersLive' BY CalmWorld DEF ReuseInv
<1>9. \A l \in Loops : LoopInside(l)'
  BY Kinds, CalmLoop DEF ReuseInv, Calm, loopVars, SameWorld
<1> QED BY <1>4, <1>5, <1>6, <1>7, <1>8, <1>9 DEF ReuseInv

LEMMA MarkKeeps ==
  ASSUME TypeOK, ReuseInv, handle_update \/ handle_write_update PROVE ReuseInv'
<1>th. th \in [Threads -> ThreadT] BY DEF TypeOK, ThreadsOK
<1>flags. flags \in [Conns -> FlagsT] BY DEF TypeOK
<1>1. PICK op \in {"unpack", "send"} :
        fun_list' = Append(fun_list, [op |-> op, c |-> th[Main].c])
  BY DEF handle_update, handle_write_update
<1>2. th[Main].pc \in {"mark_read", "mark_write"}
  BY DEF handle_update, handle_write_update
<1>3. th[Main].c \in Conns /\ Live(th[Main].c) /\ ~flags[th[Main].c].closed
  <2>1. th[Main].c \in Conns
    BY <1>2, Kinds DEF TypeOK, ThreadsOK, LocalOK
  <2> QED BY <2>1, CoreAssumption DEF ReuseInv, MainInside
<1>4. /\ SameWorld /\ main_funcs' = main_funcs /\ task_list' = task_list /\ todo' = todo
      /\ UNCHANGED loopVars
  BY DEF handle_update, handle_write_update, SameWorld, objVars, mapVars, loopVars
<1>5. SameClosed
  BY <1>flags DEF handle_update, handle_write_update, SameClosed, FlagsT
<1>6. /\ \A s \in Threads \ {Main} : th'[s] = th[s]
      /\ \/ th'[Main].pc = "test_write" /\ th'[Main].c = th[Main].c
         \/ th'[Main].pc = "scan" /\ th'[Main].c = NoConn
  <2>1. CASE handle_update
    BY <1>th, <2>1, Kinds, GotoAt DEF handle_update
  <2>2. CASE handle_write_update
    BY <1>th, <2>2, Kinds DEF handle_write_update, ThreadT
  <2> QED BY <2>1, <2>2
<1>7. MainInside'
  BY <1>3, <1>4, <1>5, <1>6, CoreAssumption DEF ReuseInv, MainInside, SameWorld, SameClosed, Live
<1>8. [op |-> op, c |-> th[Main].c] \in TaskT BY <1>1, <1>3 DEF TaskT, TaskOps
<1> QED BY <1>1, <1>3, <1>4, <1>5, <1>6, <1>7, <1>8, TaskAdded

LEMMA TickClientKeeps ==
  ASSUME TypeOK, ReuseInv, NEW c \in Conns, TickClient(c) PROVE ReuseInv'
<1>th. th \in [Threads -> ThreadT] BY DEF TypeOK, ThreadsOK
<1>flags. flags \in [Conns -> FlagsT] BY DEF TypeOK
<1>1. Live(c) /\ th[Main].pc = "scan" /\ th[Main].c = NoConn /\ c # NoConn
  BY CoreAssumption DEF TickClient, ReuseInv, MainInside
<1>2. /\ SameWorld /\ main_funcs' = main_funcs /\ task_list' = task_list
      /\ UNCHANGED loopVars /\ todo' = todo \ {c}
  BY DEF TickClient, SameWorld, objVars, mapVars, loopVars
<1>3. \A l \in Loops : QueueCalm(l) /\ LoopQueue(l)' = LoopQueue(l)
  BY <1>2 DEF QueueCalm, LoopQueue, loopVars
<1>4. ASSUME \A s \in Threads \ {Main} : th'[s] = th[s] PROVE \A l \in Loops : LoopInside(l)'
  BY <1>4, <1>2, Kinds, CalmLoop DEF ReuseInv, Calm, loopVars, SameWorld
<1>5. CASE flags' = flags
  <2>1. SameClosed /\ fun_list' = fun_list
    <3>1. ASSUME flags' = set_close(c), can_close(c) PROVE FALSE
      BY <1>5, <3>1, <1>flags DEF set_close, can_close, FlagsT
    <3> QED BY <1>5, <3>1 DEF TickClient, SameClosed
  <2>2. /\ \A s \in Threads \ {Main} : th'[s] = th[s]
        /\ \/ th'[Main] = th[Main]
           \/ th'[Main].pc = "test_read" /\ th'[Main].c = c /\ ~flags[c].closed
    BY <1>th, Kinds DEF TickClient, ThreadT
  <2>3. MainInside'
    BY <1>1, <1>2, <1>5, <2>1, <2>2 DEF ReuseInv, MainInside, SameWorld, Live
  <2>4. PoolQueue' = PoolQueue BY <1>2, <2>1 DEF PoolQueue
  <2> QED BY <1>2, <1>3, <1>4, <2>1, <2>2, <2>3, <2>4, Kinds, CalmRest
<1>6. CASE can_close(c) /\ flags' = set_close(c) /\ th' = th
           /\ fun_list' = Append(fun_list, CloseOf(c))
  <2>1. /\ flags'[c].closed = TRUE
        /\ \A d \in Conns \ {c} : flags'[d] = flags[d]
    BY <1>6, <1>flags DEF set_close, FlagsT
  <2>2. PoolQueue' = Append(PoolQueue, CloseOf(c))
    <3>1. task_list \in Seq(TaskT) /\ fun_list \in Seq(TaskT) BY DEF TypeOK, MainOK
    <3> QED BY <1>2, <1>6, <3>1, OfTypes, JoinAppend DEF PoolQueue
  <2>3. \A d \in Conns : SamePlace(d) /\ NotAdded(d)
    BY <1>2 DEF SameWorld, SamePlace, NotAdded
  <2>4. \A d \in Conns : AddOK(d)'
    BY <1>3, <2>3, AddStays DEF ReuseInv, Mild
  <2>5. \A w \in Workers, d \in Conns : AtClose(w, d)' = AtClose(w, d)
    BY <1>6 DEF AtClose
  <2>6. \A d \in Conns \ {c} : CloseOf(c) \notin TasksOf(d)
    BY TasksOfOther DEF CloseOf
  <2>7. ASSUME NEW d \in Conns, d # c PROVE CloseOK(d)'
    <3>1. CloseMild(d) BY <1>2, <2>2, <2>5, <2>6, <2>7 DEF CloseMild, Mild
    <3>2. SameConn(d) BY <2>1, <2>3, <2>7 DEF SameConn
    <3> QED BY <1>3, <2>3, <3>1, <3>2, CalmQueues, ConnStays
  <2>8. CloseOK(c)'
    <3>1. NoClose(c) BY <1>6, NotClosing DEF ReuseInv, Closing, can_close
    <3>2. PoolQueue \in Seq(TaskT) BY QueueTypes
    <3>3. Ends(PoolQueue', CloseOf(c), TasksOf(c))
      BY <2>2, <3>1, <3>2, EndsNone, EndsAppend DEF NoClose
    <3>4. Closing(c)' BY <1>1, <1>2, <2>1 DEF Closing, Live, SameWorld
    <3>5. CloseQueued(c)' BY <3>3, <3>4 DEF CloseQueued
    <3>6. /\ ~InSeq(RemoveOf(c), main_funcs')
          /\ \A w \in Workers : ~AtClose(w, c)'
          /\ \A l \in Loops : ~InSeq(CloseOf(c), LoopQueue(l)')
      BY <1>2, <1>3, <2>5, <3>1 DEF NoClose
    <3>7. CloseRuns(c)' BY <3>6 DEF CloseRuns
    <3>8. ClosePosted(c)' BY <3>6, EndsNone DEF ClosePosted
    <3>9. RemovePosted(c)' BY <3>6, EndsNone DEF RemovePosted
    <3> QED BY <3>5, <3>7, <3>8, <3>9 DEF CloseOK
  <2>9. TasksLive'
    <3> SUFFICES ASSUME NEW d \in Conns, ~Idle(d)' PROVE Live(d)'
      BY DEF TasksLive
    <3>1. CASE d = c BY <1>1, <1>2, <3>1 DEF SameWorld, Live
    <3>2. CASE d # c
      <4>1. ~Idle(d) BY <3>2, <2>2, <2>6, IdleStays DEF Mild
      <4> QED BY <1>2, <4>1 DEF ReuseInv, TasksLive, SameWorld, Live
    <3> QED BY <3>1, <3>2
  <2>10. FdOwned' /\ LiveIsMapped' /\ HandlersLive' BY <1>2, CalmWorld DEF ReuseInv
  <2>11. MainInside'
    BY <1>1, <1>2, <1>6 DEF ReuseInv, MainInside, SameWorld, Live
  <2>12. \A l \in Loops : LoopInside(l)' BY <1>4, <1>6
  <2> QED BY <2>4, <2>7, <2>8, <2>9, <2>10, <2>11, <2>12 DEF ReuseInv
<1> QED BY <1>5, <1>6 DEF TickClient, CloseOf

-----------------------------------------------------------------------------
(* Workers: a task is taken, the close task is run *)

LEMMA RequireKeeps ==
  ASSUME TypeOK, ReuseInv, NEW w \in Workers, RequireTask(w) PROVE ReuseInv'
<1>th. th \in [Threads -> ThreadT] BY DEF TypeOK, ThreadsOK
<1> DEFINE x == Head(task_list)
<1>1. /\ SameWorld /\ SameClosed /\ UNCHANGED <<batch, main_funcs, todo, fun_list>>
      /\ UNCHANGED <<funcs_read, funcs_write>>
  BY DEF RequireTask, SameWorld, SameClosed, objVars, mapVars, mainVars, loopVars
<1>2. /\ PoolQueue # <<>> /\ Head(PoolQueue) = x /\ PoolQueue' = Tail(PoolQueue)
      /\ x \in TaskT /\ PoolQueue \in Seq(TaskT)
  <2>1. task_list \in Seq(TaskT) /\ fun_list \in Seq(TaskT) BY DEF TypeOK, MainOK
  <2>2. task_list # <<>> /\ task_list' = Tail(task_list) BY DEF RequireTask
  <2>3. x \in TaskT BY <2>1, <2>2, TailAt
  <2> QED BY <1>1, <2>1, <2>2, <2>3, JoinTail, QueueTypes DEF PoolQueue
<1>c. PICK c \in Conns, op \in TaskOps : x = [op |-> op, c |-> c] BY <1>2 DEF TaskT
<1>3. /\ th'[w].pc = op /\ th'[w].c = c
      /\ \A s \in Threads \ {w} : th'[s] = th[s]
  BY <1>th, <1>c, Kinds DEF RequireTask, ThreadT
<1>4. \A l \in Loops : QueueCalm(l) /\ LoopQueue(l)' = LoopQueue(l)
  BY <1>1 DEF QueueCalm, LoopQueue
<1>5. \A d \in Conns : SameConn(d) /\ NotAdded(d)
  BY <1>1 DEF SameWorld, SameClosed, SameConn, SamePlace, NotAdded
<1>6. ASSUME NEW d \in Conns, \A v \in Workers : AtClose(v, d)' => AtClose(v, d)
      PROVE  AddOK(d)' /\ CloseOK(d)'
  <2>1. CloseMild(d) BY <1>1, <1>2, <1>6 DEF CloseMild, Mild
  <2> QED BY <1>4, <1>5, <2>1, CalmQueues, ConnStays
<1>7. ASSUME NEW d \in Conns PROVE AddOK(d)' /\ CloseOK(d)'
  <2>1. CASE d # c \/ op # "close"
    <3>1. ASSUME NEW v \in Workers, AtClose(v, d)' PROVE AtClose(v, d)
      BY <1>3, <2>1, <3>1, Kinds DEF AtClose
    <3> QED BY <1>6, <3>1
  <2>2. CASE d = c /\ op = "close"
    <3>1. x = CloseOf(c) BY <1>c, <2>2 DEF CloseOf
    <3>2. CloseQueued(c) /\ CloseRuns(c) /\ ClosePosted(c) /\ RemovePosted(c)
      BY <1>c DEF ReuseInv, CloseOK
    <3>3. InSeq(CloseOf(c), PoolQueue) BY <1>2, <3>1, InTail
    <3>4. Closing(c) /\ ~Idle(c)
      BY <1>c, <3>2, <3>3, OfTypes DEF CloseQueued, Idle
    <3>5. Idle(c)' /\ Ends(PoolQueue', CloseOf(c), TasksOf(c)) /\ ~InSeq(CloseOf(c), PoolQueue')
      <4>1. Ends(PoolQueue, CloseOf(c), TasksOf(c)) BY <3>2 DEF CloseQueued
      <4>2. \A y \in TasksOf(c) : ~InSeq(y, PoolQueue')
        BY <1>2, <3>1, <4>1, EndsTail
      <4> QED BY <1>2, <1>c, <4>1, <4>2, EndsTail, OfTypes DEF Idle
    <3>6. /\ \A v \in Workers : ~AtClose(v, c)
          /\ \A l \in Loops : ~InSeq(CloseOf(c), LoopQueue(l))
          /\ ~InSeq(RemoveOf(c), main_funcs)
      BY <3>2, <3>4 DEF CloseRuns, ClosePosted, RemovePosted
    <3>7. Closing(c)' BY <1>5, <1>c, <3>4, ClosingStays
    <3>8. CloseQueued(c)' BY <3>5, <3>7 DEF CloseQueued
    <3>9. CloseRuns(c)'
      <4>1. \A v \in Workers : AtClose(v, c)' => v = w
        BY <1>3, <3>6, Kinds DEF AtClose
      <4> QED BY <3>5, <3>7, <4>1 DEF CloseRuns
    <3>10. ClosePosted(c)' BY <1>4, <3>6, EndsNone DEF ClosePosted
    <3>11. RemovePosted(c)' BY <1>1, <3>6, EndsNone DEF RemovePosted
    <3>12. AddOK(c)' BY <1>4, <1>5, <1>c, AddStays DEF ReuseInv, Mild, SameConn
    <3> QED BY <2>2, <3>8, <3>9, <3>10, <3>11, <3>12 DEF CloseOK
  <2> QED BY <2>1, <2>2
<1>8. TasksLive'
  <2> SUFFICES ASSUME NEW d \in Conns, ~Idle(d)' PROVE Live(d)'
    BY DEF TasksLive
  <2>1. ~Idle(d) BY <1>2, IdleStays DEF Mild
  <2> QED BY <1>1, <2>1 DEF ReuseInv, TasksLive, SameWorld, Live
<1>9. FdOwned' /\ LiveIsMapped' /\ HandlersLive' BY <1>1, CalmWorld DEF ReuseInv
<1>10. MainInside' BY <1>1, <1>3, Kinds, CalmMain DEF ReuseInv, Calm, SameWorld
<1>11. \A l \in Loops : LoopInside(l)'
  BY <1>1, <1>3, Kinds, CalmLoop DEF ReuseInv, Calm, SameWorld
<1> QED BY <1>7, <1>8, <1>9, <1>10, <1>11 DEF ReuseInv

LEMMA ReqCloseKeeps ==
  ASSUME TypeOK, ReuseInv, NEW w \in Workers, req_close(w) PROVE ReuseInv'
<1>th. th \in [Threads -> ThreadT] BY DEF TypeOK, ThreadsOK
<1>c. PICK c \in Conns : th[w].c = c /\ AtClose(w, c) BY DEF req_close, At, AtClose
<1> DEFINE y == CloseOf(c)
<1>1. /\ SameWorld /\ SameClosed /\ UNCHANGED <<batch, main_funcs, todo, fun_list, task_list>>
      /\ PoolQueue' = PoolQueue
  BY DEF req_close, SameWorld, SameClosed, PoolQueue, objVars, mapVars, mainVars
<1>2. /\ Closing(c) /\ Idle(c)
      /\ CloseQueued(c) /\ CloseRuns(c) /\ ClosePosted(c) /\ RemovePosted(c)
  BY <1>c DEF ReuseInv, CloseOK, CloseRuns
<1>3. PICK l \in Loops : loop_of[c] = l
  BY <1>c, <1>2 DEF ReuseInv, LiveIsMapped, Closing
<1>4. /\ LoopQueue(l)' = Append(LoopQueue(l), y) /\ LoopQueue(l) \in Seq(LoopFuncT)
      /\ \A k \in Loops \ {l} : LoopQueue(k)' = LoopQueue(k)
  <2>1. funcs_write' = Posted(l, y) /\ funcs_read' = funcs_read
    BY <1>c, <1>3 DEF req_close, CloseOf
  <2> QED BY <1>c, <2>1, OfTypes, PostedQueue, QueueTypes
<1>5. /\ th'[w].c = NoConn /\ th'[w].pc = "idle"
      /\ \A s \in Threads \ {w} : th'[s] = th[s]
  BY <1>th, Kinds, ReturnAt DEF req_close, HomePc
<1>6. \A v \in Workers, d \in Conns : AtClose(v, d)' => v # w /\ AtClose(v, d)
  BY <1>5, Kinds DEF AtClose
<1>7. \A d \in Conns : SameConn(d) /\ NotAdded(d) /\ CloseMild(d)
  BY <1>1, <1>6 DEF SameWorld, SameClosed, SameConn, SamePlace, NotAdded, CloseMild, Mild
<1>8. ASSUME NEW d \in Conns PROVE AddOK(d)'
  <2>1. y \notin {AddOf(d)} BY DEF CloseOf, AddOf
  <2>2. \A k \in Loops : Mild(LoopQueue(k), LoopQueue(k)', {AddOf(d)})
    BY <1>4, <2>1 DEF Mild
  <2> QED BY <1>7, <2>2, AddStays DEF ReuseInv, SameConn
<1>9. ASSUME NEW d \in Conns, d # c PROVE CloseOK(d)'
  <2>1. y \notin {AddOf(d), CloseOf(d)} BY <1>9 DEF CloseOf, AddOf
  <2>2. LoopsMild(d) BY <1>4, <2>1 DEF LoopsMild, Mild
  <2> QED BY <1>7, <2>2, ConnStays
<1>10. CloseOK(c)'
  <2>1. Closing(c)' /\ Idle(c)'
    BY <1>c, <1>1, <1>2, <1>7, ClosingStays, IdleStays DEF Mild
  <2>2. \A v \in Workers : ~AtClose(v, c)'
    BY <1>c, <1>2, <1>6 DEF CloseRuns
  <2>3. CloseQueued(c)' BY <1>c, <1>1, <1>2, <1>7, CloseQueuedStays DEF Mild
  <2>4. CloseRuns(c)' BY <2>2 DEF CloseRuns
  <2>5. /\ \A k \in Loops : ~InSeq(CloseOf(c), LoopQueue(k))
        /\ ~InSeq(RemoveOf(c), main_funcs)
    BY <1>c, <1>2 DEF ClosePosted, RemovePosted
  <2>6. ClosePosted(c)'
    <3>1. Ends(LoopQueue(l)', CloseOf(c), {CloseOf(c), AddOf(c)})
      BY <1>4, <2>5, EndsNone, EndsAppend
    <3>2. loop_of'[c] = l BY <1>1, <1>3 DEF SameWorld
    <3>3. \A k \in Loops \ {l} : ~InSeq(CloseOf(c), LoopQueue(k)')
      BY <1>4, <2>5
    <3> QED BY <2>1, <2>2, <3>1, <3>2, <3>3, EndsNone DEF ClosePosted
  <2>7. RemovePosted(c)' BY <1>1, <2>5, EndsNone DEF RemovePosted
  <2> QED BY <2>3, <2>4, <2>6, <2>7 DEF CloseOK
<1>11. TasksLive' BY <1>1, CalmTasks DEF ReuseInv, SameWorld
<1>12. FdOwned' /\ LiveIsMapped' /\ HandlersLive' BY <1>1, CalmWorld DEF ReuseInv
<1>13. MainInside' BY <1>1, <1>5, Kinds, CalmMain DEF ReuseInv, Calm, SameWorld
<1>14. \A k \in Loops : LoopInside(k)'
  BY <1>1, <1>5, Kinds, CalmLoop DEF ReuseInv, Calm, SameWorld
<1> QED BY <1>8, <1>9, <1>10, <1>11, <1>12, <1>13, <1>14 DEF ReuseInv

-----------------------------------------------------------------------------
(* The loop: epoll_wait and what it returned *)

LEMMA PollKeeps ==
  ASSUME TypeOK, ReuseInv, NEW l \in Loops, loop_io(l) PROVE ReuseInv'
<1>th. th \in [Threads -> ThreadT] BY DEF TypeOK, ThreadsOK
<1>1. /\ SameWorld /\ SameClosed /\ UNCHANGED <<main_funcs, todo, fun_list>>
      /\ PoolQueue' = PoolQueue
  BY DEF loop_io, SameWorld, SameClosed, PoolQueue, objVars, mapVars, mainVars
<1>2. \A k \in Loops : QueueCalm(k) BY DEF loop_io, QueueCalm, LoopQueue
<1>3. /\ th'[l].c = th[l].c /\ th'[l].pc = "batch" /\ th[l].pc = "funcs"
      /\ \A s \in Threads \ {l} : th'[s] = th[s]
  BY <1>th, Kinds, GotoAt DEF loop_io
<1>4. \A e \in batch'[l] : \E f \in Fds : handler_map[l][f] = e.c /\ e.c \in Conns
  <2>1. batch \in [Loops -> SUBSET EventT] BY DEF TypeOK, LoopOK
  <2> QED BY <2>1 DEF loop_io
<1>5. \A e \in batch'[l] : Handled(l, e.c)
  <2>1. ASSUME NEW c \in Conns, NEW f \in Fds, handler_map[l][f] = c PROVE Handled(l, c)
    BY <2>1, CoreAssumption DEF ReuseInv, HandlersLive, Handled
  <2> QED BY <1>4, <2>1
<1>6. LoopInside(l)'
  BY <1>1, <1>3, <1>5 DEF ReuseInv, LoopInside, Handled, SameWorld
<1>7. \A k \in Loops \ {l} : th'[k] = th[k] /\ batch'[k] = batch[k]
  BY <1>3, Kinds DEF loop_io, TypeOK, LoopOK
<1>8. \A k \in Loops \ {l} : LoopInside(k)'
  BY <1>1, <1>7 DEF ReuseInv, LoopInside, Handled, SameWorld
<1>9. MainInside' BY <1>1, <1>3, Kinds, CalmMain DEF ReuseInv, Calm, SameWorld
<1> QED BY <1>1, <1>2, <1>3, <1>6, <1>8, <1>9, Kinds, CalmRest

LEMMA DispatchKeeps ==
  ASSUME TypeOK, ReuseInv, NEW l \in Loops, NEW e \in batch[l], handle_event(l, e)
  PROVE  ReuseInv'
<1>th. th \in [Threads -> ThreadT] BY DEF TypeOK, ThreadsOK
<1>e. e \in EventT BY DEF TypeOK, LoopOK
<1>1. /\ SameWorld /\ SameClosed /\ UNCHANGED <<main_funcs, todo, fun_list>>
      /\ PoolQueue' = PoolQueue
  BY DEF handle_event, SameWorld, SameClosed, PoolQueue, objVars, mapVars, mainVars
<1>2. \A k \in Loops : QueueCalm(k) BY DEF handle_event, QueueCalm, LoopQueue
<1>3. /\ th[l].pc = "batch"
      /\ \/ th'[l] = th[l]
         \/ th'[l].c = e.c /\ th'[l].pc \in {"read_data", "watch_off"}
      /\ \A s \in Threads \ {l} : th'[s] = th[s]
  BY <1>th, Kinds DEF handle_event, ThreadT
<1>4. batch'[l] \subseteq batch[l] /\ \A k \in Loops \ {l} : batch'[k] = batch[k]
  BY DEF handle_event, TypeOK, LoopOK
<1>5. Handled(l, e.c) /\ e.c # NoConn
  BY <1>e, CoreAssumption DEF ReuseInv, LoopInside, EventT
<1>6. LoopInside(l)'
  BY <1>1, <1>3, <1>4, <1>5 DEF ReuseInv, LoopInside, Handled, SameWorld
<1>7. \A k \in Loops \ {l} : LoopInside(k)'
  BY <1>1, <1>3, <1>4, Kinds DEF ReuseInv, LoopInside, Handled, SameWorld
<1>8. MainInside' BY <1>1, <1>3, Kinds, CalmMain DEF ReuseInv, Calm, SameWorld
<1> QED BY <1>1, <1>2, <1>3, <1>6, <1>7, <1>8, Kinds, CalmRest

-----------------------------------------------------------------------------
(* The loop: a handle comes and goes *)

LEMMA AddHandleKeeps ==
  ASSUME TypeOK, ReuseInv, NEW l \in Loops, do_add_handle(l) PROVE ReuseInv'
<1>1. PICK c \in Conns : Head(funcs_read[l]) = AddOf(c)
  <2>1. funcs_read[l] \in Seq(LoopFuncT) /\ funcs_read[l] # <<>>
    BY DEF TypeOK, LoopOK, do_add_handle, NextFunc
  <2>2. Head(funcs_read[l]) \in LoopFuncT BY <2>1, TailAt
  <2> QED BY <2>2 DEF do_add_handle, NextFunc, LoopFuncT, AddOf
<1>2. /\ SameClosed /\ UNCHANGED <<stage, fd, loop_of, client_map, batch, main_funcs, todo>>
      /\ UNCHANGED <<fun_list, task_list, th>> /\ PoolQueue' = PoolQueue
  BY DEF do_add_handle, SameClosed, PoolQueue, objVars, mapVars, mainVars
<1>3. /\ LoopQueue(l) # <<>> /\ Head(LoopQueue(l)) = AddOf(c)
      /\ LoopQueue(l)' = Tail(LoopQueue(l)) /\ LoopQueue(l) \in Seq(LoopFuncT)
      /\ \A k \in Loops \ {l} : LoopQueue(k)' = LoopQueue(k)
  BY <1>1, FuncDoneQueue, QueueTypes DEF do_add_handle, NextFunc
<1>4. CASE handler_map' = handler_map
  <2>1. SameWorld BY <1>2, <1>4 DEF SameWorld
  <2>2. \A k \in Loops : QueueCalm(k) BY <1>3 DEF QueueCalm
  <2> QED BY <1>2, <2>1, <2>2, CalmSteps DEF Calm
<1>5. CASE /\ handler_map[l][fd[c]] = NoConn
           /\ handler_map' = [handler_map EXCEPT ![l][fd[c]] = c]
  <2>1. InSeq(AddOf(c), LoopQueue(l)) BY <1>3, InTail
  <2>2. Live(c) /\ loop_of[c] = l /\ fd[c] \in Fds /\ c # NoConn
    BY <2>1, CoreAssumption DEF ReuseInv, AddOK, LiveIsMapped, Owning, Live
  <2>3. \A k \in Loops, f \in Fds :
          handler_map'[k][f] = IF k = l /\ f = fd[c] THEN c ELSE handler_map[k][f]
    BY <1>5, <2>2 DEF TypeOK, LoopOK
  <2>4. \A d \in Conns : SameConn(d) /\ LoopsMild(d) /\ CloseMild(d)
    BY <1>2, <1>3 DEF SameConn, SamePlace, SameClosed, LoopsMild, CloseMild, Mild, AtClose
  <2>5. ASSUME NEW d \in Conns, d # c PROVE AddOK(d)' /\ CloseOK(d)'
    <3>1. NotAdded(d)
      BY <2>3, <2>5 DEF NotAdded, ReuseInv, LiveIsMapped, Owning, Live
    <3> QED BY <2>4, <3>1, ConnStays
  <2>6. AddOK(c)'
    <3>1. Ends(LoopQueue(l), AddOf(c), {AddOf(c)}) BY DEF ReuseInv, AddOK
    <3>2. ~InSeq(AddOf(c), LoopQueue(l)')
      BY <1>3, <3>1, EndsTail
    <3>3. ASSUME NEW k \in Loops \ {l} PROVE ~InSeq(AddOf(c), LoopQueue(k)')
      <4>1. LoopQueue(k)' = LoopQueue(k) BY <1>3
      <4>2. InSeq(AddOf(c), LoopQueue(k)) => loop_of[c] = k BY DEF ReuseInv, AddOK
      <4> QED BY <2>2, <4>1, <4>2, Zenon
    <3> QED BY <3>2, <3>3, EndsNone DEF AddOK
  <2>7. CloseOK(c)'
    <3>1. CloseQueued(c)' /\ CloseRuns(c)' /\ ClosePosted(c)'
      BY <2>4, CloseQueuedStays, CloseRunsStays, ClosePostedStays
         DEF ReuseInv, CloseOK, CloseMild
    <3>2. ~InSeq(RemoveOf(c), main_funcs')
      BY <1>2, <2>1 DEF ReuseInv, CloseOK, RemovePosted, NoTrace
    <3> QED BY <3>1, <3>2, EndsNone DEF CloseOK, RemovePosted
  <2>8. TasksLive' BY <1>2, CalmTasks DEF ReuseInv
  <2>9. FdOwned' /\ LiveIsMapped'
    BY <1>2 DEF ReuseInv, FdOwned, LiveIsMapped, Owning, Live
  <2>10. HandlersLive'
    BY <1>2, <2>2, <2>3 DEF ReuseInv, HandlersLive, Live
  <2>11. MainInside' BY <1>2, CalmMain DEF ReuseInv, Calm
  <2>12. ASSUME NEW k \in Loops PROVE LoopInside(k)'
    <3>1. \A d \in Conns : Handled(k, d) => Handled(k, d)'
      BY <1>2, <1>5, <2>3, CoreAssumption DEF Handled
    <3>2. /\ th[k].c \in Conns \cup {NoConn} /\ th'[k] = th[k] /\ batch'[k] = batch[k]
          /\ \A e \in batch[k] : e.c \in Conns
      BY <1>2, Kinds DEF TypeOK, ThreadsOK, ThreadT, LoopOK, EventT
    <3>3. LoopInside(k) BY DEF ReuseInv
    <3>4. th[k].c # NoConn => Handled(k, th[k].c)' BY <3>1, <3>2, <3>3 DEF LoopInside
    <3>5. \A e \in batch[k] : Handled(k, e.c)' BY <3>1, <3>2, <3>3 DEF LoopInside
    <3> QED BY <1>2, <3>2, <3>3, <3>4, <3>5 DEF LoopInside, Handled
  <2> QED BY <2>5, <2>6, <2>7, <2>8, <2>9, <2>10, <2>11, <2>12 DEF ReuseInv
<1> QED BY <1>1, <1>4, <1>5 DEF do_add_handle, AddOf

LEMMA CloseHandleKeeps ==
  ASSUME TypeOK, ReuseInv, NEW l \in Loops, close(l) PROVE ReuseInv'
<1>1. PICK c \in Conns : Head(funcs_read[l]) = CloseOf(c)
  <2>1. funcs_read[l] \in Seq(LoopFuncT) /\ funcs_read[l] # <<>>
    BY DEF TypeOK, LoopOK, close, NextFunc
  <2>2. Head(funcs_read[l]) \in LoopFuncT BY <2>1, TailAt
  <2> QED BY <2>2 DEF close, NextFunc, LoopFuncT, CloseOf
<1>2. /\ SameClosed /\ UNCHANGED <<stage, fd, loop_of, client_map, batch, todo>>
      /\ UNCHANGED <<fun_list, task_list, th>> /\ PoolQueue' = PoolQueue
      /\ main_funcs' = Append(main_funcs, RemoveOf(c))
  BY <1>1 DEF close, SameClosed, PoolQueue, objVars, mapVars, CloseOf, RemoveOf
<1>3. /\ LoopQueue(l) # <<>> /\ Head(LoopQueue(l)) = CloseOf(c)
      /\ LoopQueue(l)' = Tail(LoopQueue(l)) /\ LoopQueue(l) \in Seq(LoopFuncT)
      /\ \A k \in Loops \ {l} : LoopQueue(k)' = LoopQueue(k)
  BY <1>1, FuncDoneQueue, QueueTypes DEF close, NextFunc
<1>4. /\ CloseQueued(c) /\ CloseRuns(c) /\ ClosePosted(c) /\ RemovePosted(c) /\ AddOK(c)
      /\ InSeq(CloseOf(c), LoopQueue(l))
  BY <1>3, InTail DEF ReuseInv, CloseOK
<1>5. /\ Closing(c) /\ Idle(c) /\ loop_of[c] = l /\ fd[c] \in Fds
      /\ \A w \in Workers : ~AtClose(w, c)
  BY <1>4 DEF ClosePosted, Closing, ReuseInv, LiveIsMapped, Owning, Live
<1>6. /\ handler_map' = [handler_map EXCEPT ![l][fd[c]] = NoConn]
      /\ \A k \in Loops, f \in Fds :
           handler_map'[k][f] = IF k = l /\ f = fd[c] THEN NoConn ELSE handler_map[k][f]
  <2>1. handler_map' = [handler_map EXCEPT ![l][fd[c]] = NoConn]
    <3>1. Head(funcs_read[l]).c = c BY <1>1 DEF CloseOf
    <3> QED BY <3>1 DEF close, EraseHandle
  <2> QED BY <2>1, <1>5 DEF TypeOK, LoopOK
<1>7. \A d \in Conns : SameConn(d) /\ LoopsMild(d) /\ NotAdded(d)
  <2>1. \A d \in Conns : SameConn(d) BY <1>2 DEF SameConn, SamePlace, SameClosed
  <2>2. \A d \in Conns : LoopsMild(d)
    <3>1. \A k \in Loops : \/ LoopQueue(k)' = LoopQueue(k)
                           \/ LoopQueue(k) # <<>> /\ LoopQueue(k)' = Tail(LoopQueue(k))
      BY <1>3
    <3> QED BY <3>1 DEF LoopsMild, Mild
  <2>3. ASSUME NEW d \in Conns, Live(d) PROVE NotAdded(d)
    <3>1. fd[d] \in Fds BY <2>3 DEF ReuseInv, LiveIsMapped, Owning, Live
    <3>2. \A k \in Loops : handler_map'[k][fd[d]] \in {NoConn, handler_map[k][fd[d]]}
      BY <1>6, <3>1
    <3> QED BY <3>2, CoreAssumption DEF NotAdded
  <2> QED BY <2>1, <2>2, <2>3 DEF NotAdded
<1>8. ASSUME NEW d \in Conns, d # c PROVE AddOK(d)' /\ CloseOK(d)'
  <2>1. CloseMild(d)
    BY <1>2, <1>8 DEF CloseMild, Mild, AtClose, RemoveOf
  <2> QED BY <1>7, <2>1, ConnStays
<1>9. /\ \A k \in Loops : ~InSeq(AddOf(c), LoopQueue(k)') /\ ~InSeq(CloseOf(c), LoopQueue(k)')
      /\ \A w \in Workers : ~AtClose(w, c)'
      /\ Closing(c)' /\ Idle(c)'
  <2>1. Ends(LoopQueue(l), CloseOf(c), {CloseOf(c), AddOf(c)})
    BY <1>4 DEF ClosePosted
  <2>2. ~InSeq(AddOf(c), LoopQueue(l)') /\ ~InSeq(CloseOf(c), LoopQueue(l)')
    BY <1>3, <2>1, EndsTail
  <2>3. \A k \in Loops \ {l} : ~InSeq(AddOf(c), LoopQueue(k)') /\ ~InSeq(CloseOf(c), LoopQueue(k)')
    BY <1>3, <1>4, <1>5 DEF AddOK, ClosePosted
  <2>4. Closing(c)' /\ Idle(c)'
    BY <1>2, <1>5, <1>7, ClosingStays, IdleStays DEF Mild
  <2>5. \A w \in Workers : ~AtClose(w, c)' BY <1>2, <1>5 DEF AtClose
  <2> QED BY <2>2, <2>3, <2>4, <2>5
<1>10. AddOK(c)' BY <1>9, EndsNone DEF AddOK
<1>11. CloseOK(c)'
  <2>1. CloseQueued(c)' BY <1>2, <1>4, <1>7, CloseQueuedStays DEF Mild
  <2>2. CloseRuns(c)' BY <1>9 DEF CloseRuns
  <2>3. ClosePosted(c)' BY <1>9, EndsNone DEF ClosePosted
  <2>4. ASSUME NEW k \in Loops PROVE handler_map'[k][fd'[c]] # c
    <3>1. CASE k = l BY <1>2, <1>5, <1>6, <3>1, CoreAssumption
    <3>2. CASE k # l
      <4>1. handler_map[k][fd[c]] # c
        BY <1>5, <3>2, HandledLive DEF Handled
      <4> QED BY <1>2, <1>5, <1>6, <3>2, <4>1
    <3> QED BY <3>1, <3>2
  <2>5. \A k \in Loops : NoTrace(c, k)' BY <1>9, <2>4 DEF NoTrace
  <2>6. ~InSeq(RemoveOf(c), main_funcs)
    BY <1>4 DEF RemovePosted, NoTrace
  <2>7. Ends(main_funcs', RemoveOf(c), {RemoveOf(c)})
    BY <1>2, <2>6, QueueTypes, EndsNone, EndsAppend
  <2>8. RemovePosted(c)' BY <1>9, <2>5, <2>7 DEF RemovePosted
  <2> QED BY <2>1, <2>2, <2>3, <2>8 DEF CloseOK
<1>12. TasksLive' BY <1>2, CalmTasks DEF ReuseInv
<1>13. FdOwned' /\ LiveIsMapped'
  BY <1>2 DEF ReuseInv, FdOwned, LiveIsMapped, Owning, Live
<1>14. HandlersLive' BY <1>2, <1>6 DEF ReuseInv, HandlersLive, Live
<1>15. MainInside' BY <1>2, CalmMain DEF ReuseInv, Calm
<1>16. ASSUME NEW k \in Loops PROVE LoopInside(k)'
  <2>1. CASE k = l
    <3>1. th[l].pc = "funcs" BY DEF close, NextFunc
    <3> QED BY <1>2, <2>1, <3>1 DEF ReuseInv, LoopInside
  <2>2. CASE k # l
    BY <1>2, <1>6, <2>2 DEF ReuseInv, LoopInside, Handled
  <2> QED BY <2>1, <2>2
<1> QED BY <1>8, <1>10, <1>11, <1>12, <1>13, <1>14, <1>15, <1>16 DEF ReuseInv

-----------------------------------------------------------------------------
(* A connection is accepted, handed to main_thread_, and destroyed there *)

LEMMA AcceptReuse ==
  ASSUME TypeOK, ReuseInv, NEW c \in Conns, NEW f \in Fds, Accept(c, f) PROVE ReuseInv'
<1>1. /\ UNCHANGED <<loop_of, client_map, handler_map, batch, todo, fun_list, th>>
      /\ UNCHANGED <<flags, funcs_read, funcs_write>> /\ PoolQueue' = PoolQueue
      /\ main_funcs' = Append(main_funcs, AddOf(c))
      /\ stage[c] = "none" /\ \A d \in Conns : Owning(d) => fd[d] # f
  BY DEF Accept, PoolQueue, loopVars, AddOf, Owning
<1>2. /\ stage'[c] = "adding" /\ fd'[c] = f
      /\ \A d \in Conns \ {c} : stage'[d] = stage[d] /\ fd'[d] = fd[d]
  BY DEF Accept, TypeOK, ObjOK
<1>3. ~Live(c) /\ ~Live(c)' /\ ~Owning(c) BY <1>1, <1>2 DEF Live, Owning
<1>4. FdOwned' /\ LiveIsMapped'
  BY <1>1, <1>2, <1>3 DEF ReuseInv, FdOwned, LiveIsMapped, Owning, Live
<1>5. HandlersLive'
  <2> SUFFICES ASSUME NEW l \in Loops, NEW g \in Fds, NEW h \in Conns, handler_map[l][g] = h
               PROVE  stage'[h] = "live" /\ fd'[h] = g /\ loop_of[h] = l
    BY <1>1 DEF HandlersLive, Live, TypeOK, LoopOK
  <2>1. Live(h) /\ fd[h] = g /\ loop_of[h] = l
    BY CoreAssumption DEF ReuseInv, HandlersLive
  <2> QED BY <1>2, <1>3, <2>1 DEF Live
<1>6. MainInside'
  <2>1. \A d \in Conns : Live(d) => Live(d)' BY <1>2, <1>3 DEF Live
  <2>2. todo \subseteq Conns /\ th[Main].c \in Conns \cup {NoConn}
    BY Kinds DEF TypeOK, MainOK, ThreadsOK, ThreadT
  <2>3. th'[Main].c # NoConn => Live(th[Main].c)' BY <1>1, <2>1, <2>2 DEF ReuseInv, MainInside
  <2> QED BY <1>1, <2>1, <2>2, <2>3 DEF ReuseInv, MainInside
<1>7. TasksLive' BY <1>1, <1>2, <1>3 DEF ReuseInv, TasksLive, Idle, Live
<1>8. ASSUME NEW l \in Loops PROVE LoopInside(l)'
  <2>1. \A d \in Conns : Handled(l, d) => Handled(l, d)'
    BY <1>1, <1>2, <1>3, HandledLive DEF Handled
  <2>2. /\ th[l].c \in Conns \cup {NoConn} /\ th'[l] = th[l] /\ batch'[l] = batch[l]
        /\ \A e \in batch[l] : e.c \in Conns
    BY <1>1, Kinds DEF TypeOK, ThreadsOK, ThreadT, LoopOK, EventT
  <2>3. LoopInside(l) BY DEF ReuseInv
  <2>4. th[l].c # NoConn => Handled(l, th[l].c)' BY <2>1, <2>2, <2>3 DEF LoopInside
  <2>5. \A e \in batch[l] : Handled(l, e.c)' BY <2>1, <2>2, <2>3 DEF LoopInside
  <2> QED BY <1>1, <2>2, <2>3, <2>4, <2>5 DEF LoopInside, Handled
<1>9. \A l \in Loops : LoopQueue(l)' = LoopQueue(l) BY <1>1 DEF LoopQueue
<1>10. ASSUME NEW d \in Conns, d # c PROVE AddOK(d)' /\ CloseOK(d)'
  <2>1. SameConn(d) /\ NotAdded(d) /\ LoopsMild(d)
    BY <1>1, <1>2, <1>9, <1>10 DEF SameConn, SamePlace, NotAdded, LoopsMild, Mild
  <2>2. AddOf(c) # RemoveOf(d) BY DEF AddOf, RemoveOf
  <2>3. CloseMild(d) BY <1>1, <2>2 DEF CloseMild, Mild, AtClose
  <2> QED BY <2>1, <2>3, ConnStays
<1>11. AddOK(c)'
  BY <1>3, <1>9, EndsNone DEF ReuseInv, AddOK
<1>12. CloseOK(c)'
  <2>1. NoClose(c) BY <1>3, NotClosing DEF ReuseInv, Closing
  <2>2. AddOf(c) # RemoveOf(c) BY DEF AddOf, RemoveOf
  <2>3. ~InSeq(RemoveOf(c), main_funcs')
    BY <1>1, <2>1, <2>2, QueueTypes, InAppend DEF NoClose
  <2>4. NoClose(c)' BY <1>1, <1>9, <2>1, <2>3 DEF NoClose, AtClose
  <2> QED BY <2>4, CloseVacant
<1> QED BY <1>4, <1>5, <1>6, <1>7, <1>8, <1>10, <1>11, <1>12 DEF ReuseInv

LEMMA MainTail ==
  ASSUME TypeOK, main_funcs # <<>>, main_funcs' = Tail(main_funcs), NEW x, Head(main_funcs) = x
  PROVE  /\ InSeq(x, main_funcs) /\ main_funcs \in Seq(MainFuncT) /\ x \in MainFuncT
         /\ \A y : InSeq(y, main_funcs') => InSeq(y, main_funcs)
BY QueueTypes, InTail, TailAt

LEMMA AddReuse ==
  ASSUME TypeOK, AddedOnce, ReuseInv, NEW c \in Conns, NEW l \in Loops, DoAddClient(c, l)
  PROVE  ReuseInv'
<1>1. /\ UNCHANGED <<fd, handler_map, batch, todo, fun_list, th, flags>>
      /\ PoolQueue' = PoolQueue /\ main_funcs' = Tail(main_funcs) /\ main_funcs # <<>>
      /\ Head(main_funcs) = AddOf(c) /\ th[Main].pc = "idle"
  BY DEF DoAddClient, PoolQueue, AddOf
<1>2. stage[c] = "adding" /\ ~Live(c) /\ Owning(c)
  <2>1. InSeq(AddOf(c), main_funcs) BY <1>1, MainTail
  <2> QED BY <2>1 DEF AddedOnce, InSeq, AddOf, Live, Owning
<1>3. /\ stage'[c] = "live" /\ loop_of'[c] = l /\ client_map'[fd[c]] = c /\ fd[c] \in Fds
      /\ \A d \in Conns \ {c} : stage'[d] = stage[d] /\ loop_of'[d] = loop_of[d]
      /\ \A g \in Fds \ {fd[c]} : client_map'[g] = client_map[g]
  BY <1>2 DEF DoAddClient, TypeOK, ObjOK, MapOK, ReuseInv, LiveIsMapped
<1>4. /\ LoopQueue(l)' = Append(LoopQueue(l), AddOf(c)) /\ LoopQueue(l) \in Seq(LoopFuncT)
      /\ \A k \in Loops \ {l} : LoopQueue(k)' = LoopQueue(k)
  <2>1. funcs_write' = Posted(l, AddOf(c)) /\ funcs_read' = funcs_read
    BY DEF DoAddClient, AddOf
  <2> QED BY <2>1, OfTypes, PostedQueue, QueueTypes
<1>5. FdOwned' BY <1>1, <1>2, <1>3 DEF ReuseInv, FdOwned, Owning
<1>6. LiveIsMapped'
  <2>1. \A d \in Conns \ {c} : Live(d) => fd[d] \in Fds \ {fd[c]}
    BY <1>2 DEF ReuseInv, LiveIsMapped, FdOwned, Owning, Live
  <2> QED BY <1>1, <1>2, <1>3, <2>1 DEF ReuseInv, LiveIsMapped, Owning, Live
<1>7. HandlersLive'
  <2> SUFFICES ASSUME NEW k \in Loops, NEW g \in Fds, NEW h \in Conns, handler_map[k][g] = h
               PROVE  stage'[h] = "live" /\ fd[h] = g /\ loop_of'[h] = k
    BY <1>1 DEF HandlersLive, Live, TypeOK, LoopOK
  <2>1. Live(h) /\ fd[h] = g /\ loop_of[h] = k
    BY CoreAssumption DEF ReuseInv, HandlersLive
  <2> QED BY <1>2, <1>3, <2>1 DEF Live
<1>8. MainInside'
  BY <1>1, <1>2, <1>3, CoreAssumption DEF ReuseInv, MainInside
<1>9. TasksLive' BY <1>1, <1>2, <1>3 DEF ReuseInv, TasksLive, Idle, Live
<1>10. \A k \in Loops : LoopInside(k)'
  BY <1>1 DEF ReuseInv, LoopInside, Handled
<1>11. ASSUME NEW d \in Conns, d # c PROVE AddOK(d)' /\ CloseOK(d)'
  <2>1. AddOf(c) \notin {AddOf(d), CloseOf(d)} BY <1>11 DEF AddOf, CloseOf
  <2>2. SameConn(d) /\ NotAdded(d) /\ LoopsMild(d)
    BY <1>1, <1>3, <1>4, <1>11, <2>1 DEF SameConn, SamePlace, NotAdded, LoopsMild, Mild
  <2>3. CloseMild(d) BY <1>1 DEF CloseMild, Mild, AtClose
  <2> QED BY <2>2, <2>3, ConnStays
<1>12. AddOK(c)'
  <2>1. \A k \in Loops : ~InSeq(AddOf(c), LoopQueue(k))
    BY <1>2 DEF ReuseInv, AddOK
  <2>2. Ends(LoopQueue(l)', AddOf(c), {AddOf(c)})
    BY <1>4, <2>1, EndsNone, EndsAppend
  <2>3. \A k \in Loops \ {l} : ~InSeq(AddOf(c), LoopQueue(k)') BY <1>4, <2>1
  <2>4. handler_map'[l][fd'[c]] # c
    BY <1>1, <1>2, <1>3, HandledLive DEF Handled
  <2> QED BY <1>3, <2>2, <2>3, <2>4, EndsNone DEF AddOK, Live
<1>13. CloseOK(c)'
  <2>1. NoClose(c) BY <1>2, NotClosing DEF ReuseInv, Closing
  <2>2. AddOf(c) # CloseOf(c) BY DEF AddOf, CloseOf
  <2>3. ~InSeq(CloseOf(c), LoopQueue(l)') BY <1>4, <2>1, <2>2, InAppend DEF NoClose
  <2>4. NoClose(c)' BY <1>1, <1>4, <2>1, <2>3, MainTail DEF NoClose, AtClose
  <2> QED BY <2>4, CloseVacant
<1> QED BY <1>5, <1>6, <1>7, <1>8, <1>9, <1>10, <1>11, <1>12, <1>13 DEF ReuseInv

(* By the time main_thread_ destroys a client nothing refers to it: no task,*)
(* no posted function, no handle, no event.                                 *)
LEMMA RemoveReuse == ASSUME TypeOK, ReuseInv, DoRemoveClient PROVE ReuseInv'
<1>1. PICK c \in Conns : Head(main_funcs) = RemoveOf(c)
  <2>1. Head(main_funcs) \in MainFuncT
    BY QueueTypes, TailAt DEF DoRemoveClient
  <2> QED BY <2>1 DEF DoRemoveClient, MainFuncT, RemoveOf
<1>2. /\ UNCHANGED <<fd, loop_of, handler_map, batch, todo, fun_list, th>>
      /\ UNCHANGED <<funcs_read, funcs_write>> /\ PoolQueue' = PoolQueue
      /\ main_funcs' = Tail(main_funcs) /\ main_funcs # <<>> /\ th[Main].pc = "idle"
  BY DEF DoRemoveClient, PoolQueue, loopVars
<1>3. RemovePosted(c) /\ InSeq(RemoveOf(c), main_funcs)
  BY <1>1, <1>2, MainTail DEF ReuseInv, CloseOK
<1>4. /\ Closing(c) /\ Idle(c) /\ \A w \in Workers : ~AtClose(w, c)
      /\ \A l \in Loops : NoTrace(c, l)
  BY <1>3 DEF RemovePosted
<1>5. fd[c] \in Fds /\ client_map[fd[c]] = c /\ c # NoConn
  BY <1>4, CoreAssumption DEF Closing, ReuseInv, LiveIsMapped, Owning, Live
<1>6. /\ stage'[c] = "dead" /\ client_map' = [client_map EXCEPT ![fd[c]] = NoConn]
      /\ \A d \in Conns \ {c} : stage'[d] = stage[d] /\ flags'[d] = flags[d]
      /\ \A g \in Fds \ {fd[c]} : client_map'[g] = client_map[g]
  BY <1>1, <1>5 DEF DoRemoveClient, RemoveOf, TypeOK, ObjOK, MapOK
<1>7. ~Live(c)' /\ ~Owning(c)' BY <1>6 DEF Live, Owning
<1>8. FdOwned' BY <1>2, <1>6, <1>7 DEF ReuseInv, FdOwned, Owning
<1>9. LiveIsMapped'
  <2>1. \A d \in Conns \ {c} : Live(d) => fd[d] \in Fds \ {fd[c]}
    BY <1>4 DEF ReuseInv, LiveIsMapped, FdOwned, Owning, Live, Closing
  <2> QED BY <1>2, <1>6, <1>7, <2>1 DEF ReuseInv, LiveIsMapped, Owning, Live
<1>10. HandlersLive'
  <2> SUFFICES ASSUME NEW k \in Loops, NEW g \in Fds, NEW h \in Conns, handler_map[k][g] = h
               PROVE  stage'[h] = "live" /\ fd[h] = g /\ loop_of[h] = k
    BY <1>2 DEF HandlersLive, Live, TypeOK, LoopOK
  <2>1. Live(h) /\ fd[h] = g /\ loop_of[h] = k
    BY CoreAssumption DEF ReuseInv, HandlersLive
  <2>2. h # c BY <1>4, <2>1 DEF NoTrace
  <2> QED BY <1>6, <2>1, <2>2 DEF Live
<1>11. MainInside' BY <1>2 DEF ReuseInv, MainInside
<1>12. TasksLive' BY <1>2, <1>4, <1>6 DEF ReuseInv, TasksLive, Idle, Live
<1>13. \A k \in Loops : LoopInside(k)'
  BY <1>2 DEF ReuseInv, LoopInside, Handled
<1>14. \A l \in Loops : LoopQueue(l)' = LoopQueue(l) BY <1>2 DEF LoopQueue
<1>15. ASSUME NEW d \in Conns, d # c PROVE AddOK(d)' /\ CloseOK(d)'
  <2>1. SameConn(d) /\ NotAdded(d) /\ LoopsMild(d)
    BY <1>2, <1>6, <1>14, <1>15 DEF SameConn, SamePlace, NotAdded, LoopsMild, Mild
  <2>2. CloseMild(d) BY <1>2 DEF CloseMild, Mild, AtClose
  <2> QED BY <2>1, <2>2, ConnStays
<1>16. AddOK(c)'
  BY <1>4, <1>14, EndsNone DEF AddOK, NoTrace
<1>17. CloseOK(c)'
  <2>1. ~InSeq(RemoveOf(c), main_funcs')
    <3>1. Ends(main_funcs, RemoveOf(c), {RemoveOf(c)}) BY <1>3 DEF RemovePosted
    <3> QED BY <1>1, <1>2, <3>1, QueueTypes, EndsTail
  <2>2. ~InSeq(CloseOf(c), PoolQueue) BY <1>4, OfTypes DEF Idle
  <2>3. NoClose(c)' BY <1>2, <1>4, <1>14, <2>1, <2>2 DEF NoClose, AtClose, NoTrace
  <2> QED BY <2>3, CloseVacant
<1> QED BY <1>8, <1>9, <1>10, <1>11, <1>12, <1>13, <1>15, <1>16, <1>17 DEF ReuseInv

-----------------------------------------------------------------------------
LEMMA InitReuse == ASSUME Init PROVE ReuseInv
<1>1. /\ PoolQueue = <<>> /\ main_funcs = <<>> /\ \A l \in Loops : LoopQueue(l) = <<>>
  <2>1. <<>> \o <<>> = <<>> BY JoinEmpty, EmptySeq
  <2> QED BY <2>1 DEF Init, PoolQueue, LoopQueue
<1>2. \A x : ~InSeq(x, <<>>) BY EmptySeq DEF InSeq
<1>3. \A s \in Threads : th[s].c = NoConn /\ th[s].pc = HomePc(s)
  BY DEF Init, Home
<1>4. FdOwned /\ LiveIsMapped /\ HandlersLive
  BY DEF Init, FdOwned, LiveIsMapped, HandlersLive, Owning, Live
<1>5. MainInside BY <1>3, Kinds DEF Init, MainInside, HomePc
<1>6. TasksLive BY <1>1, <1>2 DEF TasksLive, Idle
<1>7. \A l \in Loops : LoopInside(l)
  BY <1>3, Kinds DEF Init, LoopInside, HomePc
<1>8. ASSUME NEW c \in Conns PROVE AddOK(c) /\ CloseOK(c)
  <2>1. AddOK(c) BY <1>1, <1>2, EndsNone DEF AddOK
  <2>2. CloseQueued(c) BY <1>1, <1>2, EndsNone DEF CloseQueued
  <2>3. CloseRuns(c) BY <1>3, Kinds, CoreAssumption DEF CloseRuns, AtClose
  <2>4. ClosePosted(c) BY <1>1, <1>2, EndsNone DEF ClosePosted
  <2>5. RemovePosted(c) BY <1>1, <1>2, EndsNone DEF RemovePosted
  <2> QED BY <2>1, <2>2, <2>3, <2>4, <2>5 DEF CloseOK
<1> QED BY <1>4, <1>5, <1>6, <1>7, <1>8 DEF ReuseInv

LEMMA NextReuse == ASSUME TypeOK, WriteInv, ReuseInv, [Next]_vars PROVE ReuseInv'
<1>w. AddedOnce /\ MapNamesLive BY DEF WriteInv
<1>1. CASE UNCHANGED vars
  <2>1. Still
    BY <1>1 DEF Still, SameWorld, SameClosed, vars, objVars, mapVars, mainVars, loopVars
  <2>2. \A s \in Threads : Calm(s) BY <1>1 DEF Calm, vars
  <2> QED BY <2>1, <2>2, CalmStill
<1>2. ASSUME NEW c \in Conns, NEW f \in Fds, Accept(c, f) PROVE ReuseInv'
  BY <1>2, AcceptReuse
<1>3. CASE PeerStep BY <1>3, PeerCalm DEF PeerStep
<1>4. CASE PostedStep BY <1>4, <1>w, AddReuse, RemoveReuse DEF PostedStep
<1>5. CASE TickStep
  BY <1>5, <1>w, TickStartKeeps, TickEndKeeps, TickClientKeeps, ScanCalm, MarkKeeps
     DEF TickStep
<1>6. ASSUME NEW w \in Workers, WorkerStep(w) \/ CallbackCloses(w) PROVE ReuseInv'
  BY <1>6, RequireKeeps, ReqCloseKeeps, WorkerCalm, WriterCalm DEF WorkerStep, WriteStep, Writers
<1>7. ASSUME NEW l \in Loops, LoopStep(l) PROVE ReuseInv'
  BY <1>7, AddHandleKeeps, CloseHandleKeeps, PollKeeps, DispatchKeeps, LoopCalm, WriterCalm
     DEF LoopStep, WriteStep, Writers
<1>8. ASSUME NEW u \in Users, UserStep(u) PROVE ReuseInv'
  BY <1>8, UserCalm DEF UserStep, CallStep
<1> QED BY <1>1, <1>2, <1>3, <1>4, <1>5, <1>6, <1>7, <1>8 DEF Next

(* ReuseInv holds for any number of connections, descriptors, loops,        *)
(* workers and users, however they interleave.                              *)
THEOREM ReuseCorrect == Spec => []ReuseInv
<1> QED BY TypeCorrect, WriteCorrect, InitReuse, NextReuse, PTL DEF Spec

(* An event that epoll_wait has returned is for a client that still exists, *)
(* with the handle that handler_map_ holds (the assert at                   *)
(* ClientEntity.cpp:107), and no loop is inside a destroyed client.         *)
THEOREM EventsInTime == Spec => []EventsReachLiveClients
<1>1. TypeOK /\ ReuseInv => EventsReachLiveClients
  <2> SUFFICES ASSUME TypeOK, ReuseInv, NEW l \in Loops
               PROVE  /\ \A e \in batch[l] : Live(e.c) /\ handler_map[l][fd[e.c]] = e.c
                      /\ th[l].c # NoConn => Live(th[l].c)
    BY DEF EventsReachLiveClients
  <2>1. LoopInside(l) BY DEF ReuseInv
  <2>2. th[l].c \in Conns \cup {NoConn} BY Kinds DEF TypeOK, ThreadsOK, ThreadT
  <2>3. \A e \in batch[l] : e.c \in Conns BY DEF TypeOK, LoopOK, EventT
  <2> QED BY <2>1, <2>2, <2>3, HandledLive DEF LoopInside, Handled
<1> QED BY <1>1, TypeCorrect, ReuseCorrect, PTL

(* A client is the only one of its descriptor in any handler_map_.          *)
LEMMA HandlerIsOwner ==
  ASSUME TypeOK, ReuseInv, NEW c \in Conns, Live(c), NEW l \in Loops,
         handler_map[l][fd[c]] # NoConn
  PROVE  handler_map[l][fd[c]] = c
<1>1. fd[c] \in Fds BY DEF ReuseInv, LiveIsMapped, Owning, Live
<1>2. handler_map[l][fd[c]] \in Conns BY <1>1 DEF TypeOK, LoopOK
<1>3. Live(handler_map[l][fd[c]]) /\ fd[handler_map[l][fd[c]]] = fd[c]
  BY <1>1 DEF ReuseInv, HandlersLive
<1> QED BY <1>2, <1>3 DEF ReuseInv, FdOwned, Owning, Live

(* When main_thread_ gets to do_remove_client, the descriptor still names   *)
(* the client that was closed, no handle of it is left, and it is removed   *)
(* once.                                                                    *)
THEOREM RemoveIsRight == Spec => []RemoveFindsOwner
<1>1. TypeOK /\ ReuseInv => RemoveFindsOwner
  <2> SUFFICES ASSUME TypeOK, ReuseInv, NEW i \in 1 .. Len(main_funcs), NEW c \in Conns,
                      main_funcs[i] = RemoveOf(c)
               PROVE  /\ client_map[fd[c]] = c /\ Live(c) /\ flags[c].closed
                      /\ \A l \in Loops : handler_map[l][fd[c]] = NoConn
                      /\ \A j \in 1 .. Len(main_funcs) : j # i => main_funcs[j] # RemoveOf(c)
    <3>1. \A r \in MainFuncT : r.c \in Conns /\ (r.op = "remove" => r = RemoveOf(r.c))
      BY DEF MainFuncT, RemoveOf
    <3>2. TypeOK => \A j \in 1 .. Len(main_funcs) : main_funcs[j] \in MainFuncT
      BY DEF TypeOK, MainOK
    <3> QED BY <3>1, <3>2 DEF RemoveFindsOwner
  <2>1. RemovePosted(c) /\ InSeq(RemoveOf(c), main_funcs)
    BY DEF ReuseInv, CloseOK, InSeq
  <2>2. Closing(c) /\ \A l \in Loops : handler_map[l][fd[c]] # c
    BY <2>1 DEF RemovePosted, NoTrace
  <2>3. client_map[fd[c]] = c /\ Live(c) /\ flags[c].closed
    BY <2>2 DEF Closing, ReuseInv, LiveIsMapped
  <2>4. \A l \in Loops : handler_map[l][fd[c]] = NoConn
    BY <2>2, <2>3, HandlerIsOwner
  <2>5. ASSUME NEW j \in 1 .. Len(main_funcs), main_funcs[j] = RemoveOf(c) PROVE j = i
    <3>1. Ends(main_funcs, RemoveOf(c), {RemoveOf(c)}) BY <2>1 DEF RemovePosted
    <3>2. i <= j /\ j <= i BY <2>5, <3>1 DEF Ends
    <3> QED BY <3>2
  <2> QED BY <2>3, <2>4, <2>5
<1> QED BY <1>1, TypeCorrect, ReuseCorrect, PTL

(* The "REPEAT" branch of do_add_handle is never taken.                     *)
THEOREM AddIsFirst == Spec => []AddFindsNoOwner
<1>1. TypeOK /\ ReuseInv => AddFindsNoOwner
  <2> SUFFICES ASSUME TypeOK, ReuseInv, NEW l \in Loops, NEW c \in Conns,
                      InSeq(AddOf(c), LoopQueue(l))
               PROVE  Live(c) /\ \A k \in Loops : handler_map[k][fd[c]] = NoConn
    BY DEF AddFindsNoOwner, AddOf, LoopQueue
  <2>1. Live(c) /\ loop_of[c] = l /\ handler_map[l][fd[c]] # c
    BY DEF ReuseInv, AddOK
  <2>2. fd[c] \in Fds BY <2>1 DEF ReuseInv, LiveIsMapped, Owning, Live
  <2>3. ASSUME NEW k \in Loops, handler_map[k][fd[c]] # NoConn PROVE FALSE
    <3>1. handler_map[k][fd[c]] = c BY <2>1, <2>3, HandlerIsOwner
    <3> QED BY <2>1, <2>2, <3>1, HandledLive DEF Handled
  <2> QED BY <2>1, <2>3
<1> QED BY <1>1, TypeCorrect, ReuseCorrect, PTL

(* No task in the pool, or on its way there, is of a destroyed client.      *)
THEOREM TasksInTime == Spec => []QueuedTasksAreLive
<1>1. TypeOK /\ ReuseInv => QueuedTasksAreLive
  <2> SUFFICES ASSUME TypeOK, ReuseInv PROVE QueuedTasksAreLive
    OBVIOUS
  <2>1. task_list \in Seq(TaskT) /\ fun_list \in Seq(TaskT) BY DEF TypeOK, MainOK
  <2>2. ASSUME NEW y \in TaskT, InSeq(y, task_list) \/ InSeq(y, fun_list) PROVE Live(y.c)
    <3>1. InSeq(y, PoolQueue) BY <2>1, <2>2, InJoin DEF PoolQueue
    <3>2. y.c \in Conns /\ y \in TasksOf(y.c) BY DEF TaskT, TasksOf
    <3> QED BY <3>1, <3>2 DEF ReuseInv, TasksLive, Idle
  <2>3. /\ \A i \in 1 .. Len(task_list) : Live(task_list[i].c)
        /\ \A i \in 1 .. Len(fun_list) : Live(fun_list[i].c)
    BY <2>1, <2>2 DEF InSeq
  <2> QED BY <2>3 DEF QueuedTasksAreLive, ReuseInv, MainInside
<1> QED BY <1>1, TypeCorrect, ReuseCorrect, PTL

-----------------------------------------------------------------------------
(* Packets and the connections they were meant for *)

(* A key in connect_map_ is the key of a connection that was accepted, with *)
(* the descriptor it got then.                                              *)
KeysOK ==
  \A k \in Conns : connect_map[k] # 0 => connect_map[k] = fd[k] /\ stage[k] # "none"

(* What a thread inside push_send_pack holds: the descriptor of the key it  *)
(* was given, then the client it has found there, which is the one the key  *)
(* was given to unless that one is dead.                                    *)
UserOK(u) ==
  /\ th[u].pc \in {"push_fd", "push_client", "push_pack"} => Len(th[u].iov) = 1
  /\ th[u].pc = "push_fd" =>
       fd[th[u].iov[1].key] = th[u].n /\ stage[th[u].iov[1].key] # "none"
  /\ th[u].pc \in {"push_client", "push_pack"} =>
       /\ th[u].c \in Conns /\ stage[th[u].c] \in {"live", "dead"}
       /\ th[u].iov[1].key # th[u].c =>
            stage[th[u].iov[1].key] = "dead" /\ fd[th[u].iov[1].key] = fd[th[u].c]

AddressInv == KeysOK /\ (\A u \in Users : UserOK(u)) /\ MisdeliveredAfterDeath

LEMMA PacketAt ==
  ASSUME NEW q \in Seq(Packets), NEW i \in 1 .. Len(q)
  PROVE  q[i] \in Packets /\ q[i].key \in Conns
<1>1. q[i] \in Packets BY ElementOfSeq
<1> QED BY <1>1 DEF Packets

LEMMA UserKey ==
  ASSUME TypeOK, NEW u \in Users, Len(th[u].iov) = 1
  PROVE  th[u].iov \in Seq(Packets) /\ th[u].iov[1].key \in Conns
<1>1. th[u].iov \in Seq(Packets) BY Kinds DEF TypeOK, ThreadsOK, ThreadT
<1>2. 1 \in 1 .. Len(th[u].iov) OBVIOUS
<1> QED BY <1>1, <1>2, PacketAt

LEMMA AcceptedKey ==
  ASSUME TypeOK
  PROVE  \A c \in Conns : /\ hist[c].accepted \in Seq(Packets)
                          /\ \A i \in 1 .. Len(hist[c].accepted) :
                               hist[c].accepted[i].key \in Conns
<1>1. \A c \in Conns : hist[c].accepted \in Seq(Packets) BY DEF TypeOK, HistT
<1> QED BY <1>1, PacketAt

(* A user thread goes on, with another client or with another packet.       *)
LEMMA UserTurns ==
  ASSUME th \in [Threads -> ThreadT], NEW u \in Users, NEW p, NEW d, NEW n,
         th' = [th EXCEPT ![u].pc = p, ![u].c = d, ![u].n = n]
  PROVE  /\ th'[u].pc = p /\ th'[u].c = d /\ th'[u].iov = th[u].iov
         /\ \A v \in Users \ {u} : th'[v] = th[v]
<1>1. th'[u] = [th[u] EXCEPT !.pc = p, !.c = d, !.n = n] BY Kinds
<1>2. th[u] \in ThreadT BY Kinds
<1>3. th'[u].pc = p /\ th'[u].c = d /\ th'[u].iov = th[u].iov BY <1>1, <1>2 DEF ThreadT
<1>4. \A v \in Users \ {u} : th'[v] = th[v] BY Kinds
<1> QED BY <1>3, <1>4

LEMMA UserTakes ==
  ASSUME th \in [Threads -> ThreadT], NEW u \in Users, NEW p, NEW n, NEW q,
         th' = [th EXCEPT ![u].pc = p, ![u].n = n, ![u].iov = q]
  PROVE  /\ th'[u].pc = p /\ th'[u].n = n /\ th'[u].iov = q
         /\ \A v \in Users \ {u} : th'[v] = th[v]
<1>1. th'[u] = [th[u] EXCEPT !.pc = p, !.n = n, !.iov = q] BY Kinds
<1>2. th[u] \in ThreadT BY Kinds
<1>3. th'[u].pc = p /\ th'[u].n = n /\ th'[u].iov = q BY <1>1, <1>2 DEF ThreadT
<1>4. \A v \in Users \ {u} : th'[v] = th[v] BY Kinds
<1> QED BY <1>3, <1>4

(* What the invariant is about stays as it is ...                           *)
Addressed ==
  /\ UNCHANGED <<stage, fd, connect_map>>
  /\ \A c \in Conns : hist'[c].accepted = hist[c].accepted
  /\ \A u \in Users : th'[u] = th[u]

(* ... or a connection goes on, and a user thread leaves push_send_pack.    *)
LEMMA AddressStays ==
  ASSUME TypeOK, AddressInv,
         \A c \in Conns : \/ stage'[c] = stage[c]
                          \/ stage[c] = "adding" /\ stage'[c] = "live"
                          \/ stage[c] = "live" /\ stage'[c] = "dead",
         \A k \in Conns : connect_map'[k] = connect_map[k] \/ connect_map'[k] = 0,
         \A c \in Conns : hist'[c].accepted = hist[c].accepted,
         \A c \in Conns : fd'[c] = fd[c],
         \A u \in Users : \/ th'[u] = th[u]
                          \/ th'[u].pc \notin {"push_fd", "push_client", "push_pack"}
  PROVE  AddressInv'
<1>1. KeysOK' BY DEF AddressInv, KeysOK
<1>2. ASSUME NEW u \in Users PROVE UserOK(u)'
  <2>1. CASE th'[u].pc \notin {"push_fd", "push_client", "push_pack"} BY <2>1 DEF UserOK
  <2>2. CASE th'[u] = th[u] /\ th[u].pc \in {"push_fd", "push_client", "push_pack"}
    <3>1. UserOK(u) /\ Len(th[u].iov) = 1 BY <2>2 DEF AddressInv, UserOK
    <3>2. th[u].iov[1].key \in Conns BY <3>1, UserKey
    <3> QED BY <2>2, <3>1, <3>2 DEF UserOK
  <2> QED BY <2>1, <2>2
<1>3. MisdeliveredAfterDeath'
  <2> QED BY AcceptedKey DEF AddressInv, MisdeliveredAfterDeath
<1> QED BY <1>1, <1>2, <1>3 DEF AddressInv

LEMMA AddressedStays == ASSUME TypeOK, AddressInv, Addressed PROVE AddressInv'
BY AddressStays DEF Addressed

(* The kernel, the scan, the workers and the loops address nobody. *)
LEMMA PeerAddress ==
  ASSUME TypeOK, PeerStep
  PROVE  Addressed
<1>th. th \in [Threads -> ThreadT] BY DEF TypeOK, ThreadsOK
<1>hist. hist \in [Conns -> HistT] BY DEF TypeOK
<1>1. ASSUME NEW c \in Conns, PeerSend(c) PROVE Addressed
  BY <1>1, <1>th, Kinds DEF PeerSend, Addressed, objVars, mapVars
<1>2. ASSUME NEW c \in Conns, PeerDrain(c) PROVE Addressed
  BY <1>2, <1>th, Kinds DEF PeerDrain, Addressed, objVars, mapVars
<1>3. ASSUME NEW c \in Conns, NEW how \in PeerMayEnd, PeerEnd(c, how) PROVE Addressed
  BY <1>3, <1>th, Kinds DEF PeerEnd, Addressed, objVars, mapVars
<1> QED BY <1>1, <1>2, <1>3 DEF PeerStep

LEMMA TickAddress ==
  ASSUME TypeOK, TickStep
  PROVE  Addressed
<1>th. th \in [Threads -> ThreadT] BY DEF TypeOK, ThreadsOK
<1>hist. hist \in [Conns -> HistT] BY DEF TypeOK
<1>1. CASE TickStart
  BY <1>1, <1>th, Kinds DEF TickStart, Goto, Addressed, objVars, mapVars
<1>2. CASE TickEnd
  BY <1>2, <1>th, Kinds DEF TickEnd, Return, Addressed, objVars, mapVars
<1>3. ASSUME NEW c \in Conns, TickClient(c) PROVE Addressed
  BY <1>3, <1>th, Kinds DEF TickClient, Addressed, objVars, mapVars
<1>4. CASE TickRead
  BY <1>4, <1>th, Kinds DEF TickRead, Goto, Addressed, objVars, mapVars
<1>5. CASE handle_update
  BY <1>5, <1>th, Kinds DEF handle_update, Goto, Addressed, objVars, mapVars
<1>6. CASE TickWrite
  BY <1>6, <1>th, Kinds DEF TickWrite, Addressed, objVars, mapVars
<1>7. CASE handle_write_update
  BY <1>7, <1>th, Kinds DEF handle_write_update, Addressed, objVars, mapVars
<1> QED BY <1>1, <1>2, <1>3, <1>4, <1>5, <1>6, <1>7 DEF TickStep

LEMMA WriteAddress ==
  ASSUME TypeOK, NEW t \in Writers, WriteStep(t)
  PROVE  Addressed
<1>th. th \in [Threads -> ThreadT] BY DEF TypeOK, ThreadsOK
<1>hist. hist \in [Conns -> HistT] BY DEF TypeOK
<1>1. CASE WriteBusy(t)
  BY <1>1, <1>th, Kinds DEF WriteBusy, At, WriteUnlock, Return, Goto, Writers,
     Threads, Addressed, objVars, mapVars
<1>2. CASE WriteLock(t)
  BY <1>2, <1>th, Kinds DEF WriteLock, At, WriteUnlock, Return, Goto, Writers,
     Threads, Addressed, objVars, mapVars
<1>3. CASE WriteNothing(t)
  BY <1>3, <1>th, Kinds DEF WriteNothing, At, WriteUnlock, Return, Goto,
     Writers, Threads, Addressed, objVars, mapVars
<1>4. CASE WriteGather(t)
  BY <1>4, <1>th, Kinds DEF WriteGather, At, WriteUnlock, Return, Goto,
     Writers, Threads, Addressed, objVars, mapVars
<1>5. CASE WriteError(t)
  BY <1>5, <1>th, Kinds DEF WriteError, At, WriteUnlock, Return, Goto,
     Writers, Threads, Addressed, objVars, mapVars
<1>6. CASE WriteFail(t)
  BY <1>6, <1>th, Kinds DEF WriteFail, At, WriteUnlock, Return, Goto, Writers,
     Threads, Addressed, objVars, mapVars
<1>7. CASE WriteAgain(t)
  BY <1>7, <1>th, Kinds DEF WriteAgain, At, WriteUnlock, Return, Goto,
     Writers, Threads, Addressed, objVars, mapVars
<1>8. CASE WriteSome(t)
  BY <1>8, <1>th, <1>hist, Kinds DEF WriteSome, At, WriteUnlock, Return, Goto,
     Writers, Threads, Addressed, objVars, mapVars, HistT
<1>9. CASE WatchWriteLoad(t)
  BY <1>9, <1>th, Kinds DEF WatchWriteLoad, At, WriteUnlock, Return, Goto,
     Writers, Threads, Addressed, objVars, mapVars
<1>10. CASE WatchWriteOn(t)
  BY <1>10, <1>th, Kinds DEF WatchWriteOn, At, WriteUnlock, Return, Goto,
     Writers, Threads, Addressed, objVars, mapVars
<1>11. CASE WritePop(t)
  BY <1>11, <1>th, Kinds DEF WritePop, At, WriteUnlock, Return, Goto, Writers,
     Threads, Addressed, objVars, mapVars
<1> QED BY <1>1, <1>2, <1>3, <1>4, <1>5, <1>6, <1>7, <1>8, <1>9, <1>10, <1>11
   DEF WriteStep

LEMMA WorkerAddress ==
  ASSUME TypeOK, NEW w \in Workers, WorkerStep(w)
  PROVE  Addressed
<1>th. th \in [Threads -> ThreadT] BY DEF TypeOK, ThreadsOK
<1>hist. hist \in [Conns -> HistT] BY DEF TypeOK
<1>1. CASE RequireTask(w)
  BY <1>1, <1>th, Kinds DEF RequireTask, Addressed, objVars, mapVars
<1>2. CASE req_close(w)
  BY <1>2, <1>th, Kinds DEF req_close, Return, Addressed, objVars, mapVars
<1>3. CASE timeout_send(w)
  BY <1>3, <1>th, Kinds DEF timeout_send, Return, Goto, Addressed, objVars,
     mapVars
<1>4. CASE handle_unpack(w)
  BY <1>4, <1>th, Kinds DEF handle_unpack, Return, Goto, Addressed, objVars,
     mapVars
<1>5. CASE UnpackNothing(w)
  BY <1>5, <1>th, Kinds DEF UnpackNothing, Return, Addressed, objVars, mapVars
<1>6. CASE UnpackSplice(w)
  BY <1>6, <1>th, Kinds DEF UnpackSplice, Goto, Addressed, objVars, mapVars
<1>7. CASE UnpackPartial(w)
  BY <1>7, <1>th, <1>hist, Kinds DEF UnpackPartial, Return, Addressed,
     objVars, mapVars, HistT
<1>8. ASSUME NEW i \in 1 .. Len(Script), UnpackFrame(w, i) PROVE Addressed
  BY <1>8, <1>th, <1>hist, Kinds DEF UnpackFrame, Goto, Addressed, objVars,
     mapVars, HistT
<1>9. CASE CallbackStart(w)
  BY <1>9, <1>th, <1>hist, Kinds DEF CallbackStart, Goto, Addressed, objVars,
     mapVars, HistT
<1>10. CASE CallbackEnd(w)
  BY <1>10, <1>th, Kinds DEF CallbackEnd, Return, Addressed, objVars, mapVars
<1>11. CASE UnpackBad(w)
  <2>1. UNCHANGED <<stage, fd, connect_map>> /\ \A u \in Users : th'[u] = th[u]
    BY <1>11, <1>th, Kinds DEF UnpackBad, Goto, objVars, mapVars
  <2>2. PICK p : hist' = [hist EXCEPT ![th[w].c].parsed = p, ![th[w].c].cleared = TRUE]
    <3>1. CASE CurIsBad(th[w].c) /\ hist' = [hist EXCEPT ![th[w].c].cleared = TRUE]
      <4>1. hist' = [hist EXCEPT ![th[w].c].parsed = hist[th[w].c].parsed,
                                 ![th[w].c].cleared = TRUE]
        BY <3>1, <1>hist DEF HistT
      <4> QED BY <4>1
    <3> QED BY <1>11, <3>1 DEF UnpackBad
  <2>3. \A c \in Conns : hist'[c].accepted = hist[c].accepted BY <2>2, <1>hist DEF HistT
  <2> QED BY <2>1, <2>3 DEF Addressed
<1>12. CASE UnpackBadClose(w)
  BY <1>12, <1>th, Kinds DEF UnpackBadClose, Return, Addressed, objVars,
     mapVars
<1> QED BY <1>1, <1>2, <1>3, <1>4, <1>5, <1>6, <1>7, <1>8, <1>9, <1>10, <1>11,
   <1>12, WriteAddress DEF WorkerStep, Writers

LEMMA LoopAddress ==
  ASSUME TypeOK, NEW l \in Loops, LoopStep(l)
  PROVE  Addressed
<1>th. th \in [Threads -> ThreadT] BY DEF TypeOK, ThreadsOK
<1>hist. hist \in [Conns -> HistT] BY DEF TypeOK
<1>1. CASE LoopSplice(l)
  BY <1>1, <1>th, Kinds DEF LoopSplice, Goto, Addressed, objVars, mapVars
<1>2. CASE do_add_handle(l)
  BY <1>2, <1>th, Kinds DEF do_add_handle, Addressed, objVars, mapVars
<1>3. CASE AddHandleFails(l)
  BY <1>3, <1>th, Kinds DEF AddHandleFails, Addressed, objVars, mapVars
<1>4. CASE do_update_handle(l)
  BY <1>4, <1>th, Kinds DEF do_update_handle, Addressed, objVars, mapVars
<1>5. CASE close(l)
  BY <1>5, <1>th, Kinds DEF close, Addressed, objVars, mapVars
<1>6. CASE loop_io(l)
  BY <1>6, <1>th, Kinds DEF loop_io, Goto, Addressed, objVars, mapVars
<1>7. ASSUME NEW e \in batch[l], handle_event(l, e) PROVE Addressed
  BY <1>7, <1>th, Kinds DEF handle_event, Addressed, objVars, mapVars
<1>8. CASE read_data(l)
  BY <1>8, <1>th, Kinds DEF read_data, Addressed, objVars, mapVars
<1>9. CASE ReadEnded(l)
  BY <1>9, <1>th, Kinds DEF ReadEnded, Goto, Addressed, objVars, mapVars
<1>10. CASE PushRecv(l)
  BY <1>10, <1>th, Kinds DEF PushRecv, Addressed, objVars, mapVars
<1>11. CASE WatchReadLoad(l)
  BY <1>11, <1>th, Kinds DEF WatchReadLoad, Addressed, objVars, mapVars
<1>12. CASE WatchReadOff(l)
  BY <1>12, <1>th, Kinds DEF WatchReadOff, Return, Addressed, objVars, mapVars
<1>13. CASE WatchWriteOff(l)
  BY <1>13, <1>th, Kinds DEF WatchWriteOff, Addressed, objVars, mapVars
<1> QED BY <1>1, <1>2, <1>3, <1>4, <1>5, <1>6, <1>7, <1>8, <1>9, <1>10, <1>11,
   <1>12, <1>13, WriteAddress DEF LoopStep, Writers

LEMMA PostedAddress ==
  ASSUME TypeOK, WriteInv, ReuseInv, AddressInv, PostedStep PROVE AddressInv'
<1>1. ASSUME NEW c \in Conns, NEW l \in Loops, DoAddClient(c, l) PROVE AddressInv'
  <2>1. InSeq(AddOf(c), main_funcs)
    BY <1>1, QueueTypes, InTail DEF DoAddClient, AddOf
  <2>2. stage[c] = "adding" BY <2>1 DEF WriteInv, AddedOnce, InSeq, AddOf
  <2> QED BY <1>1, <2>2, AddressStays DEF DoAddClient, TypeOK, ObjOK
<1>2. CASE DoRemoveClient
  <2>1. \A f \in Fds : client_map[f] # NoConn => client_map[f] \in Conns /\ Live(client_map[f])
    BY DEF WriteInv, MapNamesLive, TypeOK, MapOK
  <2>3. PICK f \in Fds \cup {0} : \/ stage' = stage
                                \/ /\ f \in Fds /\ client_map[f] # NoConn
                                   /\ stage' = [stage EXCEPT ![client_map[f]] = "dead"]
    BY <1>2, CoreAssumption DEF DoRemoveClient, TypeOK, MainOK
  <2>4. \A d \in Conns : stage'[d] = stage[d] \/ (stage[d] = "live" /\ stage'[d] = "dead")
    <3>1. stage \in [Conns -> {"none", "adding", "live", "dead"}] BY DEF TypeOK, ObjOK
    <3>2. CASE stage' = stage BY <3>2
    <3>3. ASSUME f \in Fds, NEW h \in Conns, stage[h] = "live",
                 stage' = [stage EXCEPT ![h] = "dead"], NEW d \in Conns
          PROVE  stage'[d] = stage[d] \/ (stage[d] = "live" /\ stage'[d] = "dead")
      BY <3>1, <3>3
    <3> QED BY <2>1, <2>3, <3>2, <3>3 DEF Live
  <2>2. UNCHANGED <<fd, connect_map, hist, th>> BY <1>2 DEF DoRemoveClient
  <2> QED BY <2>2, <2>4, AddressStays
<1> QED BY <1>1, <1>2 DEF PostedStep

LEMMA AcceptAddress ==
  ASSUME TypeOK, WriteInv, AddressInv, NEW c \in Conns, NEW f \in Fds, Accept(c, f)
  PROVE  AddressInv'
<1>1. /\ UNCHANGED <<hist, th>> /\ stage[c] = "none" /\ stage'[c] = "adding" /\ fd'[c] = f
      /\ connect_map'[c] = f
      /\ \A d \in Conns \ {c} : /\ stage'[d] = stage[d] /\ fd'[d] = fd[d]
                                /\ connect_map'[d] = connect_map[d]
  BY DEF Accept, insert_fd, TypeOK, ObjOK, MapOK
<1>2. KeysOK' BY <1>1 DEF AddressInv, KeysOK
<1>3. ASSUME NEW u \in Users PROVE UserOK(u)'
  <2>1. CASE th[u].pc \notin {"push_fd", "push_client", "push_pack"} BY <1>1, <2>1 DEF UserOK
  <2>2. CASE th[u].pc \in {"push_fd", "push_client", "push_pack"}
    <3>1. UserOK(u) /\ Len(th[u].iov) = 1 BY <2>2 DEF AddressInv, UserOK
    <3>2. th[u].iov[1].key \in Conns BY <3>1, UserKey
    <3> QED BY <1>1, <2>2, <3>1, <3>2 DEF UserOK
  <2> QED BY <2>1, <2>2
<1>4. MisdeliveredAfterDeath'
  <2>1. \A d \in Conns : \A i \in 1 .. Len(hist[d].accepted) :
          hist[d].accepted[i].key \in Conns
    BY AcceptedKey
  <2>2. Len(hist[c].accepted) = 0 BY <1>1, EmptySeq DEF WriteInv, Untouched
  <2>3. ASSUME NEW d \in Conns, NEW i \in 1 .. Len(hist[d].accepted),
               hist[d].accepted[i].key # d
        PROVE  /\ stage'[hist[d].accepted[i].key] = "dead"
               /\ fd'[hist[d].accepted[i].key] = fd'[d]
    <3>1. d # c BY <2>2
    <3>2. /\ stage[hist[d].accepted[i].key] = "dead"
          /\ fd[hist[d].accepted[i].key] = fd[d]
      BY <2>3 DEF AddressInv, MisdeliveredAfterDeath
    <3>3. hist[d].accepted[i].key \in Conns \ {c} BY <1>1, <2>1, <3>2
    <3> QED BY <1>1, <3>1, <3>2, <3>3
  <2> QED BY <1>1, <2>3, Zenon DEF MisdeliveredAfterDeath
<1> QED BY <1>2, <1>3, <1>4 DEF AddressInv

LEMMA UserAddress ==
  ASSUME TypeOK, WriteInv, ReuseInv, AddressInv, NEW u \in Users, UserStep(u)
  PROVE  AddressInv'
<1>th. th \in [Threads -> ThreadT] BY DEF TypeOK, ThreadsOK
<1>u. u \in Threads BY Kinds
<1>1. ASSUME UNCHANGED <<stage, fd, connect_map>>, \A d \in Users \ {u} : th'[d] = th[d],
             \A c \in Conns : hist'[c].accepted = hist[c].accepted, UserOK(u)'
      PROVE  AddressInv'
  <2>1. KeysOK' BY <1>1 DEF AddressInv, KeysOK
  <2>2. \A d \in Users : UserOK(d)' BY <1>1 DEF AddressInv, UserOK
  <2>3. MisdeliveredAfterDeath' BY <1>1 DEF AddressInv, MisdeliveredAfterDeath
  <2> QED BY <2>1, <2>2, <2>3 DEF AddressInv
<1>2. ASSUME NEW k \in Conns, PushLookup(u, k) PROVE AddressInv'
  <2>1. /\ th'[u].pc = "push_fd" /\ th'[u].n = connect_map[k]
        /\ th'[u].iov = <<[key |-> k, no |-> calls[k].push + 1]>>
        /\ \A d \in Users \ {u} : th'[d] = th[d]
    <3>1. PICK n, q : /\ n = connect_map[k] /\ q = <<[key |-> k, no |-> calls[k].push + 1]>>
                      /\ th' = [th EXCEPT ![u].pc = "push_fd", ![u].n = n, ![u].iov = q]
      BY <1>2 DEF PushLookup
    <3>2. th' = [th EXCEPT ![u].pc = "push_fd", ![u].n = n, ![u].iov = q] BY <3>1
    <3>3. /\ th'[u].pc = "push_fd" /\ th'[u].n = n /\ th'[u].iov = q
          /\ \A d \in Users \ {u} : th'[d] = th[d]
      BY <3>2, <1>th, UserTakes, Zenon
    <3> QED BY <3>1, <3>2, <3>3
  <2>2. UNCHANGED <<stage, fd, connect_map, hist>> /\ connect_map[k] # 0
    BY <1>2 DEF PushLookup, objVars, mapVars
  <2>3. Len(th'[u].iov) = 1 /\ th'[u].iov[1].key = k BY <2>1
  <2>4. UserOK(u)' BY <2>1, <2>2, <2>3 DEF UserOK, AddressInv, KeysOK
  <2> QED BY <1>1, <2>1, <2>2, <2>4
<1>3. ASSUME NEW k \in Conns, CloseLookup(u, k) PROVE AddressInv'
  <2>1. /\ th'[u].pc = "close_fd" /\ \A d \in Users \ {u} : th'[d] = th[d]
    <3>1. PICK n, q : th' = [th EXCEPT ![u].pc = "close_fd", ![u].n = n, ![u].iov = q]
      BY <1>3 DEF CloseLookup
    <3>2. /\ th'[u].pc = "close_fd" /\ th'[u].n = n /\ th'[u].iov = q
          /\ \A d \in Users \ {u} : th'[d] = th[d]
      BY <3>1, <1>th, UserTakes, Zenon
    <3> QED BY <3>1, <3>2
  <2>2. UNCHANGED <<stage, fd, connect_map, hist>>
    BY <1>3 DEF CloseLookup, objVars, mapVars
  <2> QED BY <2>1, <2>2, AddressStays
<1>4. CASE PushClient(u)
  <2>1. UNCHANGED <<stage, fd, connect_map, hist, client_map>> /\ th[u].pc = "push_fd"
    BY <1>4 DEF PushClient, objVars, mapVars
  <2>2. CASE client_map[th[u].n] = NoConn
    <3>1. th'[u].pc = "idle" /\ \A d \in Users \ {u} : th'[d] = th[d]
      BY <1>4, <1>th, <1>u, <2>2, Kinds DEF PushClient, Home, HomePc
    <3> QED BY <2>1, <3>1, AddressStays
  <2>3. CASE client_map[th[u].n] # NoConn
    <3>0. th[u].n \in Fds /\ client_map[th[u].n] \in Conns
      BY <2>1, <2>3, <1>u DEF TypeOK, MapOK, ThreadsOK, LocalOK
    <3>1. PICK d \in Conns : client_map[th[u].n] = d /\ th[u].n \in Fds BY <3>0
    <3>2. /\ th'[u].pc = "push_client" /\ th'[u].c = d /\ th'[u].iov = th[u].iov
          /\ \A v \in Users \ {u} : th'[v] = th[v]
      <4>1. th' = [th EXCEPT ![u].pc = "push_client", ![u].c = d, ![u].n = 0]
        BY <1>4, <2>3, <3>1 DEF PushClient
      <4>2. PICK p, n : /\ p = "push_client"
                        /\ th' = [th EXCEPT ![u].pc = p, ![u].c = d, ![u].n = n]
        BY <4>1
      <4>5. th' = [th EXCEPT ![u].pc = p, ![u].c = d, ![u].n = n] BY <4>2
      <4>6. th'[u].pc = p BY <4>5, <1>th, UserTurns, Zenon
      <4>7. th'[u].c = d
        <5>1. th'[u] = [th[u] EXCEPT !.pc = p, !.c = d, !.n = n] BY <4>5, <1>th, <1>u
        <5>2. th[u] \in ThreadT BY <1>th, <1>u
        <5> QED BY <5>1, <5>2 DEF ThreadT
      <4>4. th'[u].iov = th[u].iov BY <4>5, <1>th, UserTurns, Zenon
      <4>3. \A v \in Users \ {u} : th'[v] = th[v] BY <4>1, <1>th, UserTurns, Zenon
      <4> QED BY <4>2, <4>3, <4>4, <4>6, <4>7
    <3>3. Live(d) /\ fd[d] = th[u].n
      BY <3>1, CoreAssumption DEF WriteInv, MapNamesLive
    <3>4. PICK k \in Conns : /\ th[u].iov[1].key = k /\ Len(th[u].iov) = 1
                             /\ fd[k] = th[u].n /\ stage[k] # "none"
      BY <2>1, UserKey DEF AddressInv, UserOK
    <3>5. k # d => stage[k] = "dead"
      BY <3>3, <3>4 DEF ReuseInv, FdOwned, Owning, Live, TypeOK, ObjOK
    <3>6. UserOK(u)' BY <2>1, <3>2, <3>3, <3>4, <3>5 DEF UserOK, Live
    <3> QED BY <1>1, <2>1, <3>2, <3>6
  <2> QED BY <2>2, <2>3
<1>5. CASE PushCheck(u)
  <2>1. /\ UNCHANGED <<stage, fd, connect_map, hist>> /\ th[u].pc = "push_client"
        /\ \A d \in Users \ {u} : th'[d] = th[d]
        /\ \/ th'[u].pc = "idle"
           \/ th'[u].pc = "push_pack" /\ th'[u].c = th[u].c /\ th'[u].iov = th[u].iov
    BY <1>5, <1>th, <1>u, Kinds
       DEF PushCheck, At, Return, Home, HomePc, Goto, ThreadT, objVars, mapVars
  <2>2. UserOK(u)' BY <2>1 DEF UserOK, AddressInv
  <2> QED BY <1>1, <2>1, <2>2
<1>6. CASE push_send_pack(u)
  <2>1. PICK c \in Conns : th[u].c = c /\ th[u].pc = "push_pack"
    BY <1>6 DEF push_send_pack, At
  <2>2. /\ UNCHANGED <<stage, fd, connect_map>> /\ th'[u].pc = "idle"
        /\ \A d \in Users \ {u} : th'[d] = th[d]
    BY <1>6, <1>th, <1>u, Kinds, ReturnAt DEF push_send_pack, HomePc, objVars, mapVars
  <2>3. PICK k \in Conns : /\ th[u].iov \in Seq(Packets) /\ Len(th[u].iov) = 1
                           /\ th[u].iov[1].key = k
                           /\ k # c => stage[k] = "dead" /\ fd[k] = fd[c]
    BY <2>1, UserKey DEF AddressInv, UserOK
  <2>4. hist \in [Conns -> HistT] /\ hist[c].accepted \in Seq(Packets)
    BY DEF TypeOK, HistT
  <2>5. /\ hist'[c].accepted = hist[c].accepted \o th[u].iov
        /\ \A d \in Conns \ {c} : hist'[d] = hist[d]
    BY <1>6, <2>1, <2>4 DEF push_send_pack, HistT
  <2>6. ASSUME NEW i \in 1 .. Len(hist'[c].accepted)
        PROVE  hist'[c].accepted[i].key # c =>
                 /\ stage[hist'[c].accepted[i].key] = "dead"
                 /\ fd[hist'[c].accepted[i].key] = fd[c]
    <3>1. /\ Len(hist[c].accepted) \in Nat
          /\ Len(hist'[c].accepted) = Len(hist[c].accepted) + 1
          /\ hist'[c].accepted[i] = IF i <= Len(hist[c].accepted) THEN hist[c].accepted[i]
                                    ELSE th[u].iov[i - Len(hist[c].accepted)]
      <4>0. \A q, r \in Seq(Packets) : Len(q) \in Nat /\ Len(q \o r) = Len(q) + Len(r)
        BY LenProperties, ConcatProperties
      <4>1. /\ Len(hist[c].accepted) \in Nat
            /\ Len(hist'[c].accepted) = Len(hist[c].accepted) + Len(th[u].iov)
        BY <2>3, <2>4, <2>5, <4>0
      <4>2. i \in 1 .. Len(hist[c].accepted) + Len(th[u].iov) BY <4>1
      <4>3. \A q, r \in Seq(Packets) : \A j \in 1 .. Len(q) + Len(r) :
              (q \o r)[j] = IF j <= Len(q) THEN q[j] ELSE r[j - Len(q)]
        BY ConcatProperties
      <4>4. (hist[c].accepted \o th[u].iov)[i]
              = IF i <= Len(hist[c].accepted) THEN hist[c].accepted[i]
                ELSE th[u].iov[i - Len(hist[c].accepted)]
        BY <2>3, <2>4, <4>2, <4>3, Zenon
      <4> QED BY <2>3, <2>5, <4>1, <4>4
    <3>2. CASE i \in 1 .. Len(hist[c].accepted)
      BY <3>1, <3>2 DEF AddressInv, MisdeliveredAfterDeath
    <3>3. CASE i = Len(hist[c].accepted) + 1
      <4>1. hist'[c].accepted[i] = th[u].iov[1] BY <3>1, <3>3
      <4> QED BY <4>1, <2>3
    <3>4. i \in 1 .. Len(hist[c].accepted) \/ i = Len(hist[c].accepted) + 1 BY <3>1
    <3> QED BY <3>2, <3>3, <3>4, Zenon
  <2>7. MisdeliveredAfterDeath'
    <3>1. \A d \in Conns \ {c} : \A i \in 1 .. Len(hist'[d].accepted) :
            hist'[d].accepted[i].key # d =>
              /\ stage[hist'[d].accepted[i].key] = "dead"
              /\ fd[hist'[d].accepted[i].key] = fd[d]
      BY <2>5 DEF AddressInv, MisdeliveredAfterDeath
    <3>2. \A i \in 1 .. Len(hist'[c].accepted) :
            hist'[c].accepted[i].key # c =>
              /\ stage[hist'[c].accepted[i].key] = "dead"
              /\ fd[hist'[c].accepted[i].key] = fd[c]
      BY <2>6
    <3>3. \A d \in Conns : \A i \in 1 .. Len(hist'[d].accepted) :
            hist'[d].accepted[i].key # d =>
              /\ stage[hist'[d].accepted[i].key] = "dead"
              /\ fd[hist'[d].accepted[i].key] = fd[d]
      BY <3>1, <3>2
    <3> QED BY <2>2, <3>3 DEF MisdeliveredAfterDeath
  <2>8. KeysOK' /\ \A d \in Users : UserOK(d)'
    BY <2>2 DEF AddressInv, KeysOK, UserOK
  <2> QED BY <2>7, <2>8 DEF AddressInv
<1>7. CASE CloseClient(u) \/ close_read(u)
  <2>1. /\ UNCHANGED <<stage, fd, connect_map, hist>> /\ \A d \in Users \ {u} : th'[d] = th[d]
        /\ th'[u].pc \in {"remove_fd", "close_read"}
    <3>1. UNCHANGED <<stage, fd, connect_map, hist>>
      BY <1>7 DEF CloseClient, close_read, objVars, mapVars
    <3>2. CASE CloseClient(u)
      <4>1. PICK p, d : /\ p = IF client_map[th[u].n] = NoConn THEN "remove_fd" ELSE "close_read"
                        /\ d = client_map[th[u].n]
        OBVIOUS
      <4>2. th' = [th EXCEPT ![u].pc = p, ![u].c = d, ![u].n = 0]
        BY <3>2, <4>1 DEF CloseClient
      <4>3. th'[u].pc = p /\ \A v \in Users \ {u} : th'[v] = th[v]
        BY <4>2, <1>th, UserTurns, Zenon
      <4> QED BY <3>1, <4>1, <4>3
    <3>3. CASE close_read(u)
      <4>1. th' = [th EXCEPT ![u].pc = "remove_fd", ![u].c = NoConn] BY <3>3 DEF close_read
      <4>2. th'[u].pc = "remove_fd" BY <4>1, <1>th, <1>u DEF ThreadT
      <4>3. \A v \in Users \ {u} : th'[v] = th[v] BY <4>1, <1>th, Kinds
      <4> QED BY <3>1, <4>2, <4>3
    <3> QED BY <1>7, <3>2, <3>3
  <2> QED BY <2>1, AddressStays
<1>8. CASE remove_fd(u)
  <2>1. /\ UNCHANGED <<stage, fd, hist>> /\ \A d \in Users \ {u} : th'[d] = th[d]
        /\ th'[u].pc = "idle"
    BY <1>8, <1>th, <1>u, ReturnAt, Kinds DEF remove_fd, HomePc, objVars
  <2>2. \A k \in Conns : connect_map'[k] = connect_map[k] \/ connect_map'[k] = 0
    BY <1>8 DEF remove_fd, TypeOK, MapOK
  <2> QED BY <2>1, <2>2, AddressStays
<1> QED BY <1>2, <1>3, <1>4, <1>5, <1>6, <1>7, <1>8 DEF UserStep, CallStep

LEMMA InitAddress == ASSUME Init PROVE AddressInv
<1>1. KeysOK BY DEF Init, KeysOK
<1>2. \A u \in Users : UserOK(u)
  BY Kinds DEF Init, UserOK, Home, HomePc
<1>3. MisdeliveredAfterDeath
  BY EmptySeq DEF Init, MisdeliveredAfterDeath
<1> QED BY <1>1, <1>2, <1>3 DEF AddressInv

LEMMA NextAddress ==
  ASSUME TypeOK, WriteInv, ReuseInv, AddressInv, [Next]_vars PROVE AddressInv'
<1>1. CASE UNCHANGED vars
  BY <1>1, AddressedStays DEF Addressed, vars, objVars, mapVars
<1>2. ASSUME NEW c \in Conns, NEW f \in Fds, Accept(c, f) PROVE AddressInv'
  BY <1>2, AcceptAddress
<1>3. CASE PeerStep BY <1>3, PeerAddress, AddressedStays
<1>4. CASE PostedStep BY <1>4, PostedAddress
<1>5. CASE TickStep BY <1>5, TickAddress, AddressedStays
<1>6. ASSUME NEW w \in Workers, WorkerStep(w) PROVE AddressInv'
  BY <1>6, WorkerAddress, AddressedStays
<1>7. ASSUME NEW w \in Workers, CallbackCloses(w) PROVE AddressInv'
  <2>1. /\ UNCHANGED <<stage, fd, hist, th>>
        /\ \A k \in Conns : connect_map'[k] = connect_map[k] \/ connect_map'[k] = 0
    BY <1>7 DEF CallbackCloses, TypeOK, MapOK, objVars
  <2> QED BY <2>1, AddressStays
<1>8. ASSUME NEW l \in Loops, LoopStep(l) PROVE AddressInv'
  BY <1>8, LoopAddress, AddressedStays
<1>9. ASSUME NEW u \in Users, UserStep(u) PROVE AddressInv'
  BY <1>9, UserAddress
<1> QED BY <1>1, <1>2, <1>3, <1>4, <1>5, <1>6, <1>7, <1>8, <1>9 DEF Next

(* AddressInv holds however users, main_thread_ and the kernel interleave.  *)
THEOREM AddressCorrect == Spec => []AddressInv
<1> QED BY TypeCorrect, WriteCorrect, ReuseCorrect, InitAddress, NextAddress, PTL DEF Spec

(* A packet reaches another connection than the one its key was given to    *)
(* only when that one is gone and its descriptor was handed out again.      *)
THEOREM MisdeliveryNeedsDeath == Spec => []MisdeliveredAfterDeath
<1>1. AddressInv => MisdeliveredAfterDeath BY DEF AddressInv
<1> QED BY <1>1, AddressCorrect, PTL
=============================================================================
