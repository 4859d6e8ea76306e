------------------------------ MODULE TcpCore ------------------------------
(***************************************************************************)
(* The core of the library: TcpManager, ClientEntity and the part of       *)
(* EventManager they run on.  One connection is touched by four kinds of   *)
(* threads:                                                                *)
(*                                                                         *)
(*   - the event loop it is pinned to (socket_loop_[i]), which reads the   *)
(*     socket, writes it when epoll says it may, and runs posted functions;*)
(*   - main_thread_, which owns client_map_, scans it on every timer tick  *)
(*     (do_send_timeout) and hands tasks to the pool;                      *)
(*   - the workers of packer_thread_, which run handle_unpack,             *)
(*     timeout_send and req_close;                                         *)
(*   - user threads, which call push_send_pack and close_client by fd_key. *)
(*                                                                         *)
(* A step is one stretch of code that takes no lock it does not release,   *)
(* or the test of one shared flag, or one update of it.  A critical        *)
(* section of read_mutex_, write_mutex_, rwlock_ or map_rwlock_ never      *)
(* blocks and is one step; send_mutex_, unpack_mutex_ and callback_mutex_  *)
(* are held across steps and are modelled.                                 *)
(*                                                                         *)
(* A connection is identified with the fd_key it is given (a key is never  *)
(* used twice while the manager runs), a packet handed to push_send_pack   *)
(* is one unit, and the byte stream is cut into segments: "part" (bytes    *)
(* that leave a frame incomplete), "last" (bytes that complete one) and    *)
(* "bad" (a header whose length is not positive).                          *)
(*                                                                         *)
(* The model does not follow a thread into a ClientEntity that has been    *)
(* destroyed: that thread takes no further step.                           *)
(***************************************************************************)
EXTENDS Naturals, Sequences, FiniteSets

CONSTANTS
  Conns,        \* the connections, each named by its fd_key
  Fds,          \* the descriptors the kernel may hand out
  Loops,        \* the event loops socket_loop_[0 .. event_size_-1]
  Workers,      \* the threads of packer_thread_
  Users,        \* application threads calling into the manager
  Main,         \* main_thread_
  NoConn,       \* nullptr
  NoThread,     \* an unlocked mutex
  Script,       \* what the peer of a connection sends, segment by segment
  SndRoom,      \* how many packets a socket's send buffer takes
  MaxPush,      \* bound: packets a user pushes with one key
  MaxClose,     \* bound: close_client calls with one key
  PeerMayEnd,   \* the ways a peer may end a connection
  AddMayFail    \* whether EPOLL_CTL_ADD may fail

Segments == {"part", "last", "bad"}
Threads == Loops \cup Workers \cup Users \cup {Main}

ASSUME CoreAssumption ==
  /\ Fds \subseteq Nat \ {0}              \* fd 0 means "no such key"
  /\ NoConn \notin Conns
  /\ NoThread \notin Threads
  /\ Main \notin Loops \cup Workers \cup Users
  /\ Loops \cap Workers = {} /\ Loops \cap Users = {} /\ Workers \cap Users = {}
  /\ Script \in Seq(Segments)
  /\ SndRoom \in Nat \ {0}
  /\ MaxPush \in Nat /\ MaxClose \in Nat
  /\ PeerMayEnd \subseteq {"fin", "reset"}
  /\ AddMayFail \in BOOLEAN

VARIABLES
  stage,        \* "none", "adding" (accepted, add posted), "live" (in client_map_), "dead"
  fd,           \* ClientEntity::fd_
  loop_of,      \* ClientEntity::event_loop_
  flags,        \* read_flag_, write_flag_, close_flag_, close_, wait_write_
  lists,        \* recv_list_, unpack_list_, wait_pack_list_, wait_write_list_
  mutex,        \* unpack_mutex_, send_mutex_, callback_mutex_
  handle,       \* EventHandle::event_flags_ and what epoll was last told
  client_map,   \* TcpManager::client_map_
  connect_map,  \* TcpManager::connect_map_
  main_funcs,   \* main_thread_'s posted functions
  todo,         \* clients the running do_send_timeout has not reached
  fun_list,     \* the tasks the running do_send_timeout has collected
  task_list,    \* ThreadPool::task_list_
  handler_map,  \* EventManager::handler_map_
  funcs_write,  \* EventManager::loop_functions_write_
  funcs_read,   \* EventManager::loop_functions_read_
  batch,        \* what the last epoll_wait returned and is not handled yet
  th,           \* where each thread stands, and its locals
  sock,         \* the kernel's side of each socket, and the peer's
  calls,        \* how many user calls each key has seen (bounded)
  hist          \* history: bytes sent, packets accepted, segments unpacked

objVars  == <<stage, fd, loop_of>>
mapVars  == <<client_map, connect_map>>
mainVars == <<main_funcs, todo, fun_list>>
loopVars == <<handler_map, funcs_write, funcs_read, batch>>
vars == <<objVars, flags, lists, mutex, handle, mapVars, mainVars, task_list,
          loopVars, th, sock, calls, hist>>

-----------------------------------------------------------------------------
(* Locals and small operators *)

Packets == [key : Conns, no : 0 .. MaxPush]
HomePc(t) == IF t \in Loops THEN "batch" ELSE "idle"
Home(t) == [pc |-> HomePc(t), c |-> NoConn, buf |-> <<>>, iov |-> <<>>, n |-> 0, ev |-> {}]

Return(t) == th' = [th EXCEPT ![t] = Home(t)]
Goto(t, p) == th' = [th EXCEPT ![t].pc = p]

(* A thread at control point p inside a ClientEntity that still exists. *)
At(t, p) == th[t].pc = p /\ th[t].c \in Conns /\ stage[th[t].c] = "live"

NoFlags == [read |-> {}, write |-> {}, shut |-> {}, closed |-> FALSE, waiting |-> FALSE]
NoLists == [recv |-> <<>>, unpack |-> <<>>, pack |-> <<>>, send |-> <<>>]

(* A definition in this module that only a "mutants" entry uses is a wrong  *)
(* version of the one after it, kept to show that a property notices.       *)
ReadyCloseBoth(c) == flags[c].shut = {"NOREAD", "NOWRITE"}
ready_close(c) == flags[c].shut # {}
CanReadAlways(c) == TRUE
can_read(c) == "NOREAD" \notin flags[c].shut
can_write(c) == "NOWRITE" \notin flags[c].shut
can_close(c) == ~flags[c].closed /\ "CLOSE" \in flags[c].read
IsUpdateTwice(c) == "NEXT" \in flags[c].read
is_update(c) == "NEXT" \in flags[c].read /\ "HANDLE" \notin flags[c].read
is_write_update(c) == "NEXT" \in flags[c].write /\ "HANDLE" \notin flags[c].write

SetUpdateUnlessShut(c) == flags[c].read \cup (IF ready_close(c) THEN {} ELSE {"NEXT"})
set_update(c) == flags[c].read \cup {"NEXT"}
SetCloseForgotten(c) == flags
set_close(c) == [flags EXCEPT ![c].closed = TRUE]

(* What the two splices leave: older input and output stay in front.        *)
AllInNewestFirst(c) == lists[c].recv \o lists[c].unpack
AllIn(c) == lists[c].unpack \o lists[c].recv
AllOutNewestFirst(c) == lists[c].pack \o lists[c].send
AllOut(c) == lists[c].send \o lists[c].pack

(* force_close as do_handle_unpack and do_write_data use it: only when the
   connection has been shut in either direction. *)
ForceNever(c) == {}
ForceIfReady(c) == IF ready_close(c) THEN {"CLOSE"} ELSE {}

Min2NoCap(a, b) == b
Min2(a, b) == IF a < b THEN a ELSE b
Drop(s, n) == SubSeq(s, n + 1, Len(s))
Posted(l, f) == [funcs_write EXCEPT ![l] = Append(@, f)]

(* What epoll could report of a socket; a reset raises both directions. *)
Ready(c) ==
  {e \in {"IN", "OUT"} :
     \/ e = "IN" /\ (sock[c].inbox # <<>> \/ sock[c].peer # "open")
     \/ e = "OUT" /\ (sock[c].room > 0 \/ sock[c].peer = "reset")}

-----------------------------------------------------------------------------
Init ==
  /\ stage = [c \in Conns |-> "none"]
  /\ fd = [c \in Conns |-> 0]
  /\ loop_of = [c \in Conns |-> NoThread]
  /\ flags = [c \in Conns |-> NoFlags]
  /\ lists = [c \in Conns |-> NoLists]
  /\ mutex = [c \in Conns |-> [unpack |-> NoThread, send |-> NoThread, callback |-> NoThread]]
  /\ handle = [c \in Conns |-> [want |-> {}, reg |-> {}]]
  /\ client_map = [f \in Fds |-> NoConn]
  /\ connect_map = [c \in Conns |-> 0]
  /\ main_funcs = <<>> /\ todo = {} /\ fun_list = <<>>
  /\ task_list = <<>>
  /\ handler_map = [l \in Loops |-> [f \in Fds |-> NoConn]]
  /\ funcs_write = [l \in Loops |-> <<>>]
  /\ funcs_read = [l \in Loops |-> <<>>]
  /\ batch = [l \in Loops |-> {}]
  /\ th = [t \in Threads |-> Home(t)]
  /\ sock = [c \in Conns |-> [inbox |-> <<>>, sent |-> 0, peer |-> "open",
                               room |-> SndRoom, edge |-> {}]]
  /\ calls = [c \in Conns |-> [push |-> 0, close |-> 0]]
  /\ hist = [c \in Conns |-> [wire |-> <<>>, accepted |-> <<>>, parsed |-> <<>>,
                               cleared |-> FALSE, late |-> 0]]

-----------------------------------------------------------------------------
(* The kernel and the peer (external) *)

PeerSend(c) ==
  /\ stage[c] \in {"adding", "live"}
  /\ sock[c].peer = "open" /\ sock[c].sent < Len(Script)
  /\ sock' = [sock EXCEPT ![c].inbox = Append(@, Script[sock[c].sent + 1]),
                          ![c].sent = @ + 1, ![c].edge = @ \cup {"IN"}]
  /\ UNCHANGED <<objVars, flags, lists, mutex, handle, mapVars, mainVars, task_list,
                 loopVars, th, calls, hist>>

(* "fin": the peer shuts down its side; "reset": the connection is gone. *)
PeerEnd(c, how) ==
  /\ stage[c] \in {"adding", "live"}
  /\ \/ sock[c].peer = "open"
     \/ sock[c].peer = "fin" /\ how = "reset"
  /\ sock' = [sock EXCEPT ![c].peer = how, ![c].edge = @ \cup {"IN", "OUT"}]
  /\ UNCHANGED <<objVars, flags, lists, mutex, handle, mapVars, mainVars, task_list,
                 loopVars, th, calls, hist>>

(* The peer reads everything the send buffer holds; a full buffer that      *)
(* empties is an edge.                                                      *)
PeerDrain(c) ==
  /\ stage[c] = "live" /\ sock[c].peer # "reset" /\ sock[c].room < SndRoom
  /\ sock' = [sock EXCEPT ![c].room = SndRoom,
                          ![c].edge = IF sock[c].room = 0 THEN @ \cup {"OUT"} ELSE @]
  /\ UNCHANGED <<objVars, flags, lists, mutex, handle, mapVars, mainVars, task_list,
                 loopVars, th, calls, hist>>

-----------------------------------------------------------------------------
(* TcpServer::handle_accept and TcpClient::connect: the descriptor is free *)
(* in the kernel, so no ClientEntity that still owns it exists.            *)

InsertTwoKeys(c, f) ==
  [k \in Conns |-> IF k = c \/ stage[k] = "none" THEN f ELSE connect_map[k]]
insert_fd(c, f) == [connect_map EXCEPT ![c] = f]

Accept(c, f) ==
  /\ stage[c] = "none"
  /\ \A d \in Conns : stage[d] \in {"adding", "live"} => fd[d] # f
  /\ stage' = [stage EXCEPT ![c] = "adding"]
  /\ fd' = [fd EXCEPT ![c] = f]
  /\ connect_map' = insert_fd(c, f)
  /\ main_funcs' = Append(main_funcs, [op |-> "add", c |-> c])
  /\ UNCHANGED <<loop_of, flags, lists, mutex, handle, client_map, todo, fun_list,
                 task_list, loopVars, th, sock, calls, hist>>

-----------------------------------------------------------------------------
(* main_thread_ *)

DoAddClient(c, l) ==
  /\ th[Main].pc = "idle"
  /\ main_funcs # <<>> /\ Head(main_funcs) = [op |-> "add", c |-> c]
  /\ main_funcs' = Tail(main_funcs)
  /\ stage' = [stage EXCEPT ![c] = "live"]
  /\ loop_of' = [loop_of EXCEPT ![c] = l]
  /\ client_map' = [client_map EXCEPT ![fd[c]] = c]
  /\ handle' = [handle EXCEPT ![c].want = {"IN"}]
  /\ funcs_write' = Posted(l, [op |-> "add", c |-> c])
  /\ UNCHANGED <<fd, flags, lists, mutex, connect_map, todo, fun_list, task_list,
                 handler_map, funcs_read, batch, th, sock, calls, hist>>

(* do_remove_client looks its argument up by descriptor; push_client runs   *)
(* ~ClientEntity, which closes the descriptor, empties the lists and        *)
(* zeroes the flags.                                                        *)
DoRemoveClient ==
  LET f == fd[Head(main_funcs).c]
      d == IF f \in Fds THEN client_map[f] ELSE NoConn IN
  /\ th[Main].pc = "idle"
  /\ main_funcs # <<>> /\ Head(main_funcs).op = "remove"
  /\ main_funcs' = Tail(main_funcs)
  /\ IF d = NoConn                          \* "ERROR fd NOT EXIST"
     THEN UNCHANGED <<stage, client_map, lists, flags>>
     ELSE /\ client_map' = [client_map EXCEPT ![f] = NoConn]
          /\ stage' = [stage EXCEPT ![d] = "dead"]
          /\ lists' = [lists EXCEPT ![d] = NoLists]
          /\ flags' = [flags EXCEPT ![d] = NoFlags]
  /\ UNCHANGED <<fd, loop_of, mutex, handle, connect_map, todo, fun_list, task_list,
                 loopVars, th, sock, calls, hist>>

(* The timer on acceptor_loop_ posts do_send_timeout every millisecond.     *)
TickStart ==
  /\ th[Main].pc = "idle"
  /\ todo' = {client_map[f] : f \in {g \in Fds : client_map[g] # NoConn}}
  /\ Goto(Main, "scan")
  /\ UNCHANGED <<objVars, flags, lists, mutex, handle, mapVars, main_funcs, fun_list,
                 task_list, loopVars, sock, calls, hist>>

(* is_close, can_close, and the choice to look further at client c *)
TickClient(c) ==
  /\ th[Main].pc = "scan" /\ c \in todo
  /\ todo' = todo \ {c}
  /\ \/ /\ flags[c].closed
        /\ UNCHANGED <<flags, fun_list, th>>
     \/ /\ can_close(c)
        /\ flags' = set_close(c)
        /\ fun_list' = Append(fun_list, [op |-> "close", c |-> c])
        /\ UNCHANGED th
     \/ /\ ~flags[c].closed /\ ~can_close(c)
        /\ th' = [th EXCEPT ![Main].pc = "test_read", ![Main].c = c]
        /\ UNCHANGED <<flags, fun_list>>
  /\ UNCHANGED <<objVars, lists, mutex, handle, mapVars, main_funcs, task_list,
                 loopVars, sock, calls, hist>>

TickRead ==
  /\ th[Main].pc = "test_read"
  /\ IF is_update(th[Main].c) /\ can_read(th[Main].c)
     THEN Goto(Main, "mark_read") ELSE Goto(Main, "test_write")
  /\ UNCHANGED <<objVars, flags, lists, mutex, handle, mapVars, mainVars, task_list,
                 loopVars, sock, calls, hist>>

handle_update ==
  /\ th[Main].pc = "mark_read"
  /\ flags' = [flags EXCEPT ![th[Main].c].read = @ \cup {"HANDLE"}]
  /\ fun_list' = Append(fun_list, [op |-> "unpack", c |-> th[Main].c])
  /\ Goto(Main, "test_write")
  /\ UNCHANGED <<objVars, lists, mutex, handle, mapVars, main_funcs, todo, task_list,
                 loopVars, sock, calls, hist>>

TickWrite ==
  /\ th[Main].pc = "test_write"
  /\ th' = IF is_write_update(th[Main].c) /\ can_write(th[Main].c)
           THEN [th EXCEPT ![Main].pc = "mark_write"]
           ELSE [th EXCEPT ![Main].pc = "scan", ![Main].c = NoConn]
  /\ UNCHANGED <<objVars, flags, lists, mutex, handle, mapVars, mainVars, task_list,
                 loopVars, sock, calls, hist>>

handle_write_update ==
  /\ th[Main].pc = "mark_write"
  /\ flags' = [flags EXCEPT ![th[Main].c].write = @ \cup {"HANDLE"}]
  /\ fun_list' = Append(fun_list, [op |-> "send", c |-> th[Main].c])
  /\ th' = [th EXCEPT ![Main].pc = "scan", ![Main].c = NoConn]
  /\ UNCHANGED <<objVars, lists, mutex, handle, mapVars, main_funcs, todo, task_list,
                 loopVars, sock, calls, hist>>

(* packer_thread_->accept_task_list(fun_list) splices at the end. *)
AcceptAtFront == fun_list \o task_list
accept_task_list == task_list \o fun_list

TickEnd ==
  /\ th[Main].pc = "scan" /\ todo = {}
  /\ task_list' = accept_task_list
  /\ fun_list' = <<>>
  /\ Return(Main)
  /\ UNCHANGED <<objVars, flags, lists, mutex, handle, mapVars, main_funcs, todo,
                 loopVars, sock, calls, hist>>

-----------------------------------------------------------------------------
(* The workers of packer_thread_ *)

(* ThreadPool::require_task: the oldest task goes to an idle worker.        *)
RequireTask(w) ==
  /\ th[w].pc = "idle" /\ task_list # <<>>
  /\ task_list' = Tail(task_list)
  /\ th' = [th EXCEPT ![w].pc = Head(task_list).op, ![w].c = Head(task_list).c]
  /\ UNCHANGED <<objVars, flags, lists, mutex, handle, mapVars, mainVars, loopVars,
                 sock, calls, hist>>

req_close(w) ==
  /\ At(w, "close")
  /\ funcs_write' = Posted(loop_of[th[w].c], [op |-> "close", c |-> th[w].c])
  /\ Return(w)
  /\ UNCHANGED <<objVars, flags, lists, mutex, handle, mapVars, mainVars, task_list,
                 handler_map, funcs_read, batch, sock, calls, hist>>

(* handle_unpack: with unpack_mutex_ held, is_close() ends it at once.      *)
handle_unpack(w) ==
  LET c == th[w].c IN
  /\ At(w, "unpack") /\ mutex[c].unpack = NoThread
  /\ IF flags[c].closed
     THEN Return(w) /\ UNCHANGED mutex
     ELSE Goto(w, "splice") /\ mutex' = [mutex EXCEPT ![c].unpack = w]
  /\ UNCHANGED <<objVars, flags, lists, handle, mapVars, mainVars, task_list, loopVars,
                 sock, calls, hist>>

(* The read_mutex_ section of do_handle_unpack.  finish_update clears NEXT  *)
(* and HANDLE, FLAG_FINISH being the CLOSE bit.                             *)
UnpackNothing(w) ==
  LET c == th[w].c IN
  /\ At(w, "splice") /\ lists[c].recv = <<>> /\ lists[c].unpack = <<>>
  /\ flags' = [flags EXCEPT ![c].read = (@ \cap {"CLOSE"}) \cup ForceIfReady(c)]
  /\ mutex' = [mutex EXCEPT ![c].unpack = NoThread]
  /\ Return(w)
  /\ UNCHANGED <<objVars, lists, handle, mapVars, mainVars, task_list, loopVars, sock,
                 calls, hist>>

UnpackSplice(w) ==
  LET c == th[w].c IN
  /\ At(w, "splice") /\ ~(lists[c].recv = <<>> /\ lists[c].unpack = <<>>)
  /\ flags' = [flags EXCEPT ![c].read = @ \cap {"CLOSE"}]
  /\ lists' = [lists EXCEPT ![c].unpack = AllIn(c), ![c].recv = <<>>]
  /\ Goto(w, "parse")
  /\ UNCHANGED <<objVars, mutex, handle, mapVars, mainVars, task_list, loopVars, sock,
                 calls, hist>>

(* Where in a run of segments the length or the last byte of the frame in   *)
(* cur_unpcak_ shows up; a frame already known bad stays in cur_unpcak_.    *)
Stops(s) == {i \in 1 .. Len(s) : s[i] # "part" /\ \A j \in 1 .. i - 1 : s[j] = "part"}
CurIsBad(c) == hist[c].parsed # <<>> /\ hist[c].parsed[Len(hist[c].parsed)] = "bad"

(* The loop of do_handle_unpack ran out of bytes inside a frame. *)
UnpackPartial(w) ==
  LET c == th[w].c IN
  /\ At(w, "parse") /\ ~CurIsBad(c) /\ Stops(lists[c].unpack) = {}
  /\ hist' = [hist EXCEPT ![c].parsed = @ \o lists[c].unpack]
  /\ lists' = [lists EXCEPT ![c].unpack = <<>>]
  /\ flags' = [flags EXCEPT ![c].read = @ \cup ForceIfReady(c)]
  /\ mutex' = [mutex EXCEPT ![c].unpack = NoThread]
  /\ Return(w)
  /\ UNCHANGED <<objVars, handle, mapVars, mainVars, task_list, loopVars, sock, calls>>

(* A frame is complete; the rest of the input stays in unpack_list_. *)
UnpackFrame(w, i) ==
  LET c == th[w].c IN
  /\ At(w, "parse") /\ ~CurIsBad(c)
  /\ i \in Stops(lists[c].unpack) /\ lists[c].unpack[i] = "last"
  /\ hist' = [hist EXCEPT ![c].parsed = @ \o SubSeq(lists[c].unpack, 1, i)]
  /\ lists' = [lists EXCEPT ![c].unpack = Drop(@, i)]
  /\ Goto(w, "finish")
  /\ UNCHANGED <<objVars, flags, mutex, handle, mapVars, mainVars, task_list, loopVars,
                 sock, calls>>

(* finish_unpack: message_callback_ runs under callback_mutex_ ... *)
CallbackStart(w) ==
  LET c == th[w].c IN
  /\ At(w, "finish") /\ mutex[c].callback = NoThread
  /\ mutex' = [mutex EXCEPT ![c].callback = w]
  /\ hist' = [hist EXCEPT ![c].late = IF "NOREAD" \in flags[c].shut THEN @ + 1 ELSE @]
  /\ Goto(w, "callback")
  /\ UNCHANGED <<objVars, flags, lists, handle, mapVars, mainVars, task_list, loopVars,
                 sock, calls>>

(* The callback may call close_client on its own connection: the thread     *)
(* already owns callback_mutex_, which is recursive.                        *)
CallbackCloses(w) ==
  LET c == th[w].c IN
  /\ At(w, "callback") /\ connect_map[c] # 0 /\ calls[c].close < MaxClose
  /\ calls' = [calls EXCEPT ![c].close = @ + 1]
  /\ flags' = [flags EXCEPT ![c].shut = @ \cup {"NOREAD"}]
  /\ connect_map' = [connect_map EXCEPT ![c] = 0]
  /\ UNCHANGED <<objVars, lists, mutex, handle, client_map, mainVars, task_list,
                 loopVars, th, sock, hist>>

(* ... and when it returns there may be more: set_update. *)
CallbackEnd(w) ==
  LET c == th[w].c IN
  /\ At(w, "callback")
  /\ flags' = [flags EXCEPT ![c].read = set_update(c)]
  /\ mutex' = [mutex EXCEPT ![c].callback = NoThread, ![c].unpack = NoThread]
  /\ Return(w)
  /\ UNCHANGED <<objVars, lists, handle, mapVars, mainVars, task_list, loopVars, sock,
                 calls, hist>>

(* A length that is not positive: clear() empties all four lists, the       *)
(* writer's included, whoever holds send_mutex_ ...                         *)
UnpackBad(w) ==
  LET c == th[w].c IN
  /\ At(w, "parse")
  /\ \/ CurIsBad(c) /\ hist' = [hist EXCEPT ![c].cleared = TRUE]
     \/ /\ ~CurIsBad(c)
        /\ \E i \in Stops(lists[c].unpack) :
             /\ lists[c].unpack[i] = "bad"
             /\ hist' = [hist EXCEPT ![c].parsed = @ \o SubSeq(lists[c].unpack, 1, i),
                                     ![c].cleared = TRUE]
  /\ lists' = [lists EXCEPT ![c] = NoLists]
  /\ Goto(w, "bad")
  /\ UNCHANGED <<objVars, flags, mutex, handle, mapVars, mainVars, task_list, loopVars,
                 sock, calls>>

(* ... then close_read, under callback_mutex_, and force_close. *)
UnpackBadNoForce(w) ==
  LET c == th[w].c IN
  /\ At(w, "bad") /\ mutex[c].callback = NoThread
  /\ flags' = [flags EXCEPT ![c].shut = @ \cup {"NOREAD"}]
  /\ mutex' = [mutex EXCEPT ![c].unpack = NoThread]
  /\ Return(w)
  /\ UNCHANGED <<objVars, lists, handle, mapVars, mainVars, task_list, loopVars, sock,
                 calls, hist>>

UnpackBadClose(w) ==
  LET c == th[w].c IN
  /\ At(w, "bad") /\ mutex[c].callback = NoThread
  /\ flags' = [flags EXCEPT ![c].shut = @ \cup {"NOREAD"}, ![c].read = @ \cup {"CLOSE"}]
  /\ mutex' = [mutex EXCEPT ![c].unpack = NoThread]
  /\ Return(w)
  /\ UNCHANGED <<objVars, lists, handle, mapVars, mainVars, task_list, loopVars, sock,
                 calls, hist>>

(* timeout_send leaves the socket to EPOLLOUT while wait_write_ is set.     *)
timeout_send(w) ==
  /\ At(w, "send")
  /\ IF flags[th[w].c].waiting THEN Return(w) ELSE Goto(w, "try_lock")
  /\ UNCHANGED <<objVars, flags, lists, mutex, handle, mapVars, mainVars, task_list,
                 loopVars, sock, calls, hist>>

-----------------------------------------------------------------------------
(* write_data and do_write_data, run by a worker (timeout_send) or by the   *)
(* event loop (EPOLLOUT)                                                    *)

WriteBusy(t) ==          \* send_mutex_.try_lock() failed: nothing else is done
  /\ At(t, "try_lock") /\ mutex[th[t].c].send # NoThread
  /\ Return(t)
  /\ UNCHANGED <<objVars, flags, lists, mutex, handle, mapVars, mainVars, task_list,
                 loopVars, sock, calls, hist>>

WriteLockAnyway(t) ==
  /\ At(t, "try_lock")
  /\ mutex' = [mutex EXCEPT ![th[t].c].send = t]
  /\ Goto(t, "gather")
  /\ UNCHANGED <<objVars, flags, lists, handle, mapVars, mainVars, task_list, loopVars,
                 sock, calls, hist>>

WriteLock(t) ==
  /\ At(t, "try_lock") /\ mutex[th[t].c].send = NoThread
  /\ mutex' = [mutex EXCEPT ![th[t].c].send = t]
  /\ Goto(t, "gather")
  /\ UNCHANGED <<objVars, flags, lists, handle, mapVars, mainVars, task_list, loopVars,
                 sock, calls, hist>>

WriteUnlock(t) ==
  /\ mutex' = [mutex EXCEPT ![th[t].c].send = NoThread]
  /\ Return(t)

(* The write_mutex_ section and the building of iov_vec. *)
WriteNothing(t) ==
  LET c == th[t].c IN
  /\ At(t, "gather") /\ lists[c].send = <<>> /\ lists[c].pack = <<>>
  /\ flags' = [flags EXCEPT ![c].write = {}, ![c].read = @ \cup ForceIfReady(c)]
  /\ WriteUnlock(t)
  /\ UNCHANGED <<objVars, lists, handle, mapVars, mainVars, task_list, loopVars, sock,
                 calls, hist>>

WriteGather(t) ==
  LET c == th[t].c IN
  /\ At(t, "gather") /\ ~(lists[c].send = <<>> /\ lists[c].pack = <<>>)
  /\ flags' = [flags EXCEPT ![c].write = {}]
  /\ lists' = [lists EXCEPT ![c].send = AllOut(c), ![c].pack = <<>>]
  /\ th' = [th EXCEPT ![t].pc = "writev", ![t].iov = AllOut(c)]
  /\ UNCHANGED <<objVars, mutex, handle, mapVars, mainVars, task_list, loopVars, sock,
                 calls, hist>>

(* writev fails for good: close_write, then set_update; the packets stay.   *)
WriteError(t) ==
  LET c == th[t].c IN
  /\ At(t, "writev") /\ sock[c].peer = "reset"
  /\ flags' = [flags EXCEPT ![c].shut = @ \cup {"NOWRITE"}]
  /\ Goto(t, "fail")
  /\ UNCHANGED <<objVars, lists, mutex, handle, mapVars, mainVars, task_list, loopVars,
                 sock, calls, hist>>

WriteFail(t) ==
  /\ At(t, "fail")
  /\ flags' = [flags EXCEPT ![th[t].c].read = set_update(th[t].c)]
  /\ WriteUnlock(t)
  /\ UNCHANGED <<objVars, lists, handle, mapVars, mainVars, task_list, loopVars, sock,
                 calls, hist>>

WriteAgain(t) ==         \* EAGAIN: return 0, EPOLLOUT is not asked for
  /\ At(t, "writev") /\ sock[th[t].c].peer # "reset" /\ sock[th[t].c].room = 0
  /\ WriteUnlock(t)
  /\ UNCHANGED <<objVars, flags, lists, handle, mapVars, mainVars, task_list, loopVars,
                 sock, calls, hist>>

WriteSome(t) ==
  LET c == th[t].c
      k == Min2(sock[c].room, Len(th[t].iov)) IN
  /\ At(t, "writev") /\ sock[c].peer # "reset" /\ sock[c].room > 0
  /\ sock' = [sock EXCEPT ![c].room = @ - k]
  /\ hist' = [hist EXCEPT ![c].wire = @ \o SubSeq(th[t].iov, 1, k)]
  /\ th' = [th EXCEPT ![t].n = k, ![t].iov = <<>>,
                      ![t].pc = IF k < Len(th[t].iov) THEN "watch_on" ELSE "pop"]
  /\ UNCHANGED <<objVars, flags, lists, mutex, handle, mapVars, mainVars, task_list,
                 loopVars, calls>>

(* What was sent leaves wait_write_list_. *)
WritePop(t) ==
  LET c == th[t].c IN
  /\ At(t, "pop")
  /\ lists' = [lists EXCEPT ![c].send = Drop(@, Min2(th[t].n, Len(@)))]
  /\ flags' = [flags EXCEPT ![c].read = @ \cup ForceIfReady(c)]
  /\ WriteUnlock(t)
  /\ UNCHANGED <<objVars, handle, mapVars, mainVars, task_list, loopVars, sock, calls,
                 hist>>

-----------------------------------------------------------------------------
(* watch_write and watch_read: event_flags_ is loaded, changed and stored   *)
(* without a lock, by the loop and by a worker, so load and store are two   *)
(* steps.  update_handle posts do_update_handle to the loop.                *)

get_handle(c) == handler_map[loop_of[c]][fd[c]] = c

(* A null handle ends watch_*; a worker or the loop then goes on.           *)
WatchReadLoad(l) ==      \* watch_read(0)
  /\ At(l, "watch_read")
  /\ th' = IF get_handle(th[l].c)
           THEN [th EXCEPT ![l].pc = "store_read", ![l].ev = handle[th[l].c].want]
           ELSE [th EXCEPT ![l] = Home(l)]
  /\ UNCHANGED <<objVars, flags, lists, mutex, handle, mapVars, mainVars, task_list,
                 loopVars, sock, calls, hist>>

WatchWriteLoad(t) ==     \* watch_write(0) or watch_write(1)
  \E on \in BOOLEAN :
    /\ At(t, IF on THEN "watch_on" ELSE "watch_off")
    /\ th' = IF get_handle(th[t].c)
             THEN [th EXCEPT ![t].pc = IF on THEN "store_on" ELSE "store_off",
                             ![t].ev = handle[th[t].c].want]
             ELSE [th EXCEPT ![t].pc = IF on THEN "pop" ELSE "try_lock"]
    /\ UNCHANGED <<objVars, flags, lists, mutex, handle, mapVars, mainVars, task_list,
                   loopVars, sock, calls, hist>>

update_handle(c) == funcs_write' = Posted(loop_of[c], [op |-> "update", c |-> c])

WatchReadOff(l) ==
  LET c == th[l].c IN
  /\ At(l, "store_read")
  /\ handle' = [handle EXCEPT ![c].want = th[l].ev \ {"IN"}]
  /\ update_handle(c)
  /\ Return(l)
  /\ UNCHANGED <<objVars, flags, lists, mutex, mapVars, mainVars, task_list, handler_map,
                 funcs_read, batch, sock, calls, hist>>

WatchWriteOff(l) ==      \* then write_data
  LET c == th[l].c IN
  /\ At(l, "store_off")
  /\ handle' = [handle EXCEPT ![c].want = th[l].ev \ {"OUT"}]
  /\ flags' = [flags EXCEPT ![c].waiting = FALSE]
  /\ update_handle(c)
  /\ th' = [th EXCEPT ![l].pc = "try_lock", ![l].ev = {}]
  /\ UNCHANGED <<objVars, lists, mutex, mapVars, mainVars, task_list, handler_map,
                 funcs_read, batch, sock, calls, hist>>

WatchWriteOn(t) ==       \* inside do_write_data
  LET c == th[t].c IN
  /\ At(t, "store_on")
  /\ handle' = [handle EXCEPT ![c].want = th[t].ev \cup {"OUT"}]
  /\ flags' = [flags EXCEPT ![c].waiting = TRUE]
  /\ update_handle(c)
  /\ th' = [th EXCEPT ![t].pc = "pop", ![t].ev = {}]
  /\ UNCHANGED <<objVars, lists, mutex, mapVars, mainVars, task_list, handler_map,
                 funcs_read, batch, sock, calls, hist>>

-----------------------------------------------------------------------------
(* The event loops: loop() alternates loop_func and loop_io                 *)

(* loop_func takes over what other threads have posted. *)
LoopSplice(l) ==
  /\ th[l].pc = "batch" /\ batch[l] = {}
  /\ funcs_read' = [funcs_read EXCEPT ![l] = @ \o funcs_write[l]]
  /\ funcs_write' = [funcs_write EXCEPT ![l] = <<>>]
  /\ Goto(l, "funcs")
  /\ UNCHANGED <<objVars, flags, lists, mutex, handle, mapVars, mainVars, task_list,
                 handler_map, batch, sock, calls, hist>>

NextFunc(l, op) == th[l].pc = "funcs" /\ funcs_read[l] # <<>> /\ Head(funcs_read[l]).op = op
FuncDone(l) == funcs_read' = [funcs_read EXCEPT ![l] = Tail(@)]

(* EPOLL_CTL_ADD and EPOLL_CTL_MOD look at the socket as it is: what is     *)
(* ready already counts as an edge.                                         *)
RegisterUnpolled(c) ==
  /\ handle' = [handle EXCEPT ![c].reg = handle[c].want]
  /\ sock' = [sock EXCEPT ![c].edge = {}]
Register(c) ==
  /\ handle' = [handle EXCEPT ![c].reg = handle[c].want]
  /\ sock' = [sock EXCEPT ![c].edge = Ready(c) \cap handle[c].want]

do_add_handle(l) ==
  LET c == Head(funcs_read[l]).c IN
  /\ NextFunc(l, "add")
  /\ IF handler_map[l][fd[c]] # NoConn     \* "REPEAT"
     THEN UNCHANGED <<handler_map, handle, sock>>
     ELSE /\ handler_map' = [handler_map EXCEPT ![l][fd[c]] = c]
          /\ Register(c)
  /\ FuncDone(l)
  /\ UNCHANGED <<objVars, flags, lists, mutex, mapVars, mainVars, task_list, funcs_write,
                 batch, th, calls, hist>>

(* epoll_ctl fails: the entry just made is erased and nobody is told. *)
AddHandleFails(l) ==
  /\ AddMayFail
  /\ NextFunc(l, "add")
  /\ handler_map[l][fd[Head(funcs_read[l]).c]] = NoConn
  /\ FuncDone(l)
  /\ UNCHANGED <<objVars, flags, lists, mutex, handle, mapVars, mainVars, task_list,
                 handler_map, funcs_write, batch, th, sock, calls, hist>>

do_update_handle(l) ==
  LET h == handler_map[l][fd[Head(funcs_read[l]).c]] IN
  /\ NextFunc(l, "update")
  /\ IF h = NoConn THEN UNCHANGED <<handle, sock>> ELSE Register(h)
  /\ FuncDone(l)
  /\ UNCHANGED <<objVars, flags, lists, mutex, mapVars, mainVars, task_list, handler_map,
                 funcs_write, batch, th, calls, hist>>

EraseNothing(l, f) == handler_map
EraseHandle(l, f) == [handler_map EXCEPT ![l][f] = NoConn]

(* ClientEntity::close: do_remove_handle, then remove_client whether or not *)
(* there was a handle.                                                      *)
close(l) ==
  LET c == Head(funcs_read[l]).c IN
  /\ NextFunc(l, "close")
  /\ handler_map' = EraseHandle(l, fd[c])
  /\ main_funcs' = Append(main_funcs, [op |-> "remove", c |-> c])
  /\ FuncDone(l)
  /\ UNCHANGED <<objVars, flags, lists, mutex, handle, mapVars, todo, fun_list, task_list,
                 funcs_write, batch, th, sock, calls, hist>>

(* epoll_wait, edge triggered: what is reported is what is ready now of the *)
(* events asked for.                                                        *)
loop_io(l) ==
  LET ours == {c \in Conns : \E f \in Fds : handler_map[l][f] = c}
      woken == {c \in ours : sock[c].edge \cap handle[c].reg # {}}
      events == {[c |-> c, ev |-> Ready(c) \cap handle[c].reg] : c \in woken} IN
  /\ th[l].pc = "funcs" /\ funcs_read[l] = <<>>
  /\ batch' = [batch EXCEPT ![l] = {e \in events : e.ev # {}}]
  /\ sock' = [c \in Conns |-> IF c \in woken THEN [sock[c] EXCEPT !.edge = {}] ELSE sock[c]]
  /\ Goto(l, "batch")
  /\ UNCHANGED <<objVars, flags, lists, mutex, handle, mapVars, mainVars, task_list,
                 handler_map, funcs_read, funcs_write, calls, hist>>

(* handle_event *)
handle_event(l, e) ==
  /\ th[l].pc = "batch" /\ e \in batch[l]
  /\ batch' = [batch EXCEPT ![l] = @ \ {e}]
  /\ th' = IF ready_close(e.c) THEN th
           ELSE IF "IN" \in e.ev
           THEN [th EXCEPT ![l].pc = "read_data", ![l].c = e.c, ![l].ev = e.ev]
           ELSE [th EXCEPT ![l].pc = "watch_off", ![l].c = e.c]
  /\ UNCHANGED <<objVars, flags, lists, mutex, handle, mapVars, mainVars, task_list,
                 handler_map, funcs_read, funcs_write, sock, calls, hist>>

(* read_data reads until EAGAIN, end of file or an error; an error throws   *)
(* away what this call has read; an end or an error is followed by          *)
(* close_write (here) and set_update (the next step).                       *)
read_data(l) ==
  LET c == th[l].c
      s == sock[c] IN
  /\ At(l, "read_data")
  /\ sock' = [sock EXCEPT ![c].inbox = <<>>]
  /\ flags' = [flags EXCEPT ![c].shut = IF s.peer = "open" THEN @ ELSE @ \cup {"NOWRITE"}]
  /\ th' = [th EXCEPT ![l].buf = IF s.peer = "reset" THEN <<>> ELSE s.inbox,
                      ![l].n = IF s.peer = "open" THEN 0 ELSE 1,
                      ![l].pc = IF s.peer = "open" THEN "push_recv" ELSE "set_update"]
  /\ UNCHANGED <<objVars, lists, mutex, handle, mapVars, mainVars, task_list, loopVars,
                 calls, hist>>

ReadEnded(l) ==
  /\ At(l, "set_update")
  /\ flags' = [flags EXCEPT ![th[l].c].read = set_update(th[l].c)]
  /\ Goto(l, "push_recv")
  /\ UNCHANGED <<objVars, lists, mutex, handle, mapVars, mainVars, task_list, loopVars,
                 sock, calls, hist>>

(* The read_mutex_ section of read_data, and where handle_event goes next. *)
PushRecv(l) ==
  LET c == th[l].c
      p == IF th[l].n = 1 THEN "watch_read"
           ELSE IF "OUT" \in th[l].ev THEN "watch_off" ELSE "batch" IN
  /\ At(l, "push_recv")
  /\ IF th[l].buf = <<>> THEN UNCHANGED <<lists, flags>>
     ELSE /\ lists' = [lists EXCEPT ![c].recv = @ \o th[l].buf]
          /\ flags' = [flags EXCEPT ![c].read = set_update(c)]
  /\ th' = [th EXCEPT ![l] = [Home(l) EXCEPT !.pc = p,
                                             !.c = IF p = "batch" THEN NoConn ELSE c]]
  /\ UNCHANGED <<objVars, mutex, handle, mapVars, mainVars, task_list, loopVars, sock,
                 calls, hist>>

-----------------------------------------------------------------------------
(* User threads: push_send_pack and close_client, given an fd_key k         *)

PushLookup(u, k) ==      \* get_fd
  /\ th[u].pc = "idle" /\ connect_map[k] # 0 /\ calls[k].push < MaxPush
  /\ calls' = [calls EXCEPT ![k].push = @ + 1]
  /\ th' = [th EXCEPT ![u].pc = "push_fd", ![u].n = connect_map[k],
                      ![u].iov = <<[key |-> k, no |-> calls[k].push + 1]>>]
  /\ UNCHANGED <<objVars, flags, lists, mutex, handle, mapVars, mainVars, task_list,
                 loopVars, sock, hist>>

PushClient(u) ==         \* get_client
  /\ th[u].pc = "push_fd"
  /\ th' = IF client_map[th[u].n] = NoConn THEN [th EXCEPT ![u] = Home(u)]
           ELSE [th EXCEPT ![u].pc = "push_client", ![u].c = client_map[th[u].n],
                           ![u].n = 0]
  /\ UNCHANGED <<objVars, flags, lists, mutex, handle, mapVars, mainVars, task_list,
                 loopVars, sock, calls, hist>>

PushCheck(u) ==          \* ClientEntity::push_send_pack, its first test
  /\ At(u, "push_client")
  /\ IF ready_close(th[u].c) THEN Return(u) ELSE Goto(u, "push_pack")
  /\ UNCHANGED <<objVars, flags, lists, mutex, handle, mapVars, mainVars, task_list,
                 loopVars, sock, calls, hist>>

push_send_pack(u) ==     \* the write_mutex_ section
  LET c == th[u].c IN
  /\ At(u, "push_pack")
  /\ lists' = [lists EXCEPT ![c].pack = @ \o th[u].iov]
  /\ flags' = [flags EXCEPT ![c].write = @ \cup {"NEXT"}]
  /\ hist' = [hist EXCEPT ![c].accepted = @ \o th[u].iov]
  /\ Return(u)
  /\ UNCHANGED <<objVars, mutex, handle, mapVars, mainVars, task_list, loopVars, sock,
                 calls>>

CloseLookup(u, k) ==     \* get_fd
  /\ th[u].pc = "idle" /\ connect_map[k] # 0 /\ calls[k].close < MaxClose
  /\ calls' = [calls EXCEPT ![k].close = @ + 1]
  /\ th' = [th EXCEPT ![u].pc = "close_fd", ![u].n = connect_map[k],
                      ![u].iov = <<[key |-> k, no |-> 0]>>]
  /\ UNCHANGED <<objVars, flags, lists, mutex, handle, mapVars, mainVars, task_list,
                 loopVars, sock, hist>>

CloseClient(u) ==        \* get_client
  LET d == client_map[th[u].n] IN
  /\ th[u].pc = "close_fd"
  /\ th' = [th EXCEPT ![u].pc = IF d = NoConn THEN "remove_fd" ELSE "close_read",
                      ![u].c = d, ![u].n = 0]
  /\ UNCHANGED <<objVars, flags, lists, mutex, handle, mapVars, mainVars, task_list,
                 loopVars, sock, calls, hist>>

close_read(u) ==         \* waits for a running callback
  LET c == th[u].c IN
  /\ At(u, "close_read") /\ mutex[c].callback = NoThread
  /\ flags' = [flags EXCEPT ![c].shut = @ \cup {"NOREAD"}]
  /\ th' = [th EXCEPT ![u].pc = "remove_fd", ![u].c = NoConn]
  /\ UNCHANGED <<objVars, lists, mutex, handle, mapVars, mainVars, task_list, loopVars,
                 sock, calls, hist>>

remove_fd(u) ==
  /\ th[u].pc = "remove_fd"
  /\ connect_map' = [connect_map EXCEPT ![Head(th[u].iov).key] = 0]
  /\ Return(u)
  /\ UNCHANGED <<objVars, flags, lists, mutex, handle, client_map, mainVars, task_list,
                 loopVars, sock, calls, hist>>

-----------------------------------------------------------------------------
PeerStep ==
  \E c \in Conns : PeerSend(c) \/ PeerDrain(c) \/ \E how \in PeerMayEnd : PeerEnd(c, how)

PostedStep == (\E c \in Conns, l \in Loops : DoAddClient(c, l)) \/ DoRemoveClient

TickStep ==
  \/ TickStart \/ TickEnd
  \/ \E c \in Conns : TickClient(c)
  \/ TickRead \/ handle_update \/ TickWrite \/ handle_write_update

WriteStep(t) ==
  \/ WriteBusy(t) \/ WriteLock(t) \/ WriteNothing(t) \/ WriteGather(t)
  \/ WriteError(t) \/ WriteFail(t) \/ WriteAgain(t) \/ WriteSome(t)
  \/ WatchWriteLoad(t) \/ WatchWriteOn(t) \/ WritePop(t)

WorkerStep(w) ==
  \/ RequireTask(w) \/ req_close(w) \/ timeout_send(w) \/ WriteStep(w)
  \/ handle_unpack(w) \/ UnpackNothing(w) \/ UnpackSplice(w) \/ UnpackPartial(w)
  \/ \E i \in 1 .. Len(Script) : UnpackFrame(w, i)
  \/ CallbackStart(w) \/ CallbackEnd(w) \/ UnpackBad(w) \/ UnpackBadClose(w)

LoopStep(l) ==
  \/ LoopSplice(l) \/ do_add_handle(l) \/ AddHandleFails(l) \/ do_update_handle(l)
  \/ close(l) \/ loop_io(l) \/ \E e \in batch[l] : handle_event(l, e)
  \/ read_data(l) \/ ReadEnded(l) \/ PushRecv(l)
  \/ WatchReadLoad(l) \/ WatchReadOff(l) \/ WatchWriteOff(l) \/ WriteStep(l)

CallStep(u) ==
  \/ PushClient(u) \/ PushCheck(u) \/ push_send_pack(u)
  \/ CloseClient(u) \/ close_read(u) \/ remove_fd(u)

UserStep(u) ==
  \/ \E k \in Conns : PushLookup(u, k) \/ CloseLookup(u, k)
  \/ CallStep(u)

Next ==
  \/ \E c \in Conns, f \in Fds : Accept(c, f)
  \/ PeerStep \/ PostedStep \/ TickStep
  \/ \E w \in Workers : WorkerStep(w) \/ CallbackCloses(w)
  \/ \E l \in Loops : LoopStep(l)
  \/ \E u \in Users : UserStep(u)

Spec == Init /\ [][Next]_vars

(* What the scheduler owes: every thread runs, the timer ticks, and a       *)
(* function posted to main_thread_ has its turn among the ticks, its list   *)
(* being first in first out.  Peers owe nothing but to read what we send.   *)
Fairness ==
  /\ WF_vars(TickStep) /\ SF_vars(PostedStep)
  /\ \A w \in Workers : WF_vars(WorkerStep(w))
  /\ \A l \in Loops : WF_vars(LoopStep(l))
  /\ \A u \in Users : WF_vars(CallStep(u))
  /\ \A c \in Conns : WF_vars(PeerDrain(c))

FairSpec == Spec /\ Fairness
-----------------------------------------------------------------------------
(* Properties *)

FuncOps == {"add", "update", "close"}
TaskOps == {"unpack", "send", "close"}
MainPcs == {"idle", "scan", "test_read", "mark_read", "test_write", "mark_write"}
WritePcs == {"try_lock", "gather", "writev", "fail", "watch_on", "store_on", "pop"}
WorkerPcs == {"idle", "splice", "parse", "finish", "callback", "bad"} \cup TaskOps \cup WritePcs
LoopPcs == {"batch", "funcs", "read_data", "set_update", "push_recv", "watch_read",
            "store_read", "watch_off", "store_off"} \cup WritePcs
UserPcs == {"idle", "push_fd", "push_client", "push_pack", "close_fd", "close_read",
            "remove_fd"}
Events == {"IN", "OUT"}

FlagsT == [read : SUBSET {"CLOSE", "NEXT", "HANDLE"}, write : SUBSET {"NEXT", "HANDLE"},
           shut : SUBSET {"NOREAD", "NOWRITE"}, closed : BOOLEAN, waiting : BOOLEAN]
ListsT == [recv : Seq(Segments), unpack : Seq(Segments),
           pack : Seq(Packets), send : Seq(Packets)]
MutexT == [unpack : Workers \cup {NoThread}, send : Workers \cup Loops \cup {NoThread},
           callback : Workers \cup {NoThread}]
HandleT == [want : SUBSET Events, reg : SUBSET Events]
SockT == [inbox : Seq(Segments), sent : Nat, peer : {"open", "fin", "reset"}, room : Nat,
          edge : SUBSET Events]
CallsT == [push : 0 .. MaxPush, close : 0 .. MaxClose]
HistT == [wire : Seq(Packets), accepted : Seq(Packets), parsed : Seq(Segments),
          cleared : BOOLEAN, late : Nat]
MainFuncT == [op : {"add", "remove"}, c : Conns]
TaskT == [op : TaskOps, c : Conns]
LoopFuncT == [op : FuncOps, c : Conns]
EventT == [c : Conns, ev : SUBSET Events]
ThreadT == [pc : MainPcs \cup WorkerPcs \cup LoopPcs \cup UserPcs, c : Conns \cup {NoConn},
            buf : Seq(Segments), iov : Seq(Packets), n : Nat, ev : SUBSET Events]

(* A thread stands where its own code can take it, and has what it needs    *)
(* there.                                                                   *)
LocalOK(t, r) ==
  /\ r \in ThreadT
  /\ t = Main => r.pc \in MainPcs /\ (r.pc \notin {"idle", "scan"} => r.c \in Conns)
  /\ t \in Workers => r.pc \in WorkerPcs
  /\ t \in Loops => r.pc \in LoopPcs
  /\ t \in Users => r.pc \in UserPcs /\ (r.pc \in {"push_fd", "close_fd"} => r.n \in Fds)

ObjOK ==
  /\ stage \in [Conns -> {"none", "adding", "live", "dead"}]
  /\ fd \in [Conns -> Fds \cup {0}]
  /\ loop_of \in [Conns -> Loops \cup {NoThread}]
MapOK ==
  /\ client_map \in [Fds -> Conns \cup {NoConn}]
  /\ connect_map \in [Conns -> Fds \cup {0}]
MainOK == main_funcs \in Seq(MainFuncT) /\ todo \in SUBSET Conns /\ fun_list \in Seq(TaskT)
LoopOK ==
  /\ handler_map \in [Loops -> [Fds -> Conns \cup {NoConn}]]
  /\ funcs_write \in [Loops -> Seq(LoopFuncT)]
  /\ funcs_read \in [Loops -> Seq(LoopFuncT)]
  /\ batch \in [Loops -> SUBSET EventT]
ThreadsOK == th \in [Threads -> ThreadT] /\ \A t \in Threads : LocalOK(t, th[t])

(* Every variable has the shape its class in the code gives it, and every   *)
(* thread is at a point its code has, with the locals that point uses.      *)
TypeOK ==
  /\ ObjOK /\ MapOK /\ MainOK /\ LoopOK /\ ThreadsOK
  /\ flags \in [Conns -> FlagsT]
  /\ lists \in [Conns -> ListsT]
  /\ mutex \in [Conns -> MutexT]
  /\ handle \in [Conns -> HandleT]
  /\ task_list \in Seq(TaskT)
  /\ sock \in [Conns -> SockT]
  /\ calls \in [Conns -> CallsT]
  /\ hist \in [Conns -> HistT]

Live(c) == stage[c] = "live"
InSeq(x, s) == \E i \in 1 .. Len(s) : s[i] = x
Inside(t, c) == th[t].c = c
Count(s, x) == Cardinality({i \in 1 .. Len(s) : s[i] = x})

(* An event that epoll has returned and the loop has not dispatched yet is  *)
(* for a client that still exists and whose handle is still the one in      *)
(* handler_map_ (ClientEntity.cpp:107 asserts that the descriptors agree),  *)
(* and a loop is never inside a client that has been destroyed.             *)
EventsReachLiveClients ==
  \A l \in Loops :
    /\ \A e \in batch[l] : Live(e.c) /\ handler_map[l][fd[e.c]] = e.c
    /\ th[l].c # NoConn => Live(th[l].c)

(* main_thread_ is asked to remove a client by descriptor; when it gets to  *)
(* it, the descriptor still names the client that was closed, never one     *)
(* accepted on the same descriptor since, and no handle is left behind.     *)
RemoveFindsOwner ==
  \A i \in 1 .. Len(main_funcs) :
    LET c == main_funcs[i].c IN
      main_funcs[i].op = "remove" =>
        /\ client_map[fd[c]] = c /\ Live(c) /\ flags[c].closed
        /\ \A l \in Loops : handler_map[l][fd[c]] = NoConn
        /\ \A j \in 1 .. Len(main_funcs) :
             j # i => main_funcs[j] # main_funcs[i]

(* A handle is added to a loop only while its descriptor is unknown there:  *)
(* the "REPEAT" branch of do_add_handle, which would leave the connection   *)
(* unregistered for ever, is not reached even when descriptors are reused.  *)
AddFindsNoOwner ==
  \A l \in Loops, c \in Conns :
    InSeq([op |-> "add", c |-> c], funcs_read[l] \o funcs_write[l]) =>
      Live(c) /\ \A k \in Loops : handler_map[k][fd[c]] = NoConn

(* The pool is first in first out and req_close is the last task a client   *)
(* gets, so no queued task refers to a destroyed client (a task that is     *)
(* already running may).                                                    *)
QueuedTasksAreLive ==
  /\ \A i \in 1 .. Len(task_list) : Live(task_list[i].c)
  /\ \A i \in 1 .. Len(fun_list) : Live(fun_list[i].c)
  /\ \A c \in todo : Live(c)
  /\ th[Main].c # NoConn => Live(th[Main].c)

(* The unpack tasks of c that have not spliced recv_list_ yet.              *)
Pending(c) ==
  Count(fun_list \o task_list, [op |-> "unpack", c |-> c])
    + Cardinality({w \in Workers : Inside(w, c) /\ th[w].pc \in {"unpack", "splice"}})
Unpacking(c) == {w \in Workers : Inside(w, c) /\ th[w].pc \in {"parse", "finish", "callback", "bad"}}

(* FLAG_HANDLE means what do_send_timeout takes it to mean: one unpack task *)
(* of this client is on its way and has not looked at the input yet.  A     *)
(* client therefore never holds more than two workers in handle_unpack.     *)
UnpackScheduledOnce ==
  \A c \in Conns : Live(c) /\ ~flags[c].closed =>
    /\ Pending(c) = (IF "HANDLE" \in flags[c].read THEN 1 ELSE 0)
    /\ Cardinality(Unpacking(c)) <= 1

(* Input is never forgotten: while recv_list_ holds something FLAG_NEXT is  *)
(* up, and what is left in unpack_list_ has FLAG_NEXT up or a worker that   *)
(* will put it up.                                                          *)
NoLostInput ==
  \A c \in Conns : Live(c) /\ ~flags[c].closed =>
    /\ lists[c].recv # <<>> => "NEXT" \in flags[c].read
    /\ lists[c].unpack # <<>> => "NEXT" \in flags[c].read \/ Unpacking(c) # {}

(* Nor is the end of a connection: after close_write, unless the user has   *)
(* shut reading, there is always somebody who will get to force_close.      *)
NoLostClose ==
  \A c \in Conns : Live(c) /\ ~flags[c].closed /\ flags[c].shut = {"NOWRITE"} =>
    \/ {"CLOSE", "NEXT"} \cap flags[c].read # {}
    \/ Pending(c) > 0 \/ Unpacking(c) # {}
    \/ \E t \in Loops \cup Workers : Inside(t, c) /\ th[t].pc \in {"set_update", "fail"}

(* What the loop has read of c and not yet put on recv_list_.               *)
InHand(c) == IF \E l \in Loops : Inside(l, c) /\ th[l].pc \in {"set_update", "push_recv"}
             THEN th[CHOOSE l \in Loops : Inside(l, c) /\ th[l].pc \in {"set_update", "push_recv"}].buf
             ELSE <<>>

(* Nothing the peer sends is lost, repeated or reordered on its way to      *)
(* message_callback_, as long as the connection is neither reset nor fed a  *)
(* bad length.                                                              *)
StreamIn ==
  \A c \in Conns : Live(c) /\ ~hist[c].cleared /\ sock[c].peer # "reset" =>
    hist[c].parsed \o lists[c].unpack \o lists[c].recv \o InHand(c) \o sock[c].inbox
      = SubSeq(Script, 1, sock[c].sent)

(* Thread t is inside do_write_data of c. *)
Writing(t, c) == Inside(t, c) /\ th[t].pc \in WritePcs \ {"try_lock"}

(* One thread at a time is inside do_write_data, and it is the one that     *)
(* holds send_mutex_; what it is about to hand to writev is the list as it  *)
(* stands, and what it has handed over is still at the head of it, although *)
(* the lists belong to other mutexes.                                       *)
WriterOK(c, t) ==
  /\ mutex[c].send = t <=> Writing(t, c)
  /\ Writing(t, c) /\ Live(c) /\ ~hist[c].cleared =>
       /\ th[t].pc = "writev" => th[t].iov = lists[c].send
       /\ th[t].pc \in {"watch_on", "store_on", "pop"} => th[t].n <= Len(lists[c].send)
OneWriter == \A c \in Conns, t \in Workers \cup Loops : WriterOK(c, t)

(* How many packets at the head of wait_write_list_ are on the wire already *)
OnWire(c) ==
  IF mutex[c].send # NoThread /\ th[mutex[c].send].pc \in {"watch_on", "store_on", "pop"}
  THEN th[mutex[c].send].n ELSE 0

(* Nor is anything lost, repeated or reordered between push_send_pack and   *)
(* the socket, whoever writes.                                              *)
OutOK(c) ==
  Live(c) /\ ~hist[c].cleared =>
    hist[c].wire \o Drop(lists[c].send, OnWire(c)) \o lists[c].pack = hist[c].accepted
StreamOut == \A c \in Conns : OutOK(c)

(* A connection is handed to do_add_client once, and before that nobody has *)
(* put anything on its lists or locked it; client_map_ names live clients   *)
(* only, each by its own descriptor.                                        *)
AddedOnce ==
  \A i \in 1 .. Len(main_funcs) : main_funcs[i].op = "add" =>
    /\ stage[main_funcs[i].c] = "adding"
    /\ \A j \in 1 .. Len(main_funcs) : main_funcs[j] = main_funcs[i] => j = i
MapNamesLive ==
  \A f \in Fds : client_map[f] # NoConn =>
    Live(client_map[f]) /\ fd[client_map[f]] = f
Untouched(c) ==
  stage[c] \in {"none", "adding"} =>
    /\ mutex[c].send = NoThread /\ lists[c].send = <<>> /\ lists[c].pack = <<>>
    /\ hist[c].wire = <<>> /\ hist[c].accepted = <<>>

(* The two properties above with what they rest on, inductive together: a   *)
(* client becomes live once, empty, and under one descriptor.               *)
WriteInv ==
  /\ AddedOnce /\ MapNamesLive
  /\ \A c \in Conns : Untouched(c)
  /\ OneWriter /\ StreamOut

(* A packet reaches a connection other than the one its key was given to    *)
(* only when that one is gone and its descriptor was handed out again: the  *)
(* key stays in connect_map_ until close_client removes it.                 *)
MisdeliveredAfterDeath ==
  \A c \in Conns : \A i \in 1 .. Len(hist[c].accepted) :
    LET k == hist[c].accepted[i].key IN k # c => stage[k] = "dead" /\ fd[k] = fd[c]

(* After close_client has returned no frame is delivered but those already  *)
(* on their way, and those are two at most: one worker before               *)
(* callback_mutex_ and one task scheduled behind it.                        *)
AtMostTwoLateCallbacks == \A c \in Conns : hist[c].late <= 2

(* A connection whose end has been seen is destroyed, unless close_client   *)
(* intervenes.                                                              *)
FinReclaims ==
  \A c \in Conns :
    (Live(c) /\ "NOWRITE" \in flags[c].shut)
      ~> (stage[c] = "dead" \/ "NOREAD" \in flags[c].shut)

(* Everything a connected peer has sent is unpacked, unless the connection  *)
(* is shut in either direction.                                             *)
InputIsUnpacked ==
  \A c \in Conns :
    (Live(c) /\ sock[c].inbox # <<>>)
      ~> (stage[c] = "dead" \/ ready_close(c) \/ hist[c].cleared
          \/ hist[c].parsed = SubSeq(Script, 1, sock[c].sent))

(* example/tcp/main.cpp echoes every message with push_send_data and        *)
(* example/tcp/client.erl waits for the echo before it sends again: a       *)
(* packet push_send_pack has taken is written, unless the connection ends.  *)
AcceptedIsWritten ==
  \A c \in Conns :
    (Live(c) /\ hist[c].wire # hist[c].accepted)
      ~> (stage[c] = "dead" \/ ready_close(c) \/ hist[c].cleared
          \/ hist[c].wire = hist[c].accepted)

(* A length that is not positive ends the connection.                       *)
BadFrameReclaims == \A c \in Conns : hist[c].cleared ~> stage[c] = "dead"

(* A send task do_send_timeout has scheduled is carried out: FLAG_HANDLE    *)
(* comes down again, as is_write_update needs it to for the next packet.    *)
ScheduledSendRuns ==
  \A c \in Conns :
    (Live(c) /\ "HANDLE" \in flags[c].write)
      ~> (stage[c] = "dead" \/ ready_close(c) \/ hist[c].cleared
          \/ "HANDLE" \notin flags[c].write)
=============================================================================
