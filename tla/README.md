# A verification project for SimpleCommunication

SimpleCommunication is a small C++ library for TCP servers and clients: event
loops on epoll, a pool of worker threads that cuts the byte stream into frames
and writes packets, and the queues, pools and log that hold it together.  This
directory models it in TLA+, checks the models with TLC and proves theorems
about them with TLAPS.  Paths below are relative to the repository.

## 1. Inventory

### Threads

One `TcpManager` runs
- `acceptor_loop_`: accepts connections and has the timer that ticks every millisecond;
- `socket_loop_[i]`: one or more event loops, each reading and writing its own connections;
- `main_thread_` (a `TaskThread`): owns `client_map_`, adds and removes clients, and
  on every tick looks through all clients for work (`do_send_timeout`);
- `packer_thread_` (a `ThreadPool` of eight): runs `handle_unpack`, `timeout_send`
  and `req_close`;

and user threads call in with a key (`push_send_pack`, `close_client`); the message
callback runs on a worker and may call in too.

### Components

| component | state it keeps | operations | what makes it correct |
|---|---|---|---|
| ClientEntity | flag words `read_flag_`, `write_flag_`, `close_flag_`; `close_`, `wait_write_`; four buffer lists; the frame being built | `handle_event`, `read_data`, `handle_unpack`, `timeout_send`, `write_data`, `push_send_pack`, `close`, `watch_read/write` | bytes and packets keep their order and are neither lost nor repeated; flags agree with the work in flight; an ended connection is destroyed |
| TcpManager | `client_map_`, `connect_map_`, `fd_key_`, pools | `add_client`, `remove_client`, `do_send_timeout`, `push_send_pack`, `close_client`, `start`, `stop` | a key reaches its connection and no other; a client is removed once, and only when nothing queued refers to it |
| EventManager | `handler_map_`, posted functions, epoll set, `quit_` | `add_handle`, `update_handle`, `remove_handle`, `loop` | events reach live handlers; readiness is not lost |
| EventHandle | descriptor, callback, `event_flags_` | `bind`, `run_func`, `recycle_self` | flags asked for are flags registered |
| ThreadPool | `task_list_`, `threads_`, `running_` | `accept_task`, `accept_task_list`, `start`, `stop` | first in first out; every accepted task runs while it is running; stop ends |
| TaskThread | two function lists, condition variable, `running_` | `run_in_thread`, `start`, `stop` | posted functions run in order, each once; stop ends |
| Thread | pthread id, `init_` | `init_func`, `start`, `stop` | joined once |
| TcpServer, TcpClient | listening sockets; `running_` | `handle_accept`, `connect` | every accepted socket becomes one client |
| Buffer | bytes, read and write index | `append`, `peek*`, `read*`, `set_*_index` | 0 <= read <= write <= size; what is read is what was written |
| ObjectPool | blocks of free objects | `pop`, `push`, `shrink`, `free_all` | an object is out once; memory is freed only when no object of it is out |
| Log, LogFile | two message lists, condition variable, file | `log_info`, `loop_write`, `start`, `stop` | messages keep their order; none is lost |
| Timestamp | seconds, microseconds | `normalize`, `+`, `-`, comparisons | normal form |

### What is hard here

- One connection is touched by its loop, by several workers, by `main_thread_` and by
  users, mostly through flag words that are tested in one step and changed in another.
- Nothing is woken by work arriving: `do_send_timeout` polls flags, so a flag left in
  the wrong state means work that is never done.
- epoll is edge triggered and is told what to report through functions posted to the loop.
- Descriptors are reused by the kernel at once, while clients are removed by descriptor
  through two queues.
- Objects come from pools and are destroyed while other threads may hold pointers to them.

`PROJECT.json` lists the hazards line by line with the properties that cover them.


## 2. Modules

| module | models | composed with | proofs in |
|---|---|---|---|
| `TcpCore` | ClientEntity, and what of TcpManager, EventManager, EventHandle, TcpServer and the two queues it runs on | - | `TcpCoreProofs`, `TcpInputProofs` |
| `Executor` | abstract: what a queue of functions promises | - | - |
| `TaskThread` | TaskThread | implements `Executor` | `ThreadProofs` |
| `ThreadPool` | ThreadPool | implements `Executor` | `ThreadProofs` |
| `ManagerLife` | TcpManager::start and stop, EventManager's loop and quit_, the timer, who posts new clients (`TcpServer::handle_accept`, `TcpClient::connect`) | instances of `TaskThread` and `ThreadPool` | `ManagerLifeProofs` |
| `FrameStream` | abstract: what a stream of bytes promises the message callback | - | `FramesProofs` |
| `Buffer` | Buffer: its bytes and two indices, as operators | - | `FramesProofs` |
| `Frames` | the bytes of one direction: push_send_pack, do_write_data, the socket, read_data, do_handle_unpack | an instance of `Buffer`; implements `FrameStream` | `FramesProofs` |
| `ObjectPool` | ObjectPool | - | `ObjectPoolProofs` |
| `LogThread` | Log, and Thread's messages | an instance of `ObjectPool`; implements `Executor` | `LogThreadProofs` |
| `LogFile` | LogFile: one FILE, its buffer and its size | - | - |
| `LogOutput` | Log::start and the log thread with their file | extends `LogThread`, with an instance of `LogFile` | `LogThreadProofs` |
| `QueueLemmas` | facts about sequences the proofs share, and induction over numbers and sequences | - | (itself) |

`MCTcpCore`, `MCThreadPool`, `MCManagerLife` and `MCFrames` only name constants for TLC.  An operator
that is a wrong version of the one after it (`ValidBeyond` before `valid`) is there to show
that a property notices; `PROJECT.json` pairs them under "mutants" and no action uses one.

### TcpCore

One connection is one element of `Conns` and is identified with its `fd_key`.  The fields
of a ClientEntity are functions on `Conns`: `flags[c]` holds `read_flag_`, `write_flag_`,
`close_flag_`, `close_` and `wait_write_`, `lists[c]` the four lists, `mutex[c]` the three
mutexes that are held from one step to another.  `th[t]` says where thread `t` stands and
holds its locals.  Each `std::list` of functions is a sequence of `[op, c]`.

A step is a stretch of code that takes no lock it does not give back, or one test or one
update of a shared flag, so a flag can change between the test that allows an update and
the update (`TickRead` then `handle_update`), and between the load and the store of
`event_flags_` (`WatchReadLoad`, `WatchReadOff`).  The actions by thread:

| thread | code | actions |
|---|---|---|
| main_thread_ | do_add_client, do_remove_client | `DoAddClient`, `DoRemoveClient` |
| | do_send_timeout | `TickStart`, `TickClient`, `TickRead`, `handle_update`, `TickWrite`, `handle_write_update`, `TickEnd` |
| worker | require_task | `RequireTask` |
| | req_close | `req_close` |
| | handle_unpack, do_handle_unpack, finish_unpack | `handle_unpack`, `UnpackNothing`, `UnpackSplice`, `UnpackFrame`, `CallbackStart`, `CallbackCloses`, `CallbackEnd`, `UnpackPartial`, `UnpackBad`, `UnpackBadClose` |
| worker, loop | write_data, do_write_data, watch_write | `timeout_send`, `WriteBusy` ... `WritePop`, `WatchWriteLoad`, `WatchWriteOn`, `WatchWriteOff` |
| loop | loop_func, do_add_handle, do_update_handle, do_remove_handle | `LoopSplice`, `do_add_handle`, `AddHandleFails`, `do_update_handle`, `close` |
| | loop_io, handle_event, read_data, watch_read | `loop_io`, `handle_event`, `read_data`, `ReadEnded`, `PushRecv`, `WatchReadLoad`, `WatchReadOff` |
| acceptor | handle_accept | `Accept` |
| user | push_send_pack, close_client | `PushLookup`, `PushClient`, `PushCheck`, `push_send_pack`, `CloseLookup`, `CloseClient`, `close_read`, `remove_fd` |
| peer, kernel | - | `PeerSend`, `PeerEnd`, `PeerDrain` |

Abstractions.
- The byte stream is cut into segments: "part" leaves a frame incomplete, "last" completes
  one, "bad" is a header whose length is not positive.  A packet to send is one unit.
- `DoAddClient` gives a connection to any loop, where the code goes round.
- A tick may run whenever main_thread_ has nothing else in hand.
- A thread inside a ClientEntity that gets destroyed takes no further step: what the code
  does from there is undefined.  `QueuedTasksAreLive` and `EventsReachLiveClients` bound where
  this can happen: to tasks already running and users between look-up and call.
- A callback that closes its connection is `CallbackCloses`; the pushes of callbacks are
  those of users.  Recycled EventHandles are not modelled; callbacks that throw and an
  `iovec` array longer than IOV_MAX are in `Frames`.
- `hist` and `calls` are history: what was sent, accepted, unpacked, and how many calls
  were made.

### Buffer, Frames and FrameStream

`Frames` takes apart what `TcpCore` takes for units.  A packet is bytes behind a key, a
`Buffer` is `[bytes, read_index]` (what lies behind the write index is never read), and the
socket hands on bytes with no regard for where a packet or a frame ends.  A byte is a number
below `Base`; the width of a length and of a key are parameters, and a length is a signed
number, as `peekInt32` makes it: `Signed` folds its bytes behind the sign bits, which are all
set or all clear.  The variables are named after the fields.

| code | actions |
|---|---|
| TcpManager::push_send_pack (readInt64), ClientEntity::push_send_pack | `push_send_pack` |
| do_write_data: one writev that takes a part, nothing, or fails | `WriteSome`, `WriteAgain`, `WriteError` |
| read_data: one readv; EAGAIN or end of stream; an error | `ReadSome`, `ReadEnd`, `ReadError` |
| do_handle_unpack, one round of its loop each | `UnpackNothing`, `UnpackSplice`, `UnpackLenPart`, `UnpackDataPart`, `UnpackFrame`, `UnpackBad`, `UnpackEnd` |
| finish_unpack and message_callback_, which may throw | `CallbackReturns`, `CallbackThrows` |
| do_send_timeout at a client with FLAG_CLOSE | `set_close` |
| the sender's end of the connection | `SenderEnds` |

Each end does one thing of a kind at a time; that the threads see to this is what `TcpCore`
shows.  Two details of the code the model keeps: the loop over the written packets ends with
the bytes, so an empty Buffer behind them stays on the list; and `need_data_len`, once
negative, is a huge `size_t` to `is_readable` (`DataIsThere`).  It gets negative after a
callback that throws: `cur_unpcak_` keeps the whole frame, and the next task parses it again
from wherever the callback had read to.  `FrameStream` says what is left of the promise then:
the same frame again, alone or with the one behind it (`DeliverAgain`), and nothing out of
order.

### LogFile and LogOutput

A line is the unit of size.  `buffered` counts the lines that are in `buffer_` and not in a
file.  `init` opens a FILE and leaves the one before it open, so what was buffered for that
one is overwritten: `orphans` remembers it.  `LogOutput` puts the file under the log thread:
every `start` is an `init`, every `LoopWrite` an `append`.

### TaskThread, ThreadPool and ManagerLife

`TaskThread.loop` waits on its condition variable without looking at its list, and `stop`
notifies without the lock.  So on its own a TaskThread may sleep over a function that has
been posted, or hang in `stop`; `ManagerLife` shows that in a TcpManager the timer's posts
always wake it.  `TaskThread` and `ThreadPool` have the same three parts: any thread that
posts, an owner that starts and stops, and the threads themselves.  Critical sections that
never wait are one step.

`ThreadPool` has one owner and one caller who may be at it at the same time, because
`accept_task_list` reads `threads_` without a lock; `direct` remembers whether the caller
has ever run a task itself.

`ManagerLife` puts one `TaskThread` and one `ThreadPool` beside the event loops and takes
the thread that calls `TcpManager::start` and `stop` through them in the order of the code.
The acceptor's loop runs the timer's handler (`LoopPosts`) and `handle_accept`, which goes on
accepting without a look at `quit_` (`AcceptBegin`, `AcceptOne`, `AcceptEnds`);
`TcpClient::connect` posts from the thread that started the manager.
It follows one life: `stop_loop` empties `events_`, and what `epoll_wait` does with no
room after a second start cannot be said.  It assumes that the timer of `start` could be
made.

### ObjectPool and LogThread

An object takes one address, a block the addresses from `_begin` to `_end`.  `IsFresh` is
malloc's promise.  `pop`, `push` and `free_all` are one step each; `shrink` is stepped
through block by block, with everybody else held out by `iter`, because its loop does not
always end.  A push of an object that is not out is the caller's mistake and not modelled.

In `LogThread` a user takes a buffer (`UserBegin`), fills it and pushes it (`UserPush`); the
log thread takes `write_list_` over (`LoopSplice`) and writes (`LoopWrite`).  Starting and
stopping a Thread logs as well, and it is the message of `Thread::stop`, not the notify of
`Log::stop`, that makes sure the log thread wakes up.  Messages of the owner and of the log
thread are one step.  The text is left out; the file is in `LogOutput`.

## 3. Runs

| run | instance | what it shows |
|---|---|---|
| `TcpWrite` | 1 connection, 2 workers, 1 loop, 1 user, 3 packets, a send buffer of 1, resets, a close | `TypeOK`; one writer at a time (`OneWriter`); output in order (`StreamOut`) |
| `TcpRead` | 1 connection, 3 workers, 4 segments, end of stream and reset, a close | FLAG_HANDLE is up exactly while one unpack task is on its way (`UnpackScheduledOnce`); neither input nor the end of a connection is forgotten (`NoLostInput`, `NoLostClose`); input in order (`StreamIn`); at most two callbacks after close_client (`AtMostTwoLateCallbacks`) |
| `TcpReuse` | 2 connections on one descriptor, 2 loops, 1 worker, a packet per key, EPOLL_CTL_ADD may fail | nothing queued for a connection reaches the next one on its descriptor (`EventsReachLiveClients`, `RemoveFindsOwner`, `AddFindsNoOwner`, `QueuedTasksAreLive`); a packet goes astray only after its connection's death (`MisdeliveredAfterDeath`) |
| `TcpLive` | 1 connection, 2 workers, a frame and a bad one behind it, a packet to send, end of stream | under fairness: an ended connection is destroyed (`FinReclaims`), what was sent is unpacked (`InputIsUnpacked`), a bad length ends the connection (`BadFrameReclaims`) |
| `TcpEarlySend` | 1 worker, 2 packets | violation, section 6 |
| `TcpBusySend` | 2 workers, 2 packets | violation, section 6 |
| `Frames` | bytes of four values, lengths of 2 bytes and keys of 4; packets that are a frame, half a frame and a bad length; 6 bytes pushed, a socket of 4, 2 buffers to a writev; callbacks that throw; end of stream and reset | the wire carries the packets' bytes (`OutputIsPackets`); no byte is lost or repeated between the socket and the callback (`InputIsConserved`); `Frames` implements `FrameStream` (`DeliversFrames`); the callback catches up with what was sent (`FramesAreDelivered`) |
| `ThreadPool` | 3 workers, lists of one and of two tasks, 3 waiting | tasks are taken in order and once; no wakeup is lost; stop returns; work is taken |
| `ManagerLife` | 1 loop, the acceptor's, 2 workers, 1 task, 2 functions waiting, any number of accepted and made connections | pools are freed by the last thread; packer_thread_ is complete whenever main_thread_ uses it; no task survives stop; posts run in order; stop returns although its notify may be lost; posted clients are added |
| `ObjectPool` | up to 3 blocks of 3; of the 4 addresses two give adjacent blocks and two overlapping ones, which malloc gives one at a time | no object out twice, none lost, none freed while out |
| `PoolShrink` | up to 2 blocks of 2 | violation, section 6 |
| `LogOutput` | 2 users, up to 2 blocks of 2 buffers, files of 3 lines and a FILE buffer of 2, any number of starts and stops | buffers are in one place; no lost wakeup; lines in order, across restarts; stop returns; a message is written; of the lines written, only a restart loses any (`OnlyRestartLosesLines`) |

`TaskThread` has no run of its own: `ManagerLife` takes all of its actions, and what it
promises across a stop and a start is a theorem (`ThreadInOrder`).  `LogThread` is run inside `LogOutput`.
`Executor` is a property of three runs.

Why the bounds are enough.  Two packets and room for one make every writev partial or
refused; the third arrives while the other two are split between wire and list.  Three
workers are one inside the parser, one behind it at the mutex and one that closes.  Two
connections on one descriptor are the whole of reuse, since a third would find what the
second found.  The queues are bounded by what waits, not by what is ever posted: a
function or a message beyond the bound is dropped but its notify is kept (`RunBeyondBound`,
`UserBeyondBound`), and ThreadPool's caller waits for room before it puts and notifies, so
that no wakeup is missed because of a bound.
In `Frames`, six bytes are two frames, or one with a bad or an unfinished one behind it; the
three packets let a frame come in one Buffer or in two, its length cut or not, and a socket of
four makes writev stop inside a packet.  A third packet is one more than writev takes.  A file
of three lines over a FILE buffer of two rolls over with the buffer full, part full and empty.
Adjacent blocks are what `valid`'s inclusive ends are about, and three blocks let shrink
erase one from the middle.

Runs with `CHECK_DEADLOCK FALSE` are of systems that may rest: a connection that is dead,
calls used up, a log that is stopped.

## 4. Fairness

- `TcpCore`: weak fairness for every worker, every loop, the tick and a user inside a call;
  strong fairness for functions posted to main_thread_, because its list is first in first
  out and ticks cannot overtake for ever (the model keeps ticks off the list).  The peer
  owes only to read what it was sent.  Nobody has to call, connect or send.
- `Frames`: weak fairness for the loop that reads and for the worker that unpacks, which
  `do_send_timeout` schedules as long as FLAG_NEXT is up; the sender owes nothing.
- `ThreadPool`, `LogOutput`: weak fairness for each thread's loop and for a start, a stop or
  a hand-in that has begun, as the kernel's scheduler gives.  Spurious wakeups are possible and never
  owed.
- `ManagerLife`: each thread, a start and a stop that has begun.  The timer
  fires each millisecond and epoll reports it next to whatever else there is, so its handler
  runs again and again (strong fairness); connections to accept run out now and then
  (`AcceptEnds`).
- `ObjectPool`: whoever is inside shrink goes on; the property fails nonetheless.

## 5. Proofs

All of these hold for every value of the constants that satisfies the named assumptions.
`CoreAssumption`, `PoolAssumption` and `LogAssumption` only say that names are distinct and
numbers natural; `ManagerLife`'s `LifeAssumption` that the acceptor is not one of the loops,
that there is at least one loop and one worker, and that what `do_send_timeout` hands in are
lists of tasks.  `FileAssumption` says that sizes are positive; `FramesAssumption` that widths
are, that a length is no wider than a key, that what users push are bytes, and that the first
bytes of a key are 0.  The code justifies the last for the first 2^32 connections: keys are
eight bytes, count up from 1 (TcpManager.cpp:287), and four of them are a length.  It matters
when a callback throws before it has read anything: its frame is then parsed from the key on,
and ends the reading only because those four bytes are 0.  `LogThread`'s
`BoundAssumption`, which `WakeupsKept` alone needs, says that users cannot hold every buffer the
bound allows.  (The code has no bound; without the assumption the model would drop the message
that ends a stop and lose the wakeup.)

Each inductive invariant below has been checked by TLC on the instances of section 3 before it
was proved (`StreamSplit` with its rest written out as what is left of the stream).
`TypeCorrect` comes first, and every later proof of `TcpCore` uses the theorems before it:
`TcpInputProofs` extends `TcpCoreProofs`.

### The connection: TcpCore

The first half of `TcpCoreProofs` is about shapes and about what goes out.
- `TypeCorrect`: `TypeOK`, strengthened with where each thread may stand and what its locals
  then hold (a user past get_fd has a descriptor, the scan has a client).
- `WriteCorrect` (`WriteInv`), and from it `WriteExclusive` and `OutputInOrder`.  `StreamOut`
  alone is not inductive.  That `WritePop` removes what was written needs the head of
  `wait_write_list_` to be still what was written, which needs the writer to be alone, which
  needs `send_mutex_` to be held by the one thread that is inside; and a connection must not
  become live a second time with something on its lists, which needs posted adds to be unique
  and to be of connections nobody has touched (`AddedOnce`, `Untouched`, `MapNamesLive`).
  Steps are sorted into those that leave the write path alone, those by which a writer enters
  or leaves, and those that move packets.

The second half of `TcpCoreProofs` is about names.  `ReuseInv` says in order:
- `FdOwned`, `LiveIsMapped`, `HandlersLive`: a descriptor is in use by one connection from
  accept to `~ClientEntity`; `client_map_` and the `handler_map_` of its one loop name it.
- `MainInside`, `LoopInside`, `TasksLive`: what `do_send_timeout` has collected, the client a
  loop is in or has an event for, and the client of a waiting task are live.  For the loop this
  is because posted functions run only after the whole batch of events.
- `AddOK` and `CloseOK`: the way out is a chain, force_close - req_close - do_remove_handle -
  do_remove_client.  At most one link is on its way; each is the last thing in its queue that
  names the client (`Ends`), and when it runs nothing of the earlier links is left.  So the
  remove finds its client although it is posted with a descriptor, and nothing that is queued
  can reach the next connection on that descriptor.

From it `EventsInTime`, `RemoveIsRight`, `AddIsFirst` and `TasksInTime`.  `AddressInv` adds what
`connect_map_` and a user between look-up and call hold, and gives `MisdeliveryNeedsDeath`.
Since so many steps say nothing about any of this, each is first shown to be `Calm`: it moves
its thread, leaves the maps alone and does no more to a queue than take its head or append what
ends nothing (`Mild`).

`TcpInputProofs` is about the reading side, in four invariants, each on top of the ones before.
- `TaskInv`: `unpack_mutex_` is held by the worker inside `do_handle_unpack` (`HolderOK`); at most
  one unpack task is waiting or has not spliced (`OnePending`), and FLAG_HANDLE is up exactly
  while there is one (`HandleOK`).  The test in `TickRead` and the update in `handle_update` are
  two steps; `MarkOK` carries the test across, as only main_thread_ puts the flag up.
  A connection comes into `client_map_` with no flag and no task (`Fresh`), which needs
  `ReuseInv`.  Hence `UnpackOnce`.
- `FlowInv`: a list that holds something is announced by FLAG_NEXT, or, for `unpack_list_`, a
  worker is in the parser and will put the flag up (`InputOK`); after close_write somebody is on
  the way to force_close (`CloseSeen`).  Hence `InputNotLost` and `CloseNotLost`.
- `InInv`: parsed, `unpack_list_`, `recv_list_`, the loop's buffer and the socket's inbox make up,
  in that order, what the peer has sent.  A splice moves the border between two of the parts,
  and it is in order since one loop reads (`ReuseInv`) and one worker splices (`TaskInv`).
  Hence `StreamInCorrect`.
- `LateInv`: after close_read a callback can come from a worker in the parser (`YetToCall`) or
  from a task that has not spliced yet (`YetToSplice`); each of the two that is left is one less
  that has been.  The splice turns the second into the first, which OnePending and the mutex
  allow only when the first is gone, and `can_read` keeps new tasks from being made.  Hence
  `TwoLateCallbacks`.

All four go by the same cases: a step is `InputStill`, or it is one of `Stirs` and then about one
connection, every other being left `Aside`.

### The manager: ManagerLife

`ManagerLifeProofs` takes `ThreadProofs`, which has the proofs of `ThreadPool` and of
`TaskThread`, by INSTANCE: for packer_thread_ and for main_thread_.  `MainSteps` and `PackerSteps`
show that every step of the manager is a step of the instance or leaves it alone, so what is proved
of each alone carries over: their type invariants (`MainTypes`, `PackerTypes`) and the order of
what is posted (`MainInOrder`).

`LifeInv` says how the place the owner has reached in `start` or `stop` decides who else is there:
- `MainStands`: main_thread_ exists from its start to its join.
- `PackerStands`: packer_thread_ is whole (every worker created, none told to stop) from before
  main_thread_ starts until after it has been joined, and gone, with an empty list, before and
  after.
- `TickStands`: tasks are handed in only inside a call of main_thread_, hence while
  packer_thread_ is whole, hence never run by the caller.
- `LoopsStand`: a loop that has been told to quit has been joined, but for the one the owner is
  joining; when the workers are stopped that is every loop.

`FreedByTheLast`, `PoolServes` and `TasksEndWithStop` read `FreedAlone`, `PoolServesMain` and
`NoTaskOutlivesStop` off these.  The order of the calls in `TcpManager::start` and `stop` is what
the proof rests on: were packer_thread_ stopped before main_thread_, `PackerStands` would fail.

### The bytes: Frames

`FramesProofs` proves of `Frames` all that its run checks but liveness.  `Shapes` comes first:
what every variable holds, that no Buffer is read beyond what was written to it, that
`cur_unpcak_` begins with the key whatever has been read of it, and that nothing is parsed once
the reading has ended.

- `OutputKept`: what a writev in parts leaves of the list (`AfterSending`) is what the bytes
  leave when as many are cut off (`AfterSendingBytes`).  The Buffers that are sent whole are
  the first ones, without a gap, so that counting them finds the place to cut.
- `TypeCorrect`, `InputKept` and `FramesInOrder` rest on one more invariant, `Stands`:
  - `CurStands`: how much of a frame `cur_unpcak_` holds.  Before a callback throws it is short
    of a frame between two rounds (`Partial`) and exactly one when the callback is called
    (`Exact`).  After one has thrown it still begins with what the callback was given, and is
    read from one of three places: its first byte, where the key's zeros are taken for a length
    and the reading ends (`ZeroMoves`); behind the key, where the same frame is found again,
    or is so long that `need_data_len` is negative and nothing is ever found behind it; behind
    the frame, where the next one is joined to it.  `Given` and the cases of `Waiting` are
    these; what `TypeOK` and `InputIsConserved` say of `cur_unpcak_` is not inductive without.
  - `StreamSplit`: behind what a callback has returned from, the stream is `cur_unpcak_`'s
    bytes, `unpack_list_`'s, `recv_list_`'s, and some rest.  While the connection is read the
    rest is what read_data's Buffer and the socket hold, which is `InputIsConserved`.  After a
    reset it is lost, but frames that had been received are still delivered, so the refinement
    needs that there is one.
  - `AfterReset`: once read_data has seen an error it has no Buffer in hand, so a rest that has
    been given up is never appended to.
- `FramesInOrder`: `upto`, `given` and `returned` are the history `calls` of `Frames`, `over` is
  FLAG_NOREAD.  A write is `Send`, or a stutter if it took no byte; a bad length is `End`; a
  call is `Deliver` or `DeliverAgain`: by `StreamSplit` the bytes the callback is given are the
  stream's at that place, by `CurStands` they end where a frame ends (`FrameFound`,
  `CallDelivers`).  Everything else is a stutter.

That the bytes of two lists joined are the bytes of the one and then of the other
(`BytesOfConcat`), and that a length is a number at all (`SignedType`), are facts about folds,
which `FlattenSeq` and `FoldLeft` are.  They go by induction over a set, `SetInduction` and
`AppendInduction` of `QueueLemmas`: the library's theorem that a non-empty set of numbers has a
least one takes no operator for a parameter.

### The queues, the pool and the log

- `ThreadProofs!ThreadInOrder`, `ThreadProofs!InOrder`, `LogThreadProofs!InOrder`: each queue
  implements `Executor`; the refinement mapping concatenates the two lists, so the splice is
  a stutter.
- `ThreadProofs!WakeupsKept`: `NoLostWakeup` is inductive together with `TypeOK`.
- `ObjectPoolProofs!PoolCorrect`: the free list of a block is, without repetition, what nobody
  holds of its memory.  That shrink may free a block whose list has `block_size_` entries is
  then a matter of counting.  `ObjectsDistinct`, `OutStaysAllocated` and `ObjectsReturn` follow.
- `LogThreadProofs!LogCorrect`: the pool's invariant, taken from `ObjectPoolProofs` by
  `INSTANCE`, and every buffer that is out in one place; `BuffersOwned` follows.
- `LogThreadProofs!WakeupsKept`: `NoLostWakeup` with where the log thread stands before it
  sleeps (`WakeInv`).  When it has seen an empty list under the lock and the log is being
  stopped, the message of `Thread::stop` is still to come.  That this message and the thread's
  own first one do reach the list is a counting argument: with both lists empty, a pool with no
  free object would have to be in the hands of fewer users than it has objects.

- `LogThreadProofs!FileBeside`: the log with its file does what the log alone may do, so the
  three theorems above hold of `LogOutput` too.  `RestartLosesLines`: `close_fp` flushes, so
  only `start` finds lines in a buffer whose FILE it replaces.

`WriteInv`, `ReuseInv`, `AddressInv`, `LifeInv`, the four invariants of `TcpInputProofs`, `Shapes`,
`Stands` and ThreadPool's `TypeOK` are theorems and have no run of their own: the runs check the
properties whose proofs rest on them.

Only model-checked: liveness, that is, `FinReclaims`, `InputIsUnpacked` and `BadFrameReclaims`
of `TcpLive`, `FramesAreDelivered`, `StopReturns` and `AddIsRun` of `ManagerLife`, and what
`ThreadPool` and `LogOutput` say of a stop that returns and of work that is taken or written.
Liveness under fairness and ENABLED are beyond the prover.

## 6. Findings

- `TcpEarlySend`: a packet sent between `do_add_client` and `do_add_handle`, and written in
  part, is never finished: `watch_write` finds no handle and returns (ClientEntity.cpp:366-367).
  The tcp example sends a megabyte at that moment.
- `TcpBusySend`: a send task that meets a held `send_mutex_` returns with FLAG_HANDLE up
  (ClientEntity.cpp:293), and `do_send_timeout` then never schedules another.
- `PoolShrink`: `shrink` does not step over a block that is in use (ObjectPool.h:114), and holds
  `block_mutex_` for ever.

## 7. Not modelled

- Of `Buffer`: strings, `swap`, `reset` and the growth of the vector; of a message longer
  than the log's Buffer only the hazard is listed (LogThread.cpp:33).
- Of the parser: an exception between a length and the end of its frame (memory), and a
  second thread that enters `clear` while a callback runs.  `clear` leaves `front_unpcak_`
  pointing at a Buffer it has given back; the model keeps that (`"pool"`) and `TypeOK` says
  that nobody reads it, because FLAG_NOREAD is up by then.
- The example's frames carry a header that is not what the parser strips; examples are not
  part of the library.
- Listening sockets: the backlog, and `accept4` failing with a connection left behind on an
  edge-triggered socket (hazard at TcpServer.cpp:67).  A model with a backlog for each port
  beside `ManagerLife` has millions of states, more than a run here can take.
- Recycled EventHandles (hazard at ClientEntity.cpp:366): a pool of handles would multiply the
  states of `TcpReuse`, which is large as it is.
- `create_timerfd`, which returns errno as a descriptor when it fails (EventHandle.cpp:18),
  `pthread_create` failing, sockets and their options: what they do is the kernel's.
- A second start of a manager: `stop_loop` empties `events_`, and what `epoll_wait` does with no
  room for events is undefined.
- LogFile's names and dates, and `fopen` and `fwrite` failing (the one aborts, the other
  cuts a line short).
- Timestamp: nothing in the library uses it, only its own example.  Singleton, the lock
  guards and the type names have no behaviour of their own.

`PROJECT.json` says the same for each part under "components" and "hazards".

## 8. Plan

Every safety property a passing run checks is a theorem, and so are the four refinements.  What
could be added is in section 7: a connection left behind by `accept4`, recycled EventHandles,
and a second start of a manager once the code says what it should do.
