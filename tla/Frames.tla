------------------------------- MODULE Frames -------------------------------
(***************************************************************************)
(* One direction of a connection, byte by byte: push_send_pack and         *)
(* do_write_data at the sending end, the socket, and read_data and         *)
(* do_handle_unpack at the receiving end, over the Buffers they fill and   *)
(* empty.  TcpCore has the threads, flags and locks of the same code and   *)
(* takes packets and pieces of frames for units; here each end does one    *)
(* thing of a kind at a time, which is what TcpCore shows (OneWriter,      *)
(* UnpackScheduledOnce), and the units are taken apart.                    *)
(*                                                                         *)
(* A Buffer from buffer_pool_ is a new one, since pop constructs it.       *)
(*                                                                         *)
(* A definition that only a "mutants" entry of PROJECT.json uses is a      *)
(* wrong version of the one after it, kept to show that a property         *)
(* notices.                                                                *)
(***************************************************************************)
EXTENDS Integers, Sequences, FiniteSets, SequencesExt

CONSTANTS
  Base, LenBytes, KeyBytes,     \* 256, 4 and 8 in the code
  Key,          \* fd_key_ of the receiving client
  Null,         \* nullptr
  Packets,      \* what a user may push, behind the key: any bytes
  MaxBytes,     \* bound: how many bytes are pushed
  SocketRoom,   \* how many bytes the socket holds
  IovMax,       \* how many buffers writev takes
  ThrowAfter,   \* what a callback that throws may have read: "nothing", "key", "all"
  PeerMayEnd    \* the ways the sender may end the connection

B == INSTANCE Buffer

ASSUME FramesAssumption ==
  /\ Base \in Nat \ {0, 1} /\ LenBytes \in Nat \ {0} /\ KeyBytes \in Nat
  /\ LenBytes <= KeyBytes
  /\ Key \in Nat \ {0}             \* keys count up from 1, so that as many bytes as a
                                   \* length has are 0: for 2^32 connections, in the code
  /\ \A i \in 1 .. LenBytes : B!BigEndian(Key, KeyBytes)[i] = 0
  /\ Null \notin B!Buffers /\ Null \notin {"front", "pool"}
  /\ Packets \subseteq Seq(B!Byte) /\ MaxBytes \in Nat
  /\ SocketRoom \in Nat \ {0} /\ IovMax \in Nat \ {0}
  /\ ThrowAfter \subseteq {"nothing", "key", "all"}
  /\ PeerMayEnd \subseteq {"fin", "reset"}

VARIABLES
  \* the sending end
  wait_pack_list_, wait_write_list_,
  no_write,     \* FLAG_NOWRITE of its close_flag_
  pushed,       \* history: the bytes pushed
  \* the socket
  socket,       \* bytes sent and not read
  peer,         \* "open", "fin" or "reset"
  stream,       \* history: bytes sent
  \* the receiving end
  buff,         \* the Buffer read_data fills; Null until it has read something
  recv_list_, unpack_list_,
  cur_unpcak_,
  front_unpcak_,    \* Null, "front" (of unpack_list_) or "pool" (given back)
  pc,           \* "idle", "parse" or "finish": where handle_unpack stands
  flags,        \* FLAG_NEXT and FLAG_CLOSE, FLAG_NOREAD and FLAG_NOWRITE, close_
  calls         \* history: what message_callback_ was given

sender_vars == <<wait_pack_list_, wait_write_list_, no_write, pushed>>
socket_vars == <<socket, peer, stream>>
parser_vars == <<unpack_list_, cur_unpcak_, front_unpcak_, pc, calls>>
receiver_vars == <<buff, recv_list_, parser_vars, flags>>
vars == <<sender_vars, socket_vars, receiver_vars>>

Init ==
  /\ wait_pack_list_ = <<>> /\ wait_write_list_ = <<>>
  /\ no_write = FALSE /\ pushed = <<>>
  /\ socket = <<>> /\ peer = "open" /\ stream = <<>>
  /\ buff = Null /\ recv_list_ = <<>> /\ unpack_list_ = <<>>
  /\ cur_unpcak_ = Null /\ front_unpcak_ = Null /\ pc = "idle" /\ flags = {}
  /\ calls = [upto |-> 0, given |-> <<>>, returned |-> TRUE]

-----------------------------------------------------------------------------
(* The sending end *)

(* The Buffer a user hands to TcpManager::push_send_pack begins with a key, *)
(* which readInt64 takes off; what is left is copied.                       *)
UserBuffer(p) == B!append(B!writeInt(B!NewBuffer, Key, KeyBytes), p)
Copy(b) == B!append(B!NewBuffer, B!Readable(b))

push_send_pack(p) ==
  /\ Len(pushed \o p) <= MaxBytes
  /\ ~no_write /\ peer = "open"
  /\ wait_pack_list_' = Append(wait_pack_list_, Copy(B!readInt(UserBuffer(p), KeyBytes)))
  /\ pushed' = pushed \o p
  /\ UNCHANGED <<wait_write_list_, no_write, socket_vars, receiver_vars>>

BytesOf(list) == FlattenSeq([i \in DOMAIN list |-> B!Readable(list[i])])
AllOut == wait_write_list_ \o wait_pack_list_

(* The loop that takes what was sent off the list.  It ends with the bytes,  *)
(* so an empty Buffer behind them stays.                                     *)
BytesBefore(list, k) == Len(BytesOf(SubSeq(list, 1, k - 1)))
WholeSent(list, n) == {k \in DOMAIN list :
  BytesBefore(list, k) < n /\ BytesBefore(list, k + 1) <= n}

AfterSendingFromStart(list, n) ==   \* as if the front had never been sent in part before
  LET k == Cardinality(WholeSent(list, n)) + 1 IN
  [i \in 1 .. Len(list) - k + 1 |->
    IF i = 1 THEN B!set_read_index(list[k], n - BytesBefore(list, k))
             ELSE list[k + i - 1]]

AfterSending(list, n) ==
  LET k == Cardinality(WholeSent(list, n)) + 1 IN
  [i \in 1 .. Len(list) - k + 1 |->
    IF i = 1 THEN B!skip(list[k], n - BytesBefore(list, k)) ELSE list[k + i - 1]]

(* writev takes a part of the bytes, and all if it can. *)
WriteSome ==
  LET bytes == BytesOf(AllOut) IN
  /\ ~no_write /\ peer = "open"
  /\ AllOut # <<>> /\ Len(AllOut) <= IovMax
  /\ \E n \in 0 .. SocketRoom - Len(socket) :
       /\ n <= Len(bytes) /\ (n = 0 => bytes = <<>>)
       /\ wait_write_list_' = AfterSending(AllOut, n)
       /\ socket' = socket \o SubSeq(bytes, 1, n)
       /\ stream' = stream \o SubSeq(bytes, 1, n)
  /\ wait_pack_list_' = <<>>
  /\ UNCHANGED <<no_write, pushed, peer, receiver_vars>>

(* It takes nothing: the list stays as it is. *)
WriteAgain ==
  /\ ~no_write /\ peer = "open"
  /\ wait_pack_list_ # <<>> /\ Len(AllOut) <= IovMax
  /\ BytesOf(AllOut) # <<>> /\ Len(socket) = SocketRoom
  /\ wait_write_list_' = AllOut /\ wait_pack_list_' = <<>>
  /\ UNCHANGED <<no_write, pushed, socket_vars, receiver_vars>>

(* EINVAL for too many buffers, EPIPE or ECONNRESET for a dead peer. *)
WriteError ==
  /\ ~no_write /\ AllOut # <<>>
  /\ (Len(AllOut) > IovMax /\ peer = "open") \/ peer = "reset"
  /\ wait_write_list_' = AllOut /\ wait_pack_list_' = <<>>
  /\ no_write' = TRUE
  /\ UNCHANGED <<pushed, socket_vars, receiver_vars>>

do_write_data == WriteSome \/ WriteAgain \/ WriteError

SenderEnds(how) ==
  /\ peer = "open"
  /\ peer' = how
  /\ UNCHANGED <<sender_vars, socket, stream, receiver_vars>>

-----------------------------------------------------------------------------
(* read_data *)

ready_close == {"NOREAD", "NOWRITE"} \cap flags # {}

ReadSome ==
  /\ buff # Null \/ ~ready_close
  /\ socket # <<>>
  /\ buff' = B!append(IF buff = Null THEN B!NewBuffer ELSE buff, socket)
  /\ socket' = <<>>
  /\ UNCHANGED <<sender_vars, peer, stream, recv_list_, parser_vars, flags>>

Received == IF buff = Null THEN <<>> ELSE <<buff>>

ReadEndQuiet ==          \* as if set_update were left out
  /\ buff # Null \/ (peer = "fin" /\ ~ready_close)
  /\ socket = <<>> /\ peer # "reset"
  /\ recv_list_' = recv_list_ \o Received
  /\ flags' = flags \cup (IF peer = "fin" THEN {"NOWRITE", "NEXT"} ELSE {})
  /\ buff' = Null
  /\ UNCHANGED <<sender_vars, socket_vars, parser_vars>>

(* EAGAIN, or the end of the stream. *)
ReadEnd ==
  /\ buff # Null \/ (peer = "fin" /\ ~ready_close)
  /\ socket = <<>> /\ peer # "reset"
  /\ recv_list_' = recv_list_ \o Received
  /\ flags' = flags \cup (IF peer = "fin" THEN {"NOWRITE", "NEXT"} ELSE {})
                    \cup (IF Received # <<>> THEN {"NEXT"} ELSE {})
  /\ buff' = Null
  /\ UNCHANGED <<sender_vars, socket_vars, parser_vars>>

(* An error throws away what this call has read. *)
ReadError ==
  /\ peer = "reset" /\ (buff # Null \/ ~ready_close)
  /\ flags' = flags \cup {"NOWRITE", "NEXT"}
  /\ buff' = Null
  /\ UNCHANGED <<sender_vars, socket_vars, recv_list_, parser_vars>>

read_data == ReadSome \/ ReadEnd \/ ReadError

-----------------------------------------------------------------------------
(* do_handle_unpack, one round of its loop at a time.  do_send_timeout       *)
(* schedules it; a client that is closed, or of which a length was bad, is   *)
(* not unpacked any more.                                                    *)

scheduled == "NEXT" \in flags /\ {"NOREAD", "CLOSE", "closed"} \cap flags = {}

UnpackNothing ==
  /\ pc = "idle" /\ scheduled
  /\ recv_list_ = <<>> /\ unpack_list_ = <<>>
  /\ flags' = (flags \ {"NEXT"}) \cup (IF ready_close THEN {"CLOSE"} ELSE {})
  /\ UNCHANGED <<sender_vars, socket_vars, buff, recv_list_, parser_vars>>

AllInNewestFirst == recv_list_ \o unpack_list_
AllIn == unpack_list_ \o recv_list_

UnpackSplice ==
  /\ pc = "idle" /\ scheduled
  /\ ~(recv_list_ = <<>> /\ unpack_list_ = <<>>)
  /\ flags' = flags \ {"NEXT"}
  /\ unpack_list_' = AllIn /\ recv_list_' = <<>>
  /\ pc' = "parse"
  /\ UNCHANGED <<sender_vars, socket_vars, buff, cur_unpcak_, front_unpcak_, calls>>

(* cur_unpcak_ begins with the key, which is not read. *)
EmptyFrame == B!skip(B!writeInt(B!NewBuffer, Key, KeyBytes), KeyBytes)
Cur == IF cur_unpcak_ = Null THEN EmptyFrame ELSE cur_unpcak_

(* front_unpcak_, and how much of it completes the length. *)
front == Head(unpack_list_)
need_len_len ==
  IF B!is_readable(Cur, LenBytes) THEN 0 ELSE LenBytes - B!readableBytes(Cur)

(* Both Buffers once the length is complete, and the length. *)
CurL == B!append(Cur, SubSeq(B!Readable(front), 1, need_len_len))
FrontL == B!skip(front, need_len_len)
LengthKnown == unpack_list_ # <<>> /\ B!is_readable(front, need_len_len)
len == B!peekInt(CurL, LenBytes)
need_data_len == len - (B!readableBytes(CurL) - LenBytes)
DataIsThere ==           \* a negative number of bytes is a huge size_t
  need_data_len >= 0 /\ B!is_readable(FrontL, need_data_len)
NegativeIsLong == len = 0
LenIsBad == len <= 0

(* The front Buffer is used up, and cur_unpcak_ still incomplete. *)
FrontUsedUp(cur, last) ==
  /\ cur_unpcak_' = B!append(cur, B!Readable(last))
  /\ unpack_list_' = Tail(unpack_list_)
  /\ front_unpcak_' = Null
  /\ UNCHANGED <<sender_vars, socket_vars, buff, recv_list_, pc, flags, calls>>

UnpackLenPart ==
  /\ pc = "parse" /\ unpack_list_ # <<>>
  /\ ~LengthKnown
  /\ FrontUsedUp(Cur, front)

UnpackDataPart ==
  /\ pc = "parse" /\ LengthKnown /\ ~LenIsBad
  /\ ~DataIsThere
  /\ FrontUsedUp(CurL, FrontL)

UnpackFrame ==
  /\ pc = "parse" /\ LengthKnown /\ ~LenIsBad
  /\ DataIsThere
  /\ cur_unpcak_' = B!set_read_index(
       B!append(CurL, SubSeq(B!Readable(FrontL), 1, need_data_len)), 0)
  /\ unpack_list_' = [unpack_list_ EXCEPT ![1] = B!skip(FrontL, need_data_len)]
  /\ front_unpcak_' = "front"
  /\ pc' = "finish"
  /\ UNCHANGED <<sender_vars, socket_vars, buff, recv_list_, flags, calls>>

(* clear() gives all Buffers back, front_unpcak_'s too, and leaves the      *)
(* pointer as it is.  (What it does to the lists for sending belongs to     *)
(* this end's own output.)                                                  *)
UnpackBad ==
  /\ pc = "parse" /\ LengthKnown /\ LenIsBad
  /\ cur_unpcak_' = CurL
  /\ unpack_list_' = <<>> /\ recv_list_' = <<>>
  /\ front_unpcak_' = "pool"
  /\ flags' = flags \cup {"NOREAD", "CLOSE"}
  /\ pc' = "idle"
  /\ UNCHANGED <<sender_vars, socket_vars, buff, calls>>

UnpackEnd ==
  /\ pc = "parse" /\ unpack_list_ = <<>>
  /\ flags' = flags \cup (IF ready_close THEN {"CLOSE"} ELSE {})
  /\ pc' = "idle"
  /\ UNCHANGED <<sender_vars, socket_vars, buff, recv_list_, unpack_list_, cur_unpcak_,
                 front_unpcak_, calls>>

(* finish_unpack: message_callback_ is given all of cur_unpcak_. *)
Called(returns) ==
  LET frame == SubSeq(cur_unpcak_.bytes, KeyBytes + 1, Len(cur_unpcak_.bytes))
      from == IF calls.returned THEN calls.upto ELSE calls.upto - Len(calls.given) IN
  calls' = [upto |-> from + Len(frame), given |-> frame, returned |-> returns]

CallbackReturns ==
  /\ pc = "finish"
  /\ Called(TRUE)
  /\ cur_unpcak_' = Null
  /\ IF B!readableBytes(front) = 0
     THEN unpack_list_' = Tail(unpack_list_) /\ front_unpcak_' = Null
     ELSE UNCHANGED <<unpack_list_, front_unpcak_>>
  /\ flags' = flags \cup {"NEXT"}
  /\ pc' = "idle"
  /\ UNCHANGED <<sender_vars, socket_vars, buff, recv_list_>>

(* The exception ends the task; thread_loop catches it. *)
CallbackThrows(r) ==
  /\ pc = "finish" /\ r \in ThrowAfter
  /\ Called(FALSE)
  /\ cur_unpcak_' = B!set_read_index(cur_unpcak_,
       CASE r = "nothing" -> 0 [] r = "key" -> KeyBytes
         [] r = "all" -> Len(cur_unpcak_.bytes))
  /\ pc' = "idle"
  /\ UNCHANGED <<sender_vars, socket_vars, buff, recv_list_, unpack_list_, front_unpcak_,
                 flags>>

(* do_send_timeout finds FLAG_CLOSE: set_close, and req_close is scheduled. *)
set_close ==
  /\ "CLOSE" \in flags /\ "closed" \notin flags
  /\ flags' = flags \cup {"closed"}
  /\ UNCHANGED <<sender_vars, socket_vars, buff, recv_list_, parser_vars>>

handle_unpack ==
  \/ UnpackNothing \/ UnpackSplice \/ UnpackLenPart \/ UnpackDataPart \/ UnpackFrame
  \/ UnpackBad \/ UnpackEnd \/ CallbackReturns
  \/ \E r \in ThrowAfter : CallbackThrows(r)

Next ==
  \/ \E p \in Packets : push_send_pack(p)
  \/ do_write_data
  \/ \E how \in PeerMayEnd : SenderEnds(how)
  \/ read_data \/ handle_unpack \/ set_close

Spec == Init /\ [][Next]_vars

(* The loop that reads and the workers that unpack run; the sender owes     *)
(* nothing.                                                                 *)
FairSpec == Spec /\ WF_vars(read_data) /\ WF_vars(handle_unpack)

-----------------------------------------------------------------------------
(* Types, and where the parser stands between two rounds: front_unpcak_ is   *)
(* the front of unpack_list_ unless clear() gave it back, which ends the     *)
(* reading, and while no callback has thrown cur_unpcak_ is short of a       *)
(* frame, its key read and nothing else.                                     *)
TypeOK ==
  /\ wait_pack_list_ \in Seq(B!Buffers) /\ wait_write_list_ \in Seq(B!Buffers)
  /\ no_write \in BOOLEAN
  /\ socket \in Seq(B!Byte) /\ Len(socket) <= SocketRoom
  /\ peer \in {"open", "fin", "reset"}
  /\ buff \in B!Buffers \cup {Null}
  /\ recv_list_ \in Seq(B!Buffers) /\ unpack_list_ \in Seq(B!Buffers)
  /\ cur_unpcak_ \in B!Buffers \cup {Null}
  /\ pc \in {"idle", "parse", "finish"}
  /\ flags \subseteq {"NEXT", "CLOSE", "NOREAD", "NOWRITE", "closed"}
  /\ front_unpcak_ = "front" => unpack_list_ # <<>>
  /\ front_unpcak_ = "pool" => "NOREAD" \in flags
  /\ cur_unpcak_ # Null /\ calls.returned /\ pc # "finish" /\ "NOREAD" \notin flags =>
       /\ cur_unpcak_.read_index = KeyBytes
       /\ B!is_readable(cur_unpcak_, LenBytes) =>
            B!readableBytes(cur_unpcak_) < LenBytes + B!peekInt(cur_unpcak_, LenBytes)

(* What writev may take in parts over several packets leaves as one stream:  *)
(* what is on the wire, then what the lists hold of it, is what              *)
(* push_send_pack was given behind the keys, no byte twice, none missing.    *)
OutputIsPackets == stream \o BytesOf(wait_write_list_) \o BytesOf(wait_pack_list_) = pushed

(* Until the reading ends, the bytes sent and not yet given to a callback    *)
(* that returned are, in their order, those of cur_unpcak_, unpack_list_,    *)
(* recv_list_, read_data's Buffer and the socket: pieces of any size, frames *)
(* cut anywhere, callbacks that throw.                                       *)
Held == IF cur_unpcak_ = Null THEN <<>>
        ELSE SubSeq(cur_unpcak_.bytes, KeyBytes + 1, Len(cur_unpcak_.bytes))
Place == IF calls.returned THEN calls.upto ELSE calls.upto - Len(calls.given)
ReadingEnded == "NOREAD" \in flags \/ (peer = "reset" /\ "NOWRITE" \in flags)
InputIsConserved ==
  ReadingEnded \/
  SubSeq(stream, Place + 1, Len(stream)) =
    Held \o BytesOf(unpack_list_) \o BytesOf(recv_list_)
      \o (IF buff = Null THEN <<>> ELSE B!Readable(buff)) \o socket

(* message_callback_ is given the frames of the stream, in order, every one  *)
(* once unless it throws, and none behind a length that is not positive.     *)
Promise == INSTANCE FrameStream WITH
  Signed <- B!Signed, upto <- calls.upto, given <- calls.given,
  returned <- calls.returned, over <- "NOREAD" \in flags
DeliversFrames == Promise!Spec

(* The receiver catches up: the frames that were sent are all given to the   *)
(* callback, unless the connection ends or a callback throws (nobody         *)
(* schedules handle_unpack then until more input comes).                     *)
FramesAreDelivered ==
  Promise!HasFrame(calls.upto) ~>
    ~Promise!HasFrame(calls.upto) \/ ready_close \/ peer = "reset" \/ ~calls.returned
=============================================================================
