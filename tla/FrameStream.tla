---------------------------- MODULE FrameStream -----------------------------
(***************************************************************************)
(* What the receiving end of a connection promises to message_callback_:   *)
(* the byte stream cut into frames, each a length and as many bytes, in    *)
(* order, every one once, and nothing after a length that is not positive. *)
(* A callback that throws may be given the frame again, alone or with the  *)
(* one behind it.                                                          *)
(***************************************************************************)
EXTENDS Integers, Sequences

CONSTANTS
  LenBytes,     \* the bytes of a length
  Signed(_)     \* the number such bytes stand for

VARIABLES
  stream,       \* the bytes sent so far
  upto,         \* how many of them the callback has been given
  given,        \* what it was given last
  returned,     \* whether it returned from that
  over          \* whether the connection is no longer read

vars == <<stream, upto, given, returned, over>>

Piece(i, j) == SubSeq(stream, i + 1, j)

HasFrame(i) ==
  /\ Len(stream) >= i + LenBytes
  /\ Signed(Piece(i, i + LenBytes)) > 0
  /\ Len(stream) >= i + LenBytes + Signed(Piece(i, i + LenBytes))
FrameEnd(i) == i + LenBytes + Signed(Piece(i, i + LenBytes))

Init == stream = <<>> /\ upto = 0 /\ given = <<>> /\ returned = TRUE /\ over = FALSE

Send ==
  /\ Len(stream') > Len(stream) /\ SubSeq(stream', 1, Len(stream)) = stream
  /\ UNCHANGED <<upto, given, returned, over>>

Deliver ==
  /\ ~over /\ returned /\ HasFrame(upto)
  /\ upto' = FrameEnd(upto)
  /\ given' = Piece(upto, upto')
  /\ returned' \in BOOLEAN
  /\ UNCHANGED <<stream, over>>

DeliverAgain ==
  /\ ~over /\ ~returned
  /\ \/ upto' = upto
     \/ HasFrame(upto) /\ upto' = FrameEnd(upto)
  /\ given' = Piece(upto - Len(given), upto')
  /\ returned' \in BOOLEAN
  /\ UNCHANGED <<stream, over>>

End == ~over /\ over' = TRUE /\ UNCHANGED <<stream, upto, given, returned>>

Next == Send \/ Deliver \/ DeliverAgain \/ End
Spec == Init /\ [][Next]_vars
=============================================================================
