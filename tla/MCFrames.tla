------------------------------ MODULE MCFrames ------------------------------
(* TLC instances of Frames: a byte has four values, so that 2 and 3 begin a  *)
(* negative number; a length has two bytes and a key four.                   *)
EXTENDS Frames

(* A frame; and halves of one, of which the second is a negative length      *)
(* where a length is expected.                                               *)
MCPackets == {<<0, 1, 2>>, <<0, 2>>, <<3, 1>>}
=============================================================================
