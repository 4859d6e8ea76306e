------------------------------ MODULE LogFile -------------------------------
(***************************************************************************)
(* LogFile: a FILE with a buffer of its own, buffer_, and a new one each   *)
(* time FILE_SIZE bytes have been written.  A line is the unit of size;    *)
(* what fopen and fwrite do when they fail (abort, a line cut short) is    *)
(* left out.                                                               *)
(*                                                                         *)
(* init opens a FILE and does not close the one before it: what buffer_    *)
(* holds of that one is overwritten by the lines of the new one, and       *)
(* nobody has its FILE any more.                                           *)
(*                                                                         *)
(* A definition that only a "mutants" entry of PROJECT.json uses is a      *)
(* wrong version of the one after it, kept to show that a property         *)
(* notices.                                                                *)
(***************************************************************************)
EXTENDS Integers

CONSTANTS
  FILE_SIZE,    \* lines of a file
  FILEBUFF_SIZE \* lines that buffer_ holds

VARIABLES
  write_size_,
  buffered,     \* lines in buffer_ that are not in a file
  orphans       \* history: lines in buffer_ when it last lost its FILE unclosed

Init == write_size_ = 0 /\ buffered = 0 /\ orphans = 0

(* open_fp, with n lines of an open FILE in buffer_. *)
open_fp(n) ==
  /\ buffered' = 0
  /\ orphans' = IF n > 0 THEN n ELSE orphans

init == open_fp(buffered) /\ UNCHANGED write_size_

(* append.  A line that does not fit drives the ones before it out of       *)
(* buffer_.                                                                 *)
Buffered == IF buffered = FILEBUFF_SIZE THEN 1 ELSE buffered + 1

(* check_upadte_fp: close_fp flushes. *)
RotateUnclosed == open_fp(Buffered)      \* as if close_fp were left out
Rotate == open_fp(0)

append ==
  IF write_size_ + 1 >= FILE_SIZE
  THEN Rotate /\ write_size_' = 0
  ELSE buffered' = Buffered /\ write_size_' = write_size_ + 1 /\ UNCHANGED orphans
=============================================================================
