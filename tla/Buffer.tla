------------------------------- MODULE Buffer -------------------------------
(***************************************************************************)
(* Buffer: a vector of bytes with a read index and a write index.          *)
(*                                                                         *)
(* A Buffer is a record of the bytes below write_index_ and of read_index_. *)
(* The room behind write_index_ is left out: append makes what it needs    *)
(* (ensureWriteable) and read_data asks for it before it reads.  The four  *)
(* widths of writeInt, peekInt and readInt differ in their number of bytes *)
(* alone, n.                                                               *)
(***************************************************************************)
EXTENDS Integers, SequencesExt

CONSTANT Base         \* how many values a byte has

Byte == 0 .. Base - 1

Buffers == [bytes : Seq(Byte), read_index : Nat]
NewBuffer == [bytes |-> <<>>, read_index |-> 0]

(* What readptr points to, readableBytes long. *)
Readable(b) == SubSeq(b.bytes, b.read_index + 1, Len(b.bytes))
readableBytes(b) == Len(b.bytes) - b.read_index
is_readable(b, n) == readableBytes(b) >= n

append(b, s) == [b EXCEPT !.bytes = @ \o s]
set_read_index(b, i) == [b EXCEPT !.read_index = i]
skip(b, n) == set_read_index(b, b.read_index + n)

(* The first byte is the most significant, and a number whose first bit is *)
(* set is negative: every bit in front of it counts as set.                *)
SignBits(s) == IF s # <<>> /\ 2 * s[1] >= Base THEN -1 ELSE 0
Signed(s) == FoldLeft(LAMBDA v, x : v * Base + x, SignBits(s), s)
BigEndian(v, n) ==
  LET above[i \in 0 .. n] ==     \* v without its last i bytes
        IF i = 0 THEN v ELSE above[i - 1] \div Base
  IN [i \in 1 .. n |-> above[n - i] % Base]

writeInt(b, v, n) == append(b, BigEndian(v, n))
LittleEndianPeek(b, n) == Signed(Reverse(SubSeq(Readable(b), 1, n)))  \* as without be32toh
peekInt(b, n) == Signed(SubSeq(Readable(b), 1, n))
readInt(b, n) == skip(b, n)
=============================================================================
