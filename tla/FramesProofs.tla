---------------------------- MODULE FramesProofs ----------------------------
(***************************************************************************)
(* What Frames.cfg checks of a small connection, of every one: any number  *)
(* of bytes, any room in the socket, any base and any size of key and      *)
(* length that FramesAssumption allows.  What leaves is what was pushed    *)
(* (OutputKept), what came is kept until it is delivered (InputKept), the  *)
(* parser stands where it should (TypeCorrect), and so message_callback_   *)
(* is given the frames of the stream (FramesInOrder).                      *)
(*                                                                         *)
(* The invariant that Next keeps is Shapes, which every value has, and     *)
(* Stands: how much of a frame cur_unpcak_ holds (CurStands) and where     *)
(* the bytes are that it does not hold (StreamSplit).  Both speak of what  *)
(* a callback that threw was given, and of a reading that has ended; an    *)
(* invariant that leaves those out is not kept.                            *)
(***************************************************************************)
EXTENDS Frames, QueueLemmas, FiniteSetTheorems

-----------------------------------------------------------------------------
(* Numbers and their bytes *)

(* The function Signed folds with: its value at 1 .. k is that of the first *)
(* k bytes behind the sign bits b.                                          *)
Folds(f, s, b, D) ==
  f = [S \in SUBSET D |->
        IF S = {} THEN b ELSE f[S \ {B!Max(S)}] * Base + s[B!Max(S)]]

(* FoldLeft folds over a set of indices and takes the largest first.        *)
LEMMA MaxIsLast ==
  ASSUME NEW n \in Nat, NEW S \in SUBSET (1 .. n + 1), n + 1 \in S
  PROVE  B!Max(S) = n + 1
<1>1. \A y \in S : n + 1 >= y OBVIOUS
<1>2. \A x \in S : (\A y \in S : x >= y) => x = n + 1
  <2> SUFFICES ASSUME NEW x \in S, \A y \in S : x >= y PROVE x = n + 1 OBVIOUS
  <2>1. x >= n + 1 /\ n + 1 >= x /\ x \in 1 .. n + 1 BY <1>1
  <2> QED BY <2>1
<1> QED BY <1>1, <1>2 DEF B!Max

(* There is such a function, for any number of bytes: what CHOOSE picks in  *)
(* Signed is one.                                                           *)
LEMMA FoldsExists ==
  ASSUME NEW s, NEW b PROVE \A n \in Nat : \E f : Folds(f, s, b, 1 .. n)
<1> DEFINE T == {n \in Nat : \E f : Folds(f, s, b, 1 .. n)}
<1>1. 0 \in T
  <2> DEFINE f == [S \in SUBSET (1 .. 0) |-> b]
  <2>1. \A S \in SUBSET (1 .. 0) : S = {} OBVIOUS
  <2>2. Folds(f, s, b, 1 .. 0) BY <2>1 DEF Folds
  <2> QED BY <2>2
<1>2. ASSUME NEW n \in Nat, n \in T PROVE n + 1 \in T
  <2>1. PICK f : Folds(f, s, b, 1 .. n) BY <1>2
  <2> DEFINE g == [S \in SUBSET (1 .. n + 1) |->
                     IF n + 1 \in S THEN f[S \ {n + 1}] * Base + s[n + 1] ELSE f[S]]
  <2>2. \A S \in SUBSET (1 .. n) :
          f[S] = IF S = {} THEN b ELSE f[S \ {B!Max(S)}] * Base + s[B!Max(S)]
    BY <2>1 DEF Folds
  <2>3. \A S \in SUBSET (1 .. n + 1) : n + 1 \notin S => S \in SUBSET (1 .. n)
    OBVIOUS
  <2>4. ASSUME NEW S \in SUBSET (1 .. n + 1)
        PROVE  g[S] = IF S = {} THEN b ELSE g[S \ {B!Max(S)}] * Base + s[B!Max(S)]
    <3>1. CASE n + 1 \in S
      <4>1. B!Max(S) = n + 1 BY <3>1, MaxIsLast
      <4>2. g[S \ {n + 1}] = f[S \ {n + 1}] OBVIOUS
      <4> QED BY <3>1, <4>1, <4>2
    <3>2. CASE n + 1 \notin S
      <4>1. S \in SUBSET (1 .. n) /\ S \ {B!Max(S)} \in SUBSET (1 .. n + 1)
            /\ n + 1 \notin S \ {B!Max(S)}
        BY <3>2, <2>3
      <4>2. g[S] = f[S] /\ g[S \ {B!Max(S)}] = f[S \ {B!Max(S)}] BY <3>2, <4>1
      <4> QED BY <2>2, <4>1, <4>2
    <3> QED BY <3>1, <3>2
  <2>5. Folds(g, s, b, 1 .. n + 1) BY <2>4 DEF Folds
  <2> QED BY <2>5
<1> HIDE DEF T
<1>3. \A n \in Nat : n \in T BY <1>1, <1>2, SetInduction
<1> QED BY <1>3 DEF T

LEMMA SignedIsFold ==
  ASSUME NEW s \in Seq(B!Byte)
  PROVE  \E f : /\ Folds(f, s, B!SignBits(s), 1 .. Len(s))
                /\ B!Signed(s) = f[1 .. Len(s)]
<1>1. DOMAIN s = 1 .. Len(s) /\ Len(s) \in Nat BY LenProperties
<1>2. B!Signed(s) = (CHOOSE f : Folds(f, s, B!SignBits(s), DOMAIN s))[DOMAIN s]
  BY DEF B!Signed, B!FoldLeft, B!MapThenFoldSet, Folds
<1> DEFINE f == CHOOSE g : Folds(g, s, B!SignBits(s), 1 .. Len(s))
<1>3. Folds(f, s, B!SignBits(s), 1 .. Len(s)) BY <1>1, FoldsExists
<1> QED BY <1>1, <1>2, <1>3

(* One byte more.                                                           *)
LEMMA FoldsStep ==
  ASSUME NEW n \in Nat, NEW k \in Nat, k + 1 <= n
  PROVE  \A f, s, b : Folds(f, s, b, 1 .. n) =>
           f[{}] = b /\ f[1 .. k + 1] = f[1 .. k] * Base + s[k + 1]
<1> SUFFICES ASSUME NEW f, NEW s, NEW b, Folds(f, s, b, 1 .. n)
             PROVE  f[{}] = b /\ f[1 .. k + 1] = f[1 .. k] * Base + s[k + 1]
  OBVIOUS
<1>1. \A S \in SUBSET (1 .. n) :
        f[S] = IF S = {} THEN b ELSE f[S \ {B!Max(S)}] * Base + s[B!Max(S)]
  BY DEF Folds
<1>2. k + 1 \in 1 .. k + 1 /\ \A i \in 1 .. k + 1 : i \in 1 .. n OBVIOUS
<1>5. 1 .. k + 1 \in SUBSET (1 .. n) /\ 1 .. k + 1 # {} BY <1>2
<1>3. B!Max(1 .. k + 1) = k + 1 BY <1>2, MaxIsLast
<1>4. (1 .. k + 1) \ {k + 1} = 1 .. k OBVIOUS
<1> QED BY <1>1, <1>3, <1>4, <1>5

(* A number, and 0 if the bytes are.                                        *)
LEMMA SignedType ==
  ASSUME NEW s \in Seq(B!Byte)
  PROVE  /\ B!Signed(s) \in Int
         /\ (\A i \in 1 .. Len(s) : s[i] = 0) => B!Signed(s) = 0
<1>0. Base \in Nat /\ Base > 0 BY FramesAssumption
<1>1. Len(s) \in Nat /\ \A i \in 1 .. Len(s) : s[i] \in Int
  BY <1>0, LenProperties, ElementOfSeq DEF B!Byte
<1> DEFINE zero == \A i \in 1 .. Len(s) : s[i] = 0
<1>2. B!SignBits(s) \in Int /\ (zero => B!SignBits(s) = 0)
  <2>1. s # <<>> => 1 \in 1 .. Len(s) BY <1>1, EmptySeq
  <2>2. zero => ~(s # <<>> /\ 2 * s[1] >= Base) BY <1>0, <2>1
  <2> QED BY <2>2 DEF B!SignBits
<1>3. PICK f : Folds(f, s, B!SignBits(s), 1 .. Len(s)) /\ B!Signed(s) = f[1 .. Len(s)]
  BY SignedIsFold
<1> DEFINE T == {k \in Nat : k <= Len(s) => f[1 .. k] \in Int /\ (zero => f[1 .. k] = 0)}
<1>4. 0 \in T
  <2>1. f[{}] = B!SignBits(s)
    BY <1>3 DEF Folds
  <2>2. 1 .. 0 = {} OBVIOUS
  <2> QED BY <1>2, <2>1, <2>2
<1>5. ASSUME NEW k \in Nat, k \in T PROVE k + 1 \in T
  <2> SUFFICES ASSUME k + 1 <= Len(s)
               PROVE  f[1 .. k + 1] \in Int /\ (zero => f[1 .. k + 1] = 0)
    OBVIOUS
  <2>1. f[1 .. k + 1] = f[1 .. k] * Base + s[k + 1] BY <1>1, <1>3, FoldsStep
  <2>2. f[1 .. k] \in Int /\ (zero => f[1 .. k] = 0) BY <1>1, <1>5
  <2>3. k + 1 \in 1 .. Len(s) /\ s[k + 1] \in Int /\ (zero => s[k + 1] = 0) BY <1>1
  <2>4. \A a, x \in Int : a * Base + x \in Int /\ (a = 0 /\ x = 0 => a * Base + x = 0)
    BY <1>0
  <2> QED BY <2>1, <2>2, <2>3, <2>4
<1> HIDE DEF T
<1>6. Len(s) \in T BY <1>1, <1>4, <1>5, SetInduction
<1> QED BY <1>1, <1>3, <1>6 DEF T

(* A number's bytes.                                                        *)
LEMMA BigEndianType ==
  ASSUME NEW v \in Int, NEW n \in Nat
  PROVE  B!BigEndian(v, n) \in Seq(B!Byte) /\ Len(B!BigEndian(v, n)) = n
<1>0. Base \in Nat /\ Base > 0 BY FramesAssumption
<1> DEFINE A(f) == f = [i \in 0 .. n |-> IF i = 0 THEN v ELSE f[i - 1] \div Base]
           f == CHOOSE g : A(g)
<1>1. B!BigEndian(v, n) = [i \in 1 .. n |-> f[n - i] % Base] BY DEF B!BigEndian
<1> DEFINE T == {m \in Nat : \E g : g = [i \in 0 .. m |-> IF i = 0 THEN v ELSE g[i - 1] \div Base]}
<1>2. 0 \in T
  <2> DEFINE g == [i \in 0 .. 0 |-> v]
  <2>1. g = [i \in 0 .. 0 |-> IF i = 0 THEN v ELSE g[i - 1] \div Base] OBVIOUS
  <2> QED BY <2>1
<1>3. ASSUME NEW m \in Nat, m \in T PROVE m + 1 \in T
  <2>1. PICK h : h = [i \in 0 .. m |-> IF i = 0 THEN v ELSE h[i - 1] \div Base] BY <1>3
  <2> DEFINE g == [i \in 0 .. m + 1 |-> IF i <= m THEN h[i] ELSE h[i - 1] \div Base]
  <2>2. \A i \in 0 .. m + 1 : i # 0 => i - 1 \in 0 .. m /\ g[i - 1] = h[i - 1] OBVIOUS
  <2>3. \A i \in 0 .. m : h[i] = IF i = 0 THEN v ELSE h[i - 1] \div Base BY <2>1
  <2>4. ASSUME NEW i \in 0 .. m + 1 PROVE g[i] = IF i = 0 THEN v ELSE g[i - 1] \div Base
    <3>1. CASE i <= m
      <4>1. i \in 0 .. m /\ g[i] = h[i] BY <3>1
      <4> QED BY <4>1, <2>2, <2>3
    <3>2. CASE ~(i <= m)
      <4>1. i # 0 /\ g[i] = h[i - 1] \div Base BY <3>2
      <4> QED BY <4>1, <2>2
    <3> QED BY <3>1, <3>2
  <2>5. g = [i \in 0 .. m + 1 |-> IF i = 0 THEN v ELSE g[i - 1] \div Base] BY <2>4
  <2> HIDE DEF g
  <2>6. m + 1 \in Nat OBVIOUS
  <2> QED BY <2>5, <2>6
<1> HIDE DEF T
<1>4. n \in T BY <1>2, <1>3, SetInduction
<1>5. A(f)
  <2>1. PICK g : A(g) BY <1>4 DEF T
  <2> QED BY <2>1
<1> HIDE DEF f
<1> DEFINE U == {i \in Nat : i <= n => f[i] \in Int}
<1>6. 0 \in U BY <1>5
<1>7. ASSUME NEW i \in Nat, i \in U PROVE i + 1 \in U
  <2> SUFFICES ASSUME i + 1 <= n PROVE f[i + 1] \in Int OBVIOUS
  <2>1. i + 1 \in 0 .. n /\ i + 1 # 0 /\ i + 1 - 1 = i OBVIOUS
  <2>2. f[i + 1] = f[i] \div Base BY <2>1, <1>5
  <2>3. f[i] \in Int BY <1>7
  <2> QED BY <1>0, <2>2, <2>3
<1> HIDE DEF U
<1>8. \A i \in Nat : i \in U BY <1>6, <1>7, SetInduction
<1>9. ASSUME NEW i \in 1 .. n PROVE f[n - i] % Base \in B!Byte
  <2>1. n - i \in Nat /\ n - i <= n OBVIOUS
  <2>2. f[n - i] \in Int BY <2>1, <1>8 DEF U
  <2> QED BY <1>0, <2>2 DEF B!Byte
<1>10. B!BigEndian(v, n) \in [1 .. n -> B!Byte] BY <1>1, <1>9
<1>11. B!BigEndian(v, n) \in Seq(B!Byte) BY <1>10, SeqDef
<1> QED BY <1>10, <1>11, LenProperties

-----------------------------------------------------------------------------
(* Buffers *)

LEMMA Joined ==
  \A a, b \in Seq(B!Byte) : a \o b \in Seq(B!Byte) /\ a \o <<>> = a /\ <<>> \o a = a
BY ConcatProperties, ConcatEmptySeq

LEMMA Regrouped == \A a, b, c \in Seq(B!Byte) : (a \o b) \o c = a \o (b \o c)
BY ConcatAssociative

(* The read index is not beyond the write index.                            *)
Sound(b) == b.read_index <= Len(b.bytes)
SoundBuffers == {b \in B!Buffers : Sound(b)}

(* What can be read is what is behind the read index.                       *)
LEMMA ReadableType ==
  ASSUME NEW b \in SoundBuffers
  PROVE  /\ B!Readable(b) \in Seq(B!Byte)
         /\ B!readableBytes(b) \in Nat /\ Len(B!Readable(b)) = B!readableBytes(b)
         /\ B!Readable(b) = After(b.bytes, b.read_index)
<1>1. /\ b.bytes \in Seq(B!Byte) /\ b.read_index \in Nat /\ b.read_index <= Len(b.bytes)
  BY DEF SoundBuffers, Sound, B!Buffers
<1>2. Len(b.bytes) \in Nat /\ b.read_index \in 0 .. Len(b.bytes) BY <1>1, LenProperties
<1>3. B!Readable(b) = After(b.bytes, b.read_index) BY DEF B!Readable, After
<1>4. B!readableBytes(b) = Len(b.bytes) - b.read_index /\ B!readableBytes(b) \in Nat
  BY <1>1, <1>2 DEF B!readableBytes
<1> QED BY <1>1, <1>2, <1>3, <1>4, AfterProperties

(* The bytes of a list are those of its Buffers, one behind the other.      *)
LEMMA BytesOfNone == BytesOf(<<>>) = <<>>
<1>1. [i \in DOMAIN <<>> |-> B!Readable(<<>>[i])] = <<>> OBVIOUS
<1> QED BY <1>1 DEF BytesOf, FlattenSeq

(* The parts FlattenSeq joins.                                              *)
Parts(l) == [i \in DOMAIN l |-> B!Readable(l[i])]

LEMMA PartsType ==
  ASSUME NEW l \in Seq(SoundBuffers)
  PROVE  /\ Parts(l) \in Seq(Seq(B!Byte)) /\ Len(Parts(l)) = Len(l)
         /\ \A i \in 1 .. Len(l) : Parts(l)[i] = B!Readable(l[i])
         /\ (Parts(l) = <<>> <=> l = <<>>)
         /\ BytesOf(l) = FlattenSeq(Parts(l))
<1>1. Len(l) \in Nat /\ DOMAIN l = 1 .. Len(l) /\ \A i \in 1 .. Len(l) : l[i] \in SoundBuffers
  BY LenProperties, ElementOfSeq
<1>2. \A i \in 1 .. Len(l) : B!Readable(l[i]) \in Seq(B!Byte) BY <1>1, ReadableType
<1>3. Parts(l) = [i \in 1 .. Len(l) |-> B!Readable(l[i])] BY <1>1 DEF Parts
<1>4. Parts(l) \in [1 .. Len(l) -> Seq(B!Byte)] BY <1>2, <1>3
<1>5. Parts(l) \in Seq(Seq(B!Byte)) BY <1>1, <1>4, SeqDef
<1>6. DOMAIN Parts(l) = 1 .. Len(l) BY <1>4
<1>7. Len(Parts(l)) = Len(l) BY <1>1, <1>5, <1>6, LenProperties
<1>8. Parts(l) = <<>> <=> l = <<>> BY <1>5, <1>7, EmptySeq
<1>9. BytesOf(l) = FlattenSeq(Parts(l)) BY DEF BytesOf, Parts
<1> QED BY <1>3, <1>5, <1>7, <1>8, <1>9

(* One Buffer more.                                                         *)
LEMMA PartsAppend ==
  ASSUME NEW l \in Seq(SoundBuffers), NEW c \in SoundBuffers
  PROVE  /\ Append(l, c) \in Seq(SoundBuffers)
         /\ BytesOf(Append(l, c)) =
              IF l = <<>> THEN B!Readable(c) ELSE BytesOf(l) \o B!Readable(c)
<1>1. /\ Len(l) \in Nat
      /\ Append(l, c) \in Seq(SoundBuffers) /\ Len(Append(l, c)) = Len(l) + 1
      /\ Append(l, c)[Len(l) + 1] = c /\ \A i \in 1 .. Len(l) : Append(l, c)[i] = l[i]
  BY LenProperties, AppendProperties
<1>2. B!Readable(c) \in Seq(B!Byte) BY ReadableType
<1> DEFINE p == Append(Parts(l), B!Readable(c))
           q == Parts(Append(l, c))
<1>3. /\ p \in Seq(Seq(B!Byte)) /\ Len(p) = Len(l) + 1
      /\ p[Len(l) + 1] = B!Readable(c)
      /\ \A i \in 1 .. Len(l) : p[i] = B!Readable(l[i])
  <2>1. /\ Parts(l) \in Seq(Seq(B!Byte)) /\ Len(Parts(l)) = Len(l)
        /\ \A i \in 1 .. Len(l) : Parts(l)[i] = B!Readable(l[i])
    BY PartsType
  <2> QED BY <2>1, <1>2, AppendProperties
<1>4. /\ q \in Seq(Seq(B!Byte)) /\ Len(q) = Len(l) + 1
      /\ \A i \in 1 .. Len(l) + 1 : q[i] = B!Readable(Append(l, c)[i])
      /\ BytesOf(Append(l, c)) = FlattenSeq(q)
  BY <1>1, PartsType
<1> HIDE DEF p, q
<1>5. ASSUME NEW i \in 1 .. Len(l) + 1 PROVE q[i] = p[i]
  <2>1. i \in 1 .. Len(l) \/ i = Len(l) + 1 BY <1>1
  <2> QED BY <2>1, <1>1, <1>3, <1>4
<1>6. q = p BY <1>3, <1>4, <1>5, SeqEqual
<1>7. /\ Parts(l) \in Seq(Seq(B!Byte)) /\ (Parts(l) = <<>> <=> l = <<>>)
      /\ BytesOf(l) = FlattenSeq(Parts(l))
  BY PartsType
<1>8. FlattenSeq(p) =
        IF Parts(l) = <<>> THEN B!Readable(c) ELSE FlattenSeq(Parts(l)) \o B!Readable(c)
  <2> DEFINE ss == Parts(l)
             s == B!Readable(c)
  <2> HIDE DEF ss, s
  <2>1. ss \in Seq(Seq(B!Byte)) /\ s \in Seq(B!Byte) BY <1>2, <1>7 DEF ss, s
  <2>2. FlattenSeq(Append(ss, s)) = IF ss = <<>> THEN s ELSE FlattenSeq(ss) \o s
    BY <2>1, FlattenAppend
  <2> QED BY <2>2 DEF p, ss, s
<1>9. BytesOf(Append(l, c)) =
        IF l = <<>> THEN B!Readable(c) ELSE BytesOf(l) \o B!Readable(c)
  BY <1>4, <1>6, <1>7, <1>8
<1> QED BY <1>1, <1>9

LEMMA BytesOfType == \A l \in Seq(SoundBuffers) : BytesOf(l) \in Seq(B!Byte)
<1> DEFINE T == {l \in Seq(SoundBuffers) : BytesOf(l) \in Seq(B!Byte)}
<1>1. <<>> \in T BY EmptySeq, BytesOfNone
<1>2. ASSUME NEW l \in Seq(SoundBuffers), NEW c \in SoundBuffers, l \in T
      PROVE  Append(l, c) \in T
  <2>1. Append(l, c) \in Seq(SoundBuffers) BY PartsAppend
  <2>2. B!Readable(c) \in Seq(B!Byte) /\ BytesOf(l) \in Seq(B!Byte) BY <1>2, ReadableType
  <2>3. BytesOf(l) \o B!Readable(c) \in Seq(B!Byte) BY <2>2, ConcatProperties
  <2>4. BytesOf(Append(l, c)) \in Seq(B!Byte) BY <2>2, <2>3, PartsAppend
  <2> QED BY <2>1, <2>4
<1> HIDE DEF T
<1>3. \A l \in Seq(SoundBuffers) : l \in T BY <1>1, <1>2, AppendInduction
<1> QED BY <1>3 DEF T

LEMMA BytesOfAppend ==
  ASSUME NEW l \in Seq(SoundBuffers), NEW b \in SoundBuffers
  PROVE  BytesOf(Append(l, b)) = BytesOf(l) \o B!Readable(b)
<1>1. B!Readable(b) \in Seq(B!Byte) BY ReadableType
<1>2. <<>> \o B!Readable(b) = B!Readable(b) BY <1>1, ConcatEmptySeq
<1> QED BY <1>2, PartsAppend, BytesOfNone

(* Two lists, by induction over the second.                                 *)
LEMMA BytesOfConcat ==
  ASSUME NEW l \in Seq(SoundBuffers), NEW m \in Seq(SoundBuffers)
  PROVE  BytesOf(l \o m) = BytesOf(l) \o BytesOf(m)
<1> DEFINE T == {n \in Seq(SoundBuffers) : BytesOf(l \o n) = BytesOf(l) \o BytesOf(n)}
<1>0. \A n \in Seq(SoundBuffers) : BytesOf(n) \in Seq(B!Byte)
  BY BytesOfType
<1>1. <<>> \in T
  <2>1. <<>> \in Seq(SoundBuffers) /\ l \o <<>> = l BY EmptySeq, ConcatEmptySeq
  <2>2. BytesOf(l) \o <<>> = BytesOf(l) BY <1>0, ConcatEmptySeq
  <2> QED BY <2>1, <2>2, BytesOfNone
<1>2. ASSUME NEW n \in Seq(SoundBuffers), NEW b \in SoundBuffers, n \in T
      PROVE  Append(n, b) \in T
  <2>1. Append(n, b) \in Seq(SoundBuffers) /\ l \o n \in Seq(SoundBuffers)
    BY AppendProperties, ConcatProperties
  <2>2. l \o Append(n, b) = Append(l \o n, b)
    <3>1. <<b>> \in Seq(SoundBuffers) OBVIOUS
    <3> QED BY <3>1, <2>1, AppendIsConcat, ConcatAssociative
  <2>3. BytesOf(l \o Append(n, b)) = (BytesOf(l) \o BytesOf(n)) \o B!Readable(b)
    BY <1>2, <2>1, <2>2, BytesOfAppend
  <2>4. BytesOf(Append(n, b)) = BytesOf(n) \o B!Readable(b) BY BytesOfAppend
  <2>5. BytesOf(l) \in Seq(B!Byte) /\ BytesOf(n) \in Seq(B!Byte) /\ B!Readable(b) \in Seq(B!Byte)
    BY <1>0, ReadableType
  <2>6. (BytesOf(l) \o BytesOf(n)) \o B!Readable(b) = BytesOf(l) \o (BytesOf(n) \o B!Readable(b))
    BY <2>5, Regrouped
  <2>7. BytesOf(l \o Append(n, b)) = BytesOf(l) \o BytesOf(Append(n, b)) BY <2>3, <2>4, <2>6
  <2> QED BY <2>1, <2>7
<1> HIDE DEF T
<1>3. m \in T BY <1>1, <1>2, AppendInduction
<1> QED BY <1>3 DEF T

LEMMA BytesOfOne ==
  ASSUME NEW b \in SoundBuffers
  PROVE  <<b>> \in Seq(SoundBuffers) /\ BytesOf(<<b>>) = B!Readable(b)
<1>1. <<b>> \in Seq(SoundBuffers) /\ <<b>> = Append(<<>>, b) /\ <<>> \in Seq(SoundBuffers)
  BY EmptySeq
<1>2. BytesOf(<<b>>) = <<>> \o B!Readable(b) BY <1>1, BytesOfNone, BytesOfAppend
<1>3. B!Readable(b) \in Seq(B!Byte) BY ReadableType
<1> QED BY <1>1, <1>2, <1>3, ConcatEmptySeq

LEMMA BytesOfFirst ==
  ASSUME NEW l \in Seq(SoundBuffers), l # <<>>
  PROVE  BytesOf(l) = B!Readable(Head(l)) \o BytesOf(Tail(l))
<1>1. Head(l) \in SoundBuffers /\ Tail(l) \in Seq(SoundBuffers) BY HeadTailProperties
<1>2. l = <<Head(l)>> \o Tail(l)
  <2>1. Len(l) \in Nat \ {0} BY EmptySeq
  <2>2. l = SubSeq(l, 1, Len(l)) /\ Tail(l) = SubSeq(l, 2, Len(l)) /\ Head(l) = l[1]
    BY SubSeqFull, TailIsSubSeq
  <2>3. 1 \in 1 .. Len(l) /\ Len(l) \in 1 .. Len(l) /\ 1 + 1 = 2 BY <2>1
  <2> QED BY <2>2, <2>3, SubSeqRecursiveFirst
<1>3. <<Head(l)>> \in Seq(SoundBuffers) /\ BytesOf(<<Head(l)>>) = B!Readable(Head(l))
  BY <1>1, BytesOfOne
<1> QED BY <1>1, <1>2, <1>3, BytesOfConcat

(* What the operations of a Buffer do to what can be read of it.            *)
LEMMA NewBufferSound ==
  /\ B!NewBuffer \in SoundBuffers /\ B!NewBuffer.bytes = <<>> /\ B!NewBuffer.read_index = 0
  /\ B!Readable(B!NewBuffer) = <<>>
<1>1. Len(<<>>) = 0 /\ <<>> \in Seq(B!Byte) BY EmptySeq
<1>2. SubSeq(<<>>, 1, 0) = <<>> BY SubSeqEmpty
<1>3. B!NewBuffer \in SoundBuffers /\ B!NewBuffer.bytes = <<>> /\ B!NewBuffer.read_index = 0
  BY <1>1 DEF B!NewBuffer, SoundBuffers, Sound, B!Buffers
<1> QED BY <1>1, <1>2, <1>3 DEF B!Readable

LEMMA BufferParts ==
  ASSUME NEW b \in SoundBuffers
  PROVE  b.bytes \in Seq(B!Byte) /\ Len(b.bytes) \in Nat /\ b.read_index \in 0 .. Len(b.bytes)
<1>1. b.bytes \in Seq(B!Byte) /\ b.read_index \in Nat /\ b.read_index <= Len(b.bytes)
  BY DEF SoundBuffers, Sound, B!Buffers
<1> QED BY <1>1, LenProperties

LEMMA Appended ==
  ASSUME NEW b \in SoundBuffers, NEW s \in Seq(B!Byte)
  PROVE  /\ B!append(b, s) \in SoundBuffers
         /\ B!append(b, s).bytes = b.bytes \o s
         /\ B!append(b, s).read_index = b.read_index
         /\ B!Readable(B!append(b, s)) = B!Readable(b) \o s
<1> DEFINE c == B!append(b, s)
<1>1. b.bytes \in Seq(B!Byte) /\ Len(b.bytes) \in Nat /\ b.read_index \in 0 .. Len(b.bytes)
  BY BufferParts
<1>2. b \in [bytes : Seq(B!Byte), read_index : Nat] BY DEF SoundBuffers, B!Buffers
<1>3. /\ b.bytes \o s \in Seq(B!Byte) /\ Len(b.bytes \o s) = Len(b.bytes) + Len(s)
      /\ Len(s) \in Nat
  BY <1>1, ConcatProperties, LenProperties
<1>4. c.bytes = b.bytes \o s /\ c.read_index = b.read_index BY <1>2 DEF B!append
<1>5. c \in [bytes : Seq(B!Byte), read_index : Nat] BY <1>2, <1>3 DEF B!append
<1>6. c.read_index <= Len(c.bytes) BY <1>1, <1>3, <1>4
<1>7. c \in SoundBuffers BY <1>5, <1>6 DEF SoundBuffers, Sound, B!Buffers
<1>8. B!Readable(c) = After(c.bytes, c.read_index) BY <1>7, ReadableType
<1>9. B!Readable(b) = After(b.bytes, b.read_index) BY ReadableType
<1>10. After(b.bytes \o s, b.read_index) = After(b.bytes, b.read_index) \o s
  BY <1>1, CutJoined
<1> QED BY <1>4, <1>7, <1>8, <1>9, <1>10

LEMMA IndexSet ==
  ASSUME NEW b \in SoundBuffers, NEW i \in 0 .. Len(b.bytes)
  PROVE  /\ B!set_read_index(b, i) \in SoundBuffers
         /\ B!set_read_index(b, i).bytes = b.bytes
         /\ B!set_read_index(b, i).read_index = i
         /\ B!Readable(B!set_read_index(b, i)) = After(b.bytes, i)
<1> DEFINE c == B!set_read_index(b, i)
<1>1. b.bytes \in Seq(B!Byte) /\ Len(b.bytes) \in Nat BY BufferParts
<1>2. b \in [bytes : Seq(B!Byte), read_index : Nat] BY DEF SoundBuffers, B!Buffers
<1>3. c.bytes = b.bytes /\ c.read_index = i BY <1>2 DEF B!set_read_index
<1>4. c \in [bytes : Seq(B!Byte), read_index : Nat] BY <1>1, <1>2 DEF B!set_read_index
<1>5. c \in SoundBuffers BY <1>1, <1>3, <1>4 DEF SoundBuffers, Sound, B!Buffers
<1> QED BY <1>3, <1>5, ReadableType

LEMMA Skipped ==
  ASSUME NEW b \in SoundBuffers, NEW n \in 0 .. Len(B!Readable(b))
  PROVE  /\ B!skip(b, n) \in SoundBuffers
         /\ B!skip(b, n).bytes = b.bytes
         /\ B!skip(b, n).read_index = b.read_index + n
         /\ B!Readable(B!skip(b, n)) = After(B!Readable(b), n)
         /\ B!Readable(b) = SubSeq(B!Readable(b), 1, n) \o B!Readable(B!skip(b, n))
<1>1. b.bytes \in Seq(B!Byte) /\ Len(b.bytes) \in Nat /\ b.read_index \in 0 .. Len(b.bytes)
  BY BufferParts
<1>2. /\ B!Readable(b) \in Seq(B!Byte) /\ Len(B!Readable(b)) = Len(b.bytes) - b.read_index
      /\ B!Readable(b) = After(b.bytes, b.read_index)
  BY ReadableType DEF B!readableBytes
<1>3. b.read_index + n \in 0 .. Len(b.bytes) /\ n \in 0 .. Len(b.bytes) - b.read_index BY <1>1, <1>2
<1>4. After(After(b.bytes, b.read_index), n) = After(b.bytes, b.read_index + n)
  BY <1>1, <1>3, CutTwice
<1>5. B!Readable(b) = SubSeq(B!Readable(b), 1, n) \o After(B!Readable(b), n)
  BY <1>2, CutInTwo
<1> DEFINE i == b.read_index + n
<1> HIDE DEF i
<1>6. i \in 0 .. Len(b.bytes) BY <1>3 DEF i
<1>7. /\ B!set_read_index(b, i) \in SoundBuffers
      /\ B!set_read_index(b, i).bytes = b.bytes
      /\ B!set_read_index(b, i).read_index = i
      /\ B!Readable(B!set_read_index(b, i)) = After(b.bytes, i)
  BY <1>6, IndexSet
<1> QED BY <1>2, <1>4, <1>5, <1>7 DEF B!skip, i

-----------------------------------------------------------------------------
(* What do_write_data leaves of the list *)

(* A set of numbers from 1 on that has no gap is told by how many they are. *)
LEMMA NoGap ==
  ASSUME NEW L \in Nat, NEW W \in SUBSET (1 .. L),
         \A k \in 1 .. L : k + 1 \in W => k \in W
  PROVE  Cardinality(W) \in 0 .. L /\ W = 1 .. Cardinality(W)
<1> DEFINE U == (Nat \ {0}) \ W
<1>1. L + 1 \in U /\ U \subseteq Nat OBVIOUS
<1>2. PICK e \in U : \A u \in U : e <= u
  <2> HIDE DEF U
  <2> QED BY <1>1, LeastNat
<1>3. e \in Nat \ {0} /\ e \notin W /\ e <= L + 1 BY <1>1, <1>2
<1> DEFINE T == {d \in Nat : e + d \notin W}
<1>4. 0 \in T BY <1>3
<1>5. ASSUME NEW d \in Nat, d \in T PROVE d + 1 \in T
  <2>1. e + d \in Nat \ {0} /\ (e + d) + 1 = e + (d + 1) BY <1>3
  <2>2. e + d \notin W BY <1>5
  <2>3. (e + d) + 1 \in W => e + d \in 1 .. L BY <2>1
  <2>4. e + (d + 1) \notin W BY <2>1, <2>2, <2>3
  <2> QED BY <2>4
<1> HIDE DEF T
<1>6. \A d \in Nat : d \in T BY <1>4, <1>5, SetInduction
<1>7. ASSUME NEW w \in W PROVE w \in 1 .. e - 1
  <2> SUFFICES ASSUME w >= e PROVE FALSE BY <1>3
  <2>1. w - e \in Nat /\ e + (w - e) = w BY <1>3
  <2>2. w - e \in T BY <2>1, <1>6
  <2> QED BY <2>1, <2>2 DEF T
<1>8. ASSUME NEW w \in 1 .. e - 1 PROVE w \in W
  <2>1. w \in Nat \ {0} /\ ~(e <= w) BY <1>3
  <2> QED BY <2>1, <1>2
<1>9. W = 1 .. e - 1 BY <1>7, <1>8
<1>10. Cardinality(1 .. e - 1) = e - 1
  <2>1. Cardinality(1 .. e - 1) = IF 1 > e - 1 THEN 0 ELSE (e - 1) - 1 + 1
    BY <1>3, FS_Interval
  <2> QED BY <2>1, <1>3
<1> QED BY <1>3, <1>9, <1>10

(* The bytes before a Buffer, and before the one behind it.                 *)
LEMMA BytesBeforeStep ==
  ASSUME NEW list \in Seq(SoundBuffers), NEW k \in 1 .. Len(list)
  PROVE  /\ BytesBefore(list, 1) = 0 /\ BytesBefore(list, k) \in Nat
         /\ BytesBefore(list, k + 1) = BytesBefore(list, k) + Len(B!Readable(list[k]))
         /\ BytesBefore(list, Len(list) + 1) = Len(BytesOf(list))
<1>1. Len(list) \in Nat /\ k - 1 \in 0 .. Len(list) /\ list[k] \in SoundBuffers
      /\ (k + 1) - 1 = k /\ (Len(list) + 1) - 1 = Len(list) /\ (k - 1) + 1 = k
  BY LenProperties, ElementOfSeq
<1> DEFINE a == SubSeq(list, 1, k - 1)
<1>2. a \in Seq(SoundBuffers) BY <1>1, FirstProperties
<1>3. SubSeq(list, 1, k) = Append(a, list[k])
  <2>1. a \in Seq(SoundBuffers) /\ Len(a) = k - 1 /\ \A i \in 1 .. k - 1 : a[i] = list[i]
    BY <1>1, FirstProperties
  <2>2. /\ SubSeq(list, 1, k) \in Seq(SoundBuffers) /\ Len(SubSeq(list, 1, k)) = k
        /\ \A i \in 1 .. k : SubSeq(list, 1, k)[i] = list[i]
    <3>1. k \in 0 .. Len(list) OBVIOUS
    <3> QED BY <3>1, FirstProperties
  <2> HIDE DEF a
  <2>3. /\ Append(a, list[k]) \in Seq(SoundBuffers) /\ Len(Append(a, list[k])) = Len(a) + 1
        /\ Append(a, list[k])[Len(a) + 1] = list[k]
        /\ \A i \in 1 .. Len(a) : Append(a, list[k])[i] = a[i]
    BY <2>1, <1>1, AppendProperties
  <2>4. ASSUME NEW i \in 1 .. k PROVE SubSeq(list, 1, k)[i] = Append(a, list[k])[i]
    <3>1. i = k \/ i \in 1 .. k - 1 OBVIOUS
    <3> QED BY <3>1, <1>1, <2>1, <2>2, <2>3
  <2>5. Len(Append(a, list[k])) = k BY <1>1, <2>1, <2>3
  <2> QED BY <2>2, <2>3, <2>4, <2>5, SeqEqual
<1>4. BytesOf(a) \in Seq(B!Byte) /\ B!Readable(list[k]) \in Seq(B!Byte)
  BY <1>1, <1>2, BytesOfType, ReadableType
<1>5. BytesOf(SubSeq(list, 1, k)) = BytesOf(a) \o B!Readable(list[k])
  BY <1>1, <1>2, <1>3, BytesOfAppend
<1>6. Len(BytesOf(SubSeq(list, 1, k))) = Len(BytesOf(a)) + Len(B!Readable(list[k]))
      /\ Len(BytesOf(a)) \in Nat
  BY <1>4, <1>5, ConcatProperties, LenProperties
<1>7. SubSeq(list, 1, 0) = <<>> /\ Len(<<>>) = 0 /\ 1 - 1 = 0 BY SubSeqEmpty, EmptySeq
<1>8. SubSeq(list, 1, Len(list)) = list BY SubSeqFull
<1>9. BytesBefore(list, 1) = 0 BY <1>7, BytesOfNone DEF BytesBefore
<1>10. BytesBefore(list, k) = Len(BytesOf(a)) /\ BytesBefore(list, k + 1) = Len(BytesOf(SubSeq(list, 1, k)))
  BY <1>1 DEF BytesBefore
<1>11. BytesBefore(list, Len(list) + 1) = Len(BytesOf(list)) BY <1>1, <1>8 DEF BytesBefore
<1> QED BY <1>6, <1>9, <1>10, <1>11

(* What was sent is off the list, be it cut inside a Buffer or between two, *)
(* and the rest is there.                                                   *)
LEMMA AfterSendingBytes ==
  ASSUME NEW list \in Seq(SoundBuffers), NEW n \in 0 .. Len(BytesOf(list))
  PROVE  /\ AfterSending(list, n) \in Seq(SoundBuffers)
         /\ BytesOf(AfterSending(list, n)) = After(BytesOf(list), n)
<1> DEFINE L == Len(list)
           W == WholeSent(list, n)
           k == Cardinality(W) + 1
           left == AfterSending(list, n)
<1>1. L \in Nat /\ BytesOf(list) \in Seq(B!Byte) /\ Len(BytesOf(list)) \in Nat /\ DOMAIN list = 1 .. L
  BY BytesOfType, LenProperties
<1>2. \A j \in 1 .. L :
        /\ BytesBefore(list, j) \in Nat /\ Len(B!Readable(list[j])) \in Nat
        /\ BytesBefore(list, j + 1) = BytesBefore(list, j) + Len(B!Readable(list[j]))
  BY <1>1, BytesBeforeStep, ElementOfSeq, ReadableType
<1>3. W \in SUBSET (1 .. L) /\ \A j \in 1 .. L : j + 1 \in W => j \in W
  <2>1. W \in SUBSET (1 .. L) BY <1>1 DEF WholeSent
  <2>2. ASSUME NEW j \in 1 .. L, j + 1 \in W PROVE j \in W
    <3>1. j + 1 \in 1 .. L /\ BytesBefore(list, j + 1) < n BY <1>1, <2>2 DEF WholeSent
    <3>2. BytesBefore(list, j) < n /\ BytesBefore(list, j + 1) <= n BY <1>2, <3>1
    <3> QED BY <1>1, <3>2 DEF WholeSent
  <2> QED BY <2>1, <2>2
<1>4. Cardinality(W) \in 0 .. L /\ W = 1 .. Cardinality(W)
  <2> HIDE DEF W, L
  <2> QED BY <1>1, <1>3, NoGap
<1>5. k \in 1 .. L + 1 /\ k \in Nat /\ k - 1 = Cardinality(W) /\ W = 1 .. k - 1 BY <1>4
<1>6. left = [i \in 1 .. L - k + 1 |->
        IF i = 1 THEN B!skip(list[k], n - BytesBefore(list, k)) ELSE list[k + i - 1]]
  BY DEF AfterSending
<1> HIDE DEF left, k
<1>7. CASE k = L + 1
  <2>1. 1 .. L - k + 1 = {} BY <1>1, <1>7
  <2>2. left \in [1 .. 0 -> SoundBuffers] /\ Len(<<>>) = 0 BY <1>6, <2>1
  <2>3. left = <<>>
    <3>1. left \in Seq(SoundBuffers) BY <2>2, SeqDef
    <3>2. Len(left) = 0 BY <2>2, <3>1, LenProperties
    <3> QED BY <3>1, <3>2, EmptySeq
  <2>4. Len(BytesOf(list)) = n
    <3>1. CASE L = 0
      <4>1. list = <<>> BY <3>1, EmptySeq
      <4> QED BY <4>1, BytesOfNone, EmptySeq
    <3>2. CASE L # 0
      <4>1. L \in 1 .. L /\ L \in W BY <1>1, <1>5, <1>7, <3>2
      <4>2. BytesBefore(list, L + 1) <= n BY <4>1 DEF WholeSent
      <4>3. BytesBefore(list, L + 1) = Len(BytesOf(list)) BY <4>1, BytesBeforeStep
      <4> QED BY <1>1, <4>2, <4>3
    <3> QED BY <3>1, <3>2
  <2>5. After(BytesOf(list), n) = <<>>
    <3>1. n + 1 > n /\ n \in Int BY <1>1
    <3> QED BY <3>1, <2>4, SubSeqEmpty DEF After
  <2> QED BY <2>3, <2>5, BytesOfNone, EmptySeq DEF left
<1>8. CASE k # L + 1
  <2> DEFINE r == n - BytesBefore(list, k)
             head == B!skip(list[k], r)
             first == SubSeq(list, 1, k - 1)
             rest == After(list, k)
  <2>1. k \in 1 .. L /\ k \notin W /\ list[k] \in SoundBuffers /\ k - 1 \in 0 .. L /\ k \in 0 .. L
    BY <1>1, <1>5, <1>8, ElementOfSeq
  <2>2. r \in 0 .. Len(B!Readable(list[k])) /\ BytesBefore(list, k) + r = n
    <3>1. BytesBefore(list, k) \in Nat /\ Len(B!Readable(list[k])) \in Nat
          /\ BytesBefore(list, k + 1) = BytesBefore(list, k) + Len(B!Readable(list[k]))
      BY <1>2, <2>1
    <3>2. BytesBefore(list, k) >= n \/ BytesBefore(list, k + 1) > n
      <4>1. ~(BytesBefore(list, k) < n /\ BytesBefore(list, k + 1) <= n)
        BY <1>1, <2>1 DEF WholeSent
      <4> QED BY <1>1, <4>1, <3>1
    <3>3. BytesBefore(list, k) <= n
      <4>1. CASE k = 1 BY <4>1, <2>1, <1>1, BytesBeforeStep
      <4>2. CASE k # 1
        <5>1. k - 1 \in W /\ (k - 1) + 1 = k BY <4>2, <1>5
        <5> QED BY <5>1 DEF WholeSent
      <4> QED BY <4>1, <4>2
    <3> QED BY <1>1, <3>1, <3>2, <3>3
  <2> HIDE DEF r, head, first, rest
  <2>3. head \in SoundBuffers /\ B!Readable(head) = After(B!Readable(list[k]), r)
    BY <2>1, <2>2, Skipped DEF head
  <2>4. first \in Seq(SoundBuffers) /\ Len(first) = k - 1 BY <2>1, FirstProperties DEF first
  <2>5. /\ rest \in Seq(SoundBuffers) /\ Len(rest) = L - k
        /\ \A i \in 1 .. L - k : rest[i] = list[k + i]
    BY <2>1, AfterProperties DEF rest
  <2>6. left = <<head>> \o rest
    <3>1. <<head>> \in Seq(SoundBuffers) /\ Len(<<head>>) = 1 /\ <<head>>[1] = head BY <2>3
    <3>2. /\ <<head>> \o rest \in Seq(SoundBuffers) /\ Len(<<head>> \o rest) = 1 + (L - k)
          /\ \A i \in 1 .. 1 + (L - k) :
               (<<head>> \o rest)[i] = IF i <= 1 THEN head ELSE rest[i - 1]
      BY <2>5, <3>1, ConcatProperties
    <3>3. L - k + 1 = 1 + (L - k) /\ L - k + 1 \in Nat BY <1>1, <2>1
    <3>4. ASSUME NEW i \in 1 .. L - k + 1
          PROVE  left[i] = (<<head>> \o rest)[i] /\ left[i] \in SoundBuffers
      <4>1. CASE i = 1
        <5>1. left[i] = head BY <4>1, <1>6 DEF head, r
        <5>2. (<<head>> \o rest)[i] = head BY <4>1, <3>2, <3>3
        <5> QED BY <5>1, <5>2, <2>3
      <4>2. CASE i # 1
        <5>1. left[i] = list[k + i - 1] BY <4>2, <1>6
        <5>2. (<<head>> \o rest)[i] = rest[i - 1] BY <4>2, <3>2, <3>3
        <5>3. i - 1 \in 1 .. L - k /\ k + (i - 1) = k + i - 1 /\ k + i - 1 \in 1 .. L
          BY <4>2, <1>1, <2>1
        <5>4. rest[i - 1] = list[k + i - 1] BY <5>3, <2>5
        <5>5. list[k + i - 1] \in SoundBuffers BY <5>3, ElementOfSeq
        <5> QED BY <5>1, <5>2, <5>4, <5>5
      <4> QED BY <4>1, <4>2
    <3>5. left \in [1 .. L - k + 1 -> SoundBuffers] BY <1>6, <3>4
    <3>6. left \in Seq(SoundBuffers) BY <3>3, <3>5, SeqDef
    <3>7. Len(left) = L - k + 1 BY <3>3, <3>5, <3>6, LenProperties
    <3> QED BY <3>2, <3>3, <3>4, <3>6, <3>7, SeqEqual
  <2>7. <<head>> \in Seq(SoundBuffers) /\ <<head>> # <<>> /\ BytesOf(<<head>>) = B!Readable(head)
    BY <2>3, BytesOfOne
  <2>8. left \in Seq(SoundBuffers) /\ BytesOf(left) = B!Readable(head) \o BytesOf(rest)
    BY <2>5, <2>6, <2>7, BytesOfConcat, ConcatProperties
  <2>9. list = first \o (<<list[k]>> \o rest)
    <3>1. list = first \o After(list, k - 1) BY <2>1, CutInTwo DEF first
    <3>2. After(list, k - 1) = <<list[k]>> \o rest
      <4>1. (k - 1) + 1 = k /\ k \in 1 .. Len(list) /\ Len(list) \in k .. Len(list) BY <1>1, <2>1
      <4> QED BY <4>1, SubSeqRecursiveFirst DEF After, rest
    <3> QED BY <3>1, <3>2
  <2> DEFINE x == BytesOf(first)
             y == B!Readable(list[k])
             z == BytesOf(rest)
  <2>10. x \in Seq(B!Byte) /\ y \in Seq(B!Byte) /\ z \in Seq(B!Byte)
    BY <2>1, <2>4, <2>5, BytesOfType, ReadableType
  <2>11. BytesOf(list) = x \o (y \o z)
    <3>1. <<list[k]>> \in Seq(SoundBuffers) /\ BytesOf(<<list[k]>>) = y BY <2>1, BytesOfOne
    <3>2. <<list[k]>> \o rest \in Seq(SoundBuffers) /\ BytesOf(<<list[k]>> \o rest) = y \o z
      BY <2>5, <3>1, BytesOfConcat, ConcatProperties
    <3> QED BY <2>4, <2>9, <3>2, BytesOfConcat
  <2>12. Len(x) = BytesBefore(list, k) /\ Len(x) \in Nat
    BY <2>10, LenProperties DEF BytesBefore, first
  <2> HIDE DEF x, y, z
  <2>13. y \o z \in Seq(B!Byte) /\ Len(y \o z) = Len(y) + Len(z) /\ Len(y) \in Nat /\ Len(z) \in Nat
    BY <2>10, ConcatProperties, LenProperties
  <2>14. x \o (y \o z) \in Seq(B!Byte) /\ Len(x \o (y \o z)) = Len(x) + (Len(y) + Len(z))
    BY <2>10, <2>13, ConcatProperties
  <2>15. After(x \o (y \o z), Len(x)) = y \o z BY <2>10, <2>13, CutBetween
  <2>16. r \in 0 .. Len(y) BY <2>2 DEF y
  <2>17. After(y \o z, r) = After(y, r) \o z BY <2>10, <2>16, CutJoined
  <2>18. After(After(x \o (y \o z), Len(x)), r) = After(x \o (y \o z), Len(x) + r)
    <3>1. Len(x) \in 0 .. Len(x \o (y \o z)) /\ r \in 0 .. Len(x \o (y \o z)) - Len(x)
      BY <2>12, <2>13, <2>14, <2>16
    <3> QED BY <3>1, <2>14, CutTwice
  <2>19. Len(x) + r = n BY <2>2, <2>12
  <2>20. BytesOf(left) = After(y, r) \o z BY <2>3, <2>8 DEF y, z
  <2> QED BY <2>8, <2>11, <2>15, <2>17, <2>18, <2>19, <2>20 DEF left
<1> QED BY <1>7, <1>8

-----------------------------------------------------------------------------
(* The shape of every variable *)

(* A key's bytes; a sequence that begins with another; the length a frame   *)
(* says it has.                                                             *)
KeyDigits == B!BigEndian(Key, KeyBytes)
Begins(s, t) == Len(s) >= Len(t) /\ SubSeq(s, 1, Len(t)) = t
LenOf(s) == B!Signed(SubSeq(s, 1, LenBytes))

(* No Buffer is read beyond what was written to it.  read_data only         *)
(* appends to its own; cur_unpcak_ keeps the key; nothing is parsed once the *)
(* reading has ended; a frame that is complete is read from its first byte. *)
SenderShape ==
  /\ wait_pack_list_ \in Seq(SoundBuffers) /\ wait_write_list_ \in Seq(SoundBuffers)
  /\ no_write \in BOOLEAN /\ pushed \in Seq(B!Byte)
SocketShape ==
  /\ socket \in Seq(B!Byte) /\ Len(socket) <= SocketRoom
  /\ stream \in Seq(B!Byte) /\ peer \in {"open", "fin", "reset"}
ReaderShape ==
  /\ buff \in SoundBuffers \cup {Null} /\ (buff # Null => buff.read_index = 0)
  /\ recv_list_ \in Seq(SoundBuffers)
CurShape ==
  /\ cur_unpcak_ \in SoundBuffers \cup {Null}
  /\ cur_unpcak_ # Null => Begins(cur_unpcak_.bytes, KeyDigits)
CallsShape ==
  /\ calls \in [upto : Nat, given : Seq(B!Byte), returned : BOOLEAN]
  /\ Len(calls.given) <= calls.upto
PcShape ==
  /\ flags \subseteq {"NEXT", "CLOSE", "NOREAD", "NOWRITE", "closed"}
  /\ pc \in {"idle", "parse", "finish"}
  /\ pc # "idle" => "NOREAD" \notin flags
  /\ pc = "finish" => cur_unpcak_ # Null /\ cur_unpcak_.read_index = 0 /\ unpack_list_ # <<>>
  /\ front_unpcak_ = "front" => unpack_list_ # <<>>
  /\ front_unpcak_ = "pool" => "NOREAD" \in flags

Shapes ==
  /\ SenderShape /\ SocketShape /\ ReaderShape
  /\ unpack_list_ \in Seq(SoundBuffers) /\ CurShape /\ CallsShape /\ PcShape

(* What the proofs use of FramesAssumption.                                 *)
LEMMA Constants ==
  /\ Base \in Nat /\ Base > 1 /\ LenBytes \in Nat /\ LenBytes > 0 /\ KeyBytes \in Nat
  /\ LenBytes <= KeyBytes /\ SocketRoom \in Nat
  /\ KeyDigits \in Seq(B!Byte) /\ Len(KeyDigits) = KeyBytes
  /\ \A i \in 1 .. LenBytes : KeyDigits[i] = 0
  /\ Null \notin SoundBuffers
<1>1. Key \in Int /\ KeyBytes \in Nat BY FramesAssumption
<1> QED BY <1>1, FramesAssumption, BigEndianType DEF KeyDigits, SoundBuffers

LEMMA BeginsJoined ==
  ASSUME NEW s \in Seq(B!Byte), NEW t \in Seq(B!Byte), NEW u \in Seq(B!Byte), Begins(s, u)
  PROVE  Begins(s \o t, u)
<1>1. Len(s) \in Nat /\ Len(t) \in Nat /\ Len(u) \in Nat /\ Len(u) <= Len(s)
  BY LenProperties DEF Begins
<1>2. Len(s \o t) = Len(s) + Len(t) BY ConcatProperties
<1>3. Len(u) \in 0 .. Len(s) BY <1>1
<1>4. SubSeq(s \o t, 1, Len(u)) = SubSeq(s, 1, Len(u)) BY <1>3, CutJoined
<1> QED BY <1>1, <1>2, <1>4 DEF Begins

(* A Buffer of wait_pack_list_ is what the user pushed.                     *)
LEMMA PushedBuffer ==
  ASSUME NEW p \in Packets
  PROVE  LET b == Copy(B!readInt(UserBuffer(p), KeyBytes)) IN
         p \in Seq(B!Byte) /\ b \in SoundBuffers /\ B!Readable(b) = p
<1>1. p \in Seq(B!Byte) BY FramesAssumption
<1> DEFINE w == B!writeInt(B!NewBuffer, Key, KeyBytes)
           u == UserBuffer(p)
           r == B!readInt(u, KeyBytes)
<1>2. w \in SoundBuffers /\ B!Readable(w) = <<>> \o KeyDigits
  BY Constants, NewBufferSound, Appended DEF B!writeInt, KeyDigits
<1>3. u \in SoundBuffers /\ B!Readable(u) = (<<>> \o KeyDigits) \o p
  BY <1>1, <1>2, Appended DEF UserBuffer
<1>4. B!Readable(u) = KeyDigits \o p BY <1>3, Constants, ConcatEmptySeq
<1> HIDE DEF u
<1>5. KeyBytes \in 0 .. Len(B!Readable(u))
  BY <1>1, <1>4, Constants, ConcatProperties, LenProperties
<1>6. r \in SoundBuffers /\ B!Readable(r) = After(KeyDigits \o p, KeyBytes)
  BY <1>3, <1>4, <1>5, Skipped DEF B!readInt
<1>7. B!Readable(r) = p BY <1>1, <1>6, Constants, CutBetween
<1>8. /\ B!append(B!NewBuffer, p) \in SoundBuffers
      /\ B!Readable(B!append(B!NewBuffer, p)) = <<>> \o p
  BY <1>1, NewBufferSound, Appended
<1>9. <<>> \o p = p BY <1>1, ConcatEmptySeq
<1> QED BY <1>1, <1>7, <1>8, <1>9 DEF Copy, u

(* The Buffer do_handle_unpack begins a frame with.                         *)
LEMMA EmptyFrameIs ==
  /\ EmptyFrame \in SoundBuffers /\ EmptyFrame.bytes = KeyDigits
  /\ EmptyFrame.read_index = KeyBytes
<1> DEFINE w == B!writeInt(B!NewBuffer, Key, KeyBytes)
<1>1. w \in SoundBuffers /\ w.bytes = <<>> \o KeyDigits /\ w.read_index = 0
      /\ B!Readable(w) = <<>> \o KeyDigits
  BY Constants, NewBufferSound, Appended DEF B!writeInt, KeyDigits
<1>2. <<>> \o KeyDigits = KeyDigits BY Constants, ConcatEmptySeq
<1>3. KeyBytes \in 0 .. Len(B!Readable(w)) /\ 0 + KeyBytes = KeyBytes BY <1>1, <1>2, Constants
<1> HIDE DEF w
<1>4. /\ B!skip(w, KeyBytes) \in SoundBuffers /\ B!skip(w, KeyBytes).bytes = KeyDigits
      /\ B!skip(w, KeyBytes).read_index = KeyBytes
  BY <1>1, <1>2, <1>3, Skipped
<1> QED BY <1>4 DEF EmptyFrame, w

(* cur_unpcak_, or the one made for it.                                     *)
LEMMA CurSound ==
  ASSUME CurShape
  PROVE  /\ Cur \in SoundBuffers /\ Begins(Cur.bytes, KeyDigits)
         /\ cur_unpcak_ = Null => Cur.bytes = KeyDigits /\ Cur.read_index = KeyBytes
<1>1. CASE cur_unpcak_ # Null BY <1>1 DEF CurShape, Cur
<1>2. CASE cur_unpcak_ = Null
  <2>1. Cur = EmptyFrame BY <1>2 DEF Cur
  <2>2. Begins(KeyDigits, KeyDigits) BY Constants, SubSeqFull DEF Begins
  <2> QED BY <2>1, <2>2, EmptyFrameIs
<1> QED BY <1>1, <1>2

(* What completes a length comes off the front Buffer.                      *)
LEMMA LengthTaken ==
  ASSUME CurShape, unpack_list_ \in Seq(SoundBuffers), LengthKnown
  PROVE  LET taken == SubSeq(B!Readable(front), 1, need_len_len) IN
         /\ unpack_list_ # <<>> /\ front \in SoundBuffers /\ taken \in Seq(B!Byte)
         /\ CurL \in SoundBuffers /\ FrontL \in SoundBuffers
         /\ CurL.bytes = Cur.bytes \o taken /\ CurL.read_index = Cur.read_index
         /\ B!Readable(CurL) = B!Readable(Cur) \o taken
         /\ Len(B!Readable(CurL)) >= LenBytes
         /\ B!Readable(front) = taken \o B!Readable(FrontL)
         /\ Begins(CurL.bytes, KeyDigits)
         /\ len = LenOf(B!Readable(CurL)) /\ len \in Int
         /\ need_data_len = LenBytes + len - Len(B!Readable(CurL)) /\ need_data_len \in Int
         /\ (Len(B!Readable(Cur)) >= LenBytes => taken = <<>>)
<1> DEFINE taken == SubSeq(B!Readable(front), 1, need_len_len)
           n == need_len_len
<1>1. unpack_list_ # <<>> /\ front \in SoundBuffers
  BY HeadTailProperties DEF LengthKnown, front
<1>2. /\ Cur \in SoundBuffers /\ Begins(Cur.bytes, KeyDigits)
      /\ Cur.bytes \in Seq(B!Byte)
      /\ B!Readable(Cur) \in Seq(B!Byte) /\ B!readableBytes(Cur) \in Nat
      /\ Len(B!Readable(Cur)) = B!readableBytes(Cur)
  BY CurSound, ReadableType, BufferParts
<1>3. /\ B!Readable(front) \in Seq(B!Byte) /\ B!readableBytes(front) \in Nat
      /\ Len(B!Readable(front)) = B!readableBytes(front)
  BY <1>1, ReadableType
<1>4. LenBytes \in Nat /\ LenBytes > 0 BY Constants
<1>5. /\ n \in Nat /\ (B!readableBytes(Cur) >= LenBytes => n = 0)
      /\ B!readableBytes(Cur) + n >= LenBytes
  BY <1>2, <1>4 DEF need_len_len, B!is_readable
<1>6. n \in 0 .. Len(B!Readable(front)) BY <1>3, <1>5 DEF LengthKnown, B!is_readable
<1> HIDE DEF n
<1>7. /\ taken \in Seq(B!Byte) /\ Len(taken) = n
  <2>1. SubSeq(B!Readable(front), 1, n) \in Seq(B!Byte) /\ Len(SubSeq(B!Readable(front), 1, n)) = n
    BY <1>3, <1>6, FirstProperties
  <2> QED BY <2>1 DEF n
<1>8. n = 0 => taken = <<>> BY <1>7, EmptySeq
<1>9. /\ FrontL \in SoundBuffers
      /\ B!Readable(front) = taken \o B!Readable(FrontL)
  BY <1>1, <1>6, Skipped DEF FrontL, n
<1> HIDE DEF taken
<1>10. /\ CurL \in SoundBuffers /\ CurL.bytes = Cur.bytes \o taken
       /\ CurL.read_index = Cur.read_index
       /\ B!Readable(CurL) = B!Readable(Cur) \o taken
  BY <1>2, <1>7, Appended DEF CurL, taken
<1>11. Begins(CurL.bytes, KeyDigits) BY <1>2, <1>7, <1>10, Constants, BeginsJoined
<1>12. Len(B!Readable(CurL)) = Len(B!Readable(Cur)) + n BY <1>2, <1>7, <1>10, ConcatProperties
<1>13. /\ Len(B!Readable(CurL)) >= LenBytes /\ Len(B!Readable(CurL)) \in Nat
       /\ B!readableBytes(CurL) = Len(B!Readable(CurL)) /\ B!Readable(CurL) \in Seq(B!Byte)
  BY <1>2, <1>4, <1>5, <1>10, <1>12, ReadableType
<1>14. len = LenOf(B!Readable(CurL)) BY DEF len, B!peekInt, LenOf
<1>15. len \in Int
  <2>1. LenBytes \in 0 .. Len(B!Readable(CurL)) BY <1>4, <1>13
  <2>2. SubSeq(B!Readable(CurL), 1, LenBytes) \in Seq(B!Byte)
    BY <2>1, <1>13, FirstProperties
  <2> QED BY <2>2, <1>14, SignedType DEF LenOf
<1>16. need_data_len = LenBytes + len - Len(B!Readable(CurL)) /\ need_data_len \in Int
  <2> HIDE DEF len
  <2>1. need_data_len = len - (Len(B!Readable(CurL)) - LenBytes) BY <1>13 DEF need_data_len
  <2> QED BY <2>1, <1>4, <1>13, <1>15
<1>17. Len(B!Readable(Cur)) >= LenBytes => taken = <<>> BY <1>2, <1>5, <1>8
<1> QED
  BY <1>1, <1>7, <1>9, <1>10, <1>11, <1>13, <1>14, <1>15, <1>16, <1>17 DEF taken

(* What completes the frame, too.                                           *)
LEMMA DataTaken ==
  ASSUME CurShape, unpack_list_ \in Seq(SoundBuffers), LengthKnown, DataIsThere
  PROVE  LET more == SubSeq(B!Readable(FrontL), 1, need_data_len)
             rest == B!skip(FrontL, need_data_len)
             full == B!append(CurL, more)
             frame == B!set_read_index(full, 0) IN
         /\ more \in Seq(B!Byte) /\ Len(more) = need_data_len /\ rest \in SoundBuffers
         /\ B!Readable(FrontL) = more \o B!Readable(rest)
         /\ frame \in SoundBuffers /\ frame.bytes = CurL.bytes \o more /\ frame.read_index = 0
         /\ B!Readable(full) = B!Readable(CurL) \o more
         /\ Begins(frame.bytes, KeyDigits)
<1> DEFINE d == need_data_len
           more == SubSeq(B!Readable(FrontL), 1, d)
           full == B!append(CurL, more)
<1>1. /\ CurL \in SoundBuffers /\ FrontL \in SoundBuffers /\ d \in Int
      /\ Begins(CurL.bytes, KeyDigits)
  BY LengthTaken
<1>2. /\ B!Readable(FrontL) \in Seq(B!Byte) /\ B!readableBytes(FrontL) \in Nat
      /\ Len(B!Readable(FrontL)) = B!readableBytes(FrontL)
  BY <1>1, ReadableType
<1>3. d \in 0 .. Len(B!Readable(FrontL)) BY <1>1, <1>2 DEF DataIsThere, B!is_readable
<1> HIDE DEF d
<1>4. more \in Seq(B!Byte) /\ Len(more) = d BY <1>2, <1>3, FirstProperties
<1>5. B!skip(FrontL, d) \in SoundBuffers /\ B!Readable(FrontL) = more \o B!Readable(B!skip(FrontL, d))
  BY <1>1, <1>3, Skipped
<1> HIDE DEF more
<1>6. /\ full \in SoundBuffers /\ full.bytes = CurL.bytes \o more
      /\ B!Readable(full) = B!Readable(CurL) \o more
  BY <1>1, <1>4, Appended
<1> HIDE DEF full
<1>7. /\ B!set_read_index(full, 0) \in SoundBuffers
      /\ B!set_read_index(full, 0).bytes = full.bytes /\ B!set_read_index(full, 0).read_index = 0
  <2>1. 0 \in 0 .. Len(full.bytes) BY <1>6, BufferParts
  <2> QED BY <2>1, <1>6, IndexSet
<1>8. Begins(CurL.bytes \o more, KeyDigits)
  BY <1>1, <1>4, Constants, BufferParts, BeginsJoined
<1> QED BY <1>4, <1>5, <1>6, <1>7, <1>8 DEF d, more, full

-----------------------------------------------------------------------------
(* Each end keeps its shape *)

LEMMA AllOutType ==
  ASSUME SenderShape
  PROVE  /\ AllOut \in Seq(SoundBuffers) /\ BytesOf(AllOut) \in Seq(B!Byte)
         /\ Len(BytesOf(AllOut)) \in Nat
         /\ BytesOf(AllOut) = BytesOf(wait_write_list_) \o BytesOf(wait_pack_list_)
<1>1. AllOut \in Seq(SoundBuffers) BY ConcatProperties DEF SenderShape, AllOut
<1>2. BytesOf(AllOut) \in Seq(B!Byte) BY <1>1, BytesOfType
<1>3. BytesOf(AllOut) = BytesOf(wait_write_list_) \o BytesOf(wait_pack_list_)
  BY BytesOfConcat DEF SenderShape, AllOut
<1> QED BY <1>1, <1>2, <1>3, LenProperties

LEMMA SenderStep ==
  ASSUME SenderShape, SocketShape, [Next]_vars PROVE SenderShape' /\ SocketShape'
<1> USE DEF SenderShape, SocketShape
<1>1. ASSUME NEW p \in Packets, push_send_pack(p) PROVE SenderShape' /\ SocketShape'
  <2> DEFINE b == Copy(B!readInt(UserBuffer(p), KeyBytes))
  <2>1. p \in Seq(B!Byte) /\ b \in SoundBuffers BY PushedBuffer
  <2> HIDE DEF b
  <2>2. Append(wait_pack_list_, b) \in Seq(SoundBuffers) /\ pushed \o p \in Seq(B!Byte)
    BY <2>1, AppendProperties, ConcatProperties
  <2>3. wait_pack_list_' = Append(wait_pack_list_, b) BY <1>1 DEF push_send_pack, b
  <2> QED BY <1>1, <2>2, <2>3 DEF push_send_pack, socket_vars
<1>2. CASE WriteSome
  <2> DEFINE bytes == BytesOf(AllOut)
  <2>1. AllOut \in Seq(SoundBuffers) /\ bytes \in Seq(B!Byte) /\ Len(bytes) \in Nat
    BY AllOutType
  <2>2. PICK n \in 0 .. SocketRoom - Len(socket) :
          /\ n <= Len(bytes)
          /\ wait_write_list_' = AfterSending(AllOut, n)
          /\ socket' = socket \o SubSeq(bytes, 1, n)
          /\ stream' = stream \o SubSeq(bytes, 1, n)
    BY <1>2 DEF WriteSome
  <2>3. Len(socket) \in Nat /\ Len(socket) + n <= SocketRoom /\ n \in 0 .. Len(bytes)
    BY <2>1, <2>2, Constants, LenProperties
  <2>4. AfterSending(AllOut, n) \in Seq(SoundBuffers) BY <2>1, <2>3, AfterSendingBytes
  <2>5. SubSeq(bytes, 1, n) \in Seq(B!Byte) /\ Len(SubSeq(bytes, 1, n)) = n
    BY <2>1, <2>3, FirstProperties
  <2>6. /\ socket' \in Seq(B!Byte) /\ Len(socket') = Len(socket) + n
        /\ stream' \in Seq(B!Byte)
    BY <2>2, <2>5, ConcatProperties
  <2>7. wait_pack_list_' = <<>> /\ UNCHANGED <<no_write, pushed, peer>>
        /\ <<>> \in Seq(SoundBuffers)
    BY <1>2, EmptySeq DEF WriteSome
  <2> QED BY <2>2, <2>3, <2>4, <2>6, <2>7
<1>3. CASE WriteAgain \/ WriteError
  <2>1. AllOut \in Seq(SoundBuffers) /\ <<>> \in Seq(SoundBuffers) BY AllOutType, EmptySeq
  <2> QED BY <1>3, <2>1 DEF WriteAgain, WriteError, socket_vars
<1>4. ASSUME NEW how \in PeerMayEnd, SenderEnds(how) PROVE SenderShape' /\ SocketShape'
  BY <1>4, FramesAssumption DEF SenderEnds, sender_vars
<1>5. CASE ReadSome
  <2>1. <<>> \in Seq(B!Byte) /\ Len(<<>>) = 0 /\ 0 <= SocketRoom BY EmptySeq, Constants
  <2> QED BY <1>5, <2>1 DEF ReadSome, sender_vars
<1>6. CASE UNCHANGED <<sender_vars, socket_vars>>
  BY <1>6 DEF sender_vars, socket_vars
<1>7. ReadEnd \/ ReadError \/ handle_unpack \/ set_close \/ UNCHANGED vars
        => UNCHANGED <<sender_vars, socket_vars>>
  BY DEF ReadEnd, ReadError, handle_unpack, set_close, vars, UnpackNothing, UnpackSplice,
    UnpackLenPart, UnpackDataPart, UnpackFrame, UnpackBad, UnpackEnd, CallbackReturns,
    CallbackThrows, FrontUsedUp
<1> QED BY <1>1, <1>2, <1>3, <1>4, <1>5, <1>6, <1>7 DEF Next, do_write_data, read_data

LEMMA AllInType ==
  ASSUME unpack_list_ \in Seq(SoundBuffers), recv_list_ \in Seq(SoundBuffers)
  PROVE  /\ AllIn \in Seq(SoundBuffers)
         /\ BytesOf(AllIn) = BytesOf(unpack_list_) \o BytesOf(recv_list_)
         /\ BytesOf(unpack_list_) \in Seq(B!Byte) /\ BytesOf(recv_list_) \in Seq(B!Byte)
         /\ (AllIn = <<>> => unpack_list_ = <<>> /\ recv_list_ = <<>>)
<1>1. AllIn \in Seq(SoundBuffers) /\ Len(AllIn) = Len(unpack_list_) + Len(recv_list_)
  BY ConcatProperties DEF AllIn
<1>2. Len(unpack_list_) \in Nat /\ Len(recv_list_) \in Nat BY LenProperties
<1>3. AllIn = <<>> => Len(unpack_list_) = 0 /\ Len(recv_list_) = 0 BY <1>1, <1>2, EmptySeq
<1>4. AllIn = <<>> => unpack_list_ = <<>> /\ recv_list_ = <<>> BY <1>3, EmptySeq
<1> QED BY <1>1, <1>4, BytesOfConcat, BytesOfType DEF AllIn

LEMMA ReaderStep ==
  ASSUME ReaderShape, SocketShape, [Next]_vars PROVE ReaderShape'
<1> USE DEF ReaderShape
<1>1. CASE ReadSome
  <2> DEFINE b == IF buff = Null THEN B!NewBuffer ELSE buff
  <2>1. b \in SoundBuffers /\ b.read_index = 0 BY NewBufferSound
  <2>2. socket \in Seq(B!Byte) BY DEF SocketShape
  <2> HIDE DEF b
  <2>3. B!append(b, socket) \in SoundBuffers /\ B!append(b, socket).read_index = 0
    BY <2>1, <2>2, Appended
  <2>4. buff' = B!append(b, socket) /\ recv_list_' = recv_list_ BY <1>1 DEF ReadSome, b
  <2> QED BY <2>3, <2>4
<1>2. CASE ReadEnd
  <2>1. Received \in Seq(SoundBuffers) BY EmptySeq DEF Received
  <2>2. recv_list_ \o Received \in Seq(SoundBuffers) BY <2>1, ConcatProperties
  <2> QED BY <1>2, <2>2 DEF ReadEnd
<1>3. CASE ReadError BY <1>3 DEF ReadError
<1>4. CASE UnpackSplice \/ UnpackBad
  BY <1>4, EmptySeq DEF UnpackSplice, UnpackBad
<1>5. CASE UNCHANGED <<buff, recv_list_>> BY <1>5
<1>6. ASSUME NEW r \in ThrowAfter, CallbackThrows(r) PROVE UNCHANGED <<buff, recv_list_>>
  BY <1>6 DEF CallbackThrows
<1>7. UnpackNothing \/ UnpackLenPart \/ UnpackDataPart \/ UnpackFrame \/ UnpackEnd
        \/ CallbackReturns \/ set_close \/ UNCHANGED vars => UNCHANGED <<buff, recv_list_>>
  BY DEF UnpackNothing, UnpackLenPart, UnpackDataPart, UnpackFrame, UnpackEnd,
    CallbackReturns, set_close, vars, FrontUsedUp, receiver_vars
<1>8. ASSUME NEW p \in Packets, push_send_pack(p) PROVE UNCHANGED <<buff, recv_list_>>
  BY <1>8 DEF push_send_pack, receiver_vars
<1>9. ASSUME NEW how \in PeerMayEnd, SenderEnds(how) PROVE UNCHANGED <<buff, recv_list_>>
  BY <1>9 DEF SenderEnds, receiver_vars
<1>10. do_write_data => UNCHANGED <<buff, recv_list_>>
  BY DEF do_write_data, WriteSome, WriteAgain, WriteError, receiver_vars
<1> QED
  BY <1>1, <1>2, <1>3, <1>4, <1>5, <1>6, <1>7, <1>8, <1>9, <1>10
  DEF Next, read_data, handle_unpack

AllFlags == {"NEXT", "CLOSE", "NOREAD", "NOWRITE", "closed"}

(* A step that is not the parser's leaves what it works on alone.           *)
Elsewhere ==
  /\ UNCHANGED <<unpack_list_, cur_unpcak_, front_unpcak_, pc, calls>>
  /\ ("NOREAD" \in flags' <=> "NOREAD" \in flags)
  /\ flags \subseteq AllFlags => flags' \subseteq AllFlags

LEMMA ParserSteps ==
  ASSUME [Next]_vars
  PROVE  \/ UnpackSplice \/ UnpackLenPart \/ UnpackDataPart \/ UnpackFrame \/ UnpackBad
         \/ UnpackEnd \/ CallbackReturns \/ \E r \in ThrowAfter : CallbackThrows(r)
         \/ Elsewhere
<1>1. ASSUME NEW p \in Packets, push_send_pack(p) PROVE Elsewhere
  BY <1>1 DEF push_send_pack, receiver_vars, parser_vars, Elsewhere
<1>2. do_write_data => Elsewhere
  BY DEF do_write_data, WriteSome, WriteAgain, WriteError, receiver_vars, parser_vars, Elsewhere
<1>3. ASSUME NEW how \in PeerMayEnd, SenderEnds(how) PROVE Elsewhere
  BY <1>3 DEF SenderEnds, receiver_vars, parser_vars, Elsewhere
<1>4. ReadSome => Elsewhere BY DEF ReadSome, parser_vars, Elsewhere
<1>5. ReadEnd => Elsewhere BY DEF ReadEnd, parser_vars, Elsewhere, AllFlags
<1>6. ReadError => Elsewhere BY DEF ReadError, parser_vars, Elsewhere, AllFlags
<1>7. UnpackNothing => Elsewhere BY DEF UnpackNothing, parser_vars, Elsewhere, AllFlags
<1>8. set_close => Elsewhere BY DEF set_close, parser_vars, Elsewhere, AllFlags
<1>9. UNCHANGED vars => Elsewhere BY DEF vars, receiver_vars, parser_vars, Elsewhere
<1> QED BY <1>1, <1>2, <1>3, <1>4, <1>5, <1>6, <1>7, <1>8, <1>9 DEF Next, read_data, handle_unpack

(* What a call of message_callback_ is recorded as.                         *)
LEMMA CalledType ==
  ASSUME CurShape, CallsShape, cur_unpcak_ # Null, NEW returns \in BOOLEAN, Called(returns)
  PROVE  LET frame == After(cur_unpcak_.bytes, KeyBytes) IN
         /\ CallsShape' /\ frame \in Seq(B!Byte) /\ Len(frame) \in Nat
         /\ Place \in Nat /\ Place <= calls.upto
         /\ calls'.upto = Place + Len(frame) /\ calls'.given = frame /\ calls'.returned = returns
         /\ frame = Held
<1> DEFINE frame == After(cur_unpcak_.bytes, KeyBytes)
<1>1. cur_unpcak_.bytes \in Seq(B!Byte) /\ KeyBytes \in 0 .. Len(cur_unpcak_.bytes)
  BY Constants, BufferParts, LenProperties DEF CurShape, Begins
<1>2. frame \in Seq(B!Byte) /\ Len(frame) \in Nat BY <1>1, AfterProperties, LenProperties
<1>3. /\ calls.upto \in Nat /\ calls.given \in Seq(B!Byte) /\ calls.returned \in BOOLEAN
      /\ Len(calls.given) \in Nat /\ Len(calls.given) <= calls.upto
  BY LenProperties DEF CallsShape
<1>4. Place \in Nat /\ Place <= calls.upto BY <1>3 DEF Place
<1>5. calls' = [upto |-> Place + Len(frame), given |-> frame, returned |-> returns]
  BY DEF Called, After, Place
<1>6. frame = Held BY DEF Held, After
<1> HIDE DEF frame
<1>7. Place + Len(frame) \in Nat /\ Len(frame) <= Place + Len(frame) BY <1>2, <1>4
<1>8. CallsShape' BY <1>2, <1>5, <1>7 DEF CallsShape
<1> QED BY <1>2, <1>4, <1>5, <1>6, <1>8 DEF frame

(* The front of a list, changed in place.                                   *)
LEMMA ReplaceFirst ==
  ASSUME NEW S, NEW s \in Seq(S), s # <<>>, NEW x \in S
  PROVE  /\ [s EXCEPT ![1] = x] \in Seq(S) /\ [s EXCEPT ![1] = x] # <<>>
         /\ Head([s EXCEPT ![1] = x]) = x /\ Tail([s EXCEPT ![1] = x]) = Tail(s)
<1> DEFINE t == [s EXCEPT ![1] = x]
<1>1. Len(s) \in Nat \ {0} /\ DOMAIN s = 1 .. Len(s) BY LenProperties, EmptySeq
<1>2. s \in [1 .. Len(s) -> S] BY LenProperties
<1>3. t \in [1 .. Len(s) -> S] /\ t[1] = x /\ \A i \in 2 .. Len(s) : t[i] = s[i] BY <1>1, <1>2
<1> HIDE DEF t
<1>4. t \in Seq(S) BY <1>1, <1>3, SeqDef
<1>5. Len(t) = Len(s) BY <1>1, <1>3, <1>4, LenProperties
<1>6. t # <<>> BY <1>1, <1>4, <1>5, EmptySeq
<1>7. Head(t) = x BY <1>3, <1>6
<1>8. Tail(t) = Tail(s)
  <2>1. /\ Tail(t) \in Seq(S) /\ Len(Tail(t)) = Len(s) - 1
        /\ \A i \in 1 .. Len(s) - 1 : Tail(t)[i] = t[i + 1]
    BY <1>1, <1>4, <1>5, <1>6, HeadTailProperties
  <2>2. /\ Tail(s) \in Seq(S) /\ Len(Tail(s)) = Len(s) - 1
        /\ \A i \in 1 .. Len(s) - 1 : Tail(s)[i] = s[i + 1]
    BY <1>1, EmptySeq, HeadTailProperties
  <2>3. \A i \in 1 .. Len(s) - 1 : Tail(t)[i] = Tail(s)[i]
    <3>1. \A i \in 1 .. Len(s) - 1 : i + 1 \in 2 .. Len(s) BY <1>1
    <3> QED BY <3>1, <1>3, <2>1, <2>2
  <2> QED BY <2>1, <2>2, <2>3, SeqEqual
<1> QED BY <1>4, <1>6, <1>7, <1>8 DEF t

LEMMA ParserStep ==
  ASSUME Shapes, [Next]_vars
  PROVE  unpack_list_' \in Seq(SoundBuffers) /\ CurShape' /\ CallsShape' /\ PcShape'
<1> DEFINE Goal == unpack_list_' \in Seq(SoundBuffers) /\ CurShape' /\ CallsShape' /\ PcShape'
<1>0. /\ unpack_list_ \in Seq(SoundBuffers) /\ CurShape /\ CallsShape /\ PcShape
      /\ recv_list_ \in Seq(SoundBuffers)
  BY DEF Shapes, ReaderShape
<1>s. Cur \in SoundBuffers /\ Begins(Cur.bytes, KeyDigits) /\ Cur.bytes \in Seq(B!Byte)
  BY <1>0, CurSound, BufferParts
<1>n. Null \notin {"front", "pool"} BY FramesAssumption
<1>1. CASE UnpackSplice
  <2>1. AllIn \in Seq(SoundBuffers) /\ (AllIn = <<>> => unpack_list_ = <<>>)
    BY <1>0, AllInType
  <2>2. CurShape' /\ CallsShape' BY <1>0, <1>1 DEF UnpackSplice, CurShape, CallsShape
  <2>3. PcShape' BY <1>0, <1>1, <2>1 DEF UnpackSplice, PcShape, scheduled
  <2> QED BY <1>1, <2>1, <2>2, <2>3 DEF UnpackSplice
<1>2. ASSUME NEW cur \in SoundBuffers, Begins(cur.bytes, KeyDigits), NEW last \in SoundBuffers,
             FrontUsedUp(cur, last), unpack_list_ # <<>>, pc = "parse"
      PROVE  Goal
  <2>1. cur.bytes \in Seq(B!Byte) /\ B!Readable(last) \in Seq(B!Byte)
    BY BufferParts, ReadableType
  <2>2. /\ B!append(cur, B!Readable(last)) \in SoundBuffers
        /\ B!append(cur, B!Readable(last)).bytes = cur.bytes \o B!Readable(last)
    BY <2>1, Appended
  <2>3. Begins(cur.bytes \o B!Readable(last), KeyDigits) BY <1>2, <2>1, Constants, BeginsJoined
  <2>4. CurShape' BY <1>2, <2>2, <2>3 DEF FrontUsedUp, CurShape
  <2>5. Tail(unpack_list_) \in Seq(SoundBuffers) BY <1>0, <1>2, HeadTailProperties
  <2>6. CallsShape' BY <1>0, <1>2 DEF FrontUsedUp, CallsShape
  <2>7. PcShape' BY <1>0, <1>2, <1>n DEF FrontUsedUp, PcShape
  <2> QED BY <2>4, <2>5, <2>6, <2>7, <1>2 DEF FrontUsedUp
<1>3. CASE UnpackLenPart
  <2>1. unpack_list_ # <<>> /\ pc = "parse" /\ FrontUsedUp(Cur, front)
    BY <1>3 DEF UnpackLenPart
  <2>2. front \in SoundBuffers BY <1>0, <2>1, HeadTailProperties DEF front
  <2> QED BY <2>1, <2>2, <1>2, <1>s
<1>4. CASE UnpackDataPart
  <2>1. LengthKnown /\ pc = "parse" /\ FrontUsedUp(CurL, FrontL)
    BY <1>4 DEF UnpackDataPart
  <2>2. /\ unpack_list_ # <<>> /\ CurL \in SoundBuffers /\ FrontL \in SoundBuffers
        /\ Begins(CurL.bytes, KeyDigits)
    BY <1>0, <2>1, LengthTaken
  <2> QED BY <2>1, <2>2, <1>2
<1>5. CASE UnpackFrame
  <2> DEFINE rest == B!skip(FrontL, need_data_len)
             frame == B!set_read_index(
                        B!append(CurL, SubSeq(B!Readable(FrontL), 1, need_data_len)), 0)
  <2>1. LengthKnown /\ DataIsThere /\ pc = "parse" BY <1>5 DEF UnpackFrame
  <2>2. /\ rest \in SoundBuffers /\ frame \in SoundBuffers /\ frame.read_index = 0
        /\ Begins(frame.bytes, KeyDigits)
    BY <1>0, <2>1, DataTaken
  <2>3. unpack_list_ # <<>> BY <2>1 DEF LengthKnown
  <2> HIDE DEF rest, frame
  <2>4. cur_unpcak_' = frame /\ unpack_list_' = [unpack_list_ EXCEPT ![1] = rest]
    BY <1>5 DEF UnpackFrame, rest, frame
  <2>5. unpack_list_' \in Seq(SoundBuffers) /\ unpack_list_' # <<>>
    BY <1>0, <2>2, <2>3, <2>4, ReplaceFirst
  <2>6. frame # Null BY <2>2, Constants
  <2>7. CurShape' BY <2>2, <2>4 DEF CurShape
  <2>8. CallsShape' BY <1>0, <1>5 DEF UnpackFrame, CallsShape
  <2>9. PcShape' BY <1>0, <1>5, <2>1, <2>2, <2>4, <2>5, <2>6 DEF UnpackFrame, PcShape
  <2> QED BY <2>5, <2>7, <2>8, <2>9
<1>6. CASE UnpackBad
  <2>1. LengthKnown BY <1>6 DEF UnpackBad
  <2>2. CurL \in SoundBuffers /\ Begins(CurL.bytes, KeyDigits) BY <1>0, <2>1, LengthTaken
  <2>3. CurShape' BY <1>6, <2>2 DEF UnpackBad, CurShape
  <2>4. CallsShape' BY <1>0, <1>6 DEF UnpackBad, CallsShape
  <2>5. PcShape' BY <1>0, <1>6 DEF UnpackBad, PcShape
  <2> QED BY <1>6, <2>3, <2>4, <2>5, EmptySeq DEF UnpackBad
<1>7. CASE UnpackEnd
  <2>1. CurShape' /\ CallsShape' BY <1>0, <1>7 DEF UnpackEnd, CurShape, CallsShape
  <2>2. PcShape' BY <1>0, <1>7 DEF UnpackEnd, PcShape
  <2> QED BY <1>0, <1>7, <2>1, <2>2 DEF UnpackEnd
<1>8. CASE CallbackReturns
  <2>1. cur_unpcak_ # Null /\ unpack_list_ # <<>> BY <1>0, <1>8 DEF CallbackReturns, PcShape
  <2>2. CallsShape' BY <1>0, <1>8, <2>1, CalledType DEF CallbackReturns
  <2>3. CurShape' BY <1>8 DEF CallbackReturns, CurShape
  <2>4. Tail(unpack_list_) \in Seq(SoundBuffers) BY <1>0, <2>1, HeadTailProperties
  <2>5. PcShape'
    <3>1. /\ pc' = "idle" /\ flags' = flags \cup {"NEXT"}
          /\ \/ front_unpcak_' = Null \/ UNCHANGED <<unpack_list_, front_unpcak_>>
      BY <1>8 DEF CallbackReturns
    <3> QED BY <3>1, <1>0, <1>n DEF PcShape
  <2> QED BY <1>0, <1>8, <2>2, <2>3, <2>4, <2>5 DEF CallbackReturns
<1>9. ASSUME NEW r \in ThrowAfter, CallbackThrows(r) PROVE Goal
  <2> DEFINE i == CASE r = "nothing" -> 0 [] r = "key" -> KeyBytes
                    [] r = "all" -> Len(cur_unpcak_.bytes)
  <2>1. cur_unpcak_ # Null /\ cur_unpcak_ \in SoundBuffers
    BY <1>0, <1>9 DEF CallbackThrows, PcShape, CurShape
  <2>2. CallsShape' BY <1>0, <1>9, <2>1, CalledType DEF CallbackThrows
  <2>3. i \in 0 .. Len(cur_unpcak_.bytes)
    <3>1. Len(cur_unpcak_.bytes) \in Nat /\ Len(cur_unpcak_.bytes) >= KeyBytes
      BY <1>0, <2>1, BufferParts, Constants DEF CurShape, Begins
    <3>2. r \in {"nothing", "key", "all"} BY FramesAssumption
    <3>3. KeyBytes \in Nat BY Constants
    <3> QED BY <3>1, <3>2, <3>3
  <2>4. cur_unpcak_' = B!set_read_index(cur_unpcak_, i) BY <1>9 DEF CallbackThrows
  <2> HIDE DEF i
  <2>5. CurShape' BY <1>0, <2>1, <2>3, <2>4, IndexSet DEF CurShape
  <2>6. PcShape' BY <1>0, <1>9 DEF CallbackThrows, PcShape
  <2> QED BY <1>0, <1>9, <2>2, <2>5, <2>6 DEF CallbackThrows
<1>10. CASE Elsewhere
  <2>1. CurShape' /\ CallsShape' BY <1>0, <1>10 DEF Elsewhere, CurShape, CallsShape
  <2>2. PcShape' BY <1>0, <1>10 DEF Elsewhere, PcShape, AllFlags
  <2> QED BY <1>0, <1>10, <2>1, <2>2 DEF Elsewhere
<1> QED BY <1>1, <1>3, <1>4, <1>5, <1>6, <1>7, <1>8, <1>9, <1>10, ParserSteps

LEMMA ShapesKept == Spec => []Shapes
<1>1. Init => Shapes
  <2> SUFFICES ASSUME Init PROVE Shapes OBVIOUS
  <2>1. /\ <<>> \in Seq(SoundBuffers) /\ <<>> \in Seq(B!Byte) /\ Len(<<>>) = 0
        /\ 0 <= SocketRoom /\ Null \notin {"front", "pool"}
    BY EmptySeq, Constants, FramesAssumption
  <2>2. SenderShape /\ SocketShape BY <2>1 DEF Init, SenderShape, SocketShape
  <2>3. ReaderShape /\ CurShape BY <2>1 DEF Init, ReaderShape, CurShape
  <2>4. CallsShape BY <2>1 DEF Init, CallsShape
  <2>5. PcShape BY <2>1 DEF Init, PcShape
  <2> QED BY <2>1, <2>2, <2>3, <2>4, <2>5 DEF Init, Shapes
<1>2. Shapes /\ [Next]_vars => Shapes'
  <2> SUFFICES ASSUME Shapes, [Next]_vars PROVE Shapes' OBVIOUS
  <2>1. SenderShape /\ SocketShape /\ ReaderShape BY DEF Shapes
  <2> QED BY <2>1, SenderStep, ReaderStep, ParserStep DEF Shapes
<1> QED BY <1>1, <1>2, PTL DEF Spec

-----------------------------------------------------------------------------
(* The way out *)

(* writev takes the first n bytes, and they are what the socket gains.      *)
LEMMA WriteTakes ==
  ASSUME SenderShape, SocketShape, WriteSome
  PROVE  \E n \in 0 .. Len(BytesOf(AllOut)) :
           /\ SubSeq(BytesOf(AllOut), 1, n) \in Seq(B!Byte)
           /\ Len(SubSeq(BytesOf(AllOut), 1, n)) = n
           /\ (n = 0 => BytesOf(AllOut) = <<>>)
           /\ BytesOf(wait_write_list_') = After(BytesOf(AllOut), n)
           /\ socket' = socket \o SubSeq(BytesOf(AllOut), 1, n)
           /\ stream' = stream \o SubSeq(BytesOf(AllOut), 1, n)
<1> DEFINE bytes == BytesOf(AllOut)
<1>1. AllOut \in Seq(SoundBuffers) /\ bytes \in Seq(B!Byte) /\ Len(bytes) \in Nat
  BY AllOutType
<1>2. PICK n \in 0 .. SocketRoom - Len(socket) :
        /\ n <= Len(bytes) /\ (n = 0 => bytes = <<>>)
        /\ wait_write_list_' = AfterSending(AllOut, n)
        /\ socket' = socket \o SubSeq(bytes, 1, n)
        /\ stream' = stream \o SubSeq(bytes, 1, n)
  BY DEF WriteSome
<1>3. n \in 0 .. Len(bytes)
  BY <1>1, <1>2, Constants, LenProperties DEF SocketShape
<1>4. BytesOf(AfterSending(AllOut, n)) = After(bytes, n) BY <1>1, <1>3, AfterSendingBytes
<1>5. SubSeq(bytes, 1, n) \in Seq(B!Byte) /\ Len(SubSeq(bytes, 1, n)) = n
  BY <1>1, <1>3, FirstProperties
<1>6. BytesOf(wait_write_list_') = After(bytes, n) BY <1>2, <1>4
<1> QED BY <1>2, <1>3, <1>5, <1>6

LEMMA OutputStep ==
  ASSUME SenderShape, SocketShape, OutputIsPackets, [Next]_vars PROVE OutputIsPackets'
<1> DEFINE w == BytesOf(wait_write_list_)
           p == BytesOf(wait_pack_list_)
<1>0. stream \in Seq(B!Byte) /\ w \in Seq(B!Byte) /\ p \in Seq(B!Byte)
  BY BytesOfType DEF SenderShape, SocketShape
<1>i. stream \o w \o p = pushed BY DEF OutputIsPackets
<1> HIDE DEF w, p
<1>a. stream \o w \in Seq(B!Byte) /\ stream \o w \o p = stream \o (w \o p) /\ w \o p \in Seq(B!Byte)
  BY <1>0, Regrouped, Joined
<1>b. BytesOf(AllOut) = w \o p BY AllOutType DEF w, p
<1>e. \A s \in Seq(B!Byte) : s \o <<>> = s BY ConcatEmptySeq
<1>1. ASSUME NEW q \in Packets, push_send_pack(q) PROVE OutputIsPackets'
  <2> DEFINE b == Copy(B!readInt(UserBuffer(q), KeyBytes))
  <2>1. q \in Seq(B!Byte) /\ b \in SoundBuffers /\ B!Readable(b) = q BY PushedBuffer
  <2> HIDE DEF b
  <2>2. BytesOf(Append(wait_pack_list_, b)) = p \o q
    BY <2>1, BytesOfAppend DEF SenderShape, p
  <2>3. /\ wait_pack_list_' = Append(wait_pack_list_, b) /\ pushed' = pushed \o q
        /\ wait_write_list_' = wait_write_list_ /\ stream' = stream
    BY <1>1 DEF push_send_pack, b, socket_vars
  <2>4. (stream \o w) \o (p \o q) = ((stream \o w) \o p) \o q
    <3>1. stream \o w \in Seq(B!Byte) /\ p \in Seq(B!Byte) /\ q \in Seq(B!Byte)
      BY <1>0, <1>a, <2>1
    <3>2. \A x, y, z \in Seq(B!Byte) : (x \o y) \o z = x \o (y \o z) BY Regrouped
    <3> QED BY <3>1, <3>2
  <2> QED BY <2>2, <2>3, <2>4, <1>i DEF OutputIsPackets, w
<1>2. CASE WriteSome
  <2> DEFINE bytes == w \o p
  <2>1. PICK n \in 0 .. Len(bytes) :
          /\ BytesOf(wait_write_list_') = After(bytes, n)
          /\ stream' = stream \o SubSeq(bytes, 1, n)
    BY <1>2, <1>b, WriteTakes
  <2>2. wait_pack_list_' = <<>> /\ pushed' = pushed BY <1>2 DEF WriteSome
  <2>3. /\ bytes = SubSeq(bytes, 1, n) \o After(bytes, n)
        /\ SubSeq(bytes, 1, n) \in Seq(B!Byte) /\ After(bytes, n) \in Seq(B!Byte)
    BY <1>a, CutInTwo, FirstProperties, AfterProperties
  <2> HIDE DEF bytes
  <2>4. (stream \o SubSeq(bytes, 1, n)) \o After(bytes, n) = stream \o bytes
    <3>1. /\ stream \in Seq(B!Byte) /\ SubSeq(bytes, 1, n) \in Seq(B!Byte)
          /\ After(bytes, n) \in Seq(B!Byte)
          /\ bytes = SubSeq(bytes, 1, n) \o After(bytes, n)
      BY <1>0, <2>3
    <3> DEFINE x == SubSeq(bytes, 1, n)
               y == After(bytes, n)
    <3>2. x \in Seq(B!Byte) /\ y \in Seq(B!Byte) /\ stream \in Seq(B!Byte) BY <3>1
    <3>3. bytes = x \o y BY <3>1
    <3> HIDE DEF x, y
    <3>4. (stream \o x) \o y = stream \o (x \o y) BY <3>2, Regrouped
    <3>5. (stream \o x) \o y = stream \o bytes BY <3>3, <3>4
    <3> QED BY <3>5 DEF x, y
  <2>5. stream \o bytes = pushed BY <1>a, <1>i DEF bytes
  <2>6. stream \o bytes \in Seq(B!Byte) BY <1>0, <1>a, ConcatProperties DEF bytes
  <2>7. (stream \o bytes) \o <<>> = stream \o bytes BY <2>6, <1>e
  <2> QED BY <2>1, <2>2, <2>4, <2>5, <2>7, BytesOfNone DEF OutputIsPackets
<1>3. CASE WriteAgain \/ WriteError
  <2>1. /\ wait_write_list_' = AllOut /\ wait_pack_list_' = <<>>
        /\ stream' = stream /\ pushed' = pushed
    BY <1>3 DEF WriteAgain, WriteError, socket_vars
  <2>2. stream \o (w \o p) = pushed BY <1>a, <1>i
  <2>3. stream \o (w \o p) \in Seq(B!Byte) BY <1>0, <1>a, ConcatProperties
  <2>4. (stream \o (w \o p)) \o <<>> = stream \o (w \o p) BY <2>3, <1>e
  <2> QED BY <2>1, <2>2, <2>4, <1>b, BytesOfNone DEF OutputIsPackets
<1>4. ASSUME UNCHANGED <<wait_write_list_, wait_pack_list_, stream, pushed>>
      PROVE  OutputIsPackets'
  BY <1>4 DEF OutputIsPackets, BytesOf
<1>5. ASSUME NEW how \in PeerMayEnd, SenderEnds(how) PROVE OutputIsPackets'
  BY <1>4, <1>5 DEF SenderEnds, sender_vars
<1>6. read_data => UNCHANGED <<wait_write_list_, wait_pack_list_, stream, pushed>>
  BY DEF read_data, ReadSome, ReadEnd, ReadError, sender_vars, socket_vars
<1>7. handle_unpack \/ set_close \/ UNCHANGED vars
        => UNCHANGED <<wait_write_list_, wait_pack_list_, stream, pushed>>
  BY DEF handle_unpack, set_close, vars, UnpackNothing, UnpackSplice, UnpackLenPart,
    UnpackDataPart, UnpackFrame, UnpackBad, UnpackEnd, CallbackReturns, CallbackThrows,
    FrontUsedUp, sender_vars, socket_vars
<1> QED BY <1>1, <1>2, <1>3, <1>4, <1>5, <1>6, <1>7 DEF Next, do_write_data

(* What push_send_pack was given leaves as one stream, no byte twice and none *)
(* missing, however writev and do_write_data cut it: at every moment the wire *)
(* and the two lists hold it, in order.                                     *)
THEOREM OutputKept == Spec => []OutputIsPackets
<1>1. Init => OutputIsPackets
  <2>1. <<>> \in Seq(B!Byte) /\ <<>> \o <<>> \o <<>> = <<>> BY EmptySeq
  <2> QED BY <2>1, BytesOfNone DEF Init, OutputIsPackets
<1>2. Shapes /\ OutputIsPackets /\ [Next]_vars => OutputIsPackets'
  BY OutputStep DEF Shapes
<1> QED BY <1>1, <1>2, ShapesKept, PTL DEF Spec

-----------------------------------------------------------------------------
(* Where the parser stands between two rounds *)

(* Short of a frame; with a whole frame in front; exactly a frame.          *)
Partial(s) == Len(s) >= LenBytes => Len(s) < LenBytes + LenOf(s)
Long(s) == Len(s) >= LenBytes /\ LenOf(s) > 0 /\ Len(s) >= LenBytes + LenOf(s)
Exact(s) == Len(s) >= LenBytes /\ LenOf(s) > 0 /\ Len(s) = LenBytes + LenOf(s)

(* The length a frame says it has stays when bytes come behind it.          *)
LEMMA LenOfJoined ==
  ASSUME NEW s \in Seq(B!Byte), NEW t \in Seq(B!Byte), Len(s) >= LenBytes
  PROVE  /\ LenOf(s \o t) = LenOf(s) /\ LenOf(s) \in Int /\ Len(s \o t) = Len(s) + Len(t)
         /\ Len(s) \in Nat /\ Len(t) \in Nat
<1>1. Len(s) \in Nat /\ Len(t) \in Nat /\ LenBytes \in 0 .. Len(s)
  BY Constants, LenProperties
<1>2. SubSeq(s \o t, 1, LenBytes) = SubSeq(s, 1, LenBytes) BY <1>1, CutJoined
<1>3. SubSeq(s, 1, LenBytes) \in Seq(B!Byte) BY <1>1, FirstProperties
<1> QED BY <1>1, <1>2, <1>3, SignedType, ConcatProperties DEF LenOf

LEMMA LongJoined ==
  ASSUME NEW s \in Seq(B!Byte), NEW t \in Seq(B!Byte), Begins(s, t), Long(t)
  PROVE  Long(s) /\ Len(t) \in 0 .. Len(s)
<1>1. Len(s) \in Nat /\ Len(t) \in Nat /\ Len(t) \in 0 .. Len(s) /\ SubSeq(s, 1, Len(t)) = t
  BY LenProperties DEF Begins
<1>2. s = t \o After(s, Len(t)) /\ After(s, Len(t)) \in Seq(B!Byte)
  BY <1>1, CutInTwo, AfterProperties
<1>3. Len(t) >= LenBytes BY DEF Long
<1>4. LenOf(s) = LenOf(t) /\ LenOf(t) \in Int BY <1>2, <1>3, LenOfJoined
<1> QED BY <1>1, <1>3, <1>4, Constants DEF Long

(* The bytes of cur_unpcak_ behind the key.                                 *)
LEMMA HeldIs ==
  ASSUME CurShape
  PROVE  /\ Held = After(Cur.bytes, KeyBytes) /\ Held \in Seq(B!Byte) /\ Len(Held) \in Nat
         /\ Cur.bytes \in Seq(B!Byte) /\ KeyBytes \in 0 .. Len(Cur.bytes)
         /\ Len(Cur.bytes) = KeyBytes + Len(Held)
         /\ (Cur.read_index = KeyBytes => B!Readable(Cur) = Held)
         /\ \A n \in 0 .. Len(Held) :
              Cur.read_index = KeyBytes + n => B!Readable(Cur) = After(Held, n)
         /\ (cur_unpcak_ = Null => Held = <<>>)
<1>1. /\ Cur \in SoundBuffers /\ Begins(Cur.bytes, KeyDigits) /\ Cur.bytes \in Seq(B!Byte)
      /\ Len(Cur.bytes) \in Nat
  BY CurSound, BufferParts
<1>2. KeyBytes \in 0 .. Len(Cur.bytes) BY <1>1, Constants DEF Begins
<1>3. /\ After(Cur.bytes, KeyBytes) \in Seq(B!Byte)
      /\ Len(After(Cur.bytes, KeyBytes)) = Len(Cur.bytes) - KeyBytes
  BY <1>1, <1>2, AfterProperties
<1>4. cur_unpcak_ = Null => After(Cur.bytes, KeyBytes) = <<>>
  <2> SUFFICES ASSUME cur_unpcak_ = Null PROVE After(Cur.bytes, KeyBytes) = <<>> OBVIOUS
  <2>1. Len(Cur.bytes) = KeyBytes BY CurSound, Constants
  <2>2. Len(After(Cur.bytes, KeyBytes)) = 0 BY <1>1, <1>3, <2>1
  <2> QED BY <1>3, <2>2, EmptySeq
<1>5. Held = After(Cur.bytes, KeyBytes)
  <2>1. cur_unpcak_ # Null => Held = After(Cur.bytes, KeyBytes) BY DEF Held, Cur, After
  <2>2. cur_unpcak_ = Null => Held = <<>> BY DEF Held
  <2> QED BY <1>4, <2>1, <2>2
<1>6. Len(Cur.bytes) = KeyBytes + Len(Held) /\ Len(Held) \in Nat BY <1>1, <1>2, <1>3, <1>5
<1>7. B!Readable(Cur) = After(Cur.bytes, Cur.read_index) BY <1>1, ReadableType
<1>8. ASSUME NEW n \in 0 .. Len(Held), Cur.read_index = KeyBytes + n
      PROVE  B!Readable(Cur) = After(Held, n)
  <2>1. n \in 0 .. Len(Cur.bytes) - KeyBytes BY <1>1, <1>2, <1>6
  <2>2. After(After(Cur.bytes, KeyBytes), n) = After(Cur.bytes, KeyBytes + n)
    BY <1>1, <1>2, <2>1, CutTwice
  <2> QED BY <1>5, <1>7, <1>8, <2>2
<1> QED BY <1>1, <1>2, <1>3, <1>4, <1>5, <1>6, <1>7, <1>8

(* A front Buffer that is used up is joined to cur_unpcak_ whole, ...       *)
LEMMA FrontMoves ==
  ASSUME Shapes, UnpackLenPart \/ UnpackDataPart
  PROVE  /\ unpack_list_ # <<>> /\ front \in SoundBuffers
         /\ cur_unpcak_' # Null /\ cur_unpcak_'.read_index = Cur.read_index
         /\ B!Readable(front) \in Seq(B!Byte)
         /\ Held' = Held \o B!Readable(front)
         /\ BytesOf(unpack_list_) = B!Readable(front) \o BytesOf(unpack_list_')
<1>0. CurShape /\ unpack_list_ \in Seq(SoundBuffers) BY DEF Shapes
<1>1. unpack_list_ # <<>> BY DEF UnpackLenPart, UnpackDataPart, LengthKnown
<1>2. /\ front \in SoundBuffers /\ unpack_list_' = Tail(unpack_list_)
      /\ B!Readable(front) \in Seq(B!Byte)
  BY <1>0, <1>1, HeadTailProperties, ReadableType
  DEF UnpackLenPart, UnpackDataPart, FrontUsedUp, front
<1>3. BytesOf(unpack_list_) = B!Readable(front) \o BytesOf(Tail(unpack_list_))
  BY <1>0, <1>1, BytesOfFirst DEF front
<1>4. /\ Cur \in SoundBuffers /\ Cur.bytes \in Seq(B!Byte) BY <1>0, CurSound, BufferParts
<1>5. /\ cur_unpcak_' \in SoundBuffers /\ cur_unpcak_'.read_index = Cur.read_index
      /\ cur_unpcak_'.bytes = Cur.bytes \o B!Readable(front)
  <2>1. CASE UnpackLenPart
    <3>1. cur_unpcak_' = B!append(Cur, B!Readable(front))
      BY <2>1 DEF UnpackLenPart, FrontUsedUp
    <3> QED BY <3>1, <1>2, <1>4, Appended
  <2>2. CASE UnpackDataPart
    <3> DEFINE taken == SubSeq(B!Readable(front), 1, need_len_len)
    <3>1. LengthKnown /\ cur_unpcak_' = B!append(CurL, B!Readable(FrontL))
      BY <2>2 DEF UnpackDataPart, FrontUsedUp
    <3>2. /\ CurL \in SoundBuffers /\ FrontL \in SoundBuffers /\ taken \in Seq(B!Byte)
          /\ CurL.bytes = Cur.bytes \o taken /\ CurL.read_index = Cur.read_index
          /\ B!Readable(front) = taken \o B!Readable(FrontL)
      BY <1>0, <3>1, LengthTaken
    <3> HIDE DEF taken
    <3>3. B!Readable(FrontL) \in Seq(B!Byte) BY <3>2, ReadableType
    <3>4. /\ cur_unpcak_' \in SoundBuffers /\ cur_unpcak_'.read_index = CurL.read_index
          /\ cur_unpcak_'.bytes = CurL.bytes \o B!Readable(FrontL)
      BY <3>1, <3>2, <3>3, Appended
    <3>5. (Cur.bytes \o taken) \o B!Readable(FrontL) = Cur.bytes \o (taken \o B!Readable(FrontL))
      <4>1. Cur.bytes \in Seq(B!Byte) /\ taken \in Seq(B!Byte) /\ B!Readable(FrontL) \in Seq(B!Byte)
        BY <1>4, <3>2, <3>3
      <4> QED BY <4>1, Regrouped
    <3> QED BY <3>2, <3>4, <3>5
  <2> QED BY <2>1, <2>2
<1>6. cur_unpcak_' # Null BY <1>5, Constants
<1>7. Held' = Held \o B!Readable(front)
  <2>1. Held = After(Cur.bytes, KeyBytes) /\ KeyBytes \in 0 .. Len(Cur.bytes) BY <1>0, HeldIs
  <2>2. After(Cur.bytes \o B!Readable(front), KeyBytes) = Held \o B!Readable(front)
    BY <1>2, <1>4, <2>1, CutJoined
  <2>3. Held' = After(cur_unpcak_'.bytes, KeyBytes) BY <1>6 DEF Held, After
  <2> QED BY <1>5, <2>2, <2>3
<1> QED BY <1>1, <1>2, <1>3, <1>5, <1>6, <1>7

(* ... and of one that completes the frame, what the frame still needs.     *)
LEMMA FrameMoves ==
  ASSUME Shapes, UnpackFrame
  PROVE  LET x == SubSeq(B!Readable(front), 1, need_len_len)
                    \o SubSeq(B!Readable(FrontL), 1, need_data_len) IN
         /\ x \in Seq(B!Byte) /\ cur_unpcak_' # Null
         /\ Held' = Held \o x
         /\ BytesOf(unpack_list_) = x \o BytesOf(unpack_list_')
<1> DEFINE taken == SubSeq(B!Readable(front), 1, need_len_len)
           more == SubSeq(B!Readable(FrontL), 1, need_data_len)
           rest == B!skip(FrontL, need_data_len)
           frame == B!set_read_index(B!append(CurL, more), 0)
<1>0. CurShape /\ unpack_list_ \in Seq(SoundBuffers) /\ LengthKnown /\ DataIsThere
  BY DEF Shapes, UnpackFrame
<1>1. /\ unpack_list_ # <<>> /\ front \in SoundBuffers /\ taken \in Seq(B!Byte)
      /\ CurL.bytes = Cur.bytes \o taken /\ FrontL \in SoundBuffers
      /\ B!Readable(front) = taken \o B!Readable(FrontL)
  BY <1>0, LengthTaken
<1>2. /\ more \in Seq(B!Byte) /\ rest \in SoundBuffers /\ frame \in SoundBuffers
      /\ B!Readable(FrontL) = more \o B!Readable(rest)
      /\ frame.bytes = CurL.bytes \o more
  BY <1>0, DataTaken
<1>3. cur_unpcak_' = frame /\ unpack_list_' = [unpack_list_ EXCEPT ![1] = rest]
  BY DEF UnpackFrame
<1> HIDE DEF taken, more, rest, frame
<1>4. cur_unpcak_' # Null BY <1>2, <1>3, Constants
<1>5. /\ unpack_list_' \in Seq(SoundBuffers) /\ unpack_list_' # <<>>
      /\ Head(unpack_list_') = rest /\ Tail(unpack_list_') = Tail(unpack_list_)
  BY <1>0, <1>1, <1>2, <1>3, ReplaceFirst
<1> DEFINE t == BytesOf(Tail(unpack_list_))
           y == B!Readable(rest)
<1>6. t \in Seq(B!Byte) /\ y \in Seq(B!Byte)
  BY <1>0, <1>1, <1>2, HeadTailProperties, BytesOfType, ReadableType
<1>7. BytesOf(unpack_list_) = (taken \o (more \o y)) \o t
  BY <1>0, <1>1, <1>2, BytesOfFirst DEF front
<1>8. BytesOf(unpack_list_') = y \o t BY <1>5, BytesOfFirst
<1> HIDE DEF t, y
<1>9. \A a, b, c \in Seq(B!Byte) : a \o b \in Seq(B!Byte) /\ (a \o b) \o c = a \o (b \o c)
  BY Regrouped, Joined
<1>10. (taken \o (more \o y)) \o t = (taken \o more) \o (y \o t)
  <2>1. taken \o (more \o y) = (taken \o more) \o y BY <1>1, <1>2, <1>6, <1>9
  <2>2. taken \o more \in Seq(B!Byte) BY <1>1, <1>2, <1>9
  <2>3. ((taken \o more) \o y) \o t = (taken \o more) \o (y \o t) BY <2>2, <1>6, <1>9
  <2> QED BY <2>1, <2>3
<1>11. Held' = Held \o (taken \o more)
  <2>1. /\ Held = After(Cur.bytes, KeyBytes) /\ KeyBytes \in 0 .. Len(Cur.bytes)
        /\ Cur.bytes \in Seq(B!Byte)
    BY <1>0, HeldIs
  <2>2. taken \o more \in Seq(B!Byte) /\ (Cur.bytes \o taken) \o more = Cur.bytes \o (taken \o more)
    BY <1>1, <1>2, <1>9, <2>1
  <2>3. After(Cur.bytes \o (taken \o more), KeyBytes) = Held \o (taken \o more)
    BY <2>1, <2>2, CutJoined
  <2>4. Held' = After(cur_unpcak_'.bytes, KeyBytes) BY <1>4 DEF Held, After
  <2> QED BY <1>1, <1>2, <1>3, <2>2, <2>3, <2>4
<1> QED BY <1>1, <1>2, <1>4, <1>7, <1>8, <1>9, <1>10, <1>11 DEF taken, more

(* Read from its first byte, cur_unpcak_ shows the zeros a key begins with  *)
(* for a length: nothing is taken, and the reading ends.                    *)
LEMMA ZeroMoves ==
  ASSUME Shapes, Cur.read_index = 0
  PROVE  ~UnpackLenPart /\ ~UnpackDataPart /\ ~UnpackFrame
<1>0. CurShape /\ unpack_list_ \in Seq(SoundBuffers) BY DEF Shapes
<1>1. /\ Cur \in SoundBuffers /\ Begins(Cur.bytes, KeyDigits) /\ Cur.bytes \in Seq(B!Byte)
      /\ Len(Cur.bytes) \in Nat /\ Len(Cur.bytes) >= KeyBytes
  BY <1>0, CurSound, BufferParts, Constants DEF Begins
<1> DEFINE R == B!Readable(Cur)
<1>2. R = After(Cur.bytes, 0) BY <1>1, ReadableType
<1>3. R = Cur.bytes
  <2>1. 0 + 1 = 1 /\ After(Cur.bytes, 0) = SubSeq(Cur.bytes, 0 + 1, Len(Cur.bytes)) BY DEF After
  <2> QED BY <1>1, <1>2, <2>1, SubSeqFull
<1>4. LenBytes \in 0 .. KeyBytes /\ KeyBytes \in 0 .. Len(Cur.bytes) /\ LenBytes \in Nat
      /\ LenBytes \in 0 .. Len(Cur.bytes)
  BY <1>1, Constants
<1>5. LenOf(R) = 0
  <2> DEFINE s == SubSeq(Cur.bytes, 1, LenBytes)
  <2>1. /\ s \in Seq(B!Byte) /\ Len(s) = LenBytes
        /\ \A i \in 1 .. LenBytes : s[i] = Cur.bytes[i]
    BY <1>1, <1>4, FirstProperties
  <2>2. /\ SubSeq(Cur.bytes, 1, KeyBytes) = KeyDigits
        /\ \A i \in 1 .. KeyBytes : SubSeq(Cur.bytes, 1, KeyBytes)[i] = Cur.bytes[i]
    BY <1>1, <1>4, Constants, FirstProperties DEF Begins
  <2>3. \A i \in 1 .. LenBytes : i \in 1 .. KeyBytes /\ KeyDigits[i] = 0 BY <1>4, Constants
  <2>4. \A i \in 1 .. Len(s) : s[i] = 0 BY <2>1, <2>2, <2>3
  <2> HIDE DEF s
  <2>5. B!Signed(s) = 0 BY <2>1, <2>4, SignedType
  <2> QED BY <1>3, <2>5 DEF LenOf, s
<1>6. B!readableBytes(Cur) >= LenBytes
  BY <1>1, <1>3, <1>4, ReadableType, Constants
<1>7. need_len_len = 0 BY <1>6 DEF need_len_len, B!is_readable
<1>8. ASSUME unpack_list_ # <<>> PROVE LengthKnown
  <2>1. front \in SoundBuffers BY <1>0, <1>8, HeadTailProperties DEF front
  <2>2. B!readableBytes(front) >= 0 BY <2>1, ReadableType
  <2> QED BY <1>7, <1>8, <2>2 DEF LengthKnown, B!is_readable
<1>9. ASSUME LengthKnown PROVE LenIsBad
  <2> DEFINE taken == SubSeq(B!Readable(front), 1, need_len_len)
  <2>1. B!Readable(CurL) = R \o taken /\ len = LenOf(B!Readable(CurL)) /\ taken \in Seq(B!Byte)
        /\ (Len(R) >= LenBytes => taken = <<>>)
    BY <1>0, <1>9, LengthTaken
  <2>2. Len(R) >= LenBytes BY <1>3, <1>4
  <2>3. R \o <<>> = R BY <1>1, <1>3, ConcatEmptySeq
  <2>4. len = 0 BY <2>1, <2>2, <2>3, <1>5
  <2> QED BY <2>4 DEF LenIsBad
<1> QED BY <1>8, <1>9 DEF UnpackLenPart, UnpackDataPart, UnpackFrame

(* The piece UnpackFrame takes. *)
FramePiece ==
  SubSeq(B!Readable(front), 1, need_len_len) \o SubSeq(B!Readable(FrontL), 1, need_data_len)

(* How many bytes the frame still needs, in terms of what can be read.      *)
LEMMA NeedIs ==
  ASSUME Shapes, LengthKnown, ~LenIsBad
  PROVE  /\ B!Readable(Cur) \in Seq(B!Byte) /\ Len(B!Readable(Cur)) \in Nat
         /\ len \in Int /\ len > 0 /\ need_data_len \in Int
         /\ Len(B!Readable(CurL)) \in Nat /\ Len(B!Readable(CurL)) >= LenBytes
         /\ need_data_len = LenBytes + len - Len(B!Readable(CurL))
         /\ front \in SoundBuffers /\ FrontL \in SoundBuffers
         /\ Len(B!Readable(Cur)) < LenBytes => Len(B!Readable(CurL)) = LenBytes
         /\ Len(B!Readable(Cur)) >= LenBytes =>
              B!Readable(CurL) = B!Readable(Cur) /\ len = LenOf(B!Readable(Cur))
         /\ \A t \in Seq(B!Byte) : LenOf(B!Readable(CurL) \o t) = len
<1> DEFINE taken == SubSeq(B!Readable(front), 1, need_len_len)
<1>0. CurShape /\ unpack_list_ \in Seq(SoundBuffers) BY DEF Shapes
<1>1. /\ front \in SoundBuffers /\ taken \in Seq(B!Byte)
      /\ CurL \in SoundBuffers /\ FrontL \in SoundBuffers
      /\ B!Readable(CurL) = B!Readable(Cur) \o taken
      /\ Len(B!Readable(CurL)) >= LenBytes
      /\ len = LenOf(B!Readable(CurL)) /\ len \in Int
      /\ need_data_len = LenBytes + len - Len(B!Readable(CurL)) /\ need_data_len \in Int
      /\ (Len(B!Readable(Cur)) >= LenBytes => taken = <<>>)
  BY <1>0, LengthTaken
<1>2. Cur \in SoundBuffers BY <1>0, CurSound
<1>3. /\ B!Readable(Cur) \in Seq(B!Byte) /\ Len(B!Readable(Cur)) \in Nat
      /\ B!Readable(CurL) \in Seq(B!Byte) /\ Len(B!Readable(CurL)) \in Nat
      /\ Len(B!Readable(Cur)) = B!readableBytes(Cur)
  BY <1>1, <1>2, ReadableType, LenProperties
<1>4. Len(B!Readable(Cur)) >= LenBytes => B!Readable(CurL) = B!Readable(Cur)
  BY <1>1, <1>3, ConcatEmptySeq
<1>5. ASSUME Len(B!Readable(Cur)) < LenBytes PROVE Len(B!Readable(CurL)) = LenBytes
  <2>1. need_len_len = LenBytes - Len(B!Readable(Cur)) /\ need_len_len \in Nat
    BY <1>3, <1>5, Constants DEF need_len_len, B!is_readable
  <2>2. need_len_len \in 0 .. Len(B!Readable(front)) /\ B!Readable(front) \in Seq(B!Byte)
    BY <2>1, <1>1, ReadableType DEF LengthKnown, B!is_readable
  <2>3. Len(taken) = need_len_len BY <2>2, FirstProperties
  <2> HIDE DEF taken
  <2>4. Len(B!Readable(CurL)) = Len(B!Readable(Cur)) + Len(taken)
    BY <1>1, <1>3, ConcatProperties
  <2> QED BY <2>1, <2>3, <2>4, <1>3, Constants
<1>6. \A t \in Seq(B!Byte) : LenOf(B!Readable(CurL) \o t) = len
  BY <1>1, <1>3, LenOfJoined
<1>7. len > 0 BY <1>1 DEF LenIsBad
<1> QED BY <1>1, <1>3, <1>4, <1>5, <1>6, <1>7

(* That piece makes a frame of what can be read, and is empty if a frame was *)
(* there already.                                                           *)
LEMMA FramePieceIs ==
  ASSUME Shapes, UnpackFrame
  PROVE  /\ FramePiece \in Seq(B!Byte) /\ B!Readable(Cur) \in Seq(B!Byte)
         /\ Exact(B!Readable(Cur) \o FramePiece)
         /\ (Long(B!Readable(Cur)) => FramePiece = <<>>)
<1> DEFINE taken == SubSeq(B!Readable(front), 1, need_len_len)
           more == SubSeq(B!Readable(FrontL), 1, need_data_len)
           R == B!Readable(Cur)
<1>0. /\ CurShape /\ unpack_list_ \in Seq(SoundBuffers)
      /\ LengthKnown /\ ~LenIsBad /\ DataIsThere
  BY DEF Shapes, UnpackFrame
<1>1. /\ taken \in Seq(B!Byte) /\ B!Readable(CurL) = R \o taken
      /\ (Len(R) >= LenBytes => taken = <<>>)
  BY <1>0, LengthTaken
<1>2. more \in Seq(B!Byte) /\ Len(more) = need_data_len /\ need_data_len >= 0
  BY <1>0, DataTaken DEF DataIsThere
<1>3. /\ R \in Seq(B!Byte) /\ Len(R) \in Nat /\ len \in Int /\ len > 0
      /\ need_data_len \in Int
      /\ Len(B!Readable(CurL)) \in Nat /\ Len(B!Readable(CurL)) >= LenBytes
      /\ need_data_len = LenBytes + len - Len(B!Readable(CurL))
      /\ (Len(R) >= LenBytes => B!Readable(CurL) = R /\ len = LenOf(R))
      /\ LenOf(B!Readable(CurL) \o more) = len
  BY <1>0, <1>2, NeedIs
<1> HIDE DEF taken, more, R
<1>4. FramePiece = taken \o more BY DEF FramePiece, taken, more
<1>5. taken \o more \in Seq(B!Byte) BY <1>1, <1>2, ConcatProperties
<1>6. \A a, b, c \in Seq(B!Byte) : (a \o b) \o c = a \o (b \o c) BY Regrouped
<1>7. R \o (taken \o more) = B!Readable(CurL) \o more
  <2>1. R \in Seq(B!Byte) /\ taken \in Seq(B!Byte) /\ more \in Seq(B!Byte) BY <1>1, <1>2, <1>3
  <2>2. (R \o taken) \o more = R \o (taken \o more) BY <2>1, <1>6
  <2>3. B!Readable(CurL) = R \o taken BY <1>1
  <2> QED BY <2>2, <2>3
<1>8. R \o taken \in Seq(B!Byte) BY <1>1, <1>3, ConcatProperties
<1>9. Len(B!Readable(CurL) \o more) = Len(B!Readable(CurL)) + Len(more)
  <2>1. B!Readable(CurL) \in Seq(B!Byte) /\ more \in Seq(B!Byte) BY <1>1, <1>2, <1>8
  <2>2. \A a, b \in Seq(B!Byte) : Len(a \o b) = Len(a) + Len(b) BY ConcatProperties
  <2> QED BY <2>1, <2>2
<1>10. Exact(B!Readable(CurL) \o more)
  <2>1. Len(B!Readable(CurL) \o more) = LenBytes + len BY <1>2, <1>3, <1>9, Constants
  <2> QED BY <2>1, <1>3, Constants DEF Exact
<1>11. ASSUME Long(R) PROVE taken \o more = <<>>
  <2>1. Len(R) >= LenBytes /\ Len(R) >= LenBytes + LenOf(R) BY <1>11 DEF Long
  <2>2. taken = <<>> BY <2>1, <1>1
  <2>3. need_data_len = LenBytes + LenOf(R) - Len(R) /\ LenOf(R) \in Int BY <2>1, <1>3
  <2>4. need_data_len = 0 BY <2>1, <2>3, <1>2, <1>3, Constants
  <2>5. more = <<>> BY <2>4, <1>2, EmptySeq
  <2> QED BY <2>2, <2>5, <1>2, ConcatEmptySeq
<1> QED BY <1>3, <1>4, <1>5, <1>7, <1>10, <1>11 DEF R

(* A front Buffer that is used up leaves what can be read short of a frame, *)
(* unless a frame was there already.                                        *)
LEMMA PartMoves ==
  ASSUME Shapes, UnpackLenPart \/ UnpackDataPart
  PROVE  LET R == B!Readable(Cur)
             S == R \o B!Readable(front) IN
         /\ R \in Seq(B!Byte) /\ B!Readable(front) \in Seq(B!Byte)
         /\ (Partial(R) => Partial(S))
         /\ (Long(R) => Long(S) /\ ~Exact(S))
<1> DEFINE R == B!Readable(Cur)
           F == B!Readable(front)
<1>0. CurShape /\ unpack_list_ \in Seq(SoundBuffers) BY DEF Shapes
<1>1. /\ Cur \in SoundBuffers /\ R \in Seq(B!Byte) /\ Len(R) \in Nat
      /\ B!readableBytes(Cur) = Len(R)
  BY <1>0, CurSound, ReadableType, LenProperties
<1>2. /\ unpack_list_ # <<>> /\ front \in SoundBuffers /\ F \in Seq(B!Byte) /\ Len(F) \in Nat
      /\ B!readableBytes(front) = Len(F)
  BY FrontMoves, ReadableType, LenProperties
<1>3. /\ R \o F \in Seq(B!Byte) /\ Len(R \o F) = Len(R) + Len(F) BY <1>1, <1>2, ConcatProperties
<1>4. CASE UnpackLenPart
  <2>1. ~B!is_readable(front, need_len_len) BY <1>2, <1>4 DEF UnpackLenPart, LengthKnown
  <2>2. ~(Len(R) >= LenBytes) /\ Len(F) < LenBytes - Len(R)
    BY <2>1, <1>1, <1>2, Constants DEF B!is_readable, need_len_len
  <2>3. ~(Len(R \o F) >= LenBytes) BY <2>2, <1>1, <1>2, <1>3, Constants
  <2> QED BY <1>1, <1>2, <2>2, <2>3 DEF Partial, Long
<1>5. CASE UnpackDataPart
  <2> DEFINE taken == SubSeq(F, 1, need_len_len)
             G == B!Readable(FrontL)
             C == B!Readable(CurL)
  <2>1. LengthKnown /\ ~LenIsBad /\ ~DataIsThere BY <1>5 DEF UnpackDataPart
  <2>2. /\ taken \in Seq(B!Byte) /\ C = R \o taken /\ F = taken \o G /\ FrontL \in SoundBuffers
    BY <1>0, <2>1, LengthTaken
  <2>3. G \in Seq(B!Byte) /\ Len(G) \in Nat /\ B!readableBytes(FrontL) = Len(G)
    BY <2>2, ReadableType, LenProperties
  <2>4. /\ len \in Int /\ len > 0 /\ need_data_len \in Int
        /\ Len(C) \in Nat /\ Len(C) >= LenBytes
        /\ need_data_len = LenBytes + len - Len(C)
        /\ (Len(R) < LenBytes => Len(C) = LenBytes)
        /\ (Len(R) >= LenBytes => C = R /\ len = LenOf(R))
        /\ LenOf(C \o G) = len
    BY <2>1, <2>3, NeedIs
  <2>5. need_data_len < 0 \/ Len(G) < need_data_len
    BY <2>1, <2>3, <2>4 DEF DataIsThere, B!is_readable
  <2> HIDE DEF R, F, taken, G, C
  <2>6. R \o F = C \o G
    <3>1. \A a, b, c \in Seq(B!Byte) : (a \o b) \o c = a \o (b \o c) BY Regrouped
    <3> QED BY <3>1, <1>1, <2>2, <2>3
  <2>7. Len(C \o G) = Len(C) + Len(G)
    <3>1. C \in Seq(B!Byte) BY <1>1, <2>2, ConcatProperties
    <3> QED BY <3>1, <2>3, ConcatProperties
  <2>8. ASSUME Partial(R) PROVE Partial(R \o F)
    <3>1. need_data_len > 0
      <4>1. CASE Len(R) < LenBytes BY <4>1, <2>4, Constants
      <4>2. CASE Len(R) >= LenBytes
        <5>1. Len(R) < LenBytes + len /\ Len(C) = Len(R) BY <4>2, <2>4, <2>8 DEF Partial
        <5>2. /\ need_data_len = LenBytes + len - Len(C) /\ len \in Int
              /\ LenBytes \in Nat /\ Len(C) \in Nat
          BY <2>4, Constants
        <5>3. Len(C) < LenBytes + len BY <5>1
        <5> QED BY <5>2, <5>3
      <4>3. Len(R) \in Nat /\ LenBytes \in Nat BY <1>1, Constants
      <4> QED BY <4>1, <4>2, <4>3
    <3>2. Len(C) + Len(G) < LenBytes + len BY <3>1, <2>3, <2>4, <2>5, Constants
    <3> QED BY <3>2, <2>4, <2>6, <2>7 DEF Partial
  <2>9. ASSUME Long(R) PROVE Long(R \o F) /\ ~Exact(R \o F)
    <3>1. Len(R) >= LenBytes /\ Len(R) >= LenBytes + LenOf(R) BY <2>9 DEF Long
    <3>2. C = R /\ len = LenOf(R) BY <3>1, <2>4
    <3>3. need_data_len < 0
      <4>1. need_data_len <= 0 BY <3>1, <3>2, <2>4, Constants
      <4> QED BY <4>1, <2>3, <2>4, <2>5
    <3>4. Len(C) + Len(G) > LenBytes + len /\ Len(C) + Len(G) >= LenBytes
      BY <3>3, <2>3, <2>4, Constants
    <3> QED BY <3>4, <2>4, <2>6, <2>7, Constants DEF Long, Exact
  <2> QED BY <1>1, <1>2, <2>8, <2>9 DEF R, F
<1> QED BY <1>4, <1>5

(* While no callback has thrown: between two rounds cur_unpcak_ is short of a *)
(* frame and read behind the key, and a frame that is complete is all of it. *)
(* After one has: cur_unpcak_ still begins with what the callback was given, *)
(* and it is read from where the callback left it: the first byte, the frame *)
(* again, or behind it.                                                     *)
Given ==
  ~calls.returned =>
    cur_unpcak_ # Null /\ Begins(Held, calls.given) /\ Long(calls.given)
Waiting ==
  /\ calls.returned => Cur.read_index = KeyBytes /\ Partial(Held)
  /\ ~calls.returned =>
       \/ Cur.read_index = 0
       \/ Cur.read_index = KeyBytes /\ Long(Held) /\ (Exact(Held) => Held = calls.given)
       \/ /\ Cur.read_index = KeyBytes + Len(calls.given)
          /\ Partial(After(Held, Len(calls.given)))
Complete ==
  /\ calls.returned => Exact(Held)
  /\ ~calls.returned => Held = calls.given \/ Exact(After(Held, Len(calls.given)))
CurStands ==
  "NOREAD" \notin flags =>
    Given /\ (pc # "finish" => Waiting) /\ (pc = "finish" => Complete)

(* What a callback that throws left of the frame it had been given.         *)
LEMMA GivenIs ==
  ASSUME Shapes, Given, ~calls.returned
  PROVE  /\ Held \in Seq(B!Byte) /\ calls.given \in Seq(B!Byte)
         /\ Len(calls.given) \in 0 .. Len(Held) /\ Len(calls.given) \in Nat
         /\ Long(Held)
         /\ \A x \in Seq(B!Byte) :
              After(Held \o x, Len(calls.given)) = After(Held, Len(calls.given)) \o x
<1>1. Held \in Seq(B!Byte) /\ calls.given \in Seq(B!Byte) BY HeldIs DEF Shapes, CallsShape
<1>2. Long(Held) /\ Len(calls.given) \in 0 .. Len(Held) BY <1>1, LongJoined DEF Given
<1>3. Len(calls.given) \in Nat BY <1>1, LenProperties
<1>4. \A x \in Seq(B!Byte) :
        After(Held \o x, Len(calls.given)) = After(Held, Len(calls.given)) \o x
  BY <1>1, <1>2, CutJoined
<1> QED BY <1>1, <1>2, <1>3, <1>4

(* A callback that throws is given what is kept for it again.               *)
LEMMA ThrowKeeps ==
  ASSUME Shapes, NEW r \in ThrowAfter, CallbackThrows(r)
  PROVE  /\ Place' = Place /\ Held' = Held /\ calls'.upto = Place + Len(Held)
         /\ calls'.given = Held /\ calls'.returned = FALSE
         /\ cur_unpcak_ # Null /\ cur_unpcak_' \in SoundBuffers
         /\ \/ cur_unpcak_'.read_index = 0 \/ cur_unpcak_'.read_index = KeyBytes
            \/ cur_unpcak_'.read_index = Len(cur_unpcak_.bytes)
<1>0. CurShape /\ CallsShape /\ PcShape BY DEF Shapes
<1>1. pc = "finish" /\ Called(FALSE) BY DEF CallbackThrows
<1>2. cur_unpcak_ # Null /\ cur_unpcak_ \in SoundBuffers
  BY <1>0, <1>1 DEF PcShape, CurShape
<1>3. /\ calls'.upto = Place + Len(Held) /\ calls'.given = Held /\ calls'.returned = FALSE
      /\ Place \in Nat
  BY <1>0, <1>1, <1>2, CalledType
<1>4. Len(Held) \in Nat BY <1>0, HeldIs
<1>5. Place' = Place
  <2>1. Place' = (Place + Len(Held)) - Len(Held) BY <1>3 DEF Place
  <2> QED BY <2>1, <1>3, <1>4
<1> DEFINE i == CASE r = "nothing" -> 0 [] r = "key" -> KeyBytes
                  [] r = "all" -> Len(cur_unpcak_.bytes)
<1>6. Len(cur_unpcak_.bytes) \in Nat /\ Len(cur_unpcak_.bytes) >= KeyBytes /\ KeyBytes \in Nat
  BY <1>0, <1>2, BufferParts, Constants DEF CurShape, Begins
<1>7. r \in {"nothing", "key", "all"} BY FramesAssumption
<1>8. i = 0 \/ i = KeyBytes \/ i = Len(cur_unpcak_.bytes) BY <1>7
<1>9. cur_unpcak_' = B!set_read_index(cur_unpcak_, i) BY DEF CallbackThrows
<1> HIDE DEF i
<1>10. i \in 0 .. Len(cur_unpcak_.bytes) BY <1>6, <1>8
<1>11. /\ cur_unpcak_' \in SoundBuffers /\ cur_unpcak_'.bytes = cur_unpcak_.bytes
       /\ cur_unpcak_'.read_index = i
  BY <1>2, <1>9, <1>10, IndexSet
<1>12. Held' = Held BY <1>2, <1>11, Constants DEF Held
<1> QED BY <1>2, <1>3, <1>5, <1>8, <1>11, <1>12

(* Every step keeps that, as long as the reading does not end.              *)
LEMMA StandsStep ==
  ASSUME Shapes, Shapes', CurStands, [Next]_vars PROVE CurStands'
<1> SUFFICES ASSUME "NOREAD" \notin flags'
             PROVE  Given' /\ (pc' # "finish" => Waiting') /\ (pc' = "finish" => Complete')
  BY DEF CurStands
<1> DEFINE Goal == Given' /\ (pc' # "finish" => Waiting') /\ (pc' = "finish" => Complete')
<1>0. CurShape /\ CallsShape /\ PcShape /\ unpack_list_ \in Seq(SoundBuffers) BY DEF Shapes
<1>h. /\ Held \in Seq(B!Byte) /\ Len(Held) \in Nat
      /\ (Cur.read_index = KeyBytes => B!Readable(Cur) = Held)
      /\ \A n \in 0 .. Len(Held) :
           Cur.read_index = KeyBytes + n => B!Readable(Cur) = After(Held, n)
  BY <1>0, HeldIs
<1>1. CASE UNCHANGED <<cur_unpcak_, calls>> /\ "NOREAD" \notin flags
             /\ ((pc = "finish") = (pc' = "finish"))
  <2>1. Held' = Held /\ Cur' = Cur /\ calls' = calls BY <1>1 DEF Held, Cur, EmptyFrame
  <2> QED BY <1>1, <2>1 DEF CurStands, Given, Waiting, Complete
<1>2. CASE UnpackSplice BY <1>1, <1>2 DEF UnpackSplice
<1>3. CASE UnpackEnd BY <1>1, <1>3 DEF UnpackEnd
<1>4. CASE Elsewhere BY <1>1, <1>4 DEF Elsewhere
<1>5. CASE UnpackBad BY <1>5 DEF UnpackBad
<1>6. CASE UnpackLenPart \/ UnpackDataPart
  <2> DEFINE x == B!Readable(front)
             g == calls.given
  <2>1. /\ cur_unpcak_' # Null /\ cur_unpcak_'.read_index = Cur.read_index
        /\ x \in Seq(B!Byte) /\ Held' = Held \o x
    BY <1>6, FrontMoves
  <2>2. /\ "NOREAD" \notin flags /\ pc = "parse" /\ pc' = "parse" /\ calls' = calls
    BY <1>6 DEF UnpackLenPart, UnpackDataPart, FrontUsedUp
  <2>3. Given /\ Waiting BY <2>2 DEF CurStands
  <2>4. /\ B!Readable(Cur) \in Seq(B!Byte)
        /\ (Partial(B!Readable(Cur)) => Partial(B!Readable(Cur) \o x))
        /\ (Long(B!Readable(Cur)) => Long(B!Readable(Cur) \o x) /\ ~Exact(B!Readable(Cur) \o x))
    BY <1>6, PartMoves
  <2> HIDE DEF x
  <2>5. Cur'.read_index = Cur.read_index BY <2>1 DEF Cur
  <2>6. Given'
    <3>1. ASSUME ~calls.returned PROVE Begins(Held \o x, g)
      <4>1. g \in Seq(B!Byte) BY <1>0 DEF CallsShape
      <4> QED BY <4>1, <3>1, <1>h, <2>1, <2>3, BeginsJoined DEF Given
    <3> QED BY <3>1, <2>1, <2>2, <2>3 DEF Given
  <2>7. Waiting'
    <3>1. CASE calls.returned
      <4>1. Cur.read_index = KeyBytes /\ Partial(Held) BY <3>1, <2>3 DEF Waiting
      <4>2. Partial(Held \o x) BY <4>1, <1>h, <2>4
      <4> QED BY <4>1, <4>2, <3>1, <2>1, <2>2, <2>5 DEF Waiting
    <3>2. CASE ~calls.returned
      <4>1. Cur.read_index # 0 BY <1>6, ZeroMoves
      <4>2. CASE Cur.read_index = KeyBytes /\ Long(Held)
        <5>1. Long(Held \o x) /\ ~Exact(Held \o x) BY <4>2, <1>h, <2>4
        <5> QED BY <5>1, <4>2, <3>2, <2>1, <2>2, <2>5 DEF Waiting
      <4>3. CASE Cur.read_index = KeyBytes + Len(g) /\ Partial(After(Held, Len(g)))
        <5>1. Len(g) \in 0 .. Len(Held) /\ After(Held \o x, Len(g)) = After(Held, Len(g)) \o x
          BY <2>1, <2>3, <3>2, GivenIs
        <5>2. B!Readable(Cur) = After(Held, Len(g)) BY <4>3, <5>1, <1>h
        <5>3. Partial(After(Held \o x, Len(g))) BY <4>3, <5>1, <5>2, <2>4
        <5> QED BY <5>3, <4>3, <3>2, <2>1, <2>2, <2>5 DEF Waiting
      <4> QED BY <4>1, <4>2, <4>3, <3>2, <2>3 DEF Waiting
    <3> QED BY <3>1, <3>2
  <2> QED BY <2>2, <2>6, <2>7
<1>7. CASE UnpackFrame
  <2> DEFINE x == FramePiece
             g == calls.given
  <2>1. cur_unpcak_' # Null /\ x \in Seq(B!Byte) /\ Held' = Held \o x
    BY <1>7, FrameMoves DEF FramePiece
  <2>2. /\ "NOREAD" \notin flags /\ pc = "parse" /\ pc' = "finish" /\ calls' = calls
    BY <1>7 DEF UnpackFrame
  <2>3. Given /\ Waiting BY <2>2 DEF CurStands
  <2>4. /\ Exact(B!Readable(Cur) \o x) /\ (Long(B!Readable(Cur)) => x = <<>>)
    BY <1>7, FramePieceIs
  <2> HIDE DEF x
  <2>5. Given'
    <3>1. ASSUME ~calls.returned PROVE Begins(Held \o x, g)
      <4>1. g \in Seq(B!Byte) BY <1>0 DEF CallsShape
      <4> QED BY <4>1, <3>1, <1>h, <2>1, <2>3, BeginsJoined DEF Given
    <3> QED BY <3>1, <2>1, <2>2, <2>3 DEF Given
  <2>6. Complete'
    <3>1. CASE calls.returned
      <4>1. Cur.read_index = KeyBytes BY <3>1, <2>3 DEF Waiting
      <4>2. Exact(Held \o x) BY <4>1, <1>h, <2>4
      <4> QED BY <4>2, <3>1, <2>1, <2>2 DEF Complete
    <3>2. CASE ~calls.returned
      <4>1. Cur.read_index # 0 BY <1>7, ZeroMoves
      <4>2. CASE Cur.read_index = KeyBytes /\ Long(Held) /\ (Exact(Held) => Held = g)
        <5>1. x = <<>> /\ Exact(Held \o x) BY <4>2, <1>h, <2>4
        <5>2. Held \o <<>> = Held BY <1>h, ConcatEmptySeq
        <5>3. Held' = g BY <5>1, <5>2, <4>2, <2>1
        <5> QED BY <5>3, <3>2, <2>2 DEF Complete
      <4>3. CASE Cur.read_index = KeyBytes + Len(g)
        <5>1. Len(g) \in 0 .. Len(Held) /\ After(Held \o x, Len(g)) = After(Held, Len(g)) \o x
          BY <2>1, <2>3, <3>2, GivenIs
        <5>2. B!Readable(Cur) = After(Held, Len(g)) BY <4>3, <5>1, <1>h
        <5>3. Exact(After(Held \o x, Len(g))) BY <5>1, <5>2, <2>4
        <5> QED BY <5>3, <3>2, <2>1, <2>2 DEF Complete
      <4> QED BY <4>1, <4>2, <4>3, <3>2, <2>3 DEF Waiting
    <3> QED BY <3>1, <3>2
  <2> QED BY <2>2, <2>5, <2>6
<1>e. Partial(<<>>)
  BY EmptySeq, Constants DEF Partial
<1>8. CASE CallbackReturns
  <2>1. cur_unpcak_ # Null BY <1>0, <1>8 DEF CallbackReturns, PcShape
  <2>2. pc' = "idle" /\ cur_unpcak_' = Null BY <1>8 DEF CallbackReturns
  <2>3. calls'.returned BY <1>0, <1>8, <2>1, CalledType DEF CallbackReturns
  <2>4. Cur'.read_index = KeyBytes
    <3>1. CurShape' BY DEF Shapes
    <3>2. Cur' = EmptyFrame BY <2>2 DEF Cur, EmptyFrame
    <3>3. EmptyFrame.read_index = KeyBytes BY EmptyFrameIs
    <3> QED BY <3>2, <3>3
  <2>5. Held' = <<>> BY <2>2 DEF Held
  <2> QED BY <2>2, <2>3, <2>4, <2>5, <1>e DEF Given, Waiting
<1>9. ASSUME NEW r \in ThrowAfter, CallbackThrows(r) PROVE Goal
  <2>1. pc = "finish" /\ pc' = "idle" /\ flags' = flags BY <1>9 DEF CallbackThrows
  <2>2. /\ cur_unpcak_ # Null /\ Cur = cur_unpcak_ /\ cur_unpcak_' # Null
        /\ Cur' = cur_unpcak_'
    BY <1>9, ThrowKeeps, Constants DEF Cur
  <2>3. calls'.given = Held /\ calls'.returned = FALSE /\ Held' = Held
    BY <1>9, ThrowKeeps
  <2>4. \/ cur_unpcak_'.read_index = 0 \/ cur_unpcak_'.read_index = KeyBytes
        \/ cur_unpcak_'.read_index = Len(cur_unpcak_.bytes)
    BY <1>9, ThrowKeeps
  <2>7. Given /\ Complete BY <2>1 DEF CurStands
  <2>8. Long(Held)
    <3>1. calls.returned => Exact(Held) BY <2>7 DEF Complete
    <3>2. Exact(Held) => Long(Held) BY <1>h, Constants DEF Exact, Long
    <3>3. ~calls.returned => Long(Held) BY <2>7, GivenIs
    <3> QED BY <3>1, <3>2, <3>3
  <2>9. Begins(Held, Held) BY <1>h, SubSeqFull DEF Begins
  <2>10. Given' BY <2>2, <2>3, <2>8, <2>9 DEF Given
  <2>12. CASE cur_unpcak_'.read_index = 0
    BY <2>1, <2>2, <2>3, <2>10, <2>12 DEF Waiting
  <2>13. CASE cur_unpcak_'.read_index = KeyBytes
    BY <2>1, <2>2, <2>3, <2>8, <2>10, <2>13 DEF Waiting
  <2>14. CASE cur_unpcak_'.read_index = Len(cur_unpcak_.bytes)
    <3>1. Len(Cur.bytes) = KeyBytes + Len(Held) BY <1>0, HeldIs
    <3>2. After(Held, Len(Held)) = <<>>
      <4>1. Len(Held) + 1 > Len(Held) BY <1>h
      <4> QED BY <4>1, <1>h, SubSeqEmpty DEF After
    <3> QED BY <3>1, <3>2, <1>e, <2>1, <2>2, <2>3, <2>10, <2>14 DEF Waiting
  <2> QED BY <2>4, <2>12, <2>13, <2>14
<1> QED BY <1>2, <1>3, <1>4, <1>5, <1>6, <1>7, <1>8, <1>9, ParserSteps

-----------------------------------------------------------------------------
(* What was sent and not yet delivered *)

(* Behind what a callback has returned from, the stream is what cur_unpcak_ *)
(* and the lists hold and some bytes t; while the connection is read, those *)
(* of the Buffer read_data fills and of the socket.  A reset loses t, but   *)
(* not the place of what was received before it: the callback is still given *)
(* frames then.                                                             *)
InBuff == IF buff = Null THEN <<>> ELSE B!Readable(buff)
Kept(t) == Held \o (BytesOf(unpack_list_) \o (BytesOf(recv_list_) \o t))
StreamSplit ==
  "NOREAD" \notin flags =>
    /\ Place <= Len(stream)
    /\ \E t \in Seq(B!Byte) :
         After(stream, Place) = Kept(t) /\ (~ReadingEnded => t = InBuff \o socket)
(* read_data sets FLAG_NOWRITE only at the end of the stream or at an error, *)
(* and keeps no Buffer then.                                                *)
AfterReset ==
  "NOWRITE" \in flags => peer # "open" /\ (peer = "reset" => buff = Null)

LEMMA KeptTypes ==
  ASSUME Shapes
  PROVE  /\ Held \in Seq(B!Byte) /\ BytesOf(unpack_list_) \in Seq(B!Byte)
         /\ BytesOf(recv_list_) \in Seq(B!Byte) /\ InBuff \in Seq(B!Byte)
         /\ socket \in Seq(B!Byte) /\ stream \in Seq(B!Byte)
         /\ Place \in Nat /\ Place <= calls.upto /\ Len(stream) \in Nat
<1>1. Held \in Seq(B!Byte) BY HeldIs DEF Shapes
<1>2. BytesOf(unpack_list_) \in Seq(B!Byte) /\ BytesOf(recv_list_) \in Seq(B!Byte)
  BY AllInType DEF Shapes, ReaderShape
<1>3. InBuff \in Seq(B!Byte) BY EmptySeq, ReadableType DEF InBuff, Shapes, ReaderShape
<1>4. socket \in Seq(B!Byte) /\ stream \in Seq(B!Byte) BY DEF Shapes, SocketShape
<1>5. Place \in Nat /\ Place <= calls.upto
  <2>1. /\ calls.upto \in Nat /\ calls.given \in Seq(B!Byte) /\ calls.returned \in BOOLEAN
        /\ Len(calls.given) \in Nat /\ Len(calls.given) <= calls.upto
    BY LenProperties DEF Shapes, CallsShape
  <2> QED BY <2>1 DEF Place
<1> QED BY <1>1, <1>2, <1>3, <1>4, <1>5, LenProperties

LEMMA ResetStep ==
  ASSUME AfterReset, [Next]_vars PROVE AfterReset'
<1> USE DEF AfterReset
<1>1. ASSUME NEW p \in Packets, push_send_pack(p) PROVE AfterReset'
  BY <1>1 DEF push_send_pack, socket_vars, receiver_vars
<1>2. do_write_data => AfterReset'
  BY DEF do_write_data, WriteSome, WriteAgain, WriteError, socket_vars, receiver_vars
<1>3. ASSUME NEW how \in PeerMayEnd, SenderEnds(how) PROVE AfterReset'
  BY <1>3 DEF SenderEnds, receiver_vars
<1>4. ReadSome => AfterReset' BY DEF ReadSome, ready_close
<1>5. ReadEnd => AfterReset' BY DEF ReadEnd, socket_vars
<1>6. ReadError => AfterReset' BY DEF ReadError, socket_vars
<1>7. UnpackNothing \/ set_close => AfterReset' BY DEF UnpackNothing, set_close, socket_vars
<1>8. UnpackSplice \/ UnpackBad \/ UnpackEnd \/ UnpackFrame => AfterReset'
  BY DEF UnpackSplice, UnpackBad, UnpackEnd, UnpackFrame, socket_vars
<1>9. UnpackLenPart \/ UnpackDataPart => AfterReset'
  BY DEF UnpackLenPart, UnpackDataPart, FrontUsedUp, socket_vars
<1>10. CallbackReturns => AfterReset' BY DEF CallbackReturns, socket_vars
<1>11. ASSUME NEW r \in ThrowAfter, CallbackThrows(r) PROVE AfterReset'
  BY <1>11 DEF CallbackThrows, socket_vars
<1>12. UNCHANGED vars => AfterReset' BY DEF vars, socket_vars, receiver_vars
<1> QED
  BY <1>1, <1>2, <1>3, <1>4, <1>5, <1>6, <1>7, <1>8, <1>9, <1>10, <1>11, <1>12
  DEF Next, read_data, handle_unpack

(* The parser takes bytes from the front of the list to cur_unpcak_.        *)
LEMMA BytesMove ==
  ASSUME Shapes, Shapes', NEW x \in Seq(B!Byte), Held' = Held \o x,
         BytesOf(unpack_list_) = x \o BytesOf(unpack_list_'), recv_list_' = recv_list_
  PROVE  \A t \in Seq(B!Byte) : Kept(t)' = Kept(t)
<1> SUFFICES ASSUME NEW t \in Seq(B!Byte) PROVE Kept(t)' = Kept(t) OBVIOUS
<1> DEFINE h == Held
           u == BytesOf(unpack_list_')
           r == BytesOf(recv_list_)
<1>1. h \in Seq(B!Byte) /\ r \in Seq(B!Byte) BY KeptTypes
<1>2. u \in Seq(B!Byte) BY BytesOfType DEF Shapes
<1>3. r \o t \in Seq(B!Byte) BY <1>1, Joined
<1>4. Kept(t)' = (h \o x) \o (u \o (r \o t)) BY DEF Kept, BytesOf
<1>5. Kept(t) = h \o ((x \o u) \o (r \o t)) BY DEF Kept
<1> HIDE DEF h, u, r
<1>6. u \o (r \o t) \in Seq(B!Byte) BY <1>2, <1>3, Joined
<1>7. (h \o x) \o (u \o (r \o t)) = h \o (x \o (u \o (r \o t))) BY <1>1, <1>6, Regrouped
<1>8. (x \o u) \o (r \o t) = x \o (u \o (r \o t)) BY <1>2, <1>3, Regrouped
<1> QED BY <1>4, <1>5, <1>7, <1>8

(* A step of the parser that moves bytes, or none, keeps the split.         *)
LEMMA SplitKept ==
  ASSUME Shapes, StreamSplit, "NOREAD" \notin flags, stream' = stream, Place' = Place,
         socket' = socket, buff' = buff, peer' = peer,
         "NOWRITE" \in flags' <=> "NOWRITE" \in flags, "NOREAD" \notin flags',
         \A t \in Seq(B!Byte) : Kept(t)' = Kept(t)
  PROVE  StreamSplit'
<1>1. PICK t \in Seq(B!Byte) :
        After(stream, Place) = Kept(t) /\ (~ReadingEnded => t = InBuff \o socket)
  BY DEF StreamSplit
<1>2. ReadingEnded' = ReadingEnded BY DEF ReadingEnded
<1>3. InBuff' = InBuff BY DEF InBuff
<1>4. After(stream, Place)' = After(stream, Place) BY DEF After
<1>5. Place' <= Len(stream') BY DEF StreamSplit
<1>6. After(stream, Place)' = Kept(t)' BY <1>1, <1>4
<1>7. ~ReadingEnded' => t = (InBuff \o socket)' BY <1>1, <1>2, <1>3
<1> QED BY <1>5, <1>6, <1>7 DEF StreamSplit

(* do_write_data adds the bytes it sent to the stream and to the socket.    *)
LEMMA SplitSender ==
  ASSUME Shapes, Shapes', StreamSplit, WriteSome, "NOREAD" \notin flags PROVE StreamSplit'
<1>1. PICK x \in Seq(B!Byte) : socket' = socket \o x /\ stream' = stream \o x
  BY WriteTakes DEF Shapes
<1>2. PICK t \in Seq(B!Byte) :
        After(stream, Place) = Kept(t) /\ (~ReadingEnded => t = InBuff \o socket)
  BY DEF StreamSplit
<1>3. UNCHANGED <<peer, receiver_vars>> BY DEF WriteSome
<1> DEFINE h == Held
           u == BytesOf(unpack_list_)
           r == BytesOf(recv_list_)
           i == InBuff
<1>4. /\ h \in Seq(B!Byte) /\ u \in Seq(B!Byte) /\ r \in Seq(B!Byte) /\ i \in Seq(B!Byte)
      /\ socket \in Seq(B!Byte) /\ stream \in Seq(B!Byte) /\ Place \in Nat
      /\ Len(stream) \in Nat /\ Place <= Len(stream)
  BY KeptTypes DEF StreamSplit
<1>5. /\ Held' = h /\ BytesOf(unpack_list_') = u /\ BytesOf(recv_list_') = r /\ InBuff' = i
      /\ Place' = Place /\ ReadingEnded' = ReadingEnded
  BY <1>3 DEF receiver_vars, parser_vars, Held, InBuff, Place, ReadingEnded, BytesOf
<1>6. Kept(t) = h \o (u \o (r \o t)) /\ Kept(t \o x)' = h \o (u \o (r \o (t \o x)))
  BY <1>5 DEF Kept
<1> HIDE DEF h, u, r, i
<1>7. h \o (u \o (r \o (t \o x))) = (h \o (u \o (r \o t))) \o x
  <2>0. /\ h \in Seq(B!Byte) /\ u \in Seq(B!Byte) /\ r \in Seq(B!Byte)
        /\ t \in Seq(B!Byte) /\ x \in Seq(B!Byte)
    BY <1>4
  <2>1. r \o t \in Seq(B!Byte) BY <2>0, Joined
  <2>2. u \o (r \o t) \in Seq(B!Byte) BY <1>4, <2>1, Joined
  <2>3. (r \o t) \o x = r \o (t \o x)
    <3>1. r \in Seq(B!Byte) /\ t \in Seq(B!Byte) /\ x \in Seq(B!Byte) BY <2>0
    <3> QED BY <3>1, Regrouped
  <2>4. (u \o (r \o t)) \o x = u \o ((r \o t) \o x)
    <3>1. u \in Seq(B!Byte) /\ r \o t \in Seq(B!Byte) /\ x \in Seq(B!Byte) BY <2>0, <2>1
    <3> QED BY <3>1, Regrouped
  <2>5. (h \o (u \o (r \o t))) \o x = h \o ((u \o (r \o t)) \o x)
    <3>1. h \in Seq(B!Byte) /\ u \o (r \o t) \in Seq(B!Byte) /\ x \in Seq(B!Byte)
      BY <2>0, <2>2
    <3> QED BY <3>1, Regrouped
  <2> QED BY <2>3, <2>4, <2>5
<1>8. Place \in 0 .. Len(stream) BY <1>4
<1>9. After(stream', Place) = After(stream, Place) \o x BY <1>1, <1>4, <1>8, CutJoined
<1>10. Len(stream') = Len(stream) + Len(x) /\ Len(x) \in Nat
  BY <1>1, <1>4, ConcatProperties, LenProperties
<1>11. t \o x \in Seq(B!Byte) BY Joined
<1>12. After(stream, Place)' = Kept(t \o x)' BY <1>2, <1>5, <1>6, <1>7, <1>9
<1>13. ASSUME ~ReadingEnded' PROVE t \o x = (InBuff \o socket)'
  <2>1. t = i \o socket BY <1>2, <1>5, <1>13 DEF i
  <2>0. i \in Seq(B!Byte) /\ socket \in Seq(B!Byte) /\ x \in Seq(B!Byte) BY <1>4
  <2>2. (i \o socket) \o x = i \o (socket \o x) BY <2>0, Regrouped
  <2> QED BY <2>1, <2>2, <1>1, <1>5
<1>14. Place' <= Len(stream') BY <1>4, <1>5, <1>10
<1> QED BY <1>11, <1>12, <1>13, <1>14 DEF StreamSplit

(* read_data takes them from the socket to its Buffer, ...                  *)
LEMMA SplitReadSome ==
  ASSUME Shapes, Shapes', StreamSplit, AfterReset, ReadSome, "NOREAD" \notin flags
  PROVE  StreamSplit'
<1>1. PICK t \in Seq(B!Byte) :
        After(stream, Place) = Kept(t) /\ (~ReadingEnded => t = InBuff \o socket)
  BY DEF StreamSplit
<1>2. UNCHANGED <<peer, stream, recv_list_, unpack_list_, cur_unpcak_, calls, flags>>
  BY DEF ReadSome, parser_vars
<1>3. Held' = Held /\ Place' = Place /\ ReadingEnded' = ReadingEnded
      /\ After(stream, Place)' = After(stream, Place) /\ Kept(t)' = Kept(t)
  BY <1>2 DEF Held, Place, ReadingEnded, After, Kept, BytesOf
<1>4. (InBuff \o socket)' = InBuff \o socket
  <2> DEFINE b == IF buff = Null THEN B!NewBuffer ELSE buff
  <2>1. b \in SoundBuffers /\ B!Readable(b) = InBuff
    BY NewBufferSound DEF Shapes, ReaderShape, InBuff
  <2>2. socket \in Seq(B!Byte) /\ InBuff \in Seq(B!Byte) BY KeptTypes
  <2> HIDE DEF b
  <2>3. B!append(b, socket) \in SoundBuffers
        /\ B!Readable(B!append(b, socket)) = InBuff \o socket
    BY <2>1, <2>2, Appended
  <2>4. buff' = B!append(b, socket) /\ socket' = <<>> BY DEF ReadSome, b
  <2>5. InBuff' = InBuff \o socket BY <2>3, <2>4, Constants DEF InBuff
  <2>6. InBuff \o socket \in Seq(B!Byte) BY <2>2, Joined
  <2> QED BY <2>4, <2>5, <2>6, Joined
<1>5. Place' <= Len(stream') BY <1>2, <1>3 DEF StreamSplit
<1> QED BY <1>1, <1>3, <1>4, <1>5 DEF StreamSplit

(* ... the Buffer to recv_list_, ...                                        *)
LEMMA SplitReadEnd ==
  ASSUME Shapes, Shapes', StreamSplit, ReadEnd, "NOREAD" \notin flags PROVE StreamSplit'
<1>1. PICK t \in Seq(B!Byte) :
        After(stream, Place) = Kept(t) /\ (~ReadingEnded => t = InBuff \o socket)
  BY DEF StreamSplit
<1>2. /\ UNCHANGED <<socket, peer, stream, unpack_list_, cur_unpcak_, calls>>
      /\ socket = <<>> /\ peer # "reset" /\ recv_list_' = recv_list_ \o Received
      /\ buff' = Null
  BY DEF ReadEnd, parser_vars, socket_vars
<1> DEFINE h == Held
           u == BytesOf(unpack_list_)
           r == BytesOf(recv_list_)
           i == InBuff
<1>3. /\ h \in Seq(B!Byte) /\ u \in Seq(B!Byte) /\ r \in Seq(B!Byte) /\ i \in Seq(B!Byte)
  BY KeptTypes
<1>4. t = i
  <2>1. ~ReadingEnded BY <1>2 DEF ReadingEnded
  <2> QED BY <2>1, <1>1, <1>2, <1>3, Joined
<1>5. BytesOf(recv_list_') = r \o i
  <2>1. Received \in Seq(SoundBuffers) /\ BytesOf(Received) = InBuff
    BY EmptySeq, BytesOfNone, BytesOfOne DEF Received, InBuff, Shapes, ReaderShape
  <2>2. recv_list_ \in Seq(SoundBuffers) BY DEF Shapes, ReaderShape
  <2> QED BY <2>1, <2>2, <1>2, BytesOfConcat
<1>6. /\ Held' = h /\ BytesOf(unpack_list_') = u /\ Place' = Place
      /\ After(stream, Place)' = After(stream, Place)
  BY <1>2 DEF Held, Place, After, BytesOf
<1>7. Kept(t) = h \o (u \o (r \o t)) /\ Kept(<<>>)' = h \o (u \o ((r \o i) \o <<>>))
  BY <1>5, <1>6 DEF Kept
<1>8. (InBuff \o socket)' = <<>>
  <2>1. InBuff' = <<>> /\ socket' = <<>> BY <1>2 DEF InBuff
  <2>2. <<>> \o <<>> = <<>> OBVIOUS
  <2> QED BY <2>1, <2>2
<1> HIDE DEF h, u, r, i
<1>9. (r \o i) \o <<>> = r \o i BY <1>3, Joined
<1>10. After(stream, Place)' = Kept(<<>>)' BY <1>1, <1>4, <1>6, <1>7, <1>9
<1>11. Place' <= Len(stream') BY <1>2, <1>6 DEF StreamSplit
<1>12. <<>> \in Seq(B!Byte) BY EmptySeq
<1> QED BY <1>8, <1>10, <1>11, <1>12 DEF StreamSplit

(* ... and do_handle_unpack that list to the end of unpack_list_.           *)
LEMMA SplitSplice ==
  ASSUME Shapes, Shapes', UnpackSplice PROVE \A t \in Seq(B!Byte) : Kept(t)' = Kept(t)
<1> SUFFICES ASSUME NEW t \in Seq(B!Byte) PROVE Kept(t)' = Kept(t) OBVIOUS
<1> DEFINE u == BytesOf(unpack_list_)
           r == BytesOf(recv_list_)
<1>1. u \in Seq(B!Byte) /\ r \in Seq(B!Byte) BY KeptTypes
<1>2. unpack_list_' = AllIn /\ recv_list_' = <<>> /\ cur_unpcak_' = cur_unpcak_
  BY DEF UnpackSplice
<1>3. BytesOf(AllIn) = u \o r BY AllInType DEF Shapes, ReaderShape
<1>4. Held' = Held BY <1>2 DEF Held
<1>5. Kept(t)' = Held \o ((u \o r) \o (<<>> \o t)) BY <1>2, <1>3, <1>4, BytesOfNone DEF Kept
<1>6. Kept(t) = Held \o (u \o (r \o t)) BY DEF Kept
<1> HIDE DEF u, r
<1>7. (u \o r) \o t = u \o (r \o t) BY <1>1, Regrouped
<1>8. <<>> \o t = t BY Joined
<1> QED BY <1>5, <1>6, <1>7, <1>8

(* A callback that returns has been given what is no longer kept.           *)
LEMMA SplitReturns ==
  ASSUME Shapes, Shapes', StreamSplit, CallbackReturns, "NOREAD" \notin flags
  PROVE  StreamSplit'
<1>0. /\ CurShape /\ CallsShape /\ PcShape /\ unpack_list_ \in Seq(SoundBuffers)
  BY DEF Shapes
<1>1. PICK t \in Seq(B!Byte) :
        After(stream, Place) = Kept(t) /\ (~ReadingEnded => t = InBuff \o socket)
  BY DEF StreamSplit
<1>2. cur_unpcak_ # Null /\ unpack_list_ # <<>> BY <1>0 DEF CallbackReturns, PcShape
<1>3. /\ UNCHANGED <<socket, peer, stream, buff, recv_list_>> /\ cur_unpcak_' = Null
      /\ flags' = flags \cup {"NEXT"} /\ Called(TRUE)
  BY DEF CallbackReturns, sender_vars, socket_vars
<1>4. calls'.upto = Place + Len(Held) /\ calls'.returned = TRUE
  BY <1>0, <1>2, <1>3, CalledType
<1>5. Place' = Place + Len(Held) BY <1>4 DEF Place
<1>6. Held' = <<>> BY <1>3 DEF Held
<1> DEFINE u == BytesOf(unpack_list_)
           r == BytesOf(recv_list_)
           h == Held
           y == u \o (r \o t)
<1>7. /\ h \in Seq(B!Byte) /\ u \in Seq(B!Byte) /\ r \in Seq(B!Byte)
      /\ stream \in Seq(B!Byte) /\ Place \in Nat /\ Place <= Len(stream) /\ Len(stream) \in Nat
  BY KeptTypes DEF StreamSplit
<1>8. BytesOf(unpack_list_') = u
  <2>1. CASE B!readableBytes(front) = 0
    <3>1. front \in SoundBuffers /\ unpack_list_' = Tail(unpack_list_)
      BY <1>0, <1>2, <2>1, HeadTailProperties DEF CallbackReturns, front
    <3>2. B!Readable(front) = <<>> BY <2>1, <3>1, ReadableType, EmptySeq
    <3>3. u = <<>> \o BytesOf(Tail(unpack_list_)) BY <1>0, <1>2, <3>2, BytesOfFirst DEF front
    <3>4. BytesOf(Tail(unpack_list_)) \in Seq(B!Byte)
      BY <1>0, <1>2, HeadTailProperties, BytesOfType
    <3> QED BY <3>1, <3>3, <3>4, Joined
  <2>2. CASE B!readableBytes(front) # 0
    BY <2>2 DEF CallbackReturns
  <2> QED BY <2>1, <2>2
<1>9. Kept(t) = h \o y /\ Kept(t)' = <<>> \o y BY <1>3, <1>6, <1>8 DEF Kept, BytesOf
<1>10. y \in Seq(B!Byte)
  <2>1. r \o t \in Seq(B!Byte) BY <1>7, Joined
  <2> QED BY <1>7, <2>1, Joined
<1> HIDE DEF u, r, h, y
<1>11. After(h \o y, Len(h)) = y /\ Len(h \o y) = Len(h) + Len(y) /\ Len(h) \in Nat /\ Len(y) \in Nat
  BY <1>7, <1>10, CutBetween, ConcatProperties, LenProperties
<1>12. Place \in 0 .. Len(stream) BY <1>7
<1>13. Len(After(stream, Place)) = Len(stream) - Place BY <1>7, <1>12, AfterProperties
<1>14. After(stream, Place) = h \o y BY <1>1, <1>9
<1>15. Len(h) \in 0 .. Len(stream) - Place
  <2>1. Len(h) + Len(y) = Len(stream) - Place BY <1>11, <1>13, <1>14
  <2> QED BY <2>1, <1>11, <1>7
<1>16. /\ Place + Len(h) \in 0 .. Len(stream)
       /\ After(After(stream, Place), Len(h)) = After(stream, Place + Len(h))
  BY <1>7, <1>12, <1>15, CutTwice
<1>17. After(stream, Place + Len(h)) = y BY <1>11, <1>14, <1>16
<1>18. After(stream, Place)' = After(stream, Place + Len(h)) BY <1>3, <1>5 DEF After, h
<1>19. After(stream, Place)' = Kept(t)' BY <1>9, <1>10, <1>17, <1>18, Joined
<1>20. Place' <= Len(stream') BY <1>3, <1>5, <1>16, <1>7 DEF h
<1>21. ReadingEnded' = ReadingEnded /\ (InBuff \o socket)' = InBuff \o socket
  BY <1>3 DEF ReadingEnded, InBuff
<1> QED BY <1>1, <1>19, <1>20, <1>21 DEF StreamSplit

LEMMA ReadingStaysEnded ==
  ASSUME [Next]_vars, "NOREAD" \in flags PROVE "NOREAD" \in flags'
<1>1. UnpackSplice \/ UnpackFrame \/ UnpackBad \/ UnpackEnd => "NOREAD" \in flags'
  BY DEF UnpackSplice, UnpackFrame, UnpackBad, UnpackEnd
<1>2. UnpackLenPart \/ UnpackDataPart => "NOREAD" \in flags'
  BY DEF UnpackLenPart, UnpackDataPart, FrontUsedUp
<1>3. CallbackReturns => "NOREAD" \in flags' BY DEF CallbackReturns
<1>4. ASSUME NEW r \in ThrowAfter, CallbackThrows(r) PROVE "NOREAD" \in flags'
  BY <1>4 DEF CallbackThrows
<1>5. Elsewhere => "NOREAD" \in flags' BY DEF Elsewhere
<1> QED BY <1>1, <1>2, <1>3, <1>4, <1>5, ParserSteps

LEMMA SplitStep ==
  ASSUME Shapes, Shapes', StreamSplit, AfterReset, [Next]_vars PROVE StreamSplit'
<1> SUFFICES ASSUME "NOREAD" \notin flags' PROVE StreamSplit' BY DEF StreamSplit
<1>0. "NOREAD" \notin flags BY ReadingStaysEnded
<1>1. ASSUME UNCHANGED <<stream, calls, socket, buff, peer>>,
             "NOWRITE" \in flags' <=> "NOWRITE" \in flags,
             \A t \in Seq(B!Byte) : Kept(t)' = Kept(t)
      PROVE  StreamSplit'
  <2>1. Place' = Place BY <1>1 DEF Place
  <2> QED BY <1>0, <1>1, <2>1, SplitKept
<1>2. ASSUME UNCHANGED <<stream, calls, socket, buff, peer>>,
             UNCHANGED <<cur_unpcak_, unpack_list_, recv_list_>>,
             "NOWRITE" \in flags' <=> "NOWRITE" \in flags
      PROVE  StreamSplit'
  <2>1. \A t \in Seq(B!Byte) : Kept(t)' = Kept(t) BY <1>2 DEF Kept, Held, BytesOf
  <2> QED BY <1>1, <1>2, <2>1
<1>3. ASSUME UNCHANGED <<socket_vars, receiver_vars>> PROVE StreamSplit'
  BY <1>2, <1>3 DEF socket_vars, receiver_vars, parser_vars
<1>4. ASSUME NEW p \in Packets, push_send_pack(p) PROVE StreamSplit'
  BY <1>3, <1>4 DEF push_send_pack
<1>5. WriteSome => StreamSplit' BY <1>0, SplitSender
<1>6. WriteAgain \/ WriteError \/ UNCHANGED vars => StreamSplit'
  BY <1>3 DEF WriteAgain, WriteError, vars
<1>7. ASSUME NEW how \in PeerMayEnd, SenderEnds(how) PROVE StreamSplit'
  <2>1. PICK t \in Seq(B!Byte) :
          After(stream, Place) = Kept(t) /\ (~ReadingEnded => t = InBuff \o socket)
    BY <1>0 DEF StreamSplit
  <2>2. UNCHANGED <<socket, stream, buff, recv_list_, unpack_list_, cur_unpcak_, calls>>
        /\ peer = "open"
    BY <1>7 DEF SenderEnds, receiver_vars, parser_vars
  <2>3. ~ReadingEnded BY <1>0, <2>2 DEF ReadingEnded
  <2>4. /\ Place' = Place /\ After(stream, Place)' = After(stream, Place)
        /\ Kept(t)' = Kept(t) /\ (InBuff \o socket)' = InBuff \o socket
    BY <2>2 DEF Place, After, Kept, Held, BytesOf, InBuff
  <2>5. Place' <= Len(stream') BY <1>0, <2>2, <2>4 DEF StreamSplit
  <2> QED BY <2>1, <2>3, <2>4, <2>5 DEF StreamSplit
<1>8. ReadSome => StreamSplit' BY <1>0, SplitReadSome
<1>9. ReadEnd => StreamSplit' BY <1>0, SplitReadEnd
<1>10. CASE ReadError
  <2>1. PICK t \in Seq(B!Byte) : After(stream, Place) = Kept(t)
    BY <1>0 DEF StreamSplit
  <2>2. /\ UNCHANGED <<stream, peer, recv_list_, unpack_list_, cur_unpcak_, calls>>
        /\ peer = "reset" /\ "NOWRITE" \in flags'
    BY <1>10 DEF ReadError, socket_vars, parser_vars
  <2>3. /\ Place' = Place /\ After(stream, Place)' = After(stream, Place)
        /\ Kept(t)' = Kept(t) /\ ReadingEnded'
    BY <2>2 DEF Place, After, Kept, Held, BytesOf, ReadingEnded
  <2>4. Place' <= Len(stream') BY <1>0, <2>2, <2>3 DEF StreamSplit
  <2> QED BY <2>1, <2>3, <2>4 DEF StreamSplit
<1>11. UnpackNothing \/ set_close \/ UnpackEnd => StreamSplit'
  <2>1. UnpackNothing \/ set_close \/ UnpackEnd =>
          /\ UNCHANGED <<stream, calls, socket, buff, peer>>
          /\ UNCHANGED <<cur_unpcak_, unpack_list_, recv_list_>>
          /\ ("NOWRITE" \in flags' <=> "NOWRITE" \in flags)
    BY DEF UnpackNothing, set_close, UnpackEnd, socket_vars, parser_vars
  <2> QED BY <2>1, <1>2
<1>12. CASE UnpackSplice
  <2>1. /\ UNCHANGED <<stream, calls, socket, buff, peer>>
        /\ ("NOWRITE" \in flags' <=> "NOWRITE" \in flags)
    BY <1>12 DEF UnpackSplice, socket_vars
  <2> QED BY <1>1, <1>12, <2>1, SplitSplice
<1>13. CASE UnpackLenPart \/ UnpackDataPart
  <2>1. /\ UNCHANGED <<stream, calls, socket, buff, peer>> /\ recv_list_' = recv_list_
        /\ ("NOWRITE" \in flags' <=> "NOWRITE" \in flags)
    BY <1>13 DEF UnpackLenPart, UnpackDataPart, FrontUsedUp, socket_vars
  <2>2. \A t \in Seq(B!Byte) : Kept(t)' = Kept(t)
    BY <1>13, <2>1, FrontMoves, BytesMove
  <2> QED BY <1>1, <2>1, <2>2
<1>14. CASE UnpackFrame
  <2>1. /\ UNCHANGED <<stream, calls, socket, buff, peer>> /\ recv_list_' = recv_list_
        /\ ("NOWRITE" \in flags' <=> "NOWRITE" \in flags)
    BY <1>14 DEF UnpackFrame, socket_vars
  <2>2. \A t \in Seq(B!Byte) : Kept(t)' = Kept(t)
    BY <1>14, <2>1, FrameMoves, BytesMove
  <2> QED BY <1>1, <2>1, <2>2
<1>15. UnpackBad => StreamSplit' BY DEF UnpackBad
<1>16. CallbackReturns => StreamSplit' BY <1>0, SplitReturns
<1>17. ASSUME NEW r \in ThrowAfter, CallbackThrows(r) PROVE StreamSplit'
  <2>1. /\ UNCHANGED <<stream, socket, buff, peer, recv_list_, unpack_list_, flags>>
        /\ Called(FALSE) /\ pc = "finish"
    BY <1>17 DEF CallbackThrows, socket_vars
  <2>2. Place' = Place /\ Held' = Held BY <1>17, ThrowKeeps
  <2>3. \A t \in Seq(B!Byte) : Kept(t)' = Kept(t) BY <2>1, <2>2 DEF Kept, BytesOf
  <2> QED BY <1>0, <2>1, <2>2, <2>3, SplitKept
<1> QED
  BY <1>4, <1>5, <1>6, <1>7, <1>8, <1>9, <1>10, <1>11, <1>12, <1>13, <1>14, <1>15, <1>16, <1>17
  DEF Next, do_write_data, read_data, handle_unpack

(* The invariant of the receiving end.                                      *)
Stands == CurStands /\ StreamSplit /\ AfterReset

LEMMA StandsKept == Spec => [](Shapes /\ Stands)
<1>1. Init => Stands
  <2> SUFFICES ASSUME Init PROVE Stands OBVIOUS
  <2>1. AfterReset BY DEF Init, AfterReset
  <2>2. Held = <<>> /\ Place = 0 /\ InBuff = <<>> BY DEF Init, Held, Place, InBuff
  <2>3. Partial(<<>>) BY EmptySeq, Constants DEF Partial
  <2>4. CurStands
    <3>1. Cur.read_index = KeyBytes BY EmptyFrameIs DEF Init, Cur
    <3> QED BY <2>2, <2>3, <3>1 DEF Init, CurStands, Given, Waiting
  <2>5. StreamSplit
    <3>1. <<>> \in Seq(B!Byte) /\ <<>> \o <<>> = <<>> /\ Len(<<>>) = 0 BY EmptySeq
    <3>2. After(<<>>, 0) = <<>> BY <3>1, SubSeqEmpty DEF After
    <3>3. Kept(<<>>) = <<>> BY <2>2, <3>1, BytesOfNone DEF Init, Kept
    <3>4. InBuff \o socket = <<>> /\ stream = <<>> BY <2>2, <3>1 DEF Init
    <3>5. After(stream, Place) = Kept(<<>>) BY <2>2, <3>2, <3>3, <3>4
    <3>6. Place <= Len(stream) BY <2>2, <3>1, <3>4
    <3>7. \E t \in Seq(B!Byte) :
            After(stream, Place) = Kept(t) /\ (~ReadingEnded => t = InBuff \o socket)
      BY <3>1, <3>4, <3>5
    <3> QED BY <3>6, <3>7 DEF StreamSplit
  <2> QED BY <2>1, <2>4, <2>5 DEF Stands
<1>2. Shapes /\ Shapes' /\ Stands /\ [Next]_vars => Stands'
  BY StandsStep, SplitStep, ResetStep DEF Stands
<1> QED BY <1>1, <1>2, ShapesKept, PTL DEF Spec

(* The type invariant, and where do_handle_unpack stands between two rounds: *)
(* front_unpcak_ is the front of unpack_list_ unless clear() gave it back, and *)
(* while no callback has thrown cur_unpcak_ is short of a frame.            *)
THEOREM TypeCorrect == Spec => []TypeOK
<1>1. Shapes /\ Stands => TypeOK
  <2> SUFFICES ASSUME Shapes, Stands PROVE TypeOK OBVIOUS
  <2>1. \A l \in Seq(SoundBuffers) : l \in Seq(B!Buffers)
    <3> SUFFICES ASSUME NEW l \in Seq(SoundBuffers) PROVE l \in Seq(B!Buffers) OBVIOUS
    <3>1. Len(l) \in Nat /\ l \in [1 .. Len(l) -> SoundBuffers] BY LenProperties
    <3>2. l \in [1 .. Len(l) -> B!Buffers] BY <3>1 DEF SoundBuffers
    <3> QED BY <3>1, <3>2, SeqDef
  <2>2. /\ wait_pack_list_ \in Seq(B!Buffers) /\ wait_write_list_ \in Seq(B!Buffers)
        /\ recv_list_ \in Seq(B!Buffers) /\ unpack_list_ \in Seq(B!Buffers)
    BY <2>1 DEF Shapes, SenderShape, ReaderShape
  <2>3. buff \in B!Buffers \cup {Null} /\ cur_unpcak_ \in B!Buffers \cup {Null}
    BY DEF Shapes, ReaderShape, CurShape, SoundBuffers
  <2>4. /\ no_write \in BOOLEAN /\ socket \in Seq(B!Byte) /\ Len(socket) <= SocketRoom
        /\ peer \in {"open", "fin", "reset"}
    BY DEF Shapes, SenderShape, SocketShape
  <2>5. /\ pc \in {"idle", "parse", "finish"}
        /\ flags \subseteq {"NEXT", "CLOSE", "NOREAD", "NOWRITE", "closed"}
        /\ (front_unpcak_ = "front" => unpack_list_ # <<>>)
        /\ (front_unpcak_ = "pool" => "NOREAD" \in flags)
    BY DEF Shapes, PcShape
  <2>6. ASSUME cur_unpcak_ # Null, calls.returned, pc # "finish", "NOREAD" \notin flags
        PROVE  /\ cur_unpcak_.read_index = KeyBytes
               /\ B!is_readable(cur_unpcak_, LenBytes) =>
                    B!readableBytes(cur_unpcak_) < LenBytes + B!peekInt(cur_unpcak_, LenBytes)
    <3>1. Cur = cur_unpcak_ /\ cur_unpcak_ \in SoundBuffers BY <2>6 DEF Cur, Shapes, CurShape
    <3>2. cur_unpcak_.read_index = KeyBytes /\ Partial(Held)
      BY <2>6, <3>1 DEF Stands, CurStands, Waiting
    <3>3. B!Readable(cur_unpcak_) = Held BY <3>1, <3>2, HeldIs DEF Shapes
    <3>4. B!readableBytes(cur_unpcak_) = Len(Held) BY <3>1, <3>3, ReadableType
    <3>5. B!peekInt(cur_unpcak_, LenBytes) = LenOf(Held) BY <3>3 DEF B!peekInt, LenOf
    <3> QED BY <3>2, <3>4, <3>5 DEF Partial, B!is_readable
  <2> QED BY <2>2, <2>3, <2>4, <2>5, <2>6 DEF TypeOK
<1> QED BY <1>1, StandsKept, PTL

(* Until the reading ends, do_handle_unpack and read_data lose no byte, add *)
(* none and keep their order, wherever the pieces are cut and whatever a    *)
(* callback that throws has read of its frame.                              *)
THEOREM InputKept == Spec => []InputIsConserved
<1>1. Shapes /\ Stands => InputIsConserved
  <2> SUFFICES ASSUME Shapes, Stands, ~ReadingEnded
               PROVE  SubSeq(stream, Place + 1, Len(stream)) =
                        Held \o BytesOf(unpack_list_) \o BytesOf(recv_list_) \o InBuff \o socket
    BY DEF InputIsConserved, InBuff
  <2>1. "NOREAD" \notin flags BY DEF ReadingEnded
  <2>2. After(stream, Place) = Kept(InBuff \o socket) BY <2>1 DEF Stands, StreamSplit
  <2> DEFINE h == Held
             u == BytesOf(unpack_list_)
             r == BytesOf(recv_list_)
             i == InBuff
  <2>3. /\ h \in Seq(B!Byte) /\ u \in Seq(B!Byte) /\ r \in Seq(B!Byte) /\ i \in Seq(B!Byte)
        /\ socket \in Seq(B!Byte)
    BY KeptTypes
  <2>4. After(stream, Place) = h \o (u \o (r \o (i \o socket))) BY <2>2 DEF Kept
  <2> HIDE DEF h, u, r, i
  <2>5. h \o u \in Seq(B!Byte) /\ i \o socket \in Seq(B!Byte) BY <2>3, Joined
  <2>6. (h \o u) \o r \in Seq(B!Byte) /\ r \o (i \o socket) \in Seq(B!Byte) BY <2>3, <2>5, Joined
  <2>7. (h \o u) \o (r \o (i \o socket)) = h \o (u \o (r \o (i \o socket)))
    <3>1. h \in Seq(B!Byte) /\ u \in Seq(B!Byte) /\ r \o (i \o socket) \in Seq(B!Byte)
      BY <2>3, <2>6
    <3> QED BY <3>1, Regrouped
  <2>8. (h \o u) \o (r \o (i \o socket)) = ((h \o u) \o r) \o (i \o socket)
    <3>1. h \o u \in Seq(B!Byte) /\ r \in Seq(B!Byte) /\ i \o socket \in Seq(B!Byte)
      BY <2>3, <2>5
    <3> QED BY <3>1, Regrouped
  <2>9. ((h \o u) \o r) \o (i \o socket) = (((h \o u) \o r) \o i) \o socket
    <3>1. (h \o u) \o r \in Seq(B!Byte) /\ i \in Seq(B!Byte) /\ socket \in Seq(B!Byte)
      BY <2>3, <2>6
    <3> QED BY <3>1, Regrouped
  <2> QED BY <2>4, <2>7, <2>8, <2>9 DEF After, h, u, r, i
<1> QED BY <1>1, StandsKept, PTL

-----------------------------------------------------------------------------
(* The frames *)

(* What the parser has of a frame is what FrameStream finds in the stream   *)
(* at the place the parser has come to.                                     *)
LEMMA FrameFound ==
  ASSUME NEW f \in Seq(B!Byte), NEW y \in Seq(B!Byte), stream \in Seq(B!Byte),
         NEW i \in 0 .. Len(stream), After(stream, i) = f \o y
  PROVE  /\ Promise!Piece(i, i + Len(f)) = f
         /\ Exact(f) => Promise!HasFrame(i) /\ Promise!FrameEnd(i) = i + Len(f)
<1>1. Len(stream) \in Nat /\ Len(f) \in Nat /\ Len(y) \in Nat /\ i \in Nat BY LenProperties
<1>2. Len(stream) - i = Len(f) + Len(y)
  <2>1. Len(After(stream, i)) = Len(stream) - i BY AfterProperties
  <2> QED BY <2>1, ConcatProperties
<1>3. ASSUME NEW m \in 0 .. Len(f) PROVE Promise!Piece(i, i + m) = SubSeq(f, 1, m)
  <2>1. m \in 0 .. Len(stream) - i BY <1>1, <1>2
  <2>2. SubSeq(After(stream, i), 1, m) = SubSeq(stream, i + 1, i + m) BY <2>1, CutTwice
  <2>3. SubSeq(f \o y, 1, m) = SubSeq(f, 1, m) BY CutJoined
  <2> QED BY <2>2, <2>3 DEF Promise!Piece
<1>4. Promise!Piece(i, i + Len(f)) = f
  <2>1. Len(f) \in 0 .. Len(f) /\ SubSeq(f, 1, Len(f)) = f BY <1>1, SubSeqFull
  <2> QED BY <2>1, <1>3
<1>5. ASSUME Exact(f) PROVE Promise!HasFrame(i) /\ Promise!FrameEnd(i) = i + Len(f)
  <2>1. LenBytes \in 0 .. Len(f) BY <1>1, <1>5, Constants DEF Exact
  <2>2. B!Signed(Promise!Piece(i, i + LenBytes)) = LenOf(f) BY <2>1, <1>3 DEF LenOf
  <2>3. SubSeq(f, 1, LenBytes) \in Seq(B!Byte) BY <2>1, FirstProperties
  <2>4. LenOf(f) \in Int BY <2>3, SignedType DEF LenOf
  <2>5. LenBytes \in Nat /\ LenOf(f) > 0 /\ Len(f) = LenBytes + LenOf(f)
    BY <1>5, Constants DEF Exact
  <2>6. Len(stream) >= i + LenBytes + LenOf(f) /\ Len(stream) >= i + LenBytes
        /\ i + LenBytes + LenOf(f) = i + Len(f)
    BY <1>1, <1>2, <2>4, <2>5
  <2> QED BY <2>2, <2>5, <2>6 DEF Promise!HasFrame, Promise!FrameEnd
<1> QED BY <1>4, <1>5

(* The callback is given the next frame, or one again.                      *)
LEMMA CallDelivers ==
  ASSUME Shapes, Stands, pc = "finish", NEW returns \in BOOLEAN, Called(returns),
         stream' = stream, "NOREAD" \in flags' <=> "NOREAD" \in flags
  PROVE  Promise!Deliver \/ Promise!DeliverAgain
<1>0. CurShape /\ CallsShape /\ PcShape /\ stream \in Seq(B!Byte) BY DEF Shapes, SocketShape
<1>1. cur_unpcak_ # Null /\ "NOREAD" \notin flags BY <1>0 DEF PcShape
<1>2. /\ calls'.upto = Place + Len(Held) /\ calls'.given = Held /\ calls'.returned = returns
  BY <1>0, <1>1, CalledType
<1>3. Given /\ Complete BY <1>1 DEF Stands, CurStands
<1>4. PICK t \in Seq(B!Byte) : After(stream, Place) = Kept(t)
  BY <1>1 DEF Stands, StreamSplit
<1> DEFINE h == Held
           y == BytesOf(unpack_list_) \o (BytesOf(recv_list_) \o t)
<1>5. /\ h \in Seq(B!Byte) /\ Place \in 0 .. Len(stream) /\ Len(stream) \in Nat
      /\ Place \in Nat /\ Len(h) \in Nat
  BY <1>1, KeptTypes, LenProperties DEF Stands, StreamSplit
<1>6. y \in Seq(B!Byte)
  <2>1. BytesOf(unpack_list_) \in Seq(B!Byte) /\ BytesOf(recv_list_) \in Seq(B!Byte)
    BY KeptTypes
  <2>2. BytesOf(recv_list_) \o t \in Seq(B!Byte) BY <2>1, Joined
  <2> QED BY <2>1, <2>2, Joined
<1>7. After(stream, Place) = h \o y BY <1>4 DEF Kept
<1> HIDE DEF y
<1>8. Promise!Piece(Place, calls'.upto) = h
  <2>1. calls'.upto = Place + Len(h) BY <1>2
  <2> HIDE DEF h
  <2>2. Promise!Piece(Place, Place + Len(h)) = h BY <1>0, <1>5, <1>6, <1>7, FrameFound
  <2> QED BY <2>1, <2>2
<1>9. CASE calls.returned
  <2>1. Place = calls.upto /\ Exact(h) BY <1>3, <1>9 DEF Place, Complete
  <2>2. Promise!HasFrame(Place) /\ Promise!FrameEnd(Place) = Place + Len(h)
    BY <1>0, <1>5, <1>6, <1>7, <2>1, FrameFound
  <2> QED BY <1>1, <1>2, <1>8, <1>9, <2>1, <2>2 DEF Promise!Deliver
<1>10. CASE ~calls.returned
  <2> DEFINE g == calls.given
             e == After(h, Len(g))
  <2>1. Place = calls.upto - Len(g) BY <1>10 DEF Place
  <2>2. /\ g \in Seq(B!Byte) /\ Len(g) \in Nat /\ Len(g) \in 0 .. Len(h) /\ calls.upto \in Nat
        /\ After(h \o y, Len(g)) = e \o y
    BY <1>0, <1>3, <1>6, <1>10, GivenIs DEF CallsShape
  <2>3. calls'.upto = calls.upto \/ (Promise!HasFrame(calls.upto)
                                      /\ calls'.upto = Promise!FrameEnd(calls.upto))
    <3>1. CASE h = g
      <4>1. calls'.upto = (calls.upto - Len(g)) + Len(g) BY <1>2, <2>1, <3>1
      <4> QED BY <4>1, <2>2
    <3>2. CASE Exact(e)
      <4>1. e \in Seq(B!Byte) /\ Len(e) = Len(h) - Len(g) BY <1>5, <2>2, AfterProperties
      <4>2. Len(After(stream, Place)) = Len(stream) - Place BY <1>0, <1>5, AfterProperties
      <4>3. Len(h \o y) = Len(h) + Len(y) /\ Len(y) \in Nat
        BY <1>5, <1>6, ConcatProperties, LenProperties
      <4>4. Len(g) \in 0 .. Len(stream) - Place BY <1>5, <1>7, <2>2, <4>2, <4>3
      <4>5. /\ Place + Len(g) \in 0 .. Len(stream)
            /\ After(After(stream, Place), Len(g)) = After(stream, Place + Len(g))
        BY <1>0, <1>5, <4>4, CutTwice
      <4>6. Place + Len(g) = calls.upto BY <2>1, <2>2
      <4>7. After(stream, calls.upto) = e \o y /\ calls.upto \in 0 .. Len(stream)
        BY <1>7, <2>2, <4>5, <4>6
      <4> HIDE DEF e
      <4>8. /\ Promise!HasFrame(calls.upto)
            /\ Promise!FrameEnd(calls.upto) = calls.upto + Len(e)
        BY <1>0, <1>6, <3>2, <4>1, <4>7, FrameFound
      <4>9. calls'.upto = Place + Len(h) BY <1>2
      <4>10. Place + Len(h) = calls.upto + Len(e)
        <5>1. /\ Place \in Nat /\ Len(h) \in Nat /\ Len(g) \in Nat /\ calls.upto \in Nat
              /\ Len(e) = Len(h) - Len(g) /\ Place + Len(g) = calls.upto
          BY <1>5, <2>2, <4>1, <4>6
        <5> QED BY <5>1
      <4> QED BY <4>8, <4>9, <4>10
    <3> QED BY <3>1, <3>2, <1>3, <1>10 DEF Complete
  <2>4. calls'.given = Promise!Piece(calls.upto - Len(calls.given), calls'.upto)
    BY <1>2, <1>8, <2>1
  <2> QED BY <1>1, <1>2, <1>10, <2>3, <2>4 DEF Promise!DeliverAgain
<1> QED BY <1>0, <1>9, <1>10

(* Every step is one of FrameStream, or none: do_write_data sends, a call of *)
(* message_callback_ delivers, a bad length ends.                           *)
LEMMA PromiseStep ==
  ASSUME Shapes, Stands, [Next]_vars PROVE [Promise!Next]_Promise!vars
<1> DEFINE Stays == UNCHANGED <<stream, calls>> /\ ("NOREAD" \in flags' <=> "NOREAD" \in flags)
           Goal == [Promise!Next]_Promise!vars
<1>s. Stays => Goal BY DEF Promise!vars
<1>1. ASSUME NEW p \in Packets, push_send_pack(p) PROVE Goal
  BY <1>1, <1>s DEF push_send_pack, socket_vars, receiver_vars, parser_vars
<1>2. CASE WriteSome
  <2>1. PICK n \in 0 .. Len(BytesOf(AllOut)) :
          /\ SubSeq(BytesOf(AllOut), 1, n) \in Seq(B!Byte)
          /\ Len(SubSeq(BytesOf(AllOut), 1, n)) = n
          /\ stream' = stream \o SubSeq(BytesOf(AllOut), 1, n)
    BY <1>2, WriteTakes DEF Shapes
  <2>2. PICK x \in Seq(B!Byte) : stream' = stream \o x BY <2>1
  <2>3. stream \in Seq(B!Byte) /\ Len(stream) \in Nat /\ Len(x) \in Nat
    BY LenProperties DEF Shapes, SocketShape
  <2>4. UNCHANGED <<calls, flags>> BY <1>2 DEF WriteSome, receiver_vars, parser_vars
  <2>5. CASE x = <<>>
    <3>1. stream' = stream BY <2>2, <2>3, <2>5, ConcatEmptySeq
    <3> QED BY <3>1, <2>4, <1>s
  <2>6. CASE x # <<>>
    <3>1. Len(stream') = Len(stream) + Len(x) /\ Len(x) # 0
      BY <2>2, <2>3, <2>6, ConcatProperties, EmptySeq
    <3>2. SubSeq(stream', 1, Len(stream)) = stream BY <2>2, <2>3, CutBetween
    <3>3. Promise!Send BY <2>3, <2>4, <3>1, <3>2 DEF Promise!Send
    <3> QED BY <3>3 DEF Promise!Next
  <2> QED BY <2>5, <2>6
<1>3. WriteAgain \/ WriteError => Goal
  BY <1>s DEF WriteAgain, WriteError, socket_vars, receiver_vars, parser_vars
<1>4. ASSUME NEW how \in PeerMayEnd, SenderEnds(how) PROVE Goal
  BY <1>4, <1>s DEF SenderEnds, receiver_vars, parser_vars
<1>5. read_data => Goal
  BY <1>s DEF read_data, ReadSome, ReadEnd, ReadError, parser_vars, socket_vars
<1>6. UnpackNothing \/ set_close => Goal
  BY <1>s DEF UnpackNothing, set_close, parser_vars, socket_vars
<1>7. UnpackSplice \/ UnpackEnd \/ UnpackFrame => Goal
  BY <1>s DEF UnpackSplice, UnpackEnd, UnpackFrame, socket_vars
<1>8. UnpackLenPart \/ UnpackDataPart => Goal
  BY <1>s DEF UnpackLenPart, UnpackDataPart, FrontUsedUp, socket_vars
<1>9. CASE UnpackBad
  <2>1. UNCHANGED <<stream, calls>> /\ "NOREAD" \in flags' /\ pc = "parse"
    BY <1>9 DEF UnpackBad, socket_vars
  <2>2. "NOREAD" \notin flags BY <2>1 DEF Shapes, PcShape
  <2>3. Promise!End BY <2>1, <2>2 DEF Promise!End
  <2> QED BY <2>3 DEF Promise!Next
<1>10. CASE CallbackReturns
  <2>1. pc = "finish" /\ Called(TRUE) /\ stream' = stream
        /\ ("NOREAD" \in flags' <=> "NOREAD" \in flags)
    BY <1>10 DEF CallbackReturns, socket_vars
  <2> QED BY <2>1, CallDelivers DEF Promise!Next
<1>11. ASSUME NEW r \in ThrowAfter, CallbackThrows(r) PROVE Goal
  <2>1. pc = "finish" /\ Called(FALSE) /\ stream' = stream /\ flags' = flags
    BY <1>11 DEF CallbackThrows, socket_vars
  <2> QED BY <2>1, CallDelivers DEF Promise!Next
<1>12. UNCHANGED vars => Goal
  BY <1>s DEF vars, socket_vars, receiver_vars, parser_vars
<1> QED
  BY <1>1, <1>2, <1>3, <1>4, <1>5, <1>6, <1>7, <1>8, <1>9, <1>10, <1>11, <1>12
  DEF Next, do_write_data, handle_unpack

(* message_callback_ is given the frames of the stream: in order, each once *)
(* unless the callback throws, and none behind a length that is not positive. *)
THEOREM FramesInOrder == Spec => DeliversFrames
<1>1. Init => Promise!Init BY DEF Init, Promise!Init
<1>2. Shapes /\ Stands /\ [Next]_vars => [Promise!Next]_Promise!vars BY PromiseStep
<1> QED BY <1>1, <1>2, StandsKept, PTL DEF Spec, DeliversFrames, Promise!Spec
=============================================================================
