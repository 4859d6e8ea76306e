---------------------------- MODULE QueueLemmas -----------------------------
(***************************************************************************)
(* What the proofs about queues and free lists need of sequences.          *)
(***************************************************************************)
EXTENDS Integers, SequencesExt, SequenceTheorems, WellFoundedInduction, TLAPS

(* What is appended to a sequence is found again behind it: Executor!Post   *)
(* looks for the posted functions there.                                    *)
LEMMA PostedPart ==
  ASSUME NEW S, NEW s \in Seq(S), NEW t \in Seq(S)
  PROVE  SubSeq(s \o t, Len(s) + 1, Len(s \o t)) = t
<1>1. Len(s) \in Nat /\ Len(t) \in Nat /\ Len(s \o t) = Len(s) + Len(t)
  BY LenProperties, ConcatProperties
<1>2. CASE t = <<>>
  BY <1>1, <1>2, SubSeqEmpty, EmptySeq
<1>3. CASE t # <<>>
  <2>1. Len(t) \in Nat \ {0}
    BY <1>3, EmptySeq
  <2>2. SubSeq(s \o t, Len(s) + 1, Len(s) + Len(t))
          = SubSeq(t, Len(s) + 1 - Len(s), Len(s) + Len(t) - Len(s))
    BY <1>1, <2>1, SubSeqOfConcat2
  <2>3. Len(s) + 1 - Len(s) = 1 /\ Len(s) + Len(t) - Len(s) = Len(t)
    BY <1>1
  <2> QED
    BY <1>1, <2>2, <2>3, SubSeqFull
<1> QED
  BY <1>2, <1>3

(* Taking the first function off read takes the first off what is pending.  *)
LEMMA HeadOfPending ==
  ASSUME NEW S, NEW s \in Seq(S), NEW t \in Seq(S), s # <<>>
  PROVE  s \o t # <<>> /\ Head(s \o t) = Head(s) /\ Tail(s \o t) = Tail(s) \o t
<1>1. Len(s) \in Nat \ {0} /\ Len(t) \in Nat
  BY LenProperties, EmptySeq
<1>2. s \o t \in Seq(S) /\ Len(s \o t) = Len(s) + Len(t)
  BY ConcatProperties
<1>3. s \o t # <<>> /\ Head(s \o t) = Head(s)
  BY <1>1, <1>2
<1>4. /\ Tail(s) \in Seq(S) /\ Len(Tail(s)) = Len(s) - 1
      /\ Tail(s \o t) \in Seq(S) /\ Len(Tail(s \o t)) = Len(s) + Len(t) - 1
  BY <1>1, <1>2, <1>3, HeadTailProperties
<1>5. Tail(s) \o t \in Seq(S) /\ Len(Tail(s) \o t) = Len(s) + Len(t) - 1
  BY <1>1, <1>4, ConcatProperties
<1>6. \A i \in 1 .. Len(s) + Len(t) - 1 : Tail(s \o t)[i] = (Tail(s) \o t)[i]
  BY <1>1, <1>2, <1>4, <1>5
<1> QED
  BY <1>3, <1>4, <1>5, <1>6, SeqEqual

(* A list without repetition loses its first element, and nothing else.     *)
LEMMA TailSet ==
  ASSUME NEW S, NEW s \in Seq(S), s # <<>>, IsInjective(s)
  PROVE  /\ Tail(s) \in Seq(S) /\ IsInjective(Tail(s))
         /\ Head(s) \in ToSet(s)
         /\ ToSet(Tail(s)) = ToSet(s) \ {Head(s)}
<1>1. /\ Len(s) \in Nat \ {0} /\ DOMAIN s = 1 .. Len(s) /\ Head(s) = s[1]
  BY EmptySeq, LenProperties
<1>2. /\ Tail(s) \in Seq(S) /\ DOMAIN Tail(s) = 1 .. Len(s) - 1
      /\ \A i \in 1 .. Len(s) - 1 : Tail(s)[i] = s[i + 1]
  BY <1>1, HeadTailProperties
<1>3. IsInjective(Tail(s))
  BY <1>1, <1>2 DEF IsInjective
<1>4. \A i \in 2 .. Len(s) : s[i] = Tail(s)[i - 1] /\ i - 1 \in 1 .. Len(s) - 1 /\ s[i] # s[1]
  BY <1>1, <1>2 DEF IsInjective
<1>5. \A x : x \in ToSet(Tail(s)) => x \in ToSet(s) \ {Head(s)}
  <2> SUFFICES ASSUME NEW i \in 1 .. Len(s) - 1 PROVE Tail(s)[i] \in ToSet(s) \ {Head(s)}
    BY <1>2 DEF ToSet
  <2>1. i + 1 \in 2 .. Len(s) /\ i + 1 \in DOMAIN s /\ Tail(s)[i] = s[i + 1]
    BY <1>1, <1>2
  <2> QED
    BY <2>1, <1>1, <1>4 DEF ToSet
<1>6. \A x : x \in ToSet(s) \ {Head(s)} => x \in ToSet(Tail(s))
  <2> SUFFICES ASSUME NEW i \in 1 .. Len(s), s[i] # s[1] PROVE s[i] \in ToSet(Tail(s))
    BY <1>1 DEF ToSet
  <2>1. i \in 2 .. Len(s)
    BY <1>1
  <2> QED
    BY <2>1, <1>2, <1>4 DEF ToSet
<1>7. ToSet(Tail(s)) = ToSet(s) \ {Head(s)}
  BY <1>5, <1>6
<1>8. Head(s) \in ToSet(s)
  BY <1>1 DEF ToSet
<1> QED
  BY <1>2, <1>3, <1>7, <1>8

(* It gains an element it does not have, and stays without repetition.      *)
LEMMA AppendSet ==
  ASSUME NEW S, NEW s \in Seq(S), NEW e \in S, IsInjective(s), e \notin ToSet(s)
  PROVE  /\ Append(s, e) \in Seq(S) /\ IsInjective(Append(s, e))
         /\ ToSet(Append(s, e)) = ToSet(s) \cup {e}
<1>1. /\ Len(s) \in Nat /\ DOMAIN s = 1 .. Len(s)
      /\ Append(s, e) \in Seq(S) /\ DOMAIN Append(s, e) = 1 .. Len(s) + 1
      /\ Append(s, e)[Len(s) + 1] = e
      /\ \A i \in 1 .. Len(s) : Append(s, e)[i] = s[i]
  BY LenProperties, AppendProperties
<1>2. 1 .. Len(s) + 1 = (1 .. Len(s)) \cup {Len(s) + 1}
  BY <1>1
<1>3. \A i \in 1 .. Len(s) : s[i] # e
  BY <1>1 DEF ToSet
<1>4. IsInjective(Append(s, e))
  BY <1>1, <1>2, <1>3 DEF IsInjective
<1>5. ToSet(Append(s, e)) = ToSet(s) \cup {e}
  BY <1>1, <1>2 DEF ToSet
<1> QED
  BY <1>1, <1>4, <1>5

(* RemoveAt closes the gap it makes.                                        *)
LEMMA Removed ==
  ASSUME NEW S, NEW s \in Seq(S), NEW i \in DOMAIN s
  PROVE  /\ RemoveAt(s, i) \in Seq(S)
         /\ Len(RemoveAt(s, i)) = Len(s) - 1
         /\ \A j \in DOMAIN RemoveAt(s, i) :
              RemoveAt(s, i)[j] = IF j < i THEN s[j] ELSE s[j + 1]
<1>1. Len(s) \in Nat /\ DOMAIN s = 1 .. Len(s) /\ i \in 1 .. Len(s)
  BY LenProperties
<1> DEFINE a == SubSeq(s, 1, i - 1)
           c == SubSeq(s, i + 1, Len(s))
<1>2. /\ a \in Seq(S) /\ Len(a) = i - 1
      /\ \A j \in 1 .. i - 1 : a[j] = s[j]
  BY <1>1, ElementOfSeq
<1>3. /\ c \in Seq(S) /\ Len(c) = Len(s) - i
      /\ \A j \in 1 .. Len(s) - i : c[j] = s[j + i]
  BY <1>1, ElementOfSeq
<1> HIDE DEF a, c
<1>4. /\ a \o c \in Seq(S) /\ Len(a \o c) = Len(s) - 1
      /\ DOMAIN (a \o c) = 1 .. Len(s) - 1
      /\ \A j \in 1 .. Len(s) - 1 : (a \o c)[j] = IF j < i THEN a[j] ELSE c[j - (i - 1)]
  <2>1. /\ a \o c \in Seq(S) /\ Len(a \o c) = Len(a) + Len(c)
        /\ \A j \in 1 .. Len(a) + Len(c) :
             (a \o c)[j] = IF j <= Len(a) THEN a[j] ELSE c[j - Len(a)]
    BY <1>2, <1>3, ConcatProperties
  <2>2. Len(a) + Len(c) = Len(s) - 1 /\ \A j \in Nat : j <= Len(a) <=> j < i
    BY <1>1, <1>2, <1>3
  <2> QED
    BY <2>1, <2>2, <1>2, LenProperties
<1>5. \A j \in 1 .. Len(s) - 1 :
        (a \o c)[j] = IF j < i THEN s[j] ELSE s[j + 1]
  <2> SUFFICES ASSUME NEW j \in 1 .. Len(s) - 1
               PROVE  (a \o c)[j] = IF j < i THEN s[j] ELSE s[j + 1]
    OBVIOUS
  <2>1. CASE j < i
    <3>1. j \in 1 .. i - 1
      BY <2>1, <1>1
    <3> QED
      BY <2>1, <3>1, <1>2, <1>4
  <2>2. CASE ~(j < i)
    <3>1. j - (i - 1) \in 1 .. Len(s) - i /\ j - (i - 1) + i = j + 1
      BY <2>2, <1>1
    <3> QED
      BY <2>2, <3>1, <1>3, <1>4
  <2> QED
    BY <2>1, <2>2
<1>6. RemoveAt(s, i) = a \o c
  BY DEF RemoveAt, a, c
<1> QED
  BY <1>4, <1>5, <1>6

-----------------------------------------------------------------------------
(* Induction.  The library states it for an operator, which the provers do  *)
(* not instantiate; for the elements of a set it follows from the fact that *)
(* a set of numbers has a smallest one.                                     *)

LEMMA LeastNat ==
  ASSUME NEW T, T \subseteq Nat, T # {} PROVE \E n \in T : \A m \in T : n <= m
<1> DEFINE R == OpToRel(<, Nat)
<1>0. \A m, n \in Nat : <<m, n>> \in R <=> m < n BY DEF OpToRel
<1>w. IsWellFoundedOn(R, Nat) BY NatLessThanWellFounded
<1> HIDE DEF R
<1>1. PICK n \in T : \A m \in T : ~(<<m, n>> \in R)
  BY <1>w, WFMin
<1>2. ASSUME NEW m \in T PROVE n <= m
  <2>1. n \in Nat /\ m \in Nat OBVIOUS
  <2>2. ~(<<m, n>> \in R) BY <1>1
  <2>3. ~(m < n) BY <1>0, <2>1, <2>2
  <2> QED BY <2>1, <2>3
<1> QED BY <1>2

(* What holds of 0, and of n + 1 if of n, holds of every number.            *)
LEMMA SetInduction ==
  ASSUME NEW T, 0 \in T, \A n \in Nat : n \in T => n + 1 \in T PROVE \A n \in Nat : n \in T
<1> SUFFICES ASSUME NEW k \in Nat, k \notin T PROVE FALSE OBVIOUS
<1> DEFINE U == Nat \ T
<1>0. U \subseteq Nat /\ U # {} OBVIOUS
<1>1. PICK n \in U : \A m \in U : n <= m
  <2> HIDE DEF U
  <2> QED BY <1>0, LeastNat
<1>2. n # 0 /\ n - 1 \in Nat OBVIOUS
<1>3. n - 1 \in T BY <1>1, <1>2
<1> QED BY <1>1, <1>2, <1>3

(* Induction over sequences that grow at their end.                         *)
LEMMA AppendInduction ==
  ASSUME NEW S, NEW T, <<>> \in T,
         \A s \in Seq(S), x \in S : s \in T => Append(s, x) \in T
  PROVE  \A s \in Seq(S) : s \in T
<1> DEFINE N == {n \in Nat : \A s \in Seq(S) : Len(s) = n => s \in T}
<1>1. 0 \in N BY EmptySeq
<1>2. ASSUME NEW n \in Nat, n \in N PROVE n + 1 \in N
  <2> SUFFICES ASSUME NEW s \in Seq(S), Len(s) = n + 1 PROVE s \in T OBVIOUS
  <2>1. s # <<>> BY EmptySeq
  <2>2. PICK t \in Seq(S), x \in S : s = Append(t, x) BY <2>1, SequenceEmptyOrAppend
  <2>3. Len(t) = n BY <2>2, AppendProperties, LenProperties
  <2> QED BY <1>2, <2>2, <2>3
<1> HIDE DEF N
<1>3. \A n \in Nat : n \in N BY <1>1, <1>2, SetInduction
<1> QED BY <1>3, LenProperties DEF N

-----------------------------------------------------------------------------
(* FlattenSeq *)

(* The function that FlattenSeq is defined with: its i-th value joins the   *)
(* first i sequences.                                                       *)
Joins(f, ss, n) ==
  f = [i \in 1 .. n |-> IF i = 1 THEN ss[i] ELSE f[i - 1] \o ss[i]]

(* There is one, ...                                                        *)
LEMMA JoinsExists == ASSUME NEW ss PROVE \A n \in Nat : \E f : Joins(f, ss, n)
<1> DEFINE T == {n \in Nat : \E f : Joins(f, ss, n)}
<1>1. 0 \in T
  <2>1. Joins([i \in 1 .. 0 |-> ss[i]], ss, 0) BY DEF Joins
  <2> QED BY <2>1
<1>2. ASSUME NEW n \in Nat, n \in T PROVE n + 1 \in T
  <2>1. PICK f : Joins(f, ss, n) BY <1>2
  <2> DEFINE g == [i \in 1 .. n + 1 |->
                     IF i <= n THEN f[i] ELSE IF i = 1 THEN ss[i] ELSE f[i - 1] \o ss[i]]
  <2>2. \A i \in 1 .. n : f[i] = IF i = 1 THEN ss[i] ELSE f[i - 1] \o ss[i]
    BY <2>1 DEF Joins
  <2>3. \A i \in 1 .. n + 1 : i # 1 => i - 1 \in 1 .. n + 1 /\ g[i - 1] = f[i - 1]
    OBVIOUS
  <2>4. \A i \in 1 .. n + 1 : g[i] = IF i = 1 THEN ss[i] ELSE g[i - 1] \o ss[i]
    BY <2>2, <2>3
  <2>5. Joins(g, ss, n + 1) BY <2>4 DEF Joins
  <2> QED BY <2>5
<1> HIDE DEF T
<1>3. \A n \in Nat : n \in T BY <1>1, <1>2, SetInduction
<1> QED BY <1>3 DEF T

Agree(f, g, n) == \A i \in 1 .. n : f[i] = g[i]

(* ... and what it says of the first n sequences depends on those alone.    *)
LEMMA JoinsAgree ==
  ASSUME NEW n \in Nat
  PROVE  \A f, g, ss, tt :
           Joins(f, ss, n) /\ Joins(g, tt, n + 1) /\ Agree(ss, tt, n) => Agree(f, g, n)
<1> SUFFICES ASSUME NEW f, NEW g, NEW ss, NEW tt,
                    Joins(f, ss, n), Joins(g, tt, n + 1), \A i \in 1 .. n : ss[i] = tt[i]
             PROVE  \A i \in 1 .. n : f[i] = g[i]
  BY DEF Agree
<1> DEFINE T == {k \in Nat : k \in 1 .. n => f[k] = g[k]}
<1>0. /\ \A i \in 1 .. n : f[i] = IF i = 1 THEN ss[i] ELSE f[i - 1] \o ss[i]
      /\ \A i \in 1 .. n + 1 : g[i] = IF i = 1 THEN tt[i] ELSE g[i - 1] \o tt[i]
  BY DEF Joins
<1>1. 0 \in T OBVIOUS
<1>2. ASSUME NEW k \in Nat, k \in T PROVE k + 1 \in T
  <2> SUFFICES ASSUME k + 1 \in 1 .. n PROVE f[k + 1] = g[k + 1] OBVIOUS
  <2>1. k + 1 \in 1 .. n + 1 /\ ss[k + 1] = tt[k + 1] OBVIOUS
  <2>2. CASE k = 0 BY <2>1, <2>2, <1>0
  <2>3. CASE k # 0
    <3>1. f[k] = g[k] BY <1>2, <2>3
    <3>2. f[k + 1] = f[k] \o ss[k + 1] /\ g[k + 1] = g[k] \o tt[k + 1]
      <4>1. k + 1 # 1 /\ (k + 1) - 1 = k BY <2>3
      <4> QED BY <4>1, <2>1, <1>0
    <3> QED BY <3>1, <3>2, <2>1
  <2> QED BY <2>2, <2>3
<1> HIDE DEF T
<1>3. \A k \in Nat : k \in T BY <1>1, <1>2, SetInduction
<1> QED BY <1>3 DEF T

LEMMA FlattenIsJoin ==
  ASSUME NEW S, NEW ss \in Seq(S), ss # <<>>
  PROVE  \E f : Joins(f, ss, Len(ss)) /\ FlattenSeq(ss) = f[Len(ss)]
<1>1. Len(ss) \in Nat \ {0} BY EmptySeq
<1> DEFINE f == CHOOSE g : Joins(g, ss, Len(ss))
<1>2. Joins(f, ss, Len(ss)) BY <1>1, JoinsExists
<1>3. FlattenSeq(ss) = f[Len(ss)] BY <1>1 DEF FlattenSeq, Joins
<1> QED BY <1>2, <1>3

(* So another sequence at the end is joined behind what there was.          *)
LEMMA FlattenAppend ==
  ASSUME NEW S, NEW ss \in Seq(Seq(S)), NEW s \in Seq(S)
  PROVE  FlattenSeq(Append(ss, s)) = IF ss = <<>> THEN s ELSE FlattenSeq(ss) \o s
<1> DEFINE tt == Append(ss, s)
           n == Len(ss)
<1>1. /\ n \in Nat /\ tt \in Seq(Seq(S)) /\ tt # <<>> /\ Len(tt) = n + 1
      /\ tt[n + 1] = s /\ \A i \in 1 .. n : tt[i] = ss[i]
  BY LenProperties, AppendProperties
<1> HIDE DEF tt
<1>2. PICK g : Joins(g, tt, n + 1) /\ FlattenSeq(tt) = g[n + 1]
  BY <1>1, FlattenIsJoin
<1>3. g[n + 1] = IF n + 1 = 1 THEN s ELSE g[n] \o s
  <2>1. \A i \in 1 .. n + 1 : g[i] = IF i = 1 THEN tt[i] ELSE g[i - 1] \o tt[i]
    BY <1>2 DEF Joins
  <2>2. n + 1 \in 1 .. n + 1 /\ (n + 1) - 1 = n BY <1>1
  <2> QED BY <2>1, <2>2, <1>1
<1>4. CASE ss = <<>> BY <1>2, <1>3, <1>4, EmptySeq DEF tt
<1>5. CASE ss # <<>>
  <2>1. n \in Nat \ {0} BY <1>5, EmptySeq
  <2>2. PICK f : Joins(f, ss, n) /\ FlattenSeq(ss) = f[n]
    BY <1>5, FlattenIsJoin
  <2>3. Agree(ss, tt, n) BY <1>1 DEF Agree
  <2>5. Agree(f, g, n)
    <3>1. n \in Nat /\ Joins(f, ss, n) /\ Joins(g, tt, n + 1) BY <1>1, <1>2, <2>2
    <3> HIDE DEF n
    <3> QED BY <3>1, <2>3, JoinsAgree
  <2>6. f[n] = g[n] BY <2>1, <2>5 DEF Agree
  <2> QED BY <1>2, <1>3, <1>5, <2>1, <2>2, <2>6 DEF tt
<1> QED BY <1>4, <1>5

-----------------------------------------------------------------------------
(* Cutting sequences *)

(* What is left of a sequence behind its first n elements.                  *)
After(s, n) == SubSeq(s, n + 1, Len(s))

LEMMA AfterProperties ==
  ASSUME NEW S, NEW s \in Seq(S), NEW n \in 0 .. Len(s)
  PROVE  /\ After(s, n) \in Seq(S) /\ Len(After(s, n)) = Len(s) - n
         /\ \A i \in 1 .. Len(s) - n : After(s, n)[i] = s[n + i]
<1>0. Len(s) \in Nat /\ n \in Nat /\ n <= Len(s) BY LenProperties
<1>1. n + 1 \in Int /\ Len(s) \in Int /\ Len(s) - (n + 1) + 1 = Len(s) - n BY <1>0
<1>2. \A i \in n + 1 .. Len(s) : s[i] \in S BY <1>0, ElementOfSeq
<1>3. /\ SubSeq(s, n + 1, Len(s)) \in Seq(S)
      /\ Len(SubSeq(s, n + 1, Len(s))) = IF n + 1 <= Len(s) THEN Len(s) - (n + 1) + 1 ELSE 0
      /\ \A i \in 1 .. Len(s) - (n + 1) + 1 : SubSeq(s, n + 1, Len(s))[i] = s[n + 1 + i - 1]
  BY <1>1, <1>2, SubSeqProperties
<1> DEFINE r == SubSeq(s, n + 1, Len(s))
<1>4. Len(r) = Len(s) - n
  <2>1. n + 1 <= Len(s) \/ (~(n + 1 <= Len(s)) /\ Len(s) - n = 0) BY <1>0
  <2>2. Len(r) = IF n + 1 <= Len(s) THEN Len(s) - n ELSE 0 BY <1>1, <1>3
  <2> QED BY <2>1, <2>2, Zenon
<1>5. ASSUME NEW i \in 1 .. Len(s) - n PROVE r[i] = s[n + i]
  <2>1. n + 1 + i - 1 = n + i /\ i \in 1 .. Len(s) - (n + 1) + 1 BY <1>0
  <2> QED BY <2>1, <1>3
<1> QED BY <1>3, <1>4, <1>5 DEF After

LEMMA FirstProperties ==
  ASSUME NEW S, NEW s \in Seq(S), NEW n \in 0 .. Len(s)
  PROVE  /\ SubSeq(s, 1, n) \in Seq(S) /\ Len(SubSeq(s, 1, n)) = n
         /\ \A i \in 1 .. n : SubSeq(s, 1, n)[i] = s[i]
<1>1. Len(s) \in Nat /\ n \in Nat /\ n - 1 + 1 = n BY LenProperties
<1>2. \A i \in 1 .. n : s[i] \in S BY <1>1, ElementOfSeq
<1>3. /\ SubSeq(s, 1, n) \in Seq(S)
      /\ Len(SubSeq(s, 1, n)) = IF 1 <= n THEN n - 1 + 1 ELSE 0
      /\ \A i \in 1 .. n - 1 + 1 : SubSeq(s, 1, n)[i] = s[1 + i - 1]
  BY <1>1, <1>2, SubSeqProperties
<1> QED BY <1>1, <1>3

(* A sequence is its first elements and those behind them, ...              *)
LEMMA CutInTwo ==
  ASSUME NEW S, NEW s \in Seq(S), NEW n \in 0 .. Len(s)
  PROVE  s = SubSeq(s, 1, n) \o After(s, n)
<1>1. Len(s) \in Nat /\ n \in Nat BY LenProperties
<1> DEFINE a == SubSeq(s, 1, n)
           b == After(s, n)
<1>2. a \in Seq(S) /\ Len(a) = n /\ \A i \in 1 .. n : a[i] = s[i] BY FirstProperties
<1>3. b \in Seq(S) /\ Len(b) = Len(s) - n /\ \A i \in 1 .. Len(s) - n : b[i] = s[n + i]
  BY AfterProperties
<1> HIDE DEF a, b
<1>4. /\ a \o b \in Seq(S) /\ Len(a \o b) = Len(s)
      /\ \A i \in 1 .. Len(s) : (a \o b)[i] = IF i <= n THEN a[i] ELSE b[i - n]
  BY <1>1, <1>2, <1>3, ConcatProperties
<1>5. ASSUME NEW i \in 1 .. Len(s) PROVE s[i] = (a \o b)[i]
  <2>1. CASE i <= n BY <2>1, <1>1, <1>2, <1>4
  <2>2. CASE ~(i <= n)
    <3>1. i - n \in 1 .. Len(s) - n /\ n + (i - n) = i BY <2>2, <1>1
    <3> QED BY <3>1, <2>2, <1>1, <1>3, <1>4
  <2> QED BY <2>1, <2>2
<1> QED BY <1>4, <1>5, SeqEqual DEF a, b

(* ... and of two sequences joined, those of the first and all of the second. *)
LEMMA CutJoined ==
  ASSUME NEW S, NEW s \in Seq(S), NEW t \in Seq(S), NEW n \in 0 .. Len(s)
  PROVE  SubSeq(s \o t, 1, n) = SubSeq(s, 1, n) /\ After(s \o t, n) = After(s, n) \o t
<1>1. Len(s) \in Nat /\ Len(t) \in Nat /\ n \in Nat BY LenProperties
<1>2. /\ s \o t \in Seq(S) /\ Len(s \o t) = Len(s) + Len(t)
      /\ \A i \in 1 .. Len(s) + Len(t) : (s \o t)[i] = IF i <= Len(s) THEN s[i] ELSE t[i - Len(s)]
  BY ConcatProperties
<1>3. n \in 0 .. Len(s \o t) BY <1>1, <1>2
<1>4. SubSeq(s \o t, 1, n) = SubSeq(s, 1, n)
  <2>1. SubSeq(s, 1, n) \in Seq(S) /\ Len(SubSeq(s, 1, n)) = n
        /\ \A i \in 1 .. n : SubSeq(s, 1, n)[i] = s[i]
    BY FirstProperties
  <2>2. SubSeq(s \o t, 1, n) \in Seq(S) /\ Len(SubSeq(s \o t, 1, n)) = n
        /\ \A i \in 1 .. n : SubSeq(s \o t, 1, n)[i] = (s \o t)[i]
    BY <1>2, <1>3, FirstProperties
  <2>3. \A i \in 1 .. n : (s \o t)[i] = s[i] BY <1>1, <1>2
  <2>4. \A i \in 1 .. n : SubSeq(s \o t, 1, n)[i] = SubSeq(s, 1, n)[i]
    BY <2>1, <2>2, <2>3
  <2> QED BY <2>1, <2>2, <2>4, SeqEqual
<1>5. After(s \o t, n) = After(s, n) \o t
  <2> DEFINE a == After(s, n)
             b == After(s \o t, n)
             l == Len(s) - n
  <2>1. a \in Seq(S) /\ Len(a) = l /\ \A i \in 1 .. l : a[i] = s[n + i]
    BY AfterProperties
  <2>2. b \in Seq(S) /\ Len(b) = l + Len(t) /\ \A i \in 1 .. l + Len(t) : b[i] = (s \o t)[n + i]
    <3> DEFINE st == s \o t
    <3>1. Len(st) - n = l + Len(t) BY <1>1, <1>2
    <3> HIDE DEF st, l
    <3>2. st \in Seq(S) /\ n \in 0 .. Len(st) BY <1>2, <1>3 DEF st
    <3>3. /\ After(st, n) \in Seq(S) /\ Len(After(st, n)) = l + Len(t)
          /\ \A i \in 1 .. l + Len(t) : After(st, n)[i] = st[n + i]
      BY <3>1, <3>2, AfterProperties
    <3> QED BY <3>3 DEF st
  <2>3. l \in Nat BY <1>1
  <2>l. l = Len(s) - n OBVIOUS
  <2> HIDE DEF a, b, l
  <2>4. /\ a \o t \in Seq(S) /\ Len(a \o t) = l + Len(t)
        /\ \A i \in 1 .. l + Len(t) : (a \o t)[i] = IF i <= l THEN a[i] ELSE t[i - l]
    BY <2>1, <2>3, ConcatProperties
  <2>5. ASSUME NEW i \in 1 .. l + Len(t) PROVE b[i] = (a \o t)[i]
    <3>1. n + i \in 1 .. Len(s) + Len(t) /\ b[i] = (s \o t)[n + i] BY <1>1, <2>2, <2>3, <2>l
    <3>2. CASE i <= l
      <4>1. n + i <= Len(s) /\ i \in 1 .. l BY <3>2, <1>1, <2>3, <2>l
      <4> QED BY <4>1, <3>1, <3>2, <1>2, <2>1, <2>4
    <3>3. CASE ~(i <= l)
      <4>1. ~(n + i <= Len(s)) /\ n + i - Len(s) = i - l BY <3>3, <1>1, <2>3, <2>l
      <4> QED BY <4>1, <3>1, <3>3, <1>2, <2>4
    <3> QED BY <3>2, <3>3
  <2>6. Len(b) = Len(a \o t) /\ \A i \in 1 .. Len(b) : b[i] = (a \o t)[i]
    BY <2>2, <2>4, <2>5
  <2> QED BY <2>2, <2>4, <2>6, SeqEqual DEF a, b
<1> QED BY <1>4, <1>5

LEMMA CutBetween ==
  ASSUME NEW S, NEW s \in Seq(S), NEW t \in Seq(S)
  PROVE  SubSeq(s \o t, 1, Len(s)) = s /\ After(s \o t, Len(s)) = t
<1>1. Len(s) \in Nat /\ Len(s) \in 0 .. Len(s) BY LenProperties
<1>2. SubSeq(s, 1, Len(s)) = s BY SubSeqFull
<1>3. After(s, Len(s)) = <<>> BY <1>1, SubSeqEmpty DEF After
<1>4. SubSeq(s \o t, 1, Len(s)) = SubSeq(s, 1, Len(s))
      /\ After(s \o t, Len(s)) = After(s, Len(s)) \o t
  BY <1>1, CutJoined
<1>5. <<>> \o t = t BY ConcatEmptySeq
<1> QED BY <1>2, <1>3, <1>4, <1>5

(* Two cuts are one.                                                        *)
LEMMA CutTwice ==
  ASSUME NEW S, NEW s \in Seq(S), NEW n \in 0 .. Len(s), NEW m \in 0 .. Len(s) - n
  PROVE  /\ n + m \in 0 .. Len(s) /\ After(After(s, n), m) = After(s, n + m)
         /\ SubSeq(After(s, n), 1, m) = SubSeq(s, n + 1, n + m)
<1>1. Len(s) \in Nat /\ n \in Nat /\ m \in Nat /\ n + m \in 0 .. Len(s) BY LenProperties
<1> DEFINE a == After(s, n)
<1>2. a \in Seq(S) /\ Len(a) = Len(s) - n /\ \A i \in 1 .. Len(s) - n : a[i] = s[n + i]
  BY AfterProperties
<1> HIDE DEF a
<1>3. m \in 0 .. Len(a) BY <1>2
<1>4. After(a, m) = After(s, n + m)
  <2>1. After(a, m) \in Seq(S) /\ Len(After(a, m)) = Len(s) - n - m
        /\ \A i \in 1 .. Len(s) - n - m : After(a, m)[i] = a[m + i]
    <3>1. Len(a) - m = Len(s) - n - m BY <1>2
    <3>2. /\ After(a, m) \in Seq(S) /\ Len(After(a, m)) = Len(a) - m
          /\ \A i \in 1 .. Len(a) - m : After(a, m)[i] = a[m + i]
      <4>1. a \in Seq(S) /\ m \in 0 .. Len(a) BY <1>2, <1>3
      <4> QED BY <4>1, AfterProperties
    <3> QED BY <3>1, <3>2
  <2>2. After(s, n + m) \in Seq(S) /\ Len(After(s, n + m)) = Len(s) - (n + m)
        /\ \A i \in 1 .. Len(s) - (n + m) : After(s, n + m)[i] = s[(n + m) + i]
    BY <1>1, AfterProperties
  <2>3. Len(s) - n - m = Len(s) - (n + m) BY <1>1
  <2>4. ASSUME NEW i \in 1 .. Len(s) - n - m PROVE After(a, m)[i] = After(s, n + m)[i]
    <3>1. m + i \in 1 .. Len(s) - n /\ n + (m + i) = (n + m) + i BY <1>1
    <3> QED BY <3>1, <2>1, <2>2, <2>3, <1>2
  <2> QED BY <2>1, <2>2, <2>3, <2>4, SeqEqual
<1>5. SubSeq(a, 1, m) = SubSeq(s, n + 1, n + m)
  <2>1. SubSeq(a, 1, m) \in Seq(S) /\ Len(SubSeq(a, 1, m)) = m
        /\ \A i \in 1 .. m : SubSeq(a, 1, m)[i] = a[i]
    BY <1>2, <1>3, FirstProperties
  <2>2. \A i \in n + 1 .. n + m : s[i] \in S BY <1>1, ElementOfSeq
  <2>3. /\ SubSeq(s, n + 1, n + m) \in Seq(S)
        /\ Len(SubSeq(s, n + 1, n + m)) =
             IF n + 1 <= n + m THEN (n + m) - (n + 1) + 1 ELSE 0
        /\ \A i \in 1 .. (n + m) - (n + 1) + 1 : SubSeq(s, n + 1, n + m)[i] = s[(n + 1) + i - 1]
    BY <1>1, <2>2, SubSeqProperties
  <2>4. (n + m) - (n + 1) + 1 = m /\ Len(SubSeq(s, n + 1, n + m)) = m BY <1>1, <2>3
  <2>5. ASSUME NEW i \in 1 .. m PROVE SubSeq(a, 1, m)[i] = SubSeq(s, n + 1, n + m)[i]
    <3>1. i \in 1 .. Len(s) - n /\ (n + 1) + i - 1 = n + i BY <1>1
    <3> QED BY <3>1, <2>1, <2>3, <2>4, <1>2
  <2> QED BY <2>1, <2>3, <2>4, <2>5, SeqEqual
<1> QED BY <1>1, <1>4, <1>5 DEF a
=============================================================================
