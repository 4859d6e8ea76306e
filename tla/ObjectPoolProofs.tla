-------------------------- MODULE ObjectPoolProofs --------------------------
(***************************************************************************)
(* ObjectPool hands no object out twice, loses none and frees none that is *)
(* held, for blocks of any size at any addresses.                          *)
(***************************************************************************)
EXTENDS ObjectPool, FiniteSetTheorems, QueueLemmas

-----------------------------------------------------------------------------
(* The inductive invariant.  NoObjectTwice and NothingLost together say     *)
(* that the free list of a block is, without repetition, what nobody holds  *)
(* of its memory; that is a fact about one block and what is held.          *)
Kept(block, held) ==
  /\ block \in Blocks /\ block._end = block._begin + block_size_ - 1
  /\ IsInjective(block.free)
  /\ ToSet(block.free) = Memory(block) \ held

PoolInv ==
  /\ TypeOK /\ BlocksApart /\ OutIsAllocated
  /\ \A i \in DOMAIN block_list_ : Kept(block_list_[i], out)

(* A new block is free from one end to the other.                           *)
LEMMA NewKept ==
  ASSUME NEW b \in Nat
  PROVE  /\ Kept(NewBlock(b), {})
         /\ NewBlock(b).free # <<>> /\ Head(NewBlock(b).free) = b
         /\ b \in Memory(NewBlock(b))
<1> DEFINE f == [i \in 1 .. block_size_ |-> b + i - 1]
<1>1. block_size_ \in Nat \ {0}
  BY PoolAssumption
<1>2. NewBlock(b) = [_begin |-> b, _end |-> b + block_size_ - 1, free |-> f]
  BY DEF NewBlock
<1>3. f \in Seq(Nat) /\ DOMAIN f = 1 .. block_size_ /\ Len(f) = block_size_
  BY <1>1
<1>4. f # <<>> /\ Head(f) = b
  BY <1>1, <1>3
<1>5. IsInjective(f)
  BY <1>1 DEF IsInjective
<1>6. ToSet(f) = b .. b + block_size_ - 1
  <2>1. \A x \in ToSet(f) : x \in b .. b + block_size_ - 1
    BY <1>1 DEF ToSet
  <2>2. \A x \in b .. b + block_size_ - 1 :
          x - b + 1 \in 1 .. block_size_ /\ f[x - b + 1] = x
    BY <1>1
  <2> QED
    BY <2>1, <2>2, <1>3 DEF ToSet
<1>7. b + block_size_ - 1 \in Nat /\ b \in b .. b + block_size_ - 1
  BY <1>1
<1> HIDE DEF f
<1>8. NewBlock(b) \in Blocks
  BY <1>2, <1>3, <1>7 DEF Blocks
<1>9. Memory(NewBlock(b)) = b .. b + block_size_ - 1 /\ NewBlock(b).free = f
  BY <1>2 DEF Memory
<1>10. Kept(NewBlock(b), {})
  BY <1>2, <1>5, <1>6, <1>8, <1>9 DEF Kept
<1> QED
  BY <1>4, <1>7, <1>9, <1>10

(* Handing out the first free object.                                       *)
LEMMA TailKept ==
  ASSUME NEW block, NEW held, Kept(block, held), block.free # <<>>
  PROVE  /\ Kept([block EXCEPT !.free = Tail(@)], held \cup {Head(block.free)})
         /\ Memory([block EXCEPT !.free = Tail(@)]) = Memory(block)
         /\ Head(block.free) \in Memory(block) \ held
<1>1. block \in Blocks /\ block.free \in Seq(Nat) /\ IsInjective(block.free)
      /\ ToSet(block.free) = Memory(block) \ held
  BY DEF Kept, Blocks
<1>2. /\ Tail(block.free) \in Seq(Nat) /\ IsInjective(Tail(block.free))
      /\ Head(block.free) \in ToSet(block.free)
      /\ ToSet(Tail(block.free)) = ToSet(block.free) \ {Head(block.free)}
  BY <1>1, TailSet
<1> DEFINE n == [block EXCEPT !.free = Tail(@)]
<1>3. n \in Blocks /\ n._begin = block._begin /\ n._end = block._end /\ n.free = Tail(block.free)
  BY <1>1, <1>2 DEF Blocks
<1>4. Memory(n) = Memory(block)
  BY <1>3 DEF Memory
<1> QED
  BY <1>1, <1>2, <1>3, <1>4 DEF Kept

(* Taking an object back.                                                   *)
LEMMA AppendKept ==
  ASSUME NEW block, NEW held, Kept(block, held), NEW o \in Memory(block) \cap held
  PROVE  /\ Kept([block EXCEPT !.free = Append(@, o)], held \ {o})
         /\ Memory([block EXCEPT !.free = Append(@, o)]) = Memory(block)
<1>1. block \in Blocks /\ block.free \in Seq(Nat) /\ IsInjective(block.free)
      /\ ToSet(block.free) = Memory(block) \ held
  BY DEF Kept, Blocks
<1>2. o \in Nat
  BY <1>1 DEF Memory, Blocks
<1>3. /\ Append(block.free, o) \in Seq(Nat) /\ IsInjective(Append(block.free, o))
      /\ ToSet(Append(block.free, o)) = ToSet(block.free) \cup {o}
  BY <1>1, <1>2, AppendSet
<1> DEFINE n == [block EXCEPT !.free = Append(@, o)]
<1>4. n \in Blocks /\ n._begin = block._begin /\ n._end = block._end /\ n.free = Append(block.free, o)
  BY <1>1, <1>3 DEF Blocks
<1>5. Memory(n) = Memory(block)
  BY <1>4 DEF Memory
<1> QED
  BY <1>1, <1>3, <1>4, <1>5 DEF Kept

(* A block does not mind what happens to the objects of others.             *)
LEMMA OtherKept ==
  ASSUME NEW block, NEW held, NEW held2, Kept(block, held),
         Memory(block) \cap held = Memory(block) \cap held2
  PROVE  Kept(block, held2)
BY DEF Kept

(* Counting suffices: a block whose free list is as long as the block has   *)
(* no object that is held.                                                  *)
LEMMA UnusedIsFree ==
  ASSUME NEW block, NEW held, Kept(block, held), Len(block.free) = block_size_
  PROVE  Memory(block) \cap held = {}
<1> DEFINE f == block.free
<1>1. block_size_ \in Nat \ {0}
  BY PoolAssumption
<1>2. /\ block._begin \in Nat /\ block._end = block._begin + block_size_ - 1
      /\ f \in Seq(Nat) /\ IsInjective(f) /\ ToSet(f) = Memory(block) \ held
  BY DEF Kept, Blocks
<1>3. DOMAIN f = 1 .. block_size_ /\ f \in [1 .. block_size_ -> Memory(block)]
  <2>1. f \in [1 .. block_size_ -> Nat] /\ DOMAIN f = 1 .. block_size_
    BY <1>2, LenProperties
  <2>2. \A i \in 1 .. block_size_ : f[i] \in Memory(block)
    BY <2>1, <1>2 DEF ToSet
  <2> QED
    BY <2>1, <2>2
<1>4. f \in Injection(1 .. block_size_, Memory(block))
  BY <1>2, <1>3 DEF Injection
<1>5. /\ IsFiniteSet(1 .. block_size_) /\ Cardinality(1 .. block_size_) = block_size_
  BY <1>1, FS_Interval
<1>6. /\ IsFiniteSet(Memory(block)) /\ Cardinality(Memory(block)) = block_size_
  <2>1. /\ Memory(block) = block._begin .. block._end
        /\ block._begin \in Int /\ block._end \in Int /\ ~(block._begin > block._end)
        /\ block._end - block._begin + 1 = block_size_
    BY <1>1, <1>2 DEF Memory
  <2> QED
    BY <2>1, FS_Interval
<1>7. f \in Surjection(1 .. block_size_, Memory(block))
  BY <1>4, <1>5, <1>6, FS_Injection
<1>8. Memory(block) \subseteq ToSet(f)
  BY <1>3, <1>7 DEF Surjection, ToSet
<1> QED
  BY <1>2, <1>8

-----------------------------------------------------------------------------
(* The steps.  pop and push change one block each and leave every block     *)
(* where it is: what remains to be shown is what happens to that block.     *)
LEMMA OneBlockChanges ==
  ASSUME PoolInv, iter' = iter,
         NEW i \in DOMAIN block_list_, NEW block,
         block_list_' = [block_list_ EXCEPT ![i] = block],
         Memory(block) = Memory(block_list_[i]), Kept(block, out'),
         \A o : o \notin Memory(block) => (o \in out' <=> o \in out)
  PROVE  PoolInv'
<1>1. /\ block_list_ \in Seq(Blocks) /\ out \subseteq Nat /\ iter \in Nat
      /\ \A j \in DOMAIN block_list_ : Kept(block_list_[j], out)
  BY DEF PoolInv, TypeOK
<1>2. /\ DOMAIN block_list_' = DOMAIN block_list_
      /\ block_list_'[i] = block
      /\ \A j \in DOMAIN block_list_ : j # i => block_list_'[j] = block_list_[j]
      /\ \A j \in DOMAIN block_list_ : Memory(block_list_'[j]) = Memory(block_list_[j])
  BY <1>1
<1>3. block \in Blocks /\ Memory(block) \subseteq Nat
  BY DEF Kept, Blocks, Memory
<1>4. TypeOK'
  <2>1. block_list_' \in Seq(Blocks)
    BY <1>1, <1>3, ExceptSeq, LenProperties
  <2>2. out' \subseteq Nat
    BY <1>1, <1>3
  <2> QED
    BY <1>1, <2>1, <2>2 DEF TypeOK
<1>5. BlocksApart'
  BY <1>2 DEF PoolInv, BlocksApart
<1>6. OutIsAllocated'
  <2> SUFFICES ASSUME NEW o \in out'
               PROVE  \E j \in DOMAIN block_list_ : o \in Memory(block_list_[j])
    BY <1>2 DEF OutIsAllocated
  <2> QED
    BY DEF PoolInv, OutIsAllocated
<1>7. ASSUME NEW j \in DOMAIN block_list_ PROVE Kept(block_list_'[j], out')
  <2>1. CASE j = i
    BY <2>1, <1>2
  <2>2. CASE j # i
    <3>1. Memory(block_list_[j]) \cap Memory(block) = {}
      BY <2>2 DEF PoolInv, BlocksApart
    <3>2. Memory(block_list_[j]) \cap out = Memory(block_list_[j]) \cap out'
      BY <3>1
    <3> QED
      BY <2>2, <3>2, <1>1, <1>2, OtherKept
  <2> QED
    BY <2>1, <2>2
<1> QED
  BY <1>2, <1>4, <1>5, <1>6, <1>7 DEF PoolInv

LEMMA PopFreeStep == ASSUME PoolInv, PopFree PROVE PoolInv'
<1>1. PICK i \in DOMAIN block_list_ :
        /\ block_list_[i].free # <<>>
        /\ out' = out \cup {Head(block_list_[i].free)}
        /\ block_list_' = [block_list_ EXCEPT ![i].free = Tail(@)]
  BY DEF PopFree
<1> DEFINE block == [block_list_[i] EXCEPT !.free = Tail(@)]
<1>2. Kept(block_list_[i], out)
  BY DEF PoolInv
<1>3. /\ Kept(block, out') /\ Memory(block) = Memory(block_list_[i])
      /\ Head(block_list_[i].free) \in Memory(block_list_[i])
  BY <1>1, <1>2, TailKept
<1>4. block_list_' = [block_list_ EXCEPT ![i] = block]
  BY <1>1
<1>5. \A o : o \notin Memory(block) => (o \in out' <=> o \in out)
  BY <1>1, <1>3
<1>6. iter' = iter
  BY DEF PopFree
<1> HIDE DEF block
<1> QED
  BY <1>3, <1>4, <1>5, <1>6, OneBlockChanges

(* pop hands out one object, which nobody held.                             *)
LEMMA PopGives ==
  ASSUME PoolInv, pop
  PROVE  \E x \in Nat \ out : out' = out \cup {x}
<1>1. CASE PopFree
  <2>1. PICK i \in DOMAIN block_list_ :
          /\ block_list_[i].free # <<>>
          /\ out' = out \cup {Head(block_list_[i].free)}
    BY <1>1 DEF PopFree
  <2>2. Kept(block_list_[i], out)
    BY DEF PoolInv
  <2>3. Head(block_list_[i].free) \in Memory(block_list_[i]) \ out
    BY <2>1, <2>2, TailKept
  <2>4. Memory(block_list_[i]) \subseteq Nat
    BY <2>2 DEF Kept, Blocks, Memory
  <2> QED
    BY <2>1, <2>3, <2>4
<1>2. CASE PopNew
  <2>1. PICK b \in Bases : IsFresh(b) /\ out' = out \cup {b}
    BY <1>2 DEF PopNew
  <2>2. b \in Nat /\ b \in Memory(NewBlock(b))
    BY PoolAssumption, NewKept
  <2>3. b \notin out
    BY <2>1, <2>2 DEF PoolInv, OutIsAllocated, IsFresh
  <2> QED
    BY <2>1, <2>2, <2>3
<1> QED
  BY <1>1, <1>2 DEF pop

(* An object that is held has a block, and no other block will take it.     *)
LEMMA PushStep == ASSUME PoolInv, NEW o \in out, push(o) PROVE PoolInv'
<1>1. PICK i \in DOMAIN block_list_ : o \in Memory(block_list_[i])
  BY DEF PoolInv, OutIsAllocated
<1>2. /\ block_list_ \in Seq(Blocks) /\ out \subseteq Nat
      /\ Kept(block_list_[i], out)
  BY DEF PoolInv, TypeOK
<1>t. \A j \in DOMAIN block_list_ : block_list_[j]._begin \in Nat /\ block_list_[j]._end \in Nat
  BY DEF PoolInv, Kept, Blocks
<1>3. \A j \in DOMAIN block_list_ : valid(block_list_[j], o) <=> j = i
  <2> SUFFICES ASSUME NEW j \in DOMAIN block_list_
               PROVE  valid(block_list_[j], o) <=> j = i
    OBVIOUS
  <2>1. valid(block_list_[j], o) <=> o \in Memory(block_list_[j])
    BY <1>2, <1>t DEF valid, Memory
  <2>2. j # i => o \notin Memory(block_list_[j])
    BY <1>1 DEF PoolInv, BlocksApart
  <2> QED
    BY <2>1, <2>2, <1>1
<1>4. \A j \in DOMAIN block_list_ : IsHome(j, o) <=> j = i
  <2>1. DOMAIN block_list_ = 1 .. Len(block_list_) /\ Len(block_list_) \in Nat
    BY <1>2, LenProperties
  <2>2. \A j \in 1 .. i - 1 : j \in DOMAIN block_list_ /\ j # i
    BY <2>1
  <2> QED
    BY <1>3, <2>2 DEF IsHome
<1> DEFINE block == [block_list_[i] EXCEPT !.free = Append(@, o)]
<1>5. block_list_' = [block_list_ EXCEPT ![i] = block]
  BY <1>4 DEF push
<1>6. out' = out \ {o} /\ iter' = iter
  BY DEF push
<1>7. Kept(block, out') /\ Memory(block) = Memory(block_list_[i])
  BY <1>1, <1>2, <1>6, AppendKept
<1>8. \A x : x \notin Memory(block) => (x \in out' <=> x \in out)
  BY <1>1, <1>6, <1>7
<1> HIDE DEF block
<1> QED
  BY <1>5, <1>6, <1>7, <1>8, OneBlockChanges

(* A new block comes with its first object handed out.                      *)
LEMMA PopNewStep == ASSUME PoolInv, PopNew PROVE PoolInv'
<1>1. PICK b \in Bases :
        /\ IsFresh(b)
        /\ block_list_' = Append(block_list_, [NewBlock(b) EXCEPT !.free = Tail(@)])
        /\ out' = out \cup {b}
  BY DEF PopNew
<1> DEFINE block == [NewBlock(b) EXCEPT !.free = Tail(@)]
           n == Len(block_list_)
<1>2. /\ block_list_ \in Seq(Blocks) /\ out \subseteq Nat /\ iter \in Nat /\ iter' = iter
      /\ n \in Nat /\ DOMAIN block_list_ = 1 .. n
      /\ \A j \in DOMAIN block_list_ : Kept(block_list_[j], out)
  BY LenProperties DEF PoolInv, TypeOK, PopNew
<1>3. b \in Nat
  BY PoolAssumption
<1>4. /\ Kept(block, {b}) /\ Memory(block) = Memory(NewBlock(b)) /\ b \in Memory(block)
  <2>1. /\ Kept(NewBlock(b), {}) /\ NewBlock(b).free # <<>>
        /\ Head(NewBlock(b).free) = b /\ b \in Memory(NewBlock(b))
    BY <1>3, NewKept
  <2>2. /\ Kept(block, {} \cup {Head(NewBlock(b).free)})
        /\ Memory(block) = Memory(NewBlock(b))
    BY <2>1, TailKept
  <2>3. {} \cup {Head(NewBlock(b).free)} = {b}
    BY <2>1
  <2> HIDE DEF block
  <2> QED
    BY <2>1, <2>2, <2>3
<1> HIDE DEF block
<1>5. \A j \in DOMAIN block_list_ : Memory(block) \cap Memory(block_list_[j]) = {}
  BY <1>1, <1>4 DEF IsFresh
<1>6. block \in Blocks
  BY <1>4 DEF Kept
<1>7. /\ block_list_' \in Seq(Blocks) /\ DOMAIN block_list_' = (1 .. n) \cup {n + 1}
      /\ block_list_'[n + 1] = block
      /\ \A j \in 1 .. n : block_list_'[j] = block_list_[j]
  BY <1>1, <1>2, <1>6, AppendProperties, LenProperties DEF block
<1>8. Memory(block) \cap out = {}
  BY <1>5 DEF PoolInv, OutIsAllocated
<1>9. Kept(block, out')
  <2>1. Memory(block) \cap {b} = Memory(block) \cap out'
    BY <1>1, <1>8
  <2> QED
    BY <1>4, <2>1, OtherKept
<1>10. ASSUME NEW j \in 1 .. n PROVE Kept(block_list_[j], out')
  <2>1. Memory(block_list_[j]) \cap out = Memory(block_list_[j]) \cap out'
    BY <1>1, <1>2, <1>4, <1>5
  <2> QED
    BY <2>1, <1>2, OtherKept
<1>11. TypeOK'
  BY <1>1, <1>2, <1>3, <1>7 DEF TypeOK
<1>12. BlocksApart'
  <2>1. \A j, k \in 1 .. n : j # k => Memory(block_list_[j]) \cap Memory(block_list_[k]) = {}
    BY <1>2 DEF PoolInv, BlocksApart
  <2>2. \A j \in DOMAIN block_list_' :
          Memory(block_list_'[j]) = IF j = n + 1 THEN Memory(block) ELSE Memory(block_list_[j])
    BY <1>7
  <2> QED
    BY <2>1, <2>2, <1>2, <1>5, <1>7 DEF BlocksApart
<1>13. OutIsAllocated'
  <2> SUFFICES ASSUME NEW o \in out'
               PROVE  \E j \in DOMAIN block_list_' : o \in Memory(block_list_'[j])
    BY DEF OutIsAllocated
  <2>1. CASE o = b
    BY <2>1, <1>4, <1>7
  <2>2. CASE o \in out
    <3>1. PICK j \in 1 .. n : o \in Memory(block_list_[j])
      BY <2>2, <1>2 DEF PoolInv, OutIsAllocated
    <3> QED
      BY <3>1, <1>7
  <2> QED
    BY <2>1, <2>2, <1>1
<1> QED
  BY <1>7, <1>9, <1>10, <1>11, <1>12, <1>13 DEF PoolInv

(* A block goes that has all its objects, so nobody loses one he holds.     *)
LEMMA ShrinkFreeStep == ASSUME PoolInv, ShrinkFree PROVE PoolInv'
<1> DEFINE n == Len(block_list_)
           old(j) == IF j < iter THEN j ELSE j + 1
<1>1. /\ block_list_ \in Seq(Blocks) /\ out \subseteq Nat /\ iter \in Nat
      /\ n \in Nat /\ DOMAIN block_list_ = 1 .. n
      /\ \A j \in DOMAIN block_list_ : Kept(block_list_[j], out)
  BY LenProperties DEF PoolInv, TypeOK
<1>2. /\ iter \in 1 .. n /\ Len(block_list_[iter].free) = block_size_
      /\ block_list_' = RemoveAt(block_list_, iter) /\ UNCHANGED <<out, iter>>
  BY <1>1 DEF ShrinkFree, Unused
<1>3. /\ block_list_' \in Seq(Blocks) /\ DOMAIN block_list_' = 1 .. n - 1
      /\ \A j \in 1 .. n - 1 : block_list_'[j] = block_list_[old(j)]
  BY <1>1, <1>2, Removed, LenProperties
<1>4. /\ \A j \in 1 .. n - 1 : old(j) \in 1 .. n /\ old(j) # iter
      /\ \A j, k \in 1 .. n - 1 : j # k => old(j) # old(k)
      /\ \A k \in 1 .. n : k # iter => \E j \in 1 .. n - 1 : old(j) = k
  <2>1. \A k \in 1 .. n : k < iter => k \in 1 .. n - 1 /\ old(k) = k
    BY <1>1, <1>2
  <2>2. \A k \in 1 .. n : k > iter => k - 1 \in 1 .. n - 1 /\ old(k - 1) = k
    BY <1>1, <1>2
  <2>3. \A k \in 1 .. n : k # iter => k < iter \/ k > iter
    BY <1>1, <1>2
  <2>4. \A j \in 1 .. n - 1 : old(j) \in 1 .. n /\ old(j) # iter
    BY <1>1, <1>2
  <2>5. \A j, k \in 1 .. n - 1 : j # k => old(j) # old(k)
    BY <1>1, <1>2
  <2> HIDE DEF old
  <2> QED
    BY <2>1, <2>2, <2>3, <2>4, <2>5
<1> HIDE DEF old
<1>5. Memory(block_list_[iter]) \cap out = {}
  BY <1>1, <1>2, UnusedIsFree
<1>6. TypeOK'
  BY <1>1, <1>2, <1>3 DEF TypeOK
<1>7. BlocksApart'
  <2>1. \A j, k \in 1 .. n : j # k => Memory(block_list_[j]) \cap Memory(block_list_[k]) = {}
    BY <1>1 DEF PoolInv, BlocksApart
  <2> SUFFICES ASSUME NEW j \in 1 .. n - 1, NEW k \in 1 .. n - 1, j # k
               PROVE  Memory(block_list_'[j]) \cap Memory(block_list_'[k]) = {}
    BY <1>3 DEF BlocksApart
  <2>2. old(j) \in 1 .. n /\ old(k) \in 1 .. n /\ old(j) # old(k)
    BY <1>4
  <2> QED
    BY <2>1, <2>2, <1>3
<1>8. OutIsAllocated'
  <2> SUFFICES ASSUME NEW o \in out
               PROVE  \E j \in 1 .. n - 1 : o \in Memory(block_list_'[j])
    BY <1>2, <1>3 DEF OutIsAllocated
  <2>1. PICK k \in 1 .. n : o \in Memory(block_list_[k])
    BY <1>1 DEF PoolInv, OutIsAllocated
  <2>2. k # iter
    BY <2>1, <1>5
  <2>3. PICK j \in 1 .. n - 1 : old(j) = k
    BY <2>2, <1>4
  <2> QED
    BY <2>1, <2>3, <1>3
<1>9. \A j \in 1 .. n - 1 : Kept(block_list_'[j], out')
  BY <1>1, <1>2, <1>3, <1>4
<1> QED
  BY <1>3, <1>6, <1>7, <1>8, <1>9 DEF PoolInv

-----------------------------------------------------------------------------
(* The invariant holds, for any size and number of blocks.                  *)
THEOREM PoolCorrect == Spec => []PoolInv
<1>1. Init => PoolInv
  <2> SUFFICES ASSUME NEW b \in Bases, block_list_ = <<NewBlock(b)>>, out = {}, iter = 0
               PROVE  PoolInv
    BY DEF Init
  <2>1. Kept(NewBlock(b), {})
    BY PoolAssumption, NewKept
  <2>2. NewBlock(b) \in Blocks
    BY <2>1 DEF Kept
  <2>3. DOMAIN block_list_ = {1} /\ block_list_[1] = NewBlock(b) /\ block_list_ \in Seq(Blocks)
    BY <2>2
  <2> QED
    BY <2>1, <2>3 DEF PoolInv, TypeOK, BlocksApart, OutIsAllocated
<1>2. PoolInv /\ [Next]_vars => PoolInv'
  <2> SUFFICES ASSUME PoolInv, [Next]_vars PROVE PoolInv'
    OBVIOUS
  <2>1. CASE pop
    BY <2>1, PopFreeStep, PopNewStep DEF pop
  <2>2. ASSUME NEW o \in out, push(o) PROVE PoolInv'
    BY <2>2, PushStep
  <2>3. CASE ShrinkFree
    BY <2>3, ShrinkFreeStep
  <2>4. CASE ShrinkBegin \/ ShrinkEnd \/ ShrinkStay \/ UNCHANGED vars
    <3>1. UNCHANGED <<block_list_, out>> /\ iter' \in {0, 1, iter}
      BY <2>4 DEF ShrinkBegin, ShrinkEnd, ShrinkStay, vars
    <3> QED
      BY <3>1 DEF PoolInv, TypeOK, BlocksApart, OutIsAllocated
  <2>5. CASE free_all
    <3>1. block_list_' = <<>> /\ out' = {} /\ iter' = iter
      BY <2>5 DEF free_all
    <3>2. block_list_' \in Seq(Blocks) /\ DOMAIN block_list_' = {}
      BY <3>1
    <3> QED
      BY <3>1, <3>2 DEF PoolInv, TypeOK, BlocksApart, OutIsAllocated
  <2> QED
    BY <2>1, <2>2, <2>3, <2>4, <2>5 DEF Next, shrink
<1> QED
  BY <1>1, <1>2, PTL DEF Spec

(* No two users get the same object.                                        *)
THEOREM ObjectsDistinct == Spec => []NoObjectTwice
<1>1. PoolInv => NoObjectTwice
  BY DEF PoolInv, Kept, NoObjectTwice
<1> QED
  BY <1>1, PoolCorrect, PTL

(* No memory is freed, and no block forgotten, that a user holds part of.   *)
THEOREM OutStaysAllocated == Spec => []OutIsAllocated
<1>1. PoolInv => OutIsAllocated
  BY DEF PoolInv
<1> QED
  BY <1>1, PoolCorrect, PTL

(* What is given back can be had again.                                     *)
THEOREM ObjectsReturn == Spec => []NothingLost
<1>1. PoolInv => NothingLost
  BY DEF PoolInv, Kept, NothingLost
<1> QED
  BY <1>1, PoolCorrect, PTL
=============================================================================
