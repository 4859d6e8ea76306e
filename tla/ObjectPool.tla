----------------------------- MODULE ObjectPool -----------------------------
(***************************************************************************)
(* ObjectPool<T>: objects are cut from blocks of block_size_, handed out   *)
(* by pop and taken back by push, which finds the block an object belongs  *)
(* to by its address.  shrink gives unused blocks back to malloc, free_all *)
(* gives back all of them.                                                 *)
(*                                                                         *)
(* An object takes one address.  pop, push and shrink hold block_mutex_    *)
(* from their first look at block_list_ to their end, so only shrink,      *)
(* whose loop need not end, is more than one step.                         *)
(*                                                                         *)
(* A definition that only a "mutants" entry of PROJECT.json uses is a      *)
(* wrong version of the one after it, kept to show that a property         *)
(* notices.                                                                *)
(***************************************************************************)
EXTENDS Integers, FiniteSets, SequencesExt

CONSTANTS
  block_size_,  \* objects in a block
  Bases,        \* addresses malloc may return
  MaxBlocks     \* bound: blocks at a time

ASSUME PoolAssumption == block_size_ \in Nat \ {0} /\ Bases \subseteq Nat

VARIABLES
  block_list_,  \* blocks in the order they were made, each with its free objects
  out,          \* the objects users hold
  iter          \* where shrink's iterator stands, 0 when nobody is in shrink

vars == <<block_list_, out, iter>>

-----------------------------------------------------------------------------
(* make_new_block: malloc returns memory that overlaps no live block.       *)
NewBlock(b) ==
  [_begin |-> b, _end |-> b + block_size_ - 1,
   free |-> [i \in 1 .. block_size_ |-> b + i - 1]]

Memory(block) == block._begin .. block._end

IsFresh(b) ==
  \A i \in DOMAIN block_list_ : Memory(NewBlock(b)) \cap Memory(block_list_[i]) = {}

ValidShort(block, o) == block._begin <= o /\ o < block._end
ValidBeyond(block, o) == block._begin <= o /\ o <= block._end + 1
valid(block, o) == block._begin <= o /\ o <= block._end

Init ==
  /\ \E b \in Bases : block_list_ = <<NewBlock(b)>>
  /\ out = {} /\ iter = 0

-----------------------------------------------------------------------------
(* pop: the first block with a free object, else a new one.                 *)

PopFree ==
  /\ iter = 0
  /\ \E i \in DOMAIN block_list_ :
       /\ block_list_[i].free # <<>>
       /\ \A j \in 1 .. i - 1 : block_list_[j].free = <<>>
       /\ out' = out \cup {Head(block_list_[i].free)}
       /\ block_list_' = [block_list_ EXCEPT ![i].free = Tail(@)]
  /\ UNCHANGED iter

PopNew ==
  /\ iter = 0 /\ Len(block_list_) < MaxBlocks
  /\ \A i \in DOMAIN block_list_ : block_list_[i].free = <<>>
  /\ \E b \in Bases :
       /\ IsFresh(b)
       /\ block_list_' = Append(block_list_, [NewBlock(b) EXCEPT !.free = Tail(@)])
       /\ out' = out \cup {b}
  /\ UNCHANGED iter

pop == PopFree \/ PopNew

(* push: the object goes to the end of the first block it is valid in.  One *)
(* that is in no block is logged and forgotten.                             *)
IsHome(i, o) ==
  /\ valid(block_list_[i], o)
  /\ \A j \in 1 .. i - 1 : ~valid(block_list_[j], o)

push(o) ==
  /\ iter = 0 /\ o \in out
  /\ block_list_' = [i \in DOMAIN block_list_ |->
                      IF IsHome(i, o)
                      THEN [block_list_[i] EXCEPT !.free = Append(@, o)]
                      ELSE block_list_[i]]
  /\ out' = out \ {o}
  /\ UNCHANGED iter

-----------------------------------------------------------------------------
(* shrink *)

ShrinkBegin ==
  /\ iter = 0
  /\ iter' = 1
  /\ UNCHANGED <<block_list_, out>>

ShrinkEnd ==
  /\ iter # 0
  /\ iter > Len(block_list_) \/ Len(block_list_) = 1
  /\ iter' = 0
  /\ UNCHANGED <<block_list_, out>>

UnusedOrNearly(i) == Len(block_list_[i].free) + 1 >= block_size_
Unused(i) == Len(block_list_[i].free) = block_size_

(* erase(iter++) leaves the iterator at the block after the erased one.     *)
ShrinkFree ==
  /\ iter \in DOMAIN block_list_ /\ Len(block_list_) # 1
  /\ Unused(iter)
  /\ block_list_' = RemoveAt(block_list_, iter)
  /\ UNCHANGED <<out, iter>>

(* A block that is in use leaves the iterator where it is.                  *)
ShrinkStay ==
  /\ iter \in DOMAIN block_list_ /\ Len(block_list_) # 1
  /\ ~Unused(iter)
  /\ UNCHANGED vars

shrink == ShrinkEnd \/ ShrinkFree \/ ShrinkStay

(* free_all does not take the mutex.  Those who call it, a destructor and   *)
(* TcpManager::stop, are alone then and forget the objects they still hold. *)
free_all ==
  /\ iter = 0
  /\ block_list_' = <<>>
  /\ out' = {}
  /\ UNCHANGED iter

Next ==
  \/ pop \/ ShrinkBegin \/ shrink \/ free_all
  \/ \E o \in out : push(o)

Spec == Init /\ [][Next]_vars

(* Whoever is in shrink goes on. *)
FairSpec == Spec /\ WF_vars(shrink)

-----------------------------------------------------------------------------
(* Properties *)

Blocks == [_begin : Nat, _end : Nat, free : Seq(Nat)]

(* Blocks are ranges of addresses with lists of addresses.                  *)
TypeOK == block_list_ \in Seq(Blocks) /\ out \subseteq Nat /\ iter \in Nat

(* An object is on the list of its own block, once, and not while a user    *)
(* holds it: no two users get the same object.                              *)
NoObjectTwice ==
  \A i \in DOMAIN block_list_ :
    LET free == block_list_[i].free IN
      /\ IsInjective(free)
      /\ ToSet(free) \subseteq Memory(block_list_[i]) \ out

(* The blocks do not overlap: an address is valid in one of them at most.   *)
BlocksApart ==
  \A i, j \in DOMAIN block_list_ :
    i # j => Memory(block_list_[i]) \cap Memory(block_list_[j]) = {}

(* What users hold lies in live blocks: shrink, which only counts a block's *)
(* free objects, frees no memory that is in use, and push finds a block for *)
(* every object it is given.                                                *)
OutIsAllocated ==
  \A o \in out : \E i \in DOMAIN block_list_ : o \in Memory(block_list_[i])

(* No object is lost: what nobody holds can be handed out again.            *)
NothingLost ==
  \A i \in DOMAIN block_list_ :
    Memory(block_list_[i]) \subseteq out \cup ToSet(block_list_[i].free)

(* shrink returns: ObjectPool.h logs the size it has left behind.           *)
ShrinkReturns == (iter # 0) ~> (iter = 0)
=============================================================================
