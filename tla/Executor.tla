------------------------------ MODULE Executor ------------------------------
(***************************************************************************)
(* What a queue of functions promises to those who post to it: functions   *)
(* are started in the order they were posted, each once, and, unless the   *)
(* queue is one that is emptied when it stops, none is dropped.            *)
(* TaskThread, ThreadPool and LogThread implement it.                      *)
(***************************************************************************)
EXTENDS Naturals, Sequences

CONSTANT
  Discards      \* whether stopping drops what has not been started

VARIABLES
  pending,      \* posted and not started, oldest first
  started       \* the function started last, <<>> before the first

vars == <<pending, started>>

Init == pending = <<>> /\ started = <<>>

(* One function or several at once go behind those already waiting. *)
Post ==
  /\ \E fs \in {SubSeq(pending', Len(pending) + 1, Len(pending'))} :
       fs # <<>> /\ pending' = pending \o fs
  /\ UNCHANGED started

Start ==
  /\ pending # <<>>
  /\ started' = <<Head(pending)>>
  /\ pending' = Tail(pending)

Discard == Discards /\ pending' = <<>> /\ UNCHANGED started

Next == Post \/ Start \/ Discard
Spec == Init /\ [][Next]_vars
=============================================================================
