----------------------------- MODULE MCTcpCore -----------------------------
(* TLC instances of TcpCore: the scripts a peer sends, and the threads and  *)
(* connections that may change places.                                      *)
EXTENDS TcpCore, TLC

ScriptNone == <<>>
ScriptThree == <<"last", "part", "last", "last">>
ScriptBad == <<"last", "bad">>

Symmetry == Permutations(Workers) \cup Permutations(Loops) \cup Permutations(Users)
SymmetryConns == Symmetry \cup Permutations(Conns)
=============================================================================
