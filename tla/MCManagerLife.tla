--------------------------- MODULE MCManagerLife ----------------------------
(* A TLC instance of ManagerLife: a tick brings one task or none.            *)
EXTENDS ManagerLife

CONSTANT t1
OneTask == {t1}
OneAtATime == {<<t1>>}
=============================================================================
