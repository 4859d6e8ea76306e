---------------------------- MODULE MCThreadPool ----------------------------
(* A TLC instance of ThreadPool: tasks come alone and in lists of two.       *)
EXTENDS ThreadPool

CONSTANTS t1, t2, t3
SomeTasks == {t1, t2, t3}
OneOrTwo == {<<t1>>, <<t2, t3>>}
=============================================================================
