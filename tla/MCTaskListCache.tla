-------------------------- MODULE MCTaskListCache --------------------------
(* TaskListCache on a small instance.                                      *)
EXTENDS TaskListCache
=============================================================================
