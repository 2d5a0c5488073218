--------------------------- MODULE MCTaskManager ---------------------------
(* The two tasks of the kernel, in a VecDeque that has grown to four slots. *)
EXTENDS TaskManager

MCTasks == <<"main", "taskB">>
=============================================================================
