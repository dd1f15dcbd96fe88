------------------------------ MODULE MCTasks ------------------------------
(* Values of Tasks' constants that a configuration cannot write itself.    *)
EXTENDS Tasks

\* Below, inside and above the range set_task_priority clamps to.
MCPriorities == {-1, 0, 2}
=============================================================================
