-------------------------- MODULE MCTaskScheduler --------------------------
(* Instances of TaskScheduler.  The table has an application task, the      *)
(* timer task and the terminal task, an empty slot and, as mcu_sal_task.c   *)
(* allows, a registration that finds its slot taken and one beyond the      *)
(* table.                                                                   *)
EXTENDS TaskScheduler

CONSTANTS terminal, timer, app

MCBootTasks ==
  <<[id |-> app, pri |-> 0], [id |-> timer, pri |-> 0], [id |-> timer, pri |-> 4],
    [id |-> terminal, pri |-> 3], [id |-> timer, pri |-> 2]>>

\* This build: only the UART handler posts a task, the terminal's.
UartOnly == [l \in Levels |-> {terminal}]
============================================================================
