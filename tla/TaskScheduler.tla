--------------------------- MODULE TaskScheduler ---------------------------
(***************************************************************************)
(* The cooperative scheduler of mcu_sal_task.c.  The main loop polls every *)
(* registered task in priority order, forever; interrupt handlers queue    *)
(* the id of a task that should run before the next polled one.            *)
(*                                                                         *)
(* The main loop moves only while no interrupt handler is active, and a    *)
(* handler is preempted only by one of a higher level, as on the 8051.     *)
(* ENTER_CRITICAL .. EXIT_CRITICAL blocks are single steps.                *)
(***************************************************************************)
EXTENDS Naturals, Sequences, FiniteSets

CONSTANTS
  TASK_NUM,   \* slots of the task table and of the fast queue
  TaskIds,    \* the ids of tasks (TASK_ID without TASK_ID_INVALID)
  INVALID,    \* TASK_ID_INVALID, and the NULL of the task table
  BootTasks,  \* the registrations main() makes, in order: [id, pri]
  Levels,     \* interrupt priority levels whose handlers post tasks
  PostedBy,   \* PostedBy[l]: the ids the handlers of level l post
  MaxWork     \* bound: events one task can have outstanding

ASSUME SchedulerAssumption ==
  /\ TASK_NUM \in 1..255
  /\ INVALID \notin TaskIds
  /\ BootTasks \in Seq([id : TaskIds, pri : Nat])
  /\ Levels \subseteq Nat
  /\ PostedBy \in [Levels -> SUBSET TaskIds]
  /\ MaxWork \in Nat

VARIABLES
  tasks,      \* tasks[p]: the id of the task registered at priority p, or INVALID
  task_num,   \* registered tasks
  num,        \* fast_task.num
  id,         \* fast_task.id
  pc,         \* where the main loop is
  boot,       \* main's next registration
  i, j,       \* task_run's loop counters
  cur,        \* the queued id task_run is handling
  hpc,        \* hpc[l]: where the handler of level l is in task_fast_handle
  hid,        \* hid[l]: the id it posts
  hk,         \* hk[l]: its loop counter
  work,       \* work[t]: events stored for task t that its function has not read
  overtaken   \* history: polled tasks started while an entry of t sat in id

table == <<tasks, task_num>>
queue == <<num, id>>
loop == <<pc, boot, i, j, cur>>
handler == <<hpc, hid, hk>>
vars == <<table, queue, loop, handler, work, overtaken>>

Slot == 0 .. TASK_NUM - 1
Byte == 0 .. 255

\* uint8_t ++ and --.
ByteInc(b) == IF b = 255 THEN 0 ELSE b + 1
ByteDec(b) == IF b = 0 THEN 255 ELSE b - 1

Init ==
  /\ tasks = [p \in Slot |-> INVALID] /\ task_num = 0
  /\ num = 0 /\ id = [k \in Slot |-> INVALID]
  /\ pc = "boot" /\ boot = 1 /\ i = 0 /\ j = 0 /\ cur = INVALID
  /\ hpc = [l \in Levels |-> "idle"]
  /\ hid = [l \in Levels |-> INVALID]
  /\ hk = [l \in Levels |-> 0]
  /\ work = [t \in TaskIds |-> 0]
  /\ overtaken = [t \in TaskIds |-> 0]

----------------------------------------------------------------------------
(* The main loop.                                                          *)

MainRuns == \A l \in Levels : hpc[l] = "idle"

\* The slot of a registered task is free.
Accepts(task) ==
  /\ task.pri < TASK_NUM
  /\ tasks[task.pri] = INVALID
  /\ task_num < TASK_NUM

TaskAdd ==
  /\ MainRuns /\ pc = "boot" /\ boot <= Len(BootTasks)
  /\ Accepts(BootTasks[boot])
  /\ tasks' = [tasks EXCEPT ![BootTasks[boot].pri] = BootTasks[boot].id]
  /\ task_num' = task_num + 1
  /\ boot' = boot + 1
  /\ UNCHANGED <<queue, pc, i, j, cur, handler, work, overtaken>>

TaskAddFails ==
  /\ MainRuns /\ pc = "boot" /\ boot <= Len(BootTasks)
  /\ ~ Accepts(BootTasks[boot])
  /\ boot' = boot + 1
  /\ UNCHANGED <<table, queue, pc, i, j, cur, handler, work, overtaken>>

EnterLoop ==
  /\ MainRuns /\ pc = "boot" /\ boot > Len(BootTasks)
  /\ pc' = "fast"
  /\ UNCHANGED <<table, queue, boot, i, j, cur, handler, work, overtaken>>

\* The task's function reads (at most) one of its events.
Serve(t) == work' = [work EXCEPT ![t] = IF @ = 0 THEN 0 ELSE @ - 1]

Registered(t) == t # INVALID /\ \E p \in Slot : tasks[p] = t

\* Fault: the loop condition is j <= num.
FastTakeOffByOne ==
  /\ MainRuns /\ pc = "fast" /\ j <= num
  /\ cur' = id[j]
  /\ pc' = IF Registered(id[j]) THEN "call" ELSE "remove"
  /\ UNCHANGED <<table, queue, boot, i, j, handler, work, overtaken>>

\* The inner loop of task_run looks at entry j.
FastTake ==
  /\ MainRuns /\ pc = "fast" /\ j < num
  /\ cur' = id[j]
  /\ pc' = IF Registered(id[j]) THEN "call" ELSE "remove"
  /\ UNCHANGED <<table, queue, boot, i, j, handler, work, overtaken>>

FastCall ==
  /\ MainRuns /\ pc = "call"
  /\ Serve(cur)
  /\ pc' = "remove"
  /\ UNCHANGED <<table, queue, boot, i, j, cur, handler, overtaken>>

\* Fault: the entry is counted off and stays in the array.
FastRemoveKeepsEntry ==
  /\ MainRuns /\ pc = "remove"
  /\ num' = ByteDec(num)
  /\ pc' = "fast" /\ j' = j + 1 /\ cur' = INVALID
  /\ overtaken' = [t \in TaskIds |-> IF t = cur THEN 0 ELSE overtaken[t]]
  /\ UNCHANGED <<table, id, boot, i, handler, work>>

FastRemove ==
  /\ MainRuns /\ pc = "remove"
  /\ num' = ByteDec(num)
  /\ id' = [id EXCEPT ![j] = INVALID]
  /\ pc' = "fast" /\ j' = j + 1 /\ cur' = INVALID
  /\ overtaken' = [t \in TaskIds |-> IF t = cur THEN 0 ELSE overtaken[t]]
  /\ UNCHANGED <<table, boot, i, handler, work>>

FastDone ==
  /\ MainRuns /\ pc = "fast" /\ j >= num
  /\ pc' = "slot"
  /\ UNCHANGED <<table, queue, boot, i, j, cur, handler, work, overtaken>>

\* Faults: j is not reset; the last slot is skipped; i runs past the table.
NextSlotKeepsJ == i' = (i + 1) % TASK_NUM /\ pc' = "fast" /\ UNCHANGED j
NextSlotSkipsLast == i' = (i + 1) % (TASK_NUM - 1) /\ j' = 0 /\ pc' = "fast"
NextSlotRunsOver == i' = i + 1 /\ j' = 0 /\ pc' = "fast"

\* The next iteration of the outer loop; after the last, main() calls task_run again.
NextSlot == i' = (i + 1) % TASK_NUM /\ j' = 0 /\ pc' = "fast"

\* An entry of t is stored in the queue's array.
Queued(t) == \E k \in Slot : id[k] = t

Overtake ==
  overtaken' = [t \in TaskIds |-> IF Queued(t) /\ overtaken[t] < 2
                                  THEN overtaken[t] + 1 ELSE overtaken[t]]

PollTask ==
  /\ MainRuns /\ pc = "slot" /\ tasks[i] # INVALID
  /\ Serve(tasks[i])
  /\ Overtake
  /\ NextSlot
  /\ UNCHANGED <<table, queue, boot, cur, handler>>

PollEmpty ==
  /\ MainRuns /\ pc = "slot" /\ tasks[i] = INVALID
  /\ NextSlot
  /\ UNCHANGED <<table, queue, boot, cur, handler, work, overtaken>>

Main ==
  \/ TaskAdd \/ TaskAddFails \/ EnterLoop
  \/ FastTake \/ FastCall \/ FastRemove \/ FastDone
  \/ PollTask \/ PollEmpty

----------------------------------------------------------------------------
(* task_fast_handle, called by a handler that has stored an event.         *)

CanInterrupt(l) == \A m \in Levels : m >= l => hpc[m] = "idle"

\* The handler of level l is the one the processor executes.
IsrRuns(l) == \A m \in Levels : m > l => hpc[m] = "idle"

Interrupt(l, t) ==
  /\ CanInterrupt(l)
  /\ work[t] < MaxWork
  /\ work' = [work EXCEPT ![t] = @ + 1]
  /\ IF task_num = 0
     THEN UNCHANGED handler
     ELSE /\ hpc' = [hpc EXCEPT ![l] = "scan"]
          /\ hid' = [hid EXCEPT ![l] = t]
          /\ hk' = [hk EXCEPT ![l] = 0]
  /\ UNCHANGED <<table, queue, loop, overtaken>>

\* One iteration of the search for the id, or its end.
Scan(l) ==
  /\ IsrRuns(l) /\ hpc[l] = "scan"
  /\ IF hk[l] < num
     THEN IF id[hk[l]] = hid[l]
          THEN hpc' = [hpc EXCEPT ![l] = "idle"] /\ UNCHANGED hk
          ELSE hk' = [hk EXCEPT ![l] = @ + 1] /\ UNCHANGED hpc
     ELSE hpc' = [hpc EXCEPT ![l] = "check"] /\ UNCHANGED hk
  /\ UNCHANGED <<table, queue, loop, hid, work, overtaken>>

Check(l) ==
  /\ IsrRuns(l) /\ hpc[l] = "check"
  /\ hpc' = [hpc EXCEPT ![l] = IF num < task_num /\ id[num] = INVALID
                               THEN "store" ELSE "idle"]
  /\ UNCHANGED <<table, queue, loop, hid, hk, work, overtaken>>

Store(l) ==
  /\ IsrRuns(l) /\ hpc[l] = "store"
  /\ id' = [id EXCEPT ![num] = hid[l]]
  /\ num' = ByteInc(num)
  /\ hpc' = [hpc EXCEPT ![l] = "idle"]
  /\ UNCHANGED <<table, loop, hid, hk, work, overtaken>>

Isr(l) == Scan(l) \/ Check(l) \/ Store(l)

----------------------------------------------------------------------------
Next ==
  \/ Main
  \/ \E l \in Levels : Isr(l)
  \/ \E l \in Levels : \E t \in PostedBy[l] : Interrupt(l, t)

Spec == Init /\ [][Next]_vars

\* A handler runs to its end.  Handlers are shorter than the time between the
\* events that trigger them, so the main loop is never held up for ever.
FairSpec ==
  /\ Spec
  /\ \A l \in Levels : WF_vars(Isr(l))
  /\ SF_vars(Main)

----------------------------------------------------------------------------
(* Properties.                                                             *)

TypeOK ==
  /\ tasks \in [Slot -> TaskIds \cup {INVALID}]
  /\ task_num \in 0..TASK_NUM
  /\ num \in Byte
  /\ id \in [Slot -> TaskIds \cup {INVALID}]
  /\ pc \in {"boot", "fast", "call", "remove", "slot"}
  /\ boot \in Nat \ {0} /\ i \in Slot /\ j \in Nat
  /\ cur \in TaskIds \cup {INVALID}
  /\ hpc \in [Levels -> {"idle", "scan", "check", "store"}]
  /\ hid \in [Levels -> TaskIds \cup {INVALID}]
  /\ hk \in [Levels -> Nat]
  /\ work \in [TaskIds -> Nat]
  /\ overtaken \in [TaskIds -> 0..2]

\* fast_task.num counts exactly the stored entries and they fill the array
\* from its start: no entry is beyond the reach of task_run's inner loop, and
\* none occupies a place that task_fast_handle needs free (task.c:89, 125).
FastQueueShape ==
  \A k \in Slot : id[k] # INVALID <=> k < num

\* What task_run removes is the entry it has just run: no handler has replaced
\* it while the task's function was running (task.c:127-136).
RemovesWhatItRan ==
  pc \in {"call", "remove"} => j < num /\ id[j] = cur

\* A posted task waits for at most one polled task: the one that was running,
\* or was about to start, when the handler posted it (task.c:59-62).
FastResponse == \A t \in TaskIds : overtaken[t] <= 1

\* A registered task whose handlers keep finding work for it keeps reading that
\* work, also when a post is dropped because the id is still queued while its
\* function has already run (task.c:82-85): the task is polled anyway.
EventsServed ==
  \A t \in TaskIds :
    []<>(work[t] > 0 /\ Registered(t)) => []<><<work'[t] < work[t]>>_work

============================================================================
