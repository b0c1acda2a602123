------------------------ MODULE TaskSchedulerProofs ------------------------
(***************************************************************************)
(* Proofs about TaskScheduler, for every size of the table, every list of  *)
(* registrations and every bound on outstanding events.                    *)
(***************************************************************************)
EXTENDS TaskScheduler, SequenceTheorems, TLAPS

\* The handlers that post tasks cannot preempt one another.
OneLevel == \E l \in Levels : Levels = {l}

\* They all post the same task, as in this build, where only the UART handler
\* calls task_fast_handle.
OneSource == OneLevel /\ \E t \in TaskIds : \A l \in Levels : PostedBy[l] = {t}

----------------------------------------------------------------------------
(* With one level, whatever it posts.                                      *)

\* What a handler has checked still holds when it stores, and the entry the
\* main loop runs stays where it is.
LevelInv ==
  /\ TypeOK
  /\ num <= task_num
  /\ \A l \in Levels : hpc[l] = "store" => num < task_num
  /\ RemovesWhatItRan

\* Reading an event leaves the counts of events natural numbers.
LEMMA ServeType ==
  ASSUME NEW t, work \in [TaskIds -> Nat], Serve(t)
  PROVE  work' \in [TaskIds -> Nat]
<1>1. CASE t \in TaskIds
  BY <1>1 DEF Serve
<1>2. CASE t \notin TaskIds
  BY <1>2, Zenon DEF Serve
<1>3. QED
  BY <1>1, <1>2

LEMMA LevelInit == Init => LevelInv
  BY SchedulerAssumption
  DEF Init, LevelInv, TypeOK, RemovesWhatItRan, Slot, Byte

\* A step of the main loop preserves the invariant.
LEMMA LevelMain == LevelInv /\ Main => LevelInv'
<1> SUFFICES ASSUME LevelInv, Main PROVE LevelInv'
  OBVIOUS
<1> USE SchedulerAssumption DEF LevelInv, TypeOK, RemovesWhatItRan, Slot, Byte
<1> USE DEF queue, handler, table
<1>1. CASE TaskAdd
  <2>0. boot \in 1 .. Len(BootTasks)
    BY <1>1, LenProperties DEF TaskAdd
  <2>1. BootTasks[boot] \in [id : TaskIds, pri : Nat]
    BY <2>0, ElementOfSeq
  <2>2. BootTasks[boot].pri \in Slot /\ task_num < TASK_NUM
    BY <1>1, <2>1 DEF TaskAdd, Accepts
  <2>3. tasks' \in [Slot -> TaskIds \cup {INVALID}]
    BY <1>1, <2>1, <2>2 DEF TaskAdd
  <2>4. task_num' \in 0..TASK_NUM /\ task_num' > task_num
    BY <1>1, <2>2 DEF TaskAdd
  <2>5. QED
    BY <1>1, <2>3, <2>4 DEF TaskAdd
<1>2. CASE TaskAddFails
  BY <1>2 DEF TaskAddFails
<1>2a. CASE EnterLoop
  BY <1>2a DEF EnterLoop
<1>2b. CASE FastDone
  BY <1>2b DEF FastDone
<1>3. CASE FastTake
  <2>1. id[j] \in TaskIds \cup {INVALID}
    BY <1>3 DEF FastTake
  <2>2. cur' \in TaskIds \cup {INVALID} /\ pc' \in {"call", "remove"}
    BY <1>3, <2>1 DEF FastTake
  <2>3. QED
    BY <1>3, <2>2 DEF FastTake
<1>4. CASE FastCall
  <2>1. work' \in [TaskIds -> Nat]
    BY <1>4, ServeType DEF FastCall
  <2>2. QED
    BY <1>4, <2>1 DEF FastCall
<1>5. CASE FastRemove
  <2>1. num' = num - 1 /\ j \in Slot
    BY <1>5 DEF FastRemove, ByteDec
  <2>2. QED
    BY <1>5, <2>1 DEF FastRemove
<1>6. CASE PollTask
  BY <1>6 DEF PollTask, Overtake, Serve, NextSlot
<1>7. CASE PollEmpty
  BY <1>7 DEF PollEmpty, NextSlot
<1>8. QED
  BY <1>1, <1>2, <1>2a, <1>2b, <1>3, <1>4, <1>5, <1>6, <1>7 DEF Main

\* A step of a handler preserves the invariant when no other handler can have
\* stored an entry between its check and its store.
LEMMA LevelIsr ==
  ASSUME OneLevel, LevelInv, NEW l \in Levels,
         Isr(l) \/ \E t \in PostedBy[l] : Interrupt(l, t)
  PROVE  LevelInv'
<1> USE SchedulerAssumption DEF LevelInv, TypeOK, RemovesWhatItRan, Slot, Byte
<1> USE DEF queue, handler, table, loop
<1>0. Levels = {l}
  BY DEF OneLevel
<1>1. CASE Scan(l)
  BY <1>0, <1>1 DEF Scan
<1>2. CASE Check(l)
  BY <1>0, <1>2 DEF Check
<1>3. CASE Store(l)
  <2>1. num' = num + 1 /\ num \in Slot /\ num < task_num
    BY <1>3 DEF Store, ByteInc
  <2>2. QED
    BY <1>0, <1>3, <2>1 DEF Store
<1>4. ASSUME NEW t \in PostedBy[l], Interrupt(l, t) PROVE LevelInv'
  BY <1>0, <1>4 DEF Interrupt
<1>5. QED
  BY <1>1, <1>2, <1>3, <1>4 DEF Isr

LEMMA LevelInductive == ASSUME OneLevel PROVE Spec => []LevelInv
<1>1. LevelInv /\ UNCHANGED vars => LevelInv'
  BY DEF vars, table, queue, loop, handler, LevelInv, TypeOK, RemovesWhatItRan
<1>2. LevelInv /\ [Next]_vars => LevelInv'
  BY <1>1, LevelMain, LevelIsr DEF Next
<1>3. QED
  BY <1>2, LevelInit, PTL DEF Spec

\* Every variable keeps its type: no index leaves the task table or the queue's
\* array (task.c:13-37, 69-97, 117-145).
THEOREM TypeCorrect == ASSUME OneLevel PROVE Spec => []TypeOK
<1>1. LevelInv => TypeOK
  BY DEF LevelInv
<1>2. QED
  BY <1>1, LevelInductive, PTL

\* task_run removes the entry it has run, whatever handlers post meanwhile
\* (task.c:127-136).
THEOREM RemovalCorrect == ASSUME OneLevel PROVE Spec => []RemovesWhatItRan
<1>1. LevelInv => RemovesWhatItRan
  BY DEF LevelInv
<1>2. QED
  BY <1>1, LevelInductive, PTL

----------------------------------------------------------------------------
(* With one source: the handlers of level l post the task t.               *)

\* The queue holds t once or not at all; a handler that has found it absent
\* still finds it absent when it stores; t is overtaken only while it is the
\* next entry that task_run's inner loop looks at.
SourceInv(t) ==
  /\ LevelInv
  /\ FastQueueShape
  /\ num <= 1
  /\ \A k \in Slot : id[k] \in {INVALID, t}
  /\ \A l \in Levels :
       /\ hpc[l] # "idle" => hid[l] = t
       /\ hpc[l] = "scan" => hk[l] = 0
       /\ hpc[l] \in {"check", "store"} => num = 0
  /\ \A u \in TaskIds : overtaken[u] # 0 => u = t
  /\ overtaken[t] <= 1
  /\ overtaken[t] = 1 => num = 1 /\ j = 0 /\ pc \in {"fast", "call", "remove"}

LEMMA SourceInit ==
  ASSUME NEW t \in TaskIds, Init PROVE SourceInv(t)
<1>1. LevelInv
  BY LevelInit
<1>2. QED
  BY <1>1, SchedulerAssumption DEF Init, SourceInv, FastQueueShape, Slot

LEMMA SourceMain ==
  ASSUME OneLevel, NEW t \in TaskIds, SourceInv(t), Main PROVE SourceInv(t)'
<1> USE SchedulerAssumption DEF LevelInv, TypeOK, Slot, Byte
<1>1. LevelInv'
  BY LevelMain DEF SourceInv
<1>2. CASE TaskAdd \/ TaskAddFails \/ EnterLoop
  <2>1. UNCHANGED <<num, id, j, hpc, hid, hk, overtaken>> /\ pc = "boot" /\ pc' \in {"boot", "fast"}
    BY <1>2 DEF TaskAdd, TaskAddFails, EnterLoop, queue, handler
  <2>2. QED
    BY <1>1, <2>1 DEF SourceInv, FastQueueShape
<1>3. CASE FastTake
  <2>1. UNCHANGED <<num, id, j, hpc, hid, hk, overtaken>> /\ pc' \in {"call", "remove"}
    BY <1>3 DEF FastTake, queue, handler
  <2>2. QED
    BY <1>1, <2>1 DEF SourceInv, FastQueueShape
<1>4. CASE FastCall
  <2>1. UNCHANGED <<num, id, j, hpc, hid, hk, overtaken>> /\ pc' = "remove"
    BY <1>4 DEF FastCall, queue, handler
  <2>2. QED
    BY <1>1, <2>1 DEF SourceInv, FastQueueShape
<1>5. CASE FastRemove
  <2>1. j = 0 /\ num = 1 /\ id[0] = cur /\ cur = t /\ MainRuns
    BY <1>5 DEF FastRemove, SourceInv, RemovesWhatItRan, FastQueueShape
  <2>2. num' = 0 /\ id' = [id EXCEPT ![0] = INVALID]
    BY <1>5, <2>1 DEF FastRemove, ByteDec
  <2>3. overtaken' = [u \in TaskIds |-> IF u = t THEN 0 ELSE overtaken[u]]
    BY <1>5, <2>1 DEF FastRemove
  <2>4. UNCHANGED handler
    BY <1>5 DEF FastRemove
  <2>5. FastQueueShape' /\ \A k \in Slot : id'[k] = INVALID
    BY <2>1, <2>2 DEF SourceInv, FastQueueShape
  <2>6. \A u \in TaskIds : overtaken'[u] = 0
    BY <2>3 DEF SourceInv
  <2>7. \A m \in Levels : hpc'[m] = "idle"
    BY <2>1, <2>4 DEF handler, MainRuns
  <2> HIDE DEF LevelInv, TypeOK, Slot, Byte
  <2>8. num' <= 1
    BY <2>2
  <2>9. \A k \in Slot : id'[k] \in {INVALID, t}
    BY <2>5
  <2>10. \A m \in Levels :
           /\ hpc'[m] # "idle" => hid'[m] = t
           /\ hpc'[m] = "scan" => hk'[m] = 0
           /\ hpc'[m] \in {"check", "store"} => num' = 0
    BY <2>2, <2>7
  <2>11. /\ overtaken'[t] <= 1
         /\ overtaken'[t] = 1 => num' = 1 /\ j' = 0 /\ pc' \in {"fast", "call", "remove"}
    BY <2>6
  <2>12. \A u \in TaskIds : overtaken'[u] # 0 => u = t
    BY <2>6
  <2>13. QED
    BY <1>1, <2>5, <2>8, <2>9, <2>10, <2>11, <2>12, Zenon DEF SourceInv
<1>6. CASE FastDone
  <2>1. UNCHANGED <<num, id, j, hpc, hid, hk, overtaken>> /\ j >= num
    BY <1>6 DEF FastDone, queue, handler
  <2>2. overtaken[t] # 1
    BY <2>1 DEF SourceInv
  <2>3. QED
    BY <1>1, <2>1, <2>2 DEF SourceInv, FastQueueShape
<1>7. CASE PollTask
  <2>1. UNCHANGED <<num, id, hpc, hid, hk>> /\ j' = 0 /\ pc' = "fast" /\ overtaken[t] = 0
    BY <1>7 DEF PollTask, NextSlot, queue, handler, SourceInv
  <2>2. \A u \in TaskIds : Queued(u) => u = t /\ num = 1
    BY DEF Queued, SourceInv, FastQueueShape
  <2>3. overtaken' = [u \in TaskIds |-> IF Queued(u) /\ overtaken[u] < 2
                                        THEN overtaken[u] + 1 ELSE overtaken[u]]
    BY <1>7 DEF PollTask, Overtake
  <2>4. \A u \in TaskIds : overtaken'[u] # 0 => u = t /\ num = 1
    BY <2>1, <2>2, <2>3 DEF SourceInv
  <2>5. overtaken'[t] <= 1
    BY <2>1, <2>2, <2>3
  <2>6. QED
    BY <1>1, <2>1, <2>4, <2>5 DEF SourceInv, FastQueueShape
<1>8. CASE PollEmpty
  <2>1. UNCHANGED <<num, id, hpc, hid, hk, overtaken>> /\ j' = 0 /\ pc = "slot" /\ pc' = "fast"
    BY <1>8 DEF PollEmpty, NextSlot, queue, handler
  <2>2. QED
    BY <1>1, <2>1 DEF SourceInv, FastQueueShape
<1>9. QED
  BY <1>2, <1>3, <1>4, <1>5, <1>6, <1>7, <1>8 DEF Main

LEMMA SourceIsr ==
  ASSUME OneLevel, NEW t \in TaskIds, SourceInv(t), NEW l \in Levels,
         PostedBy[l] = {t}, Isr(l) \/ \E u \in PostedBy[l] : Interrupt(l, u)
  PROVE  SourceInv(t)'
<1> USE SchedulerAssumption DEF LevelInv, TypeOK, Slot, Byte
<1>0. Levels = {l}
  BY DEF OneLevel
<1>1. LevelInv'
  BY LevelIsr DEF SourceInv
<1>2. CASE Scan(l)
  <2>1. UNCHANGED <<num, id, hid, overtaken, j, pc>>
    BY <1>2 DEF Scan, queue, loop
  <2>2. hk[l] = 0 /\ hid[l] = t /\ (0 < num => id[0] = t)
    BY <1>2 DEF Scan, SourceInv, FastQueueShape
  <2>3. hk' = hk /\ (hpc'[l] = "idle" \/ (hpc'[l] = "check" /\ num = 0))
    <3>1. CASE 0 < num
      BY <1>2, <2>2, <3>1 DEF Scan, SourceInv
    <3>2. CASE num = 0
      BY <1>2, <2>2, <3>2 DEF Scan, SourceInv
    <3>3. num = 0 \/ 0 < num
      BY DEF SourceInv
    <3>4. QED
      BY <3>1, <3>2, <3>3
  <2>4. QED
    BY <1>0, <1>1, <2>1, <2>2, <2>3 DEF SourceInv, FastQueueShape
<1>3. CASE Check(l)
  <2>1. UNCHANGED <<num, id, hid, hk, overtaken, j, pc>> /\ num = 0 /\ hid[l] = t
    BY <1>3 DEF Check, queue, loop, SourceInv
  <2>2. hpc'[l] \in {"store", "idle"}
    BY <1>3 DEF Check, SourceInv
  <2>3. QED
    BY <1>0, <1>1, <2>1, <2>2 DEF SourceInv, FastQueueShape
<1>4. CASE Store(l)
  <2>1. num = 0 /\ hid[l] = t /\ UNCHANGED <<hid, hk, overtaken, j, pc>>
    BY <1>4 DEF Store, SourceInv, loop
  <2>2. num' = 1 /\ id' = [id EXCEPT ![0] = t] /\ hpc'[l] = "idle"
    BY <1>4, <2>1 DEF Store, ByteInc, SourceInv
  <2>3. FastQueueShape' /\ \A k \in Slot : id'[k] \in {INVALID, t}
    BY <2>1, <2>2 DEF SourceInv, FastQueueShape
  <2>4. QED
    BY <1>0, <1>1, <2>1, <2>2, <2>3 DEF SourceInv
<1>5. ASSUME NEW u \in PostedBy[l], Interrupt(l, u) PROVE SourceInv(t)'
  <2>1. u = t
    OBVIOUS
  <2>2. UNCHANGED <<num, id, overtaken, j, pc>>
    BY <1>5 DEF Interrupt, queue, loop
  <2>3. CASE UNCHANGED handler
    BY <1>0, <1>1, <2>2, <2>3 DEF SourceInv, FastQueueShape, handler
  <2>4. CASE ~ UNCHANGED handler
    <3>1. hpc'[l] = "scan" /\ hid'[l] = t /\ hk'[l] = 0
      BY <1>5, <2>1, <2>4 DEF Interrupt, handler, SourceInv
    <3>2. QED
      BY <1>0, <1>1, <2>2, <3>1 DEF SourceInv, FastQueueShape
  <2>5. QED
    BY <2>3, <2>4
<1>6. QED
  BY <1>2, <1>3, <1>4, <1>5 DEF Isr

LEMMA SourceInductive ==
  ASSUME OneLevel, NEW t \in TaskIds, \A l \in Levels : PostedBy[l] = {t}
  PROVE  Spec => []SourceInv(t)
<1>1. SourceInv(t) /\ UNCHANGED vars => SourceInv(t)'
  BY DEF vars, table, queue, loop, handler, SourceInv, LevelInv, TypeOK,
         RemovesWhatItRan, FastQueueShape
<1>2. SourceInv(t) /\ [Next]_vars => SourceInv(t)'
  BY <1>1, SourceMain, SourceIsr DEF Next
<1>3. Init => SourceInv(t)
  BY SourceInit
<1>4. QED
  BY <1>2, <1>3, PTL DEF Spec

\* With one source the queue's count and its array agree: no entry is stranded
\* and no place is blocked (task.c:89-95, 125-137).
THEOREM QueueShapeCorrect == ASSUME OneSource PROVE Spec => []FastQueueShape
<1>1. PICK t \in TaskIds : \A l \in Levels : PostedBy[l] = {t}
  BY DEF OneSource
<1>2. SourceInv(t) => FastQueueShape
  BY DEF SourceInv
<1>3. Spec => []SourceInv(t)
  BY <1>1, SourceInductive DEF OneSource
<1>4. QED
  BY <1>2, <1>3, PTL

\* With one source a posted task waits for at most one polled task, however
\* many tasks are registered (task.c:59-62).
THEOREM ResponseCorrect == ASSUME OneSource PROVE Spec => []FastResponse
<1>1. PICK t \in TaskIds : \A l \in Levels : PostedBy[l] = {t}
  BY DEF OneSource
<1>2. SourceInv(t) => FastResponse
  BY DEF SourceInv, LevelInv, TypeOK, FastResponse
<1>3. Spec => []SourceInv(t)
  BY <1>1, SourceInductive DEF OneSource
<1>4. QED
  BY <1>2, <1>3, PTL

============================================================================
