-------------------------- MODULE SchedulerProofs ---------------------------
(* Proofs about the scheduler, for any number of tasks, processes, workers *)
(* and operations.                                                         *)
EXTENDS Scheduler, FiniteSetTheorems, TLAPS

\* The first element of a non-empty queue, and the rest of it.
LEMMA HeadTail ==
    ASSUME NEW S, NEW q \in Seq(S), q # <<>>
    PROVE  Head(q) \in S /\ Tail(q) \in Seq(S)
  OBVIOUS

\* Adding a task to the end of a queue.
LEMMA AppendTask ==
    ASSUME NEW q \in Seq(Task), NEW t \in Task
    PROVE  Append(q, t) \in Seq(Task)
  OBVIOUS

LEMMA WaitingCount ==
    ASSUME NEW S \in SUBSET Task PROVE Cardinality(S) \in Nat
<1>1. IsFiniteSet(Task)
  BY SchedulerAssumption, FS_Interval DEF Task
<1> QED BY <1>1, FS_Subset, FS_CardinalityType

LEMMA Basics ==
    /\ NULL \notin Task
    /\ Process \subseteq Thread
    /\ Worker \subseteq Thread
    /\ Plain \in Entity
    /\ \A t \in Task : \A k \in {"val", "err", "suberr"} :
         [kind |-> k, of |-> t] \in Entity
  BY DEF NULL, Task, Thread, Plain, Entity

LEMMA TypeOKInit == Init => TypeOK
<1> SUFFICES ASSUME Init PROVE TypeOK
  OBVIOUS
<1> USE SchedulerAssumption DEF Init
<1>1. TaskTypeOK
  BY DEF TaskTypeOK, Task, Process, NULL, Entity, Plain, TaskState
<1>2. ProcessTypeOK
  <2>1. 1 \in Task /\ <<1>> \in Seq(Task) /\ <<>> \in Seq(Task)
    BY DEF Task
  <2> QED BY <2>1 DEF ProcessTypeOK
<1>3. ThreadTypeOK
  BY DEF ThreadTypeOK, Label, Running, Marking, Resuming, Idling
<1>4. VmTypeOK
  BY DEF VmTypeOK, Task, Process
<1> QED BY <1>1, <1>2, <1>3, <1>4 DEF TypeOK
-----------------------------------------------------------------------------
\* The effects of creating a task on the types.
LEMMA NewTaskTypes ==
    ASSUME TypeOK, NEW q \in Process, NEW t \in Task, NEW b \in BOOLEAN,
           process_create_unqueued_task(q, t, b)
    PROVE  /\ ntasks + 1 \in Task /\ ntasks' = ntasks + 1
           /\ parent_process' \in [Task -> Process \cup {NULL}]
           /\ parent_task' \in [Task -> Task \cup {NULL}]
           /\ has_future' \in [Task -> BOOLEAN]
<1>1. ntasks + 1 \in Task /\ ntasks' = ntasks + 1
  BY SchedulerAssumption DEF process_create_unqueued_task, TypeOK, VmTypeOK, Task
<1> QED BY <1>1 DEF process_create_unqueued_task, TypeOK, TaskTypeOK

LEMMA EnqueueTypes ==
    ASSUME TypeOK, NEW q, NEW t \in Task, process_enqueue_task(q, t)
    PROVE  queued_tasks' \in [Process -> Seq(Task)]
<1>1. q \in Process => Append(queued_tasks[q], t) \in Seq(Task)
  BY AppendTask DEF TypeOK, ProcessTypeOK
<1> QED BY <1>1 DEF process_enqueue_task, TypeOK, ProcessTypeOK

LEMMA ExecutingTypes ==
    ASSUME TypeOK, NEW p \in Process, NEW op, Executing(p, op)
    PROVE  /\ ops' \in [Task -> 0..MaxOps]
           /\ cur[p] \in Task
<1>1. cur[p] \in Task
  BY Basics DEF Executing, At, TypeOK, ThreadTypeOK, Running
<1> QED BY <1>1, SchedulerAssumption DEF Executing, TypeOK, TaskTypeOK

\* The two outcomes of an error.
LEMMA CaughtTypes ==
    ASSUME TypeOK, NEW p \in Process, NEW t \in Task, cur[p] = t,
           child_task_has_error' \in [Task -> BOOLEAN], Caught(p, t)
    PROVE  TypeOK'
<1> USE Basics DEF TypeOK, Caught, Goto
<1>1. TaskTypeOK'
  BY DEF TaskTypeOK, taskVars, TaskState
<1>2. ProcessTypeOK'
  BY DEF ProcessTypeOK, setVars
<1>3. ThreadTypeOK'
  BY DEF ThreadTypeOK, Label, Running, Marking, Resuming
<1>4. VmTypeOK'
  BY DEF VmTypeOK, vmVars
<1> QED BY <1>1, <1>2, <1>3, <1>4

LEMMA UncaughtTypes ==
    ASSUME TypeOK, NEW p \in Process, NEW t \in Task, cur[p] = t,
           NEW r \in Entity,
           child_task_has_error' \in [Task -> BOOLEAN], Uncaught(p, t, r)
    PROVE  TypeOK'
<1> USE Basics DEF TypeOK, Goto
<1>1. CASE parent_task[t] # NULL
  <2>0. /\ state' = [state EXCEPT ![t] = "TASK_ERROR"]
        /\ resval' = [resval EXCEPT ![t] = r]
        /\ UNCHANGED <<taskVars, dependent_tasks, awaits, context_error>>
    BY <1>1 DEF Uncaught
  <2>1. TaskTypeOK'
    BY <2>0 DEF TaskTypeOK, taskVars, TaskState
  <2> USE <1>1 DEF Uncaught
  <2>2. ProcessTypeOK'
    BY DEF ProcessTypeOK, setVars
  <2>3. ThreadTypeOK'
    BY DEF ThreadTypeOK, Label, Running, Marking, Resuming
  <2>4. VmTypeOK'
    BY DEF VmTypeOK, vmVars
  <2> QED BY <2>1, <2>2, <2>3, <2>4
<1>2. CASE parent_task[t] = NULL
  <2>0. /\ process_create_unqueued_task(p, t, FALSE)
        /\ process_enqueue_task(p, ntasks + 1)
    BY <1>2 DEF Uncaught
  <2>1. /\ ntasks + 1 \in Task /\ ntasks' = ntasks + 1
        /\ parent_process' \in [Task -> Process \cup {NULL}]
        /\ parent_task' \in [Task -> Task \cup {NULL}]
        /\ has_future' \in [Task -> BOOLEAN]
    BY <2>0, NewTaskTypes
  <2>2. queued_tasks' \in [Process -> Seq(Task)]
    BY <2>0, <2>1, EnqueueTypes
  <2>a. /\ dependent_tasks' = [dependent_tasks EXCEPT ![ntasks + 1] = {t}]
        /\ state' = [state EXCEPT ![t] = "TASK_ERROR", ![ntasks + 1] = "TASK_RUNNING"]
        /\ resval' = [resval EXCEPT ![t] = r]
        /\ UNCHANGED <<ops, awaits, context_error>>
    BY <1>2 DEF Uncaught
  <2>3. TaskTypeOK'
    BY <2>1, <2>a DEF TaskTypeOK, TaskState
  <2> USE <1>2 DEF Uncaught
  <2>4. ProcessTypeOK'
    BY <2>2 DEF ProcessTypeOK
  <2>5. ThreadTypeOK'
    BY DEF ThreadTypeOK, Next_task, Label, Running, Marking, Resuming, Idling
  <2>6. VmTypeOK'
    BY <2>1 DEF VmTypeOK
  <2> QED BY <2>3, <2>4, <2>5, <2>6
<1> QED BY <1>1, <1>2
-----------------------------------------------------------------------------
LEMMA PopTypes == ASSUME TypeOK, NEW p \in Process, process_pop_task(p) PROVE TypeOK'
<1> USE Basics DEF TypeOK, Goto, At
<1>0. Head(queued_tasks[p]) \in Task /\ Tail(queued_tasks[p]) \in Seq(Task)
  BY HeadTail DEF process_pop_task, ProcessTypeOK
<1>1. TaskTypeOK'
  BY DEF process_pop_task, TaskTypeOK, taskVars, waitVars, errVars
<1>2. ProcessTypeOK'
  BY <1>0 DEF process_pop_task, ProcessTypeOK
<1>3. ThreadTypeOK'
  BY <1>0 DEF process_pop_task, ThreadTypeOK, Label, Running, Marking,
     Resuming, Idling
<1>4. VmTypeOK'
  BY DEF process_pop_task, VmTypeOK, vmVars
<1> QED BY <1>1, <1>2, <1>3, <1>4

LEMMA QueueEmptyTypes == ASSUME TypeOK, NEW p \in Process, QueueEmpty(p) PROVE TypeOK'
<1> USE Basics DEF TypeOK, Goto, At
<1>1. TaskTypeOK'
  BY DEF QueueEmpty, TaskTypeOK, allButPc, taskVars, waitVars, errVars
<1>2. ProcessTypeOK'
  BY DEF QueueEmpty, ProcessTypeOK, allButPc, setVars
<1>3. ThreadTypeOK'
  BY DEF QueueEmpty, ThreadTypeOK, allButPc, Label, Running, Marking,
     Resuming, Idling
<1>4. VmTypeOK'
  BY DEF QueueEmpty, VmTypeOK, allButPc, vmVars
<1> QED BY <1>1, <1>2, <1>3, <1>4

LEMMA IsDoneTypes == ASSUME TypeOK, NEW p \in Process, _process_is_done(p) PROVE TypeOK'
<1> USE Basics DEF TypeOK, Goto, At
<1>1. TaskTypeOK'
  BY DEF _process_is_done, TaskTypeOK, allButPc, taskVars, waitVars, errVars
<1>2. ProcessTypeOK'
  BY DEF _process_is_done, ProcessTypeOK, allButPc, setVars
<1>3. ThreadTypeOK'
  BY DEF _process_is_done, ThreadTypeOK, allButPc, Label, Running, Marking,
     Resuming, Idling
<1>4. VmTypeOK'
  BY DEF _process_is_done, VmTypeOK, allButPc, vmVars
<1> QED BY <1>1, <1>2, <1>3, <1>4

LEMMA CountTypes == ASSUME TypeOK, NEW p \in Process, CountWaiting(p) PROVE TypeOK'
<1> USE Basics DEF TypeOK, Goto, At
<1>0. Cardinality(waiting_tasks[p]) \in Nat
  BY WaitingCount DEF ProcessTypeOK
<1>1. TaskTypeOK'
  BY DEF CountWaiting, TaskTypeOK, taskVars, waitVars, errVars
<1>2. ProcessTypeOK'
  BY <1>0 DEF CountWaiting, ProcessTypeOK, setVars
<1>3. ThreadTypeOK'
  BY DEF CountWaiting, ThreadTypeOK, Label, Running, Marking, Resuming,
     Idling
<1>4. VmTypeOK'
  BY DEF CountWaiting, VmTypeOK, vmVars
<1> QED BY <1>1, <1>2, <1>3, <1>4

LEMMA CheckTypes == ASSUME TypeOK, NEW p \in Process, CheckWaiting(p) PROVE TypeOK'
<1> USE Basics DEF TypeOK, Goto, At
<1>1. TaskTypeOK'
  BY DEF CheckWaiting, TaskTypeOK, allButPc, taskVars, waitVars, errVars
<1>2. ProcessTypeOK'
  BY DEF CheckWaiting, ProcessTypeOK, allButPc, setVars
<1>3. ThreadTypeOK'
  BY DEF CheckWaiting, ThreadTypeOK, allButPc, Label, Running, Marking,
     Resuming, Idling
<1>4. VmTypeOK'
  BY DEF CheckWaiting, VmTypeOK, allButPc, vmVars
<1> QED BY <1>1, <1>2, <1>3, <1>4

LEMMA SpuriousTypes == ASSUME TypeOK, NEW p \in Process, SpuriousWakeup(p) PROVE TypeOK'
<1> USE Basics DEF TypeOK, Goto, At
<1>1. TaskTypeOK'
  BY DEF SpuriousWakeup, TaskTypeOK, allButPc, taskVars, waitVars, errVars
<1>2. ProcessTypeOK'
  BY DEF SpuriousWakeup, ProcessTypeOK, allButPc, setVars
<1>3. ThreadTypeOK'
  BY DEF SpuriousWakeup, ThreadTypeOK, allButPc, Label, Running, Marking,
     Resuming, Idling
<1>4. VmTypeOK'
  BY DEF SpuriousWakeup, VmTypeOK, allButPc, vmVars
<1> QED BY <1>1, <1>2, <1>3, <1>4

LEMMA StartTypes == ASSUME TypeOK, NEW p \in Process, StartTask(p) PROVE TypeOK'
<1> USE Basics DEF TypeOK, Goto, At
<1>1. TaskTypeOK'
  BY DEF StartTask, TaskTypeOK, taskVars, errVars, TaskState
<1>2. ProcessTypeOK'
  BY DEF StartTask, ProcessTypeOK, setVars
<1>3. ThreadTypeOK'
  BY DEF StartTask, ThreadTypeOK, Label, Running, Marking, Resuming, Idling
<1>4. VmTypeOK'
  BY DEF StartTask, VmTypeOK, vmVars
<1> QED BY <1>1, <1>2, <1>3, <1>4

LEMMA AssertTypes == ASSUME TypeOK, NEW p \in Process, AssertFails(p) PROVE TypeOK'
<1> USE Basics DEF TypeOK, Goto, At
<1>1. TaskTypeOK'
  BY DEF AssertFails, TaskTypeOK, taskVars, waitVars, errVars
<1>2. ProcessTypeOK'
  BY DEF AssertFails, ProcessTypeOK, setVars, threadVars
<1>3. ThreadTypeOK'
  BY DEF AssertFails, ThreadTypeOK, threadVars
<1>4. VmTypeOK'
  BY DEF AssertFails, VmTypeOK
<1> QED BY <1>1, <1>2, <1>3, <1>4

LEMMA CallTypes == ASSUME TypeOK, NEW p \in Process, Call(p) PROVE TypeOK'
<1> USE Basics DEF TypeOK, Goto, At
<1>0. /\ cur[p] \in Task
      /\ ops' \in [Task -> 0..MaxOps]
  BY ExecutingTypes DEF Call
<1>a. /\ ntasks + 1 \in Task /\ ntasks' = ntasks + 1
      /\ parent_process' \in [Task -> Process \cup {NULL}]
      /\ parent_task' \in [Task -> Task \cup {NULL}]
      /\ has_future' \in [Task -> BOOLEAN]
  BY <1>0, NewTaskTypes DEF Call
<1>b. queued_tasks' \in [Process -> Seq(Task)]
  BY <1>a, EnqueueTypes DEF Call
<1>1. TaskTypeOK'
  BY <1>0, <1>a DEF Call, TaskTypeOK, errVars, TaskState
<1>2. ProcessTypeOK'
  BY <1>b DEF Call, ProcessTypeOK
<1>3. ThreadTypeOK'
  BY <1>0 DEF Call, ThreadTypeOK, Label, Running, Marking, Resuming, Idling
<1>4. VmTypeOK'
  BY <1>a DEF Call, VmTypeOK
<1> QED BY <1>1, <1>2, <1>3, <1>4

LEMMA CallAsyncTypes == ASSUME TypeOK, NEW p \in Process, CallAsync(p) PROVE TypeOK'
<1> USE Basics DEF TypeOK, Goto, At
<1>0. /\ cur[p] \in Task
      /\ ops' \in [Task -> 0..MaxOps]
  BY ExecutingTypes DEF CallAsync
<1>a. /\ ntasks + 1 \in Task /\ ntasks' = ntasks + 1
      /\ parent_process' \in [Task -> Process \cup {NULL}]
      /\ parent_task' \in [Task -> Task \cup {NULL}]
      /\ has_future' \in [Task -> BOOLEAN]
  BY <1>0, NewTaskTypes DEF CallAsync
<1>b. queued_tasks' \in [Process -> Seq(Task)]
  BY <1>a, EnqueueTypes DEF CallAsync
<1>1. TaskTypeOK'
  BY <1>0, <1>a DEF CallAsync, TaskTypeOK, errVars, TaskState
<1>2. ProcessTypeOK'
  BY <1>b DEF CallAsync, ProcessTypeOK, threadVars
<1>3. ThreadTypeOK'
  BY <1>0 DEF CallAsync, ThreadTypeOK, threadVars
<1>4. VmTypeOK'
  BY <1>a DEF CallAsync, VmTypeOK
<1> QED BY <1>1, <1>2, <1>3, <1>4

LEMMA CallBackgroundTypes == ASSUME TypeOK, NEW p \in Process, CallBackground(p) PROVE TypeOK'
<1> USE Basics DEF TypeOK, Goto, At
<1>0. /\ cur[p] \in Task
      /\ ops' \in [Task -> 0..MaxOps]
  BY ExecutingTypes DEF CallBackground
<1>a. /\ ntasks + 1 \in Task /\ ntasks' = ntasks + 1
      /\ parent_process' \in [Task -> Process \cup {NULL}]
      /\ parent_task' \in [Task -> Task \cup {NULL}]
      /\ has_future' \in [Task -> BOOLEAN]
  BY <1>0, NewTaskTypes DEF CallBackground
<1>1. TaskTypeOK'
  BY <1>0, <1>a DEF CallBackground, TaskTypeOK, errVars, TaskState
<1>2. ProcessTypeOK'
  BY DEF CallBackground, ProcessTypeOK, setVars, threadVars
<1>3. ThreadTypeOK'
  BY <1>0 DEF CallBackground, ThreadTypeOK, threadVars
<1>4. VmTypeOK'
  BY <1>a, AppendTask DEF CallBackground, VmTypeOK
<1> QED BY <1>1, <1>2, <1>3, <1>4

LEMMA CreateProcessTypes == ASSUME TypeOK, NEW p \in Process, _create_process(p) PROVE TypeOK'
<1> USE Basics DEF TypeOK, Goto, At
<1>0. cur[p] \in Task /\ ops' \in [Task -> 0..MaxOps]
  BY ExecutingTypes DEF _create_process
<1>q. nprocesses + 1 \in Process
  BY SchedulerAssumption DEF _create_process, VmTypeOK, Process
<1>a. /\ ntasks + 1 \in Task /\ ntasks' = ntasks + 1
      /\ parent_process' \in [Task -> Process \cup {NULL}]
      /\ parent_task' \in [Task -> Task \cup {NULL}]
      /\ has_future' \in [Task -> BOOLEAN]
  BY <1>0, <1>q, NewTaskTypes DEF _create_process
<1>b. queued_tasks' \in [Process -> Seq(Task)]
  BY <1>a, EnqueueTypes DEF _create_process
<1>1. TaskTypeOK'
  BY <1>0, <1>a DEF _create_process, TaskTypeOK, errVars, TaskState
<1>2. ProcessTypeOK'
  BY <1>b DEF _create_process, ProcessTypeOK
<1>3. ThreadTypeOK'
  BY <1>q DEF _create_process, ThreadTypeOK, Label, Running, Marking, Resuming, Idling
<1>4. VmTypeOK'
  BY <1>a, <1>q DEF _create_process, VmTypeOK
<1> QED BY <1>1, <1>2, <1>3, <1>4

LEMMA AwaitCompleteTypes == ASSUME TypeOK, NEW p \in Process, NEW f \in Task, AwaitComplete(p, f) PROVE TypeOK'
<1> USE Basics DEF TypeOK, Goto, At
<1>0. cur[p] \in Task /\ ops' \in [Task -> 0..MaxOps]
  BY ExecutingTypes DEF AwaitComplete
<1>1. TaskTypeOK'
  BY <1>0 DEF AwaitComplete, TaskTypeOK, errVars
<1>2. ProcessTypeOK'
  BY DEF AwaitComplete, ProcessTypeOK, setVars, threadVars
<1>3. ThreadTypeOK'
  BY DEF AwaitComplete, ThreadTypeOK, threadVars
<1>4. VmTypeOK'
  BY DEF AwaitComplete, VmTypeOK, vmVars
<1> QED BY <1>1, <1>2, <1>3, <1>4

LEMMA AwaitIncompleteTypes == ASSUME TypeOK, NEW p \in Process, NEW f \in Task, AwaitIncomplete(p, f) PROVE TypeOK'
<1> USE Basics DEF TypeOK, Goto, At
<1>0. cur[p] \in Task /\ ops' \in [Task -> 0..MaxOps]
  BY ExecutingTypes DEF AwaitIncomplete
<1>1. TaskTypeOK'
  BY <1>0 DEF AwaitIncomplete, TaskTypeOK, errVars
<1>2. ProcessTypeOK'
  BY DEF AwaitIncomplete, ProcessTypeOK, setVars
<1>3. ThreadTypeOK'
  BY <1>0 DEF AwaitIncomplete, ThreadTypeOK, Label, Running, Marking,
     Resuming, Idling
<1>4. VmTypeOK'
  BY DEF AwaitIncomplete, VmTypeOK, vmVars
<1> QED BY <1>1, <1>2, <1>3, <1>4

LEMMA InsertDependentTypes == ASSUME TypeOK, NEW p \in Process, InsertDependent(p) PROVE TypeOK'
<1> USE Basics DEF TypeOK, Goto, At
<1>0. cur[p] \in Task
  BY DEF InsertDependent, ThreadTypeOK, Running
<1>1. TaskTypeOK'
  BY <1>0 DEF InsertDependent, TaskTypeOK, taskVars, errVars
<1>2. ProcessTypeOK'
  BY DEF InsertDependent, ProcessTypeOK, setVars
<1>3. ThreadTypeOK'
  BY <1>0 DEF InsertDependent, ThreadTypeOK, Label, Running, Marking,
     Resuming, Idling
<1>4. VmTypeOK'
  BY DEF InsertDependent, VmTypeOK, vmVars
<1> QED BY <1>1, <1>2, <1>3, <1>4

LEMMA SetWaitingTypes == ASSUME TypeOK, NEW p \in Process, SetWaiting(p) PROVE TypeOK'
<1> USE Basics DEF TypeOK, Goto, At
<1>1. TaskTypeOK'
  BY DEF SetWaiting, TaskTypeOK, taskVars, errVars, TaskState
<1>2. ProcessTypeOK'
  BY DEF SetWaiting, ProcessTypeOK, setVars
<1>3. ThreadTypeOK'
  BY DEF SetWaiting, ThreadTypeOK, Label, Running, Marking, Resuming, Idling
<1>4. VmTypeOK'
  BY DEF SetWaiting, VmTypeOK, vmVars
<1> QED BY <1>1, <1>2, <1>3, <1>4

LEMMA InsertWaitingTypes == ASSUME TypeOK, NEW p \in Process, process_insert_waiting_task(p) PROVE TypeOK'
<1> USE Basics DEF TypeOK, Goto, At
<1>0. cur[p] \in Task
  BY DEF process_insert_waiting_task, ThreadTypeOK, Running
<1>1. TaskTypeOK'
  BY DEF process_insert_waiting_task, TaskTypeOK, taskVars, waitVars,
     errVars
<1>2. ProcessTypeOK'
  BY <1>0 DEF process_insert_waiting_task, ProcessTypeOK
<1>3. ThreadTypeOK'
  BY DEF process_insert_waiting_task, ThreadTypeOK, Label, Running, Marking,
     Resuming, Idling, Next_task
<1>4. VmTypeOK'
  BY DEF process_insert_waiting_task, VmTypeOK, vmVars
<1> QED BY <1>1, <1>2, <1>3, <1>4

LEMMA ReturnTypes == ASSUME TypeOK, NEW p \in Process, Return(p) PROVE TypeOK'
<1> USE Basics DEF TypeOK, Goto, At
<1>1. TaskTypeOK'
  BY DEF Return, TaskTypeOK, taskVars, errVars, TaskState
<1>2. ProcessTypeOK'
  BY DEF Return, ProcessTypeOK, setVars
<1>3. ThreadTypeOK'
  BY DEF Return, ThreadTypeOK, Label, Running, Marking, Resuming, Idling
<1>4. VmTypeOK'
  BY DEF Return, VmTypeOK, vmVars
<1> QED BY <1>1, <1>2, <1>3, <1>4

LEMMA TellParentTypes == ASSUME TypeOK, NEW p \in Process, TellParent(p) PROVE TypeOK'
<1> USE Basics DEF TypeOK, Goto, At
<1>1. TaskTypeOK'
  BY DEF TellParent, TaskTypeOK, taskVars, waitVars
<1>2. ProcessTypeOK'
  BY DEF TellParent, ProcessTypeOK, setVars
<1>3. ThreadTypeOK'
  BY DEF TellParent, ThreadTypeOK, Label, Running, Marking, Resuming, Idling
<1>4. VmTypeOK'
  BY DEF TellParent, VmTypeOK, vmVars
<1> QED BY <1>1, <1>2, <1>3, <1>4

LEMMA MarkTypes == ASSUME TypeOK, NEW th \in Thread, process_mark_task_complete(th) PROVE TypeOK'
<1> USE Basics DEF TypeOK, Goto, At
<1>0. cur[th] \in Task /\ dependent_tasks[cur[th]] \in SUBSET Task
  BY DEF process_mark_task_complete, ThreadTypeOK, TaskTypeOK, Marking
<1>1. TaskTypeOK'
  BY DEF process_mark_task_complete, TaskTypeOK, taskVars, waitVars, errVars
<1>2. ProcessTypeOK'
  BY <1>0 DEF process_mark_task_complete, ProcessTypeOK
<1>3. ThreadTypeOK'
  BY <1>0 DEF process_mark_task_complete, ThreadTypeOK, Label, Running,
     Marking, Resuming, Idling
<1>4. VmTypeOK'
  BY DEF process_mark_task_complete, VmTypeOK, vmVars
<1> QED BY <1>1, <1>2, <1>3, <1>4

LEMMA VisitTypes == ASSUME TypeOK, NEW th \in Thread, NEW d \in Task, VisitDependent(th, d) PROVE TypeOK'
<1> USE Basics DEF TypeOK, Goto, At
<1>1. TaskTypeOK'
  BY DEF VisitDependent, TaskTypeOK, taskVars, waitVars, errVars
<1>2. ProcessTypeOK'
  BY DEF VisitDependent, ProcessTypeOK, setVars
<1>3. ThreadTypeOK'
  BY DEF VisitDependent, ThreadTypeOK, Label, Running, Marking, Resuming,
     Idling
<1>4. VmTypeOK'
  BY DEF VisitDependent, VmTypeOK, vmVars
<1> QED BY <1>1, <1>2, <1>3, <1>4

LEMMA AllVisitedTypes == ASSUME TypeOK, NEW th \in Thread, AllVisited(th) PROVE TypeOK'
<1> USE Basics DEF TypeOK, Goto, At
<1>1. TaskTypeOK'
  BY DEF AllVisited, TaskTypeOK, taskVars, waitVars, errVars
<1>2. ProcessTypeOK'
  BY DEF AllVisited, ProcessTypeOK, setVars
<1>3. ThreadTypeOK'
  BY DEF AllVisited, ThreadTypeOK, Label, Running, Marking, Resuming,
     Idling, Next_task
<1>4. VmTypeOK'
  BY DEF AllVisited, VmTypeOK, vmVars
<1> QED BY <1>1, <1>2, <1>3, <1>4

LEMMA DeliverTypes == ASSUME TypeOK, NEW th \in Thread, DeliverResult(th) PROVE TypeOK'
<1> USE Basics DEF TypeOK, Goto, At
<1>0. resval[cur[th]] \in Entity
  BY DEF DeliverResult, ThreadTypeOK, TaskTypeOK, Marking, Resuming
<1>1. TaskTypeOK'
  BY <1>0 DEF DeliverResult, TaskTypeOK, taskVars, errVars
<1>2. ProcessTypeOK'
  BY DEF DeliverResult, ProcessTypeOK, setVars
<1>3. ThreadTypeOK'
  BY DEF DeliverResult, ThreadTypeOK, Label, Running, Marking, Resuming,
     Idling
<1>4. VmTypeOK'
  BY DEF DeliverResult, VmTypeOK, vmVars
<1> QED BY <1>1, <1>2, <1>3, <1>4

LEMMA EnqueueDependentTypes == ASSUME TypeOK, NEW th \in Thread, EnqueueDependent(th) PROVE TypeOK'
<1> USE Basics DEF TypeOK, Goto, At
<1>0. queued_tasks' \in [Process -> Seq(Task)]
  BY EnqueueTypes DEF EnqueueDependent, ThreadTypeOK, Resuming
<1>1. TaskTypeOK'
  BY DEF EnqueueDependent, TaskTypeOK, taskVars, waitVars, errVars
<1>2. ProcessTypeOK'
  BY <1>0 DEF EnqueueDependent, ProcessTypeOK
<1>3. ThreadTypeOK'
  BY DEF EnqueueDependent, ThreadTypeOK, Label, Running, Marking, Resuming,
     Idling
<1>4. VmTypeOK'
  BY DEF EnqueueDependent, VmTypeOK, vmVars
<1> QED BY <1>1, <1>2, <1>3, <1>4

LEMMA RemoveWaitingTypes == ASSUME TypeOK, NEW th \in Thread, process_remove_waiting_task(th) PROVE TypeOK'
<1> USE Basics DEF TypeOK, Goto, At
<1>1. TaskTypeOK'
  BY DEF process_remove_waiting_task, TaskTypeOK, taskVars, waitVars,
     errVars
<1>2. ProcessTypeOK'
  BY DEF process_remove_waiting_task, ProcessTypeOK
<1>3. ThreadTypeOK'
  BY DEF process_remove_waiting_task, ThreadTypeOK, Label, Running, Marking,
     Resuming, Idling
<1>4. VmTypeOK'
  BY DEF process_remove_waiting_task, VmTypeOK, vmVars
<1> QED BY <1>1, <1>2, <1>3, <1>4

LEMMA BroadcastTypes == ASSUME TypeOK, NEW th \in Thread, Broadcast(th) PROVE TypeOK'
<1> USE Basics DEF TypeOK, At
<1>1. TaskTypeOK' /\ ProcessTypeOK' /\ VmTypeOK'
  BY DEF Broadcast, TaskTypeOK, ProcessTypeOK, VmTypeOK, taskVars, waitVars,
         errVars, setVars, vmVars
<1>2. \A u \in Thread : pc'[u] \in {pc[u], "visit", "check"}
  BY DEF Broadcast, ThreadTypeOK
<1>3. pc' \in [Thread -> Label]
  BY <1>2 DEF Broadcast, ThreadTypeOK, Label, Marking, Idling
<1>4. cur[th] \in Task /\ pc'[th] \in {"visit", "check"}
  BY DEF Broadcast, ThreadTypeOK, Marking, Resuming
<1>5. ASSUME NEW u \in Thread, u # th
      PROVE  pc'[u] = pc[u] \/ pc'[u] = "check"
  BY <1>5 DEF Broadcast, ThreadTypeOK
<1>6. \A u \in Thread : pc'[u] \in Marking \cup Running => cur[u] \in Task
  BY <1>4, <1>5 DEF ThreadTypeOK, Marking, Resuming, Running
<1>7. \A u \in Thread : pc'[u] \in Resuming => dep'[u] \in Task
  BY <1>4, <1>5 DEF Broadcast, ThreadTypeOK, Resuming
<1>8. ThreadTypeOK'
  BY <1>3, <1>6, <1>7 DEF Broadcast, ThreadTypeOK
<1> QED BY <1>1, <1>8

LEMMA StartWorkTypes == ASSUME TypeOK, NEW w \in Worker, StartWork(w) PROVE TypeOK'
<1> USE Basics DEF TypeOK, Goto, At
<1>0. Head(background) \in Task /\ Tail(background) \in Seq(Task)
  BY HeadTail DEF StartWork, VmTypeOK
<1>1. TaskTypeOK'
  BY DEF StartWork, TaskTypeOK, taskVars, waitVars, errVars
<1>2. ProcessTypeOK'
  BY DEF StartWork, ProcessTypeOK, setVars
<1>3. ThreadTypeOK'
  BY <1>0 DEF StartWork, ThreadTypeOK, Label, Running, Marking, Resuming,
     Idling
<1>4. VmTypeOK'
  BY <1>0 DEF StartWork, VmTypeOK
<1> QED BY <1>1, <1>2, <1>3, <1>4

LEMMA BackgroundTypes == ASSUME TypeOK, NEW w \in Worker, NEW k \in {"val", "err"}, _execute_in_background(w, k) PROVE TypeOK'
<1> USE Basics DEF TypeOK, Goto, At
<1>1. TaskTypeOK'
  BY DEF _execute_in_background, TaskTypeOK, taskVars
<1>2. ProcessTypeOK'
  BY DEF _execute_in_background, ProcessTypeOK, setVars
<1>3. ThreadTypeOK'
  BY DEF _execute_in_background, ThreadTypeOK, Label, Running, Marking,
     Resuming, Idling
<1>4. VmTypeOK'
  BY DEF _execute_in_background, VmTypeOK, vmVars
<1> QED BY <1>1, <1>2, <1>3, <1>4

LEMMA CallbackTypes == ASSUME TypeOK, NEW w \in Worker, _execute_in_background_callback(w) PROVE TypeOK'
<1> USE Basics DEF TypeOK, Goto, At
<1>1. TaskTypeOK'
  BY DEF _execute_in_background_callback, TaskTypeOK, taskVars, errVars,
     TaskState
<1>2. ProcessTypeOK'
  BY DEF _execute_in_background_callback, ProcessTypeOK, setVars
<1>3. ThreadTypeOK'
  BY DEF _execute_in_background_callback, ThreadTypeOK, Label, Running,
     Marking, Resuming, Idling
<1>4. VmTypeOK'
  BY DEF _execute_in_background_callback, VmTypeOK, vmVars
<1> QED BY <1>1, <1>2, <1>3, <1>4

LEMMA DeleteTypes == ASSUME TypeOK, vm_delete PROVE TypeOK'
<1> USE Basics DEF TypeOK, Goto, At
<1>1. TaskTypeOK'
  BY DEF vm_delete, TaskTypeOK, taskVars, waitVars, errVars
<1>2. ProcessTypeOK'
  BY DEF vm_delete, ProcessTypeOK, setVars, threadVars
<1>3. ThreadTypeOK'
  BY DEF vm_delete, ThreadTypeOK, threadVars
<1>4. VmTypeOK'
  BY DEF vm_delete, VmTypeOK
<1> QED BY <1>1, <1>2, <1>3, <1>4

LEMMA TypeOKStep == TypeOK /\ [Next]_vars => TypeOK'
<1> SUFFICES ASSUME TypeOK, [Next]_vars PROVE TypeOK'
  OBVIOUS
<1>0. \A p \in Process : pc[p] \in {"start", "exec"} => cur[p] \in Task
  BY Basics DEF TypeOK, ThreadTypeOK, Running
<1>1. ASSUME NEW p \in Process, StartWithError(p) PROVE TypeOK'
  <2>1. child_task_has_error' \in [Task -> BOOLEAN]
    BY <1>1 DEF StartWithError, TypeOK, TaskTypeOK
  <2>2. cur[p] \in Task /\ resval[cur[p]] \in Entity
    BY <1>0, <1>1 DEF StartWithError, At, TypeOK, TaskTypeOK
  <2> QED BY <1>1, <2>1, <2>2, CaughtTypes, UncaughtTypes DEF StartWithError
<1>2. ASSUME NEW p \in Process, NoticeError(p) PROVE TypeOK'
  <2>1. child_task_has_error' \in [Task -> BOOLEAN] /\ cur[p] \in Task
    BY <1>0, <1>2 DEF NoticeError, At, TypeOK, TaskTypeOK
  <2> QED BY <1>2, <2>1, Basics, CaughtTypes, UncaughtTypes DEF NoticeError
<1>3. ASSUME NEW p \in Process, NEW kind \in Errors, Raise(p, kind) PROVE TypeOK'
  <2>1. child_task_has_error' \in [Task -> BOOLEAN] /\ cur[p] \in Task
    BY <1>0, <1>3 DEF Raise, At, TypeOK, TaskTypeOK
  <2>2. [kind |-> kind, of |-> cur[p]] \in Entity
    BY <2>1, Basics, SchedulerAssumption
  <2> QED BY <1>3, <2>1, <2>2, UncaughtTypes DEF Raise
<1>4. ASSUME NEW p \in Process, vm_execute_task(p) PROVE TypeOK'
  BY <1>1, <1>2, <1>3, <1>4, StartTypes, AssertTypes, CallTypes, CallAsyncTypes,
     CallBackgroundTypes, CreateProcessTypes, AwaitCompleteTypes,
     AwaitIncompleteTypes, InsertDependentTypes, SetWaitingTypes, ReturnTypes
     DEF vm_execute_task
<1>5. ASSUME NEW th \in Thread, _mark_task_complete(th) PROVE TypeOK'
  BY <1>5, MarkTypes, VisitTypes, AllVisitedTypes, DeliverTypes,
     EnqueueDependentTypes, RemoveWaitingTypes, BroadcastTypes
     DEF _mark_task_complete
<1>6. ASSUME NEW p \in Process, process_run(p) \/ SpuriousWakeup(p) PROVE TypeOK'
  BY <1>4, <1>5, <1>6, Basics, PopTypes, QueueEmptyTypes, InsertWaitingTypes,
     TellParentTypes, IsDoneTypes, CountTypes, CheckTypes, SpuriousTypes
     DEF process_run
<1>7. ASSUME NEW w \in Worker, RunWorker(w) PROVE TypeOK'
  BY <1>5, <1>7, Basics, StartWorkTypes, BackgroundTypes, CallbackTypes
     DEF RunWorker
<1>8. CASE UNCHANGED vars
  BY <1>8 DEF vars, taskVars, waitVars, errVars, setVars, threadVars, vmVars,
              TypeOK, TaskTypeOK, ProcessTypeOK, ThreadTypeOK, VmTypeOK
<1> QED BY <1>6, <1>7, <1>8, DeleteTypes DEF Next

\* Every step of process_run, of _mark_task_complete and of the workers keeps
\* the types; a thread that runs or marks a task, or resumes a dependent, has
\* one.
THEOREM TypeCorrect == Spec => []TypeOK
BY TypeOKInit, TypeOKStep, PTL DEF Spec
=============================================================================
