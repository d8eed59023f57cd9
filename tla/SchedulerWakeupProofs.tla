----------------------- MODULE SchedulerWakeupProofs ------------------------
(***************************************************************************)
(* No wakeup is lost in programs that keep their futures to themselves: a  *)
(* sleeping process is woken, for every such program; a waiting task is    *)
(* resumed, the waiting set is exact and a process returns only when its   *)
(* tasks are finished, for those without background functions.  Programs   *)
(* that only call pass the Error of a failed child to its parent.          *)
(*                                                                         *)
(* The hypotheses on Ops are what the code needs: where two threads work   *)
(* on the tasks of one process, or a flag and a result reach a parent from *)
(* two children, TLC finds the properties violated on small instances.     *)
(***************************************************************************)
EXTENDS SchedulerTokenProofs

(* Programs that do not share futures. *)

\* The task that is created next is new.
LEMMA NextIsNew ==
    ASSUME TypeOK, TokenInv, NEW n \in Task, n = ntasks + 1 PROVE state[n] = "TASK_NEW"
  BY DEF TypeOK, VmTypeOK, TokenInv, Created, Task

LEMMA OwnFuturesInit == Init => OwnFutures
  BY DEF Init, OwnFutures

\* A new task and its creator do not change who owns the futures of others.
LEMMA OwnFuturesStep ==
    ASSUME "share" \notin Ops, TypeOK, TokenInv, OwnFutures, [Next]_vars
    PROVE  OwnFutures'
<1> USE Labels, Basics DEF TypeOK, TokenInv, At
<1>1. CASE UNCHANGED <<awaits, parent_process>>
  BY <1>1 DEF OwnFutures
<1>2. ASSUME NEW p \in Process, NEW q \in Process, NEW n \in Task, NEW b,
             Spawn(p, q, n, b)
      PROVE  OwnFutures'
  <2>1. /\ state[n] = "TASK_NEW"
        /\ \A x \in Task : x # n => parent_process'[x] = parent_process[x]
        /\ UNCHANGED awaits
    BY <1>2 DEF Spawn, process_create_unqueued_task, TaskTypeOK, VmTypeOK, Created, Task
  <2>2. awaits[n] = NULL /\ \A x \in Task : awaits[x] # n
    BY <2>1, Unborn DEF Created
  <2> QED BY <2>1, <2>2 DEF OwnFutures, TaskTypeOK
<1>3. ASSUME NEW p \in Process, NEW n \in Task, NEW s, NEW r, Delegate(p, n, s, r)
      PROVE  OwnFutures'
  <2>0. PICK t \in Task : t = cur[p] /\ pc[p] \in {"start", "exec"}
    BY <1>3, InHand DEF Delegate
  <2>1. /\ state[n] = "TASK_NEW" /\ parent_process[t] = p
        /\ parent_process'[n] = p
        /\ \A x \in Task : x # n => parent_process'[x] = parent_process[x]
        /\ \A x \in Task : x # t => awaits'[x] = awaits[x]
        /\ awaits'[t] = n \/ awaits'[t] = awaits[t]
    <3>1. state[n] = "TASK_NEW" /\ parent_process[t] = p
      BY <1>3, <2>0, NextIsNew DEF Delegate, OwnTasks
    <3>2. parent_process' = [parent_process EXCEPT ![n] = p]
      BY <1>3 DEF Delegate, process_create_unqueued_task
    <3>3. UNCHANGED awaits \/ awaits' = [awaits EXCEPT ![t] = n]
      BY <1>3, <2>0 DEF Delegate
    <3> QED BY <2>0, <3>1, <3>2, <3>3 DEF TaskTypeOK
  <2>2. awaits[n] = NULL /\ n # t /\ \A x \in Task : awaits[x] # n
    BY <2>0, <2>1, Unborn, NotVisited DEF Created
  <2> QED BY <2>1, <2>2 DEF OwnFutures, TaskTypeOK
<1>4. ASSUME NEW p \in Process, NEW f \in Task, AwaitIncomplete(p, f) PROVE OwnFutures'
  <2>1. /\ cur[p] \in Task /\ parent_process[cur[p]] = p /\ parent_process[f] = p
        /\ awaits' = [awaits EXCEPT ![cur[p]] = f] /\ UNCHANGED parent_process
    BY <1>4, InHand DEF AwaitIncomplete, Executing, Reachable, OwnTasks
  <2> QED BY <2>1 DEF OwnFutures, TaskTypeOK
<1>5. ASSUME NEW p \in Process, vm_execute_task(p) PROVE OwnFutures'
  <2>0. pc[p] \in {"start", "exec"} => cur[p] \in Task
    BY InHand
  <2>1. ASSUME NEW r, cur[p] \in Task, pc[p] \in {"start", "exec"},
               Caught(p, cur[p]) \/ Uncaught(p, cur[p], r)
        PROVE  OwnFutures'
    <3>1. CASE Caught(p, cur[p])
      BY <1>1, <3>1 DEF Caught, taskVars
    <3>2. CASE Uncaught(p, cur[p], r) /\ parent_task[cur[p]] # NULL
      BY <1>1, <3>2 DEF Uncaught, taskVars
    <3>3. CASE Uncaught(p, cur[p], r) /\ parent_task[cur[p]] = NULL
      BY <1>3, <2>1, <3>3, UncaughtDelegates
    <3> QED BY <2>1, <3>1, <3>2, <3>3
  <2>2. CASE StartWithError(p) \/ NoticeError(p) \/ \E kind \in Errors : Raise(p, kind)
    BY <2>0, <2>1, <2>2 DEF StartWithError, NoticeError, Raise
  <2>3. CASE Call(p)
    BY <1>3, <2>3, CallDelegates
  <2>4. CASE CallAsync(p) \/ CallBackground(p)
    BY <1>2, <2>4, CallAsyncSpawns, CallBackgroundSpawns
  <2>5. CASE _create_process(p)
    BY <1>2, <2>5, CreateProcessSpawns
  <2>6. ASSUME NEW f \in Task, AwaitComplete(p, f) PROVE OwnFutures'
    BY <1>1, <2>6 DEF AwaitComplete
  <2>7. CASE StartTask(p) \/ AssertFails(p) \/ InsertDependent(p) \/ SetWaiting(p) \/ Return(p)
    BY <1>1, <2>7 DEF StartTask, AssertFails, InsertDependent, SetWaiting, Return, taskVars,
       waitVars
  <2> QED BY <1>4, <1>5, <2>2, <2>3, <2>4, <2>5, <2>6, <2>7 DEF vm_execute_task
<1>6. ASSUME NEW th \in Thread, _mark_task_complete(th) PROVE OwnFutures'
  BY <1>1, <1>6 DEF _mark_task_complete, process_mark_task_complete, VisitDependent,
     AllVisited, DeliverResult, EnqueueDependent, process_remove_waiting_task, Broadcast,
     taskVars, waitVars
<1>7. ASSUME NEW p \in Process, process_run(p) \/ SpuriousWakeup(p) PROVE OwnFutures'
  BY <1>1, <1>5, <1>6, <1>7 DEF process_run, SpuriousWakeup, process_pop_task, QueueEmpty,
     process_insert_waiting_task, TellParent, _process_is_done, CountWaiting, CheckWaiting,
     taskVars, waitVars, allButPc
<1>8. ASSUME NEW w \in Worker, RunWorker(w) PROVE OwnFutures'
  BY <1>1, <1>6, <1>8 DEF RunWorker, StartWork, _execute_in_background,
     _execute_in_background_callback, taskVars, waitVars
<1>9. CASE vm_delete \/ UNCHANGED vars
  BY <1>1, <1>9 DEF vm_delete, vars, taskVars, waitVars
<1> QED BY <1>7, <1>8, <1>9 DEF Next
-----------------------------------------------------------------------------
(* A sleeping process is woken. *)

LEMMA SleeperStep ==
    ASSUME TypeOK, TokenInv, OwnFutures, SleeperIsWoken, [Next]_vars
    PROVE  SleeperIsWoken'
<1> USE Labels, Basics DEF TypeOK, TokenInv, At, Goto
\* A step that wakes or queues nothing, and does not stop a thread that is
\* going to wake one.
<1>1. ASSUME \A p \in Process : pc'[p] = "asleep" /\ queued_tasks'[p] # <<>> =>
               pc[p] = "asleep" /\ queued_tasks[p] # <<>>,
             \A th \in Thread : pc[th] \in {"unwait", "signal"} =>
               /\ pc'[th] \in {"unwait", "signal"}
               /\ parent_process'[cur'[th]] = parent_process[cur[th]]
      PROVE  SleeperIsWoken'
  BY <1>1 DEF SleeperIsWoken
<1>2. ASSUME NEW p \in Process, NEW q \in Process, NEW n \in Task, NEW b,
             Spawn(p, q, n, b), pc[q] \in {"exec", "unborn"}
      PROVE  SleeperIsWoken'
  <2>1. /\ state[n] = "TASK_NEW"
        /\ \A x \in Task : x # n => parent_process'[x] = parent_process[x]
        /\ UNCHANGED cur
        /\ \A u \in Thread : pc'[u] = pc[u] \/ (pc[u] = "unborn" /\ pc'[u] = "pop")
        /\ \A r \in Process : r # q => queued_tasks'[r] = queued_tasks[r]
    <3>1. state[n] = "TASK_NEW"
      BY <1>2, NextIsNew DEF Spawn
    <3>2. parent_process' = [parent_process EXCEPT ![n] = q]
      BY <1>2 DEF Spawn, process_create_unqueued_task
    <3>3. \A r \in Process : r # q => queued_tasks'[r] = queued_tasks[r]
      BY <1>2 DEF Spawn, process_enqueue_task, ProcessTypeOK
    <3> QED BY <1>2, <3>1, <3>2, <3>3 DEF Spawn, TaskTypeOK
  <2>2. \A u \in Thread : pc[u] \in {"unwait", "signal"} => cur[u] \in Task /\ cur[u] # n
    BY <2>1, Unborn, InHand DEF Held
  <2> QED BY <1>1, <1>2, <2>1, <2>2
<1>3. ASSUME NEW p \in Process, NEW n \in Task, NEW s, NEW r, Delegate(p, n, s, r)
      PROVE  SleeperIsWoken'
  <2>1. /\ state[n] = "TASK_NEW"
        /\ \A x \in Task : x # n => parent_process'[x] = parent_process[x]
        /\ \A u \in Thread : u # p => pc'[u] = pc[u] /\ cur'[u] = cur[u]
        /\ pc[p] \in {"start", "exec"} /\ pc'[p] \in {"suspend", "pop"}
        /\ \A q \in Process : q # p => queued_tasks'[q] = queued_tasks[q]
    <3>1. state[n] = "TASK_NEW"
      BY <1>3, NextIsNew DEF Delegate
    <3>2. \A x \in Task : x # n => parent_process'[x] = parent_process[x]
      BY <1>3 DEF Delegate, process_create_unqueued_task, TaskTypeOK
    <3>3. \A q \in Process : q # p => queued_tasks'[q] = queued_tasks[q]
      BY <1>3 DEF Delegate, process_enqueue_task, ProcessTypeOK
    <3>4. /\ pc[p] \in {"start", "exec"} /\ pc'[p] \in {"suspend", "pop"}
          /\ \A u \in Thread : u # p => pc'[u] = pc[u] /\ cur'[u] = cur[u]
      BY <1>3 DEF Delegate, ThreadTypeOK
    <3> QED BY <3>1, <3>2, <3>3, <3>4
  <2>2. \A u \in Thread : pc[u] \in {"unwait", "signal"} => cur[u] \in Task /\ cur[u] # n
    BY <2>1, Unborn, InHand DEF Held
  <2> QED BY <1>1, <2>1, <2>2
<1>4. ASSUME NEW p \in Process, vm_execute_task(p) PROVE SleeperIsWoken'
  <2>0. pc[p] \in {"start", "exec"} => cur[p] \in Task
    BY InHand
  <2>a. ASSUME NEW l \in {"exec", "failed", "insert", "set_waiting", "suspend", "mark"},
               pc[p] \in {"start", "exec", "insert", "set_waiting"},
               pc' = [pc EXCEPT ![p] = l],
               UNCHANGED <<parent_process, cur, queued_tasks>>
        PROVE  SleeperIsWoken'
    BY <1>1, <2>a DEF ThreadTypeOK
  <2>1. ASSUME NEW r, cur[p] \in Task, pc[p] \in {"start", "exec"},
               Caught(p, cur[p]) \/ Uncaught(p, cur[p], r)
        PROVE  SleeperIsWoken'
    <3>1. CASE Caught(p, cur[p])
      BY <2>1, <2>a, <3>1 DEF Caught, taskVars, setVars
    <3>2. CASE Uncaught(p, cur[p], r) /\ parent_task[cur[p]] # NULL
      BY <2>1, <2>a, <3>2 DEF Uncaught, taskVars, setVars
    <3>3. CASE Uncaught(p, cur[p], r) /\ parent_task[cur[p]] = NULL
      BY <1>3, <2>1, <3>3, UncaughtDelegates
    <3> QED BY <2>1, <3>1, <3>2, <3>3
  <2>2. CASE StartWithError(p) \/ NoticeError(p) \/ \E kind \in Errors : Raise(p, kind)
    BY <2>0, <2>1, <2>2 DEF StartWithError, NoticeError, Raise
  <2>3. CASE Call(p)
    BY <1>3, <2>3, CallDelegates
  <2>4. CASE CallAsync(p) \/ CallBackground(p)
    BY <1>2, <2>4, CallAsyncSpawns, CallBackgroundSpawns DEF Spawn
  <2>5. CASE _create_process(p)
    BY <1>2, <2>5, CreateProcessSpawns
  <2>6. ASSUME NEW f \in Task, AwaitComplete(p, f) PROVE SleeperIsWoken'
    BY <2>6 DEF AwaitComplete, SleeperIsWoken, setVars, threadVars
  <2>7. ASSUME NEW f \in Task, AwaitIncomplete(p, f) PROVE SleeperIsWoken'
    BY <2>a, <2>7 DEF AwaitIncomplete, Executing, setVars
  <2>8. CASE StartTask(p) \/ InsertDependent(p) \/ SetWaiting(p) \/ Return(p)
    BY <2>a, <2>8 DEF StartTask, InsertDependent, SetWaiting, Return, taskVars, setVars
  <2>9. CASE AssertFails(p)
    BY <2>9 DEF AssertFails, SleeperIsWoken, setVars, threadVars, taskVars
  <2> QED BY <1>4, <2>2, <2>3, <2>4, <2>5, <2>6, <2>7, <2>8, <2>9 DEF vm_execute_task
<1>5. ASSUME NEW th \in Thread, _mark_task_complete(th) PROVE SleeperIsWoken'
  <2>1. CASE EnqueueDependent(th)
    <3>1. PICK d \in Task : /\ d = dep[th] /\ pc[th] = "enqueue" /\ cur[th] \in Task
                            /\ parent_process[cur[th]] = parent_process[d]
                            /\ parent_process[d] \in Process
      <4>1. /\ pc[th] = "enqueue" /\ dep[th] \in Task /\ cur[th] \in Task
            /\ awaits[dep[th]] = cur[th] /\ state[dep[th]] = "TASK_WAITING"
        BY <2>1, InHand DEF EnqueueDependent, StateOfToken
      <4> QED BY <4>1 DEF OwnFutures, Created
    <3>2. /\ pc'[th] = "unwait" /\ \A u \in Thread : u # th => pc'[u] = pc[u]
          /\ UNCHANGED <<parent_process, cur>>
          /\ \A q \in Process : q # parent_process[d] => queued_tasks'[q] = queued_tasks[q]
      BY <2>1, <3>1 DEF EnqueueDependent, process_enqueue_task, taskVars, ThreadTypeOK,
         ProcessTypeOK
    <3> QED BY <3>1, <3>2 DEF SleeperIsWoken
  <2>2. CASE Broadcast(th)
    <3>1. PICK q \in Process : q = parent_process[cur[th]] /\ pc[th] = "signal"
      <4>1. pc[th] = "signal" /\ cur[th] \in Task /\ state[cur[th]] \in Finished
        BY <2>2, InHand DEF Broadcast, StateOfToken
      <4> QED BY <4>1 DEF Created
    <3>2. /\ pc'[q] # "asleep" /\ UNCHANGED <<parent_process, cur, queued_tasks>>
          /\ \A u \in Thread : u # th /\ u # q => pc'[u] = pc[u]
          /\ pc'[th] # "asleep"
          /\ \A u \in Thread : u # th /\ pc[u] \in {"unwait", "signal"} => pc'[u] = pc[u]
      BY <2>2, <3>1 DEF Broadcast, taskVars, setVars, ThreadTypeOK
    <3> QED BY <3>1, <3>2 DEF SleeperIsWoken
  <2>3. CASE \/ process_mark_task_complete(th) \/ AllVisited(th) \/ DeliverResult(th)
             \/ process_remove_waiting_task(th) \/ \E d \in Task : VisitDependent(th, d)
    <3>1. /\ UNCHANGED <<parent_process, queued_tasks>>
          /\ \A u \in Thread : u # th => pc'[u] = pc[u] /\ cur'[u] = cur[u]
          /\ pc'[th] # "asleep"
          /\ pc[th] # "signal"
          /\ pc[th] = "unwait" => pc'[th] = "signal" /\ cur'[th] = cur[th]
      BY <2>3 DEF process_mark_task_complete, AllVisited, DeliverResult, Next_task,
         process_remove_waiting_task, VisitDependent, taskVars, setVars, ThreadTypeOK
    <3> QED BY <1>1, <3>1
  <2> QED BY <1>5, <2>1, <2>2, <2>3 DEF _mark_task_complete
<1>6. ASSUME NEW p \in Process, process_run(p) \/ SpuriousWakeup(p) PROVE SleeperIsWoken'
  <2>1. CASE \/ QueueEmpty(p) \/ _process_is_done(p) \/ CountWaiting(p) \/ CheckWaiting(p)
             \/ SpuriousWakeup(p) \/ process_insert_waiting_task(p) \/ TellParent(p)
             \/ process_pop_task(p)
    <3>1. /\ UNCHANGED parent_process
          /\ \A u \in Thread : u # p => pc'[u] = pc[u] /\ cur'[u] = cur[u]
          /\ pc[p] \notin {"unwait", "signal"}
          /\ \A q \in Process : q # p => queued_tasks'[q] = queued_tasks[q]
          /\ pc'[p] = "asleep" => queued_tasks'[p] = <<>>
      BY <2>1 DEF QueueEmpty, _process_is_done, CountWaiting, CheckWaiting, SpuriousWakeup,
         process_insert_waiting_task, TellParent, process_pop_task, Next_task, taskVars,
         setVars, allButPc, ThreadTypeOK, ProcessTypeOK
    <3> QED BY <1>1, <3>1
  <2> QED BY <1>4, <1>5, <1>6, <2>1 DEF process_run
<1>7. ASSUME NEW w \in Worker, RunWorker(w) PROVE SleeperIsWoken'
  <2>1. CASE \/ StartWork(w) \/ _execute_in_background_callback(w)
             \/ \E k \in {"val", "err"} : _execute_in_background(w, k)
    <3>1. /\ UNCHANGED <<parent_process, queued_tasks>>
          /\ \A u \in Thread : u # w => pc'[u] = pc[u] /\ cur'[u] = cur[u]
          /\ pc[w] \notin {"unwait", "signal"} /\ pc'[w] # "asleep"
      BY <2>1 DEF StartWork, _execute_in_background_callback, _execute_in_background, taskVars,
         setVars, ThreadTypeOK
    <3> QED BY <1>1, <3>1
  <2> QED BY <1>5, <1>7, <2>1 DEF RunWorker
<1>8. CASE vm_delete \/ UNCHANGED vars
  BY <1>8 DEF vm_delete, vars, taskVars, setVars, threadVars, SleeperIsWoken
<1> QED BY <1>6, <1>7, <1>8 DEF Next

\* In a program that does not share futures, with background functions or
\* without, a process never sleeps on its condition with a queued task unless
\* the thread that queued it is about to broadcast.
THEOREM SleepersAreWoken ==
    ASSUME "share" \notin Ops PROVE Spec => []SleeperIsWoken
<1>1. Init => OwnFutures /\ SleeperIsWoken
  BY OwnFuturesInit, Basics DEF Init, SleeperIsWoken
<1>2. TypeOK /\ TokenInv /\ OwnFutures /\ SleeperIsWoken /\ [Next]_vars
        => OwnFutures' /\ SleeperIsWoken'
  BY OwnFuturesStep, SleeperStep
<1> QED BY <1>1, <1>2, TokenCorrect, PTL DEF Spec
-----------------------------------------------------------------------------
(* Without background functions, the thread of a process does everything   *)
(* that happens to its tasks.                                              *)

LEMMA WorkersNotProcesses == \A w \in Worker : w \notin Process
  BY SchedulerAssumption DEF Process

\* A worker without work does nothing.
LEMMA WorkersRest == ASSUME WorkersIdle, NEW w \in Worker PROVE ~RunWorker(w)
<1>1. pc[w] = "idle" /\ background = <<>>
  BY DEF WorkersIdle
<1> QED BY <1>1 DEF RunWorker, StartWork, _execute_in_background, At,
     _execute_in_background_callback, _mark_task_complete, process_mark_task_complete,
     VisitDependent, AllVisited, DeliverResult, EnqueueDependent,
     process_remove_waiting_task, Broadcast

LEMMA WorkersIdleStep ==
    ASSUME "background" \notin Ops, TypeOK, TokenInv, WorkersIdle, [Next]_vars
    PROVE  WorkersIdle'
<1> USE Basics, WorkersNotProcesses DEF TypeOK, At, Goto
\* A step of a process.
<1>1. ASSUME NEW p \in Process, UNCHANGED background,
             \A u \in Thread : u \notin Process => pc'[u] = pc[u]
      PROVE  WorkersIdle'
  BY <1>1 DEF WorkersIdle
<1>2. ASSUME NEW p \in Process, vm_execute_task(p) PROVE WorkersIdle'
  <2>0. pc[p] \in {"start", "exec"} => cur[p] \in Task
    BY InHand, Labels
  <2>a. ASSUME NEW l, pc' = [pc EXCEPT ![p] = l], UNCHANGED background PROVE WorkersIdle'
    BY <1>1, <2>a DEF ThreadTypeOK
  <2>1. ASSUME NEW r, Caught(p, cur[p]) \/ Uncaught(p, cur[p], r) PROVE WorkersIdle'
    <3>1. UNCHANGED background /\ \E l : pc' = [pc EXCEPT ![p] = l]
      BY <2>1 DEF Caught, Uncaught, Next_task, vmVars
    <3> QED BY <2>a, <3>1
  <2>2. CASE StartWithError(p) \/ NoticeError(p) \/ \E kind \in Errors : Raise(p, kind)
    BY <2>1, <2>2 DEF StartWithError, NoticeError, Raise
  <2>3. CASE Call(p) \/ StartTask(p) \/ InsertDependent(p) \/ SetWaiting(p) \/ Return(p)
    BY <2>3, <2>a DEF Call, StartTask, InsertDependent, SetWaiting, Return, vmVars
  <2>4. CASE CallAsync(p) \/ AssertFails(p)
    BY <1>1, <2>4 DEF CallAsync, AssertFails, threadVars
  <2>5. CASE CallBackground(p)
    BY <2>5 DEF CallBackground, Executing
  <2>6. CASE _create_process(p)
    <3>1. nprocesses + 1 \in Process
      BY <2>6, CreateProcessSpawns DEF TokenInv
    <3> QED BY <1>1, <2>6, <3>1 DEF _create_process, ThreadTypeOK
  <2>7. ASSUME NEW f \in Task, AwaitComplete(p, f) \/ AwaitIncomplete(p, f) PROVE WorkersIdle'
    BY <1>1, <2>7, <2>a DEF AwaitComplete, AwaitIncomplete, threadVars, vmVars
  <2> QED BY <1>2, <2>2, <2>3, <2>4, <2>5, <2>6, <2>7 DEF vm_execute_task
<1>3. ASSUME NEW p \in Process, _mark_task_complete(p) PROVE WorkersIdle'
  <2>1. CASE ~Broadcast(p)
    <3>1. UNCHANGED background /\ (UNCHANGED pc \/ \E l : pc' = [pc EXCEPT ![p] = l])
      BY <1>3, <2>1 DEF _mark_task_complete, process_mark_task_complete, VisitDependent,
         AllVisited, Next_task, DeliverResult, EnqueueDependent, process_remove_waiting_task,
         vmVars
    <3> QED BY <1>1, <3>1 DEF ThreadTypeOK
  <2>2. CASE Broadcast(p)
    <3>1. pc[p] = "signal" /\ cur[p] \in Task /\ parent_process[cur[p]] = p
      BY <2>2, InHand, Labels DEF Broadcast, TokenInv, OwnTasks
    <3> QED BY <1>1, <2>2, <3>1 DEF Broadcast, vmVars, ThreadTypeOK
  <2> QED BY <2>1, <2>2
<1>4. ASSUME NEW p \in Process, process_run(p) \/ SpuriousWakeup(p) PROVE WorkersIdle'
  <2>1. CASE \/ QueueEmpty(p) \/ _process_is_done(p) \/ CountWaiting(p) \/ CheckWaiting(p)
             \/ SpuriousWakeup(p) \/ process_insert_waiting_task(p) \/ TellParent(p)
             \/ process_pop_task(p)
    <3>1. UNCHANGED background /\ \E l : pc' = [pc EXCEPT ![p] = l]
      BY <2>1 DEF QueueEmpty, _process_is_done, CountWaiting, CheckWaiting, SpuriousWakeup,
         process_insert_waiting_task, TellParent, process_pop_task, Next_task, allButPc, vmVars
    <3> QED BY <1>1, <3>1 DEF ThreadTypeOK
  <2> QED BY <1>2, <1>3, <1>4, <2>1 DEF process_run
<1>5. ASSUME NEW w \in Worker PROVE ~RunWorker(w)
  BY WorkersRest
<1>6. CASE vm_delete \/ UNCHANGED vars
  BY <1>6 DEF vm_delete, vars, vmVars, threadVars, WorkersIdle
<1> QED BY <1>4, <1>5, <1>6 DEF Next

\* The threads that have a task are those of the process of the task.
LEMMA OwnThreads ==
    ASSUME TypeOK, TokenInv, OwnFutures, WorkersIdle, NEW th \in Thread
    PROVE  /\ pc[th] \in Running \cup Marking =>
                th \in Process /\ cur[th] \in Task /\ parent_process[cur[th]] = th
           /\ pc[th] \in Delivering =>
                /\ dep[th] \in Task /\ parent_process[dep[th]] = th
                /\ state[dep[th]] = "TASK_WAITING" /\ awaits[dep[th]] = cur[th]
<1>1. pc[th] \in Running \cup Marking =>
        th \in Process /\ cur[th] \in Task /\ parent_process[cur[th]] = th
  BY InHand, Labels DEF WorkersIdle, Thread, TokenInv, OwnTasks
<1>2. pc[th] \in Delivering =>
        dep[th] \in Task /\ state[dep[th]] = "TASK_WAITING" /\ awaits[dep[th]] = cur[th]
  BY InHand, Labels DEF TokenInv, StateOfToken
<1>3. pc[th] \in Delivering => cur[th] # NULL /\ pc[th] \in Marking
  BY <1>1, Labels, Basics
<1> QED BY <1>1, <1>2, <1>3 DEF OwnFutures

\* Steps that only move threads without a task, or end the program.
LEMMA IdleLocal ==
    ASSUME TypeOK, TokenInv, LocalInv,
           UNCHANGED <<parent_process, waitVars, setVars, cur, todo, dep>>,
           \A th \in Thread :
             pc'[th] = pc[th] \/ (pc[th] \in Idling /\ pc'[th] \in Idling)
    PROVE  Bookkeeping'
<1> USE Labels, Basics DEF TypeOK, LocalInv, Bookkeeping, waitVars, setVars, Idling
<1>1. WaitingSet'
  BY DEF WaitingSet, Waits
<1>2. Runnable'
  BY DEF Runnable, Queued, Held
<1>3. Arriving'
  BY DEF Arriving
<1>4. Awaited'
  BY DEF Awaited, ToVisit, Delivered, Queued
<1> QED BY <1>1, <1>2, <1>3, <1>4

\* The task in hand starts, goes on after an error, or ends.
LEMMA ProceedLocal ==
    ASSUME TypeOK, TokenInv, LocalInv, NEW p \in Process, NEW t \in Task, t = cur[p],
           pc[p] \in {"start", "exec"},
           NEW l \in {"exec", "failed", "mark"}, pc' = [pc EXCEPT ![p] = l],
           NEW s \in {"TASK_RUNNING"} \cup Finished, state' = [state EXCEPT ![t] = s],
           UNCHANGED <<parent_process, dependent_tasks, awaits, setVars, cur, todo, dep>>
    PROVE  Bookkeeping'
<1> USE Labels, Basics DEF TypeOK, LocalInv, Bookkeeping, setVars
<1>0. /\ pc'[p] = l /\ \A u \in Thread : u # p => pc'[u] = pc[u]
      /\ state'[t] = s /\ \A x \in Task : x # t => state'[x] = state[x]
      /\ parent_process[t] = p
      /\ pc[p] = "exec" => state[t] = "TASK_RUNNING"
  BY OwnThreads DEF ThreadTypeOK, TaskTypeOK, TokenInv, StateOfToken
<1>1. WaitingSet'
  <2>1. \A q \in Process, x \in Task : x # t => (Waits(q, x)' <=> Waits(q, x))
    BY <1>0 DEF Waits
  <2>2. \A q \in Process : ~Waits(q, t)'
    BY <1>0 DEF Waits
  <2>3. \A q \in Process : Waits(q, t) => q = p /\ pc[p] = "start"
    BY <1>0 DEF Waits
  <2>4. \A q \in Process : pc'[q] \in {"start", "suspend"} =>
          pc'[q] = pc[q] /\ cur[q] # t /\ cur[q] \in Task
    BY <1>0, OwnThreads
  <2>5. \A q \in Process : pc'[q] = "unwait" <=> pc[q] = "unwait"
    BY <1>0
  <2>6. \A q \in Process : pc'[q] = "suspend" => Waits(q, cur[q])'
    BY <1>0, <2>4 DEF WaitingSet, Waits
  <2>7. \A q \in Process, x \in Task : x \in waiting_tasks[q] <=>
           \/ Waits(q, x)' /\ ~(pc'[q] \in {"start", "suspend"} /\ cur[q] = x)
           \/ pc'[q] = "unwait" /\ dep[q] = x
    BY <1>0, <2>1, <2>2, <2>3, <2>4, <2>5 DEF WaitingSet
  <2> QED BY <2>5, <2>6, <2>7 DEF WaitingSet
<1>2. Runnable'
  BY <1>0 DEF Runnable, Queued, Held
<1>3. Arriving'
  BY <1>0 DEF Arriving
<1>4. Awaited'
  BY <1>0 DEF Awaited, ToVisit, Delivered, Queued
<1> QED BY <1>1, <1>2, <1>3, <1>4

LEMMA PopLocal ==
    ASSUME TypeOK, TokenInv, LocalInv, NEW p \in Process, process_pop_task(p)
    PROVE  Bookkeeping'
<1> USE Labels, Basics DEF TypeOK, LocalInv, Bookkeeping, At, Goto, taskVars, waitVars,
     setVars, threadVars, vmVars
<1>0. /\ p \in Thread
      /\ \A th \in Thread : pc[th] \in Running \cup Marking =>
           th \in Process /\ cur[th] \in Task /\ parent_process[cur[th]] = th
      /\ pc[p] \in Resuming => dep[p] \in Task
  BY OwnThreads, InHand
<1>a. PICK t \in Task :
        /\ cur' = [cur EXCEPT ![p] = t] /\ pc[p] = "pop" /\ pc' = [pc EXCEPT ![p] = "start"]
        /\ t \in Elements(queued_tasks[p])
        /\ Elements(queued_tasks'[p]) = Elements(queued_tasks[p]) \ {t}
        /\ \A q \in Process : q # p => queued_tasks'[q] = queued_tasks[q]
        /\ UNCHANGED <<taskVars, waitVars, waiting_tasks, completed_tasks, todo, dep>>
  <2>1. /\ queued_tasks[p] \in Seq(Task) /\ queued_tasks[p] # <<>>
        /\ queued_tasks'[p] = Tail(queued_tasks[p])
        /\ \A q \in Process : q # p => queued_tasks'[q] = queued_tasks[q]
        /\ pc[p] = "pop" /\ pc' = [pc EXCEPT ![p] = "start"]
        /\ cur' = [cur EXCEPT ![p] = Head(queued_tasks[p])]
        /\ UNCHANGED <<taskVars, waitVars, waiting_tasks, completed_tasks, todo, dep>>
    BY DEF process_pop_task, ProcessTypeOK
  <2>2. /\ Head(queued_tasks[p]) \in Task
        /\ Head(queued_tasks[p]) \in Elements(queued_tasks[p])
        /\ Elements(queued_tasks'[p]) = Elements(queued_tasks[p]) \ {Head(queued_tasks[p])}
    BY <2>1, ElementsTail, HeadTail DEF TokenInv, OneToken
  <2> QED BY <2>1, <2>2
<1>b. /\ cur'[p] = t /\ pc'[p] = "start"
      /\ \A u \in Thread : u # p => cur'[u] = cur[u] /\ pc'[u] = pc[u]
      /\ parent_process[t] = p /\ \A q \in Process : t \in Elements(queued_tasks[q]) => q = p
  BY <1>0, <1>a DEF ThreadTypeOK, TokenInv, OwnTasks
<1>c. \A x \in Task : /\ Queued(x) => Queued(x)' \/ x = t
                      /\ Held(x) \/ x = t => Held(x)'
                      /\ Delivered(x) => Delivered(x)'
  BY <1>0, <1>a, <1>b DEF Queued, Held, Delivered
<1>1. WaitingSet'
  <2>1. \A q \in Process, x \in Task : x # t => (Waits(q, x)' <=> Waits(q, x))
    BY <1>a DEF Waits
  <2>2. \A q \in Process : ~Waits(q, t) /\ (Waits(q, t)' => q = p)
    BY <1>a, <1>b DEF Waits
  <2>3. \A q \in Process : q # p /\ pc[q] = "suspend" => Waits(q, cur[q])'
    BY <1>a, <1>b, <1>0 DEF WaitingSet, Waits
  <2>4. \A q \in Process, x \in Task : x \in waiting_tasks[q] <=>
           \/ Waits(q, x)' /\ ~(pc'[q] \in {"start", "suspend"} /\ cur'[q] = x)
           \/ pc'[q] = "unwait" /\ dep[q] = x
    BY <1>a, <1>b, <2>1, <2>2 DEF WaitingSet
  <2> QED BY <1>a, <1>b, <2>3, <2>4 DEF WaitingSet, Waits
<1>2. Runnable'
  BY <1>a, <1>c DEF Runnable
<1>3. Arriving'
  BY <1>0 DEF process_pop_task, Arriving, ThreadTypeOK, TaskTypeOK
<1>4. Awaited'
  <2>1. \A f, x \in Task : ToVisit(f, x) => ToVisit(f, x)'
    BY <1>a, <1>b DEF ToVisit, TokenInv, Completed
  <2> QED BY <1>a, <1>b, <1>c, <2>1 DEF Awaited, TaskTypeOK, TokenInv, StateOfToken
<1> QED BY <1>1, <1>2, <1>3, <1>4


LEMMA SpawnLocal ==
    ASSUME TypeOK, TokenInv, LocalInv, NEW p \in Process, NEW q \in Process, NEW n \in Task,
           NEW b, Spawn(p, q, n, b), process_enqueue_task(q, n),
           pc[q] \in {"exec", "unborn"}
    PROVE  Bookkeeping'
<1> USE Labels, Basics DEF TypeOK, LocalInv, Bookkeeping
<1>0. /\ state[n] = "TASK_NEW" /\ parent_process[n] = NULL
      /\ ~Queued(n) /\ ~Held(n) /\ ~Delivered(n)
      /\ \A x \in Task : awaits[x] # n
      /\ \A u \in Process : pc[u] \in Running \cup Marking => cur[u] # n
  BY Unborn, NextIsNew DEF Spawn, TokenInv, Created
<1>1. /\ parent_process'[n] = q
      /\ \A x \in Task : x # n => parent_process'[x] = parent_process[x]
      /\ state'[n] = "TASK_RUNNING" /\ \A x \in Task : x # n => state'[x] = state[x]
      /\ \A u \in Thread : pc'[u] = pc[u] \/ (pc[u] = "unborn" /\ pc'[u] = "pop")
      /\ UNCHANGED <<dependent_tasks, awaits, waiting_tasks, completed_tasks, cur, todo, dep>>
  <2>1. /\ parent_process' = [parent_process EXCEPT ![n] = q]
        /\ state' = [state EXCEPT ![n] = "TASK_RUNNING"]
    BY DEF Spawn, process_create_unqueued_task
  <2> QED BY <2>1 DEF Spawn, TaskTypeOK
<1>2. /\ Elements(queued_tasks'[q]) = Elements(queued_tasks[q]) \cup {n}
      /\ \A r \in Process : r # q => queued_tasks'[r] = queued_tasks[r]
      /\ \A x \in Task : Queued(x)' <=> Queued(x) \/ x = n
  BY EnqueueElements
<1>3. \A x \in Task : (Held(x)' <=> Held(x)) /\ (Delivered(x)' <=> Delivered(x))
  BY <1>1 DEF Held, Delivered
<1>4. WaitingSet'
  <2>1. \A r \in Process, x \in Task : x # n => (Waits(r, x)' <=> Waits(r, x))
    BY <1>1, <1>2 DEF Waits
  <2>2. \A r \in Process : ~Waits(r, n) /\ ~Waits(r, n)'
    BY <1>0, <1>1 DEF Waits
  <2>3. \A r \in Process : /\ pc'[r] \in {"start", "suspend"} <=> pc[r] \in {"start", "suspend"}
                           /\ pc'[r] = "unwait" <=> pc[r] = "unwait"
                           /\ pc'[r] = "suspend" <=> pc[r] = "suspend"
    BY <1>1
  <2>4. \A r \in Process : pc'[r] = "suspend" => Waits(r, cur[r])'
    BY <1>0, <1>1, <2>1, <2>3, OwnThreads DEF WaitingSet
  <2>5. \A r \in Process : pc'[r] = "unwait" => dep[r] \in Elements(queued_tasks'[r])
    BY <1>2, <2>3 DEF WaitingSet
  <2>6. \A r \in Process, x \in Task : x \in waiting_tasks[r] <=>
           \/ Waits(r, x)' /\ ~(pc'[r] \in {"start", "suspend"} /\ cur[r] = x)
           \/ pc'[r] = "unwait" /\ dep[r] = x
    BY <2>1, <2>2, <2>3 DEF WaitingSet
  <2> QED BY <1>1, <2>4, <2>5, <2>6 DEF WaitingSet
<1>5. Runnable'
  BY <1>1, <1>2, <1>3 DEF Runnable
<1>6. Arriving'
  <2>1. ASSUME NEW r \in Process, pc'[r] \in {"insert", "set_waiting"}
        PROVE  /\ awaits[cur[r]] \in Task /\ awaits[cur[r]] # n
               /\ pc[r] = pc'[r]
    BY <1>0, <1>1, <2>1, OwnThreads DEF TaskTypeOK, TokenInv, StateOfToken
  <2> QED BY <1>1, <2>1 DEF Arriving
<1>7. Awaited'
  <2>1. \A f, x \in Task : f # n => (ToVisit(f, x)' <=> ToVisit(f, x))
    BY <1>1 DEF ToVisit
  <2>2. \A r \in Process : pc[r] = "start" => pc'[r] = "start"
    BY <1>1
  <2> QED BY <1>0, <1>1, <1>2, <1>3, <2>1, <2>2 DEF Awaited, TaskTypeOK, TokenInv, StateOfToken
<1> QED BY <1>4, <1>5, <1>6, <1>7

LEMMA DelegateLocal ==
    ASSUME TypeOK, TokenInv, LocalInv, NEW p \in Process, NEW n \in Task, NEW s, NEW r,
           Delegate(p, n, s, r)
    PROVE  Bookkeeping'
<1> USE Labels, Basics DEF TypeOK, LocalInv, Bookkeeping
<1>0. PICK t \in Task : t = cur[p] /\ parent_process[t] = p /\ pc[p] \in {"start", "exec"}
  BY OwnThreads DEF Delegate
<1>1. /\ state[n] = "TASK_NEW" /\ parent_process[n] = NULL
      /\ ~Queued(n) /\ ~Held(n) /\ ~Delivered(n) /\ t # n /\ ~Queued(t) /\ ~Delivered(t)
      /\ \A x \in Task : awaits[x] # n /\ ~ToVisit(n, x)
      /\ \A u \in Process : pc[u] \in Running \cup Marking => cur[u] # n
      /\ \A u \in Process : n \notin completed_tasks[u]
      /\ pc[p] = "exec" => state[t] = "TASK_RUNNING"
  <2>1. state[n] = "TASK_NEW"
    BY NextIsNew DEF Delegate
  <2>2. Held(t) /\ t # n
    BY <1>0, <2>1, Unborn DEF Held
  <2> QED BY <1>0, <2>1, <2>2, Unborn DEF TokenInv, Created, OneToken, StateOfToken
<1>2. /\ parent_process'[n] = p /\ dependent_tasks'[n] = {t}
      /\ \A x \in Task : x # n => /\ parent_process'[x] = parent_process[x]
                                  /\ dependent_tasks'[x] = dependent_tasks[x]
      /\ state'[n] = "TASK_RUNNING" /\ state'[t] = s
      /\ \A x \in Task : x # n /\ x # t => state'[x] = state[x]
      /\ \A x \in Task : x # t => awaits'[x] = awaits[x]
      /\ \A u \in Thread : u # p => pc'[u] = pc[u] /\ cur'[u] = cur[u]
      /\ \/ s = "TASK_WAITING" /\ pc'[p] = "suspend" /\ cur'[p] = t /\ awaits'[t] = n
         \/ s = "TASK_ERROR" /\ pc'[p] = "pop"
      /\ UNCHANGED <<waiting_tasks, completed_tasks, todo, dep>>
  <2>1. /\ parent_process' = [parent_process EXCEPT ![n] = p]
        /\ dependent_tasks' = [dependent_tasks EXCEPT ![n] = {t}]
        /\ state' = [state EXCEPT ![t] = s, ![n] = "TASK_RUNNING"]
    BY <1>0 DEF Delegate, process_create_unqueued_task
  <2>2. /\ parent_process'[n] = p /\ dependent_tasks'[n] = {t}
        /\ \A x \in Task : x # n => /\ parent_process'[x] = parent_process[x]
                                    /\ dependent_tasks'[x] = dependent_tasks[x]
        /\ state'[n] = "TASK_RUNNING" /\ state'[t] = s
        /\ \A x \in Task : x # n /\ x # t => state'[x] = state[x]
    BY <1>1, <2>1 DEF TaskTypeOK
  <2> QED BY <1>0, <2>2 DEF Delegate, TaskTypeOK, ThreadTypeOK
<1>3. /\ Elements(queued_tasks'[p]) = Elements(queued_tasks[p]) \cup {n}
      /\ \A q \in Process : q # p => queued_tasks'[q] = queued_tasks[q]
      /\ \A x \in Task : Queued(x)' <=> Queued(x) \/ x = n
  BY EnqueueElements DEF Delegate
<1>4. \A x \in Task : (Held(x) /\ x # t => Held(x)') /\ (Delivered(x) => Delivered(x)')
  BY <1>0, <1>2 DEF Held, Delivered
<1>5. WaitingSet'
  <2>1. \A q \in Process, x \in Task : x # n /\ x # t => (Waits(q, x)' <=> Waits(q, x))
    BY <1>2, <1>3 DEF Waits
  <2>2. \A q \in Process : ~Waits(q, n) /\ ~Waits(q, n)'
    BY <1>1, <1>2 DEF Waits
  <2>3. \A q \in Process : Waits(q, t)' <=> s = "TASK_WAITING" /\ q = p
    BY <1>0, <1>1, <1>2, <1>3 DEF Waits, Queued
  <2>4. \A q \in Process : Waits(q, t) => q = p /\ pc[p] = "start"
    BY <1>0, <1>1 DEF Waits
  <2>5. \A q \in Process : q # p /\ pc[q] \in Running \cup Marking =>
          cur[q] # t /\ cur[q] \in Task
    BY <1>0, OwnThreads
  <2>6. \A q \in Process : pc'[q] = "suspend" => Waits(q, cur[q])'
    <3>1. ASSUME NEW q \in Process, q # p, pc'[q] = "suspend" PROVE Waits(q, cur[q])'
      BY <1>1, <1>2, <1>3, <2>1, <2>5, <3>1 DEF WaitingSet, Waits
    <3>2. pc'[p] = "suspend" => Waits(p, cur[p])'
      BY <1>2, <2>3 DEF Waits
    <3> QED BY <3>1, <3>2
  <2>7. \A q \in Process : pc'[q] = "unwait" => dep[q] \in Elements(queued_tasks'[q])
    BY <1>2, <1>3 DEF WaitingSet
  <2>8. \A q \in Process, x \in Task : x \in waiting_tasks[q] <=>
           \/ Waits(q, x)' /\ ~(pc'[q] \in {"start", "suspend"} /\ cur'[q] = x)
           \/ pc'[q] = "unwait" /\ dep[q] = x
    BY <1>0, <1>2, <2>1, <2>2, <2>3, <2>4, <2>5 DEF WaitingSet
  <2> QED BY <1>2, <2>6, <2>7, <2>8 DEF WaitingSet
<1>6. Runnable'
  BY <1>2, <1>3, <1>4 DEF Runnable
<1>7. Arriving'
  <2>1. ASSUME NEW q \in Process, pc'[q] \in {"insert", "set_waiting"}
        PROVE  /\ q # p /\ pc'[q] = pc[q] /\ cur'[q] = cur[q] /\ cur[q] \in Task /\ cur[q] # t
               /\ awaits[cur[q]] \in Task /\ awaits[cur[q]] # n
    BY <1>0, <1>1, <1>2, <2>1, OwnThreads DEF TaskTypeOK, TokenInv, StateOfToken
  <2> QED BY <1>2, <2>1 DEF Arriving
<1>8. Awaited'
  <2>1. \A f, x \in Task : f # n /\ ToVisit(f, x) => ToVisit(f, x)'
    BY <1>0, <1>2 DEF ToVisit, TokenInv, Completed
  <2>2. ToVisit(n, t)'
    BY <1>1, <1>2 DEF ToVisit
  <2>3. \A q \in Process, x \in Task : x # t /\ pc[q] = "start" /\ cur[q] = x =>
           pc'[q] = "start" /\ cur'[q] = x
    BY <1>0, <1>2
  <2> QED BY <1>1, <1>2, <1>3, <1>4, <2>1, <2>2, <2>3 DEF Awaited, TaskTypeOK, TokenInv,
       StateOfToken
<1> QED BY <1>5, <1>6, <1>7, <1>8

LEMMA AwaitCompleteLocal ==
    ASSUME TypeOK, TokenInv, LocalInv, NEW p \in Process, NEW f \in Task, AwaitComplete(p, f)
    PROVE  Bookkeeping'
<1> USE Labels, Basics DEF TypeOK, LocalInv, Bookkeeping, At, Goto, Executing, taskVars,
     waitVars, setVars, threadVars, vmVars
<1>0. /\ p \in Thread
      /\ \A th \in Thread : pc[th] \in Running \cup Marking =>
           th \in Process /\ cur[th] \in Task /\ parent_process[cur[th]] = th
      /\ pc[p] \in Resuming => dep[p] \in Task
  BY OwnThreads, InHand
<1>1. WaitingSet'
  BY <1>0 DEF AwaitComplete, WaitingSet, Waits, ThreadTypeOK, TaskTypeOK, ProcessTypeOK
<1>2. Runnable'
  BY <1>0 DEF AwaitComplete, Runnable, Queued, Held, ThreadTypeOK, TaskTypeOK
<1>3. Arriving'
  BY <1>0 DEF AwaitComplete, Arriving, ThreadTypeOK, TaskTypeOK
<1>4. Awaited'
  BY <1>0 DEF AwaitComplete, Awaited, ToVisit, Delivered, Queued, ThreadTypeOK, TaskTypeOK
<1> QED BY <1>1, <1>2, <1>3, <1>4

LEMMA AwaitIncompleteLocal ==
    ASSUME TypeOK, TokenInv, LocalInv, NEW p \in Process, NEW f \in Task, AwaitIncomplete(p, f)
    PROVE  Bookkeeping'
<1> USE Labels, Basics DEF TypeOK, LocalInv, Bookkeeping, At, Goto, Executing, taskVars,
     waitVars, setVars, threadVars, vmVars
<1>0. /\ p \in Thread
      /\ \A th \in Thread : pc[th] \in Running \cup Marking =>
           th \in Process /\ cur[th] \in Task /\ parent_process[cur[th]] = th
      /\ pc[p] \in Resuming => dep[p] \in Task
  BY OwnThreads, InHand
<1>a. PICK t \in Task : /\ t = cur[p] /\ pc[p] = "exec" /\ state[t] = "TASK_RUNNING"
                        /\ awaits' = [awaits EXCEPT ![t] = f]
                        /\ pc' = [pc EXCEPT ![p] = "insert"]
                        /\ state[f] \notin Finished
                        /\ UNCHANGED <<parent_process, state, dependent_tasks, setVars, cur,
                                       todo, dep>>
  BY <1>0 DEF AwaitIncomplete, TokenInv, StateOfToken, future_is_complete
<1>b. /\ awaits'[t] = f /\ \A x \in Task : x # t => awaits'[x] = awaits[x]
      /\ pc'[p] = "insert" /\ \A u \in Thread : u # p => pc'[u] = pc[u]
      /\ \A u \in Process : u # p /\ pc[u] \in Running \cup Marking => cur[u] # t
  BY <1>0, <1>a DEF ThreadTypeOK, TaskTypeOK
<1>1. WaitingSet'
  BY <1>0 DEF AwaitIncomplete, WaitingSet, Waits, ThreadTypeOK, TaskTypeOK, ProcessTypeOK
<1>2. Runnable'
  BY <1>0 DEF AwaitIncomplete, Runnable, Queued, Held, ThreadTypeOK, TaskTypeOK
<1>3. Arriving'
  <2>1. \A q \in Process : f \notin completed_tasks[q]
    BY <1>a DEF TokenInv, Completed
  <2>2. parent_process[f] \in Process
    BY DEF AwaitIncomplete, Reachable, TokenInv, Created
  <2> QED BY <1>0, <1>a, <1>b, <2>1, <2>2 DEF Arriving
<1>4. Awaited'
  <2>1. \A x, y \in Task : ToVisit(x, y) => ToVisit(x, y)'
    BY <1>a DEF ToVisit
  <2>2. \A x \in Task : (Queued(x) => Queued(x)') /\ (Delivered(x) => Delivered(x)')
    BY <1>a, <1>b DEF Queued, Delivered
  <2> QED BY <1>a, <1>b, <2>1, <2>2 DEF Awaited, TaskTypeOK, TokenInv, StateOfToken
<1> QED BY <1>1, <1>2, <1>3, <1>4

LEMMA InsertDependentLocal ==
    ASSUME TypeOK, TokenInv, LocalInv, NEW p \in Process, InsertDependent(p)
    PROVE  Bookkeeping'
<1> USE Labels, Basics DEF TypeOK, LocalInv, Bookkeeping, At, Goto, taskVars, waitVars,
     setVars, threadVars, vmVars
<1>0. /\ p \in Thread
      /\ \A th \in Thread : pc[th] \in Running \cup Marking =>
           th \in Process /\ cur[th] \in Task /\ parent_process[cur[th]] = th
      /\ pc[p] \in Resuming => dep[p] \in Task
  BY OwnThreads, InHand
<1>1. WaitingSet'
  BY <1>0 DEF InsertDependent, WaitingSet, Waits, ThreadTypeOK, TaskTypeOK, ProcessTypeOK
<1>2. Runnable'
  BY <1>0 DEF InsertDependent, Runnable, Queued, Held, ThreadTypeOK, TaskTypeOK
<1>3. Arriving'
  <2>1. PICK t \in Task : t = cur[p] /\ pc[p] = "insert" /\ awaits[t] \in Task
    BY <1>0 DEF InsertDependent, TokenInv, StateOfToken, TaskTypeOK
  <2>2. /\ dependent_tasks' = [dependent_tasks EXCEPT ![awaits[t]] = @ \cup {t}]
        /\ pc' = [pc EXCEPT ![p] = "set_waiting"]
        /\ UNCHANGED <<parent_process, awaits, completed_tasks, cur>>
    BY <2>1 DEF InsertDependent
  <2>3. /\ \A x \in Task : dependent_tasks[x] \subseteq dependent_tasks'[x]
        /\ t \in dependent_tasks'[awaits[t]]
        /\ pc'[p] = "set_waiting" /\ \A u \in Thread : u # p => pc'[u] = pc[u]
    BY <2>1, <2>2 DEF TaskTypeOK, ThreadTypeOK
  <2>4. \A q \in Process : pc[q] \in {"insert", "set_waiting"} => awaits[cur[q]] \in Task
    BY <1>0 DEF TokenInv, StateOfToken, TaskTypeOK
  <2> QED BY <2>1, <2>2, <2>3, <2>4 DEF Arriving
<1>4. Awaited'
  BY <1>0 DEF InsertDependent, Awaited, ToVisit, Delivered, Queued, ThreadTypeOK, TaskTypeOK
<1> QED BY <1>1, <1>2, <1>3, <1>4

LEMMA SetWaitingLocal ==
    ASSUME TypeOK, TokenInv, LocalInv, NEW p \in Process, SetWaiting(p)
    PROVE  Bookkeeping'
<1> USE Labels, Basics DEF TypeOK, LocalInv, Bookkeeping, At, Goto, taskVars, waitVars,
     setVars, threadVars, vmVars
<1>0. /\ p \in Thread
      /\ \A th \in Thread : pc[th] \in Running \cup Marking =>
           th \in Process /\ cur[th] \in Task /\ parent_process[cur[th]] = th
      /\ pc[p] \in Resuming => dep[p] \in Task
  BY OwnThreads, InHand
<1>a. PICK t \in Task : /\ t = cur[p] /\ pc[p] = "set_waiting" /\ state[t] = "TASK_RUNNING"
                        /\ awaits[t] \in Task /\ parent_process[t] = p
  BY <1>0 DEF SetWaiting, TokenInv, StateOfToken, TaskTypeOK
<1>b. /\ state'[t] = "TASK_WAITING" /\ \A x \in Task : x # t => state'[x] = state[x]
      /\ pc'[p] = "suspend" /\ \A u \in Thread : u # p => pc'[u] = pc[u]
      /\ \A u \in Process : u # p /\ pc[u] \in Running \cup Marking => cur[u] # t
      /\ UNCHANGED <<parent_process, dependent_tasks, awaits, setVars, cur, todo, dep>>
  BY <1>0, <1>a DEF SetWaiting, ThreadTypeOK, TaskTypeOK
<1>1. WaitingSet'
  <2>1. \A q \in Process, x \in Task : x # t => (Waits(q, x)' <=> Waits(q, x))
    BY <1>b DEF Waits
  <2>2. ~Queued(t)
    <3>1. Held(t)
      BY <1>a DEF Held
    <3> QED BY <3>1 DEF TokenInv, OneToken
  <2>3. \A q \in Process : (Waits(q, t)' <=> q = p) /\ ~Waits(q, t)
    BY <1>a, <1>b, <2>2 DEF Waits, Queued
  <2>4. \A q \in Process : pc'[q] = "suspend" => Waits(q, cur[q])'
    <3>1. ASSUME NEW q \in Process, q # p, pc'[q] = "suspend" PROVE Waits(q, cur[q])'
      BY <1>0, <1>b, <2>1, <3>1 DEF WaitingSet
    <3>2. Waits(p, cur[p])'
      BY <1>a, <1>b, <2>3 DEF Waits
    <3> QED BY <3>1, <3>2
  <2>5. \A q \in Process, x \in Task : x \in waiting_tasks[q] <=>
           \/ Waits(q, x)' /\ ~(pc'[q] \in {"start", "suspend"} /\ cur[q] = x)
           \/ pc'[q] = "unwait" /\ dep[q] = x
    BY <1>a, <1>b, <2>1, <2>3 DEF WaitingSet
  <2> QED BY <1>b, <2>4, <2>5 DEF WaitingSet
<1>2. Runnable'
  BY <1>0 DEF SetWaiting, Runnable, Queued, Held, ThreadTypeOK, TaskTypeOK
<1>3. Arriving'
  BY <1>0 DEF SetWaiting, Arriving, ThreadTypeOK, TaskTypeOK
<1>4. Awaited'
  <2>1. \A x, y \in Task : ToVisit(x, y) => ToVisit(x, y)'
    BY <1>b DEF ToVisit
  <2>2. \A x \in Task : (Queued(x) => Queued(x)') /\ (Delivered(x) => Delivered(x)')
    BY <1>a, <1>b DEF Queued, Delivered
  <2>3. ToVisit(awaits[t], t)
    BY <1>a DEF Arriving, ToVisit
  <2> QED BY <1>a, <1>b, <2>1, <2>2, <2>3 DEF Awaited, TaskTypeOK, TokenInv, StateOfToken
<1> QED BY <1>1, <1>2, <1>3, <1>4

LEMMA InsertWaitingLocal ==
    ASSUME TypeOK, TokenInv, LocalInv, NEW p \in Process, process_insert_waiting_task(p)
    PROVE  Bookkeeping'
<1> USE Labels, Basics DEF TypeOK, LocalInv, Bookkeeping, At, Goto, Next_task, taskVars,
     waitVars, setVars, threadVars, vmVars
<1>0. /\ p \in Thread
      /\ \A th \in Thread : pc[th] \in Running \cup Marking =>
           th \in Process /\ cur[th] \in Task /\ parent_process[cur[th]] = th
      /\ pc[p] \in Resuming => dep[p] \in Task
  BY OwnThreads, InHand
<1>1. WaitingSet'
  BY <1>0 DEF process_insert_waiting_task, WaitingSet, Waits, ThreadTypeOK, TaskTypeOK,
     ProcessTypeOK
<1>2. Runnable'
  BY <1>0 DEF process_insert_waiting_task, Runnable, Queued, Held, ThreadTypeOK, TaskTypeOK
<1>3. Arriving'
  BY <1>0 DEF process_insert_waiting_task, Arriving, ThreadTypeOK, TaskTypeOK
<1>4. Awaited'
  <2>1. /\ pc[p] = "suspend" /\ pc'[p] = "pop"
        /\ \A u \in Thread : u # p => pc'[u] = pc[u] /\ cur'[u] = cur[u]
        /\ todo[p] = {}
        /\ UNCHANGED <<taskVars, waitVars, queued_tasks, completed_tasks, todo, dep>>
    BY <1>0 DEF process_insert_waiting_task, ThreadTypeOK, TokenInv, Completed
  <2>2. \A x, y \in Task : ToVisit(x, y) => ToVisit(x, y)'
    BY <2>1 DEF ToVisit
  <2>3. \A x \in Task : (Queued(x) => Queued(x)') /\ (Delivered(x) => Delivered(x)')
    BY <2>1 DEF Queued, Delivered
  <2> QED BY <2>1, <2>2, <2>3 DEF Awaited, TaskTypeOK, TokenInv, StateOfToken
<1> QED BY <1>1, <1>2, <1>3, <1>4

LEMMA TellParentLocal ==
    ASSUME TypeOK, TokenInv, LocalInv, NEW p \in Process, TellParent(p)
    PROVE  Bookkeeping'
<1> USE Labels, Basics DEF TypeOK, LocalInv, Bookkeeping, At, Goto, taskVars, waitVars,
     setVars, threadVars, vmVars
<1>0. /\ p \in Thread
      /\ \A th \in Thread : pc[th] \in Running \cup Marking =>
           th \in Process /\ cur[th] \in Task /\ parent_process[cur[th]] = th
      /\ pc[p] \in Resuming => dep[p] \in Task
  BY OwnThreads, InHand
<1>1. WaitingSet'
  BY <1>0 DEF TellParent, WaitingSet, Waits, ThreadTypeOK, TaskTypeOK, ProcessTypeOK
<1>2. Runnable'
  BY <1>0 DEF TellParent, Runnable, Queued, Held, ThreadTypeOK, TaskTypeOK
<1>3. Arriving'
  BY <1>0 DEF TellParent, Arriving, ThreadTypeOK, TaskTypeOK
<1>4. Awaited'
  BY <1>0 DEF TellParent, Awaited, ToVisit, Delivered, Queued, ThreadTypeOK, TaskTypeOK
<1> QED BY <1>1, <1>2, <1>3, <1>4

LEMMA MarkLocal ==
    ASSUME TypeOK, TokenInv, LocalInv, NEW p \in Process, process_mark_task_complete(p)
    PROVE  Bookkeeping'
<1> USE Labels, Basics DEF TypeOK, LocalInv, Bookkeeping, At, Goto, taskVars, waitVars,
     setVars, threadVars, vmVars
<1>0. /\ p \in Thread
      /\ \A th \in Thread : pc[th] \in Running \cup Marking =>
           th \in Process /\ cur[th] \in Task /\ parent_process[cur[th]] = th
      /\ pc[p] \in Resuming => dep[p] \in Task
  BY OwnThreads, InHand
<1>a. PICK t \in Task : t = cur[p] /\ pc[p] = "mark" /\ parent_process[t] = p
  BY <1>0 DEF process_mark_task_complete
<1>b. /\ completed_tasks'[p] = completed_tasks[p] \cup {t}
      /\ \A q \in Process : q # p => completed_tasks'[q] = completed_tasks[q]
      /\ todo'[p] = dependent_tasks[t] /\ \A u \in Thread : u # p => todo'[u] = todo[u]
      /\ todo[p] = {}
      /\ pc'[p] = "visit" /\ \A u \in Thread : u # p => pc'[u] = pc[u]
      /\ UNCHANGED <<taskVars, waitVars, queued_tasks, waiting_tasks, cur, dep>>
  <2>1. todo[p] = {}
    BY <1>0, <1>a DEF TokenInv, Completed
  <2> QED BY <1>0, <1>a, <2>1 DEF process_mark_task_complete, ThreadTypeOK, ProcessTypeOK
<1>1. WaitingSet'
  BY <1>0 DEF process_mark_task_complete, WaitingSet, Waits, ThreadTypeOK, TaskTypeOK,
     ProcessTypeOK
<1>2. Runnable'
  BY <1>0 DEF process_mark_task_complete, Runnable, Queued, Held, ThreadTypeOK, TaskTypeOK
<1>3. Arriving'
  <2>1. ASSUME NEW q \in Process, pc'[q] \in {"insert", "set_waiting"}
        PROVE  /\ pc[q] = pc'[q] /\ q # p /\ cur[q] \in Task /\ awaits[cur[q]] \in Task
               /\ parent_process[awaits[cur[q]]] = q
    BY <1>0, <1>b, <2>1 DEF TokenInv, StateOfToken, TaskTypeOK, OwnFutures
  <2> QED BY <1>b, <2>1 DEF Arriving
<1>4. Awaited'
  <2>1. ASSUME NEW f \in Task, NEW x \in Task, f # NULL, ToVisit(f, x),
               parent_process[f] \in Process
        PROVE  ToVisit(f, x)'
    <3>1. CASE x \in dependent_tasks[f] /\ f \notin completed_tasks[parent_process[f]]
      <4>1. CASE f = t
        BY <1>0, <1>a, <1>b, <3>1, <4>1 DEF ToVisit
      <4>2. CASE f # t
        BY <1>b, <2>1, <3>1, <4>2 DEF ToVisit
      <4> QED BY <4>1, <4>2
    <3>2. CASE \E u \in Thread : cur[u] = f /\ x \in todo[u]
      BY <1>b, <3>2 DEF ToVisit
    <3> QED BY <2>1, <3>1, <3>2 DEF ToVisit
  <2>2. \A x \in Task : (Queued(x) => Queued(x)') /\ (Delivered(x) => Delivered(x)')
    BY <1>a, <1>b DEF Queued, Delivered
  <2>3. \A x \in Task : state[x] = "TASK_WAITING" =>
           awaits[x] \in Task /\ parent_process[awaits[x]] \in Process
    BY DEF TokenInv, StateOfToken, Created, TaskTypeOK
  <2>4. \A q \in Process : pc[q] = "start" => pc'[q] = "start"
    BY <1>a, <1>b
  <2> QED BY <1>b, <2>1, <2>2, <2>3, <2>4 DEF Awaited
<1> QED BY <1>1, <1>2, <1>3, <1>4

LEMMA VisitLocal ==
    ASSUME TypeOK, TokenInv, LocalInv, NEW p \in Process, NEW d \in Task, VisitDependent(p, d)
    PROVE  Bookkeeping'
<1> USE Labels, Basics DEF TypeOK, LocalInv, Bookkeeping, At, Goto, taskVars, waitVars,
     setVars, threadVars, vmVars
<1>0. /\ p \in Thread
      /\ \A th \in Thread : pc[th] \in Running \cup Marking =>
           th \in Process /\ cur[th] \in Task /\ parent_process[cur[th]] = th
      /\ pc[p] \in Resuming => dep[p] \in Task
  BY OwnThreads, InHand
<1>1. WaitingSet'
  BY <1>0 DEF VisitDependent, WaitingSet, Waits, ThreadTypeOK, TaskTypeOK, ProcessTypeOK
<1>2. Runnable'
  BY <1>0 DEF VisitDependent, Runnable, Queued, Held, ThreadTypeOK, TaskTypeOK
<1>3. Arriving'
  BY <1>0 DEF VisitDependent, Arriving, ThreadTypeOK, TaskTypeOK
<1>4. Awaited'
  BY <1>0 DEF VisitDependent, Awaited, ToVisit, Delivered, Queued, ThreadTypeOK, TaskTypeOK
<1> QED BY <1>1, <1>2, <1>3, <1>4

LEMMA AllVisitedLocal ==
    ASSUME TypeOK, TokenInv, LocalInv, NEW p \in Process, AllVisited(p)
    PROVE  Bookkeeping'
<1> USE Labels, Basics DEF TypeOK, LocalInv, Bookkeeping, At, Goto, Next_task, taskVars,
     waitVars, setVars, threadVars, vmVars
<1>0. /\ p \in Thread
      /\ \A th \in Thread : pc[th] \in Running \cup Marking =>
           th \in Process /\ cur[th] \in Task /\ parent_process[cur[th]] = th
      /\ pc[p] \in Resuming => dep[p] \in Task
  BY OwnThreads, InHand
<1>1. WaitingSet'
  BY <1>0 DEF AllVisited, WaitingSet, Waits, ThreadTypeOK, TaskTypeOK, ProcessTypeOK
<1>2. Runnable'
  <2>1. /\ pc[p] = "visit" /\ state[cur[p]] \in Finished
        /\ \A u \in Thread : u # p => pc'[u] = pc[u] /\ cur'[u] = cur[u]
        /\ UNCHANGED <<state, queued_tasks>>
    BY <1>0 DEF AllVisited, ThreadTypeOK, TokenInv, StateOfToken
  <2> QED BY <2>1 DEF Runnable, Queued, Held
<1>3. Arriving'
  BY <1>0 DEF AllVisited, Arriving, ThreadTypeOK, TaskTypeOK
<1>4. Awaited'
  BY <1>0 DEF AllVisited, Awaited, ToVisit, Delivered, Queued, ThreadTypeOK, TaskTypeOK
<1> QED BY <1>1, <1>2, <1>3, <1>4

LEMMA DeliverLocal ==
    ASSUME TypeOK, TokenInv, LocalInv, NEW p \in Process, DeliverResult(p)
    PROVE  Bookkeeping'
<1> USE Labels, Basics DEF TypeOK, LocalInv, Bookkeeping, At, Goto, taskVars, waitVars,
     setVars, threadVars, vmVars
<1>0. /\ p \in Thread
      /\ \A th \in Thread : pc[th] \in Running \cup Marking =>
           th \in Process /\ cur[th] \in Task /\ parent_process[cur[th]] = th
      /\ pc[p] \in Resuming => dep[p] \in Task
  BY OwnThreads, InHand
<1>1. WaitingSet'
  BY <1>0 DEF DeliverResult, WaitingSet, Waits, ThreadTypeOK, TaskTypeOK, ProcessTypeOK
<1>2. Runnable'
  BY <1>0 DEF DeliverResult, Runnable, Queued, Held, ThreadTypeOK, TaskTypeOK
<1>3. Arriving'
  BY <1>0 DEF DeliverResult, Arriving, ThreadTypeOK, TaskTypeOK
<1>4. Awaited'
  BY <1>0 DEF DeliverResult, Awaited, ToVisit, Delivered, Queued, ThreadTypeOK, TaskTypeOK
<1> QED BY <1>1, <1>2, <1>3, <1>4

LEMMA EnqueueDependentLocal ==
    ASSUME TypeOK, TokenInv, LocalInv, NEW p \in Process, EnqueueDependent(p)
    PROVE  Bookkeeping'
<1> USE Labels, Basics DEF TypeOK, LocalInv, Bookkeeping, At, Goto, taskVars, waitVars,
     setVars, threadVars, vmVars
<1>0. /\ p \in Thread
      /\ \A th \in Thread : pc[th] \in Running \cup Marking =>
           th \in Process /\ cur[th] \in Task /\ parent_process[cur[th]] = th
      /\ pc[p] \in Resuming => dep[p] \in Task
  BY OwnThreads, InHand
<1>a. PICK d \in Task : /\ d = dep[p] /\ pc[p] = "enqueue" /\ parent_process[d] = p
                        /\ state[d] = "TASK_WAITING" /\ ~Queued(d)
  <2>1. /\ pc[p] = "enqueue" /\ dep[p] \in Task /\ parent_process[dep[p]] = p
        /\ state[dep[p]] = "TASK_WAITING"
    BY <1>0, OwnThreads DEF EnqueueDependent
  <2>2. Delivered(dep[p])
    BY <1>0, <2>1 DEF Delivered
  <2> QED BY <2>1, <2>2 DEF TokenInv, OneToken
<1>b. /\ process_enqueue_task(p, d)
      /\ pc'[p] = "unwait" /\ \A u \in Thread : u # p => pc'[u] = pc[u]
      /\ UNCHANGED <<taskVars, waitVars, waiting_tasks, completed_tasks, cur, todo, dep>>
  BY <1>a DEF EnqueueDependent, ThreadTypeOK
<1>c. /\ Elements(queued_tasks'[p]) = Elements(queued_tasks[p]) \cup {d}
      /\ \A r \in Process : r # p => queued_tasks'[r] = queued_tasks[r]
      /\ \A x \in Task : Queued(x)' <=> Queued(x) \/ x = d
  BY <1>b, EnqueueElements
<1>1. WaitingSet'
  <2>1. \A q \in Process, x \in Task : x # d => (Waits(q, x)' <=> Waits(q, x))
    BY <1>b, <1>c DEF Waits
  <2>2. \A q \in Process : (Waits(q, d) <=> q = p) /\ ~Waits(q, d)'
    BY <1>a, <1>b, <1>c DEF Waits, Queued
  <2>3. \A q \in Process : pc'[q] = "suspend" => Waits(q, cur[q])'
    <3>1. ASSUME NEW q \in Process, pc'[q] = "suspend" PROVE Waits(q, cur[q])'
      <4>1. q # p /\ pc[q] = "suspend" /\ cur[q] \in Task /\ cur[q] # d
        BY <1>0, <1>a, <1>b, <3>1
      <4> QED BY <1>b, <2>1, <4>1 DEF WaitingSet
    <3> QED BY <3>1
  <2>4. \A q \in Process : pc'[q] = "unwait" => dep[q] \in Elements(queued_tasks'[q])
    BY <1>a, <1>b, <1>c DEF WaitingSet
  <2>5. \A q \in Process, x \in Task : x \in waiting_tasks[q] <=>
           \/ Waits(q, x)' /\ ~(pc'[q] \in {"start", "suspend"} /\ cur[q] = x)
           \/ pc'[q] = "unwait" /\ dep[q] = x
    BY <1>a, <1>b, <2>1, <2>2 DEF WaitingSet
  <2> QED BY <1>b, <2>3, <2>4, <2>5 DEF WaitingSet
<1>2. Runnable'
  BY <1>a, <1>b, <1>c DEF Runnable, Held
<1>3. Arriving'
  BY <1>0 DEF EnqueueDependent, Arriving, ThreadTypeOK, TaskTypeOK
<1>4. Awaited'
  <2>1. \A x, y \in Task : ToVisit(x, y) => ToVisit(x, y)'
    BY <1>b DEF ToVisit
  <2>2. \A x \in Task : x # d /\ Delivered(x) => Delivered(x)'
    BY <1>a, <1>b DEF Delivered
  <2>3. \A q \in Process : pc[q] = "start" => pc'[q] = "start"
    BY <1>a, <1>b
  <2> QED BY <1>b, <1>c, <2>1, <2>2, <2>3 DEF Awaited, TaskTypeOK, TokenInv, StateOfToken
<1> QED BY <1>1, <1>2, <1>3, <1>4

LEMMA RemoveWaitingLocal ==
    ASSUME TypeOK, TokenInv, LocalInv, NEW p \in Process, process_remove_waiting_task(p)
    PROVE  Bookkeeping'
<1> USE Labels, Basics DEF TypeOK, LocalInv, Bookkeeping, At, Goto, taskVars, waitVars,
     setVars, threadVars, vmVars
<1>0. /\ p \in Thread
      /\ \A th \in Thread : pc[th] \in Running \cup Marking =>
           th \in Process /\ cur[th] \in Task /\ parent_process[cur[th]] = th
      /\ pc[p] \in Resuming => dep[p] \in Task
  BY OwnThreads, InHand
<1>1. WaitingSet'
  <2>1. PICK d \in Task : /\ d = dep[p] /\ pc[p] = "unwait" /\ parent_process[d] = p
                          /\ d \in Elements(queued_tasks[p])
    BY <1>0 DEF process_remove_waiting_task, WaitingSet, TokenInv, OwnTasks
  <2>2. /\ waiting_tasks'[p] = waiting_tasks[p] \ {d}
        /\ \A q \in Process : q # p => waiting_tasks'[q] = waiting_tasks[q]
        /\ pc'[p] = "signal" /\ \A u \in Thread : u # p => pc'[u] = pc[u]
        /\ UNCHANGED <<parent_process, state, queued_tasks, cur, dep>>
    BY <1>0, <2>1 DEF process_remove_waiting_task, ThreadTypeOK, ProcessTypeOK
  <2>3. \A q \in Process, x \in Task : Waits(q, x)' <=> Waits(q, x)
    BY <2>2 DEF Waits
  <2>4. ~Waits(p, d)
    BY <2>1 DEF Waits
  <2>5. \A q \in Process : pc'[q] = "suspend" => Waits(q, cur[q])'
    BY <1>0, <2>2, <2>3 DEF WaitingSet
  <2>6. \A q \in Process, x \in Task : x \in waiting_tasks'[q] <=>
           \/ Waits(q, x)' /\ ~(pc'[q] \in {"start", "suspend"} /\ cur[q] = x)
           \/ pc'[q] = "unwait" /\ dep[q] = x
    BY <2>1, <2>2, <2>3, <2>4 DEF WaitingSet
  <2> QED BY <2>2, <2>5, <2>6 DEF WaitingSet
<1>2. Runnable'
  BY <1>0 DEF process_remove_waiting_task, Runnable, Queued, Held, ThreadTypeOK, TaskTypeOK
<1>3. Arriving'
  BY <1>0 DEF process_remove_waiting_task, Arriving, ThreadTypeOK, TaskTypeOK
<1>4. Awaited'
  BY <1>0 DEF process_remove_waiting_task, Awaited, ToVisit, Delivered, Queued, ThreadTypeOK,
     TaskTypeOK
<1> QED BY <1>1, <1>2, <1>3, <1>4

LEMMA BroadcastLocal ==
    ASSUME TypeOK, TokenInv, LocalInv, NEW p \in Process, Broadcast(p)
    PROVE  Bookkeeping'
<1> USE Labels, Basics DEF TypeOK, LocalInv, Bookkeeping, At, Goto, taskVars, waitVars,
     setVars, threadVars, vmVars
<1>0. /\ p \in Thread
      /\ \A th \in Thread : pc[th] \in Running \cup Marking =>
           th \in Process /\ cur[th] \in Task /\ parent_process[cur[th]] = th
      /\ pc[p] \in Resuming => dep[p] \in Task
  BY OwnThreads, InHand
<1>1. WaitingSet'
  BY <1>0 DEF Broadcast, WaitingSet, Waits, ThreadTypeOK, TaskTypeOK, ProcessTypeOK
<1>2. Runnable'
  BY <1>0 DEF Broadcast, Runnable, Queued, Held, ThreadTypeOK, TaskTypeOK
<1>3. Arriving'
  BY <1>0 DEF Broadcast, Arriving, ThreadTypeOK, TaskTypeOK
<1>4. Awaited'
  BY <1>0 DEF Broadcast, Awaited, ToVisit, Delivered, Queued, ThreadTypeOK, TaskTypeOK
<1> QED BY <1>1, <1>2, <1>3, <1>4

\* Every step of a program without background functions whose futures stay in
\* their process keeps the books of the scheduler.
LEMMA BookkeepingStep ==
    ASSUME "share" \notin Ops, "background" \notin Ops, TypeOK, TokenInv, LocalInv, [Next]_vars
    PROVE  Bookkeeping'
<1> USE Labels, Basics DEF TypeOK, At, Goto
<1>0. OwnFutures /\ WorkersIdle
  BY DEF LocalInv
<1>1. ASSUME NEW p \in Process,
             \/ QueueEmpty(p) \/ _process_is_done(p) \/ CountWaiting(p)
             \/ CheckWaiting(p) \/ SpuriousWakeup(p) \/ AssertFails(p) \/ vm_delete
      PROVE  Bookkeeping'
  <2>1. UNCHANGED <<parent_process, waitVars, setVars, cur, todo, dep>>
    BY <1>1 DEF QueueEmpty, _process_is_done, CountWaiting, CheckWaiting, SpuriousWakeup,
       AssertFails, vm_delete, allButPc, taskVars, threadVars
  <2>2. \/ UNCHANGED pc
        \/ /\ pc[p] \in {"pop", "is_done", "count", "check", "asleep"}
           /\ \E l \in {"is_done", "returned", "count", "check", "asleep", "pop"} :
                pc' = [pc EXCEPT ![p] = l]
    BY <1>1 DEF QueueEmpty, _process_is_done, CountWaiting, CheckWaiting, SpuriousWakeup,
       AssertFails, vm_delete, threadVars
  <2>3. \A th \in Thread : pc'[th] = pc[th] \/ (pc[th] \in Idling /\ pc'[th] \in Idling)
    BY <2>2 DEF Idling, ThreadTypeOK
  <2> QED BY <2>1, <2>3, IdleLocal
<1>2. ASSUME NEW p \in Process, vm_execute_task(p) PROVE Bookkeeping'
  <2>0. pc[p] \in {"start", "exec"} => cur[p] \in Task
    BY InHand
  <2>1. ASSUME NEW r, cur[p] \in Task, pc[p] \in {"start", "exec"},
               Caught(p, cur[p]) \/ Uncaught(p, cur[p], r)
        PROVE  Bookkeeping'
    <3>1. CASE Caught(p, cur[p])
      BY <2>1, <3>1, ProceedLocal DEF Caught, taskVars
    <3>2. CASE Uncaught(p, cur[p], r) /\ parent_task[cur[p]] # NULL
      BY <2>1, <3>2, ProceedLocal DEF Uncaught, taskVars, Finished
    <3>3. CASE Uncaught(p, cur[p], r) /\ parent_task[cur[p]] = NULL
      BY <2>1, <3>3, UncaughtDelegates, DelegateLocal
    <3> QED BY <2>1, <3>1, <3>2, <3>3
  <2>2. CASE StartWithError(p) \/ NoticeError(p) \/ \E kind \in Errors : Raise(p, kind)
    BY <2>0, <2>1, <2>2 DEF StartWithError, NoticeError, Raise
  <2>3. CASE Call(p)
    BY <2>3, CallDelegates, DelegateLocal
  <2>4. CASE CallAsync(p)
    <3>1. pc[p] = "exec" /\ process_enqueue_task(p, ntasks + 1)
      BY <2>4 DEF CallAsync, Executing
    <3> QED BY <2>4, <3>1, CallAsyncSpawns, SpawnLocal
  <2>5. CASE CallBackground(p)
    BY <2>5 DEF CallBackground, Executing
  <2>6. CASE _create_process(p)
    <3>1. process_enqueue_task(nprocesses + 1, ntasks + 1)
      BY <2>6 DEF _create_process
    <3> QED BY <2>6, <3>1, CreateProcessSpawns, SpawnLocal DEF TokenInv
  <2>7. CASE StartTask(p)
    BY <2>0, <2>7, ProceedLocal DEF StartTask, taskVars
  <2>8. CASE Return(p)
    BY <2>0, <2>8, ProceedLocal DEF Return, taskVars, Finished
  <2> QED BY <1>1, <1>2, <2>2, <2>3, <2>4, <2>5, <2>6, <2>7, <2>8, AwaitCompleteLocal,
       AwaitIncompleteLocal, InsertDependentLocal, SetWaitingLocal DEF vm_execute_task
<1>3. ASSUME NEW p \in Process, _mark_task_complete(p) PROVE Bookkeeping'
  BY <1>3, MarkLocal, VisitLocal, AllVisitedLocal, DeliverLocal, EnqueueDependentLocal,
     RemoveWaitingLocal, BroadcastLocal DEF _mark_task_complete
<1>4. ASSUME NEW p \in Process, process_run(p) \/ SpuriousWakeup(p) PROVE Bookkeeping'
  BY <1>1, <1>2, <1>3, <1>4, PopLocal, InsertWaitingLocal, TellParentLocal DEF process_run
<1>5. ASSUME NEW w \in Worker PROVE ~RunWorker(w)
  BY <1>0, WorkersRest
<1>6. CASE vm_delete
  <2>1. 1 \in Process
    BY SchedulerAssumption DEF Process
  <2> QED BY <1>1, <1>6, <2>1
<1>7. CASE UNCHANGED vars
  BY <1>7, IdleLocal DEF vars, taskVars, waitVars, setVars, threadVars
<1> QED BY <1>4, <1>5, <1>6, <1>7 DEF Next

LEMMA LocalInit == Init => LocalInv
<1> SUFFICES ASSUME Init PROVE LocalInv
  OBVIOUS
<1>1. OwnFutures
  BY OwnFuturesInit
<1>2. WorkersIdle
  BY WorkersNotProcesses, Basics, SchedulerAssumption DEF Init, WorkersIdle, Process
<1>3. /\ \A t \in Task : state[t] \in {"TASK_NEW", "TASK_RUNNING"}
      /\ \A t \in Task : state[t] = "TASK_RUNNING" => t = 1
      /\ \A p \in Process : pc[p] \in {"pop", "unborn", "idle"} /\ waiting_tasks[p] = {}
      /\ 1 \in Process /\ queued_tasks[1] = <<1>>
  BY SchedulerAssumption, Basics DEF Init, Process
<1>4. Queued(1)
  BY <1>3 DEF Queued, Elements
<1> QED BY <1>1, <1>2, <1>3, <1>4
     DEF LocalInv, Bookkeeping, WaitingSet, Waits, Runnable, Arriving, Awaited

LEMMA LocalCorrect ==
    ASSUME "share" \notin Ops, "background" \notin Ops
    PROVE  Spec => [](TypeOK /\ TokenInv /\ LocalInv)
<1>1. TypeOK /\ TokenInv /\ LocalInv /\ [Next]_vars => LocalInv'
  BY OwnFuturesStep, WorkersIdleStep, BookkeepingStep DEF LocalInv
<1> QED BY <1>1, LocalInit, TokenCorrect, PTL DEF Spec

\* A task that waits is among the dependents that the task it waits for, or
\* the thread completing it, will visit, or it is on its way into its queue:
\* no completion slips between the test of the future, the insertion into
\* dependent_tasks and the assignment of TASK_WAITING, provided futures stay
\* in their process and there are no background functions.
THEOREM WakeupsNotLost ==
    ASSUME "share" \notin Ops, "background" \notin Ops PROVE Spec => []NoLostWakeup
<1>1. ASSUME TypeOK, TokenInv, LocalInv, NEW t \in Task, state[t] = "TASK_WAITING"
      PROVE  WillBeResumed(t)
  <2>1. \/ ToVisit(awaits[t], t) \/ Delivered(t) \/ Queued(t)
        \/ \E p \in Process : pc[p] = "start" /\ cur[p] = t
    BY <1>1 DEF LocalInv, Bookkeeping, Awaited
  <2>2. CASE Queued(t)
    <3>1. parent_process[t] \in Process /\ t \in Elements(queued_tasks[parent_process[t]])
      BY <1>1, <2>2 DEF Queued, TokenInv, OwnTasks
    <3> QED BY <3>1, InQueueElements DEF WillBeResumed
  <2> QED BY <2>1, <2>2 DEF WillBeResumed, ToVisit, Delivered, Delivering
<1>2. TypeOK /\ TokenInv /\ LocalInv => NoLostWakeup
  BY <1>1 DEF NoLostWakeup
<1> QED BY <1>2, LocalCorrect, PTL

\* Whenever a process is between two tasks, and so whenever _process_is_done
\* looks, its waiting_tasks are exactly its tasks that wait and are not queued
\* again, under the same conditions.
THEOREM WaitingSetsExact ==
    ASSUME "share" \notin Ops, "background" \notin Ops PROVE Spec => []WaitingSetExact
<1>1. ASSUME TypeOK, LocalInv, NEW p \in Process, pc[p] \in Idling
      PROVE  waiting_tasks[p] = {t \in Task : /\ parent_process[t] = p
                                              /\ state[t] = "TASK_WAITING"
                                              /\ ~InQueue(p, t)}
  <2>1. waiting_tasks[p] \subseteq Task /\ pc[p] \notin {"start", "suspend", "unwait"}
    BY <1>1 DEF TypeOK, ProcessTypeOK, Idling
  <2>2. \A t \in Task : t \in waiting_tasks[p] <=> Waits(p, t)
    BY <1>1, <2>1 DEF LocalInv, Bookkeeping, WaitingSet
  <2> QED BY <2>1, <2>2, InQueueElements DEF Waits
<1>2. TypeOK /\ LocalInv => WaitingSetExact
  BY <1>1 DEF WaitingSetExact
<1> QED BY <1>2, LocalCorrect, PTL

\* A process returns by _process_is_done only, and no task is added to a
\* process that has returned.
LEMMA Returned ==
    ASSUME TypeOK, TokenInv, WorkersIdle, [Next]_vars, NEW p \in Process, pc'[p] = "returned"
    PROVE  \/ /\ pc[p] = "is_done" /\ waiting_tasks[p] = {} /\ queued_tasks[p] = <<>>
              /\ UNCHANGED <<parent_process, state>>
           \/ /\ pc[p] = "returned"
              /\ \A t \in Task : parent_process'[t] = p => parent_process[t] = p
<1> DEFINE Stays == /\ pc[p] = "returned"
                    /\ \A t \in Task : parent_process'[t] = p => parent_process[t] = p
<1> USE Labels, Basics DEF TypeOK, At, Goto
<1>1. ASSUME NEW q \in Process, NEW n \in Task, NEW b, NEW r \in Process, Spawn(q, r, n, b),
             pc[r] \in {"exec", "unborn"}
      PROVE  Stays
  <2>1. /\ parent_process' = [parent_process EXCEPT ![n] = r]
        /\ \A u \in Thread : pc'[u] = pc[u] \/ (pc[u] = "unborn" /\ pc'[u] = "pop")
    BY <1>1 DEF Spawn, process_create_unqueued_task
  <2> QED BY <1>1, <2>1 DEF TaskTypeOK
<1>2. ASSUME NEW q \in Process, NEW n \in Task, NEW s, NEW r, Delegate(q, n, s, r)
      PROVE  Stays
  <2>1. /\ parent_process' = [parent_process EXCEPT ![n] = q]
        /\ q # p /\ \A u \in Thread : u # q => pc'[u] = pc[u]
    BY <1>2 DEF Delegate, process_create_unqueued_task, ThreadTypeOK
  <2> QED BY <2>1 DEF TaskTypeOK
<1>3. ASSUME NEW q \in Process, UNCHANGED parent_process, UNCHANGED pc \/
             \E l \in Label \ {"returned"} : pc' = [pc EXCEPT ![q] = l]
      PROVE  Stays
  BY <1>3 DEF ThreadTypeOK
<1> HIDE DEF Stays
<1>4. ASSUME NEW q \in Process, vm_execute_task(q) PROVE Stays
  <2>0. pc[q] \in {"start", "exec"} => cur[q] \in Task
    BY InHand
  <2>1. ASSUME NEW r, cur[q] \in Task, pc[q] \in {"start", "exec"},
               Caught(q, cur[q]) \/ Uncaught(q, cur[q], r)
        PROVE  Stays
    <3>1. CASE Caught(q, cur[q])
      BY <1>3, <3>1 DEF Caught, taskVars, Label, Running
    <3>2. CASE Uncaught(q, cur[q], r) /\ parent_task[cur[q]] # NULL
      BY <1>3, <3>2 DEF Uncaught, taskVars, Label, Running
    <3>3. CASE Uncaught(q, cur[q], r) /\ parent_task[cur[q]] = NULL
      BY <1>2, <2>1, <3>3, UncaughtDelegates
    <3> QED BY <2>1, <3>1, <3>2, <3>3
  <2>2. CASE StartWithError(q) \/ NoticeError(q) \/ \E kind \in Errors : Raise(q, kind)
    BY <2>0, <2>1, <2>2 DEF StartWithError, NoticeError, Raise
  <2>3. CASE Call(q)
    BY <1>2, <2>3, CallDelegates
  <2>4. CASE CallAsync(q) \/ CallBackground(q)
    BY <1>1, <2>4, CallAsyncSpawns, CallBackgroundSpawns DEF Spawn
  <2>5. CASE _create_process(q)
    BY <1>1, <2>5, CreateProcessSpawns DEF TokenInv
  <2>6. ASSUME NEW f \in Task, AwaitComplete(q, f) \/ AwaitIncomplete(q, f) PROVE Stays
    BY <1>3, <2>6 DEF AwaitComplete, AwaitIncomplete, threadVars, Label, Running
  <2>7. CASE \/ StartTask(q) \/ AssertFails(q) \/ InsertDependent(q) \/ SetWaiting(q)
             \/ Return(q)
    BY <1>3, <2>7 DEF StartTask, AssertFails, InsertDependent, SetWaiting, Return, taskVars,
       threadVars, Label, Running, Marking
  <2> QED BY <1>4, <2>2, <2>3, <2>4, <2>5, <2>6, <2>7 DEF vm_execute_task
<1>5. ASSUME NEW q \in Process, _mark_task_complete(q) PROVE Stays
  <2>1. CASE ~Broadcast(q)
    BY <1>3, <1>5, <2>1 DEF _mark_task_complete, process_mark_task_complete, VisitDependent,
       AllVisited, Next_task, DeliverResult, EnqueueDependent, process_remove_waiting_task,
       taskVars, Label, Running, Marking, Resuming, Idling
  <2>2. CASE Broadcast(q)
    BY <2>2 DEF Broadcast, taskVars, ThreadTypeOK, Stays
  <2> QED BY <2>1, <2>2
<1>6. ASSUME NEW q \in Process, process_run(q) \/ SpuriousWakeup(q)
      PROVE  \/ Stays
             \/ /\ pc[p] = "is_done" /\ waiting_tasks[p] = {} /\ queued_tasks[p] = <<>>
                /\ UNCHANGED <<parent_process, state>>
  <2>1. CASE \/ QueueEmpty(q) \/ CountWaiting(q) \/ CheckWaiting(q)
             \/ SpuriousWakeup(q) \/ process_insert_waiting_task(q) \/ TellParent(q)
             \/ process_pop_task(q)
    BY <1>3, <2>1 DEF QueueEmpty, CountWaiting, CheckWaiting, SpuriousWakeup,
       process_insert_waiting_task, TellParent, process_pop_task, Next_task, allButPc,
       taskVars, Label, Running, Marking, Idling
  <2>2. CASE _process_is_done(q)
    <3>1. CASE q = p
      BY <2>2, <3>1 DEF _process_is_done, allButPc, taskVars, waitVars, ThreadTypeOK
    <3>2. CASE q # p
      BY <2>2, <3>2 DEF _process_is_done, allButPc, taskVars, ThreadTypeOK, Stays
    <3> QED BY <3>1, <3>2
  <2> QED BY <1>4, <1>5, <1>6, <2>1, <2>2 DEF process_run
<1>7. CASE vm_delete \/ UNCHANGED vars
  BY <1>7 DEF vm_delete, vars, taskVars, threadVars, Stays
<1> QED BY <1>6, <1>7, WorkersRest DEF Next, Stays

\* A process returns only when all of its tasks are finished, the async ones
\* that nobody waits for included: what _process_is_done tests, that nothing is
\* queued or waiting, is enough, under the same conditions.
THEOREM ProcessesReturnWhenDone ==
    ASSUME "share" \notin Ops, "background" \notin Ops PROVE Spec => []ReturnsWhenDone
<1>1. Init => ReturnsWhenDone
  BY Basics DEF Init, ReturnsWhenDone
<1>2. ASSUME TypeOK, TokenInv, LocalInv, ReturnsWhenDone, [Next]_vars
      PROVE  ReturnsWhenDone'
  <2> SUFFICES ASSUME NEW p \in Process, pc'[p] = "returned", NEW t \in Task,
                      parent_process'[t] = p
               PROVE  state'[t] \in Finished
    BY DEF ReturnsWhenDone, future_is_complete, Finished
  <2>1. CASE pc[p] = "returned" /\ parent_process[t] = p
    <3>1. Done(t)
      BY <1>2, <2>1 DEF ReturnsWhenDone, future_is_complete, Finished, Done
    <3> QED BY <1>2, <3>1, LifeOfTask DEF Life, MayGoOn, Done, Finished
  <2>2. CASE /\ pc[p] = "is_done" /\ waiting_tasks[p] = {} /\ queued_tasks[p] = <<>>
             /\ UNCHANGED <<parent_process, state>>
    <3>1. parent_process[t] = p /\ t \notin Elements(queued_tasks[p])
      BY <2>2, ElementsEmpty
    <3>2. state[t] # "TASK_NEW"
      <4>1. parent_process[t] # NULL
        BY <3>1, Basics DEF Process, NULL
      <4> QED BY <1>2, <4>1 DEF TokenInv, Created
    <3>3. state[t] # "TASK_WAITING"
      BY <1>2, <2>2, <3>1 DEF LocalInv, Bookkeeping, WaitingSet, Waits
    <3>4. ~Queued(t)
      BY <1>2, <3>1 DEF TokenInv, OwnTasks, Queued
    <3>5. ~Held(t)
      <4>1. ASSUME NEW th \in Thread, pc[th] \in Holding, cur[th] = t PROVE FALSE
        <5>1. pc[th] \in Running \cup Marking /\ OwnFutures /\ WorkersIdle
          BY <1>2, <4>1 DEF Holding, LocalInv
        <5>2. th = p
          BY <1>2, <3>1, <4>1, <5>1, OwnThreads
        <5> QED BY <2>2, <4>1, <5>2, Labels
      <4> QED BY <4>1 DEF Held
    <3>6. state[t] # "TASK_RUNNING"
      BY <1>2, <3>4, <3>5 DEF LocalInv, Bookkeeping, Runnable
    <3> QED BY <1>2, <2>2, <3>2, <3>3, <3>6 DEF TypeOK, TaskTypeOK, TaskState, Finished
  <2> QED BY <1>2, <2>1, <2>2, Returned DEF LocalInv
<1> QED BY <1>1, <1>2, LocalCorrect, PTL DEF Spec
-----------------------------------------------------------------------------
(* Programs that only call functions of the language. *)

\* What a step may do to the errors of the tasks.
FlagsFollow ==
    /\ \A t \in Task : context_error'[t] => context_error[t]
    /\ \A p \in Process : pc'[p] = "failed" =>
         (pc[p] = "failed" /\ cur'[p] = cur[p]) \/ state'[cur'[p]] = "TASK_ERROR"
    /\ \A t \in Task : state'[t] = "TASK_ERROR" =>
         state[t] = "TASK_ERROR" \/ resval'[t].kind = "err"
    /\ \A t \in Task : child_task_has_error'[t] =>
         \/ child_task_has_error[t] /\ state'[t] = state[t]
         \/ state'[t] = "TASK_ERROR"
         \/ state'[t] = "TASK_WAITING" /\ state'[awaits'[t]] = "TASK_ERROR"

LEMMA FlagsFollowed ==
    ASSUME TypeOK, TokenInv, ErrorFlags, [Next]_vars, FlagsFollow PROVE ErrorFlags'
<1>0. \A t \in Task : Life(t)
  BY LifeOfTask
<1>1. \A t \in Task : state[t] = "TASK_ERROR" =>
        state'[t] = "TASK_ERROR" /\ resval'[t] = resval[t]
  BY <1>0 DEF Life, MayGoOn, Done, Finished
<1>2. \A t \in Task : state[t] = "TASK_WAITING" =>
        awaits[t] \in Task /\ (state'[t] = state[t] => awaits'[t] = awaits[t])
  BY <1>0 DEF Life, Finished, TypeOK, TaskTypeOK, TokenInv, StateOfToken
<1>3. \A p \in Process : pc[p] = "failed" => cur[p] \in Task
  BY InHand, Labels, Basics
<1>4. \A t \in Task : ~context_error'[t]
  BY DEF FlagsFollow, ErrorFlags
<1>5. \A p \in Process : pc'[p] = "failed" => state'[cur'[p]] = "TASK_ERROR"
  BY <1>1, <1>3 DEF FlagsFollow, ErrorFlags
<1>6. \A t \in Task : state'[t] = "TASK_ERROR" => resval'[t].kind = "err"
  BY <1>1 DEF FlagsFollow, ErrorFlags
<1>7. \A t \in Task : child_task_has_error'[t] =>
        \/ state'[t] = "TASK_ERROR"
        \/ state'[t] = "TASK_WAITING" /\ state'[awaits'[t]] = "TASK_ERROR"
  BY <1>1, <1>2 DEF FlagsFollow, ErrorFlags
<1> QED BY <1>4, <1>5, <1>6, <1>7 DEF ErrorFlags

\* Steps that leave the states of the tasks and their errors alone.
LEMMA QuietCalls ==
    ASSUME CallsInv, UNCHANGED <<parent_task, parent_process, dependent_tasks, state, errVars>>,
           \A p \in Process : completed_tasks[p] \subseteq completed_tasks'[p],
           \A p \in Process : \/ pc'[p] = pc[p] /\ cur'[p] = cur[p]
                              \/ pc'[p] \notin {"failed", "insert", "set_waiting"},
           TypeOK, TokenInv
    PROVE  /\ \A p \in Process : pc'[p] \notin {"insert", "set_waiting"}
           /\ ParentDepends' /\ FlagsFollow
<1>1. \A p \in Process : pc'[p] \notin {"insert", "set_waiting"}
  BY DEF CallsInv
<1>2. \A t \in Task : parent_task[t] # NULL => parent_process[t] \in Process
  BY DEF TokenInv, Created
<1>3. ParentDepends'
  BY <1>2 DEF CallsInv, ParentDepends
<1>4. FlagsFollow
  BY DEF FlagsFollow, errVars
<1> QED BY <1>1, <1>3, <1>4

\* The task in hand starts, goes on after an error, or ends.
LEMMA ProceedCalls ==
    ASSUME CallsInv, TypeOK, TokenInv, NEW p \in Process, NEW t \in Task, t = cur[p],
           pc[p] \in {"start", "exec"},
           NEW l \in {"exec", "failed", "mark"}, pc' = [pc EXCEPT ![p] = l],
           NEW s, state' = [state EXCEPT ![t] = s],
           UNCHANGED <<taskVars, dependent_tasks, setVars, cur>>,
           \A x \in Task : context_error'[x] => context_error[x],
           \A x \in Task : child_task_has_error'[x] => child_task_has_error[x],
           \/ ~child_task_has_error'[t] /\ s # "TASK_ERROR" /\ l # "failed"
           \/ s = "TASK_ERROR" /\ resval'[t].kind = "err"
    PROVE  /\ \A q \in Process : pc'[q] \notin {"insert", "set_waiting"}
           /\ ParentDepends' /\ FlagsFollow
<1>1. /\ pc'[p] = l /\ \A u \in Process : u # p => pc'[u] = pc[u]
      /\ state'[t] = s /\ \A x \in Task : x # t => state'[x] = state[x]
  BY Basics DEF TypeOK, ThreadTypeOK, TaskTypeOK
<1>2. \A q \in Process : pc'[q] \notin {"insert", "set_waiting"}
  BY <1>1 DEF CallsInv
<1>3. ParentDepends'
  BY DEF CallsInv, ParentDepends, taskVars, setVars
<1>4. FlagsFollow
  BY <1>1 DEF FlagsFollow
<1> QED BY <1>2, <1>3, <1>4

\* A call, or the io.errorln of a task without a parent.
LEMMA DelegateCalls ==
    ASSUME CallsInv, TypeOK, TokenInv, NEW p \in Process, NEW n \in Task, NEW s, NEW r,
           Delegate(p, n, s, r), UNCHANGED context_error,
           \A x \in Task : child_task_has_error'[x] => child_task_has_error[x],
           s = "TASK_ERROR" => r.kind = "err"
    PROVE  /\ \A q \in Process : pc'[q] \notin {"insert", "set_waiting"}
           /\ ParentDepends' /\ FlagsFollow
<1> USE Labels, Basics DEF TypeOK
<1>0. PICK t \in Task : t = cur[p] /\ pc[p] \in {"start", "exec"}
  BY InHand DEF Delegate
<1>1. /\ state[n] = "TASK_NEW" /\ t # n
      /\ pc[p] = "exec" => state[t] = "TASK_RUNNING"
  <2>1. state[n] = "TASK_NEW"
    BY NextIsNew DEF Delegate
  <2>2. Held(t)
    BY <1>0 DEF Held
  <2> QED BY <1>0, <2>1, <2>2, Unborn DEF TokenInv, StateOfToken
<1>2. /\ parent_task'[n] = t /\ dependent_tasks'[n] = {t}
      /\ \A x \in Task : x # n => /\ parent_process'[x] = parent_process[x]
                                  /\ parent_task'[x] = parent_task[x]
                                  /\ dependent_tasks'[x] = dependent_tasks[x]
      /\ state'[n] = "TASK_RUNNING" /\ state'[t] = s
      /\ \A x \in Task : x # n /\ x # t => state'[x] = state[x]
      /\ UNCHANGED completed_tasks
  <2>1. /\ parent_process' = [parent_process EXCEPT ![n] = p]
        /\ parent_task' = [parent_task EXCEPT ![n] = t]
        /\ dependent_tasks' = [dependent_tasks EXCEPT ![n] = {t}]
        /\ state' = [state EXCEPT ![t] = s, ![n] = "TASK_RUNNING"]
        /\ UNCHANGED completed_tasks
    BY <1>0 DEF Delegate, process_create_unqueued_task
  <2> QED BY <1>1, <2>1 DEF TaskTypeOK
<1>3. /\ \A u \in Process : u # p => pc'[u] = pc[u] /\ cur'[u] = cur[u]
      /\ \/ s = "TASK_WAITING" /\ pc[p] = "exec" /\ pc'[p] = "suspend"
         \/ s = "TASK_ERROR" /\ pc'[p] = "pop" /\ resval'[t] = r
  BY <1>0 DEF Delegate, ThreadTypeOK, TaskTypeOK
<1>4. ~child_task_has_error[n] /\ (state[t] = "TASK_RUNNING" => ~child_task_has_error[t])
  BY <1>1 DEF CallsInv, ErrorFlags
<1>5. \A q \in Process : pc'[q] \notin {"insert", "set_waiting"}
  BY <1>3 DEF CallsInv
<1>6. ParentDepends'
  BY <1>2 DEF CallsInv, ParentDepends
<1>7. FlagsFollow
  BY <1>1, <1>2, <1>3, <1>4 DEF FlagsFollow
<1> QED BY <1>5, <1>6, <1>7

\* A failed task tells a parent that waits for it, or has failed itself.
LEMMA TellParentCalls ==
    ASSUME CallsInv, TypeOK, TokenInv, NEW p \in Process, TellParent(p)
    PROVE  /\ \A q \in Process : pc'[q] \notin {"insert", "set_waiting"}
           /\ ParentDepends' /\ FlagsFollow
<1> USE Labels, Basics DEF TypeOK, At, Goto
<1>0. PICK t \in Task : /\ t = cur[p] /\ pc[p] = "failed" /\ state[t] = "TASK_ERROR"
                        /\ t \notin completed_tasks[parent_process[t]]
  <2>1. pc[p] = "failed" /\ cur[p] \in Task
    BY InHand DEF TellParent
  <2>2. state[cur[p]] = "TASK_ERROR"
    BY <2>1 DEF CallsInv, ErrorFlags
  <2>3. parent_process[cur[p]] \in Process
    BY <2>1, <2>2 DEF TokenInv, Created
  <2> QED BY <2>1, <2>2, <2>3 DEF TokenInv, Completed
<1>1. /\ pc'[p] = "mark" /\ \A u \in Process : u # p => pc'[u] = pc[u]
      /\ \A x \in Task : x # parent_task[t] =>
           child_task_has_error'[x] = child_task_has_error[x]
      /\ UNCHANGED <<taskVars, waitVars, context_error, setVars, cur>>
  BY <1>0 DEF TellParent, ThreadTypeOK, TaskTypeOK
<1>2. parent_task[t] \in Task => \/ state[parent_task[t]] = "TASK_ERROR"
                                 \/ /\ state[parent_task[t]] = "TASK_WAITING"
                                    /\ awaits[parent_task[t]] = t
  <2> SUFFICES ASSUME parent_task[t] \in Task
               PROVE  \/ state[parent_task[t]] = "TASK_ERROR"
                      \/ state[parent_task[t]] = "TASK_WAITING" /\ awaits[parent_task[t]] = t
    OBVIOUS
  <2>1. ToVisit(t, parent_task[t])
    BY <1>0 DEF ToVisit, CallsInv, ParentDepends
  <2> QED BY <2>1 DEF TokenInv, Dependents, Suspended, CallsInv
<1>3. \A q \in Process : pc'[q] \notin {"insert", "set_waiting"}
  BY <1>1 DEF CallsInv
<1>4. ParentDepends'
  BY <1>1 DEF CallsInv, ParentDepends, taskVars, waitVars, setVars
<1>5. FlagsFollow
  BY <1>0, <1>1, <1>2 DEF FlagsFollow, waitVars
<1> QED BY <1>3, <1>4, <1>5

LEMMA CallsStep ==
    ASSUME Ops \subseteq {"call"}, Errors \subseteq {"err"}, TypeOK, TokenInv, CallsInv,
           [Next]_vars
    PROVE  CallsInv'
<1> DEFINE Keeps == /\ \A q \in Process : pc'[q] \notin {"insert", "set_waiting"}
                    /\ ParentDepends' /\ FlagsFollow
<1> USE Labels, Basics DEF TypeOK, At, Goto
<1>0. /\ WorkersIdle
      /\ \A x \in Task : ~context_error[x]
      /\ \A q \in Process : pc[q] \notin {"insert", "set_waiting"}
      /\ \A q \in Process : pc[q] \in {"start", "exec"} => cur[q] \in Task
      /\ \A q \in Process : pc[q] = "exec" => ~child_task_has_error[cur[q]]
  BY InHand DEF CallsInv, ErrorFlags, TokenInv, StateOfToken
<1>1. ASSUME NEW p \in Process,
             UNCHANGED <<parent_task, parent_process, dependent_tasks, state, errVars>>,
             completed_tasks[p] \subseteq completed_tasks'[p],
             \A q \in Process : q # p => completed_tasks'[q] = completed_tasks[q],
             \A q \in Process : \/ pc'[q] = pc[q] /\ cur'[q] = cur[q]
                                \/ pc'[q] \notin {"failed", "insert", "set_waiting"}
      PROVE  Keeps
  BY <1>1, QuietCalls
<1>2. ASSUME NEW p \in Process, cur[p] \in Task, pc[p] \in {"start", "exec"}, NEW r,
             r.kind = "err", Uncaught(p, cur[p], r),
             \A x \in Task : child_task_has_error'[x] => child_task_has_error[x]
      PROVE  Keeps
  <2>1. UNCHANGED context_error
    BY <1>2 DEF Uncaught
  <2>2. CASE parent_task[cur[p]] # NULL
    <3>1. resval'[cur[p]] = r
      BY <1>2, <2>2 DEF Uncaught, TaskTypeOK
    <3>2. /\ pc' = [pc EXCEPT ![p] = "failed"]
          /\ state' = [state EXCEPT ![cur[p]] = "TASK_ERROR"]
          /\ UNCHANGED <<taskVars, dependent_tasks, setVars, cur>>
      BY <1>2, <2>2 DEF Uncaught
    <3> QED BY <1>2, <2>1, <3>1, <3>2, ProceedCalls
  <2>3. CASE parent_task[cur[p]] = NULL
    BY <1>2, <2>1, <2>3, UncaughtDelegates, DelegateCalls
  <2> QED BY <2>2, <2>3
<1>3. ASSUME NEW p \in Process, vm_execute_task(p) PROVE Keeps
  <2>1. CASE StartTask(p)
    <3>1. /\ cur[p] \in Task /\ pc[p] = "start" /\ ~child_task_has_error'[cur[p]]
          /\ pc' = [pc EXCEPT ![p] = "exec"] /\ state' = [state EXCEPT ![cur[p]] = "TASK_RUNNING"]
          /\ UNCHANGED <<taskVars, dependent_tasks, setVars, cur, errVars>>
      BY <1>0, <2>1 DEF StartTask, errVars
    <3> QED BY <3>1, ProceedCalls DEF errVars
  <2>2. CASE Return(p)
    <3>1. /\ cur[p] \in Task /\ pc[p] = "exec" /\ ~child_task_has_error'[cur[p]]
          /\ pc' = [pc EXCEPT ![p] = "mark"] /\ state' = [state EXCEPT ![cur[p]] = "TASK_COMPLETE"]
          /\ UNCHANGED <<taskVars, dependent_tasks, setVars, cur, errVars>>
      BY <1>0, <2>2 DEF Return, errVars
    <3> QED BY <3>1, ProceedCalls DEF errVars
  <2>3. CASE StartWithError(p)
    <3>1. PICK t \in Task : t = cur[p] /\ pc[p] = "start"
      BY <1>0, <2>3 DEF StartWithError
    <3>2. /\ resval[t].kind = "err"
          /\ child_task_has_error' = [child_task_has_error EXCEPT ![t] = FALSE]
          /\ Caught(p, t) \/ Uncaught(p, t, resval[t])
      BY <1>0, <2>3, <3>1 DEF StartWithError, HasError
    <3>3. /\ ~child_task_has_error'[t]
          /\ \A x \in Task : child_task_has_error'[x] => child_task_has_error[x]
      BY <3>2 DEF TaskTypeOK
    <3>4. CASE Caught(p, t)
      <4>1. \A x \in Task : context_error'[x] => context_error[x]
        BY <3>4 DEF Caught, TaskTypeOK
      <4>2. /\ pc' = [pc EXCEPT ![p] = "exec"] /\ state' = [state EXCEPT ![t] = "TASK_RUNNING"]
            /\ UNCHANGED <<taskVars, dependent_tasks, setVars, cur>>
        BY <3>4 DEF Caught
      <4> QED BY <3>1, <3>3, <4>1, <4>2, ProceedCalls
    <3>5. CASE Uncaught(p, t, resval[t])
      BY <1>2, <3>1, <3>2, <3>3, <3>5
    <3> QED BY <3>2, <3>4, <3>5
  <2>4. CASE NoticeError(p)
    BY <1>0, <2>4 DEF NoticeError
  <2>5. ASSUME NEW kind \in Errors, Raise(p, kind) PROVE Keeps
    <3>1. /\ cur[p] \in Task /\ pc[p] = "exec" /\ UNCHANGED child_task_has_error
          /\ Uncaught(p, cur[p], [kind |-> kind, of |-> cur[p]]) /\ kind = "err"
      BY <1>0, <2>5 DEF Raise
    <3> QED BY <1>2, <3>1
  <2>6. CASE Call(p)
    BY <2>6, CallDelegates, DelegateCalls DEF Call, errVars
  <2>7. CASE \/ CallAsync(p) \/ CallBackground(p) \/ _create_process(p)
             \/ \E f \in Task : AwaitComplete(p, f) \/ AwaitIncomplete(p, f)
             \/ InsertDependent(p) \/ SetWaiting(p)
    BY <1>0, <2>7 DEF CallAsync, CallBackground, _create_process, AwaitComplete,
       AwaitIncomplete, InsertDependent, SetWaiting, Executing
  <2>8. CASE AssertFails(p)
    BY <1>1, <2>8 DEF AssertFails, taskVars, waitVars, setVars, threadVars
  <2> QED BY <1>3, <2>1, <2>2, <2>3, <2>4, <2>5, <2>6, <2>7, <2>8 DEF vm_execute_task
<1>4. ASSUME NEW p \in Process, _mark_task_complete(p) PROVE Keeps
  <2>1. CASE process_mark_task_complete(p)
    <3>1. PICK t \in Task : t = cur[p] /\ pc[p] = "mark" /\ parent_process[t] = p
      BY <2>1, InHand DEF process_mark_task_complete, TokenInv, OwnTasks
    <3>2. /\ completed_tasks' = [completed_tasks EXCEPT ![p] = @ \cup {t}]
          /\ pc' = [pc EXCEPT ![p] = "visit"]
          /\ UNCHANGED <<taskVars, waitVars, errVars, cur>>
      BY <2>1, <3>1 DEF process_mark_task_complete
    <3> QED BY <1>1, <3>2 DEF ProcessTypeOK, ThreadTypeOK, taskVars, waitVars
  <2>2. CASE ~process_mark_task_complete(p)
    <3>1. /\ UNCHANGED <<parent_task, parent_process, dependent_tasks, state, errVars,
                         completed_tasks>>
          /\ \A q \in Process : \/ pc'[q] = pc[q] /\ cur'[q] = cur[q]
                                \/ pc'[q] \notin {"failed", "insert", "set_waiting"}
      BY <1>4, <2>2 DEF _mark_task_complete, VisitDependent, AllVisited, Next_task,
         DeliverResult, EnqueueDependent, process_remove_waiting_task, Broadcast, taskVars,
         waitVars, setVars, ThreadTypeOK
    <3> QED BY <1>1, <3>1
  <2> QED BY <2>1, <2>2
<1>5. ASSUME NEW p \in Process, process_run(p) \/ SpuriousWakeup(p) PROVE Keeps
  <2>1. CASE \/ QueueEmpty(p) \/ _process_is_done(p) \/ CountWaiting(p) \/ CheckWaiting(p)
             \/ SpuriousWakeup(p) \/ process_insert_waiting_task(p) \/ process_pop_task(p)
    <3>1. /\ UNCHANGED <<parent_task, parent_process, dependent_tasks, state, errVars,
                         completed_tasks>>
          /\ \A q \in Process : \/ pc'[q] = pc[q] /\ cur'[q] = cur[q]
                                \/ pc'[q] \notin {"failed", "insert", "set_waiting"}
      BY <2>1 DEF QueueEmpty, _process_is_done, CountWaiting, CheckWaiting, SpuriousWakeup,
         process_insert_waiting_task, process_pop_task, Next_task, allButPc, taskVars,
         waitVars, setVars, ThreadTypeOK
    <3> QED BY <1>1, <3>1
  <2> QED BY <1>3, <1>4, <1>5, <2>1, TellParentCalls DEF process_run
<1>6. ASSUME vm_delete \/ UNCHANGED vars PROVE Keeps
  <2>1. 1 \in Process
    BY SchedulerAssumption DEF Process
  <2>2. UNCHANGED <<parent_task, parent_process, dependent_tasks, state, errVars,
                    completed_tasks, pc, cur>>
    BY <1>6 DEF vm_delete, vars, taskVars, waitVars, setVars, threadVars
  <2> QED BY <1>1, <2>1, <2>2
<1> HIDE DEF Keeps
<1>7. Keeps
  BY <1>0, <1>5, <1>6, WorkersRest DEF Next
<1>8. WorkersIdle'
  BY <1>0, WorkersIdleStep
<1>9. ErrorFlags'
  BY <1>7, FlagsFollowed DEF CallsInv, Keeps
<1> QED BY <1>7, <1>8, <1>9 DEF CallsInv, Keeps

\* The ASSERT at the beginning of vm_execute_task holds in programs that only
\* call functions and raise Errors: the parent whose flag a failed child sets
\* waits for that child, and gets its Error before it runs again.
THEOREM ChildErrorsAreErrors ==
    ASSUME Ops \subseteq {"call"}, Errors \subseteq {"err"} PROVE Spec => []ChildErrorIsError
<1>1. Init => CallsInv
  <2>1. Init => WorkersIdle
    BY WorkersNotProcesses, Basics, SchedulerAssumption DEF Init, WorkersIdle, Process
  <2>2. Init => \A p \in Process : pc[p] \in {"pop", "unborn", "idle"}
    BY Basics DEF Init
  <2>3. Init => ParentDepends
    BY DEF Init, ParentDepends
  <2>4. Init => ErrorFlags
    BY <2>2 DEF Init, ErrorFlags
  <2> QED BY <2>1, <2>2, <2>3, <2>4 DEF CallsInv
<1>2. TypeOK /\ TokenInv /\ CallsInv /\ [Next]_vars => CallsInv'
  BY CallsStep
<1>3. TypeOK /\ TokenInv /\ CallsInv => ChildErrorIsError
  <2> SUFFICES ASSUME TypeOK, TokenInv, CallsInv, NEW p \in Process, pc[p] = "start",
                      child_task_has_error[cur[p]]
               PROVE  resval[cur[p]].kind = "err"
    BY DEF ChildErrorIsError
  <2>1. p \in Thread /\ cur[p] \in Task /\ Ready(cur[p])
    BY InHand, Labels, Basics DEF TokenInv, StateOfToken
  <2>2. /\ state[cur[p]] = "TASK_WAITING" /\ awaits[cur[p]] \in Task
        /\ state[awaits[cur[p]]] = "TASK_ERROR" /\ resval[cur[p]] = resval[awaits[cur[p]]]
    BY <2>1 DEF Ready, CallsInv, ErrorFlags, TypeOK, TaskTypeOK
  <2> QED BY <2>2 DEF CallsInv, ErrorFlags
<1> QED BY <1>1, <1>2, <1>3, TokenCorrect, PTL DEF Spec
-----------------------------------------------------------------------------
(* How a program ends. *)

\* The virtual machine is deleted by the main thread or aborted by a failed
\* assertion, and then nothing happens any more.
LEMMA EndOfProgram ==
    ASSUME [Next]_vars
    PROVE  \/ UNCHANGED vm /\ vm = "running"
           \/ UNCHANGED vars
           \/ vm_delete
           \/ \E p \in Process : AssertFails(p)
<1> USE DEF At
<1>1. ASSUME NEW p \in Process, vm_execute_task(p)
      PROVE  (UNCHANGED vm /\ vm = "running") \/ AssertFails(p)
  <2>1. ASSUME NEW t, NEW r, Caught(p, t) \/ Uncaught(p, t, r) PROVE UNCHANGED vm
    BY <2>1 DEF Caught, Uncaught, vmVars
  <2>2. CASE StartWithError(p) \/ NoticeError(p) \/ \E kind \in Errors : Raise(p, kind)
    BY <2>1, <2>2 DEF StartWithError, NoticeError, Raise
  <2>3. CASE \/ Call(p) \/ CallAsync(p) \/ CallBackground(p) \/ _create_process(p)
             \/ \E f \in Task : AwaitComplete(p, f) \/ AwaitIncomplete(p, f)
    BY <2>3 DEF Call, CallAsync, CallBackground, _create_process, AwaitComplete,
       AwaitIncomplete, Executing, vmVars
  <2>4. CASE StartTask(p) \/ InsertDependent(p) \/ SetWaiting(p) \/ Return(p)
    BY <2>4 DEF StartTask, InsertDependent, SetWaiting, Return, vmVars
  <2> QED BY <1>1, <2>2, <2>3, <2>4 DEF vm_execute_task
<1>2. ASSUME NEW th, _mark_task_complete(th) PROVE UNCHANGED vm /\ vm = "running"
  BY <1>2 DEF _mark_task_complete, process_mark_task_complete, VisitDependent, AllVisited,
     DeliverResult, EnqueueDependent, process_remove_waiting_task, Broadcast, vmVars
<1>3. ASSUME NEW p \in Process, process_run(p) \/ SpuriousWakeup(p)
      PROVE  (UNCHANGED vm /\ vm = "running") \/ AssertFails(p)
  <2>1. CASE \/ process_pop_task(p) \/ QueueEmpty(p) \/ process_insert_waiting_task(p)
             \/ TellParent(p) \/ _process_is_done(p) \/ CountWaiting(p) \/ CheckWaiting(p)
             \/ SpuriousWakeup(p)
    BY <2>1 DEF process_pop_task, QueueEmpty, process_insert_waiting_task, TellParent,
       _process_is_done, CountWaiting, CheckWaiting, SpuriousWakeup, allButPc, vmVars
  <2> QED BY <1>1, <1>2, <1>3, <2>1 DEF process_run
<1>4. ASSUME NEW w \in Worker, RunWorker(w) PROVE UNCHANGED vm /\ vm = "running"
  BY <1>2, <1>4 DEF RunWorker, StartWork, _execute_in_background,
     _execute_in_background_callback, vmVars
<1> QED BY <1>3, <1>4 DEF Next

\* A program that only calls functions and raises Errors is never aborted by
\* the ASSERT of vm_execute_task on the result of a failed child.
THEOREM CallsNeverAbort ==
    ASSUME Ops \subseteq {"call"}, Errors \subseteq {"err"} PROVE Spec => [](vm # "aborted")
<1> DEFINE Alive == vm # "aborted"
<1>1. Init => Alive
  BY DEF Init
<1>2. ChildErrorIsError /\ Alive /\ [Next]_vars => Alive'
  <2> SUFFICES ASSUME ChildErrorIsError, vm # "aborted", [Next]_vars PROVE vm' # "aborted"
    OBVIOUS
  <2>1. CASE vm_delete \/ UNCHANGED vm
    BY <2>1 DEF vm_delete
  <2>2. ASSUME NEW p \in Process PROVE ~AssertFails(p)
    BY DEF AssertFails, At, ChildErrorIsError
  <2> QED BY <2>1, <2>2, EndOfProgram DEF vars, vmVars
<1> QED BY <1>1, <1>2, ChildErrorsAreErrors, PTL DEF Spec

\* The virtual machine is deleted only when every task of the main process is
\* finished, in programs without background functions whose futures stay in
\* their process: run calls vm_delete after process_run has returned.
THEOREM DeletedWhenDone ==
    ASSUME "share" \notin Ops, "background" \notin Ops
    PROVE  Spec => [](vm = "deleted" =>
             \A t \in Task : parent_process[t] = 1 => future_is_complete(t))
<1> DEFINE Ended == vm = "deleted" => pc[1] = "returned"
<1>1. Init => Ended
  BY DEF Init
<1>2. Ended /\ [Next]_vars => Ended'
  <2> SUFFICES ASSUME Ended, [Next]_vars PROVE Ended'
    OBVIOUS
  <2>1. CASE vm_delete
    BY <2>1 DEF vm_delete, threadVars, At
  <2>2. ASSUME NEW p \in Process, AssertFails(p) PROVE Ended'
    BY <2>2 DEF AssertFails
  <2>3. CASE UNCHANGED vars
    BY <2>3 DEF vars, vmVars, threadVars
  <2> QED BY <2>1, <2>2, <2>3, EndOfProgram
<1>3. ReturnsWhenDone /\ Ended =>
        (vm = "deleted" => \A t \in Task : parent_process[t] = 1 => future_is_complete(t))
  <2>1. 1 \in Process
    BY SchedulerAssumption DEF Process
  <2> QED BY <2>1 DEF ReturnsWhenDone
<1> QED BY <1>1, <1>2, <1>3, ProcessesReturnWhenDone, PTL DEF Spec
=============================================================================
