----------------------------- MODULE Scheduler ------------------------------
(***************************************************************************)
(* Tasks, processes and futures of the virtual machine: process_run and    *)
(* _mark_task_complete of vm/virtual_machine.c, the task sets and queues   *)
(* of vm/process, futures of entity/native/async.c, and the two ways to    *)
(* leave the process: background calls and create_process.                 *)
(*                                                                         *)
(* A process is a thread that runs the tasks of its queue one at a time; a *)
(* task is one function call.  What a function computes is not modelled:   *)
(* at every instruction that concerns the scheduler the task may do any    *)
(* operation of Ops, raise an error of Errors, or return.                  *)
(*                                                                         *)
(* A block under one mutex is one step.  Everything a process thread does  *)
(* to its own tasks between two accesses to shared state is one step too.  *)
(***************************************************************************)
EXTENDS Naturals, Sequences, FiniteSets

CONSTANTS MaxTask,     \* bound: tasks the program creates
          MaxProcess,  \* bound: processes the program creates
          MaxOps,      \* bound: scheduling operations of one task
          Worker,      \* threads of the background pool
          Ops,         \* operations the program uses
          Errors       \* classes of errors it raises: Error, a subclass

OpNames == {"call", "async", "background", "await", "process", "share"}

ASSUME SchedulerAssumption ==
    /\ MaxTask \in Nat \ {0}
    /\ MaxProcess \in Nat \ {0}
    /\ MaxOps \in Nat
    /\ \A w \in Worker : w \notin Nat
    /\ Ops \subseteq OpNames
    /\ Errors \subseteq {"err", "suberr"}

NULL == 0
Task == 1..MaxTask
Process == 1..MaxProcess
Thread == Process \cup Worker

\* A result: its kind and the task that computed it.
Entity == [kind : {"val", "err", "suberr"}, of : Task \cup {NULL}]
Plain == [kind |-> "val", of |-> NULL]

VARIABLES
    \* struct __Task
    parent_process, parent_task, state, resval, dependent_tasks,
    child_task_has_error,
    context_error,   \* the error field of the context a task runs in
    has_future,      \* the call that created the task returned a future of it
    awaits,          \* the task whose result this task last waited for
    ops,             \* scheduling operations the task has done
    \* struct __Process
    queued_tasks, waiting_tasks, completed_tasks,
    waiting_task_count,
    \* threads: position, task being run or marked, dependents still to
    \* visit and the one being visited
    pc, cur, todo, dep,
    \* struct _VM
    ntasks, nprocesses, background, vm

taskVars == <<parent_process, parent_task, has_future, ops>>
waitVars == <<state, resval, dependent_tasks, awaits>>
errVars == <<child_task_has_error, context_error>>
setVars == <<queued_tasks, waiting_tasks, completed_tasks>>
threadVars == <<pc, cur, todo, dep, waiting_task_count>>
vmVars == <<ntasks, nprocesses, background, vm>>
allButPc == <<taskVars, waitVars, errVars, setVars, cur, todo, dep,
              waiting_task_count, vmVars>>
vars == <<taskVars, waitVars, errVars, setVars, threadVars, vmVars>>

\* run(): one process and its first task, which has no parent.
Init ==
    /\ parent_process = [t \in Task |-> IF t = 1 THEN 1 ELSE NULL]
    /\ parent_task = [t \in Task |-> NULL]
    /\ state = [t \in Task |-> IF t = 1 THEN "TASK_RUNNING" ELSE "TASK_NEW"]
    /\ resval = [t \in Task |-> Plain]
    /\ dependent_tasks = [t \in Task |-> {}]
    /\ child_task_has_error = [t \in Task |-> FALSE]
    /\ context_error = [t \in Task |-> FALSE]
    /\ has_future = [t \in Task |-> FALSE]
    /\ awaits = [t \in Task |-> NULL]
    /\ ops = [t \in Task |-> 0]
    /\ queued_tasks = [p \in Process |-> IF p = 1 THEN <<1>> ELSE <<>>]
    /\ waiting_tasks = [p \in Process |-> {}]
    /\ completed_tasks = [p \in Process |-> {}]
    /\ waiting_task_count = [p \in Process |-> 0]
    /\ pc = [th \in Thread |-> IF th = 1 THEN "pop"
                               ELSE IF th \in Process THEN "unborn" ELSE "idle"]
    /\ cur = [th \in Thread |-> NULL]
    /\ todo = [th \in Thread |-> {}]
    /\ dep = [th \in Thread |-> NULL]
    /\ ntasks = 1
    /\ nprocesses = 1
    /\ background = <<>>
    /\ vm = "running"
-----------------------------------------------------------------------------
(* Helpers of vm/process. *)

\* process_create_unqueued_task.  task_init writes WAITING_TO_START, which is
\* 1, into state: a task that has not started looks like TASK_RUNNING.
process_create_unqueued_task(p, t, future) ==
    /\ ntasks < MaxTask
    /\ ntasks' = ntasks + 1
    /\ parent_process' = [parent_process EXCEPT ![ntasks + 1] = p]
    /\ parent_task' = [parent_task EXCEPT ![ntasks + 1] = t]
    /\ has_future' = [has_future EXCEPT ![ntasks + 1] = future]

process_enqueue_task(p, t) ==
    queued_tasks' = [queued_tasks EXCEPT ![p] = Append(@, t)]

future_is_complete(f) == state[f] \in {"TASK_COMPLETE", "TASK_ERROR"}

\* Where a thread is, while the program has neither ended nor aborted.
At(th, label) == vm = "running" /\ pc[th] = label
Goto(th, label) == pc' = [pc EXCEPT ![th] = label]

\* The thread is done with its task and looks for the next one.
Next_task(th) ==
    /\ Goto(th, IF th \in Process THEN "pop" ELSE "idle")
    /\ cur' = [cur EXCEPT ![th] = NULL]
-----------------------------------------------------------------------------
(* process_run: taking the next task, and the end of the process. *)

process_pop_task(p) ==
    /\ At(p, "pop")
    /\ queued_tasks[p] # <<>>
    /\ cur' = [cur EXCEPT ![p] = Head(queued_tasks[p])]
    /\ queued_tasks' = [queued_tasks EXCEPT ![p] = Tail(@)]
    /\ Goto(p, "start")
    /\ UNCHANGED <<taskVars, waitVars, errVars, waiting_tasks, completed_tasks,
                   todo, dep, waiting_task_count, vmVars>>

QueueEmpty(p) ==
    /\ At(p, "pop")
    /\ queued_tasks[p] = <<>>
    /\ Goto(p, "is_done")
    /\ UNCHANGED allButPc

\* Mutant: the process returns when its queue is empty.
DoneWhenNothingQueued(p) ==
    /\ At(p, "is_done")
    /\ Goto(p, IF queued_tasks[p] = <<>> THEN "returned" ELSE "count")
    /\ UNCHANGED allButPc

\* Holds both locks; the process returns when nothing is queued or waiting.
_process_is_done(p) ==
    /\ At(p, "is_done")
    /\ Goto(p, IF waiting_tasks[p] = {} /\ queued_tasks[p] = <<>>
               THEN "returned" ELSE "count")
    /\ UNCHANGED allButPc

CountWaiting(p) ==
    /\ At(p, "count")
    /\ waiting_task_count' =
         [waiting_task_count EXCEPT ![p] = Cardinality(waiting_tasks[p])]
    /\ Goto(p, "check")
    /\ UNCHANGED <<taskVars, waitVars, errVars, setVars, cur, todo, dep, vmVars>>

\* The test of the loop around mutex_condition_wait, under task_waiting_lock:
\* going to sleep is atomic with it.
CheckWaiting(p) ==
    /\ At(p, "check")
    /\ Goto(p, IF /\ waiting_tasks[p] # {}
                  /\ Cardinality(waiting_tasks[p]) = waiting_task_count[p]
                  /\ queued_tasks[p] = <<>>
               THEN "asleep" ELSE "pop")
    /\ UNCHANGED allButPc

\* A condition wait may end without a broadcast.
SpuriousWakeup(p) ==
    /\ At(p, "asleep")
    /\ Goto(p, "check")
    /\ UNCHANGED allButPc
-----------------------------------------------------------------------------
(* vm_execute_task: the beginning, and errors. *)

\* The task has no error to deal with, or has one in a context other than
\* the current one.
StartTask(p) ==
    LET t == cur[p] IN
    /\ At(p, "start")
    /\ ~child_task_has_error[t]
    /\ state' = [state EXCEPT ![t] = "TASK_RUNNING"]
    /\ Goto(p, "exec")
    /\ UNCHANGED <<taskVars, resval, dependent_tasks, awaits, errVars, setVars,
                   cur, todo, dep, waiting_task_count, vmVars>>

\* The ASSERT that the result of a failed child is an Error.
AssertFails(p) ==
    LET t == cur[p] IN
    /\ At(p, "start")
    /\ child_task_has_error[t]
    /\ resval[t].kind # "err"
    /\ vm' = "aborted"
    /\ UNCHANGED <<taskVars, waitVars, errVars, setVars, threadVars, ntasks,
                   nprocesses, background>>

\* An error of a child, or one a background function left in the context.
HasError(t) ==
    IF child_task_has_error[t] THEN resval[t].kind = "err" ELSE context_error[t]

\* _attemp_catch_error finds a try block.
Caught(p, t) ==
    /\ Goto(p, "exec")
    /\ state' = [state EXCEPT ![t] = "TASK_RUNNING"]
    /\ context_error' = [context_error EXCEPT ![t] = FALSE]
    /\ UNCHANGED <<taskVars, resval, dependent_tasks, awaits, setVars, cur, todo,
                   dep, waiting_task_count, vmVars>>

\* _attemp_catch_error finds none, and result is in resval.  A task without
\* a parent prints the error: it calls io.errorln and is not heard of again.
Uncaught(p, t, result) ==
    \/ /\ parent_task[t] # NULL
       /\ state' = [state EXCEPT ![t] = "TASK_ERROR"]
       /\ resval' = [resval EXCEPT ![t] = result]
       /\ Goto(p, "failed")
       /\ UNCHANGED <<taskVars, dependent_tasks, awaits, context_error, setVars,
                      cur, todo, dep, waiting_task_count, vmVars>>
    \/ /\ parent_task[t] = NULL
       /\ process_create_unqueued_task(p, t, FALSE)
       /\ process_enqueue_task(p, ntasks + 1)
       /\ dependent_tasks' = [dependent_tasks EXCEPT ![ntasks + 1] = {t}]
       /\ state' = [state EXCEPT ![t] = "TASK_ERROR",
                                 ![ntasks + 1] = "TASK_RUNNING"]
       /\ resval' = [resval EXCEPT ![t] = result]
       /\ Next_task(p)
       /\ UNCHANGED <<ops, awaits, context_error, waiting_tasks, completed_tasks,
                      todo, dep, waiting_task_count, nprocesses, background, vm>>

\* Mutant: the flag a failed child has set is not reset.
ErrorFlagStays(p) ==
    LET t == cur[p] IN
    /\ At(p, "start")
    /\ HasError(t)
    /\ UNCHANGED child_task_has_error
    /\ Caught(p, t) \/ Uncaught(p, t, resval[t])

StartWithError(p) ==
    LET t == cur[p] IN
    /\ At(p, "start")
    /\ HasError(t)
    /\ child_task_has_error' = [child_task_has_error EXCEPT ![t] = FALSE]
    /\ Caught(p, t) \/ Uncaught(p, t, resval[t])

\* The running task finds an error a background function has put into its
\* context meanwhile; resval is whatever the task has computed.
NoticeError(p) ==
    LET t == cur[p] IN
    /\ At(p, "exec")
    /\ context_error[t]
    /\ UNCHANGED child_task_has_error
    /\ Caught(p, t) \/ Uncaught(p, t, Plain)

\* RAIS, or an instruction that fails, outside any try block.
Raise(p, kind) ==
    LET t == cur[p] IN
    /\ At(p, "exec")
    /\ UNCHANGED child_task_has_error
    /\ Uncaught(p, t, [kind |-> kind, of |-> t])
-----------------------------------------------------------------------------
(* vm_execute_task: the instructions that concern the scheduler. *)

Executing(p, op) ==
    /\ At(p, "exec")
    /\ op \in Ops
    /\ ops[cur[p]] < MaxOps
    /\ ops' = [ops EXCEPT ![cur[p]] = @ + 1]

\* Mutant: the caller is not made a dependent of the callee.
CallForgetsDependent(p) ==
    LET t == cur[p] IN
    /\ Executing(p, "call")
    /\ process_create_unqueued_task(p, t, FALSE)
    /\ process_enqueue_task(p, ntasks + 1)
    /\ awaits' = [awaits EXCEPT ![t] = ntasks + 1]
    /\ state' = [state EXCEPT ![t] = "TASK_WAITING", ![ntasks + 1] = "TASK_RUNNING"]
    /\ Goto(p, "suspend")
    /\ UNCHANGED <<dependent_tasks, resval, errVars, waiting_tasks,
                   completed_tasks, cur, todo, dep, waiting_task_count,
                   nprocesses, background, vm>>

\* CALL of a function of the language, or LMDL of a module to initialise: the
\* callee is queued with the caller as its dependent, and the caller waits.
Call(p) ==
    LET t == cur[p] IN
    /\ Executing(p, "call")
    /\ process_create_unqueued_task(p, t, FALSE)
    /\ process_enqueue_task(p, ntasks + 1)
    /\ dependent_tasks' = [dependent_tasks EXCEPT ![ntasks + 1] = {t}]
    /\ awaits' = [awaits EXCEPT ![t] = ntasks + 1]
    /\ state' = [state EXCEPT ![t] = "TASK_WAITING", ![ntasks + 1] = "TASK_RUNNING"]
    /\ Goto(p, "suspend")
    /\ UNCHANGED <<resval, errVars, waiting_tasks, completed_tasks, cur, todo,
                   dep, waiting_task_count, nprocesses, background, vm>>

\* CALL of an async function: the callee is queued and the caller goes on
\* with a future.
CallAsync(p) ==
    LET t == cur[p] IN
    /\ Executing(p, "async")
    /\ process_create_unqueued_task(p, t, TRUE)
    /\ process_enqueue_task(p, ntasks + 1)
    /\ state' = [state EXCEPT ![ntasks + 1] = "TASK_RUNNING"]
    /\ resval' = [resval EXCEPT ![t] = Plain]
    /\ UNCHANGED <<dependent_tasks, awaits, errVars, waiting_tasks,
                   completed_tasks, threadVars, nprocesses, background, vm>>

\* CALL of a native background function: the callee goes to the pool.
CallBackground(p) ==
    LET t == cur[p] IN
    /\ Executing(p, "background")
    /\ process_create_unqueued_task(p, t, TRUE)
    /\ background' = Append(background, ntasks + 1)
    /\ state' = [state EXCEPT ![ntasks + 1] = "TASK_RUNNING"]
    /\ resval' = [resval EXCEPT ![t] = Plain]
    /\ UNCHANGED <<dependent_tasks, awaits, errVars, setVars, threadVars,
                   nprocesses, vm>>

\* CALL of __create_process: a new process with one task whose parent is the
\* calling task, and a thread that runs it.
_create_process(p) ==
    LET t == cur[p]
        q == nprocesses + 1 IN
    /\ Executing(p, "process")
    /\ nprocesses < MaxProcess
    /\ nprocesses' = q
    /\ process_create_unqueued_task(q, t, FALSE)
    /\ process_enqueue_task(q, ntasks + 1)
    /\ state' = [state EXCEPT ![ntasks + 1] = "TASK_RUNNING"]
    /\ resval' = [resval EXCEPT ![t] = Plain]
    /\ Goto(q, "pop")
    /\ UNCHANGED <<dependent_tasks, awaits, errVars, waiting_tasks,
                   completed_tasks, cur, todo, dep, waiting_task_count,
                   background, vm>>

\* The futures a process can name: those of its own tasks and, when the
\* program stores futures in variables of a module, those of other processes.
Reachable(p, f) ==
    /\ has_future[f]
    /\ parent_process[f] = p \/ "share" \in Ops

\* WAIT on a future whose task is finished: the value, be it an error, is
\* the result.
AwaitComplete(p, f) ==
    LET t == cur[p] IN
    /\ Executing(p, "await")
    /\ Reachable(p, f)
    /\ future_is_complete(f)
    /\ resval' = [resval EXCEPT ![t] = resval[f]]
    /\ UNCHANGED <<parent_process, parent_task, has_future, state,
                   dependent_tasks, awaits, errVars, setVars, threadVars, vmVars>>

\* WAIT on a future whose task is not: the test, the insertion into the
\* dependents, the assignment of the state and, in process_run, the insertion
\* into the waiting tasks are steps of their own.
AwaitIncomplete(p, f) ==
    LET t == cur[p] IN
    /\ Executing(p, "await")
    /\ Reachable(p, f)
    /\ ~future_is_complete(f)
    /\ awaits' = [awaits EXCEPT ![t] = f]
    /\ Goto(p, "insert")
    /\ UNCHANGED <<parent_process, parent_task, has_future, state, resval,
                   dependent_tasks, errVars, setVars, cur, todo, dep,
                   waiting_task_count, vmVars>>

\* A thread that visits the dependents of f at this moment may or may not
\* come across the new one: nothing protects the set.
InsertDependent(p) ==
    LET t == cur[p]
        f == awaits[t]
        Visiting == {th \in Thread : cur[th] = f /\ pc[th] \in
                       {"visit", "deliver", "enqueue", "unwait", "signal"}} IN
    /\ At(p, "insert")
    /\ dependent_tasks' = [dependent_tasks EXCEPT ![f] = @ \cup {t}]
    /\ \E seen \in SUBSET Visiting :
         todo' = [th \in Thread |-> IF th \in seen THEN todo[th] \cup {t} ELSE todo[th]]
    /\ Goto(p, "set_waiting")
    /\ UNCHANGED <<taskVars, state, resval, awaits, errVars, setVars, cur, dep,
                   waiting_task_count, vmVars>>

SetWaiting(p) ==
    /\ At(p, "set_waiting")
    /\ state' = [state EXCEPT ![cur[p]] = "TASK_WAITING"]
    /\ Goto(p, "suspend")
    /\ UNCHANGED <<taskVars, resval, dependent_tasks, awaits, errVars, setVars,
                   cur, todo, dep, waiting_task_count, vmVars>>

process_insert_waiting_task(p) ==
    /\ At(p, "suspend")
    /\ waiting_tasks' = [waiting_tasks EXCEPT ![p] = @ \cup {cur[p]}]
    /\ Next_task(p)
    /\ UNCHANGED <<taskVars, waitVars, errVars, queued_tasks, completed_tasks,
                   todo, dep, waiting_task_count, vmVars>>

\* RET and EXIT.
Return(p) ==
    LET t == cur[p] IN
    /\ At(p, "exec")
    /\ resval' = [resval EXCEPT ![t] = [kind |-> "val", of |-> t]]
    /\ state' = [state EXCEPT ![t] = "TASK_COMPLETE"]
    /\ Goto(p, "mark")
    /\ UNCHANGED <<taskVars, dependent_tasks, awaits, errVars, setVars, cur, todo,
                   dep, waiting_task_count, vmVars>>

\* TASK_ERROR of a task with a parent, in process_run.
TellParent(p) ==
    /\ At(p, "failed")
    /\ child_task_has_error' =
         [child_task_has_error EXCEPT ![parent_task[cur[p]]] = TRUE]
    /\ Goto(p, "mark")
    /\ UNCHANGED <<taskVars, waitVars, context_error, setVars, cur, todo, dep,
                   waiting_task_count, vmVars>>
-----------------------------------------------------------------------------
(* _mark_task_complete, run by a process thread or by a worker. *)

\* Mutant: the task tells its parent instead of its dependents.
MarkTellsParent(th) ==
    LET t == cur[th] IN
    /\ At(th, "mark")
    /\ completed_tasks' = [completed_tasks EXCEPT ![parent_process[t]] = @ \cup {t}]
    /\ todo' = [todo EXCEPT ![th] = {parent_task[t]}]
    /\ Goto(th, "visit")
    /\ UNCHANGED <<taskVars, waitVars, errVars, queued_tasks, waiting_tasks, cur,
                   dep, waiting_task_count, vmVars>>

process_mark_task_complete(th) ==
    LET t == cur[th] IN
    /\ At(th, "mark")
    /\ completed_tasks' = [completed_tasks EXCEPT ![parent_process[t]] = @ \cup {t}]
    /\ todo' = [todo EXCEPT ![th] = dependent_tasks[t]]
    /\ Goto(th, "visit")
    /\ UNCHANGED <<taskVars, waitVars, errVars, queued_tasks, waiting_tasks, cur,
                   dep, waiting_task_count, vmVars>>

\* Mutant: queues a dependent without asking whether it waits.
VisitWithoutCheck(th, d) ==
    /\ At(th, "visit")
    /\ d \in todo[th]
    /\ todo' = [todo EXCEPT ![th] = @ \ {d}]
    /\ dep' = [dep EXCEPT ![th] = d]
    /\ Goto(th, "deliver")
    /\ UNCHANGED <<taskVars, waitVars, errVars, setVars, cur, waiting_task_count,
                   vmVars>>

\* The next dependent, in the order of the set; one that does not wait is
\* passed over.
VisitDependent(th, d) ==
    /\ At(th, "visit")
    /\ d \in todo[th]
    /\ todo' = [todo EXCEPT ![th] = @ \ {d}]
    /\ \/ /\ state[d] # "TASK_WAITING"
          /\ UNCHANGED <<dep, pc>>
       \/ /\ state[d] = "TASK_WAITING"
          /\ dep' = [dep EXCEPT ![th] = d]
          /\ Goto(th, "deliver")
    /\ UNCHANGED <<taskVars, waitVars, errVars, setVars, cur, waiting_task_count,
                   vmVars>>

AllVisited(th) ==
    /\ At(th, "visit")
    /\ todo[th] = {}
    /\ Next_task(th)
    /\ UNCHANGED <<taskVars, waitVars, errVars, setVars, todo, dep,
                   waiting_task_count, vmVars>>

\* Mutant: the dependent keeps its old result.
DeliverNothing(th) ==
    /\ At(th, "deliver")
    /\ Goto(th, "enqueue")
    /\ UNCHANGED allButPc

DeliverResult(th) ==
    /\ At(th, "deliver")
    /\ resval' = [resval EXCEPT ![dep[th]] = resval[cur[th]]]
    /\ Goto(th, "enqueue")
    /\ UNCHANGED <<taskVars, state, dependent_tasks, awaits, errVars, setVars, cur,
                   todo, dep, waiting_task_count, vmVars>>

EnqueueDependent(th) ==
    /\ At(th, "enqueue")
    /\ process_enqueue_task(parent_process[dep[th]], dep[th])
    /\ Goto(th, "unwait")
    /\ UNCHANGED <<taskVars, waitVars, errVars, waiting_tasks, completed_tasks,
                   cur, todo, dep, waiting_task_count, vmVars>>

\* Mutant: the resumed task stays in the waiting set.
KeepWaitingTask(th) ==
    /\ At(th, "unwait")
    /\ Goto(th, "signal")
    /\ UNCHANGED allButPc

process_remove_waiting_task(th) ==
    LET d == dep[th] IN
    /\ At(th, "unwait")
    /\ waiting_tasks' = [waiting_tasks EXCEPT ![parent_process[d]] = @ \ {d}]
    /\ Goto(th, "signal")
    /\ UNCHANGED <<taskVars, waitVars, errVars, queued_tasks, completed_tasks,
                   cur, todo, dep, waiting_task_count, vmVars>>

\* Mutant: nobody is woken.
NoBroadcast(th) ==
    /\ At(th, "signal")
    /\ Goto(th, "visit")
    /\ dep' = [dep EXCEPT ![th] = NULL]
    /\ UNCHANGED <<taskVars, waitVars, errVars, setVars, cur, todo,
                   waiting_task_count, vmVars>>

\* The condition is that of the process of the completed task.
Broadcast(th) ==
    LET q == parent_process[cur[th]] IN
    /\ At(th, "signal")
    /\ pc' = [pc EXCEPT ![th] = "visit",
                        ![q] = IF @ = "asleep" THEN "check" ELSE @]
    /\ dep' = [dep EXCEPT ![th] = NULL]
    /\ UNCHANGED <<taskVars, waitVars, errVars, setVars, cur, todo,
                   waiting_task_count, vmVars>>

\* Mutant: a dependent leaves the waiting set before it is queued.
UnwaitBeforeEnqueue(th) ==
    LET d == dep[th]
        p == parent_process[d] IN
    /\ UNCHANGED <<taskVars, waitVars, errVars, completed_tasks, cur, todo, dep,
                   waiting_task_count, vmVars>>
    /\ \/ /\ At(th, "enqueue") /\ Goto(th, "unwait")
          /\ waiting_tasks' = [waiting_tasks EXCEPT ![p] = @ \ {d}]
          /\ UNCHANGED queued_tasks
       \/ /\ At(th, "unwait") /\ Goto(th, "signal")
          /\ process_enqueue_task(p, d)
          /\ UNCHANGED waiting_tasks

MarkInOtherOrder(th) ==
    \/ process_mark_task_complete(th)
    \/ \E d \in Task : VisitDependent(th, d)
    \/ AllVisited(th)
    \/ DeliverResult(th)
    \/ UnwaitBeforeEnqueue(th)
    \/ Broadcast(th)

_mark_task_complete(th) ==
    \/ process_mark_task_complete(th)
    \/ \E d \in Task : VisitDependent(th, d)
    \/ AllVisited(th)
    \/ DeliverResult(th)
    \/ EnqueueDependent(th)
    \/ process_remove_waiting_task(th)
    \/ Broadcast(th)
-----------------------------------------------------------------------------
(* The workers of the background pool; the pool itself is ThreadPool, which *)
(* starts work in the order of submission.                                  *)

StartWork(w) ==
    /\ At(w, "idle")
    /\ background # <<>>
    /\ cur' = [cur EXCEPT ![w] = Head(background)]
    /\ background' = Tail(background)
    /\ Goto(w, "fn")
    /\ UNCHANGED <<taskVars, waitVars, errVars, setVars, todo, dep,
                   waiting_task_count, ntasks, nprocesses, vm>>

\* A native function that raises an error puts it into the context that was
\* current when it was called: the one of the calling task.
_execute_in_background(w, kind) ==
    LET t == cur[w] IN
    /\ At(w, "fn")
    /\ resval' = [resval EXCEPT ![t] = [kind |-> kind, of |-> t]]
    /\ context_error' =
         IF kind = "val" THEN context_error
         ELSE [context_error EXCEPT ![parent_task[t]] = TRUE]
    /\ Goto(w, "callback")
    /\ UNCHANGED <<taskVars, state, dependent_tasks, awaits, child_task_has_error,
                   setVars, cur, todo, dep, waiting_task_count, vmVars>>

\* Mutant: the callback does not mark the task as complete.
CallbackKeepsState(w) ==
    /\ At(w, "callback")
    /\ Goto(w, "mark")
    /\ UNCHANGED allButPc

_execute_in_background_callback(w) ==
    /\ At(w, "callback")
    /\ state' = [state EXCEPT ![cur[w]] = "TASK_COMPLETE"]
    /\ Goto(w, "mark")
    /\ UNCHANGED <<taskVars, resval, dependent_tasks, awaits, errVars, setVars,
                   cur, todo, dep, waiting_task_count, vmVars>>
-----------------------------------------------------------------------------
\* The main process has returned: the VM is deleted, whatever the other
\* threads are doing.
vm_delete ==
    /\ At(1, "returned")
    /\ vm' = "deleted"
    /\ UNCHANGED <<taskVars, waitVars, errVars, setVars, threadVars, ntasks,
                   nprocesses, background>>

vm_execute_task(p) ==
    \/ StartTask(p)
    \/ AssertFails(p)
    \/ StartWithError(p)
    \/ NoticeError(p)
    \/ \E kind \in Errors : Raise(p, kind)
    \/ Call(p)
    \/ CallAsync(p)
    \/ CallBackground(p)
    \/ _create_process(p)
    \/ \E f \in Task : AwaitComplete(p, f) \/ AwaitIncomplete(p, f)
    \/ InsertDependent(p)
    \/ SetWaiting(p)
    \/ Return(p)

process_run(p) ==
    \/ process_pop_task(p)
    \/ QueueEmpty(p)
    \/ vm_execute_task(p)
    \/ process_insert_waiting_task(p)
    \/ TellParent(p)
    \/ _mark_task_complete(p)
    \/ _process_is_done(p)
    \/ CountWaiting(p)
    \/ CheckWaiting(p)

RunWorker(w) ==
    \/ StartWork(w)
    \/ \E kind \in {"val"} \cup (Errors \cap {"err"}) : _execute_in_background(w, kind)
    \/ _execute_in_background_callback(w)
    \/ _mark_task_complete(w)

Next ==
    \/ \E p \in Process : process_run(p) \/ SpuriousWakeup(p)
    \/ \E w \in Worker : RunWorker(w)
    \/ vm_delete

Spec == Init /\ [][Next]_vars

\* Threads that can run are scheduled, and native functions return.  The
\* main thread deletes the VM after process_run.
FairSpec ==
    /\ Spec
    /\ \A p \in Process : WF_vars(process_run(p))
    /\ \A w \in Worker : WF_vars(RunWorker(w))
    /\ WF_vars(vm_delete)
-----------------------------------------------------------------------------
(* Properties. *)

TaskState == {"TASK_NEW", "TASK_RUNNING", "TASK_WAITING", "TASK_COMPLETE", "TASK_ERROR"}

\* Where a thread may be: executing a task, handing on the result of one
\* (to one dependent at a time), or without a task.
Running == {"start", "exec", "insert", "set_waiting", "suspend", "failed", "fn", "callback"}
Resuming == {"deliver", "enqueue", "unwait", "signal"}
Marking == {"mark", "visit"} \cup Resuming
Idling == {"unborn", "pop", "is_done", "count", "check", "asleep", "returned", "idle"}
Label == Running \cup Marking \cup Idling

TaskTypeOK ==
    /\ parent_process \in [Task -> Process \cup {NULL}]
    /\ parent_task \in [Task -> Task \cup {NULL}]
    /\ state \in [Task -> TaskState]
    /\ resval \in [Task -> Entity]
    /\ dependent_tasks \in [Task -> SUBSET Task]
    /\ child_task_has_error \in [Task -> BOOLEAN]
    /\ context_error \in [Task -> BOOLEAN]
    /\ has_future \in [Task -> BOOLEAN]
    /\ awaits \in [Task -> Task \cup {NULL}]
    /\ ops \in [Task -> 0..MaxOps]

ProcessTypeOK ==
    /\ queued_tasks \in [Process -> Seq(Task)]
    /\ waiting_tasks \in [Process -> SUBSET Task]
    /\ completed_tasks \in [Process -> SUBSET Task]
    /\ waiting_task_count \in [Process -> Nat]

\* A thread has a task in hand exactly when its position says so.
ThreadTypeOK ==
    /\ pc \in [Thread -> Label]
    /\ cur \in [Thread -> Task \cup {NULL}]
    /\ todo \in [Thread -> SUBSET Task]
    /\ dep \in [Thread -> Task \cup {NULL}]
    /\ \A th \in Thread : pc[th] \in Marking \cup Running => cur[th] \in Task
    /\ \A th \in Thread : pc[th] \in Resuming => dep[th] \in Task

VmTypeOK ==
    /\ ntasks \in Task
    /\ nprocesses \in Process
    /\ background \in Seq(Task)
    /\ vm \in {"running", "aborted", "deleted"}

TypeOK == TaskTypeOK /\ ProcessTypeOK /\ ThreadTypeOK /\ VmTypeOK

InQueue(p, t) == \E i \in 1..Len(queued_tasks[p]) : queued_tasks[p][i] = t

\* A task is scheduled at most once: it is not in two queues or twice in one,
\* two threads do not resume it, and it is not queued while it runs.
ScheduledOnce ==
    /\ \A p, q \in Process :
         \A i \in 1..Len(queued_tasks[p]), j \in 1..Len(queued_tasks[q]) :
           queued_tasks[p][i] = queued_tasks[q][j] => p = q /\ i = j
    /\ \A th \in Thread : pc[th] \in {"deliver", "enqueue"} =>
         /\ \A p \in Process : ~InQueue(p, dep[th])
         /\ \A u \in Thread \ {th} :
              pc[u] \in {"deliver", "enqueue"} => dep[u] # dep[th]
    /\ \A p, q \in Process : pc[p] \in Running \ {"suspend"} =>
         /\ ~InQueue(q, cur[p])
         /\ q # p /\ pc[q] \in Running => cur[q] # cur[p]

\* A task that goes on after it waited has the result of the task it waited
\* for, and that task is finished.
ResultDelivered ==
    \A p \in Process :
      LET t == cur[p] IN
      pc[p] = "start" /\ awaits[t] # NULL =>
        future_is_complete(awaits[t]) /\ resval[t] = resval[awaits[t]]

\* A process that sleeps on its condition while a task is queued is about to
\* be woken by the thread that queued the task.
SleeperIsWoken ==
    \A p \in Process :
      pc[p] = "asleep" /\ queued_tasks[p] # <<>> =>
        \E th \in Thread : pc[th] \in {"unwait", "signal"} /\ parent_process[cur[th]] = p

\* Some thread will bring the waiting task t back into its queue.
WillBeResumed(t) ==
    LET f == awaits[t] IN
    \/ f \notin completed_tasks[parent_process[f]] /\ t \in dependent_tasks[f]
    \/ \E th \in Thread : cur[th] = f /\ t \in todo[th]
    \/ \E th \in Thread : dep[th] = t /\ pc[th] \in {"deliver", "enqueue"}
    \/ InQueue(parent_process[t], t)
    \/ \E p \in Process : cur[p] = t /\ pc[p] = "start"

\* Every waiting task is known to whoever will finish what it waits for.
NoLostWakeup ==
    \A t \in Task : state[t] = "TASK_WAITING" => WillBeResumed(t)

\* Between tasks, the waiting set of a process holds exactly the waiting
\* tasks that are not queued again: _process_is_done can rely on it.
WaitingSetExact ==
    \A p \in Process : pc[p] \in Idling =>
      waiting_tasks[p] = {t \in Task : /\ parent_process[t] = p
                                       /\ state[t] = "TASK_WAITING"
                                       /\ ~InQueue(p, t)}

\* A process returns only when each of its tasks is finished, the async ones
\* nobody waits for included.
ReturnsWhenDone ==
    \A p \in Process : pc[p] = "returned" =>
      \A t \in Task : parent_process[t] = p => future_is_complete(t)

\* A task leaves the waiting set only when the one it waited for has put it back
\* into the queue, whatever it has done since: the process, which returns when it
\* finds both empty, never misses it.  Only the task that has gone on and waits
\* for another one may be taken out of the set again.
LeavesWhenQueued ==
    [][\A p \in Process : \A t \in waiting_tasks[p] \ waiting_tasks'[p] :
         \/ state[t] # "TASK_WAITING" \/ InQueue(p, t)
         \/ \E q \in Process : cur[q] = t /\ pc[q] = "start"
         \/ \E th \in Thread : pc'[th] # pc[th] /\ dep[th] = t /\ awaits[t] # cur[th]]_vars

\* The ASSERT at the beginning of vm_execute_task: a task one of whose
\* children failed is resumed with the Error of that child.
ChildErrorIsError ==
    \A p \in Process :
      pc[p] = "start" /\ child_task_has_error[cur[p]] => resval[cur[p]].kind = "err"

\* Waiting for a task that finishes ends.
AwaitEnds ==
    \A t \in Task :
      state[t] = "TASK_WAITING" /\ awaits[t] # NULL /\ future_is_complete(awaits[t])
        ~> state[t] # "TASK_WAITING" \/ vm # "running"

\* A program whose calls all return comes to its end.
MainEnds == <>(vm # "running")

\* The detailed scheduler implements the abstract life of tasks.
Abstract == INSTANCE Tasks WITH
    TaskId <- Task, NoTask <- NULL, NoResult <- <<>>,
    phase <- [t \in Task |->
                CASE state[t] = "TASK_NEW" -> "none"
                  [] state[t] = "TASK_RUNNING" -> "live"
                  [] state[t] = "TASK_WAITING" -> "blocked"
                  [] OTHER -> "done"],
    blockedOn <- [t \in Task |-> IF state[t] = "TASK_WAITING" THEN awaits[t] ELSE NULL],
    result <- [t \in Task |-> IF future_is_complete(t) THEN <<resval[t]>> ELSE <<>>]

\* No task is resumed before what it waits for is done, and no finished task
\* runs again or changes its result.
ImplementsTasks == Abstract!TasksSpec
=============================================================================
