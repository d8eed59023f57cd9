------------------------ MODULE SchedulerInvariants -------------------------
(***************************************************************************)
(* Why the scheduler keeps its promises: the inductive invariants behind   *)
(* the properties of Scheduler.                                            *)
(*                                                                         *)
(* The idea is a token.  A task that can go on is in exactly one place: in *)
(* the queue of its process, in the queue of the pool, in the hands of a   *)
(* thread that runs it or passes its result on, or on its way back into a  *)
(* queue.  A task without a token waits, and the one thread that can give  *)
(* it back its token is the one that finishes what it waits for.           *)
(***************************************************************************)
EXTENDS Scheduler

Elements(q) == {q[i] : i \in 1..Len(q)}
Distinct(q) == \A i, j \in 1..Len(q) : q[i] = q[j] => i = j

\* The labels at which a thread holds the token of cur[th], and those at
\* which it holds that of dep[th].
Holding == (Running \ {"suspend"}) \cup Marking
Delivering == {"deliver", "enqueue"}
Visiting == {"visit"} \cup Resuming

\* Labels of a thread whose task is marked TASK_RUNNING.
Busy == {"exec", "insert", "set_waiting", "fn", "callback"}

Queued(t) == \E p \in Process : t \in Elements(queued_tasks[p])
Held(t) == \E th \in Thread : pc[th] \in Holding /\ cur[th] = t
Delivered(t) == \E th \in Thread : pc[th] \in Delivering /\ dep[th] = t

Finished == {"TASK_COMPLETE", "TASK_ERROR"}

\* A task is created once, by the process whose task it is.
Created ==
    /\ \A t \in Task : state[t] = "TASK_NEW" <=> t > ntasks
    /\ \A t \in Task : state[t] = "TASK_NEW" =>
         /\ ~has_future[t] /\ dependent_tasks[t] = {} /\ awaits[t] = NULL
         /\ parent_process[t] = NULL /\ parent_task[t] = NULL
    /\ \A t \in Task : state[t] # "TASK_NEW" => parent_process[t] \in Process
    /\ \A t \in Task : awaits[t] # NULL => state[awaits[t]] # "TASK_NEW"
    /\ \A p \in Process : p > nprocesses => pc[p] = "unborn"

\* A process queues and runs its own tasks only.
OwnTasks ==
    /\ \A p \in Process : \A t \in Elements(queued_tasks[p]) : parent_process[t] = p
    /\ \A p \in Process : pc[p] \in Running \cup Marking => parent_process[cur[p]] = p

\* A task has at most one token.
OneToken ==
    /\ Distinct(background)
    /\ \A p \in Process : Distinct(queued_tasks[p])
    /\ \A t \in Elements(background) : ~Queued(t) /\ ~Held(t) /\ ~Delivered(t)
    /\ \A t \in Task : Queued(t) => ~Held(t) /\ ~Delivered(t)
    /\ \A t \in Task : Held(t) => ~Delivered(t)
    /\ \A th, u \in Thread :
         pc[th] \in Holding /\ pc[u] \in Holding /\ cur[th] = cur[u] => th = u
    /\ \A th, u \in Thread :
         pc[th] \in Delivering /\ pc[u] \in Delivering /\ dep[th] = dep[u] => th = u

\* A task about to start is new or has what it waited for.
Ready(t) ==
    \/ state[t] = "TASK_RUNNING" /\ awaits[t] = NULL
    \/ /\ state[t] = "TASK_WAITING" /\ awaits[t] # NULL
       /\ state[awaits[t]] \in Finished
       /\ resval[t] = resval[awaits[t]]

\* The place of a token and the state of its task agree.
StateOfToken ==
    /\ \A t \in Task : Queued(t) => Ready(t)
    /\ \A t \in Elements(background) : state[t] = "TASK_RUNNING"
    /\ \A th \in Thread : pc[th] = "start" => Ready(cur[th])
    /\ \A th \in Thread : pc[th] \in Busy => state[cur[th]] = "TASK_RUNNING"
    /\ \A th \in Thread : pc[th] \in {"insert", "set_waiting"} => awaits[cur[th]] # NULL
    /\ \A th \in Thread : pc[th] \in {"failed"} \cup Marking => state[cur[th]] \in Finished
    /\ \A th \in Thread : pc[th] \in Delivering =>
         state[dep[th]] = "TASK_WAITING" /\ awaits[dep[th]] = cur[th]
    /\ \A th \in Thread : pc[th] = "enqueue" => resval[dep[th]] = resval[cur[th]]
    /\ \A t \in Task : state[t] = "TASK_WAITING" => awaits[t] # NULL

\* The completed tasks are those whose dependents are being, or were, visited.
Completed ==
    /\ \A p \in Process : \A t \in completed_tasks[p] : state[t] \in Finished
    /\ \A th \in Thread : pc[th] \in {"failed", "mark"} =>
         \A p \in Process : cur[th] \notin completed_tasks[p]
    /\ \A th \in Thread : pc[th] \in Visiting =>
         cur[th] \in completed_tasks[parent_process[cur[th]]]
    /\ \A th \in Thread : pc[th] \notin Visiting => todo[th] = {}

\* The task t is among those that f, or the thread that completes f, is
\* still going to visit.
ToVisit(f, t) ==
    \/ t \in dependent_tasks[f] /\ f \notin completed_tasks[parent_process[f]]
    \/ \E th \in Thread : cur[th] = f /\ t \in todo[th]

\* A task that waits without a token, or is about to.
Suspended(t) ==
    \/ state[t] = "TASK_WAITING" /\ ~Queued(t) /\ ~Held(t) /\ ~Delivered(t)
    \/ \E p \in Process : pc[p] = "set_waiting" /\ cur[p] = t

\* Only the task it waits for visits a task; the one exception is the task
\* without a parent that failed, which its io.errorln finds finished.
Dependents ==
    \A f, t \in Task : ToVisit(f, t) =>
        \/ state[t] = "TASK_ERROR"
        \/ awaits[t] = f /\ Suspended(t)

TokenInv == Created /\ OwnTasks /\ OneToken /\ StateOfToken /\ Completed /\ Dependents

\* A task that was queued because c is finished does not wait for c: it is still
\* queued, or runs, or is finished, or waits for another task.
Resumed(t, c) ==
    \/ awaits[t] # c \/ Queued(t) \/ state[t] \in Finished
    \/ \E p \in Process : cur[p] = t /\ pc[p] \in {"start", "exec"}

Requeued == \A th \in Thread : pc[th] = "unwait" => Resumed(dep[th], cur[th])
-----------------------------------------------------------------------------
(* Programs that keep their futures to themselves: "share" \notin Ops.      *)

\* A task waits for tasks of its own process.
OwnFutures ==
    \A t \in Task : awaits[t] # NULL => parent_process[awaits[t]] = parent_process[t]
-----------------------------------------------------------------------------
(* Programs without background functions that keep their futures to        *)
(* themselves: what happens to the tasks of a process its thread does.     *)

WorkersIdle == background = <<>> /\ \A w \in Worker : pc[w] = "idle"

\* The task t of process p waits and is not queued again.
Waits(p, t) ==
    /\ parent_process[t] = p /\ state[t] = "TASK_WAITING"
    /\ t \notin Elements(queued_tasks[p])

\* How far the waiting set is behind the states of the tasks: the task in hand
\* is not in it yet, or no longer, and the one just queued still is.
WaitingSet ==
    \A p \in Process :
      /\ \A t \in Task : t \in waiting_tasks[p] <=>
           \/ Waits(p, t) /\ ~(pc[p] \in {"start", "suspend"} /\ cur[p] = t)
           \/ pc[p] = "unwait" /\ dep[p] = t
      /\ pc[p] = "suspend" => Waits(p, cur[p])
      /\ pc[p] = "unwait" => dep[p] \in Elements(queued_tasks[p])

\* A task that can run is queued or in hand.
Runnable == \A t \in Task : state[t] = "TASK_RUNNING" => Queued(t) \/ Held(t)

\* A task about to wait cannot miss the end of what it is going to wait for.
Arriving ==
    \A p \in Process : pc[p] \in {"insert", "set_waiting"} =>
      LET f == awaits[cur[p]] IN
      /\ f \notin completed_tasks[parent_process[f]]
      /\ pc[p] = "set_waiting" => cur[p] \in dependent_tasks[f]

\* Somebody is going to give a waiting task its token back, or has done so.
Awaited ==
    \A t \in Task : state[t] = "TASK_WAITING" =>
      \/ ToVisit(awaits[t], t) \/ Delivered(t) \/ Queued(t)
      \/ \E p \in Process : pc[p] = "start" /\ cur[p] = t

Bookkeeping == WaitingSet /\ Runnable /\ Arriving /\ Awaited

LocalInv == OwnFutures /\ WorkersIdle /\ Bookkeeping
-----------------------------------------------------------------------------
(* Programs that only call: Ops \subseteq {"call"}.                         *)

\* A task that is not complete has its parent as a dependent.
ParentDepends ==
    \A t \in Task : parent_task[t] # NULL /\ t \notin completed_tasks[parent_process[t]] =>
        parent_task[t] \in dependent_tasks[t]

\* An error is an error, and the flag of a parent speaks of the task it waits
\* for.
ErrorFlags ==
    /\ \A t \in Task : ~context_error[t]
    /\ \A p \in Process : pc[p] = "failed" => state[cur[p]] = "TASK_ERROR"
    /\ \A t \in Task : state[t] = "TASK_ERROR" => resval[t].kind = "err"
    /\ \A t \in Task : child_task_has_error[t] =>
         \/ state[t] = "TASK_ERROR"
         \/ state[t] = "TASK_WAITING" /\ state[awaits[t]] = "TASK_ERROR"

CallsInv ==
    /\ WorkersIdle
    /\ \A p \in Process : pc[p] \notin {"insert", "set_waiting"}
    /\ ParentDepends /\ ErrorFlags
=============================================================================
