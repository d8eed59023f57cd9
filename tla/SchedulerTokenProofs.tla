------------------------ MODULE SchedulerTokenProofs ------------------------
(***************************************************************************)
(* A task has one token: TokenInv of SchedulerInvariants is inductive,     *)
(* whatever operations the program uses.  From it follow that a task is    *)
(* scheduled at most once, that a resumed task has the result it waited    *)
(* for, that a task leaves the waiting set only when it is queued, and     *)
(* that the scheduler implements the abstract life of tasks.               *)
(***************************************************************************)
EXTENDS SchedulerInvariants, SchedulerProofs

\* The sets of labels, written out.
LEMMA Labels ==
    /\ \A l \in {"start", "exec", "insert", "set_waiting", "failed", "fn", "callback",
                 "mark", "visit", "deliver", "enqueue", "unwait", "signal"} : l \in Holding
    /\ \A l \in {"suspend", "unborn", "pop", "is_done", "count", "check", "asleep",
                 "returned", "idle"} : l \notin Holding
    /\ Finished = {"TASK_COMPLETE", "TASK_ERROR"}
    /\ Resuming = {"deliver", "enqueue", "unwait", "signal"}
    /\ Delivering = {"deliver", "enqueue"}
    /\ Visiting = {"visit", "deliver", "enqueue", "unwait", "signal"}
    /\ Marking = {"mark", "visit", "deliver", "enqueue", "unwait", "signal"}
    /\ Running = {"start", "exec", "insert", "set_waiting", "suspend", "failed", "fn",
                  "callback"}
    /\ Busy = {"exec", "insert", "set_waiting", "fn", "callback"}
  BY DEF Holding, Running, Marking, Resuming, Delivering, Visiting, Busy, Finished
-----------------------------------------------------------------------------
(* Queues. *)

LEMMA ElementsEmpty == Elements(<<>>) = {} /\ Distinct(<<>>)
  BY DEF Elements, Distinct

LEMMA ElementsTyped ==
    ASSUME NEW S, NEW q \in Seq(S) PROVE Elements(q) \subseteq S
  BY DEF Elements

LEMMA ElementsAppend ==
    ASSUME NEW S, NEW q \in Seq(S), NEW t \in S
    PROVE  /\ Elements(Append(q, t)) = Elements(q) \cup {t}
           /\ Distinct(q) /\ t \notin Elements(q) => Distinct(Append(q, t))
<1>1. Elements(Append(q, t)) = Elements(q) \cup {t}
  BY DEF Elements
<1>2. Distinct(q) /\ t \notin Elements(q) => Distinct(Append(q, t))
  BY DEF Elements, Distinct
<1> QED BY <1>1, <1>2

LEMMA ElementsTail ==
    ASSUME NEW S, NEW q \in Seq(S), q # <<>>, Distinct(q)
    PROVE  /\ Elements(Tail(q)) = Elements(q) \ {Head(q)}
           /\ Head(q) \in Elements(q)
           /\ Distinct(Tail(q))
<1>1. Head(q) \in Elements(q)
  BY DEF Elements
<1>2. Distinct(Tail(q))
  BY DEF Distinct
<1>3. /\ Len(Tail(q)) = Len(q) - 1 /\ Len(q) \in Nat \ {0}
      /\ \A i \in 1..Len(Tail(q)) : Tail(q)[i] = q[i + 1]
      /\ Head(q) = q[1]
  OBVIOUS
<1>4. ASSUME NEW x \in Elements(Tail(q)) PROVE x \in Elements(q) /\ x # Head(q)
  <2>1. PICK i \in 1..Len(Tail(q)) : x = Tail(q)[i]
    BY <1>4 DEF Elements
  <2>2. i + 1 \in 1..Len(q) /\ i + 1 # 1 /\ x = q[i + 1] /\ 1 \in 1..Len(q)
    BY <1>3, <2>1
  <2> QED BY <1>3, <2>2 DEF Elements, Distinct
<1>5. ASSUME NEW x \in Elements(q), x # Head(q) PROVE x \in Elements(Tail(q))
  <2>1. PICK i \in 1..Len(q) : x = q[i]
    BY <1>5 DEF Elements
  <2>2. i - 1 \in 1..Len(Tail(q)) /\ (i - 1) + 1 = i
    BY <1>3, <1>5, <2>1
  <2>3. x = Tail(q)[i - 1]
    BY <1>3, <2>1, <2>2
  <2> QED BY <2>2, <2>3 DEF Elements
<1> QED BY <1>1, <1>2, <1>4, <1>5

\* Putting a task that is in no queue into the queue of a process.
LEMMA EnqueueElements ==
    ASSUME TypeOK, NEW q \in Process, NEW t \in Task, process_enqueue_task(q, t)
    PROVE  /\ Elements(queued_tasks'[q]) = Elements(queued_tasks[q]) \cup {t}
           /\ \A r \in Process : r # q => queued_tasks'[r] = queued_tasks[r]
           /\ \A x \in Task : Queued(x)' <=> Queued(x) \/ x = t
           /\ (\A r \in Process : Distinct(queued_tasks[r])) /\ ~Queued(t)
                => \A r \in Process : Distinct(queued_tasks'[r])
<1>1. /\ queued_tasks'[q] = Append(queued_tasks[q], t) /\ queued_tasks[q] \in Seq(Task)
      /\ \A r \in Process : r # q => queued_tasks'[r] = queued_tasks[r]
  BY DEF process_enqueue_task, TypeOK, ProcessTypeOK
<1>2. Elements(queued_tasks'[q]) = Elements(queued_tasks[q]) \cup {t}
  BY <1>1, ElementsAppend
<1>3. \A x \in Task : Queued(x)' <=> Queued(x) \/ x = t
  BY <1>1, <1>2 DEF Queued
<1>4. Distinct(queued_tasks[q]) /\ ~Queued(t) => Distinct(queued_tasks'[q])
  BY <1>1, ElementsAppend DEF Queued
<1> QED BY <1>1, <1>2, <1>3, <1>4
-----------------------------------------------------------------------------
(* Consequences of the invariant that the steps share. *)

\* What the thread of a running task has in hand.
LEMMA InHand ==
    ASSUME TypeOK, NEW th \in Thread
    PROVE  /\ pc[th] \in Running \cup Marking => cur[th] \in Task
           /\ pc[th] \in Resuming => dep[th] \in Task
  BY DEF TypeOK, ThreadTypeOK

\* Nobody is going to visit a task in the hands of a thread that runs it.
LEMMA NotVisited ==
    ASSUME TypeOK, TokenInv, NEW th \in Thread,
           pc[th] \in {"start", "exec", "insert", "fn", "callback"}
    PROVE  /\ cur[th] \in Task
           /\ state[cur[th]] \in {"TASK_RUNNING", "TASK_WAITING"}
           /\ \A f \in Task : ~ToVisit(f, cur[th])
<1> USE Labels DEF TokenInv
<1>1. cur[th] \in Task
  BY InHand
<1>2. state[cur[th]] \in {"TASK_RUNNING", "TASK_WAITING"}
  BY DEF StateOfToken, Ready
<1>3. Held(cur[th]) /\ \A p \in Process : ~(pc[p] = "set_waiting" /\ cur[p] = cur[th])
  BY Basics DEF Held, OneToken
<1>4. ~Suspended(cur[th])
  BY <1>3 DEF Suspended
<1> QED BY <1>1, <1>2, <1>4 DEF Dependents

\* A task that is not created yet is nowhere.
LEMMA Unborn ==
    ASSUME TypeOK, TokenInv, NEW n \in Task, state[n] = "TASK_NEW"
    PROVE  /\ ~Queued(n) /\ ~Held(n) /\ ~Delivered(n) /\ n \notin Elements(background)
           /\ \A p \in Process : n \notin completed_tasks[p]
           /\ \A f \in Task : ~ToVisit(f, n) /\ ~ToVisit(n, f) /\ awaits[f] # n
           /\ \A p \in Process : pc[p] \in Running \cup Marking => cur[p] # n
<1> USE Labels, Basics DEF TokenInv
<1>1. ~Queued(n) /\ n \notin Elements(background)
  BY DEF StateOfToken, Ready
<1>2. ~Held(n)
  <2> SUFFICES ASSUME NEW th \in Thread, pc[th] \in Holding, cur[th] = n PROVE FALSE
    BY DEF Held
  <2>1. pc[th] \in {"start"} \cup Busy \cup {"failed"} \cup Marking
    BY DEF Holding
  <2> QED BY <2>1 DEF StateOfToken, Ready
<1>3. ~Delivered(n)
  BY DEF Delivered, StateOfToken
<1>4. \A p \in Process : n \notin completed_tasks[p]
  BY DEF Completed
<1>5. awaits[n] = NULL /\ dependent_tasks[n] = {} /\ parent_process[n] = NULL
  BY DEF Created
<1>6. ASSUME NEW f \in Task PROVE ~ToVisit(f, n) /\ ~ToVisit(n, f) /\ awaits[f] # n
  <2>1. ~ToVisit(f, n)
    BY <1>5 DEF Dependents
  <2>2. ~ToVisit(n, f)
    BY <1>2, <1>5 DEF ToVisit, Completed, Held
  <2>3. awaits[f] # n
    BY DEF Created
  <2> QED BY <2>1, <2>2, <2>3
<1>7. \A p \in Process : pc[p] \in Running \cup Marking => cur[p] # n
  BY <1>5 DEF OwnTasks, Process, NULL
<1> QED BY <1>1, <1>2, <1>3, <1>4, <1>6, <1>7
-----------------------------------------------------------------------------
(* One lemma per step. *)

\* Steps that only move threads without a task, or end the program.
LEMMA IdleToken ==
    ASSUME TypeOK, TokenInv,
           UNCHANGED <<taskVars, waitVars, queued_tasks, completed_tasks, cur, todo, dep,
                       ntasks, nprocesses, background>>,
           \A th \in Thread :
             \/ pc'[th] = pc[th]
             \/ pc[th] \in Idling \ {"unborn"} /\ pc'[th] \in Idling
    PROVE  TokenInv'
<1> USE Labels, Basics DEF TypeOK, TokenInv, taskVars, waitVars, Idling
<1>1. Created'
  BY DEF Created
<1>2. OwnTasks'
  BY DEF OwnTasks
<1>3. /\ \A th \in Thread : pc'[th] \in Holding <=> pc[th] \in Holding
      /\ \A t \in Task : (Queued(t)' <=> Queued(t)) /\ (Held(t)' <=> Held(t))
      /\ \A t \in Task : Delivered(t)' <=> Delivered(t)
  BY DEF Queued, Held, Delivered
<1>4. OneToken'
  BY DEF OneToken, Queued, Held, Delivered
<1>5. StateOfToken'
  BY <1>3 DEF StateOfToken, Ready
<1>6. Completed'
  BY DEF Completed
<1>7. Dependents'
  BY <1>3 DEF Dependents, ToVisit, Suspended
<1> QED BY <1>1, <1>2, <1>4, <1>5, <1>6, <1>7

LEMMA PopToken == ASSUME TypeOK, TokenInv, NEW p \in Process,
   process_pop_task(p) PROVE TokenInv'
<1> DEFINE t == Head(queued_tasks[p])
<1> USE Labels, Basics DEF TypeOK, TokenInv, At, Goto
<1>1. /\ queued_tasks[p] \in Seq(Task) /\ queued_tasks[p] # <<>>
      /\ queued_tasks'[p] = Tail(queued_tasks[p])
      /\ \A r \in Process : r # p => queued_tasks'[r] = queued_tasks[r]
      /\ pc[p] = "pop" /\ pc' = [pc EXCEPT ![p] = "start"]
      /\ cur' = [cur EXCEPT ![p] = t]
      /\ UNCHANGED <<taskVars, waitVars, completed_tasks, todo, dep, ntasks, nprocesses,
                     background>>
  BY DEF process_pop_task, ProcessTypeOK, vmVars
<1>2. /\ Elements(queued_tasks'[p]) = Elements(queued_tasks[p]) \ {t}
      /\ t \in Elements(queued_tasks[p]) /\ t \in Task
      /\ Distinct(queued_tasks'[p])
  BY <1>1, ElementsTail, HeadTail DEF OneToken
<1>3. Queued(t) /\ parent_process[t] = p /\ \A r \in Process : r # p =>
        t \notin Elements(queued_tasks[r])
  BY <1>2 DEF OwnTasks, Queued
<1> HIDE DEF t
<1>4. \A x \in Task : Queued(x)' <=> Queued(x) /\ x # t
  BY <1>1, <1>2, <1>3 DEF Queued
<1>5. /\ pc'[p] = "start" /\ cur'[p] = t
      /\ \A u \in Thread : u # p => pc'[u] = pc[u] /\ cur'[u] = cur[u]
  BY <1>1 DEF ThreadTypeOK
<1> USE <1>1 DEF taskVars, waitVars
<1>6. \A x \in Task : (Held(x)' <=> Held(x) \/ x = t) /\ (Delivered(x)' <=> Delivered(x))
  BY <1>5 DEF Held, Delivered
<1>7. Created'
  BY <1>5 DEF Created
<1>8. OwnTasks'
  BY <1>2, <1>3, <1>5 DEF OwnTasks
<1>9. OneToken'
  <2>1. ~Held(t) /\ ~Delivered(t) /\ t \notin Elements(background)
    BY <1>2, <1>3 DEF OneToken
  <2>2. Elements(background) \subseteq Task
    BY ElementsTyped DEF VmTypeOK
  <2>3. \A th, u \in Thread :
          pc'[th] \in Holding /\ pc'[u] \in Holding /\ cur'[th] = cur'[u] => th = u
    BY <1>5, <2>1 DEF OneToken, Held
  <2>4. \A th, u \in Thread :
          pc'[th] \in Delivering /\ pc'[u] \in Delivering /\ dep'[th] = dep'[u] => th = u
    BY <1>5 DEF OneToken
  <2>5. \A r \in Process : Distinct(queued_tasks'[r])
    BY <1>2 DEF OneToken
  <2>6. Distinct(background)'
    BY DEF OneToken
  <2>7. \A x \in Elements(background) : ~Queued(x)' /\ ~Held(x)' /\ ~Delivered(x)'
    BY <1>4, <1>6, <2>1, <2>2 DEF OneToken
  <2>8. \A x \in Task : (Queued(x)' => ~Held(x)' /\ ~Delivered(x)') /\
          (Held(x)' => ~Delivered(x)')
    BY <1>4, <1>6, <2>1, <2>2 DEF OneToken
  <2> QED BY <2>3, <2>4, <2>5, <2>6, <2>7, <2>8 DEF OneToken
<1>10. StateOfToken'
  BY <1>2, <1>3, <1>4, <1>5 DEF StateOfToken, Ready
<1>11. Completed'
  BY <1>5 DEF Completed
<1>12. Dependents'
  <2>1. \A f, x \in Task : ToVisit(f, x)' => ToVisit(f, x)
    BY <1>5 DEF ToVisit, Completed
  <2>2. \A x \in Task : Suspended(x) => Suspended(x)'
    BY <1>3, <1>4, <1>5, <1>6 DEF Suspended
  <2> QED BY <2>1, <2>2 DEF Dependents
<1> QED BY <1>7, <1>8, <1>9, <1>10, <1>11, <1>12

LEMMA StartToken == ASSUME TypeOK, TokenInv, NEW p \in Process, NEW t \in Task, t = cur[p],
    pc[p] \in {"start", "exec"}, pc' = [pc EXCEPT ![p] = "exec"],
    state' = [state EXCEPT ![t] = "TASK_RUNNING"],
    UNCHANGED <<taskVars, resval, dependent_tasks, awaits, setVars, cur, todo, dep, vmVars>>
    PROVE TokenInv'
<1> USE Labels, Basics DEF TypeOK, TokenInv, taskVars, setVars, vmVars
<1>1. /\ state[t] \in {"TASK_RUNNING", "TASK_WAITING"}
      /\ \A f \in Task : ~ToVisit(f, t)
      /\ state[t] = "TASK_WAITING" => awaits[t] # NULL /\ state[awaits[t]] \in Finished
  BY NotVisited DEF StateOfToken, Ready
<1>2. /\ pc'[p] = "exec" /\ \A u \in Thread : u # p => pc'[u] = pc[u]
      /\ state'[t] = "TASK_RUNNING" /\ \A x \in Task : x # t => state'[x] = state[x]
  BY DEF ThreadTypeOK, TaskTypeOK
<1>3. /\ \A th \in Thread : pc'[th] \in Holding <=> pc[th] \in Holding
      /\ \A th \in Thread : pc'[th] \in Delivering <=> pc[th] \in Delivering
      /\ \A x \in Task : (Queued(x)' <=> Queued(x)) /\ (Held(x)' <=> Held(x))
      /\ \A x \in Task : Delivered(x)' <=> Delivered(x)
      /\ Held(t) /\ ~Queued(t)
      /\ \A u \in Thread : u # p /\ pc[u] \in Holding => cur[u] # t
      /\ \A u \in Thread : pc[u] \in Delivering => dep[u] # t
      /\ t \notin Elements(background)
  BY <1>2 DEF Queued, Held, Delivered, OneToken
<1>4. Created'
  BY <1>1, <1>2 DEF Created, TaskTypeOK
<1>5. OwnTasks'
  BY <1>2 DEF OwnTasks
<1>6. OneToken'
  BY <1>3 DEF OneToken, Queued, Held, Delivered
<1>7. StateOfToken'
  <2>1. \A x \in Task : x # t /\ Ready(x) => Ready(x)'
    BY <1>1, <1>2 DEF Ready, TaskTypeOK
  <2>2. Elements(background) \subseteq Task
    BY ElementsTyped DEF VmTypeOK
  <2>3. \A x \in Task : Queued(x)' => Ready(x)'
    BY <1>3, <2>1 DEF StateOfToken
  <2>4. \A th \in Thread : pc'[th] = "start" => Ready(cur[th])'
    BY <1>2, <1>3, <2>1, InHand DEF StateOfToken
  <2>5. \A th \in Thread : pc'[th] \in {"failed"} \cup Marking => state'[cur'[th]] \in Finished
    BY <1>2, <1>3, InHand DEF StateOfToken
  <2>6. \A th \in Thread : pc'[th] \in Delivering =>
          state'[dep'[th]] = "TASK_WAITING" /\ awaits'[dep'[th]] = cur'[th]
    BY <1>2, <1>3, InHand DEF StateOfToken
  <2>7. \A th \in Thread : pc'[th] \in Busy => state'[cur'[th]] = "TASK_RUNNING"
    BY <1>2, <1>3, InHand DEF StateOfToken
  <2> QED BY <1>2, <2>2, <2>3, <2>4, <2>5, <2>6, <2>7 DEF StateOfToken
<1>8. Completed'
  BY <1>1, <1>2, <1>3 DEF Completed, ProcessTypeOK
<1>9. Dependents'
  <2>1. \A f, x \in Task : ToVisit(f, x)' <=> ToVisit(f, x)
    BY DEF ToVisit
  <2>2. \A x \in Task : x # t /\ Suspended(x) => Suspended(x)'
    BY <1>2, <1>3 DEF Suspended
  <2> QED BY <1>1, <1>2, <2>1, <2>2 DEF Dependents
<1> QED BY <1>4, <1>5, <1>6, <1>7, <1>8, <1>9

\* A task that ends: Return, an error in a task with a parent, the callback
\* of a background function.
LEMMA EndToken == ASSUME TypeOK, TokenInv, NEW th \in Thread, NEW t \in Task, t = cur[th],
    NEW r \in Entity, NEW s \in Finished, NEW l \in {"failed", "mark"},
    pc[th] \in {"start", "exec", "callback"}, pc' = [pc EXCEPT ![th] = l],
    state' = [state EXCEPT ![t] = s],
    resval' = [resval EXCEPT ![t] = r],
    UNCHANGED <<taskVars, dependent_tasks, awaits, setVars, cur, todo, dep, vmVars>>
    PROVE TokenInv'
<1> USE Labels, Basics DEF TypeOK, TokenInv, taskVars, setVars, vmVars
<1>1. /\ state[t] \in {"TASK_RUNNING", "TASK_WAITING"}
      /\ \A f \in Task : ~ToVisit(f, t)
      /\ state[t] = "TASK_WAITING" => awaits[t] # NULL /\ state[awaits[t]] \in Finished
  BY NotVisited DEF StateOfToken, Ready
<1>2. /\ pc'[th] = l /\ \A u \in Thread : u # th => pc'[u] = pc[u]
      /\ state'[t] = s /\ \A x \in Task : x # t => state'[x] = state[x]
      /\ resval'[t] = r /\ \A x \in Task : x # t => resval'[x] = resval[x]
  BY DEF ThreadTypeOK, TaskTypeOK
<1>3. /\ \A u \in Thread : pc'[u] \in Holding <=> pc[u] \in Holding
      /\ \A u \in Thread : pc'[u] \in Delivering <=> pc[u] \in Delivering
      /\ \A x \in Task : (Queued(x)' <=> Queued(x)) /\ (Held(x)' <=> Held(x))
      /\ \A x \in Task : Delivered(x)' <=> Delivered(x)
      /\ Held(t) /\ ~Queued(t)
      /\ \A u \in Thread : u # th /\ pc[u] \in Holding => cur[u] # t
      /\ \A u \in Thread : pc[u] \in Delivering => dep[u] # t
      /\ t \notin Elements(background)
  BY <1>2 DEF Queued, Held, Delivered, OneToken
<1>4. Created'
  BY <1>1, <1>2 DEF Created, TaskTypeOK
<1>5. OwnTasks'
  BY <1>2 DEF OwnTasks
<1>6. OneToken'
  BY <1>3 DEF OneToken, Queued, Held, Delivered
<1>7. StateOfToken'
  <2>1. \A x \in Task : x # t /\ Ready(x) => Ready(x)'
    BY <1>1, <1>2 DEF Ready, TaskTypeOK
  <2>2. Elements(background) \subseteq Task
    BY ElementsTyped DEF VmTypeOK
  <2>3. \A x \in Task : Queued(x)' => Ready(x)'
    BY <1>3, <2>1 DEF StateOfToken
  <2>4. \A u \in Thread : pc'[u] = "start" => Ready(cur[u])'
    BY <1>2, <1>3, <2>1, InHand DEF StateOfToken
  <2>5. \A u \in Thread : pc'[u] \in {"failed"} \cup Marking => state'[cur'[u]] \in Finished
    BY <1>2, <1>3, InHand DEF StateOfToken
  <2>6. \A u \in Thread : pc'[u] \in Delivering =>
          state'[dep'[u]] = "TASK_WAITING" /\ awaits'[dep'[u]] = cur'[u]
    BY <1>2, <1>3, InHand DEF StateOfToken
  <2>7. \A u \in Thread : pc'[u] \in Busy => state'[cur'[u]] = "TASK_RUNNING"
    BY <1>2, <1>3, InHand DEF StateOfToken
  <2>8. \A u \in Thread : pc'[u] = "enqueue" => resval'[dep'[u]] = resval'[cur'[u]]
    BY <1>2, <1>3, InHand DEF StateOfToken
  <2>9. \A x \in Elements(background) : state'[x] = "TASK_RUNNING"
    BY <1>2, <1>3, <2>2 DEF StateOfToken
  <2> QED BY <1>2, <2>3, <2>4, <2>5, <2>6, <2>7, <2>8, <2>9 DEF StateOfToken
<1>8. Completed'
  <2>1. \A u \in Process : t \notin completed_tasks[u]
    BY <1>1 DEF Completed
  <2>2. \A u \in Process : \A x \in completed_tasks[u] : state'[x] \in Finished
    BY <1>2, <2>1 DEF Completed, ProcessTypeOK
  <2> QED BY <1>2, <2>1, <2>2 DEF Completed
<1>9. Dependents'
  <2>1. \A f, x \in Task : ToVisit(f, x)' <=> ToVisit(f, x)
    BY DEF ToVisit
  <2>2. \A x \in Task : x # t /\ Suspended(x) => Suspended(x)'
    BY <1>2, <1>3 DEF Suspended
  <2> QED BY <1>1, <1>2, <2>1, <2>2 DEF Dependents
<1> QED BY <1>4, <1>5, <1>6, <1>7, <1>8, <1>9

\* A new task that goes into a queue while its creator goes on: an async
\* call, a background call, the first task of a new process.
Spawn(p, q, n, b) ==
    /\ pc[p] = "exec" /\ n = ntasks + 1
    /\ process_create_unqueued_task(q, cur[p], b)
    /\ \/ process_enqueue_task(q, n) /\ UNCHANGED background
       \/ background' = Append(background, n) /\ UNCHANGED queued_tasks
    /\ state' = [state EXCEPT ![n] = "TASK_RUNNING"]
    /\ resval' = [resval EXCEPT ![cur[p]] = Plain]
    /\ \A u \in Thread : pc'[u] = pc[u] \/ (pc[u] = "unborn" /\ pc'[u] = "pop")
    /\ \A u \in Process : u > nprocesses' => u > nprocesses /\ pc'[u] = pc[u]
    /\ UNCHANGED <<dependent_tasks, awaits, waiting_tasks, completed_tasks, cur, todo, dep>>

LEMMA SpawnToken ==
    ASSUME TypeOK, TokenInv, NEW p \in Process, NEW q \in Process, NEW n \in Task,
           NEW b \in BOOLEAN, Spawn(p, q, n, b)
    PROVE  TokenInv'
<1> USE Labels, Basics DEF TypeOK, TokenInv
<1>0. PICK t \in Task : t = cur[p] /\ pc[p] = "exec"
  BY InHand DEF Spawn
<1>a. /\ UNCHANGED <<dependent_tasks, awaits, completed_tasks, cur, todo, dep>>
      /\ \A u \in Thread : pc'[u] = pc[u] \/ (pc[u] = "unborn" /\ pc'[u] = "pop")
      /\ \A u \in Process : u > nprocesses' => u > nprocesses /\ pc'[u] = pc[u]
  BY DEF Spawn
<1>1. /\ state[n] = "TASK_NEW" /\ ntasks \in Nat /\ ntasks' = n
      /\ parent_process'[n] = q /\ parent_task'[n] = t
      /\ \A x \in Task : x # n => /\ parent_process'[x] = parent_process[x]
                                  /\ parent_task'[x] = parent_task[x]
                                  /\ has_future'[x] = has_future[x]
      /\ state'[n] = "TASK_RUNNING" /\ \A x \in Task : x # n => state'[x] = state[x]
      /\ resval'[t] = Plain /\ \A x \in Task : x # t => resval'[x] = resval[x]
  BY <1>0 DEF Spawn, process_create_unqueued_task, TaskTypeOK, VmTypeOK, Created, Task
<1> USE <1>0, <1>a
<1>2. /\ ~Queued(n) /\ ~Held(n) /\ ~Delivered(n) /\ n \notin Elements(background)
      /\ \A u \in Process : n \notin completed_tasks[u]
      /\ \A f \in Task : ~ToVisit(f, n) /\ ~ToVisit(n, f) /\ awaits[f] # n
      /\ \A u \in Process : pc[u] \in Running \cup Marking => cur[u] # n
      /\ awaits[n] = NULL
  BY <1>1, Unborn DEF Created
<1>3. /\ \A x \in Task : Queued(x)' \/ x \in Elements(background)' <=>
                           Queued(x) \/ x \in Elements(background) \/ x = n
      /\ ~(Queued(n)' /\ n \in Elements(background)')
      /\ \A x \in Task : x # n => (Queued(x)' <=> Queued(x))
      /\ \A r \in Process : \A x \in Elements(queued_tasks'[r]) :
           x \in Elements(queued_tasks[r]) \/ (x = n /\ r = q)
      /\ \A r \in Process : Distinct(queued_tasks'[r])
      /\ Distinct(background')
      /\ Elements(background') \subseteq Elements(background) \cup {n}
      /\ Elements(background) \subseteq Task
  <2>0. /\ Elements(background) \subseteq Task /\ background \in Seq(Task)
        /\ \A r \in Process : Distinct(queued_tasks[r])
        /\ Distinct(background)
    BY ElementsTyped DEF VmTypeOK, OneToken
  <2>1. CASE process_enqueue_task(q, n) /\ UNCHANGED background
    <3>1. /\ Elements(queued_tasks'[q]) = Elements(queued_tasks[q]) \cup {n}
          /\ \A r \in Process : r # q => queued_tasks'[r] = queued_tasks[r]
          /\ \A x \in Task : Queued(x)' <=> Queued(x) \/ x = n
          /\ \A r \in Process : Distinct(queued_tasks'[r])
      BY <2>0, <2>1, <1>2, EnqueueElements
    <3>2. /\ \A x \in Task : Queued(x)' \/ x \in Elements(background') <=>
                           Queued(x) \/ x \in Elements(background) \/ x = n
          /\ n \notin Elements(background') /\ Distinct(background')
          /\ Elements(background') \subseteq Elements(background) \cup {n}
      BY <2>0, <2>1, <1>2, <3>1
    <3>3. \A r \in Process : \A x \in Elements(queued_tasks'[r]) :
           x \in Elements(queued_tasks[r]) \/ (x = n /\ r = q)
      BY <3>1
    <3>4. ~(Queued(n)' /\ n \in Elements(background)')
      BY <3>2
    <3>5. \A x \in Task : x # n => (Queued(x)' <=> Queued(x))
      BY <3>1
    <3> QED BY <2>0, <3>1, <3>2, <3>3, <3>4, <3>5
  <2>2. CASE background' = Append(background, n) /\ UNCHANGED queued_tasks
    <3>1. Elements(background') = Elements(background) \cup {n} /\ Distinct(background')
      BY <2>0, <2>2, <1>2, ElementsAppend
    <3>2. \A x \in Task : (Queued(x)' <=> Queued(x))
      BY <2>2 DEF Queued
    <3> QED BY <2>0, <2>2, <1>2, <3>1, <3>2
  <2> QED BY <2>1, <2>2 DEF Spawn
<1>4. /\ \A u \in Thread : pc'[u] \in Holding <=> pc[u] \in Holding
      /\ \A u \in Thread : pc'[u] \in Holding => pc'[u] = pc[u]
      /\ \A u \in Thread : pc'[u] \in Delivering <=> pc[u] \in Delivering
      /\ \A x \in Task : (Held(x)' <=> Held(x)) /\ (Delivered(x)' <=> Delivered(x))
  BY DEF Held, Delivered
<1>5. /\ ~Queued(t) /\ t # n /\ state[t] = "TASK_RUNNING"
      /\ \A u \in Thread : u # p /\ pc[u] \in Holding => cur[u] # t
      /\ \A u \in Thread : pc[u] \in Delivering => dep[u] # t
      /\ \A u \in Thread : pc[u] \in Holding => cur[u] # n
      /\ \A u \in Thread : pc[u] \in Delivering => dep[u] # n
  BY <1>1, <1>2 DEF Held, Delivered, OneToken, StateOfToken
<1>6. Created'
  <2>1. \A x \in Task : x > ntasks' <=> x > ntasks /\ x # n
    <3>1. n = ntasks + 1
      BY DEF Spawn
    <3> QED BY <1>1, <3>1 DEF Task
  <2>2. \A u \in Process : u > nprocesses' => pc'[u] = "unborn"
    BY DEF Created
  <2> QED BY <1>1, <1>2, <2>1, <2>2 DEF Created, TaskTypeOK
<1>7. OwnTasks'
  <2>1. \A r \in Process : \A x \in Elements(queued_tasks'[r]) : parent_process'[x] = r
    <3>1. \A r \in Process : Elements(queued_tasks[r]) \subseteq Task
      BY ElementsTyped DEF ProcessTypeOK
    <3> QED BY <1>1, <1>2, <1>3, <3>1 DEF OwnTasks, Queued
  <2>2. \A r \in Process : pc'[r] \in Running \cup Marking => parent_process'[cur[r]] = r
    BY <1>1, <1>2, InHand DEF OwnTasks
  <2> QED BY <2>1, <2>2 DEF OwnTasks
<1>8. OneToken'
  <2>1. \A x \in Elements(background)' : ~Queued(x)' /\ ~Held(x)' /\ ~Delivered(x)'
    BY <1>2, <1>3, <1>4 DEF OneToken
  <2>2. \A x \in Task : (Queued(x)' => ~Held(x)' /\ ~Delivered(x)') /\
          (Held(x)' => ~Delivered(x)')
    BY <1>2, <1>3, <1>4 DEF OneToken
  <2> QED BY <1>3, <1>4, <2>1, <2>2 DEF OneToken
<1>9. StateOfToken'
  <2>1. \A x \in Task : x # n /\ x # t /\ Ready(x) => Ready(x)'
    BY <1>1, <1>2, <1>5 DEF Ready, TaskTypeOK
  <2>2. Ready(n)'
    BY <1>1, <1>2 DEF Ready
  <2>3. \A x \in Task : Queued(x)' => Ready(x)'
    BY <1>3, <1>5, <2>1, <2>2 DEF StateOfToken
  <2>a. \A u \in Thread : pc'[u] = "start" =>
           pc[u] = "start" /\ cur[u] \in Task /\ cur[u] # t /\ cur[u] # n
    BY <1>4, <1>5, InHand
  <2>4. \A u \in Thread : pc'[u] = "start" => Ready(cur[u])'
    BY <2>1, <2>a DEF StateOfToken
  <2>5. \A u \in Thread : pc'[u] \in {"failed"} \cup Marking => state'[cur'[u]] \in Finished
    BY <1>1, <1>4, <1>5, InHand DEF StateOfToken
  <2>6. \A u \in Thread : pc'[u] \in Delivering =>
          state'[dep'[u]] = "TASK_WAITING" /\ awaits'[dep'[u]] = cur'[u]
    BY <1>1, <1>4, <1>5, InHand DEF StateOfToken
  <2>7. \A u \in Thread : pc'[u] \in Busy => state'[cur'[u]] = "TASK_RUNNING"
    BY <1>1, <1>4, <1>5, InHand DEF StateOfToken
  <2>8. \A u \in Thread : pc'[u] = "enqueue" => resval'[dep'[u]] = resval'[cur'[u]]
    BY <1>1, <1>4, <1>5, InHand DEF StateOfToken
  <2>9. \A x \in Elements(background)' : state'[x] = "TASK_RUNNING"
    BY <1>1, <1>3 DEF StateOfToken
  <2>10. \A x \in Task : state'[x] = "TASK_WAITING" => awaits'[x] # NULL
    BY <1>1 DEF StateOfToken
  <2> QED BY <1>4, <2>3, <2>4, <2>5, <2>6, <2>7, <2>8, <2>9, <2>10 DEF StateOfToken
<1>10. Completed'
  <2>1. \A u \in Thread : /\ pc'[u] \in {"failed", "mark"} <=> pc[u] \in {"failed", "mark"}
                          /\ pc'[u] \in Visiting <=> pc[u] \in Visiting
                          /\ pc'[u] \in Visiting =>
                               parent_process'[cur[u]] = parent_process[cur[u]]
    BY <1>1, <1>4, <1>5, InHand
  <2>2. \A u \in Process : \A x \in completed_tasks[u] : state'[x] \in Finished
    BY <1>1, <1>2 DEF Completed, ProcessTypeOK
  <2>3. \A u \in Thread : pc'[u] \notin Visiting => todo[u] = {}
    BY <2>1 DEF Completed
  <2> QED BY <2>1, <2>2, <2>3 DEF Completed
<1>11. Dependents'
  <2>1. \A f, x \in Task : f # n => (ToVisit(f, x)' <=> ToVisit(f, x))
    BY <1>1 DEF ToVisit
  <2>2. \A x \in Task : ~ToVisit(n, x)'
    BY <1>1, <1>2 DEF ToVisit, Created
  <2>3. \A x \in Task : x # n /\ Suspended(x) => Suspended(x)'
    BY <1>1, <1>3, <1>4 DEF Suspended
  <2> QED BY <1>1, <1>2, <2>1, <2>2, <2>3 DEF Dependents
<1> QED BY <1>6, <1>7, <1>8, <1>9, <1>10, <1>11

\* A task hands over to a new one that has it as a dependent: a call, or
\* the io.errorln of a task without a parent that failed.
Delegate(p, n, s, r) ==
    /\ pc[p] \in {"start", "exec"} /\ n = ntasks + 1
    /\ process_create_unqueued_task(p, cur[p], FALSE)
    /\ process_enqueue_task(p, n)
    /\ dependent_tasks' = [dependent_tasks EXCEPT ![n] = {cur[p]}]
    /\ state' = [state EXCEPT ![cur[p]] = s, ![n] = "TASK_RUNNING"]
    /\ \/ /\ s = "TASK_WAITING" /\ pc[p] = "exec" /\ pc' = [pc EXCEPT ![p] = "suspend"]
          /\ awaits' = [awaits EXCEPT ![cur[p]] = n]
          /\ UNCHANGED <<resval, cur>>
       \/ /\ s = "TASK_ERROR" /\ pc' = [pc EXCEPT ![p] = "pop"]
          /\ resval' = [resval EXCEPT ![cur[p]] = r]
          /\ cur' = [cur EXCEPT ![p] = NULL]
          /\ UNCHANGED awaits
    /\ UNCHANGED <<waiting_tasks, completed_tasks, todo, dep, nprocesses, background>>

LEMMA DelegateToken ==
    ASSUME TypeOK, TokenInv, NEW p \in Process, NEW n \in Task, NEW s,
           NEW r \in Entity, Delegate(p, n, s, r)
    PROVE  TokenInv'
<1> USE Labels, Basics DEF TypeOK, TokenInv
<1>0. PICK t \in Task : t = cur[p] /\ pc[p] \in {"start", "exec"}
  BY InHand DEF Delegate
<1>1. /\ UNCHANGED <<completed_tasks, todo, dep, nprocesses, background>>
      /\ s \in {"TASK_WAITING", "TASK_ERROR"}
      /\ pc'[p] \in {"suspend", "pop"} /\ \A u \in Thread : u # p => pc'[u] = pc[u]
      /\ pc'[p] = "suspend" => cur'[p] = t
      /\ \A u \in Thread : u # p => cur'[u] = cur[u]
      /\ s = "TASK_WAITING" => awaits'[t] = n
      /\ s = "TASK_ERROR" => awaits'[t] = awaits[t]
      /\ \A x \in Task : x # t => awaits'[x] = awaits[x] /\ resval'[x] = resval[x]
  BY <1>0 DEF Delegate, TaskTypeOK, ThreadTypeOK
<1>2. /\ state[n] = "TASK_NEW" /\ ntasks \in Nat /\ ntasks' = n
      /\ state[t] \in {"TASK_RUNNING", "TASK_WAITING"} /\ t # n
      /\ parent_process'[n] = p /\ parent_task'[n] = t
      /\ \A x \in Task : x # n => /\ parent_process'[x] = parent_process[x]
                                  /\ parent_task'[x] = parent_task[x]
                                  /\ has_future'[x] = has_future[x]
                                  /\ dependent_tasks'[x] = dependent_tasks[x]
      /\ dependent_tasks'[n] = {t}
      /\ state'[n] = "TASK_RUNNING" /\ state'[t] = s
      /\ \A x \in Task : x # n /\ x # t => state'[x] = state[x]
  <2>1. state[n] = "TASK_NEW" /\ ntasks \in Nat /\ ntasks' = n
    BY <1>0 DEF Delegate, process_create_unqueued_task, VmTypeOK, Created, Task
  <2>2. state[t] \in {"TASK_RUNNING", "TASK_WAITING"} /\ t # n
    BY <1>0, <2>1, NotVisited
  <2> QED BY <1>0, <2>1, <2>2 DEF Delegate, process_create_unqueued_task, TaskTypeOK
<1>3. process_enqueue_task(p, n)
  BY DEF Delegate
<1> USE <1>0, <1>1
<1>4. /\ ~Queued(n) /\ ~Held(n) /\ ~Delivered(n) /\ n \notin Elements(background)
      /\ \A u \in Process : n \notin completed_tasks[u]
      /\ \A f \in Task : ~ToVisit(f, n) /\ ~ToVisit(n, f) /\ awaits[f] # n
      /\ \A u \in Process : pc[u] \in Running \cup Marking => cur[u] # n
      /\ awaits[n] = NULL
  BY <1>2, Unborn DEF Created
<1>5. /\ Elements(queued_tasks'[p]) = Elements(queued_tasks[p]) \cup {n}
      /\ \A q \in Process : q # p => queued_tasks'[q] = queued_tasks[q]
      /\ \A x \in Task : Queued(x)' <=> Queued(x) \/ x = n
      /\ \A q \in Process : Distinct(queued_tasks'[q])
      /\ \A q \in Process : Elements(queued_tasks[q]) \subseteq Task
  BY <1>3, <1>4, EnqueueElements, ElementsTyped DEF OneToken, ProcessTypeOK
<1>6. /\ ~Queued(t) /\ ~Delivered(t) /\ t \notin Elements(background)
      /\ \A u \in Thread : u # p /\ pc[u] \in Holding => cur[u] # t
      /\ \A u \in Thread : pc[u] \in Delivering => dep[u] # t
      /\ \A u \in Thread : pc[u] \in Holding => cur[u] # n
      /\ \A u \in Thread : pc[u] \in Delivering => dep[u] # n
      /\ \A f \in Task : ~ToVisit(f, t)
  BY <1>4, NotVisited DEF Held, Delivered, OneToken
<1>7. /\ \A u \in Thread : pc'[u] \in Holding <=> pc[u] \in Holding /\ u # p
      /\ \A u \in Thread : pc'[u] \in Delivering <=> pc[u] \in Delivering
      /\ \A u \in Thread : pc'[u] \in Delivering \/ pc'[u] \in Holding =>
            pc'[u] = pc[u] /\ cur'[u] = cur[u]
      /\ \A x \in Task : (Held(x)' <=> Held(x) /\ x # t) /\ (Delivered(x)' <=> Delivered(x))
  BY <1>6 DEF Held, Delivered
<1>8. Created'
  <2>1. \A x \in Task : x > ntasks' <=> x > ntasks /\ x # n
    <3>1. n = ntasks + 1
      BY DEF Delegate
    <3> QED BY <1>2, <3>1 DEF Task
  <2>2. \A u \in Process : u > nprocesses' => pc'[u] = "unborn"
    BY DEF Created
  <2>3. \A x \in Task : awaits'[x] # NULL => state'[awaits'[x]] # "TASK_NEW"
    BY <1>2 DEF Created, TaskTypeOK
  <2> QED BY <1>2, <1>4, <2>1, <2>2, <2>3 DEF Created, TaskTypeOK
<1>9. OwnTasks'
  <2>1. \A q \in Process : \A x \in Elements(queued_tasks'[q]) : parent_process'[x] = q
    BY <1>2, <1>4, <1>5 DEF OwnTasks, Queued
  <2>2. \A q \in Process : pc'[q] \in Running \cup Marking => parent_process'[cur'[q]] = q
    BY <1>2, <1>4, InHand DEF OwnTasks
  <2> QED BY <2>1, <2>2 DEF OwnTasks
<1>10. OneToken'
  <2>0. Elements(background) \subseteq Task
    BY ElementsTyped DEF VmTypeOK
  <2>1. \A x \in Elements(background) : ~Queued(x)' /\ ~Held(x)' /\ ~Delivered(x)'
    BY <1>4, <1>5, <1>7, <2>0 DEF OneToken
  <2>2. \A x \in Task : (Queued(x)' => ~Held(x)' /\ ~Delivered(x)') /\
          (Held(x)' => ~Delivered(x)')
    BY <1>4, <1>5, <1>7 DEF OneToken
  <2> QED BY <1>5, <1>7, <2>1, <2>2 DEF OneToken
<1>11. StateOfToken'
  <2>1. \A x \in Task : x # n /\ x # t /\ Ready(x) => Ready(x)'
    BY <1>2, <1>4 DEF Ready, TaskTypeOK
  <2>2. Ready(n)'
    BY <1>2, <1>4 DEF Ready
  <2>3. \A x \in Task : Queued(x)' => Ready(x)'
    BY <1>5, <1>6, <2>1, <2>2 DEF StateOfToken
  <2>a. \A u \in Thread : pc'[u] \in Holding =>
           pc[u] = pc'[u] /\ cur'[u] = cur[u] /\ cur[u] # t /\ cur[u] # n
    BY <1>6, <1>7
  <2>4. \A u \in Thread : pc'[u] = "start" => Ready(cur[u])'
    <3>1. \A u \in Thread : pc'[u] = "start" => Ready(cur[u]) /\ cur[u] \in Task
      BY <2>a, InHand DEF StateOfToken
    <3> QED BY <2>1, <2>a, <3>1 DEF Ready
  <2>5. \A u \in Thread : pc'[u] \in {"failed"} \cup Marking => state'[cur'[u]] \in Finished
    BY <1>2, <2>a, InHand DEF StateOfToken
  <2>6. \A u \in Thread : pc'[u] \in Delivering =>
          state'[dep'[u]] = "TASK_WAITING" /\ awaits'[dep'[u]] = cur'[u]
    BY <1>2, <1>6, <2>a, InHand DEF StateOfToken
  <2>7. \A u \in Thread : pc'[u] \in Busy => state'[cur'[u]] = "TASK_RUNNING"
    BY <1>2, <2>a, InHand DEF StateOfToken
  <2>8. \A u \in Thread : pc'[u] = "enqueue" => resval'[dep'[u]] = resval'[cur'[u]]
    BY <1>2, <1>6, <2>a, InHand DEF StateOfToken
  <2>9. \A x \in Elements(background) : state'[x] = "TASK_RUNNING"
    <3>1. Elements(background) \subseteq Task
      BY ElementsTyped DEF VmTypeOK
    <3> QED BY <1>2, <1>6, <3>1 DEF StateOfToken
  <2>10. \A x \in Task : state'[x] = "TASK_WAITING" => awaits'[x] # NULL
    BY <1>2 DEF StateOfToken
  <2>11. \A u \in Thread : pc'[u] \in {"insert", "set_waiting"} => awaits'[cur'[u]] # NULL
    BY <2>a, InHand DEF StateOfToken
  <2> QED BY <2>3, <2>4, <2>5, <2>6, <2>7, <2>8, <2>9, <2>10, <2>11 DEF StateOfToken
<1>12. Completed'
  <2>1. \A u \in Thread : pc'[u] \in {"failed", "mark"} \cup Visiting =>
           /\ pc'[u] = pc[u] /\ cur'[u] = cur[u]
           /\ parent_process'[cur[u]] = parent_process[cur[u]]
    BY <1>2, <1>6, InHand
  <2>2. \A u \in Process : \A x \in completed_tasks[u] : state'[x] \in Finished
    <3>1. \A u \in Process : t \notin completed_tasks[u]
      BY <1>2 DEF Completed
    <3> QED BY <1>2, <1>4, <3>1 DEF Completed, ProcessTypeOK
  <2>3. \A u \in Thread : pc'[u] \notin Visiting => todo[u] = {}
    BY DEF Completed
  <2> QED BY <2>1, <2>2, <2>3 DEF Completed
<1>13. Dependents'
  <2>1. \A f, x \in Task : f # n /\ ToVisit(f, x)' => ToVisit(f, x)
    BY <1>2 DEF ToVisit, Completed
  <2>2. \A x \in Task : ToVisit(n, x)' => x = t
    BY <1>2, <1>6 DEF ToVisit, Completed
  <2>3. \A x \in Task : x # n /\ x # t /\ Suspended(x) => Suspended(x)'
    BY <1>2, <1>5, <1>7 DEF Suspended
  <2>4. s = "TASK_WAITING" => Suspended(t)'
    BY <1>2, <1>5, <1>6, <1>7 DEF Suspended
  <2> QED BY <1>2, <1>4, <1>6, <2>1, <2>2, <2>3, <2>4 DEF Dependents
<1> QED BY <1>8, <1>9, <1>10, <1>11, <1>12, <1>13

\* The steps that hand over to, or spawn, a new task.
LEMMA UncaughtDelegates ==
    ASSUME TypeOK, NEW p \in Process, cur[p] \in Task, pc[p] \in {"start", "exec"}, NEW r,
           Uncaught(p, cur[p], r), parent_task[cur[p]] = NULL
    PROVE  ntasks + 1 \in Task /\ Delegate(p, ntasks + 1, "TASK_ERROR", r)
<1>1. ntasks + 1 \in Task
  BY NewTaskTypes DEF Uncaught
<1>2. Delegate(p, ntasks + 1, "TASK_ERROR", r)
  BY DEF Uncaught, Delegate, Next_task, Goto
<1> QED BY <1>1, <1>2

LEMMA CallDelegates ==
    ASSUME TypeOK, NEW p \in Process, Call(p)
    PROVE  ntasks + 1 \in Task /\ Delegate(p, ntasks + 1, "TASK_WAITING", Plain)
<1>1. ntasks + 1 \in Task
  BY NewTaskTypes, ExecutingTypes DEF Call
<1>2. Delegate(p, ntasks + 1, "TASK_WAITING", Plain)
  BY DEF Call, Delegate, Executing, At, Goto
<1> QED BY <1>1, <1>2

LEMMA CallAsyncSpawns ==
    ASSUME TypeOK, NEW p \in Process, CallAsync(p)
    PROVE  ntasks + 1 \in Task /\ Spawn(p, p, ntasks + 1, TRUE)
<1>1. ntasks + 1 \in Task
  BY NewTaskTypes, ExecutingTypes DEF CallAsync
<1>2. Spawn(p, p, ntasks + 1, TRUE)
  BY DEF CallAsync, Spawn, Executing, At, threadVars
<1> QED BY <1>1, <1>2

LEMMA CallBackgroundSpawns ==
    ASSUME TypeOK, NEW p \in Process, CallBackground(p)
    PROVE  ntasks + 1 \in Task /\ Spawn(p, p, ntasks + 1, TRUE)
<1>1. ntasks + 1 \in Task
  BY NewTaskTypes, ExecutingTypes DEF CallBackground
<1>2. Spawn(p, p, ntasks + 1, TRUE)
  BY DEF CallBackground, Spawn, Executing, At, threadVars, setVars
<1> QED BY <1>1, <1>2

LEMMA CreateProcessSpawns ==
    ASSUME TypeOK, Created, NEW p \in Process, _create_process(p)
    PROVE  /\ ntasks + 1 \in Task /\ nprocesses + 1 \in Process
           /\ pc[nprocesses + 1] = "unborn"
           /\ Spawn(p, nprocesses + 1, ntasks + 1, FALSE)
<1>1. nprocesses + 1 \in Process
  BY SchedulerAssumption DEF _create_process, TypeOK, VmTypeOK, Process
<1>2. ntasks + 1 \in Task
  BY <1>1, NewTaskTypes, ExecutingTypes DEF _create_process
<1>3. pc[nprocesses + 1] = "unborn"
  BY <1>1 DEF Created, TypeOK, VmTypeOK, Process
<1>4. \A u \in Thread : pc'[u] = pc[u] \/ (pc[u] = "unborn" /\ pc'[u] = "pop")
  BY <1>3 DEF _create_process, Goto, TypeOK, ThreadTypeOK
<1>5. \A u \in Process : u > nprocesses' => u > nprocesses /\ pc'[u] = pc[u]
  BY <1>1, Basics DEF _create_process, Goto, TypeOK, ThreadTypeOK, VmTypeOK, Process
<1>6. Spawn(p, nprocesses + 1, ntasks + 1, FALSE)
  BY <1>4, <1>5 DEF _create_process, Spawn, Executing, At
<1> QED BY <1>1, <1>2, <1>3, <1>6

LEMMA AwaitCompleteToken ==
    ASSUME TypeOK, TokenInv, NEW p \in Process, NEW f \in Task, AwaitComplete(p, f)
    PROVE  TokenInv'
<1> USE Labels, Basics DEF TypeOK, TokenInv, At, Goto, Executing, taskVars, waitVars, errVars,
     setVars, threadVars, vmVars
<1>0. /\ p \in Thread /\ (pc[p] \in Running \cup Marking => cur[p] \in Task)
      /\ pc[p] \in Resuming => dep[p] \in Task
  BY InHand
<1>1. Created'
  BY <1>0 DEF AwaitComplete, Created, ThreadTypeOK, TaskTypeOK
<1>2. OwnTasks'
  BY <1>0 DEF AwaitComplete, OwnTasks, ThreadTypeOK, TaskTypeOK
<1>3. OneToken'
  BY <1>0 DEF AwaitComplete, OneToken, ThreadTypeOK, Queued, Held, Delivered
<1>4. StateOfToken'
  BY <1>0 DEF AwaitComplete, StateOfToken, ThreadTypeOK, TaskTypeOK, Queued, Ready
<1>5. Completed'
  BY <1>0 DEF AwaitComplete, Completed, ThreadTypeOK, TaskTypeOK, ProcessTypeOK
<1>6. Dependents'
  BY <1>0 DEF AwaitComplete, Dependents, ToVisit, Suspended, Queued, Held, Delivered,
     ThreadTypeOK, TaskTypeOK
<1> QED BY <1>1, <1>2, <1>3, <1>4, <1>5, <1>6

LEMMA AwaitIncompleteToken ==
    ASSUME TypeOK, TokenInv, NEW p \in Process, NEW f \in Task, AwaitIncomplete(p, f)
    PROVE  TokenInv'
<1> USE Labels, Basics DEF TypeOK, TokenInv, At, Goto, Executing, taskVars, waitVars, errVars,
     setVars, threadVars, vmVars
<1>0. /\ p \in Thread /\ (pc[p] \in Running \cup Marking => cur[p] \in Task)
      /\ pc[p] \in Resuming => dep[p] \in Task
  BY InHand
<1>a. PICK t \in Task : t = cur[p] /\ pc[p] = "exec" /\ state[t] = "TASK_RUNNING"
  BY <1>0 DEF AwaitIncomplete, StateOfToken
<1>b. /\ awaits'[t] = f /\ \A x \in Task : x # t => awaits'[x] = awaits[x]
      /\ pc'[p] = "insert" /\ \A u \in Thread : u # p => pc'[u] = pc[u]
      /\ UNCHANGED <<parent_process, parent_task, has_future, state, resval, dependent_tasks,
                     setVars, cur, todo, dep, vmVars>>
  BY <1>a DEF AwaitIncomplete, ThreadTypeOK, TaskTypeOK
<1>c. /\ \A u \in Thread : u # p /\ pc[u] \in Holding => cur[u] # t
      /\ \A u \in Thread : pc[u] \in Delivering => dep[u] # t
      /\ ~Queued(t) /\ \A x \in Task : ~ToVisit(x, t)
  BY <1>a, NotVisited DEF OneToken, Held, Delivered
<1>d. \A x \in Task : /\ Queued(x)' <=> Queued(x)
                      /\ Held(x)' <=> Held(x)
                      /\ Delivered(x)' <=> Delivered(x)
  BY <1>a, <1>b DEF Queued, Held, Delivered
<1>e. Elements(background) \subseteq Task
  BY ElementsTyped DEF VmTypeOK
<1>1. Created'
  <2>1. state[f] # "TASK_NEW"
    BY DEF AwaitIncomplete, Reachable, Created
  <2> QED BY <1>a, <1>b, <2>1 DEF Created
<1>2. OwnTasks'
  BY <1>a, <1>b DEF OwnTasks
<1>3. OneToken'
  BY <1>a, <1>b, <1>d, <1>e DEF OneToken
<1>4. StateOfToken'
  <2>1. \A x \in Task : x # t /\ Ready(x) => Ready(x)'
    BY <1>b DEF Ready
  <2>2. \A x \in Task : Queued(x)' => Ready(x)'
    BY <1>c, <1>d, <2>1 DEF StateOfToken
  <2>3. \A u \in Thread : pc'[u] = "start" => Ready(cur[u])'
    BY <1>a, <1>b, <1>c, <2>1, InHand DEF StateOfToken
  <2>4. \A u \in Thread : pc'[u] \in Delivering =>
           state'[dep'[u]] = "TASK_WAITING" /\ awaits'[dep'[u]] = cur'[u]
    BY <1>a, <1>b, <1>c, InHand DEF StateOfToken
  <2>5. \A u \in Thread : pc'[u] \in {"insert", "set_waiting"} => awaits'[cur'[u]] # NULL
    BY <1>a, <1>b, <1>c, InHand DEF StateOfToken
  <2> QED BY <1>a, <1>b, <2>2, <2>3, <2>4, <2>5 DEF StateOfToken
<1>5. Completed'
  BY <1>a, <1>b DEF Completed
<1>6. Dependents'
  <2>1. \A x, y \in Task : ToVisit(x, y)' <=> ToVisit(x, y)
    BY <1>b DEF ToVisit
  <2>2. \A x \in Task : x # t /\ Suspended(x) => Suspended(x)'
    BY <1>a, <1>b, <1>d DEF Suspended
  <2> QED BY <1>b, <1>c, <2>1, <2>2 DEF Dependents
<1> QED BY <1>1, <1>2, <1>3, <1>4, <1>5, <1>6

LEMMA InsertDependentToken ==
    ASSUME TypeOK, TokenInv, NEW p \in Process, InsertDependent(p)
    PROVE  TokenInv'
<1> USE Labels, Basics DEF TypeOK, TokenInv, At, Goto, taskVars, waitVars, errVars, setVars,
     threadVars, vmVars
<1>0. /\ p \in Thread /\ (pc[p] \in Running \cup Marking => cur[p] \in Task)
      /\ pc[p] \in Resuming => dep[p] \in Task
  BY InHand
<1>1. Created'
  BY <1>0 DEF InsertDependent, Created, ThreadTypeOK, TaskTypeOK
<1>2. OwnTasks'
  BY <1>0 DEF InsertDependent, OwnTasks, ThreadTypeOK, TaskTypeOK
<1>3. OneToken'
  BY <1>0 DEF InsertDependent, OneToken, ThreadTypeOK, Queued, Held, Delivered
<1>4. StateOfToken'
  BY <1>0 DEF InsertDependent, StateOfToken, ThreadTypeOK, TaskTypeOK, Queued, Ready
<1>5. Completed'
  BY <1>0 DEF InsertDependent, Completed, ThreadTypeOK, TaskTypeOK, ProcessTypeOK
<1>6. Dependents'
  BY <1>0 DEF InsertDependent, Dependents, ToVisit, Suspended, Queued, Held, Delivered,
     ThreadTypeOK, TaskTypeOK
<1> QED BY <1>1, <1>2, <1>3, <1>4, <1>5, <1>6

LEMMA SetWaitingToken ==
    ASSUME TypeOK, TokenInv, NEW p \in Process, SetWaiting(p)
    PROVE  TokenInv'
<1> USE Labels, Basics DEF TypeOK, TokenInv, At, Goto, taskVars, waitVars, errVars, setVars,
     threadVars, vmVars
<1>0. /\ p \in Thread /\ (pc[p] \in Running \cup Marking => cur[p] \in Task)
      /\ pc[p] \in Resuming => dep[p] \in Task
  BY InHand
<1>a. PICK t \in Task : t = cur[p] /\ pc[p] = "set_waiting" /\ state[t] = "TASK_RUNNING"
                      /\ awaits[t] # NULL
  BY <1>0 DEF SetWaiting, StateOfToken
<1>b. /\ state'[t] = "TASK_WAITING" /\ \A x \in Task : x # t => state'[x] = state[x]
      /\ pc'[p] = "suspend" /\ \A u \in Thread : u # p => pc'[u] = pc[u]
      /\ UNCHANGED <<taskVars, resval, dependent_tasks, awaits, setVars, cur, todo, dep,
                     vmVars>>
  BY <1>a DEF SetWaiting, ThreadTypeOK, TaskTypeOK
<1>c. /\ \A u \in Thread : u # p /\ pc[u] \in Holding => cur[u] # t
      /\ \A u \in Thread : pc[u] \in Delivering => dep[u] # t
      /\ ~Queued(t) /\ ~Delivered(t) /\ t \notin Elements(background)
  BY <1>a DEF OneToken, Held, Delivered
<1>d. \A x \in Task : /\ Queued(x)' <=> Queued(x)
                      /\ Held(x)' <=> Held(x) /\ x # t
                      /\ Delivered(x)' <=> Delivered(x)
  BY <1>a, <1>b, <1>c DEF Queued, Held, Delivered
<1>e. Elements(background) \subseteq Task
  BY ElementsTyped DEF VmTypeOK
<1>1. Created'
  BY <1>a, <1>b DEF Created, TaskTypeOK
<1>2. OwnTasks'
  BY <1>a, <1>b DEF OwnTasks
<1>3. OneToken'
  BY <1>a, <1>b, <1>d, <1>e DEF OneToken
<1>4. StateOfToken'
  <2>1. \A x \in Task : x # t /\ Ready(x) => Ready(x)'
    BY <1>a, <1>b DEF Ready, TaskTypeOK
  <2>2. \A x \in Task : Queued(x)' => Ready(x)'
    BY <1>c, <1>d, <2>1 DEF StateOfToken
  <2>3. \A u \in Thread : pc'[u] = "start" => Ready(cur[u])'
    BY <1>a, <1>b, <1>c, <2>1, InHand DEF StateOfToken
  <2>4. \A u \in Thread : pc'[u] \in Delivering =>
           state'[dep'[u]] = "TASK_WAITING" /\ awaits'[dep'[u]] = cur'[u]
    BY <1>a, <1>b, <1>c, InHand DEF StateOfToken
  <2>5. \A u \in Thread : /\ pc'[u] \in Busy => state'[cur'[u]] = "TASK_RUNNING"
                          /\ pc'[u] \in {"failed"} \cup Marking => state'[cur'[u]] \in Finished
    BY <1>a, <1>b, <1>c, InHand DEF StateOfToken
  <2>6. \A x \in Elements(background) : state'[x] = "TASK_RUNNING"
    BY <1>b, <1>c, <1>e DEF StateOfToken
  <2> QED BY <1>a, <1>b, <2>2, <2>3, <2>4, <2>5, <2>6 DEF StateOfToken
<1>5. Completed'
  <2>1. \A q \in Process : t \notin completed_tasks[q]
    BY <1>a DEF Completed
  <2>2. \A q \in Process : \A x \in completed_tasks[q] : state'[x] \in Finished
    <3>1. \A q \in Process : completed_tasks[q] \subseteq Task
      BY DEF ProcessTypeOK
    <3>2. \A q \in Process : \A x \in completed_tasks[q] : state[x] \in Finished
      BY DEF Completed
    <3> QED BY <1>b, <2>1, <3>1, <3>2
  <2> QED BY <1>a, <1>b, <2>2 DEF Completed
<1>6. Dependents'
  <2>1. \A x, y \in Task : ToVisit(x, y)' <=> ToVisit(x, y)
    BY <1>b DEF ToVisit
  <2>2. \A x \in Task : x # t /\ Suspended(x) => Suspended(x)'
    BY <1>a, <1>b, <1>d DEF Suspended
  <2>3. Suspended(t)'
    BY <1>b, <1>c, <1>d DEF Suspended
  <2> QED BY <1>a, <1>b, <2>1, <2>2, <2>3 DEF Dependents
<1> QED BY <1>1, <1>2, <1>3, <1>4, <1>5, <1>6

LEMMA InsertWaitingToken ==
    ASSUME TypeOK, TokenInv, NEW p \in Process, process_insert_waiting_task(p)
    PROVE  TokenInv'
<1> USE Labels, Basics DEF TypeOK, TokenInv, At, Goto, Next_task, taskVars, waitVars, errVars,
     setVars, threadVars, vmVars
<1>0. /\ p \in Thread /\ (pc[p] \in Running \cup Marking => cur[p] \in Task)
      /\ pc[p] \in Resuming => dep[p] \in Task
  BY InHand
<1>1. Created'
  BY <1>0 DEF process_insert_waiting_task, Created, ThreadTypeOK, TaskTypeOK
<1>2. OwnTasks'
  BY <1>0 DEF process_insert_waiting_task, OwnTasks, ThreadTypeOK, TaskTypeOK
<1>3. OneToken'
  BY <1>0 DEF process_insert_waiting_task, OneToken, ThreadTypeOK, Queued, Held, Delivered
<1>4. StateOfToken'
  BY <1>0 DEF process_insert_waiting_task, StateOfToken, ThreadTypeOK, TaskTypeOK, Queued, Ready
<1>5. Completed'
  BY <1>0 DEF process_insert_waiting_task, Completed, ThreadTypeOK, TaskTypeOK, ProcessTypeOK
<1>6. Dependents'
  BY <1>0 DEF process_insert_waiting_task, Dependents, ToVisit, Suspended, Queued, Held,
     Delivered, ThreadTypeOK, TaskTypeOK
<1> QED BY <1>1, <1>2, <1>3, <1>4, <1>5, <1>6

LEMMA TellParentToken ==
    ASSUME TypeOK, TokenInv, NEW p \in Process, TellParent(p)
    PROVE  TokenInv'
<1> USE Labels, Basics DEF TypeOK, TokenInv, At, Goto, taskVars, waitVars, errVars, setVars,
     threadVars, vmVars
<1>0. /\ p \in Thread /\ (pc[p] \in Running \cup Marking => cur[p] \in Task)
      /\ pc[p] \in Resuming => dep[p] \in Task
  BY InHand
<1>1. Created'
  BY <1>0 DEF TellParent, Created, ThreadTypeOK, TaskTypeOK
<1>2. OwnTasks'
  BY <1>0 DEF TellParent, OwnTasks, ThreadTypeOK, TaskTypeOK
<1>3. OneToken'
  BY <1>0 DEF TellParent, OneToken, ThreadTypeOK, Queued, Held, Delivered
<1>4. StateOfToken'
  BY <1>0 DEF TellParent, StateOfToken, ThreadTypeOK, TaskTypeOK, Queued, Ready
<1>5. Completed'
  BY <1>0 DEF TellParent, Completed, ThreadTypeOK, TaskTypeOK, ProcessTypeOK
<1>6. Dependents'
  BY <1>0 DEF TellParent, Dependents, ToVisit, Suspended, Queued, Held, Delivered,
     ThreadTypeOK, TaskTypeOK
<1> QED BY <1>1, <1>2, <1>3, <1>4, <1>5, <1>6

LEMMA MarkToken ==
    ASSUME TypeOK, TokenInv, NEW th \in Thread, process_mark_task_complete(th)
    PROVE  TokenInv'
<1> USE Labels, Basics DEF TypeOK, TokenInv, At, Goto, taskVars, waitVars, errVars, setVars,
     threadVars, vmVars
<1>0. /\ th \in Thread /\ (pc[th] \in Running \cup Marking => cur[th] \in Task)
      /\ pc[th] \in Resuming => dep[th] \in Task
  BY InHand
<1>a. PICK t \in Task : t = cur[th] /\ pc[th] = "mark" /\ state[t] \in Finished
  BY <1>0 DEF process_mark_task_complete, StateOfToken
<1>b. parent_process[t] \in Process
  BY <1>a DEF Created
<1>c. /\ completed_tasks'[parent_process[t]] = completed_tasks[parent_process[t]] \cup {t}
      /\ \A q \in Process : q # parent_process[t] => completed_tasks'[q] = completed_tasks[q]
      /\ todo'[th] = dependent_tasks[t] /\ \A u \in Thread : u # th => todo'[u] = todo[u]
      /\ pc'[th] = "visit" /\ \A u \in Thread : u # th => pc'[u] = pc[u]
      /\ UNCHANGED <<taskVars, waitVars, queued_tasks, cur, dep, vmVars>>
  BY <1>a, <1>b DEF process_mark_task_complete, ThreadTypeOK, ProcessTypeOK
<1>1. Created'
  BY <1>0 DEF process_mark_task_complete, Created, ThreadTypeOK, TaskTypeOK
<1>2. OwnTasks'
  BY <1>0 DEF process_mark_task_complete, OwnTasks, ThreadTypeOK, TaskTypeOK
<1>3. OneToken'
  BY <1>0 DEF process_mark_task_complete, OneToken, ThreadTypeOK, Queued, Held, Delivered
<1>4. StateOfToken'
  BY <1>0 DEF process_mark_task_complete, StateOfToken, ThreadTypeOK, TaskTypeOK, Queued, Ready
<1>5. Completed'
  <2>1. \A u \in Thread : u # th /\ pc[u] \in Holding => cur[u] # t
    BY <1>a DEF OneToken
  <2>2. \A q \in Process : \A x \in completed_tasks'[q] : state[x] \in Finished
    BY <1>a, <1>c DEF Completed
  <2>3. \A u \in Thread : pc'[u] \in {"failed", "mark"} =>
           \A q \in Process : cur[u] \notin completed_tasks'[q]
    BY <1>a, <1>c, <2>1 DEF Completed
  <2>4. \A u \in Thread : pc'[u] \in Visiting =>
           cur[u] \in completed_tasks'[parent_process[cur[u]]]
    <3>1. \A u \in Thread : u # th /\ pc'[u] \in Visiting =>
             /\ cur[u] \in Task /\ cur[u] \in completed_tasks[parent_process[cur[u]]]
             /\ parent_process[cur[u]] \in Process
      BY <1>c, InHand DEF Completed, StateOfToken, Created
    <3> QED BY <1>a, <1>b, <1>c, <3>1
  <2> QED BY <1>a, <1>c, <2>2, <2>3, <2>4 DEF Completed
<1>6. Dependents'
  <2>1. \A x \in Task : dependent_tasks[t] \subseteq Task /\ t \notin completed_tasks[parent_process[t]]
    BY <1>a, <1>b DEF TaskTypeOK, Completed
  <2>2. ASSUME NEW f \in Task, NEW x \in Task, ToVisit(f, x)' PROVE ToVisit(f, x)
    <3>1. CASE x \in dependent_tasks[f] /\ f \notin completed_tasks'[parent_process[f]]
      <4>1. f \notin completed_tasks[parent_process[f]]
        <5>1. CASE parent_process[f] \in Process
          BY <1>c, <3>1, <5>1
        <5>2. CASE parent_process[f] \notin Process
          BY <3>1, <5>2 DEF Created
        <5> QED BY <5>1, <5>2
      <4> QED BY <3>1, <4>1 DEF ToVisit
    <3>2. CASE \E u \in Thread : cur[u] = f /\ x \in todo'[u]
      BY <1>a, <1>c, <2>1, <3>2 DEF ToVisit
    <3> QED BY <1>c, <2>2, <3>1, <3>2 DEF ToVisit
  <2>3. \A x \in Task : Suspended(x) => Suspended(x)'
    BY <1>a, <1>c DEF Suspended, Queued, Held, Delivered
  <2> QED BY <1>c, <2>2, <2>3 DEF Dependents
<1> QED BY <1>1, <1>2, <1>3, <1>4, <1>5, <1>6

LEMMA VisitToken ==
    ASSUME TypeOK, TokenInv, NEW th \in Thread, NEW d \in Task, VisitDependent(th, d)
    PROVE  TokenInv'
<1> USE Labels, Basics DEF TypeOK, TokenInv, At, Goto, taskVars, waitVars, errVars, setVars,
     threadVars, vmVars
<1>0. /\ th \in Thread /\ (pc[th] \in Running \cup Marking => cur[th] \in Task)
      /\ pc[th] \in Resuming => dep[th] \in Task
  BY InHand
<1>a. /\ pc[th] = "visit" /\ cur[th] \in Task /\ d \in todo[th]
      /\ todo'[th] = todo[th] \ {d} /\ \A u \in Thread : u # th => todo'[u] = todo[u]
      /\ \A u \in Thread : u # th => pc'[u] = pc[u] /\ dep'[u] = dep[u]
      /\ \/ state[d] # "TASK_WAITING" /\ pc'[th] = "visit"
         \/ state[d] = "TASK_WAITING" /\ pc'[th] = "deliver" /\ dep'[th] = d
      /\ UNCHANGED <<taskVars, waitVars, setVars, cur, vmVars>>
  BY <1>0 DEF VisitDependent, ThreadTypeOK
<1>b. ToVisit(cur[th], d)
  BY <1>a DEF ToVisit
<1>c. \A u \in Thread : u # th /\ pc[u] \in Holding => cur[u] # cur[th]
  BY <1>a DEF OneToken
<1>d. state[d] = "TASK_WAITING" =>
        /\ awaits[d] = cur[th] /\ ~Queued(d) /\ ~Held(d) /\ ~Delivered(d)
        /\ d \notin Elements(background)
        /\ \A f \in Task : f # cur[th] => ~ToVisit(f, d)
  <2>1. \A q \in Process : pc[q] = "set_waiting" => state[cur[q]] = "TASK_RUNNING"
    BY DEF StateOfToken
  <2>2. state[d] = "TASK_WAITING" => awaits[d] = cur[th] /\ Suspended(d)
    BY <1>a, <1>b DEF Dependents
  <2>3. state[d] = "TASK_WAITING" => \A f \in Task : f # cur[th] => ~ToVisit(f, d)
    BY <1>a, <2>2 DEF Dependents
  <2> QED BY <2>1, <2>2, <2>3 DEF Suspended, StateOfToken
<1>e. /\ \A u \in Thread : pc'[u] \in Holding <=> pc[u] \in Holding
      /\ \A x \in Task : (Queued(x)' <=> Queued(x)) /\ (Held(x)' <=> Held(x))
      /\ \A x \in Task : Delivered(x)' <=> Delivered(x) \/ (x = d /\ state[d] = "TASK_WAITING")
  BY <1>a DEF Queued, Held, Delivered
<1>f. Elements(background) \subseteq Task
  BY ElementsTyped DEF VmTypeOK
<1>1. Created'
  BY <1>a DEF Created
<1>2. OwnTasks'
  BY <1>a DEF OwnTasks
<1>3. OneToken'
  <2>1. \A u, v \in Thread :
           pc'[u] \in Delivering /\ pc'[v] \in Delivering /\ dep'[u] = dep'[v] => u = v
    BY <1>a, <1>d DEF OneToken, Delivered
  <2>2. \A x \in Task : /\ Queued(x)' => ~Held(x)' /\ ~Delivered(x)'
                        /\ Held(x)' => ~Delivered(x)'
    BY <1>d, <1>e DEF OneToken
  <2>3. \A x \in Elements(background) : ~Queued(x)' /\ ~Held(x)' /\ ~Delivered(x)'
    BY <1>d, <1>e, <1>f DEF OneToken
  <2> QED BY <1>a, <1>e, <2>1, <2>2, <2>3 DEF OneToken
<1>4. StateOfToken'
  <2>1. \A x \in Task : Queued(x)' => Ready(x)'
    BY <1>a, <1>e DEF StateOfToken, Ready
  <2> QED BY <1>a, <1>d, <2>1 DEF StateOfToken, Ready
<1>5. Completed'
  BY <1>a DEF Completed
<1>6. Dependents'
  <2>1. \A f, x \in Task : ToVisit(f, x)' => ToVisit(f, x)
    BY <1>a DEF ToVisit
  <2>2. \A x \in Task : Suspended(x) /\ ~(x = d /\ state[d] = "TASK_WAITING") => Suspended(x)'
    BY <1>a, <1>e DEF Suspended
  <2>3. state[d] = "TASK_WAITING" => ~ToVisit(cur[th], d)'
    <3>1. cur[th] \in completed_tasks[parent_process[cur[th]]]
      BY <1>a DEF Completed
    <3>2. \A u \in Thread : u # th /\ cur[u] = cur[th] => todo[u] = {}
      BY <1>c DEF Completed
    <3> QED BY <1>a, <3>1, <3>2 DEF ToVisit
  <2> QED BY <1>a, <1>d, <2>1, <2>2, <2>3 DEF Dependents
<1> QED BY <1>1, <1>2, <1>3, <1>4, <1>5, <1>6

LEMMA AllVisitedToken ==
    ASSUME TypeOK, TokenInv, NEW th \in Thread, AllVisited(th)
    PROVE  TokenInv'
<1> USE Labels, Basics DEF TypeOK, TokenInv, At, Goto, Next_task, taskVars, waitVars, errVars,
     setVars, threadVars, vmVars
<1>0. /\ th \in Thread /\ (pc[th] \in Running \cup Marking => cur[th] \in Task)
      /\ pc[th] \in Resuming => dep[th] \in Task
  BY InHand
<1>1. Created'
  BY <1>0 DEF AllVisited, Created, ThreadTypeOK, TaskTypeOK
<1>2. OwnTasks'
  BY <1>0 DEF AllVisited, OwnTasks, ThreadTypeOK, TaskTypeOK
<1>3. OneToken'
  BY <1>0 DEF AllVisited, OneToken, ThreadTypeOK, Queued, Held, Delivered
<1>4. StateOfToken'
  BY <1>0 DEF AllVisited, StateOfToken, ThreadTypeOK, TaskTypeOK, Queued, Ready
<1>5. Completed'
  BY <1>0 DEF AllVisited, Completed, ThreadTypeOK, TaskTypeOK, ProcessTypeOK
<1>6. Dependents'
  BY <1>0 DEF AllVisited, Dependents, ToVisit, Suspended, Queued, Held, Delivered,
     ThreadTypeOK, TaskTypeOK
<1> QED BY <1>1, <1>2, <1>3, <1>4, <1>5, <1>6

LEMMA DeliverToken ==
    ASSUME TypeOK, TokenInv, NEW th \in Thread, DeliverResult(th)
    PROVE  TokenInv'
<1> USE Labels, Basics DEF TypeOK, TokenInv, At, Goto, taskVars, waitVars, errVars, setVars,
     threadVars, vmVars
<1>0. /\ th \in Thread /\ (pc[th] \in Running \cup Marking => cur[th] \in Task)
      /\ pc[th] \in Resuming => dep[th] \in Task
  BY InHand
<1>a. /\ pc[th] = "deliver" /\ dep[th] \in Task /\ cur[th] \in Task
      /\ state[cur[th]] \in Finished /\ state[dep[th]] = "TASK_WAITING"
      /\ awaits[dep[th]] = cur[th] /\ cur[th] # dep[th]
  BY <1>0 DEF DeliverResult, StateOfToken
<1>1. Created'
  BY <1>0 DEF DeliverResult, Created, ThreadTypeOK, TaskTypeOK
<1>2. OwnTasks'
  BY <1>0 DEF DeliverResult, OwnTasks, ThreadTypeOK, TaskTypeOK
<1>3. OneToken'
  BY <1>0 DEF DeliverResult, OneToken, ThreadTypeOK, Queued, Held, Delivered
<1>4. StateOfToken'
  <2>1. /\ \A t \in Task : t # dep[th] => resval'[t] = resval[t]
        /\ resval'[dep[th]] = resval[cur[th]]
        /\ ~Queued(dep[th])
        /\ \A u \in Thread : pc[u] \in Holding => cur[u] # dep[th]
        /\ \A u \in Thread : pc[u] \in Delivering /\ dep[u] = dep[th] => th = u
    BY <1>a DEF DeliverResult, TaskTypeOK, OneToken, Delivered, Held
  <2>2. \A t \in Task : Queued(t)' <=> Queued(t)
    BY DEF DeliverResult, Queued
  <2>3. \A t \in Task : Ready(t) /\ t # dep[th] => Ready(t)'
    BY <1>a, <2>1 DEF DeliverResult, Ready, TaskTypeOK
  <2> QED BY <1>a, <2>1, <2>2, <2>3 DEF DeliverResult, StateOfToken, ThreadTypeOK
<1>5. Completed'
  BY <1>0 DEF DeliverResult, Completed, ThreadTypeOK, TaskTypeOK, ProcessTypeOK
<1>6. Dependents'
  BY <1>0 DEF DeliverResult, Dependents, ToVisit, Suspended, Queued, Held, Delivered,
     ThreadTypeOK, TaskTypeOK
<1> QED BY <1>1, <1>2, <1>3, <1>4, <1>5, <1>6

LEMMA EnqueueDependentToken ==
    ASSUME TypeOK, TokenInv, NEW th \in Thread, EnqueueDependent(th)
    PROVE  TokenInv'
<1> USE Labels, Basics DEF TypeOK, TokenInv, At, Goto, taskVars, waitVars, errVars, setVars,
     threadVars, vmVars
<1>0. /\ th \in Thread /\ (pc[th] \in Running \cup Marking => cur[th] \in Task)
      /\ pc[th] \in Resuming => dep[th] \in Task
  BY InHand
<1>a. PICK d \in Task :
        /\ d = dep[th] /\ pc[th] = "enqueue" /\ cur[th] \in Task /\ Ready(d)
        /\ parent_process[d] \in Process /\ ~Queued(d) /\ ~Held(d) /\ Delivered(d)
        /\ d \notin Elements(background) /\ state[d] = "TASK_WAITING"
        /\ \A u \in Thread : u # th /\ pc[u] \in Delivering => dep[u] # d
  <2>1. /\ pc[th] = "enqueue" /\ dep[th] \in Task /\ cur[th] \in Task
        /\ state[dep[th]] = "TASK_WAITING" /\ awaits[dep[th]] = cur[th]
        /\ state[cur[th]] \in Finished /\ resval[dep[th]] = resval[cur[th]]
    BY <1>0 DEF EnqueueDependent, StateOfToken
  <2>2. Delivered(dep[th]) /\ Ready(dep[th])
    BY <2>1 DEF Delivered, Ready
  <2> QED BY <2>1, <2>2 DEF OneToken, Created
<1>b. /\ process_enqueue_task(parent_process[d], d)
      /\ pc'[th] = "unwait" /\ \A u \in Thread : u # th => pc'[u] = pc[u]
      /\ UNCHANGED <<taskVars, waitVars, completed_tasks, cur, todo, dep, vmVars>>
  BY <1>a DEF EnqueueDependent, ThreadTypeOK
<1>c. /\ Elements(queued_tasks'[parent_process[d]]) = Elements(queued_tasks[parent_process[d]]) \cup {d}
      /\ \A r \in Process : r # parent_process[d] => queued_tasks'[r] = queued_tasks[r]
      /\ \A x \in Task : Queued(x)' <=> Queued(x) \/ x = d
      /\ \A r \in Process : Distinct(queued_tasks'[r])
  BY <1>a, <1>b, EnqueueElements DEF OneToken
<1>d. \A x \in Task : (Held(x)' <=> Held(x)) /\ (Delivered(x)' <=> Delivered(x) /\ x # d)
  BY <1>a, <1>b DEF Held, Delivered
<1>e. Elements(background) \subseteq Task
  BY ElementsTyped DEF VmTypeOK
<1>1. Created'
  BY <1>a, <1>b DEF Created
<1>2. OwnTasks'
  BY <1>a, <1>b, <1>c DEF OwnTasks
<1>3. OneToken'
  <2>1. \A x \in Task : /\ Queued(x)' => ~Held(x)' /\ ~Delivered(x)'
                        /\ Held(x)' => ~Delivered(x)'
    BY <1>a, <1>c, <1>d DEF OneToken
  <2>2. \A x \in Elements(background) : ~Queued(x)' /\ ~Held(x)' /\ ~Delivered(x)'
    BY <1>a, <1>c, <1>d, <1>e DEF OneToken
  <2> QED BY <1>a, <1>b, <1>c, <2>1, <2>2 DEF OneToken
<1>4. StateOfToken'
  <2>1. \A x \in Task : Queued(x)' => Ready(x)'
    BY <1>a, <1>b, <1>c DEF StateOfToken, Ready
  <2> QED BY <1>a, <1>b, <2>1 DEF StateOfToken, Ready
<1>5. Completed'
  BY <1>a, <1>b DEF Completed
<1>6. Dependents'
  <2>1. \A f, x \in Task : ToVisit(f, x)' <=> ToVisit(f, x)
    BY <1>b DEF ToVisit
  <2>2. ~Suspended(d) /\ \A x \in Task : Suspended(x) => Suspended(x)'
    BY <1>a, <1>b, <1>c, <1>d DEF Suspended, StateOfToken
  <2> QED BY <1>b, <2>1, <2>2 DEF Dependents
<1> QED BY <1>1, <1>2, <1>3, <1>4, <1>5, <1>6

LEMMA RemoveWaitingToken ==
    ASSUME TypeOK, TokenInv, NEW th \in Thread, process_remove_waiting_task(th)
    PROVE  TokenInv'
<1> USE Labels, Basics DEF TypeOK, TokenInv, At, Goto, taskVars, waitVars, errVars, setVars,
     threadVars, vmVars
<1>0. /\ th \in Thread /\ (pc[th] \in Running \cup Marking => cur[th] \in Task)
      /\ pc[th] \in Resuming => dep[th] \in Task
  BY InHand
<1>1. Created'
  BY <1>0 DEF process_remove_waiting_task, Created, ThreadTypeOK, TaskTypeOK
<1>2. OwnTasks'
  BY <1>0 DEF process_remove_waiting_task, OwnTasks, ThreadTypeOK, TaskTypeOK
<1>3. OneToken'
  BY <1>0 DEF process_remove_waiting_task, OneToken, ThreadTypeOK, Queued, Held, Delivered
<1>4. StateOfToken'
  BY <1>0 DEF process_remove_waiting_task, StateOfToken, ThreadTypeOK, TaskTypeOK, Queued, Ready
<1>5. Completed'
  BY <1>0 DEF process_remove_waiting_task, Completed, ThreadTypeOK, TaskTypeOK, ProcessTypeOK
<1>6. Dependents'
  BY <1>0 DEF process_remove_waiting_task, Dependents, ToVisit, Suspended, Queued, Held,
     Delivered, ThreadTypeOK, TaskTypeOK
<1> QED BY <1>1, <1>2, <1>3, <1>4, <1>5, <1>6

LEMMA BroadcastToken ==
    ASSUME TypeOK, TokenInv, NEW th \in Thread, Broadcast(th)
    PROVE  TokenInv'
<1> USE Labels, Basics DEF TypeOK, TokenInv, At, Goto, taskVars, waitVars, errVars, setVars,
     threadVars, vmVars
<1>0. /\ th \in Thread /\ (pc[th] \in Running \cup Marking => cur[th] \in Task)
      /\ pc[th] \in Resuming => dep[th] \in Task
  BY InHand
<1>1. Created'
  BY <1>0 DEF Broadcast, Created, ThreadTypeOK, TaskTypeOK
<1>2. OwnTasks'
  BY <1>0 DEF Broadcast, OwnTasks, ThreadTypeOK, TaskTypeOK
<1>3. OneToken'
  BY <1>0 DEF Broadcast, OneToken, ThreadTypeOK, Queued, Held, Delivered
<1>4. StateOfToken'
  BY <1>0 DEF Broadcast, StateOfToken, ThreadTypeOK, TaskTypeOK, Queued, Ready
<1>5. Completed'
  BY <1>0 DEF Broadcast, Completed, ThreadTypeOK, TaskTypeOK, ProcessTypeOK
<1>6. Dependents'
  <2>1. /\ pc[th] = "signal" /\ pc'[th] = "visit"
        /\ \A u \in Thread : u # th =>
             /\ pc'[u] = pc[u] \/ (pc[u] = "asleep" /\ pc'[u] = "check")
             /\ dep'[u] = dep[u]
        /\ UNCHANGED <<taskVars, waitVars, setVars, cur, todo>>
    BY <1>0 DEF Broadcast, ThreadTypeOK
  <2>2. \A x, y \in Task : ToVisit(x, y)' <=> ToVisit(x, y)
    BY <2>1 DEF ToVisit
  <2>3. \A x \in Task : /\ Queued(x)' <=> Queued(x)
                        /\ Held(x)' <=> Held(x)
                        /\ Delivered(x)' <=> Delivered(x)
    BY <2>1 DEF Queued, Held, Delivered
  <2>4. \A x \in Task : Suspended(x) => Suspended(x)'
    BY <2>1, <2>3 DEF Suspended
  <2> QED BY <2>1, <2>2, <2>4 DEF Dependents
<1> QED BY <1>1, <1>2, <1>3, <1>4, <1>5, <1>6

LEMMA StartWorkToken ==
    ASSUME TypeOK, TokenInv, NEW w \in Worker, StartWork(w)
    PROVE  TokenInv'
<1> USE Labels, Basics DEF TypeOK, TokenInv, At, Goto, taskVars, waitVars, errVars, setVars,
     threadVars, vmVars
<1>0. /\ w \in Thread /\ (pc[w] \in Running \cup Marking => cur[w] \in Task)
      /\ pc[w] \in Resuming => dep[w] \in Task
  BY InHand
<1>a. PICK t \in Task :
        /\ t = Head(background) /\ Distinct(background') /\ t \in Elements(background)
        /\ Elements(background') = Elements(background) \ {t}
        /\ Elements(background) \subseteq Task
  BY ElementsTail, HeadTail, ElementsTyped DEF StartWork, VmTypeOK, OneToken
<1>b. /\ pc[w] = "idle" /\ pc'[w] = "fn" /\ cur'[w] = t
      /\ \A u \in Thread : u # w => pc'[u] = pc[u] /\ cur'[u] = cur[u]
      /\ UNCHANGED <<taskVars, waitVars, setVars, todo, dep, ntasks, nprocesses>>
      /\ w \notin Process
  BY <1>0, <1>a, SchedulerAssumption DEF StartWork, ThreadTypeOK, Process
<1>c. /\ ~Queued(t) /\ ~Held(t) /\ ~Delivered(t) /\ state[t] = "TASK_RUNNING"
      /\ \A u \in Thread : pc[u] \in Holding => cur[u] # t
  BY <1>a DEF OneToken, StateOfToken, Held
<1>d. \A x \in Task : /\ Queued(x)' <=> Queued(x)
                      /\ Held(x)' <=> Held(x) \/ x = t
                      /\ Delivered(x)' <=> Delivered(x)
  BY <1>0, <1>b DEF Queued, Held, Delivered
<1>1. Created'
  BY <1>b DEF Created
<1>2. OwnTasks'
  BY <1>0, <1>b DEF OwnTasks
<1>3. OneToken'
  <2>1. \A x \in Task : /\ Queued(x)' => ~Held(x)' /\ ~Delivered(x)'
                        /\ Held(x)' => ~Delivered(x)'
    BY <1>c, <1>d DEF OneToken
  <2>2. \A x \in Elements(background') : ~Queued(x)' /\ ~Held(x)' /\ ~Delivered(x)'
    BY <1>a, <1>c, <1>d DEF OneToken
  <2>3. \A u, v \in Thread :
           pc'[u] \in Holding /\ pc'[v] \in Holding /\ cur'[u] = cur'[v] => u = v
    BY <1>0, <1>b, <1>c DEF OneToken
  <2>4. \A u, v \in Thread :
           pc'[u] \in Delivering /\ pc'[v] \in Delivering /\ dep'[u] = dep'[v] => u = v
    BY <1>0, <1>b DEF OneToken
  <2> QED BY <1>a, <1>b, <2>1, <2>2, <2>3, <2>4 DEF OneToken
<1>4. StateOfToken'
  <2>1. \A x \in Task : Queued(x)' => Ready(x)'
    BY <1>b, <1>d DEF StateOfToken, Ready
  <2>2. \A x \in Elements(background') : state'[x] = "TASK_RUNNING"
    BY <1>a, <1>b DEF StateOfToken
  <2> QED BY <1>0, <1>b, <1>c, <2>1, <2>2 DEF StateOfToken, Ready
<1>5. Completed'
  BY <1>0, <1>b DEF Completed
<1>6. Dependents'
  <2>1. \A f, x \in Task : ToVisit(f, x)' => ToVisit(f, x)
    BY <1>0, <1>b DEF ToVisit, Completed
  <2>2. ~Suspended(t) /\ \A x \in Task : x # t /\ Suspended(x) => Suspended(x)'
    BY <1>b, <1>c, <1>d, Basics DEF Suspended
  <2> QED BY <1>b, <1>c, <2>1, <2>2 DEF Dependents
<1> QED BY <1>1, <1>2, <1>3, <1>4, <1>5, <1>6

LEMMA BackgroundToken ==
    ASSUME TypeOK, TokenInv, NEW w \in Worker, NEW k \in {"val", "err"},
           _execute_in_background(w, k)
    PROVE  TokenInv'
<1> USE Labels, Basics DEF TypeOK, TokenInv, At, Goto, taskVars, waitVars, errVars, setVars,
     threadVars, vmVars
<1>0. /\ w \in Thread /\ (pc[w] \in Running \cup Marking => cur[w] \in Task)
      /\ pc[w] \in Resuming => dep[w] \in Task
  BY InHand
<1>a. PICK t \in Task : t = cur[w] /\ pc[w] = "fn" /\ state[t] = "TASK_RUNNING"
  BY <1>0 DEF _execute_in_background, StateOfToken
<1>1. Created'
  BY <1>0 DEF _execute_in_background, Created, ThreadTypeOK, TaskTypeOK
<1>2. OwnTasks'
  BY <1>0 DEF _execute_in_background, OwnTasks, ThreadTypeOK, TaskTypeOK
<1>3. OneToken'
  BY <1>0 DEF _execute_in_background, OneToken, ThreadTypeOK, Queued, Held, Delivered
<1>4. StateOfToken'
  <2>1. /\ \A x \in Task : x # t => resval'[x] = resval[x]
        /\ pc'[w] = "callback" /\ \A u \in Thread : u # w => pc'[u] = pc[u]
        /\ ~Queued(t)
        /\ \A u \in Thread : u # w /\ pc[u] \in Holding => cur[u] # t
        /\ \A u \in Thread : pc[u] \in Delivering => dep[u] # t
        /\ UNCHANGED <<taskVars, state, awaits, setVars, cur, dep, vmVars>>
    BY <1>0, <1>a DEF _execute_in_background, TaskTypeOK, ThreadTypeOK, OneToken, Delivered,
       Held
  <2>2. \A x \in Task : x # t /\ Ready(x) => Ready(x)'
    BY <1>a, <2>1 DEF Ready, TaskTypeOK
  <2>3. \A x \in Task : Queued(x)' => Ready(x)'
    <3>1. \A x \in Task : Queued(x)' <=> Queued(x)
      BY <2>1 DEF Queued
    <3> QED BY <2>1, <2>2, <3>1 DEF StateOfToken
  <2>4. \A u \in Thread : pc'[u] = "start" => Ready(cur[u])'
    BY <1>a, <2>1, <2>2, InHand DEF StateOfToken
  <2>5. \A u \in Thread : pc'[u] = "enqueue" => resval'[dep[u]] = resval'[cur[u]]
    BY <1>a, <2>1, InHand DEF StateOfToken
  <2> QED BY <1>a, <2>1, <2>3, <2>4, <2>5 DEF StateOfToken
<1>5. Completed'
  BY <1>0 DEF _execute_in_background, Completed, ThreadTypeOK, TaskTypeOK, ProcessTypeOK
<1>6. Dependents'
  BY <1>0 DEF _execute_in_background, Dependents, ToVisit, Suspended, Queued, Held, Delivered,
     ThreadTypeOK, TaskTypeOK
<1> QED BY <1>1, <1>2, <1>3, <1>4, <1>5, <1>6
-----------------------------------------------------------------------------
(* The whole specification. *)

LEMMA TokenInit == Init => TokenInv
<1> SUFFICES ASSUME Init PROVE TokenInv
  OBVIOUS
<1> USE SchedulerAssumption, Labels, ElementsEmpty DEF Init
<1>1. 1 \in Task /\ 1 \in Process /\ NULL \notin Task /\ NULL \notin Process
  BY DEF Task, Process, NULL
<1>2. Elements(<<1>>) = {1} /\ Distinct(<<1>>)
  BY DEF Elements, Distinct
<1>3. /\ \A p \in Process : Elements(queued_tasks[p]) = IF p = 1 THEN {1} ELSE {}
      /\ \A p \in Process : Distinct(queued_tasks[p])
  BY <1>2
<1>4. \A th \in Thread : pc[th] \in {"pop", "unborn", "idle"}
  BY DEF Thread
<1>5. \A t \in Task : (Queued(t) => t = 1) /\ ~Held(t) /\ ~Delivered(t)
  BY <1>3, <1>4 DEF Queued, Held, Delivered
<1>6. Created
  BY <1>1, Basics DEF Created, Task, Process
<1>7. OwnTasks
  BY <1>1, <1>3, <1>4, Basics DEF OwnTasks
<1>8. OneToken
  BY <1>3, <1>4, <1>5 DEF OneToken
<1>9. StateOfToken
  BY <1>1, <1>4, <1>5 DEF StateOfToken, Ready
<1>10. Completed
  BY <1>4 DEF Completed
<1>11. Dependents
  BY DEF Dependents, ToVisit
<1> QED BY <1>6, <1>7, <1>8, <1>9, <1>10, <1>11 DEF TokenInv

\* The two outcomes of an error, of a task that starts or runs.
LEMMA ErrorToken ==
    ASSUME TypeOK, TokenInv, NEW p \in Process, NEW t \in Task, t = cur[p],
           pc[p] \in {"start", "exec"}, NEW r \in Entity,
           Caught(p, t) \/ Uncaught(p, t, r)
    PROVE  TokenInv'
<1>1. CASE Caught(p, t)
  BY <1>1, StartToken DEF Caught, Goto
<1>2. CASE Uncaught(p, t, r) /\ parent_task[t] # NULL
  <2>1. /\ state' = [state EXCEPT ![t] = "TASK_ERROR"]
        /\ resval' = [resval EXCEPT ![t] = r]
        /\ pc' = [pc EXCEPT ![p] = "failed"]
        /\ UNCHANGED <<taskVars, dependent_tasks, awaits, setVars, cur, todo, dep, vmVars>>
    BY <1>2 DEF Uncaught, Goto
  <2>2. p \in Thread /\ "TASK_ERROR" \in Finished
    BY Basics, Labels
  <2> QED BY <2>1, <2>2, EndToken
<1>3. CASE Uncaught(p, t, r) /\ parent_task[t] = NULL
  BY <1>3, UncaughtDelegates, DelegateToken
<1> QED BY <1>1, <1>2, <1>3

LEMMA TokenStep == TypeOK /\ TokenInv /\ [Next]_vars => TokenInv'
<1> SUFFICES ASSUME TypeOK, TokenInv, [Next]_vars PROVE TokenInv'
  OBVIOUS
<1>0. \A p \in Process : pc[p] \in {"start", "exec"} =>
        cur[p] \in Task /\ resval[cur[p]] \in Entity
  BY Basics, InHand, Labels DEF TypeOK, TaskTypeOK
<1>1. ASSUME NEW p \in Process, StartTask(p) PROVE TokenInv'
  BY <1>0, <1>1, StartToken DEF StartTask, At, Goto
<1>2. ASSUME NEW p \in Process,
             \/ StartWithError(p) \/ NoticeError(p) \/ \E kind \in Errors : Raise(p, kind)
      PROVE  TokenInv'
  <2>1. CASE StartWithError(p)
    BY <1>0, <2>1, ErrorToken DEF StartWithError, At
  <2>2. CASE NoticeError(p)
    BY <1>0, <2>2, ErrorToken, Basics DEF NoticeError, At
  <2>3. ASSUME NEW kind \in Errors, Raise(p, kind) PROVE TokenInv'
    <3>1. cur[p] \in Task /\ pc[p] = "exec"
      BY <1>0, <2>3 DEF Raise, At
    <3>2. [kind |-> kind, of |-> cur[p]] \in Entity
      BY <3>1, Basics, SchedulerAssumption
    <3> QED BY <2>3, <3>1, <3>2, ErrorToken DEF Raise
  <2> QED BY <1>2, <2>1, <2>2, <2>3
<1>3. ASSUME NEW p \in Process, Return(p) PROVE TokenInv'
  <2>1. cur[p] \in Task /\ pc[p] = "exec" /\ [kind |-> "val", of |-> cur[p]] \in Entity
    BY <1>0, <1>3, Basics DEF Return, At
  <2> QED BY <1>3, <2>1, EndToken, Basics, Labels DEF Return, Goto
<1>4. ASSUME NEW w \in Worker, _execute_in_background_callback(w) PROVE TokenInv'
  <2>1. /\ w \in Thread /\ cur[w] \in Task /\ pc[w] = "callback"
        /\ resval[cur[w]] \in Entity
        /\ UNCHANGED resval /\ resval' = [resval EXCEPT ![cur[w]] = resval[cur[w]]]
    BY <1>4, Basics, InHand, Labels DEF _execute_in_background_callback, At, TypeOK, TaskTypeOK
  <2> QED BY <1>4, <2>1, EndToken, Labels DEF _execute_in_background_callback, Goto
<1>5. ASSUME NEW p \in Process,
             \/ QueueEmpty(p) \/ _process_is_done(p) \/ CountWaiting(p)
             \/ CheckWaiting(p) \/ SpuriousWakeup(p) \/ AssertFails(p) \/ vm_delete
      PROVE  TokenInv'
  <2>1. UNCHANGED <<taskVars, waitVars, queued_tasks, completed_tasks, cur, todo, dep,
                    ntasks, nprocesses, background>>
    BY <1>5 DEF QueueEmpty, _process_is_done, CountWaiting, CheckWaiting, SpuriousWakeup,
       AssertFails, vm_delete, allButPc, setVars, threadVars, vmVars
  <2>2. \/ UNCHANGED pc
        \/ /\ pc[p] \in {"pop", "is_done", "count", "check", "asleep"}
           /\ \E l \in {"is_done", "returned", "count", "check", "asleep", "pop"} :
                pc' = [pc EXCEPT ![p] = l]
    BY <1>5 DEF QueueEmpty, _process_is_done, CountWaiting, CheckWaiting, SpuriousWakeup,
       AssertFails, vm_delete, threadVars, At, Goto
  <2>3. \A th \in Thread : \/ pc'[th] = pc[th]
                           \/ pc[th] \in Idling \ {"unborn"} /\ pc'[th] \in Idling
    BY <2>2 DEF Idling, TypeOK, ThreadTypeOK
  <2> QED BY <2>1, <2>3, IdleToken
<1>a. ASSUME NEW p \in Process,
             Call(p) \/ CallAsync(p) \/ CallBackground(p) \/ _create_process(p)
      PROVE  TokenInv'
  <2>1. CASE Call(p)
    BY <2>1, CallDelegates, DelegateToken, Basics
  <2>2. CASE CallAsync(p) \/ CallBackground(p)
    BY <2>2, CallAsyncSpawns, CallBackgroundSpawns, SpawnToken
  <2>3. CASE _create_process(p)
    BY <2>3, CreateProcessSpawns, SpawnToken DEF TokenInv
  <2> QED BY <1>a, <2>1, <2>2, <2>3
<1>6. ASSUME NEW p \in Process, vm_execute_task(p) PROVE TokenInv'
  BY <1>1, <1>2, <1>3, <1>5, <1>6, <1>a, AwaitCompleteToken, AwaitIncompleteToken,
     InsertDependentToken, SetWaitingToken
     DEF vm_execute_task
<1>7. ASSUME NEW th \in Thread, _mark_task_complete(th) PROVE TokenInv'
  BY <1>7, MarkToken, VisitToken, AllVisitedToken, DeliverToken,
     EnqueueDependentToken, RemoveWaitingToken, BroadcastToken
     DEF _mark_task_complete
<1>8. ASSUME NEW p \in Process, process_run(p) \/ SpuriousWakeup(p) PROVE TokenInv'
  BY <1>5, <1>6, <1>7, <1>8, Basics, PopToken, InsertWaitingToken, TellParentToken
     DEF process_run
<1>9. ASSUME NEW w \in Worker, RunWorker(w) PROVE TokenInv'
  BY <1>4, <1>7, <1>9, Basics, StartWorkToken, BackgroundToken DEF RunWorker
<1>10. CASE UNCHANGED vars
  BY <1>10, IdleToken DEF vars, taskVars, waitVars, errVars, setVars, threadVars, vmVars
<1>11. CASE vm_delete
  <2>1. 1 \in Process
    BY SchedulerAssumption DEF Process
  <2> QED BY <1>5, <1>11, <2>1
<1> QED BY <1>8, <1>9, <1>10, <1>11 DEF Next

LEMMA TokenCorrect == Spec => [](TypeOK /\ TokenInv)
<1>1. Init => TypeOK /\ TokenInv
  BY TypeOKInit, TokenInit
<1>2. TypeOK /\ TokenInv /\ [Next]_vars => TypeOK' /\ TokenInv'
  BY TypeOKStep, TokenStep
<1> QED BY <1>1, <1>2, PTL DEF Spec
-----------------------------------------------------------------------------
(* What the token gives. *)

LEMMA InQueueElements ==
    ASSUME NEW p \in Process, NEW t PROVE InQueue(p, t) <=> t \in Elements(queued_tasks[p])
  BY DEF InQueue, Elements

LEMMA TokenScheduledOnce == TypeOK /\ TokenInv => ScheduledOnce
<1> SUFFICES ASSUME TypeOK, TokenInv PROVE ScheduledOnce
  OBVIOUS
<1> USE Labels, Basics DEF TokenInv
<1>1. ASSUME NEW p \in Process, NEW q \in Process,
             NEW i \in 1..Len(queued_tasks[p]), NEW j \in 1..Len(queued_tasks[q]),
             queued_tasks[p][i] = queued_tasks[q][j]
      PROVE  p = q /\ i = j
  <2>1. /\ queued_tasks[p][i] \in Elements(queued_tasks[p])
        /\ queued_tasks[q][j] \in Elements(queued_tasks[q])
    BY DEF Elements
  <2>2. p = q
    <3>1. \A x \in Elements(queued_tasks[p]) : parent_process[x] = p
      BY DEF OwnTasks
    <3>2. \A x \in Elements(queued_tasks[q]) : parent_process[x] = q
      BY DEF OwnTasks
    <3> QED BY <1>1, <2>1, <3>1, <3>2
  <2>3. Distinct(queued_tasks[p])
    BY DEF OneToken
  <2> QED BY <1>1, <2>2, <2>3 DEF Distinct
<1>2. ASSUME NEW th \in Thread, pc[th] \in {"deliver", "enqueue"}
      PROVE  /\ \A p \in Process : ~InQueue(p, dep[th])
             /\ \A u \in Thread \ {th} : pc[u] \in {"deliver", "enqueue"} => dep[u] # dep[th]
  <2>1. dep[th] \in Task /\ Delivered(dep[th])
    BY <1>2, InHand DEF Delivered
  <2>2. ~Queued(dep[th])
    BY <2>1 DEF OneToken
  <2> QED BY <1>2, <2>2, InQueueElements DEF Queued, OneToken
<1>3. ASSUME NEW p \in Process, NEW q \in Process, pc[p] \in Running \ {"suspend"}
      PROVE  ~InQueue(q, cur[p]) /\ (q # p /\ pc[q] \in Running => cur[q] # cur[p])
  <2>1. cur[p] \in Task /\ Held(cur[p])
    BY <1>3, InHand DEF Held
  <2>2. ~Queued(cur[p])
    BY <2>1 DEF OneToken
  <2>3. q # p /\ pc[q] \in Running => cur[q] # cur[p]
    BY <1>3 DEF OwnTasks
  <2> QED BY <2>2, <2>3, InQueueElements DEF Queued
<1> QED BY <1>1, <1>2, <1>3 DEF ScheduledOnce

\* No task is ever in two queues or twice in one, resumed by two threads, or
\* queued while it runs: process_pop_task hands every task to one thread, for
\* every program, background calls and shared futures included.
THEOREM TasksScheduledOnce == Spec => []ScheduledOnce
BY TokenCorrect, TokenScheduledOnce, PTL

\* A task that process_run starts again after it waited finds in resval the
\* result of the task it waited for, and that one is finished; background
\* workers and shared futures do not change this.
THEOREM ResultsDelivered == Spec => []ResultDelivered
<1>1. TypeOK /\ TokenInv => ResultDelivered
  BY Basics DEF TokenInv, StateOfToken, Ready, ResultDelivered, future_is_complete, Finished
<1> QED BY TokenCorrect, <1>1, PTL
-----------------------------------------------------------------------------
(* The scheduler implements the abstract life of tasks. *)

Done(t) == state[t] \in Finished
MayGoOn(t) == state[t] = "TASK_WAITING" /\ awaits[t] \in Task /\ Done(awaits[t])

\* What a step may do to the task t.
Life(t) ==
    \/ /\ state'[t] = state[t]
       /\ state[t] = "TASK_WAITING" => awaits'[t] = awaits[t]
       /\ Done(t) => resval'[t] = resval[t]
    \/ state[t] = "TASK_NEW" /\ state'[t] = "TASK_RUNNING"
    \/ /\ state[t] = "TASK_RUNNING" /\ state'[t] = "TASK_WAITING"
       /\ awaits'[t] \in Task /\ state'[awaits'[t]] # "TASK_NEW"
    \/ MayGoOn(t) /\ state'[t] = "TASK_RUNNING"
    \/ (state[t] = "TASK_RUNNING" \/ MayGoOn(t)) /\ state'[t] \in Finished

LEMMA LifeOfTask ==
    ASSUME TypeOK, TokenInv, [Next]_vars, NEW t \in Task PROVE Life(t)
<1> USE Labels, Basics DEF TypeOK, TokenInv, At
<1>0. \A x \in Task : Ready(x) => state[x] = "TASK_RUNNING" \/ MayGoOn(x)
  BY DEF Ready, MayGoOn, Done, TaskTypeOK
<1>1. CASE UNCHANGED <<state, awaits, resval>>
  BY <1>1 DEF Life
<1>2. ASSUME NEW p \in Process, vm_execute_task(p) PROVE Life(t)
  <2>0. /\ pc[p] \in {"start", "exec", "insert", "set_waiting"} => cur[p] \in Task
        /\ pc[p] = "start" => Ready(cur[p])
        /\ pc[p] \in {"exec", "set_waiting"} => state[cur[p]] = "TASK_RUNNING"
    BY InHand DEF StateOfToken
  <2>1. ASSUME NEW r, cur[p] \in Task, pc[p] \in {"start", "exec"},
               Caught(p, cur[p]) \/ Uncaught(p, cur[p], r)
        PROVE  Life(t)
    <3>0. state[cur[p]] = "TASK_RUNNING" \/ MayGoOn(cur[p])
      BY <1>0, <2>0, <2>1
    <3>1. CASE Caught(p, cur[p])
      BY <2>1, <3>0, <3>1 DEF Caught, Life, TaskTypeOK
    <3>2. CASE Uncaught(p, cur[p], r) /\ parent_task[cur[p]] # NULL
      BY <2>1, <3>0, <3>2 DEF Uncaught, Life, TaskTypeOK
    <3>3. CASE Uncaught(p, cur[p], r) /\ parent_task[cur[p]] = NULL
      <4>1. ntasks + 1 \in Task
        BY <2>1, <3>3, NewTaskTypes DEF Uncaught
      <4>2. state[ntasks + 1] = "TASK_NEW"
        BY <4>1 DEF Created, VmTypeOK, Task
      <4> QED BY <2>1, <3>0, <3>3, <4>1, <4>2 DEF Uncaught, Life, TaskTypeOK
    <3> QED BY <2>1, <3>1, <3>2, <3>3
  <2>2. CASE StartTask(p)
    <3>1. cur[p] \in Task /\ (state[cur[p]] = "TASK_RUNNING" \/ MayGoOn(cur[p]))
      BY <1>0, <2>0, <2>2 DEF StartTask
    <3> QED BY <2>2, <3>1 DEF StartTask, Life, TaskTypeOK
  <2>3. CASE StartWithError(p) \/ NoticeError(p) \/ \E kind \in Errors : Raise(p, kind)
    BY <2>0, <2>1, <2>3 DEF StartWithError, NoticeError, Raise
  <2>4. CASE Call(p) \/ CallAsync(p) \/ CallBackground(p) \/ _create_process(p)
    <3>0. pc[p] = "exec" /\ cur[p] \in Task /\ state[cur[p]] = "TASK_RUNNING"
      BY <2>0, <2>4 DEF Call, CallAsync, CallBackground, _create_process, Executing
    <3>1. ntasks + 1 \in Task
      BY <2>4, SchedulerAssumption DEF Call, CallAsync, CallBackground, _create_process,
         process_create_unqueued_task, VmTypeOK, Task
    <3>2. state[ntasks + 1] = "TASK_NEW"
      BY <3>1 DEF Created, VmTypeOK, Task
    <3>3. CASE Call(p)
      BY <3>0, <3>1, <3>2, <3>3 DEF Call, Life, TaskTypeOK
    <3>4. CASE CallAsync(p) \/ CallBackground(p) \/ _create_process(p)
      <4>1. /\ state' = [state EXCEPT ![ntasks + 1] = "TASK_RUNNING"]
            /\ resval' = [resval EXCEPT ![cur[p]] = Plain] /\ UNCHANGED awaits
        BY <3>4 DEF CallAsync, CallBackground, _create_process
      <4> QED BY <3>0, <3>1, <3>2, <4>1 DEF Life, TaskTypeOK, Done
    <3> QED BY <2>4, <3>3, <3>4
  <2>5. ASSUME NEW f \in Task, AwaitComplete(p, f) \/ AwaitIncomplete(p, f) PROVE Life(t)
    <3>1. pc[p] = "exec" /\ cur[p] \in Task /\ state[cur[p]] = "TASK_RUNNING"
      BY <2>0, <2>5 DEF AwaitComplete, AwaitIncomplete, Executing
    <3> QED BY <2>5, <3>1 DEF AwaitComplete, AwaitIncomplete, Life, Done, TaskTypeOK
  <2>6. CASE SetWaiting(p)
    <3>1. /\ cur[p] \in Task /\ state[cur[p]] = "TASK_RUNNING"
          /\ awaits[cur[p]] \in Task /\ state[awaits[cur[p]]] # "TASK_NEW"
      BY <2>0, <2>6 DEF SetWaiting, StateOfToken, Created, TaskTypeOK
    <3> QED BY <2>6, <3>1 DEF SetWaiting, Life, TaskTypeOK
  <2>7. CASE Return(p)
    <3>1. cur[p] \in Task /\ state[cur[p]] = "TASK_RUNNING"
      BY <2>0, <2>7 DEF Return
    <3> QED BY <2>7, <3>1 DEF Return, Life, TaskTypeOK
  <2>8. CASE AssertFails(p) \/ InsertDependent(p)
    BY <1>1, <2>8 DEF AssertFails, InsertDependent, waitVars
  <2> QED BY <1>2, <2>2, <2>3, <2>4, <2>5, <2>6, <2>7, <2>8 DEF vm_execute_task
<1>3. ASSUME NEW th \in Thread, _mark_task_complete(th) PROVE Life(t)
  <2>1. CASE DeliverResult(th)
    <3>1. dep[th] \in Task /\ state[dep[th]] = "TASK_WAITING"
      BY <2>1, InHand DEF DeliverResult, StateOfToken
    <3> QED BY <2>1, <3>1 DEF DeliverResult, Life, Done, TaskTypeOK
  <2>2. CASE ~DeliverResult(th)
    BY <1>1, <1>3, <2>2 DEF _mark_task_complete, process_mark_task_complete, VisitDependent,
       AllVisited, EnqueueDependent, process_remove_waiting_task, Broadcast, waitVars
  <2> QED BY <2>1, <2>2
<1>4. ASSUME NEW p \in Process, process_run(p) \/ SpuriousWakeup(p) PROVE Life(t)
  BY <1>1, <1>2, <1>3, <1>4 DEF process_run, SpuriousWakeup, process_pop_task, QueueEmpty,
     process_insert_waiting_task, TellParent, _process_is_done, CountWaiting, CheckWaiting,
     waitVars, allButPc
<1>5. ASSUME NEW w \in Worker, RunWorker(w) PROVE Life(t)
  <2>0. pc[w] \in {"fn", "callback"} => cur[w] \in Task /\ state[cur[w]] = "TASK_RUNNING"
    BY InHand DEF StateOfToken
  <2>1. ASSUME NEW k, _execute_in_background(w, k) PROVE Life(t)
    BY <2>0, <2>1 DEF _execute_in_background, Life, Done, TaskTypeOK
  <2>2. CASE _execute_in_background_callback(w)
    BY <2>0, <2>2 DEF _execute_in_background_callback, Life, TaskTypeOK
  <2>3. CASE StartWork(w)
    BY <1>1, <2>3 DEF StartWork, waitVars
  <2> QED BY <1>3, <1>5, <2>1, <2>2, <2>3 DEF RunWorker
<1>6. CASE vm_delete \/ UNCHANGED vars
  BY <1>1, <1>6 DEF vm_delete, vars, waitVars
<1> QED BY <1>4, <1>5, <1>6 DEF Next
-----------------------------------------------------------------------------
(* Leaving the waiting set. *)

\* A task that was resumed does not come to wait for the same task again.
LEMMA ResumedStep ==
    ASSUME TypeOK, TokenInv, [Next]_vars, NEW d \in Task, NEW c \in Task,
           state[c] \in Finished, Resumed(d, c)
    PROVE  Resumed(d, c)'
<1> USE Labels, Basics DEF TypeOK, TokenInv, At, Goto
<1>0. state[d] \in Finished => state'[d] \in Finished
  BY LifeOfTask DEF Life, MayGoOn
\* A step of other tasks.
<1>1. ASSUME awaits'[d] = awaits[d] \/ awaits'[d] # c,
             Queued(d) => Queued(d)',
             \A p \in Process : cur[p] = d /\ pc[p] \in {"start", "exec"} =>
               cur'[p] = d /\ pc'[p] \in {"start", "exec"}
      PROVE  Resumed(d, c)'
  BY <1>0, <1>1 DEF Resumed
\* A step of the process p, which leaves the queues.
<1>2. ASSUME NEW p \in Process, cur[p] \in Task, UNCHANGED queued_tasks,
             \A t \in Task : t # cur[p] => awaits'[t] = awaits[t],
             \A u \in Thread : u # p => pc'[u] = pc[u] /\ cur'[u] = cur[u],
             \/ pc[p] \notin {"start", "exec"} /\ UNCHANGED awaits
             \/ pc'[p] = "exec" /\ UNCHANGED <<awaits, cur>>
             \/ state'[cur[p]] \in Finished
             \/ awaits'[cur[p]] # c
      PROVE  Resumed(d, c)'
  <2>1. Queued(d) => Queued(d)'
    BY <1>2 DEF Queued
  <2> QED BY <1>0, <1>2, <2>1 DEF Resumed
<1>3. ASSUME NEW p \in Process, NEW q \in Process, NEW n \in Task, NEW b, Spawn(p, q, n, b)
      PROVE  Resumed(d, c)'
  <2>1. \A u \in Thread : pc[u] \in {"start", "exec"} => pc'[u] = pc[u]
    BY <1>3 DEF Spawn
  <2>2. Queued(d) => Queued(d)'
    BY <1>3, EnqueueElements DEF Spawn, Queued
  <2> QED BY <1>1, <1>3, <2>1, <2>2 DEF Spawn
<1>4. ASSUME NEW p \in Process, NEW n \in Task, NEW s, NEW r \in Entity, Delegate(p, n, s, r)
      PROVE  Resumed(d, c)'
  <2>1. cur[p] \in Task /\ n # c /\ n # cur[p]
    BY <1>4, InHand, Unborn DEF Delegate, Created, VmTypeOK, Task, Held
  <2>2. Queued(d) => Queued(d)'
    BY <1>4, EnqueueElements DEF Delegate
  <2>3. /\ \A u \in Thread : u # p => pc'[u] = pc[u] /\ cur'[u] = cur[u]
        /\ \A t \in Task : t # cur[p] => awaits'[t] = awaits[t]
    BY <1>4, <2>1 DEF Delegate, ThreadTypeOK, TaskTypeOK
  <2>4. awaits'[cur[p]] = n \/ (state'[cur[p]] \in Finished /\ UNCHANGED awaits)
    BY <1>4, <2>1 DEF Delegate, TaskTypeOK
  <2> QED BY <1>0, <2>1, <2>2, <2>3, <2>4 DEF Resumed
<1>5. ASSUME NEW p \in Process, vm_execute_task(p) PROVE Resumed(d, c)'
  <2>0. pc[p] \in {"start", "exec", "insert", "set_waiting"} =>
          /\ cur[p] \in Task
          /\ resval[cur[p]] \in Entity
          /\ \A kind \in Errors : [kind |-> kind, of |-> cur[p]] \in Entity
    BY InHand, SchedulerAssumption DEF TaskTypeOK
  <2>1. ASSUME NEW r \in Entity, cur[p] \in Task, pc[p] \in {"start", "exec"},
               Caught(p, cur[p]) \/ Uncaught(p, cur[p], r)
        PROVE  Resumed(d, c)'
    <3>1. CASE Caught(p, cur[p])
      BY <1>2, <2>1, <3>1 DEF Caught, ThreadTypeOK, setVars
    <3>2. CASE Uncaught(p, cur[p], r) /\ parent_task[cur[p]] # NULL
      BY <1>2, <2>1, <3>2 DEF Uncaught, ThreadTypeOK, TaskTypeOK, setVars
    <3>3. CASE Uncaught(p, cur[p], r) /\ parent_task[cur[p]] = NULL
      BY <1>4, <2>1, <3>3, UncaughtDelegates
    <3> QED BY <2>1, <3>1, <3>2, <3>3
  <2>2. CASE StartWithError(p) \/ NoticeError(p) \/ \E kind \in Errors : Raise(p, kind)
    BY <2>0, <2>1, <2>2 DEF StartWithError, NoticeError, Raise
  <2>3. CASE Call(p)
    BY <1>4, <2>3, CallDelegates
  <2>4. CASE CallAsync(p) \/ CallBackground(p)
    BY <1>3, <2>4, CallAsyncSpawns, CallBackgroundSpawns
  <2>5. CASE _create_process(p)
    BY <1>3, <2>5, CreateProcessSpawns
  <2>6. ASSUME NEW f \in Task, AwaitComplete(p, f) PROVE Resumed(d, c)'
    BY <2>6 DEF AwaitComplete, Resumed, Queued, setVars, threadVars
  <2>7. ASSUME NEW f \in Task, AwaitIncomplete(p, f) PROVE Resumed(d, c)'
    <3>1. f # c /\ cur[p] \in Task
      BY <2>0, <2>7 DEF AwaitIncomplete, Executing, future_is_complete
    <3> QED BY <1>2, <2>7, <3>1 DEF AwaitIncomplete, setVars, ThreadTypeOK, TaskTypeOK
  <2>8. CASE StartTask(p) \/ Return(p)
    BY <1>2, <2>0, <2>8 DEF StartTask, Return, setVars, ThreadTypeOK, TaskTypeOK
  <2>9. CASE InsertDependent(p) \/ SetWaiting(p)
    BY <1>2, <2>0, <2>9 DEF InsertDependent, SetWaiting, setVars, ThreadTypeOK
  <2>10. CASE AssertFails(p)
    BY <2>10 DEF AssertFails, Resumed, Queued, setVars, threadVars, waitVars
  <2> QED BY <1>5, <2>2, <2>3, <2>4, <2>5, <2>6, <2>7, <2>8, <2>9, <2>10 DEF vm_execute_task
<1>6. ASSUME NEW th \in Thread, _mark_task_complete(th) PROVE Resumed(d, c)'
  <2>1. UNCHANGED awaits
    BY <1>6 DEF _mark_task_complete, process_mark_task_complete, VisitDependent, AllVisited,
       DeliverResult, EnqueueDependent, process_remove_waiting_task, Broadcast, waitVars
  <2>2. \A u \in Thread : pc[u] \in {"start", "exec"} => pc'[u] = pc[u] /\ cur'[u] = cur[u]
    BY <1>6 DEF _mark_task_complete, process_mark_task_complete, VisitDependent, AllVisited,
       DeliverResult, EnqueueDependent, process_remove_waiting_task, Broadcast, Next_task,
       ThreadTypeOK
  <2>3. CASE EnqueueDependent(th)
    <3>1. dep[th] \in Task /\ parent_process[dep[th]] \in Process
      BY <2>3, InHand DEF EnqueueDependent, StateOfToken, Created
    <3>2. Queued(d) => Queued(d)'
      BY <2>3, <3>1, EnqueueElements DEF EnqueueDependent
    <3> QED BY <1>1, <2>1, <2>2, <3>2
  <2>4. CASE ~EnqueueDependent(th)
    <3>1. UNCHANGED queued_tasks
      BY <1>6, <2>4 DEF _mark_task_complete, process_mark_task_complete, VisitDependent,
         AllVisited, DeliverResult, process_remove_waiting_task, Broadcast, setVars
    <3> QED BY <1>1, <2>1, <2>2, <3>1 DEF Queued
  <2> QED BY <2>3, <2>4
<1>7. ASSUME NEW p \in Process, process_pop_task(p) PROVE Resumed(d, c)'
  <2>1. /\ queued_tasks[p] \in Seq(Task) /\ queued_tasks[p] # <<>>
        /\ cur'[p] = Head(queued_tasks[p]) /\ pc'[p] = "start" /\ pc[p] = "pop"
        /\ queued_tasks'[p] = Tail(queued_tasks[p])
        /\ \A q \in Process : q # p => queued_tasks'[q] = queued_tasks[q]
        /\ \A u \in Thread : u # p => pc'[u] = pc[u] /\ cur'[u] = cur[u]
        /\ UNCHANGED awaits
    BY <1>7 DEF process_pop_task, ProcessTypeOK, ThreadTypeOK, waitVars
  <2>2. \A x \in Elements(queued_tasks[p]) :
          x = Head(queued_tasks[p]) \/ x \in Elements(Tail(queued_tasks[p]))
    BY <2>1, ElementsTail DEF OneToken
  <2>3. Queued(d) => Queued(d)' \/ cur'[p] = d
    BY <2>1, <2>2 DEF Queued
  <2> QED BY <1>0, <2>1, <2>3 DEF Resumed
<1>8. ASSUME NEW p \in Process, process_run(p) \/ SpuriousWakeup(p) PROVE Resumed(d, c)'
  <2>1. CASE \/ QueueEmpty(p) \/ _process_is_done(p) \/ CountWaiting(p) \/ CheckWaiting(p)
             \/ SpuriousWakeup(p) \/ process_insert_waiting_task(p) \/ TellParent(p)
    <3>1. /\ UNCHANGED <<awaits, queued_tasks>>
          /\ \A u \in Thread : pc[u] \in {"start", "exec"} => pc'[u] = pc[u] /\ cur'[u] = cur[u]
      BY <2>1 DEF QueueEmpty, _process_is_done, CountWaiting, CheckWaiting, SpuriousWakeup,
         process_insert_waiting_task, TellParent, Next_task, waitVars, setVars, allButPc,
         ThreadTypeOK
    <3> QED BY <1>1, <3>1 DEF Queued
  <2> QED BY <1>5, <1>6, <1>7, <1>8, <2>1 DEF process_run
<1>9. ASSUME NEW w \in Worker, RunWorker(w) PROVE Resumed(d, c)'
  <2>1. CASE \/ StartWork(w) \/ _execute_in_background_callback(w)
             \/ \E k \in {"val", "err"} : _execute_in_background(w, k)
    <3>1. /\ UNCHANGED <<awaits, queued_tasks>>
          /\ \A u \in Thread : pc[u] \in {"start", "exec"} => pc'[u] = pc[u] /\ cur'[u] = cur[u]
      BY <2>1 DEF StartWork, _execute_in_background_callback, _execute_in_background, waitVars,
         setVars, ThreadTypeOK
    <3> QED BY <1>1, <3>1 DEF Queued
  <2> QED BY <1>6, <1>9, <2>1 DEF RunWorker
<1>10. CASE vm_delete \/ UNCHANGED vars
  BY <1>10 DEF vm_delete, vars, waitVars, setVars, threadVars, Resumed, Queued
<1> QED BY <1>8, <1>9, <1>10 DEF Next

LEMMA RequeuedStep ==
    ASSUME TypeOK, TokenInv, Requeued, [Next]_vars PROVE Requeued'
<1> USE Labels, Basics DEF TypeOK, TokenInv, At, Goto
<1>1. ASSUME NEW th \in Thread, pc'[th] = "unwait"
      PROVE  \/ pc[th] = "unwait" /\ cur'[th] = cur[th] /\ dep'[th] = dep[th]
             \/ EnqueueDependent(th)
  <2>1. ASSUME NEW u \in Thread, u # th, \A v \in Thread : v # u => pc'[v] = pc[v] /\
                 cur'[v] = cur[v] /\ dep'[v] = dep[v]
        PROVE  pc[th] = "unwait" /\ cur'[th] = cur[th] /\ dep'[th] = dep[th]
    BY <1>1, <2>1
  <2>2. ASSUME NEW p \in Process, NEW q \in Process, NEW n \in Task, NEW b, Spawn(p, q, n, b)
        PROVE  pc[th] = "unwait" /\ cur'[th] = cur[th] /\ dep'[th] = dep[th]
    BY <1>1, <2>2 DEF Spawn
  <2>3. ASSUME NEW p \in Process, NEW n \in Task, NEW s, NEW r, Delegate(p, n, s, r)
        PROVE  pc[th] = "unwait" /\ cur'[th] = cur[th] /\ dep'[th] = dep[th]
    BY <1>1, <2>3 DEF Delegate, ThreadTypeOK
  <2>4. ASSUME NEW p \in Process, vm_execute_task(p)
        PROVE  pc[th] = "unwait" /\ cur'[th] = cur[th] /\ dep'[th] = dep[th]
    <3>0. pc[p] \in {"start", "exec"} => cur[p] \in Task
      BY InHand
    <3>1. ASSUME NEW r, cur[p] \in Task, pc[p] \in {"start", "exec"},
                 Caught(p, cur[p]) \/ Uncaught(p, cur[p], r)
          PROVE  pc[th] = "unwait" /\ cur'[th] = cur[th] /\ dep'[th] = dep[th]
      <4>1. CASE Uncaught(p, cur[p], r) /\ parent_task[cur[p]] = NULL
        BY <2>3, <3>1, <4>1, UncaughtDelegates
      <4>2. CASE Caught(p, cur[p])
        BY <1>1, <4>2 DEF Caught, ThreadTypeOK
      <4>3. CASE Uncaught(p, cur[p], r) /\ parent_task[cur[p]] # NULL
        BY <1>1, <4>3 DEF Uncaught, ThreadTypeOK
      <4> QED BY <3>1, <4>1, <4>2, <4>3
    <3>2. CASE StartWithError(p) \/ NoticeError(p) \/ \E kind \in Errors : Raise(p, kind)
      BY <3>0, <3>1, <3>2 DEF StartWithError, NoticeError, Raise
    <3>3. CASE Call(p) \/ CallAsync(p) \/ CallBackground(p) \/ _create_process(p)
      BY <2>2, <2>3, <3>3, CallDelegates, CallAsyncSpawns, CallBackgroundSpawns,
         CreateProcessSpawns
    <3>4. CASE \/ \E f \in Task : AwaitComplete(p, f) \/ AwaitIncomplete(p, f)
               \/ StartTask(p) \/ Return(p) \/ InsertDependent(p) \/ SetWaiting(p)
               \/ AssertFails(p)
      BY <1>1, <3>4 DEF AwaitComplete, AwaitIncomplete, StartTask, Return, InsertDependent,
         SetWaiting, AssertFails, threadVars, ThreadTypeOK
    <3> QED BY <2>4, <3>2, <3>3, <3>4 DEF vm_execute_task
  <2>5. ASSUME NEW u \in Thread, _mark_task_complete(u), ~EnqueueDependent(th)
        PROVE  pc[th] = "unwait" /\ cur'[th] = cur[th] /\ dep'[th] = dep[th]
    <3>1. CASE Broadcast(u)
      BY <1>1, <3>1 DEF Broadcast, ThreadTypeOK
    <3>2. CASE ~Broadcast(u)
      BY <1>1, <2>5, <3>2 DEF _mark_task_complete, process_mark_task_complete, VisitDependent,
         AllVisited, DeliverResult, EnqueueDependent, process_remove_waiting_task, Next_task,
         ThreadTypeOK
    <3> QED BY <3>1, <3>2
  <2>6. ASSUME NEW p \in Process, process_run(p) \/ SpuriousWakeup(p), ~EnqueueDependent(th)
        PROVE  pc[th] = "unwait" /\ cur'[th] = cur[th] /\ dep'[th] = dep[th]
    <3>1. CASE \/ QueueEmpty(p) \/ _process_is_done(p) \/ CountWaiting(p) \/ CheckWaiting(p)
               \/ SpuriousWakeup(p) \/ process_insert_waiting_task(p) \/ TellParent(p)
               \/ process_pop_task(p)
      BY <1>1, <3>1 DEF QueueEmpty, _process_is_done, CountWaiting, CheckWaiting,
         SpuriousWakeup, process_insert_waiting_task, TellParent, process_pop_task, Next_task,
         allButPc, ThreadTypeOK
    <3> QED BY <2>4, <2>5, <2>6, <3>1 DEF process_run
  <2>7. ASSUME NEW w \in Worker, RunWorker(w), ~EnqueueDependent(th)
        PROVE  pc[th] = "unwait" /\ cur'[th] = cur[th] /\ dep'[th] = dep[th]
    <3>1. CASE \/ StartWork(w) \/ _execute_in_background_callback(w)
               \/ \E k \in {"val", "err"} : _execute_in_background(w, k)
      BY <1>1, <3>1 DEF StartWork, _execute_in_background_callback, _execute_in_background,
         ThreadTypeOK
    <3> QED BY <2>5, <2>7, <3>1 DEF RunWorker
  <2>8. CASE vm_delete \/ UNCHANGED vars
    BY <1>1, <2>8 DEF vm_delete, vars, threadVars
  <2> QED BY <2>6, <2>7, <2>8 DEF Next
<1>2. ASSUME NEW th \in Thread, EnqueueDependent(th) PROVE Resumed(dep[th], cur[th])'
  <2>1. PICK d \in Task : d = dep[th] /\ parent_process[d] \in Process
    BY <1>2, InHand DEF EnqueueDependent, StateOfToken, Created
  <2>2. dep'[th] = d
    BY <1>2, <2>1 DEF EnqueueDependent
  <2>3. Queued(d)'
    BY <1>2, <2>1, EnqueueElements DEF EnqueueDependent
  <2> QED BY <2>2, <2>3 DEF Resumed
<1>3. ASSUME NEW th \in Thread, pc[th] = "unwait", cur'[th] = cur[th], dep'[th] = dep[th]
      PROVE  Resumed(dep[th], cur[th])'
  <2>1. PICK d \in Task, c \in Task : d = dep[th] /\ c = cur[th] /\ state[c] \in Finished
    BY <1>3, InHand DEF StateOfToken
  <2>2. Resumed(d, c)
    BY <1>3, <2>1 DEF Requeued
  <2>3. Resumed(d, c)'
    BY <2>1, <2>2, ResumedStep
  <2>4. dep'[th] = d /\ cur'[th] = c
    BY <1>3, <2>1
  <2> QED BY <2>3, <2>4 DEF Resumed
<1>4. ASSUME NEW th \in Thread, pc'[th] = "unwait" PROVE Resumed(dep[th], cur[th])'
  BY <1>1, <1>2, <1>3, <1>4
<1> QED BY <1>4 DEF Requeued

\* Only process_remove_waiting_task takes a task out of a waiting set.
LEMMA WaitingTasksLeave ==
    ASSUME TypeOK, [Next]_vars, NEW p \in Process, NEW t \in waiting_tasks[p],
           t \notin waiting_tasks'[p]
    PROVE  \E th \in Thread : process_remove_waiting_task(th) /\ t = dep[th]
<1> USE Basics DEF TypeOK, ProcessTypeOK
<1>1. CASE UNCHANGED waiting_tasks
  BY <1>1
<1>2. ASSUME NEW q \in Process, vm_execute_task(q) PROVE UNCHANGED waiting_tasks
  BY <1>2 DEF vm_execute_task, StartTask, AssertFails, StartWithError, NoticeError, Raise,
     Caught, Uncaught, Call, CallAsync, CallBackground, _create_process, AwaitComplete,
     AwaitIncomplete, InsertDependent, SetWaiting, Return, setVars
<1>3. ASSUME NEW u \in Thread, _mark_task_complete(u), ~process_remove_waiting_task(u)
      PROVE  UNCHANGED waiting_tasks
  BY <1>3 DEF _mark_task_complete, process_mark_task_complete, VisitDependent, AllVisited,
     DeliverResult, EnqueueDependent, Broadcast, setVars
<1>4. ASSUME NEW u \in Thread, process_remove_waiting_task(u) PROVE t = dep[u]
  BY <1>4 DEF process_remove_waiting_task
<1>5. ASSUME NEW q \in Process, process_insert_waiting_task(q) PROVE FALSE
  BY <1>5 DEF process_insert_waiting_task
<1>6. ASSUME NEW q \in Process, process_run(q) \/ SpuriousWakeup(q)
      PROVE  UNCHANGED waiting_tasks \/ process_remove_waiting_task(q)
  BY <1>2, <1>3, <1>5, <1>6 DEF process_run, SpuriousWakeup, process_pop_task, QueueEmpty,
     TellParent, _process_is_done, CountWaiting, CheckWaiting, setVars, allButPc
<1>7. ASSUME NEW w \in Worker, RunWorker(w)
      PROVE  UNCHANGED waiting_tasks \/ process_remove_waiting_task(w)
  BY <1>3, <1>7 DEF RunWorker, StartWork, _execute_in_background,
     _execute_in_background_callback, setVars
<1>8. CASE vm_delete \/ UNCHANGED vars
  BY <1>1, <1>8 DEF vm_delete, vars, setVars
<1> QED BY <1>1, <1>4, <1>6, <1>7, <1>8 DEF Next

\* Whatever operations a program uses, a task that waits is taken out of the
\* waiting set only after it was put into the queue for the task it waits for:
\* _mark_task_complete queues a dependent before it removes it.
THEOREM WaitersLeaveWhenQueued == Spec => LeavesWhenQueued
<1> DEFINE Leaves ==
      \A p \in Process : \A t \in waiting_tasks[p] \ waiting_tasks'[p] :
         \/ state[t] # "TASK_WAITING" \/ InQueue(p, t)
         \/ \E q \in Process : cur[q] = t /\ pc[q] = "start"
         \/ \E th \in Thread : pc'[th] # pc[th] /\ dep[th] = t /\ awaits[t] # cur[th]
<1>1. Init => Requeued
  BY Basics DEF Init, Requeued
<1>2. ASSUME TypeOK, TokenInv, Requeued, [Next]_vars PROVE Leaves
  <2> USE Labels, Basics DEF TypeOK, TokenInv
  <2> SUFFICES ASSUME NEW p \in Process, NEW t \in waiting_tasks[p], t \notin waiting_tasks'[p]
               PROVE  \/ state[t] # "TASK_WAITING" \/ InQueue(p, t)
                      \/ \E q \in Process : cur[q] = t /\ pc[q] = "start"
                      \/ \E th \in Thread : pc'[th] # pc[th] /\ dep[th] = t /\ awaits[t] # cur[th]
    OBVIOUS
  <2>1. PICK th \in Thread : process_remove_waiting_task(th) /\ t = dep[th]
    BY <1>2, WaitingTasksLeave
  <2>2. /\ pc[th] = "unwait" /\ pc'[th] # pc[th] /\ Resumed(t, cur[th]) /\ t \in Task
        /\ parent_process[t] = p
    BY <1>2, <2>1, InHand DEF process_remove_waiting_task, At, Goto, Requeued, ThreadTypeOK,
       ProcessTypeOK
  <2>3. Queued(t) => InQueue(p, t)
    BY <1>2, <2>2, InQueueElements DEF Queued, OwnTasks
  <2>4. state[t] \in Finished => state[t] # "TASK_WAITING"
    OBVIOUS
  <2>5. \A q \in Process : cur[q] = t /\ pc[q] = "exec" => state[t] # "TASK_WAITING"
    BY <1>2 DEF StateOfToken
  <2> QED BY <2>1, <2>2, <2>3, <2>4, <2>5 DEF Resumed
<1>3. TypeOK /\ TokenInv /\ Requeued /\ [Next]_vars => Requeued'
  BY RequeuedStep
<1> QED BY <1>1, <1>2, <1>3, TokenCorrect, PTL DEF Spec, LeavesWhenQueued

\* The scheduler implements Tasks: process_run, _mark_task_complete and the
\* workers let a task that waits go on only after what it waits for is
\* finished, and never run a finished task again or change its result.
THEOREM SchedulerImplementsTasks == Spec => ImplementsTasks
<1> DEFINE phase == [t \in Task |-> CASE state[t] = "TASK_NEW" -> "none"
                                      [] state[t] = "TASK_RUNNING" -> "live"
                                      [] state[t] = "TASK_WAITING" -> "blocked"
                                      [] OTHER -> "done"]
           blockedOn == [t \in Task |-> IF state[t] = "TASK_WAITING" THEN awaits[t] ELSE NULL]
           result == [t \in Task |-> IF future_is_complete(t) THEN <<resval[t]>> ELSE <<>>]
<1>1. Init => Abstract!TasksInit
  BY DEF Init, Abstract!TasksInit, future_is_complete
<1>2. ASSUME TypeOK, TokenInv, TypeOK', [Next]_vars PROVE Abstract!TasksNext
  <2>1. ASSUME NEW t \in Task
        PROVE  /\ phase[t] = IF state[t] = "TASK_NEW" THEN "none"
                             ELSE IF state[t] = "TASK_RUNNING" THEN "live"
                             ELSE IF state[t] = "TASK_WAITING" THEN "blocked" ELSE "done"
               /\ phase'[t] = IF state'[t] = "TASK_NEW" THEN "none"
                              ELSE IF state'[t] = "TASK_RUNNING" THEN "live"
                              ELSE IF state'[t] = "TASK_WAITING" THEN "blocked" ELSE "done"
               /\ blockedOn[t] = IF state[t] = "TASK_WAITING" THEN awaits[t] ELSE NULL
               /\ blockedOn'[t] = IF state'[t] = "TASK_WAITING" THEN awaits'[t] ELSE NULL
               /\ result[t] = IF state[t] \in Finished THEN <<resval[t]>> ELSE <<>>
               /\ result'[t] = IF state'[t] \in Finished THEN <<resval'[t]>> ELSE <<>>
    BY <2>1 DEF future_is_complete, Finished
  <2> HIDE DEF phase, blockedOn, result
  <2>2. ASSUME NEW t \in Task
        PROVE  \/ Abstract!Rests(t) \/ Abstract!Begins(t) \/ Abstract!Blocks(t)
               \/ Abstract!Resumes(t) \/ Abstract!Ends(t)
    <3>1. Life(t) /\ state[t] \in TaskState /\ state'[t] \in TaskState
      BY <1>2, <2>2, LifeOfTask DEF TypeOK, TaskTypeOK
    <3> USE DEF phase, blockedOn, result
    <3> QED BY <2>1, <2>2, <3>1, Labels DEF Life, MayGoOn, Done, TaskState, Abstract!Rests,
         Abstract!Begins, Abstract!Blocks, Abstract!Resumes, Abstract!Ends, Abstract!MayResume
  <2> QED BY <2>2 DEF Abstract!TasksNext
<1> QED BY <1>1, <1>2, TokenCorrect, TypeCorrect, PTL DEF ImplementsTasks, Abstract!TasksSpec,
     Spec
=============================================================================
