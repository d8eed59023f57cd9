----------------------------- MODULE ThreadPool -----------------------------
(***************************************************************************)
(* The background pool of util/sync/threadpool.c: a counting semaphore, a   *)
(* mutex-protected queue of work and Worker threads that loop in _do_work.  *)
(* A SYNCHRONIZED block is one step: every access to the queue is made      *)
(* under work_mutex.  Waiting on the semaphore, the critical section, the   *)
(* function and the callback are separate steps of a worker.                *)
(*                                                                         *)
(* threadpool_delete belongs to the shutdown of the VM and is not here.    *)
(***************************************************************************)
EXTENDS Naturals, Sequences, FiniteSets

CONSTANTS Worker,   \* the threads threadpool_create starts
          Work,     \* the work clients submit, each piece allocated once
          NoWork    \* the NULL of the local variable w of _do_work

ASSUME PoolAssumption ==
    /\ IsFiniteSet(Worker)
    /\ NoWork \notin Work

VARIABLES thread_sem,  \* the value of the semaphore
          work,        \* the queue of submitted work
          pc,          \* where each worker stands in _do_work
          w,           \* the local variable w of each worker
          submitted,   \* the work threadpool_execute has been called with
          finished     \* the work whose callback has returned

vars == <<thread_sem, work, pc, w, submitted, finished>>

threadpool_create ==
    /\ thread_sem = 0
    /\ work = <<>>
    /\ pc = [t \in Worker |-> "wait"]
    /\ w = [t \in Worker |-> NoWork]
    /\ submitted = {}
    /\ finished = {}

\* Mutant: wakes a worker only when the queue was empty.
PostOnlyWhenEmpty(x) ==
    /\ x \notin submitted
    /\ submitted' = submitted \cup {x}
    /\ work' = Append(work, x)
    /\ thread_sem' = IF work = <<>> THEN thread_sem + 1 ELSE thread_sem
    /\ UNCHANGED <<pc, w, finished>>

\* A client hands over a piece of work.
threadpool_execute(x) ==
    /\ x \notin submitted
    /\ submitted' = submitted \cup {x}
    /\ work' = Append(work, x)
    /\ thread_sem' = thread_sem + 1
    /\ UNCHANGED <<pc, w, finished>>

\* Mutant: takes a unit without waiting for one.
WaitWithoutBlocking(t) ==
    /\ pc[t] = "wait"
    /\ work # <<>>
    /\ thread_sem' = thread_sem - 1
    /\ pc' = [pc EXCEPT ![t] = "take"]
    /\ UNCHANGED <<work, w, submitted, finished>>

\* sem_wait: blocks while the value is 0.
SemaphoreWait(t) ==
    /\ pc[t] = "wait"
    /\ thread_sem > 0
    /\ thread_sem' = thread_sem - 1
    /\ pc' = [pc EXCEPT ![t] = "take"]
    /\ UNCHANGED <<work, w, submitted, finished>>

\* Mutant: looks at the oldest piece without removing it.
PeekWork(t) ==
    /\ pc[t] = "take"
    /\ work # <<>>
    /\ w' = [w EXCEPT ![t] = Head(work)]
    /\ pc' = [pc EXCEPT ![t] = "fn"]
    /\ UNCHANGED <<thread_sem, work, submitted, finished>>

\* Mutant: serves the queue from the wrong end.
TakeNewest(t) ==
    /\ pc[t] = "take"
    /\ work # <<>>
    /\ w' = [w EXCEPT ![t] = work[Len(work)]]
    /\ work' = SubSeq(work, 1, Len(work) - 1)
    /\ pc' = [pc EXCEPT ![t] = "fn"]
    /\ UNCHANGED <<thread_sem, submitted, finished>>

\* The critical section of _do_work, and the test of w that follows it.
TakeWork(t) ==
    /\ pc[t] = "take"
    /\ IF work # <<>>
       THEN /\ w' = [w EXCEPT ![t] = Head(work)]
            /\ work' = Tail(work)
            /\ UNCHANGED thread_sem
       ELSE /\ thread_sem' = thread_sem + 1
            /\ UNCHANGED <<w, work>>
    /\ pc' = [pc EXCEPT ![t] = IF w'[t] # NoWork THEN "fn" ELSE "wait"]
    /\ UNCHANGED <<submitted, finished>>

RunFn(t) ==
    /\ pc[t] = "fn"
    /\ pc' = [pc EXCEPT ![t] = "callback"]
    /\ UNCHANGED <<thread_sem, work, w, submitted, finished>>

\* Mutant: keeps the pointer to the released work.
CallbackKeepsPointer(t) ==
    /\ pc[t] = "callback"
    /\ finished' = finished \cup {w[t]}
    /\ pc' = [pc EXCEPT ![t] = "wait"]
    /\ UNCHANGED <<thread_sem, work, w, submitted>>

\* The callback, the release of the work and the reset of w.
RunCallback(t) ==
    /\ pc[t] = "callback"
    /\ finished' = finished \cup {w[t]}
    /\ w' = [w EXCEPT ![t] = NoWork]
    /\ pc' = [pc EXCEPT ![t] = "wait"]
    /\ UNCHANGED <<thread_sem, work, submitted>>

_do_work(t) ==
    SemaphoreWait(t) \/ TakeWork(t) \/ RunFn(t) \/ RunCallback(t)

Next ==
    \/ \E x \in Work : threadpool_execute(x)
    \/ \E t \in Worker : _do_work(t)

Spec == threadpool_create /\ [][Next]_vars

\* A runnable worker is eventually scheduled, and the functions it runs
\* return.
FairSpec == Spec /\ \A t \in Worker : WF_vars(_do_work(t))
-----------------------------------------------------------------------------
Taking == {t \in Worker : pc[t] = "take"}
Busy == {t \in Worker : pc[t] \in {"fn", "callback"}}
Queued == {work[i] : i \in 1..Len(work)}
InHand == {w[t] : t \in Busy}

TypeOK ==
    /\ thread_sem \in Nat
    /\ work \in Seq(Work)
    /\ pc \in [Worker -> {"wait", "take", "fn", "callback"}]
    /\ w \in [Worker -> Work \cup {NoWork}]
    /\ submitted \subseteq Work
    /\ finished \subseteq Work

\* A unit of the semaphore, or a worker that has consumed one and not yet
\* taken its work, stands for each queued piece: no piece is left in the
\* queue with every worker blocked, and no worker finds the queue empty.
SemMatchesWork == thread_sem + Cardinality(Taking) = Len(work)

\* Submitted work is in exactly one place: queued once, in the hands of one
\* worker, or finished.  So no piece is lost, run twice or freed twice.
OnePlace ==
    /\ submitted = Queued \cup InHand \cup finished
    /\ Queued \cap (InHand \cup finished) = {}
    /\ InHand \cap finished = {}
    /\ \A i, j \in 1..Len(work) : work[i] = work[j] => i = j
    /\ \A t, u \in Busy : w[t] = w[u] => t = u

\* A worker that is about to look into the queue holds no earlier work in w:
\* otherwise an empty queue would make it run that work again (line 39 of
\* threadpool.c resets w for this).
NoStaleWork == \A t \in Worker : pc[t] \in {"wait", "take"} <=> w[t] = NoWork

\* Everything handed to the pool is carried out.
EverythingRuns == \A x \in Work : x \in submitted ~> x \in finished

\* The pool implements the abstract work queue.
Abstract == INSTANCE WorkQueue WITH
    Capacity <- Cardinality(Worker),
    pending <- work,
    running <- {w[t] : t \in {u \in Worker : pc[u] = "fn"}},
    returned <- {w[t] : t \in {u \in Worker : pc[u] = "callback"}}

\* Work is started in the order of submission, at most one piece per worker
\* at a time, and its callback runs once, after its function.
ImplementsWorkQueue == Abstract!WQSpec
=============================================================================
