-------------------------- MODULE ThreadPoolProofs --------------------------
(* Proofs about the background pool, for any finite set of workers and any *)
(* set of work.                                                            *)
EXTENDS ThreadPool, FiniteSetTheorems, TLAPS

\* Taking the head off a non-empty queue leaves a queue shorter by one.
LEMMA HeadTail ==
    ASSUME NEW S, NEW q \in Seq(S), q # <<>>
    PROVE  /\ Head(q) \in S
           /\ Head(q) = q[1]
           /\ Tail(q) \in Seq(S)
           /\ Len(Tail(q)) = Len(q) - 1
           /\ Len(q) \in Nat \ {0}
           /\ \A i \in 1..Len(Tail(q)) : Tail(q)[i] = q[i + 1]
  OBVIOUS

-----------------------------------------------------------------------------
\* The types are only kept together with the pointer discipline of w: the
\* callback adds w[t] to finished, so w[t] must be work and not NoWork.
TypeInv == TypeOK /\ NoStaleWork

LEMMA TypeInvStep == TypeInv /\ [Next]_vars => TypeInv'
<1> SUFFICES ASSUME TypeInv, [Next]_vars PROVE TypeInv'
  OBVIOUS
<1> USE PoolAssumption DEF TypeInv, TypeOK, NoStaleWork
<1>1. ASSUME NEW x \in Work, threadpool_execute(x) PROVE TypeInv'
  BY <1>1 DEF threadpool_execute
<1>2. ASSUME NEW t \in Worker, SemaphoreWait(t) PROVE TypeInv'
  BY <1>2 DEF SemaphoreWait
<1>3. ASSUME NEW t \in Worker, TakeWork(t) PROVE TypeInv'
  <2>1. CASE work # <<>>
    <3>1. Head(work) \in Work /\ Tail(work) \in Seq(Work)
      BY <2>1, HeadTail
    <3> QED BY <1>3, <2>1, <3>1 DEF TakeWork
  <2>2. CASE work = <<>>
    BY <1>3, <2>2 DEF TakeWork
  <2> QED BY <2>1, <2>2
<1>4. ASSUME NEW t \in Worker, RunFn(t) PROVE TypeInv'
  BY <1>4 DEF RunFn
<1>5. ASSUME NEW t \in Worker, RunCallback(t) PROVE TypeInv'
  BY <1>5 DEF RunCallback
<1>6. CASE UNCHANGED vars
  BY <1>6 DEF vars
<1> QED BY <1>1, <1>2, <1>3, <1>4, <1>5, <1>6 DEF Next, _do_work

LEMMA TypeInvariance == Spec => []TypeInv
<1>1. threadpool_create => TypeInv
  BY DEF threadpool_create, TypeInv, TypeOK, NoStaleWork
<1> QED BY <1>1, TypeInvStep, PTL DEF Spec

\* Every step of _do_work and threadpool_execute keeps the variables' types.
THEOREM TypeCorrect == Spec => []TypeOK
BY TypeInvariance, PTL DEF TypeInv

\* The local variable w of _do_work is NULL exactly when the worker holds no
\* work, so no piece is run a second time when the queue is found empty.
THEOREM NoWorkIsStale == Spec => []NoStaleWork
BY TypeInvariance, PTL DEF TypeInv
-----------------------------------------------------------------------------
\* Adding a worker to, or removing one from, the workers that have consumed
\* a unit of the semaphore changes their number by one.
LEMMA TakingCount ==
    ASSUME NEW t \in Worker, NEW S \in SUBSET Worker
    PROVE  /\ Cardinality(S) \in Nat
           /\ t \notin S => Cardinality(S \cup {t}) = Cardinality(S) + 1
           /\ t \in S => Cardinality(S \ {t}) = Cardinality(S) - 1
<1>1. IsFiniteSet(S)
  BY PoolAssumption, FS_Subset
<1> QED BY <1>1, FS_CardinalityType, FS_AddElement, FS_RemoveElement

LEMMA SemMatchesWorkStep ==
    TypeInv /\ SemMatchesWork /\ [Next]_vars => SemMatchesWork'
<1> SUFFICES ASSUME TypeInv, SemMatchesWork, [Next]_vars PROVE SemMatchesWork'
  OBVIOUS
<1> USE DEF TypeInv, TypeOK, SemMatchesWork
<1>0. Taking \in SUBSET Worker
  BY DEF Taking
<1>1. ASSUME NEW x \in Work, threadpool_execute(x) PROVE SemMatchesWork'
  <2>1. Taking' = Taking
    BY <1>1 DEF threadpool_execute, Taking
  <2>2. Cardinality(Taking) \in Nat
    BY <1>0, PoolAssumption, FS_Subset, FS_CardinalityType
  <2>3. Len(work') = Len(work) + 1 /\ Len(work) \in Nat
    BY <1>1 DEF threadpool_execute
  <2>4. thread_sem' = thread_sem + 1
    BY <1>1 DEF threadpool_execute
  <2> QED BY <2>1, <2>2, <2>3, <2>4
<1>2. ASSUME NEW t \in Worker, SemaphoreWait(t) PROVE SemMatchesWork'
  <2>1. t \notin Taking /\ Taking' = Taking \cup {t}
    BY <1>2 DEF SemaphoreWait, Taking
  <2>2. Cardinality(Taking') = Cardinality(Taking) + 1 /\ Cardinality(Taking) \in Nat
    BY <1>0, <2>1, TakingCount
  <2> QED BY <1>2, <2>2 DEF SemaphoreWait
<1>3. ASSUME NEW t \in Worker, TakeWork(t) PROVE SemMatchesWork'
  <2>1. t \in Taking /\ Taking' = Taking \ {t}
    BY <1>3 DEF TakeWork, Taking
  <2>2. Cardinality(Taking') = Cardinality(Taking) - 1 /\ Cardinality(Taking) \in Nat
    BY <1>0, <2>1, TakingCount
  <2>3. CASE work # <<>>
    <3>1. Len(Tail(work)) = Len(work) - 1
      BY <2>3, HeadTail
    <3> QED BY <1>3, <2>2, <2>3, <3>1 DEF TakeWork
  <2>4. CASE work = <<>>
    BY <1>3, <2>2, <2>4 DEF TakeWork
  <2> QED BY <2>3, <2>4
<1>4. ASSUME NEW t \in Worker, RunFn(t) PROVE SemMatchesWork'
  <2>1. Taking' = Taking
    BY <1>4 DEF RunFn, Taking
  <2> QED BY <1>4, <2>1 DEF RunFn
<1>5. ASSUME NEW t \in Worker, RunCallback(t) PROVE SemMatchesWork'
  <2>1. Taking' = Taking
    BY <1>5 DEF RunCallback, Taking
  <2> QED BY <1>5, <2>1 DEF RunCallback
<1>6. CASE UNCHANGED vars
  BY <1>6 DEF vars, Taking
<1> QED BY <1>1, <1>2, <1>3, <1>4, <1>5, <1>6 DEF Next, _do_work

\* The semaphore never drifts from the queue: its value and the workers that
\* have consumed a unit account for every queued piece.
THEOREM SemaphoreMatches == Spec => []SemMatchesWork
<1>1. threadpool_create => SemMatchesWork
  <2> SUFFICES ASSUME threadpool_create PROVE SemMatchesWork
    OBVIOUS
  <2>1. Taking = {}
    BY DEF threadpool_create, Taking
  <2> QED BY <2>1, FS_EmptySet DEF threadpool_create, SemMatchesWork
<1> QED BY <1>1, SemMatchesWorkStep, TypeInvariance, PTL DEF Spec
-----------------------------------------------------------------------------
LEMMA OnePlaceStep == TypeInv /\ OnePlace /\ [Next]_vars => OnePlace'
<1> SUFFICES ASSUME TypeInv, OnePlace, [Next]_vars PROVE OnePlace'
  OBVIOUS
<1> USE PoolAssumption DEF TypeInv, TypeOK
<1>1. ASSUME NEW x \in Work, threadpool_execute(x) PROVE OnePlace'
  <2>1. Len(work') = Len(work) + 1 /\ Len(work) \in Nat
    BY <1>1 DEF threadpool_execute
  <2>2. /\ \A i \in 1..Len(work) : work'[i] = work[i]
        /\ work'[Len(work) + 1] = x
    BY <1>1 DEF threadpool_execute
  <2>3. Queued' = Queued \cup {x}
    BY <2>1, <2>2 DEF Queued
  <2>4. Busy' = Busy /\ InHand' = InHand /\ finished' = finished /\ w' = w
    BY <1>1 DEF threadpool_execute, Busy, InHand
  <2>5. submitted' = submitted \cup {x} /\ x \notin submitted
    BY <1>1 DEF threadpool_execute
  <2>6. x \notin Queued \cup InHand \cup finished
    BY <2>5 DEF OnePlace
  <2>7. \A i, j \in 1..Len(work') : work'[i] = work'[j] => i = j
    <3>1. \A i \in 1..Len(work) : work[i] # x
      BY <2>6 DEF Queued
    <3>2. \A i \in 1..Len(work') : i \in 1..Len(work) \/ i = Len(work) + 1
      BY <2>1
    <3>3. \A i, j \in 1..Len(work) : work[i] = work[j] => i = j
      BY DEF OnePlace
    <3> QED BY <2>2, <3>1, <3>2, <3>3
  <2> QED BY <2>3, <2>4, <2>5, <2>6, <2>7 DEF OnePlace
<1>2. ASSUME NEW t \in Worker, SemaphoreWait(t) PROVE OnePlace'
  <2>1. Busy' = Busy /\ w' = w /\ work' = work
    BY <1>2 DEF SemaphoreWait, Busy
  <2>2. InHand' = InHand /\ Queued' = Queued
    BY <2>1 DEF InHand, Queued
  <2> QED BY <1>2, <2>1, <2>2 DEF SemaphoreWait, OnePlace
<1>3. ASSUME NEW t \in Worker, TakeWork(t) PROVE OnePlace'
  <2>1. CASE work = <<>>
    <3>1. w' = w /\ work' = work /\ submitted' = submitted /\ finished' = finished
      BY <1>3, <2>1 DEF TakeWork
    <3>2. Busy' = Busy
      BY <1>3, <2>1 DEF TakeWork, Busy, NoStaleWork
    <3>3. InHand' = InHand /\ Queued' = Queued
      BY <3>1, <3>2 DEF InHand, Queued
    <3> QED BY <3>1, <3>2, <3>3 DEF OnePlace
  <2>2. CASE work # <<>>
    <3> DEFINE x == Head(work)
    <3>1. /\ x \in Work /\ x = work[1]
          /\ Len(work') = Len(work) - 1
          /\ Len(work) \in Nat \ {0}
          /\ \A i \in 1..Len(work') : work'[i] = work[i + 1]
      BY <1>3, <2>2, HeadTail DEF TakeWork
    <3>2. \A i, j \in 1..Len(work) : work[i] = work[j] => i = j
      BY DEF OnePlace
    <3>3. Queued' = Queued \ {x} /\ x \in Queued
      <4>1. x \in Queued
        BY <3>1 DEF Queued
      <4>2. ASSUME NEW i \in 1..Len(work') PROVE work'[i] \in Queued \ {x}
        <5>1. i + 1 \in 1..Len(work) /\ 1 \in 1..Len(work) /\ i + 1 # 1
          BY <3>1
        <5>2. work[i + 1] # work[1]
          BY <3>2, <5>1
        <5> QED BY <3>1, <5>1, <5>2 DEF Queued
      <4>3. ASSUME NEW j \in 1..Len(work), work[j] # x
            PROVE \E i \in 1..Len(work') : work'[i] = work[j]
        <5>1. j - 1 \in 1..Len(work') /\ (j - 1) + 1 = j
          BY <3>1, <4>3
        <5> QED BY <3>1, <5>1
      <4> QED BY <4>1, <4>2, <4>3 DEF Queued
    <3>4. /\ w' = [w EXCEPT ![t] = x]
          /\ pc' = [pc EXCEPT ![t] = "fn"]
          /\ pc[t] = "take"
          /\ submitted' = submitted /\ finished' = finished
      BY <1>3, <2>2, <3>1 DEF TakeWork
    <3>5. t \notin Busy /\ Busy' = Busy \cup {t}
      BY <3>4 DEF Busy
    <3>6. InHand' = InHand \cup {x}
      BY <3>4, <3>5 DEF InHand, Busy
    <3>7. \A i, j \in 1..Len(work') : work'[i] = work'[j] => i = j
      BY <3>1, <3>2
    <3>8. x \notin InHand /\ x \notin finished
      BY <3>3 DEF OnePlace
    <3>9. \A u \in Busy : w'[u] = w[u] /\ w[u] # x
      BY <3>4, <3>5, <3>8 DEF InHand, Busy
    <3>10. \A u, v \in Busy' : w'[u] = w'[v] => u = v
      BY <3>4, <3>5, <3>9 DEF OnePlace
    <3> QED BY <3>3, <3>4, <3>6, <3>7, <3>8, <3>10 DEF OnePlace
  <2> QED BY <2>1, <2>2
<1>4. ASSUME NEW t \in Worker, RunFn(t) PROVE OnePlace'
  <2>1. Busy' = Busy /\ w' = w /\ work' = work
    BY <1>4 DEF RunFn, Busy
  <2>2. InHand' = InHand /\ Queued' = Queued
    BY <2>1 DEF InHand, Queued
  <2> QED BY <1>4, <2>1, <2>2 DEF RunFn, OnePlace
<1>5. ASSUME NEW t \in Worker, RunCallback(t) PROVE OnePlace'
  <2>1. /\ t \in Busy /\ Busy' = Busy \ {t}
        /\ \A u \in Busy' : w'[u] = w[u]
    BY <1>5 DEF RunCallback, Busy
  <2>2. Queued' = Queued /\ submitted' = submitted /\ work' = work
    BY <1>5 DEF RunCallback, Queued
  <2>3. \A u \in Busy \ {t} : w[u] # w[t]
    BY <2>1 DEF OnePlace
  <2>4. InHand' = InHand \ {w[t]} /\ w[t] \in InHand
    BY <2>1, <2>3 DEF InHand
  <2>5. finished' = finished \cup {w[t]}
    BY <1>5 DEF RunCallback
  <2>6. \A u, v \in Busy' : w'[u] = w'[v] => u = v
    BY <2>1 DEF OnePlace
  <2> QED BY <2>2, <2>4, <2>5, <2>6 DEF OnePlace
<1>6. CASE UNCHANGED vars
  BY <1>6 DEF vars, OnePlace, Queued, InHand, Busy
<1> QED BY <1>1, <1>2, <1>3, <1>4, <1>5, <1>6 DEF Next, _do_work

LEMMA OnePlaceInit == threadpool_create => OnePlace
<1> SUFFICES ASSUME threadpool_create PROVE OnePlace
  OBVIOUS
<1>1. Queued = {} /\ Busy = {} /\ InHand = {}
  BY DEF threadpool_create, Queued, Busy, InHand
<1> QED BY <1>1 DEF threadpool_create, OnePlace

\* No piece of work is lost, run twice or freed twice.
THEOREM WorkInOnePlace == Spec => []OnePlace
BY OnePlaceInit, OnePlaceStep, TypeInvariance, PTL DEF Spec
-----------------------------------------------------------------------------
\* A worker about to look into the queue is not busy, so fewer than
\* Cardinality(Worker) pieces are in hand.
LEMMA RoomForOneMore ==
    ASSUME TypeInv, NEW t \in Worker, pc[t] = "take"
    PROVE  Cardinality(InHand) < Cardinality(Worker)
<1>1. Busy \in SUBSET (Worker \ {t})
  BY DEF Busy, TypeInv, TypeOK
<1>2. /\ IsFiniteSet(Worker \ {t})
      /\ Cardinality(Worker \ {t}) = Cardinality(Worker) - 1
      /\ Cardinality(Worker) \in Nat
  BY PoolAssumption, FS_RemoveElement, FS_CardinalityType
<1>3. IsFiniteSet(Busy) /\ Cardinality(Busy) <= Cardinality(Worker) - 1
  BY <1>1, <1>2, FS_Subset
<1>4. [u \in Busy |-> w[u]] \in Surjection(Busy, InHand)
  BY DEF InHand, Surjection
<1>5. IsFiniteSet(InHand) /\ Cardinality(InHand) <= Cardinality(Busy)
  BY <1>3, <1>4, FS_Surjection
<1>6. Cardinality(InHand) \in Nat /\ Cardinality(Busy) \in Nat
  BY <1>3, <1>5, FS_CardinalityType
<1> QED BY <1>2, <1>3, <1>5, <1>6

\* The pieces in a function and the pieces in a callback.
InFn == {w[t] : t \in {u \in Worker : pc[u] = "fn"}}
InCallback == {w[t] : t \in {u \in Worker : pc[u] = "callback"}}

\* The instance's Cardinality is the one of FiniteSets.
LEMMA SameCardinality == \A S : Abstract!Cardinality(S) = Cardinality(S)
BY DEF Abstract!Cardinality, Cardinality, Abstract!IsFiniteSet, IsFiniteSet

LEMMA StepSimulation ==
    TypeInv /\ OnePlace /\ [Next]_vars => [Abstract!WQNext]_(Abstract!wqVars)
<1> SUFFICES ASSUME TypeInv, OnePlace, [Next]_vars
             PROVE  [Abstract!WQNext]_(Abstract!wqVars)
  OBVIOUS
<1> USE PoolAssumption DEF TypeInv, TypeOK
<1>1. ASSUME NEW x \in Work, threadpool_execute(x) PROVE Abstract!Submit(x)
  BY <1>1 DEF threadpool_execute, Abstract!Submit
<1>2. ASSUME NEW t \in Worker, SemaphoreWait(t) PROVE UNCHANGED Abstract!wqVars
  <2>1. InFn' = InFn /\ InCallback' = InCallback
    BY <1>2 DEF SemaphoreWait, InFn, InCallback
  <2> QED BY <1>2, <2>1 DEF SemaphoreWait, InFn, InCallback, Abstract!wqVars
<1>3. ASSUME NEW t \in Worker, TakeWork(t)
      PROVE  Abstract!Start \/ UNCHANGED Abstract!wqVars
  <2>1. CASE work = <<>>
    <3>1. w' = w /\ \A u \in Worker : pc[u] \in {"fn", "callback"} \/ pc'[u] \in {"fn", "callback"}
                                        => pc'[u] = pc[u]
      BY <1>3, <2>1 DEF TakeWork, NoStaleWork
    <3>2. InFn' = InFn /\ InCallback' = InCallback
      BY <1>3, <3>1 DEF InFn, InCallback, TakeWork
    <3> QED BY <1>3, <2>1, <3>2 DEF TakeWork, InFn, InCallback, Abstract!wqVars
  <2>2. CASE work # <<>>
    <3>1. Head(work) \in Work
      BY <2>2, HeadTail
    <3>2. /\ w' = [w EXCEPT ![t] = Head(work)]
          /\ pc' = [pc EXCEPT ![t] = "fn"]
          /\ pc[t] = "take"
      BY <1>3, <2>2, <3>1 DEF TakeWork
    <3>3. InFn' = InFn \cup {Head(work)} /\ InCallback' = InCallback
      BY <3>2 DEF InFn, InCallback
    <3>4. InFn \cup InCallback = InHand
      BY DEF InFn, InCallback, InHand, Busy
    <3>5. Cardinality(InFn \cup InCallback) < Cardinality(Worker)
      BY <3>2, <3>4, RoomForOneMore
    <3> QED BY <1>3, <2>2, <3>3, <3>5, SameCardinality
            DEF TakeWork, InFn, InCallback, Abstract!Start
  <2> QED BY <2>1, <2>2
<1>4. ASSUME NEW t \in Worker, NEW x \in Work, x = w[t], RunFn(t)
      PROVE  Abstract!Return(x)
  <2>1. \A u \in Worker : pc[u] = "fn" /\ u # t => w[u] # w[t]
    BY <1>4 DEF RunFn, OnePlace, Busy
  <2>2. w[t] \in InFn /\ InFn' = InFn \ {w[t]} /\ InCallback' = InCallback \cup {w[t]}
    BY <1>4, <2>1 DEF RunFn, InFn, InCallback
  <2> QED BY <1>4, <2>2 DEF RunFn, InFn, InCallback, Abstract!Return
<1>5. ASSUME NEW t \in Worker, NEW x \in Work, x = w[t], RunCallback(t)
      PROVE  Abstract!Finish(x)
  <2>1. \A u \in Worker : pc[u] = "callback" /\ u # t => w[u] # w[t]
    BY <1>5 DEF RunCallback, OnePlace, Busy
  <2>2. /\ w[t] \in InCallback
        /\ InCallback' = InCallback \ {w[t]}
        /\ InFn' = InFn
    BY <1>5, <2>1 DEF RunCallback, InFn, InCallback
  <2> QED BY <1>5, <2>2 DEF RunCallback, InFn, InCallback, Abstract!Finish
<1>6. ASSUME UNCHANGED vars PROVE UNCHANGED Abstract!wqVars
  BY <1>6 DEF vars, Abstract!wqVars
<1>7. \A t \in Worker : pc[t] \in {"fn", "callback"} => w[t] \in Work
  BY DEF NoStaleWork
<1>8. CASE \E x \in Work : threadpool_execute(x)
  BY <1>1, <1>8 DEF Abstract!WQNext
<1>9. ASSUME NEW t \in Worker, _do_work(t)
       PROVE  [Abstract!WQNext]_(Abstract!wqVars)
  <2>1. CASE RunFn(t)
    <3>1. PICK x \in Work : x = w[t]
      BY <1>7, <2>1 DEF RunFn
    <3> QED BY <1>4, <2>1, <3>1 DEF Abstract!WQNext
  <2>2. CASE RunCallback(t)
    <3>1. PICK x \in Work : x = w[t]
      BY <1>7, <2>2 DEF RunCallback
    <3> QED BY <1>5, <2>2, <3>1 DEF Abstract!WQNext
  <2> QED BY <1>2, <1>3, <1>9, <2>1, <2>2 DEF _do_work, Abstract!WQNext
<1> QED BY <1>6, <1>8, <1>9 DEF Next

\* Every behaviour of the pool is one of the abstract work queue: work starts
\* in the order of submission, at most one piece per worker at a time, and
\* its callback runs once, after its function.
THEOREM PoolImplementsWorkQueue == Spec => ImplementsWorkQueue
<1>1. threadpool_create => Abstract!WQInit
  <2> SUFFICES ASSUME threadpool_create PROVE Abstract!WQInit
    OBVIOUS
  <2>1. InFn = {} /\ InCallback = {}
    BY DEF threadpool_create, InFn, InCallback
  <2> QED BY <2>1 DEF threadpool_create, Abstract!WQInit, InFn, InCallback
<1> QED BY <1>1, StepSimulation, TypeInvariance, WorkInOnePlace, PTL
        DEF Spec, ImplementsWorkQueue, Abstract!WQSpec
=============================================================================
