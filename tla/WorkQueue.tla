----------------------------- MODULE WorkQueue ------------------------------
(***************************************************************************)
(* What the background pool of util/sync promises to its clients: every    *)
(* piece of work handed to it is started in the order of submission, at    *)
(* most Capacity pieces run at a time, and each one is carried out once:   *)
(* first its function, then its callback.                                  *)
(***************************************************************************)
EXTENDS Naturals, Sequences, FiniteSets

CONSTANTS Work,      \* the pieces of work clients may submit
          Capacity   \* how many may run at the same time

VARIABLES submitted,   \* the work handed to the pool so far
          pending,     \* submitted and not started, oldest first
          running,     \* started, function not yet returned
          returned,    \* function returned, callback still to run
          finished     \* callback has run

wqVars == <<submitted, pending, running, returned, finished>>

WQInit ==
    /\ submitted = {}
    /\ pending = <<>>
    /\ running = {}
    /\ returned = {}
    /\ finished = {}

Submit(x) ==
    /\ x \notin submitted
    /\ submitted' = submitted \cup {x}
    /\ pending' = Append(pending, x)
    /\ UNCHANGED <<running, returned, finished>>

Start ==
    /\ pending # <<>>
    /\ Cardinality(running \cup returned) < Capacity
    /\ pending' = Tail(pending)
    /\ running' = running \cup {Head(pending)}
    /\ UNCHANGED <<submitted, returned, finished>>

Return(x) ==
    /\ x \in running
    /\ running' = running \ {x}
    /\ returned' = returned \cup {x}
    /\ UNCHANGED <<submitted, pending, finished>>

Finish(x) ==
    /\ x \in returned
    /\ returned' = returned \ {x}
    /\ finished' = finished \cup {x}
    /\ UNCHANGED <<submitted, pending, running>>

WQNext ==
    \/ Start
    \/ \E x \in Work : Submit(x) \/ Return(x) \/ Finish(x)

WQSpec == WQInit /\ [][WQNext]_wqVars
=============================================================================
