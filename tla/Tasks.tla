------------------------------- MODULE Tasks --------------------------------
(***************************************************************************)
(* What the scheduler promises to a program: a task that waits for another *)
(* goes on only when that one is done, and a task that is done stays done, *)
(* with the result it has.  A step may move several tasks: a call creates  *)
(* the callee and blocks the caller.                                       *)
(***************************************************************************)
CONSTANTS TaskId, NoTask, NoResult

VARIABLES phase,      \* "none", "live", "blocked" or "done"
          blockedOn,  \* the task a blocked task waits for
          result      \* the result of a task that is done

tasksVars == <<phase, blockedOn, result>>

TasksInit ==
    /\ phase \in [TaskId -> {"none", "live"}]
    /\ blockedOn = [t \in TaskId |-> NoTask]
    /\ result = [t \in TaskId |-> NoResult]

Rests(t) ==
    /\ phase'[t] = phase[t]
    /\ blockedOn'[t] = blockedOn[t]
    /\ result'[t] = result[t]

Begins(t) ==
    /\ phase[t] = "none" /\ phase'[t] = "live"
    /\ blockedOn'[t] = NoTask
    /\ result'[t] = NoResult

Blocks(t) ==
    /\ phase[t] = "live" /\ phase'[t] = "blocked"
    /\ blockedOn'[t] \in TaskId
    /\ phase'[blockedOn'[t]] # "none"
    /\ result'[t] = NoResult

\* What a blocked task waits for is done.
MayResume(t) == phase[t] = "blocked" /\ phase[blockedOn[t]] = "done"

Resumes(t) ==
    /\ MayResume(t) /\ phase'[t] = "live"
    /\ blockedOn'[t] = NoTask
    /\ result'[t] = NoResult

Ends(t) ==
    /\ phase[t] = "live" \/ MayResume(t)
    /\ phase'[t] = "done"
    /\ blockedOn'[t] = NoTask

TasksNext ==
    \A t \in TaskId : Rests(t) \/ Begins(t) \/ Blocks(t) \/ Resumes(t) \/ Ends(t)

TasksSpec == TasksInit /\ [][TasksNext]_tasksVars
=============================================================================
