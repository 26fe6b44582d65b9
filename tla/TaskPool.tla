------------------------------ MODULE TaskPool ------------------------------
(***************************************************************************)
(* What the scheduler promises about tasks, with no queues, workers'       *)
(* loops, stealing or notifications in sight: a task that was scheduled is *)
(* run once, by one thread at a time, and a task that must stay on the     *)
(* thread that scheduled it does.  Scheduler.tla implements this module.   *)
(***************************************************************************)
CONSTANTS
    Task,           \* the tasks
    SameThread,     \* the tasks that stay on the thread that schedules them
    Actor,          \* the threads that run tasks
    NoTask,
    Nobody

VARIABLES
    home,           \* who scheduled each task, or Nobody
    running,        \* the task each thread runs, or NoTask
    done            \* the finished tasks

vars == <<home, running, done>>

Init ==
    /\ home = [t \in Task |-> Nobody]
    /\ running = [a \in Actor |-> NoTask]
    /\ done = {}

Schedule(a, t) ==
    /\ home[t] = Nobody
    /\ home' = [home EXCEPT ![t] = a]
    /\ UNCHANGED <<running, done>>

\* A scheduled task that is not finished and that nobody runs is run by a.
Start(a, t) ==
    /\ running[a] = NoTask
    /\ home[t] # Nobody
    /\ t \in SameThread => home[t] = a
    /\ t \notin done
    /\ \A b \in Actor : running[b] # t
    /\ running' = [running EXCEPT ![a] = t]
    /\ UNCHANGED <<home, done>>

Finish(a) ==
    /\ running[a] # NoTask
    /\ done' = done \cup {running[a]}
    /\ running' = [running EXCEPT ![a] = NoTask]
    /\ UNCHANGED home

Next ==
    \E a \in Actor :
        \/ Finish(a)
        \/ \E t \in Task : Schedule(a, t) \/ Start(a, t)

Spec == Init /\ [][Next]_vars
=============================================================================
