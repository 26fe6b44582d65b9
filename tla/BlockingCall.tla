---------------------------- MODULE BlockingCall ----------------------------
(***************************************************************************)
(* marl::blocking_call() and the life of the scheduler: tasks call it on   *)
(* fibers, each call has a thread of its own that binds to the scheduler,  *)
(* and meanwhile the thread that created the scheduler unbinds and         *)
(* destroys it.  There is one worker thread, whose inside is in Worker.tla *)
(* (with more of them the destructor may leave a task behind, as a run of  *)
(* Scheduler.tla shows); WaitGroup is a counter, with its inside in        *)
(* WaitGroup.tla.                                                          *)
(***************************************************************************)
EXTENDS Naturals, FiniteSets

CONSTANTS
    Task,       \* the tasks; each makes one blocking call
    Owner       \* the thread that creates, binds and destroys the scheduler

ASSUME OwnerAssumption == Owner \notin Task

VARIABLES
    owner,      \* where the owner is
    task,       \* where each task is
    thread,     \* where the thread of each task's call is
    wg,         \* the counter of each call's WaitGroup
    result,     \* whether the call's result is stored
    boundTo,    \* by_tid: the owner, or the task whose call's thread is bound
    queue,      \* scheduled tasks that have not begun
    alive       \* the scheduler exists

vars == <<owner, task, thread, wg, result, boundTo, queue, alive>>

Init ==
    /\ owner = "bound"
    /\ task = [t \in Task |-> "new"]
    /\ thread = [t \in Task |-> "none"]
    /\ wg = [t \in Task |-> 0]
    /\ result = [t \in Task |-> FALSE]
    /\ boundTo = {Owner}
    /\ queue = {}
    /\ alive = TRUE

-----------------------------------------------------------------------------
\* The owner schedules a task while it is bound.
Schedule(t) ==
    /\ owner = "bound"
    /\ task[t] = "new"
    /\ task' = [task EXCEPT ![t] = "queued"]
    /\ queue' = queue \cup {t}
    /\ UNCHANGED <<owner, thread, wg, result, boundTo, alive>>

\* Scheduler::unbind(), then ~Scheduler().
Unbind ==
    /\ owner = "bound"
    /\ owner' = "unbound"
    /\ boundTo' = boundTo \ {Owner}
    /\ UNCHANGED <<task, thread, wg, result, queue, alive>>

\* The destructor has seen by_tid empty once, and goes on to stop the workers.
SeeAllUnbound ==
    /\ owner = "unbound"
    /\ boundTo = {}
    /\ owner' = "stopping"
    /\ UNCHANGED <<task, thread, wg, result, boundTo, queue, alive>>

\* A worker that stops without the tasks that are blocked.
StopWorkers_QueueOnly ==
    /\ owner = "stopping"
    /\ queue = {}
    /\ owner' = "destroyed"
    /\ alive' = FALSE
    /\ UNCHANGED <<task, thread, wg, result, boundTo, queue>>

\* Worker::stop() of the one worker returns once no task is queued, running or
\* blocked.
StopWorkers ==
    /\ owner = "stopping"
    /\ \A t \in Task : task[t] \in {"new", "finished"}
    /\ owner' = "destroyed"
    /\ alive' = FALSE
    /\ UNCHANGED <<task, thread, wg, result, boundTo, queue>>

-----------------------------------------------------------------------------
\* The task begins and calls blocking_call(): WaitGroup wg(1), and the thread.
Call(t) ==
    /\ task[t] = "queued"
    /\ queue' = queue \ {t}
    /\ task' = [task EXCEPT ![t] = "waiting"]
    /\ thread' = [thread EXCEPT ![t] = "started"]
    /\ wg' = [wg EXCEPT ![t] = 1]
    /\ UNCHANGED <<owner, result, boundTo, alive>>

WaitReturns(t) ==
    /\ task[t] = "waiting"
    /\ wg[t] = 0
    /\ task' = [task EXCEPT ![t] = "joining"]
    /\ UNCHANGED <<owner, thread, wg, result, boundTo, queue, alive>>

\* A call that detaches its thread.
Join_Detached(t) ==
    /\ task[t] = "joining"
    /\ task' = [task EXCEPT ![t] = "finished"]
    /\ UNCHANGED <<owner, thread, wg, result, boundTo, queue, alive>>

\* thread.join(), and the call and its task return.
Join(t) ==
    /\ task[t] = "joining"
    /\ thread[t] = "exited"
    /\ task' = [task EXCEPT ![t] = "finished"]
    /\ UNCHANGED <<owner, thread, wg, result, boundTo, queue, alive>>

-----------------------------------------------------------------------------
\* The thread: scheduler->bind() ...
ThreadBind(t) ==
    /\ thread[t] = "started"
    /\ thread' = [thread EXCEPT ![t] = "bound"]
    /\ boundTo' = boundTo \cup {t}
    /\ UNCHANGED <<owner, task, wg, result, queue, alive>>

\* ... f(), which may schedule a task of its own, ...
ThreadCall(t) ==
    /\ thread[t] = "bound"
    /\ thread' = [thread EXCEPT ![t] = "called"]
    /\ result' = [result EXCEPT ![t] = TRUE]
    /\ \/ UNCHANGED <<task, queue>>
       \/ \E u \in Task :
            /\ task[u] = "new"
            /\ task' = [task EXCEPT ![u] = "queued"]
            /\ queue' = queue \cup {u}
    /\ UNCHANGED <<owner, wg, boundTo, alive>>

\* ... Scheduler::unbind() ...
ThreadUnbind(t) ==
    /\ thread[t] = "called"
    /\ thread' = [thread EXCEPT ![t] = "unbound"]
    /\ boundTo' = boundTo \ {t}
    /\ UNCHANGED <<owner, task, wg, result, queue, alive>>

\* A thread that ends without wg.done().
ThreadDone_Missing(t) ==
    /\ thread[t] = "unbound"
    /\ thread' = [thread EXCEPT ![t] = "done"]
    /\ UNCHANGED <<owner, task, wg, result, boundTo, queue, alive>>

\* ... wg.done() ...
ThreadDone(t) ==
    /\ thread[t] = "unbound"
    /\ thread' = [thread EXCEPT ![t] = "done"]
    /\ wg' = [wg EXCEPT ![t] = 0]
    /\ UNCHANGED <<owner, task, result, boundTo, queue, alive>>

\* ... and the thread ends, its copies of wg and of the arguments with it.
ThreadExit(t) ==
    /\ thread[t] = "done"
    /\ thread' = [thread EXCEPT ![t] = "exited"]
    /\ UNCHANGED <<owner, task, wg, result, boundTo, queue, alive>>

-----------------------------------------------------------------------------
Destructor == SeeAllUnbound \/ StopWorkers

TaskStep(t)   == Call(t) \/ WaitReturns(t) \/ Join(t)
ThreadStep(t) ==
    ThreadBind(t) \/ ThreadCall(t) \/ ThreadUnbind(t) \/ ThreadDone(t) \/ ThreadExit(t)

\* The scheduler is gone: nothing is left to do.
Terminated == owner = "destroyed" /\ UNCHANGED vars

Next ==
    \/ Unbind \/ Destructor
    \/ \E t \in Task : Schedule(t) \/ TaskStep(t) \/ ThreadStep(t)
    \/ Terminated

Spec == Init /\ [][Next]_vars

\* The owner's program destroys the scheduler in the end; workers run their
\* tasks and the operating system its threads.
FairSpec ==
    /\ Spec
    /\ WF_vars(Unbind)
    /\ WF_vars(Destructor)
    /\ \A t \in Task : WF_vars(TaskStep(t)) /\ WF_vars(ThreadStep(t))

-----------------------------------------------------------------------------
\* Types of the variables; a WaitGroup counts one thread.
TypeOK ==
    /\ owner \in {"bound", "unbound", "stopping", "destroyed"}
    /\ task \in [Task -> {"new", "queued", "waiting", "joining", "finished"}]
    /\ thread \in [Task -> {"none", "started", "bound", "called", "unbound", "done", "exited"}]
    /\ wg \in [Task -> 0..1]
    /\ result \in [Task -> BOOLEAN]
    /\ boundTo \subseteq Task \cup {Owner}
    /\ queue \subseteq Task
    /\ alive \in BOOLEAN

\* No task is left behind, not even one that f() has scheduled meanwhile.
NoTaskLeft == ~alive => \A t \in Task : task[t] \in {"new", "finished"}

\* A thread of a call that uses the scheduler, or is going to, finds it alive,
\* although it may bind after the destructor has seen all threads unbound; and
\* the scheduler is not destroyed before every task has run.
SchedulerOutlivesCalls ==
    /\ \A t \in Task : thread[t] \in {"started", "bound", "called"} \/ t \in boundTo => alive
    /\ NoTaskLeft

\* blocking_call() returns with the result of f(), and its thread is gone: the
\* references to the caller's stack are not used any more.
ReturnsAfterThread ==
    \A t \in Task : task[t] = "finished" => result[t] /\ thread[t] = "exited"

\* Every call returns: the thread's wg.done() is not held up by the destructor.
CallsReturn == \A t \in Task : task[t] = "queued" ~> task[t] = "finished"
=============================================================================
