------------------------------- MODULE Worker -------------------------------
(***************************************************************************)
(* One Scheduler::Worker: the thread that runs tasks on fibers, the        *)
(* work_ structure other threads feed, and the life of every fiber from    *)
(* creation over suspension, notification and timeout to reuse.            *)
(*                                                                         *)
(* work_.mutex is held by the worker's thread exactly at the control       *)
(* points in Held; the critical sections of the other threads have no      *)
(* effect outside work_ and are single steps.  The wait_lock a task passes *)
(* to wait() is held by the worker's thread exactly at "waitTest".         *)
(***************************************************************************)
EXTENDS Naturals, Sequences, FiniteSets

CONSTANTS
    Task,           \* the tasks of the program
    SameThread,     \* the tasks with Task::Flags::SameThread
    StopTask,       \* the task stop() enqueues on a MultiThreaded worker
    NoTask,         \* "no task"
    OtherWorkers,   \* the scheduler has other MultiThreaded workers
    MaxFibers,      \* bound: fibers created besides the main fiber
    MaxTime,        \* bound: the last value of the clock
    MaxWaits,       \* bound: calls of wait(), and notifications for no good reason
    Notifiers       \* bound: threads inside enqueue() after the unlock

ASSUME TaskAssumption ==
    /\ StopTask \notin Task
    /\ NoTask \notin Task \cup {StopTask}
    /\ SameThread \subseteq Task

ASSUME ModeAssumption == OtherWorkers \in BOOLEAN

ASSUME BoundAssumption ==
    /\ MaxFibers \in Nat
    /\ MaxTime \in Nat
    /\ MaxWaits \in Nat
    /\ Notifiers \in Nat \ {0}

Fiber   == 0..MaxFibers     \* fiber 0 is main_fiber_
Time    == 0..MaxTime
Never   == MaxTime + 1      \* a null timeout
AnyTask == Task \cup {StopTask}

\* Fiber::State, and "none" for a fiber that does not exist yet.
State == {"none", "Idle", "Yielded", "Waiting", "Queued", "Running"}

\* Where a fiber that does not execute continues: in suspend() or in
\* runUntilIdle() after switchToFiber(), or never, at the end of run().
Stack == {"none", "suspend", "runUntilIdle", "exited"}

\* Control points of the worker's thread at which it holds work_.mutex ...
Held == {"run", "runUntilShutdown", "waitForWork", "workWait",
         "enqueueFiberTimeouts", "switch", "afterSwitch", "runUntilIdle",
         "afterIdle", "runExit"}

\* ... and at which it does not.
Released == {"spinForWork", "relock", "asleep", "task", "waitTest",
             "bareWait", "reacquire", "done"}

\* Where work_.wait() and waitForWork() return to.
Return == {"runUntilShutdown", "runUntilIdle", "switch"}

VARIABLES
    \* the fibers
    state,          \* state_
    stack,          \* where the fiber continues when it is switched to
    running,        \* the task on the fiber's stack
    deadline,       \* the timeout of the wait() the fiber is in
    bare,           \* the wait() the fiber is in has no predicate
    pred,           \* the predicate of the wait() the fiber is in
    \* the worker
    mode,           \* mode_
    pc,             \* control point of its thread
    ret,            \* return point of work_.wait() and waitForWork()
    current,        \* current_fiber_
    idleFibers,     \* idle_fibers_
    workerFibers,   \* worker_fibers_.size()
    shutdown,
    \* work_
    num, numBlocked, tasks, fibers, timeouts, waitFibers, notifyAdded,
    \* the condition variable work_.added
    wakeAt,         \* the deadline of the wait on it
    wakeup,         \* the sleeping thread was notified
    kicks,          \* threads between their unlock and added.notify_one()
    \* the rest of the program
    fate,           \* what became of each task
    owed,           \* fibers whose predicate changed and who are to be notified
    waits,          \* calls of wait() and needless notifications left
    now             \* system_clock::now()

fiberVars == <<state, stack, running, deadline, bare, pred>>
poolVars  == <<current, idleFibers, workerFibers>>
queueVars == <<num, tasks, fibers>>
waitVars  == <<timeouts, waitFibers>>
sleepVars == <<notifyAdded, wakeAt, wakeup, kicks>>
envVars   == <<fate, owed, waits, now>>
vars == <<fiberVars, poolVars, queueVars, waitVars, sleepVars, envVars,
          mode, pc, ret, shutdown, numBlocked>>

MultiThreaded == mode = "MultiThreaded"

\* Other workers steal from the worker: the SingleThreaded ones are spared.
Thieves == OtherWorkers /\ MultiThreaded

Init ==
    /\ mode \in {"MultiThreaded", "SingleThreaded"}
    /\ state = [f \in Fiber |-> IF f = 0 THEN "Running" ELSE "none"]
    /\ stack = [f \in Fiber |-> "none"]
    /\ running = [f \in Fiber |-> NoTask]
    /\ deadline = [f \in Fiber |-> Never]
    /\ bare = [f \in Fiber |-> FALSE]
    /\ pred = [f \in Fiber |-> FALSE]
    /\ pc = IF MultiThreaded THEN "run" ELSE "task"
    /\ ret = "runUntilShutdown"
    /\ current = 0
    /\ idleFibers = {}
    /\ workerFibers = 0
    /\ shutdown = FALSE
    /\ num = 0
    /\ numBlocked = 0
    /\ tasks = <<>>
    /\ fibers = <<>>
    /\ timeouts = {}
    /\ waitFibers = [f \in Fiber |-> Never]
    /\ notifyAdded = TRUE
    /\ wakeAt = Never
    /\ wakeup = FALSE
    /\ kicks = 0
    /\ fate = [t \in AnyTask |-> "new"]
    /\ owed = {}
    /\ waits = MaxWaits
    /\ now = 0

MutexFree == pc \notin Held

\* The current fiber is in suspend() and has not been switched away from.
InSuspend ==
    \/ pc = "switch"
    \/ /\ pc \in {"waitForWork", "spinForWork", "relock", "workWait", "asleep",
                  "enqueueFiberTimeouts"}
       /\ ret = "switch"

\* The fiber is inside Worker::wait(), where its task has made it known to
\* whoever is to notify it (ConditionVariable::waiting_).
InWait(f) ==
    \/ stack[f] = "suspend"
    \/ /\ f = current
       /\ InSuspend \/ pc \in {"afterSwitch", "waitTest", "bareWait", "reacquire"}

-----------------------------------------------------------------------------
\* Scheduler::WaitingFibers: timeouts is an ordered set of (time, fiber)
\* pairs, waitFibers the map from fibers to their times.

Waiting == \E f \in Fiber : waitFibers[f] # Never

Before(t, u) ==
    \/ t.timepoint < u.timepoint
    \/ t.timepoint = u.timepoint /\ t.fiber < u.fiber

IsFirst(t) == t \in timeouts /\ \A u \in timeouts : u = t \/ Before(t, u)

WaitingAdd(d, f) ==
    /\ timeouts' = timeouts \cup {[timepoint |-> d, fiber |-> f]}
    /\ waitFibers' = [waitFibers EXCEPT ![f] = d]

\* erase() that forgets the ordered set.
WaitingErase_MapOnly(f) ==
    /\ waitFibers' = [waitFibers EXCEPT ![f] = Never]
    /\ UNCHANGED timeouts

WaitingErase(f) ==
    /\ timeouts' = timeouts \ {[timepoint |-> waitFibers[f], fiber |-> f]}
    /\ waitFibers' = [waitFibers EXCEPT ![f] = Never]

\* take(now) returns the fiber of t.
Expired(t) == Waiting /\ IsFirst(t) /\ t.timepoint <= now

-----------------------------------------------------------------------------
\* The queues work_.fibers and work_.tasks.

\* Push that does not count, and push to the wrong end.
PushFiber_NoCount(f) ==
    /\ fibers' = Append(fibers, f)
    /\ state' = [state EXCEPT ![f] = "Queued"]
    /\ UNCHANGED num

PushFiber_Front(f) ==
    /\ fibers' = <<f>> \o fibers
    /\ state' = [state EXCEPT ![f] = "Queued"]
    /\ num' = num + 1

PushFiber(f) ==
    /\ fibers' = Append(fibers, f)
    /\ state' = [state EXCEPT ![f] = "Queued"]
    /\ num' = num + 1

TakeFiber ==
    /\ num' = num - 1
    /\ fibers' = Tail(fibers)

PushTask(t) ==
    /\ tasks' = Append(tasks, t)
    /\ num' = num + 1
    /\ fate' = [fate EXCEPT ![t] = "queued"]

\* The task is copied and stays in the queue.
TakeTask_Copy(as) ==
    /\ num' = num - 1
    /\ fate' = [fate EXCEPT ![Head(tasks)] = as]
    /\ UNCHANGED tasks

TakeTask(as) ==
    /\ num' = num - 1
    /\ tasks' = Tail(tasks)
    /\ fate' = [fate EXCEPT ![Head(tasks)] = as]

\* enqueue() that forgets to notify.
NotifyLater_Never == kicks' = kicks

\* enqueue() reads notify_added and, if it is set, notifies after its unlock.
NotifyLater == kicks' = IF notifyAdded THEN kicks + 1 ELSE kicks

-----------------------------------------------------------------------------
\* Work::wait(f): the predicate of the call, and where the call returns to.

WaitPred ==
    IF ret = "runUntilShutdown"
    THEN num > 0 \/ Waiting \/ shutdown
    ELSE num > 0 \/ (shutdown /\ numBlocked = 0)

AfterWait == IF ret = "runUntilShutdown" THEN ret ELSE "enqueueFiberTimeouts"

WorkWaitReturns ==
    /\ notifyAdded' = FALSE
    /\ pc' = AfterWait

\* A wait that never times out.
SetAlarm_Never == wakeAt' = Never

\* The wait ends when the first waiting fiber times out.
SetAlarm ==
    IF Waiting THEN \E t \in timeouts : IsFirst(t) /\ wakeAt' = t.timepoint
               ELSE wakeAt' = Never

WorkWait ==
    /\ pc = "workWait"
    /\ SetAlarm
    /\ wakeup' = FALSE
    /\ IF WaitPred THEN WorkWaitReturns
                   ELSE notifyAdded' = TRUE /\ pc' = "asleep"
    /\ UNCHANGED <<fiberVars, poolVars, queueVars, waitVars, kicks, envVars,
                   ret, shutdown, numBlocked, mode>>

\* The sleeping thread is notified and tests the predicate again ...
Wake ==
    /\ pc = "asleep"
    /\ wakeup
    /\ wakeup' = FALSE
    /\ IF WaitPred THEN WorkWaitReturns ELSE UNCHANGED <<pc, notifyAdded>>
    /\ UNCHANGED <<fiberVars, poolVars, queueVars, waitVars, wakeAt, kicks,
                   envVars, ret, shutdown, numBlocked, mode>>

\* ... or wakes up for no reason, and finds the predicate true ...
SpuriousWake ==
    /\ pc = "asleep"
    /\ ~wakeup
    /\ WaitPred
    /\ WorkWaitReturns
    /\ UNCHANGED <<fiberVars, poolVars, queueVars, waitVars, wakeAt, wakeup,
                   kicks, envVars, ret, shutdown, numBlocked, mode>>

\* ... or the deadline of the wait passes.
WakeTimeout ==
    /\ pc = "asleep"
    /\ now >= wakeAt
    /\ wakeup' = FALSE
    /\ WorkWaitReturns
    /\ UNCHANGED <<fiberVars, poolVars, queueVars, waitVars, wakeAt, kicks,
                   envVars, ret, shutdown, numBlocked, mode>>

-----------------------------------------------------------------------------
\* The worker's loop.

\* run(): the main fiber of a MultiThreaded worker, and every other fiber.
Run ==
    /\ pc = "run"
    /\ ret' = "runUntilShutdown"
    /\ pc' = IF MultiThreaded THEN "workWait" ELSE "runUntilShutdown"
    /\ UNCHANGED <<fiberVars, poolVars, queueVars, waitVars, sleepVars, envVars,
                   shutdown, numBlocked, mode>>

\* Loop conditions that forget the blocked fibers, or are off by one.
KeepRunning_NoBlocked == ~shutdown \/ num > 0
KeepRunning_OffByOne  == ~shutdown \/ num > 0 \/ numBlocked >= 0

\* The loop condition of runUntilShutdown().
KeepRunning == ~shutdown \/ num > 0 \/ numBlocked > 0

RunUntilShutdown ==
    /\ pc = "runUntilShutdown"
    /\ IF KeepRunning
       THEN pc' = "waitForWork" /\ ret' = "runUntilIdle"
       ELSE pc' = "runExit" /\ ret' = ret
    /\ UNCHANGED <<fiberVars, poolVars, queueVars, waitVars, sleepVars, envVars,
                   shutdown, numBlocked, mode>>

\* waitForWork() up to its unlock or its work_.wait().
WaitForWork ==
    /\ pc = "waitForWork"
    /\ pc' = IF num > 0 THEN ret
             ELSE IF MultiThreaded THEN "spinForWork" ELSE "workWait"
    /\ UNCHANGED <<fiberVars, poolVars, queueVars, waitVars, sleepVars, envVars,
                   ret, shutdown, numBlocked, mode>>

\* spinForWork() returns: there is work, or a millisecond has passed.
SpinForWork ==
    /\ pc = "spinForWork"
    /\ pc' = "relock"
    /\ UNCHANGED <<fiberVars, poolVars, queueVars, waitVars, sleepVars, envVars,
                   ret, shutdown, numBlocked, mode>>

\* spinForWork() has stolen a task of another worker and returns.
SpinAndSteal(t) ==
    /\ pc = "spinForWork"
    /\ Thieves
    /\ t \in Task \ SameThread
    /\ fate[t] = "new"
    /\ PushTask(t)
    /\ pc' = "relock"
    /\ UNCHANGED <<fiberVars, poolVars, fibers, waitVars, sleepVars,
                   owed, waits, now, ret, shutdown, numBlocked, mode>>

\* waitForWork() after spinForWork().
Relock ==
    /\ pc = "relock"
    /\ pc' = "workWait"
    /\ UNCHANGED <<fiberVars, poolVars, queueVars, waitVars, sleepVars, envVars,
                   ret, shutdown, numBlocked, mode>>

\* One round of the loop of enqueueFiberTimeouts(), or its end.  The clock is
\* read once, on entry: Tick does not happen in between.
EnqueueFiberTimeouts ==
    /\ pc = "enqueueFiberTimeouts"
    /\ \/ \E t \in timeouts :
             /\ Expired(t)
             /\ timeouts' = timeouts \ {t}
             /\ waitFibers' = [waitFibers EXCEPT ![t.fiber] = Never]
             /\ PushFiber(t.fiber)
             /\ pc' = pc
       \/ /\ \A t \in timeouts : ~Expired(t)
          /\ pc' = ret
          /\ UNCHANGED <<timeouts, waitFibers, state, fibers, num>>
    /\ UNCHANGED <<stack, running, deadline, bare, pred, poolVars, tasks,
                   sleepVars, envVars, ret, shutdown, numBlocked, mode>>

-----------------------------------------------------------------------------
\* Switching fibers.

\* Where the thread is after switchToFiber(f).
Resumption(f) == IF stack[f] = "suspend" THEN "afterSwitch" ELSE "afterIdle"

\* runUntilIdle() takes a fiber: the current one becomes idle.
ResumeFiber ==
    /\ pc = "runUntilIdle"
    /\ fibers # <<>>
    /\ TakeFiber
    /\ state' = [state EXCEPT ![current] = "Idle"]
    /\ idleFibers' = idleFibers \cup {current}
    /\ stack' = [stack EXCEPT ![current] = "runUntilIdle"]
    /\ current' = Head(fibers)
    /\ pc' = Resumption(Head(fibers))
    /\ UNCHANGED <<running, deadline, bare, pred, workerFibers, tasks, waitVars,
                   sleepVars, envVars, ret, shutdown, numBlocked, mode>>

\* runUntilIdle() after it was switched back to.
AfterIdle ==
    /\ pc = "afterIdle"
    /\ state' = [state EXCEPT ![current] = "Running"]
    /\ stack' = [stack EXCEPT ![current] = "none"]
    /\ pc' = "runUntilIdle"
    /\ UNCHANGED <<running, deadline, bare, pred, poolVars, queueVars, waitVars,
                   sleepVars, envVars, ret, shutdown, numBlocked, mode>>

\* runUntilIdle() takes a task and runs it without the mutex.
StartTask ==
    /\ pc = "runUntilIdle"
    /\ fibers = <<>>
    /\ tasks # <<>>
    /\ TakeTask("running")
    /\ running' = [running EXCEPT ![current] = Head(tasks)]
    /\ pc' = "task"
    /\ UNCHANGED <<state, stack, deadline, bare, pred, poolVars, fibers, waitVars,
                   sleepVars, owed, waits, now, ret, shutdown, numBlocked, mode>>

\* runUntilIdle() returns.
NothingToDo ==
    /\ pc = "runUntilIdle"
    /\ fibers = <<>>
    /\ tasks = <<>>
    /\ pc' = "runUntilShutdown"
    /\ UNCHANGED <<fiberVars, poolVars, queueVars, waitVars, sleepVars, envVars,
                   ret, shutdown, numBlocked, mode>>

\* suspend() after waitForWork(): to a queued fiber (it may be the current
\* one), else to an idle one, else to a new one.
SwitchToQueued ==
    /\ pc = "switch"
    /\ fibers # <<>>
    /\ numBlocked' = numBlocked + 1
    /\ TakeFiber
    /\ stack' = [stack EXCEPT ![current] = "suspend"]
    /\ current' = Head(fibers)
    /\ pc' = IF Head(fibers) = current THEN "afterSwitch" ELSE Resumption(Head(fibers))
    /\ UNCHANGED <<state, running, deadline, bare, pred, idleFibers, workerFibers,
                   tasks, waitVars, sleepVars, envVars, ret, shutdown, mode>>

SwitchToIdle(f) ==
    /\ pc = "switch"
    /\ fibers = <<>>
    /\ f \in idleFibers
    /\ numBlocked' = numBlocked + 1
    /\ idleFibers' = idleFibers \ {f}
    /\ stack' = [stack EXCEPT ![current] = "suspend"]
    /\ current' = f
    /\ pc' = Resumption(f)
    /\ UNCHANGED <<state, running, deadline, bare, pred, workerFibers, queueVars,
                   waitVars, sleepVars, envVars, ret, shutdown, mode>>

SwitchToNew ==
    /\ pc = "switch"
    /\ fibers = <<>>
    /\ idleFibers = {}
    /\ workerFibers < MaxFibers
    /\ numBlocked' = numBlocked + 1
    /\ workerFibers' = workerFibers + 1
    /\ state' = [state EXCEPT ![workerFibers + 1] = "Running"]
    /\ stack' = [stack EXCEPT ![current] = "suspend"]
    /\ current' = workerFibers + 1
    /\ pc' = "run"
    /\ UNCHANGED <<running, deadline, bare, pred, idleFibers, queueVars, waitVars,
                   sleepVars, envVars, ret, shutdown, mode>>

\* suspend() after it was switched back to, and the unlock that follows it.
AfterSwitch ==
    /\ pc = "afterSwitch"
    /\ numBlocked' = numBlocked - 1
    /\ state' = [state EXCEPT ![current] = "Running"]
    /\ stack' = [stack EXCEPT ![current] = "none"]
    /\ pc' = "reacquire"
    /\ UNCHANGED <<running, deadline, bare, pred, poolVars, queueVars, waitVars,
                   sleepVars, envVars, ret, shutdown, mode>>

\* The end of run(), on any fiber: back to the main fiber, which leaves the
\* loop in turn and unlocks.
RunExit ==
    /\ pc = "runExit"
    /\ IF current = 0
       THEN /\ pc' = "done"
            /\ UNCHANGED <<stack, current>>
       ELSE /\ stack' = [stack EXCEPT ![current] = "exited"]
            /\ current' = 0
            /\ pc' = Resumption(0)
    /\ UNCHANGED <<state, running, deadline, bare, pred, idleFibers, workerFibers,
                   queueVars, waitVars, sleepVars, envVars, ret, shutdown,
                   numBlocked, mode>>

-----------------------------------------------------------------------------
\* The task on the current fiber.

\* The task returns; the body of stop()'s task sets shutdown.
TaskReturns ==
    /\ pc = "task"
    /\ running[current] # NoTask
    /\ shutdown' = (shutdown \/ running[current] = StopTask)
    /\ fate' = [fate EXCEPT ![running[current]] = "done"]
    /\ running' = [running EXCEPT ![current] = NoTask]
    /\ pc' = "runUntilIdle"
    /\ UNCHANGED <<state, stack, deadline, bare, pred, poolVars, queueVars,
                   waitVars, sleepVars, owed, waits, now, ret, numBlocked, mode>>

\* The task, or the code of the thread that owns a SingleThreaded worker,
\* calls wait() with timeout d, with (b = FALSE) or without a predicate.
BeginWait(d, b) ==
    /\ pc = "task"
    /\ running[current] # StopTask
    /\ waits > 0
    /\ waits' = waits - 1
    /\ deadline' = [deadline EXCEPT ![current] = d]
    /\ bare' = [bare EXCEPT ![current] = b]
    /\ pc' = IF b THEN "bareWait" ELSE "waitTest"
    /\ UNCHANGED <<state, stack, running, pred, poolVars, queueVars, waitVars,
                   sleepVars, fate, owed, now, ret, shutdown, numBlocked, mode>>

\* wait() that does not look at its predicate before it suspends.
MustSuspend_Always == pc \in {"bareWait", "waitTest"}

\* The loop condition of wait(), or a wait() without predicate.
MustSuspend == pc = "bareWait" \/ (pc = "waitTest" /\ ~pred[current])

\* wait() locks work_.mutex, unlocks wait_lock and enters suspend().
Suspend ==
    /\ MustSuspend
    /\ IF deadline[current] # Never
       THEN /\ state' = [state EXCEPT ![current] = "Waiting"]
            /\ WaitingAdd(deadline[current], current)
       ELSE /\ state' = [state EXCEPT ![current] = "Yielded"]
            /\ UNCHANGED waitVars
    /\ ret' = "switch"
    /\ pc' = "waitForWork"
    /\ UNCHANGED <<stack, running, deadline, bare, pred, poolVars, queueVars,
                   sleepVars, envVars, shutdown, numBlocked, mode>>

\* wait() returns to the task, which forgets whom it asked to notify it.
EndWait ==
    /\ pc' = "task"
    /\ deadline' = [deadline EXCEPT ![current] = Never]
    /\ bare' = [bare EXCEPT ![current] = FALSE]
    /\ pred' = [pred EXCEPT ![current] = FALSE]
    /\ owed' = owed \ {current}
    /\ UNCHANGED <<state, stack, running, poolVars, queueVars, waitVars,
                   sleepVars, fate, waits, now, ret, shutdown, numBlocked, mode>>

WaitReturnsTrue ==
    /\ pc = "waitTest"
    /\ pred[current]
    /\ EndWait

\* wait() is back from suspend(): it returns if its time is over (or if it
\* has no predicate), without a look at the predicate ...
WaitTimesOut ==
    /\ pc = "reacquire"
    /\ bare[current] \/ now >= deadline[current]
    /\ EndWait

\* ... and goes to the next round of its loop otherwise.
WaitAgain ==
    /\ pc = "reacquire"
    /\ ~bare[current]
    /\ now < deadline[current]
    /\ pc' = "waitTest"
    /\ UNCHANGED <<fiberVars, poolVars, queueVars, waitVars, sleepVars, envVars,
                   ret, shutdown, numBlocked, mode>>

\* stop() of a SingleThreaded worker, called by unbind() on its thread.
Stop ==
    /\ pc = "task"
    /\ ~MultiThreaded
    /\ current = 0
    /\ running[0] = NoTask
    /\ shutdown' = TRUE
    /\ pc' = "runUntilShutdown"
    /\ UNCHANGED <<fiberVars, poolVars, queueVars, waitVars, sleepVars, envVars,
                   ret, numBlocked, mode>>

-----------------------------------------------------------------------------
\* Other threads.

\* A task's predicate becomes true, under the wait_lock the task gave wait().
Satisfy(f) ==
    /\ InWait(f)
    /\ ~(f = current /\ pc = "waitTest")
    /\ ~bare[f]
    /\ ~pred[f]
    /\ pred' = [pred EXCEPT ![f] = TRUE]
    /\ owed' = owed \cup {f}
    /\ UNCHANGED <<state, stack, running, deadline, bare, poolVars, queueVars,
                   waitVars, sleepVars, fate, waits, now,
                   pc, ret, shutdown, numBlocked, mode>>

\* enqueue(Fiber *) that queues a queued fiber again.
AwakeAlready_OnlyRunning(f) == state[f] = "Running"

\* enqueue(Fiber *) has nothing to do.
AwakeAlready(f) == state[f] \in {"Running", "Queued"}

\* enqueue(Fiber *), the critical section.
EnqueueFiber(f) ==
    IF AwakeAlready(f)
    THEN UNCHANGED <<state, queueVars, waitVars, kicks>>
    ELSE /\ IF state[f] = "Waiting" THEN WaitingErase(f) ELSE UNCHANGED waitVars
         /\ PushFiber(f)
         /\ NotifyLater
         /\ UNCHANGED tasks

\* Fiber::notify(), because the predicate changed or for no good reason.
Notify(f) ==
    /\ MutexFree
    /\ InWait(f)
    /\ kicks < Notifiers
    /\ \/ f \in owed /\ owed' = owed \ {f} /\ UNCHANGED waits
       \/ f \notin owed /\ waits > 0 /\ waits' = waits - 1 /\ UNCHANGED owed
    /\ EnqueueFiber(f)
    /\ UNCHANGED <<stack, running, deadline, bare, pred, poolVars, notifyAdded,
                   wakeAt, wakeup, fate, now, pc, ret, shutdown, numBlocked, mode>>

\* enqueue(Task &&): by a task of this worker, by another thread, or by the
\* destructor of the scheduler (stop()), after which only the tasks of other
\* workers go on enqueuing.
EnqueueTask(t) ==
    /\ MutexFree
    /\ fate[t] = "new"
    /\ kicks < Notifiers
    /\ \/ t \in Task /\ pc = "task"
       \/ t \in Task \ SameThread /\ MultiThreaded /\ (Thieves \/ fate[StopTask] = "new")
       \/ t = StopTask /\ MultiThreaded
    /\ PushTask(t)
    /\ NotifyLater
    /\ UNCHANGED <<fiberVars, poolVars, fibers, waitVars, notifyAdded, wakeAt,
                   wakeup, owed, waits, now, pc, ret, shutdown, numBlocked, mode>>

\* added.notify_one(), after the critical section of an enqueue().
NotifyOne ==
    /\ kicks > 0
    /\ kicks' = kicks - 1
    /\ wakeup' = (wakeup \/ pc = "asleep")
    /\ UNCHANGED <<fiberVars, poolVars, queueVars, waitVars, notifyAdded, wakeAt,
                   envVars, pc, ret, shutdown, numBlocked, mode>>

\* steal(), called by a spinning worker.
Steal ==
    /\ Thieves
    /\ MutexFree
    /\ tasks # <<>>
    /\ Head(tasks) \notin SameThread
    /\ TakeTask("stolen")
    /\ UNCHANGED <<fiberVars, poolVars, fibers, waitVars, sleepVars, owed,
                   waits, now, pc, ret, shutdown, numBlocked, mode>>

\* The thief runs the task that stop() enqueued here: it sets shutdown of this
\* worker, without its mutex and without a notification.
ThiefRunsStop ==
    /\ fate[StopTask] = "stolen"
    /\ fate' = [fate EXCEPT ![StopTask] = "done"]
    /\ shutdown' = TRUE
    /\ UNCHANGED <<fiberVars, poolVars, queueVars, waitVars, sleepVars, owed,
                   waits, now, pc, ret, numBlocked, mode>>

Tick ==
    /\ now < MaxTime
    /\ pc # "enqueueFiberTimeouts"
    /\ now' = now + 1
    /\ UNCHANGED <<fiberVars, poolVars, queueVars, waitVars, sleepVars, fate,
                   owed, waits, pc, ret, shutdown, numBlocked, mode>>

-----------------------------------------------------------------------------
\* A step of the worker's thread that the thread takes by itself ...
ThreadStep ==
    \/ WorkWait \/ Wake \/ WakeTimeout
    \/ Run \/ RunUntilShutdown \/ WaitForWork \/ SpinForWork \/ Relock
    \/ EnqueueFiberTimeouts
    \/ ResumeFiber \/ AfterIdle \/ StartTask \/ NothingToDo
    \/ SwitchToQueued \/ SwitchToNew \/ AfterSwitch \/ RunExit
    \/ \E f \in Fiber : SwitchToIdle(f)
    \/ TaskReturns \/ Suspend \/ WaitReturnsTrue \/ WaitTimesOut \/ WaitAgain
    \/ Stop

\* ... and one that it may take.
ThreadMay ==
    \/ SpuriousWake
    \/ \E t \in Task : SpinAndSteal(t)
    \/ \E d \in Time \cup {Never}, b \in BOOLEAN : BeginWait(d, b)

Next ==
    \/ ThreadStep
    \/ ThreadMay
    \/ \E f \in Fiber : Satisfy(f) \/ Notify(f)
    \/ \E t \in AnyTask : EnqueueTask(t)
    \/ NotifyOne
    \/ Steal
    \/ ThiefRunsStop
    \/ Tick

Spec == Init /\ [][Next]_vars

\* Threads are scheduled, a task that does not wait returns, a notification
\* that was begun is completed, every predicate a task waits for becomes true,
\* whoever makes it true notifies the fiber, and time passes.
Fairness ==
    /\ WF_vars(ThreadStep)
    /\ WF_vars(NotifyOne)
    /\ WF_vars(ThiefRunsStop)
    /\ WF_vars(Tick)
    /\ \A f \in Fiber : WF_vars(Satisfy(f)) /\ WF_vars(f \in owed /\ Notify(f))

FairSpec == Spec /\ Fairness

-----------------------------------------------------------------------------
\* Types of the variables of the worker.
TypeOK ==
    /\ mode \in {"MultiThreaded", "SingleThreaded"}
    /\ state \in [Fiber -> State]
    /\ stack \in [Fiber -> Stack]
    /\ running \in [Fiber -> AnyTask \cup {NoTask}]
    /\ deadline \in [Fiber -> 0..Never]
    /\ bare \in [Fiber -> BOOLEAN]
    /\ pred \in [Fiber -> BOOLEAN]
    /\ pc \in Held \cup Released
    /\ ret \in Return
    /\ current \in Fiber
    /\ idleFibers \subseteq Fiber
    /\ workerFibers \in 0..MaxFibers
    /\ shutdown \in BOOLEAN
    /\ num \in Nat
    /\ numBlocked \in Nat
    /\ tasks \in Seq(AnyTask)
    /\ fibers \in Seq(Fiber)
    /\ timeouts \subseteq [timepoint : Time, fiber : Fiber]
    /\ waitFibers \in [Fiber -> 0..Never]
    /\ notifyAdded \in BOOLEAN
    /\ wakeAt \in 0..Never
    /\ wakeup \in BOOLEAN
    /\ kicks \in 0..Notifiers
    /\ fate \in [AnyTask -> {"new", "queued", "running", "done", "stolen"}]
    /\ owed \subseteq Fiber
    /\ waits \in 0..MaxWaits
    /\ now \in Time

\* The elements of a queue.
In(s) == {s[i] : i \in 1..Len(s)}

\* No fiber or task is in a queue twice.
NoDuplicates(s) == \A i, j \in 1..Len(s) : s[i] = s[j] => i = j

\* The main fiber has been switched to for good, at the end of run().
Retiring ==
    /\ current = 0
    /\ pc \in {"afterIdle", "runUntilIdle", "runUntilShutdown", "runExit", "done"}
    /\ pc = "done" \/ ~KeepRunning

\* The states of the current fiber.
CurrentState ==
    IF InSuspend THEN {"Yielded", "Waiting", "Queued"}
    ELSE IF pc = "afterSwitch" THEN {"Queued"}
    ELSE IF pc = "afterIdle" THEN {"Idle"}
    ELSE {"Running"}

\* The state of a fiber tells where it is and what it will return from.
Placed(f) ==
    /\ state[f] = "none" <=> f > workerFibers
    /\ state[f] = "Queued" <=> f \in In(fibers) \/ (f = current /\ pc = "afterSwitch")
    /\ state[f] = "Idle" <=> stack[f] = "runUntilIdle"
    /\ stack[f] = "suspend" <=>
         /\ state[f] \in {"Yielded", "Waiting", "Queued"}
         /\ ~(f = current /\ InSuspend)
    /\ f # current => /\ f \in idleFibers <=> state[f] = "Idle"
                      /\ state[f] = "Running" <=> stack[f] = "exited"

\* A Queued fiber is in work_.fibers once, an Idle one in idle_fibers_, and on
\* the stack of each is the call it will return from; only the current fiber
\* runs, apart from those that have left run() for the main fiber.  The
\* assertions of enqueue(), runUntilIdle(), switchToFiber() and
\* changeFiberState() about idle, queued and running fibers follow.
FiberPlacement ==
    /\ NoDuplicates(fibers)
    /\ state[current] \in CurrentState
    /\ current \in idleFibers => Retiring
    /\ pc = "afterSwitch" => current \notin In(fibers)
    /\ \A f \in Fiber : Placed(f)

\* work_.num is the number of queued fibers and tasks, which waitForWork() and
\* runUntilIdle() assert, and num_blocked_fibers the number of fibers that
\* suspend() has switched away from.
CountersInSync ==
    /\ num = Len(fibers) + Len(tasks)
    /\ numBlocked = Cardinality({f \in Fiber : stack[f] = "suspend"})

\* The two containers of WaitingFibers hold the same fibers and times (take()
\* and erase() assert it), those of the fibers that are Waiting.
WaitingInSync ==
    /\ timeouts = {[timepoint |-> waitFibers[f], fiber |-> f] :
                     f \in {g \in Fiber : waitFibers[g] # Never}}
    /\ \A f \in Fiber : waitFibers[f] = IF state[f] = "Waiting" THEN deadline[f] ELSE Never
    /\ \A f \in Fiber : state[f] = "Waiting" => deadline[f] # Never

\* A worker does not sleep on work that was enqueued before it fell asleep or
\* while notify_added told the enqueuing thread not to bother: a notification
\* is on its way.  Without thieves the same holds of a request to shut down.
NoLostWakeup ==
    pc = "asleep" /\ (num > 0 \/ (WaitPred /\ ~Thieves)) => wakeup \/ kicks > 0

\* A fiber does not stay suspended after its predicate has become true and its
\* notification was delivered: wait() leaves no gap between its test of the
\* predicate and the change of the fiber's state.
NoLostNotify ==
    \A f \in Fiber : pred[f] /\ state[f] \in {"Yielded", "Waiting"} => f \in owed

\* When run() of a MultiThreaded worker or stop() of a SingleThreaded one
\* returns, every task has run to its end, no fiber is suspended in one, and
\* the queues are empty; other workers may fill them again later.
StoppedMeansDrained ==
    pc = "done" =>
      /\ fibers = <<>> /\ timeouts = {}
      /\ \A f \in Fiber : running[f] = NoTask /\ state[f] \in {"none", "Idle", "Running"}
      /\ Thieves \/ (tasks = <<>> /\ \A t \in AnyTask : fate[t] \in {"new", "done"})

\* Every task is in exactly one place: in the queue once, or on the stack of
\* one fiber, or finished or stolen.
TaskPlacement ==
    /\ NoDuplicates(tasks)
    /\ \A t \in AnyTask :
         /\ fate[t] = "queued" <=> t \in In(tasks)
         /\ fate[t] = "running" <=> \E f \in Fiber : running[f] = t
         /\ \A f, g \in Fiber : running[f] = t /\ running[g] = t => f = g

\* A wait with a timeout returns; nobody notifies the ones without predicate.
TimedWaitReturns == \A f \in Fiber : deadline[f] # Never ~> deadline[f] = Never

\* Some task is in a wait() without predicate or timeout, which a notification
\* that comes too early does not end.
Forgotten == \E f \in Fiber : bare[f] /\ deadline[f] = Never

\* Every task that is enqueued here runs to its end, or is stolen, or comes from
\* another worker to a worker that has stopped.
TasksFinish ==
    \A t \in Task : fate[t] = "queued"
      ~> (fate[t] \in {"done", "stolen"} \/ Forgotten \/ (Thieves /\ pc = "done"))

\* stop() returns: once a SingleThreaded worker is told to shut down, or the
\* task of stop() is in the queue of a MultiThreaded one, the loop ends, unless
\* another worker steals that task.
StopReturns ==
    (fate[StopTask] = "queued" \/ (shutdown /\ ~MultiThreaded))
      ~> (pc = "done" \/ fate[StopTask] = "stolen" \/ Forgotten)

-----------------------------------------------------------------------------
\* The worker implements FiberScheduler.
Nobody == MaxFibers + 1

FS == INSTANCE FiberScheduler WITH
        running <- IF InSuspend THEN Nobody ELSE current,
        ready   <- fibers,
        blocked <- {f \in Fiber : state[f] \in {"Yielded", "Waiting"}},
        pool    <- idleFibers \ {current},
        created <- workerFibers

\* Seen from its fibers the worker is a FiberScheduler: one fiber runs at a
\* time, woken fibers continue in the order in which they were woken, and the
\* main fiber leaves the loop with no fiber blocked.
ImplementsFiberScheduler == FS!Spec
=============================================================================
