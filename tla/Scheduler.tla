----------------------------- MODULE Scheduler ------------------------------
(***************************************************************************)
(* The Scheduler: the MultiThreaded workers 0..count-1, the threads        *)
(* (clients) that bind to it, each with a SingleThreaded worker of its     *)
(* own, the choice of a worker for a task, work stealing, and the          *)
(* destructor that stops and destroys the workers.                         *)
(*                                                                         *)
(* The tasks of this module do not wait, so that a worker needs its main   *)
(* fiber only and work_.num is the length of its task queue; the fibers    *)
(* are the subject of Worker.tla.  A critical section of a work_.mutex in  *)
(* which nothing else is shared is one step; a try_lock() may fail.        *)
(***************************************************************************)
EXTENDS Naturals, Sequences, FiniteSets

CONSTANTS
    Counts,     \* the values of cfg_.worker_thread.count
    MaxCount,   \* ... and the largest of them
    Client,     \* the threads that may bind()
    Task,       \* the tasks of the program
    SameThread, \* the tasks with Task::Flags::SameThread
    NoTask,
    Nobody,
    Slots,      \* spinning_workers_.size(): 8
    IndexMod    \* modulus of the unsigned index counters: 2^32

ASSUME CountAssumption == MaxCount \in Nat /\ Counts \subseteq 0..MaxCount

ASSUME SlotAssumption ==
    /\ Slots \in Nat \ {0}
    /\ IndexMod \in Nat \ {0}
    /\ IndexMod % Slots = 0

Worker  == 0..(MaxCount - 1)
Actor   == Worker \cup Client
AnyTask == Task \cup Worker     \* w \in Worker is the task stop() gives worker w
Empty   == MaxCount             \* the value -1 in spinning_workers_

ASSUME TaskAssumption ==
    /\ SameThread \subseteq Task
    /\ Task \cap Worker = {}
    /\ NoTask \notin AnyTask
    /\ Client \cap Worker = {}
    /\ Nobody \notin Actor

VARIABLES
    \* each actor
    pc,             \* control point of the actor's thread
    queue,          \* work_.tasks of its worker
    running,        \* the task it runs
    hand,           \* the task it enqueues or has stolen
    index,          \* index into spinning_workers_ it has drawn
    target,         \* the worker it enqueues to
    notifyAdded,    \* work_.notify_added of its worker
    wakeup,         \* its thread sleeps in work_.wait() and was notified
    shutdown,
    \* the scheduler
    count,          \* cfg_.worker_thread.count
    slots,          \* spinning_workers_
    nextSpin,       \* next_spinning_worker_index_
    nextEnqueue,    \* next_enqueue_index_
    bound,          \* the clients in single_threaded_workers_.by_tid
    \* the thread that destroys the scheduler
    dtor,           \* its control point
    stopping,       \* the worker it stops: its loop variable i
    unbound,        \* it sleeps on single_threaded_workers_.unbind, notified
    \* history
    home,           \* who scheduled each task
    done            \* the tasks that have returned

actorVars == <<pc, queue, running, hand, index, target, notifyAdded, wakeup, shutdown>>
schedVars == <<count, slots, nextSpin, nextEnqueue, bound>>
dtorVars  == <<dtor, stopping, unbound>>
histVars  == <<home, done>>
vars == <<actorVars, schedVars, dtorVars, histVars>>

Init ==
    /\ count \in Counts
    /\ pc = [a \in Actor |-> IF a \in Client THEN "unbound"
                             ELSE IF a < count THEN "relock" ELSE "absent"]
    /\ queue = [a \in Actor |-> <<>>]
    /\ running = [a \in Actor |-> NoTask]
    /\ hand = [a \in Actor |-> NoTask]
    /\ index = [a \in Actor |-> 0]
    /\ target = [a \in Actor |-> Empty]
    /\ notifyAdded = [a \in Actor |-> TRUE]
    /\ wakeup = [a \in Actor |-> FALSE]
    /\ shutdown = [a \in Actor |-> FALSE]
    /\ slots = [i \in 0..(Slots - 1) |-> Empty]
    /\ nextSpin = 0
    /\ nextEnqueue = 0
    /\ bound = {}
    /\ dtor = "idle"
    /\ stopping = count
    /\ unbound = FALSE
    /\ home = [t \in Task |-> Nobody]
    /\ done = {}

\* The actor's thread executes code of the program: a task, or what a client
\* does while it is bound.
InProgram(a) == pc[a] = "task" /\ running[a] \notin Worker

\* Its thread holds the work_.mutex of its worker between two steps.
Locked(w) == pc[w] \in {"beginSpinning", "publish"}

-----------------------------------------------------------------------------
\* The loop of a worker.

\* A loop that stops at once when it is told to.
HasWork_UntilShutdown(a) == queue[a] # <<>> /\ ~shutdown[a]

HasWork(a) == queue[a] # <<>>

\* The task is copied and stays in the queue.
Take_Copy(a) == queue' = queue

Take(a) == queue' = [queue EXCEPT ![a] = Tail(@)]

\* runUntilIdle() takes the next task, or returns; then runUntilShutdown()
\* returns or goes on to waitForWork(), which spins.
Continue(a) ==
    IF HasWork(a)
    THEN /\ pc' = [pc EXCEPT ![a] = "task"]
         /\ running' = [running EXCEPT ![a] = Head(queue[a])]
         /\ Take(a)
    ELSE /\ pc' = [pc EXCEPT ![a] = IF shutdown[a] THEN "exited" ELSE "beginSpinning"]
         /\ UNCHANGED <<running, queue>>

\* work_.wait() returns if there is work or the worker is to stop.
Enter(a) ==
    IF queue[a] # <<>> \/ shutdown[a]
    THEN /\ notifyAdded' = [notifyAdded EXCEPT ![a] = FALSE]
         /\ Continue(a)
    ELSE /\ notifyAdded' = [notifyAdded EXCEPT ![a] = TRUE]
         /\ pc' = [pc EXCEPT ![a] = "asleep"]
         /\ UNCHANGED <<running, queue>>

\* onBeginSpinning(): the index is drawn ...
BeginSpinning(w) ==
    /\ pc[w] = "beginSpinning"
    /\ index' = [index EXCEPT ![w] = nextSpin % Slots]
    /\ nextSpin' = (nextSpin + 1) % IndexMod
    /\ pc' = [pc EXCEPT ![w] = "publish"]
    /\ UNCHANGED <<queue, running, hand, target, notifyAdded, wakeup, shutdown,
                   count, slots, nextEnqueue, bound, dtorVars, histVars>>

\* ... the slot written, and the mutex released.
Publish(w) ==
    /\ pc[w] = "publish"
    /\ slots' = [slots EXCEPT ![index[w]] = w]
    /\ pc' = [pc EXCEPT ![w] = "spin"]
    /\ UNCHANGED <<queue, running, hand, index, target, notifyAdded, wakeup,
                   shutdown, count, nextSpin, nextEnqueue, bound, dtorVars, histVars>>

\* spinForWork() returns without a stolen task.
SpinEnds(w) ==
    /\ pc[w] = "spin"
    /\ pc' = [pc EXCEPT ![w] = "relock"]
    /\ UNCHANGED <<queue, running, hand, index, target, notifyAdded, wakeup,
                   shutdown, schedVars, dtorVars, histVars>>

\* A thief that does not look at the flags of the task.
MayStealFrom_AnyTask(v) == queue[v] # <<>>

MayStealFrom(v) == queue[v] # <<>> /\ Head(queue[v]) \notin SameThread

\* stealWork() and steal(): the first task of v, unless it is to stay there.
Steal(w, v) ==
    /\ pc[w] = "spin"
    /\ v # w
    /\ ~Locked(v)
    /\ MayStealFrom(v)
    /\ hand' = [hand EXCEPT ![w] = Head(queue[v])]
    /\ Take(v)
    /\ pc' = [pc EXCEPT ![w] = "stolen"]
    /\ UNCHANGED <<running, index, target, notifyAdded, wakeup, shutdown,
                   schedVars, dtorVars, histVars>>

\* spinForWork() puts the stolen task into the thief's queue and returns.
KeepStolen(w) ==
    /\ pc[w] = "stolen"
    /\ queue' = [queue EXCEPT ![w] = Append(queue[w], hand[w])]
    /\ hand' = [hand EXCEPT ![w] = NoTask]
    /\ pc' = [pc EXCEPT ![w] = "relock"]
    /\ UNCHANGED <<running, index, target, notifyAdded, wakeup, shutdown,
                   schedVars, dtorVars, histVars>>

\* The thread takes its mutex and enters work_.wait(), in run() when it starts
\* and in waitForWork() after spinning.
Relock(w) ==
    /\ pc[w] = "relock"
    /\ wakeup' = [wakeup EXCEPT ![w] = FALSE]
    /\ Enter(w)
    /\ UNCHANGED <<hand, index, target, shutdown, schedVars, dtorVars, histVars>>

\* The sleeping thread was notified.
Wake(w) ==
    /\ pc[w] = "asleep"
    /\ wakeup[w]
    /\ wakeup' = [wakeup EXCEPT ![w] = FALSE]
    /\ Enter(w)
    /\ UNCHANGED <<hand, index, target, shutdown, schedVars, dtorVars, histVars>>

\* It wakes up for no reason and finds its predicate true.
SpuriousWake(w) ==
    /\ pc[w] = "asleep"
    /\ ~wakeup[w]
    /\ queue[w] # <<>> \/ shutdown[w]
    /\ Enter(w)
    /\ UNCHANGED <<hand, index, target, wakeup, shutdown, schedVars, dtorVars, histVars>>

\* A task returns; stop()'s task sets shutdown of the worker it was made for,
\* whoever runs it.
TaskReturns(a) ==
    /\ pc[a] = "task"
    /\ running[a] # NoTask
    /\ shutdown' = IF running[a] \in Worker
                   THEN [shutdown EXCEPT ![running[a]] = TRUE] ELSE shutdown
    /\ done' = done \cup {running[a]}
    /\ running' = [running EXCEPT ![a] = NoTask]
    /\ pc' = [pc EXCEPT ![a] = "afterTask"]
    /\ UNCHANGED <<queue, hand, index, target, notifyAdded, wakeup, schedVars,
                   dtorVars, home>>

\* runUntilIdle() after a task: the mutex is taken again.
AfterTask(a) ==
    /\ pc[a] = "afterTask"
    /\ Continue(a)
    /\ UNCHANGED <<hand, index, target, notifyAdded, wakeup, shutdown, schedVars,
                   dtorVars, histVars>>

-----------------------------------------------------------------------------
\* Scheduler::enqueue(), called by schedule().

\* A task that must stay on its thread, and every task of a scheduler without
\* worker threads, goes to the caller's own worker, whose thread is awake.
Schedule(a, t) ==
    /\ InProgram(a)
    /\ home[t] = Nobody
    /\ home' = [home EXCEPT ![t] = a]
    /\ IF t \in SameThread \/ count = 0
       THEN /\ queue' = [queue EXCEPT ![a] = Append(queue[a], t)]
            /\ UNCHANGED <<hand, pc>>
       ELSE /\ hand' = [hand EXCEPT ![a] = t]
            /\ pc' = [pc EXCEPT ![a] = "pick"]
            /\ UNCHANGED queue
    /\ UNCHANGED <<running, index, target, notifyAdded, wakeup, shutdown,
                   schedVars, dtorVars, done>>

\* A signed counter.
Decrement_Signed(i) == i - 1

Decrement(i) == (i + IndexMod - 1) % IndexMod

\* i = --next_spinning_worker_index_ % spinning_workers_.size()
Pick(a) ==
    /\ pc[a] = "pick"
    /\ nextSpin' = Decrement(nextSpin)
    /\ index' = [index EXCEPT ![a] = nextSpin' % Slots]
    /\ pc' = [pc EXCEPT ![a] = "exchange"]
    /\ UNCHANGED <<queue, running, hand, target, notifyAdded, wakeup, shutdown,
                   count, slots, nextEnqueue, bound, dtorVars, histVars>>

\* idx = spinning_workers_[i].exchange(-1)
Exchange(a) ==
    /\ pc[a] = "exchange"
    /\ target' = [target EXCEPT ![a] = slots[index[a]]]
    /\ slots' = [slots EXCEPT ![index[a]] = Empty]
    /\ pc' = [pc EXCEPT ![a] = IF slots[index[a]] = Empty THEN "roundRobin" ELSE "tryLock"]
    /\ UNCHANGED <<queue, running, hand, index, notifyAdded, wakeup, shutdown,
                   count, nextSpin, nextEnqueue, bound, dtorVars, histVars>>

\* idx = next_enqueue_index_++ % cfg_.worker_thread.count
RoundRobin(a) ==
    /\ pc[a] = "roundRobin"
    /\ target' = [target EXCEPT ![a] = nextEnqueue % count]
    /\ nextEnqueue' = (nextEnqueue + 1) % IndexMod
    /\ pc' = [pc EXCEPT ![a] = "tryLock"]
    /\ UNCHANGED <<queue, running, hand, index, notifyAdded, wakeup, shutdown,
                   count, slots, nextSpin, bound, dtorVars, histVars>>

\* enqueueAndUnlock() that forgets to notify.
MustNotify_Never(w) == FALSE

MustNotify(w) == notifyAdded[w]

\* tryLock() succeeds and enqueueAndUnlock() follows, up to its unlock ...
EnqueueAndUnlock(a) ==
    /\ pc[a] = "tryLock"
    /\ ~Locked(target[a])
    /\ queue' = [queue EXCEPT ![target[a]] = Append(queue[target[a]], hand[a])]
    /\ hand' = [hand EXCEPT ![a] = NoTask]
    /\ pc' = [pc EXCEPT ![a] = IF MustNotify(target[a]) THEN "notify" ELSE "task"]
    /\ UNCHANGED <<running, index, target, notifyAdded, wakeup, shutdown,
                   schedVars, dtorVars, histVars>>

\* ... or it fails, and another worker is chosen.
TryLockFails(a) ==
    /\ pc[a] = "tryLock"
    /\ pc' = [pc EXCEPT ![a] = "pick"]
    /\ UNCHANGED <<queue, running, hand, index, target, notifyAdded, wakeup,
                   shutdown, schedVars, dtorVars, histVars>>

\* added.notify_one() at the end of enqueueAndUnlock().
NotifyOne(a) ==
    /\ pc[a] = "notify"
    /\ wakeup' = [wakeup EXCEPT ![target[a]] = @ \/ pc[target[a]] = "asleep"]
    /\ pc' = [pc EXCEPT ![a] = "task"]
    /\ UNCHANGED <<queue, running, hand, index, target, notifyAdded, shutdown,
                   schedVars, dtorVars, histVars>>

-----------------------------------------------------------------------------
\* Binding, unbinding and destruction.

\* A thread binds before the scheduler is being destroyed.
Bind(c) ==
    /\ pc[c] = "unbound"
    /\ dtor = "idle"
    /\ bound' = bound \cup {c}
    /\ pc' = [pc EXCEPT ![c] = "task"]
    /\ UNCHANGED <<queue, running, hand, index, target, notifyAdded, wakeup,
                   shutdown, count, slots, nextSpin, nextEnqueue, dtorVars, histVars>>

\* unbind() calls stop(), which runs what is left in the client's own queue ...
Unbind(c) ==
    /\ c \in Client
    /\ pc[c] = "task"
    /\ running[c] = NoTask
    /\ shutdown' = [shutdown EXCEPT ![c] = TRUE]
    /\ pc' = [pc EXCEPT ![c] = "afterTask"]
    /\ UNCHANGED <<queue, running, hand, index, target, notifyAdded, wakeup,
                   schedVars, dtorVars, histVars>>

\* The test comes before the removal.
IsLast_TooEarly(c) == bound = {}

IsLast(c) == bound \ {c} = {}

\* ... then removes the worker and wakes the destructor if it was the last one.
Unregister(c) ==
    /\ c \in Client
    /\ pc[c] = "exited"
    /\ bound' = bound \ {c}
    /\ unbound' = (unbound \/ (IsLast(c) /\ dtor = "asleep"))
    /\ pc' = [pc EXCEPT ![c] = "left"]
    /\ UNCHANGED <<queue, running, hand, index, target, notifyAdded, wakeup,
                   shutdown, count, slots, nextSpin, nextEnqueue, dtor, stopping, histVars>>

AllUnbound == bound = {}

\* ~Scheduler() waits until by_tid is empty.
WaitUnbound ==
    /\ dtor = "idle" \/ (dtor = "asleep" /\ unbound)
    /\ unbound' = FALSE
    /\ dtor' = IF AllUnbound THEN "stop" ELSE "asleep"
    /\ UNCHANGED <<actorVars, schedVars, stopping, histVars>>

\* stop() of the next worker, from the last to the first: enqueue(Task &&) ...
StopWorker ==
    /\ dtor = "stop"
    /\ stopping > 0
    /\ ~Locked(stopping - 1)
    /\ stopping' = stopping - 1
    /\ queue' = [queue EXCEPT ![stopping - 1] = Append(@, stopping - 1)]
    /\ dtor' = IF MustNotify(stopping - 1) THEN "notify" ELSE "join"
    /\ UNCHANGED <<pc, running, hand, index, target, notifyAdded, wakeup,
                   shutdown, schedVars, unbound, histVars>>

StopNotifies ==
    /\ dtor = "notify"
    /\ wakeup' = [wakeup EXCEPT ![stopping] = @ \/ pc[stopping] = "asleep"]
    /\ dtor' = "join"
    /\ UNCHANGED <<pc, queue, running, hand, index, target, notifyAdded, shutdown,
                   schedVars, stopping, unbound, histVars>>

\* ... and thread_.join().
Join ==
    /\ dtor = "join"
    /\ pc[stopping] = "exited"
    /\ dtor' = "stop"
    /\ UNCHANGED <<actorVars, schedVars, stopping, unbound, histVars>>

\* All workers are stopped: they are destroyed.
Destroy ==
    /\ dtor = "stop"
    /\ stopping = 0
    /\ dtor' = "destroyed"
    /\ UNCHANGED <<actorVars, schedVars, stopping, unbound, histVars>>

-----------------------------------------------------------------------------
\* What the thread of a worker does by itself ...
WorkerStep(w) ==
    \/ BeginSpinning(w) \/ Publish(w) \/ SpinEnds(w) \/ KeepStolen(w)
    \/ Relock(w) \/ Wake(w)

\* ... and any thread, in a task or in the code of a client.
ActorStep(a) ==
    \/ TaskReturns(a) \/ AfterTask(a)
    \/ Pick(a) \/ Exchange(a) \/ RoundRobin(a) \/ EnqueueAndUnlock(a) \/ NotifyOne(a)

DtorStep == StopWorker \/ StopNotifies \/ Join \/ Destroy

Next ==
    \/ \E w \in Worker : WorkerStep(w) \/ SpuriousWake(w)
    \/ \E w, v \in Worker : Steal(w, v)
    \/ \E a \in Actor : ActorStep(a) \/ TryLockFails(a)
    \/ \E a \in Actor, t \in Task : Schedule(a, t)
    \/ \E c \in Client : Bind(c) \/ Unbind(c) \/ Unregister(c)
    \/ WaitUnbound
    \/ DtorStep

Spec == Init /\ [][Next]_vars

\* Threads are scheduled and tasks return, a try_lock() that is repeated
\* succeeds in the end, clients unbind, and the destructor goes on once begun.
Fairness ==
    /\ \A w \in Worker : WF_vars(WorkerStep(w))
    /\ \A a \in Actor : WF_vars(ActorStep(a)) /\ SF_vars(EnqueueAndUnlock(a))
    /\ \A c \in Client : WF_vars(Unbind(c)) /\ WF_vars(Unregister(c))
    /\ WF_vars(dtor # "idle" /\ WaitUnbound)
    /\ WF_vars(DtorStep)

FairSpec == Spec /\ Fairness

-----------------------------------------------------------------------------
Point == {"absent", "relock", "asleep", "beginSpinning", "publish", "spin", "stolen",
          "task", "afterTask", "exited", "unbound", "left",
          "pick", "exchange", "roundRobin", "tryLock", "notify"}

\* Types of the variables; the two index counters are unsigned and wrap around.
TypeOK ==
    /\ count \in Counts
    /\ pc \in [Actor -> Point]
    /\ queue \in [Actor -> Seq(AnyTask)]
    /\ running \in [Actor -> AnyTask \cup {NoTask}]
    /\ hand \in [Actor -> AnyTask \cup {NoTask}]
    /\ index \in [Actor -> 0..(Slots - 1)]
    /\ target \in [Actor -> Worker \cup {Empty}]
    /\ notifyAdded \in [Actor -> BOOLEAN]
    /\ wakeup \in [Actor -> BOOLEAN]
    /\ shutdown \in [Actor -> BOOLEAN]
    /\ slots \in [0..(Slots - 1) -> Worker \cup {Empty}]
    /\ nextSpin \in 0..(IndexMod - 1)
    /\ nextEnqueue \in 0..(IndexMod - 1)
    /\ bound \subseteq Client
    /\ dtor \in {"idle", "asleep", "stop", "notify", "join", "destroyed"}
    /\ stopping \in 0..count
    /\ unbound \in BOOLEAN
    /\ home \in [Task -> Actor \cup {Nobody}]
    /\ done \subseteq AnyTask

\* The places where a task is: queues, hands, stacks and the finished tasks.
InQueue(a, t) == \E i \in 1..Len(queue[a]) : queue[a][i] = t

IsAt(t, p) ==
    CASE p[1] = "queue"   -> InQueue(p[2], t)
      [] p[1] = "hand"    -> hand[p[2]] = t
      [] p[1] = "running" -> running[p[2]] = t
      [] p[1] = "done"    -> p[2] = t /\ t \in done

Place == ({"queue", "hand", "running"} \X Actor) \cup ({"done"} \X Task)

\* Stealing and enqueuing neither lose nor duplicate a task: a task that was
\* scheduled is in exactly one place, and once in a queue.
TaskConservation ==
    \A t \in Task :
       /\ home[t] = Nobody => \A p \in Place : ~IsAt(t, p)
       /\ home[t] # Nobody => \E p \in Place : \A q \in Place : IsAt(t, q) <=> q = p
       /\ \A a \in Actor : \A i, j \in 1..Len(queue[a]) :
            queue[a][i] = t /\ queue[a][j] = t => i = j

\* The workers are destroyed when no thread runs a task, schedules one, steals
\* or is about to notify a worker, and no thread is bound.  With at most one
\* worker thread, so that nobody steals, all scheduled tasks are finished then,
\* as the comment in ~Scheduler() says.
DestroyedWhenDone ==
    dtor = "destroyed" =>
      /\ \A w \in 0..(count - 1) : pc[w] = "exited"
      /\ \A c \in Client : pc[c] \in {"unbound", "left"}
      /\ count < 2 => \A t \in Task : home[t] = Nobody \/ t \in done

\* Scheduled tasks are run to their end, as long as nobody destroys the scheduler.
TasksRun ==
    (\E t \in Task : home[t] # Nobody /\ t \notin done)
      ~> (dtor # "idle" \/ \A t \in Task : home[t] = Nobody \/ t \in done)

\* ~Scheduler() of a scheduler with at most one worker thread returns ...
LoneDestructorReturns == (count < 2 /\ dtor # "idle") ~> (dtor = "destroyed")

\* ... and ~Scheduler() is meant to return always: Worker::stop() waits for
\* its thread with thread_.join() because the task it enqueues ends the loop.
DestructorReturns == (dtor # "idle") ~> (dtor = "destroyed")

-----------------------------------------------------------------------------
TP == INSTANCE TaskPool WITH
        running <- [a \in Actor |-> IF running[a] \in Task THEN running[a] ELSE NoTask],
        done <- done \cap Task

\* The queues, the stealing and the loops of the workers implement TaskPool: a
\* task runs once, on one thread, and stays on its thread if it must.
ImplementsTaskPool == TP!Spec
=============================================================================
