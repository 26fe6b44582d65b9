# TLA+ verification of miniMarl

miniMarl is a C++ library of stackful coroutines (fibers): a scheduler with
worker threads, synchronisation objects that suspend a fiber and not its
thread, and the containers and allocators they are built on. This directory
has TLA+ models of its parts, the TLC configurations that check them, and
TLAPS proofs for the worker, the scheduler, everything that synchronises, the
context switch, the allocator and the vector.
`PROJECT.json` lists the runs, theorems, mutants, hazards and findings, and maps
each definition to its source.

## The parts and how they interact

| part | source | module | status |
|---|---|---|---|
| Worker: fibers, suspension, queue, shutdown | `scheduler.cpp`, `scheduler.hpp` | `Worker`, abstract `FiberScheduler` | modelled, proved |
| Scheduler: bind, enqueue, stealing, destructor | same | `Scheduler`, abstract `TaskPool` | modelled, proved |
| ConditionVariable | `condition_variable.hpp` | `ConditionVariable`, `ConditionVariableClient` | modelled, proved |
| WaitGroup | `wait_group.hpp` | `WaitGroup` | modelled, proved |
| Event, Event::any | `event.hpp` | `Event`, `EventAny` | modelled, proved |
| DAG | `dag.hpp` | `Dag` | modelled, proved |
| blocking_call | `blocking_call.hpp` | `BlockingCall` | modelled, proved |
| vector | `containers.hpp` | `Vector` | modelled, proved |
| list | `containers.hpp` | `List` | modelled |
| Allocators, Deleter | `memory.hpp`, `memory.cpp` | `Allocator` | partly; placement and release proved |
| Thread::Affinity and its policies | `thread.cpp`, `thread.hpp` | `Threads` | modelled |
| Thread | same | `Threads`; start and join also in `Scheduler` | partly |
| OSFiber, context switch for x86-64 | `osfiber_asm.hpp`, `arch/` | `OSFiber` | modelled, proved |
| mutex, Task | `mutex.hpp`, `task.hpp` | in their users | partly |
| parallelize, Finally, defer | `parallelize.hpp`, `finally.hpp`, `defer.hpp` | | not modelled |
| ucontext fibers, debug, trace, macros | `osfiber_ucontext.hpp`, `debug`, `trace`, `tsa`, ... | | not modelled |

A caller schedules tasks. `Scheduler::enqueue` gives each one to a worker; a
worker runs tasks on fibers, and when a task waits it switches to another
fiber. `ConditionVariable` is how a task waits: it suspends through
`Fiber::wait` and resumes through `Fiber::notify`. `WaitGroup` and `Event` are
predicates with a condition variable, and `DAG` and `blocking_call` are built
on `WaitGroup`. Below all this are the allocator, the two containers, the
threads and the context switch.

The modules compose in two ways. `ConditionVariableClient`, `WaitGroup` and
`Event` EXTEND `ConditionVariable` and interleave its steps with their own.
`ConditionVariable`, `Dag`, `BlockingCall` and `Scheduler` use what the layer
below promises: a suspended fiber resumes after a notification
(`FiberScheduler`, which `Worker` is shown to implement), and a count of zero
ends `WaitGroup::wait` (`WaitGroup`). In the same way `ConditionVariable` takes
`waiting_` as a sequence, which `List` shows it to be, and `Worker` takes a
switch of fibers as one step that leaves the others alone, which `OSFiber`
shows.

## The modules

**Worker** has the state of one worker: `work_` (queues, `num`,
`notify_added`), `WaitingFibers` with its two containers, `idle_fibers_`,
`num_blocked_fibers`, and for each fiber its state, the call it will return to
and its task. Actions are the pieces of `run`, `runUntilShutdown`,
`waitForWork`, `spinForWork`, `runUntilIdle`, `suspend`, `wait` and `stop`
between two points at which another thread can act, that is, at which
`work_.mutex` is free or an unlocked variable is read. In `wait` the test of the
predicate, the change from the caller's lock to `work_.mutex` and the new state of
the fiber are one step, because one of the two locks is held all along: a notifier
needs the first to change the predicate and the second to notify. `ConditionVariable`
does not rely on this. Other threads enqueue,
notify, steal and advance the clock. `mode` (`mode_`) is chosen in `Init`, so
that every run covers both kinds of workers. `FiberScheduler` is the promise to a
waiting fiber; `ImplementsFiberScheduler` is the refinement.

**Scheduler** has several workers with less inside (a task runs in one go), and
the code that picks a worker: the ring of spinning hints, round robin, a
failing `tryLock`, `stealWork`; `bind`, `unbind` and the destructor's steps.
The number of worker threads is chosen in `Init`; workers beyond it are
"absent". `TaskPool` is the promise that a task runs once, on one thread, and on
its own thread if it must.

**ConditionVariable** splits each call at the points at which `mutex_` or the
caller's lock changes hands or a counter is read. The look at the predicate
and the suspension are two steps, because `WaitGroup` changes its counter
without the lock. `woken` stands for the layer
below: a fiber in it has been queued by its worker, a thread in it has been
woken by `std::condition_variable`, possibly for no reason. A fiber that
resumes after its deadline returns false without a look at the predicate; a
thread returns the predicate. Both are what the code does.

**ConditionVariableClient** is a program around a bare condition variable, like
those of the tests: callers take the lock and wait for an item, or put an item
and notify, with or without the lock. All of them call `notify_one`, or all
`notify_all`.

**WaitGroup** and **Event** add a counter or a flag and the calls; the mode of
an event is chosen in `Init`. **EventAny** has
the stack of nested calls of `signal` and `any`, and one mutex per event.

**Dag** builds every acyclic graph within its bounds and runs it; a strand is a
chain of `invoke` calls on one stack. Cycles are excluded: `addDependency` does
not test for them, and the library is about acyclic graphs.

**BlockingCall** has the calling tasks, their threads and the owner who destroys
the scheduler. It assumes one worker thread, because with two the destructor
may lose tasks (see the disagreements), and callers that are bound. What it takes
from `Worker` is when `stop` returns (`StoppedMeansDrained`).

**MCCalls** puts `EventAny` and `BlockingCall` side by side for one run, each with
its own fairness. They share no state, so a behaviour takes steps of one of them,
chosen in `Init`, only.

**Vector** keeps, for each slot of storage, whether an object lives there, and
next to it what `std::vector` would hold. Every call is made, also those which the
code mishandles, with what the code makes of them: `sound` says whether every
access so far was to a live object, `misuse` which of three kinds of such calls
there were, and a vector that counts elements at `nullptr` has `Crashed` the
program.
**List** has the links of the entries, the free list and the list in use as the
code has them, and next to them the order `std::list` would have.
**Allocator** has the addresses of a small machine, the pointer saved behind a
payload and guard pages.

**Threads** has an affinity that a program puts together by any calls, the
policy made of it, and then the threads of the workers: `Impl` with its members
in the order in which they are initialised, the temporary `Thread` of
`Worker::start`, the move assignment, and `join`. The new thread runs beside the
constructor that has started it.

**OSFiber** has the registers of the processor, the context of each fiber and the
words on the stacks. `CreateFiber` prepares a context, `SwitchTo` is the call of
`marl_fiber_swap` with the return address it pushes; between switches the
running function uses registers that calls preserve, pushes and pops.

**MCFoundation** puts these five side by side for one run. They share no state, so
a behaviour takes steps of one of them, chosen in `Init`, only.

Operators named `X_Variant` before a definition `X` are plausible mistakes in
the code that `X` models. They are used by no specification; each shows that a
property can fail.

## What the runs check

Every run of TLC is exhaustive within its bounds.

| run | states | checks |
|---|---|---|
| `worker` | 171,151 | a worker in both modes, with thieves and needless notifications: fibers and tasks are in one place each, counters and both containers of timeouts agree with them, no wake-up or notification is lost, nothing is left at the end, `FiberScheduler` is implemented; a timed wait returns, tasks finish, `stop` returns |
| `scheduler` | 194,146 | no, one or two worker threads, a client and three tasks: tasks are conserved, stay on their thread if they must (`TaskPool`), and all run; workers are destroyed when nobody uses them and, without stealing, all tasks are done; without stealing the destructor returns |
| `wait_group` | 15,225 | a zero reached outside the lock is announced; `wait` returns |
| `condition_variable` | 491,029 | counters and list agree with who waits, although notifiers look at them without the lock; `notify_all` forgets nobody; `wait` and `wait_until` return what they should, with the lock |
| `event` | 99,239 | an Auto signal does not lie idle while somebody waits; a Manual signal releases all, timeouts or not |
| `dag` | 64,724 | order, exactly one call per node, completeness, also of a second run; `run` returns |
| `calls` | 262,691 | `any`: signals are passed on whatever the order; calls return. `blocking_call`: the scheduler outlives the threads of calls and loses no task; calls return, after their thread |
| `foundation` | 455,649 | allocator: alignment and disjointness, statistics, matching release; vector: contents and lifetimes of elements after every call, and which calls break them; list: order, and no entry lost or in both lists; affinities: what `add` and `remove` give; threads: an `Impl` is complete when its thread uses it and has one owner, `oneOf` spreads the threads evenly; fibers: one that is not running keeps its registers, its stack and the place where it will resume |

Deadlock is checked except in runs whose callers have a bounded number of calls
and simply stop when they are used up; the cfg files of those say
`CHECK_DEADLOCK FALSE`, and for the concurrent parts the liveness runs check
that nobody is stuck in a call.

### Disagreements between code and documentation

Four runs end in a counterexample to what a comment or a test says:

- `scheduler_stop_stolen`: with two worker threads the task that `stop` enqueues
  is stolen, its thief sets `shutdown` of the other worker without a
  notification, and the destructor never returns.
- `event_auto_timeout`: a waiter that has timed out takes the notification of an
  Auto event and not its signal; another waiter stays suspended.
- `condition_variable_one`: a fiber leaves `waiting_` only when its wait returns.
  Two calls of `notify_one` in a row notify the same fiber, the front of the
  list; the second is dropped, and another fiber stays suspended although its
  predicate is true and it was meant. With `notify_all` nobody is forgotten.
- `vector_assign`: the tests `Copy` and `Move` assign three elements to a vector
  with one element in a buffer for two. `operator=` calls `free`, which destroys
  the element and keeps `count_`; `reserve` then moves from the destroyed element
  and destroys it again, and a new one is constructed over what was moved. The
  vector holds the right elements in the end, as the tests expect.

The passing runs stay clear of some more, which the models show when they are
not kept away from them:

- With two worker threads a task scheduled while the workers are stopped one by
  one may never run, although a comment in `~Scheduler` says that all tasks are
  waited for (`DestroyedWhenDone` without `count < 2`).
- A wait on a fiber reports a timeout although its predicate is true, if the
  deadline passes before the notified fiber resumes (`WaitTimesOut` in `Worker`;
  the comments on `wait_for` and `wait_until` say otherwise). A thread looks
  again; `ResultIsRight` says exactly this of both.
- `Affinity::remove` puts the last core in the place of the one it removes and
  goes on behind it, so a last core that should go, too, stays.
  `AffinityIsRight` says when this cannot happen (`MovesNoHit`).
- `Affinity::all` counts the cores of the mask and numbers them from 0, so with a
  mask of cores 0 and 2 it names 0 and 1 (`UseAll`).
- `operator=` of a vector with an allocation leaves it without storage, because
  `free` keeps `capacity_` and `count_`: unless the vector was empty and has to
  grow, `reserve` makes none, or moves from elements at `nullptr`. The program ends when an element is used; after
  the assignment of an empty vector this is the next `push_back` or `resize`.
  `push_back` of an element of the same vector, when it has to grow, copies the
  element after its destruction. `foundation` makes these calls;
  `HoldsWhatItShould` says which part of it holds after each kind (`misuse`).
- A `Deleter` releases over-aligned objects with a pointer `malloc` has not
  returned, because it does not set `request.alignment`. `foundation` has no
  such objects; with `DeleterForAll = TRUE` `ReleasesBlocks` fails.

## Bounds

Bounds are CONSTANTS, marked "bound" where they are declared. They are chosen
so that the cases that matter occur: two or three fibers and tasks (one waits,
one notifies, one is stolen or idle), two workers where stealing is the
question, a fiber and a thread at each condition variable, timeouts that can
pass at any moment, four nodes of a graph (a diamond, and a node with a double
dependency), calls of `any` with up to two events, of which one may be given twice
or come from `any` itself, enough elements for a vector to outgrow its buffer and its first
allocation (a vector gets more than `MaxPushed` elements by `resize`, and by `push_back`
only where it has to grow) and for a list to grow twice, three threads for two cores of a policy, three fibers that switch
in any order. `Slots` (8 in the code), `IndexMod` (2^32), `MinCapacity`, `MinGrow`, the page size and the pointer size are
smaller than in the code, so that limits are reached with few elements. The
index counters are only used modulo `Slots` and the number of workers, so two
values are enough for two of each. Three tasks are the fewest with which a task
that must stay on its thread can meet a thief: a worker spins only after its
first task. `scheduler` has one client that binds; several threads that bind and
unbind at once, and a destructor that finds some of them bound, occur in `calls`.
`foundation` uses symmetry of the allocator's callers and of the vectors; no liveness property is
checked with it. One register stands for all that calls preserve:
`marl_fiber_swap` treats them alike.

## Fairness

- Workers and started threads go on (weak fairness): the operating system runs
  them.
- A mutex that is released again and again is acquired by each caller that asks
  (strong fairness of the steps of a call). `std::mutex` does not promise it in
  so many words; without it a thread that is woken spuriously for ever could
  keep the lock from all others.
- A predicate is made true and its notification delivered where a liveness
  property is about what follows. Nobody is obliged to call `signal`, `add` or
  `schedule`; a caller that has called `add` calls `done`.
- The clock advances in `worker`.
- Fibers are not preempted; a task ends or waits.

## Proofs

TLAPS proves, for every value of the constants that satisfies the named
assumptions, the results listed under "theorems" in `PROJECT.json`. Each rests on
an inductive invariant that says more than the property.

**The worker** (`WorkerProofs`). The invariant `IInv` gives `TypeOK`,
`FiberPlacement`, `CountersInSync` and `WaitingInSync`. None of the four is
inductive alone: where a fiber is depends on the program counter of the worker
and on the call each fiber will return to, so `IInv` adds which states go with
which `pc`, and that `num` and the queues change together. Then
`NoLostWakeup` and `NoLostNotify`, and, with `WakeInv` and `TaskInv` on top of
`IInv`, `TaskPlacement` and `StoppedMeansDrained`. The argument for the last is
that the loop ends only with `num` and `numBlocked` zero, which by
`CountersInSync` means that no fiber and no task is left. If other workers steal
and enqueue, it says nothing of tasks that come later. All of this holds for both
modes, with and without other workers.

The refinement `ImplementsFiberScheduler` is proved from `IInv`, too. The running
fiber of `FiberScheduler` is the current one, or nobody while the worker is inside
`suspend`; blocked are the fibers that are Yielded or Waiting, and the pool is
`idle_fibers_` without the current fiber. Every action is a step of `FiberScheduler`
or leaves these alone; the invariant is needed where a fiber leaves one of them for
another, since `FiberPlacement` says that it is in no third.

**The scheduler** (`SchedulerProofs`). `TypeOK` comes with
`ControlInv`, which says what each control point of a thread and of the destructor
comes with (a task in hand, a worker chosen, a slot drawn). That the indices stay
in their arrays when the unsigned counters wrap around needs
`IndexMod % Slots = 0`, as 2^32 and 8 are. For `TaskConservation` the invariant
`PlaceInv` counts places: a task that was scheduled and is not done is in one
queue, in one hand or on one thread, and once there. One lemma (`PlaceMoves`) says
that a step that moves one task between two places keeps this; each action is then
shown to be such a step. The refinement `ImplementsTaskPool` adds `StayInv`: a task
with `SameThread` is with the one who scheduled it. `DestroyedWhenDone` rests on
`DtorInv`, which follows the loop of the destructor over the workers: those behind
it have ended. With one worker at most, `StopInv` and `EmptyInv` say that the task
of `stop` comes last in the only queue, because the clients have left before, and
that a worker leaves its loop with its queue empty.

**The condition variable** (`ConditionVariableProofs`, and its three users below).
`CVInv` says who holds which of the two locks at each point of a call, that
`waiting_` has no fiber twice, and that both counters and `waiting_` are what
`WaitersCounted` says. `ConditionVariableProofs` shows that each step of a call
keeps `CVInv`, and what it does to the set of those who are suspended and to those
whom a notifier has still to reach; the users cite these lemmas and know nothing
else of the calls. The set of callers is finite (`CallerAssumption`), since its
members are counted.

- `WaitGroupProofs`: of `ConditionVariableClient`, `WaitersCounted`,
  `NobodyForgotten` and `ResultIsRight`; of `WaitGroup`, `ZeroIsAnnounced`. `done`
  lowers the counter without the lock, so a waiter may be between its look and its
  suspension when the counter becomes zero; `WGInv` says that then somebody is on
  the way to the lock in order to notify. That there is such a zero only once needs
  the counter to be the number of calls of `done` that are owed.
- `EventProofs`: `SignalReleasesAll`, with timeouts, and `SignalIsTaken` under the
  assumption that waits on an Auto event have none (`"Auto" \notin TimedModes`).
  The assumption cannot be dropped: `event_auto_timeout` is the counterexample.
  `AutoInv` says that while the flag is set and somebody is suspended, somebody is
  woken or holds the lock and will take the signal or notify.

**The graph** (`DagProofs`): `DependenciesFirst` and `RunComplete`, for every acyclic
graph, every number of runs and every interleaving of the strands. `DagInv` has
four parts. The graph: it has a rank (a number for each node that grows along the
edges; with it nothing that is called leads back to the root), and `numIns` counts the edges into a
node. `build`: each node with more than one edge has a counter of its own. The
run: the counter of a node is the number of its edges of which `notify` was not
told, so that exactly one strand sees it become zero; a ready node is ready in one
place, as the `toInvoke` of one strand or the node of one; a node is called or
ready when all its edges are told and, the root aside, only then. The WaitGroup:
its counter is the number of tasks that have not called `done` and of tasks about
to be scheduled. When it is zero no strand is active, so no node is ready, and
every edge of a node that was called is told. So the nodes called include the root
and every node all of whose parents are among them, and by the invariant no others
than follow from the root.

**Calls under way** (`CallProofs`).
Of `EventAny`, `DepsAreTold`, for any number of events and callers and any nesting
of events from `any` in others. Calls of `signal` nest, so `AnyInv` speaks of every
frame of every stack: which mutex it holds, that no other frame holds the same, that
a frame of `signal` which holds the mutex of its event has yet to signal those
of the deps that are not told, and that a frame of `any` with the mutex of a
signalled event has told the new event before it is appended to the deps.
Of `blocking_call`, `SchedulerOutlivesCalls` and `ReturnsAfterThread`. The invariant
says that a calling task is in `wait` until its thread has called `done`, which keeps
the worker, and so the destructor, from finishing.

**The parts below** (`FoundationProofs`).

- The context switch: `FiberIsIntact`, for any number of fibers, registers and words
  on the stacks. `OSFiberInv` says how deep each stack is (`StackPointer(f)` is the
  address of the last word pushed, `Slot(f, n)`), that every word a fiber has pushed is
  still where it was pushed (`Words`), and that the context of a fiber that does not
  run is the one it left with or was made with (`Resumable`). A step of the running
  fiber writes to its own slots only, and slots of different fibers differ, because
  their stacks do not meet and a stack has room for `MaxFrames` words and what
  `marl_fiber_set_target` and the call put there. This and that sizes are multiples of
  16 and fit in 32 bits is what `OSFiberAssumption` says.
- The allocator: `PayloadIsOwn`, for any threads, types and sizes of pages and pointers,
  and `ReleasesBlocks` if `make_unique_n` and `make_shared` are used for types that
  `malloc` aligns well enough (`~DeleterForAll`; the other case is among the
  disagreements). `AllocatorInv` says of every allocation, held or on its way to
  `free`, that it lies in its block where `allocate` puts it, with the base saved
  behind it (`Placed`); that blocks do not meet; and that a block has one allocation
  and one saved pointer (`OneEach`), without which a release could take the saved
  pointer of another. That the payload fits in the block whatever the base is
  rests on lemmas about `alignUp`, division and pages. Alignments are powers of two
  in C++; `AllocatorAssumption` says as much of this as is needed: a smaller one divides
  a larger one.
- The vector: `HoldsWhatItShould`, for any vectors, values and capacities, and without
  an assumption on the calls. `VectorInv` says that the
  fields of a vector are those of `InBuffer(e, n)` or `OnHeap(e, c, n)`, where `e` is
  what `std::vector` would hold, and those of a new one if there is no vector. After
  an assignment to a vector with an allocation they may also be those of
  `NoStorage(c)`, which has no elements, or the program has crashed.
  `reserve`, `resize`, `free` and the assignments are operators on the
  fields, and a lemma for each says what it makes of such a record; of `operator=`,
  `AssignedFacts` says in which cases it is right, right in the end only, or leaves no
  storage. An action is then one of these lemmas and `UpdateKeeps` or `CrashKeeps`.

Only model-checked:

- all liveness properties: fairness and ENABLED are out of the prover's reach;
- `StatsAreTrue` of `Allocator` (a sum over a set), `ListIsRight` (a walk along the
  links) and `AffinityIsRight` (a fold over the calls): what they compute for every
  input needs induction over data, which is out of its reach, too;
- `ThreadsAreOwned`: that `oneOf` spreads the threads evenly counts the numbers with the
  same remainder, which would need such an induction.

## Not modelled

- The fibers of `osfiber_ucontext.hpp`, for other processors: they are calls of
  `makecontext` and `swapcontext`, and what those do is not in this code.
- Construction and destruction of objects in allocated memory, among them those of
  `make_unique_n`, of which the `Deleter` destroys only the first (the one type the
  library allocates so, `DAGCounter`, has a trivial destructor); failing `mmap` and
  `malloc`, which the code answers with an assertion.
- The move constructor of `Thread`, which nothing in the library calls, thread
  names and CPU counts.
- Assignment of a vector to itself.
- `blocking_call` outside any scheduler, or with several worker threads: with two
  the destructor may lose a task that a call waits for.
- `parallelize`, which is `WaitGroup::add` and `done` around tasks and has no state
  of its own; `Finally` and `defer`, one flag on one thread, which the library
  offers and does not use itself.
- Copies and assignments of a `Task`: a task is a name with a flag.
- Fiber stacks whose size is no multiple of 16 or does not fit in 32 bits: the
  code cuts the size and does not check it; `OSFiberAssumption` names what it
  needs.
- Aliases of standard containers, tracing (compiled out), debug output,
  annotation macros, and exceptions thrown by tasks, which nothing catches.
