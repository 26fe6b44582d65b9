-------------------------- MODULE ConditionVariable --------------------------
(***************************************************************************)
(* marl::ConditionVariable: fibers and threads wait for a predicate, and   *)
(* are notified one or all at a time.  A fiber waits in Worker::wait(), a  *)
(* thread in std::condition_variable.                                      *)
(*                                                                         *)
(* The module has the steps of the calls; who calls them, with which lock  *)
(* and which predicate, is up to the modules that use it.                  *)
(***************************************************************************)
EXTENDS Naturals, Sequences, FiniteSets

CONSTANTS
    Fiber,      \* the callers that run on fibers
    Thread,     \* the callers that do not
    NoOne

ASSUME CallerAssumption ==
    /\ Fiber \cap Thread = {} /\ NoOne \notin Fiber \cup Thread
    /\ IsFiniteSet(Fiber) /\ IsFiniteSet(Thread)

Caller == Fiber \cup Thread

VARIABLES
    lock,           \* the holder of the lock that goes with the predicate
    mutex,          \* the holder of mutex_
    numWaiting,     \* num_waiting_
    onCondition,    \* num_waiting_on_condition
    waiting,        \* waiting_, front first
    pc,             \* where each caller is in its call
    timed,          \* the callers whose call has a timeout
    late,           \* ... that has passed
    woken,          \* the suspended callers that were notified, or timed out
    result,         \* what the last wait_until() returned
    todo            \* the rest of the loop of notify_all()

counters == <<numWaiting, onCondition>>
cvVars   == <<lock, mutex, counters, waiting, pc, timed, late, woken, result, todo>>

CVInit ==
    /\ lock = NoOne
    /\ mutex = NoOne
    /\ numWaiting = 0
    /\ onCondition = 0
    /\ waiting = <<>>
    /\ pc = [p \in Caller |-> "out"]
    /\ timed = {}
    /\ late = {}
    /\ woken = {}
    /\ result = [p \in Caller |-> FALSE]
    /\ todo = <<>>

At(p, l) == pc[p] = l
Goto(p, l) == pc' = [pc EXCEPT ![p] = l]

-----------------------------------------------------------------------------
\* wait() and wait_until(): t says whether there is a timeout, cond is the
\* value of the predicate.

\* The first look at the predicate, with the lock held.
Wait(p, t, cond) ==
    /\ At(p, "out")
    /\ lock = p
    /\ timed' = IF t THEN timed \cup {p} ELSE timed
    /\ IF cond
       THEN /\ Goto(p, "returned")
            /\ result' = [result EXCEPT ![p] = TRUE]
            /\ UNCHANGED numWaiting
       ELSE /\ Goto(p, "enter")
            /\ numWaiting' = numWaiting + 1
            /\ UNCHANGED result
    /\ UNCHANGED <<lock, mutex, onCondition, waiting, late, woken, todo>>

\* A fiber goes to the front of waiting_, a thread counts itself.
Enter(p) ==
    /\ At(p, "enter")
    /\ IF p \in Fiber
       THEN mutex = NoOne /\ waiting' = <<p>> \o waiting /\ UNCHANGED onCondition
       ELSE onCondition' = onCondition + 1 /\ UNCHANGED waiting
    /\ Goto(p, "loop")
    /\ UNCHANGED <<lock, mutex, numWaiting, timed, late, woken, result, todo>>

\* The loop of Worker::wait() or of std::condition_variable looks at the
\* predicate ...
Loop(p, cond) ==
    /\ At(p, "loop")
    /\ IF cond
       THEN Goto(p, "exit") /\ result' = [result EXCEPT ![p] = TRUE]
       ELSE Goto(p, "suspend") /\ UNCHANGED result
    /\ UNCHANGED <<lock, mutex, counters, waiting, timed, late, woken, todo>>

\* ... and then the lock is given up and the caller suspended in one step: a
\* fiber's notifier needs work_.mutex, which suspend() holds meanwhile.
Suspend(p) ==
    /\ At(p, "suspend")
    /\ Goto(p, "suspended")
    /\ lock' = NoOne
    /\ UNCHANGED <<mutex, counters, waiting, timed, late, woken, result, todo>>

\* The time of the call is over.
Expire(p) ==
    /\ pc[p] \in {"enter", "loop", "suspend", "suspended"}
    /\ p \in timed \ late
    /\ late' = late \cup {p}
    /\ UNCHANGED <<lock, mutex, counters, waiting, pc, timed, woken, result, todo>>

\* The scheduler, or the operating system, wakes a caller whose time is over.
TimeOut(p) ==
    /\ At(p, "suspended")
    /\ p \in late \ woken
    /\ woken' = woken \cup {p}
    /\ UNCHANGED <<lock, mutex, counters, waiting, pc, timed, late, result, todo>>

\* std::condition_variable may wake a thread for no reason.
SpuriousWake(p) ==
    /\ p \in Thread \ woken
    /\ At(p, "suspended")
    /\ woken' = woken \cup {p}
    /\ UNCHANGED <<lock, mutex, counters, waiting, pc, timed, late, result, todo>>

\* A wait() that takes any notification for the predicate.
Reacquire_NoLoop(p, cond) ==
    /\ At(p, "suspended")
    /\ p \in woken
    /\ lock = NoOne
    /\ lock' = p
    /\ woken' = woken \ {p}
    /\ Goto(p, "exit")
    /\ result' = [result EXCEPT ![p] = (p \notin late)]
    /\ UNCHANGED <<mutex, counters, waiting, timed, late, todo>>

\* The caller takes the lock again.  Once its time is over a fiber returns
\* false, and a thread the value of the predicate.
Reacquire(p, cond) ==
    /\ At(p, "suspended")
    /\ p \in woken
    /\ lock = NoOne
    /\ lock' = p
    /\ woken' = woken \ {p}
    /\ IF p \in late
       THEN /\ Goto(p, "exit")
            /\ result' = [result EXCEPT ![p] = (p \in Thread /\ cond)]
       ELSE Goto(p, "loop") /\ UNCHANGED result
    /\ UNCHANGED <<mutex, counters, waiting, timed, late, todo>>

\* waiting_.erase().
Erased(s, i) == [j \in 1..(Len(s) - 1) |-> IF j < i THEN s[j] ELSE s[j + 1]]

\* The fiber's entry leaves waiting_.
Erase(p) == \E i \in 1..Len(waiting) : waiting[i] = p /\ waiting' = Erased(waiting, i)

\* The fiber leaves waiting_ without mutex_.
Exit_Unlocked(p) ==
    /\ At(p, "exit")
    /\ IF p \in Fiber
       THEN Erase(p) /\ UNCHANGED onCondition
       ELSE onCondition' = onCondition - 1 /\ UNCHANGED waiting
    /\ Goto(p, "uncount")
    /\ UNCHANGED <<lock, mutex, numWaiting, timed, late, woken, result, todo>>

\* A fiber leaves waiting_, a thread counts itself out.
Exit(p) ==
    /\ At(p, "exit")
    /\ IF p \in Fiber
       THEN mutex = NoOne /\ Erase(p) /\ UNCHANGED onCondition
       ELSE onCondition' = onCondition - 1 /\ UNCHANGED waiting
    /\ Goto(p, "uncount")
    /\ UNCHANGED <<lock, mutex, numWaiting, timed, late, woken, result, todo>>

Uncount(p) ==
    /\ At(p, "uncount")
    /\ numWaiting' = numWaiting - 1
    /\ Goto(p, "returned")
    /\ timed' = timed \ {p}
    /\ late' = late \ {p}
    /\ UNCHANGED <<lock, mutex, onCondition, waiting, woken, result, todo>>

-----------------------------------------------------------------------------
\* notify_one() and notify_all().

\* Nobody waits, or the caller goes for mutex_.
Notify(p, all) ==
    /\ At(p, "out")
    /\ Goto(p, IF numWaiting = 0 THEN "notified"
               ELSE IF all THEN "notifyAll" ELSE "notifyOne")
    /\ UNCHANGED <<lock, mutex, counters, waiting, timed, late, woken, result, todo>>

\* Fiber::notify(): a fiber that is not suspended any more is left alone.
WakeFiber(f) == woken' = IF pc[f] = "suspended" THEN woken \cup {f} ELSE woken

\* notify_one() that never gets to the threads.
NotifyFront_FibersOnly(p) ==
    /\ At(p, "notifyOne")
    /\ mutex = NoOne
    /\ IF waiting # <<>> THEN WakeFiber(Head(waiting)) ELSE UNCHANGED woken
    /\ Goto(p, "notified")
    /\ UNCHANGED <<lock, mutex, counters, waiting, timed, late, result, todo>>

\* notify_one() notifies the fiber in front of waiting_ and returns, or finds
\* no fiber; the critical section has one effect and is one step.
NotifyFront(p) ==
    /\ At(p, "notifyOne")
    /\ mutex = NoOne
    /\ IF waiting # <<>>
       THEN WakeFiber(Head(waiting)) /\ Goto(p, "notified")
       ELSE UNCHANGED woken /\ Goto(p, "oneThread")
    /\ UNCHANGED <<lock, mutex, counters, waiting, timed, late, result, todo>>

\* notify_all() locks mutex_ for as long as it walks through waiting_.
LockAll(p) ==
    /\ At(p, "notifyAll")
    /\ mutex = NoOne
    /\ mutex' = p
    /\ todo' = waiting
    /\ Goto(p, "fibers")
    /\ UNCHANGED <<lock, counters, waiting, timed, late, woken, result>>

NotifyNext(p) ==
    /\ At(p, "fibers")
    /\ todo # <<>>
    /\ WakeFiber(Head(todo))
    /\ todo' = Tail(todo)
    /\ UNCHANGED <<lock, mutex, counters, waiting, pc, timed, late, result>>

\* notify_all() that never gets to the threads.
UnlockAll_FibersOnly(p) ==
    /\ At(p, "fibers")
    /\ todo = <<>>
    /\ mutex' = NoOne
    /\ Goto(p, "notified")
    /\ UNCHANGED <<lock, counters, waiting, timed, late, woken, result, todo>>

UnlockAll(p) ==
    /\ At(p, "fibers")
    /\ todo = <<>>
    /\ mutex' = NoOne
    /\ Goto(p, "allThreads")
    /\ UNCHANGED <<lock, counters, waiting, timed, late, woken, result, todo>>

\* The threads that are blocked in std::condition_variable.
AsleepThreads == {t \in Thread \ woken : pc[t] = "suspended"}

NotifyThreads(p) ==
    /\ pc[p] \in {"oneThread", "allThreads"}
    /\ IF onCondition > 0 /\ AsleepThreads # {}
       THEN IF At(p, "allThreads")
            THEN woken' = woken \cup AsleepThreads
            ELSE \E t \in AsleepThreads : woken' = woken \cup {t}
       ELSE UNCHANGED woken
    /\ Goto(p, "notified")
    /\ UNCHANGED <<lock, mutex, counters, waiting, timed, late, result, todo>>

-----------------------------------------------------------------------------
\* The steps of a call that was begun.
Continue(p, cond) ==
    \/ Enter(p) \/ Loop(p, cond) \/ Suspend(p) \/ TimeOut(p) \/ Reacquire(p, cond)
    \/ Exit(p) \/ Uncount(p)
    \/ NotifyFront(p) \/ LockAll(p) \/ NotifyNext(p) \/ UnlockAll(p) \/ NotifyThreads(p)

\* The call is over, and p goes on in the caller's code.
Finish(p) ==
    /\ pc[p] \in {"returned", "notified"}
    /\ Goto(p, "out")
    /\ UNCHANGED <<mutex, counters, waiting, late, woken, result, todo>>
    /\ timed' = timed \ {p}

-----------------------------------------------------------------------------
\* The callers between the two changes of num_waiting_, and those between the
\* two changes of waiting_ or num_waiting_on_condition.
InWait  == {p \in Caller : pc[p] \in {"enter", "loop", "suspend", "suspended", "exit", "uncount"}}
Entered == {p \in Caller : pc[p] \in {"loop", "suspend", "suspended", "exit"}}

Elements(s) == {s[i] : i \in 1..Len(s)}

\* The counters and waiting_ agree with who waits, so that the notifiers that
\* look at them without the lock miss nobody; each fiber is in waiting_ once, and
\* the loop of notify_all() comes only to fibers that are still in it.
WaitersCounted ==
    /\ numWaiting = Cardinality(InWait)
    /\ onCondition = Cardinality(Entered \cap Thread)
    /\ Elements(waiting) = Entered \cap Fiber
    /\ Len(waiting) = Cardinality(Entered \cap Fiber)
    /\ Elements(todo) \subseteq Elements(waiting)

\* The notifiers whose call will still get to p.
WillNotify(p) ==
    {q \in Caller :
       \/ pc[q] = "notifyAll"
       \/ pc[q] = "fibers" /\ (p \in Thread \/ p \in Elements(todo))
       \/ pc[q] = "allThreads" /\ p \in Thread}

\* The callers that nobody has woken.
Blocked == {p \in Caller \ woken : pc[p] = "suspended"}
=============================================================================
