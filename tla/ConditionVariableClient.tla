----------------------- MODULE ConditionVariableClient -----------------------
(***************************************************************************)
(* Fibers and threads that share a ConditionVariable the way the tests and *)
(* the rest of the library do: a caller takes the lock and waits until     *)
(* there is an item, which it then takes, or it puts an item and notifies, *)
(* before or after it gives up the lock.                                   *)
(***************************************************************************)
EXTENDS ConditionVariable

CONSTANTS
    TimedModes,     \* the ways to notify with which calls with a timeout wait
    MaxItems,       \* bound: items at a time
    Calls           \* bound: calls by each caller

NotifyMode == {"one", "all"}

ASSUME ClientAssumption ==
    TimedModes \subseteq NotifyMode /\ MaxItems \in Nat /\ Calls \in Nat

VARIABLES
    how,            \* everybody calls notify_one(), or everybody notify_all()
    items,          \* the predicate is items > 0
    role,           \* what each caller does
    calls           \* the calls left to each

clientVars == <<how, items, cvVars, role, calls>>

ClientInit ==
    /\ CVInit
    /\ how \in NotifyMode
    /\ items = 0
    /\ role = [p \in Caller |-> "idle"]
    /\ calls = [p \in Caller |-> Calls]

Acquire(p) ==
    /\ role[p] = "idle"
    /\ calls[p] > 0
    /\ lock = NoOne
    /\ lock' = p
    /\ calls' = [calls EXCEPT ![p] = @ - 1]
    /\ role' = [role EXCEPT ![p] = "locked"]
    /\ UNCHANGED <<how, items, mutex, counters, waiting, pc, timed, late, woken,
                   result, todo>>

WaitForItem(p) ==
    /\ role[p] = "locked"
    /\ \E t \in {FALSE, (how \in TimedModes)} : Wait(p, t, items > 0)
    /\ role' = [role EXCEPT ![p] = "waits"]
    /\ UNCHANGED <<how, items, calls>>

\* An item is put; the lock is kept for the notification, or not.
Put(p) ==
    /\ role[p] = "locked"
    /\ items < MaxItems
    /\ items' = items + 1
    /\ lock' \in {p, NoOne}
    /\ role' = [role EXCEPT ![p] = "put"]
    /\ UNCHANGED <<how, mutex, counters, waiting, pc, timed, late, woken, result,
                   todo, calls>>

CallNotify(p) ==
    /\ role[p] = "put"
    /\ Notify(p, how = "all")
    /\ role' = [role EXCEPT ![p] = "notifies"]
    /\ UNCHANGED <<how, items, calls>>

\* The end of the call: a wait() that succeeded takes an item.
ClientReturn(p) ==
    /\ Finish(p)
    /\ items' = IF role[p] = "waits" /\ result[p] THEN items - 1 ELSE items
    /\ lock' = IF lock = p THEN NoOne ELSE lock
    /\ role' = [role EXCEPT ![p] = "idle"]
    /\ UNCHANGED <<how, calls>>

ClientInCall(p) == Continue(p, items > 0) /\ UNCHANGED <<how, items, role, calls>>
ClientNature(p) == (Expire(p) \/ SpuriousWake(p)) /\ UNCHANGED <<how, items, role, calls>>

ClientNext ==
    \E p \in Caller :
       \/ Acquire(p) \/ WaitForItem(p) \/ Put(p) \/ CallNotify(p) \/ ClientReturn(p)
       \/ ClientInCall(p) \/ ClientNature(p)

ClientSpec == ClientInit /\ [][ClientNext]_clientVars

-----------------------------------------------------------------------------
\* notify_all() forgets nobody: a caller that is suspended although there is an
\* item will be notified, by the one who put the item, whether that one has kept
\* the lock or not.
NobodyForgotten ==
    how = "all" /\ items > 0 =>
      \A p \in Blocked : WillNotify(p) # {} \/ \E q \in Caller : role[q] = "put"

\* wait() and wait_until() return with the lock, and true only while the
\* predicate holds; wait_until() returns false only after its timeout, and on a
\* thread only if the predicate is still false (a fiber does not look again).
ResultIsRight ==
    \A p \in Caller :
       /\ pc[p] \in {"exit", "uncount", "returned"} => lock = p /\ (result[p] => items > 0)
       /\ pc[p] \in {"exit", "uncount"} /\ ~result[p] =>
            p \in late /\ (p \in Thread => items = 0)

\* What wait() promises, to block "until Pred is true and the condition variable
\* is notified": with a notify_one() for every item, no item lies idle while a
\* caller is suspended.  Somebody is about to look for it, or to notify.
NotifyOneSuffices ==
    how = "one" /\ items > 0 /\ Blocked # {} =>
      \E p \in Caller :
         \/ p \in woken
         \/ p \notin Blocked /\ lock = p
         \/ role[p] \in {"put", "notifies"}
=============================================================================
