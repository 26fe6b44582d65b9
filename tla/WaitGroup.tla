------------------------------ MODULE WaitGroup ------------------------------
(***************************************************************************)
(* marl::WaitGroup: an atomic counter that callers raise with add() and    *)
(* lower with done(), and a ConditionVariable on which wait() waits for it *)
(* to become zero.  The counter changes without data_->mutex, the lock.    *)
(***************************************************************************)
EXTENDS ConditionVariable

CONSTANTS
    Initial,        \* initial_count
    MaxAdds,        \* bound: calls of add()
    MaxWaits        \* bound: calls of wait() by each caller

ASSUME CountAssumption == Initial \in Nat /\ MaxAdds \in Nat /\ MaxWaits \in Nat

VARIABLES
    count,          \* data_->count
    call,           \* what each caller does
    owes,           \* the calls of done() each caller has still to make
    adds, waits     \* the calls of add() and wait() left

vars == <<count, cvVars, call, owes, adds, waits>>

Init ==
    /\ count = Initial
    /\ CVInit
    /\ call = [p \in Caller |-> "none"]
    /\ owes \in {o \in [Caller -> 0..Initial] :
                   \E p \in Caller : o = [q \in Caller |-> IF q = p THEN Initial ELSE 0]}
    /\ adds = MaxAdds
    /\ waits = [p \in Caller |-> MaxWaits]

\* add(), for a call of done() that q will make.
Add(p, q) ==
    /\ call[p] = "none"
    /\ adds > 0
    /\ adds' = adds - 1
    /\ count' = count + 1
    /\ owes' = [owes EXCEPT ![q] = @ + 1]
    /\ UNCHANGED <<cvVars, call, waits>>

\* done() that notifies before the counter is zero, and not afterwards.
Done_OffByOne(p) ==
    /\ call[p] = "none"
    /\ owes[p] > 0
    /\ owes' = [owes EXCEPT ![p] = @ - 1]
    /\ count' = count - 1
    /\ call' = [call EXCEPT ![p] = IF count' = 1 THEN "lock" ELSE "none"]
    /\ UNCHANGED <<cvVars, adds, waits>>

\* done(): the counter goes down; whoever brings it to zero goes on.
Done(p) ==
    /\ call[p] = "none"
    /\ owes[p] > 0
    /\ owes' = [owes EXCEPT ![p] = @ - 1]
    /\ count' = count - 1
    /\ call' = [call EXCEPT ![p] = IF count' = 0 THEN "lock" ELSE "none"]
    /\ UNCHANGED <<cvVars, adds, waits>>

\* done() that notifies without the lock.
DoneLock_NoLock(p) ==
    /\ call[p] = "lock"
    /\ call' = [call EXCEPT ![p] = "notify"]
    /\ UNCHANGED <<count, cvVars, owes, adds, waits>>

DoneLock(p) ==
    /\ call[p] = "lock"
    /\ lock = NoOne
    /\ lock' = p
    /\ call' = [call EXCEPT ![p] = "notify"]
    /\ UNCHANGED <<count, mutex, counters, waiting, pc, timed, late, woken, result, todo,
                   owes, adds, waits>>

DoneNotify(p) ==
    /\ call[p] = "notify"
    /\ Notify(p, TRUE)
    /\ call' = [call EXCEPT ![p] = "notifies"]
    /\ UNCHANGED <<count, owes, adds, waits>>

WaitLock(p) ==
    /\ call[p] = "none"
    /\ waits[p] > 0
    /\ waits' = [waits EXCEPT ![p] = @ - 1]
    /\ lock = NoOne
    /\ lock' = p
    /\ call' = [call EXCEPT ![p] = "wait"]
    /\ UNCHANGED <<count, mutex, counters, waiting, pc, timed, late, woken, result, todo,
                   owes, adds>>

CallWait(p) ==
    /\ call[p] = "wait"
    /\ Wait(p, FALSE, count = 0)
    /\ call' = [call EXCEPT ![p] = "waits"]
    /\ UNCHANGED <<count, owes, adds, waits>>

\* The end of done() or wait(), and of the lock.
Return(p) ==
    /\ Finish(p)
    /\ lock' = IF lock = p THEN NoOne ELSE lock
    /\ call' = [call EXCEPT ![p] = "none"]
    /\ UNCHANGED <<count, owes, adds, waits>>

InCall(p) == Continue(p, count = 0) /\ UNCHANGED <<count, call, owes, adds, waits>>
Nature(p) == SpuriousWake(p) /\ UNCHANGED <<count, call, owes, adds, waits>>

Step(p) == DoneLock(p) \/ DoneNotify(p) \/ CallWait(p) \/ Return(p) \/ InCall(p)

Next ==
    \E p \in Caller :
       \/ Done(p) \/ WaitLock(p) \/ Step(p) \/ Nature(p)
       \/ \E q \in Caller : Add(p, q)

Spec == Init /\ [][Next]_vars

\* Callers go on with the calls they have begun, get the mutexes they ask for,
\* and make the calls of done() they owe.
FairSpec == Spec /\ \A p \in Caller : SF_vars(Step(p)) /\ WF_vars(Done(p))

-----------------------------------------------------------------------------
\* The counter may become zero between a waiter's look at it and the waiter's
\* suspension, because done() lowers it without the lock; but then done() has
\* still to notify, which it does only with the lock.
ZeroIsAnnounced ==
    count = 0 => \A p \in Blocked : \/ WillNotify(p) # {}
                                    \/ \E q \in Caller : call[q] \in {"lock", "notify"}

\* Every caller that waits returns once all calls of done() have been made.
WaitReturns ==
    \A p \in Caller : call[p] = "waits" ~> call[p] = "none" \/ \E q \in Caller : owes[q] > 0
=============================================================================
