-------------------------------- MODULE Event --------------------------------
(***************************************************************************)
(* marl::Event: a flag with a ConditionVariable.  Every operation holds    *)
(* shared_->mutex, the lock; wait() gives it up while it is suspended.     *)
(* The events that any() hangs on an event are modelled in EventAny.       *)
(***************************************************************************)
EXTENDS ConditionVariable

CONSTANTS
    TimedModes,     \* the modes of the events on which calls with a timeout wait
    Calls           \* bound: calls by each caller

Mode == {"Auto", "Manual"}

ASSUME EventAssumption == TimedModes \subseteq Mode /\ Calls \in Nat

VARIABLES
    mode,
    signalled,
    call,           \* the operation each caller is in
    calls           \* the calls left to each

vars == <<mode, signalled, cvVars, call, calls>>

IsAuto == mode = "Auto"

Operation == {"signal", "clear", "test", "isSignalled", "wait"}

Init ==
    /\ CVInit
    /\ mode \in Mode
    /\ signalled \in BOOLEAN
    /\ call = [p \in Caller |-> "none"]
    /\ calls = [p \in Caller |-> Calls]

\* Every operation begins with the lock.
Begin(p, op) ==
    /\ call[p] = "none"
    /\ calls[p] > 0
    /\ lock = NoOne
    /\ lock' = p
    /\ call' = [call EXCEPT ![p] = op]
    /\ calls' = [calls EXCEPT ![p] = @ - 1]
    /\ UNCHANGED <<mode, signalled, mutex, counters, waiting, pc, timed, late, woken,
                   result, todo>>

\* ... and those without a condition variable end with the lock.
End(p) ==
    /\ lock' = NoOne
    /\ call' = [call EXCEPT ![p] = "none"]
    /\ UNCHANGED <<mode, mutex, counters, waiting, pc, timed, late, woken, todo, calls>>

\* signal() that notifies one waiter in either mode.
Signal_AlwaysOne(p) ==
    /\ call[p] = "signal"
    /\ \/ signalled /\ End(p) /\ UNCHANGED <<signalled, result>>
       \/ /\ ~signalled
          /\ signalled' = TRUE
          /\ Notify(p, FALSE)
          /\ call' = [call EXCEPT ![p] = "notify"]
          /\ UNCHANGED <<mode, calls>>

\* signal(): nothing to do, or the flag is set and waiters are notified.
Signal(p) ==
    /\ call[p] = "signal"
    /\ \/ signalled /\ End(p) /\ UNCHANGED <<signalled, result>>
       \/ /\ ~signalled
          /\ signalled' = TRUE
          /\ Notify(p, ~IsAuto)
          /\ call' = [call EXCEPT ![p] = "notify"]
          /\ UNCHANGED <<mode, calls>>

Clear(p) ==
    /\ call[p] = "clear"
    /\ signalled' = FALSE
    /\ End(p)
    /\ UNCHANGED result

\* test() returns the flag, and takes the signal in mode Auto.
Test(p) ==
    /\ call[p] = "test"
    /\ result' = [result EXCEPT ![p] = signalled]
    /\ signalled' = (signalled /\ ~IsAuto)
    /\ End(p)

IsSignalled(p) ==
    /\ call[p] = "isSignalled"
    /\ result' = [result EXCEPT ![p] = signalled]
    /\ End(p)
    /\ UNCHANGED signalled

\* wait(), or wait_for() and wait_until() with a timeout.
CallWait(p) ==
    /\ call[p] = "wait"
    /\ \E t \in {FALSE, (mode \in TimedModes)} : Wait(p, t, signalled)
    /\ call' = [call EXCEPT ![p] = "waits"]
    /\ UNCHANGED <<mode, signalled, calls>>

\* The end of signal(), or of wait(), which takes the signal in mode Auto
\* unless it has timed out.
Return(p) ==
    /\ Finish(p)
    /\ signalled' = (signalled /\ ~(call[p] = "waits" /\ result[p] /\ IsAuto))
    /\ lock' = NoOne
    /\ call' = [call EXCEPT ![p] = "none"]
    /\ UNCHANGED <<mode, calls>>

InCall(p) == Continue(p, signalled) /\ UNCHANGED <<mode, signalled, call, calls>>
Nature(p) == (Expire(p) \/ SpuriousWake(p)) /\ UNCHANGED <<mode, signalled, call, calls>>

Step(p) ==
    \/ Signal(p) \/ Clear(p) \/ Test(p) \/ IsSignalled(p)
    \/ CallWait(p) \/ Return(p) \/ InCall(p)

Next ==
    \E p \in Caller :
       \/ \E op \in Operation : Begin(p, op)
       \/ Step(p) \/ Nature(p)

Spec == Init /\ [][Next]_vars

-----------------------------------------------------------------------------
\* What wait() promises, to block "until signalled": in mode Auto no signal lies
\* idle while a caller is suspended.  Somebody is about to look at the flag or
\* to notify.
SignalIsTaken ==
    IsAuto /\ signalled /\ Blocked # {} =>
      \E p \in Caller :
         \/ p \in woken
         \/ p \notin Blocked /\ lock = p
         \/ pc[p] \in {"notifyOne", "oneThread"}

\* In mode Manual a signal releases everybody: nobody is left behind, timeouts
\* or not.
SignalReleasesAll ==
    ~IsAuto /\ signalled => \A p \in Blocked : WillNotify(p) # {}
=============================================================================
