---------------------------- MODULE EventProofs -----------------------------
(***************************************************************************)
(* Nobody who waits on an Event is forgotten, in either mode, whatever the *)
(* number of fibers and threads.                                           *)
(***************************************************************************)
EXTENDS Event, ConditionVariableProofs

EvCall    == Operation \cup {"none", "notify", "waits"}

\* Who is in an operation holds the lock, except while suspended in wait(); so the
\* flag is not set between a waiter's look at it and its suspension.
EvControl ==
    /\ mode \in {"Auto", "Manual"}
    /\ signalled \in BOOLEAN
    /\ call \in [Caller -> EvCall]
    /\ \A p \in Caller : call[p] \notin {"notify", "waits"} => pc[p] = "out"
    /\ \A p \in Caller : call[p] = "waits" => pc[p] \in WaitLoc \cup {"returned"}
    /\ \A p \in Caller : call[p] = "notify" => pc[p] \in NotifyLoc
    /\ \A p \in Caller : call[p] \in Operation \cup {"notify"} => lock = p
    /\ \A p \in Caller : pc[p] \in {"enter", "suspend"} => ~signalled

\* In mode Manual, the one who has set the flag notifies all.
EvAll == mode = "Manual" /\ signalled => \A p \in Blocked : WillNotify(p) # {}

EvInv == CVInv /\ EvControl /\ EvAll

\* The steps that take the lock, and those that end with it.
LEMMA EvLockSteps ==
    ASSUME CVInv, EvControl, NEW p \in Caller,
           \/ \E op \in Operation : Begin(p, op)
           \/ Clear(p) \/ Test(p) \/ IsSignalled(p)
           \/ Signal(p) /\ signalled
    PROVE  /\ CVInv' /\ EvControl'
           /\ Blocked' = Blocked /\ \A r : WillNotify(r)' = WillNotify(r)
           /\ mode' = mode /\ (signalled' => signalled)
           /\ UNCHANGED <<mutex, counters, waiting, pc, timed, late, woken, todo>>
           /\ \/ lock = NoOne /\ lock' = p /\ call[p] = "none"
              \/ lock = p /\ lock' = NoOne /\ call[p] \in Operation
           /\ call'[p] # "waits"
           /\ \A r \in Caller \ {p} : call'[r] = call[r] /\ result'[r] = result[r]
<1>0. /\ pc \in [Caller -> Loc] /\ result \in [Caller -> BOOLEAN] /\ signalled \in BOOLEAN
      /\ call \in [Caller -> EvCall]
      /\ \A r \in Caller : pc[r] \in LockLoc => lock = r
      /\ NoOne \notin Caller
    BY CallerAssumption DEF CVInv, CVTypeOK, CVControl, Caller, EvControl
<1>1. /\ UNCHANGED <<mutex, counters, waiting, pc, timed, late, woken, todo>>
      /\ mode' = mode /\ (signalled' => signalled) /\ signalled' \in BOOLEAN
      /\ result' \in [Caller -> BOOLEAN]
      /\ \/ lock = NoOne /\ lock' = p /\ call[p] = "none"
            /\ \E op \in Operation : call' = [call EXCEPT ![p] = op]
         \/ call[p] \in Operation /\ lock' = NoOne /\ call' = [call EXCEPT ![p] = "none"]
  <2>0. [result EXCEPT ![p] = signalled] \in [Caller -> BOOLEAN]
      BY <1>0
  <2>1. CASE \E op \in Operation : Begin(p, op)
    <3>1. PICK op \in Operation : Begin(p, op)
        BY <2>1
    <3> QED
        BY ZenonT(30), <1>0, <3>1 DEF Begin, counters
  <2>2. CASE Clear(p)
      BY ZenonT(30), <1>0, <2>2 DEF Clear, End, counters, Operation
  <2>3. CASE IsSignalled(p) \/ Test(p)
    <3>1. /\ call[p] \in {"isSignalled", "test"} /\ End(p)
          /\ result' = [result EXCEPT ![p] = signalled]
          /\ signalled' = signalled \/ signalled' = (signalled /\ ~IsAuto)
        BY <2>3 DEF IsSignalled, Test
    <3>2. signalled' \in BOOLEAN /\ (signalled' => signalled)
      <4>1. CASE signalled' = signalled
          BY <1>0, <4>1
      <4>2. CASE signalled' = (signalled /\ ~IsAuto)
          BY ZenonT(30), <4>2
      <4> QED
          BY <3>1, <4>1, <4>2
    <3> QED
        BY <2>0, <3>1, <3>2 DEF End, counters, Operation
  <2>4. CASE Signal(p) /\ signalled
      BY <1>0, <2>4 DEF Signal, End, counters, Operation
  <2> QED
      BY <2>1, <2>2, <2>3, <2>4
<1>2. \/ lock = NoOne /\ lock' = p /\ call[p] = "none"
         /\ \E op \in Operation : call' = [call EXCEPT ![p] = op]
      \/ lock = p /\ call[p] \in Operation /\ lock' = NoOne /\ call' = [call EXCEPT ![p] = "none"]
    BY <1>1 DEF EvControl
<1>3. pc[p] = "out"
    BY <1>2 DEF EvControl, Operation
<1>4. CVInv'
    BY <1>1, <1>2, <1>3, LockKeeps DEF LockLoc
<1>5. /\ call' \in [Caller -> EvCall] /\ call'[p] \in Operation \cup {"none"}
      /\ call'[p] \in Operation => lock' = p
      /\ \A r \in Caller \ {p} : call'[r] = call[r]
      /\ lock \in {NoOne, p}
    BY <1>0, <1>2 DEF EvCall, Operation
<1>6. EvControl'
  <2>1. /\ \A r \in Caller : call'[r] \notin {"notify", "waits"} => pc'[r] = "out"
        /\ \A r \in Caller : call'[r] = "waits" => pc'[r] \in WaitLoc \cup {"returned"}
        /\ \A r \in Caller : call'[r] = "notify" => pc'[r] \in NotifyLoc
      BY <1>1, <1>3, <1>5 DEF EvControl, Operation
  <2>2. \A r \in Caller : call'[r] \in Operation \cup {"notify"} => lock' = r
      BY <1>0, <1>5 DEF EvControl, Operation
  <2>3. \A r \in Caller : pc'[r] \in {"enter", "suspend"} => ~signalled'
      BY <1>1 DEF EvControl
  <2> QED
      BY <1>1, <1>5, <2>1, <2>2, <2>3 DEF EvControl
<1>7. \A r \in Caller \ {p} : result'[r] = result[r]
    BY <1>0 DEF Begin, Clear, Test, IsSignalled, Signal
<1>8. call'[p] # "waits"
    BY <1>5 DEF Operation
<1> QED
    BY <1>1, <1>2, <1>4, <1>5, <1>6, <1>7, <1>8 DEF Blocked, WillNotify

\* signal() sets the flag, and begins to notify.
LEMMA EvSignal ==
    ASSUME CVInv, EvControl, NEW p \in Caller, Signal(p), ~signalled
    PROVE  /\ CVInv' /\ EvControl'
           /\ Notify(p, ~IsAuto) /\ lock = p /\ mode' = mode /\ call'[p] = "notify"
           /\ \A r \in Caller : pc[r] \notin {"enter", "suspend"}
<1>1. /\ Notify(p, ~IsAuto) /\ call[p] = "signal" /\ signalled' = TRUE
      /\ call' = [call EXCEPT ![p] = "notify"] /\ mode' = mode
    BY DEF Signal
<1>2. CVInv'
    BY ZenonT(30), <1>1, NotifyKeeps
<1>3. /\ call \in [Caller -> EvCall] /\ pc \in [Caller -> Loc] /\ lock = p
      /\ \A r \in Caller : pc[r] \in LockLoc => lock = r
    BY <1>1 DEF CVInv, CVTypeOK, CVControl, EvControl, Operation
<1>4. /\ call' \in [Caller -> EvCall] /\ call'[p] = "notify"
      /\ \A r \in Caller \ {p} : call'[r] = call[r] /\ pc'[r] = pc[r]
      /\ pc[p] = "out" /\ pc'[p] \in {"notified", "notifyAll", "notifyOne"}
      /\ lock' = lock
    BY <1>1, <1>3 DEF Notify, Goto, At, EvCall
<1>5. \A r \in Caller : pc[r] \notin {"enter", "suspend"}
    BY <1>3, <1>4 DEF LockLoc
<1>6. EvControl'
  <2>1. /\ \A r \in Caller : call'[r] \notin {"notify", "waits"} => pc'[r] = "out"
        /\ \A r \in Caller : call'[r] = "waits" => pc'[r] \in WaitLoc \cup {"returned"}
        /\ \A r \in Caller : call'[r] = "notify" => pc'[r] \in NotifyLoc
      BY <1>4 DEF EvControl, NotifyLoc
  <2>2. \A r \in Caller : call'[r] \in Operation \cup {"notify"} => lock' = r
      BY <1>3, <1>4 DEF EvControl, Operation
  <2>3. \A r \in Caller : pc'[r] \notin {"enter", "suspend"}
      BY <1>4, <1>5
  <2> QED
      BY <1>1, <1>4, <2>1, <2>2, <2>3 DEF EvControl
<1> QED
    BY <1>1, <1>2, <1>3, <1>4, <1>5, <1>6

\* The call of wait() on the condition variable, and the return from it or from
\* the notification.
LEMMA EvCallSteps ==
    ASSUME CVInv, EvControl, NEW p \in Caller, CallWait(p) \/ Return(p)
    PROVE  /\ CVInv' /\ EvControl'
           /\ mode' = mode /\ (signalled' => signalled) /\ lock = p
           /\ woken' = woken /\ todo' = todo /\ waiting' = waiting /\ late' = late
           /\ pc[p] \in {"out", "returned", "notified"} /\ pc'[p] \in {"out", "enter", "returned"}
           /\ \A r \in Caller \ {p} : pc'[r] = pc[r] /\ call'[r] = call[r] /\ result'[r] = result[r]
           /\ call'[p] = "waits" /\ pc'[p] = "returned" => result'[p]
<1>0. /\ call \in [Caller -> EvCall] /\ pc \in [Caller -> Loc] /\ signalled \in BOOLEAN
      /\ result \in [Caller -> BOOLEAN]
      /\ \A r \in Caller : pc[r] \in LockLoc => lock = r
    BY DEF CVInv, CVTypeOK, CVControl, EvControl
<1>1. CASE CallWait(p)
  <2>1. PICK t \in BOOLEAN : Wait(p, t, signalled)
    <3>1. PICK t \in {FALSE, (mode \in TimedModes)} : Wait(p, t, signalled)
        BY ZenonT(30), <1>1 DEF CallWait
    <3>2. t \in BOOLEAN
        BY ZenonT(30), <3>1, MayTimeOut
    <3>3. Wait(p, t, signalled)
        BY <3>1
    <3> QED
        BY <3>2, <3>3
  <2>2. /\ call[p] = "wait" /\ call' = [call EXCEPT ![p] = "waits"]
        /\ mode' = mode /\ signalled' = signalled
      BY <1>1 DEF CallWait
  <2>3. CVInv'
      BY <1>0, <2>1, WaitKeeps
  <2>4. /\ lock = p /\ lock' = lock /\ woken' = woken /\ todo' = todo /\ waiting' = waiting /\ late' = late
        /\ pc[p] = "out" /\ \A r \in Caller \ {p} : pc'[r] = pc[r]
        /\ \/ pc'[p] = "returned" /\ result' = [result EXCEPT ![p] = TRUE]
           \/ pc'[p] = "enter" /\ ~signalled /\ result' = result
      BY <1>0, <2>1 DEF Wait, Goto, At
  <2>5. /\ call' \in [Caller -> EvCall] /\ call'[p] = "waits"
        /\ \A r \in Caller \ {p} : call'[r] = call[r] /\ result'[r] = result[r]
        /\ pc'[p] = "returned" => result'[p]
      BY <1>0, <2>2, <2>4 DEF EvCall
  <2>6. EvControl'
    <3>1. /\ \A r \in Caller : call'[r] \notin {"notify", "waits"} => pc'[r] = "out"
          /\ \A r \in Caller : call'[r] = "waits" => pc'[r] \in WaitLoc \cup {"returned"}
          /\ \A r \in Caller : call'[r] = "notify" => pc'[r] \in NotifyLoc
        BY <2>4, <2>5 DEF EvControl, WaitLoc
    <3>2. \A r \in Caller : call'[r] \in Operation \cup {"notify"} => lock' = r
        BY <2>4, <2>5 DEF EvControl, Operation
    <3>3. \A r \in Caller : pc'[r] \in {"enter", "suspend"} => ~signalled'
        BY <2>2, <2>4 DEF EvControl
    <3> QED
        BY <1>0, <2>2, <2>5, <3>1, <3>2, <3>3 DEF EvControl
  <2> QED
      BY <2>2, <2>3, <2>4, <2>5, <2>6
<1>2. CASE Return(p)
  <2>1. /\ Finish(p) /\ lock' = NoOne /\ call' = [call EXCEPT ![p] = "none"] /\ mode' = mode
        /\ signalled' = (signalled /\ ~(call[p] = "waits" /\ result[p] /\ IsAuto))
      BY <1>2 DEF Return
  <2>2. /\ pc[p] \in {"returned", "notified"} /\ pc'[p] = "out"
        /\ \A r \in Caller \ {p} : pc'[r] = pc[r]
        /\ woken' = woken /\ todo' = todo /\ waiting' = waiting /\ late' = late /\ result' = result
      BY <1>0, <2>1 DEF Finish, Goto
  <2>3. lock = p
      BY <1>0, <2>2 DEF EvControl, LockLoc, NotifyLoc, WaitLoc
  <2>4. CVInv'
      BY <2>1, <2>3, FinishKeeps
  <2>5. /\ call' \in [Caller -> EvCall] /\ call'[p] = "none"
        /\ \A r \in Caller \ {p} : call'[r] = call[r]
      BY <1>0, <2>1 DEF EvCall
  <2>6. signalled' \in BOOLEAN /\ (signalled' => signalled)
      BY ZenonT(30), <2>1
  <2>7. EvControl'
    <3>1. /\ \A r \in Caller : call'[r] \notin {"notify", "waits"} => pc'[r] = "out"
          /\ \A r \in Caller : call'[r] = "waits" => pc'[r] \in WaitLoc \cup {"returned"}
          /\ \A r \in Caller : call'[r] = "notify" => pc'[r] \in NotifyLoc
        BY <2>2, <2>5 DEF EvControl
    <3>2. \A r \in Caller : call'[r] \in Operation \cup {"notify"} => lock' = r
        BY <2>3, <2>5 DEF EvControl, Operation
    <3>3. \A r \in Caller : pc'[r] \in {"enter", "suspend"} => ~signalled'
        BY <2>2, <2>6 DEF EvControl
    <3> QED
        BY <2>1, <2>5, <2>6, <3>1, <3>2, <3>3 DEF EvControl
  <2> QED
      BY <2>1, <2>2, <2>3, <2>4, <2>5, <2>6, <2>7
<1> QED
    BY <1>1, <1>2

\* The steps of the condition variable.
LEMMA EvInCall ==
    ASSUME CVInv, EvControl, NEW p \in Caller, InCall(p) \/ Nature(p)
    PROVE  /\ CVInv' /\ EvControl' /\ UNCHANGED <<mode, signalled, call>>
           /\ Continue(p, signalled) \/ Expire(p) \/ SpuriousWake(p)
<1>0. UNCHANGED <<mode, signalled, call>> /\ signalled \in BOOLEAN /\ NoOne \notin Caller
    BY CallerAssumption DEF InCall, Nature, EvControl, Caller
<1>1. CASE InCall(p)
  <2>1. Continue(p, signalled)
      BY <1>1 DEF InCall
  <2>2. CVInv'
      BY <1>0, <2>1, ContinueKeeps
  <2>3. /\ pc[p] \notin {"out", "returned", "notified"}
        /\ \A r \in Caller \ {p} : pc'[r] = pc[r]
        /\ \/ lock' = lock
           \/ lock = NoOne /\ lock' = p
           \/ lock = p /\ lock' = NoOne
        /\ pc'[p] = "suspend" => pc[p] = "loop" /\ ~signalled
        /\ pc'[p] # "enter"
        /\ pc[p] \in WaitLoc => pc'[p] \in WaitLoc \cup {"returned"}
        /\ pc[p] \in NotifyLoc => pc'[p] \in NotifyLoc
      BY <1>0, <2>1, ContinueFrame
  <2>4. call[p] \in {"notify", "waits"}
      BY <2>3 DEF EvControl
  <2>5. \A r \in Caller : call'[r] \in Operation \cup {"notify"} => lock' = r
    <3>1. CASE lock = p /\ lock' = NoOne
      <4>1. CASE Suspend(p)
          BY <1>0, <2>3, <3>1, <4>1 DEF EvControl, Operation, Suspend, At, NotifyLoc
      <4>2. CASE ~Suspend(p)
          BY ZenonT(30), <1>0, <2>1, <3>1, <4>2 DEF Continue, Enter, Loop, TimeOut, Reacquire, Exit, Uncount,
             NotifyFront, LockAll, NotifyNext, UnlockAll, NotifyThreads
      <4> QED
          BY <4>1, <4>2
    <3>2. CASE lock' = lock
        BY <1>0, <3>2 DEF EvControl
    <3>3. CASE lock = NoOne /\ lock' = p
        BY <1>0, <3>3 DEF EvControl
    <3> QED
        BY <2>3, <3>1, <3>2, <3>3
  <2>6. EvControl'
    <3>1. /\ \A r \in Caller : call'[r] \notin {"notify", "waits"} => pc'[r] = "out"
          /\ \A r \in Caller : call'[r] = "waits" => pc'[r] \in WaitLoc \cup {"returned"}
          /\ \A r \in Caller : call'[r] = "notify" => pc'[r] \in NotifyLoc
        BY <1>0, <2>3, <2>4 DEF EvControl
    <3>2. \A r \in Caller : pc'[r] \in {"enter", "suspend"} => ~signalled'
        BY <1>0, <2>3 DEF EvControl
    <3> QED
        BY <1>0, <2>5, <3>1, <3>2 DEF EvControl
  <2> QED
      BY <1>0, <2>1, <2>2, <2>6
<1>2. CASE Nature(p)
  <2>1. Expire(p) \/ SpuriousWake(p)
      BY <1>2 DEF Nature
  <2>2. CVInv'
      BY <2>1, NatureKeeps
  <2>3. pc' = pc /\ lock' = lock
      BY <2>1 DEF Expire, SpuriousWake
  <2> QED
      BY <1>0, <2>1, <2>2, <2>3 DEF EvControl
<1> QED
    BY <1>1, <1>2

\* Every step keeps the invariant.
LEMMA EvStep ==
    ASSUME EvInv, NEW p \in Caller,
           (\E op \in Operation : Begin(p, op)) \/ Step(p) \/ Nature(p)
    PROVE  EvInv'
<1>0. CVInv /\ EvControl /\ EvAll /\ pc \in [Caller -> Loc]
    BY DEF EvInv, CVInv, CVTypeOK
<1>1. CASE \/ \E op \in Operation : Begin(p, op)
           \/ Clear(p) \/ Test(p) \/ IsSignalled(p)
           \/ Signal(p) /\ signalled
  <2>1. /\ CVInv' /\ EvControl'
        /\ Blocked' = Blocked /\ \A r : WillNotify(r)' = WillNotify(r)
        /\ mode' = mode /\ (signalled' => signalled)
      BY <1>0, <1>1, EvLockSteps
  <2> QED
      BY <1>0, <2>1 DEF EvInv, EvAll
<1>2. CASE Signal(p) /\ ~signalled
  <2>1. CVInv' /\ EvControl' /\ Notify(p, ~IsAuto) /\ mode' = mode
      BY <1>0, <1>2, EvSignal
  <2>2. Blocked' \subseteq Blocked
      BY <1>0, <2>1 DEF Blocked, Notify, Goto, At
  <2>3. ASSUME mode = "Manual" PROVE Notify(p, TRUE)
      BY <2>1, <2>3 DEF IsAuto, Notify
  <2>4. ASSUME mode = "Manual", NEW r \in Blocked' PROVE WillNotify(r)' # {}
      BY ZenonT(30), <1>0, <2>2, <2>3, <2>4, NotifyReaches
  <2> QED
      BY <2>1, <2>4 DEF EvInv, EvAll
<1>3. CASE CallWait(p) \/ Return(p)
  <2>1. /\ CVInv' /\ EvControl'
        /\ mode' = mode /\ (signalled' => signalled) /\ woken' = woken /\ todo' = todo
        /\ \A r \in Caller : \/ pc'[r] = pc[r]
                             \/ pc[r] \in {"out", "returned", "notified"} /\ pc'[r] # "suspended"
      BY ZenonT(30), <1>0, <1>3, EvCallSteps
  <2>2. \A r \in Blocked' : r \in Blocked /\ (WillNotify(r) # {} => WillNotify(r)' # {})
      BY <1>0, <2>1, Undisturbed
  <2> QED
      BY <1>0, <2>1, <2>2 DEF EvInv, EvAll
<1>4. CASE InCall(p) \/ Nature(p)
  <2>1. /\ CVInv' /\ EvControl' /\ mode' = mode /\ signalled' = signalled
        /\ Continue(p, signalled) \/ Expire(p) \/ SpuriousWake(p)
      BY <1>0, <1>4, EvInCall
  <2>2. ASSUME signalled, NEW r \in Blocked'
        PROVE  r \in Blocked /\ (WillNotify(r) # {} => WillNotify(r)' # {})
    <3>1. CASE Continue(p, signalled)
      <4>1. signalled \in BOOLEAN /\ ~Suspend(p)
          BY <1>0, <2>2 DEF EvControl, Suspend, At
      <4> QED
          BY ZenonT(30), <1>0, <2>2, <3>1, <4>1, Delivered
    <3>2. CASE Expire(p) \/ SpuriousWake(p)
      <4>1. pc' = pc /\ todo' = todo /\ woken \subseteq woken'
          BY <3>2 DEF Expire, SpuriousWake
      <4> QED
          BY <1>0, <2>2, <4>1, Undisturbed
    <3> QED
        BY <2>1, <3>1, <3>2
  <2> QED
      BY <1>0, <2>1, <2>2 DEF EvInv, EvAll
<1> QED
    BY <1>1, <1>2, <1>3, <1>4 DEF Step

\* The invariant holds in an event that was just made.
LEMMA EvInit == Init => EvInv
<1> SUFFICES ASSUME Init PROVE EvInv
    OBVIOUS
<1>0. CVInit /\ call = [p \in Caller |-> "none"]
    BY DEF Init
<1>1. CVInv /\ pc = [p \in Caller |-> "out"] /\ call = [p \in Caller |-> "none"]
  <2>1. CVInv
      BY <1>0, InitKeeps
  <2>2. pc = [p \in Caller |-> "out"]
      BY <1>0 DEF CVInit
  <2> QED
      BY <1>0, <2>1, <2>2
<1>2. Blocked = {}
    BY <1>1 DEF Blocked
<1>3. mode \in {"Auto", "Manual"} /\ signalled \in BOOLEAN
    BY DEF Init, Mode
<1>4. EvControl
    BY <1>1, <1>3 DEF EvControl, EvCall, Operation
<1> QED
    BY <1>1, <1>2, <1>4 DEF EvInv, EvAll

\* A stuttering step.
LEMMA EvStutter ==
    ASSUME EvInv, UNCHANGED vars
    PROVE  EvInv'
<1>1. /\ UNCHANGED <<mode, signalled, call>>
      /\ UNCHANGED <<lock, mutex, counters, waiting, pc, timed, late, woken, result, todo>>
    BY DEF vars, cvVars
<1>2. CVInv' /\ Blocked' = Blocked /\ \A r : WillNotify(r)' = WillNotify(r)
    BY <1>1, StutterKeeps DEF EvInv
<1>3. EvControl'
    BY <1>1 DEF EvInv, EvControl
<1> QED
    BY <1>1, <1>2, <1>3 DEF EvInv, EvAll

\* The condition variable of an Event is right about who waits, and its flag is
\* not set behind the back of a caller that is about to be suspended.
THEOREM EvInvariance == Spec => []EvInv
<1>1. EvInv /\ [Next]_vars => EvInv'
    BY EvStep, EvStutter DEF Next
<1> QED
    BY <1>1, EvInit, PTL DEF Spec

\* A signal in mode Manual releases everybody who waits, with or without a
\* timeout: each will still be notified, or is woken.
THEOREM ReleasesAll == Spec => []SignalReleasesAll
<1>1. EvInv => SignalReleasesAll
    BY DEF EvInv, EvControl, EvAll, SignalReleasesAll, IsAuto
<1> QED
    BY <1>1, EvInvariance, PTL

-----------------------------------------------------------------------------
\* Mode Auto, without timeouts.

\* p holds the lock and will take the signal, or is about to notify.
Taker(p) ==
    /\ lock = p
    /\ \/ call[p] = "waits" /\ pc[p] \in {"loop", "exit", "uncount", "returned"}
       \/ pc[p] \in {"notifyOne", "oneThread"}

\* Nobody times out, so whoever leaves wait() takes the signal; and notify_one()
\* turns to the threads only while no fiber waits.
AutoCore ==
    /\ timed = {} /\ late = {}
    /\ \A p \in Caller : pc[p] = "oneThread" => waiting = <<>>
    /\ \A p \in Caller :
          call[p] = "waits" /\ pc[p] \in {"exit", "uncount", "returned"} => result[p]

AutoTaken == signalled /\ Blocked # {} => woken # {} \/ \E p \in Caller : Taker(p)

AutoInv == mode = "Auto" => AutoCore /\ AutoTaken

\* A step of p that keeps what AutoCore says of p.
LEMMA AutoFrame ==
    ASSUME AutoCore, NEW p \in Caller, timed' = {}, late' = {},
           \A r \in Caller \ {p} : pc'[r] = pc[r] /\ call'[r] = call[r] /\ result'[r] = result[r],
           waiting' = waiting \/ \A r \in Caller \ {p} : pc[r] # "oneThread",
           pc'[p] = "oneThread" => waiting' = <<>>,
           call'[p] = "waits" /\ pc'[p] \in {"exit", "uncount", "returned"} => result'[p]
    PROVE  AutoCore'
BY DEF AutoCore

\* A caller that does not wait for an Auto event with a timeout has none.
LEMMA NoTimeout ==
    ASSUME NEW m, NEW T, m \notin T, NEW t \in {FALSE, (m \in T)}
    PROVE  t = FALSE
<1>1. (m \in T) = FALSE
    OBVIOUS
<1> QED
    BY ZenonT(30), <1>1

\* The steps that take the lock, and those that end with it.
LEMMA AutoLock ==
    ASSUME CVInv, EvControl, AutoCore, AutoTaken, NEW p \in Caller,
           \/ \E op \in Operation : Begin(p, op)
           \/ Clear(p) \/ Test(p) \/ IsSignalled(p)
           \/ Signal(p) /\ signalled
    PROVE  AutoCore' /\ AutoTaken'
<1>1. /\ Blocked' = Blocked /\ (signalled' => signalled)
      /\ UNCHANGED <<mutex, counters, waiting, pc, timed, late, woken, todo>>
      /\ \/ lock = NoOne /\ lock' = p /\ call[p] = "none"
         \/ lock = p /\ lock' = NoOne /\ call[p] \in Operation
      /\ call'[p] # "waits"
      /\ \A r \in Caller \ {p} : call'[r] = call[r] /\ result'[r] = result[r]
    BY ZenonT(30), EvLockSteps
<1>2. AutoCore'
    BY ZenonT(30), <1>1, AutoFrame DEF AutoCore
<1>3. \A r \in Caller : ~Taker(r)
  <2>1. NoOne \notin Caller
      BY CallerAssumption DEF Caller
  <2>2. call[p] \in Operation => pc[p] = "out" /\ call[p] # "waits"
      BY DEF EvControl, Operation
  <2> QED
      BY <1>1, <2>1, <2>2 DEF Taker
<1> QED
    BY <1>1, <1>2, <1>3 DEF AutoTaken

\* signal() sets the flag.
LEMMA AutoSignal ==
    ASSUME CVInv, EvControl, AutoCore, mode = "Auto", NEW p \in Caller, Signal(p), ~signalled
    PROVE  AutoCore' /\ AutoTaken'
<1>1. Notify(p, FALSE) /\ lock = p /\ call'[p] = "notify"
  <2>1. Notify(p, ~IsAuto) /\ lock = p /\ call'[p] = "notify"
      BY EvSignal
  <2> QED
      BY <2>1 DEF Notify, IsAuto
<1>2. /\ \A r \in Caller \ {p} : pc'[r] = pc[r]
      /\ pc'[p] = IF numWaiting = 0 THEN "notified" ELSE "notifyOne"
      /\ UNCHANGED <<lock, waiting, timed, late, woken, result>>
    BY <1>1 DEF Notify, Goto, At, CVInv, CVTypeOK
<1>3. \A r \in Caller \ {p} : call'[r] = call[r]
    BY DEF Signal, EvControl
<1>4. AutoCore'
    BY ZenonT(30), <1>1, <1>2, <1>3, AutoFrame DEF AutoCore
<1>5. ASSUME Blocked' # {} PROVE Taker(p)'
  <2>1. PICK r : r \in Blocked
      BY <1>2, <1>5 DEF Blocked
  <2>2. numWaiting > 0 /\ numWaiting \in Nat
      BY <2>1, BlockedWait DEF CVInv, CVTypeOK
  <2> QED
      BY <1>1, <1>2, <2>2 DEF Taker
<1> QED
    BY <1>4, <1>5 DEF AutoTaken

\* The call of wait(), and the return from it or from the notification.
LEMMA AutoCalls ==
    ASSUME CVInv, EvControl, AutoCore, AutoTaken, mode = "Auto", "Auto" \notin TimedModes,
           NEW p \in Caller, CallWait(p) \/ Return(p)
    PROVE  AutoCore' /\ AutoTaken'
<1>1. /\ (signalled' => signalled) /\ lock = p
      /\ woken' = woken /\ waiting' = waiting /\ late' = late
      /\ pc[p] \in {"out", "returned", "notified"} /\ pc'[p] \in {"out", "enter", "returned"}
      /\ \A r \in Caller \ {p} : pc'[r] = pc[r] /\ call'[r] = call[r] /\ result'[r] = result[r]
      /\ call'[p] = "waits" /\ pc'[p] = "returned" => result'[p]
    BY ZenonT(30), EvCallSteps
<1>2. timed' = {}
  <2>1. CASE CallWait(p)
    <3>1. PICK t \in {FALSE, (mode \in TimedModes)} : Wait(p, t, signalled)
        BY ZenonT(30), <2>1 DEF CallWait
    <3>2. t = FALSE
        BY ZenonT(30), <3>1, NoTimeout
    <3> QED
        BY ZenonT(30), <3>1, <3>2 DEF Wait, AutoCore
  <2>2. CASE Return(p)
      BY ZenonT(30), <2>2 DEF Return, Finish, AutoCore
  <2> QED
      BY <2>1, <2>2
<1>3. AutoCore'
    BY ZenonT(30), <1>1, <1>2, AutoFrame DEF AutoCore
<1>4. Blocked' \subseteq Blocked
    BY <1>1 DEF Blocked
<1>5. ASSUME NEW r \in Caller, Taker(r) PROVE ~signalled'
  <2>1. r = p /\ pc[p] = "returned" /\ call[p] = "waits"
      BY <1>1, <1>5 DEF Taker
  <2>2. result[p] /\ Return(p)
      BY <2>1 DEF AutoCore, CallWait
  <2>3. signalled' = (signalled /\ ~(call[p] = "waits" /\ result[p] /\ IsAuto))
      BY <2>2 DEF Return
  <2> QED
      BY ZenonT(30), <2>1, <2>2, <2>3 DEF IsAuto
<1> QED
    BY ZenonT(30), <1>1, <1>3, <1>4, <1>5 DEF AutoTaken

\* Who is inside the condition variable has called it.
LEMMA InOperation ==
    ASSUME EvControl, NEW p \in Caller
    PROVE  /\ pc[p] \in WaitLoc => call[p] = "waits"
           /\ pc[p] \in NotifyLoc => call[p] = "notify" /\ lock = p
<1>1. pc[p] # "out" => call[p] \in {"notify", "waits"}
    BY DEF EvControl
<1>2. call[p] = "waits" => pc[p] \in WaitLoc \cup {"returned"}
    BY DEF EvControl
<1>3. call[p] = "notify" => pc[p] \in NotifyLoc /\ lock = p
    BY DEF EvControl
<1> QED
    BY <1>1, <1>2, <1>3 DEF WaitLoc, NotifyLoc

\* The steps of wait().
LEMMA AutoWaits ==
    ASSUME CVInv, EvControl, AutoCore, AutoTaken, NEW p \in Caller, UNCHANGED <<signalled, call>>,
           \/ Enter(p) \/ Loop(p, signalled) \/ Suspend(p) \/ TimeOut(p) \/ Reacquire(p, signalled)
           \/ Exit(p) \/ Uncount(p)
    PROVE  AutoCore' /\ AutoTaken'
<1>0. /\ pc \in [Caller -> Loc] /\ result \in [Caller -> BOOLEAN] /\ signalled \in BOOLEAN
      /\ \A r \in Caller : pc[r] \in LockLoc => lock = r
      /\ NoOne \notin Caller /\ late = {} /\ timed = {} /\ p \notin late
    BY ZenonT(30), CallerAssumption DEF CVInv, CVTypeOK, CVControl, EvControl, Caller, AutoCore
<1>1. call[p] = "waits" /\ pc[p] \in WaitLoc
  <2>1. pc[p] \in WaitLoc
      BY ZenonT(30) DEF Enter, Loop, Suspend, TimeOut, Reacquire, Exit, Uncount, At, WaitLoc
  <2> QED
      BY ZenonT(30), <2>1, InOperation
<1>2. /\ \A r \in Caller \ {p} : pc'[r] = pc[r] /\ call'[r] = call[r] /\ result'[r] = result[r]
      /\ timed' = {} /\ late' = {}
      /\ pc'[p] # "oneThread"
    BY ZenonT(30), <1>0 DEF Enter, Loop, Suspend, TimeOut, Reacquire, Exit, Uncount, At, Goto
<1>3. pc'[p] \in {"exit", "uncount", "returned"} => result'[p]
  <2>1. CASE Loop(p, signalled)
      BY <1>0, <2>1 DEF Loop, Goto, At
  <2>2. CASE Reacquire(p, signalled)
      BY ZenonT(30), <1>0, <2>2 DEF Reacquire, Goto, At
  <2>3. CASE Exit(p) \/ Uncount(p)
      BY ZenonT(30), <1>1, <2>3 DEF Exit, Uncount, Goto, At, AutoCore
  <2>4. CASE Enter(p) \/ Suspend(p) \/ TimeOut(p)
      BY ZenonT(30), <1>0, <2>4 DEF Enter, Suspend, TimeOut, Goto, At
  <2> QED
      BY ZenonT(30), <2>1, <2>2, <2>3, <2>4
<1>4. waiting' = waiting \/ \A r \in Caller \ {p} : pc[r] # "oneThread"
  <2>1. CASE Enter(p) \/ Exit(p)
    <3>1. lock = p
        BY ZenonT(30), <1>0, <2>1 DEF Enter, Exit, At, LockLoc
    <3> QED
        BY <3>1, InOperation DEF NotifyLoc
  <2>2. CASE ~(Enter(p) \/ Exit(p))
      BY ZenonT(30), <2>2 DEF Loop, Suspend, TimeOut, Reacquire, Uncount
  <2> QED
      BY <2>1, <2>2
<1>5. AutoCore'
    BY ZenonT(30), <1>2, <1>3, <1>4, AutoFrame
<1>6. ASSUME signalled, Blocked' # {} PROVE woken' # {} \/ \E r \in Caller : Taker(r)'
  <2>1. ~Suspend(p) /\ ~TimeOut(p)
      BY <1>0, <1>6 DEF EvControl, Suspend, TimeOut, At
  <2>2. Blocked' \subseteq Blocked
      BY ZenonT(30), <1>0, <2>1 DEF Blocked, Enter, Loop, Reacquire, Exit, Uncount, Goto, At
  <2>3. CASE Reacquire(p, signalled)
    <3>1. lock' = p /\ pc'[p] = "loop"
        BY <1>0, <2>3 DEF Reacquire, Goto
    <3> QED
        BY ZenonT(30), <1>1, <1>2, <3>1 DEF Taker
  <2>4. CASE ~Reacquire(p, signalled)
    <3>1. woken' = woken /\ lock' = lock /\ lock = p
        BY ZenonT(30), <1>0, <2>1, <2>4 DEF Enter, Loop, Exit, Uncount, At, LockLoc
    <3>2. pc[p] \in {"loop", "exit", "uncount"} => pc'[p] \in {"exit", "uncount", "returned"}
        BY ZenonT(30), <1>0, <1>6, <2>1, <2>4 DEF Enter, Loop, Exit, Uncount, At, Goto
    <3>3. ASSUME NEW r \in Caller, Taker(r) PROVE Taker(r)'
        BY ZenonT(30), <1>1, <1>2, <3>1, <3>2, <3>3 DEF Taker, WaitLoc
    <3> QED
        BY <1>6, <2>2, <3>1, <3>3 DEF AutoTaken
  <2> QED
      BY <2>3, <2>4
<1> QED
    BY <1>5, <1>6 DEF AutoTaken

\* The steps of notify_one(): the fiber in front of waiting_ is suspended, because
\* the notifier has the lock; and if there is none, the blocked are threads.
LEMMA AutoNotifies ==
    ASSUME CVInv, EvControl, AutoCore, NEW p \in Caller, UNCHANGED <<signalled, call>>,
           NotifyFront(p) \/ NotifyThreads(p)
    PROVE  /\ AutoCore'
           /\ pc[p] \in {"notifyOne", "oneThread"} /\ Blocked # {} => woken' # {} \/ Taker(p)'
           /\ woken \subseteq woken' /\ lock' = lock
<1>0. /\ pc \in [Caller -> Loc] /\ waiting \in Seq(Fiber) /\ Fiber \subseteq Caller
      /\ \A r \in Caller : pc[r] \in LockLoc => lock = r
    BY DEF CVInv, CVTypeOK, CVControl, Caller
<1>1. /\ \A r \in Caller \ {p} : pc'[r] = pc[r] /\ call'[r] = call[r] /\ result'[r] = result[r]
      /\ UNCHANGED <<lock, waiting, timed, late>> /\ woken \subseteq woken'
      /\ pc[p] \in {"notifyOne", "oneThread", "allThreads"} /\ pc'[p] \in {"notified", "oneThread"}
      /\ pc'[p] = "oneThread" => waiting = <<>>
    BY <1>0 DEF NotifyFront, NotifyThreads, WakeFiber, Goto, At
<1>2. lock = p
    BY <1>1, InOperation DEF NotifyLoc
<1>3. AutoCore'
    BY ZenonT(30), <1>1, AutoFrame DEF AutoCore
<1>4. ASSUME NotifyFront(p), Blocked # {} PROVE woken' # {} \/ Taker(p)'
  <2>1. CASE waiting = <<>>
    <3>1. pc'[p] = "oneThread"
        BY <1>0, <1>4, <2>1 DEF NotifyFront, Goto
    <3> QED
        BY ZenonT(30), <1>1, <1>2, <3>1 DEF Taker
  <2>2. CASE waiting # <<>>
    <3>1. Head(waiting) = waiting[1] /\ 1 \in 1..Len(waiting) /\ Head(waiting) \in Fiber
        BY <1>0, <2>2
    <3>2. Head(waiting) \in Entered
        BY ZenonT(30), <3>1 DEF CVInv, WaitersCounted, Elements
    <3>3. pc[Head(waiting)] = "suspended"
      <4>1. pc[Head(waiting)] \in {"loop", "suspend", "suspended", "exit"} /\ Head(waiting) \in Caller
          BY <3>2 DEF Entered
      <4>2. Head(waiting) # p
          BY <1>1, <4>1
      <4> QED
          BY <1>0, <1>2, <4>1, <4>2 DEF LockLoc
    <3>4. Head(waiting) \in woken'
        BY <1>4, <2>2, <3>3 DEF NotifyFront, WakeFiber
    <3> QED
        BY <3>4
  <2> QED
      BY <2>1, <2>2
<1>5. ASSUME NotifyThreads(p), pc[p] = "oneThread", Blocked # {} PROVE woken' # {}
  <2>1. PICK r : r \in Blocked
      BY <1>5
  <2>2. /\ r \in Caller /\ pc[r] = "suspended" /\ r \notin woken
        /\ r \in Fiber => r \in Elements(waiting)
        /\ r \in Thread => onCondition > 0
      BY <2>1, BlockedWait
  <2>3. waiting = <<>> /\ Elements(waiting) = {}
      BY <1>5 DEF AutoCore, Elements
  <2>4. r \in AsleepThreads /\ onCondition > 0
      BY <2>2, <2>3 DEF AsleepThreads, Caller
  <2> QED
      BY <1>5, <2>4 DEF NotifyThreads, At
<1>6. pc[p] = "notifyOne" => NotifyFront(p)
    BY DEF NotifyThreads
<1>7. pc[p] = "oneThread" => NotifyThreads(p)
    BY DEF NotifyFront, At
<1> QED
    BY ZenonT(30), <1>1, <1>3, <1>4, <1>5, <1>6, <1>7

\* The steps of the condition variable.
LEMMA AutoInCall ==
    ASSUME CVInv, EvControl, AutoCore, AutoTaken, NEW p \in Caller, InCall(p) \/ Nature(p)
    PROVE  AutoCore' /\ AutoTaken'
<1>0. /\ pc \in [Caller -> Loc] /\ UNCHANGED <<signalled, call>>
      /\ Continue(p, signalled) \/ Expire(p) \/ SpuriousWake(p)
    BY EvInCall DEF CVInv, CVTypeOK
<1>1. CASE \/ Enter(p) \/ Loop(p, signalled) \/ Suspend(p) \/ TimeOut(p) \/ Reacquire(p, signalled)
           \/ Exit(p) \/ Uncount(p)
    BY <1>0, <1>1, AutoWaits
<1>2. CASE NotifyFront(p) \/ NotifyThreads(p)
  <2>1. /\ AutoCore' /\ woken \subseteq woken' /\ lock' = lock
        /\ pc[p] \in {"notifyOne", "oneThread"} /\ Blocked # {} => woken' # {} \/ Taker(p)'
      BY <1>0, <1>2, AutoNotifies
  <2>2. /\ \A r \in Caller \ {p} : pc'[r] = pc[r] /\ call'[r] = call[r]
        /\ pc[p] \in NotifyLoc /\ pc'[p] # "suspended"
      BY <1>0, <1>2 DEF NotifyFront, NotifyThreads, Goto, At, NotifyLoc
  <2>3. Blocked' \subseteq Blocked
      BY ZenonT(30), <2>1, <2>2 DEF Blocked
  <2>4. ASSUME NEW r \in Caller, Taker(r), Blocked # {} PROVE woken' # {} \/ Taker(p)'
    <3>1. r = p /\ call[p] = "notify"
        BY ZenonT(30), <2>2, <2>4, InOperation DEF Taker
    <3> QED
        BY <2>1, <2>4, <3>1 DEF Taker
  <2> QED
      BY <1>0, <2>1, <2>3, <2>4 DEF AutoTaken
<1>3. CASE LockAll(p) \/ NotifyNext(p) \/ UnlockAll(p)
  <2>1. /\ \A r \in Caller \ {p} : pc'[r] = pc[r] /\ call'[r] = call[r] /\ result'[r] = result[r]
        /\ UNCHANGED <<lock, waiting, timed, late>> /\ woken \subseteq woken'
        /\ pc[p] \in {"notifyAll", "fibers"} /\ pc'[p] \in {"fibers", "allThreads"}
      BY ZenonT(30), <1>0, <1>3 DEF LockAll, NotifyNext, UnlockAll, WakeFiber, Goto, At
  <2>2. AutoCore'
      BY ZenonT(30), <2>1, AutoFrame DEF AutoCore
  <2>3. \A r \in Caller : ~Taker(r)
      BY <2>1, InOperation DEF Taker, NotifyLoc
  <2>4. Blocked' \subseteq Blocked
      BY ZenonT(30), <2>1 DEF Blocked
  <2> QED
      BY ZenonT(30), <1>0, <2>1, <2>2, <2>3, <2>4 DEF AutoTaken
<1>4. CASE Expire(p) \/ SpuriousWake(p)
  <2>1. /\ UNCHANGED <<lock, waiting, pc, timed, late, result>> /\ woken \subseteq woken'
      BY ZenonT(30), <1>4 DEF Expire, SpuriousWake, AutoCore
  <2>2. AutoCore'
      BY ZenonT(30), <1>0, <2>1, AutoFrame DEF AutoCore
  <2>3. Blocked' \subseteq Blocked /\ \A r \in Caller : Taker(r) => Taker(r)'
      BY <1>0, <2>1 DEF Blocked, Taker
  <2> QED
      BY <1>0, <2>1, <2>2, <2>3 DEF AutoTaken
<1> QED
    BY <1>0, <1>1, <1>2, <1>3, <1>4 DEF Continue

\* In mode Auto, without timeouts, the invariant holds.
THEOREM AutoInvariance ==
    ASSUME "Auto" \notin TimedModes
    PROVE  Spec => []AutoInv
<1>1. Init => AutoInv
  <2>1. ASSUME Init PROVE AutoCore /\ Blocked = {}
      BY <2>1 DEF Init, CVInit, AutoCore, Blocked
  <2> QED
      BY <2>1 DEF AutoInv, AutoTaken
<1>2. EvInv /\ AutoInv /\ [Next]_vars => AutoInv'
  <2> SUFFICES ASSUME EvInv, AutoInv, [Next]_vars, mode' = "Auto"
               PROVE  AutoCore' /\ AutoTaken'
      BY DEF AutoInv
  <2>1. CASE UNCHANGED vars
    <3>1. /\ AutoCore /\ AutoTaken
          /\ UNCHANGED <<signalled, call, lock, waiting, pc, timed, late, woken, result>>
        BY <2>1 DEF vars, cvVars, AutoInv
    <3>2. AutoCore'
        BY <3>1 DEF AutoCore
    <3> QED
        BY <3>1, <3>2 DEF AutoTaken, Blocked, Taker
  <2>2. CASE Next
    <3>1. PICK p \in Caller : (\E op \in Operation : Begin(p, op)) \/ Step(p) \/ Nature(p)
        BY <2>2 DEF Next
    <3>2. mode = "Auto"
        BY ZenonT(30), <3>1 DEF Begin, Step, Nature, Signal, Clear, Test, IsSignalled, CallWait, Return, InCall, End
    <3>3. CVInv /\ EvControl /\ AutoCore /\ AutoTaken
        BY <3>2 DEF EvInv, AutoInv
    <3>4. CASE \/ \E op \in Operation : Begin(p, op)
               \/ Clear(p) \/ Test(p) \/ IsSignalled(p)
               \/ Signal(p) /\ signalled
        BY <3>3, <3>4, AutoLock
    <3>5. CASE Signal(p) /\ ~signalled
        BY <3>2, <3>3, <3>5, AutoSignal
    <3>6. CASE CallWait(p) \/ Return(p)
        BY <3>2, <3>3, <3>6, AutoCalls
    <3>7. CASE InCall(p) \/ Nature(p)
        BY <3>3, <3>7, AutoInCall
    <3> QED
        BY <3>1, <3>4, <3>5, <3>6, <3>7 DEF Step
  <2> QED
      BY <2>1, <2>2
<1> QED
    BY <1>1, <1>2, EvInvariance, PTL DEF Spec

\* No signal of an Auto event lies idle while somebody waits, if nobody waits for
\* such an event with a timeout: a woken caller or the holder of the lock takes it,
\* or notify_one() is on the way.
THEOREM SignalTaken ==
    ASSUME "Auto" \notin TimedModes
    PROVE  Spec => []SignalIsTaken
<1>1. EvInv /\ AutoInv => SignalIsTaken
  <2> SUFFICES ASSUME EvInv, AutoInv, IsAuto, signalled, Blocked # {}
               PROVE  \E p \in Caller : \/ p \in woken
                                        \/ p \notin Blocked /\ lock = p
                                        \/ pc[p] \in {"notifyOne", "oneThread"}
      BY DEF SignalIsTaken
  <2>1. woken # {} \/ \E p \in Caller : Taker(p)
      BY DEF AutoInv, AutoTaken, IsAuto
  <2>2. woken \subseteq Caller
      BY DEF EvInv, CVInv, CVTypeOK
  <2>3. ASSUME NEW p \in Caller, Taker(p) PROVE lock = p /\ p \notin Blocked
      BY <2>3 DEF Taker, Blocked
  <2> QED
      BY <2>1, <2>2, <2>3
<1> QED
    BY <1>1, EvInvariance, AutoInvariance, PTL
=============================================================================
