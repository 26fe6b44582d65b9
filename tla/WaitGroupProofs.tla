-------------------------- MODULE WaitGroupProofs ---------------------------
(***************************************************************************)
(* Two users of ConditionVariable, for any number of fibers, threads and   *)
(* calls.  Among the callers that share one directly the counters are      *)
(* right, notify_all() forgets nobody and a wait returns what it should;   *)
(* and nobody who waits on a WaitGroup is forgotten when its counter       *)
(* becomes zero.                                                           *)
(***************************************************************************)
EXTENDS WaitGroup, ConditionVariableClient, ConditionVariableProofs

-----------------------------------------------------------------------------
\* Callers that wait for an item and put items.

Role == {"idle", "locked", "put", "waits", "notifies"}

\* Where a caller is goes with its role; nobody is suspended who has just seen an
\* item; and a result is right for as long as the caller has the lock.
CCControl ==
    /\ items \in Nat
    /\ role \in [Caller -> Role]
    /\ \A p \in Caller : role[p] \in {"idle", "locked", "put"} => pc[p] = "out"
    /\ \A p \in Caller : role[p] = "waits" => pc[p] \in WaitLoc \cup {"returned"}
    /\ \A p \in Caller : role[p] = "locked" => lock = p
    /\ \A p \in Caller : pc[p] \in {"enter", "suspend"} => items = 0
    /\ \A p \in Caller : pc[p] \in {"exit", "uncount", "returned"} /\ result[p] => items > 0
    /\ \A p \in Caller : pc[p] \in {"exit", "uncount"} /\ ~result[p] =>
                           p \in late /\ (p \in Thread => items = 0)

CCAll ==
    how = "all" /\ items > 0 =>
      \A p \in Blocked : WillNotify(p) # {} \/ \E q \in Caller : role[q] = "put"

CCInv == CVInv /\ CCControl /\ CCAll

\* A caller takes the lock, or puts an item and perhaps gives up the lock.
LEMMA CCLockSteps ==
    ASSUME CCInv, NEW p \in Caller, Acquire(p) \/ Put(p)
    PROVE  CCInv'
<1>0. /\ CVInv /\ CCControl /\ CCAll /\ pc \in [Caller -> Loc] /\ result \in [Caller -> BOOLEAN]
      /\ role \in [Caller -> Role] /\ items \in Nat
      /\ \A r \in Caller : pc[r] \in LockLoc => lock = r
      /\ NoOne \notin Caller
    BY ZenonT(30), CallerAssumption DEF CCInv, CCControl, CVInv, CVTypeOK, CVControl, Caller
<1>1. /\ UNCHANGED <<how, mutex, counters, waiting, pc, timed, late, woken, result, todo>>
      /\ pc[p] = "out"
      /\ \/ lock = NoOne /\ lock' = p /\ items' = items /\ role' = [role EXCEPT ![p] = "locked"]
            /\ role[p] = "idle"
         \/ lock = p /\ lock' \in {p, NoOne} /\ items' = items + 1
            /\ role' = [role EXCEPT ![p] = "put"] /\ role[p] = "locked"
    BY ZenonT(30), <1>0 DEF Acquire, Put, counters, CCControl
<1>2. CVInv'
    BY <1>0, <1>1, LockKeeps DEF LockLoc
<1>3. \A r \in Caller : pc[r] \notin LockLoc
    BY <1>0, <1>1 DEF LockLoc
<1>4. /\ items' \in Nat /\ role' \in [Caller -> Role]
      /\ \A r \in Caller \ {p} : role'[r] = role[r]
      /\ \/ role'[p] = "locked" /\ lock' = p /\ items' = items /\ lock = NoOne
         \/ role'[p] = "put" /\ lock = p
    BY <1>0, <1>1 DEF Role
<1>5. CCControl'
  <2>1. /\ \A r \in Caller : role'[r] \in {"idle", "locked", "put"} => pc'[r] = "out"
        /\ \A r \in Caller : role'[r] = "waits" => pc'[r] \in WaitLoc \cup {"returned"}
      BY ZenonT(30), <1>0, <1>1, <1>4 DEF CCControl
  <2>2. \A r \in Caller : role'[r] = "locked" => lock' = r
      BY ZenonT(30), <1>0, <1>4 DEF CCControl
  <2>3. \A r \in Caller : pc'[r] \notin LockLoc
      BY <1>1, <1>3
  <2> QED
      BY ZenonT(30), <1>4, <2>1, <2>2, <2>3 DEF CCControl, LockLoc
<1>6. Blocked' = Blocked /\ \A r : WillNotify(r)' = WillNotify(r)
    BY <1>1 DEF Blocked, WillNotify
<1>7. CCAll'
  <2>1. CASE role'[p] = "put"
      BY <2>1 DEF CCAll
  <2>2. CASE items' = items /\ role[p] = "idle"
      BY ZenonT(30), <1>0, <1>1, <1>4, <1>6, <2>2 DEF CCAll
  <2> QED
      BY <1>1, <1>4, <2>1, <2>2
<1> QED
    BY <1>2, <1>5, <1>7 DEF CCInv

\* A caller that has put an item notifies.
LEMMA CCNotifies ==
    ASSUME CCInv, NEW p \in Caller, CallNotify(p)
    PROVE  CCInv'
<1>0. /\ CVInv /\ CCControl /\ pc \in [Caller -> Loc] /\ role \in [Caller -> Role]
    BY DEF CCInv, CCControl, CVInv, CVTypeOK
<1>1. /\ Notify(p, how = "all") /\ (how = "all") \in BOOLEAN
      /\ role[p] = "put" /\ role' = [role EXCEPT ![p] = "notifies"] /\ how' = how /\ items' = items
    BY DEF CallNotify
<1>2. CVInv'
    BY ZenonT(30), <1>0, <1>1, NotifyKeeps
<1>3. /\ \A r \in Caller \ {p} : pc'[r] = pc[r] /\ role'[r] = role[r]
      /\ role' \in [Caller -> Role] /\ role'[p] = "notifies"
      /\ pc'[p] \in {"notified", "notifyAll", "notifyOne"}
      /\ UNCHANGED <<lock, late, woken, result>>
    BY <1>0, <1>1 DEF Notify, Goto, At, Role
<1>4. CCControl'
    BY ZenonT(30), <1>0, <1>1, <1>3 DEF CCControl
<1>5. CCAll'
  <2>1. Blocked' \subseteq Blocked
      BY <1>3 DEF Blocked
  <2>2. ASSUME how = "all" PROVE Notify(p, TRUE)
      BY <1>1, <2>2 DEF Notify
  <2>3. ASSUME how = "all", NEW r \in Blocked' PROVE WillNotify(r)' # {}
      BY ZenonT(30), <1>0, <2>1, <2>2, <2>3, NotifyReaches
  <2> QED
      BY <1>1, <2>3 DEF CCAll
<1> QED
    BY <1>2, <1>4, <1>5 DEF CCInv

\* A caller begins to wait, or returns from its call with an item or without.
LEMMA CCCallSteps ==
    ASSUME CCInv, NEW p \in Caller, WaitForItem(p) \/ ClientReturn(p)
    PROVE  CCInv'
<1>0. /\ CVInv /\ CCControl /\ CCAll /\ pc \in [Caller -> Loc] /\ result \in [Caller -> BOOLEAN]
      /\ role \in [Caller -> Role] /\ items \in Nat /\ (items > 0) \in BOOLEAN
      /\ \A r \in Caller : pc[r] \in LockLoc => lock = r
    BY DEF CCInv, CCControl, CVInv, CVTypeOK, CVControl
<1>1. /\ CVInv' /\ CCControl'
      /\ how' = how /\ items' \in Nat /\ (items' > 0 => items > 0) /\ woken' = woken /\ todo' = todo
      /\ \A r \in Caller \ {p} : pc'[r] = pc[r] /\ role'[r] = role[r]
      /\ pc[p] \in {"out", "returned", "notified"} /\ pc'[p] # "suspended" /\ role[p] # "put"
  <2>1. CASE WaitForItem(p)
    <3>1. PICK t \in {FALSE, (how \in TimedModes)} : Wait(p, t, items > 0)
        BY ZenonT(30), <2>1 DEF WaitForItem
    <3>2. t \in BOOLEAN
        BY ZenonT(30), <3>1, MayTimeOut
    <3>3. CVInv'
        BY ZenonT(30), <1>0, <3>1, <3>2, WaitKeeps
    <3>4. role[p] = "locked" /\ role' = [role EXCEPT ![p] = "waits"] /\ how' = how /\ items' = items
        BY <2>1 DEF WaitForItem
    <3>5. /\ lock = p /\ lock' = lock /\ UNCHANGED <<late, woken, todo>> /\ pc[p] = "out"
          /\ \A r \in Caller \ {p} : pc'[r] = pc[r]
          /\ \/ pc'[p] = "returned" /\ items > 0 /\ result' = [result EXCEPT ![p] = TRUE]
             \/ pc'[p] = "enter" /\ ~(items > 0) /\ result' = result
        BY <1>0, <3>1 DEF Wait, Goto, At
    <3>6. /\ role' \in [Caller -> Role] /\ role'[p] = "waits"
          /\ \A r \in Caller \ {p} : role'[r] = role[r] /\ result'[r] = result[r]
          /\ pc'[p] = "enter" => items = 0
        BY <1>0, <3>4, <3>5 DEF Role
    <3>7. CCControl'
      <4>1. /\ \A r \in Caller : role'[r] \in {"idle", "locked", "put"} => pc'[r] = "out"
            /\ \A r \in Caller : role'[r] = "waits" => pc'[r] \in WaitLoc \cup {"returned"}
            /\ \A r \in Caller : role'[r] = "locked" => lock' = r
          BY ZenonT(30), <1>0, <3>5, <3>6 DEF CCControl, WaitLoc
      <4>2. \A r \in Caller : pc'[r] \in {"enter", "suspend"} => items' = 0
          BY ZenonT(30), <1>0, <3>4, <3>5, <3>6 DEF CCControl
      <4>3. \A r \in Caller : pc'[r] \in {"exit", "uncount", "returned"} /\ result'[r] => items' > 0
          BY ZenonT(30), <1>0, <3>4, <3>5, <3>6 DEF CCControl
      <4>4. \A r \in Caller : pc'[r] \in {"exit", "uncount"} /\ ~result'[r] =>
                                r \in late' /\ (r \in Thread => items' = 0)
          BY ZenonT(30), <1>0, <3>4, <3>5, <3>6 DEF CCControl
      <4> QED
          BY ZenonT(30), <1>0, <3>4, <3>6, <4>1, <4>2, <4>3, <4>4 DEF CCControl
    <3> QED
        BY ZenonT(30), <1>0, <3>3, <3>4, <3>5, <3>6, <3>7
  <2>2. CASE ClientReturn(p)
    <3>1. /\ Finish(p) /\ lock' = IF lock = p THEN NoOne ELSE lock
          /\ role' = [role EXCEPT ![p] = "idle"] /\ how' = how
          /\ items' = IF role[p] = "waits" /\ result[p] THEN items - 1 ELSE items
        BY ZenonT(30), <2>2 DEF ClientReturn
    <3>2. /\ pc[p] \in {"returned", "notified"} /\ pc'[p] = "out"
          /\ \A r \in Caller \ {p} : pc'[r] = pc[r]
          /\ UNCHANGED <<late, woken, result, todo>>
        BY <1>0, <3>1 DEF Finish, Goto
    <3>3. CVInv'
        BY ZenonT(30), <1>0, <3>1, FinishKeeps
    <3>4. /\ role' \in [Caller -> Role] /\ role'[p] = "idle" /\ role[p] # "put"
          /\ \A r \in Caller \ {p} : role'[r] = role[r]
        BY ZenonT(30), <1>0, <3>1, <3>2 DEF Role, CCControl
    <3>5. items' # items => pc[p] = "returned" /\ items > 0
      <4>1. items' # items => role[p] = "waits" /\ result[p]
          BY ZenonT(30), <3>1
      <4>2. role[p] = "waits" => pc[p] = "returned"
          BY <1>0, <3>2 DEF CCControl, WaitLoc
      <4> QED
          BY <1>0, <4>1, <4>2 DEF CCControl
    <3>6. items' \in Nat /\ (items' > 0 => items > 0)
        BY <1>0, <3>1, <3>5
    <3>7. \A r \in Caller : pc'[r] \in LockLoc => items' = items
        BY ZenonT(30), <1>0, <3>2, <3>5 DEF LockLoc
    <3>8. CCControl'
      <4>1. /\ \A r \in Caller : role'[r] \in {"idle", "locked", "put"} => pc'[r] = "out"
            /\ \A r \in Caller : role'[r] = "waits" => pc'[r] \in WaitLoc \cup {"returned"}
            /\ \A r \in Caller : role'[r] = "locked" => lock' = r
          BY ZenonT(30), <1>0, <3>1, <3>2, <3>4 DEF CCControl
      <4>2. \A r \in Caller : pc'[r] \in {"enter", "suspend"} => items' = 0
          BY ZenonT(30), <1>0, <3>2, <3>7 DEF CCControl, LockLoc
      <4>3. \A r \in Caller : pc'[r] \in {"exit", "uncount", "returned"} /\ result'[r] => items' > 0
          BY ZenonT(30), <1>0, <3>2, <3>7 DEF CCControl, LockLoc
      <4>4. \A r \in Caller : pc'[r] \in {"exit", "uncount"} /\ ~result'[r] =>
                                r \in late' /\ (r \in Thread => items' = 0)
          BY ZenonT(30), <1>0, <3>2, <3>7 DEF CCControl, LockLoc
      <4> QED
          BY ZenonT(30), <3>4, <3>6, <4>1, <4>2, <4>3, <4>4 DEF CCControl
    <3> QED
        BY ZenonT(30), <3>1, <3>2, <3>3, <3>4, <3>6, <3>8
  <2> QED
      BY ZenonT(30), <2>1, <2>2
<1>2. \A r \in Blocked' : r \in Blocked /\ (WillNotify(r) # {} => WillNotify(r)' # {})
  <2>1. \A r \in Caller : \/ pc'[r] = pc[r]
                          \/ pc[r] \in {"out", "returned", "notified"} /\ pc'[r] # "suspended"
      BY <1>1
  <2> QED
      BY ZenonT(30), <1>0, <1>1, <2>1, Undisturbed
<1>3. \A r \in Caller : role[r] = "put" => role'[r] = "put"
    BY <1>1
<1>4. CCAll'
    BY ZenonT(30), <1>0, <1>1, <1>2, <1>3 DEF CCAll
<1> QED
    BY ZenonT(30), <1>1, <1>4 DEF CCInv

\* The steps of the condition variable: a caller that leaves the loop has seen an
\* item, or its time is over.
LEMMA CCContinue ==
    ASSUME CCInv, NEW p \in Caller, Continue(p, items > 0), UNCHANGED <<how, items, role>>
    PROVE  CCControl'
<1>0. /\ CVInv /\ CCControl /\ pc \in [Caller -> Loc] /\ result \in [Caller -> BOOLEAN]
      /\ items \in Nat /\ (items > 0) \in BOOLEAN
      /\ \A r \in Caller : pc[r] \in LockLoc => lock = r
    BY DEF CCInv, CCControl, CVInv, CVTypeOK, CVControl
<1>1. /\ pc[p] \notin {"out", "returned", "notified"}
      /\ \A r \in Caller \ {p} : pc'[r] = pc[r]
      /\ \/ lock' = lock
         \/ lock = NoOne /\ lock' = p
         \/ lock = p /\ lock' = NoOne
      /\ pc'[p] = "suspend" => pc[p] = "loop" /\ ~(items > 0)
      /\ pc'[p] # "enter"
      /\ pc[p] \in WaitLoc => pc'[p] \in WaitLoc \cup {"returned"}
    BY ZenonT(30), <1>0, ContinueFrame
<1>2. /\ \A r \in Caller \ {p} : result'[r] = result[r]
      /\ \A r \in Caller \ {p} : r \in late => r \in late'
    BY ZenonT(30), <1>0 DEF Continue, Enter, Loop, Suspend, TimeOut, Reacquire, Exit,
       Uncount, NotifyFront, LockAll, NotifyNext, UnlockAll, NotifyThreads
<1>3. /\ \A r \in Caller : role'[r] \in {"idle", "locked", "put"} => pc'[r] = "out"
      /\ \A r \in Caller : role'[r] = "waits" => pc'[r] \in WaitLoc \cup {"returned"}
    BY <1>0, <1>1 DEF CCControl, WaitLoc
<1>4. \A r \in Caller : role'[r] = "locked" => lock' = r
  <2>1. role[p] # "locked" /\ NoOne \notin Caller
      BY ZenonT(30), <1>0, <1>1, CallerAssumption DEF CCControl, Caller
  <2> QED
      BY ZenonT(30), <1>0, <1>1, <2>1 DEF CCControl
<1>5. \A r \in Caller : pc'[r] \in {"enter", "suspend"} => items' = 0
    BY <1>0, <1>1 DEF CCControl
<1>6. /\ pc'[p] \in {"exit", "uncount", "returned"} /\ result'[p] => items > 0
      /\ pc'[p] \in {"exit", "uncount"} /\ ~result'[p] => p \in late' /\ (p \in Thread => items = 0)
  <2>1. CASE Loop(p, items > 0)
      BY <1>0, <2>1 DEF Loop, Goto, At
  <2>2. CASE Reacquire(p, items > 0)
    <3>1. CASE p \in late
      <4>1. /\ result' = [result EXCEPT ![p] = (p \in Thread /\ items > 0)] /\ late' = late
          BY <2>2, <3>1 DEF Reacquire
      <4>2. result'[p] = (p \in Thread /\ items > 0)
          BY <1>0, <4>1
      <4>3. result'[p] <=> p \in Thread /\ items > 0
          BY ZenonT(30), <4>2
      <4> QED
          BY <1>0, <3>1, <4>1, <4>3
    <3>2. CASE p \notin late
        BY ZenonT(30), <1>0, <2>2, <3>2 DEF Reacquire, Goto
    <3> QED
        BY <3>1, <3>2
  <2>3. CASE Exit(p) \/ Uncount(p)
    <3>1. /\ pc[p] \in {"exit", "uncount"} /\ result' = result
          /\ pc'[p] \in {"exit", "uncount"} => late' = late
        BY <1>0, <2>3 DEF Exit, Uncount, Goto, At
    <3> QED
        BY <1>0, <3>1 DEF CCControl
  <2>4. CASE ~(Loop(p, items > 0) \/ Reacquire(p, items > 0) \/ Exit(p) \/ Uncount(p))
    <3>1. pc'[p] \notin {"exit", "uncount", "returned"}
        BY <1>0, <2>4 DEF Continue, Enter, Suspend, TimeOut, NotifyFront, LockAll,
           NotifyNext, UnlockAll, NotifyThreads, Goto, At
    <3> QED
        BY ZenonT(30), <3>1
  <2> QED
      BY ZenonT(30), <2>1, <2>2, <2>3, <2>4
<1>7. \A r \in Caller : pc'[r] \in {"exit", "uncount", "returned"} /\ result'[r] => items' > 0
    BY ZenonT(30), <1>0, <1>1, <1>2, <1>6 DEF CCControl
<1>8. \A r \in Caller : pc'[r] \in {"exit", "uncount"} /\ ~result'[r] =>
                          r \in late' /\ (r \in Thread => items' = 0)
    BY <1>0, <1>1, <1>2, <1>6 DEF CCControl
<1> QED
    BY ZenonT(30), <1>0, <1>3, <1>4, <1>5, <1>7, <1>8 DEF CCControl

\* Notifications arrive, whether by a step of a call or not.
LEMMA CCInCall ==
    ASSUME CCInv, NEW p \in Caller, ClientInCall(p) \/ ClientNature(p)
    PROVE  CCInv'
<1>0. CVInv /\ CCControl /\ CCAll /\ UNCHANGED <<how, items, role>> /\ (items > 0) \in BOOLEAN
    BY DEF CCInv, ClientInCall, ClientNature
<1>1. CASE ClientInCall(p)
  <2>1. Continue(p, items > 0)
      BY <1>1 DEF ClientInCall
  <2>2. CVInv' /\ CCControl'
      BY ZenonT(30), <1>0, <2>1, ContinueKeeps, CCContinue
  <2>3. ASSUME items > 0, NEW r \in Blocked'
        PROVE  r \in Blocked /\ (WillNotify(r) # {} => WillNotify(r)' # {})
    <3>1. ~Suspend(p)
        BY <1>0, <2>3 DEF CCControl, Suspend, At
    <3> QED
        BY ZenonT(30), <1>0, <2>1, <2>3, <3>1, Delivered
  <2> QED
      BY <1>0, <2>2, <2>3 DEF CCInv, CCAll
<1>2. CASE ClientNature(p)
  <2>1. Expire(p) \/ SpuriousWake(p)
      BY <1>2 DEF ClientNature
  <2>2. CVInv'
      BY <1>0, <2>1, NatureKeeps
  <2>3. UNCHANGED <<lock, pc, result, todo>> /\ woken \subseteq woken' /\ late \subseteq late'
      BY ZenonT(30), <2>1 DEF Expire, SpuriousWake
  <2>4. CCControl'
      BY <1>0, <2>3 DEF CCControl
  <2>5. \A r \in Blocked' : r \in Blocked /\ (WillNotify(r) # {} => WillNotify(r)' # {})
      BY <1>0, <2>3, Undisturbed
  <2> QED
      BY <1>0, <2>2, <2>4, <2>5 DEF CCInv, CCAll
<1> QED
    BY <1>1, <1>2

\* The invariant of the callers of ConditionVariableClient.
THEOREM CCInvariance == ClientSpec => []CCInv
<1>1. ClientInit => CCInv
  <2> SUFFICES ASSUME ClientInit PROVE CCInv
      OBVIOUS
  <2>1. /\ CVInit /\ items = 0 /\ role = [p \in Caller |-> "idle"]
      BY DEF ClientInit
  <2>2. CVInv
      BY <2>1, InitKeeps
  <2>3. pc = [p \in Caller |-> "out"]
      BY <2>1 DEF CVInit
  <2>4. CCControl
      BY <2>1, <2>3 DEF CCControl, Role
  <2> QED
      BY <2>1, <2>2, <2>4 DEF CCInv, CCAll
<1>2. CCInv /\ [ClientNext]_clientVars => CCInv'
  <2> SUFFICES ASSUME CCInv, [ClientNext]_clientVars PROVE CCInv'
      OBVIOUS
  <2>1. CASE UNCHANGED clientVars
    <3>1. /\ UNCHANGED <<how, items, role>>
          /\ UNCHANGED <<lock, mutex, counters, waiting, pc, timed, late, woken, result, todo>>
        BY <2>1 DEF clientVars, cvVars, counters
    <3>2. CVInv' /\ Blocked' = Blocked /\ \A r : WillNotify(r)' = WillNotify(r)
        BY ZenonT(30), <3>1, StutterKeeps DEF CCInv
    <3>3. CCControl'
        BY <3>1 DEF CCInv, CCControl
    <3> QED
        BY <3>1, <3>2, <3>3 DEF CCInv, CCAll
  <2>2. CASE ClientNext
    <3>1. PICK p \in Caller :
             \/ Acquire(p) \/ WaitForItem(p) \/ Put(p) \/ CallNotify(p) \/ ClientReturn(p)
             \/ ClientInCall(p) \/ ClientNature(p)
        BY <2>2 DEF ClientNext, Caller
    <3> QED
        BY ZenonT(30), <3>1, CCLockSteps, CCNotifies, CCCallSteps, CCInCall
  <2> QED
      BY <2>1, <2>2
<1> QED
    BY <1>1, <1>2, PTL DEF ClientSpec

\* The counters of a ConditionVariable and waiting_ agree with who waits.
THEOREM CountedCorrect == ClientSpec => []WaitersCounted
<1>1. CCInv => WaitersCounted
    BY DEF CCInv, CVInv
<1> QED
    BY <1>1, CCInvariance, PTL

\* notify_all() forgets nobody who is suspended although there is an item.
THEOREM ForgetsNobody == ClientSpec => []NobodyForgotten
<1>1. CCInv => NobodyForgotten
    BY DEF CCInv, CCAll, NobodyForgotten, Blocked, WillNotify, Caller, Elements
<1> QED
    BY <1>1, CCInvariance, PTL

\* wait() and wait_until() return with the lock, true only while the predicate
\* holds, and false only after the timeout.
THEOREM ResultCorrect == ClientSpec => []ResultIsRight
<1>1. CCInv => ResultIsRight
  <2> SUFFICES ASSUME CCInv PROVE ResultIsRight
      OBVIOUS
  <2>1. \A p \in Caller : pc[p] \in LockLoc => lock = p
      BY DEF CCInv, CVInv, CVControl
  <2> QED
      BY <2>1 DEF CCInv, CCControl, LockLoc, ResultIsRight, Caller
<1> QED
    BY <1>1, CCInvariance, PTL

-----------------------------------------------------------------------------
\* WaitGroup.

\* The calls of done() that are owed, one by one.
Owed == {d \in Caller \X Nat : d[2] \in 1..owes[d[1]]}

\* The counter counts them, and whoever has brought it to zero goes on to notify
\* all: nobody can be suspended without being told.
WGInv ==
    /\ CVInv
    /\ owes \in [Caller -> Nat]
    /\ IsFiniteSet(Owed) /\ count = Cardinality(Owed)
    /\ call \in [Caller -> {"none", "lock", "notify", "notifies", "wait", "waits"}]
    /\ \A p \in Caller : call[p] \notin {"notifies", "waits"} => pc[p] = "out"
    /\ \A p \in Caller : call[p] \in {"notify", "wait"} => lock = p
    /\ count = 0 =>
         /\ \A p \in Caller : pc[p] = "suspend" => \E q \in Caller : call[q] = "lock"
         /\ \A p \in Blocked : \/ WillNotify(p) # {}
                               \/ \E q \in Caller : call[q] \in {"lock", "notify"}

\* add() and done() keep the count.
LEMMA OwedSteps ==
    ASSUME WGInv, NEW p \in Caller
    PROVE  /\ count \in Nat
           /\ owes' = [owes EXCEPT ![p] = @ + 1] =>
                IsFiniteSet(Owed') /\ Cardinality(Owed') = count + 1 /\ owes' \in [Caller -> Nat]
           /\ owes[p] > 0 /\ owes' = [owes EXCEPT ![p] = @ - 1] =>
                IsFiniteSet(Owed') /\ Cardinality(Owed') = count - 1 /\ owes' \in [Caller -> Nat]
<1>0. owes \in [Caller -> Nat] /\ IsFiniteSet(Owed) /\ count = Cardinality(Owed) /\ owes[p] \in Nat
    BY DEF WGInv
<1>1. count \in Nat
    BY <1>0, FS_CardinalityType
<1>2. ASSUME owes' = [owes EXCEPT ![p] = @ + 1]
      PROVE  IsFiniteSet(Owed') /\ Cardinality(Owed') = count + 1 /\ owes' \in [Caller -> Nat]
  <2>1. /\ owes' \in [Caller -> Nat] /\ owes'[p] = owes[p] + 1
        /\ \A q \in Caller \ {p} : owes'[q] = owes[q]
      BY <1>0, <1>2
  <2>2. Owed' = Owed \cup {<<p, owes[p] + 1>>} /\ <<p, owes[p] + 1>> \notin Owed
      BY <1>0, <2>1 DEF Owed
  <2> QED
      BY ZenonT(30), <1>0, <2>1, <2>2, FS_AddElement
<1>3. ASSUME owes[p] > 0, owes' = [owes EXCEPT ![p] = @ - 1]
      PROVE  IsFiniteSet(Owed') /\ Cardinality(Owed') = count - 1 /\ owes' \in [Caller -> Nat]
  <2>1. /\ owes' \in [Caller -> Nat] /\ owes'[p] = owes[p] - 1
        /\ \A q \in Caller \ {p} : owes'[q] = owes[q]
      BY <1>0, <1>3
  <2>2. Owed' = Owed \ {<<p, owes[p]>>} /\ <<p, owes[p]>> \in Owed
      BY <1>0, <1>3, <2>1 DEF Owed
  <2> QED
      BY ZenonT(30), <1>0, <2>1, <2>2, FS_RemoveElement
<1> QED
    BY <1>1, <1>2, <1>3

\* The counter begins with initial_count calls of done() that one caller owes.
LEMMA WGInit ==
    ASSUME Init
    PROVE  WGInv
<1>1. CVInv /\ pc = [p \in Caller |-> "out"]
    BY InitKeeps DEF Init, CVInit, Caller
<1>2. PICK p \in Caller : owes = [q \in Caller |-> IF q = p THEN Initial ELSE 0]
    BY DEF Init, Caller
<1>3. owes \in [Caller -> Nat] /\ Owed = {p} \X (1..Initial)
    BY <1>2, CountAssumption DEF Owed
<1>4. IsFiniteSet(Owed) /\ Cardinality(Owed) = Initial
  <2>1. IsFiniteSet({p}) /\ Cardinality({p}) = 1
      BY ZenonT(30), FS_Singleton
  <2>2. IsFiniteSet(1..Initial) /\ Cardinality(1..Initial) = Initial
      BY FS_Interval, CountAssumption
  <2> QED
      BY <1>3, <2>1, <2>2, FS_Product, CountAssumption
<1>5. Blocked = {} /\ \A q \in Caller : pc[q] # "suspend"
    BY <1>1 DEF Blocked
<1>6. count = Initial /\ call = [q \in Caller |-> "none"]
    BY DEF Init, Caller
<1> QED
    BY <1>1, <1>3, <1>4, <1>5, <1>6 DEF WGInv

\* A step that leaves the counter alone, and whoever is about to notify.
LEMMA WGFrame ==
    ASSUME WGInv, CVInv', UNCHANGED <<count, owes>>,
           call' \in [Caller -> {"none", "lock", "notify", "notifies", "wait", "waits"}],
           \A p \in Caller : call'[p] \notin {"notifies", "waits"} => pc'[p] = "out",
           \A p \in Caller : call'[p] \in {"notify", "wait"} => lock' = p,
           count = 0 =>
             /\ \A p \in Caller : pc'[p] = "suspend" => \E q \in Caller : call'[q] = "lock"
             /\ \A p \in Blocked' : \/ WillNotify(p)' # {}
                                    \/ \E q \in Caller : call'[q] \in {"lock", "notify"}
    PROVE  WGInv'
<1>1. Owed' = Owed
    BY DEF Owed
<1> QED
    BY <1>1 DEF WGInv

\* The steps of the counter.
LEMMA WGCount ==
    ASSUME WGInv, NEW p \in Caller, NEW q \in Caller, Add(p, q) \/ Done(p)
    PROVE  WGInv'
<1>1. UNCHANGED cvVars /\ call[p] = "none"
    BY DEF Add, Done, cvVars, counters
<1>2. CVInv' /\ Blocked' = Blocked /\ \A r : WillNotify(r)' = WillNotify(r)
  <2>1. UNCHANGED <<lock, mutex, counters, waiting, pc, timed, late, woken, result, todo>>
      BY <1>1 DEF cvVars
  <2> QED
      BY <2>1, StutterKeeps DEF WGInv
<1>3. lock' = lock /\ pc' = pc
    BY <1>1 DEF cvVars
<1>4. CASE Add(p, q)
  <2>1. /\ call' = call /\ count' = count + 1 /\ owes' = [owes EXCEPT ![q] = @ + 1]
      BY <1>4 DEF Add
  <2>2. /\ count \in Nat /\ Cardinality(Owed') = count + 1
        /\ IsFiniteSet(Owed') /\ owes' \in [Caller -> Nat]
      BY ZenonT(30), <2>1, OwedSteps
  <2>3. count' = Cardinality(Owed') /\ count' # 0
      BY <2>1, <2>2
  <2> QED
      BY <1>2, <1>3, <2>1, <2>2, <2>3 DEF WGInv
<1>5. CASE Done(p)
  <2>1. /\ owes[p] > 0 /\ count' = count - 1 /\ owes' = [owes EXCEPT ![p] = @ - 1]
        /\ call' = [call EXCEPT ![p] = IF count' = 0 THEN "lock" ELSE "none"]
      BY <1>5 DEF Done
  <2>2. IsFiniteSet(Owed') /\ count' = Cardinality(Owed') /\ owes' \in [Caller -> Nat]
      BY ZenonT(30), <2>1, OwedSteps
  <2>3. /\ call' \in [Caller -> {"none", "lock", "notify", "notifies", "wait", "waits"}]
        /\ call'[p] \in {"none", "lock"} /\ (count' = 0 => call'[p] = "lock")
        /\ \A r \in Caller \ {p} : call'[r] = call[r]
      BY <2>1 DEF WGInv
  <2> QED
      BY <1>1, <1>2, <1>3, <2>2, <2>3 DEF WGInv
<1> QED
    BY <1>4, <1>5

\* The steps with which done() and wait() take and give up the lock, and call the
\* condition variable.
LEMMA WGCalls ==
    ASSUME WGInv, NEW p \in Caller,
           DoneLock(p) \/ DoneNotify(p) \/ WaitLock(p) \/ CallWait(p) \/ Return(p)
    PROVE  WGInv'
<1>0. /\ CVInv /\ pc \in [Caller -> Loc] /\ UNCHANGED <<count, owes>>
      /\ call \in [Caller -> {"none", "lock", "notify", "notifies", "wait", "waits"}]
      /\ \A r \in Caller : pc[r] \in LockLoc => lock = r
      /\ NoOne \notin Caller
    BY ZenonT(30), CallerAssumption DEF WGInv, CVInv, CVTypeOK, CVControl, Caller, DoneLock, DoneNotify,
       WaitLock, CallWait, Return
<1>1. CASE DoneLock(p) \/ WaitLock(p)
  <2>1. /\ lock = NoOne /\ lock' = p
        /\ UNCHANGED <<mutex, counters, waiting, pc, timed, late, woken, result, todo>>
        /\ \/ call[p] = "lock" /\ call' = [call EXCEPT ![p] = "notify"]
           \/ call[p] = "none" /\ call' = [call EXCEPT ![p] = "wait"]
      BY <1>1 DEF DoneLock, WaitLock, counters
  <2>2. CVInv'
      BY <1>0, <2>1, LockKeeps DEF CVInv, CVTypeOK
  <2>3. /\ call' \in [Caller -> {"none", "lock", "notify", "notifies", "wait", "waits"}]
        /\ \A r \in Caller \ {p} : call'[r] = call[r]
        /\ \/ call[p] = "lock" /\ call'[p] = "notify"
           \/ call[p] = "none" /\ call'[p] = "wait"
      BY <1>0, <2>1
  <2>4. \A r \in Caller : pc[r] # "suspend"
      BY <1>0, <2>1 DEF LockLoc
  <2>5. Blocked' = Blocked /\ \A r : WillNotify(r)' = WillNotify(r)
      BY <2>1 DEF Blocked, WillNotify
  <2>6. \A r \in Caller : call'[r] \notin {"notifies", "waits"} => pc'[r] = "out"
      BY <2>1, <2>3 DEF WGInv
  <2>7. \A r \in Caller : call'[r] \in {"notify", "wait"} => lock' = r
      BY <1>0, <2>1, <2>3 DEF WGInv
  <2>8. count = 0 => \A r \in Blocked' : \/ WillNotify(r)' # {}
                                         \/ \E q \in Caller : call'[q] \in {"lock", "notify"}
    <3>1. ASSUME NEW q \in Caller, call[q] \in {"lock", "notify"}
          PROVE  call'[q] \in {"lock", "notify"}
        BY <2>3, <3>1
    <3> QED
        BY <2>5, <3>1 DEF WGInv
  <2> QED
      BY <1>0, <2>1, <2>2, <2>3, <2>4, <2>6, <2>7, <2>8, WGFrame
<1>2. CASE DoneNotify(p)
  <2>1. Notify(p, TRUE) /\ call[p] = "notify" /\ call' = [call EXCEPT ![p] = "notifies"]
      BY ZenonT(30), <1>2 DEF DoneNotify
  <2>2. CVInv'
      BY ZenonT(30), <1>0, <2>1, NotifyKeeps
  <2>3. /\ call' \in [Caller -> {"none", "lock", "notify", "notifies", "wait", "waits"}]
        /\ \A r \in Caller \ {p} : call'[r] = call[r] /\ pc'[r] = pc[r]
        /\ call'[p] = "notifies" /\ pc'[p] \notin {"suspend", "suspended"}
        /\ lock' = lock /\ woken' = woken /\ lock = p /\ pc[p] = "out"
      BY <1>0, <2>1 DEF Notify, Goto, At, WGInv
  <2>4. \A r \in Caller : pc'[r] # "suspend"
      BY <1>0, <2>3 DEF LockLoc
  <2>5. \A r \in Blocked' : WillNotify(r)' # {}
    <3>1. Blocked' \subseteq Blocked
        BY <2>3 DEF Blocked
    <3> QED
        BY ZenonT(30), <1>0, <2>1, <3>1, NotifyReaches
  <2> QED
      BY <1>0, <2>2, <2>3, <2>4, <2>5, WGFrame DEF WGInv
<1>3. CASE CallWait(p) \/ Return(p)
  <2>1. /\ CVInv' /\ woken' = woken /\ todo' = todo
        /\ pc[p] \in {"out", "returned", "notified"} /\ pc'[p] \in {"out", "enter", "returned"}
        /\ \A r \in Caller \ {p} : pc'[r] = pc[r]
    <3>1. CASE CallWait(p)
      <4>1. Wait(p, FALSE, count = 0)
          BY ZenonT(30), <3>1 DEF CallWait
      <4>2. CVInv'
          BY ZenonT(30), <1>0, <4>1, WaitKeeps
      <4> QED
          BY <1>0, <4>1, <4>2 DEF Wait, Goto, At
    <3>2. CASE Return(p)
      <4>1. Finish(p) /\ lock' = IF lock = p THEN NoOne ELSE lock
          BY <3>2 DEF Return
      <4>2. CVInv'
          BY <1>0, <4>1, FinishKeeps
      <4> QED
          BY <1>0, <4>1, <4>2 DEF Finish, Goto
    <3> QED
        BY <1>3, <3>1, <3>2
  <2>2. /\ call[p] \in {"wait", "notifies", "waits"}
        /\ \/ call' = [call EXCEPT ![p] = "waits"] /\ lock' = lock
           \/ call' = [call EXCEPT ![p] = "none"] /\ pc'[p] = "out"
              /\ lock' = IF lock = p THEN NoOne ELSE lock
    <3>1. CASE CallWait(p)
        BY <3>1 DEF CallWait, Wait
    <3>2. CASE Return(p)
        BY <1>0, <3>2 DEF Return, Finish, Goto, WGInv
    <3> QED
        BY <1>3, <3>1, <3>2
  <2>3. /\ call' \in [Caller -> {"none", "lock", "notify", "notifies", "wait", "waits"}]
        /\ \A r \in Caller \ {p} : call'[r] = call[r]
        /\ call'[p] \in {"waits", "none"} /\ (call'[p] = "none" => pc'[p] = "out")
      BY ZenonT(30), <1>0, <2>2
  <2>4. \A r \in Caller : call'[r] \notin {"notifies", "waits"} => pc'[r] = "out"
      BY ZenonT(30), <2>1, <2>3 DEF WGInv
  <2>5. \A r \in Caller : call'[r] \in {"notify", "wait"} => lock' = r
      BY <2>2, <2>3 DEF WGInv
  <2>6. ASSUME count = 0
        PROVE  /\ \A r \in Caller : pc'[r] = "suspend" => \E q \in Caller : call'[q] = "lock"
               /\ \A r \in Blocked' : \/ WillNotify(r)' # {}
                                      \/ \E q \in Caller : call'[q] \in {"lock", "notify"}
    <3>1. ASSUME NEW q \in Caller, call[q] \in {"lock", "notify"} PROVE call'[q] = call[q]
        BY <2>2, <2>3, <3>1
    <3>2. \A r \in Blocked' : r \in Blocked /\ (WillNotify(r) # {} => WillNotify(r)' # {})
      <4>1. \A r \in Caller : \/ pc'[r] = pc[r]
                              \/ pc[r] \in {"out", "returned", "notified"} /\ pc'[r] # "suspended"
          BY <2>1
      <4> QED
          BY <1>0, <2>1, <4>1, Undisturbed
    <3>3. \A r \in Caller : pc'[r] = "suspend" => pc[r] = "suspend"
        BY <2>1
    <3> QED
        BY ZenonT(30), <2>6, <3>1, <3>2, <3>3 DEF WGInv
  <2> QED
      BY ZenonT(30), <1>0, <2>1, <2>3, <2>4, <2>5, <2>6, WGFrame
<1> QED
    BY <1>1, <1>2, <1>3

\* The steps of the condition variable.
LEMMA WGInCall ==
    ASSUME WGInv, NEW p \in Caller, InCall(p) \/ Nature(p)
    PROVE  WGInv'
<1>0. CVInv /\ UNCHANGED <<count, call, owes>> /\ (count = 0) \in BOOLEAN
    BY DEF WGInv, InCall, Nature
<1>1. CASE InCall(p)
  <2>1. Continue(p, count = 0)
      BY <1>1 DEF InCall
  <2>2. CVInv'
      BY ZenonT(30), <1>0, <2>1, ContinueKeeps
  <2>3. /\ pc[p] \notin {"out", "returned", "notified"}
        /\ \A r \in Caller \ {p} : pc'[r] = pc[r]
        /\ \/ lock' = lock
           \/ lock = NoOne /\ lock' = p
           \/ lock = p /\ lock' = NoOne
        /\ pc'[p] = "suspend" => pc[p] = "loop" /\ ~(count = 0)
      BY ZenonT(30), <1>0, <2>1, ContinueFrame
  <2>4. /\ \A r \in Caller : call'[r] \notin {"notifies", "waits"} => pc'[r] = "out"
        /\ \A r \in Caller : call'[r] \in {"notify", "wait"} => lock' = r
      BY ZenonT(30), <1>0, <2>3, CallerAssumption DEF WGInv, Caller
  <2>5. ASSUME count = 0
        PROVE  /\ \A r \in Caller : pc'[r] = "suspend" => \E q \in Caller : call'[q] = "lock"
               /\ \A r \in Blocked' : \/ WillNotify(r)' # {}
                                      \/ \E q \in Caller : call'[q] \in {"lock", "notify"}
    <3>1. \A r \in Caller : pc'[r] = "suspend" => pc[r] = "suspend"
        BY <2>3, <2>5
    <3>2. \A r \in Blocked' : \/ pc[r] = "suspend" /\ r \in Caller
                              \/ r \in Blocked /\ (WillNotify(r) # {} => WillNotify(r)' # {})
        BY ZenonT(30), <1>0, <2>1, Delivered DEF Suspend, At
    <3> QED
        BY ZenonT(30), <1>0, <2>5, <3>1, <3>2 DEF WGInv
  <2> QED
      BY ZenonT(30), <1>0, <2>2, <2>4, <2>5, WGFrame DEF WGInv
<1>2. CASE Nature(p)
  <2>1. SpuriousWake(p)
      BY <1>2 DEF Nature
  <2>2. CVInv'
      BY <1>0, <2>1, NatureKeeps
  <2>3. pc' = pc /\ lock' = lock /\ todo' = todo /\ woken \subseteq woken'
      BY <2>1 DEF SpuriousWake
  <2>4. \A r \in Blocked' : r \in Blocked /\ (WillNotify(r) # {} => WillNotify(r)' # {})
      BY <1>0, <2>3, Undisturbed
  <2> QED
      BY ZenonT(30), <1>0, <2>2, <2>3, <2>4, WGFrame DEF WGInv
<1> QED
    BY <1>1, <1>2

\* The counter of a WaitGroup is the number of calls of done() that are owed, and
\* its condition variable is right about who waits.
THEOREM WGInvariance == Spec => []WGInv
<1>1. Init => WGInv
    BY WGInit
<1>2. WGInv /\ [Next]_(vars) => WGInv'
  <2> SUFFICES ASSUME WGInv, [Next]_(vars) PROVE WGInv'
      OBVIOUS
  <2>1. CASE UNCHANGED vars
    <3>1. /\ UNCHANGED <<count, call, owes>>
          /\ UNCHANGED <<lock, mutex, counters, waiting, pc, timed, late, woken, result, todo>>
        BY <2>1 DEF vars, cvVars, counters
    <3>2. CVInv' /\ Blocked' = Blocked /\ \A r : WillNotify(r)' = WillNotify(r)
        BY <3>1, StutterKeeps DEF WGInv
    <3> QED
        BY ZenonT(30), <3>1, <3>2, WGFrame DEF WGInv
  <2>2. CASE Next
    <3>1. PICK p \in Caller :
             \/ Done(p) \/ WaitLock(p) \/ Step(p) \/ Nature(p)
             \/ \E q \in Caller : Add(p, q)
        BY <2>2 DEF Next, Caller
    <3> QED
        BY <3>1, WGCount, WGCalls, WGInCall DEF Step
  <2> QED
      BY <2>1, <2>2
<1> QED
    BY <1>1, <1>2, PTL DEF Spec

\* No caller of WaitGroup::wait() is left suspended when the counter has become
\* zero: somebody will notify it, or is on the way to.
THEOREM ZeroAnnounced == Spec => []ZeroIsAnnounced
<1>1. WGInv => ZeroIsAnnounced
    BY DEF WGInv, ZeroIsAnnounced, Blocked, WillNotify, Caller,
       Elements
<1> QED
    BY <1>1, WGInvariance, PTL
=============================================================================
