---------------------------- MODULE WorkerProofs ----------------------------
(***************************************************************************)
(* The invariants of one worker, for every number of tasks, fibers, waits  *)
(* and notifiers and every range of the clock.  First its queues, what a   *)
(* step may do to each variable, and the inductive invariant IInv: the     *)
(* types, the place of each fiber, the counters, WaitingFibers.  Then: no  *)
(* wakeup of the worker's thread, no notification of a fiber and no task is*)
(* lost, each with the strengthening that makes it inductive relative to   *)
(* IInv.                                                                   *)
(***************************************************************************)
EXTENDS Worker, FiniteSetTheorems, TLAPS

-----------------------------------------------------------------------------
\* Queues.

\* What push_back() does to the elements of a queue.
LEMMA AppendFacts ==
    ASSUME NEW S, NEW s \in Seq(S), NEW e \in S
    PROVE  /\ Append(s, e) \in Seq(S)
           /\ Len(Append(s, e)) = Len(s) + 1
           /\ In(Append(s, e)) = In(s) \cup {e}
           /\ NoDuplicates(s) /\ e \notin In(s) => NoDuplicates(Append(s, e))
  BY DEF In, NoDuplicates

\* What containers::take() does to the elements of a queue.
LEMMA TakeFacts ==
    ASSUME NEW S, NEW s \in Seq(S), s # <<>>
    PROVE  /\ Head(s) \in S
           /\ Head(s) \in In(s)
           /\ Tail(s) \in Seq(S)
           /\ Len(s) \in Nat /\ Len(s) > 0
           /\ Len(Tail(s)) = Len(s) - 1
           /\ In(s) = In(Tail(s)) \cup {Head(s)}
           /\ NoDuplicates(s) => NoDuplicates(Tail(s)) /\ Head(s) \notin In(Tail(s))
  <1>1. /\ Head(s) = s[1] /\ Head(s) \in S /\ Tail(s) \in Seq(S)
        /\ Len(s) \in Nat /\ Len(s) > 0 /\ Len(Tail(s)) = Len(s) - 1
        /\ \A i \in 1..Len(Tail(s)) : Tail(s)[i] = s[i + 1]
    OBVIOUS
  <1>2. Head(s) \in In(s)
    BY <1>1 DEF In
  <1>3. In(s) = In(Tail(s)) \cup {Head(s)}
    <2>1. ASSUME NEW x \in In(s) PROVE x \in In(Tail(s)) \cup {Head(s)}
      <3>1. PICK i \in 1..Len(s) : x = s[i]
        BY DEF In
      <3>2. CASE i = 1
        BY <1>1, <3>1, <3>2
      <3>3. CASE i # 1
        <4>1. i - 1 \in 1..Len(Tail(s)) /\ x = Tail(s)[i - 1]
          BY <1>1, <3>1, <3>3
        <4> QED BY <4>1 DEF In
      <3> QED BY <3>2, <3>3
    <2>2. ASSUME NEW x \in In(Tail(s)) PROVE x \in In(s)
      <3>1. PICK i \in 1..Len(Tail(s)) : x = Tail(s)[i]
        BY ZenonT(30), <2>2 DEF In
      <3>2. i + 1 \in 1..Len(s) /\ x = s[i + 1]
        BY <1>1, <3>1
      <3> QED BY <3>2 DEF In
    <2> QED BY <1>2, <2>1, <2>2
  <1>4. ASSUME NoDuplicates(s) PROVE NoDuplicates(Tail(s)) /\ Head(s) \notin In(Tail(s))
    <2>1. \A i \in 1..Len(Tail(s)) : i + 1 \in 1..Len(s) /\ Tail(s)[i] = s[i + 1]
      BY <1>1
    <2>2. NoDuplicates(Tail(s))
      BY <1>1, <1>4, <2>1 DEF NoDuplicates
    <2>3. ASSUME NEW i \in 1..Len(Tail(s)), Head(s) = Tail(s)[i] PROVE FALSE
      BY <1>1, <1>4, <2>1, <2>3 DEF NoDuplicates
    <2> QED BY <2>2, <2>3 DEF In
  <1> QED BY ZenonT(30), <1>1, <1>2, <1>3, <1>4

-----------------------------------------------------------------------------
\* The inductive invariant.

\* The loop is left, for the main fiber, only when its condition is false; the
\* main fiber itself never leaves for another one.
LoopExit ==
    /\ pc = "runExit" => ~KeepRunning
    /\ stack[0] # "exited"

IInv == TypeOK /\ FiberPlacement /\ CountersInSync /\ WaitingInSync /\ LoopExit

\* num_blocked_fibers counts a finite set: it is positive if some fiber is
\* suspended, and zero only if none is.
LEMMA BlockedFibers ==
    ASSUME CountersInSync
    PROVE  /\ numBlocked \in Nat
           /\ \A f \in Fiber : stack[f] = "suspend" => numBlocked > 0
  <1> DEFINE B == {f \in Fiber : stack[f] = "suspend"}
  <1>1. IsFiniteSet(Fiber)
    BY FS_Interval, BoundAssumption DEF Fiber
  <1>2. IsFiniteSet(B) /\ Cardinality(B) \in Nat
    BY <1>1, FS_Subset, FS_CardinalityType
  <1>3. \A f \in B : Cardinality(B) # 0
    BY <1>2, FS_EmptySet
  <1>4. numBlocked = Cardinality(B)
    BY DEF CountersInSync
  <1> QED BY <1>2, <1>3, <1>4

\* mode_ is a constant member of the worker.
LEMMA ModeFrame ==
    ASSUME [Next]_vars
    PROVE  mode' = mode /\ MultiThreaded' = MultiThreaded /\ Thieves' = Thieves
  <1>1. mode' = mode
    BY ZenonT(30) DEF Next, ThreadStep, ThreadMay, vars, WorkWait, Wake, SpuriousWake,
      WakeTimeout, Run, RunUntilShutdown, WaitForWork, SpinForWork, SpinAndSteal,
      Relock, EnqueueFiberTimeouts, ResumeFiber, AfterIdle, StartTask, NothingToDo,
      SwitchToQueued, SwitchToIdle, SwitchToNew, AfterSwitch, RunExit, TaskReturns,
      BeginWait, Suspend, WaitReturnsTrue, WaitTimesOut, EndWait, WaitAgain, Stop,
      Satisfy, Notify, EnqueueTask, NotifyOne, Steal, ThiefRunsStop, Tick
  <1> QED BY <1>1 DEF MultiThreaded, Thieves

\* What a step may do to each variable, read off the definition of Next.
LEMMA Frame ==
    ASSUME [Next]_vars, current \in Fiber, \A t \in timeouts : t.fiber \in Fiber
    PROVE  /\ \/ UNCHANGED queueVars
              \/ \E f \in Fiber : PushFiber(f) /\ tasks' = tasks
              \/ fibers # <<>> /\ TakeFiber /\ tasks' = tasks
              \/ \E t \in AnyTask : PushTask(t) /\ fibers' = fibers
              \/ /\ tasks # <<>> /\ fibers' = fibers
                 /\ \E as \in {"running", "stolen"} : TakeTask(as)
           /\ \/ UNCHANGED waitVars
              \/ deadline[current] # Never /\ WaitingAdd(deadline[current], current)
              \/ \E f \in Fiber : WaitingErase(f)
              \/ \E t \in timeouts : /\ timeouts' = timeouts \ {t}
                                     /\ waitFibers' = [waitFibers EXCEPT ![t.fiber] = Never]
           /\ \/ UNCHANGED numBlocked
              \/ pc = "afterSwitch" /\ numBlocked' = numBlocked - 1
              \/ numBlocked' = numBlocked + 1
           /\ \/ UNCHANGED deadline
              \/ \E d \in Time \cup {Never} : deadline' = [deadline EXCEPT ![current] = d]
           /\ UNCHANGED bare \/ \E b \in BOOLEAN : bare' = [bare EXCEPT ![current] = b]
           /\ UNCHANGED pred \/ \E f \in Fiber, b \in BOOLEAN : pred' = [pred EXCEPT ![f] = b]
           /\ \/ UNCHANGED current
              \/ fibers # <<>> /\ current' = Head(fibers)
              \/ current' \in Fiber
              \/ workerFibers < MaxFibers /\ current' = workerFibers + 1
              \/ current' = 0
           /\ \/ UNCHANGED workerFibers
              \/ workerFibers < MaxFibers /\ workerFibers' = workerFibers + 1
           /\ idleFibers' \subseteq idleFibers \cup {current}
           /\ UNCHANGED wakeAt \/ wakeAt' = Never \/ \E t \in timeouts : wakeAt' = t.timepoint
           /\ \/ UNCHANGED kicks
              \/ kicks < Notifiers /\ kicks' = kicks + 1
              \/ kicks > 0 /\ kicks' = kicks - 1
           /\ UNCHANGED waits \/ (waits > 0 /\ waits' = waits - 1)
           /\ UNCHANGED now \/ (now < MaxTime /\ now' = now + 1)
  <1> USE DEF Next, ThreadStep, ThreadMay, vars, WorkWait, Wake, SpuriousWake,
      WakeTimeout, Run, RunUntilShutdown, WaitForWork, SpinForWork, SpinAndSteal,
      Relock, EnqueueFiberTimeouts, ResumeFiber, AfterIdle, StartTask, NothingToDo,
      SwitchToQueued, SwitchToIdle, SwitchToNew, AfterSwitch, RunExit, TaskReturns,
      BeginWait, Suspend, WaitReturnsTrue, WaitTimesOut, EndWait, WaitAgain, Stop,
      Satisfy, Notify, EnqueueTask, NotifyOne, Steal, ThiefRunsStop, Tick
  <1>1. \/ UNCHANGED queueVars
        \/ \E f \in Fiber : PushFiber(f) /\ tasks' = tasks
        \/ fibers # <<>> /\ TakeFiber /\ tasks' = tasks
        \/ \E t \in AnyTask : PushTask(t) /\ fibers' = fibers
        \/ /\ tasks # <<>> /\ fibers' = fibers
           /\ \E as \in {"running", "stolen"} : TakeTask(as)
    BY ZenonT(30) DEF queueVars, EnqueueFiber, AnyTask
  <1>2. \/ UNCHANGED waitVars
        \/ deadline[current] # Never /\ WaitingAdd(deadline[current], current)
        \/ \E f \in Fiber : WaitingErase(f)
        \/ \E t \in timeouts : /\ timeouts' = timeouts \ {t}
                               /\ waitFibers' = [waitFibers EXCEPT ![t.fiber] = Never]
    BY ZenonT(30) DEF waitVars, EnqueueFiber
  <1>3. \/ UNCHANGED numBlocked
        \/ pc = "afterSwitch" /\ numBlocked' = numBlocked - 1
        \/ numBlocked' = numBlocked + 1
    BY ZenonT(30) DEF AfterSwitch
  <1>4. \/ UNCHANGED deadline
        \/ \E d \in Time \cup {Never} : deadline' = [deadline EXCEPT ![current] = d]
    BY ZenonT(30) DEF fiberVars
  <1>5. UNCHANGED bare \/ \E b \in BOOLEAN : bare' = [bare EXCEPT ![current] = b]
    BY ZenonT(30) DEF fiberVars
  <1>6. UNCHANGED pred \/ \E f \in Fiber, b \in BOOLEAN : pred' = [pred EXCEPT ![f] = b]
    BY ZenonT(30) DEF fiberVars
  <1>7. \/ UNCHANGED current
        \/ fibers # <<>> /\ current' = Head(fibers)
        \/ current' \in Fiber
        \/ workerFibers < MaxFibers /\ current' = workerFibers + 1
        \/ current' = 0
    BY ZenonT(30) DEF poolVars
  <1>8. \/ UNCHANGED workerFibers
        \/ workerFibers < MaxFibers /\ workerFibers' = workerFibers + 1
    BY ZenonT(30) DEF poolVars
  <1>9. idleFibers' \subseteq idleFibers \cup {current}
    BY ZenonT(30) DEF poolVars
  <1>10. UNCHANGED wakeAt \/ wakeAt' = Never \/ \E t \in timeouts : wakeAt' = t.timepoint
    BY ZenonT(30) DEF sleepVars, SetAlarm
  <1>11. \/ UNCHANGED kicks
         \/ kicks < Notifiers /\ kicks' = kicks + 1
         \/ kicks > 0 /\ kicks' = kicks - 1
    BY ZenonT(30) DEF sleepVars, NotifyLater, EnqueueFiber
  <1>12. UNCHANGED waits \/ (waits > 0 /\ waits' = waits - 1)
    BY ZenonT(30) DEF envVars
  <1>13. UNCHANGED now \/ (now < MaxTime /\ now' = now + 1)
    BY ZenonT(30) DEF envVars
  <1> HIDE DEF Next, ThreadStep, ThreadMay, vars, WorkWait, Wake, SpuriousWake,
      WakeTimeout, Run, RunUntilShutdown, WaitForWork, SpinForWork, SpinAndSteal,
      Relock, EnqueueFiberTimeouts, ResumeFiber, AfterIdle, StartTask, NothingToDo,
      SwitchToQueued, SwitchToIdle, SwitchToNew, AfterSwitch, RunExit, TaskReturns,
      BeginWait, Suspend, WaitReturnsTrue, WaitTimesOut, EndWait, WaitAgain, Stop,
      Satisfy, Notify, EnqueueTask, NotifyOne, Steal, ThiefRunsStop, Tick
  <1> QED BY ZenonT(30), <1>1, <1>2, <1>3, <1>4, <1>5, <1>6, <1>7, <1>8, <1>9, <1>10,
             <1>11, <1>12, <1>13

\* A fiber that suspend() is about to return from is counted as blocked.
LEMMA AfterSwitchCounted ==
    ASSUME IInv, pc = "afterSwitch"
    PROVE  stack[current] = "suspend" /\ numBlocked > 0
  <1>1. stack[current] = "suspend"
    BY ZenonT(30) DEF IInv, TypeOK, FiberPlacement, Placed, CurrentState, InSuspend
  <1> QED BY <1>1, BlockedFibers DEF IInv, TypeOK

\* Every step keeps the types, one variable or a few at a time; that the
\* counters do not fall below zero rests on CountersInSync.
LEMMA TypeStep ==
    ASSUME IInv, [Next]_vars
    PROVE  TypeOK'
  <1>0. TypeOK /\ CountersInSync
    BY DEF IInv
  <1>a. /\ state \in [Fiber -> State] /\ stack \in [Fiber -> Stack]
        /\ running \in [Fiber -> AnyTask \cup {NoTask}]
        /\ deadline \in [Fiber -> 0..Never]
        /\ current \in Fiber /\ idleFibers \subseteq Fiber
        /\ workerFibers \in 0..MaxFibers
    BY <1>0 DEF TypeOK
  <1>b. /\ fibers \in Seq(Fiber) /\ tasks \in Seq(AnyTask)
        /\ timeouts \subseteq [timepoint : Time, fiber : Fiber]
        /\ num \in Nat /\ numBlocked \in Nat
    BY <1>0 DEF TypeOK
  <1>c. /\ fibers # <<>> => Head(fibers) \in Fiber
        /\ tasks # <<>> => Head(tasks) \in AnyTask
        /\ \A t \in timeouts : t.fiber \in Fiber /\ t.timepoint \in Time
    BY <1>b, TakeFacts
  <1>d. /\ shutdown \in BOOLEAN /\ notifyAdded \in BOOLEAN /\ wakeup \in BOOLEAN
        /\ wakeAt \in 0..Never /\ kicks \in 0..Notifiers
    BY <1>0 DEF TypeOK
  <1>e. /\ fate \in [AnyTask -> {"new", "queued", "running", "done", "stolen"}]
        /\ owed \subseteq Fiber /\ waits \in 0..MaxWaits
        /\ now \in Time
    BY <1>0 DEF TypeOK
  <1>f. bare \in [Fiber -> BOOLEAN] /\ pred \in [Fiber -> BOOLEAN]
    BY <1>0 DEF TypeOK
  <1>g. pc \in Held \cup Released /\ ret \in Return
    BY <1>0 DEF TypeOK
  <1>h. [Next]_vars /\ current \in Fiber /\ \A t \in timeouts : t.fiber \in Fiber
    BY <1>a, <1>c
  <1>1. num' \in Nat /\ fibers' \in Seq(Fiber) /\ tasks' \in Seq(AnyTask)
    <2>1. /\ fibers # <<>> => num > 0 /\ Tail(fibers) \in Seq(Fiber)
          /\ tasks # <<>> => num > 0 /\ Tail(tasks) \in Seq(AnyTask)
      BY <1>0, <1>b, TakeFacts DEF CountersInSync
    <2>2. /\ \A f \in Fiber : Append(fibers, f) \in Seq(Fiber)
          /\ \A t \in AnyTask : Append(tasks, t) \in Seq(AnyTask)
      BY <1>b, AppendFacts
    <2>3. CASE UNCHANGED queueVars
      BY <1>b, <2>3 DEF queueVars
    <2>4. ASSUME NEW f \in Fiber, PushFiber(f), tasks' = tasks
          PROVE  num' \in Nat /\ fibers' \in Seq(Fiber) /\ tasks' \in Seq(AnyTask)
      BY <1>b, <2>2, <2>4 DEF PushFiber
    <2>5. CASE fibers # <<>> /\ TakeFiber /\ tasks' = tasks
      BY <1>b, <2>1, <2>5 DEF TakeFiber
    <2>6. ASSUME NEW t \in AnyTask, PushTask(t), fibers' = fibers
          PROVE  num' \in Nat /\ fibers' \in Seq(Fiber) /\ tasks' \in Seq(AnyTask)
      BY <1>b, <2>2, <2>6 DEF PushTask
    <2>7. ASSUME tasks # <<>>, fibers' = fibers, NEW as, TakeTask(as)
          PROVE  num' \in Nat /\ fibers' \in Seq(Fiber) /\ tasks' \in Seq(AnyTask)
      BY <1>b, <2>1, <2>7 DEF TakeTask
    <2> QED BY ZenonT(30), <1>h, <2>3, <2>4, <2>5, <2>6, <2>7, Frame
  <1>2. /\ timeouts' \subseteq [timepoint : Time, fiber : Fiber]
        /\ waitFibers' \in [Fiber -> 0..Never]
    <2>1. waitFibers \in [Fiber -> 0..Never]
      BY <1>0 DEF TypeOK
    <2>2. deadline[current] # Never => deadline[current] \in Time
      BY <1>a, BoundAssumption DEF Time, Never
    <2>3. Time \subseteq 0..Never /\ Never \in 0..Never
      BY BoundAssumption DEF Time, Never
    <2>4. CASE UNCHANGED waitVars
      BY ZenonT(30), <1>b, <2>1, <2>4 DEF waitVars
    <2>5. CASE deadline[current] # Never /\ WaitingAdd(deadline[current], current)
      BY <1>a, <1>b, <2>1, <2>2, <2>3, <2>5 DEF WaitingAdd
    <2>6. ASSUME NEW f \in Fiber, WaitingErase(f)
          PROVE  /\ timeouts' \subseteq [timepoint : Time, fiber : Fiber]
                 /\ waitFibers' \in [Fiber -> 0..Never]
      BY ZenonT(30), <1>b, <2>1, <2>3, <2>6 DEF WaitingErase
    <2>7. ASSUME NEW t \in timeouts, timeouts' = timeouts \ {t},
                 waitFibers' = [waitFibers EXCEPT ![t.fiber] = Never]
          PROVE  /\ timeouts' \subseteq [timepoint : Time, fiber : Fiber]
                 /\ waitFibers' \in [Fiber -> 0..Never]
      BY <1>b, <2>1, <2>3, <2>7
    <2> QED BY ZenonT(30), <1>h, <2>4, <2>5, <2>6, <2>7, Frame
  <1>3. numBlocked' \in Nat
    <2>1. pc = "afterSwitch" => numBlocked > 0
      BY AfterSwitchCounted
    <2> QED BY <1>b, <1>h, <2>1, Frame
  <1>4. state' \in [Fiber -> State]
    BY ZenonT(30), <1>a, <1>c DEF Next, ThreadStep, ThreadMay, vars, WorkWait, Wake, SpuriousWake,
      WakeTimeout, Run, RunUntilShutdown, WaitForWork, SpinForWork, SpinAndSteal,
      Relock, EnqueueFiberTimeouts, ResumeFiber, AfterIdle, StartTask, NothingToDo,
      SwitchToQueued, SwitchToIdle, SwitchToNew, AfterSwitch, RunExit, TaskReturns,
      BeginWait, Suspend, WaitReturnsTrue, WaitTimesOut, EndWait, WaitAgain, Stop,
      Satisfy, Notify, EnqueueTask, NotifyOne, Steal, ThiefRunsStop, Tick,
       PushFiber, EnqueueFiber, State, Fiber, fiberVars
  <1>5. stack' \in [Fiber -> Stack]
    BY ZenonT(30), <1>a DEF Next, ThreadStep, ThreadMay, vars, WorkWait, Wake, SpuriousWake,
      WakeTimeout, Run, RunUntilShutdown, WaitForWork, SpinForWork, SpinAndSteal,
      Relock, EnqueueFiberTimeouts, ResumeFiber, AfterIdle, StartTask, NothingToDo,
      SwitchToQueued, SwitchToIdle, SwitchToNew, AfterSwitch, RunExit, TaskReturns,
      BeginWait, Suspend, WaitReturnsTrue, WaitTimesOut, EndWait, WaitAgain, Stop,
      Satisfy, Notify, EnqueueTask, NotifyOne, Steal, ThiefRunsStop, Tick,
       Stack, fiberVars
  <1>6. running' \in [Fiber -> AnyTask \cup {NoTask}]
    BY ZenonT(30), <1>a, <1>c DEF Next, ThreadStep, ThreadMay, vars, WorkWait, Wake, SpuriousWake,
      WakeTimeout, Run, RunUntilShutdown, WaitForWork, SpinForWork, SpinAndSteal,
      Relock, EnqueueFiberTimeouts, ResumeFiber, AfterIdle, StartTask, NothingToDo,
      SwitchToQueued, SwitchToIdle, SwitchToNew, AfterSwitch, RunExit, TaskReturns,
      BeginWait, Suspend, WaitReturnsTrue, WaitTimesOut, EndWait, WaitAgain, Stop,
      Satisfy, Notify, EnqueueTask, NotifyOne, Steal, ThiefRunsStop, Tick,
       fiberVars
  <1>7. deadline' \in [Fiber -> 0..Never]
    BY <1>a, <1>h, Frame, BoundAssumption DEF Time, Never
  <1>8. bare' \in [Fiber -> BOOLEAN] /\ pred' \in [Fiber -> BOOLEAN]
    BY <1>f, <1>h, Frame
  <1>9. pc' \in Held \cup Released /\ ret' \in Return
    BY ZenonT(30), <1>g DEF Next, ThreadStep, ThreadMay, vars, WorkWait, Wake, SpuriousWake,
      WakeTimeout, Run, RunUntilShutdown, WaitForWork, SpinForWork, SpinAndSteal,
      Relock, EnqueueFiberTimeouts, ResumeFiber, AfterIdle, StartTask, NothingToDo,
      SwitchToQueued, SwitchToIdle, SwitchToNew, AfterSwitch, RunExit, TaskReturns,
      BeginWait, Suspend, WaitReturnsTrue, WaitTimesOut, EndWait, WaitAgain, Stop,
      Satisfy, Notify, EnqueueTask, NotifyOne, Steal, ThiefRunsStop, Tick,
       Held, Released, Return, Resumption, WorkWaitReturns, AfterWait
  <1>10. current' \in Fiber
    BY <1>a, <1>c, <1>h, Frame, BoundAssumption DEF Fiber
  <1>11. idleFibers' \subseteq Fiber /\ workerFibers' \in 0..MaxFibers
    BY <1>a, <1>h, Frame, BoundAssumption
  <1>12. shutdown' \in BOOLEAN
    BY ZenonT(30), <1>d DEF Next, ThreadStep, ThreadMay, vars, WorkWait, Wake, SpuriousWake,
      WakeTimeout, Run, RunUntilShutdown, WaitForWork, SpinForWork, SpinAndSteal,
      Relock, EnqueueFiberTimeouts, ResumeFiber, AfterIdle, StartTask, NothingToDo,
      SwitchToQueued, SwitchToIdle, SwitchToNew, AfterSwitch, RunExit, TaskReturns,
      BeginWait, Suspend, WaitReturnsTrue, WaitTimesOut, EndWait, WaitAgain, Stop,
      Satisfy, Notify, EnqueueTask, NotifyOne, Steal, ThiefRunsStop, Tick
  <1>13. notifyAdded' \in BOOLEAN /\ wakeup' \in BOOLEAN
    BY ZenonT(30), <1>d DEF Next, ThreadStep, ThreadMay, vars, WorkWait, Wake, SpuriousWake,
      WakeTimeout, Run, RunUntilShutdown, WaitForWork, SpinForWork, SpinAndSteal,
      Relock, EnqueueFiberTimeouts, ResumeFiber, AfterIdle, StartTask, NothingToDo,
      SwitchToQueued, SwitchToIdle, SwitchToNew, AfterSwitch, RunExit, TaskReturns,
      BeginWait, Suspend, WaitReturnsTrue, WaitTimesOut, EndWait, WaitAgain, Stop,
      Satisfy, Notify, EnqueueTask, NotifyOne, Steal, ThiefRunsStop, Tick,
       sleepVars, WorkWaitReturns
  <1>14. wakeAt' \in 0..Never
    BY <1>c, <1>d, <1>h, Frame, BoundAssumption DEF Time, Never
  <1>15. kicks' \in 0..Notifiers
    BY <1>d, <1>h, Frame, BoundAssumption
  <1>16. fate' \in [AnyTask -> {"new", "queued", "running", "done", "stolen"}]
    BY ZenonT(30), <1>e DEF Next, ThreadStep, ThreadMay, vars, WorkWait, Wake, SpuriousWake,
      WakeTimeout, Run, RunUntilShutdown, WaitForWork, SpinForWork, SpinAndSteal,
      Relock, EnqueueFiberTimeouts, ResumeFiber, AfterIdle, StartTask, NothingToDo,
      SwitchToQueued, SwitchToIdle, SwitchToNew, AfterSwitch, RunExit, TaskReturns,
      BeginWait, Suspend, WaitReturnsTrue, WaitTimesOut, EndWait, WaitAgain, Stop,
      Satisfy, Notify, EnqueueTask, NotifyOne, Steal, ThiefRunsStop, Tick,
       envVars, AnyTask, PushTask, TakeTask
  <1>17. owed' \subseteq Fiber
    BY ZenonT(30), <1>e DEF Next, ThreadStep, ThreadMay, vars, WorkWait, Wake, SpuriousWake,
      WakeTimeout, Run, RunUntilShutdown, WaitForWork, SpinForWork, SpinAndSteal,
      Relock, EnqueueFiberTimeouts, ResumeFiber, AfterIdle, StartTask, NothingToDo,
      SwitchToQueued, SwitchToIdle, SwitchToNew, AfterSwitch, RunExit, TaskReturns,
      BeginWait, Suspend, WaitReturnsTrue, WaitTimesOut, EndWait, WaitAgain, Stop,
      Satisfy, Notify, EnqueueTask, NotifyOne, Steal, ThiefRunsStop, Tick,
       envVars
  <1>18. waits' \in 0..MaxWaits /\ now' \in Time
    BY <1>e, <1>h, Frame, BoundAssumption DEF Time
  <1>19. mode' \in {"MultiThreaded", "SingleThreaded"}
    BY <1>0, ModeFrame DEF TypeOK
  <1> QED
    BY ZenonT(30), <1>1, <1>2, <1>3, <1>4, <1>5, <1>6, <1>7, <1>8, <1>9, <1>10, <1>11, <1>12,
       <1>13, <1>14, <1>15, <1>16, <1>17, <1>18, <1>19
       DEF TypeOK

-----------------------------------------------------------------------------
\* The fibers.

\* A step that moves no fiber, and enters or leaves neither suspend() nor the
\* two points after a switch, keeps the placement.
LEMMA PlacementKept ==
    ASSUME FiberPlacement,
           UNCHANGED <<state, stack, current, idleFibers, workerFibers, fibers>>,
           InSuspend' <=> InSuspend,
           pc' = "afterSwitch" <=> pc = "afterSwitch",
           pc' = "afterIdle" <=> pc = "afterIdle",
           Retiring => Retiring'
    PROVE  FiberPlacement'
  <1>1. CurrentState' = CurrentState
    BY DEF CurrentState
  <1>2. NoDuplicates(fibers)' /\ In(fibers)' = In(fibers)
    BY DEF FiberPlacement, NoDuplicates, In
  <1> QED BY <1>1, <1>2 DEF FiberPlacement, Placed

\* Such steps are all those of the worker's loop that do not switch fibers,
\* and those of other threads that do not notify a fiber.
LEMMA QuietSteps ==
    ASSUME IInv, [Next]_vars
    PROVE  \/ FiberPlacement'
           \/ EnqueueFiberTimeouts \/ ResumeFiber \/ AfterIdle
           \/ SwitchToQueued \/ SwitchToNew \/ AfterSwitch \/ RunExit \/ Suspend
           \/ \E f \in Fiber : SwitchToIdle(f) \/ Notify(f)
  <1>1. \/ UNCHANGED <<state, stack, current, idleFibers, workerFibers, fibers>>
        \/ EnqueueFiberTimeouts \/ ResumeFiber \/ AfterIdle
        \/ SwitchToQueued \/ SwitchToNew \/ AfterSwitch \/ RunExit \/ Suspend
        \/ \E f \in Fiber : SwitchToIdle(f) \/ Notify(f)
    BY ZenonT(30) DEF fiberVars, poolVars, queueVars, PushTask, TakeTask,
      Next, ThreadStep, ThreadMay, vars, WorkWait, Wake, SpuriousWake,
      WakeTimeout, Run, RunUntilShutdown, WaitForWork, SpinForWork, SpinAndSteal,
      Relock, StartTask, NothingToDo, TaskReturns,
      BeginWait, WaitReturnsTrue, WaitTimesOut, EndWait, WaitAgain, Stop,
      Satisfy, EnqueueTask, NotifyOne, Steal, ThiefRunsStop, Tick
  <1>2. \/ /\ InSuspend' <=> InSuspend
           /\ pc' = "afterSwitch" <=> pc = "afterSwitch"
           /\ pc' = "afterIdle" <=> pc = "afterIdle"
        \/ EnqueueFiberTimeouts \/ ResumeFiber \/ AfterIdle
        \/ SwitchToQueued \/ SwitchToNew \/ AfterSwitch \/ RunExit \/ Suspend
        \/ \E f \in Fiber : SwitchToIdle(f) \/ Notify(f)
    <2>1. ret \in Return
      BY DEF IInv, TypeOK
    <2> QED BY ZenonT(30), <2>1 DEF InSuspend, Return, WorkWaitReturns, AfterWait,
      Next, ThreadStep, ThreadMay, vars, WorkWait, Wake, SpuriousWake,
      WakeTimeout, Run, RunUntilShutdown, WaitForWork, SpinForWork, SpinAndSteal,
      Relock, StartTask, NothingToDo, TaskReturns,
      BeginWait, WaitReturnsTrue, WaitTimesOut, EndWait, WaitAgain, Stop,
      Satisfy, EnqueueTask, NotifyOne, Steal, ThiefRunsStop, Tick
  <1>3. \/ Retiring => Retiring'
        \/ EnqueueFiberTimeouts \/ ResumeFiber \/ AfterIdle
        \/ SwitchToQueued \/ SwitchToNew \/ AfterSwitch \/ RunExit \/ Suspend
        \/ \E f \in Fiber : SwitchToIdle(f) \/ Notify(f)
    <2>1. tasks # <<>> => num > 0
      BY TakeFacts DEF IInv, TypeOK, CountersInSync
    <2> QED BY ZenonT(30), <2>1 DEF Retiring, KeepRunning, MutexFree, Held,
      poolVars, queueVars, Next, ThreadStep, ThreadMay, vars, WorkWait, Wake, SpuriousWake,
      WakeTimeout, Run, RunUntilShutdown, WaitForWork, SpinForWork, SpinAndSteal,
      Relock, StartTask, NothingToDo, TaskReturns,
      BeginWait, WaitReturnsTrue, WaitTimesOut, EndWait, WaitAgain, Stop,
      Satisfy, EnqueueTask, NotifyOne, Steal, ThiefRunsStop, Tick
  <1> QED BY <1>1, <1>2, <1>3, PlacementKept DEF IInv

\* What is known of the fibers before a step, in the form the provers use.
LEMMA PlacementFacts ==
    ASSUME IInv
    PROVE  /\ state \in [Fiber -> State] /\ stack \in [Fiber -> Stack]
           /\ current \in Fiber /\ fibers \in Seq(Fiber) /\ idleFibers \subseteq Fiber
           /\ workerFibers \in 0..MaxFibers /\ 0 \in Fiber
           /\ fibers # <<>> => /\ Head(fibers) \in Fiber
                               /\ Head(fibers) \in In(fibers)
                               /\ state[Head(fibers)] = "Queued"
                               /\ NoDuplicates(Tail(fibers))
                               /\ In(Tail(fibers)) = In(fibers) \ {Head(fibers)}
           /\ \A f \in Fiber : f \notin In(fibers) =>
                /\ NoDuplicates(Append(fibers, f))
                /\ In(Append(fibers, f)) = In(fibers) \cup {f}
  <1>1. /\ state \in [Fiber -> State] /\ stack \in [Fiber -> Stack]
        /\ current \in Fiber /\ fibers \in Seq(Fiber) /\ idleFibers \subseteq Fiber
        /\ workerFibers \in 0..MaxFibers /\ 0 \in Fiber
    BY BoundAssumption DEF IInv, TypeOK, Fiber
  <1>2. NoDuplicates(fibers)
    BY DEF IInv, FiberPlacement
  <1>3. fibers # <<>> => /\ Head(fibers) \in Fiber
                         /\ Head(fibers) \in In(fibers)
                         /\ NoDuplicates(Tail(fibers))
                         /\ In(Tail(fibers)) = In(fibers) \ {Head(fibers)}
    BY <1>1, <1>2, TakeFacts
  <1>4. fibers # <<>> => state[Head(fibers)] = "Queued"
    BY <1>3 DEF IInv, FiberPlacement, Placed
  <1>5. \A f \in Fiber : f \notin In(fibers) =>
          /\ NoDuplicates(Append(fibers, f))
          /\ In(Append(fibers, f)) = In(fibers) \cup {f}
    BY <1>1, <1>2, AppendFacts
  <1> QED BY <1>1, <1>3, <1>4, <1>5

\* Queueing a suspended fiber keeps the placement.
LEMMA PlacementPush ==
    ASSUME IInv, NEW g \in Fiber, state[g] \in {"Yielded", "Waiting"}, PushFiber(g),
           UNCHANGED <<stack, current, idleFibers, workerFibers>>,
           pc' = pc, InSuspend' <=> InSuspend, pc # "afterSwitch",
           current \in idleFibers => Retiring'
    PROVE  FiberPlacement'
  <1>0. /\ \A f \in Fiber : Placed(f)
        /\ state[current] \in CurrentState
    BY DEF IInv, FiberPlacement
  <1>1. /\ state \in [Fiber -> State] /\ current \in Fiber
        /\ state' = [state EXCEPT ![g] = "Queued"]
        /\ fibers' = Append(fibers, g)
    BY PlacementFacts DEF PushFiber
  <1>2. g \notin In(fibers)
    BY ZenonT(30), <1>0 DEF Placed
  <1>3. NoDuplicates(fibers)' /\ In(fibers') = In(fibers) \cup {g}
    BY <1>1, <1>2, PlacementFacts
  <1>4. ASSUME NEW f \in Fiber PROVE Placed(f)'
    BY <1>0, <1>1, <1>3 DEF Placed
  <1>5. state'[current'] \in CurrentState'
    BY <1>0, <1>1 DEF CurrentState
  <1> QED BY <1>3, <1>4, <1>5 DEF FiberPlacement

\* Every step keeps the fibers in place.
LEMMA PlacementStep ==
    ASSUME IInv, [Next]_vars
    PROVE  FiberPlacement'
  <1>0. /\ FiberPlacement /\ LoopExit /\ TypeOK
        /\ \A f \in Fiber : Placed(f)
        /\ state[current] \in CurrentState
        /\ current \in idleFibers => Retiring
        /\ pc = "afterSwitch" => current \notin In(fibers)
    BY DEF IInv, FiberPlacement
  <1>p. /\ state \in [Fiber -> State] /\ stack \in [Fiber -> Stack]
        /\ current \in Fiber /\ fibers \in Seq(Fiber) /\ idleFibers \subseteq Fiber
        /\ workerFibers \in 0..MaxFibers /\ 0 \in Fiber
    BY PlacementFacts
  <1>q. fibers # <<>> => /\ Head(fibers) \in Fiber
                         /\ Head(fibers) \in In(fibers)
                         /\ state[Head(fibers)] = "Queued"
                         /\ NoDuplicates(Tail(fibers))
                         /\ In(Tail(fibers)) = In(fibers) \ {Head(fibers)}
    BY PlacementFacts
  <1>w. WaitingInSync
    BY DEF IInv
  <1>c. CountersInSync /\ (num = 0 => fibers = <<>>)
    <2>1. fibers # <<>> => num > 0
      BY TakeFacts DEF IInv, TypeOK, CountersInSync
    <2> QED BY <2>1 DEF IInv
  <1>1. CASE EnqueueFiberTimeouts
    <2>1. CASE \A t \in timeouts : ~Expired(t)
      <3>1. UNCHANGED <<state, stack, current, idleFibers, workerFibers, fibers>>
        BY ZenonT(30), <1>1, <2>1 DEF EnqueueFiberTimeouts, poolVars
      <3>2. /\ InSuspend' <=> InSuspend
            /\ pc' # "afterSwitch" /\ pc' # "afterIdle" /\ ~Retiring
        <4>1. ret \in Return
          BY <1>0 DEF TypeOK
        <4> QED BY <1>1, <2>1, <4>1 DEF EnqueueFiberTimeouts, InSuspend, Retiring, Return
      <3>3. pc = "enqueueFiberTimeouts"
        BY <1>1 DEF EnqueueFiberTimeouts
      <3> QED BY <1>0, <3>1, <3>2, <3>3, PlacementKept
    <2>2. ASSUME NEW t \in timeouts, PushFiber(t.fiber), pc' = pc PROVE FiberPlacement'
      <3>1. t.fiber \in Fiber /\ state[t.fiber] = "Waiting"
        BY <1>0, <1>w DEF TypeOK, WaitingInSync
      <3>2. /\ pc = "enqueueFiberTimeouts" /\ UNCHANGED <<stack, ret>>
            /\ UNCHANGED <<current, idleFibers, workerFibers>>
        BY <1>1 DEF EnqueueFiberTimeouts, poolVars
      <3>3. (InSuspend' <=> InSuspend) /\ current \notin idleFibers
        BY ZenonT(30), <1>0, <2>2, <3>2 DEF InSuspend, Retiring
      <3> QED BY ZenonT(30), <2>2, <3>1, <3>2, <3>3, PlacementPush
    <2> QED BY ZenonT(30), <1>1, <2>1, <2>2 DEF EnqueueFiberTimeouts
  <1>2. CASE ResumeFiber
    <2>1. /\ fibers # <<>> /\ fibers' = Tail(fibers) /\ pc = "runUntilIdle"
          /\ current' = Head(fibers) /\ idleFibers' = idleFibers \cup {current}
          /\ state' = [state EXCEPT ![current] = "Idle"]
          /\ stack' = [stack EXCEPT ![current] = "runUntilIdle"]
          /\ workerFibers' = workerFibers /\ pc' = Resumption(Head(fibers))
      BY ZenonT(30), <1>2 DEF ResumeFiber, TakeFiber
    <2>2. state[current] = "Running" /\ current # Head(fibers) /\ ~InSuspend
      BY <1>0, <1>q, <2>1 DEF CurrentState, InSuspend
    <2>3. pc' = "afterSwitch" /\ ~InSuspend'
      BY ZenonT(30), <1>0, <1>q, <2>1, <2>2 DEF Placed, Resumption, InSuspend
    <2>4. Head(fibers) \notin idleFibers
      BY <1>0, <1>q, <2>1, <2>2 DEF Placed
    <2>5. ASSUME NEW f \in Fiber PROVE Placed(f)'
      BY ZenonT(30), <1>0, <1>p, <1>q, <2>1, <2>2, <2>3, <2>4 DEF Placed
    <2>6. state'[current'] \in CurrentState'
      BY <1>p, <1>q, <2>1, <2>2, <2>3 DEF CurrentState
    <2> QED BY <1>q, <2>1, <2>2, <2>4, <2>5, <2>6 DEF FiberPlacement
  <1>3. CASE AfterIdle
    <2>1. /\ pc = "afterIdle" /\ pc' = "runUntilIdle"
          /\ state' = [state EXCEPT ![current] = "Running"]
          /\ stack' = [stack EXCEPT ![current] = "none"]
          /\ UNCHANGED <<current, idleFibers, workerFibers, fibers, num, numBlocked, shutdown>>
      BY <1>3 DEF AfterIdle, poolVars, queueVars
    <2>2. state[current] = "Idle" /\ ~InSuspend /\ ~InSuspend'
      BY ZenonT(30), <1>0, <2>1 DEF CurrentState, InSuspend
    <2>3. ASSUME NEW f \in Fiber PROVE Placed(f)'
      BY <1>0, <1>p, <2>1, <2>2 DEF Placed
    <2>4. state'[current'] \in CurrentState'
      BY <1>p, <2>1, <2>2 DEF CurrentState
    <2>5. current' \in idleFibers' => Retiring'
      BY <1>0, <2>1 DEF Retiring, KeepRunning
    <2> QED BY ZenonT(30), <1>0, <2>1, <2>3, <2>4, <2>5 DEF FiberPlacement
  <1>4. CASE SwitchToQueued
    <2>1. /\ fibers # <<>> /\ fibers' = Tail(fibers) /\ pc = "switch"
          /\ current' = Head(fibers)
          /\ stack' = [stack EXCEPT ![current] = "suspend"]
          /\ UNCHANGED <<state, idleFibers, workerFibers>>
          /\ pc' = IF Head(fibers) = current THEN "afterSwitch" ELSE Resumption(Head(fibers))
      BY <1>4 DEF SwitchToQueued, TakeFiber
    <2>2. InSuspend /\ state[current] \in {"Yielded", "Waiting", "Queued"}
      BY ZenonT(30), <1>0, <2>1 DEF CurrentState, InSuspend
    <2>3. pc' = "afterSwitch" /\ ~InSuspend'
      BY <1>0, <1>q, <2>1, <2>2 DEF Placed, Resumption, InSuspend
    <2>4. current \notin idleFibers
      BY ZenonT(30), <1>0, <2>1 DEF Retiring
    <2>5. Head(fibers) \notin idleFibers
      BY <1>0, <1>q, <2>1, <2>4 DEF Placed
    <2>6. ASSUME NEW f \in Fiber PROVE Placed(f)'
      BY ZenonT(30), <1>0, <1>p, <1>q, <2>1, <2>2, <2>3, <2>4 DEF Placed
    <2>7. state'[current'] \in CurrentState'
      BY <1>q, <2>1, <2>3 DEF CurrentState
    <2> QED BY ZenonT(30), <1>q, <2>1, <2>5, <2>6, <2>7 DEF FiberPlacement
  <1>5. ASSUME NEW g \in Fiber, SwitchToIdle(g) PROVE FiberPlacement'
    <2>1. /\ pc = "switch" /\ g \in idleFibers /\ current' = g
          /\ idleFibers' = idleFibers \ {g}
          /\ stack' = [stack EXCEPT ![current] = "suspend"]
          /\ UNCHANGED <<state, workerFibers, fibers>>
          /\ pc' = Resumption(g)
      BY <1>5 DEF SwitchToIdle, queueVars
    <2>2. InSuspend /\ state[current] \in {"Yielded", "Waiting", "Queued"}
      BY <1>0, <2>1 DEF CurrentState, InSuspend
    <2>3. current \notin idleFibers
      BY <1>0, <2>1 DEF Retiring
    <2>4. g # current /\ state[g] = "Idle" /\ stack[g] = "runUntilIdle"
      BY ZenonT(30), <1>0, <2>1, <2>3 DEF Placed
    <2>5. pc' = "afterIdle" /\ ~InSuspend'
      BY <2>1, <2>4 DEF Resumption, InSuspend
    <2>6. ASSUME NEW f \in Fiber PROVE Placed(f)'
      BY ZenonT(30), <1>0, <1>p, <2>1, <2>2, <2>3, <2>4, <2>5 DEF Placed
    <2>7. state'[current'] \in CurrentState'
      BY <2>1, <2>4, <2>5 DEF CurrentState
    <2> QED BY ZenonT(30), <1>0, <2>1, <2>5, <2>6, <2>7 DEF FiberPlacement
  <1>6. CASE SwitchToNew
    <2>1. /\ pc = "switch" /\ workerFibers < MaxFibers /\ idleFibers = {}
          /\ workerFibers' = workerFibers + 1 /\ current' = workerFibers + 1
          /\ state' = [state EXCEPT ![workerFibers + 1] = "Running"]
          /\ stack' = [stack EXCEPT ![current] = "suspend"]
          /\ UNCHANGED <<idleFibers, fibers>> /\ pc' = "run"
      BY <1>6 DEF SwitchToNew, queueVars
    <2>2. InSuspend /\ state[current] \in {"Yielded", "Waiting", "Queued"} /\ ~InSuspend'
      BY ZenonT(30), <1>0, <2>1 DEF CurrentState, InSuspend
    <2>3. workerFibers + 1 \in Fiber
      BY <1>p, <2>1, BoundAssumption DEF Fiber
    <2>4. state[workerFibers + 1] = "none" /\ workerFibers + 1 # current
      BY <1>0, <1>p, <2>2, <2>3 DEF Placed
    <2>5. \A f \in Fiber : f # workerFibers + 1 => (f > workerFibers' <=> f > workerFibers)
      BY <1>p, <2>1, BoundAssumption DEF Fiber
    <2>6. ~(workerFibers + 1 > workerFibers')
      BY <1>p, <2>1
    <2>7. ASSUME NEW f \in Fiber PROVE Placed(f)'
      BY ZenonT(30), <1>0, <1>p, <2>1, <2>2, <2>3, <2>4, <2>5, <2>6 DEF Placed
    <2>8. state'[current'] \in CurrentState'
      BY ZenonT(30), <1>p, <2>1, <2>2, <2>3 DEF CurrentState
    <2> QED BY ZenonT(30), <1>0, <2>1, <2>7, <2>8 DEF FiberPlacement
  <1>7. CASE AfterSwitch
    <2>1. /\ pc = "afterSwitch" /\ pc' = "reacquire"
          /\ state' = [state EXCEPT ![current] = "Running"]
          /\ stack' = [stack EXCEPT ![current] = "none"]
          /\ UNCHANGED <<current, idleFibers, workerFibers, fibers>>
      BY <1>7 DEF AfterSwitch, poolVars, queueVars
    <2>2. state[current] = "Queued" /\ ~InSuspend /\ ~InSuspend'
      BY <1>0, <2>1 DEF CurrentState, InSuspend
    <2>3. current \notin In(fibers)
      BY ZenonT(30), <1>0, <2>1
    <2>4. current \notin idleFibers
      BY <1>0, <2>1 DEF Retiring
    <2>5. ASSUME NEW f \in Fiber PROVE Placed(f)'
      BY ZenonT(30), <1>0, <1>p, <2>1, <2>2, <2>3 DEF Placed
    <2>6. state'[current'] \in CurrentState'
      BY <1>p, <2>1, <2>2 DEF CurrentState
    <2> QED BY ZenonT(30), <1>0, <2>1, <2>4, <2>5, <2>6 DEF FiberPlacement
  <1>8. CASE RunExit
    <2>1. pc = "runExit" /\ ~KeepRunning /\ state[current] = "Running"
      BY <1>0, <1>8 DEF RunExit, LoopExit, CurrentState, InSuspend
    <2>2. UNCHANGED <<state, idleFibers, workerFibers, fibers, num, numBlocked, shutdown>>
      BY ZenonT(30), <1>8 DEF RunExit, queueVars
    <2>3. CASE current = 0
      <3>1. UNCHANGED <<stack, current>> /\ pc' = "done"
        BY <1>8, <2>3 DEF RunExit
      <3>2. (InSuspend' <=> InSuspend) /\ (Retiring => Retiring')
        BY <2>1, <3>1 DEF InSuspend, Retiring
      <3> QED BY ZenonT(30), <1>0, <2>1, <2>2, <3>1, <3>2, PlacementKept
    <2>4. CASE current # 0
      <3>1. /\ current' = 0 /\ stack' = [stack EXCEPT ![current] = "exited"]
            /\ pc' = Resumption(0)
        BY <1>8, <2>4 DEF RunExit
      <3>2. state[0] = "Idle" /\ stack[0] = "runUntilIdle" /\ 0 \in idleFibers
        <4>1. numBlocked = 0 /\ fibers = <<>>
          BY <1>0, <1>c, <2>1 DEF KeepRunning, TypeOK
        <4>2. stack[0] # "suspend" /\ 0 \notin In(fibers)
          BY <4>1, <1>p, <1>c, BlockedFibers DEF In
        <4>3. ~(0 > workerFibers)
          BY <1>p
        <4> QED BY ZenonT(30), <1>0, <1>p, <2>1, <2>4, <4>2, <4>3 DEF Placed, State, LoopExit, InSuspend
      <3>3. pc' = "afterIdle" /\ ~InSuspend' /\ ~InSuspend
        BY ZenonT(30), <2>1, <3>1, <3>2 DEF Resumption, InSuspend
      <3>4. current \notin idleFibers
        BY <1>0, <2>4 DEF Retiring
      <3>5. ASSUME NEW f \in Fiber PROVE Placed(f)'
        BY ZenonT(30), <1>0, <1>p, <2>1, <2>2, <2>4, <3>1, <3>2, <3>3, <3>4 DEF Placed
      <3>6. state'[current'] \in CurrentState'
        BY ZenonT(30), <2>2, <3>1, <3>2, <3>3 DEF CurrentState
      <3>7. Retiring'
        BY <2>1, <2>2, <3>1, <3>3 DEF Retiring, KeepRunning
      <3> QED BY ZenonT(30), <1>0, <2>2, <3>3, <3>5, <3>6, <3>7 DEF FiberPlacement
    <2> QED BY ZenonT(30), <2>3, <2>4
  <1>9. CASE Suspend
    <2>1. /\ pc \in {"bareWait", "waitTest"} /\ pc' = "waitForWork" /\ ret' = "switch"
          /\ \/ state' = [state EXCEPT ![current] = "Waiting"]
             \/ state' = [state EXCEPT ![current] = "Yielded"]
          /\ UNCHANGED <<stack, current, idleFibers, workerFibers, fibers>>
      BY <1>9 DEF Suspend, MustSuspend, poolVars, queueVars
    <2>2. state[current] = "Running" /\ ~InSuspend /\ InSuspend'
      BY <1>0, <2>1 DEF CurrentState, InSuspend
    <2>3. current \notin idleFibers
      BY ZenonT(30), <1>0, <2>1 DEF Retiring
    <2>4. ASSUME NEW f \in Fiber PROVE Placed(f)'
      BY <1>0, <1>p, <2>1, <2>2 DEF Placed
    <2>5. state'[current'] \in CurrentState'
      BY ZenonT(30), <1>p, <2>1, <2>2 DEF CurrentState
    <2> QED BY ZenonT(30), <1>0, <2>1, <2>3, <2>4, <2>5 DEF FiberPlacement
  <1>10. ASSUME NEW g \in Fiber, Notify(g) PROVE FiberPlacement'
    <2>1. /\ UNCHANGED <<stack, current, idleFibers, workerFibers, pc, ret>>
          /\ pc \notin Held
      BY <1>10 DEF Notify, MutexFree, poolVars
    <2>2. (InSuspend' <=> InSuspend) /\ pc # "afterSwitch" /\ (Retiring => Retiring')
      BY <2>1 DEF InSuspend, Held, Retiring
    <2>3. CASE AwakeAlready(g)
      <3>1. UNCHANGED <<state, fibers>>
        BY <1>10, <2>3 DEF Notify, EnqueueFiber, queueVars
      <3> QED BY ZenonT(30), <1>0, <2>1, <2>2, <3>1, PlacementKept
    <2>4. CASE ~AwakeAlready(g)
      <3>1. PushFiber(g)
        BY <1>10, <2>4 DEF Notify, EnqueueFiber
      <3>2. state[g] \in {"Yielded", "Waiting"}
        BY ZenonT(30), <1>0, <1>10, <2>4 DEF Notify, InWait, AwakeAlready, CurrentState, Placed, MutexFree, Held
      <3> QED BY ZenonT(30), <1>0, <2>1, <2>2, <3>1, <3>2, PlacementPush
    <2> QED BY <2>3, <2>4
  <1> QED BY ZenonT(30), <1>1, <1>2, <1>3, <1>4, <1>5, <1>6, <1>7, <1>8, <1>9, <1>10, QuietSteps

-----------------------------------------------------------------------------
\* The counters.

\* The steps that change the stack of a fiber.
LEMMA StackFrame ==
    ASSUME [Next]_vars
    PROVE  \/ UNCHANGED <<stack, numBlocked>>
           \/ ResumeFiber \/ AfterIdle \/ SwitchToQueued \/ SwitchToNew \/ AfterSwitch
           \/ RunExit \/ \E f \in Fiber : SwitchToIdle(f)
  BY ZenonT(30) DEF fiberVars, Next, ThreadStep, ThreadMay, vars, WorkWait, Wake, SpuriousWake,
      WakeTimeout, Run, RunUntilShutdown, WaitForWork, SpinForWork, SpinAndSteal,
      Relock, EnqueueFiberTimeouts, StartTask, NothingToDo, TaskReturns,
      BeginWait, Suspend, WaitReturnsTrue, WaitTimesOut, EndWait, WaitAgain, Stop,
      Satisfy, Notify, EnqueueTask, NotifyOne, Steal, ThiefRunsStop, Tick

\* Every step keeps work_.num and num_blocked_fibers in line with what they count.
LEMMA CountersStep ==
    ASSUME IInv, [Next]_vars
    PROVE  CountersInSync'
  <1>0. /\ TypeOK /\ CountersInSync /\ num = Len(fibers) + Len(tasks)
        /\ fibers \in Seq(Fiber) /\ tasks \in Seq(AnyTask) /\ current \in Fiber
        /\ stack \in [Fiber -> Stack] /\ state[current] \in CurrentState
        /\ numBlocked \in Nat /\ Placed(current)
        /\ \A t \in timeouts : t.fiber \in Fiber
    BY ZenonT(30) DEF IInv, TypeOK, CountersInSync, FiberPlacement
  <1>1. num' = Len(fibers') + Len(tasks')
    <2>1. /\ fibers # <<>> => Len(Tail(fibers)) = Len(fibers) - 1
          /\ tasks # <<>> => Len(Tail(tasks)) = Len(tasks) - 1
          /\ \A f \in Fiber : Len(Append(fibers, f)) = Len(fibers) + 1
          /\ \A t \in AnyTask : Len(Append(tasks, t)) = Len(tasks) + 1
          /\ Len(fibers) \in Nat /\ Len(tasks) \in Nat
      BY <1>0, TakeFacts, AppendFacts
    <2>2. CASE UNCHANGED queueVars
      BY <1>0, <2>2 DEF queueVars
    <2>3. ASSUME NEW f \in Fiber, PushFiber(f), tasks' = tasks PROVE num' = Len(fibers') + Len(tasks')
      BY <1>0, <2>1, <2>3 DEF PushFiber
    <2>4. CASE fibers # <<>> /\ TakeFiber /\ tasks' = tasks
      BY <1>0, <2>1, <2>4 DEF TakeFiber
    <2>5. ASSUME NEW t \in AnyTask, PushTask(t), fibers' = fibers PROVE num' = Len(fibers') + Len(tasks')
      BY <1>0, <2>1, <2>5 DEF PushTask
    <2>6. ASSUME tasks # <<>>, fibers' = fibers, NEW as, TakeTask(as) PROVE num' = Len(fibers') + Len(tasks')
      BY <1>0, <2>1, <2>6 DEF TakeTask
    <2> QED BY ZenonT(30), <1>0, <2>2, <2>3, <2>4, <2>5, <2>6, Frame
  <1> DEFINE B == {f \in Fiber : stack[f] = "suspend"}
  <1>2. numBlocked = Cardinality(B) /\ IsFiniteSet(B)
    <2>1. IsFiniteSet(Fiber)
      BY FS_Interval, BoundAssumption DEF Fiber
    <2> QED BY ZenonT(30), <1>0, <2>1, FS_Subset DEF CountersInSync
  <1>3. ASSUME pc = "switch", stack' = [stack EXCEPT ![current] = "suspend"],
               numBlocked' = numBlocked + 1
        PROVE  numBlocked' = Cardinality(B')
    <2>1. current \notin B
      BY <1>0, <1>3 DEF Placed, InSuspend
    <2>2. B' = B \cup {current}
      BY <1>0, <1>3
    <2> HIDE DEF B
    <2> QED BY ZenonT(30), <1>2, <1>3, <2>1, <2>2, FS_AddElement
  <1>4. CASE AfterSwitch
    <2>1. current \in B
      BY ZenonT(30), <1>4, AfterSwitchCounted, <1>0 DEF AfterSwitch
    <2>2. B' = B \ {current}
      BY <1>0, <1>4 DEF AfterSwitch
    <2>3. numBlocked' = numBlocked - 1
      BY ZenonT(30), <1>4 DEF AfterSwitch
    <2> HIDE DEF B
    <2> QED BY ZenonT(30), <1>1, <1>2, <2>1, <2>2, <2>3, FS_RemoveElement DEF B, CountersInSync
  <1>5. ASSUME stack[current] # "suspend", NEW x, x # "suspend",
               stack' = [stack EXCEPT ![current] = x], numBlocked' = numBlocked
        PROVE  numBlocked' = Cardinality(B')
    <2>1. B' = B
      BY <1>0, <1>5
    <2> HIDE DEF B
    <2> QED BY ZenonT(30), <1>2, <1>5, <2>1
  <1>6. CASE UNCHANGED <<stack, numBlocked>>
    BY <1>1, <1>2, <1>6 DEF CountersInSync
  <1>7. CASE SwitchToQueued \/ SwitchToNew \/ \E f \in Fiber : SwitchToIdle(f)
    <2>1. numBlocked' = Cardinality(B')
      <3>1. /\ pc = "switch" /\ stack' = [stack EXCEPT ![current] = "suspend"]
            /\ numBlocked' = numBlocked + 1
        BY ZenonT(30), <1>7 DEF SwitchToQueued, SwitchToNew, SwitchToIdle
      <3> QED BY <1>3, <3>1
    <2> QED BY ZenonT(30), <1>1, <2>1 DEF CountersInSync
  <1>8. CASE ResumeFiber \/ AfterIdle \/ RunExit
    <2>1. stack[current] # "suspend"
      BY ZenonT(30), <1>0, <1>8 DEF ResumeFiber, AfterIdle, RunExit, Placed, CurrentState, InSuspend
    <2>2. /\ numBlocked' = numBlocked
          /\ \/ stack' = [stack EXCEPT ![current] = "runUntilIdle"]
             \/ stack' = [stack EXCEPT ![current] = "none"]
             \/ stack' = [stack EXCEPT ![current] = "exited"]
             \/ stack' = stack
      BY <1>8 DEF ResumeFiber, AfterIdle, RunExit
    <2>3. numBlocked' = Cardinality(B')
      BY ZenonT(30), <1>2, <1>5, <2>1, <2>2
    <2> QED BY ZenonT(30), <1>1, <2>3 DEF CountersInSync
  <1> QED BY ZenonT(30), <1>4, <1>6, <1>7, <1>8, StackFrame

-----------------------------------------------------------------------------
\* The waiting fibers.

\* The steps that change the state or the deadline of a fiber, or WaitingFibers.
LEMMA StateFrame ==
    ASSUME [Next]_vars
    PROVE  \/ UNCHANGED <<state, deadline, timeouts, waitFibers>>
           \/ EnqueueFiberTimeouts \/ ResumeFiber \/ AfterIdle \/ SwitchToNew \/ AfterSwitch
           \/ Suspend \/ WaitReturnsTrue \/ WaitTimesOut
           \/ \E f \in Fiber : Notify(f)
           \/ \E d \in Time \cup {Never}, b \in BOOLEAN : BeginWait(d, b)
  BY ZenonT(30) DEF fiberVars, waitVars, Next, ThreadStep, ThreadMay, vars, WorkWait, Wake,
      SpuriousWake, WakeTimeout, Run, RunUntilShutdown, WaitForWork, SpinForWork,
      SpinAndSteal, Relock, StartTask, NothingToDo, SwitchToQueued, SwitchToIdle,
      RunExit, TaskReturns, WaitAgain, Stop,
      Satisfy, EnqueueTask, NotifyOne, Steal, ThiefRunsStop, Tick

\* Every step keeps the two containers of WaitingFibers equal.
LEMMA WaitingStep ==
    ASSUME IInv, [Next]_vars
    PROVE  WaitingInSync'
  <1> DEFINE Pair(f) == [timepoint |-> waitFibers[f], fiber |-> f]
  <1>0. /\ \A t : t \in timeouts <=> \E f \in Fiber : waitFibers[f] # Never /\ t = Pair(f)
        /\ \A f \in Fiber : waitFibers[f] = IF state[f] = "Waiting" THEN deadline[f] ELSE Never
        /\ \A f \in Fiber : state[f] = "Waiting" => deadline[f] # Never
    BY ZenonT(30) DEF IInv, WaitingInSync
  <1>p. /\ state \in [Fiber -> State] /\ deadline \in [Fiber -> 0..Never]
        /\ waitFibers \in [Fiber -> 0..Never] /\ current \in Fiber
        /\ state[current] \in CurrentState /\ workerFibers \in 0..MaxFibers
        /\ \A f \in Fiber : Placed(f)
    BY ZenonT(30) DEF IInv, TypeOK, FiberPlacement
  <1>1. ASSUME UNCHANGED <<timeouts, waitFibers>>,
               \A f \in Fiber : /\ state'[f] = "Waiting" <=> state[f] = "Waiting"
                                /\ state[f] = "Waiting" => deadline'[f] = deadline[f]
        PROVE  WaitingInSync'
    <2>1. timeouts' = {Pair(f) : f \in {g \in Fiber : waitFibers[g] # Never}}
      BY ZenonT(30), <1>1 DEF IInv, WaitingInSync
    <2> QED BY ZenonT(30), <1>0, <1>1, <2>1 DEF WaitingInSync
  <1>2. ASSUME NEW g \in Fiber, waitFibers[g] # Never,
               timeouts' = timeouts \ {Pair(g)},
               waitFibers' = [waitFibers EXCEPT ![g] = Never],
               state' = [state EXCEPT ![g] = "Queued"], deadline' = deadline
        PROVE  WaitingInSync'
    <2>1. \A f \in Fiber : f # g => Pair(f) # Pair(g) /\ waitFibers'[f] = waitFibers[f]
      BY ZenonT(30), <1>p, <1>2
    <2>2. ASSUME NEW t PROVE t \in timeouts' <=>
                  \E f \in Fiber : waitFibers'[f] # Never /\ t = [timepoint |-> waitFibers'[f], fiber |-> f]
      BY ZenonT(30), <1>0, <1>p, <1>2, <2>1
    <2>3. timeouts' = {[timepoint |-> waitFibers'[f], fiber |-> f] :
                         f \in {h \in Fiber : waitFibers'[h] # Never}}
      BY ZenonT(30), <2>2
    <2>4. \A f \in Fiber : /\ waitFibers'[f] = IF state'[f] = "Waiting" THEN deadline'[f] ELSE Never
                           /\ state'[f] = "Waiting" => deadline'[f] # Never
      BY ZenonT(30), <1>0, <1>p, <1>2
    <2> QED BY ZenonT(30), <2>3, <2>4 DEF WaitingInSync
  <1>3. CASE UNCHANGED <<state, deadline, timeouts, waitFibers>>
    BY ZenonT(30), <1>1, <1>3
  <1>4. CASE EnqueueFiberTimeouts
    <2>1. CASE UNCHANGED <<timeouts, waitFibers, state>>
      BY <1>1, <1>4, <2>1 DEF EnqueueFiberTimeouts
    <2>2. ASSUME NEW t \in timeouts, timeouts' = timeouts \ {t},
                 waitFibers' = [waitFibers EXCEPT ![t.fiber] = Never], PushFiber(t.fiber)
          PROVE  WaitingInSync'
      <3>1. t.fiber \in Fiber /\ waitFibers[t.fiber] # Never /\ t = Pair(t.fiber)
        BY <1>0
      <3>2. deadline' = deadline
        BY ZenonT(30), <1>4 DEF EnqueueFiberTimeouts
      <3> QED BY ZenonT(30), <1>2, <2>2, <3>1, <3>2 DEF PushFiber
    <2> QED BY ZenonT(30), <1>4, <2>1, <2>2 DEF EnqueueFiberTimeouts
  <1>5. ASSUME NEW g \in Fiber, Notify(g) PROVE WaitingInSync'
    <2>1. deadline' = deadline
      BY ZenonT(30), <1>5 DEF Notify
    <2>2. CASE AwakeAlready(g)
      BY ZenonT(30), <1>1, <1>5, <2>1, <2>2 DEF Notify, EnqueueFiber, waitVars
    <2>3. CASE ~AwakeAlready(g) /\ state[g] = "Waiting"
      <3>1. waitFibers[g] # Never
        BY ZenonT(30), <1>0, <2>3
      <3> QED BY ZenonT(30), <1>2, <1>5, <2>1, <2>3, <3>1 DEF Notify, EnqueueFiber, WaitingErase, PushFiber
    <2>4. CASE ~AwakeAlready(g) /\ state[g] # "Waiting"
      BY ZenonT(30), <1>1, <1>5, <1>p, <2>1, <2>4 DEF Notify, EnqueueFiber, PushFiber, waitVars
    <2> QED BY ZenonT(30), <2>2, <2>3, <2>4
  <1>6. CASE Suspend
    <2>1. state[current] = "Running" /\ waitFibers[current] = Never
      BY ZenonT(30), <1>0, <1>6, <1>p DEF Suspend, MustSuspend, CurrentState, InSuspend
    <2>2. CASE deadline[current] = Never
      BY ZenonT(30), <1>1, <1>6, <1>p, <2>1, <2>2 DEF Suspend, waitVars
    <2>3. CASE deadline[current] # Never
      <3>1. /\ state' = [state EXCEPT ![current] = "Waiting"] /\ deadline' = deadline
            /\ timeouts' = timeouts \cup {[timepoint |-> deadline[current], fiber |-> current]}
            /\ waitFibers' = [waitFibers EXCEPT ![current] = deadline[current]]
        BY ZenonT(30), <1>6, <2>3 DEF Suspend, WaitingAdd
      <3>2. ASSUME NEW t PROVE t \in timeouts' <=>
                  \E f \in Fiber : waitFibers'[f] # Never /\ t = [timepoint |-> waitFibers'[f], fiber |-> f]
        BY ZenonT(30), <1>0, <1>p, <2>1, <2>3, <3>1
      <3>3. timeouts' = {[timepoint |-> waitFibers'[f], fiber |-> f] :
                           f \in {h \in Fiber : waitFibers'[h] # Never}}
        BY <3>2
      <3>4. \A f \in Fiber : /\ waitFibers'[f] = IF state'[f] = "Waiting" THEN deadline'[f] ELSE Never
                             /\ state'[f] = "Waiting" => deadline'[f] # Never
        BY ZenonT(30), <1>0, <1>p, <2>3, <3>1
      <3> QED BY ZenonT(30), <3>3, <3>4 DEF WaitingInSync
    <2> QED BY <2>2, <2>3
  <1>7. CASE ResumeFiber \/ AfterIdle \/ AfterSwitch
    <2>1. state[current] # "Waiting"
      BY ZenonT(30), <1>7, <1>p DEF ResumeFiber, AfterIdle, AfterSwitch, CurrentState, InSuspend
    <2>2. /\ UNCHANGED <<deadline, timeouts, waitFibers>>
          /\ \/ state' = [state EXCEPT ![current] = "Idle"]
             \/ state' = [state EXCEPT ![current] = "Running"]
      BY <1>7 DEF ResumeFiber, AfterIdle, AfterSwitch, waitVars
    <2> QED BY ZenonT(30), <1>1, <1>p, <2>1, <2>2
  <1>8. CASE SwitchToNew
    <2>1. workerFibers + 1 \in Fiber /\ state[workerFibers + 1] = "none"
      BY <1>8, <1>p, BoundAssumption DEF SwitchToNew, Placed, Fiber
    <2> QED BY ZenonT(30), <1>1, <1>8, <1>p, <2>1 DEF SwitchToNew, waitVars
  <1>9. ASSUME \/ WaitReturnsTrue \/ WaitTimesOut
               \/ \E d \in Time \cup {Never}, b \in BOOLEAN : BeginWait(d, b)
        PROVE  WaitingInSync'
    <2>1. state[current] = "Running"
      BY ZenonT(30), <1>9, <1>p DEF WaitReturnsTrue, WaitTimesOut, BeginWait, CurrentState, InSuspend
    <2>2. /\ UNCHANGED <<state, timeouts, waitFibers>>
          /\ \E d : deadline' = [deadline EXCEPT ![current] = d]
      BY ZenonT(30), <1>9 DEF WaitReturnsTrue, WaitTimesOut, EndWait, BeginWait, waitVars
    <2> QED BY ZenonT(30), <1>1, <1>p, <2>1, <2>2
  <1> QED BY ZenonT(30), <1>3, <1>4, <1>5, <1>6, <1>7, <1>8, <1>9, StateFrame

-----------------------------------------------------------------------------
\* The theorems.

\* IInv holds in the worker that bind() or the constructor has just started.
LEMMA InitIInv ==
    ASSUME Init PROVE IInv
  <1>0. /\ 0 \in Fiber /\ Never \in 0..Never /\ Never \in Nat /\ 0 \in Time
        /\ \A f \in Fiber : f \in Nat
    BY BoundAssumption DEF Fiber, Never, Time
  <1>1. TypeOK
    <2>0. mode \in {"MultiThreaded", "SingleThreaded"}
      BY DEF Init
    <2>1. /\ state \in [Fiber -> State] /\ stack \in [Fiber -> Stack]
          /\ running \in [Fiber -> AnyTask \cup {NoTask}]
          /\ bare \in [Fiber -> BOOLEAN] /\ pred \in [Fiber -> BOOLEAN]
          /\ fate \in [AnyTask -> {"new", "queued", "running", "done", "stolen"}]
      BY DEF Init, State, Stack
    <2>2. /\ pc \in Held \cup Released /\ ret \in Return /\ shutdown \in BOOLEAN
          /\ notifyAdded \in BOOLEAN /\ wakeup \in BOOLEAN
      BY ZenonT(30) DEF Init, Held, Released, Return
    <2>3. /\ tasks \in Seq(AnyTask) /\ fibers \in Seq(Fiber)
          /\ timeouts \subseteq [timepoint : Time, fiber : Fiber]
          /\ idleFibers \subseteq Fiber /\ owed \subseteq Fiber
      BY DEF Init
    <2>4. /\ deadline \in [Fiber -> 0..Never] /\ waitFibers \in [Fiber -> 0..Never]
          /\ wakeAt \in 0..Never /\ now \in Time /\ current \in Fiber
      BY <1>0 DEF Init
    <2>5. /\ workerFibers \in 0..MaxFibers /\ num \in Nat /\ numBlocked \in Nat
          /\ kicks \in 0..Notifiers /\ waits \in 0..MaxWaits
      BY BoundAssumption DEF Init
    <2> QED BY ZenonT(30), <2>0, <2>1, <2>2, <2>3, <2>4, <2>5 DEF TypeOK
  <1>2. FiberPlacement
    <2>1. fibers = <<>> /\ In(fibers) = {} /\ NoDuplicates(fibers)
      BY DEF Init, In, NoDuplicates
    <2>2. ~InSuspend /\ pc \notin {"afterSwitch", "afterIdle"}
      BY ZenonT(30) DEF Init, InSuspend
    <2>3. ASSUME NEW f \in Fiber PROVE Placed(f)
      BY <1>0, <2>1, <2>2 DEF Init, Placed
    <2> QED BY ZenonT(30), <1>0, <2>1, <2>2, <2>3 DEF Init, FiberPlacement, CurrentState
  <1>3. CountersInSync
    <2>1. {f \in Fiber : stack[f] = "suspend"} = {}
      BY DEF Init
    <2>2. Cardinality({f \in Fiber : stack[f] = "suspend"}) = 0
      BY ZenonT(30), <2>1, FS_EmptySet
    <2>3. num = 0 /\ numBlocked = 0 /\ Len(fibers) = 0 /\ Len(tasks) = 0
      BY ZenonT(30) DEF Init
    <2> QED BY <2>2, <2>3 DEF CountersInSync
  <1>4. WaitingInSync
    BY DEF Init, WaitingInSync
  <1>5. LoopExit
    BY ZenonT(30), <1>0 DEF Init, LoopExit
  <1> QED BY ZenonT(30), <1>1, <1>2, <1>3, <1>4, <1>5 DEF IInv

\* The steps that matter to the exit from runUntilShutdown().
LEMMA ExitFrame ==
    ASSUME [Next]_vars, ret \in Return
    PROVE  /\ \/ pc' # "runExit"
              \/ pc' = pc /\ UNCHANGED <<num, numBlocked>> /\ (shutdown' = shutdown \/ shutdown')
              \/ RunUntilShutdown
           /\ \/ stack' = stack
              \/ \E x \in {"suspend", "runUntilIdle", "none"} : stack' = [stack EXCEPT ![current] = x]
              \/ RunExit
  BY ZenonT(30) DEF fiberVars, queueVars, poolVars, sleepVars, waitVars, envVars, Next, ThreadStep, ThreadMay,
      vars, WorkWait, Wake, SpuriousWake, WorkWaitReturns, AfterWait, MutexFree, Held, Return,
      WakeTimeout, Run, RunUntilShutdown, WaitForWork, SpinForWork, SpinAndSteal,
      Relock, EnqueueFiberTimeouts, ResumeFiber, AfterIdle, StartTask, NothingToDo,
      SwitchToQueued, SwitchToIdle, SwitchToNew, AfterSwitch, RunExit, Resumption, TaskReturns,
      BeginWait, Suspend, WaitReturnsTrue, WaitTimesOut, EndWait, WaitAgain, Stop,
      Satisfy, Notify, EnqueueTask, NotifyOne, Steal, ThiefRunsStop, Tick

\* Nothing is enqueued between the last test of the loop condition and the
\* switch to the main fiber.
LEMMA LoopExitStep ==
    ASSUME IInv, [Next]_vars
    PROVE  LoopExit'
  <1>1. TypeOK /\ LoopExit /\ ret \in Return
    BY ZenonT(30) DEF IInv, TypeOK
  <1>2. pc' = "runExit" => ~KeepRunning'
    <2>1. CASE RunUntilShutdown
      BY <2>1 DEF RunUntilShutdown, KeepRunning, queueVars
    <2>2. CASE pc' = pc /\ UNCHANGED <<num, numBlocked>> /\ (shutdown' = shutdown \/ shutdown')
      BY <1>1, <2>2 DEF LoopExit, KeepRunning
    <2> QED BY <1>1, <2>1, <2>2, ExitFrame
  <1>3. stack'[0] # "exited"
    <2>1. CASE RunExit
      BY <1>1, <2>1, BoundAssumption DEF RunExit, LoopExit, TypeOK, Fiber
    <2>2. CASE stack' = stack
      BY ZenonT(30), <1>1, <2>2 DEF LoopExit
    <2>3. CASE \E x \in {"suspend", "runUntilIdle", "none"} : stack' = [stack EXCEPT ![current] = x]
      BY <1>1, <2>3, BoundAssumption DEF LoopExit, TypeOK, Fiber
    <2> QED BY ZenonT(30), <1>1, <2>1, <2>2, <2>3, ExitFrame
  <1> QED BY ZenonT(30), <1>2, <1>3 DEF LoopExit

\* The invariant is inductive.
THEOREM Invariance == Spec => []IInv
  <1>1. Init => IInv
    BY InitIInv
  <1>2. IInv /\ [Next]_vars => IInv'
    BY TypeStep, PlacementStep, CountersStep, WaitingStep, LoopExitStep DEF IInv
  <1> QED BY <1>1, <1>2, PTL DEF Spec

\* The variables of the worker keep their types: num and num_blocked_fibers in
\* particular never go below zero.
THEOREM TypeCorrect == Spec => []TypeOK
  <1>1. IInv => TypeOK
    BY DEF IInv
  <1> QED BY <1>1, Invariance, PTL

\* Whatever the tasks, threads and timeouts do, a Queued fiber is in
\* work_.fibers once, an Idle one in idle_fibers_, and each will return from
\* the call that its state says.
THEOREM PlacementCorrect == Spec => []FiberPlacement
  <1>1. IInv => FiberPlacement
    BY DEF IInv
  <1> QED BY <1>1, Invariance, PTL

\* work_.num and num_blocked_fibers count what they are meant to count.
THEOREM CountersCorrect == Spec => []CountersInSync
  <1>1. IInv => CountersInSync
    BY DEF IInv
  <1> QED BY <1>1, Invariance, PTL

\* WaitingFibers holds exactly the fibers in state Waiting, in both containers.
THEOREM WaitingCorrect == Spec => []WaitingInSync
  <1>1. IInv => WaitingInSync
    BY ZenonT(30) DEF IInv
  <1> QED BY <1>1, Invariance, PTL

-----------------------------------------------------------------------------
\* No wakeup, no notification and no task is lost.

\* A sleeping worker asks to be notified, and only a thief can steal.
WakeInv ==
    /\ NoLostWakeup
    /\ pc = "asleep" => notifyAdded
    /\ \A t \in AnyTask : fate[t] = "stolen" => Thieves

\* A predicate is true only during the wait() it belongs to.
NotifyInv ==
    /\ NoLostNotify
    /\ pc = "bareWait" => bare[current]
    /\ \A f \in Fiber : (bare[f] => ~pred[f]) /\ (pred[f] => InWait(f))

\* A task is on the stack of a fiber while it runs and while it waits, and
\* without thieves the worker itself has run the task that sets shutdown.
TaskInv ==
    /\ TaskPlacement
    /\ StoppedMeansDrained
    /\ \A f \in Fiber : running[f] # NoTask => InWait(f) \/ (f = current /\ pc = "task")
    /\ MultiThreaded /\ ~Thieves /\ shutdown => fate[StopTask] = "done"
    /\ pc = "done" => shutdown

-----------------------------------------------------------------------------
\* The sleeping thread.

\* How the thread falls asleep, and what happens while it sleeps.
LEMMA SleepFrame ==
    ASSUME [Next]_vars, ret \in Return, pc' = "asleep"
    PROVE  /\ ret' = ret
           /\ \/ /\ ~WaitPred
                 /\ UNCHANGED <<num, numBlocked, shutdown, waitFibers>>
                 /\ notifyAdded' \/ (pc = "asleep" /\ notifyAdded' = notifyAdded)
              \/ /\ pc = "asleep" /\ notifyAdded' = notifyAdded
                 /\ \/ UNCHANGED <<num, numBlocked, shutdown, waitFibers, wakeup, kicks>>
                    \/ NotifyLater /\ wakeup' = wakeup
                    \/ wakeup' /\ kicks' = kicks - 1
                    \/ Steal
                    \/ ThiefRunsStop
  BY ZenonT(30) DEF vars, fiberVars, poolVars, queueVars, waitVars, sleepVars, envVars, Next, ThreadStep,
      ThreadMay, WorkWait, Wake, SpuriousWake, WorkWaitReturns, AfterWait, WakeTimeout, Run,
      RunUntilShutdown, WaitForWork, SpinForWork, SpinAndSteal, Relock, EnqueueFiberTimeouts,
      ResumeFiber, AfterIdle, StartTask, NothingToDo, SwitchToQueued, SwitchToIdle,
      SwitchToNew, AfterSwitch, RunExit, Resumption, TaskReturns, BeginWait, Suspend,
      WaitReturnsTrue, WaitTimesOut, EndWait, WaitAgain, Stop, Satisfy, Notify, EnqueueFiber,
      EnqueueTask, NotifyOne, Steal, ThiefRunsStop, Tick, PushFiber, TakeFiber, PushTask, TakeTask,
      MutexFree, Held, Return

\* A step makes a task stolen only if there are thieves.
LEMMA StolenFrame ==
    ASSUME TypeOK, [Next]_vars, NEW u \in AnyTask, fate[u] = "stolen" => Thieves
    PROVE  fate'[u] = "stolen" => Thieves
  <1>1. \/ fate' = fate \/ Thieves
        \/ \E t, x : x # "stolen" /\ fate' = [fate EXCEPT ![t] = x]
    BY ZenonT(30) DEF vars, fiberVars, poolVars, queueVars, waitVars, sleepVars, envVars, Next, ThreadStep,
      ThreadMay, WorkWait, Wake, SpuriousWake, WorkWaitReturns, AfterWait, WakeTimeout, Run,
      RunUntilShutdown, WaitForWork, SpinForWork, SpinAndSteal, Relock, EnqueueFiberTimeouts,
      ResumeFiber, AfterIdle, StartTask, NothingToDo, SwitchToQueued, SwitchToIdle,
      SwitchToNew, AfterSwitch, RunExit, Resumption, TaskReturns, BeginWait, Suspend,
      WaitReturnsTrue, WaitTimesOut, EndWait, WaitAgain, Stop, Satisfy, Notify, EnqueueFiber,
      EnqueueTask, NotifyOne, Steal, ThiefRunsStop, Tick, PushFiber, TakeFiber, PushTask, TakeTask,
      MutexFree, Held, Return
  <1>2. fate \in [AnyTask -> {"new", "queued", "running", "done", "stolen"}]
    BY ZenonT(30) DEF TypeOK
  <1> QED BY ZenonT(30), <1>1, <1>2

\* Every step keeps WakeInv.
LEMMA WakeStep ==
    ASSUME IInv, WakeInv, [Next]_vars
    PROVE  WakeInv'
  <1>1. /\ TypeOK /\ ret \in Return /\ num \in Nat /\ kicks \in Nat
        /\ pc = "asleep" => notifyAdded
        /\ \A t \in AnyTask : fate[t] = "stolen" => Thieves
        /\ StopTask \in AnyTask
        /\ Thieves' = Thieves
    BY BoundAssumption, ModeFrame DEF IInv, TypeOK, WakeInv, AnyTask
  <1>2. \A t \in AnyTask : fate'[t] = "stolen" => Thieves
    BY <1>1, StolenFrame
  <1>3. ASSUME pc' = "asleep" PROVE NoLostWakeup' /\ notifyAdded'
    <2>1. CASE /\ ~WaitPred /\ ret' = ret
               /\ UNCHANGED <<num, numBlocked, shutdown, waitFibers>>
               /\ notifyAdded' \/ (pc = "asleep" /\ notifyAdded' = notifyAdded)
      <3>1. ~WaitPred' /\ ~(num' > 0)
        BY <2>1 DEF WaitPred, Waiting
      <3> QED BY <1>1, <2>1, <3>1 DEF NoLostWakeup
    <2>2. CASE /\ pc = "asleep" /\ UNCHANGED <<notifyAdded, ret>>
               /\ UNCHANGED <<num, numBlocked, shutdown, waitFibers, wakeup, kicks>>
      <3>1. WaitPred' = WaitPred
        BY <2>2 DEF WaitPred, Waiting
      <3> QED BY ZenonT(30), <1>1, <2>2, <3>1 DEF NoLostWakeup, WakeInv
    <2>3. CASE pc = "asleep" /\ notifyAdded' = notifyAdded /\ NotifyLater
      BY <1>1, <2>3 DEF NoLostWakeup, NotifyLater
    <2>4. CASE pc = "asleep" /\ notifyAdded' = notifyAdded /\ wakeup'
      BY <1>1, <2>4 DEF NoLostWakeup
    <2>5. CASE pc = "asleep" /\ notifyAdded' = notifyAdded /\ Steal
      <3>1. Thieves /\ num' = num - 1 /\ wakeup' = wakeup /\ kicks' = kicks
        BY <2>5 DEF Steal, TakeTask, sleepVars
      <3> QED BY <1>1, <2>5, <3>1 DEF NoLostWakeup, WakeInv
    <2>6. CASE pc = "asleep" /\ notifyAdded' = notifyAdded /\ ThiefRunsStop
      <3>1. Thieves /\ num' = num /\ wakeup' = wakeup /\ kicks' = kicks
        BY <1>1, <2>6 DEF ThiefRunsStop, sleepVars, queueVars
      <3> QED BY <1>1, <2>6, <3>1 DEF NoLostWakeup, WakeInv
    <2> QED BY ZenonT(30), <1>1, <1>3, <2>1, <2>2, <2>3, <2>4, <2>5, <2>6, SleepFrame
  <1>4. pc' # "asleep" => NoLostWakeup'
    BY DEF NoLostWakeup
  <1> QED BY ZenonT(30), <1>1, <1>2, <1>3, <1>4 DEF WakeInv

\* A worker never sleeps on work, whoever enqueues it and whenever.
THEOREM NoLostWakeupCorrect == Spec => []NoLostWakeup
  <1>1. Init => WakeInv
    BY DEF Init, WakeInv, NoLostWakeup
  <1>2. IInv /\ WakeInv /\ [Next]_vars => WakeInv'
    BY WakeStep
  <1>3. WakeInv => NoLostWakeup
    BY ZenonT(30) DEF WakeInv
  <1> QED BY <1>1, <1>2, <1>3, Invariance, PTL DEF Spec

-----------------------------------------------------------------------------
\* The notification of a fiber.

\* A fiber is in wait() until its wait() returns.
LEMMA InWaitKept ==
    ASSUME IInv, [Next]_vars, NEW f \in Fiber, InWait(f)
    PROVE  InWait(f)' \/ (f = current /\ (WaitReturnsTrue \/ WaitTimesOut))
  <1> DEFINE AtWait == InSuspend \/ pc \in {"afterSwitch", "waitTest", "bareWait", "reacquire"}
  <1>1. /\ ret \in Return /\ current \in Fiber /\ Placed(current)
        /\ state[current] \in CurrentState /\ stack \in [Fiber -> Stack]
    BY ZenonT(30) DEF IInv, TypeOK, FiberPlacement
  <1>2. \/ /\ UNCHANGED <<stack, current>>
           /\ AtWait => AtWait' \/ WaitReturnsTrue \/ WaitTimesOut
        \/ ResumeFiber \/ AfterIdle \/ SwitchToQueued \/ SwitchToNew \/ AfterSwitch
        \/ RunExit \/ \E g \in Fiber : SwitchToIdle(g)
    <2>1. \/ UNCHANGED <<stack, current, pc, ret>>
          \/ ThreadStep \/ ThreadMay
      BY ZenonT(30) DEF vars, fiberVars, poolVars, Next, Satisfy, Notify, EnqueueTask, NotifyOne, Steal,
             ThiefRunsStop, Tick
    <2>2. CASE UNCHANGED <<stack, current, pc, ret>>
      BY <2>2 DEF InSuspend
    <2>3. CASE WorkWait \/ Wake \/ SpuriousWake \/ WakeTimeout
      BY ZenonT(30), <2>3 DEF WorkWait, Wake, SpuriousWake, WakeTimeout, WorkWaitReturns, AfterWait,
                  InSuspend, fiberVars, poolVars
    <2>4. CASE WaitForWork \/ SpinForWork \/ Relock \/ EnqueueFiberTimeouts
      BY <2>4 DEF WaitForWork, SpinForWork, Relock, EnqueueFiberTimeouts, InSuspend,
                  fiberVars, poolVars
    <2>5. ASSUME NEW t \in Task, SpinAndSteal(t)
          PROVE  UNCHANGED <<stack, current>> /\ (AtWait => AtWait')
      BY ZenonT(30), <2>5 DEF SpinAndSteal, InSuspend, fiberVars, poolVars
    <2>6. CASE Run \/ RunUntilShutdown \/ StartTask \/ NothingToDo \/ TaskReturns \/ Stop
      BY ZenonT(30), <2>6 DEF Run, RunUntilShutdown, StartTask, NothingToDo, TaskReturns, Stop, InSuspend,
                  fiberVars, poolVars
    <2>7. CASE Suspend \/ WaitAgain
      BY ZenonT(30), <2>7 DEF Suspend, WaitAgain, InSuspend, fiberVars, poolVars
    <2>8. ASSUME \E d \in Time \cup {Never}, b \in BOOLEAN : BeginWait(d, b)
          PROVE  UNCHANGED <<stack, current>> /\ ~AtWait
      BY ZenonT(30), <2>8 DEF BeginWait, InSuspend, poolVars
    <2>9. CASE WaitReturnsTrue \/ WaitTimesOut
      BY <2>9 DEF WaitReturnsTrue, WaitTimesOut, EndWait, poolVars
    <2> QED BY ZenonT(30), <2>1, <2>2, <2>3, <2>4, <2>5, <2>6, <2>7, <2>8, <2>9 DEF ThreadStep, ThreadMay
  <1>3. CASE /\ UNCHANGED <<stack, current>>
             /\ AtWait => AtWait' \/ WaitReturnsTrue \/ WaitTimesOut
    BY <1>3 DEF InWait
  <1>4. CASE SwitchToQueued \/ SwitchToNew \/ \E g \in Fiber : SwitchToIdle(g)
    <2>1. stack' = [stack EXCEPT ![current] = "suspend"] /\ pc = "switch"
      BY ZenonT(30), <1>4 DEF SwitchToQueued, SwitchToNew, SwitchToIdle
    <2> QED BY ZenonT(30), <1>1, <2>1 DEF InWait
  <1>5. CASE AfterSwitch
    BY <1>1, <1>5 DEF AfterSwitch, InWait, poolVars
  <1>6. CASE ResumeFiber \/ AfterIdle \/ RunExit
    <2>1. ~AtWait /\ stack[current] # "suspend"
      BY ZenonT(30), <1>1, <1>6 DEF ResumeFiber, AfterIdle, RunExit, InSuspend, CurrentState, Placed
    <2>2. stack[f] = "suspend" /\ f # current
      BY ZenonT(30), <2>1 DEF InWait
    <2>3. stack' = stack \/ \E x : stack' = [stack EXCEPT ![current] = x]
      BY ZenonT(30), <1>6 DEF ResumeFiber, AfterIdle, RunExit
    <2> QED BY ZenonT(30), <1>1, <2>2, <2>3 DEF InWait
  <1> QED BY ZenonT(30), <1>2, <1>3, <1>4, <1>5, <1>6

\* The steps that matter to the notification of fibers.
LEMMA NotifyFrame ==
    ASSUME TypeOK, [Next]_vars
    PROVE  \/ /\ UNCHANGED <<pred, bare, owed>>
              /\ \A f \in Fiber : state'[f] \in {"Yielded", "Waiting"} => state'[f] = state[f]
              /\ pc' = "bareWait" => pc = "bareWait" /\ current' = current
           \/ Suspend \/ WaitReturnsTrue \/ WaitTimesOut
           \/ \E f \in Fiber : Satisfy(f) \/ Notify(f)
           \/ \E d \in Time \cup {Never}, b \in BOOLEAN : BeginWait(d, b)
  <1>1. ret \in Return /\ state \in [Fiber -> State]
    BY ZenonT(30) DEF TypeOK
  <1>2. \/ /\ UNCHANGED <<pred, bare, owed>>
           /\ state' = state \/ \E g, x : /\ x \notin {"Yielded", "Waiting"}
                                         /\ state' = [state EXCEPT ![g] = x]
           /\ pc' = "bareWait" => pc = "bareWait" /\ current' = current
        \/ Suspend \/ WaitReturnsTrue \/ WaitTimesOut
        \/ \E f \in Fiber : Satisfy(f) \/ Notify(f)
        \/ \E d \in Time \cup {Never}, b \in BOOLEAN : BeginWait(d, b)
    BY ZenonT(30), <1>1 DEF vars, fiberVars, poolVars, queueVars, waitVars, sleepVars, envVars, Next, ThreadStep,
      ThreadMay, WorkWait, Wake, SpuriousWake, WorkWaitReturns, AfterWait, WakeTimeout, Run,
      RunUntilShutdown, WaitForWork, SpinForWork, SpinAndSteal, Relock, EnqueueFiberTimeouts,
      ResumeFiber, AfterIdle, StartTask, NothingToDo, SwitchToQueued, SwitchToIdle,
      SwitchToNew, AfterSwitch, RunExit, Resumption, TaskReturns,
      WaitAgain, Stop,
      EnqueueTask, NotifyOne, Steal, ThiefRunsStop, Tick, PushFiber, TakeFiber, PushTask, TakeTask,
      MutexFree, Held, Return
  <1> QED BY ZenonT(30), <1>1, <1>2

\* Every step keeps NotifyInv.
LEMMA NotifyStep ==
    ASSUME IInv, NotifyInv, [Next]_vars
    PROVE  NotifyInv'
  <1>0. /\ TypeOK /\ current \in Fiber /\ Placed(current) /\ state[current] \in CurrentState
        /\ state \in [Fiber -> State] /\ bare \in [Fiber -> BOOLEAN] /\ pred \in [Fiber -> BOOLEAN]
    BY ZenonT(30) DEF IInv, TypeOK, FiberPlacement
  <1>1. /\ \A f \in Fiber : pred[f] /\ state[f] \in {"Yielded", "Waiting"} => f \in owed
        /\ pc = "bareWait" => bare[current]
        /\ \A f \in Fiber : (bare[f] => ~pred[f]) /\ (pred[f] => InWait(f))
    BY ZenonT(30) DEF NotifyInv, NoLostNotify
  <1>2. CASE /\ UNCHANGED <<pred, bare, owed>>
             /\ \A f \in Fiber : state'[f] \in {"Yielded", "Waiting"} => state'[f] = state[f]
             /\ pc' = "bareWait" => pc = "bareWait" /\ current' = current
             /\ ~WaitReturnsTrue /\ ~WaitTimesOut
    <2>1. \A f \in Fiber : InWait(f) => InWait(f)'
      BY ZenonT(30), <1>2, InWaitKept
    <2> QED BY ZenonT(30), <1>1, <1>2, <2>1 DEF NotifyInv, NoLostNotify
  <1>3. CASE Suspend
    <2>1. ~pred[current] /\ pc \in {"bareWait", "waitTest"}
      BY <1>0, <1>1, <1>3 DEF Suspend, MustSuspend
    <2>2. /\ UNCHANGED <<pred, bare, owed>> /\ pc' = "waitForWork"
          /\ \A f \in Fiber : f # current => state'[f] = state[f]
      BY ZenonT(30), <1>0, <1>3 DEF Suspend, envVars
    <2>3. \A f \in Fiber : InWait(f) => InWait(f)'
      <3>1. ~WaitReturnsTrue /\ ~WaitTimesOut
        BY ZenonT(30), <2>1, <2>2 DEF WaitReturnsTrue, WaitTimesOut, EndWait
      <3> QED BY <3>1, InWaitKept
    <2> QED BY ZenonT(30), <1>1, <2>1, <2>2, <2>3 DEF NotifyInv, NoLostNotify
  <1>4. CASE WaitReturnsTrue \/ WaitTimesOut
    <2>1. /\ pred' = [pred EXCEPT ![current] = FALSE] /\ bare' = [bare EXCEPT ![current] = FALSE]
          /\ owed' = owed \ {current} /\ state' = state /\ pc' = "task"
      BY ZenonT(30), <1>4 DEF WaitReturnsTrue, WaitTimesOut, EndWait
    <2>2. \A f \in Fiber : InWait(f) => InWait(f)' \/ f = current
      BY InWaitKept
    <2> QED BY <1>0, <1>1, <2>1, <2>2 DEF NotifyInv, NoLostNotify
  <1>5. ASSUME NEW g \in Fiber, Satisfy(g) PROVE NotifyInv'
    <2>1. /\ pred' = [pred EXCEPT ![g] = TRUE] /\ owed' = owed \cup {g} /\ InWait(g) /\ ~bare[g]
          /\ UNCHANGED <<state, bare, pc, current, stack, ret>>
      BY <1>5 DEF Satisfy, poolVars
    <2>2. \A f \in Fiber : InWait(f)' <=> InWait(f)
      BY ZenonT(30), <2>1 DEF InWait, InSuspend
    <2> QED BY ZenonT(30), <1>0, <1>1, <2>1, <2>2 DEF NotifyInv, NoLostNotify
  <1>6. ASSUME NEW g \in Fiber, Notify(g) PROVE NotifyInv'
    <2>1. /\ owed' = owed \ {g} \/ owed' = owed
          /\ UNCHANGED <<pred, bare, pc, current, stack, ret>>
      BY <1>6 DEF Notify, poolVars
    <2>2. /\ state'[g] \in {"Running", "Queued"}
          /\ \A f \in Fiber : f # g => state'[f] = state[f]
      BY ZenonT(30), <1>0, <1>6 DEF Notify, EnqueueFiber, AwakeAlready, PushFiber
    <2>3. \A f \in Fiber : InWait(f)' <=> InWait(f)
      BY <2>1 DEF InWait, InSuspend
    <2> QED BY ZenonT(30), <1>0, <1>1, <2>1, <2>2, <2>3 DEF NotifyInv, NoLostNotify
  <1>7. ASSUME NEW d, NEW b \in BOOLEAN, BeginWait(d, b) PROVE NotifyInv'
    <2>1. /\ bare' = [bare EXCEPT ![current] = b] /\ UNCHANGED <<pred, owed, state, current, stack>>
          /\ pc = "task" /\ pc' \in {"bareWait", "waitTest"} /\ (pc' = "bareWait" => b)
      BY ZenonT(30), <1>7 DEF BeginWait, poolVars
    <2>2. ~InWait(current)
      BY ZenonT(30), <1>0, <2>1 DEF InWait, InSuspend, CurrentState, Placed
    <2>3. \A f \in Fiber : InWait(f) => InWait(f)'
      BY <2>1, <2>2 DEF InWait, InSuspend
    <2> QED BY ZenonT(30), <1>0, <1>1, <2>1, <2>2, <2>3 DEF NotifyInv, NoLostNotify
  <1> QED BY ZenonT(30), <1>0, <1>2, <1>3, <1>4, <1>5, <1>6, <1>7, NotifyFrame

\* No notification falls into the gap between the test of a predicate and the
\* suspension of the fiber.
THEOREM NoLostNotifyCorrect == Spec => []NoLostNotify
  <1>1. Init => NotifyInv
    BY DEF Init, NotifyInv, NoLostNotify
  <1>2. IInv /\ NotifyInv /\ [Next]_vars => NotifyInv'
    BY ZenonT(30), NotifyStep
  <1>3. NotifyInv => NoLostNotify
    BY ZenonT(30) DEF NotifyInv
  <1> QED BY <1>1, <1>2, <1>3, Invariance, PTL DEF Spec

-----------------------------------------------------------------------------
\* The tasks.

\* A task starts, returns or is moved by these steps only; the last conjunct
\* is about the task on the stack of the current fiber.
LEMMA TaskFrame ==
    ASSUME [Next]_vars, ret \in Return
    PROVE  /\ \/ UNCHANGED <<tasks, fate, running>>
              \/ \E t \in AnyTask : fate[t] = "new" /\ PushTask(t) /\ UNCHANGED running
              \/ StartTask \/ TaskReturns \/ Steal \/ ThiefRunsStop
           /\ pc = "task" => \/ pc' = "task" /\ current' = current
                             \/ TaskReturns \/ Stop
                             \/ pc' \in {"bareWait", "waitTest"} /\ current' = current
  BY ZenonT(30) DEF vars, fiberVars, poolVars, queueVars, envVars, Next, ThreadStep,
      ThreadMay, WorkWait, Wake, SpuriousWake, WorkWaitReturns, WakeTimeout, Run,
      RunUntilShutdown, WaitForWork, SpinForWork, SpinAndSteal, Relock, EnqueueFiberTimeouts,
      ResumeFiber, AfterIdle, StartTask, NothingToDo, SwitchToQueued, SwitchToIdle,
      SwitchToNew, AfterSwitch, RunExit, BeginWait, Suspend, MustSuspend,
      WaitReturnsTrue, WaitTimesOut, EndWait, WaitAgain, Stop, Satisfy, Notify, EnqueueFiber,
      EnqueueTask, NotifyOne, Steal, ThiefRunsStop, Tick, AnyTask

\* Every step keeps a task on the stack of its fiber until it returns.
LEMMA OnStackStep ==
    ASSUME IInv, TaskInv, [Next]_vars, NEW f \in Fiber, running'[f] # NoTask
    PROVE  InWait(f)' \/ (f = current' /\ pc' = "task")
  <1>0. /\ TypeOK /\ ret \in Return /\ running \in [Fiber -> AnyTask \cup {NoTask}] /\ current \in Fiber
        /\ Placed(current) /\ state[current] \in CurrentState
        /\ running[f] # NoTask => InWait(f) \/ (f = current /\ pc = "task")
    BY ZenonT(30) DEF IInv, TypeOK, FiberPlacement, TaskInv
  <1>1. CASE InWait(f)
    <2>1. (WaitReturnsTrue \/ WaitTimesOut) => pc' = "task" /\ current' = current
      BY DEF WaitReturnsTrue, WaitTimesOut, EndWait, poolVars
    <2> QED BY ZenonT(30), <1>1, <2>1, InWaitKept
  <1>2. CASE StartTask
    <2>1. /\ pc' = "task" /\ current' = current /\ pc = "runUntilIdle"
          /\ running' = [running EXCEPT ![current] = Head(tasks)]
      BY ZenonT(30), <1>2 DEF StartTask, poolVars
    <2>2. CASE f # current
      BY <1>0, <1>1, <2>1, <2>2
    <2> QED BY <2>1, <2>2
  <1>3. CASE TaskReturns
    <2>1. running' = [running EXCEPT ![current] = NoTask]
      BY ZenonT(30), <1>3 DEF TaskReturns
    <2> QED BY ZenonT(30), <1>0, <1>1, <2>1
  <1>4. CASE running' = running /\ ~InWait(f) /\ ~TaskReturns
    <2>1. f = current /\ pc = "task"
      BY <1>0, <1>4
    <2>2. ~Stop
      BY ZenonT(30), <1>4, <2>1 DEF Stop
    <2> QED BY ZenonT(30), <1>0, <1>4, <2>1, <2>2, TaskFrame DEF InWait
  <1>5. UNCHANGED running \/ StartTask \/ TaskReturns
    BY ZenonT(30), <1>0, TaskFrame DEF Steal, ThiefRunsStop, fiberVars, PushTask
  <1> QED BY ZenonT(30), <1>1, <1>2, <1>3, <1>4, <1>5

\* Every step keeps every task in exactly one place.
LEMMA TaskPlacementStep ==
    ASSUME IInv, TaskInv, [Next]_vars
    PROVE  TaskPlacement'
  <1>0. /\ TypeOK /\ ret \in Return /\ running \in [Fiber -> AnyTask \cup {NoTask}] /\ current \in Fiber
        /\ Placed(current) /\ state[current] \in CurrentState /\ tasks \in Seq(AnyTask)
        /\ fate \in [AnyTask -> {"new", "queued", "running", "done", "stolen"}]
        /\ StopTask \in AnyTask /\ NoTask \notin AnyTask
    BY ZenonT(30), TaskAssumption DEF IInv, TypeOK, FiberPlacement, AnyTask
  <1>1. /\ NoDuplicates(tasks)
        /\ \A t \in AnyTask :
             /\ fate[t] = "queued" <=> t \in In(tasks)
             /\ fate[t] = "running" <=> \E f \in Fiber : running[f] = t
             /\ \A f, g \in Fiber : running[f] = t /\ running[g] = t => f = g
        /\ \A f \in Fiber : running[f] # NoTask => InWait(f) \/ (f = current /\ pc = "task")
    BY ZenonT(30) DEF TaskInv, TaskPlacement
  <1>2. CASE UNCHANGED <<tasks, fate, running>>
    <2>1. tasks' = tasks /\ fate' = fate /\ running' = running
      BY <1>2
    <2>2. NoDuplicates(tasks') /\ In(tasks') = In(tasks)
      BY <1>1, <2>1, Zenon
    <2>3. \A t \in AnyTask :
             /\ fate'[t] = "queued" <=> t \in In(tasks')
             /\ fate'[t] = "running" <=> \E f \in Fiber : running'[f] = t
             /\ \A f, g \in Fiber : running'[f] = t /\ running'[g] = t => f = g
      BY <1>1, <2>1, <2>2, Zenon
    <2> QED BY <2>2, <2>3, Zenon DEF TaskPlacement
  <1>3. ASSUME NEW u \in AnyTask, fate[u] = "new", PushTask(u), running' = running
        PROVE  TaskPlacement'
    <2>1. In(tasks') = In(tasks) \cup {u} /\ NoDuplicates(tasks')
      BY <1>0, <1>1, <1>3, AppendFacts DEF PushTask
    <2>2. fate' = [fate EXCEPT ![u] = "queued"]
      BY <1>3 DEF PushTask
    <2> QED BY ZenonT(30), <1>0, <1>1, <1>3, <2>1, <2>2 DEF TaskPlacement
  <1>4. ASSUME tasks # <<>>, NEW as \in {"running", "stolen"}, TakeTask(as)
        PROVE  /\ NoDuplicates(tasks') /\ Head(tasks) \in AnyTask
               /\ In(tasks') = In(tasks) \ {Head(tasks)} /\ Head(tasks) \in In(tasks)
               /\ fate' = [fate EXCEPT ![Head(tasks)] = as]
    BY <1>0, <1>1, <1>4, TakeFacts DEF TakeTask
  <1>5. CASE StartTask
    <2>1. /\ tasks # <<>> /\ TakeTask("running") /\ pc = "runUntilIdle"
          /\ running' = [running EXCEPT ![current] = Head(tasks)]
      BY ZenonT(30), <1>5 DEF StartTask
    <2>2. running[current] = NoTask
      BY ZenonT(30), <1>0, <1>1, <2>1 DEF InWait, InSuspend, CurrentState, Placed
    <2>3. /\ NoDuplicates(tasks') /\ Head(tasks) \in AnyTask
          /\ In(tasks') = In(tasks) \ {Head(tasks)} /\ Head(tasks) \in In(tasks)
          /\ fate' = [fate EXCEPT ![Head(tasks)] = "running"]
      BY <1>4, <2>1
    <2>4. ASSUME NEW t \in AnyTask
          PROVE  /\ fate'[t] = "queued" <=> t \in In(tasks')
                 /\ fate'[t] = "running" <=> \E f \in Fiber : running'[f] = t
                 /\ \A f, g \in Fiber : running'[f] = t /\ running'[g] = t => f = g
      <3>1. CASE t = Head(tasks)
        <4>1. \A f \in Fiber : running[f] # t
          BY ZenonT(30), <1>1, <2>3, <3>1
        <4> QED BY ZenonT(30), <1>0, <1>1, <2>1, <2>2, <2>3, <3>1, <4>1
      <3>2. CASE t # Head(tasks)
        <4>1. \A f \in Fiber : running'[f] = t <=> running[f] = t
          BY <1>0, <2>1, <2>2, <3>2
        <4>2. fate'[t] = fate[t] /\ (t \in In(tasks') <=> t \in In(tasks))
          BY ZenonT(30), <1>0, <2>3, <3>2
        <4>3. \/ fate'[t] = "running" /\ \E f \in Fiber : running'[f] = t
              \/ fate'[t] # "running" /\ \A f \in Fiber : running'[f] # t
          BY ZenonT(30), <1>1, <4>1, <4>2
        <4>4. \A f, g \in Fiber : running'[f] = t /\ running'[g] = t => f = g
          BY ZenonT(30), <1>1, <4>1
        <4> QED BY ZenonT(30), <1>1, <4>2, <4>3, <4>4
      <3> QED BY ZenonT(30), <3>1, <3>2
    <2> QED BY <2>3, <2>4 DEF TaskPlacement
  <1>6. CASE Steal
    <2>1. tasks # <<>> /\ TakeTask("stolen") /\ running' = running
      BY ZenonT(30), <1>6 DEF Steal, fiberVars
    <2>2. /\ NoDuplicates(tasks') /\ Head(tasks) \in AnyTask
          /\ In(tasks') = In(tasks) \ {Head(tasks)} /\ Head(tasks) \in In(tasks)
          /\ fate' = [fate EXCEPT ![Head(tasks)] = "stolen"]
      BY <1>4, <2>1
    <2> QED BY <1>0, <1>1, <2>1, <2>2 DEF TaskPlacement
  <1>7. CASE TaskReturns
    <2>1. /\ running[current] \in AnyTask /\ tasks' = tasks
          /\ fate' = [fate EXCEPT ![running[current]] = "done"]
          /\ running' = [running EXCEPT ![current] = NoTask]
      BY <1>0, <1>7 DEF TaskReturns, queueVars
    <2>2. fate[running[current]] = "running"
      BY ZenonT(30), <1>0, <1>1, <2>1
    <2>3. ASSUME NEW t \in AnyTask
          PROVE  /\ fate'[t] = "queued" <=> t \in In(tasks)
                 /\ fate'[t] = "running" <=> \E f \in Fiber : running'[f] = t
                 /\ \A f, g \in Fiber : running'[f] = t /\ running'[g] = t => f = g
      <3>1. CASE t = running[current]
        BY ZenonT(30), <1>0, <1>1, <2>1, <2>2, <3>1
      <3>2. CASE t # running[current]
        <4>1. \A f \in Fiber : running'[f] = t <=> running[f] = t
          BY ZenonT(30), <1>0, <2>1, <3>2
        <4> QED BY <1>0, <1>1, <2>1, <3>2, <4>1
      <3> QED BY ZenonT(30), <3>1, <3>2
    <2> QED BY ZenonT(30), <1>1, <2>1, <2>3 DEF TaskPlacement
  <1>8. CASE ThiefRunsStop
    <2>1. /\ fate[StopTask] = "stolen" /\ fate' = [fate EXCEPT ![StopTask] = "done"]
          /\ UNCHANGED <<tasks, running>>
      BY <1>8 DEF ThiefRunsStop, queueVars, fiberVars
    <2> QED BY <1>0, <1>1, <2>1 DEF TaskPlacement
  <1> QED BY ZenonT(30), <1>0, <1>2, <1>3, <1>5, <1>6, <1>7, <1>8, TaskFrame

\* Only the task of stop(), or stop() itself on a SingleThreaded worker, sets
\* shutdown.
LEMMA ShutdownStep ==
    ASSUME IInv, WakeInv, TaskInv, [Next]_vars
    PROVE  /\ MultiThreaded /\ ~Thieves /\ shutdown' => fate'[StopTask] = "done"
           /\ shutdown => shutdown'
  <1>0. /\ TypeOK /\ ret \in Return /\ StopTask \in AnyTask /\ tasks \in Seq(AnyTask)
        /\ fate \in [AnyTask -> {"new", "queued", "running", "done", "stolen"}]
        /\ shutdown \in BOOLEAN /\ TaskPlacement
        /\ MultiThreaded /\ ~Thieves /\ shutdown => fate[StopTask] = "done"
        /\ fate[StopTask] = "stolen" => Thieves
    BY ZenonT(30) DEF IInv, TypeOK, AnyTask, TaskInv, WakeInv
  <1>1. \/ shutdown' = shutdown
        \/ TaskReturns \/ Stop \/ ThiefRunsStop
    BY ZenonT(30) DEF vars, Next, ThreadStep, ThreadMay, WorkWait, Wake, SpuriousWake, WakeTimeout, Run,
      RunUntilShutdown, WaitForWork, SpinForWork, SpinAndSteal, Relock, EnqueueFiberTimeouts,
      ResumeFiber, AfterIdle, StartTask, NothingToDo, SwitchToQueued, SwitchToIdle,
      SwitchToNew, AfterSwitch, RunExit, BeginWait, Suspend,
      WaitReturnsTrue, WaitTimesOut, EndWait, WaitAgain, Satisfy, Notify,
      EnqueueTask, NotifyOne, Steal, Tick
  <1>2. CASE TaskReturns
    BY ZenonT(30), <1>0, <1>2 DEF TaskReturns
  <1>3. CASE Stop \/ ThiefRunsStop
    BY ZenonT(30), <1>0, <1>3 DEF Stop, ThiefRunsStop
  <1>4. CASE shutdown' = shutdown /\ ~TaskReturns /\ ~ThiefRunsStop
    <2>1. CASE tasks # <<>> /\ \E as : TakeTask(as)
      <3>1. Head(tasks) \in AnyTask /\ fate[Head(tasks)] = "queued"
        BY ZenonT(30), <1>0, <2>1, TakeFacts DEF TaskPlacement
      <3> QED BY ZenonT(30), <1>0, <1>4, <2>1, <3>1 DEF TakeTask
    <2>2. CASE \E t \in AnyTask : fate[t] = "new" /\ PushTask(t)
      BY <1>0, <1>4, <2>2 DEF PushTask
    <2>3. CASE fate' = fate
      BY ZenonT(30), <1>0, <1>4, <2>3
    <2> QED BY ZenonT(30), <1>0, <1>4, <2>1, <2>2, <2>3, TaskFrame DEF StartTask, Steal
  <1> QED BY ZenonT(30), <1>1, <1>2, <1>3, <1>4

\* The main fiber leaves the loop with nothing left to do.
LEMMA ExitDrained ==
    ASSUME IInv, TaskInv, WakeInv, pc = "runExit", current = 0
    PROVE  /\ shutdown /\ fibers = <<>> /\ tasks = <<>> /\ timeouts = {}
           /\ \A f \in Fiber : running[f] = NoTask /\ state[f] \in {"none", "Idle", "Running"}
           /\ Thieves \/ \A t \in AnyTask : fate[t] \in {"new", "done"}
  <1>1. /\ TypeOK /\ ~KeepRunning /\ num \in Nat /\ numBlocked \in Nat
        /\ fibers \in Seq(Fiber) /\ tasks \in Seq(AnyTask)
        /\ num = Len(fibers) + Len(tasks) /\ CountersInSync
        /\ state \in [Fiber -> State]
        /\ \A f \in Fiber : Placed(f)
    BY ZenonT(30) DEF IInv, TypeOK, LoopExit, CountersInSync, FiberPlacement
  <1>2. shutdown /\ num = 0 /\ numBlocked = 0
    BY <1>1 DEF KeepRunning
  <1>3. fibers = <<>> /\ tasks = <<>>
    <2>1. Len(fibers) \in Nat /\ Len(tasks) \in Nat
      BY <1>1
    <2>2. Len(fibers) = 0 /\ Len(tasks) = 0
      BY <1>1, <1>2, <2>1
    <2> QED BY <1>1, <2>2
  <1>4. \A f \in Fiber : stack[f] # "suspend"
    BY <1>1, <1>2, BlockedFibers
  <1>5. \A f \in Fiber : ~InWait(f)
    BY ZenonT(30), <1>4 DEF InWait, InSuspend
  <1>6. \A f \in Fiber : running[f] = NoTask
    BY ZenonT(30), <1>5 DEF TaskInv
  <1>7. \A f \in Fiber : state[f] \in {"none", "Idle", "Running"}
    BY <1>1, <1>4 DEF Placed, InSuspend, State
  <1>8. timeouts = {}
    BY ZenonT(30), <1>7 DEF IInv, WaitingInSync
  <1>9. ASSUME ~Thieves, NEW t \in AnyTask PROVE fate[t] \in {"new", "done"}
    <2>1. fate[t] \in {"new", "queued", "running", "done", "stolen"}
      BY ZenonT(30), <1>1 DEF TypeOK
    <2>2. fate[t] # "queued"
      BY <1>3 DEF TaskInv, TaskPlacement, In
    <2>3. fate[t] # "running"
      BY ZenonT(30), <1>6, TaskAssumption DEF TaskInv, TaskPlacement, AnyTask
    <2>4. fate[t] # "stolen"
      BY <1>9 DEF WakeInv
    <2> QED BY ZenonT(30), <2>1, <2>2, <2>3, <2>4
  <1> QED BY ZenonT(30), <1>2, <1>3, <1>6, <1>7, <1>8, <1>9

\* Nobody enters a stopped worker, apart from the tasks of other workers.
LEMMA DrainedStep ==
    ASSUME IInv, TaskInv, WakeInv, [Next]_vars
    PROVE  StoppedMeansDrained' /\ (pc' = "done" => shutdown')
  <1>0. /\ TypeOK /\ ret \in Return /\ current \in Fiber
        /\ state[current] \in CurrentState /\ Placed(current)
        /\ \A f \in Fiber : Placed(f)
        /\ Thieves' = Thieves
    BY ZenonT(30), ModeFrame DEF IInv, TypeOK, FiberPlacement
  <1>1. SUFFICES ASSUME pc' = "done"
                 PROVE  StoppedMeansDrained' /\ shutdown'
    BY DEF StoppedMeansDrained
  <1>2. shutdown => shutdown'
    BY ShutdownStep
  <1>3. \/ RunExit
        \/ pc = "done" /\ \/ UNCHANGED <<fibers, tasks, timeouts, running, state, fate>>
                          \/ \E f \in Fiber : Notify(f)
                          \/ \E t \in AnyTask : EnqueueTask(t)
                          \/ Steal \/ ThiefRunsStop
    <2>1. ASSUME ThreadStep \/ ThreadMay PROVE RunExit
      <3>1. AfterWait # "done" /\ ret # "done" /\ pc' = "done"
        BY ZenonT(30), <1>0, <1>1 DEF AfterWait, Return
      <3> QED BY ZenonT(30), <2>1, <3>1 DEF ThreadStep, ThreadMay, WorkWait, Wake, SpuriousWake,
        WorkWaitReturns, WakeTimeout, Run, RunUntilShutdown, WaitForWork, SpinForWork,
        SpinAndSteal, Relock, EnqueueFiberTimeouts, ResumeFiber, AfterIdle, StartTask,
        NothingToDo, SwitchToQueued, SwitchToIdle, SwitchToNew, AfterSwitch, Resumption,
        TaskReturns, BeginWait, Suspend, WaitReturnsTrue, WaitTimesOut, EndWait, WaitAgain, Stop
    <2>2. \/ ThreadStep \/ ThreadMay
          \/ pc' = pc /\ \/ UNCHANGED <<fibers, tasks, timeouts, running, state, fate>>
                         \/ \E f \in Fiber : Notify(f)
                         \/ \E t \in AnyTask : EnqueueTask(t)
                         \/ Steal \/ ThiefRunsStop
      BY ZenonT(30) DEF vars, fiberVars, queueVars, waitVars, envVars, Next, Satisfy, Notify, EnqueueTask,
             Steal, ThiefRunsStop, NotifyOne, Tick
    <2> QED BY ZenonT(30), <1>1, <2>1, <2>2
  <1>4. CASE RunExit
    <2>1. pc = "runExit" /\ current = 0
      BY ZenonT(30), <1>1, <1>4 DEF RunExit, Resumption
    <2>2. UNCHANGED <<fibers, tasks, timeouts, running, state, fate>>
      BY ZenonT(30), <1>4 DEF RunExit, queueVars, waitVars, envVars
    <2> QED BY ZenonT(30), <1>0, <1>2, <2>1, <2>2, ExitDrained DEF StoppedMeansDrained
  <1>5. ASSUME pc = "done"
        PROVE  /\ shutdown /\ fibers = <<>> /\ timeouts = {}
               /\ \A f \in Fiber : running[f] = NoTask /\ state[f] \in {"none", "Idle", "Running"}
               /\ Thieves \/ (tasks = <<>> /\ \A t \in AnyTask : fate[t] \in {"new", "done"})
    BY ZenonT(30), <1>5 DEF TaskInv, StoppedMeansDrained
  <1>6. CASE pc = "done" /\ UNCHANGED <<fibers, tasks, timeouts, running, state, fate>>
    BY ZenonT(30), <1>0, <1>2, <1>5, <1>6 DEF StoppedMeansDrained
  <1>7. ASSUME pc = "done", NEW f \in Fiber, Notify(f) PROVE FALSE
    BY ZenonT(30), <1>0, <1>5, <1>7 DEF Notify, InWait, InSuspend, Placed
  <1>8. ASSUME pc = "done", NEW t \in AnyTask, EnqueueTask(t)
        PROVE  StoppedMeansDrained' /\ shutdown'
    <2>1. Thieves
      BY ZenonT(30), <1>5, <1>8 DEF EnqueueTask, TaskInv
    <2>2. UNCHANGED <<fibers, timeouts, running, state>>
      BY ZenonT(30), <1>8 DEF EnqueueTask, fiberVars, waitVars
    <2> QED BY ZenonT(30), <1>0, <1>2, <1>5, <1>8, <2>1, <2>2 DEF StoppedMeansDrained
  <1>9. CASE pc = "done" /\ (Steal \/ ThiefRunsStop)
    <2>1. Thieves
      BY ZenonT(30), <1>9 DEF Steal, ThiefRunsStop, WakeInv, AnyTask
    <2>2. UNCHANGED <<fibers, timeouts, running, state>>
      BY <1>9 DEF Steal, ThiefRunsStop, fiberVars, waitVars, queueVars
    <2> QED BY ZenonT(30), <1>0, <1>2, <1>5, <1>9, <2>1, <2>2 DEF StoppedMeansDrained
  <1> QED BY ZenonT(30), <1>3, <1>4, <1>6, <1>7, <1>8, <1>9

\* WakeInv and TaskInv together are inductive, given IInv.
THEOREM TaskInvariance == Spec => [](WakeInv /\ TaskInv)
  <1>1. Init => WakeInv /\ TaskInv
    <2>1. ASSUME Init PROVE TaskPlacement
      <3>1. In(tasks) = {} /\ NoDuplicates(tasks)
        BY <2>1 DEF Init, In, NoDuplicates
      <3> QED BY ZenonT(30), <2>1, <3>1, TaskAssumption DEF Init, TaskPlacement, AnyTask
    <2> QED BY ZenonT(30), <2>1 DEF Init, WakeInv, NoLostWakeup, TaskInv, StoppedMeansDrained
  <1>2. IInv /\ WakeInv /\ TaskInv /\ [Next]_vars => WakeInv' /\ TaskInv'
    <2>1. ASSUME IInv, WakeInv, TaskInv, [Next]_vars PROVE TaskInv'
      <3>1. TaskPlacement' /\ StoppedMeansDrained' /\ (pc' = "done" => shutdown')
        BY ZenonT(30), <2>1, TaskPlacementStep, DrainedStep
      <3>2. ASSUME NEW f \in Fiber, running'[f] # NoTask
            PROVE  InWait(f)' \/ (f = current' /\ pc' = "task")
        BY ZenonT(30), <2>1, <3>2, OnStackStep
      <3>3. (MultiThreaded /\ ~Thieves /\ shutdown => fate[StopTask] = "done")'
        BY ZenonT(30), <2>1, ShutdownStep, ModeFrame
      <3> QED BY ZenonT(30), <3>1, <3>2, <3>3 DEF TaskInv
    <2> QED BY ZenonT(30), <2>1, WakeStep
  <1> QED BY <1>1, <1>2, Invariance, PTL DEF Spec

\* Every task is queued, running, finished or stolen, and never two of these.
THEOREM TaskPlacementCorrect == Spec => []TaskPlacement
  <1>1. WakeInv /\ TaskInv => TaskPlacement
    BY DEF TaskInv
  <1> QED BY <1>1, TaskInvariance, PTL

\* A worker stops only when every task it was given has run to its end.
THEOREM DrainedCorrect == Spec => []StoppedMeansDrained
  <1>1. WakeInv /\ TaskInv => StoppedMeansDrained
    BY DEF TaskInv
  <1> QED BY <1>1, TaskInvariance, PTL

-----------------------------------------------------------------------------
\* The refinement of FiberScheduler: its variables as the worker has them.

Runs    == IF InSuspend THEN Nobody ELSE current
Blocked == {f \in Fiber : state[f] \in {"Yielded", "Waiting"}}
Pool    == idleFibers \ {current}

\* What is known of the fibers before a step, in the form the refinement uses:
\* the current fiber is in the pool of nobody unless the main fiber retires.
LEMMA RefinementFacts ==
    ASSUME IInv
    PROVE  /\ state \in [Fiber -> State] /\ current \in Fiber /\ current # Nobody
           /\ workerFibers \in 0..MaxFibers
           /\ state[current] \in CurrentState
           /\ current \in idleFibers => Retiring
           /\ \A f \in Fiber : Placed(f)
  <1>1. current # Nobody
    <2>1. current \in 0..MaxFibers /\ MaxFibers \in Nat
      BY BoundAssumption DEF IInv, TypeOK, Fiber
    <2> QED BY <2>1 DEF Nobody
  <1> QED BY ZenonT(30), <1>1, PlacementFacts DEF IInv, FiberPlacement

\* suspend() blocks the fiber that runs.
LEMMA SuspendBlocks ==
    ASSUME IInv, Suspend
    PROVE  FS!Block
  <1>1. /\ pc \in {"bareWait", "waitTest"} /\ pc' = "waitForWork" /\ ret' = "switch"
        /\ \/ state' = [state EXCEPT ![current] = "Waiting"]
           \/ state' = [state EXCEPT ![current] = "Yielded"]
        /\ UNCHANGED <<current, idleFibers, workerFibers, fibers>>
    BY DEF Suspend, MustSuspend, poolVars, queueVars
  <1>2. ~InSuspend /\ InSuspend'
    BY ZenonT(30), <1>1 DEF InSuspend
  <1>3. Runs = current /\ Runs' = Nobody
    BY ZenonT(30), <1>2 DEF Runs, Nobody
  <1>4. Blocked' = Blocked \cup {current}
    BY <1>1, RefinementFacts DEF Blocked
  <1>5. Pool' = Pool
    BY ZenonT(30), <1>1 DEF Pool
  <1>6. current # Nobody
    BY RefinementFacts
  <1> QED BY ZenonT(30), <1>1, <1>3, <1>4, <1>5, <1>6 DEF FS!Block, FS!Nobody, Nobody, Runs, Blocked, Pool

\* Queueing a suspended fiber wakes it.
LEMMA PushWakes ==
    ASSUME IInv, NEW g \in Fiber, state[g] \in {"Yielded", "Waiting"}, PushFiber(g),
           UNCHANGED <<current, idleFibers, workerFibers>>, InSuspend' <=> InSuspend
    PROVE  FS!Wake(g)
  <1>1. fibers' = Append(fibers, g) /\ state' = [state EXCEPT ![g] = "Queued"]
    BY DEF PushFiber
  <1>2. Blocked' = Blocked \ {g} /\ g \in Blocked
    BY <1>1, RefinementFacts DEF Blocked
  <1>3. Runs' = Runs /\ Pool' = Pool
    BY ZenonT(30) DEF Runs, Pool, Nobody
  <1> QED BY ZenonT(30), <1>1, <1>2, <1>3 DEF FS!Wake, Nobody, Runs, Blocked, Pool

\* A step that leaves the fibers and the thread's place alone is not visible.
LEMMA QuietIsHidden ==
    ASSUME IInv, UNCHANGED <<current, idleFibers, workerFibers, fibers>>,
           InSuspend' <=> InSuspend, Blocked' = Blocked
    PROVE  UNCHANGED FS!vars
  <1>1. Runs' = Runs /\ Pool' = Pool
    BY ZenonT(30) DEF Runs, Pool, Nobody
  <1> QED BY ZenonT(30), <1>1 DEF FS!vars, Nobody, Runs, Blocked, Pool

\* runUntilIdle() leaves the current fiber to the pool for the fiber that was
\* woken first.
LEMMA ResumeFiberResumes ==
    ASSUME IInv, ResumeFiber
    PROVE  FS!Resume
  <1>1. /\ fibers # <<>> /\ fibers' = Tail(fibers) /\ pc = "runUntilIdle"
        /\ current' = Head(fibers) /\ idleFibers' = idleFibers \cup {current}
        /\ state' = [state EXCEPT ![current] = "Idle"]
        /\ workerFibers' = workerFibers /\ pc' = Resumption(Head(fibers))
    BY ZenonT(30) DEF ResumeFiber, TakeFiber
  <1>2. Head(fibers) \in Fiber /\ state[Head(fibers)] = "Queued"
    BY <1>1, PlacementFacts
  <1>3. ~InSuspend /\ ~InSuspend'
    BY ZenonT(30), <1>1 DEF InSuspend, Resumption
  <1>4. state[current] = "Running" /\ current # Head(fibers)
    BY ZenonT(30), <1>1, <1>2, <1>3, RefinementFacts DEF CurrentState
  <1>5. Head(fibers) \notin idleFibers
    BY ZenonT(30), <1>2, <1>4, RefinementFacts DEF Placed
  <1>6. Runs = current /\ Runs' = Head(fibers) /\ current # Nobody
    BY ZenonT(30), <1>1, <1>3, RefinementFacts DEF Runs
  <1>7. Blocked' = Blocked
    BY <1>1, <1>4, RefinementFacts DEF Blocked
  <1>8. Pool' = Pool \cup {current}
    BY ZenonT(30), <1>1, <1>4, <1>5 DEF Pool
  <1> QED BY ZenonT(30), <1>1, <1>6, <1>7, <1>8 DEF FS!Resume, FS!Nobody, Nobody, Runs, Blocked, Pool

\* suspend() switches to the fiber that was woken first, which may be its own.
LEMMA SwitchToQueuedResumes ==
    ASSUME IInv, SwitchToQueued
    PROVE  FS!Resume
  <1>1. /\ fibers # <<>> /\ fibers' = Tail(fibers) /\ pc = "switch"
        /\ current' = Head(fibers) /\ UNCHANGED <<state, idleFibers, workerFibers>>
        /\ pc' \in {"afterSwitch", "afterIdle"}
    BY ZenonT(30) DEF SwitchToQueued, TakeFiber, Resumption
  <1>2. Head(fibers) \in Fiber /\ state[Head(fibers)] = "Queued"
    BY <1>1, PlacementFacts
  <1>3. InSuspend /\ ~InSuspend'
    BY ZenonT(30), <1>1 DEF InSuspend
  <1>4. current \notin idleFibers
    BY ZenonT(30), <1>1, RefinementFacts DEF Retiring
  <1>5. Head(fibers) \notin idleFibers
    BY ZenonT(30), <1>2, <1>4, RefinementFacts DEF Placed
  <1>6. Runs = Nobody /\ Runs' = Head(fibers)
    BY ZenonT(30), <1>1, <1>3 DEF Runs
  <1>7. Blocked' = Blocked
    BY ZenonT(30), <1>1 DEF Blocked
  <1>8. Pool' = Pool
    BY ZenonT(30), <1>1, <1>4, <1>5 DEF Pool
  <1> QED BY ZenonT(30), <1>1, <1>6, <1>7, <1>8 DEF FS!Resume, FS!Nobody, Nobody, Runs, Blocked, Pool

\* suspend() switches to a pooled fiber when no fiber was woken ...
LEMMA SwitchToIdleReuses ==
    ASSUME IInv, NEW g \in Fiber, SwitchToIdle(g)
    PROVE  FS!Reuse(g)
  <1>1. /\ fibers = <<>> /\ pc = "switch" /\ g \in idleFibers
        /\ current' = g /\ idleFibers' = idleFibers \ {g}
        /\ UNCHANGED <<state, fibers, workerFibers>>
        /\ pc' \in {"afterSwitch", "afterIdle"}
    BY ZenonT(30) DEF SwitchToIdle, Resumption, queueVars
  <1>2. InSuspend /\ ~InSuspend'
    BY ZenonT(30), <1>1 DEF InSuspend
  <1>3. current \notin idleFibers
    BY ZenonT(30), <1>1, RefinementFacts DEF Retiring
  <1>4. Runs = Nobody /\ Runs' = g
    BY ZenonT(30), <1>1, <1>2 DEF Runs
  <1>5. Blocked' = Blocked
    BY ZenonT(30), <1>1 DEF Blocked
  <1>6. g \in Pool /\ Pool' = Pool \ {g}
    BY ZenonT(30), <1>1, <1>3 DEF Pool
  <1> QED BY ZenonT(30), <1>1, <1>4, <1>5, <1>6 DEF FS!Reuse, FS!Nobody, Nobody, Runs, Blocked, Pool

\* ... and to a new one when the pool is empty.
LEMMA SwitchToNewCreates ==
    ASSUME IInv, SwitchToNew
    PROVE  FS!Create
  <1>1. /\ pc = "switch" /\ workerFibers < MaxFibers /\ idleFibers = {} /\ fibers = <<>>
        /\ workerFibers' = workerFibers + 1 /\ current' = workerFibers + 1
        /\ state' = [state EXCEPT ![workerFibers + 1] = "Running"]
        /\ UNCHANGED <<idleFibers, fibers>> /\ pc' = "run"
    BY ZenonT(30) DEF SwitchToNew, queueVars
  <1>2. InSuspend /\ ~InSuspend'
    BY ZenonT(30), <1>1 DEF InSuspend
  <1>3. /\ workerFibers + 1 \in Fiber /\ workerFibers + 1 > workerFibers
    BY <1>1, RefinementFacts, BoundAssumption DEF Fiber
  <1>4. state[workerFibers + 1] = "none"
    BY ZenonT(30), <1>3, RefinementFacts DEF Placed
  <1>5. Runs = Nobody /\ Runs' = workerFibers + 1
    BY ZenonT(30), <1>1, <1>2 DEF Runs
  <1>6. Blocked' = Blocked
    BY <1>1, <1>3, <1>4, RefinementFacts DEF Blocked
  <1>7. Pool = {} /\ Pool' = {}
    BY ZenonT(30), <1>1 DEF Pool
  <1> QED BY ZenonT(30), <1>1, <1>5, <1>6, <1>7 DEF FS!Create, FS!Nobody, Nobody, Runs, Blocked, Pool

\* A fiber that leaves run() goes back to the main fiber, which is in the pool,
\* and no fiber is suspended or woken: the loop condition counts them.
LEMMA RunExitRetires ==
    ASSUME IInv, RunExit
    PROVE  FS!Retire \/ UNCHANGED FS!vars
  <1>1. /\ pc = "runExit" /\ ~KeepRunning
        /\ UNCHANGED <<state, idleFibers, workerFibers, fibers>>
    BY ZenonT(30) DEF RunExit, IInv, LoopExit, queueVars
  <1>2. Blocked' = Blocked /\ ~InSuspend
    BY ZenonT(30), <1>1 DEF Blocked, InSuspend
  <1>3. CASE current = 0
    <2>1. current' = current /\ pc' = "done"
      BY ZenonT(30), <1>3 DEF RunExit
    <2>2. ~InSuspend'
      BY ZenonT(30), <2>1 DEF InSuspend
    <2> QED BY ZenonT(30), <1>1, <1>2, <2>1, <2>2, QuietIsHidden
  <1>4. CASE current # 0
    <2>1. current' = 0 /\ pc' \in {"afterSwitch", "afterIdle"}
      BY ZenonT(30), <1>4 DEF RunExit, Resumption
    <2>2. ~InSuspend'
      BY ZenonT(30), <2>1 DEF InSuspend
    <2>3. numBlocked = 0 /\ num = 0 /\ num = Len(fibers) + Len(tasks)
      BY <1>1 DEF KeepRunning, IInv, TypeOK, CountersInSync
    <2>4. fibers = <<>>
      BY <2>3, TakeFacts DEF IInv, TypeOK
    <2>5. \A f \in Fiber : stack[f] # "suspend"
      <3>1. ~(numBlocked > 0)
        BY <2>3
      <3> QED BY ZenonT(30), <3>1, BlockedFibers DEF IInv
    <2>6. Blocked = {}
      BY ZenonT(30), <1>2, <2>5, RefinementFacts DEF Placed, Blocked
    <2>7. state[current] = "Running" /\ current \notin idleFibers
      BY ZenonT(30), <1>1, <1>2, <1>4, RefinementFacts DEF CurrentState, Retiring
    <2>8. 0 \in idleFibers
      <3>1. 0 \in Fiber /\ ~(0 > workerFibers)
        BY PlacementFacts
      <3>2. 0 \notin In(fibers)
        BY <2>4 DEF In
      <3>3. state[0] \in State /\ stack[0] # "exited"
        BY ZenonT(30), <3>1, PlacementFacts DEF IInv, LoopExit
      <3> QED BY ZenonT(30), <1>1, <1>2, <1>4, <2>5, <3>1, <3>2, <3>3, RefinementFacts
              DEF Placed, State
    <2>9. Runs = current /\ Runs' = 0 /\ current # Nobody
      BY ZenonT(30), <1>2, <2>1, <2>2, RefinementFacts DEF Runs
    <2>10. 0 \in Pool /\ Pool' = Pool \ {0}
      BY ZenonT(30), <1>1, <1>4, <2>1, <2>7, <2>8 DEF Pool
    <2> QED BY ZenonT(30), <1>1, <1>2, <1>4, <2>4, <2>6, <2>9, <2>10
            DEF FS!Retire, FS!Nobody, Nobody, Runs, Blocked, Pool
  <1> QED BY ZenonT(30), <1>3, <1>4

\* A fiber that was switched back to is marked as running: it was Queued or
\* Idle, and nothing of that is visible.
LEMMA ReturnIsHidden ==
    ASSUME IInv, AfterIdle \/ AfterSwitch
    PROVE  UNCHANGED FS!vars
  <1>1. /\ pc \in {"afterIdle", "afterSwitch"} /\ pc' \in {"runUntilIdle", "reacquire"}
        /\ state' = [state EXCEPT ![current] = "Running"]
        /\ UNCHANGED <<current, idleFibers, workerFibers, fibers>>
    BY ZenonT(30) DEF AfterIdle, AfterSwitch, poolVars, queueVars
  <1>2. ~InSuspend /\ ~InSuspend'
    BY ZenonT(30), <1>1 DEF InSuspend
  <1>3. state[current] \in {"Idle", "Queued"}
    BY ZenonT(30), <1>1, <1>2, RefinementFacts DEF CurrentState
  <1>4. Blocked' = Blocked
    BY <1>1, <1>3, RefinementFacts DEF Blocked
  <1> QED BY ZenonT(30), <1>1, <1>2, <1>4, QuietIsHidden

\* enqueueFiberTimeouts() wakes the fiber whose time has come.
LEMMA TimeoutWakes ==
    ASSUME IInv, EnqueueFiberTimeouts
    PROVE  (\E f \in Fiber : FS!Wake(f)) \/ UNCHANGED FS!vars
  <1>1. /\ pc = "enqueueFiberTimeouts" /\ ret' = ret /\ ret \in Return
        /\ UNCHANGED <<current, idleFibers, workerFibers>>
    BY ZenonT(30) DEF EnqueueFiberTimeouts, poolVars, IInv, TypeOK
  <1>2. CASE pc' = ret /\ UNCHANGED <<state, fibers>>
    <2>1. InSuspend' <=> InSuspend
      BY ZenonT(30), <1>1, <1>2 DEF InSuspend, Return
    <2>2. Blocked' = Blocked
      BY ZenonT(30), <1>2 DEF Blocked
    <2> QED BY ZenonT(30), <1>1, <1>2, <2>1, <2>2, QuietIsHidden
  <1>3. ASSUME NEW t \in timeouts, PushFiber(t.fiber), pc' = pc
        PROVE  \E f \in Fiber : FS!Wake(f)
    <2>1. t.fiber \in Fiber /\ state[t.fiber] = "Waiting"
      <3>1. WaitingInSync
        BY ZenonT(30) DEF IInv
      <3>2. PICK f \in Fiber : t = [timepoint |-> waitFibers[f], fiber |-> f] /\ waitFibers[f] # Never
        BY ZenonT(30), <3>1 DEF WaitingInSync
      <3>3. t.fiber = f
        BY <3>2
      <3> QED BY ZenonT(30), <3>1, <3>2, <3>3 DEF WaitingInSync
    <2>2. InSuspend' <=> InSuspend
      BY ZenonT(30), <1>1, <1>3 DEF InSuspend
    <2>3. FS!Wake(t.fiber)
      BY ZenonT(30), <1>1, <1>3, <2>1, <2>2, PushWakes
    <2> QED BY ZenonT(30), <2>1, <2>3
  <1> QED BY ZenonT(30), <1>2, <1>3 DEF EnqueueFiberTimeouts

\* Fiber::notify() wakes a suspended fiber and leaves any other alone.
LEMMA NotifyWakes ==
    ASSUME IInv, NEW g \in Fiber, Notify(g)
    PROVE  FS!Wake(g) \/ UNCHANGED FS!vars
  <1>1. /\ UNCHANGED <<stack, current, idleFibers, workerFibers, pc, ret>>
        /\ pc \notin Held
    BY ZenonT(30) DEF Notify, MutexFree, poolVars
  <1>2. InSuspend' <=> InSuspend
    BY ZenonT(30), <1>1 DEF InSuspend
  <1>3. CASE AwakeAlready(g)
    <2>1. UNCHANGED <<state, fibers>>
      BY ZenonT(30), <1>3 DEF Notify, EnqueueFiber, queueVars
    <2>2. Blocked' = Blocked
      BY ZenonT(30), <2>1 DEF Blocked
    <2> QED BY ZenonT(30), <1>1, <1>2, <2>1, <2>2, QuietIsHidden
  <1>4. CASE ~AwakeAlready(g)
    <2>1. PushFiber(g) /\ InWait(g)
      BY ZenonT(30), <1>4 DEF Notify, EnqueueFiber
    <2>2. state[g] \in {"Yielded", "Waiting"}
      BY ZenonT(30), <1>1, <1>4, <2>1, RefinementFacts
         DEF InWait, AwakeAlready, CurrentState, Placed, Held
    <2> QED BY ZenonT(30), <1>1, <1>2, <2>1, <2>2, PushWakes
  <1> QED BY ZenonT(30), <1>3, <1>4

\* Every step of the worker is a step of FiberScheduler or hidden from it.
LEMMA RefinementStep ==
    ASSUME IInv, [Next]_vars
    PROVE  [FS!Next]_(FS!vars)
  <1>1. \/ UNCHANGED <<state, current, idleFibers, workerFibers, fibers>>
        \/ EnqueueFiberTimeouts \/ ResumeFiber \/ AfterIdle
        \/ SwitchToQueued \/ SwitchToNew \/ AfterSwitch \/ RunExit \/ Suspend
        \/ \E f \in Fiber : SwitchToIdle(f) \/ Notify(f)
    BY ZenonT(30) DEF fiberVars, poolVars, queueVars, PushTask, TakeTask,
      Next, ThreadStep, ThreadMay, vars, WorkWait, Wake, SpuriousWake,
      WakeTimeout, Run, RunUntilShutdown, WaitForWork, SpinForWork, SpinAndSteal,
      Relock, StartTask, NothingToDo, TaskReturns,
      BeginWait, WaitReturnsTrue, WaitTimesOut, EndWait, WaitAgain, Stop,
      Satisfy, EnqueueTask, NotifyOne, Steal, ThiefRunsStop, Tick
  <1>2. \/ InSuspend' <=> InSuspend
        \/ EnqueueFiberTimeouts \/ ResumeFiber \/ AfterIdle
        \/ SwitchToQueued \/ SwitchToNew \/ AfterSwitch \/ RunExit \/ Suspend
        \/ \E f \in Fiber : SwitchToIdle(f) \/ Notify(f)
    <2>1. ret \in Return
      BY DEF IInv, TypeOK
    <2> QED BY ZenonT(30), <2>1 DEF InSuspend, Return, WorkWaitReturns, AfterWait,
      Next, ThreadStep, ThreadMay, vars, WorkWait, Wake, SpuriousWake,
      WakeTimeout, Run, RunUntilShutdown, WaitForWork, SpinForWork, SpinAndSteal,
      Relock, StartTask, NothingToDo, TaskReturns,
      BeginWait, WaitReturnsTrue, WaitTimesOut, EndWait, WaitAgain, Stop,
      Satisfy, EnqueueTask, NotifyOne, Steal, ThiefRunsStop, Tick
  <1>3. CASE (InSuspend' <=> InSuspend) /\ UNCHANGED <<state, current, idleFibers, workerFibers, fibers>>
    <2>1. Blocked' = Blocked
      BY ZenonT(30), <1>3 DEF Blocked
    <2> QED BY ZenonT(30), <1>3, <2>1, QuietIsHidden
  <1>4. \A f \in Fiber : f \in FS!Fiber
    BY DEF Fiber, FS!Fiber
  <1>5. ASSUME NEW f \in Fiber, SwitchToIdle(f) \/ Notify(f) PROVE [FS!Next]_(FS!vars)
    <2>1. FS!Reuse(f) \/ FS!Wake(f) \/ UNCHANGED FS!vars
      BY ZenonT(30), <1>5, SwitchToIdleReuses, NotifyWakes
    <2> QED BY ZenonT(30), <1>4, <2>1 DEF FS!Next
  <1>6. CASE EnqueueFiberTimeouts
    BY ZenonT(30), <1>4, <1>6, TimeoutWakes DEF FS!Next
  <1>7. CASE ResumeFiber \/ SwitchToQueued \/ SwitchToNew \/ RunExit \/ Suspend \/ AfterIdle \/ AfterSwitch
    <2>1. FS!Resume \/ FS!Create \/ FS!Retire \/ FS!Block \/ UNCHANGED FS!vars
      BY ZenonT(30), <1>7, ResumeFiberResumes, SwitchToQueuedResumes, SwitchToNewCreates,
         RunExitRetires, SuspendBlocks, ReturnIsHidden
    <2> QED BY ZenonT(30), <2>1 DEF FS!Next
  <1> QED BY ZenonT(30), <1>1, <1>2, <1>3, <1>5, <1>6, <1>7

\* The worker implements FiberScheduler, for every number of fibers, tasks,
\* timeouts and notifying threads.
THEOREM RefinesFiberScheduler == Spec => ImplementsFiberScheduler
  <1>1. Init => FS!Init
    <2> SUFFICES ASSUME Init PROVE FS!Init
      OBVIOUS
    <2>1. Runs = 0
      BY ZenonT(30) DEF Init, Runs, InSuspend
    <2>2. Blocked = {}
      BY DEF Init, Blocked
    <2>3. Pool = {}
      BY ZenonT(30) DEF Init, Pool
    <2> QED BY ZenonT(30), <2>1, <2>2, <2>3 DEF Init, FS!Init, Runs, Blocked, Pool, Nobody
  <1>2. IInv /\ [Next]_vars => [FS!Next]_(FS!vars)
    BY RefinementStep
  <1> QED BY <1>1, <1>2, Invariance, PTL DEF Spec, ImplementsFiberScheduler, FS!Spec
=============================================================================
