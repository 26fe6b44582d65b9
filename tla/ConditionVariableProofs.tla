---------------------- MODULE ConditionVariableProofs -----------------------
(***************************************************************************)
(* Lemmas about the steps of ConditionVariable, whoever takes them, for any *)
(* number of fibers and threads: the counters and waiting_ agree with who  *)
(* waits, and a notifier gets to everybody it is to wake.  The clients add *)
(* what their own steps do to the predicate: WaitGroupProofs, EventProofs. *)
(***************************************************************************)
EXTENDS ConditionVariable, FiniteSetTheorems, TLAPS

WaitLoc  == {"enter", "loop", "suspend", "suspended", "exit", "uncount"}
EnterLoc == {"loop", "suspend", "suspended", "exit"}
LockLoc  == {"enter", "loop", "suspend", "exit", "uncount", "returned"}
Loc      == WaitLoc \cup {"out", "returned", "notifyOne", "oneThread", "notifyAll", "fibers",
                          "allThreads", "notified"}

CVTypeOK ==
    /\ lock \in Caller \cup {NoOne}
    /\ mutex \in Caller \cup {NoOne}
    /\ numWaiting \in Nat
    /\ onCondition \in Nat
    /\ waiting \in Seq(Fiber)
    /\ pc \in [Caller -> Loc]
    /\ timed \subseteq Caller
    /\ late \subseteq Caller
    /\ woken \subseteq Caller
    /\ result \in [Caller -> BOOLEAN]
    /\ todo \in Seq(Fiber)

Injective(s) == \A i, j \in 1..Len(s) : s[i] = s[j] => i = j

\* Who is inside wait() holds the lock unless suspended, who walks through
\* waiting_ holds mutex_, and only the suspended are woken.
CVControl ==
    /\ \A p \in Caller : pc[p] \in LockLoc => lock = p
    /\ \A p \in Caller : pc[p] = "fibers" <=> mutex = p
    /\ mutex = NoOne => todo = <<>>
    /\ \A p \in woken : pc[p] = "suspended"

CVInv == CVTypeOK /\ CVControl /\ WaitersCounted /\ Injective(waiting)

-----------------------------------------------------------------------------
\* Lists of fibers.

\* emplace_front() adds a fiber that is not in the list.
LEMMA Prepended ==
    ASSUME NEW s \in Seq(Fiber), NEW f \in Fiber
    PROVE  LET r == <<f>> \o s IN
           /\ r \in Seq(Fiber)
           /\ Len(r) = Len(s) + 1
           /\ Elements(r) = Elements(s) \cup {f}
           /\ Injective(s) /\ f \notin Elements(s) => Injective(r)
<1> DEFINE r == <<f>> \o s
<1>1. /\ r \in Seq(Fiber) /\ Len(r) = Len(s) + 1
      /\ r[1] = f
      /\ \A i \in 1..Len(s) : r[i + 1] = s[i]
    OBVIOUS
<1>2. \A i \in 2..Len(r) : r[i] = s[i - 1] /\ i - 1 \in 1..Len(s)
    BY <1>1
<1> HIDE DEF r
<1>3. Elements(r) = Elements(s) \cup {f}
  <2>1. \A i \in 1..Len(s) : s[i] \in Elements(r)
    <3>1. \A i \in 1..Len(s) : i + 1 \in 1..Len(r) /\ r[i + 1] = s[i]
        BY <1>1
    <3> QED
        BY <3>1 DEF Elements
  <2>2. f \in Elements(r)
    <3>1. 1 \in 1..Len(r) /\ r[1] = f
        BY <1>1
    <3> QED
        BY <3>1 DEF Elements
  <2>3. \A i \in 1..Len(r) : i = 1 \/ i \in 2..Len(r)
      BY <1>1
  <2>4. Elements(r) \subseteq Elements(s) \cup {f}
      BY <1>1, <1>2, <2>3 DEF Elements
  <2> QED
      BY ZenonT(30), <2>1, <2>2, <2>4 DEF Elements
<1>4. ASSUME Injective(s), f \notin Elements(s) PROVE Injective(r)
    BY <1>1, <1>2, <1>4 DEF Injective, Elements
<1> QED
    BY <1>1, <1>3, <1>4 DEF r

\* erase() takes out one fiber and keeps the others.
LEMMA ErasedList ==
    ASSUME NEW s \in Seq(Fiber), NEW i \in 1..Len(s), Injective(s)
    PROVE  LET r == Erased(s, i) IN
           /\ r \in Seq(Fiber)
           /\ Len(r) = Len(s) - 1
           /\ Elements(r) = Elements(s) \ {s[i]}
           /\ Injective(r)
<1> DEFINE r == Erased(s, i)
<1>1. /\ r \in Seq(Fiber) /\ Len(r) = Len(s) - 1
      /\ \A j \in 1..Len(r) : r[j] = IF j < i THEN s[j] ELSE s[j + 1]
    BY DEF Erased
<1> HIDE DEF r
<1>2. Elements(r) \subseteq Elements(s) \ {s[i]}
    BY <1>1 DEF Elements, Injective
<1>3. ASSUME NEW j \in 1..Len(s), j # i PROVE s[j] \in Elements(r)
  <2>1. CASE j < i
    <3>1. j \in 1..Len(r) /\ r[j] = s[j]
        BY <1>1, <2>1
    <3> QED
        BY <3>1 DEF Elements
  <2>2. CASE j > i
    <3>1. j - 1 \in 1..Len(r) /\ r[j - 1] = s[j]
        BY <1>1, <2>2
    <3> QED
        BY <3>1 DEF Elements
  <2> QED
      BY <1>3, <2>1, <2>2
<1>4. Elements(s) \ {s[i]} \subseteq Elements(r)
    BY <1>3 DEF Elements
<1>5. Injective(r)
    BY <1>1 DEF Injective
<1> QED
    BY <1>1, <1>2, <1>4, <1>5 DEF r

\* The loop of notify_all() leaves the front behind.
LEMMA TailList ==
    ASSUME NEW s \in Seq(Fiber), s # <<>>
    PROVE  /\ Head(s) \in Fiber
           /\ Head(s) \in Elements(s)
           /\ Tail(s) \in Seq(Fiber)
           /\ Elements(s) = Elements(Tail(s)) \cup {Head(s)}
<1>1. /\ Head(s) = s[1] /\ 1 \in 1..Len(s) /\ Head(s) \in Fiber
      /\ Tail(s) \in Seq(Fiber) /\ Len(Tail(s)) = Len(s) - 1
      /\ \A i \in 1..Len(Tail(s)) : Tail(s)[i] = s[i + 1]
    OBVIOUS
<1>2. \A i \in 2..Len(s) : s[i] = Tail(s)[i - 1] /\ i - 1 \in 1..Len(Tail(s))
    BY <1>1
<1>3. Head(s) \in Elements(s)
    BY <1>1 DEF Elements
<1>4. Elements(Tail(s)) \subseteq Elements(s)
  <2>1. \A i \in 1..Len(Tail(s)) : i + 1 \in 1..Len(s) /\ Tail(s)[i] = s[i + 1]
      BY <1>1
  <2> QED
      BY <2>1 DEF Elements
<1>5. Elements(s) \subseteq Elements(Tail(s)) \cup {Head(s)}
  <2>1. \A i \in 1..Len(s) : i = 1 \/ i \in 2..Len(s)
      BY <1>1
  <2>2. \A i \in 2..Len(s) : s[i] \in Elements(Tail(s))
      BY ZenonT(30), <1>2 DEF Elements
  <2> QED
      BY <1>1, <2>1, <2>2 DEF Elements
<1> QED
    BY <1>1, <1>3, <1>4, <1>5

-----------------------------------------------------------------------------
\* Who waits.

\* There are finitely many callers, and so finitely many that wait.
LEMMA FinitelyMany ==
    /\ IsFiniteSet(InWait)
    /\ IsFiniteSet(Entered \cap Thread)
    /\ IsFiniteSet(Entered \cap Fiber)
<1>1. IsFiniteSet(Caller)
    BY ZenonT(30), CallerAssumption, FS_Union DEF Caller
<1> QED
    BY <1>1, FS_Subset DEF InWait, Entered

\* One more, or one less.
LEMMA CountOne ==
    ASSUME NEW S, IsFiniteSet(S), NEW x
    PROVE  /\ Cardinality(S) \in Nat
           /\ x \notin S => Cardinality(S \cup {x}) = Cardinality(S) + 1
           /\ x \in S => Cardinality(S \ {x}) = Cardinality(S) - 1
           /\ x \in S => Cardinality(S) > 0
<1>1. Cardinality(S) \in Nat
    BY FS_CardinalityType
<1>2. x \notin S => Cardinality(S \cup {x}) = Cardinality(S) + 1
    BY FS_AddElement
<1>3. x \in S => Cardinality(S \ {x}) = Cardinality(S) - 1
    BY FS_RemoveElement
<1>4. x \in S => Cardinality(S) # 0
    BY FS_EmptySet
<1> QED
    BY <1>1, <1>2, <1>3, <1>4

\* How a step of p to a location changes the two sets.
LEMMA GotoSets ==
    ASSUME pc \in [Caller -> Loc], NEW p \in Caller, NEW l \in Loc, Goto(p, l)
    PROVE  /\ pc' \in [Caller -> Loc]
           /\ pc'[p] = l
           /\ \A q \in Caller \ {p} : pc'[q] = pc[q]
           /\ InWait' = IF l \in WaitLoc THEN InWait \cup {p} ELSE InWait \ {p}
           /\ Entered' = IF l \in EnterLoc THEN Entered \cup {p} ELSE Entered \ {p}
<1>1. /\ pc' \in [Caller -> Loc]
      /\ pc'[p] = l
      /\ \A q \in Caller \ {p} : pc'[q] = pc[q]
    BY DEF Goto
<1>2. InWait' = {q \in Caller : pc'[q] \in WaitLoc} /\ InWait = {q \in Caller : pc[q] \in WaitLoc}
    BY DEF InWait, WaitLoc
<1>3. Entered' = {q \in Caller : pc'[q] \in EnterLoc} /\ Entered = {q \in Caller : pc[q] \in EnterLoc}
    BY DEF Entered, EnterLoc
<1> QED
    BY <1>1, <1>2, <1>3

\* What a step has to do with the counters and waiting_ when it moves nobody
\* into wait() or out of it: nothing.
LEMMA CountedFrame ==
    ASSUME CVInv, InWait' = InWait, Entered' = Entered, UNCHANGED <<counters, waiting>>,
           Elements(todo') \subseteq Elements(waiting)
    PROVE  WaitersCounted' /\ Injective(waiting)'
<1>1. waiting' = waiting /\ numWaiting' = numWaiting /\ onCondition' = onCondition
    BY DEF counters
<1>2. Elements(waiting') = Elements(waiting) /\ Injective(waiting')
    BY <1>1 DEF CVInv
<1> QED
    BY <1>1, <1>2 DEF CVInv, WaitersCounted

-----------------------------------------------------------------------------
\* The steps of wait().

\* The first look at the predicate counts the caller, or returns.
LEMMA WaitKeeps ==
    ASSUME CVInv, NEW p \in Caller, NEW t \in BOOLEAN, NEW cond \in BOOLEAN, Wait(p, t, cond)
    PROVE  CVInv'
<1>1. CASE cond
  <2>1. /\ pc \in [Caller -> Loc] /\ "returned" \in Loc /\ Goto(p, "returned") /\ pc[p] = "out"
      BY <1>1 DEF Wait, At, CVInv, CVTypeOK, Loc
  <2>2. /\ pc'[p] = "returned" /\ pc' \in [Caller -> Loc]
        /\ \A q \in Caller \ {p} : pc'[q] = pc[q]
        /\ InWait' = InWait /\ Entered' = Entered
      BY <2>1, GotoSets DEF InWait, Entered, WaitLoc, EnterLoc
  <2>3. WaitersCounted' /\ Injective(waiting)'
    <3>1. UNCHANGED <<counters, waiting>> /\ Elements(todo') \subseteq Elements(waiting)
        BY <1>1 DEF Wait, counters, CVInv, WaitersCounted
    <3> QED
        BY <2>2, <3>1, CountedFrame
  <2>4. CVTypeOK'
      BY ZenonT(30), <1>1, <2>2 DEF Wait, CVInv, CVTypeOK
  <2>5. CVControl'
      BY <1>1, <2>1, <2>2 DEF Wait, CVInv, CVTypeOK, CVControl, LockLoc
  <2> QED
      BY <2>3, <2>4, <2>5 DEF CVInv
<1>2. CASE ~cond
  <2>1. /\ pc \in [Caller -> Loc] /\ "enter" \in Loc /\ Goto(p, "enter") /\ pc[p] = "out"
      BY <1>2 DEF Wait, At, CVInv, CVTypeOK, Loc, WaitLoc
  <2>2. /\ pc'[p] = "enter" /\ pc' \in [Caller -> Loc]
        /\ \A q \in Caller \ {p} : pc'[q] = pc[q]
        /\ InWait' = InWait \cup {p} /\ Entered' = Entered /\ p \notin InWait
      BY <2>1, GotoSets DEF InWait, Entered, WaitLoc, EnterLoc
  <2>3. WaitersCounted' /\ Injective(waiting)'
    <3>1. /\ numWaiting' = numWaiting + 1 /\ onCondition' = onCondition
          /\ waiting' = waiting /\ todo' = todo
        BY <1>2 DEF Wait
    <3>2. Cardinality(InWait') = Cardinality(InWait) + 1
        BY <2>2, FinitelyMany, CountOne
    <3> QED
        BY <2>2, <3>1, <3>2 DEF CVInv, WaitersCounted
  <2>4. CVTypeOK'
      BY <1>2, <2>2 DEF Wait, CVInv, CVTypeOK
  <2>5. CVControl'
      BY <1>2, <2>1, <2>2 DEF Wait, CVInv, CVTypeOK, CVControl, LockLoc
  <2> QED
      BY <2>3, <2>4, <2>5 DEF CVInv
<1> QED
    BY <1>1, <1>2

\* A fiber enters waiting_, a thread the other counter.
LEMMA EnterKeeps ==
    ASSUME CVInv, NEW p \in Caller, Enter(p)
    PROVE  CVInv'
<1>1. /\ pc \in [Caller -> Loc] /\ "loop" \in Loc /\ Goto(p, "loop") /\ pc[p] = "enter"
    BY DEF Enter, At, CVInv, CVTypeOK, Loc, WaitLoc
<1>2. /\ pc'[p] = "loop" /\ pc' \in [Caller -> Loc]
      /\ \A q \in Caller \ {p} : pc'[q] = pc[q]
      /\ InWait' = InWait /\ Entered' = Entered \cup {p} /\ p \notin Entered
    BY <1>1, GotoSets DEF InWait, Entered, WaitLoc, EnterLoc
<1>3. CVControl'
    BY <1>1, <1>2 DEF Enter, CVInv, CVTypeOK, CVControl, LockLoc
<1>4. CASE p \in Fiber
  <2>1. /\ mutex = NoOne /\ waiting' = <<p>> \o waiting /\ waiting \in Seq(Fiber)
        /\ UNCHANGED <<lock, mutex, numWaiting, onCondition, timed, late, woken, result, todo>>
      BY <1>4 DEF Enter, CVInv, CVTypeOK
  <2>2. p \notin Elements(waiting)
      BY <1>2 DEF CVInv, WaitersCounted
  <2>3. /\ waiting' \in Seq(Fiber) /\ Len(waiting') = Len(waiting) + 1
        /\ Elements(waiting') = Elements(waiting) \cup {p} /\ Injective(waiting')
      BY <1>4, <2>1, <2>2, Prepended DEF CVInv
  <2>4. /\ Entered' \cap Thread = Entered \cap Thread
        /\ Entered' \cap Fiber = (Entered \cap Fiber) \cup {p}
        /\ Cardinality(Entered' \cap Fiber) = Cardinality(Entered \cap Fiber) + 1
    <3>1. /\ Entered' \cap Thread = Entered \cap Thread
          /\ Entered' \cap Fiber = (Entered \cap Fiber) \cup {p}
        BY <1>2, <1>4, CallerAssumption
    <3> QED
        BY <1>2, <3>1, FinitelyMany, CountOne
  <2>5. WaitersCounted'
      BY ZenonT(30), <1>2, <2>1, <2>3, <2>4 DEF CVInv, WaitersCounted
  <2>6. CVTypeOK'
      BY <1>2, <2>1, <2>3 DEF CVInv, CVTypeOK
  <2> QED
      BY <1>3, <2>3, <2>5, <2>6 DEF CVInv
<1>5. CASE p \notin Fiber
  <2>1. /\ onCondition' = onCondition + 1 /\ waiting' = waiting
        /\ UNCHANGED <<lock, mutex, numWaiting, timed, late, woken, result, todo>>
      BY <1>5 DEF Enter
  <2>2. /\ Entered' \cap Fiber = Entered \cap Fiber
        /\ Cardinality(Entered' \cap Thread) = Cardinality(Entered \cap Thread) + 1
    <3>1. /\ Entered' \cap Fiber = Entered \cap Fiber
          /\ Entered' \cap Thread = (Entered \cap Thread) \cup {p}
        BY <1>2, <1>5 DEF Caller
    <3> QED
        BY <1>2, <3>1, FinitelyMany, CountOne
  <2>3. WaitersCounted' /\ Injective(waiting)'
      BY ZenonT(30), <1>2, <2>1, <2>2 DEF CVInv, WaitersCounted
  <2>4. CVTypeOK'
      BY <1>2, <2>1 DEF CVInv, CVTypeOK
  <2> QED
      BY <1>3, <2>3, <2>4 DEF CVInv
<1> QED
    BY <1>4, <1>5

\* ... and leaves them again.
LEMMA ExitKeeps ==
    ASSUME CVInv, NEW p \in Caller, Exit(p)
    PROVE  CVInv'
<1>1. /\ pc \in [Caller -> Loc] /\ "uncount" \in Loc /\ Goto(p, "uncount") /\ pc[p] = "exit"
    BY DEF Exit, At, CVInv, CVTypeOK, Loc, WaitLoc
<1>2. /\ pc'[p] = "uncount" /\ pc' \in [Caller -> Loc]
      /\ \A q \in Caller \ {p} : pc'[q] = pc[q]
      /\ InWait' = InWait /\ Entered' = Entered \ {p} /\ p \in Entered
    BY <1>1, GotoSets DEF InWait, Entered, WaitLoc, EnterLoc
<1>3. CVControl'
    BY <1>1, <1>2 DEF Exit, CVInv, CVTypeOK, CVControl, LockLoc
<1>4. CASE p \in Fiber
  <2>1. /\ mutex = NoOne /\ Erase(p) /\ waiting \in Seq(Fiber)
        /\ UNCHANGED <<lock, mutex, numWaiting, onCondition, timed, late, woken, result, todo>>
      BY <1>4 DEF Exit, CVInv, CVTypeOK
  <2>2. PICK i \in 1..Len(waiting) : waiting[i] = p /\ waiting' = Erased(waiting, i)
      BY <2>1 DEF Erase
  <2>3. /\ waiting' \in Seq(Fiber) /\ Len(waiting') = Len(waiting) - 1
        /\ Elements(waiting') = Elements(waiting) \ {p} /\ Injective(waiting')
      BY ZenonT(30), <2>1, <2>2, ErasedList DEF CVInv
  <2>4. /\ Entered' \cap Thread = Entered \cap Thread
        /\ Entered' \cap Fiber = (Entered \cap Fiber) \ {p}
        /\ Cardinality(Entered' \cap Fiber) = Cardinality(Entered \cap Fiber) - 1
    <3>1. /\ Entered' \cap Thread = Entered \cap Thread
          /\ Entered' \cap Fiber = (Entered \cap Fiber) \ {p}
        BY <1>2, <1>4, CallerAssumption
    <3> QED
        BY ZenonT(30), <1>2, <1>4, <3>1, FinitelyMany, CountOne
  <2>5. Elements(todo') = {}
    <3>1. todo' = <<>>
        BY <2>1 DEF CVInv, CVControl
    <3> QED
        BY <3>1 DEF Elements
  <2>6. WaitersCounted'
      BY ZenonT(30), <1>2, <2>1, <2>3, <2>4, <2>5 DEF CVInv, WaitersCounted
  <2>7. CVTypeOK'
      BY <1>2, <2>1, <2>3 DEF CVInv, CVTypeOK
  <2> QED
      BY <1>3, <2>3, <2>6, <2>7 DEF CVInv
<1>5. CASE p \notin Fiber
  <2>1. /\ onCondition' = onCondition - 1 /\ waiting' = waiting
        /\ UNCHANGED <<lock, mutex, numWaiting, timed, late, woken, result, todo>>
      BY <1>5 DEF Exit
  <2>2. /\ Entered' \cap Fiber = Entered \cap Fiber
        /\ Cardinality(Entered' \cap Thread) = Cardinality(Entered \cap Thread) - 1
        /\ Cardinality(Entered \cap Thread) > 0
    <3>1. /\ Entered' \cap Fiber = Entered \cap Fiber
          /\ Entered' \cap Thread = (Entered \cap Thread) \ {p}
          /\ p \in Entered \cap Thread
        BY <1>2, <1>5 DEF Caller
    <3> QED
        BY ZenonT(30), <1>2, <3>1, FinitelyMany, CountOne
  <2>3. WaitersCounted' /\ Injective(waiting)'
      BY ZenonT(30), <1>2, <2>1, <2>2 DEF CVInv, WaitersCounted
  <2>4. CVTypeOK'
      BY <1>2, <2>1, <2>2 DEF CVInv, CVTypeOK, WaitersCounted
  <2> QED
      BY <1>3, <2>3, <2>4 DEF CVInv
<1> QED
    BY <1>4, <1>5

\* The caller is not counted any more.
LEMMA UncountKeeps ==
    ASSUME CVInv, NEW p \in Caller, Uncount(p)
    PROVE  CVInv'
<1>1. /\ pc \in [Caller -> Loc] /\ "returned" \in Loc /\ Goto(p, "returned") /\ pc[p] = "uncount"
    BY DEF Uncount, At, CVInv, CVTypeOK, Loc, WaitLoc
<1>2. /\ pc'[p] = "returned" /\ pc' \in [Caller -> Loc]
      /\ \A q \in Caller \ {p} : pc'[q] = pc[q]
      /\ InWait' = InWait \ {p} /\ Entered' = Entered /\ p \in InWait
    BY <1>1, GotoSets DEF InWait, Entered, WaitLoc, EnterLoc
<1>3. Cardinality(InWait') = Cardinality(InWait) - 1 /\ Cardinality(InWait) > 0
    BY <1>2, FinitelyMany, CountOne
<1>4. WaitersCounted' /\ Injective(waiting)'
    BY <1>2, <1>3 DEF Uncount, CVInv, WaitersCounted
<1>5. CVTypeOK'
    BY <1>2, <1>3 DEF Uncount, CVInv, CVTypeOK, WaitersCounted
<1>6. CVControl'
    BY <1>1, <1>2 DEF Uncount, CVInv, CVTypeOK, CVControl, LockLoc
<1> QED
    BY <1>4, <1>5, <1>6 DEF CVInv

\* The predicate is looked at in the loop, with the lock held.
LEMMA LoopKeeps ==
    ASSUME CVInv, NEW p \in Caller, NEW cond \in BOOLEAN, Loop(p, cond)
    PROVE  CVInv'
<1>1. PICK l \in {"exit", "suspend"} :
         /\ pc \in [Caller -> Loc] /\ l \in Loc /\ Goto(p, l) /\ pc[p] = "loop"
    BY DEF Loop, At, CVInv, CVTypeOK, Loc, WaitLoc
<1>2. /\ pc'[p] = l /\ pc' \in [Caller -> Loc]
      /\ \A q \in Caller \ {p} : pc'[q] = pc[q]
      /\ InWait' = InWait /\ Entered' = Entered
    BY <1>1, GotoSets DEF InWait, Entered, WaitLoc, EnterLoc
<1>3. UNCHANGED <<counters, waiting>> /\ Elements(todo') \subseteq Elements(waiting)
    BY DEF Loop, counters, CVInv, WaitersCounted
<1>4. WaitersCounted' /\ Injective(waiting)'
    BY <1>2, <1>3, CountedFrame
<1>5. CVTypeOK'
    BY ZenonT(30), <1>2 DEF Loop, counters, CVInv, CVTypeOK
<1>6. CVControl'
    BY <1>1, <1>2 DEF Loop, CVInv, CVTypeOK, CVControl, LockLoc
<1> QED
    BY <1>4, <1>5, <1>6 DEF CVInv

\* The caller is suspended, and the lock is free.
LEMMA SuspendKeeps ==
    ASSUME CVInv, NEW p \in Caller, Suspend(p)
    PROVE  CVInv'
<1>1. /\ pc \in [Caller -> Loc] /\ "suspended" \in Loc /\ Goto(p, "suspended") /\ pc[p] = "suspend"
    BY DEF Suspend, At, CVInv, CVTypeOK, Loc, WaitLoc
<1>2. /\ pc'[p] = "suspended" /\ pc' \in [Caller -> Loc]
      /\ \A q \in Caller \ {p} : pc'[q] = pc[q]
      /\ InWait' = InWait /\ Entered' = Entered
    BY <1>1, GotoSets DEF InWait, Entered, WaitLoc, EnterLoc
<1>3. UNCHANGED <<counters, waiting>> /\ Elements(todo') \subseteq Elements(waiting)
    BY DEF Suspend, counters, CVInv, WaitersCounted
<1>4. WaitersCounted' /\ Injective(waiting)'
    BY <1>2, <1>3, CountedFrame
<1>5. CVTypeOK'
    BY <1>2 DEF Suspend, counters, CVInv, CVTypeOK
<1>6. CVControl'
    BY <1>1, <1>2 DEF Suspend, CVInv, CVTypeOK, CVControl, LockLoc
<1> QED
    BY <1>4, <1>5, <1>6 DEF CVInv

\* A caller that was woken takes the lock.
LEMMA ReacquireKeeps ==
    ASSUME CVInv, NEW p \in Caller, NEW cond \in BOOLEAN, Reacquire(p, cond)
    PROVE  CVInv'
<1>1. PICK l \in {"exit", "loop"} :
         /\ pc \in [Caller -> Loc] /\ l \in Loc /\ Goto(p, l) /\ pc[p] = "suspended"
    BY DEF Reacquire, At, CVInv, CVTypeOK, Loc, WaitLoc
<1>2. /\ pc'[p] = l /\ pc' \in [Caller -> Loc]
      /\ \A q \in Caller \ {p} : pc'[q] = pc[q]
      /\ InWait' = InWait /\ Entered' = Entered
    BY <1>1, GotoSets DEF InWait, Entered, WaitLoc, EnterLoc
<1>3. UNCHANGED <<counters, waiting>> /\ Elements(todo') \subseteq Elements(waiting)
    BY DEF Reacquire, counters, CVInv, WaitersCounted
<1>4. WaitersCounted' /\ Injective(waiting)'
    BY <1>2, <1>3, CountedFrame
<1>5. CVTypeOK'
    BY ZenonT(30), <1>2 DEF Reacquire, counters, CVInv, CVTypeOK
<1>6. CVControl'
    BY <1>1, <1>2, CallerAssumption DEF Reacquire, CVInv, CVTypeOK, CVControl, LockLoc, Caller
<1> QED
    BY <1>4, <1>5, <1>6 DEF CVInv

\* Time passes, and callers are woken for reasons of their own.
LEMMA NatureKeeps ==
    ASSUME CVInv, NEW p \in Caller, Expire(p) \/ TimeOut(p) \/ SpuriousWake(p)
    PROVE  CVInv'
<1>1. /\ UNCHANGED <<lock, mutex, counters, waiting, pc, timed, result, todo>>
      /\ late' \subseteq Caller
      /\ woken' \subseteq Caller
      /\ \A q \in woken' : pc[q] = "suspended"
    BY DEF Expire, TimeOut, SpuriousWake, At, CVInv, CVTypeOK, CVControl
<1>2. InWait' = InWait /\ Entered' = Entered
    BY <1>1 DEF InWait, Entered
<1>3. UNCHANGED <<counters, waiting>> /\ Elements(todo') \subseteq Elements(waiting)
    BY <1>1 DEF CVInv, WaitersCounted
<1>4. WaitersCounted' /\ Injective(waiting)'
    BY <1>2, <1>3, CountedFrame
<1>5. CVTypeOK'
    BY <1>1 DEF counters, CVInv, CVTypeOK
<1>6. CVControl'
    BY <1>1 DEF CVInv, CVControl
<1> QED
    BY <1>4, <1>5, <1>6 DEF CVInv

-----------------------------------------------------------------------------
\* The steps of notify_one() and notify_all(), and the end of a call.

NotifyLoc == {"notifyOne", "oneThread", "notifyAll", "fibers", "allThreads", "notified"}

\* A notifier moves on, keeps the lists, and wakes only the suspended.
LEMMA NotifierKeeps ==
    ASSUME CVInv, NEW p \in Caller, NEW l \in NotifyLoc \cup {"out"}, Goto(p, l),
           pc[p] \in NotifyLoc \cup {"out"},
           UNCHANGED <<lock, counters, waiting, timed, late, result>>,
           woken' \subseteq Caller, \A q \in woken' : pc[q] = "suspended",
           todo' \in Seq(Fiber), Elements(todo') \subseteq Elements(waiting),
           mutex' = IF l = "fibers" THEN p ELSE IF pc[p] = "fibers" THEN NoOne ELSE mutex,
           l = "fibers" => pc[p] = "fibers" \/ mutex = NoOne,
           mutex' = NoOne => todo' = <<>>
    PROVE  CVInv'
<1>1. /\ pc'[p] = l /\ pc' \in [Caller -> Loc]
      /\ \A q \in Caller \ {p} : pc'[q] = pc[q]
      /\ InWait' = InWait /\ Entered' = Entered
  <2>1. pc \in [Caller -> Loc] /\ l \in Loc
      BY DEF CVInv, CVTypeOK, Loc, NotifyLoc
  <2> QED
      BY <2>1, GotoSets DEF InWait, Entered, WaitLoc, EnterLoc, NotifyLoc
<1>2. WaitersCounted' /\ Injective(waiting)'
    BY <1>1, CountedFrame
<1>3. CVTypeOK'
    BY <1>1 DEF counters, CVInv, CVTypeOK
<1>4. \A q \in Caller : pc'[q] \in LockLoc => lock' = q
    BY <1>1 DEF CVInv, CVControl, LockLoc, NotifyLoc
<1>5. \A q \in Caller : pc'[q] = "fibers" <=> mutex' = q
  <2>1. CASE l = "fibers"
      BY <1>1, <2>1, CallerAssumption DEF CVInv, CVControl, Caller
  <2>2. CASE l # "fibers"
      BY <1>1, <2>2, CallerAssumption DEF CVInv, CVControl, Caller
  <2> QED
      BY <2>1, <2>2
<1>6. \A q \in woken' : pc'[q] = "suspended"
    BY <1>1 DEF NotifyLoc
<1> QED
    BY ZenonT(30), <1>2, <1>3, <1>4, <1>5, <1>6 DEF CVInv, CVControl

\* The callers that a notifier has woken were suspended.
LEMMA WakeFiberWakes ==
    ASSUME CVInv, NEW f \in Fiber, WakeFiber(f)
    PROVE  /\ woken' \subseteq Caller
           /\ \A q \in woken' : pc[q] = "suspended"
           /\ woken \subseteq woken'
           /\ pc[f] = "suspended" => f \in woken'
BY DEF WakeFiber, CVInv, CVTypeOK, CVControl, Caller

\* notify_one() or notify_all() is called.
LEMMA NotifyKeeps ==
    ASSUME CVInv, NEW p \in Caller, NEW all \in BOOLEAN, Notify(p, all)
    PROVE  CVInv'
<1>1. PICK l \in {"notified", "notifyAll", "notifyOne"} : Goto(p, l)
    BY DEF Notify
<1>2. /\ pc[p] = "out" /\ l \in NotifyLoc
      /\ UNCHANGED <<lock, mutex, counters, waiting, timed, late, woken, result, todo>>
    BY DEF Notify, At, NotifyLoc
<1>3. /\ woken' \subseteq Caller /\ \A q \in woken' : pc[q] = "suspended"
      /\ todo' \in Seq(Fiber) /\ Elements(todo') \subseteq Elements(waiting)
      /\ mutex' = NoOne => todo' = <<>>
    BY <1>2 DEF CVInv, CVTypeOK, CVControl, WaitersCounted
<1> QED
    BY ZenonT(30), <1>1, <1>2, <1>3, NotifierKeeps

\* The steps of a notification.
LEMMA NotifyingKeeps ==
    ASSUME CVInv, NEW p \in Caller,
           NotifyFront(p) \/ LockAll(p) \/ NotifyNext(p) \/ UnlockAll(p) \/ NotifyThreads(p)
    PROVE  CVInv'
<1>0. /\ waiting \in Seq(Fiber) /\ todo \in Seq(Fiber) /\ pc \in [Caller -> Loc]
      /\ woken \subseteq Caller /\ \A q \in woken : pc[q] = "suspended"
      /\ Elements(todo) \subseteq Elements(waiting)
      /\ mutex = NoOne => todo = <<>>
      /\ pc[p] = "fibers" <=> mutex = p
      /\ p # NoOne
    BY CallerAssumption DEF CVInv, CVTypeOK, CVControl, WaitersCounted, Caller
<1>1. CASE NotifyFront(p)
  <2>1. PICK l \in {"notified", "oneThread"} : Goto(p, l)
      BY <1>1 DEF NotifyFront
  <2>2. /\ pc[p] = "notifyOne" /\ l \in NotifyLoc /\ mutex = NoOne
        /\ UNCHANGED <<lock, mutex, counters, waiting, timed, late, result, todo>>
      BY <1>1, <2>1 DEF NotifyFront, At, NotifyLoc
  <2>3. woken' \subseteq Caller /\ \A q \in woken' : pc[q] = "suspended"
    <3>1. CASE waiting # <<>>
        BY <1>0, <1>1, <3>1, TailList, WakeFiberWakes DEF NotifyFront
    <3>2. CASE waiting = <<>>
        BY <1>0, <1>1, <3>2 DEF NotifyFront
    <3> QED
        BY <3>1, <3>2
  <2> QED
      BY <1>0, <2>1, <2>2, <2>3, NotifierKeeps DEF NotifyLoc
<1>2. CASE LockAll(p)
  <2>1. /\ pc[p] = "notifyAll" /\ Goto(p, "fibers") /\ mutex = NoOne /\ mutex' = p /\ todo' = waiting
        /\ UNCHANGED <<lock, counters, waiting, timed, late, woken, result>>
      BY <1>2 DEF LockAll, At
  <2>2. "fibers" \in NotifyLoc /\ "notifyAll" \in NotifyLoc
      BY DEF NotifyLoc
  <2> QED
      BY <1>0, <2>1, <2>2, NotifierKeeps
<1>3. CASE NotifyNext(p)
  <2>1. /\ pc[p] = "fibers" /\ todo # <<>> /\ todo' = Tail(todo) /\ WakeFiber(Head(todo))
        /\ pc' = pc
        /\ UNCHANGED <<lock, mutex, counters, waiting, timed, late, result>>
      BY <1>3 DEF NotifyNext, At
  <2>2. Goto(p, "fibers")
      BY <1>0, <2>1 DEF Goto
  <2>3. /\ todo' \in Seq(Fiber) /\ Elements(todo') \subseteq Elements(waiting)
        /\ woken' \subseteq Caller /\ \A q \in woken' : pc[q] = "suspended"
      BY <1>0, <2>1, TailList, WakeFiberWakes
  <2>4. "fibers" \in NotifyLoc
      BY DEF NotifyLoc
  <2> QED
      BY ZenonT(30), <1>0, <2>1, <2>2, <2>3, <2>4, NotifierKeeps
<1>4. CASE UnlockAll(p)
  <2>1. /\ pc[p] = "fibers" /\ Goto(p, "allThreads") /\ mutex' = NoOne /\ todo = <<>>
        /\ UNCHANGED <<lock, counters, waiting, timed, late, woken, result, todo>>
      BY <1>4 DEF UnlockAll, At
  <2>2. "fibers" \in NotifyLoc /\ "allThreads" \in NotifyLoc
      BY DEF NotifyLoc
  <2> QED
      BY <1>0, <2>1, <2>2, NotifierKeeps
<1>5. CASE NotifyThreads(p)
  <2>1. /\ pc[p] \in {"oneThread", "allThreads"} /\ Goto(p, "notified")
        /\ UNCHANGED <<lock, mutex, counters, waiting, timed, late, result, todo>>
      BY <1>5 DEF NotifyThreads
  <2>2. woken' \subseteq woken \cup AsleepThreads
      BY <1>5 DEF NotifyThreads
  <2>3. woken' \subseteq Caller /\ \A q \in woken' : pc[q] = "suspended"
      BY <1>0, <2>2 DEF AsleepThreads, Caller
  <2> QED
      BY ZenonT(30), <1>0, <2>1, <2>3, NotifierKeeps DEF NotifyLoc
<1> QED
    BY <1>1, <1>2, <1>3, <1>4, <1>5

\* A step of a call that was begun keeps the counters and lists right.
LEMMA ContinueKeeps ==
    ASSUME CVInv, NEW p \in Caller, NEW cond \in BOOLEAN, Continue(p, cond)
    PROVE  CVInv'
BY EnterKeeps, LoopKeeps, SuspendKeeps, NatureKeeps, ReacquireKeeps, ExitKeeps, UncountKeeps,
   NotifyingKeeps DEF Continue

\* The end of a call, with which the caller may give up its lock.
LEMMA FinishKeeps ==
    ASSUME CVInv, NEW p \in Caller, Finish(p), lock' = lock \/ (lock = p /\ lock' = NoOne)
    PROVE  CVInv'
<1>1. /\ pc \in [Caller -> Loc] /\ "out" \in Loc /\ Goto(p, "out") /\ pc[p] \in {"returned", "notified"}
    BY DEF Finish, CVInv, CVTypeOK, Loc
<1>2. /\ pc'[p] = "out" /\ pc' \in [Caller -> Loc]
      /\ \A q \in Caller \ {p} : pc'[q] = pc[q]
      /\ InWait' = InWait /\ Entered' = Entered
    BY <1>1, GotoSets DEF InWait, Entered, WaitLoc, EnterLoc
<1>3. UNCHANGED <<counters, waiting>> /\ Elements(todo') \subseteq Elements(waiting)
    BY DEF Finish, CVInv, WaitersCounted
<1>4. WaitersCounted' /\ Injective(waiting)'
    BY <1>2, <1>3, CountedFrame
<1>5. CVTypeOK'
    BY <1>2 DEF Finish, counters, CVInv, CVTypeOK
<1>6. CVControl'
    BY <1>1, <1>2 DEF Finish, CVInv, CVTypeOK, CVControl, LockLoc
<1> QED
    BY <1>4, <1>5, <1>6 DEF CVInv

\* A caller that is not inside wait() takes the lock, or gives it up.
LEMMA LockKeeps ==
    ASSUME CVInv, NEW p \in Caller,
           \/ lock = NoOne /\ lock' = p
           \/ lock = p /\ lock' = NoOne /\ pc[p] \notin LockLoc
           \/ lock' = lock,
           UNCHANGED <<mutex, counters, waiting, pc, timed, late, woken, todo>>,
           result' \in [Caller -> BOOLEAN]
    PROVE  CVInv'
<1>1. InWait' = InWait /\ Entered' = Entered
    BY DEF InWait, Entered
<1>2. UNCHANGED <<counters, waiting>> /\ Elements(todo') \subseteq Elements(waiting)
    BY DEF CVInv, WaitersCounted
<1>3. WaitersCounted' /\ Injective(waiting)'
    BY <1>1, <1>2, CountedFrame
<1>4. CVTypeOK'
    BY DEF counters, CVInv, CVTypeOK
<1>5. CVControl'
    BY CallerAssumption DEF CVInv, CVControl, CVTypeOK, LockLoc, Caller
<1> QED
    BY <1>3, <1>4, <1>5 DEF CVInv

\* Nobody waits in the beginning.
LEMMA InitKeeps == CVInit => CVInv
<1> SUFFICES ASSUME CVInit PROVE CVInv
    OBVIOUS
<1>1. CVTypeOK /\ CVControl
    BY CallerAssumption DEF CVInit, CVTypeOK, CVControl, Loc, LockLoc, Caller
<1>2. InWait = {} /\ Entered = {}
    BY DEF CVInit, InWait, Entered
<1>3. Elements(waiting) = {} /\ Elements(todo) = {} /\ Len(waiting) = 0 /\ Injective(waiting)
    BY DEF CVInit, Elements, Injective
<1>4. WaitersCounted
    BY <1>2, <1>3, FS_EmptySet DEF CVInit, WaitersCounted
<1> QED
    BY <1>1, <1>3, <1>4 DEF CVInv

-----------------------------------------------------------------------------
\* Notifications arrive.

\* The caller waits, and notify_all() has not come to it.
LEMMA BlockedWait ==
    ASSUME CVInv, NEW p \in Blocked
    PROVE  /\ p \in Caller /\ pc[p] = "suspended" /\ p \notin woken
           /\ p \in InWait /\ p \in Entered
           /\ numWaiting > 0
           /\ p \in Fiber => p \in Elements(waiting)
           /\ p \in Thread => onCondition > 0
<1>1. p \in Caller /\ pc[p] = "suspended" /\ p \notin woken /\ p \in InWait /\ p \in Entered
    BY DEF Blocked, InWait, Entered
<1>2. Cardinality(InWait) > 0
    BY ZenonT(30), <1>1, FinitelyMany, CountOne
<1>3. p \in Thread => Cardinality(Entered \cap Thread) > 0
    BY ZenonT(30), <1>1, FinitelyMany, CountOne
<1> QED
    BY <1>1, <1>2, <1>3 DEF CVInv, WaitersCounted

\* notify_all() will get to everybody who is suspended when it is called.
LEMMA NotifyReaches ==
    ASSUME CVInv, NEW q \in Caller, Notify(q, TRUE), NEW p \in Blocked
    PROVE  WillNotify(p)' # {}
<1>1. numWaiting # 0
    BY BlockedWait DEF CVInv, CVTypeOK
<1>2. pc'[q] = "notifyAll"
    BY <1>1 DEF Notify, Goto, CVInv, CVTypeOK
<1> QED
    BY <1>2 DEF WillNotify

\* A step that moves no notifier and suspends nobody.
LEMMA Undisturbed ==
    ASSUME CVInv, woken \subseteq woken', todo' = todo,
           \A r \in Caller : \/ pc'[r] = pc[r]
                             \/ pc[r] \in {"out", "returned", "notified"} /\ pc'[r] # "suspended",
           NEW p \in Blocked'
    PROVE  p \in Blocked /\ (WillNotify(p) # {} => WillNotify(p)' # {})
<1>1. p \in Blocked
    BY DEF Blocked
<1>2. ASSUME NEW r \in WillNotify(p) PROVE r \in WillNotify(p)'
    BY <1>2 DEF WillNotify
<1> QED
    BY <1>1, <1>2

\* A step of a call suspends the caller itself, or leaves who was blocked
\* blocked; and the notifier that is to come to somebody either comes with this
\* step or is still to come.
LEMMA Delivered ==
    ASSUME CVInv, NEW q \in Caller, NEW cond \in BOOLEAN, Continue(q, cond), NEW p \in Blocked'
    PROVE  \/ p = q /\ Suspend(q)
           \/ p \in Blocked /\ (WillNotify(p) # {} => WillNotify(p)' # {})
<1>0. /\ pc \in [Caller -> Loc] /\ todo \in Seq(Fiber) /\ waiting \in Seq(Fiber)
      /\ \A r \in Caller : pc[r] = "fibers" <=> mutex = r
      /\ NoOne \notin Caller /\ p \in Caller
      /\ pc'[p] = "suspended" /\ p \notin woken'
    BY CallerAssumption DEF CVInv, CVTypeOK, CVControl, Caller, Blocked
<1>1. CASE Suspend(q)
  <2>1. /\ \A r \in Caller \ {q} : pc'[r] = pc[r]
        /\ pc[q] = "suspend" /\ woken' = woken /\ todo' = todo
      BY <1>0, <1>1 DEF Suspend, Goto, At
  <2>2. CASE p # q
    <3>1. p \in Blocked
        BY <1>0, <2>1, <2>2 DEF Blocked
    <3>2. ASSUME NEW r \in WillNotify(p) PROVE r \in WillNotify(p)'
        BY ZenonT(30), <2>1, <3>2 DEF WillNotify
    <3> QED
        BY <3>1, <3>2
  <2> QED
      BY <1>1, <2>2
<1>2. CASE Enter(q) \/ Loop(q, cond) \/ TimeOut(q) \/ Reacquire(q, cond) \/ Exit(q) \/ Uncount(q)
  <2>1. /\ \A r \in Caller \ {q} : pc'[r] = pc[r]
        /\ pc[q] \in WaitLoc /\ todo' = todo
        /\ pc'[q] # "suspended" \/ pc'[q] = pc[q]
      BY ZenonT(30), <1>0, <1>2 DEF Enter, Loop, TimeOut, Reacquire, Exit, Uncount, Goto, At, WaitLoc
  <2>2. woken' \cup {q} = woken \cup {q}
      BY ZenonT(30), <1>2 DEF Enter, Loop, TimeOut, Reacquire, Exit, Uncount
  <2>3. q \in woken' \/ q \notin woken \/ pc'[q] # "suspended"
      BY ZenonT(30), <1>0, <1>2 DEF Enter, Loop, TimeOut, Reacquire, Exit, Uncount, Goto
  <2>4. p \in Blocked
      BY <1>0, <2>1, <2>2, <2>3 DEF Blocked
  <2>5. ASSUME NEW r \in WillNotify(p) PROVE r \in WillNotify(p)'
      BY <2>1, <2>5 DEF WillNotify, WaitLoc
  <2> QED
      BY <2>4, <2>5
<1>3. CASE NotifyFront(q) \/ NotifyThreads(q)
  <2>1. /\ \A r \in Caller \ {q} : pc'[r] = pc[r]
        /\ pc[q] \in {"notifyOne", "oneThread", "allThreads"} /\ todo' = todo
        /\ pc'[q] \in {"notified", "oneThread"}
        /\ woken \subseteq woken'
      BY <1>0, <1>3 DEF NotifyFront, NotifyThreads, Goto, At, WakeFiber
  <2>2. p \in Blocked
      BY <1>0, <2>1 DEF Blocked
  <2>3. ~(pc[q] = "allThreads" /\ p \in Thread)
    <3> SUFFICES ASSUME pc[q] = "allThreads", p \in Thread PROVE FALSE
        OBVIOUS
    <3>1. p \in AsleepThreads /\ onCondition > 0
        BY <2>2, BlockedWait DEF AsleepThreads
    <3>2. p \in woken'
        BY <1>3, <3>1 DEF NotifyFront, NotifyThreads, At
    <3> QED
        BY <1>0, <3>2
  <2>4. ASSUME NEW r \in WillNotify(p) PROVE r \in WillNotify(p)'
      BY <2>1, <2>3, <2>4 DEF WillNotify
  <2> QED
      BY <2>2, <2>4
<1>4. CASE LockAll(q)
  <2>1. /\ \A r \in Caller \ {q} : pc'[r] = pc[r]
        /\ pc[q] = "notifyAll" /\ pc'[q] = "fibers"
        /\ mutex = NoOne /\ todo' = waiting /\ woken' = woken
      BY <1>0, <1>4 DEF LockAll, Goto, At
  <2>2. p \in Blocked
      BY <1>0, <2>1 DEF Blocked
  <2>3. q \in WillNotify(p)'
      BY <1>0, <2>1, <2>2, BlockedWait DEF WillNotify, Caller
  <2> QED
      BY <2>2, <2>3
<1>5. CASE NotifyNext(q)
  <2>1. /\ pc' = pc /\ pc[q] = "fibers" /\ mutex = q /\ todo # <<>> /\ todo' = Tail(todo)
        /\ WakeFiber(Head(todo))
      BY <1>0, <1>5 DEF NotifyNext, At
  <2>2. /\ Elements(todo) = Elements(todo') \cup {Head(todo)}
        /\ woken \subseteq woken'
        /\ pc[Head(todo)] = "suspended" => Head(todo) \in woken'
      BY <1>0, <2>1, TailList, WakeFiberWakes
  <2>3. p \in Blocked /\ p # Head(todo)
      BY <1>0, <2>1, <2>2 DEF Blocked
  <2>4. ASSUME NEW r \in WillNotify(p) PROVE r \in WillNotify(p)'
      BY <2>1, <2>2, <2>3, <2>4 DEF WillNotify
  <2> QED
      BY <2>3, <2>4
<1>6. CASE UnlockAll(q)
  <2>1. /\ \A r \in Caller \ {q} : pc'[r] = pc[r]
        /\ pc[q] = "fibers" /\ pc'[q] = "allThreads" /\ todo = <<>> /\ todo' = todo /\ woken' = woken
      BY <1>0, <1>6 DEF UnlockAll, Goto, At
  <2>2. p \in Blocked
      BY <1>0, <2>1 DEF Blocked
  <2>3. Elements(todo) = {}
      BY <2>1 DEF Elements
  <2>4. ASSUME NEW r \in WillNotify(p) PROVE r \in WillNotify(p)'
      BY <2>1, <2>3, <2>4 DEF WillNotify
  <2> QED
      BY <2>2, <2>4
<1> QED
    BY <1>1, <1>2, <1>3, <1>4, <1>5, <1>6 DEF Continue

\* What a step of p's call may do to the lock and to the locations.
LEMMA ContinueFrame ==
    ASSUME CVInv, NEW p \in Caller, NEW cond \in BOOLEAN, Continue(p, cond)
    PROVE  /\ pc[p] \notin {"out", "returned", "notified"}
           /\ \A r \in Caller \ {p} : pc'[r] = pc[r]
           /\ \/ lock' = lock
              \/ lock = NoOne /\ lock' = p
              \/ lock = p /\ lock' = NoOne
           /\ pc'[p] = "suspend" => pc[p] = "loop" /\ ~cond
           /\ pc'[p] # "enter"
           /\ pc[p] \in WaitLoc => pc'[p] \in WaitLoc \cup {"returned"}
           /\ pc[p] \in NotifyLoc => pc'[p] \in NotifyLoc
<1>0. /\ pc \in [Caller -> Loc]
      /\ \A r \in Caller : pc[r] \in LockLoc => lock = r
    BY DEF CVInv, CVTypeOK, CVControl
<1>1. CASE Enter(p) \/ Loop(p, cond) \/ Suspend(p) \/ TimeOut(p)
    BY <1>0, <1>1 DEF Enter, Loop, Suspend, TimeOut, Goto, At, LockLoc, WaitLoc, NotifyLoc
<1>2. CASE Reacquire(p, cond) \/ Exit(p) \/ Uncount(p)
    BY <1>0, <1>2 DEF Reacquire, Exit, Uncount, Goto, At, WaitLoc, NotifyLoc
<1>3. CASE NotifyFront(p) \/ LockAll(p) \/ NotifyNext(p) \/ UnlockAll(p) \/ NotifyThreads(p)
    BY ZenonT(30), <1>0, <1>3 DEF NotifyFront, LockAll, NotifyNext, UnlockAll, NotifyThreads, Goto, At, WaitLoc,
       NotifyLoc
<1> QED
    BY ZenonT(30), <1>1, <1>2, <1>3 DEF Continue

\* A call has a timeout or not.
LEMMA MayTimeOut ==
    ASSUME NEW m, NEW T, NEW t \in {FALSE, (m \in T)}
    PROVE  t \in BOOLEAN
<1>1. CASE m \in T
  <2>1. (m \in T) = TRUE
      BY <1>1
  <2> QED
      BY ZenonT(30), <2>1
<1>2. CASE m \notin T
  <2>1. (m \in T) = FALSE
      BY <1>2
  <2> QED
      BY ZenonT(30), <2>1
<1> QED
    BY <1>1, <1>2

\* The condition variable is left alone.
LEMMA StutterKeeps ==
    ASSUME CVInv,
           UNCHANGED <<lock, mutex, counters, waiting, pc, timed, late, woken, result, todo>>
    PROVE  CVInv' /\ Blocked' = Blocked /\ \A r : WillNotify(r)' = WillNotify(r)
<1>1. InWait' = InWait /\ Entered' = Entered
    BY DEF InWait, Entered
<1>2. UNCHANGED <<counters, waiting>> /\ Elements(todo') \subseteq Elements(waiting)
    BY DEF CVInv, WaitersCounted
<1>3. WaitersCounted' /\ Injective(waiting)'
    BY <1>1, <1>2, CountedFrame
<1>4. CVTypeOK'
    BY DEF counters, CVInv, CVTypeOK
<1>5. CVControl'
    BY DEF CVInv, CVControl
<1> QED
    BY <1>3, <1>4, <1>5 DEF CVInv, Blocked, WillNotify
=============================================================================
