----------------------------- MODULE CallProofs -----------------------------
(***************************************************************************)
(* Two calls that are under way while others change what they rely on.     *)
(*                                                                         *)
(* Event::any(), for any number of events and callers: whoever holds the   *)
(* mutex of a signalled event has still to tell those of its deps that are *)
(* not told.  The calls of a caller are nested, so the invariant speaks of *)
(* every frame of a stack: which mutex it holds, which no other frame      *)
(* holds, and what is left for it to do.                                   *)
(*                                                                         *)
(* blocking_call(), for any set of tasks: the thread of a call finds the   *)
(* scheduler alive, and the call returns after its thread.  The argument   *)
(* is that the calling task is blocked for as long as the thread has not   *)
(* called wg.done(), and that the workers do not stop before the task is   *)
(* done.                                                                   *)
(***************************************************************************)
EXTENDS EventAny, BlockingCall, TLAPS

-----------------------------------------------------------------------------
\* The stacks of calls.

\* The frames of calls that hold the mutex of their event.
Holding == {"deps", "register"}

Elements(s) == {s[i] : i \in 1..Len(s)}

\* No two calls of a stack hold the same mutex.
LocksDiffer(s) ==
    \A i, j \in 1..Len(s) :
       s[i].op \in Holding /\ s[j].op \in Holding /\ s[i].event = s[j].event => i = j

\* What a caller's stack may hold.
Frame ==
    {f \in [op : {"signal", "deps", "any", "register"}, event : 0..MaxEvents,
            rest : Seq(AnyEvent), dep : 0..MaxEvents] :
       /\ f.op # "any" => f.event \in AnyEvent
       /\ f.op \in {"any", "register"} => f.dep \in AnyEvent}

\* A call is entered.
LEMMA PushFacts ==
    ASSUME NEW s \in Seq(Frame), NEW f \in Frame
    PROVE  /\ <<f>> \o s \in Seq(Frame) /\ <<f>> \o s # <<>>
           /\ Head(<<f>> \o s) = f
           /\ Elements(<<f>> \o s) = Elements(s) \cup {f}
  <1> DEFINE t == <<f>> \o s
  <1>1. /\ t \in Seq(Frame) /\ Len(t) = Len(s) + 1 /\ Len(s) \in Nat /\ t[1] = f
        /\ \A i \in 1..Len(s) : t[i + 1] = s[i]
        /\ \A i \in 2..Len(t) : t[i] = s[i - 1] /\ i - 1 \in 1..Len(s)
    OBVIOUS
  <1>2. t # <<>> /\ Head(t) = f
    BY <1>1
  <1>3. Elements(t) = Elements(s) \cup {f}
    <2>1. ASSUME NEW x \in Elements(t) PROVE x \in Elements(s) \cup {f}
      <3>1. PICK i \in 1..Len(t) : x = t[i]
        BY ZenonT(30), <2>1 DEF Elements
      <3>2. i = 1 \/ (t[i] = s[i - 1] /\ i - 1 \in 1..Len(s))
        BY <1>1
      <3> QED BY ZenonT(30), <1>1, <3>1, <3>2 DEF Elements
    <2>2. ASSUME NEW x \in Elements(s) PROVE x \in Elements(t)
      <3>1. PICK i \in 1..Len(s) : x = s[i]
        BY ZenonT(30), <2>2 DEF Elements
      <3>2. i + 1 \in 1..Len(t) /\ t[i + 1] = s[i]
        BY <1>1
      <3> QED BY ZenonT(30), <3>1, <3>2 DEF Elements
    <2>3. 1 \in 1..Len(t)
      BY <1>1
    <2>4. f \in Elements(t)
      BY ZenonT(30), <1>1, <2>3 DEF Elements
    <2> QED BY ZenonT(30), <2>1, <2>2, <2>4
  <1> QED BY <1>1, <1>2, <1>3

\* ... and takes a mutex that no call of the stack holds, or none.
LEMMA PushLocks ==
    ASSUME NEW s \in Seq(Frame), NEW f \in Frame, LocksDiffer(s),
           \/ f.op \notin Holding
           \/ \A g \in Elements(s) : g.op \in Holding => g.event # f.event
    PROVE  LocksDiffer(<<f>> \o s)
  <1> DEFINE t == <<f>> \o s
  <1>0. /\ Len(t) = Len(s) + 1 /\ Len(s) \in Nat /\ t[1] = f
        /\ \A i \in 1..Len(t) : i = 1 \/ (t[i] = s[i - 1] /\ i - 1 \in 1..Len(s))
    OBVIOUS
  <1>1. ASSUME NEW i \in 1..Len(s), f.op \in Holding, s[i].op \in Holding
        PROVE  s[i].event # f.event
    BY ZenonT(30), <1>1 DEF Elements
  <1>2. SUFFICES ASSUME NEW i \in 1..Len(t), NEW j \in 1..Len(t), t[i].op \in Holding,
                        t[j].op \in Holding, t[i].event = t[j].event
                 PROVE  i = j
    BY DEF LocksDiffer
  <1>3. CASE i = 1
    BY ZenonT(30), <1>0, <1>1, <1>2, <1>3
  <1>4. CASE j = 1
    BY ZenonT(30), <1>0, <1>1, <1>2, <1>4
  <1>5. CASE i # 1 /\ j # 1
    <2>1. i - 1 = j - 1
      BY ZenonT(30), <1>0, <1>2, <1>5 DEF LocksDiffer
    <2> QED BY <1>0, <2>1
  <1> QED BY ZenonT(30), <1>3, <1>4, <1>5

\* A call returns.
LEMMA PopFacts ==
    ASSUME NEW F, NEW s \in Seq(F), s # <<>>
    PROVE  /\ Tail(s) \in Seq(F) /\ Head(s) \in F
           /\ Elements(s) = Elements(Tail(s)) \cup {Head(s)}
           /\ LocksDiffer(s) =>
                /\ LocksDiffer(Tail(s))
                /\ Head(s).op \in Holding =>
                     \A g \in Elements(Tail(s)) : g.op \in Holding => g.event # Head(s).event
  <1> DEFINE t == Tail(s)
  <1>1. /\ t \in Seq(F) /\ Len(s) = Len(t) + 1 /\ Len(t) \in Nat /\ s[1] = Head(s)
        /\ Head(s) \in F
        /\ \A i \in 1..Len(t) : t[i] = s[i + 1] /\ i + 1 \in 1..Len(s) /\ i + 1 # 1
        /\ 1 \in 1..Len(s)
    OBVIOUS
  <1>2. \A i \in 1..Len(s) : i = 1 \/ (i - 1 \in 1..Len(t) /\ s[i] = t[i - 1])
    BY <1>1
  <1>3. Elements(s) = Elements(t) \cup {Head(s)}
    <2>1. ASSUME NEW x \in Elements(s) PROVE x \in Elements(t) \cup {Head(s)}
      <3>1. PICK i \in 1..Len(s) : x = s[i]
        BY ZenonT(30), <2>1 DEF Elements
      <3> QED BY ZenonT(30), <1>1, <1>2, <3>1 DEF Elements
    <2>2. \A x \in Elements(t) : x \in Elements(s)
      BY ZenonT(30), <1>1 DEF Elements
    <2>3. Head(s) \in Elements(s)
      BY ZenonT(30), <1>1 DEF Elements
    <2> QED BY ZenonT(30), <2>1, <2>2, <2>3
  <1>4. ASSUME LocksDiffer(s) PROVE LocksDiffer(t)
    <2>1. SUFFICES ASSUME NEW i \in 1..Len(t), NEW j \in 1..Len(t), t[i].op \in Holding,
                          t[j].op \in Holding, t[i].event = t[j].event
                   PROVE  i = j
      BY DEF LocksDiffer
    <2>2. i + 1 = j + 1
      BY ZenonT(30), <1>1, <1>4, <2>1 DEF LocksDiffer
    <2> QED BY <2>2
  <1>5. ASSUME LocksDiffer(s), Head(s).op \in Holding, NEW g \in Elements(t), g.op \in Holding
        PROVE  g.event # Head(s).event
    <2>1. PICK i \in 1..Len(t) : g = t[i]
      BY ZenonT(30), <1>5 DEF Elements
    <2> QED BY ZenonT(30), <1>1, <1>5, <2>1 DEF LocksDiffer
  <1>6. LocksDiffer(s) /\ Head(s).op \in Holding =>
          \A g \in Elements(t) : g.op \in Holding => g.event # Head(s).event
    BY ZenonT(30), <1>5
  <1>7. t \in Seq(F) /\ Head(s) \in F
    BY ZenonT(30), <1>1
  <1> HIDE DEF t
  <1>8. /\ t \in Seq(F) /\ Head(s) \in F
        /\ Elements(s) = Elements(t) \cup {Head(s)}
        /\ LocksDiffer(s) =>
             /\ LocksDiffer(t)
             /\ Head(s).op \in Holding =>
                  \A g \in Elements(t) : g.op \in Holding => g.event # Head(s).event
    BY ZenonT(30), <1>3, <1>4, <1>6, <1>7
  <1> QED BY ZenonT(30), <1>8 DEF t

-----------------------------------------------------------------------------
\* The inductive invariant.

\* The event that a caller is about to signal.
Pending(p) == IF In(p, "signal") THEN {Top(p).event} ELSE {}

\* A call of p that holds a mutex: of the deps of a signalled event, those it
\* has still to signal, and the one it is about to signal, are not told yet.
FrameRight(p, f) ==
    /\ f.op \in Holding => holder[f.event] = p
    /\ f.op = "deps" =>
         Elements(deps[f.event]) \subseteq told[f.event] \cup Elements(f.rest) \cup Pending(p)
    /\ f.op = "register" /\ signalled[f.event] =>
         Elements(deps[f.event]) \cup {f.dep} \subseteq told[f.event] \cup Pending(p)

AnyTypes ==
    /\ size \in 0..MaxEvents
    /\ signalled \in [AnyEvent -> BOOLEAN]
    /\ deps \in [AnyEvent -> Seq(AnyEvent)]
    /\ holder \in [AnyEvent -> Caller \cup {NoOne}]
    /\ stack \in [Caller -> Seq(Frame)]
    /\ told \in [AnyEvent -> SUBSET AnyEvent]

FramesRight ==
    \A p \in Caller : LocksDiffer(stack[p]) /\ \A f \in Elements(stack[p]) : FrameRight(p, f)

\* Of an event that nobody holds all deps are told.
FreeAreTold ==
    \A e \in AnyEvent : signalled[e] /\ holder[e] = NoOne => Elements(deps[e]) \subseteq told[e]

AnyInv == AnyTypes /\ FramesRight /\ FreeAreTold

\* A new innermost call decides which event is about to be signalled.
LEMMA PendingFacts ==
    ASSUME NEW p \in Caller, NEW s \in Seq(Frame), NEW f \in Frame, stack'[p] = <<f>> \o s
    PROVE  Pending(p)' = IF f.op = "signal" THEN {f.event} ELSE {}
  <1>1. <<f>> \o s # <<>> /\ Head(<<f>> \o s) = f
    BY PushFacts
  <1> QED BY ZenonT(30), <1>1 DEF Pending, In, Top

\* What a caller's frame says stays true of an event whose deps and signal are
\* not touched, as long as what is told is not forgotten.
LEMMA FrameKept ==
    ASSUME NEW p \in Caller, NEW f \in Frame, FrameRight(p, f),
           f.op \in Holding =>
             /\ holder'[f.event] = holder[f.event] /\ deps'[f.event] = deps[f.event]
             /\ signalled'[f.event] = signalled[f.event]
             /\ told[f.event] \subseteq told'[f.event]
             /\ Pending(p) \subseteq Pending(p)' \cup told'[f.event]
    PROVE  FrameRight(p, f)'
  <1>1. f.op \notin Holding => f.op # "deps" /\ f.op # "register"
    BY DEF Holding
  <1> QED BY ZenonT(30), <1>1 DEF FrameRight

\* A step of p leaves the other callers' frames right if it leaves the events
\* alone that they hold, and p's own if it leaves the right ones.
LEMMA StackStep ==
    ASSUME AnyInv, NEW p \in Caller, NEW s \in Seq(Frame),
           stack' = [stack EXCEPT ![p] = s], LocksDiffer(s),
           \A f \in Elements(s) : FrameRight(p, f)',
           \A e \in AnyEvent : holder[e] \in Caller \ {p} =>
             /\ holder'[e] = holder[e] /\ deps'[e] = deps[e] /\ signalled'[e] = signalled[e]
             /\ told[e] \subseteq told'[e]
    PROVE  stack' \in [Caller -> Seq(Frame)] /\ FramesRight'
  <1>0. stack \in [Caller -> Seq(Frame)]
    BY DEF AnyInv, AnyTypes
  <1>1. /\ stack' \in [Caller -> Seq(Frame)] /\ stack'[p] = s
        /\ \A q \in Caller : q # p => stack'[q] = stack[q]
    BY <1>0
  <1>2. ASSUME NEW q \in Caller, q # p, NEW f \in Elements(stack[q]) PROVE FrameRight(q, f)'
    <2>1. f \in Frame /\ FrameRight(q, f)
      <3>1. f \in Frame
        BY <1>0, <1>2 DEF Elements
      <3> QED BY ZenonT(30), <1>2, <3>1 DEF AnyInv, FramesRight
    <2>2. Pending(q)' = Pending(q)
      BY ZenonT(30), <1>1, <1>2 DEF Pending, In, Top
    <2>3. f.op \in Holding => f.event \in AnyEvent /\ holder[f.event] = q
      BY ZenonT(30), <2>1 DEF Frame, Holding, FrameRight
    <2>4. q \in Caller \ {p}
      BY ZenonT(30), <1>2
    <2> QED BY ZenonT(30), <2>1, <2>2, <2>3, <2>4, FrameKept
  <1>3. ASSUME NEW q \in Caller PROVE LocksDiffer(stack'[q]) /\ \A f \in Elements(stack'[q]) : FrameRight(q, f)'
    <2>1. CASE q = p
      BY ZenonT(30), <1>1, <2>1
    <2>2. CASE q # p
      BY ZenonT(30), <1>1, <1>2, <2>2 DEF AnyInv, FramesRight
    <2> QED BY ZenonT(30), <2>1, <2>2
  <1> QED BY ZenonT(30), <1>1, <1>3 DEF FramesRight

\* What is known of a caller's stack before a step.
LEMMA StackFacts ==
    ASSUME AnyInv, NEW p \in Caller
    PROVE  /\ stack[p] \in Seq(Frame) /\ LocksDiffer(stack[p])
           /\ \A f \in Elements(stack[p]) : f \in Frame /\ FrameRight(p, f)
           /\ stack[p] # <<>> =>
                /\ Top(p) \in Frame /\ Top(p) \in Elements(stack[p])
                /\ Tail(stack[p]) \in Seq(Frame) /\ LocksDiffer(Tail(stack[p]))
                /\ Elements(Tail(stack[p])) \subseteq Elements(stack[p])
                /\ Top(p).op \in Holding =>
                     \A g \in Elements(Tail(stack[p])) : g.op \in Holding => g.event # Top(p).event
  <1>1. stack[p] \in Seq(Frame) /\ LocksDiffer(stack[p])
    BY ZenonT(30) DEF AnyInv, AnyTypes, FramesRight
  <1>2. \A f \in Elements(stack[p]) : f \in Frame /\ FrameRight(p, f)
    <2>1. \A f \in Elements(stack[p]) : f \in Frame
      BY <1>1 DEF Elements
    <2> QED BY ZenonT(30), <2>1 DEF AnyInv, FramesRight
  <1>3. ASSUME stack[p] # <<>>
        PROVE  /\ Top(p) \in Frame /\ Top(p) \in Elements(stack[p])
               /\ Tail(stack[p]) \in Seq(Frame) /\ LocksDiffer(Tail(stack[p]))
               /\ Elements(Tail(stack[p])) \subseteq Elements(stack[p])
               /\ Top(p).op \in Holding =>
                    \A g \in Elements(Tail(stack[p])) : g.op \in Holding => g.event # Top(p).event
    BY ZenonT(30), <1>1, <1>3, PopFacts DEF Top
  <1> QED BY ZenonT(30), <1>1, <1>2, <1>3

\* Nobody has a frame that holds the mutex of an event that is free.
LEMMA FreeFacts ==
    ASSUME AnyInv, NEW p \in Caller, NEW f \in Elements(stack[p]), f.op \in Holding
    PROVE  f.event \in AnyEvent /\ holder[f.event] = p /\ holder[f.event] # NoOne
  <1>1. f \in Frame /\ FrameRight(p, f)
    BY ZenonT(30), StackFacts
  <1>2. f.event \in AnyEvent
    BY ZenonT(30), <1>1 DEF Frame, Holding
  <1> QED BY ZenonT(30), <1>1, <1>2, AnyAssumption DEF FrameRight

\* The frames that the calls push.
LEMMA FrameTypes ==
    /\ \A e \in AnyEvent : SignalCall(e) \in Frame
    /\ \A e \in AnyEvent, ds \in Seq(AnyEvent) : DepsCall(e, ds) \in Frame
    /\ \A es \in Seq(AnyEvent), d \in AnyEvent : AnyCall(es, d) \in Frame
    /\ \A e \in AnyEvent, es \in Seq(AnyEvent), d \in AnyEvent : RegisterCall(e, es, d) \in Frame
  <1>1. MaxEvents \in Nat /\ <<>> \in Seq(AnyEvent)
    BY AnyAssumption
  <1>2. \A e \in AnyEvent : SignalCall(e) \in Frame
    BY <1>1 DEF AnyEvent, SignalCall, Frame
  <1>3. \A e \in AnyEvent, ds \in Seq(AnyEvent) : DepsCall(e, ds) \in Frame
    BY <1>1 DEF AnyEvent, DepsCall, Frame
  <1>4. \A es \in Seq(AnyEvent), d \in AnyEvent : AnyCall(es, d) \in Frame
    BY <1>1 DEF AnyEvent, AnyCall, Frame
  <1>5. \A e \in AnyEvent, es \in Seq(AnyEvent), d \in AnyEvent : RegisterCall(e, es, d) \in Frame
    BY <1>1 DEF AnyEvent, RegisterCall, Frame
  <1> QED BY ZenonT(30), <1>2, <1>3, <1>4, <1>5

\* Where a caller stands that begins a call: it has made no other.
LEMMA EntryFacts ==
    ASSUME AnyInv, NEW p \in Caller, stack[p] = <<>>, NEW f \in Frame, f.op \notin Holding,
           Push(p, f), UNCHANGED <<deps, holder, signalled, told>>
    PROVE  stack' \in [Caller -> Seq(Frame)] /\ FramesRight'
  <1> DEFINE s == <<f>> \o stack[p]
  <1>1. stack[p] \in Seq(Frame) /\ LocksDiffer(stack[p])
    BY ZenonT(30), StackFacts
  <1>2. Elements(stack[p]) = {}
    BY DEF Elements
  <1>3. s \in Seq(Frame) /\ Elements(s) = {f} /\ LocksDiffer(s)
    <2>1. s \in Seq(Frame) /\ Elements(s) = Elements(stack[p]) \cup {f}
      BY ZenonT(30), <1>1, PushFacts
    <2>2. LocksDiffer(s)
      BY ZenonT(30), <1>1, PushLocks
    <2> QED BY ZenonT(30), <1>2, <2>1, <2>2
  <1>4. \A g \in Elements(s) : FrameRight(p, g)'
    BY ZenonT(30), <1>3 DEF FrameRight, Holding
  <1>5. stack' = [stack EXCEPT ![p] = s]
    BY DEF Push
  <1> HIDE DEF s
  <1> QED BY ZenonT(30), <1>3, <1>4, <1>5, StackStep

\* The calls that begin, and the ones that take a signal.
LEMMA CallSteps ==
    ASSUME AnyInv, NEW p \in Caller,
           \/ \E e \in Known : CallSignal(p, e) \/ Take(p, e)
           \/ \E n \in 0..MaxArgs : \E es \in [1..n -> Known] : CallAny(p, es)
    PROVE  AnyInv'
  <1>0. AnyTypes /\ size \in 0..MaxEvents /\ MaxEvents \in Nat
    BY AnyAssumption DEF AnyInv, AnyTypes
  <1>1. Known \subseteq AnyEvent
    BY <1>0 DEF Known, Event, AnyEvent
  <1>2. ASSUME NEW e \in Known, CallSignal(p, e) PROVE AnyInv'
    <2>1. /\ stack[p] = <<>> /\ Push(p, SignalCall(e))
          /\ UNCHANGED <<size, signalled, deps, holder, told>>
      BY ZenonT(30), <1>2 DEF CallSignal, BeginCall
    <2>2. SignalCall(e) \in Frame
      BY ZenonT(30), <1>1, FrameTypes
    <2>3. SignalCall(e).op \notin Holding
      BY DEF SignalCall, Holding
    <2>4. stack' \in [Caller -> Seq(Frame)] /\ FramesRight'
      BY ZenonT(30), <2>1, <2>2, <2>3, EntryFacts
    <2> QED BY ZenonT(30), <2>1, <2>4 DEF AnyInv, AnyTypes, FreeAreTold
  <1>3. ASSUME NEW n \in 0..MaxArgs, NEW es \in [1..n -> Known], CallAny(p, es) PROVE AnyInv'
    <2>1. /\ stack[p] = <<>> /\ Push(p, AnyCall(es, size + 1)) /\ size < MaxEvents
          /\ size' = size + 1 /\ UNCHANGED <<signalled, deps, holder, told>>
      BY ZenonT(30), <1>3 DEF CallAny, BeginCall
    <2>2. size + 1 \in AnyEvent /\ size' \in 0..MaxEvents
      BY <1>0, <2>1 DEF AnyEvent
    <2>3. es \in Seq(AnyEvent)
      BY <1>1, AnyAssumption
    <2>4. AnyCall(es, size + 1) \in Frame
      BY ZenonT(30), <2>2, <2>3, FrameTypes
    <2>5. AnyCall(es, size + 1).op \notin Holding
      BY DEF AnyCall, Holding
    <2>6. stack' \in [Caller -> Seq(Frame)] /\ FramesRight'
      BY ZenonT(30), <2>1, <2>4, <2>5, EntryFacts
    <2> QED BY ZenonT(30), <2>1, <2>2, <2>6 DEF AnyInv, AnyTypes, FreeAreTold
  <1>4. ASSUME NEW e \in Known, Take(p, e) PROVE AnyInv'
    <2>1. /\ holder[e] = NoOne /\ signalled' = [signalled EXCEPT ![e] = FALSE]
          /\ UNCHANGED <<size, deps, holder, stack, told>>
      BY ZenonT(30), <1>4 DEF Take
    <2>2. /\ signalled' \in [AnyEvent -> BOOLEAN] /\ ~signalled'[e]
          /\ \A d \in AnyEvent : d # e => signalled'[d] = signalled[d]
      BY <1>0, <1>1, <2>1 DEF AnyTypes
    <2>3. ASSUME NEW q \in Caller, NEW f \in Elements(stack[q]) PROVE FrameRight(q, f)'
      <3>1. f \in Frame /\ FrameRight(q, f)
        BY ZenonT(30), StackFacts
      <3>2. f.op \in Holding => f.event \in AnyEvent /\ f.event # e
        BY ZenonT(30), <2>1, FreeFacts
      <3>3. Pending(q)' = Pending(q)
        BY ZenonT(30), <2>1 DEF Pending, In, Top
      <3> QED BY ZenonT(30), <2>1, <2>2, <3>1, <3>2, <3>3, FrameKept
    <2>4. FramesRight'
      BY ZenonT(30), <2>1, <2>3 DEF FramesRight, AnyInv
    <2>5. FreeAreTold'
      BY ZenonT(30), <2>1, <2>2 DEF FreeAreTold, AnyInv
    <2> QED BY ZenonT(30), <1>0, <2>1, <2>2, <2>4, <2>5 DEF AnyInv, AnyTypes
  <1> QED BY ZenonT(30), <1>2, <1>3, <1>4

\* signal() locks its event.
LEMMA SignalLockStep ==
    ASSUME AnyInv, NEW p \in Caller, SignalLock(p)
    PROVE  AnyInv'
  <1>0. AnyTypes /\ AnyInv /\ FreeAreTold
    BY DEF AnyInv
  <1>a. stack[p] # <<>> /\ Top(p).op = "signal" /\ Top(p).op # "any" /\ UNCHANGED <<size, deps>>
    BY ZenonT(30) DEF SignalLock, In
  <1>b. PICK e \in AnyEvent, t \in Seq(Frame) : e = Top(p).event /\ t = Tail(stack[p])
    BY ZenonT(30), <1>a, StackFacts DEF Frame
  <1>1. holder[e] = NoOne
    BY ZenonT(30), <1>b DEF SignalLock
  <1>2. /\ Top(p) \in Frame /\ t \in Seq(Frame) /\ LocksDiffer(t)
        /\ \A f \in Elements(t) : f \in Frame /\ FrameRight(p, f) /\ f \in Elements(stack[p])
    BY ZenonT(30), <1>a, <1>b, StackFacts
  <1>3. Pending(p) = {e}
    BY ZenonT(30), <1>a, <1>b DEF Pending, In
  <1>4. \A q \in Caller : \A f \in Elements(stack[q]) : f.op \in Holding => f.event \in AnyEvent /\ f.event # e
    BY ZenonT(30), <1>1, FreeFacts
  <1>5. CASE signalled[e]
    <2>1. /\ stack' = [stack EXCEPT ![p] = t] /\ told' = [d \in AnyEvent |-> told[d] \cup {e}]
          /\ UNCHANGED <<signalled, holder>>
      BY ZenonT(30), <1>b, <1>5 DEF SignalLock, Pop, Tell
    <2>2. /\ told' \in [AnyEvent -> SUBSET AnyEvent]
          /\ \A d \in AnyEvent : told'[d] = told[d] \cup {e}
      BY <1>0, <1>3, <2>1 DEF AnyTypes
    <2>3. \A f \in Elements(t) : FrameRight(p, f)'
      BY ZenonT(30), <1>a, <1>2, <1>3, <1>4, <2>1, <2>2, FrameKept
    <2>4. stack' \in [Caller -> Seq(Frame)] /\ FramesRight'
      BY ZenonT(30), <1>0, <1>a, <1>1, <1>2, <2>1, <2>2, <2>3, StackStep
    <2>5. FreeAreTold'
      BY ZenonT(30), <1>0, <1>a, <1>1, <2>1, <2>2 DEF FreeAreTold
    <2> QED BY ZenonT(30), <1>0, <1>a, <1>1, <2>1, <2>2, <2>4, <2>5 DEF AnyInv, AnyTypes
  <1>6. CASE ~signalled[e]
    <2>0. PICK g \in Frame : /\ g = DepsCall(e, deps[e])
                             /\ g.op = "deps" /\ g.event = e /\ g.rest = deps[e]
      <3>1. DepsCall(e, deps[e]) \in Frame
        BY ZenonT(30), <1>0, FrameTypes DEF AnyTypes
      <3> QED BY ZenonT(30), <3>1 DEF DepsCall
    <2>1. /\ stack' = [stack EXCEPT ![p] = <<g>> \o t]
          /\ holder' = [holder EXCEPT ![e] = p]
          /\ signalled' = [signalled EXCEPT ![e] = TRUE]
          /\ told' = [[d \in AnyEvent |-> told[d] \cup {e}] EXCEPT ![e] = {}]
      BY ZenonT(30), <1>b, <1>6, <2>0 DEF SignalLock, Become, Tell
    <2>2. g.op \in Holding /\ g.op # "register"
      BY ZenonT(30), <2>0 DEF Holding
    <2>3. /\ holder' \in [AnyEvent -> Caller \cup {NoOne}] /\ holder'[e] = p
          /\ signalled' \in [AnyEvent -> BOOLEAN]
          /\ \A d \in AnyEvent : d # e =>
               holder'[d] = holder[d] /\ signalled'[d] = signalled[d]
      BY <1>0, <1>3, <2>1 DEF AnyTypes
    <2>4. /\ told' \in [AnyEvent -> SUBSET AnyEvent]
          /\ \A d \in AnyEvent : d # e => told'[d] = told[d] \cup {e}
      BY <1>0, <1>3, <2>1 DEF AnyTypes
    <2>5. ASSUME NEW f \in Elements(t) PROVE FrameRight(p, f)'
      <3>1. f \in Frame /\ FrameRight(p, f) /\ (f.op \in Holding => f.event \in AnyEvent /\ f.event # e)
        BY ZenonT(30), <1>2, <1>4
      <3>2. f.op \in Holding => /\ holder'[f.event] = holder[f.event] /\ deps'[f.event] = deps[f.event]
                                /\ signalled'[f.event] = signalled[f.event]
                                /\ told'[f.event] = told[f.event] \cup {e}
        BY ZenonT(30), <1>a, <2>3, <2>4, <3>1
      <3> QED BY ZenonT(30), <1>3, <3>1, <3>2, FrameKept
    <2>6. FrameRight(p, g)'
      BY ZenonT(30), <1>a, <2>0, <2>2, <2>3 DEF FrameRight
    <2>7. /\ <<g>> \o t \in Seq(Frame) /\ LocksDiffer(<<g>> \o t)
          /\ \A f \in Elements(<<g>> \o t) : FrameRight(p, f)'
      <3>1. <<g>> \o t \in Seq(Frame) /\ Elements(<<g>> \o t) = Elements(t) \cup {g}
        BY ZenonT(30), PushFacts
      <3>2. \A f \in Elements(t) : f.op \in Holding => f.event # g.event
        BY ZenonT(30), <1>2, <1>4, <2>0
      <3>3. LocksDiffer(<<g>> \o t)
        BY ZenonT(30), <1>2, <2>2, <3>2, PushLocks
      <3> QED BY ZenonT(30), <2>5, <2>6, <3>1, <3>3
    <2>8. \A d \in AnyEvent : holder[d] \in Caller \ {p} => d # e
      BY ZenonT(30), <1>1, AnyAssumption
    <2>9. stack' \in [Caller -> Seq(Frame)] /\ FramesRight'
      BY ZenonT(30), <1>0, <1>a, <1>1, <2>1, <2>3, <2>4, <2>7, <2>8, StackStep
    <2>10. FreeAreTold'
      BY ZenonT(30), <1>0, <1>a, <1>1, <2>3, <2>4, AnyAssumption DEF FreeAreTold
    <2> QED BY ZenonT(30), <1>0, <1>a, <1>1, <2>3, <2>4, <2>9, <2>10 DEF AnyInv, AnyTypes
  <1> QED BY ZenonT(30), <1>5, <1>6

\* signal() goes on to the next of the deps.
LEMMA SignalDepStep ==
    ASSUME AnyInv, NEW p \in Caller, SignalDep(p)
    PROVE  AnyInv'
  <1>0. AnyTypes /\ AnyInv /\ FreeAreTold
    BY DEF AnyInv
  <1>1. /\ stack[p] # <<>> /\ Top(p).op = "deps" /\ Top(p).op # "any" /\ Top(p).rest # <<>>
        /\ UNCHANGED <<size, signalled, deps, holder, told>>
    BY ZenonT(30) DEF SignalDep, In
  <1>2. PICK e \in AnyEvent, t \in Seq(Frame), r \in Seq(AnyEvent) :
          e = Top(p).event /\ t = Tail(stack[p]) /\ r = Top(p).rest
    <2>1. Top(p).rest \in Seq(AnyEvent)
      BY ZenonT(30), <1>1, StackFacts DEF Frame
    <2> QED BY ZenonT(30), <1>1, <2>1, StackFacts DEF Frame
  <1>3. /\ LocksDiffer(t)
        /\ \A f \in Elements(t) : f \in Frame /\ FrameRight(p, f) /\ f \in Elements(stack[p])
        /\ \A f \in Elements(t) : f.op \in Holding => f.event # e
        /\ Top(p) \in Frame /\ FrameRight(p, Top(p)) /\ Top(p) \in Elements(stack[p])
    <2>1. Top(p).op \in Holding
      BY ZenonT(30), <1>1 DEF Holding
    <2> QED BY ZenonT(30), <1>1, <1>2, <2>1, StackFacts
  <1>4. /\ Head(r) \in AnyEvent /\ Tail(r) \in Seq(AnyEvent)
        /\ Elements(r) = Elements(Tail(r)) \cup {Head(r)}
    BY ZenonT(30), <1>1, <1>2, PopFacts
  <1>5. PICK g \in Frame, c \in Frame :
          /\ g = DepsCall(e, Tail(r)) /\ c = SignalCall(Head(r))
          /\ g.op = "deps" /\ g.event = e /\ g.rest = Tail(r)
          /\ c.op = "signal" /\ c.event = Head(r)
    <2>1. DepsCall(e, Tail(r)) \in Frame /\ SignalCall(Head(r)) \in Frame
      BY ZenonT(30), <1>4, FrameTypes
    <2> QED BY ZenonT(30), <2>1 DEF DepsCall, SignalCall
  <1>6. stack' = [stack EXCEPT ![p] = <<c>> \o (<<g>> \o t)]
    BY ZenonT(30), <1>2, <1>5 DEF SignalDep, Enter
  <1>7. PICK u \in Seq(Frame) : u = <<g>> \o t /\ Elements(u) = Elements(t) \cup {g} /\ LocksDiffer(u)
    <2>1. <<g>> \o t \in Seq(Frame) /\ Elements(<<g>> \o t) = Elements(t) \cup {g}
      BY ZenonT(30), PushFacts
    <2>2. LocksDiffer(<<g>> \o t)
      BY ZenonT(30), <1>3, <1>5, PushLocks
    <2> QED BY ZenonT(30), <2>1, <2>2
  <1>8. PICK s \in Seq(Frame) : s = <<c>> \o u /\ Elements(s) = Elements(u) \cup {c} /\ LocksDiffer(s)
    <2>1. <<c>> \o u \in Seq(Frame) /\ Elements(<<c>> \o u) = Elements(u) \cup {c}
      BY ZenonT(30), PushFacts
    <2>2. c.op \notin Holding
      BY <1>5 DEF Holding
    <2>3. LocksDiffer(<<c>> \o u)
      BY ZenonT(30), <1>7, <2>2, PushLocks
    <2> QED BY ZenonT(30), <2>1, <2>3
  <1>9. /\ Pending(p) = {} /\ Pending(p)' = {Head(r)}
    <2>1. stack'[p] = <<c>> \o u
      BY <1>0, <1>6, <1>7 DEF AnyTypes
    <2>2. Pending(p)' = {Head(r)}
      BY ZenonT(30), <1>5, <2>1, PendingFacts
    <2>3. ~In(p, "signal")
      BY <1>1 DEF In
    <2> QED BY ZenonT(30), <2>2, <2>3 DEF Pending
  <1>10. ASSUME NEW f \in Elements(s) PROVE FrameRight(p, f)'
    <2>1. CASE f \in Elements(t)
      BY ZenonT(30), <1>1, <1>3, <1>9, <2>1, FrameKept
    <2>2. CASE f = g
      <3>1. /\ holder[e] = p
            /\ Elements(deps[e]) \subseteq told[e] \cup Elements(r) \cup Pending(p)
        <4>1. Top(p).op \in Holding
          BY ZenonT(30), <1>1 DEF Holding
        <4> QED BY ZenonT(30), <1>1, <1>2, <1>3, <4>1 DEF FrameRight
      <3>2. Elements(deps[e]) \subseteq told[e] \cup Elements(Tail(r)) \cup {Head(r)}
        BY ZenonT(30), <1>4, <1>9, <3>1
      <3>3. g.op # "register"
        BY <1>5
      <3> QED BY ZenonT(30), <1>1, <1>5, <1>9, <2>2, <3>1, <3>2, <3>3 DEF FrameRight
    <2>3. CASE f = c
      <3>1. c.op \notin Holding /\ c.op # "deps" /\ c.op # "register"
        BY <1>5 DEF Holding
      <3> QED BY ZenonT(30), <2>3, <3>1 DEF FrameRight
    <2> QED BY ZenonT(30), <1>7, <1>8, <2>1, <2>2, <2>3
  <1>11. stack' \in [Caller -> Seq(Frame)] /\ FramesRight'
    <2>1. stack' = [stack EXCEPT ![p] = s]
      BY ZenonT(30), <1>6, <1>7, <1>8
    <2> QED BY ZenonT(30), <1>0, <1>1, <1>8, <1>10, <2>1, StackStep
  <1> QED BY ZenonT(30), <1>0, <1>1, <1>11 DEF AnyInv, AnyTypes, FreeAreTold

\* signal() unlocks its event when all deps are told.
LEMMA SignalUnlockStep ==
    ASSUME AnyInv, NEW p \in Caller, SignalUnlock(p)
    PROVE  AnyInv'
  <1>0. AnyTypes /\ AnyInv /\ FreeAreTold
    BY DEF AnyInv
  <1>1. /\ stack[p] # <<>> /\ Top(p).op = "deps" /\ Top(p).op # "any" /\ Top(p).op \in Holding
        /\ Top(p).rest = <<>> /\ UNCHANGED <<size, signalled, deps, told>>
    BY ZenonT(30) DEF SignalUnlock, In, Holding
  <1>2. PICK e \in AnyEvent, t \in Seq(Frame) : e = Top(p).event /\ t = Tail(stack[p])
    BY ZenonT(30), <1>1, StackFacts DEF Frame
  <1>3. /\ LocksDiffer(t)
        /\ \A f \in Elements(t) : f \in Frame /\ FrameRight(p, f) /\ f \in Elements(stack[p])
        /\ \A f \in Elements(t) : f.op \in Holding => f.event # e
        /\ FrameRight(p, Top(p)) /\ Top(p) \in Elements(stack[p])
    BY ZenonT(30), <1>1, <1>2, StackFacts
  <1>4. holder' = [holder EXCEPT ![e] = NoOne] /\ stack' = [stack EXCEPT ![p] = t]
    BY ZenonT(30), <1>2 DEF SignalUnlock, Pop
  <1>5. /\ holder' \in [AnyEvent -> Caller \cup {NoOne}]
        /\ \A d \in AnyEvent : d # e => holder'[d] = holder[d]
    BY <1>0, <1>4 DEF AnyTypes
  <1>6. Pending(p) = {} /\ Elements(Top(p).rest) = {}
    <2>1. ~In(p, "signal")
      BY <1>1 DEF In
    <2>2. Elements(Top(p).rest) = {}
      BY <1>1 DEF Elements
    <2> QED BY ZenonT(30), <2>1, <2>2 DEF Pending
  <1>7. Elements(deps[e]) \subseteq told[e] /\ holder[e] = p
    BY ZenonT(30), <1>1, <1>2, <1>3, <1>6 DEF FrameRight
  <1>8. ASSUME NEW f \in Elements(t) PROVE FrameRight(p, f)'
    <2>1. f.op \in Holding => f.event \in AnyEvent /\ holder'[f.event] = holder[f.event]
      BY ZenonT(30), <1>3, <1>5, FreeFacts
    <2> QED BY ZenonT(30), <1>1, <1>3, <1>6, <2>1, FrameKept
  <1>9. stack' \in [Caller -> Seq(Frame)] /\ FramesRight'
    <2>1. \A d \in AnyEvent : holder[d] \in Caller \ {p} => holder'[d] = holder[d]
      BY ZenonT(30), <1>5, <1>7
    <2> QED BY ZenonT(30), <1>0, <1>1, <1>3, <1>4, <1>8, <2>1, StackStep
  <1>10. FreeAreTold'
    BY ZenonT(30), <1>0, <1>1, <1>5, <1>7 DEF FreeAreTold
  <1> QED BY ZenonT(30), <1>0, <1>1, <1>5, <1>9, <1>10 DEF AnyInv, AnyTypes

\* any() locks an event, and signals the new one if that event is signalled.
LEMMA AnyLockStep ==
    ASSUME AnyInv, NEW p \in Caller, AnyLock(p)
    PROVE  AnyInv'
  <1>0. AnyTypes /\ AnyInv /\ FreeAreTold
    BY DEF AnyInv
  <1>1. /\ stack[p] # <<>> /\ Top(p).op = "any" /\ Top(p).rest # <<>>
        /\ UNCHANGED <<size, signalled, deps, told>>
    BY ZenonT(30) DEF AnyLock, In
  <1>2. PICK e \in AnyEvent, d \in AnyEvent, t \in Seq(Frame) :
          e = Head(Top(p).rest) /\ d = Top(p).dep /\ t = Tail(stack[p])
    <2>1. Top(p) \in Frame /\ Tail(stack[p]) \in Seq(Frame)
      BY ZenonT(30), <1>1, StackFacts
    <2>2. Top(p).rest \in Seq(AnyEvent) /\ Top(p).dep \in AnyEvent
      BY ZenonT(30), <1>1, <2>1 DEF Frame
    <2>3. Head(Top(p).rest) \in AnyEvent
      BY ZenonT(30), <1>1, <2>2, PopFacts
    <2> QED BY ZenonT(30), <2>1, <2>2, <2>3
  <1>3. /\ LocksDiffer(t) /\ Top(p) \in Frame
        /\ \A f \in Elements(t) : f \in Frame /\ FrameRight(p, f) /\ f \in Elements(stack[p])
    BY ZenonT(30), <1>1, <1>2, StackFacts
  <1>4. holder[e] = NoOne /\ holder' = [holder EXCEPT ![e] = p]
    BY ZenonT(30), <1>2 DEF AnyLock
  <1>5. /\ holder' \in [AnyEvent -> Caller \cup {NoOne}] /\ holder'[e] = p
        /\ \A x \in AnyEvent : x # e => holder'[x] = holder[x]
    BY <1>0, <1>4 DEF AnyTypes
  <1>6. \A f \in Elements(t) : f.op \in Holding => f.event \in AnyEvent /\ f.event # e
    BY ZenonT(30), <1>3, <1>4, FreeFacts
  <1>7. PICK g \in Frame :
          /\ g = RegisterCall(e, Tail(Top(p).rest), d)
          /\ g.op = "register" /\ g.event = e /\ g.dep = d
    <2>1. Tail(Top(p).rest) \in Seq(AnyEvent)
      <3>1. Top(p).rest \in Seq(AnyEvent)
        BY ZenonT(30), <1>3 DEF Frame
      <3> QED BY ZenonT(30), <1>1, <3>1, PopFacts
    <2>2. RegisterCall(e, Tail(Top(p).rest), d) \in Frame
      BY ZenonT(30), <2>1, FrameTypes
    <2> QED BY ZenonT(30), <2>2 DEF RegisterCall
  <1>8. PICK u \in Seq(Frame) : u = <<g>> \o t /\ Elements(u) = Elements(t) \cup {g} /\ LocksDiffer(u)
    <2>1. <<g>> \o t \in Seq(Frame) /\ Elements(<<g>> \o t) = Elements(t) \cup {g}
      BY ZenonT(30), PushFacts
    <2>2. LocksDiffer(<<g>> \o t)
      BY ZenonT(30), <1>3, <1>6, <1>7, PushLocks
    <2> QED BY ZenonT(30), <2>1, <2>2
  <1>9. Pending(p) = {}
    <2>1. ~In(p, "signal")
      BY <1>1 DEF In
    <2> QED BY ZenonT(30), <2>1 DEF Pending
  <1>10. \A f \in Elements(t) : FrameRight(p, f)'
    BY ZenonT(30), <1>1, <1>3, <1>5, <1>6, <1>9, FrameKept
  <1>11. FreeAreTold'
    BY ZenonT(30), <1>0, <1>1, <1>5, AnyAssumption DEF FreeAreTold
  <1>12. \A x \in AnyEvent : holder[x] \in Caller \ {p} => holder'[x] = holder[x]
    BY ZenonT(30), <1>4, <1>5, AnyAssumption
  <1>13. g.op \in Holding /\ g.op # "deps"
    BY <1>7 DEF Holding
  <1>14. CASE signalled[e]
    <2>1. PICK c \in Frame : c = SignalCall(d) /\ c.op = "signal" /\ c.event = d
      <3>1. SignalCall(d).op = "signal" /\ SignalCall(d).event = d
        BY DEF SignalCall
      <3> QED BY ZenonT(30), <3>1, FrameTypes
    <2>2. stack' = [stack EXCEPT ![p] = <<c>> \o (<<g>> \o t)]
      BY ZenonT(30), <1>2, <1>7, <1>14, <2>1 DEF AnyLock, Enter
    <2>3. PICK s \in Seq(Frame) : s = <<c>> \o u /\ Elements(s) = Elements(u) \cup {c} /\ LocksDiffer(s)
      <3>1. <<c>> \o u \in Seq(Frame) /\ Elements(<<c>> \o u) = Elements(u) \cup {c}
        BY ZenonT(30), PushFacts
      <3>2. c.op \notin Holding
        BY <2>1 DEF Holding
      <3>3. LocksDiffer(<<c>> \o u)
        BY ZenonT(30), <1>8, <3>2, PushLocks
      <3> QED BY ZenonT(30), <3>1, <3>3
    <2>4. Pending(p)' = {d}
      <3>1. stack'[p] = <<c>> \o u
        BY <1>0, <1>8, <2>2 DEF AnyTypes
      <3> QED BY ZenonT(30), <2>1, <3>1, PendingFacts
    <2>5. FrameRight(p, c)'
      <3>1. c.op \notin Holding /\ c.op # "deps" /\ c.op # "register"
        BY <2>1 DEF Holding
      <3> QED BY ZenonT(30), <3>1 DEF FrameRight
    <2>6. FrameRight(p, g)'
      <3>1. Elements(deps[e]) \subseteq told[e]
        BY ZenonT(30), <1>0, <1>4, <1>14 DEF FreeAreTold
      <3> QED BY ZenonT(30), <1>1, <1>5, <1>7, <1>13, <2>4, <3>1 DEF FrameRight
    <2>7. \A f \in Elements(s) : FrameRight(p, f)'
      BY ZenonT(30), <1>8, <1>10, <2>3, <2>5, <2>6
    <2>8. stack' = [stack EXCEPT ![p] = s]
      BY ZenonT(30), <1>8, <2>2, <2>3
    <2>9. stack' \in [Caller -> Seq(Frame)] /\ FramesRight'
      BY ZenonT(30), <1>0, <1>1, <1>12, <2>3, <2>7, <2>8, StackStep
    <2> QED BY ZenonT(30), <1>0, <1>1, <1>5, <1>11, <2>9 DEF AnyInv, AnyTypes
  <1>15. CASE ~signalled[e]
    <2>1. stack' = [stack EXCEPT ![p] = u]
      BY ZenonT(30), <1>2, <1>7, <1>8, <1>15 DEF AnyLock, Become
    <2>2. FrameRight(p, g)'
      BY ZenonT(30), <1>1, <1>5, <1>7, <1>13, <1>15 DEF FrameRight
    <2>3. \A f \in Elements(u) : FrameRight(p, f)'
      BY ZenonT(30), <1>8, <1>10, <2>2
    <2>4. stack' \in [Caller -> Seq(Frame)] /\ FramesRight'
      BY ZenonT(30), <1>0, <1>1, <1>8, <1>12, <2>1, <2>3, StackStep
    <2> QED BY ZenonT(30), <1>0, <1>1, <1>5, <1>11, <2>4 DEF AnyInv, AnyTypes
  <1> QED BY ZenonT(30), <1>14, <1>15

\* any() hangs the new event on the one it holds, and unlocks that.
LEMMA AnyRegisterStep ==
    ASSUME AnyInv, NEW p \in Caller, AnyRegister(p)
    PROVE  AnyInv'
  <1>0. AnyTypes /\ AnyInv /\ FreeAreTold
    BY DEF AnyInv
  <1>1. /\ stack[p] # <<>> /\ Top(p).op = "register" /\ Top(p).op # "any" /\ Top(p).op \in Holding
        /\ UNCHANGED <<size, signalled, told>>
    BY ZenonT(30) DEF AnyRegister, In, Holding
  <1>2. PICK e \in AnyEvent, d \in AnyEvent, t \in Seq(Frame) :
          e = Top(p).event /\ d = Top(p).dep /\ t = Tail(stack[p])
    BY ZenonT(30), <1>1, StackFacts DEF Frame
  <1>3. /\ LocksDiffer(t)
        /\ \A f \in Elements(t) : f \in Frame /\ FrameRight(p, f) /\ f \in Elements(stack[p])
        /\ \A f \in Elements(t) : f.op \in Holding => f.event # e
        /\ FrameRight(p, Top(p)) /\ Top(p) \in Elements(stack[p]) /\ Top(p) \in Frame
    BY ZenonT(30), <1>1, <1>2, StackFacts
  <1>4. /\ holder' = [holder EXCEPT ![e] = NoOne]
        /\ deps' = [deps EXCEPT ![e] = Append(deps[e], d)]
    <2>1. deps' = [deps EXCEPT ![e] = Append(@, d)]
      BY ZenonT(30), <1>2 DEF AnyRegister
    <2> QED BY ZenonT(30), <1>2, <2>1 DEF AnyRegister
  <1>5. /\ Append(deps[e], d) \in Seq(AnyEvent) /\ deps[e] \in Seq(AnyEvent)
        /\ Elements(Append(deps[e], d)) = Elements(deps[e]) \cup {d}
    <2>1. deps[e] \in Seq(AnyEvent)
      BY <1>0 DEF AnyTypes
    <2> DEFINE u == Append(deps[e], d)
    <2>2. /\ u \in Seq(AnyEvent) /\ Len(u) = Len(deps[e]) + 1 /\ Len(deps[e]) \in Nat
          /\ u[Len(u)] = d /\ Len(u) \in 1..Len(u)
          /\ \A i \in 1..Len(deps[e]) : u[i] = deps[e][i] /\ i \in 1..Len(u)
      BY <2>1
    <2>3. \A i \in 1..Len(u) : i = Len(u) \/ i \in 1..Len(deps[e])
      BY <2>2
    <2> HIDE DEF u
    <2>4. ASSUME NEW x \in Elements(u) PROVE x \in Elements(deps[e]) \cup {d}
      <3>1. PICK i \in 1..Len(u) : x = u[i]
        BY ZenonT(30), <2>4 DEF Elements
      <3> QED BY ZenonT(30), <2>2, <2>3, <3>1 DEF Elements
    <2>5. ASSUME NEW x \in Elements(deps[e]) PROVE x \in Elements(u)
      <3>1. PICK i \in 1..Len(deps[e]) : x = deps[e][i]
        BY ZenonT(30), <2>5 DEF Elements
      <3> QED BY ZenonT(30), <2>2, <3>1 DEF Elements
    <2>6. d \in Elements(u)
      BY ZenonT(30), <2>2 DEF Elements
    <2>7. Elements(u) = Elements(deps[e]) \cup {d}
      BY ZenonT(30), <2>4, <2>5, <2>6
    <2> QED BY ZenonT(30), <2>1, <2>2, <2>7 DEF u
  <1>6. /\ holder' \in [AnyEvent -> Caller \cup {NoOne}]
        /\ deps' \in [AnyEvent -> Seq(AnyEvent)] /\ deps'[e] = Append(deps[e], d)
        /\ \A x \in AnyEvent : x # e => holder'[x] = holder[x] /\ deps'[x] = deps[x]
    BY <1>0, <1>4, <1>5 DEF AnyTypes
  <1>7. Pending(p) = {}
    <2>1. ~In(p, "signal")
      BY <1>1 DEF In
    <2> QED BY ZenonT(30), <2>1 DEF Pending
  <1>8. holder[e] = p /\ (signalled[e] => Elements(deps'[e]) \subseteq told[e])
    BY ZenonT(30), <1>1, <1>2, <1>3, <1>5, <1>6, <1>7 DEF FrameRight
  <1>9. PICK g \in Frame : g = AnyCall(Top(p).rest, d) /\ g.op = "any"
    <2>1. Top(p).rest \in Seq(AnyEvent)
      BY ZenonT(30), <1>3 DEF Frame
    <2>2. AnyCall(Top(p).rest, d) \in Frame
      BY ZenonT(30), <2>1, FrameTypes
    <2> QED BY ZenonT(30), <2>2 DEF AnyCall
  <1>10. PICK s \in Seq(Frame) : s = <<g>> \o t /\ Elements(s) = Elements(t) \cup {g} /\ LocksDiffer(s)
    <2>1. <<g>> \o t \in Seq(Frame) /\ Elements(<<g>> \o t) = Elements(t) \cup {g}
      BY ZenonT(30), PushFacts
    <2>2. g.op \notin Holding
      BY <1>9 DEF Holding
    <2>3. LocksDiffer(<<g>> \o t)
      BY ZenonT(30), <1>3, <2>2, PushLocks
    <2> QED BY ZenonT(30), <2>1, <2>3
  <1>11. stack' = [stack EXCEPT ![p] = s]
    BY ZenonT(30), <1>2, <1>9, <1>10 DEF AnyRegister, Become
  <1>12. ASSUME NEW f \in Elements(s) PROVE FrameRight(p, f)'
    <2>1. CASE f \in Elements(t)
      <3>1. f.op \in Holding => f.event \in AnyEvent /\ f.event # e
        BY ZenonT(30), <1>3, <2>1, FreeFacts
      <3> QED BY ZenonT(30), <1>1, <1>3, <1>6, <1>7, <2>1, <3>1, FrameKept
    <2>2. CASE f = g
      <3>1. g.op \notin Holding /\ g.op # "deps" /\ g.op # "register"
        BY <1>9 DEF Holding
      <3> QED BY ZenonT(30), <2>2, <3>1 DEF FrameRight
    <2> QED BY ZenonT(30), <1>10, <2>1, <2>2
  <1>13. stack' \in [Caller -> Seq(Frame)] /\ FramesRight'
    <2>1. \A x \in AnyEvent : holder[x] \in Caller \ {p} => holder'[x] = holder[x] /\ deps'[x] = deps[x]
      BY ZenonT(30), <1>6, <1>8
    <2> QED BY ZenonT(30), <1>0, <1>1, <1>10, <1>11, <1>12, <2>1, StackStep
  <1>14. FreeAreTold'
    BY ZenonT(30), <1>0, <1>1, <1>6, <1>8 DEF FreeAreTold
  <1> QED BY ZenonT(30), <1>0, <1>1, <1>6, <1>13, <1>14 DEF AnyInv, AnyTypes

\* any() returns.
LEMMA AnyReturnStep ==
    ASSUME AnyInv, NEW p \in Caller, AnyReturn(p)
    PROVE  AnyInv'
  <1>1. /\ stack[p] # <<>> /\ Top(p).op = "any" /\ stack' = [stack EXCEPT ![p] = Tail(stack[p])]
        /\ UNCHANGED <<size, signalled, deps, holder, told>>
    BY ZenonT(30) DEF AnyReturn, In, Pop
  <1>2. PICK t \in Seq(Frame) :
          /\ t = Tail(stack[p]) /\ LocksDiffer(t)
          /\ \A f \in Elements(t) : f \in Frame /\ FrameRight(p, f)
    BY ZenonT(30), <1>1, StackFacts
  <1>3. Pending(p) = {}
    <2>1. ~In(p, "signal")
      BY <1>1 DEF In
    <2> QED BY ZenonT(30), <2>1 DEF Pending
  <1>4. \A f \in Elements(t) : FrameRight(p, f)'
    BY ZenonT(30), <1>1, <1>2, <1>3, FrameKept
  <1>5. stack' \in [Caller -> Seq(Frame)] /\ FramesRight'
    BY ZenonT(30), <1>1, <1>2, <1>4, StackStep
  <1> QED BY ZenonT(30), <1>1, <1>5 DEF AnyInv, AnyTypes, FreeAreTold

\* The invariant of the stacks and of what is told holds in every state of
\* signal() and any(), for any number of events and callers.
THEOREM AnyInvariance == AnySpec => []AnyInv
  <1>1. AnyInit => AnyInv
    <2> SUFFICES ASSUME AnyInit PROVE AnyInv
      OBVIOUS
    <2>1. AnyTypes
      <3>1. /\ size \in 0..MaxEvents /\ <<>> \in Seq(AnyEvent) /\ <<>> \in Seq(Frame)
        BY AnyAssumption DEF AnyInit
      <3> QED BY <3>1 DEF AnyInit, AnyTypes
    <2>2. Elements(<<>>) = {} /\ LocksDiffer(<<>>)
      BY DEF Elements, LocksDiffer
    <2>3. \A p \in Caller : stack[p] = <<>>
      BY DEF AnyInit
    <2>4. \A e \in AnyEvent : deps[e] = <<>>
      BY DEF AnyInit
    <2>5. FramesRight
      BY ZenonT(30), <2>2, <2>3 DEF FramesRight
    <2>6. FreeAreTold
      BY ZenonT(30), <2>2, <2>4 DEF FreeAreTold
    <2> QED BY <2>1, <2>5, <2>6 DEF AnyInv
  <1>2. AnyInv /\ [AnyNext]_anyVars => AnyInv'
    <2> SUFFICES ASSUME AnyInv, [AnyNext]_anyVars PROVE AnyInv'
      OBVIOUS
    <2>1. CASE UNCHANGED anyVars
      <3>1. UNCHANGED <<size, signalled, deps, holder, stack, told>>
        BY ZenonT(30), <2>1 DEF anyVars
      <3>2. \A p \in Caller : Pending(p)' = Pending(p)
        BY ZenonT(30), <3>1 DEF Pending, In, Top
      <3>3. FramesRight'
        BY ZenonT(30), <3>1, <3>2 DEF AnyInv, FramesRight, FrameRight
      <3> QED BY ZenonT(30), <3>1, <3>3 DEF AnyInv, AnyTypes, FreeAreTold
    <2>2. ASSUME NEW p \in Caller, Step(p) PROVE AnyInv'
      BY ZenonT(30), <2>2, SignalLockStep, SignalDepStep, SignalUnlockStep, AnyLockStep,
         AnyRegisterStep, AnyReturnStep DEF Step
    <2> QED BY ZenonT(30), <2>1, <2>2, CallSteps DEF AnyNext, AnyTerminated
  <1> QED BY <1>1, <1>2, PTL DEF AnySpec

\* An event from any() is signalled whenever one of its events is.
THEOREM DepsCorrect == AnySpec => []DepsAreTold
  <1>1. AnyInv => DepsAreTold
    <2> SUFFICES ASSUME AnyInv, NEW e \in Event, signalled[e], holder[e] = NoOne,
                        NEW i \in 1..Len(deps[e])
                 PROVE  deps[e][i] \in told[e]
      BY DEF DepsAreTold
    <2>1. e \in AnyEvent
      BY AnyAssumption DEF AnyInv, AnyTypes, Event, AnyEvent
    <2> QED BY ZenonT(30), <2>1 DEF AnyInv, FreeAreTold, Elements
  <1> QED BY <1>1, AnyInvariance, PTL

-----------------------------------------------------------------------------
\* blocking_call().

\* How the steps of a call, its thread and the owner are tied together.
CallInv ==
    \A t \in Task :
       /\ task[t] \in {"new", "queued"} => thread[t] = "none"
       /\ thread[t] \in {"started", "bound", "called", "unbound"} =>
            task[t] = "waiting" /\ wg[t] = 1
       /\ task[t] = "waiting" => thread[t] # "none"
       /\ task[t] = "joining" => thread[t] \in {"done", "exited"}
       /\ task[t] = "finished" => thread[t] = "exited"
       /\ thread[t] \in {"called", "unbound", "done", "exited"} => result[t]
       /\ t \in boundTo => thread[t] \in {"bound", "called"}

IInv == TypeOK /\ CallInv /\ NoTaskLeft /\ (~alive => owner = "destroyed")

\* The invariant holds in the initial state.
LEMMA InitIInv == Init => IInv
BY OwnerAssumption DEF Init, IInv, TypeOK, CallInv, NoTaskLeft

\* The owner's steps: what a worker still has to do keeps it from stopping.
LEMMA OwnerStep ==
    ASSUME IInv, Unbind \/ Destructor \/ \E t \in Task : Schedule(t)
    PROVE  IInv'
<1>1. CASE Unbind
    BY <1>1, OwnerAssumption DEF IInv, TypeOK, CallInv, NoTaskLeft, Unbind
<1>2. CASE SeeAllUnbound
    BY <1>2 DEF IInv, TypeOK, CallInv, NoTaskLeft, SeeAllUnbound
<1>3. CASE StopWorkers
    BY ZenonT(30), <1>3 DEF IInv, TypeOK, CallInv, NoTaskLeft, StopWorkers
<1>4. CASE \E t \in Task : Schedule(t)
  <2>1. PICK t \in Task : Schedule(t)
      BY <1>4
  <2> QED
      BY <2>1 DEF IInv, TypeOK, CallInv, NoTaskLeft, Schedule
<1> QED
    BY <1>1, <1>2, <1>3, <1>4 DEF Destructor

\* The steps of a task and of its call's thread.
LEMMA CallStep ==
    ASSUME IInv, NEW t \in Task, TaskStep(t) \/ ThreadStep(t)
    PROVE  IInv'
<1>1. CASE Call(t)
    BY <1>1 DEF IInv, TypeOK, CallInv, NoTaskLeft, Call
<1>2. CASE WaitReturns(t)
    BY <1>2 DEF IInv, TypeOK, CallInv, NoTaskLeft, WaitReturns
<1>3. CASE Join(t)
    BY <1>3 DEF IInv, TypeOK, CallInv, NoTaskLeft, Join
<1>4. CASE ThreadBind(t)
    BY <1>4, OwnerAssumption DEF IInv, TypeOK, CallInv, NoTaskLeft, ThreadBind
<1>5. CASE ThreadCall(t)
    BY <1>5 DEF IInv, TypeOK, CallInv, NoTaskLeft, ThreadCall
<1>6. CASE ThreadUnbind(t)
    BY <1>6 DEF IInv, TypeOK, CallInv, NoTaskLeft, ThreadUnbind
<1>7. CASE ThreadDone(t)
    BY <1>7 DEF IInv, TypeOK, CallInv, NoTaskLeft, ThreadDone
<1>8. CASE ThreadExit(t)
    BY <1>8 DEF IInv, TypeOK, CallInv, NoTaskLeft, ThreadExit
<1> QED
    BY <1>1, <1>2, <1>3, <1>4, <1>5, <1>6, <1>7, <1>8 DEF TaskStep, ThreadStep

\* The invariant that ties calls, threads and the scheduler's life together
\* holds in every state of blocking_call() and ~Scheduler().
THEOREM Invariance == Spec => []IInv
<1>1. IInv /\ [Next]_vars => IInv'
  <2> SUFFICES ASSUME IInv, [Next]_vars PROVE IInv'
      OBVIOUS
  <2>1. CASE UNCHANGED vars
      BY <2>1 DEF IInv, TypeOK, CallInv, NoTaskLeft, vars
  <2>2. CASE Unbind \/ Destructor \/ \E t \in Task : Schedule(t)
      BY <2>2, OwnerStep
  <2>3. CASE \E t \in Task : TaskStep(t) \/ ThreadStep(t)
      BY <2>3, CallStep
  <2> QED
      BY <2>1, <2>2, <2>3 DEF Next, Terminated
<1> QED
    BY InitIInv, <1>1, PTL DEF Spec

\* The thread of a call finds the scheduler alive even if it binds after
\* ~Scheduler() has seen all threads unbound.
THEOREM OutlivesCorrect == Spec => []SchedulerOutlivesCalls
<1>1. IInv => SchedulerOutlivesCalls
    BY DEF IInv, CallInv, TypeOK, NoTaskLeft, SchedulerOutlivesCalls
<1> QED
    BY Invariance, <1>1, PTL

\* blocking_call() returns after its thread, with the result of f().
THEOREM ReturnsCorrect == Spec => []ReturnsAfterThread
<1>1. IInv => ReturnsAfterThread
    BY DEF IInv, CallInv, ReturnsAfterThread
<1> QED
    BY Invariance, <1>1, PTL
=============================================================================
