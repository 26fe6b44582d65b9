------------------------------ MODULE EventAny ------------------------------
(***************************************************************************)
(* marl::Event::any() and the events that depend on others: signal() of an *)
(* event signals its deps while it holds the event's mutex.                *)
(*                                                                         *)
(* Events are numbered in the order of their creation.  Waiting for an     *)
(* event is modelled in Event; here a signal is just taken.                *)
(***************************************************************************)
EXTENDS Naturals, Sequences

CONSTANTS
    Caller, NoOne,
    Sources,        \* bound: events created by themselves
    MaxEvents,      \* bound: events altogether
    MaxArgs,        \* bound: events given to one any()
    Calls           \* bound: calls by each caller

ASSUME AnyAssumption ==
    /\ NoOne \notin Caller
    /\ Sources \in Nat /\ MaxEvents \in Nat /\ Sources <= MaxEvents
    /\ MaxArgs \in Nat /\ Calls \in Nat

AnyEvent == 1..MaxEvents

VARIABLES
    size,           \* events created so far
    signalled,      \* Shared::signalled
    deps,           \* Shared::deps
    holder,         \* the holder of Shared::mutex
    stack,          \* the calls each caller is in, innermost first
    calls,          \* the calls left to each
    told            \* history: the events told since the last signal of each

anyVars == <<size, signalled, deps, holder, stack, calls, told>>

Event == 1..size

AnyInit ==
    /\ size = Sources
    /\ signalled = [e \in AnyEvent |-> FALSE]
    /\ deps = [e \in AnyEvent |-> <<>>]
    /\ holder = [e \in AnyEvent |-> NoOne]
    /\ stack = [p \in Caller |-> <<>>]
    /\ calls = [p \in Caller |-> Calls]
    /\ told = [e \in AnyEvent |-> {}]

\* Frames: signal() before it has the mutex of its event, and with it, of which
\* rest are the deps to go; any() with the events to go, which are to be followed
\* by the event dep, without a mutex, and with that of one of them.
SignalCall(e) == [op |-> "signal", event |-> e, rest |-> <<>>, dep |-> 0]
DepsCall(e, ds) == [op |-> "deps", event |-> e, rest |-> ds, dep |-> 0]
AnyCall(es, d) == [op |-> "any", event |-> 0, rest |-> es, dep |-> d]
RegisterCall(e, es, d) == [op |-> "register", event |-> e, rest |-> es, dep |-> d]

Top(p) == Head(stack[p])
In(p, op) == stack[p] # <<>> /\ Top(p).op = op
Push(p, f) == stack' = [stack EXCEPT ![p] = <<f>> \o @]
Pop(p) == stack' = [stack EXCEPT ![p] = Tail(@)]
Become(p, f) == stack' = [stack EXCEPT ![p] = <<f>> \o Tail(@)]

\* The innermost call goes on as f, and makes the call g.
Enter(p, f, g) == stack' = [stack EXCEPT ![p] = <<g>> \o (<<f>> \o Tail(@))]

BeginCall(p) ==
    /\ stack[p] = <<>>
    /\ calls[p] > 0
    /\ calls' = [calls EXCEPT ![p] = @ - 1]

CallSignal(p, e) ==
    /\ BeginCall(p)
    /\ Push(p, SignalCall(e))
    /\ UNCHANGED <<size, signalled, deps, holder, told>>

\* clear(), and test() or wait() in mode Auto.
Take(p, e) ==
    /\ BeginCall(p)
    /\ holder[e] = NoOne
    /\ signalled' = [signalled EXCEPT ![e] = FALSE]
    /\ UNCHANGED <<size, deps, holder, stack, told>>

\* any(), for the events es; one of them may occur twice.
CallAny(p, es) ==
    /\ BeginCall(p)
    /\ size < MaxEvents
    /\ size' = size + 1
    /\ Push(p, AnyCall(es, size + 1))
    /\ UNCHANGED <<signalled, deps, holder, told>>

\* Every event that counts e among its deps has had e told, now.
Tell(e) == [s \in AnyEvent |-> told[s] \cup {e}]

\* signal() locks the event; it returns if the event is signalled already.
SignalLock(p) ==
    /\ In(p, "signal")
    /\ LET e == Top(p).event
       IN  /\ holder[e] = NoOne
           /\ IF signalled[e]
              THEN /\ Pop(p)
                   /\ told' = Tell(e)
                   /\ UNCHANGED <<signalled, holder>>
              ELSE /\ Become(p, DepsCall(e, deps[e]))
                   /\ holder' = [holder EXCEPT ![e] = p]
                   /\ signalled' = [signalled EXCEPT ![e] = TRUE]
                   /\ told' = [Tell(e) EXCEPT ![e] = {}]
    /\ UNCHANGED <<size, deps, calls>>

\* The loop of signal() stops after the first of the deps.
SignalDep_First(p) ==
    /\ In(p, "deps")
    /\ Top(p).rest # <<>>
    /\ Enter(p, DepsCall(Top(p).event, <<>>), SignalCall(Head(Top(p).rest)))
    /\ UNCHANGED <<size, signalled, deps, holder, calls, told>>

\* The loop of signal() over deps.
SignalDep(p) ==
    /\ In(p, "deps")
    /\ Top(p).rest # <<>>
    /\ Enter(p, DepsCall(Top(p).event, Tail(Top(p).rest)), SignalCall(Head(Top(p).rest)))
    /\ UNCHANGED <<size, signalled, deps, holder, calls, told>>

\* signal() that keeps the mutex.
SignalUnlock_Missing(p) ==
    /\ In(p, "deps")
    /\ Top(p).rest = <<>>
    /\ Pop(p)
    /\ UNCHANGED <<size, signalled, deps, holder, calls, told>>

SignalUnlock(p) ==
    /\ In(p, "deps")
    /\ Top(p).rest = <<>>
    /\ holder' = [holder EXCEPT ![Top(p).event] = NoOne]
    /\ Pop(p)
    /\ UNCHANGED <<size, signalled, deps, calls, told>>

\* any() locks the next of its events and looks whether it is signalled ...
AnyLock(p) ==
    /\ In(p, "any")
    /\ Top(p).rest # <<>>
    /\ LET e   == Head(Top(p).rest)
           reg == RegisterCall(e, Tail(Top(p).rest), Top(p).dep)
       IN  /\ holder[e] = NoOne
           /\ holder' = [holder EXCEPT ![e] = p]
           /\ IF signalled[e] THEN Enter(p, reg, SignalCall(reg.dep)) ELSE Become(p, reg)
    /\ UNCHANGED <<size, signalled, deps, calls, told>>

\* ... and appends the new event to its deps, and unlocks.
AnyRegister(p) ==
    /\ In(p, "register")
    /\ LET e == Top(p).event
       IN  /\ deps' = [deps EXCEPT ![e] = Append(@, Top(p).dep)]
           /\ holder' = [holder EXCEPT ![e] = NoOne]
    /\ Become(p, AnyCall(Top(p).rest, Top(p).dep))
    /\ UNCHANGED <<size, signalled, calls, told>>

AnyReturn(p) ==
    /\ In(p, "any")
    /\ Top(p).rest = <<>>
    /\ Pop(p)
    /\ UNCHANGED <<size, signalled, deps, holder, calls, told>>

Step(p) ==
    \/ SignalLock(p) \/ SignalDep(p) \/ SignalUnlock(p)
    \/ AnyLock(p) \/ AnyRegister(p) \/ AnyReturn(p)

\* The events a caller knows: those whose any() has returned.
Known == {e \in Event : \A p \in Caller : \A i \in 1..Len(stack[p]) : stack[p][i].dep # e}

AnyTerminated == (\A p \in Caller : stack[p] = <<>> /\ calls[p] = 0) /\ UNCHANGED anyVars

AnyNext ==
    \/ \E p \in Caller :
          \/ \E e \in Known : CallSignal(p, e) \/ Take(p, e)
          \/ \E n \in 0..MaxArgs : \E es \in [1..n -> Known] : CallAny(p, es)
          \/ Step(p)
    \/ AnyTerminated

AnySpec == AnyInit /\ [][AnyNext]_anyVars

\* Callers go on, and get the mutexes they ask for.
FairAnySpec == AnySpec /\ \A p \in Caller : SF_anyVars(Step(p))

-----------------------------------------------------------------------------
\* What the comment on any() says: an event from any() is signalled whenever
\* one of its events is, whether that was signalled before any(), after it or
\* in the meantime.
DepsAreTold ==
    \A e \in Event : signalled[e] /\ holder[e] = NoOne =>
      \A i \in 1..Len(deps[e]) : deps[e][i] \in told[e]

\* Every call returns: no two signals wait for each other's mutexes.
SignalsReturn == \A p \in Caller : stack[p] # <<>> ~> stack[p] = <<>>
=============================================================================
