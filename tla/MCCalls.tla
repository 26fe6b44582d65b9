------------------------------ MODULE MCCalls ------------------------------
(***************************************************************************)
(* Event::any() and blocking_call() for the model checker.  They share no  *)
(* state, so a behaviour is one of either, which is chosen in Init, and    *)
(* their states add up instead of multiplying.                             *)
(***************************************************************************)
EXTENDS EventAny, BlockingCall

VARIABLE part   \* the part that is not left alone

CallsInit ==
    /\ AnyInit /\ Init
    /\ part \in {"any", "blocking"}

callsVars == <<anyVars, vars, part>>

CallsNext ==
    \/ part = "any" /\ AnyNext /\ UNCHANGED <<vars, part>>
    \/ part = "blocking" /\ Next /\ UNCHANGED <<anyVars, part>>

\* A step of one part, for the fairness.
OfAny(A) == part = "any" /\ A /\ UNCHANGED <<vars, part>>
OfBlocking(A) == part = "blocking" /\ A /\ UNCHANGED <<anyVars, part>>

\* The fairness of FairAnySpec and of FairSpec, for the part that is chosen.
CallsSpec ==
    /\ CallsInit /\ [][CallsNext]_callsVars
    /\ \A p \in Caller : SF_callsVars(OfAny(Step(p)))
    /\ WF_callsVars(OfBlocking(Unbind))
    /\ WF_callsVars(OfBlocking(Destructor))
    /\ \A t \in Task :
         WF_callsVars(OfBlocking(TaskStep(t))) /\ WF_callsVars(OfBlocking(ThreadStep(t)))
=============================================================================
