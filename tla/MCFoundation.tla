---------------------------- MODULE MCFoundation ----------------------------
(***************************************************************************)
(* The parts the scheduler rests on, for the model checker: the allocator, *)
(* the two containers, the threads and the context switch.  They share no  *)
(* state, so a behaviour is one of one part, which is chosen in Init, and  *)
(* their states add up instead of multiplying.                             *)
(***************************************************************************)
EXTENDS Allocator, Vector, List, Threads, OSFiber, TLC

\* A char, a type malloc() aligns well enough, and one that needs more.
Types == {[size |-> 1, alignment |-> 1], [size |-> 2, alignment |-> 2],
          [size |-> 4, alignment |-> 4]}

\* The stack of the thread, and those of two fibers.
Stacks == [root |-> 0, fiberA |-> 64, fiberB |-> 160]

\* The second of three cores is not for this program.
EvenCores == {0, 2}

\* The callers of the allocator are alike, and so are the vectors.
Symmetry == Permutations(Thread) \cup Permutations(Vec)

VARIABLE part   \* the part that is not left alone

Init ==
    /\ AllocatorInit /\ VectorInit /\ ListInit /\ ThreadsInit /\ OSFiberInit
    /\ part \in {"allocator", "vector", "list", "threads", "osfiber"}

vars == <<allocatorVars, vectorVars, listVars, threadsVars, osFiberVars, part>>

Next ==
    \/ /\ part = "allocator"
       /\ AllocatorNext
       /\ UNCHANGED <<vectorVars, listVars, threadsVars, osFiberVars, part>>
    \/ /\ part = "vector"
       /\ VectorNext
       /\ UNCHANGED <<allocatorVars, listVars, threadsVars, osFiberVars, part>>
    \/ /\ part = "list"
       /\ ListNext
       /\ UNCHANGED <<allocatorVars, vectorVars, threadsVars, osFiberVars, part>>
    \/ /\ part = "threads"
       /\ ThreadsNext
       /\ UNCHANGED <<allocatorVars, vectorVars, listVars, osFiberVars, part>>
    \/ /\ part = "osfiber"
       /\ OSFiberNext
       /\ UNCHANGED <<allocatorVars, vectorVars, listVars, threadsVars, part>>

Spec == Init /\ [][Next]_vars
=============================================================================
