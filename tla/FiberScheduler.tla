--------------------------- MODULE FiberScheduler ---------------------------
(***************************************************************************)
(* What a worker promises about its fibers, with no task queue, mutex,     *)
(* spinning, sleeping or clock in sight.  One thread multiplexes fibers:   *)
(* at most one of them runs, the ones that were woken run again in the     *)
(* order in which they were woken, the ones that have nothing to do are    *)
(* pooled and reused, and the thread leaves its loop, back on the main     *)
(* fiber, only when no fiber is blocked or woken.  Worker.tla is shown to  *)
(* implement this module.                                                  *)
(***************************************************************************)
EXTENDS Naturals, Sequences

CONSTANTS
    MaxFibers   \* bound on the fibers a worker creates besides its main fiber

Fiber  == 0..MaxFibers      \* fiber 0 is the main fiber
Nobody == MaxFibers + 1     \* no fiber executes: the thread looks for work

VARIABLES
    running,    \* the fiber that executes, or Nobody
    ready,      \* the woken fibers, oldest first
    blocked,    \* the fibers that wait to be woken
    pool,       \* the fibers that wait for something to do
    created     \* how many fibers were created besides the main fiber

vars == <<running, ready, blocked, pool, created>>

Init ==
    /\ running = 0
    /\ ready = <<>>
    /\ blocked = {}
    /\ pool = {}
    /\ created = 0

\* The running fiber waits for something.
Block ==
    /\ running # Nobody
    /\ blocked' = blocked \cup {running}
    /\ running' = Nobody
    /\ UNCHANGED <<ready, pool, created>>

\* A blocked fiber is notified, or its timeout expires.
Wake(f) ==
    /\ f \in blocked
    /\ blocked' = blocked \ {f}
    /\ ready' = Append(ready, f)
    /\ UNCHANGED <<running, pool, created>>

\* The thread continues the fiber that was woken first.  The fiber it leaves,
\* if any, had nothing to do and goes to the pool.
Resume ==
    /\ ready # <<>>
    /\ running' = Head(ready)
    /\ ready' = Tail(ready)
    /\ pool' = IF running = Nobody THEN pool ELSE pool \cup {running}
    /\ UNCHANGED <<blocked, created>>

\* No fiber was woken: a pooled fiber, or a new one if there is none, takes
\* over the search for work.
Reuse(f) ==
    /\ running = Nobody
    /\ ready = <<>>
    /\ f \in pool
    /\ pool' = pool \ {f}
    /\ running' = f
    /\ UNCHANGED <<ready, blocked, created>>

Create ==
    /\ running = Nobody
    /\ ready = <<>>
    /\ pool = {}
    /\ created < MaxFibers
    /\ created' = created + 1
    /\ running' = created + 1
    /\ UNCHANGED <<ready, blocked, pool>>

\* The thread goes back to its main fiber to leave the worker's loop.  Nobody
\* is left behind in the middle of a wait.
Retire ==
    /\ running \notin {0, Nobody}
    /\ ready = <<>>
    /\ blocked = {}
    /\ 0 \in pool
    /\ pool' = pool \ {0}
    /\ running' = 0
    /\ UNCHANGED <<ready, blocked, created>>

Next ==
    \/ Block
    \/ \E f \in Fiber : Wake(f) \/ Reuse(f)
    \/ Resume
    \/ Create
    \/ Retire

Spec == Init /\ [][Next]_vars
=============================================================================
