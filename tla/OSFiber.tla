------------------------------ MODULE OSFiber -------------------------------
(***************************************************************************)
(* marl::OSFiber on x86-64: marl_fiber_set_target() prepares a context so  *)
(* that the first switch to a fiber calls its function, and                *)
(* marl_fiber_swap() leaves one fiber and resumes another.  Addresses are  *)
(* bytes, a word has 8 of them, and stacks grow downwards.                 *)
(***************************************************************************)
EXTENDS Integers, Sequences

CONSTANTS
    OSFibers,       \* fibers with a stack of their own
    Root,           \* the fiber made from the current thread
    StackOf,        \* the address of each fiber's stack, Root's being the thread's
    StackSize,      \* request.size
    SizeLimit,      \* the size is cut to the values below this (2^32 in the code)
    CalleeSaved,    \* the registers a call preserves: RBX, RBP, R12 - R15
    RegValue,       \* what a register may hold
    MaxFrames       \* bound: words a fiber has on its stack

\* What the code needs of the size and does not check: 32 bits hold it, and the
\* top of the stack is aligned as the start of the stack is.
ASSUME OSFiberAssumption ==
    /\ MaxFrames \in Nat /\ StackSize \in Nat /\ SizeLimit \in Nat
    /\ CalleeSaved \cap {"RDI", "RSI", "RSP", "RIP"} = {}
    /\ StackSize % 16 = 0 /\ StackSize < SizeLimit
    /\ StackSize >= 8 * (MaxFrames + 5)
    /\ \A f \in OSFibers \cup {Root} : StackOf[f] \in Nat /\ StackOf[f] % 16 = 0
    /\ \A f, g \in OSFibers \cup {Root} : f # g => StackOf[f] + StackSize <= StackOf[g]
                                                  \/ StackOf[g] + StackSize <= StackOf[f]

Every == OSFibers \cup {Root}
Zero  == CHOOSE v \in RegValue : TRUE
Trampoline == "trampoline"
Points == {"p", "q"}            \* calls of switchTo(), by their return addresses

VARIABLES
    made,       \* the fibers that exist
    regs,       \* the registers of the processor
    context,    \* context_ of each fiber
    mem,        \* the words on the stacks, by address
    current,    \* the fiber that the scheduler takes for the running one
    frames,     \* what each fiber has pushed, last first
    left        \* the registers each fiber had when it called switchTo() to leave

osFiberVars == <<made, regs, context, mem, current, frames, left>>

Reg == CalleeSaved \cup {"RDI", "RSI", "RSP", "RIP"}
Nowhere == "nowhere"
Cleared == [r \in Reg |-> CASE r \in CalleeSaved -> Zero [] r = "RSP" -> 0 [] OTHER -> Nowhere]

Top(f) == StackOf[f] + StackSize

OSFiberInit ==
    /\ made = {Root}
    /\ regs = [Cleared EXCEPT !["RSP"] = StackOf[Root] + StackSize - 24]
    /\ context = [f \in Every |-> Cleared]
    /\ mem = [a \in {} |-> 0]
    /\ current = Root
    /\ frames = [f \in Every |-> <<>>]
    /\ left = [f \in Every |-> Cleared]

\* A word is written, or, below the stack pointer, of no more use.
Drop(m, a) == [b \in DOMAIN m \ {a} |-> m[b]]
Store(m, a, v) == [b \in DOMAIN m \cup {a} |-> IF b = a THEN v ELSE m[b]]

-----------------------------------------------------------------------------
\* stack_top, from the size cut to 32 bits.
StackTop(f) == StackOf[f] + (StackSize % SizeLimit)

\* RSP is the top of the stack, as if no return address had been pushed.
SetTarget_Aligned(f) ==
    [Cleared EXCEPT !["RIP"] = Trampoline, !["RDI"] = "run", !["RSI"] = f,
                    !["RSP"] = StackTop(f) - 16]

\* marl_fiber_set_target(): RSP = &stack_top[-3].
SetTarget(f) ==
    [Cleared EXCEPT !["RIP"] = Trampoline, !["RDI"] = "run", !["RSI"] = f,
                    !["RSP"] = StackTop(f) - 24]

\* createFiber(): a stack of its own, and stack_top[-2] = 0.
CreateFiber(f) ==
    /\ f \notin made
    /\ made' = made \cup {f}
    /\ context' = [context EXCEPT ![f] = SetTarget(f)]
    /\ mem' = Store(mem, StackTop(f) - 16, Zero)
    /\ frames' = [frames EXCEPT ![f] = <<>>]
    /\ left' = [left EXCEPT ![f] = Cleared]
    /\ UNCHANGED <<regs, current>>

\* ~OSFiber(), of a fiber that is not running, frees the stack.
DestroyFiber(f) ==
    /\ f \in made \ {current, Root}
    /\ made' = made \ {f}
    /\ mem' = [a \in DOMAIN mem \ StackOf[f]..(Top(f) - 1) |-> mem[a]]
    /\ UNCHANGED <<regs, context, current, frames, left>>

\* The running function uses a register, ...
SetRegister(r, v) ==
    /\ regs[r] # v
    /\ regs' = [regs EXCEPT ![r] = v]
    /\ UNCHANGED <<made, context, mem, current, frames, left>>

\* ... pushes a word, as for a call of another function, ...
Push(v) ==
    /\ Len(frames[current]) < MaxFrames
    /\ regs' = [regs EXCEPT !["RSP"] = @ - 8]
    /\ mem' = Store(mem, regs["RSP"] - 8, v)
    /\ frames' = [frames EXCEPT ![current] = <<v>> \o @]
    /\ UNCHANGED <<made, context, current, left>>

\* ... and pops it.
Pop ==
    /\ frames[current] # <<>>
    /\ regs' = [regs EXCEPT !["RSP"] = @ + 8]
    /\ mem' = Drop(mem, regs["RSP"])
    /\ frames' = [frames EXCEPT ![current] = Tail(@)]
    /\ UNCHANGED <<made, context, current, left>>

-----------------------------------------------------------------------------
\* What marl_fiber_swap() saves of the registers r; RDI and RSI stay as they were
\* in the context.
Saved(r, m) == [r EXCEPT !["RIP"] = m[r["RSP"]], !["RSP"] = @ + 8]

\* switchTo(): the call pushes its return address, marl_fiber_swap() saves the
\* registers, loads those of the other context and jumps to its RIP.
SwitchTo(g, point) ==
    LET called == [regs EXCEPT !["RSP"] = @ - 8]
        m      == Store(mem, called["RSP"], point)
        s      == Saved(called, m)
    IN  /\ g \in made \ {current}
        /\ mem' = Drop(m, context[g]["RSP"] - 8)
        /\ context' = [context EXCEPT ![current] =
                         [r \in Reg |-> IF r \in {"RDI", "RSI"} THEN @[r] ELSE s[r]]]
        /\ regs' = context[g]
        /\ left' = [left EXCEPT ![current] = [regs EXCEPT !["RIP"] = point],
                                ![g] = Cleared]
        /\ current' = g
        /\ UNCHANGED <<made, frames>>

OSFiberNext ==
    \/ \E f \in OSFibers : CreateFiber(f) \/ DestroyFiber(f)
    \/ \E r \in CalleeSaved, v \in RegValue : SetRegister(r, v)
    \/ \E v \in RegValue : Push(v)
    \/ Pop
    \/ \E g \in Every, point \in Points : SwitchTo(g, point)

-----------------------------------------------------------------------------
\* Where the stack of a fiber ends now: in its context, or in the register.
StackPointer(f) == IF f = current THEN regs["RSP"] ELSE context[f]["RSP"]

\* A fiber has left once in a call of switchTo(), and not resumed yet.
HasLeft(f) == left[f]["RIP"] # Nowhere

\* A fiber that is not running will resume at the return address of the call of
\* switchTo() in which it left, with the stack pointer after that return and the
\* registers a call preserves; or, the first time, call its function with the
\* alignment the ABI asks of a call.  Its stack pointer is inside its stack, and
\* the words it has pushed are still there, whatever ran meanwhile.
FiberIsIntact ==
    \A f \in made :
       /\ f # current =>
            IF HasLeft(f)
            THEN \A r \in CalleeSaved \cup {"RSP", "RIP"} : context[f][r] = left[f][r]
            ELSE /\ context[f]["RIP"] = Trampoline
                 /\ context[f]["RSI"] = f
                 /\ context[f]["RSP"] % 16 = 8
       /\ StackOf[f] <= StackPointer(f) /\ StackPointer(f) < Top(f)
       /\ \A i \in 1..Len(frames[f]) :
            mem[StackPointer(f) + 8 * (i - 1)] = frames[f][i]
=============================================================================
