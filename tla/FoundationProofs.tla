---------------------------- MODULE FoundationProofs ----------------------------
(*****************************************************************************)
(* What the parts without a scheduler promise, for every value of the        *)
(* constants: a fiber finds its registers and its stack as it left them, an  *)
(* allocation is its caller's own until the block that holds it is returned, *)
(* and a vector holds what std::vector would hold.                           *)
(*****************************************************************************)
EXTENDS OSFiber, Allocator, Vector, TLAPS

-----------------------------------------------------------------------------
\* OSFiber: the context switch and the stacks.

\* The n-th word a fiber pushes is at Slot(f, n); Slot(f, 0) is its stack pointer
\* before it has pushed any.
Slot(f, n) == Top(f) - 24 - 8 * n

\* The words a fiber has pushed are where it pushed them.
Words(f) ==
    \A n \in 1..Len(frames[f]) :
       /\ Slot(f, n) \in DOMAIN mem
       /\ mem[Slot(f, n)] = frames[f][Len(frames[f]) + 1 - n]

\* The context of a fiber that is not running: as it left, or as it was made.
Resumable(f) ==
    IF HasLeft(f)
    THEN \A r \in CalleeSaved \cup {"RSP", "RIP"} : context[f][r] = left[f][r]
    ELSE /\ context[f]["RIP"] = Trampoline
         /\ context[f]["RSI"] = f
         /\ context[f]["RSP"] = Slot(f, 0)

\* The registers, the contexts and the stacks are what they are declared as.
OSFiberTypes ==
    /\ made \subseteq Every /\ current \in made
    /\ regs = [r \in Reg |-> regs[r]]
    /\ context = [f \in Every |-> [r \in Reg |-> context[f][r]]]
    /\ left = [f \in Every |-> [r \in Reg |-> left[f][r]]]
    /\ mem = [a \in DOMAIN mem |-> mem[a]]
    /\ frames \in [Every -> Seq(RegValue)]

\* The inductive invariant.  A stack is as deep as the words the fiber pushed,
\* and those are where it pushed them; this is what the promise about a fiber
\* that is resumed needs of every step of the others.
OSFiberInv ==
    /\ OSFiberTypes
    /\ \A f \in made :
         /\ Len(frames[f]) <= MaxFrames
         /\ StackPointer(f) = Slot(f, Len(frames[f]))
         /\ Words(f)
         /\ f # current => Resumable(f)

OSFiberSpec == OSFiberInit /\ [][OSFiberNext]_osFiberVars

-----------------------------------------------------------------------------
\* Every word a fiber pushes, up to MaxFrames of them, is on its stack.
LEMMA SlotInside ==
    ASSUME NEW f \in Every, NEW n \in Int, n >= -1, n <= MaxFrames + 1
    PROVE  Slot(f, n) \in Int /\ StackOf[f] <= Slot(f, n) /\ Slot(f, n) < Top(f)
<1>1. PICK b \in Nat : b = StackOf[f]  BY Zenon, OSFiberAssumption DEF Every
<1>2. QED  BY <1>1, OSFiberAssumption DEF Slot, Top

\* Different words, and the words of different fibers, are at different addresses.
LEMMA SlotApart ==
    ASSUME NEW f \in Every, NEW g \in Every, NEW n \in Int, NEW m \in Int,
           n >= -1, n <= MaxFrames + 1, m >= -1, m <= MaxFrames + 1, f # g \/ n # m
    PROVE  Slot(f, n) # Slot(g, m)
<1>1. PICK b \in Nat : b = StackOf[f]  BY Zenon, OSFiberAssumption DEF Every
<1>2. PICK c \in Nat : c = StackOf[g]  BY Zenon, OSFiberAssumption DEF Every
<1>3. CASE f # g
  <2>1. b + StackSize <= c \/ c + StackSize <= b  BY Zenon, <1>1, <1>2, <1>3, OSFiberAssumption DEF Every
  <2>2. /\ b <= Slot(f, n) /\ Slot(f, n) < b + StackSize /\ Slot(f, n) \in Int
        /\ c <= Slot(g, m) /\ Slot(g, m) < c + StackSize /\ Slot(g, m) \in Int
    BY Zenon, <1>1, <1>2, SlotInside DEF Top
  <2>3. StackSize \in Nat  BY Zenon, OSFiberAssumption
  <2>4. QED  BY <2>1, <2>2, <2>3
<1>4. CASE f = g /\ n # m
  <2>1. StackSize \in Nat  BY Zenon, OSFiberAssumption
  <2>2. QED  BY <1>1, <1>4, <2>1 DEF Slot, Top
<1>5. QED  BY Zenon, <1>3, <1>4

\* marl_fiber_set_target() computes the top of the stack, and leaves room
\* for the words it stores.
LEMMA StackTopIsTop ==
    ASSUME NEW f \in Every
    PROVE  StackTop(f) - 24 = Slot(f, 0) /\ StackTop(f) - 16 = Slot(f, -1)
<1>1. PICK b \in Nat : b = StackOf[f]  BY Zenon, OSFiberAssumption DEF Every
<1>2. StackSize % SizeLimit = StackSize  BY OSFiberAssumption
<1>3. StackSize \in Nat  BY Zenon, OSFiberAssumption
<1>4. QED  BY <1>1, <1>2, <1>3 DEF StackTop, Slot, Top

\* Initially only the thread's own fiber is made, and it has pushed nothing.
LEMMA OSFiberInitial == OSFiberInit => OSFiberInv
<1> SUFFICES ASSUME OSFiberInit PROVE OSFiberInv  BY Zenon
<1>1. OSFiberTypes
  <2>1. made \subseteq Every /\ current \in made  BY Zenon DEF OSFiberInit, Every
  <2>2. Cleared = [r \in Reg |-> Cleared[r]]  BY DEF Cleared
  <2>3. regs = [r \in Reg |-> regs[r]]  BY Zenon, <2>2 DEF OSFiberInit
  <2>4. context = [f \in Every |-> [r \in Reg |-> context[f][r]]]  BY Zenon, <2>2 DEF OSFiberInit
  <2>5. left = [f \in Every |-> [r \in Reg |-> left[f][r]]]  BY Zenon, <2>2 DEF OSFiberInit
  <2>6. mem = [a \in DOMAIN mem |-> mem[a]]  BY Zenon DEF OSFiberInit
  <2>7. frames \in [Every -> Seq(RegValue)]  BY DEF OSFiberInit
  <2>8. QED  BY Zenon, <2>1, <2>3, <2>4, <2>5, <2>6, <2>7 DEF OSFiberTypes
<1>2. MaxFrames \in Nat  BY Zenon, OSFiberAssumption
<1>3. Root \in Every /\ frames[Root] = <<>> /\ current = Root /\ made = {Root}
  BY Zenon DEF OSFiberInit, Every
<1>4. regs["RSP"] = Slot(Root, 0)
  <2>1. regs["RSP"] = StackOf[Root] + StackSize - 24  BY Zenon DEF OSFiberInit, Cleared, Reg
  <2>2. PICK b \in Nat : b = StackOf[Root]  BY Zenon, OSFiberAssumption
  <2>3. StackSize \in Nat  BY Zenon, OSFiberAssumption
  <2>4. QED  BY <2>1, <2>2, <2>3 DEF Slot, Top
<1>5. Len(frames[Root]) = 0  BY <1>3
<1>6. Words(Root)  BY <1>5 DEF Words
<1>7. StackPointer(Root) = Slot(Root, Len(frames[Root]))  BY Zenon, <1>3, <1>4, <1>5 DEF StackPointer
<1>8. QED  BY <1>1, <1>2, <1>3, <1>5, <1>6, <1>7 DEF OSFiberInv

\* The invariant says that a fiber finds its context and its stack intact.
LEMMA OSFiberInvImplies == OSFiberInv => FiberIsIntact
<1> SUFFICES ASSUME OSFiberInv, NEW f \in made
             PROVE  /\ f # current =>
                         IF HasLeft(f)
                         THEN \A r \in CalleeSaved \cup {"RSP", "RIP"} : context[f][r] = left[f][r]
                         ELSE /\ context[f]["RIP"] = Trampoline
                              /\ context[f]["RSI"] = f
                              /\ context[f]["RSP"] % 16 = 8
                    /\ StackOf[f] <= StackPointer(f) /\ StackPointer(f) < Top(f)
                    /\ \A i \in 1..Len(frames[f]) :
                         mem[StackPointer(f) + 8 * (i - 1)] = frames[f][i]
  BY Zenon DEF FiberIsIntact
<1>1. f \in Every /\ frames[f] \in Seq(RegValue)  BY Zenon DEF OSFiberInv, OSFiberTypes
<1>2. PICK k \in Nat : k = Len(frames[f])  BY <1>1
<1>3. k <= MaxFrames /\ StackPointer(f) = Slot(f, k)  BY Zenon, <1>2 DEF OSFiberInv
<1>4. MaxFrames \in Nat  BY Zenon, OSFiberAssumption
<1>5. StackOf[f] <= StackPointer(f) /\ StackPointer(f) < Top(f)
  <2>1. k >= -1 /\ k <= MaxFrames + 1 /\ k \in Int  BY <1>3, <1>4
  <2>2. QED  BY Zenon, <1>1, <1>3, <2>1, SlotInside
<1>6. PICK b \in Nat : b = StackOf[f] /\ b % 16 = 0  BY Zenon, <1>1, OSFiberAssumption DEF Every
<1>7. StackSize \in Nat /\ StackSize % 16 = 0  BY Zenon, OSFiberAssumption
<1>8. Slot(f, 0) % 16 = 8
  <2>1. PICK c \in Int : b = 16 * c  BY <1>6
  <2>2. PICK d \in Int : StackSize = 16 * d  BY <1>7
  <2>3. Slot(f, 0) = 16 * (c + d - 2) + 8  BY <1>6, <2>1, <2>2 DEF Slot, Top
  <2>4. \A x \in Int : (16 * x + 8) % 16 = 8  OBVIOUS
  <2>5. c + d - 2 \in Int  OBVIOUS
  <2>6. QED  BY Zenon, <2>3, <2>4, <2>5
<1>9. ASSUME NEW i \in 1..Len(frames[f])
      PROVE  mem[StackPointer(f) + 8 * (i - 1)] = frames[f][i]
  <2> i \in 1..k  BY Zenon, <1>2, <1>9
  <2>1. PICK n \in 1..k : n = k + 1 - i  OBVIOUS
  <2>2. mem[Slot(f, n)] = frames[f][k + 1 - n]  BY Zenon, <1>2 DEF OSFiberInv, Words
  <2>3. k + 1 - n = i  BY <2>1, <1>2
  <2>4. Slot(f, n) = Slot(f, k) + 8 * (i - 1)
    <3>1. PICK t \in Int : t = Top(f) - 24  BY <1>6, <1>7 DEF Top
    <3>2. Slot(f, n) = t - 8 * n /\ Slot(f, k) = t - 8 * k  BY Zenon, <3>1 DEF Slot
    <3>3. t - 8 * n = (t - 8 * k) + 8 * (i - 1)  BY <2>1
    <3>4. QED  BY Zenon, <3>2, <3>3
  <2>5. QED  BY Zenon, <1>3, <2>2, <2>3, <2>4
<1>10. ASSUME f # current
       PROVE  IF HasLeft(f)
              THEN \A r \in CalleeSaved \cup {"RSP", "RIP"} : context[f][r] = left[f][r]
              ELSE /\ context[f]["RIP"] = Trampoline
                   /\ context[f]["RSI"] = f
                   /\ context[f]["RSP"] % 16 = 8
  BY Zenon, <1>8, <1>10 DEF OSFiberInv, Resumable
<1>11. QED  BY Zenon, <1>5, <1>9, <1>10

\* What a step leaves of a fiber it does not run: its frames and its words.
LEMMA WordsKept ==
    ASSUME OSFiberInv, NEW f \in made, frames'[f] = frames[f],
           \A n \in 1..Len(frames[f]) :
              Slot(f, n) \in DOMAIN mem => /\ Slot(f, n) \in DOMAIN mem'
                                           /\ mem'[Slot(f, n)] = mem[Slot(f, n)]
    PROVE  Words(f)'
<1>1. \A n \in 1..Len(frames[f]) :
         Slot(f, n) \in DOMAIN mem /\ mem[Slot(f, n)] = frames[f][Len(frames[f]) + 1 - n]
  BY Zenon DEF OSFiberInv, Words
<1>2. QED  BY Zenon, <1>1 DEF Words, Slot, Top

\* The number of words a fiber has is within the bound.
LEMMA Depth ==
    ASSUME OSFiberInv, NEW f \in made
    PROVE  /\ f \in Every /\ frames[f] \in Seq(RegValue) /\ Len(frames[f]) \in Nat
           /\ MaxFrames \in Nat /\ Len(frames[f]) <= MaxFrames
           /\ StackPointer(f) = Slot(f, Len(frames[f]))
<1>1. f \in Every /\ frames[f] \in Seq(RegValue)  BY Zenon DEF OSFiberInv, OSFiberTypes
<1>2. QED  BY <1>1, OSFiberAssumption DEF OSFiberInv

\* A word that one fiber writes, or drops, is none that another one has pushed.
LEMMA OthersWords ==
    ASSUME OSFiberInv, NEW f \in made, NEW g \in Every, NEW m \in Int, m >= -1, m <= MaxFrames + 1,
           f # g \/ m > Len(frames[f]) \/ m < 1
    PROVE  \A n \in 1..Len(frames[f]) : Slot(f, n) # Slot(g, m)
<1>1. /\ f \in Every /\ Len(frames[f]) \in Nat
      /\ MaxFrames \in Nat /\ Len(frames[f]) <= MaxFrames
  BY Zenon, Depth
<1>2. TAKE n \in 1..Len(frames[f])
<1>3. n \in Int /\ n >= -1 /\ n <= MaxFrames + 1 /\ (f # g \/ n # m)  BY <1>1
<1>4. QED  BY Zenon, <1>1, <1>3, SlotApart

\* createFiber(): a new stack and a context that starts at the trampoline.
LEMMA CreateKeeps ==
    ASSUME OSFiberInv, NEW h \in OSFibers, CreateFiber(h)
    PROVE  OSFiberInv'
<1>1. h \in Every /\ h \notin made  BY Zenon DEF Every, CreateFiber
<1>2. OSFiberTypes'
  <2>1. made' \subseteq Every /\ current' \in made'
    BY Zenon, <1>1 DEF OSFiberInv, OSFiberTypes, CreateFiber
  <2>2. Cleared = [r \in Reg |-> Cleared[r]]  BY DEF Cleared
  <2>3. SetTarget(h) = [r \in Reg |-> SetTarget(h)[r]]  BY Zenon, <2>2 DEF SetTarget
  <2>4. regs' = [r \in Reg |-> regs'[r]]  BY Zenon DEF OSFiberInv, OSFiberTypes, CreateFiber
  <2>5. context' = [f \in Every |-> [r \in Reg |-> context'[f][r]]]
    BY Zenon, <2>3 DEF OSFiberInv, OSFiberTypes, CreateFiber
  <2>6. left' = [f \in Every |-> [r \in Reg |-> left'[f][r]]]
    BY Zenon, <2>2 DEF OSFiberInv, OSFiberTypes, CreateFiber
  <2>7. mem' = [a \in DOMAIN mem' |-> mem'[a]]  BY Zenon DEF CreateFiber, Store
  <2>8. frames' \in [Every -> Seq(RegValue)]
    <3>1. <<>> \in Seq(RegValue)  OBVIOUS
    <3>2. QED  BY Zenon, <3>1 DEF OSFiberInv, OSFiberTypes, CreateFiber
  <2>9. QED  BY Zenon, <2>1, <2>4, <2>5, <2>6, <2>7, <2>8 DEF OSFiberTypes
<1>3. ASSUME NEW f \in made', f # h
      PROVE  /\ Len(frames'[f]) <= MaxFrames
             /\ StackPointer(f)' = Slot(f, Len(frames'[f]))
             /\ Words(f)'
             /\ f # current' => Resumable(f)'
  <2>1. f \in made /\ f \in Every  BY Zenon, <1>3 DEF CreateFiber, OSFiberInv, OSFiberTypes
  <2>2. frames'[f] = frames[f] /\ context'[f] = context[f] /\ left'[f] = left[f]
    BY Zenon, <1>3, <2>1 DEF OSFiberInv, OSFiberTypes, CreateFiber
  <2>3. regs' = regs /\ current' = current  BY Zenon DEF CreateFiber
  <2>4. Len(frames'[f]) <= MaxFrames  BY Zenon, <2>1, <2>2 DEF OSFiberInv
  <2>5. StackPointer(f)' = StackPointer(f)  BY Zenon, <2>2, <2>3 DEF StackPointer
  <2>6. f # current' => Resumable(f)'
    BY <2>1, <2>2, <2>3 DEF OSFiberInv, Resumable, HasLeft, Slot, Top
  <2>7. \A n \in 1..Len(frames[f]) : Slot(f, n) # Slot(h, -1)
    <3>1. -1 \in Int /\ -1 >= -1 /\ -1 <= MaxFrames + 1  BY OSFiberAssumption
    <3>2. QED  BY Zenon, <1>1, <1>3, <2>1, <3>1, OthersWords
  <2>8. mem' = Store(mem, Slot(h, -1), Zero)  BY Zenon, <1>1, StackTopIsTop DEF CreateFiber
  <2>9. Words(f)'  BY Zenon, <2>1, <2>2, <2>7, <2>8, WordsKept DEF Store
  <2>10. QED  BY Zenon, <2>1, <2>2, <2>4, <2>5, <2>6, <2>9 DEF OSFiberInv
<1>4. /\ Len(frames'[h]) <= MaxFrames
      /\ StackPointer(h)' = Slot(h, Len(frames'[h]))
      /\ Words(h)'
      /\ h # current' => Resumable(h)'
  <2>1. frames'[h] = <<>> /\ context'[h] = SetTarget(h) /\ left'[h] = Cleared
    BY Zenon, <1>1 DEF OSFiberInv, OSFiberTypes, CreateFiber
  <2>2. Len(frames'[h]) = 0  BY <2>1
  <2>3. h # current'  BY Zenon, <1>1 DEF CreateFiber, OSFiberInv, OSFiberTypes
  <2>4. /\ context'[h]["RIP"] = Trampoline /\ context'[h]["RSI"] = h
        /\ context'[h]["RSP"] = Slot(h, 0)
    BY Zenon, <1>1, <2>1, StackTopIsTop DEF SetTarget, Cleared, Reg
  <2>5. left'[h]["RIP"] = Nowhere
    BY Zenon, <2>1, OSFiberAssumption DEF Cleared, Reg
  <2>6. Resumable(h)'  BY Zenon, <2>4, <2>5 DEF Resumable, HasLeft, Slot, Top
  <2>7. StackPointer(h)' = Slot(h, 0)  BY Zenon, <2>3, <2>4 DEF StackPointer
  <2>8. Words(h)'  BY <2>2 DEF Words
  <2>9. QED  BY <2>2, <2>6, <2>7, <2>8, OSFiberAssumption
<1>5. QED  BY Zenon, <1>2, <1>3, <1>4 DEF OSFiberInv, Slot, Top

\* The destructor gives the stack of one fiber back, and no word of another.
LEMMA DestroyKeeps ==
    ASSUME OSFiberInv, NEW h \in OSFibers, DestroyFiber(h)
    PROVE  OSFiberInv'
<1>1. /\ h \in made \ {current, Root} /\ made' = made \ {h} /\ h \in Every
      /\ mem' = [a \in DOMAIN mem \ StackOf[h]..(Top(h) - 1) |-> mem[a]]
      /\ regs' = regs /\ context' = context /\ current' = current
      /\ frames' = frames /\ left' = left
  BY Zenon DEF DestroyFiber, Every
<1>2. mem' = [a \in DOMAIN mem' |-> mem'[a]]  BY Zenon, <1>1
<1>3. OSFiberTypes'  BY Zenon, <1>1, <1>2 DEF OSFiberInv, OSFiberTypes
<1>4. ASSUME NEW f \in made'
      PROVE  /\ Len(frames'[f]) <= MaxFrames
             /\ StackPointer(f)' = Slot(f, Len(frames'[f]))
             /\ Words(f)'
             /\ f # current' => Resumable(f)'
  <2>1. f \in made /\ f # h  BY Zenon, <1>1, <1>4
  <2>2. f \in Every /\ Len(frames[f]) \in Nat /\ MaxFrames \in Nat /\ Len(frames[f]) <= MaxFrames
    BY Zenon, <2>1, Depth
  <2>3. \A n \in 1..Len(frames[f]) : Slot(f, n) \notin StackOf[h]..(Top(h) - 1)
    <3>1. TAKE n \in 1..Len(frames[f])
    <3>2. n \in Int /\ n >= -1 /\ n <= MaxFrames + 1  BY <2>2
    <3>3. PICK a \in Int : a = Slot(f, n) /\ StackOf[f] <= a /\ a < Top(f)
      BY Zenon, <2>2, <3>2, SlotInside
    <3>4. PICK b \in Nat : b = StackOf[f]  BY Zenon, <2>2, OSFiberAssumption DEF Every
    <3>5. PICK c \in Nat : c = StackOf[h]  BY Zenon, <1>1, OSFiberAssumption DEF Every
    <3>6. b + StackSize <= c \/ c + StackSize <= b
      BY Zenon, <1>1, <2>1, <2>2, <3>4, <3>5, OSFiberAssumption DEF Every
    <3>7. StackSize \in Nat  BY Zenon, OSFiberAssumption
    <3>8. QED  BY <3>3, <3>4, <3>5, <3>6, <3>7 DEF Top
  <2>4. Words(f)'  BY Zenon, <1>1, <2>1, <2>3, WordsKept
  <2>5. StackPointer(f)' = StackPointer(f)  BY Zenon, <1>1 DEF StackPointer
  <2>6. f # current' => Resumable(f)'
    BY Zenon, <1>1, <2>1 DEF OSFiberInv, Resumable, HasLeft, Slot, Top
  <2>7. QED  BY Zenon, <1>1, <2>1, <2>4, <2>5, <2>6 DEF OSFiberInv
<1>5. QED  BY Zenon, <1>3, <1>4 DEF OSFiberInv, Slot, Top

\* What a step of the running function leaves alone.
LEMMA OthersKept ==
    ASSUME OSFiberInv, made' = made, context' = context, current' = current, left' = left,
           NEW f \in made, f # current, frames'[f] = frames[f],
           \A n \in 1..Len(frames[f]) :
              Slot(f, n) \in DOMAIN mem => /\ Slot(f, n) \in DOMAIN mem'
                                           /\ mem'[Slot(f, n)] = mem[Slot(f, n)]
    PROVE  /\ Len(frames'[f]) <= MaxFrames
           /\ StackPointer(f)' = Slot(f, Len(frames'[f]))
           /\ Words(f)'
           /\ f # current' => Resumable(f)'
<1>1. Words(f)'  BY Zenon, WordsKept
<1>2. StackPointer(f)' = StackPointer(f)  BY Zenon DEF StackPointer
<1>3. Resumable(f)'  BY Zenon DEF OSFiberInv, Resumable, HasLeft, Slot, Top
<1>4. QED  BY Zenon, <1>1, <1>2, <1>3 DEF OSFiberInv

\* The running fiber uses its registers.
LEMMA SetRegisterKeeps ==
    ASSUME OSFiberInv, NEW r \in CalleeSaved, NEW v \in RegValue, SetRegister(r, v)
    PROVE  OSFiberInv'
<1>1. /\ regs' = [regs EXCEPT ![r] = v]
      /\ made' = made /\ mem' = mem /\ context' = context /\ current' = current
      /\ frames' = frames /\ left' = left
  BY Zenon DEF SetRegister
<1>2. regs' = [q \in Reg |-> regs'[q]]  BY Zenon, <1>1 DEF OSFiberInv, OSFiberTypes
<1>3. OSFiberTypes'  BY <1>1, <1>2 DEF OSFiberInv, OSFiberTypes
<1>4. r # "RSP" /\ "RSP" \in Reg  BY Zenon, OSFiberAssumption DEF Reg
<1>5. regs'["RSP"] = regs["RSP"]  BY Zenon, <1>1, <1>4 DEF OSFiberInv, OSFiberTypes
<1>6. ASSUME NEW f \in made
      PROVE  /\ Len(frames'[f]) <= MaxFrames
             /\ StackPointer(f)' = Slot(f, Len(frames'[f]))
             /\ Words(f)'
             /\ f # current' => Resumable(f)'
  <2>1. Words(f)'  BY Zenon, <1>1, WordsKept
  <2>2. StackPointer(f)' = StackPointer(f)  BY Zenon, <1>1, <1>5 DEF StackPointer
  <2>3. f # current' => Resumable(f)'
    BY Zenon, <1>1 DEF OSFiberInv, Resumable, HasLeft, Slot, Top
  <2>4. QED  BY Zenon, <1>1, <2>1, <2>2, <2>3 DEF OSFiberInv
<1>7. QED  BY Zenon, <1>1, <1>3, <1>6 DEF OSFiberInv, Slot, Top

\* The running fiber pushes a word, which is a word of no other fiber.
LEMMA PushKeeps ==
    ASSUME OSFiberInv, NEW v \in RegValue, Push(v)
    PROVE  OSFiberInv'
<1>1. /\ Len(frames[current]) < MaxFrames
      /\ regs' = [regs EXCEPT !["RSP"] = @ - 8]
      /\ mem' = Store(mem, regs["RSP"] - 8, v)
      /\ frames' = [frames EXCEPT ![current] = <<v>> \o @]
      /\ made' = made /\ context' = context /\ current' = current /\ left' = left
  BY Zenon DEF Push
<1>2. current \in made  BY Zenon DEF OSFiberInv, OSFiberTypes
<1>c. PICK c \in made : c = current  BY Zenon, <1>2
<1>3. PICK k \in Nat : k = Len(frames[current])  BY Zenon, <1>2, Depth
<1>4. PICK s \in Seq(RegValue) : s = frames[current]  BY Zenon, <1>2, Depth
<1>5. current \in Every /\ MaxFrames \in Nat /\ k < MaxFrames /\ k = Len(s)
  BY Zenon, <1>1, <1>2, <1>3, <1>4, Depth
<1>6. regs["RSP"] = Slot(current, k)  BY Zenon, <1>2, <1>3, Depth DEF StackPointer
<1>7. PICK b \in Nat : b = StackOf[current]  BY Zenon, <1>5, OSFiberAssumption DEF Every
<1>8. regs["RSP"] - 8 = Slot(current, k + 1)
  <2>1. StackSize \in Nat  BY Zenon, OSFiberAssumption
  <2>2. QED  BY <1>6, <1>7, <2>1 DEF Slot, Top
<1>9. mem' = Store(mem, Slot(current, k + 1), v)  BY Zenon, <1>1, <1>8
<1>10. "RSP" \in Reg  BY Zenon DEF Reg
<1>11. regs'["RSP"] = Slot(current, k + 1)
  BY Zenon, <1>1, <1>8, <1>10 DEF OSFiberInv, OSFiberTypes
<1>12. <<v>> \o s \in Seq(RegValue)  OBVIOUS
<1>13. frames'[current] = <<v>> \o s  BY Zenon, <1>1, <1>4, <1>5 DEF OSFiberInv, OSFiberTypes
<1>14. OSFiberTypes'
  <2>1. regs' = [q \in Reg |-> regs'[q]]  BY Zenon, <1>1 DEF OSFiberInv, OSFiberTypes
  <2>2. mem' = [a \in DOMAIN mem' |-> mem'[a]]  BY Zenon, <1>9 DEF Store
  <2>3. frames' \in [Every -> Seq(RegValue)]  BY Zenon, <1>1, <1>4, <1>12 DEF OSFiberInv, OSFiberTypes
  <2>4. QED  BY <1>1, <2>1, <2>2, <2>3 DEF OSFiberInv, OSFiberTypes
<1>15. k + 1 \in Int /\ k + 1 >= -1 /\ k + 1 <= MaxFrames + 1 /\ k + 1 > k  BY <1>5
<1>16. ASSUME NEW f \in made, f # current
       PROVE  /\ Len(frames'[f]) <= MaxFrames
              /\ StackPointer(f)' = Slot(f, Len(frames'[f]))
              /\ Words(f)'
              /\ f # current' => Resumable(f)'
  <2>1. frames'[f] = frames[f]  BY Zenon, <1>1, <1>16 DEF OSFiberInv, OSFiberTypes
  <2>2. \A n \in 1..Len(frames[f]) : Slot(f, n) # Slot(current, k + 1)
    BY Zenon, <1>5, <1>15, <1>16, OthersWords
  <2>3. QED  BY Zenon, <1>1, <1>9, <1>16, <2>1, <2>2, OthersKept DEF Store
<1>17. Len(frames'[current]) = k + 1  BY <1>5, <1>13
<1>18. StackPointer(c)' = Slot(c, k + 1)  BY Zenon, <1>1, <1>c, <1>11 DEF StackPointer
<1>19. Words(c)'
  <2>1. \A n \in 1..k : Slot(current, n) # Slot(current, k + 1)
    BY Zenon, <1>2, <1>3, <1>5, <1>15, OthersWords
  <2>2. \A n \in 1..k : Slot(current, n) \in DOMAIN mem /\ mem[Slot(current, n)] = s[k + 1 - n]
    BY Zenon, <1>2, <1>3, <1>4 DEF OSFiberInv, Words
  <2>3. \A n \in 1..k : Slot(current, n) \in DOMAIN mem' /\ mem'[Slot(current, n)] = s[k + 1 - n]
    BY Zenon, <2>1, <2>2, <1>9 DEF Store
  <2>4. Slot(current, k + 1) \in DOMAIN mem' /\ mem'[Slot(current, k + 1)] = v
    BY Zenon, <1>9 DEF Store
  <2>5. \A n \in 1..k : (<<v>> \o s)[(k + 1) + 1 - n] = s[k + 1 - n]  BY <1>5
  <2>6. (<<v>> \o s)[1] = v  OBVIOUS
  <2>7. ASSUME NEW n \in 1..(k + 1)
        PROVE  Slot(current, n) \in DOMAIN mem'
               /\ mem'[Slot(current, n)] = (<<v>> \o s)[(k + 1) + 1 - n]
    <3>1. CASE n = k + 1
      <4>1. (k + 1) + 1 - n = 1  BY <3>1
      <4>2. QED  BY Zenon, <2>4, <2>6, <3>1, <4>1
    <3>2. CASE n \in 1..k  BY Zenon, <2>3, <2>5, <3>2
    <3>3. n = k + 1 \/ n \in 1..k  OBVIOUS
    <3>4. QED  BY Zenon, <3>1, <3>2, <3>3
  <2>9. frames'[c] = <<v>> \o s /\ Len(frames'[c]) = k + 1  BY Zenon, <1>c, <1>13, <1>17
  <2>10. \A n \in 1..(k + 1) : Slot(c, n) \in DOMAIN mem'
                             /\ mem'[Slot(c, n)] = (<<v>> \o s)[(k + 1) + 1 - n]
    BY Zenon, <2>7, <1>c
  <2>12. \A n \in 1..Len(frames'[c]) : Slot(c, n) \in DOMAIN mem'
                             /\ mem'[Slot(c, n)] = frames'[c][Len(frames'[c]) + 1 - n]
    BY Zenon, <2>9, <2>10
  <2>13. QED  BY Zenon, <2>12 DEF Words, Slot, Top
<1>20. QED
  <2>1. k + 1 <= MaxFrames  BY <1>5
  <2>2. QED  BY Zenon, <1>1, <1>c, <1>14, <1>16, <1>17, <1>18, <1>19, <2>1 DEF OSFiberInv, Slot, Top

\* The running fiber pops a word.
LEMMA PopKeeps ==
    ASSUME OSFiberInv, Pop
    PROVE  OSFiberInv'
<1>1. /\ frames[current] # <<>>
      /\ regs' = [regs EXCEPT !["RSP"] = @ + 8]
      /\ mem' = Drop(mem, regs["RSP"])
      /\ frames' = [frames EXCEPT ![current] = Tail(@)]
      /\ made' = made /\ context' = context /\ current' = current /\ left' = left
  BY Zenon DEF Pop
<1>2. current \in made  BY Zenon DEF OSFiberInv, OSFiberTypes
<1>c. PICK c \in made : c = current  BY Zenon, <1>2
<1>3. PICK k \in Nat : k = Len(frames[current])  BY Zenon, <1>2, Depth
<1>4. PICK s \in Seq(RegValue) : s = frames[current]  BY Zenon, <1>2, Depth
<1>5. /\ current \in Every /\ MaxFrames \in Nat /\ k <= MaxFrames /\ k = Len(s)
      /\ s # <<>>
  BY Zenon, <1>1, <1>2, <1>3, <1>4, Depth
<1>6. regs["RSP"] = Slot(current, k)  BY Zenon, <1>2, <1>3, Depth DEF StackPointer
<1>7. PICK b \in Nat : b = StackOf[current]  BY Zenon, <1>5, OSFiberAssumption DEF Every
<1>8. regs["RSP"] + 8 = Slot(current, k - 1)
  <2>1. StackSize \in Nat  BY Zenon, OSFiberAssumption
  <2>2. QED  BY <1>6, <1>7, <2>1 DEF Slot, Top
<1>9. mem' = Drop(mem, Slot(current, k))  BY Zenon, <1>1, <1>6
<1>10. "RSP" \in Reg  BY Zenon DEF Reg
<1>11. regs'["RSP"] = Slot(current, k - 1)
  BY Zenon, <1>1, <1>8, <1>10 DEF OSFiberInv, OSFiberTypes
<1>12. k >= 1 /\ Tail(s) \in Seq(RegValue) /\ Len(Tail(s)) = k - 1  BY <1>5
<1>13. frames'[current] = Tail(s)  BY Zenon, <1>1, <1>4, <1>5 DEF OSFiberInv, OSFiberTypes
<1>14. OSFiberTypes'
  <2>1. regs' = [q \in Reg |-> regs'[q]]  BY Zenon, <1>1 DEF OSFiberInv, OSFiberTypes
  <2>2. mem' = [a \in DOMAIN mem' |-> mem'[a]]  BY Zenon, <1>9 DEF Drop
  <2>3. frames' \in [Every -> Seq(RegValue)]  BY Zenon, <1>1, <1>4, <1>12 DEF OSFiberInv, OSFiberTypes
  <2>4. QED  BY <1>1, <2>1, <2>2, <2>3 DEF OSFiberInv, OSFiberTypes
<1>15. k \in Int /\ k >= -1 /\ k <= MaxFrames + 1  BY <1>5
<1>16. ASSUME NEW f \in made, f # current
       PROVE  /\ Len(frames'[f]) <= MaxFrames
              /\ StackPointer(f)' = Slot(f, Len(frames'[f]))
              /\ Words(f)'
              /\ f # current' => Resumable(f)'
  <2>1. frames'[f] = frames[f]  BY Zenon, <1>1, <1>16 DEF OSFiberInv, OSFiberTypes
  <2>2. \A n \in 1..Len(frames[f]) : Slot(f, n) # Slot(current, k)
    BY Zenon, <1>5, <1>15, <1>16, OthersWords
  <2>3. QED  BY Zenon, <1>1, <1>9, <1>16, <2>1, <2>2, OthersKept DEF Drop
<1>17. frames'[c] = Tail(s) /\ Len(frames'[c]) = k - 1  BY Zenon, <1>c, <1>12, <1>13
<1>18. StackPointer(c)' = Slot(c, k - 1)  BY Zenon, <1>1, <1>c, <1>11 DEF StackPointer
<1>19. Words(c)'
  <2>1. \A n \in 1..(k - 1) : Slot(c, n) # Slot(c, k)
    <3>1. TAKE n \in 1..(k - 1)
    <3>2. n \in Int /\ n >= -1 /\ n <= MaxFrames + 1 /\ n # k  BY <1>5, <1>12
    <3>3. QED  BY Zenon, <1>c, <1>5, <1>15, <3>2, SlotApart
  <2>2. \A n \in 1..k : Slot(c, n) \in DOMAIN mem /\ mem[Slot(c, n)] = s[k + 1 - n]
    BY Zenon, <1>c, <1>2, <1>3, <1>4 DEF OSFiberInv, Words
  <2>3. \A n \in 1..(k - 1) : Slot(c, n) \in DOMAIN mem' /\ mem'[Slot(c, n)] = s[k + 1 - n]
    BY <1>c, <2>1, <2>2, <1>9 DEF Drop
  <2>4. \A n \in 1..(k - 1) : Tail(s)[(k - 1) + 1 - n] = s[k + 1 - n]  BY <1>5
  <2>5. \A n \in 1..(k - 1) : Slot(c, n) \in DOMAIN mem'
                              /\ mem'[Slot(c, n)] = Tail(s)[(k - 1) + 1 - n]
    BY Zenon, <2>3, <2>4
  <2>6. \A n \in 1..Len(frames'[c]) : Slot(c, n) \in DOMAIN mem'
                             /\ mem'[Slot(c, n)] = frames'[c][Len(frames'[c]) + 1 - n]
    BY Zenon, <1>17, <2>5
  <2>7. QED  BY Zenon, <2>6 DEF Words, Slot, Top
<1>20. QED
  <2>1. k - 1 <= MaxFrames  BY <1>5
  <2>2. QED  BY Zenon, <1>1, <1>c, <1>14, <1>16, <1>17, <1>18, <1>19, <2>1 DEF OSFiberInv, Slot, Top

\* marl_fiber_swap(): the registers are stored in one context and loaded from
\* another.
LEMMA SwitchToKeeps ==
    ASSUME OSFiberInv, NEW g \in Every, NEW point \in Points, SwitchTo(g, point)
    PROVE  OSFiberInv'
<1>1. PICK c \in made : c = current  BY Zenon DEF OSFiberInv, OSFiberTypes
<1>2. PICK k \in Nat : k = Len(frames[c])  BY Zenon, <1>1, Depth
<1>3. g \in made /\ g # c  BY Zenon, <1>1 DEF SwitchTo
<1>4. PICK j \in Nat : j = Len(frames[g])  BY Zenon, <1>3, Depth
<1>5. c \in Every /\ MaxFrames \in Nat /\ k <= MaxFrames /\ j <= MaxFrames
  BY Zenon, <1>1, <1>2, <1>3, <1>4, Depth
<1>6. regs["RSP"] = Slot(c, k) /\ context[g]["RSP"] = Slot(g, j)
  BY Zenon, <1>1, <1>2, <1>3, <1>4, Depth DEF StackPointer
<1>7. /\ Slot(c, k) - 8 = Slot(c, k + 1) /\ Slot(g, j) - 8 = Slot(g, j + 1)
      /\ Slot(c, k + 1) + 8 = Slot(c, k)
  <2>1. StackSize \in Nat  BY Zenon, OSFiberAssumption
  <2>2. PICK x \in Nat : x = StackOf[c]  BY Zenon, <1>5, OSFiberAssumption DEF Every
  <2>3. PICK y \in Nat : y = StackOf[g]  BY Zenon, OSFiberAssumption DEF Every
  <2>4. QED  BY <2>1, <2>2, <2>3 DEF Slot, Top
<1>8. PICK m : m = Store(mem, Slot(c, k + 1), point)  BY Zenon
<1>9. {"RDI", "RSI", "RSP", "RIP"} \subseteq Reg /\ CalleeSaved \subseteq Reg  BY Zenon DEF Reg
<1>10. PICK called : called = [regs EXCEPT !["RSP"] = @ - 8]  BY Zenon
<1>11. /\ called["RSP"] = Slot(c, k + 1)
       /\ DOMAIN called = Reg /\ \A r \in Reg : r # "RSP" => called[r] = regs[r]
  BY Zenon, <1>6, <1>7, <1>9, <1>10 DEF OSFiberInv, OSFiberTypes
<1>12. m[Slot(c, k + 1)] = point  BY Zenon, <1>8 DEF Store
<1>13. PICK s : s = Saved(called, m)  BY Zenon
<1>14. /\ s["RIP"] = point /\ s["RSP"] = Slot(c, k)
       /\ \A r \in CalleeSaved : s[r] = regs[r]
  <2>1. s = [called EXCEPT !["RIP"] = point, !["RSP"] = Slot(c, k)]
    BY Zenon, <1>7, <1>11, <1>12, <1>13 DEF Saved
  <2>2. s["RIP"] = point /\ s["RSP"] = Slot(c, k)  BY Zenon, <1>9, <1>11, <2>1
  <2>3. ASSUME NEW r \in CalleeSaved  PROVE s[r] = regs[r]
    <3>1. r \in Reg /\ r # "RSP" /\ r # "RIP"  BY Zenon, <1>9, OSFiberAssumption
    <3>2. QED  BY Zenon, <1>11, <2>1, <3>1
  <2>4. QED  BY Zenon, <2>2, <2>3
<1>15. /\ mem' = Drop(m, Slot(g, j + 1))
       /\ context' = [context EXCEPT ![c] =
                        [r \in Reg |-> IF r \in {"RDI", "RSI"} THEN @[r] ELSE s[r]]]
       /\ regs' = context[g]
       /\ left' = [left EXCEPT ![c] = [regs EXCEPT !["RIP"] = point], ![g] = Cleared]
       /\ current' = g /\ made' = made /\ frames' = frames
  <2>1. called["RSP"] = regs["RSP"] - 8  BY Zenon, <1>6, <1>7, <1>11
  <2>2. m = Store(mem, called["RSP"], point)  BY Zenon, <1>8, <1>11
  <2>3. mem' = Drop(m, context[g]["RSP"] - 8)  BY Zenon, <1>10, <2>2 DEF SwitchTo
  <2>4. context' = [context EXCEPT ![c] =
                      [r \in Reg |-> IF r \in {"RDI", "RSI"} THEN @[r] ELSE s[r]]]
    BY <1>1, <1>10, <1>13, <2>2 DEF SwitchTo
  <2>5. QED  BY Zenon, <1>1, <1>6, <1>7, <2>3, <2>4 DEF SwitchTo
<1>16. /\ \A r \in CalleeSaved : context'[c][r] = regs[r]
       /\ context'[c]["RIP"] = point /\ context'[c]["RSP"] = Slot(c, k)
       /\ \A f \in Every : f # c => context'[f] = context[f]
  <2>1. context'[c] = [r \in Reg |-> IF r \in {"RDI", "RSI"} THEN context[c][r] ELSE s[r]]
    BY Zenon, <1>5, <1>15 DEF OSFiberInv, OSFiberTypes
  <2>2. context'[c]["RIP"] = point /\ context'[c]["RSP"] = Slot(c, k)  BY Zenon, <1>9, <1>14, <2>1
  <2>3. \A r \in CalleeSaved : context'[c][r] = regs[r]
    BY Zenon, <1>9, <1>14, <2>1, OSFiberAssumption
  <2>4. \A f \in Every : f # c => context'[f] = context[f]
    BY Zenon, <1>15 DEF OSFiberInv, OSFiberTypes
  <2>5. QED  BY Zenon, <2>2, <2>3, <2>4
<1>17. /\ left'[c] = [regs EXCEPT !["RIP"] = point]
       /\ \A f \in Every : f # c /\ f # g => left'[f] = left[f]
  BY Zenon, <1>3, <1>5, <1>15 DEF OSFiberInv, OSFiberTypes
<1>18. OSFiberTypes'
  <2>1. regs' = [r \in Reg |-> regs'[r]]  BY Zenon, <1>15 DEF OSFiberInv, OSFiberTypes
  <2>2. context' = [f \in Every |-> [r \in Reg |-> context'[f][r]]]
    BY Zenon, <1>15 DEF OSFiberInv, OSFiberTypes
  <2>3. Cleared = [r \in Reg |-> Cleared[r]]  BY DEF Cleared
  <2>4. left' = [f \in Every |-> [r \in Reg |-> left'[f][r]]]
    <3>1. \A f \in Every : left'[f] = [r \in Reg |-> left'[f][r]]
      <4>1. left'[g] = Cleared  BY Zenon, <1>15 DEF OSFiberInv, OSFiberTypes
      <4>2. left'[c] = [r \in Reg |-> left'[c][r]]  BY Zenon, <1>17 DEF OSFiberInv, OSFiberTypes
      <4>3. \A f \in Every : left[f] = [r \in Reg |-> left[f][r]]  BY Zenon DEF OSFiberInv, OSFiberTypes
      <4>4. QED  BY <1>17, <2>3, <4>1, <4>2, <4>3
    <3>2. left' = [f \in Every |-> left'[f]]  BY Zenon, <1>15 DEF OSFiberInv, OSFiberTypes
    <3>3. QED  BY Zenon, <3>1, <3>2
  <2>5. mem' = [a \in DOMAIN mem' |-> mem'[a]]  BY Zenon, <1>15 DEF Drop
  <2>6. QED  BY Zenon, <1>3, <1>15, <2>1, <2>2, <2>4, <2>5 DEF OSFiberInv, OSFiberTypes
<1>19. ASSUME NEW f \in made  PROVE Words(f)'
  <2>1. /\ k + 1 \in Int /\ k + 1 >= -1 /\ k + 1 <= MaxFrames + 1 /\ k + 1 > k
        /\ j + 1 \in Int /\ j + 1 >= -1 /\ j + 1 <= MaxFrames + 1 /\ j + 1 > j
    BY <1>5
  <2>2. \A n \in 1..Len(frames[f]) : Slot(f, n) # Slot(c, k + 1)
    BY Zenon, <1>2, <1>5, <2>1, OthersWords
  <2>3. \A n \in 1..Len(frames[f]) : Slot(f, n) # Slot(g, j + 1)
    BY Zenon, <1>4, <1>5, <2>1, OthersWords
  <2>4. frames'[f] = frames[f]  BY Zenon, <1>15
  <2>5. \A n \in 1..Len(frames[f]) :
           Slot(f, n) \in DOMAIN mem => /\ Slot(f, n) \in DOMAIN mem'
                                        /\ mem'[Slot(f, n)] = mem[Slot(f, n)]
    BY Zenon, <1>8, <1>15, <2>2, <2>3 DEF Store, Drop
  <2>6. QED  BY Zenon, <2>4, <2>5, WordsKept
<1>20. ASSUME NEW f \in made  PROVE StackPointer(f)' = Slot(f, Len(frames[f]))
  <2>1. f \in Every  BY Zenon, <1>20, Depth
  <2>2. CASE f = g  BY Zenon, <1>4, <1>6, <1>15, <2>2 DEF StackPointer
  <2>3. CASE f = c  BY Zenon, <1>2, <1>3, <1>15, <1>16, <2>3 DEF StackPointer
  <2>4. CASE f # g /\ f # c
    <3>1. StackPointer(f)' = StackPointer(f)  BY <1>1, <1>15, <1>16, <2>1, <2>4 DEF StackPointer
    <3>2. QED  BY Zenon, <1>20, <3>1, Depth
  <2>5. QED  BY Zenon, <2>2, <2>3, <2>4
<1>21. ASSUME NEW f \in made, f # g  PROVE Resumable(f)'
  <2>1. f \in Every  BY Zenon, <1>21, Depth
  <2>2. CASE f = c
    <3>1. left'[c]["RIP"] = point  BY Zenon, <1>9, <1>17 DEF OSFiberInv, OSFiberTypes
    <3>2. left'[c]["RSP"] = Slot(c, k)  BY Zenon, <1>6, <1>9, <1>17 DEF OSFiberInv, OSFiberTypes
    <3>3. ASSUME NEW r \in CalleeSaved  PROVE left'[c][r] = regs[r]
      <4>1. r # "RIP" /\ r \in Reg  BY Zenon, <1>9, OSFiberAssumption
      <4>2. QED  BY Zenon, <1>17, <4>1 DEF OSFiberInv, OSFiberTypes
    <3>4. point # Nowhere  BY Zenon DEF Points, Nowhere
    <3>5. QED  BY Zenon, <1>16, <2>2, <3>1, <3>2, <3>3, <3>4 DEF Resumable, HasLeft
  <2>3. CASE f # c
    <3>1. Resumable(f)  BY Zenon, <1>1, <2>3 DEF OSFiberInv
    <3>2. context'[f] = context[f] /\ left'[f] = left[f]  BY Zenon, <1>16, <1>17, <1>21, <2>1, <2>3
    <3>3. QED  BY Zenon, <3>1, <3>2 DEF Resumable, HasLeft, Slot, Top
  <2>4. QED  BY Zenon, <2>2, <2>3
<1>22. QED  BY Zenon, <1>15, <1>18, <1>19, <1>20, <1>21 DEF OSFiberInv, Slot, Top

\* Every step of the fibers preserves OSFiberInv.
THEOREM OSFiberInvariance == OSFiberSpec => []OSFiberInv
<1>1. ASSUME OSFiberInv, UNCHANGED osFiberVars  PROVE OSFiberInv'
  <2>1. /\ made' = made /\ regs' = regs /\ context' = context /\ mem' = mem
        /\ current' = current /\ frames' = frames /\ left' = left
    BY Zenon, <1>1 DEF osFiberVars
  <2>2. OSFiberTypes'  BY Zenon, <1>1, <2>1 DEF OSFiberInv, OSFiberTypes
  <2>3. ASSUME NEW f \in made
        PROVE  /\ StackPointer(f)' = StackPointer(f)
               /\ Words(f)' <=> Words(f)
               /\ Resumable(f)' <=> Resumable(f)
    BY Zenon, <2>1 DEF Words, Resumable, StackPointer, HasLeft, Slot, Top
  <2>4. QED  BY Zenon, <1>1, <2>1, <2>2, <2>3 DEF OSFiberInv, Slot, Top
<1>2. ASSUME OSFiberInv, OSFiberNext  PROVE OSFiberInv'
  BY Zenon, <1>2, CreateKeeps, DestroyKeeps, SetRegisterKeeps, PushKeeps, PopKeeps, SwitchToKeeps
     DEF OSFiberNext
<1>3. QED  BY <1>1, <1>2, OSFiberInitial, PTL DEF OSFiberSpec

\* marl_fiber_swap() resumes a fiber with the registers the ABI lets it rely on
\* and the words it had pushed, and starts a new one at its trampoline with an
\* aligned stack, for every number of fibers, registers and words.
THEOREM FiberCorrect == OSFiberSpec => []FiberIsIntact
BY OSFiberInvariance, OSFiberInvImplies, PTL

-----------------------------------------------------------------------------
\* Allocator: aligned allocations, guard pages and their release.

AllocatorSpec == AllocatorInit /\ [][AllocatorNext]_allocatorVars

\* A request the callers make.
Fits(k, type, n) ==
    /\ k \in Kind /\ type \in Type /\ n \in 1..MaxArray
    /\ k = "stack" => type.alignment < PageSize
    /\ k = "unique" => DeleterForAll \/ type.alignment <= MallocAlign

\* The address is in the block.
In(a, b) == b.base <= a /\ a < b.base + b.length

\* The allocation lies in the block as allocate() puts it there, ...
Placed(h, b) ==
    LET req == Request(h.kind, h.type, h.n) IN
    /\ Fits(h.kind, h.type, h.n)
    /\ b.base % (IF req.guards THEN PageSize ELSE MallocAlign) = 0
    /\ b.length = Length(req) /\ b.guards = Guards(req, b.base)
    /\ h.ptr = Payload(req, b.base)
    /\ HasSaved(req) => h.ptr + req.size \in DOMAIN saved /\ saved[h.ptr + req.size] = b.base

\* The allocation, of these parameters, that a thread is about to release.
Freeing(t, k, type, n) == [kind |-> k, type |-> type, n |-> n, ptr |-> pc[t].ptr]

\* Blocks, allocations and calls in flight are what the model makes them.
AllocatorTypes ==
    /\ \A b \in blocks : b.base \in Int /\ b.length \in Nat \ {0}
    /\ \A h \in held : /\ h = [kind |-> h.kind, type |-> h.type, n |-> h.n, ptr |-> h.ptr]
                       /\ h.ptr \in Int
    /\ pc = [t \in Thread |-> pc[t]]
    /\ \A t \in Thread : pc[t].op = "alloc" => Fits(pc[t].kind, pc[t].type, pc[t].n)
    /\ \A t \in Thread : pc[t].op = "free" => pc[t].ptr \in Int
    /\ saved = [a \in DOMAIN saved |-> saved[a]]
    /\ DOMAIN saved \subseteq Int

\* The system gives no address out twice.
BlocksApart == \A b, c \in blocks : b # c => \A a \in Int : ~(In(a, b) /\ In(a, c))

\* What a thread releases is an allocation it held.
FreePlaced(t) ==
    \E k \in Kind, type \in Type, n \in 1..MaxArray :
       /\ pc[t].req = FreeRequest(Freeing(t, k, type, n))
       /\ \E b \in blocks : Placed(Freeing(t, k, type, n), b)

\* A block has one allocation, held or being released, and one saved pointer.
OneEach(b) ==
    /\ \A h, g \in held : In(h.ptr, b) /\ In(g.ptr, b) => h = g
    /\ \A h \in held, t \in Thread : pc[t].op = "free" => ~(In(h.ptr, b) /\ In(pc[t].ptr, b))
    /\ \A t, u \in Thread : pc[t].op = "free" /\ pc[u].op = "free"
                            /\ In(pc[t].ptr, b) /\ In(pc[u].ptr, b) => t = u
    /\ \A h \in held, a \in DOMAIN saved :
         In(h.ptr, b) /\ In(a, b) => a = h.ptr + h.n * h.type.size

\* A saved pointer is inside a block.
SavedInside(a) == \E b \in blocks : In(a, b) /\ a + PtrSize <= b.base + b.length

\* The inductive invariant.  Where an allocation and its saved pointer lie is
\* kept from allocate() until the block is returned, so for the allocations in
\* flight too; blocks do not meet, and each has one allocation.
AllocatorInv ==
    /\ AllocatorTypes
    /\ BlocksApart
    /\ \A h \in held : \E b \in blocks : Placed(h, b)
    /\ \A t \in Thread : pc[t].op = "free" => FreePlaced(t)
    /\ \A b \in blocks : OneEach(b)
    /\ \A a \in DOMAIN saved : SavedInside(a)
    /\ DeleterForAll \/ released

-----------------------------------------------------------------------------
\* Division rounds down.
LEMMA Division ==
    ASSUME NEW a \in Int, NEW b \in Nat \ {0}
    PROVE  /\ a \div b \in Int /\ a % b \in 0..(b - 1)
           /\ a = b * (a \div b) + (a % b)
OBVIOUS

\* There is one quotient.
LEMMA Quotient ==
    ASSUME NEW b \in Nat \ {0}, NEW q \in Int, NEW r \in 0..(b - 1)
    PROVE  (b * q + r) \div b = q /\ (b * q + r) % b = r
<1>1. PICK a \in Int : a = b * q + r  OBVIOUS
<1>2. PICK p \in Int : p = a \div b  BY Zenon, Division
<1>3. PICK s \in 0..(b - 1) : s = a % b  BY Zenon, Division
<1>4. b * q + r = b * p + s  BY Zenon, <1>1, <1>2, <1>3, Division
<1>5. b * (q - p) = s - r  BY <1>4
<1>6. PICK d \in Int : d = q - p  OBVIOUS
<1>7. b * d < b /\ b * d > -b  BY <1>5, <1>6
<1>8. d < 1
  <2>1. d >= 1 => b * d >= b  OBVIOUS
  <2>2. QED  BY <2>1, <1>7
<1>9. d > -1
  <2>1. d <= -1 => b * d <= -b  OBVIOUS
  <2>2. QED  BY <2>1, <1>7
<1>10. d = 0  BY <1>8, <1>9
<1>11. q = p /\ s = r  BY <1>5, <1>6, <1>10
<1>12. QED  BY Zenon, <1>1, <1>2, <1>3, <1>11

\* alignUp() gives the next multiple of the alignment.
LEMMA AlignedUp ==
    ASSUME NEW v \in Int, NEW al \in Nat \ {0}
    PROVE  /\ AlignUp(v, al) \in Int /\ v <= AlignUp(v, al) /\ AlignUp(v, al) < v + al
           /\ AlignUp(v, al) % al = 0
           /\ v % al = 0 => AlignUp(v, al) = v
<1>1. PICK w \in Int : w = v + al - 1  OBVIOUS
<1>2. PICK q \in Int : q = w \div al  BY Zenon, Division
<1>3. PICK r \in 0..(al - 1) : r = w % al  BY Zenon, Division
<1>4. w = al * q + r  BY Zenon, <1>1, <1>2, <1>3, Division
<1>5. AlignUp(v, al) = al * q  BY Zenon, <1>1, <1>2 DEF AlignUp
<1>6. al * q \in Int /\ v <= al * q /\ al * q < v + al  BY <1>1, <1>4
<1>7. (al * q + 0) % al = 0
  <2>1. 0 \in 0..(al - 1)  OBVIOUS
  <2>2. QED  BY Zenon, <2>1, Quotient
<1>8. al * q + 0 = al * q  OBVIOUS
<1>9. ASSUME v % al = 0  PROVE al * q = v
  <2>1. PICK p \in Int : p = v \div al  BY Zenon, Division
  <2>2. v = al * p  BY <1>9, <2>1, Division
  <2>3. w = al * p + (al - 1)  BY Zenon, <1>1, <2>2
  <2>4. al - 1 \in 0..(al - 1)  OBVIOUS
  <2>5. (al * p + (al - 1)) \div al = p  BY Zenon, <2>4, Quotient
  <2>6. q = p  BY Zenon, <1>2, <2>3, <2>5
  <2>7. QED  BY Zenon, <2>2, <2>6
<1>10. QED  BY Zenon, <1>5, <1>6, <1>7, <1>8, <1>9

\* Divisibility is transitive, and kept by sums.
LEMMA Divides ==
    ASSUME NEW a \in Int, NEW b \in Nat \ {0}, NEW c \in Nat \ {0}, a % b = 0, b % c = 0
    PROVE  a % c = 0 /\ (a + b) % c = 0
<1>1. PICK x \in Int : x = a \div b  BY Zenon, Division
<1>2. PICK y \in Int : y = b \div c  BY Division
<1>3. a = b * x  BY <1>1, Division
<1>4. b = c * y  BY <1>2, Division
<1>5. PICK u \in Int : u = y * x  OBVIOUS
<1>6. a = c * u
  <2>1. (c * y) * x = c * (y * x)  OBVIOUS
  <2>2. QED  BY Zenon, <1>3, <1>4, <1>5, <2>1
<1>7. a + b = c * (u + y)  BY <1>4, <1>6
<1>8. \A z \in Int : (c * z + 0) % c = 0
  <2>1. 0 \in 0..(c - 1)  OBVIOUS
  <2>2. QED  BY Zenon, <2>1, Quotient
<1>9. \A z \in Int : c * z + 0 = c * z  OBVIOUS
<1>10. \A z \in Int : (c * z) % c = 0  BY Zenon, <1>8, <1>9
<1>11. u + y \in Int  OBVIOUS
<1>12. QED  BY Zenon, <1>6, <1>7, <1>10, <1>11

\* Whole pages hold what is asked for.
LEMMA PagesSuffice ==
    ASSUME NEW size \in Nat \ {0}
    PROVE  LET p == (size + PageSize - 1) \div PageSize
           IN  p \in Nat /\ size <= PageSize * p
<1>1. PageSize \in Nat \ {0}  BY Zenon, AllocatorAssumption
<1>2. PICK w \in Int : w = size + PageSize - 1  BY <1>1
<1>3. PICK p \in Int : p = w \div PageSize  BY Zenon, <1>1, Division
<1>4. PICK r \in 0..(PageSize - 1) : r = w % PageSize  BY Zenon, <1>1, Division
<1>5. w = PageSize * p + r  BY Zenon, <1>1, <1>2, <1>3, <1>4, Division
<1>6. size <= PageSize * p  BY <1>1, <1>2, <1>5
<1>7. p >= 0
  <2>1. p < 0 => PageSize * p <= 0  BY <1>1
  <2>2. QED  BY <1>6, <2>1, <1>1
<1>8. QED  BY <1>2, <1>3, <1>6, <1>7

\* Where allocate() puts an allocation in its block.
LEMMA Placement ==
    ASSUME NEW k, NEW type, NEW n, Fits(k, type, n), NEW base \in Int,
           base % (IF k = "stack" THEN PageSize ELSE MallocAlign) = 0
    PROVE  LET req == Request(k, type, n)
               p   == Payload(req, base)
               sz  == n * type.size
           IN  /\ sz \in Nat \ {0} /\ p \in Int /\ Length(req) \in Nat \ {0}
               /\ base <= p /\ p + sz <= base + Length(req)
               /\ HasSaved(req) => p + sz + PtrSize <= base + Length(req)
               /\ p % type.alignment = 0
               /\ Span(p, sz) \cap Guards(req, base) = {}
               /\ k = "unique" /\ ~DeleterForAll => p = base
<1>1. PICK sz \in Nat \ {0} : sz = n * type.size
  <2>1. n \in Nat \ {0} /\ type.size \in Nat \ {0}  BY AllocatorAssumption DEF Fits
  <2>2. QED  BY <2>1
<1>2. PICK al \in Nat \ {0} : al = type.alignment  BY Zenon, AllocatorAssumption DEF Fits
<1>3. PICK req : req = [size |-> sz, alignment |-> al, guards |-> k = "stack"]  BY Zenon
<1>4. req = Request(k, type, n)  BY Zenon, <1>1, <1>2, <1>3 DEF Request
<1>5. req.size = sz /\ req.alignment = al /\ (req.guards <=> k = "stack")  BY Zenon, <1>3
<1>6. /\ PageSize \in Nat \ {0} /\ MallocAlign \in Nat \ {0} /\ PtrSize \in Nat \ {0}
      /\ al <= MallocAlign => MallocAlign % al = 0
      /\ al < PageSize => PageSize % al = 0
  BY Zenon, <1>2, AllocatorAssumption DEF Fits
<1>7. CASE k = "stack"
  <2>1. PICK pg \in Nat : pg = Pages(req) /\ sz <= PageSize * pg  BY Zenon, <1>5, PagesSuffice DEF Pages
  <2>2. PICK span \in Nat : span = PageSize * pg /\ sz <= span  BY <1>6, <2>1
  <2>3. Length(req) = span + PageSize + PageSize
    <3>1. PageSize * (pg + 2) = PageSize * pg + PageSize + PageSize  BY <1>6
    <3>2. QED  BY Zenon, <1>5, <1>7, <2>1, <2>2, <3>1 DEF Length
  <2>4. Payload(req, base) = base + PageSize  BY Zenon, <1>5, <1>7 DEF Payload
  <2>5. ~HasSaved(req)  BY Zenon, <1>5, <1>7 DEF HasSaved
  <2>6. (base + PageSize) % al = 0
    <3>1. al < PageSize  BY Zenon, <1>2, <1>7 DEF Fits
    <3>2. base % PageSize = 0  BY Zenon, <1>7
    <3>3. QED  BY Zenon, <1>6, <3>1, <3>2, Divides
  <2>7. Guards(req, base) = Span(base, PageSize) \cup Span(base + span + PageSize, PageSize)
    <3>1. base + PageSize * (pg + 1) = base + span + PageSize  BY <1>6, <2>2
    <3>2. QED  BY Zenon, <1>5, <1>7, <2>1, <3>1 DEF Guards
  <2>8. Span(base + PageSize, sz) \cap Guards(req, base) = {}  BY <1>6, <2>2, <2>7 DEF Span
  <2>9. span + PageSize + PageSize \in Nat \ {0} /\ base <= base + PageSize
        /\ base + PageSize + sz <= base + (span + PageSize + PageSize)
        /\ base + PageSize \in Int
    BY <1>6, <2>2
  <2>10. QED
    BY Zenon, <1>1, <1>2, <1>4, <1>7, <2>3, <2>4, <2>5, <2>6, <2>8, <2>9
<1>8. CASE k # "stack" /\ al > 1
  <2>1. PICK p \in Int : p = AlignUp(base, al) /\ base <= p /\ p < base + al /\ p % al = 0
    BY Zenon, AlignedUp
  <2>2. Payload(req, base) = p  BY Zenon, <1>5, <1>8, <2>1 DEF Payload
  <2>3. Length(req) = sz + al + PtrSize  BY Zenon, <1>5, <1>8 DEF Length, AllocSize
  <2>4. Guards(req, base) = {}  BY Zenon, <1>5, <1>8 DEF Guards
  <2>5. ASSUME k = "unique", ~DeleterForAll  PROVE p = base
    <3>1. al <= MallocAlign  BY Zenon, <1>2, <2>5 DEF Fits
    <3>2. base % MallocAlign = 0  BY Zenon, <1>8
    <3>3. base % al = 0  BY Zenon, <1>6, <3>1, <3>2, Divides
    <3>4. QED  BY Zenon, <2>1, <3>3, AlignedUp
  <2>6. /\ sz + al + PtrSize \in Nat \ {0} /\ p + sz <= base + (sz + al + PtrSize)
        /\ p + sz + PtrSize <= base + (sz + al + PtrSize)
    BY <1>6, <2>1
  <2>7. QED  BY Zenon, <1>1, <1>2, <1>4, <2>1, <2>2, <2>3, <2>4, <2>5, <2>6
<1>9. CASE k # "stack" /\ al = 1
  <2>1. Payload(req, base) = base /\ Length(req) = sz  BY <1>5, <1>9 DEF Payload, Length
  <2>2. Guards(req, base) = {} /\ ~HasSaved(req)  BY <1>5, <1>9 DEF Guards, HasSaved
  <2>3. base % 1 = 0  OBVIOUS
  <2>4. base % al = 0  BY Zenon, <1>9, <2>3
  <2>5. QED  BY <1>1, <1>2, <1>4, <2>1, <2>2, <2>4
<1>10. al > 1 \/ al = 1  OBVIOUS
<1>11. QED  BY Zenon, <1>7, <1>8, <1>9, <1>10

\* An allocation is inside its block.
LEMMA PlacedFacts ==
    ASSUME NEW h, NEW b, Placed(h, b), b.base \in Int
    PROVE  LET sz == h.n * h.type.size
           IN  /\ sz \in Nat \ {0} /\ h.ptr \in Int /\ b.length \in Nat \ {0}
               /\ b.base <= h.ptr /\ h.ptr + sz <= b.base + b.length
               /\ In(h.ptr, b)
               /\ HasSaved(Request(h.kind, h.type, h.n)) =>
                    /\ In(h.ptr + sz, b) /\ h.ptr + sz + PtrSize <= b.base + b.length
                    /\ h.ptr + sz \in DOMAIN saved /\ saved[h.ptr + sz] = b.base
               /\ h.ptr % h.type.alignment = 0
               /\ Span(h.ptr, sz) \cap b.guards = {}
               /\ h.kind = "unique" /\ ~DeleterForAll => h.ptr = b.base
<1> DEFINE req == Request(h.kind, h.type, h.n)
<1>1. PICK x \in Int : x = b.base  BY Zenon
<1>2. /\ Fits(h.kind, h.type, h.n) /\ b.length = Length(req) /\ b.guards = Guards(req, x)
      /\ h.ptr = Payload(req, x)
      /\ HasSaved(req) => h.ptr + req.size \in DOMAIN saved /\ saved[h.ptr + req.size] = x
      /\ x % (IF req.guards THEN PageSize ELSE MallocAlign) = 0
  BY Zenon, <1>1 DEF Placed
<1>3. (req.guards <=> h.kind = "stack") /\ req.size = h.n * h.type.size  BY Zenon DEF Request
<1>4. x % (IF h.kind = "stack" THEN PageSize ELSE MallocAlign) = 0  BY ZenonT(30), <1>2, <1>3
<1>5. PICK sz \in Nat \ {0} : sz = h.n * h.type.size  BY <1>2, <1>4, Placement
<1>6. PICK p \in Int : p = h.ptr  BY Zenon, <1>2, <1>4, Placement
<1>7. PICK l \in Nat \ {0} : l = b.length  BY ZenonT(30), <1>2, <1>4, Placement
<1>8. /\ x <= p /\ p + sz <= x + l /\ (HasSaved(req) => p + sz + PtrSize <= x + l)
      /\ h.ptr % h.type.alignment = 0 /\ Span(p, sz) \cap b.guards = {}
      /\ h.kind = "unique" /\ ~DeleterForAll => p = x
  BY <1>2, <1>4, <1>5, <1>6, <1>7, Placement
<1>9. In(p, b)  BY <1>1, <1>7, <1>8 DEF In
<1>10. HasSaved(req) => In(p + sz, b)
  <2>1. PtrSize \in Nat \ {0}  BY Zenon, AllocatorAssumption
  <2>2. QED  BY <1>1, <1>7, <1>8, <2>1 DEF In
<1>11. QED  BY Zenon, <1>1, <1>2, <1>3, <1>5, <1>6, <1>7, <1>8, <1>9, <1>10

\* Initially nothing is allocated.
LEMMA AllocatorInitial == AllocatorInit => AllocatorInv
<1> SUFFICES ASSUME AllocatorInit PROVE AllocatorInv  BY Zenon
<1>1. /\ blocks = {} /\ DOMAIN saved = {} /\ held = {} /\ released
      /\ \A t \in Thread : pc[t].op = "none"
  BY Zenon DEF AllocatorInit, NoCall
<1>2. pc = [t \in Thread |-> pc[t]] /\ saved = [a \in DOMAIN saved |-> saved[a]]
  BY Zenon DEF AllocatorInit
<1>3. AllocatorTypes  BY Zenon, <1>1, <1>2 DEF AllocatorTypes
<1>4. QED  BY Zenon, <1>1, <1>3 DEF AllocatorInv, BlocksApart

\* The invariant says that an allocation is the caller's own.
LEMMA AllocatorInvImplies == AllocatorInv => PayloadIsOwn
<1> SUFFICES ASSUME AllocatorInv, NEW h \in held
             PROVE  LET req == Request(h.kind, h.type, h.n)
                        own == Span(h.ptr, req.size)
                    IN  /\ h.ptr % req.alignment = 0
                        /\ \E b \in blocks : own \subseteq Span(b.base, b.length) \ b.guards
                        /\ \A a \in DOMAIN saved : Span(a, PtrSize) \cap own = {}
                        /\ \A g \in held \ {h} : own \cap Span(g.ptr, g.n * g.type.size) = {}
  BY Zenon DEF PayloadIsOwn
<1>1. PICK b \in blocks : Placed(h, b)  BY Zenon DEF AllocatorInv
<1>2. \A c \in blocks : c.base \in Int /\ c.length \in Nat \ {0}
  BY Zenon DEF AllocatorInv, AllocatorTypes
<1>3. PICK sz \in Nat \ {0} : sz = h.n * h.type.size  BY Zenon, <1>1, <1>2, PlacedFacts
<1>4. PICK p \in Int : p = h.ptr  BY Zenon, <1>1, <1>2, PlacedFacts
<1>5. /\ p % h.type.alignment = 0 /\ b.base <= p /\ p + sz <= b.base + b.length
      /\ Span(p, sz) \cap b.guards = {} /\ In(p, b)
  BY Zenon, <1>1, <1>2, <1>3, <1>4, PlacedFacts
<1>6. Span(p, sz) \subseteq Span(b.base, b.length)  BY <1>2, <1>5 DEF Span
<1>7. \A x \in Span(p, sz) : x \in Int /\ In(x, b)  BY <1>2, <1>5 DEF Span, In
<1>8. ASSUME NEW a \in DOMAIN saved  PROVE Span(a, PtrSize) \cap Span(p, sz) = {}
  <2>1. PICK c \in blocks : In(a, c) /\ a + PtrSize <= c.base + c.length
    BY Zenon DEF AllocatorInv, SavedInside
  <2>2. a \in Int /\ PtrSize \in Nat \ {0}  BY Zenon, AllocatorAssumption DEF AllocatorInv, AllocatorTypes
  <2>3. CASE c = b
    <3>1. a = p + sz  BY Zenon, <1>3, <1>4, <1>5, <2>1, <2>3 DEF AllocatorInv, OneEach
    <3>2. QED  BY <2>2, <3>1 DEF Span
  <2>4. CASE c # b
    <3>1. \A x \in Span(a, PtrSize) : In(x, c)  BY <1>2, <2>1, <2>2 DEF Span, In
    <3>2. QED  BY Zenon, <1>7, <2>4, <3>1 DEF AllocatorInv, BlocksApart
  <2>5. QED  BY Zenon, <2>3, <2>4
<1>9. ASSUME NEW g \in held \ {h}  PROVE Span(p, sz) \cap Span(g.ptr, g.n * g.type.size) = {}
  <2>1. PICK c \in blocks : Placed(g, c)  BY Zenon DEF AllocatorInv
  <2>2. PICK q \in Int : q = g.ptr  BY Zenon, <1>2, <2>1, PlacedFacts
  <2>3. PICK zs \in Nat \ {0} : zs = g.n * g.type.size  BY Zenon, <1>2, <2>1, PlacedFacts
  <2>4. In(q, c) /\ c.base <= q /\ q + zs <= c.base + c.length  BY Zenon, <1>2, <2>1, <2>2, <2>3, PlacedFacts
  <2>5. b # c  BY Zenon, <1>4, <1>5, <1>9, <2>2, <2>4 DEF AllocatorInv, OneEach
  <2>6. \A x \in Span(q, zs) : In(x, c)  BY <1>2, <2>4 DEF Span, In
  <2>7. Span(p, sz) \cap Span(q, zs) = {}  BY Zenon, <1>7, <2>5, <2>6 DEF AllocatorInv, BlocksApart
  <2>8. QED  BY Zenon, <2>2, <2>3, <2>7
<1>10. Request(h.kind, h.type, h.n).size = sz /\ Request(h.kind, h.type, h.n).alignment = h.type.alignment
  BY Zenon, <1>3 DEF Request
<1>11. \E d \in blocks : Span(p, sz) \subseteq Span(d.base, d.length) \ d.guards  BY Zenon, <1>5, <1>6
<1>12. QED  BY Zenon, <1>4, <1>5, <1>8, <1>9, <1>10, <1>11

\* An allocation stays where it is while the pointer saved for it does.
LEMMA PlacedKept ==
    ASSUME NEW h, NEW b, Placed(h, b),
           HasSaved(Request(h.kind, h.type, h.n)) =>
              LET a == h.ptr + h.n * h.type.size
              IN  a \in DOMAIN saved => a \in DOMAIN saved' /\ saved'[a] = saved[a]
    PROVE  Placed(h, b)'
<1>1. Request(h.kind, h.type, h.n).size = h.n * h.type.size  BY Zenon DEF Request
<1>2. QED  BY Zenon, <1>1 DEF Placed

\* What a thread is about to release stays an allocation.
LEMMA FreeKept ==
    ASSUME NEW u \in Thread, FreePlaced(u), pc'[u] = pc[u],
           \A h : \A b \in blocks :
              h.ptr = pc[u].ptr /\ Placed(h, b) => b \in blocks' /\ Placed(h, b)'
    PROVE  FreePlaced(u)'
<1>1. PICK k \in Kind, type \in Type, n \in 1..MaxArray, b \in blocks :
         pc[u].req = FreeRequest(Freeing(u, k, type, n)) /\ Placed(Freeing(u, k, type, n), b)
  BY Zenon DEF FreePlaced
<1>2. PICK h : h = Freeing(u, k, type, n)  BY Zenon
<1>3. Freeing(u, k, type, n)' = h /\ h.ptr = pc[u].ptr  BY Zenon, <1>2 DEF Freeing
<1>4. Placed(h, b)' /\ b \in blocks'  BY Zenon, <1>1, <1>2, <1>3
<1>5. pc'[u].req = FreeRequest(h)  BY Zenon, <1>1, <1>2
<1>6. QED  BY Zenon, <1>3, <1>4, <1>5 DEF FreePlaced, Freeing

\* TrackedAllocator::allocate() counts an allocation it has not made yet.
LEMMA CountAllocKeeps ==
    ASSUME AllocatorInv, NEW t \in Thread, NEW k \in Kind, NEW type \in Type,
           NEW n \in 1..MaxArray, CountAlloc(t, k, type, n)
    PROVE  AllocatorInv'
<1>1. /\ blocks' = blocks /\ saved' = saved /\ held' = held /\ released' = released
      /\ Fits(k, type, n)
      /\ pc' = [pc EXCEPT ![t] = [op |-> "alloc", kind |-> k, type |-> type, n |-> n]]
  BY Zenon DEF CountAlloc, Fits
<1>2. /\ pc'[t] = [op |-> "alloc", kind |-> k, type |-> type, n |-> n]
      /\ \A u \in Thread : u # t => pc'[u] = pc[u]
      /\ pc' = [u \in Thread |-> pc'[u]]
  BY Zenon, <1>1 DEF AllocatorInv, AllocatorTypes
<1>3. pc'[t].op = "alloc" /\ pc'[t].kind = k /\ pc'[t].type = type /\ pc'[t].n = n  BY <1>2
<1>4. \A u \in Thread : pc'[u].op = "free" => u # t /\ pc'[u] = pc[u]  BY ZenonT(30), <1>2, <1>3
<1>5. AllocatorTypes'
  <2>1. \A u \in Thread : pc'[u].op = "alloc" => Fits(pc'[u].kind, pc'[u].type, pc'[u].n)
    BY Zenon, <1>1, <1>2, <1>3 DEF AllocatorInv, AllocatorTypes
  <2>2. QED  BY <1>1, <1>2, <1>4, <2>1 DEF AllocatorInv, AllocatorTypes, Fits
<1>6. BlocksApart'  BY Zenon, <1>1 DEF AllocatorInv, BlocksApart, In
<1>7. \A h \in held' : \E b \in blocks' : Placed(h, b)'
  BY Zenon, <1>1, PlacedKept DEF AllocatorInv
<1>8. ASSUME NEW u \in Thread, pc'[u].op = "free"  PROVE FreePlaced(u)'
  <2>1. pc'[u] = pc[u] /\ FreePlaced(u)  BY Zenon, <1>4, <1>8 DEF AllocatorInv
  <2>2. QED  BY Zenon, <1>1, <2>1, FreeKept, PlacedKept
<1>9. \A b \in blocks' : OneEach(b)'
  <2>1. ASSUME NEW b \in blocks  PROVE OneEach(b)'
    <3>1. OneEach(b)  BY Zenon DEF AllocatorInv
    <3>2. \A h \in held, u \in Thread : pc'[u].op = "free" => ~(In(h.ptr, b) /\ In(pc'[u].ptr, b))
      BY Zenon, <1>4, <3>1 DEF OneEach
    <3>3. \A u, v \in Thread : pc'[u].op = "free" /\ pc'[v].op = "free"
                               /\ In(pc'[u].ptr, b) /\ In(pc'[v].ptr, b) => u = v
      BY Zenon, <1>4, <3>1 DEF OneEach
    <3>4. QED  BY Zenon, <1>1, <3>1, <3>2, <3>3 DEF OneEach
  <2>2. QED  BY ZenonT(30), <1>1, <2>1
<1>10. \A a \in DOMAIN saved' : SavedInside(a)'  BY Zenon, <1>1 DEF AllocatorInv, SavedInside, In
<1>11. QED  BY Zenon, <1>1, <1>5, <1>6, <1>7, <1>8, <1>9, <1>10 DEF AllocatorInv

\* TrackedAllocator::free() gives up an allocation it has not released yet.
LEMMA CountFreeKeeps ==
    ASSUME AllocatorInv, NEW t \in Thread, NEW h \in held, CountFree(t, h)
    PROVE  AllocatorInv'
<1>1. /\ blocks' = blocks /\ saved' = saved /\ held' = held \ {h} /\ released' = released
      /\ pc' = [pc EXCEPT ![t] = [op |-> "free", req |-> FreeRequest(h), ptr |-> h.ptr]]
      /\ pc[t] = NoCall
  BY Zenon DEF CountFree
<1>2. /\ pc'[t] = [op |-> "free", req |-> FreeRequest(h), ptr |-> h.ptr]
      /\ \A u \in Thread : u # t => pc'[u] = pc[u]
      /\ pc' = [u \in Thread |-> pc'[u]]
  BY Zenon, <1>1 DEF AllocatorInv, AllocatorTypes
<1>3. pc'[t].op = "free" /\ pc'[t].req = FreeRequest(h) /\ pc'[t].ptr = h.ptr  BY <1>2
<1>4. h = [kind |-> h.kind, type |-> h.type, n |-> h.n, ptr |-> h.ptr] /\ h.ptr \in Int
  BY Zenon DEF AllocatorInv, AllocatorTypes
<1>5. AllocatorTypes'
  <2>1. \A u \in Thread : pc'[u].op = "alloc" => Fits(pc'[u].kind, pc'[u].type, pc'[u].n)
    BY Zenon, <1>2, <1>3 DEF AllocatorInv, AllocatorTypes
  <2>2. \A u \in Thread : pc'[u].op = "free" => pc'[u].ptr \in Int
    BY Zenon, <1>2, <1>3, <1>4 DEF AllocatorInv, AllocatorTypes
  <2>3. QED  BY <1>1, <1>2, <2>1, <2>2 DEF AllocatorInv, AllocatorTypes, Fits
<1>6. BlocksApart'  BY Zenon, <1>1 DEF AllocatorInv, BlocksApart, In
<1>7. \A g \in held' : \E b \in blocks' : Placed(g, b)'
  BY Zenon, <1>1, PlacedKept DEF AllocatorInv
<1>8. ASSUME NEW u \in Thread, pc'[u].op = "free"  PROVE FreePlaced(u)'
  <2>1. CASE u = t
    <3>1. PICK b \in blocks : Placed(h, b)  BY Zenon DEF AllocatorInv
    <3>2. h.kind \in Kind /\ h.type \in Type /\ h.n \in 1..MaxArray  BY Zenon, <3>1 DEF Placed, Fits
    <3>3. Freeing(u, h.kind, h.type, h.n)' = h  BY Zenon, <1>3, <1>4, <2>1 DEF Freeing
    <3>4. Placed(h, b)'  BY Zenon, <1>1, <3>1, PlacedKept
    <3>5. QED  BY Zenon, <1>1, <1>3, <2>1, <3>2, <3>3, <3>4 DEF FreePlaced, Freeing
  <2>2. CASE u # t
    <3>1. pc'[u] = pc[u] /\ FreePlaced(u)  BY Zenon, <1>2, <1>8, <2>2 DEF AllocatorInv
    <3>2. QED  BY Zenon, <1>1, <3>1, FreeKept, PlacedKept
  <2>3. QED  BY Zenon, <2>1, <2>2
<1>9. \A b \in blocks' : OneEach(b)'
  <2>1. ASSUME NEW b \in blocks  PROVE OneEach(b)'
    <3>1. OneEach(b)  BY Zenon DEF AllocatorInv
    <3>2. \A f, g \in held' : In(f.ptr, b) /\ In(g.ptr, b) => f = g  BY Zenon, <1>1, <3>1 DEF OneEach
    <3>3. \A f \in held' : f \in held /\ f # h  BY Zenon, <1>1
    <3>4. \A f \in held', u \in Thread : pc'[u].op = "free" => ~(In(f.ptr, b) /\ In(pc'[u].ptr, b))
      BY <1>2, <1>3, <3>1, <3>3 DEF OneEach
    <3>5. \A v, u \in Thread : pc'[v].op = "free" /\ pc'[u].op = "free"
                               /\ In(pc'[v].ptr, b) /\ In(pc'[u].ptr, b) => v = u
      BY <1>2, <1>3, <3>1 DEF OneEach
    <3>6. \A f \in held', a \in DOMAIN saved' :
             In(f.ptr, b) /\ In(a, b) => a = f.ptr + f.n * f.type.size
      BY Zenon, <1>1, <3>1, <3>3 DEF OneEach
    <3>7. QED  BY Zenon, <3>2, <3>4, <3>5, <3>6 DEF OneEach, In
  <2>2. QED  BY ZenonT(30), <1>1, <2>1
<1>10. \A a \in DOMAIN saved' : SavedInside(a)'  BY Zenon, <1>1 DEF AllocatorInv, SavedInside, In
<1>11. QED  BY Zenon, <1>1, <1>5, <1>6, <1>7, <1>8, <1>9, <1>10 DEF AllocatorInv

\* A thread that is about to release an allocation knows where it is.
LEMMA FreeFacts ==
    ASSUME AllocatorInv, NEW u \in Thread, pc[u].op = "free"
    PROVE  /\ FreePlaced(u) /\ pc[u].ptr \in Int
           /\ \E b \in blocks : /\ In(pc[u].ptr, b)
                                /\ \E h : h.ptr = pc[u].ptr /\ pc[u].req = FreeRequest(h) /\ Placed(h, b)
<1>1. FreePlaced(u) /\ pc[u].ptr \in Int  BY Zenon DEF AllocatorInv, AllocatorTypes
<1>2. PICK k \in Kind, type \in Type, n \in 1..MaxArray, b \in blocks :
         pc[u].req = FreeRequest(Freeing(u, k, type, n)) /\ Placed(Freeing(u, k, type, n), b)
  BY Zenon, <1>1 DEF FreePlaced
<1>3. PICK h : h = Freeing(u, k, type, n)  BY Zenon
<1>4. h.ptr = pc[u].ptr  BY Zenon, <1>3 DEF Freeing
<1>5. b.base \in Int  BY Zenon DEF AllocatorInv, AllocatorTypes
<1>6. In(h.ptr, b)  BY Zenon, <1>2, <1>3, <1>5, PlacedFacts
<1>7. QED  BY Zenon, <1>1, <1>2, <1>3, <1>4, <1>6

\* The allocation is made in a block that the system gives.
LEMMA AllocateKeeps ==
    ASSUME AllocatorInv, NEW t \in Thread, Allocate(t)
    PROVE  AllocatorInv'
<1>1. PICK k, type, n : k = pc[t].kind /\ type = pc[t].type /\ n = pc[t].n  BY Zenon
<1>2. Fits(k, type, n)  BY Zenon, <1>1 DEF Allocate, AllocatorInv, AllocatorTypes
<1>3. PICK req : req = Request(k, type, n)  BY Zenon
<1>4. PICK base \in Room(Length(req), IF req.guards THEN PageSize ELSE MallocAlign) :
         /\ blocks' = blocks \cup {[base |-> base, length |-> Length(req),
                                    guards |-> Guards(req, base)]}
         /\ held' = held \cup {[kind |-> k, type |-> type, n |-> n, ptr |-> Payload(req, base)]}
         /\ saved' = IF HasSaved(req)
                     THEN [a \in DOMAIN saved \cup {Payload(req, base) + req.size} |->
                             IF a = Payload(req, base) + req.size THEN base ELSE saved[a]]
                     ELSE saved
  <2>1. /\ pc[t].kind = k /\ pc[t].type = type /\ pc[t].n = n
        /\ Request(pc[t].kind, pc[t].type, pc[t].n) = req
    BY Zenon, <1>1, <1>3
  <2>2. QED  BY ZenonT(30), <2>1 DEF Allocate
<1>5. pc' = [pc EXCEPT ![t] = NoCall] /\ released' = released  BY Zenon DEF Allocate
<1>6. PICK l : l = Length(req)  BY Zenon
<1>7. PICK p : p = Payload(req, base)  BY Zenon
<1>8. PICK sz : sz = n * type.size  BY Zenon
<1>9. PICK b0 : b0 = [base |-> base, length |-> l, guards |-> Guards(req, base)]  BY Zenon
<1>10. PICK h0 : h0 = [kind |-> k, type |-> type, n |-> n, ptr |-> p]  BY Zenon
<1>11. PICK a0 : a0 = p + sz  BY Zenon
<1>12. /\ base \in Int /\ base % (IF req.guards THEN PageSize ELSE MallocAlign) = 0
       /\ Span(base, l) \cap Used = {}
  BY <1>4, <1>6 DEF Room
<1>13. req.size = sz /\ (req.guards <=> k = "stack")  BY Zenon, <1>3, <1>8 DEF Request
<1>14. base % (IF k = "stack" THEN PageSize ELSE MallocAlign) = 0  BY Zenon, <1>12, <1>13
<1>15. /\ sz \in Nat \ {0} /\ p \in Int /\ l \in Nat \ {0}
       /\ base <= p /\ p + sz <= base + l
       /\ HasSaved(req) => p + sz + PtrSize <= base + l
  BY Zenon, <1>2, <1>3, <1>6, <1>7, <1>8, <1>12, <1>14, Placement
<1>16. /\ b0.base = base /\ b0.length = l /\ b0.guards = Guards(req, base)
       /\ h0.kind = k /\ h0.type = type /\ h0.n = n /\ h0.ptr = p
  BY Zenon, <1>9, <1>10
<1>17. /\ blocks' = blocks \cup {b0} /\ held' = held \cup {h0}
       /\ saved' = IF HasSaved(req)
                   THEN [a \in DOMAIN saved \cup {a0} |-> IF a = a0 THEN base ELSE saved[a]]
                   ELSE saved
  BY Zenon, <1>4, <1>6, <1>7, <1>9, <1>10, <1>11, <1>13
<1>18. In(p, b0) /\ (HasSaved(req) => In(a0, b0) /\ a0 + PtrSize <= base + l)
  <2>1. PtrSize \in Nat \ {0}  BY Zenon, AllocatorAssumption
  <2>2. QED  BY <1>11, <1>12, <1>15, <1>16, <2>1 DEF In
<1>19. a0 \in Int  BY <1>11, <1>15
<1>20. \A b \in blocks : b.base \in Int /\ b.length \in Nat \ {0}
  BY Zenon DEF AllocatorInv, AllocatorTypes
<1>21. \A a \in Int : In(a, b0) => \A b \in blocks : ~In(a, b)
  <2>1. TAKE a \in Int
  <2>2. HAVE In(a, b0)
  <2>3. a \in Span(base, l)  BY <1>12, <1>15, <1>16, <2>2 DEF In, Span
  <2>4. ASSUME NEW b \in blocks, In(a, b)  PROVE FALSE
    <3>1. a \in Span(b.base, b.length)  BY <1>20, <2>4 DEF In, Span
    <3>2. a \in Used  BY Zenon, <3>1 DEF Used
    <3>3. QED  BY Zenon, <1>12, <2>3, <3>2
  <2>5. QED  BY Zenon, <2>4
<1>22. \A a \in DOMAIN saved : a \in Int /\ (HasSaved(req) => a # a0) /\ ~In(a, b0)
  <2>1. TAKE a \in DOMAIN saved
  <2>2. a \in Int /\ SavedInside(a)  BY Zenon DEF AllocatorInv, AllocatorTypes
  <2>3. ~In(a, b0)  BY Zenon, <1>21, <2>2 DEF SavedInside
  <2>4. QED  BY Zenon, <1>18, <2>2, <2>3
<1>23. \A a \in DOMAIN saved : a \in DOMAIN saved' /\ saved'[a] = saved[a]
  BY Zenon, <1>17, <1>22 DEF AllocatorInv, AllocatorTypes
<1>24. \A h \in held : h.ptr \in Int /\ \E b \in blocks : In(h.ptr, b)
  BY Zenon, <1>20, PlacedFacts DEF AllocatorInv
<1>25. \A h \in held : ~In(h.ptr, b0)  BY Zenon, <1>21, <1>24
<1>26. /\ \A u \in Thread : u # t => pc'[u] = pc[u]
       /\ pc'[t] = NoCall /\ pc' = [u \in Thread |-> pc'[u]]
  BY Zenon, <1>5 DEF AllocatorInv, AllocatorTypes
<1>27. \A u \in Thread : pc'[u].op \in {"free", "alloc"} => u # t /\ pc'[u] = pc[u]
  BY <1>26 DEF NoCall
<1>28. \A u \in Thread : pc'[u].op = "free" =>
          /\ u # t /\ pc'[u] = pc[u] /\ FreePlaced(u) /\ pc[u].ptr \in Int
          /\ \E b \in blocks : In(pc[u].ptr, b)
  <2>1. TAKE u \in Thread
  <2>2. HAVE pc'[u].op = "free"
  <2>3. u # t /\ pc'[u] = pc[u]  BY Zenon, <1>27, <2>2
  <2>4. QED  BY ZenonT(30), <2>2, <2>3, FreeFacts
<1>29. \A u \in Thread : pc'[u].op = "free" => ~In(pc'[u].ptr, b0)  BY Zenon, <1>21, <1>28
<1>30. ASSUME NEW h, NEW b \in blocks, Placed(h, b)  PROVE Placed(h, b)'
  BY Zenon, <1>23, <1>30, PlacedKept
<1>31. Placed(h0, b0)'
  <2>1. HasSaved(req) => a0 \in DOMAIN saved' /\ saved'[a0] = base  BY Zenon, <1>17
  <2>2. Request(h0.kind, h0.type, h0.n) = req  BY Zenon, <1>3, <1>16
  <2>3. h0.ptr + req.size = a0  BY Zenon, <1>11, <1>13, <1>16
  <2>4. Fits(h0.kind, h0.type, h0.n)  BY Zenon, <1>2, <1>16
  <2>5. b0.length = Length(req) /\ h0.ptr = Payload(req, b0.base)  BY Zenon, <1>6, <1>7, <1>16
  <2>6. QED  BY Zenon, <1>12, <1>16, <2>1, <2>2, <2>3, <2>4, <2>5 DEF Placed
<1>32. AllocatorTypes'
  <2>1. \A b \in blocks' : b.base \in Int /\ b.length \in Nat \ {0}
    BY Zenon, <1>12, <1>15, <1>16, <1>17, <1>20
  <2>2. \A h \in held' : /\ h = [kind |-> h.kind, type |-> h.type, n |-> h.n, ptr |-> h.ptr]
                         /\ h.ptr \in Int
    <3>1. h0 = [kind |-> h0.kind, type |-> h0.type, n |-> h0.n, ptr |-> h0.ptr] /\ h0.ptr \in Int
      BY Zenon, <1>10, <1>15, <1>16
    <3>2. \A h \in held : /\ h = [kind |-> h.kind, type |-> h.type, n |-> h.n, ptr |-> h.ptr]
                          /\ h.ptr \in Int
      BY Zenon DEF AllocatorInv, AllocatorTypes
    <3>3. QED  BY Zenon, <1>17, <3>1, <3>2
  <2>3. \A u \in Thread : pc'[u].op = "alloc" => Fits(pc'[u].kind, pc'[u].type, pc'[u].n)
    BY Zenon, <1>27 DEF AllocatorInv, AllocatorTypes
  <2>4. \A u \in Thread : pc'[u].op = "free" => pc'[u].ptr \in Int  BY Zenon, <1>28
  <2>5. saved' = [a \in DOMAIN saved' |-> saved'[a]] /\ DOMAIN saved' \subseteq Int
    BY Zenon, <1>17, <1>19 DEF AllocatorInv, AllocatorTypes
  <2>6. QED  BY Zenon, <1>26, <2>1, <2>2, <2>3, <2>4, <2>5 DEF AllocatorTypes, Fits
<1>33. BlocksApart'
  <2>1. \A b, c \in blocks' : b # c => \A a \in Int : ~(In(a, b) /\ In(a, c))
    BY <1>17, <1>21 DEF AllocatorInv, BlocksApart
  <2>2. QED  BY Zenon, <2>1 DEF BlocksApart, In
<1>34. \A h \in held' : \E b \in blocks' : Placed(h, b)'
  BY Zenon, <1>17, <1>30, <1>31 DEF AllocatorInv
<1>35. \A u \in Thread : pc'[u].op = "free" => FreePlaced(u)'
  <2>1. TAKE u \in Thread
  <2>2. HAVE pc'[u].op = "free"
  <2>3. QED  BY Zenon, <1>17, <1>28, <1>30, <2>2, FreeKept
<1>36. ASSUME NEW b \in blocks'  PROVE OneEach(b)'
  <2>1. CASE b \in blocks
    <3>1. OneEach(b)  BY Zenon, <2>1 DEF AllocatorInv
    <3>2. ~In(h0.ptr, b) /\ (HasSaved(req) => ~In(a0, b))
      BY Zenon, <1>15, <1>16, <1>18, <1>19, <1>21, <2>1
    <3>3. \A h, g \in held' : In(h.ptr, b) /\ In(g.ptr, b) => h = g
      BY Zenon, <1>17, <3>1, <3>2 DEF OneEach
    <3>4. \A h \in held', u \in Thread : pc'[u].op = "free" => ~(In(h.ptr, b) /\ In(pc'[u].ptr, b))
      BY Zenon, <1>17, <1>28, <3>1, <3>2 DEF OneEach
    <3>5. \A v, u \in Thread : pc'[v].op = "free" /\ pc'[u].op = "free"
                               /\ In(pc'[v].ptr, b) /\ In(pc'[u].ptr, b) => v = u
      BY Zenon, <1>28, <3>1 DEF OneEach
    <3>6. \A h \in held', a \in DOMAIN saved' :
             In(h.ptr, b) /\ In(a, b) => a = h.ptr + h.n * h.type.size
      BY Zenon, <1>17, <3>1, <3>2 DEF OneEach
    <3>7. QED  BY Zenon, <3>3, <3>4, <3>5, <3>6 DEF OneEach, In
  <2>2. CASE b = b0
    <3>1. \A h \in held' : In(h.ptr, b0) => h = h0  BY Zenon, <1>17, <1>25
    <3>2. \A a \in DOMAIN saved' : In(a, b0) => a = a0  BY Zenon, <1>17, <1>22
    <3>3. a0 = h0.ptr + h0.n * h0.type.size  BY Zenon, <1>8, <1>11, <1>16
    <3>4. QED  BY Zenon, <1>29, <2>2, <3>1, <3>2, <3>3 DEF OneEach, In
  <2>3. QED  BY Zenon, <1>17, <2>1, <2>2
<1>37. \A a \in DOMAIN saved' : SavedInside(a)'
  <2>1. \A a \in DOMAIN saved : SavedInside(a)'  BY Zenon, <1>17 DEF AllocatorInv, SavedInside, In
  <2>2. HasSaved(req) => SavedInside(a0)'  BY Zenon, <1>16, <1>17, <1>18 DEF SavedInside, In
  <2>3. QED  BY Zenon, <1>17, <2>1, <2>2
<1>38. QED  BY Zenon, <1>5, <1>32, <1>33, <1>34, <1>35, <1>36, <1>37 DEF AllocatorInv

\* What free() and munmap() are given.
LEMMA BaseFacts ==
    ASSUME NEW h, NEW b, b.base \in Int, Placed(h, b)
    PROVE  LET req == FreeRequest(h)
           IN  /\ Base(req, h.ptr) = b.base \/ Base(req, h.ptr) = h.ptr
               /\ ~DeleterForAll => Base(req, h.ptr) = b.base
               /\ req.guards => b.length = Length(req)
<1>1. PICK req : req = Request(h.kind, h.type, h.n)  BY Zenon
<1>2. /\ req = [size |-> h.n * h.type.size, alignment |-> h.type.alignment,
                guards |-> h.kind = "stack"]
      /\ b.length = Length(req) /\ h.ptr = Payload(req, b.base)
      /\ h.type.alignment \in Nat \ {0}
  BY Zenon, <1>1, AllocatorAssumption DEF Placed, Request, Fits
<1>3. CASE h.kind = "unique"
  <2>1. FreeRequest(h) = [req EXCEPT !.alignment = 0]  BY Zenon, <1>1, <1>3 DEF FreeRequest
  <2>2. FreeRequest(h).alignment = 0 /\ ~FreeRequest(h).guards  BY Zenon, <1>2, <1>3, <2>1
  <2>3. ~(FreeRequest(h).alignment > 1)  BY <2>2
  <2>4. Base(FreeRequest(h), h.ptr) = h.ptr  BY Zenon, <2>2, <2>3 DEF Base
  <2>5. ~DeleterForAll => h.ptr = b.base  BY Zenon, <1>3, PlacedFacts
  <2>6. QED  BY Zenon, <2>2, <2>4, <2>5
<1>4. CASE h.kind # "unique"
  <2>1. FreeRequest(h) = req  BY Zenon, <1>1, <1>4 DEF FreeRequest
  <2>2. PageSize \in Nat  BY Zenon, AllocatorAssumption
  <2>3. Base(req, h.ptr) = b.base
    <3>1. CASE h.kind = "stack"
      <4>1. req.guards  BY Zenon, <1>2, <3>1
      <4>2. h.ptr = b.base + PageSize  BY Zenon, <1>2, <4>1 DEF Payload
      <4>3. (b.base + PageSize) - PageSize = b.base  BY <2>2
      <4>4. QED  BY Zenon, <4>1, <4>2, <4>3 DEF Base
    <3>2. CASE h.kind # "stack" /\ h.type.alignment > 1
      <4>1. ~req.guards /\ req.alignment > 1 /\ HasSaved(req)  BY Zenon, <1>2, <3>2 DEF HasSaved
      <4>2. h.ptr + req.size \in DOMAIN saved /\ saved[h.ptr + req.size] = b.base
        BY Zenon, <1>1, <4>1 DEF Placed
      <4>3. QED  BY Zenon, <4>1, <4>2 DEF Base
    <3>3. CASE h.kind # "stack" /\ ~(h.type.alignment > 1)
      <4>1. ~req.guards /\ ~(req.alignment > 1)  BY Zenon, <1>2, <3>3
      <4>2. QED  BY Zenon, <1>2, <4>1 DEF Base, Payload
    <3>4. QED  BY Zenon, <3>1, <3>2, <3>3
  <2>4. QED  BY Zenon, <1>2, <2>1, <2>3
<1>5. QED  BY Zenon, <1>3, <1>4

\* free() returns the block to the system.
LEMMA ReleaseKeeps ==
    ASSUME AllocatorInv, NEW t \in Thread, Release(t)
    PROVE  AllocatorInv'
<1>1. pc[t].op = "free"  BY Zenon DEF Release
<1>2. PICK b \in blocks : /\ In(pc[t].ptr, b)
                          /\ \E h : h.ptr = pc[t].ptr /\ pc[t].req = FreeRequest(h) /\ Placed(h, b)
  BY Zenon, <1>1, FreeFacts
<1>3. PICK h : h.ptr = pc[t].ptr /\ pc[t].req = FreeRequest(h) /\ Placed(h, b)  BY Zenon, <1>2
<1>4. PICK req : req = FreeRequest(h)  BY Zenon
<1>5. PICK base : base = Base(req, h.ptr)  BY Zenon
<1>6. PICK mine \in SUBSET blocks :
         mine = {c \in blocks : c.base = base /\ (req.guards => c.length = Length(req))}
  BY ZenonT(30)
<1>7. /\ blocks' = blocks \ mine
      /\ released' = (released /\ mine # {})
      /\ saved' = [a \in DOMAIN saved \ UNION {Span(c.base, c.length) : c \in mine} |-> saved[a]]
      /\ pc' = [pc EXCEPT ![t] = NoCall] /\ held' = held
  BY <1>3, <1>4, <1>5, <1>6 DEF Release
<1>8. \A c \in blocks : c.base \in Int /\ c.length \in Nat \ {0}
  BY Zenon DEF AllocatorInv, AllocatorTypes
<1>9. /\ base = b.base \/ base = h.ptr
      /\ ~DeleterForAll => base = b.base
      /\ req.guards => b.length = Length(req)
  BY Zenon, <1>3, <1>4, <1>5, <1>8, BaseFacts
<1>10. h.ptr \in Int /\ In(h.ptr, b)  BY Zenon, <1>1, <1>2, <1>3, FreeFacts
<1>11. \A c \in mine : c = b
  <2>1. TAKE c \in mine
  <2>2. c \in blocks /\ c.base = base  BY Zenon, <1>6
  <2>3. base \in Int /\ In(base, c) /\ In(base, b)  BY <1>8, <1>9, <1>10, <2>2 DEF In
  <2>4. QED  BY Zenon, <2>2, <2>3 DEF AllocatorInv, BlocksApart
<1>12. ~DeleterForAll => b \in mine  BY Zenon, <1>6, <1>9
<1>13. blocks' \subseteq blocks /\ \A c \in blocks : c # b => c \in blocks'  BY Zenon, <1>7, <1>11
<1>14. \A a \in DOMAIN saved' : a \in DOMAIN saved /\ saved'[a] = saved[a]  BY Zenon, <1>7
<1>15. \A a \in DOMAIN saved, c \in blocks : In(a, c) /\ c # b =>
          a \in DOMAIN saved' /\ saved'[a] = saved[a]
  <2>1. TAKE a \in DOMAIN saved, c \in blocks
  <2>2. HAVE In(a, c) /\ c # b
  <2>3. a \in Int  BY Zenon DEF AllocatorInv, AllocatorTypes
  <2>4. ~In(a, b)  BY Zenon, <2>2, <2>3 DEF AllocatorInv, BlocksApart
  <2>5. a \notin Span(b.base, b.length)  BY <1>8, <2>3, <2>4 DEF In, Span
  <2>6. a \notin UNION {Span(d.base, d.length) : d \in mine}  BY Zenon, <1>11, <2>5
  <2>7. QED  BY Zenon, <1>7, <2>6
<1>16. ASSUME NEW g, NEW c \in blocks, c # b, Placed(g, c)  PROVE Placed(g, c)'
  <2>1. HasSaved(Request(g.kind, g.type, g.n)) => In(g.ptr + g.n * g.type.size, c)
    BY Zenon, <1>8, <1>16, PlacedFacts
  <2>2. QED  BY Zenon, <1>15, <1>16, <2>1, PlacedKept
<1>17. /\ \A u \in Thread : u # t => pc'[u] = pc[u]
       /\ pc'[t] = NoCall /\ pc' = [u \in Thread |-> pc'[u]]
  BY Zenon, <1>7 DEF AllocatorInv, AllocatorTypes
<1>18. \A u \in Thread : pc'[u].op \in {"free", "alloc"} => u # t /\ pc'[u] = pc[u]
  BY <1>17 DEF NoCall
<1>19. AllocatorTypes'
  <2>1. \A c \in blocks' : c.base \in Int /\ c.length \in Nat \ {0}  BY Zenon, <1>8, <1>13
  <2>2. \A u \in Thread : pc'[u].op = "alloc" => Fits(pc'[u].kind, pc'[u].type, pc'[u].n)
    BY Zenon, <1>18 DEF AllocatorInv, AllocatorTypes
  <2>3. \A u \in Thread : pc'[u].op = "free" => pc'[u].ptr \in Int
    BY Zenon, <1>18 DEF AllocatorInv, AllocatorTypes
  <2>4. saved' = [a \in DOMAIN saved' |-> saved'[a]] /\ DOMAIN saved' \subseteq Int
    BY Zenon, <1>7, <1>14 DEF AllocatorInv, AllocatorTypes
  <2>5. QED  BY Zenon, <1>7, <1>17, <2>1, <2>2, <2>3, <2>4 DEF AllocatorInv, AllocatorTypes, Fits
<1>20. BlocksApart'  BY Zenon, <1>13 DEF AllocatorInv, BlocksApart, In
<1>21. ASSUME NEW g \in held  PROVE \E c \in blocks' : Placed(g, c)'
  <2>1. PICK c \in blocks : Placed(g, c)  BY Zenon DEF AllocatorInv
  <2>2. In(g.ptr, c)  BY Zenon, <1>8, <2>1, PlacedFacts
  <2>3. c # b  BY Zenon, <1>1, <1>2, <2>2 DEF AllocatorInv, OneEach
  <2>4. QED  BY Zenon, <1>13, <1>16, <2>1, <2>3
<1>22. ASSUME NEW u \in Thread, pc'[u].op = "free"  PROVE FreePlaced(u)'
  <2>1. u # t /\ pc'[u] = pc[u] /\ pc[u].op = "free"  BY Zenon, <1>18, <1>22
  <2>2. FreePlaced(u)  BY Zenon, <2>1, FreeFacts
  <2>3. ASSUME NEW g, NEW c \in blocks, g.ptr = pc[u].ptr, Placed(g, c)
        PROVE  c \in blocks' /\ Placed(g, c)'
    <3>1. In(pc[u].ptr, c)  BY Zenon, <1>8, <2>3, PlacedFacts
    <3>2. c # b  BY Zenon, <1>1, <1>2, <2>1, <3>1 DEF AllocatorInv, OneEach
    <3>3. QED  BY Zenon, <1>13, <1>16, <2>3, <3>2
  <2>4. QED  BY Zenon, <2>1, <2>2, <2>3, FreeKept
<1>23. ASSUME NEW c \in blocks'  PROVE OneEach(c)'
  <2>1. OneEach(c)  BY Zenon, <1>13 DEF AllocatorInv
  <2>2. \A v, u \in Thread : pc'[v].op = "free" /\ pc'[u].op = "free"
                             /\ In(pc'[v].ptr, c) /\ In(pc'[u].ptr, c) => v = u
    BY Zenon, <1>18, <2>1 DEF OneEach
  <2>3. \A g \in held, u \in Thread : pc'[u].op = "free" => ~(In(g.ptr, c) /\ In(pc'[u].ptr, c))
    BY Zenon, <1>18, <2>1 DEF OneEach
  <2>4. QED  BY Zenon, <1>7, <1>14, <2>1, <2>2, <2>3 DEF OneEach, In
<1>24. ASSUME NEW a \in DOMAIN saved'  PROVE SavedInside(a)'
  <2>1. PICK c \in blocks : In(a, c) /\ a + PtrSize <= c.base + c.length
    BY Zenon, <1>14 DEF AllocatorInv, SavedInside
  <2>2. a \in Int  BY Zenon, <1>14 DEF AllocatorInv, AllocatorTypes
  <2>3. a \in Span(c.base, c.length)  BY <1>8, <2>1, <2>2 DEF In, Span
  <2>4. c \notin mine  BY Zenon, <1>7, <2>3
  <2>5. QED  BY Zenon, <1>7, <2>1, <2>4 DEF SavedInside, In
<1>25. DeleterForAll \/ released'  BY Zenon, <1>7, <1>12 DEF AllocatorInv
<1>26. QED  BY Zenon, <1>7, <1>19, <1>20, <1>21, <1>22, <1>23, <1>24, <1>25 DEF AllocatorInv

\* Every step of the threads that allocate and release preserves AllocatorInv.
THEOREM AllocatorInvariance == AllocatorSpec => []AllocatorInv
<1>1. ASSUME AllocatorInv, UNCHANGED allocatorVars  PROVE AllocatorInv'
  <2>1. /\ blocks' = blocks /\ saved' = saved /\ held' = held
        /\ pc' = pc /\ released' = released
    BY Zenon, <1>1 DEF allocatorVars
  <2>2. AllocatorTypes'  BY Zenon, <1>1, <2>1 DEF AllocatorInv, AllocatorTypes, Fits
  <2>3. BlocksApart'  BY Zenon, <1>1, <2>1 DEF AllocatorInv, BlocksApart, In
  <2>4. \A h \in held' : \E b \in blocks' : Placed(h, b)'
    BY Zenon, <1>1, <2>1, PlacedKept DEF AllocatorInv
  <2>5. ASSUME NEW u \in Thread, pc'[u].op = "free"  PROVE FreePlaced(u)'
    <3>1. FreePlaced(u)  BY Zenon, <1>1, <2>1, <2>5 DEF AllocatorInv
    <3>2. QED  BY Zenon, <2>1, <3>1, FreeKept, PlacedKept
  <2>6. ASSUME NEW b \in blocks'  PROVE OneEach(b)'
    <3>1. OneEach(b)  BY Zenon, <1>1, <2>1 DEF AllocatorInv
    <3>2. QED  BY Zenon, <2>1, <3>1 DEF OneEach, In
  <2>7. \A a \in DOMAIN saved' : SavedInside(a)'
    BY Zenon, <1>1, <2>1 DEF AllocatorInv, SavedInside, In
  <2>8. QED  BY Zenon, <1>1, <2>1, <2>2, <2>3, <2>4, <2>5, <2>6, <2>7 DEF AllocatorInv
<1>2. ASSUME AllocatorInv, AllocatorNext  PROVE AllocatorInv'
  BY Zenon, <1>2, CountAllocKeeps, AllocateKeeps, CountFreeKeeps, ReleaseKeeps DEF AllocatorNext
<1>3. QED  BY <1>1, <1>2, AllocatorInitial, PTL DEF AllocatorSpec

\* The memory of an allocation is aligned, lies inside its block and outside the
\* guard pages, and meets neither a saved pointer nor another allocation, for
\* every number of threads, every type and every page size.
THEOREM PayloadCorrect == AllocatorSpec => []PayloadIsOwn
BY AllocatorInvariance, AllocatorInvImplies, PTL

\* free() and munmap() get exactly the blocks that the system gave, if
\* make_unique_n() and make_shared() are used for types that malloc() aligns
\* well enough.
THEOREM ReleaseCorrect ==
    ASSUME ~DeleterForAll
    PROVE  AllocatorSpec => []ReleasesBlocks
<1>1. AllocatorInv => ReleasesBlocks  BY Zenon DEF AllocatorInv, ReleasesBlocks
<1>2. QED  BY <1>1, AllocatorInvariance, PTL

-----------------------------------------------------------------------------
\* Vector: marl::containers::vector.

\* The fields of a vector, as the members work on them.
Members(n, c, p, b, h, k) ==
    [count |-> n, capacity |-> c, elements |-> p, buffer |-> b, heap |-> h, ok |-> k]

\* The value of ok, as long as every access was allowed.
Fine == TRUE

\* n slots, of which the first hold the elements of e.
Filled(e, n) == [i \in 1..n |-> IF i <= Len(e) THEN e[i] ELSE Raw]

\* The fields of a vector with the elements e, in its buffer ...
InBuffer(e, n) == Members(n, BaseCapacity, "buffer", Filled(e, BaseCapacity), <<>>, Fine)

\* ... or in an allocation of c slots.
OnHeap(e, c, n) == Members(n, c, "heap", Filled(<<>>, BaseCapacity), Filled(e, c), Fine)

\* The storage is that of a vector with the elements e, whatever count_ is, and
\* every access was allowed; the vector is sound if count_ is right.
Storage(r, e, n) ==
    /\ e \in Seq(Value)
    /\ \/ r = InBuffer(e, n) /\ Len(e) <= BaseCapacity
       \/ \E c \in Nat \ {0} : r = OnHeap(e, c, n) /\ Len(e) <= c

Sound(r, e) == Storage(r, e, Len(e))

\* A vector without elements and without storage, which operator= makes of one
\* with an allocation.
NoStorage(c) == Members(0, c, "null", Filled(<<>>, BaseCapacity), <<>>, Fine)

Empty(r, e) == e = <<>> /\ \E c \in Nat \ {0} : r = NoStorage(c)

\* The fields without what is known of the accesses.
Okay(r) == [r EXCEPT !.ok = Fine]

\* The inductive invariant: the fields of every vector are those of one that
\* holds what is expected, and of a new one where there is none.  A vector has
\* storage unless operator= was called for one with an allocation, and without
\* such a call nothing is looked for where no storage is.
VectorInv ==
    /\ misuse = {} => sound
    /\ expected \in [Vec -> Seq(Value)]
    /\ Crashed => "heap" \in misuse
    /\ ~Crashed => \A v \in Vec :
         /\ Sound(Fields(v), expected[v]) \/ ("heap" \in misuse /\ Empty(Fields(v), expected[v]))
         /\ v \notin alive => Fields(v) = InBuffer(<<>>, 0) /\ expected[v] = <<>>

-----------------------------------------------------------------------------
\* The slots of a filled storage.
LEMMA FilledFacts ==
    ASSUME NEW e \in Seq(Value), NEW n \in Nat
    PROVE  /\ DOMAIN Filled(e, n) = 1..n
           /\ Filled(e, n) \in Seq(Value \cup {Raw})
           /\ Len(Filled(e, n)) = n
           /\ n > 0 => Filled(e, n) # <<>>
           /\ \A i \in 1..n : /\ i <= Len(e) => Filled(e, n)[i] = e[i] /\ e[i] # Raw
                              /\ i > Len(e) => Filled(e, n)[i] = Raw
<1>1. DOMAIN Filled(e, n) = 1..n  BY Zenon DEF Filled
<1>2. \A i \in 1..Len(e) : e[i] \in Value  OBVIOUS
<1>3. \A i \in 1..n : /\ i <= Len(e) => Filled(e, n)[i] = e[i] /\ e[i] # Raw
                      /\ i > Len(e) => Filled(e, n)[i] = Raw
  BY <1>2, VectorAssumption DEF Filled
<1>4. Filled(e, n) \in [1..n -> Value \cup {Raw}]  BY <1>2 DEF Filled
<1>5. Filled(e, n) \in Seq(Value \cup {Raw}) /\ Len(Filled(e, n)) = n  BY <1>4
<1>6. n > 0 => Filled(e, n) # <<>>  BY <1>5
<1>7. QED  BY Zenon, <1>1, <1>3, <1>5, <1>6

\* The fields of the two kinds of vector.
LEMMA StorageFields ==
    ASSUME NEW r, NEW e, NEW n, Storage(r, e, n)
    PROVE  /\ e \in Seq(Value) /\ r.count = n /\ r.capacity \in Nat \ {0} /\ Len(e) <= r.capacity
           /\ r.ok /\ At(r) = Filled(e, r.capacity)
           /\ r.elements = "buffer" => r = InBuffer(e, n) /\ r.heap = <<>> /\ r.capacity = BaseCapacity
           /\ r.elements # "buffer" => /\ r.elements = "heap" /\ r = OnHeap(e, r.capacity, n)
                                       /\ r.heap = Filled(e, r.capacity)
<1>1. BaseCapacity \in Nat \ {0}  BY Zenon, VectorAssumption
<1>2. CASE r = InBuffer(e, n) /\ Len(e) <= BaseCapacity
  <2>1. /\ r.count = n /\ r.capacity = BaseCapacity /\ r.elements = "buffer" /\ r.heap = <<>>
        /\ r.ok /\ r.buffer = Filled(e, BaseCapacity)
    BY Zenon, <1>2 DEF InBuffer, Members, Fine
  <2>2. At(r) = Filled(e, BaseCapacity)  BY Zenon, <2>1 DEF At
  <2>3. QED  BY Zenon, <1>1, <1>2, <2>1, <2>2 DEF Storage
<1>3. ASSUME NEW c \in Nat \ {0}, r = OnHeap(e, c, n), Len(e) <= c
      PROVE  /\ r.count = n /\ r.capacity = c /\ r.elements = "heap" /\ r.heap = Filled(e, c)
             /\ r.ok /\ At(r) = Filled(e, c)
  <2>1. /\ r.count = n /\ r.capacity = c /\ r.elements = "heap" /\ r.heap = Filled(e, c)
        /\ r.ok
    BY Zenon, <1>3 DEF OnHeap, Members, Fine
  <2>2. At(r) = Filled(e, c)  BY Zenon, <2>1 DEF At
  <2>3. QED  BY Zenon, <2>1, <2>2
<1>4. QED  BY Zenon, <1>2, <1>3 DEF Storage

\* All elements of a vector are alive, and the slots behind them are raw.
LEMMA SlotsAre ==
    ASSUME NEW e \in Seq(Value), NEW c \in Nat, Len(e) <= c, NEW r, At(r) = Filled(e, c)
    PROVE  /\ \A i \in 1..Len(e) : IsLive(r, i) /\ At(r)[i] = e[i]
           /\ \A i \in (Len(e) + 1)..c : IsRaw(r, i)
<1>1. PICK n \in Nat : n = Len(e)  OBVIOUS
<1>2. Len(At(r)) = c  BY Zenon, FilledFacts
<1>3. ASSUME NEW i \in 1..n  PROVE IsLive(r, i) /\ At(r)[i] = e[i]
  <2>1. i \in 1..c /\ i <= Len(e)  BY <1>1
  <2>2. At(r)[i] = e[i] /\ e[i] # Raw  BY <2>1, FilledFacts
  <2>3. QED  BY <1>2, <2>1, <2>2 DEF IsLive
<1>4. ASSUME NEW i \in (n + 1)..c  PROVE IsRaw(r, i)
  <2>1. i \in 1..c /\ i > Len(e)  BY <1>1
  <2>2. At(r)[i] = Raw  BY Zenon, <2>1, FilledFacts
  <2>3. QED  BY <1>2, <2>1, <2>2 DEF IsRaw
<1>5. QED  BY Zenon, <1>1, <1>3, <1>4

\* Slots are written: the elements are e2 then.
LEMMA WriteFacts ==
    ASSUME NEW r, NEW e, NEW n, Storage(r, e, n), NEW e2 \in Seq(Value), Len(e2) <= r.capacity,
           NEW idx, NEW f,
           [i \in 1..Len(At(r)) |-> IF i \in idx THEN f[i] ELSE At(r)[i]] = Filled(e2, r.capacity)
    PROVE  Storage(Write(r, idx, f), e2, n) /\ Write(r, idx, f).capacity = r.capacity
<1>1. PICK new : new = [i \in 1..Len(At(r)) |-> IF i \in idx THEN f[i] ELSE At(r)[i]]  BY Zenon
<1>2. PICK c \in Nat \ {0} : c = r.capacity  BY Zenon, StorageFields
<1>3. CASE r.elements = "buffer"
  <2>1. Write(r, idx, f) = [r EXCEPT !.buffer = new]  BY Zenon, <1>1, <1>3 DEF Write
  <2>2. r = InBuffer(e, n) /\ c = BaseCapacity  BY Zenon, <1>2, <1>3, StorageFields
  <2>3. [r EXCEPT !.buffer = new] = Members(n, BaseCapacity, "buffer", new, <<>>, Fine)
    BY <2>2 DEF InBuffer, Members
  <2>4. new = Filled(e2, BaseCapacity)  BY Zenon, <1>1, <1>2, <2>2
  <2>5. Write(r, idx, f) = InBuffer(e2, n)  BY Zenon, <2>1, <2>3, <2>4 DEF InBuffer
  <2>6. InBuffer(e2, n).capacity = BaseCapacity  BY Zenon DEF InBuffer, Members
  <2>7. QED  BY Zenon, <1>2, <2>2, <2>5, <2>6 DEF Storage
<1>4. CASE r.elements # "buffer"
  <2>1. r.elements = "heap" /\ r = OnHeap(e, c, n)  BY <1>2, <1>4, StorageFields
  <2>2. Write(r, idx, f) = [r EXCEPT !.heap = new]  BY Zenon, <1>1, <2>1 DEF Write
  <2>3. PICK b : b = Filled(<<>>, BaseCapacity)  BY Zenon
  <2>4. [r EXCEPT !.heap = new] = Members(n, c, "heap", b, new, Fine)
    BY <2>1, <2>3 DEF OnHeap, Members
  <2>5. new = Filled(e2, c)  BY Zenon, <1>1, <1>2
  <2>6. Write(r, idx, f) = OnHeap(e2, c, n)  BY Zenon, <2>2, <2>3, <2>4, <2>5 DEF OnHeap
  <2>7. OnHeap(e2, c, n).capacity = c  BY Zenon DEF OnHeap, Members
  <2>8. QED  BY ZenonT(30), <1>2, <2>6, <2>7 DEF Storage
<1>5. QED  BY Zenon, <1>3, <1>4

\* ok and count_ are assigned.
LEMMA FieldsSet ==
    ASSUME NEW r, NEW e, NEW n, Storage(r, e, n)
    PROVE  /\ [r EXCEPT !.ok = Fine] = r
           /\ \A m : Storage([r EXCEPT !.count = m], e, m)
<1>1. PICK c \in Nat \ {0} : c = r.capacity  BY Zenon, StorageFields
<1>2. CASE r.elements = "buffer"
  <2>1. r = InBuffer(e, n) /\ c = BaseCapacity  BY Zenon, <1>1, <1>2, StorageFields
  <2>2. PICK b : b = Filled(e, BaseCapacity)  BY Zenon
  <2>3. r = Members(n, BaseCapacity, "buffer", b, <<>>, Fine)  BY Zenon, <2>1, <2>2 DEF InBuffer
  <2>4. [r EXCEPT !.ok = Fine] = r  BY <2>3 DEF Members
  <2>5. ASSUME NEW m  PROVE [r EXCEPT !.count = m] = Members(m, BaseCapacity, "buffer", b, <<>>, Fine)
    BY <2>3 DEF Members
  <2>6. e \in Seq(Value) /\ Len(e) <= BaseCapacity  BY <1>1, <2>1, StorageFields
  <2>7. ASSUME NEW m  PROVE Storage([r EXCEPT !.count = m], e, m)
    <3>1. [r EXCEPT !.count = m] = InBuffer(e, m)  BY Zenon, <2>2, <2>5 DEF InBuffer
    <3>2. QED  BY Zenon, <2>6, <3>1 DEF Storage
  <2>8. QED  BY Zenon, <2>4, <2>7
<1>3. CASE r.elements # "buffer"
  <2>1. r = OnHeap(e, c, n)  BY <1>1, <1>3, StorageFields
  <2>2. PICK b : b = Filled(<<>>, BaseCapacity)  BY Zenon
  <2>3. PICK h : h = Filled(e, c)  BY Zenon
  <2>4. r = Members(n, c, "heap", b, h, Fine)  BY Zenon, <2>1, <2>2, <2>3 DEF OnHeap
  <2>5. [r EXCEPT !.ok = Fine] = r  BY <2>4 DEF Members
  <2>6. ASSUME NEW m  PROVE [r EXCEPT !.count = m] = Members(m, c, "heap", b, h, Fine)
    BY <2>4 DEF Members
  <2>7. e \in Seq(Value) /\ Len(e) <= c  BY Zenon, <1>1, StorageFields
  <2>8. ASSUME NEW m  PROVE Storage([r EXCEPT !.count = m], e, m)
    <3>1. [r EXCEPT !.count = m] = OnHeap(e, c, m)  BY Zenon, <2>2, <2>3, <2>6 DEF OnHeap
    <3>2. QED  BY Zenon, <2>7, <3>1 DEF Storage
  <2>9. QED  BY Zenon, <2>5, <2>8
<1>4. QED  BY Zenon, <1>2, <1>3

\* Elements are constructed behind those there are.
LEMMA ConstructFacts ==
    ASSUME NEW r, NEW e, NEW n, Storage(r, e, n), NEW e2 \in Seq(Value),
           Len(e) <= Len(e2), Len(e2) <= r.capacity,
           \A i \in 1..Len(e) : e2[i] = e[i],
           NEW f, \A i \in (Len(e) + 1)..Len(e2) : f[i] = e2[i]
    PROVE  LET s == Construct(r, (Len(e) + 1)..Len(e2), f)
           IN  Storage(s, e2, n) /\ s.capacity = r.capacity
<1>1. PICK c \in Nat \ {0} : c = r.capacity  BY Zenon, StorageFields
<1>2. e \in Seq(Value) /\ Len(e) <= c /\ At(r) = Filled(e, c) /\ r.ok  BY Zenon, <1>1, StorageFields
<1>3. PICK k \in Nat, m \in Nat : k = Len(e) /\ m = Len(e2)  BY <1>2
<1>4. Len(At(r)) = c  BY <1>2, FilledFacts
<1>5. PICK new : new = [i \in 1..Len(At(r)) |-> IF i \in (k + 1)..m THEN f[i] ELSE At(r)[i]]  BY Zenon
<1>6. new = Filled(e2, c)
  <2>1. ASSUME NEW i \in 1..c
        PROVE  (IF i \in (k + 1)..m THEN f[i] ELSE At(r)[i]) = (IF i <= Len(e2) THEN e2[i] ELSE Raw)
    <3>1. CASE i <= k
      <4>1. i \in 1..Len(e) /\ i \notin (k + 1)..m /\ i <= Len(e2)  BY <1>3, <3>1
      <4>2. At(r)[i] = e[i]  BY <1>2, <4>1, FilledFacts
      <4>3. QED  BY Zenon, <4>1, <4>2
    <3>2. CASE i > k /\ i <= m
      <4>1. i \in (k + 1)..m /\ i <= Len(e2)  BY <1>3, <3>2
      <4>2. QED  BY Zenon, <1>3, <4>1
    <3>3. CASE i > m
      <4>1. i \notin (k + 1)..m /\ ~(i <= Len(e2)) /\ i > Len(e)  BY <1>3, <3>3
      <4>2. At(r)[i] = Raw  BY SMTT(30), <1>2, <4>1, FilledFacts
      <4>3. QED  BY Zenon, <4>1, <4>2
    <3>4. QED  BY <1>3, <3>1, <3>2, <3>3
  <2>2. QED  BY ZenonT(30), <1>4, <1>5, <2>1 DEF Filled
<1>7. PICK idx : idx = (k + 1)..m  BY Zenon
<1>8. PICK s : s = Write(r, idx, f)  BY ZenonT(30)
<1>9. Storage(s, e2, n) /\ s.capacity = r.capacity
  BY <1>1, <1>3, <1>5, <1>6, <1>7, <1>8, WriteFacts
<1>10. \A i \in idx : IsRaw(r, i)
  <2>1. \A i \in idx : i \in (Len(e) + 1)..c  BY <1>1, <1>3, <1>7
  <2>2. QED  BY Zenon, <1>2, <2>1, SlotsAre
<1>11. (s.ok /\ \A i \in idx : IsRaw(r, i)) = Fine  BY Zenon, <1>9, <1>10, StorageFields DEF Fine
<1>12. Construct(r, idx, f) = [s EXCEPT !.ok = Fine]  BY Zenon, <1>8, <1>11 DEF Construct
<1>13. Construct(r, idx, f) = s  BY Zenon, <1>9, <1>12, FieldsSet
<1>14. QED  BY Zenon, <1>3, <1>7, <1>9, <1>13

\* The elements behind those of e2 are destroyed.
LEMMA DestroyFacts ==
    ASSUME NEW r, NEW e, NEW n, Storage(r, e, n), NEW e2 \in Seq(Value),
           Len(e2) <= Len(e), \A i \in 1..Len(e2) : e2[i] = e[i]
    PROVE  LET s == Destroy(r, (Len(e2) + 1)..Len(e))
           IN  Storage(s, e2, n) /\ s.capacity = r.capacity
<1>1. PICK c \in Nat \ {0} : c = r.capacity  BY Zenon, StorageFields
<1>2. e \in Seq(Value) /\ Len(e) <= c /\ At(r) = Filled(e, c) /\ r.ok  BY Zenon, <1>1, StorageFields
<1>3. PICK k \in Nat, m \in Nat : k = Len(e) /\ m = Len(e2)  BY <1>2
<1>4. Len(At(r)) = c  BY <1>2, FilledFacts
<1>5. PICK idx : idx = (m + 1)..k  BY Zenon
<1>6. PICK f : f = [i \in idx |-> Raw]  BY Zenon
<1>7. PICK new : new = [i \in 1..Len(At(r)) |-> IF i \in idx THEN f[i] ELSE At(r)[i]]  BY Zenon
<1>8. new = Filled(e2, c)
  <2>1. ASSUME NEW i \in 1..c
        PROVE  (IF i \in idx THEN f[i] ELSE At(r)[i]) = (IF i <= Len(e2) THEN e2[i] ELSE Raw)
    <3>1. CASE i <= m
      <4>1. i \in 1..Len(e2) /\ i \notin idx /\ i <= Len(e)  BY <1>3, <1>5, <3>1
      <4>2. At(r)[i] = e[i]  BY <1>2, <4>1, FilledFacts
      <4>3. QED  BY Zenon, <3>1, <1>3, <4>1, <4>2
    <3>2. CASE i > m /\ i <= k
      <4>1. i \in idx /\ ~(i <= Len(e2))  BY <1>3, <1>5, <3>2
      <4>2. QED  BY Zenon, <1>6, <4>1
    <3>3. CASE i > k
      <4>1. i \notin idx /\ ~(i <= Len(e2)) /\ i > Len(e)  BY <1>3, <1>5, <3>3
      <4>2. At(r)[i] = Raw  BY SMTT(30), <1>2, <4>1, FilledFacts
      <4>3. QED  BY Zenon, <4>1, <4>2
    <3>4. QED  BY <1>3, <3>1, <3>2, <3>3
  <2>2. QED  BY Zenon, <1>4, <1>7, <2>1 DEF Filled
<1>9. Len(e2) <= r.capacity  BY <1>1, <1>2, <1>3
<1>10. PICK s : s = Write(r, idx, f)  BY ZenonT(30)
<1>11. Storage(s, e2, n) /\ s.capacity = r.capacity
  <2>1. [i \in 1..Len(At(r)) |-> IF i \in idx THEN f[i] ELSE At(r)[i]] = Filled(e2, r.capacity)
    BY Zenon, <1>1, <1>7, <1>8
  <2>2. Storage(Write(r, idx, f), e2, n) /\ Write(r, idx, f).capacity = r.capacity
    BY <1>9, <2>1, WriteFacts
  <2>3. QED  BY <1>10, <2>2
<1>12. \A i \in idx : IsLive(r, i)
  <2>1. \A i \in idx : i \in 1..Len(e)  BY <1>3, <1>5
  <2>2. QED  BY Zenon, <1>2, <2>1, SlotsAre
<1>13. (s.ok /\ \A i \in idx : IsLive(r, i)) = Fine  BY Zenon, <1>11, <1>12, StorageFields DEF Fine
<1>14. Destroy(r, idx) = [s EXCEPT !.ok = Fine]  BY Zenon, <1>6, <1>10, <1>13 DEF Destroy
<1>15. Destroy(r, idx) = s  BY Zenon, <1>11, <1>14, FieldsSet
<1>16. QED  BY Zenon, <1>3, <1>5, <1>11, <1>15

\* The capacity reserve() chooses.
LEMMA Larger ==
    ASSUME NEW n \in Nat \ {0}
    PROVE  Max({n * 2, MinCapacity}) \in Nat \ {0} /\ n <= Max({n * 2, MinCapacity})
<1>1. MinCapacity \in Nat  BY Zenon, VectorAssumption
<1>2. PICK m \in Nat : m \in {n * 2, MinCapacity} /\ n * 2 <= m /\ MinCapacity <= m  BY <1>1
<1>3. \A y \in {n * 2, MinCapacity} : m >= y  BY Zenon, <1>1, <1>2
<1>4. PICK x : x = Max({n * 2, MinCapacity})  BY Zenon
<1>5. x \in {n * 2, MinCapacity} /\ \A y \in {n * 2, MinCapacity} : x >= y
  BY Zenon, <1>2, <1>3, <1>4 DEF Max
<1>6. QED  BY <1>1, <1>4, <1>5

\* The fields that reserve() sets when it moves to an allocation of m slots.
MovedTo(r, m, new, k) ==
    [[[[r EXCEPT !.capacity = m] EXCEPT !.heap = new] EXCEPT !.elements = "heap"] EXCEPT !.ok = k]

\* They are all it sets.
LEMMA FieldsMoved ==
    ASSUME NEW n, NEW c, NEW p, NEW b, NEW k, NEW m, NEW new, NEW j
    PROVE  MovedTo(Members(n, c, p, b, <<>>, k), m, new, j) = Members(n, m, "heap", b, new, j)
<1>1. [Members(n, c, p, b, <<>>, k) EXCEPT !.capacity = m] = Members(n, m, p, b, <<>>, k)
  BY DEF Members
<1>2. [Members(n, m, p, b, <<>>, k) EXCEPT !.heap = new] = Members(n, m, p, b, new, k)
  BY DEF Members
<1>3. [Members(n, m, p, b, new, k) EXCEPT !.elements = "heap"] = Members(n, m, "heap", b, new, k)
  BY DEF Members
<1>4. [Members(n, m, "heap", b, new, k) EXCEPT !.ok = j] = Members(n, m, "heap", b, new, j)
  BY DEF Members
<1>5. QED  BY Zenon, <1>1, <1>2, <1>3, <1>4 DEF MovedTo

\* free() leaves raw storage, with count_ and capacity_ as they were.
LEMMA FreedFacts ==
    ASSUME NEW r, NEW e, Sound(r, e)
    PROVE  Freed(r) = Members(Len(e), r.capacity, IF r.elements = "buffer" THEN "buffer" ELSE "null",
                              Filled(<<>>, BaseCapacity), <<>>, Fine)
<1>1. PICK n \in Nat : n = Len(e)  BY StorageFields DEF Sound
<1>2. Storage(r, e, n) /\ e \in Seq(Value) /\ r.count = n  BY Zenon, <1>1, StorageFields DEF Sound
<1>3. PICK s : s = Destroy(r, 1..n)  BY Zenon
<1>4. Storage(s, <<>>, n) /\ s.capacity = r.capacity
  <2>0. <<>> \in Seq(Value) /\ Len(<<>>) = 0  OBVIOUS
  <2>1. PICK z \in Seq(Value) : z = <<>> /\ Len(z) = 0  BY Zenon, <2>0
  <2>2. (Len(z) + 1)..Len(e) = 1..n  BY <1>1, <2>1
  <2>3. Len(z) <= Len(e) /\ \A i \in 1..Len(z) : z[i] = e[i]  BY <1>1, <2>1
  <2>4. Storage(Destroy(r, (Len(z) + 1)..Len(e)), z, n)
        /\ Destroy(r, (Len(z) + 1)..Len(e)).capacity = r.capacity
    BY Zenon, <1>2, <2>3, DestroyFacts
  <2>5. QED  BY Zenon, <1>3, <2>1, <2>2, <2>4
<1>5. PICK b : b = Filled(<<>>, BaseCapacity)  BY Zenon
<1>6. PICK c \in Nat \ {0} : c = r.capacity  BY Zenon, <1>2, StorageFields
<1>7. s.elements = r.elements
  <2>1. \A x, y : [r EXCEPT !.ok = x].elements = r.elements
    <3>1. CASE r.elements = "buffer"
      <4>1. r = InBuffer(e, n)  BY Zenon, <1>2, <3>1, StorageFields
      <4>2. QED  BY Zenon, <4>1 DEF InBuffer, Members
    <3>2. CASE r.elements # "buffer"
      <4>1. r = OnHeap(e, c, n)  BY <1>2, <1>6, <3>2, StorageFields
      <4>2. QED  BY ZenonT(30), <4>1 DEF OnHeap, Members
    <3>3. QED  BY Zenon, <3>1, <3>2
  <2>2. PICK w : w = Write(r, 1..n, [i \in 1..n |-> Raw])  BY Zenon
  <2>3. w.elements = r.elements /\ DOMAIN w = {"count", "capacity", "elements", "buffer", "heap", "ok"}
    <3>1. PICK new : new = [i \in 1..Len(At(r)) |-> IF i \in 1..n THEN [j \in 1..n |-> Raw][i] ELSE At(r)[i]]
      BY Zenon
    <3>2. CASE r.elements = "buffer"
      <4>1. r = InBuffer(e, n)  BY Zenon, <1>2, <3>2, StorageFields
      <4>2. w = [r EXCEPT !.buffer = new]  BY Zenon, <2>2, <3>1, <3>2 DEF Write
      <4>3. QED  BY Zenon, <4>1, <4>2 DEF InBuffer, Members
    <3>3. CASE r.elements # "buffer"
      <4>1. r = OnHeap(e, c, n) /\ r.elements = "heap"  BY <1>2, <1>6, <3>3, StorageFields
      <4>2. w = [r EXCEPT !.heap = new]  BY Zenon, <2>2, <3>1, <4>1 DEF Write
      <4>3. QED  BY ZenonT(30), <4>1, <4>2 DEF OnHeap, Members
    <3>4. QED  BY Zenon, <3>2, <3>3
  <2>4. QED  BY Zenon, <1>3, <2>2, <2>3 DEF Destroy
<1>8. CASE r.elements = "buffer"
  <2>1. s = InBuffer(<<>>, n) /\ r.heap = <<>> /\ c = BaseCapacity
    BY <1>2, <1>4, <1>6, <1>7, <1>8, StorageFields
  <2>2. Freed(r) = s  BY Zenon, <1>2, <1>3, <2>1 DEF Freed
  <2>3. QED  BY ZenonT(30), <1>1, <1>6, <1>8, <2>1, <2>2 DEF InBuffer
<1>9. CASE r.elements # "buffer"
  <2>1. s = OnHeap(<<>>, c, n) /\ r.heap = Filled(e, c)
    <3>1. s.elements # "buffer" /\ s.capacity = c /\ r.capacity = c  BY Zenon, <1>4, <1>6, <1>7, <1>9
    <3>2. s = OnHeap(<<>>, c, n)  BY <1>4, <3>1, StorageFields
    <3>3. r.heap = Filled(e, c)  BY <1>2, <1>9, <3>1, StorageFields
    <3>4. QED  BY Zenon, <3>2, <3>3
  <2>2. r.heap # <<>>  BY <1>2, <2>1, FilledFacts
  <2>3. Freed(r) = [[s EXCEPT !.heap = <<>>] EXCEPT !.elements = "null"]
    BY Zenon, <1>2, <1>3, <2>2 DEF Freed
  <2>4. PICK h : h = Filled(<<>>, c)  BY Zenon
  <2>5. s = Members(n, c, "heap", b, h, Fine)  BY Zenon, <1>5, <2>1, <2>4 DEF OnHeap
  <2>6. [s EXCEPT !.heap = <<>>] = Members(n, c, "heap", b, <<>>, Fine)  BY <2>5 DEF Members
  <2>7. [Members(n, c, "heap", b, <<>>, Fine) EXCEPT !.elements = "null"]
           = Members(n, c, "null", b, <<>>, Fine)
    BY DEF Members
  <2>8. QED  BY ZenonT(30), <1>1, <1>5, <1>6, <1>9, <2>3, <2>6, <2>7
<1>10. QED  BY ZenonT(30), <1>8, <1>9

\* reserve() changes the capacity, and nothing else that can be seen.
LEMMA ReserveFacts ==
    ASSUME NEW r, NEW e, Sound(r, e), NEW n \in Nat
    PROVE  Sound(Reserve(r, n), e) /\ n <= Reserve(r, n).capacity
<1>1. PICK c \in Nat \ {0} : c = r.capacity  BY ZenonT(30), StorageFields DEF Sound
<1>2. PICK k \in Nat : k = Len(e)  BY StorageFields DEF Sound
<1>3. e \in Seq(Value) /\ k <= c /\ r.count = k /\ At(r) = Filled(e, c) /\ Storage(r, e, k)
  BY Zenon, <1>1, <1>2, StorageFields DEF Sound
<1>4. CASE ~(n > c)
  <2>1. Reserve(r, n) = r /\ n <= c  BY <1>1, <1>4 DEF Reserve
  <2>2. QED  BY ZenonT(30), <1>1, <2>1
<1>5. CASE n > c
  <2>1. PICK m \in Nat \ {0} : m = Max({n * 2, MinCapacity}) /\ n <= m  BY <1>5, Larger
  <2>2. PICK new : new = [i \in 1..m |-> IF i > r.count THEN Raw
                                         ELSE IF IsLive(r, i) THEN At(r)[i] ELSE Default]
    BY ZenonT(30)
  <2>3. \A i \in 1..k : IsLive(r, i) /\ At(r)[i] = e[i]  BY <1>2, <1>3, SlotsAre
  <2>4. new = Filled(e, m)
    <3>1. ASSUME NEW i \in 1..m
          PROVE  (IF i > r.count THEN Raw ELSE IF IsLive(r, i) THEN At(r)[i] ELSE Default)
                 = (IF i <= Len(e) THEN e[i] ELSE Raw)
      BY <1>2, <1>3, <2>3
    <3>2. QED  BY ZenonT(30), <2>2, <3>1 DEF Filled
  <2>5. PICK p : p = IF r.elements = "buffer" THEN "buffer" ELSE "null"  BY Zenon
  <2>6. PICK b : b = Filled(<<>>, BaseCapacity)  BY Zenon
  <2>7. PICK s : s = Freed(r)  BY Zenon
  <2>8. s = Members(k, c, p, b, <<>>, Fine)  BY Zenon, <1>1, <1>2, <2>5, <2>6, <2>7, FreedFacts
  <2>9. (s.ok /\ \A i \in 1..r.count : IsLive(r, i)) = Fine  BY Zenon, <1>3, <2>3, <2>8 DEF Members, Fine
  <2>a. r.elements # "null"
    <3>1. r.elements = "buffer" \/ r.elements = "heap"  BY Zenon, <1>3, StorageFields
    <3>2. QED  BY <3>1
  <2>10. Grown(r, n) = MovedTo(s, m, new, Fine)
    BY Zenon, <2>1, <2>2, <2>7, <2>9, <2>a DEF Grown, MovedTo
  <2>15. Grown(r, n) = Members(k, m, "heap", b, new, Fine)  BY <2>8, <2>10, FieldsMoved
  <2>16. Grown(r, n) = OnHeap(e, m, k)  BY Zenon, <2>4, <2>6, <2>15 DEF OnHeap
  <2>17. Reserve(r, n) = OnHeap(e, m, k)  BY Zenon, <1>1, <1>5, <2>16 DEF Reserve
  <2>18. k <= m  BY <1>3, <1>5, <2>1
  <2>19. OnHeap(e, m, k).capacity = m  BY Zenon DEF OnHeap, Members
  <2>20. QED  BY Zenon, <1>2, <1>3, <2>1, <2>17, <2>18, <2>19 DEF Sound, Storage
<1>6. QED  BY Zenon, <1>4, <1>5

\* push_back() of a value that is not one of the vector's, or needs no larger storage.
LEMMA PushedFacts ==
    ASSUME NEW r, NEW e, Sound(r, e), NEW x \in Value
    PROVE  Sound(Pushed(r, x), Append(e, x))
<1>1. PICK n \in Nat : n = Len(e)  BY StorageFields DEF Sound
<1>2. e \in Seq(Value) /\ r.count = n  BY Zenon, <1>1, StorageFields DEF Sound
<1>3. PICK s : s = Reserve(r, n + 1)  BY Zenon
<1>4. Sound(s, e) /\ n + 1 <= s.capacity  BY <1>3, ReserveFacts
<1>5. s.count = n /\ Storage(s, e, n)  BY <1>1, <1>4, StorageFields DEF Sound
<1>6. PICK e2 \in Seq(Value) : e2 = Append(e, x)
  <2>1. Append(e, x) \in Seq(Value)  BY <1>2
  <2>2. QED  BY Zenon, <2>1
<1>7. Len(e2) = n + 1 /\ (\A i \in 1..n : e2[i] = e[i]) /\ e2[n + 1] = x  BY <1>1, <1>2, <1>6
<1>8. PICK f : f = [i \in {n + 1} |-> x]  BY Zenon
<1>9. {n + 1} = (Len(e) + 1)..Len(e2)  BY <1>1, <1>7
<1>10. \A i \in (Len(e) + 1)..Len(e2) : f[i] = e2[i]  BY Zenon, <1>7, <1>8, <1>9
<1>11. Len(e) <= Len(e2) /\ Len(e2) <= s.capacity  BY <1>1, <1>4, <1>7
<1>12. PICK t : t = Construct(s, {n + 1}, f)  BY Zenon
<1>13. Storage(t, e2, n)
  <2>1. \A i \in 1..Len(e) : e2[i] = e[i]  BY Zenon, <1>1, <1>7
  <2>2. Storage(Construct(s, (Len(e) + 1)..Len(e2), f), e2, n)
    BY Zenon, <1>5, <1>10, <1>11, <2>1, ConstructFacts
  <2>3. QED  BY Zenon, <1>9, <1>12, <2>2
<1>14. t.count = n  BY Zenon, <1>13, StorageFields
<1>15. Pushed(r, x) = [t EXCEPT !.count = n + 1]
  BY Zenon, <1>2, <1>3, <1>5, <1>8, <1>12, <1>14 DEF Pushed
<1>16. QED  BY <1>6, <1>7, <1>13, <1>15, FieldsSet DEF Sound

\* The elements after resize().
Cut(e, n) == [i \in 1..n |-> IF i <= Len(e) THEN e[i] ELSE Default]

\* The elements after resize() are as many as it was asked for.
LEMMA CutFacts ==
    ASSUME NEW e \in Seq(Value), NEW n \in Nat
    PROVE  Cut(e, n) \in Seq(Value) /\ Len(Cut(e, n)) = n
<1>1. \A i \in 1..Len(e) : e[i] \in Value  OBVIOUS
<1>2. Cut(e, n) \in [1..n -> Value]  BY <1>1, VectorAssumption DEF Cut
<1>3. QED  BY <1>2

\* resize() constructs or destroys the elements in between.
LEMMA ResizedFacts ==
    ASSUME NEW r, NEW e, NEW n \in Nat, Sound(Reserve(r, n), e), n <= Reserve(r, n).capacity
    PROVE  Sound(Resized(r, n), Cut(e, n))
<1>3. PICK s : s = Reserve(r, n)  BY Zenon
<1>4. Sound(s, e) /\ n <= s.capacity  BY Zenon, <1>3
<1>1. PICK k \in Nat : k = Len(e)  BY <1>4, StorageFields DEF Sound
<1>2. e \in Seq(Value)  BY Zenon, <1>4, StorageFields DEF Sound
<1>5. s.count = k /\ Storage(s, e, k) /\ s.capacity \in Nat /\ k <= s.capacity
  BY <1>1, <1>4, StorageFields DEF Sound
<1>6. PICK e2 \in Seq(Value) : e2 = Cut(e, n) /\ Len(e2) = n  BY Zenon, <1>2, CutFacts
<1>7. \A i \in 1..n : e2[i] = IF i <= k THEN e[i] ELSE Default  BY Zenon, <1>1, <1>6 DEF Cut
<1>8. PICK add : add = (k + 1)..n  BY Zenon
<1>9. PICK f : f = [i \in add |-> Default]  BY Zenon
<1>10. PICK t : t = Construct(s, add, f)  BY Zenon
<1>11. PICK u : u = Destroy(t, (n + 1)..k)  BY Zenon
<1>12. ASSUME Storage(u, e2, k), t.count = k  PROVE Sound(Resized(r, n), e2)
  <2>1. Resized(r, n) = [u EXCEPT !.count = n]
    BY Zenon, <1>3, <1>5, <1>8, <1>9, <1>10, <1>11, <1>12 DEF Resized
  <2>2. QED  BY <1>6, <1>12, <2>1, FieldsSet DEF Sound
<1>13. CASE k <= n
  <2>1. add = (Len(e) + 1)..Len(e2) /\ Len(e) <= Len(e2) /\ Len(e2) <= s.capacity
    BY ZenonT(30), <1>1, <1>4, <1>6, <1>8, <1>13
  <2>2. \A i \in 1..Len(e) : e2[i] = e[i]  BY <1>1, <1>7, <1>13
  <2>3. \A i \in add : f[i] = e2[i]
    <3>1. TAKE i \in add
    <3>2. i \in 1..n /\ ~(i <= k)  BY <1>8
    <3>3. QED  BY Zenon, <1>7, <1>9, <3>2
  <2>4. Storage(t, e2, k)  BY Zenon, <1>5, <1>10, <2>1, <2>2, <2>3, ConstructFacts
  <2>5. (n + 1)..k = (Len(e2) + 1)..Len(e2)  BY <1>6, <1>13
  <2>6. Len(e2) <= Len(e2)  BY <1>6
  <2>7. Storage(u, e2, k)  BY Zenon, <1>11, <2>4, <2>5, <2>6, DestroyFacts
  <2>8. t.count = k  BY Zenon, <2>4, StorageFields
  <2>9. QED  BY Zenon, <1>6, <1>12, <2>7, <2>8
<1>14. CASE n < k
  <2>1. add = (Len(e) + 1)..Len(e) /\ Len(e) <= Len(e) /\ Len(e) <= s.capacity
    BY <1>1, <1>5, <1>8, <1>14
  <2>2. \A i \in (Len(e) + 1)..Len(e) : f[i] = e[i]  BY <1>1
  <2>3. Storage(t, e, k)  BY Zenon, <1>2, <1>5, <1>10, <2>1, <2>2, ConstructFacts
  <2>4. (n + 1)..k = (Len(e2) + 1)..Len(e) /\ Len(e2) <= Len(e)  BY <1>1, <1>6, <1>14
  <2>5. \A i \in 1..Len(e2) : e2[i] = e[i]  BY <1>6, <1>7, <1>14
  <2>6. Storage(u, e2, k)  BY Zenon, <1>11, <2>3, <2>4, <2>5, DestroyFacts
  <2>7. t.count = k  BY Zenon, <2>3, StorageFields
  <2>8. QED  BY Zenon, <1>6, <1>12, <2>6, <2>7
<1>15. QED  BY <1>13, <1>14

\* pop_back() destroys the last element.
LEMMA PoppedFacts ==
    ASSUME NEW r, NEW e, Sound(r, e), NEW n \in Nat, n + 1 = Len(e)
    PROVE  Sound([Destroy(r, {n + 1}) EXCEPT !.count = @ - 1], SubSeq(e, 1, n))
<1>1. e \in Seq(Value) /\ Storage(r, e, n + 1)  BY Zenon, StorageFields DEF Sound
<1>2. PICK e2 \in Seq(Value) : e2 = SubSeq(e, 1, n)
  <2>1. SubSeq(e, 1, n) \in Seq(Value)  BY <1>1
  <2>2. QED  BY Zenon, <2>1
<1>3. Len(e2) = n /\ \A i \in 1..n : e2[i] = e[i]  BY <1>1, <1>2
<1>4. {n + 1} = (Len(e2) + 1)..Len(e) /\ Len(e2) <= Len(e)  BY <1>3
<1>5. PICK s : s = Destroy(r, {n + 1})  BY Zenon
<1>6. Storage(s, e2, n + 1)
  <2>1. \A i \in 1..Len(e2) : e2[i] = e[i]  BY Zenon, <1>3
  <2>2. QED  BY Zenon, <1>1, <1>4, <1>5, <2>1, DestroyFacts
<1>7. s.count - 1 = n  BY <1>6, StorageFields
<1>8. QED  BY Zenon, <1>2, <1>3, <1>5, <1>6, <1>7, FieldsSet DEF Sound

\* operator= when free() and reserve() have left storage for the elements.
LEMMA AssignedFrom ==
    ASSUME NEW r, NEW o, NEW g \in Seq(Value), o.count = Len(g),
           \A i \in 1..Len(g) : IsLive(o, i) /\ At(o)[i] = g[i],
           NEW n, Storage(Reserve(Freed(r), Len(g)), <<>>, n),
           Len(g) <= Reserve(Freed(r), Len(g)).capacity
    PROVE  Sound(Assigned(r, o), g)
<1>1. PICK m \in Nat : m = Len(g)  OBVIOUS
<1>2. PICK z \in Seq(Value) : z = <<>> /\ Len(z) = 0
  <2>1. <<>> \in Seq(Value) /\ Len(<<>>) = 0  OBVIOUS
  <2>2. QED  BY Zenon, <2>1
<1>3. PICK s : s = Reserve(Freed(r), m)  BY Zenon
<1>4. Storage(s, z, n) /\ m <= s.capacity  BY Zenon, <1>1, <1>2, <1>3
<1>5. PICK idx : idx = 1..m  BY Zenon
<1>6. PICK f : f = [i \in idx |-> IF IsLive(o, i) THEN At(o)[i] ELSE Default]  BY Zenon
<1>7. PICK t : t = Construct(s, idx, f)  BY Zenon
<1>8. Storage(t, g, n)
  <2>1. (Len(z) + 1)..Len(g) = idx /\ Len(z) <= Len(g)  BY <1>1, <1>2, <1>5
  <2>2. \A i \in 1..Len(z) : g[i] = z[i]  BY <1>2
  <2>3. \A i \in (Len(z) + 1)..Len(g) : f[i] = g[i]  BY Zenon, <1>1, <1>5, <1>6, <2>1
  <2>4. Len(g) <= s.capacity  BY Zenon, <1>1, <1>4
  <2>5. Storage(Construct(s, (Len(z) + 1)..Len(g), f), g, n)
    BY Zenon, <1>4, <2>1, <2>2, <2>3, <2>4, ConstructFacts
  <2>6. QED  BY Zenon, <1>7, <2>1, <2>5
<1>9. (t.ok /\ \A i \in idx : IsLive(o, i)) = Fine
  BY Zenon, <1>1, <1>5, <1>8, StorageFields DEF Fine
<1>10. Assigned(r, o) = [[t EXCEPT !.count = m] EXCEPT !.ok = Fine]
  BY Zenon, <1>1, <1>3, <1>5, <1>6, <1>7, <1>9 DEF Assigned
<1>11. PICK q : q = [t EXCEPT !.count = m]  BY Zenon
<1>12. Storage(q, g, m)  BY Zenon, <1>8, <1>11, FieldsSet
<1>13. Assigned(r, o) = q  BY Zenon, <1>10, <1>11, <1>12, FieldsSet
<1>14. QED  BY ZenonT(30), <1>1, <1>12, <1>13 DEF Sound

\* Whether the elements of a vector in its buffer fit there, or it has none to
\* be moved, free() and reserve() leave storage.
LEMMA BufferReserved ==
    ASSUME NEW r, NEW e, Sound(r, e), r.elements = "buffer", NEW m \in Nat,
           Len(e) = 0 \/ m <= r.capacity
    PROVE  LET s == Reserve(Freed(r), m)
           IN  Storage(s, <<>>, Len(e)) /\ m <= s.capacity
<1>1. PICK k \in Nat : k = Len(e) /\ r.capacity = BaseCapacity  BY StorageFields DEF Sound
<1>2. BaseCapacity \in Nat \ {0}  BY Zenon, VectorAssumption
<1>3. PICK z \in Seq(Value) : z = <<>> /\ Len(z) = 0
  <2>1. <<>> \in Seq(Value) /\ Len(<<>>) = 0  OBVIOUS
  <2>2. QED  BY Zenon, <2>1
<1>4. PICK fr : fr = Freed(r)  BY Zenon
<1>5. fr = InBuffer(z, k)
  <2>1. fr = Members(k, BaseCapacity, "buffer", Filled(<<>>, BaseCapacity), <<>>, Fine)
    BY Zenon, <1>1, <1>4, FreedFacts
  <2>2. QED  BY Zenon, <1>3, <2>1 DEF InBuffer
<1>6. Storage(fr, z, k)  BY <1>2, <1>3, <1>5 DEF Storage
<1>7. PICK s : s = Reserve(fr, m)  BY Zenon
<1>8. CASE k = 0
  <2>1. Sound(fr, z)  BY Zenon, <1>3, <1>6, <1>8 DEF Sound
  <2>2. Sound(s, z) /\ m <= s.capacity  BY Zenon, <1>7, <2>1, ReserveFacts
  <2>3. QED  BY Zenon, <1>1, <1>3, <1>4, <1>7, <1>8, <2>2 DEF Sound
<1>9. CASE m <= BaseCapacity
  <2>1. fr.capacity = BaseCapacity  BY Zenon, <1>5 DEF InBuffer, Members
  <2>2. ~(m > BaseCapacity)  BY <1>2, <1>9
  <2>3. s = fr  BY Zenon, <1>7, <2>1, <2>2 DEF Reserve
  <2>4. QED  BY Zenon, <1>1, <1>3, <1>4, <1>6, <1>7, <1>9, <2>1, <2>3
<1>10. QED  BY Zenon, <1>1, <1>8, <1>9

\* The destructor leaves what a new vector finds.
LEMMA DeletedFacts ==
    ASSUME NEW r, NEW e, Sound(r, e)
    PROVE  [Freed(r) EXCEPT !.count = 0, !.capacity = BaseCapacity, !.elements = "buffer"]
             = InBuffer(<<>>, 0)
<1>1. PICK n, c, p, b : /\ n = Len(e) /\ c = r.capacity /\ b = Filled(<<>>, BaseCapacity)
                        /\ p = IF r.elements = "buffer" THEN "buffer" ELSE "null"
  BY ZenonT(30)
<1>2. PICK s : s = Freed(r)  BY Zenon
<1>3. s = Members(n, c, p, b, <<>>, Fine)  BY Zenon, <1>1, <1>2, FreedFacts
<1>4. [s EXCEPT !.count = 0, !.capacity = BaseCapacity, !.elements = "buffer"]
         = [[[s EXCEPT !.count = 0] EXCEPT !.capacity = BaseCapacity] EXCEPT !.elements = "buffer"]
  BY ZenonT(30)
<1>5. [s EXCEPT !.count = 0] = Members(0, c, p, b, <<>>, Fine)  BY <1>3 DEF Members
<1>6. [Members(0, c, p, b, <<>>, Fine) EXCEPT !.capacity = BaseCapacity]
         = Members(0, BaseCapacity, p, b, <<>>, Fine)
  BY DEF Members
<1>7. [Members(0, BaseCapacity, p, b, <<>>, Fine) EXCEPT !.elements = "buffer"]
         = Members(0, BaseCapacity, "buffer", b, <<>>, Fine)
  BY DEF Members
<1>8. QED  BY Zenon, <1>1, <1>2, <1>4, <1>5, <1>6, <1>7 DEF InBuffer

\* Writing where there is no storage has no effect besides that on ok.
LEMMA NullFacts ==
    ASSUME NEW n, NEW c, NEW b, NEW k, NEW idx, NEW f,
           NEW r, r = Members(n, c, "null", b, <<>>, k)
    PROVE  /\ \E j : Construct(r, idx, f) = Members(n, c, "null", b, <<>>, j)
           /\ \E j : Destroy(r, idx) = Members(n, c, "null", b, <<>>, j)
<1>1. r.elements = "null"  BY Zenon DEF Members
<1>2. \A g : Write(r, idx, g) = r  BY <1>1 DEF Write
<1>3. \A j : [r EXCEPT !.ok = j] = Members(n, c, "null", b, <<>>, j)  BY DEF Members
<1>4. PICK j : j = (r.ok /\ \A i \in idx : IsRaw(r, i))  BY Zenon
<1>5. Construct(r, idx, f) = [r EXCEPT !.ok = j]  BY Zenon, <1>2, <1>4 DEF Construct
<1>6. PICK g : g = [i \in idx |-> Raw]  BY Zenon
<1>7. PICK l : l = (r.ok /\ \A i \in idx : IsLive(r, i))  BY Zenon
<1>8. Destroy(r, idx) = [r EXCEPT !.ok = l]  BY Zenon, <1>2, <1>6, <1>7 DEF Destroy
<1>9. QED  BY Zenon, <1>3, <1>5, <1>8

\* free() of a vector without elements and storage.
LEMMA NullFreed ==
    ASSUME NEW c \in Nat \ {0}
    PROVE  Freed(NoStorage(c)) = NoStorage(c)
<1>1. PICK r : r = NoStorage(c)  BY Zenon
<1>2. /\ r.count = 0 /\ r.capacity = c /\ r.elements = "null" /\ r.heap = <<>>
      /\ r.buffer = Filled(<<>>, BaseCapacity) /\ r.ok = Fine
  BY Zenon, <1>1 DEF NoStorage, Members
<1>3. PICK idx : idx = 1..0 /\ idx = {}
  <2>1. 1..0 = {}  OBVIOUS
  <2>2. QED  BY Zenon, <2>1
<1>4. Write(r, idx, [i \in idx |-> Raw]) = r  BY <1>2 DEF Write
<1>5. (r.ok /\ \A i \in idx : IsLive(r, i)) = Fine  BY Zenon, <1>2, <1>3 DEF Fine
<1>6. Destroy(r, idx) = [r EXCEPT !.ok = Fine]  BY Zenon, <1>4, <1>5 DEF Destroy
<1>7. [r EXCEPT !.ok = Fine] = r  BY <1>1 DEF NoStorage, Members
<1>8. QED  BY Zenon, <1>1, <1>2, <1>3, <1>6, <1>7 DEF Freed

\* reserve() gives such a vector storage, if it sees the need.
LEMMA NullReserved ==
    ASSUME NEW c \in Nat \ {0}, NEW n \in Nat
    PROVE  LET s == Reserve(NoStorage(c), n)
           IN  /\ n <= c => s = NoStorage(c)
               /\ n > c => Sound(s, <<>>) /\ n <= s.capacity
<1>1. PICK r : r = NoStorage(c)  BY Zenon
<1>2. /\ r.count = 0 /\ r.capacity = c /\ r.elements = "null" /\ r.heap = <<>>
      /\ r.buffer = Filled(<<>>, BaseCapacity) /\ r.ok = Fine
  BY Zenon, <1>1 DEF NoStorage, Members
<1>3. PICK s : s = Reserve(r, n)  BY Zenon
<1>4. n <= c => s = r
  <2>1. n <= c => ~(n > c)  OBVIOUS
  <2>2. QED  BY Zenon, <1>2, <1>3, <2>1 DEF Reserve
<1>5. ASSUME n > c  PROVE Sound(s, <<>>) /\ n <= s.capacity
  <2>1. PICK m \in Nat \ {0} : m = Max({n * 2, MinCapacity}) /\ n <= m
    BY <1>5, Larger
  <2>2. PICK new : new = [i \in 1..m |-> IF i > r.count THEN Raw
                                         ELSE IF IsLive(r, i) THEN At(r)[i] ELSE Default]
    BY Zenon
  <2>3. new = Filled(<<>>, m)
    <3>1. \A i \in 1..m : i > 0 /\ ~(i <= Len(<<>>))  OBVIOUS
    <3>2. QED  BY Zenon, <1>2, <2>2, <3>1 DEF Filled
  <2>4. Freed(r) = r  BY Zenon, <1>1, NullFreed
  <2>5. (r.ok /\ \A i \in 1..r.count : IsLive(r, i)) = Fine
    <3>1. 1..0 = {}  OBVIOUS
    <3>2. QED  BY Zenon, <1>2, <3>1 DEF Fine
  <2>6. s = MovedTo(r, m, new, Fine)
    <3>1. ~(r.elements = "null" /\ r.count > 0)  BY <1>2
    <3>2. s = Grown(r, n)  BY Zenon, <1>2, <1>3, <1>5 DEF Reserve
    <3>3. PICK k : k = (r.ok /\ \A i \in 1..r.count : IsLive(r, i))  BY Zenon
    <3>4. s = MovedTo(r, m, new, k)
      BY Zenon, <2>1, <2>2, <2>4, <3>1, <3>2, <3>3 DEF Grown, MovedTo
    <3>5. QED  BY Zenon, <2>5, <3>3, <3>4
  <2>7. s = Members(0, m, "heap", Filled(<<>>, BaseCapacity), new, Fine)
    BY <1>1, <2>6, FieldsMoved DEF NoStorage
  <2>8. s = OnHeap(<<>>, m, 0) /\ s.capacity = m  BY Zenon, <2>3, <2>7 DEF OnHeap, Members
  <2>9. <<>> \in Seq(Value) /\ Len(<<>>) = 0 /\ Len(<<>>) <= m  OBVIOUS
  <2>10. QED  BY Zenon, <2>1, <2>8, <2>9 DEF Sound, Storage
<1>6. QED  BY Zenon, <1>1, <1>3, <1>4, <1>5

\* push_back() and resize() on such a vector: there is storage, or the fields
\* of a vector that has crashed.
LEMMA NullPushed ==
    ASSUME NEW c \in Nat \ {0}, NEW x
    PROVE  LET r == Pushed(NoStorage(c), x) IN r.elements = "null" /\ r.count = 1
<1>1. 0 + 1 = 1 /\ 1 \in Nat /\ 1 <= c  OBVIOUS
<1>2. PICK s : s = NoStorage(c)  BY Zenon
<1>3. s.count = 0  BY Zenon, <1>2 DEF NoStorage, Members
<1>4. Reserve(s, s.count + 1) = s  BY Zenon, <1>1, <1>2, <1>3, NullReserved
<1>a. PICK f : f = [i \in {s.count + 1} |-> x]  BY Zenon
<1>5. PICK t : t = Construct(s, {s.count + 1}, f)  BY Zenon
<1>6. Pushed(s, x) = [t EXCEPT !.count = @ + 1]  BY Zenon, <1>4, <1>5, <1>a DEF Pushed
<1>7. PICK j : t = Members(0, c, "null", Filled(<<>>, BaseCapacity), <<>>, j)
  BY <1>2, <1>5, NullFacts DEF NoStorage
<1>8. t.count = 0 /\ t.elements = "null"  BY Zenon, <1>7 DEF Members
<1>9. Pushed(s, x) = Members(1, c, "null", Filled(<<>>, BaseCapacity), <<>>, j)
  <2>1. Pushed(s, x) = [t EXCEPT !.count = 1]  BY Zenon, <1>1, <1>6, <1>8
  <2>2. QED  BY <1>7, <2>1 DEF Members
<1>10. QED  BY <1>2, <1>9 DEF Members

LEMMA NullResized ==
    ASSUME NEW c \in Nat \ {0}, NEW n \in Nat, n <= c
    PROVE  LET r == Resized(NoStorage(c), n)
           IN  r.elements = "null" /\ r.count = n /\ (n = 0 => Okay(r) = NoStorage(c))
<1>1. PICK s : s = NoStorage(c)  BY Zenon
<1>2. Reserve(s, n) = s  BY Zenon, <1>1, NullReserved
<1>3. PICK add : add = (s.count + 1)..n  BY Zenon
<1>a. PICK f : f = [i \in add |-> Default]  BY Zenon
<1>4. PICK t : t = Construct(s, add, f)  BY Zenon
<1>5. PICK u : u = Destroy(t, (n + 1)..t.count)  BY Zenon
<1>6. Resized(s, n) = [u EXCEPT !.count = n]  BY Zenon, <1>2, <1>3, <1>4, <1>5, <1>a DEF Resized
<1>7. PICK j : t = Members(0, c, "null", Filled(<<>>, BaseCapacity), <<>>, j)
  BY <1>1, <1>4, NullFacts DEF NoStorage
<1>8. PICK k : u = Members(0, c, "null", Filled(<<>>, BaseCapacity), <<>>, k)
  BY <1>5, <1>7, NullFacts
<1>9. Resized(s, n) = Members(n, c, "null", Filled(<<>>, BaseCapacity), <<>>, k)
  BY <1>6, <1>8 DEF Members
<1>10. n = 0 => Okay(Resized(s, n)) = NoStorage(c)
  BY <1>9 DEF Okay, NoStorage, Members
<1>11. QED  BY <1>1, <1>9, <1>10 DEF Members

\* operator= when free() has left no storage, and reserve() makes none.
LEMMA NullAssigned ==
    ASSUME NEW r, NEW o, NEW n, NEW c, NEW b, NEW k,
           Reserve(Freed(r), o.count) = Members(n, c, "null", b, <<>>, k)
    PROVE  \E j : Assigned(r, o) = Members(o.count, c, "null", b, <<>>, j)
<1>1. PICK idx : idx = 1..o.count  BY Zenon
<1>2. PICK f : f = [i \in idx |-> IF IsLive(o, i) THEN At(o)[i] ELSE Default]  BY Zenon
<1>3. PICK s : s = Members(n, c, "null", b, <<>>, k)  BY Zenon
<1>4. PICK t : t = Construct(s, idx, f)  BY Zenon
<1>5. PICK i : t = Members(n, c, "null", b, <<>>, i)  BY <1>3, <1>4, NullFacts
<1>6. PICK j : j = (t.ok /\ \A l \in idx : IsLive(o, l))  BY Zenon
<1>7. Assigned(r, o) = [t EXCEPT !.count = o.count, !.ok = j]
  BY Zenon, <1>1, <1>2, <1>3, <1>4, <1>6 DEF Assigned
<1>8. Assigned(r, o) = Members(o.count, c, "null", b, <<>>, j)  BY Zenon, <1>5, <1>7 DEF Members
<1>9. QED  BY Zenon, <1>8

\* operator= moves elements that it has destroyed to an allocation, destroys
\* them again, and constructs the new elements over them: the vector then holds
\* what it should.
LEMMA BufferAssigned ==
    ASSUME NEW r, NEW e, Sound(r, e), r.elements = "buffer",
           NEW o, NEW g \in Seq(Value), o.count = Len(g), Len(g) > r.capacity,
           \A i \in 1..Len(g) : IsLive(o, i) /\ At(o)[i] = g[i]
    PROVE  Sound(Okay(Assigned(r, o)), g)
<1>1. PICK k \in Nat : k = Len(e) /\ r.capacity = BaseCapacity /\ k <= BaseCapacity
  BY StorageFields DEF Sound
<1>2. BaseCapacity \in Nat \ {0}  BY Zenon, VectorAssumption
<1>3. PICK m \in Nat \ {0} : m = Len(g) /\ m > BaseCapacity /\ k < m  BY <1>1, <1>2
<1>4. PICK b : b = Filled(<<>>, BaseCapacity)  BY Zenon
<1>5. Len(b) = BaseCapacity /\ \A i \in 1..BaseCapacity : b[i] = Raw
  <2>1. <<>> \in Seq(Value) /\ \A i \in 1..BaseCapacity : ~(i <= Len(<<>>))  OBVIOUS
  <2>2. Len(b) = BaseCapacity  BY <1>2, <1>4, <2>1, FilledFacts
  <2>3. \A i \in 1..BaseCapacity : b[i] = Raw  BY Zenon, <1>4, <2>1 DEF Filled
  <2>4. QED  BY Zenon, <2>2, <2>3
<1>6. PICK fr : fr = Freed(r)  BY Zenon
<1>7. fr = Members(k, BaseCapacity, "buffer", b, <<>>, Fine)
  BY Zenon, <1>1, <1>4, <1>6, FreedFacts
<1>8. /\ fr.count = k /\ fr.capacity = BaseCapacity /\ fr.elements = "buffer"
      /\ fr.buffer = b /\ fr.heap = <<>> /\ At(fr) = b
  <2>1. /\ fr.count = k /\ fr.capacity = BaseCapacity /\ fr.elements = "buffer"
        /\ fr.buffer = b /\ fr.heap = <<>>
    BY Zenon, <1>7 DEF Members
  <2>2. QED  BY Zenon, <2>1 DEF At
<1>9. PICK j1 : Freed(fr) = Members(k, BaseCapacity, "buffer", b, <<>>, j1)
  <2>1. PICK idx : idx = 1..k  BY Zenon
  <2>2. PICK f : f = [i \in idx |-> Raw]  BY Zenon
  <2>3. PICK new : new = [i \in 1..Len(At(fr)) |-> IF i \in idx THEN f[i] ELSE At(fr)[i]]
    BY Zenon
  <2>4. new = b
    <3>1. \A i \in 1..BaseCapacity : (IF i \in idx THEN f[i] ELSE b[i]) = Raw
      BY Zenon, <1>5, <2>2
    <3>2. \A i \in 1..BaseCapacity : ~(i <= Len(<<>>))  OBVIOUS
    <3>3. new = [i \in 1..BaseCapacity |-> Raw]  BY Zenon, <1>5, <1>8, <2>3, <3>1
    <3>4. b = [i \in 1..BaseCapacity |-> Raw]  BY Zenon, <1>4, <3>2 DEF Filled
    <3>5. QED  BY Zenon, <3>3, <3>4
  <2>5. Write(fr, idx, f) = [fr EXCEPT !.buffer = new]  BY Zenon, <1>8, <2>3 DEF Write
  <2>6. Write(fr, idx, f) = fr  BY <1>7, <2>4, <2>5 DEF Members
  <2>7. PICK j : j = (fr.ok /\ \A i \in idx : IsLive(fr, i))  BY Zenon
  <2>8. Destroy(fr, idx) = [fr EXCEPT !.ok = j]  BY Zenon, <2>2, <2>6, <2>7 DEF Destroy
  <2>9. Destroy(fr, idx) = Members(k, BaseCapacity, "buffer", b, <<>>, j)
    BY <1>7, <2>8 DEF Members
  <2>10. QED  BY Zenon, <1>8, <2>1, <2>9 DEF Freed
<1>10. PICK c \in Nat \ {0} : c = Max({m * 2, MinCapacity}) /\ m <= c  BY Zenon, Larger
<1>11. PICK new : new = [i \in 1..c |-> IF i > fr.count THEN Raw
                                        ELSE IF IsLive(fr, i) THEN At(fr)[i] ELSE Default]
  BY Zenon
<1>12. DOMAIN new = 1..c /\ (\A i \in 1..c : i > k => new[i] = Raw) /\ Len(new) = c
  <2>1. DOMAIN new = 1..c /\ (\A i \in 1..c : i > k => new[i] = Raw)  BY Zenon, <1>8, <1>11
  <2>2. new = [i \in 1..c |-> new[i]]  BY Zenon, <1>11
  <2>3. Len(new) = c  BY <2>1, <2>2
  <2>4. QED  BY Zenon, <2>1, <2>3
<1>13. PICK s : s = Reserve(fr, m)  BY Zenon
<1>14. PICK j2 : s = Members(k, c, "heap", b, new, j2)
  <2>1. PICK fr2 : fr2 = Freed(fr)  BY Zenon
  <2>2. PICK j : j = (fr2.ok /\ \A i \in 1..fr.count : IsLive(fr, i))  BY Zenon
  <2>3. ~(fr.elements = "null" /\ fr.count > 0)  BY <1>8
  <2>4. Grown(fr, m) = MovedTo(fr2, c, new, j)
    BY Zenon, <1>10, <1>11, <2>1, <2>2, <2>3 DEF Grown, MovedTo
  <2>5. s = Grown(fr, m)  BY Zenon, <1>3, <1>8, <1>13 DEF Reserve
  <2>6. s = Members(k, c, "heap", b, new, j)  BY <1>9, <2>1, <2>4, <2>5, FieldsMoved
  <2>7. QED  BY Zenon, <2>6
<1>15. s.elements = "heap" /\ At(s) = new
  <2>1. s.elements = "heap" /\ s.heap = new  BY Zenon, <1>14 DEF Members
  <2>2. QED  BY <2>1 DEF At
<1>16. PICK idx : idx = 1..m  BY Zenon
<1>17. PICK f : f = [i \in idx |-> IF IsLive(o, i) THEN At(o)[i] ELSE Default]  BY Zenon
<1>18. PICK new2 : new2 = [i \in 1..Len(At(s)) |-> IF i \in idx THEN f[i] ELSE At(s)[i]]
  BY Zenon
<1>19. new2 = Filled(g, c)
  <2>1. ASSUME NEW i \in 1..c
        PROVE  (IF i \in idx THEN f[i] ELSE new[i]) = (IF i <= Len(g) THEN g[i] ELSE Raw)
    <3>1. CASE i <= m
      <4>1. i \in idx /\ i \in 1..Len(g)  BY <1>3, <1>16, <3>1
      <4>2. QED  BY Zenon, <1>3, <1>17, <3>1, <4>1
    <3>2. CASE i > m
      <4>1. i \notin idx /\ ~(i <= Len(g)) /\ i > k  BY <1>3, <1>16, <3>2
      <4>2. QED  BY Zenon, <1>12, <4>1
    <3>3. QED  BY <3>1, <3>2
  <2>2. QED  BY Zenon, <1>12, <1>15, <1>18, <2>1 DEF Filled
<1>20. PICK t : t = Construct(s, idx, f)  BY Zenon
<1>21. PICK j3 : t = Members(k, c, "heap", b, new2, j3)
  <2>1. Write(s, idx, f) = [s EXCEPT !.heap = new2]  BY <1>15, <1>18 DEF Write
  <2>2. PICK w : w = Write(s, idx, f)  BY Zenon
  <2>3. w = Members(k, c, "heap", b, new2, j2)  BY <1>14, <2>1, <2>2 DEF Members
  <2>4. PICK j : j = (w.ok /\ \A i \in idx : IsRaw(s, i))  BY Zenon
  <2>5. t = [w EXCEPT !.ok = j]  BY Zenon, <1>20, <2>2, <2>4 DEF Construct
  <2>6. t = Members(k, c, "heap", b, new2, j)  BY <2>3, <2>5 DEF Members
  <2>7. QED  BY Zenon, <2>6
<1>22. PICK j4 : j4 = (t.ok /\ \A i \in idx : IsLive(o, i))  BY Zenon
<1>23. Assigned(r, o) = [[t EXCEPT !.count = m] EXCEPT !.ok = j4]
  BY Zenon, <1>3, <1>6, <1>13, <1>16, <1>17, <1>20, <1>22 DEF Assigned
<1>24. Assigned(r, o) = Members(m, c, "heap", b, new2, j4)
  <2>1. [t EXCEPT !.count = m] = Members(m, c, "heap", b, new2, j3)  BY <1>21 DEF Members
  <2>2. [Members(m, c, "heap", b, new2, j3) EXCEPT !.ok = j4] = Members(m, c, "heap", b, new2, j4)
    BY DEF Members
  <2>3. QED  BY Zenon, <1>23, <2>1, <2>2
<1>25. Okay(Assigned(r, o)) = OnHeap(g, c, m)
  <2>1. Okay(Assigned(r, o)) = Members(m, c, "heap", b, new2, Fine)
    BY <1>24 DEF Okay, Members
  <2>2. QED  BY Zenon, <1>4, <1>19, <2>1 DEF OnHeap
<1>26. QED  BY Zenon, <1>3, <1>10, <1>25 DEF Sound, Storage

\* A vector has storage for its elements, or has none of either.
Held(r, e) == Sound(r, e) \/ Empty(r, e)

\* The fields of a vector that has none of either.
LEMMA EmptyFields ==
    ASSUME NEW r, NEW e, Empty(r, e)
    PROVE  r.count = 0 /\ r.elements = "null" /\ e \in Seq(Value) /\ Len(e) = 0
<1>1. PICK c : r = NoStorage(c)  BY Zenon DEF Empty
<1>2. r.count = 0 /\ r.elements = "null"  BY Zenon, <1>1 DEF NoStorage, Members
<1>3. e \in Seq(Value) /\ Len(e) = 0  BY DEF Empty
<1>4. QED  BY Zenon, <1>2, <1>3

\* free() of a vector that is not in its buffer leaves no storage.
LEMMA FreedNull ==
    ASSUME NEW r, NEW e, Held(r, e), r.elements # "buffer"
    PROVE  \E c \in Nat \ {0} :
             c = r.capacity /\ Freed(r) = Members(Len(e), c, "null", Filled(<<>>, BaseCapacity), <<>>, Fine)
<1>1. CASE Sound(r, e)
  <2>1. PICK c \in Nat \ {0} : c = r.capacity  BY Zenon, <1>1, StorageFields DEF Sound
  <2>2. Freed(r) = Members(Len(e), c, "null", Filled(<<>>, BaseCapacity), <<>>, Fine)
    BY Zenon, <1>1, <2>1, FreedFacts
  <2>3. QED  BY Zenon, <2>1, <2>2
<1>2. CASE Empty(r, e)
  <2>1. PICK c \in Nat \ {0} : r = NoStorage(c)  BY Zenon, <1>2 DEF Empty
  <2>2. c = r.capacity  BY Zenon, <2>1 DEF NoStorage, Members
  <2>3. Freed(r) = NoStorage(c)  BY Zenon, <2>1, NullFreed
  <2>4. Len(e) = 0  BY Zenon, <1>2, EmptyFields
  <2>5. QED  BY Zenon, <2>2, <2>3, <2>4 DEF NoStorage
<1>3. QED  BY Zenon, <1>1, <1>2 DEF Held

\* operator= leaves such a vector without storage, if it has elements or counts
\* on room for those it gets.
LEMMA HeapAssigned ==
    ASSUME NEW r, NEW e, Held(r, e), r.elements # "buffer",
           NEW o, o.count \in Nat, Len(e) # 0 \/ ~(o.count > r.capacity)
    PROVE  /\ Assigned(r, o).elements = "null"
           /\ Assigned(r, o).count = o.count
           /\ o.count = 0 => \E c \in Nat \ {0} : Okay(Assigned(r, o)) = NoStorage(c)
<1>1. PICK k \in Nat : k = Len(e)
  <2>1. e \in Seq(Value)
    <3>1. Sound(r, e) => e \in Seq(Value)  BY Zenon, StorageFields DEF Sound
    <3>2. Empty(r, e) => e \in Seq(Value)  BY Zenon, EmptyFields
    <3>3. QED  BY Zenon, <3>1, <3>2 DEF Held
  <2>2. Len(e) \in Nat  BY <2>1
  <2>3. QED  BY Zenon, <2>2
<1>2. PICK b : b = Filled(<<>>, BaseCapacity)  BY Zenon
<1>3. PICK c \in Nat \ {0} : c = r.capacity /\ Freed(r) = Members(k, c, "null", b, <<>>, Fine)
  BY Zenon, <1>1, <1>2, FreedNull
<1>4. PICK fr : fr = Freed(r)  BY Zenon
<1>5. fr = Members(k, c, "null", b, <<>>, Fine)  BY Zenon, <1>3, <1>4
<1>6. fr.elements = "null" /\ fr.count = k /\ fr.capacity = c  BY Zenon, <1>5 DEF Members
<1>7. PICK j1 : Reserve(fr, o.count) = Members(k, c, "null", b, <<>>, j1)
  <2>1. CASE o.count > c
    <3>1. fr.elements = "null" /\ fr.count > 0  BY <1>1, <1>3, <1>6, <2>1
    <3>2. Reserve(fr, o.count) = [fr EXCEPT !.ok = FALSE]
      BY Zenon, <1>6, <2>1, <3>1 DEF Reserve, Grown
    <3>3. Reserve(fr, o.count) = Members(k, c, "null", b, <<>>, FALSE)
      BY <1>5, <3>2 DEF Members
    <3>4. QED  BY Zenon, <3>3
  <2>2. CASE ~(o.count > c)
    <3>1. Reserve(fr, o.count) = fr  BY Zenon, <1>6, <2>2 DEF Reserve
    <3>2. QED  BY Zenon, <1>5, <3>1
  <2>3. QED  BY Zenon, <2>1, <2>2
<1>8. PICK j : Assigned(r, o) = Members(o.count, c, "null", b, <<>>, j)
  BY Zenon, <1>4, <1>7, NullAssigned
<1>9. o.count = 0 => Okay(Assigned(r, o)) = NoStorage(c)
  BY <1>2, <1>8 DEF Okay, NoStorage, Members
<1>10. Assigned(r, o).elements = "null" /\ Assigned(r, o).count = o.count
  BY <1>8 DEF Members
<1>11. QED  BY Zenon, <1>9, <1>10

\* reserve(m) of operator= finds, after free() of a vector with the elements e,
\* what it counts on.
Suits(r, e, m) == IF m > r.capacity THEN Len(e) = 0 ELSE r.elements = "buffer"

\* What operator= makes of a vector: it holds the elements it was given; or it
\* does, and on the way one was used that is not alive; or it has no storage.
LEMMA AssignedFacts ==
    ASSUME NEW r, NEW e, Held(r, e),
           NEW o, NEW g \in Seq(Value), o.count = Len(g),
           \A i \in 1..Len(g) : IsLive(o, i) /\ At(o)[i] = g[i]
    PROVE  /\ Suits(r, e, Len(g)) => Sound(Assigned(r, o), g)
           /\ ~Suits(r, e, Len(g)) /\ r.elements = "buffer" => Sound(Okay(Assigned(r, o)), g)
           /\ ~Suits(r, e, Len(g)) /\ r.elements # "buffer" =>
                /\ Assigned(r, o).elements = "null" /\ Assigned(r, o).count = Len(g)
                /\ Len(g) = 0 => Empty(Okay(Assigned(r, o)), g)
<1>1. PICK m \in Nat : m = Len(g)  OBVIOUS
<1>a. PICK fine : fine = Suits(r, e, Len(g))  BY Zenon
<1>b. fine = IF Len(g) > r.capacity THEN Len(e) = 0 ELSE r.elements = "buffer"
  BY Zenon, <1>a DEF Suits
<1>2. CASE r.elements = "buffer"
  <2>1. Sound(r, e)
    <3>1. Empty(r, e) => r.elements = "null"  BY Zenon, EmptyFields
    <3>2. "buffer" # "null"  OBVIOUS
    <3>3. QED  BY Zenon, <1>2, <3>1, <3>2 DEF Held
  <2>2. CASE fine
    <3>1. Len(e) = 0 \/ m <= r.capacity
      <4>1. r.capacity \in Nat  BY <2>1, StorageFields DEF Sound
      <4>2. CASE Len(g) > r.capacity  BY Zenon, <1>b, <2>2, <4>2
      <4>3. CASE ~(Len(g) > r.capacity)  BY <1>1, <4>1, <4>3
      <4>4. QED  BY Zenon, <4>2, <4>3
    <3>2. PICK s : s = Reserve(Freed(r), m)  BY Zenon
    <3>3. Storage(s, <<>>, Len(e)) /\ m <= s.capacity  BY Zenon, <1>2, <2>1, <3>1, <3>2, BufferReserved
    <3>4. Sound(Assigned(r, o), g)  BY Zenon, <1>1, <3>2, <3>3, AssignedFrom
    <3>5. QED  BY Zenon, <1>2, <1>a, <2>2, <3>4
  <2>3. CASE ~fine
    <3>1. Len(g) > r.capacity  BY Zenon, <1>2, <1>b, <2>3
    <3>2. QED  BY Zenon, <1>2, <1>a, <2>1, <2>3, <3>1, BufferAssigned
  <2>4. QED  BY Zenon, <2>2, <2>3
<1>3. CASE r.elements # "buffer"
  <2>1. CASE fine
    <3>1. Len(e) = 0 /\ Len(g) > r.capacity  BY Zenon, <1>3, <1>b, <2>1
    <3>2. PICK c \in Nat \ {0} : c = r.capacity /\ Freed(r) = NoStorage(c)
      BY Zenon, <1>3, <3>1, FreedNull DEF NoStorage
    <3>3. PICK s : s = Reserve(Freed(r), m)  BY Zenon
    <3>4. Sound(s, <<>>) /\ m <= s.capacity  BY Zenon, <1>1, <3>1, <3>2, <3>3, NullReserved
    <3>5. Sound(Assigned(r, o), g)  BY Zenon, <1>1, <3>3, <3>4, AssignedFrom DEF Sound
    <3>6. QED  BY Zenon, <1>3, <1>a, <2>1, <3>5
  <2>2. CASE ~fine
    <3>1. Len(e) # 0 \/ ~(o.count > r.capacity)  BY Zenon, <1>3, <1>b, <2>2
    <3>2. o.count \in Nat  BY Zenon, <1>1
    <3>3. Len(g) = 0 => g = <<>>  OBVIOUS
    <3>4. QED  BY Zenon, <1>3, <1>a, <2>2, <3>1, <3>2, <3>3, HeapAssigned DEF Empty
  <2>3. QED  BY Zenon, <2>1, <2>2
<1>4. QED  BY Zenon, <1>2, <1>3

-----------------------------------------------------------------------------
\* A sound vector has made no forbidden access, and has storage.
LEMMA SoundOkay ==
    ASSUME NEW r, NEW e, Sound(r, e)
    PROVE  Okay(r) = r /\ r.ok /\ r.elements # "null"
<1>1. Okay(r) = r  BY Zenon, FieldsSet DEF Sound, Okay
<1>2. r.ok /\ (r.elements = "buffer" \/ r.elements = "heap")  BY Zenon, StorageFields DEF Sound
<1>3. r.elements # "null"  BY <1>2
<1>4. QED  BY Zenon, <1>1, <1>2, <1>3

\* The fields of a vector after a step are those it computed.
LEMMA UpdateFacts ==
    ASSUME NEW new, Update(new), NEW v \in Vec, v \in DOMAIN new, NEW e, Held(Okay(new[v]), e)
    PROVE  Fields(v)' = Okay(new[v])
<1>1. PICK r : r = new[v]  BY Zenon
<1>2. PICK x : x = Okay(r)  BY Zenon
<1>3. /\ count'[v] = r.count /\ capacity'[v] = r.capacity /\ elements'[v] = r.elements
      /\ store'[v].buffer = r.buffer /\ store'[v].heap = r.heap
  BY Zenon, <1>1 DEF Update
<1>4. Fields(v)' = Members(r.count, r.capacity, r.elements, r.buffer, r.heap, Fine)
  BY Zenon, <1>3 DEF Fields, Members, Fine
<1>5. /\ x = Members(x.count, x.capacity, x.elements, x.buffer, x.heap, Fine)
      /\ DOMAIN x = {"count", "capacity", "elements", "buffer", "heap", "ok"}
  <2>1. PICK n, c, p, b, h : x = Members(n, c, p, b, h, Fine)
    <3>1. Sound(x, e) => \E n, c, p, b, h : x = Members(n, c, p, b, h, Fine)
      BY Zenon DEF Sound, Storage, InBuffer, OnHeap
    <3>2. Empty(x, e) => \E n, c, p, b, h : x = Members(n, c, p, b, h, Fine)
      BY Zenon DEF Empty, NoStorage
    <3>3. QED  BY Zenon, <1>1, <1>2, <3>1, <3>2 DEF Held
  <2>2. x = Members(x.count, x.capacity, x.elements, x.buffer, x.heap, Fine)
    BY Zenon, <2>1 DEF Members
  <2>3. DOMAIN x = {"count", "capacity", "elements", "buffer", "heap", "ok"}
    BY <2>1 DEF Members
  <2>4. QED  BY Zenon, <2>2, <2>3
<1>6. /\ x.count = r.count /\ x.capacity = r.capacity /\ x.elements = r.elements
      /\ x.buffer = r.buffer /\ x.heap = r.heap
  <2>1. x = [i \in DOMAIN r |-> IF i = "ok" THEN Fine ELSE r[i]]  BY Zenon, <1>2 DEF Okay
  <2>2. DOMAIN r = {"count", "capacity", "elements", "buffer", "heap", "ok"}  BY Zenon, <1>5, <2>1
  <2>3. \A i \in {"count", "capacity", "elements", "buffer", "heap"} : x[i] = r[i]
    <3>1. \A i \in {"count", "capacity", "elements", "buffer", "heap"} : i \in DOMAIN r /\ i # "ok"
      BY <2>2
    <3>2. QED  BY Zenon, <2>1, <3>1
  <2>4. QED  BY Zenon, <2>3
<1>7. QED  BY Zenon, <1>1, <1>2, <1>4, <1>5, <1>6

\* A step that leaves the vectors it changes with what std::vector would hold
\* preserves the invariant.
LEMMA UpdateKeeps ==
    ASSUME VectorInv, ~Crashed, NEW new, Update(new),
           NEW ex \in [Vec -> Seq(Value)], expected' = ex, misuse \subseteq misuse',
           misuse' = {} => \A v \in DOMAIN new : new[v].ok,
           \A v \in DOMAIN new :
              /\ v \in Vec
              /\ Sound(Okay(new[v]), ex[v]) \/ ("heap" \in misuse' /\ Empty(Okay(new[v]), ex[v]))
              /\ v \notin alive' => Okay(new[v]) = InBuffer(<<>>, 0) /\ ex[v] = <<>>,
           \A v \in Vec \ DOMAIN new : ex[v] = expected[v] /\ (v \in alive => v \in alive')
    PROVE  VectorInv'
<1>1. misuse' = {} => sound'
  <2>1. misuse' = {} => misuse = {}  BY Zenon
  <2>2. QED  BY Zenon, <2>1 DEF VectorInv, Update
<1>2. ASSUME NEW v \in Vec
      PROVE  Fields(v)' = IF v \in DOMAIN new THEN Okay(new[v]) ELSE Fields(v)
  <2>1. CASE v \in DOMAIN new
    <3>1. Held(Okay(new[v]), ex[v])  BY Zenon, <2>1 DEF Held
    <3>2. QED  BY Zenon, <2>1, <3>1, UpdateFacts
  <2>2. CASE v \notin DOMAIN new
    <3>1. PICK r : r = Fields(v)  BY Zenon
    <3>2. /\ count'[v] = r.count /\ capacity'[v] = r.capacity /\ elements'[v] = r.elements
          /\ store'[v].buffer = r.buffer /\ store'[v].heap = r.heap
      BY Zenon, <2>2, <3>1 DEF Update
    <3>3. Fields(v)' = Members(r.count, r.capacity, r.elements, r.buffer, r.heap, TRUE)
      BY Zenon, <3>2 DEF Fields, Members
    <3>4. r = Members(r.count, r.capacity, r.elements, r.buffer, r.heap, TRUE)
      BY Zenon, <3>1 DEF Fields, Members
    <3>5. QED  BY Zenon, <2>2, <3>1, <3>3, <3>4
  <2>3. QED  BY Zenon, <2>1, <2>2
<1>3. ASSUME NEW v \in Vec
      PROVE  /\ Sound(Fields(v)', ex[v]) \/ ("heap" \in misuse' /\ Empty(Fields(v)', ex[v]))
             /\ v \notin alive' => Fields(v)' = InBuffer(<<>>, 0) /\ ex[v] = <<>>
  <2>1. CASE v \in DOMAIN new  BY Zenon, <1>2, <2>1
  <2>2. CASE v \notin DOMAIN new  BY Zenon, <1>2, <2>2 DEF VectorInv
  <2>3. QED  BY Zenon, <2>1, <2>2
<1>4. ~Crashed'
  <2>1. ASSUME NEW v \in Vec  PROVE ~(elements'[v] = "null" /\ count'[v] > 0)
    <3>1. elements'[v] = Fields(v)'.elements /\ count'[v] = Fields(v)'.count  BY Zenon DEF Fields
    <3>2. CASE Sound(Fields(v)', ex[v])
      <4>1. PICK r : r = Fields(v)'  BY Zenon
      <4>2. r.elements # "null"  BY Zenon, <3>2, <4>1, SoundOkay
      <4>3. QED  BY Zenon, <3>1, <4>1, <4>2
    <3>3. CASE Empty(Fields(v)', ex[v])
      <4>1. Fields(v)'.count = 0  BY Zenon, <3>3, EmptyFields
      <4>2. ~(0 > 0)  OBVIOUS
      <4>3. QED  BY Zenon, <3>1, <4>1, <4>2
    <3>4. QED  BY Zenon, <1>3, <3>2, <3>3
  <2>2. QED  BY Zenon, <2>1 DEF Crashed
<1>5. QED  BY Zenon, <1>1, <1>3, <1>4 DEF VectorInv

\* A step with which the program crashes preserves the invariant, if operator=
\* has left a vector with an allocation without storage.
LEMMA CrashKeeps ==
    ASSUME NEW new, Update(new), NEW v \in Vec, v \in DOMAIN new,
           new[v].elements = "null", new[v].count > 0,
           expected' \in [Vec -> Seq(Value)], "heap" \in misuse'
    PROVE  VectorInv'
<1>1. elements'[v] = "null" /\ count'[v] > 0  BY Zenon DEF Update
<1>2. Crashed'  BY Zenon, <1>1 DEF Crashed
<1>3. QED  BY Zenon, <1>2 DEF VectorInv

\* The same for a step that changes one vector.
LEMMA OneKeeps ==
    ASSUME VectorInv, ~Crashed, NEW v \in Vec, NEW r, Update(One(v, r)), NEW e \in Seq(Value),
           Sound(Okay(r), e) \/ ("heap" \in misuse' /\ Empty(Okay(r), e)),
           expected' = [expected EXCEPT ![v] = e],
           misuse \subseteq misuse', misuse' = {} => r.ok,
           v \notin alive' => Okay(r) = InBuffer(<<>>, 0) /\ e = <<>>,
           \A u \in Vec \ {v} : u \in alive => u \in alive'
    PROVE  VectorInv'
<1>1. PICK new : new = One(v, r)  BY Zenon
<1>2. DOMAIN new = {v} /\ new[v] = r  BY Zenon, <1>1 DEF One
<1>4. PICK ex \in [Vec -> Seq(Value)] : ex = [expected EXCEPT ![v] = e]
  <2>1. [expected EXCEPT ![v] = e] \in [Vec -> Seq(Value)]  BY Zenon DEF VectorInv
  <2>2. QED  BY Zenon, <2>1
<1>5. ex[v] = e /\ \A u \in Vec \ {v} : ex[u] = expected[u]  BY Zenon, <1>4 DEF VectorInv
<1>6. \A u \in DOMAIN new :
         /\ u \in Vec
         /\ Sound(Okay(new[u]), ex[u]) \/ ("heap" \in misuse' /\ Empty(Okay(new[u]), ex[u]))
         /\ u \notin alive' => Okay(new[u]) = InBuffer(<<>>, 0) /\ ex[u] = <<>>
  BY Zenon, <1>2, <1>5
<1>7. \A u \in Vec \ DOMAIN new : ex[u] = expected[u] /\ (u \in alive => u \in alive')
  BY Zenon, <1>2, <1>5
<1>8. Update(new) /\ expected' = ex /\ (misuse' = {} => \A u \in DOMAIN new : new[u].ok)
  BY Zenon, <1>1, <1>2, <1>4
<1>9. QED  BY Zenon, <1>4, <1>6, <1>7, <1>8, UpdateKeeps

\* The same for one that is sound then, and a call that is handled well.
LEMMA SoundKeeps ==
    ASSUME VectorInv, ~Crashed, NEW v \in Vec, NEW r, Update(One(v, r)), NEW e, Sound(r, e),
           expected' = [expected EXCEPT ![v] = e], misuse' = misuse,
           v \notin alive' => r = InBuffer(<<>>, 0) /\ e = <<>>,
           \A u \in Vec \ {v} : u \in alive => u \in alive'
    PROVE  VectorInv'
<1>1. e \in Seq(Value)  BY Zenon, StorageFields DEF Sound
<1>2. Okay(r) = r /\ r.ok  BY Zenon, SoundOkay
<1>3. misuse \subseteq misuse'  BY Zenon
<1>4. Sound(Okay(r), e) \/ ("heap" \in misuse' /\ Empty(Okay(r), e))  BY Zenon, <1>2
<1>5. misuse' = {} => r.ok  BY Zenon, <1>2
<1>6. v \notin alive' => Okay(r) = InBuffer(<<>>, 0) /\ e = <<>>  BY Zenon, <1>2
<1>7. QED  BY ZenonT(30), <1>1, <1>3, <1>4, <1>5, <1>6, OneKeeps

\* What a constructed vector is.
LEMMA FreshFacts == Fresh = InBuffer(<<>>, 0) /\ Sound(Fresh, <<>>)
<1>1. BaseCapacity \in Nat \ {0}  BY Zenon, VectorAssumption
<1>2. Slots(BaseCapacity) = Filled(<<>>, BaseCapacity)  BY <1>1 DEF Slots, Filled
<1>3. Fresh = InBuffer(<<>>, 0)  BY Zenon, <1>2 DEF Fresh, InBuffer, Members, Fine
<1>4. <<>> \in Seq(Value) /\ Len(<<>>) = 0  OBVIOUS
<1>5. QED  BY <1>1, <1>3, <1>4 DEF Sound, Storage

\* Initially no vector is constructed.
LEMMA VectorInitial == VectorInit => VectorInv
<1> SUFFICES ASSUME VectorInit  PROVE VectorInv  BY Zenon
<1>1. ASSUME NEW v \in Vec  PROVE Fields(v) = Fresh
  <2>1. /\ count[v] = 0 /\ capacity[v] = BaseCapacity /\ elements[v] = "buffer"
        /\ store[v].buffer = Slots(BaseCapacity) /\ store[v].heap = <<>>
    BY Zenon DEF VectorInit
  <2>2. QED  BY Zenon, <2>1 DEF Fields, Fresh
<1>2. expected \in [Vec -> Seq(Value)] /\ \A v \in Vec : expected[v] = <<>>  BY DEF VectorInit
<1>3. ~Crashed  BY DEF VectorInit, Crashed
<1>4. ASSUME NEW v \in Vec
      PROVE  Sound(Fields(v), expected[v]) /\ Fields(v) = InBuffer(<<>>, 0) /\ expected[v] = <<>>
  BY Zenon, <1>1, <1>2, FreshFacts
<1>5. misuse = {} => sound  BY Zenon DEF VectorInit
<1>6. Crashed => "heap" \in misuse  BY Zenon, <1>3
<1>7. ~Crashed => \A v \in Vec :
         /\ Sound(Fields(v), expected[v]) \/ ("heap" \in misuse /\ Empty(Fields(v), expected[v]))
         /\ v \notin alive => Fields(v) = InBuffer(<<>>, 0) /\ expected[v] = <<>>
  BY Zenon, <1>4
<1>8. QED  BY Zenon, <1>2, <1>5, <1>6, <1>7 DEF VectorInv

\* What is expected changes for one vector.
LEMMA ExpectedSet ==
    ASSUME VectorInv, NEW v, NEW e \in Seq(Value), NEW ex, ex = [expected EXCEPT ![v] = e]
    PROVE  ex \in [Vec -> Seq(Value)]
BY Zenon DEF VectorInv

\* The constructor.
LEMMA NewKeeps == ASSUME VectorInv, ~Crashed, NEW v \in Vec, New(v)  PROVE VectorInv'
<1>1. v \in alive' /\ \A u \in Vec \ {v} : u \in alive => u \in alive'  BY Zenon DEF New
<1>2. Sound(Fresh, <<>>)  BY Zenon, FreshFacts
<1>3. Update(One(v, Fresh)) /\ misuse' = misuse /\ expected' = [expected EXCEPT ![v] = <<>>]
  BY Zenon DEF New
<1>4. QED  BY ZenonT(30), <1>1, <1>2, <1>3, SoundKeeps

\* push_back() of a value of the caller.
LEMMA PushBackKeeps ==
    ASSUME VectorInv, ~Crashed, NEW v \in Vec, NEW x \in Value, PushBack(v, x)  PROVE VectorInv'
<1>1. PICK e \in Seq(Value) : e = expected[v]  BY Zenon DEF VectorInv
<1>2. PICK r : r = Pushed(Fields(v), x)  BY Zenon
<1>3. expected' = [expected EXCEPT ![v] = Append(e, x)]  BY Zenon, <1>1 DEF PushBack
<1>4. Update(One(v, r)) /\ v \in alive' /\ alive' = alive /\ misuse' = misuse
  BY Zenon, <1>2 DEF PushBack
<1>5. CASE Sound(Fields(v), e)
  <2>1. Sound(r, Append(e, x))  BY Zenon, <1>2, <1>5, PushedFacts
  <2>2. QED  BY ZenonT(30), <1>3, <1>4, <2>1, SoundKeeps
<1>6. CASE "heap" \in misuse /\ Empty(Fields(v), e)
  <2>1. PICK c \in Nat \ {0} : Fields(v) = NoStorage(c)  BY Zenon, <1>6 DEF Empty
  <2>2. r.elements = "null" /\ r.count = 1  BY Zenon, <1>2, <2>1, NullPushed
  <2>3. r.count > 0  BY <2>2
  <2>4. PICK new : new = One(v, r)  BY Zenon
  <2>5. DOMAIN new = {v} /\ new[v] = r  BY Zenon, <2>4 DEF One
  <2>6. expected' \in [Vec -> Seq(Value)]
    <3>1. Append(e, x) \in Seq(Value)  OBVIOUS
    <3>2. QED  BY Zenon, <1>3, <3>1, ExpectedSet
  <2>7. QED  BY Zenon, <1>4, <1>6, <2>2, <2>3, <2>4, <2>5, <2>6, CrashKeeps
<1>7. QED  BY Zenon, <1>1, <1>5, <1>6 DEF VectorInv

\* push_back() of an element of the vector itself.
LEMMA PushBackOwnKeeps ==
    ASSUME VectorInv, ~Crashed, NEW v \in Vec, NEW i \in 1..MaxSize, PushBackOwn(v, i)
    PROVE  VectorInv'
<1>1. PICK e \in Seq(Value) : e = expected[v]  BY Zenon DEF VectorInv
<1>2. PICK q : q = Fields(v)  BY Zenon
<1>3. q.count = count[v]  BY Zenon, <1>2 DEF Fields
<1>4. Sound(q, e)
  <2>1. i <= count[v]  BY Zenon DEF PushBackOwn
  <2>2. count[v] # 0  BY <2>1
  <2>3. ~Empty(q, e)  BY Zenon, <1>3, <2>2, EmptyFields
  <2>4. QED  BY Zenon, <1>1, <1>2, <2>3 DEF VectorInv
<1>5. /\ q.count = Len(e) /\ q.capacity \in Nat /\ Len(e) <= q.capacity
      /\ At(q) = Filled(e, q.capacity)
  BY Zenon, <1>4, StorageFields DEF Sound
<1>6. i \in 1..Len(e)  BY <1>3, <1>5 DEF PushBackOwn
<1>7. At(q)[i] = e[i]  BY <1>5, <1>6, SlotsAre
<1>8. PICK grows : grows = (count[v] = capacity[v])  BY Zenon
<1>9. PICK x \in Value :
        /\ ~grows => x = At(q)[i]
        /\ Update(One(v, [Pushed(q, x) EXCEPT !.ok = @ /\ ~grows]))
        /\ expected' = [expected EXCEPT ![v] = Append(@, IF grows THEN x ELSE @[i])]
  BY Zenon, <1>2, <1>8 DEF PushBackOwn
<1>10. PICK r : r = Pushed(q, x)  BY Zenon
<1>11. Sound(r, Append(e, x))  BY Zenon, <1>4, <1>10, PushedFacts
<1>12. expected' = [expected EXCEPT ![v] = Append(e, x)]
  <2>1. (IF grows THEN x ELSE e[i]) = x  BY Zenon, <1>7, <1>9
  <2>2. expected' = [expected EXCEPT ![v] = Append(e, IF grows THEN x ELSE e[i])]
    BY Zenon, <1>1, <1>9
  <2>3. QED  BY Zenon, <2>1, <2>2
<1>13. PICK k : k = (r.ok /\ ~grows)  BY Zenon
<1>14. PICK s : s = [r EXCEPT !.ok = k]  BY Zenon
<1>15. Update(One(v, s))  BY Zenon, <1>9, <1>10, <1>13, <1>14
<1>16. Okay(s) = r /\ s.ok = k
  <2>1. Okay(r) = r  BY Zenon, <1>11, SoundOkay
  <2>2. PICK n, c, p, b, h : r = Members(n, c, p, b, h, Fine)
    BY Zenon, <1>11 DEF Sound, Storage, InBuffer, OnHeap
  <2>3. s = Members(n, c, p, b, h, k)  BY <1>14, <2>2 DEF Members
  <2>4. [s EXCEPT !.ok = Fine] = Members(n, c, p, b, h, Fine)  BY <2>3 DEF Members
  <2>5. s.ok = k  BY Zenon, <2>3 DEF Members
  <2>6. QED  BY Zenon, <2>2, <2>4, <2>5 DEF Okay
<1>17. misuse \subseteq misuse' /\ (misuse' = {} => s.ok)
  <2>1. misuse' = misuse \cup (IF grows THEN {"own"} ELSE {})  BY Zenon, <1>8 DEF PushBackOwn
  <2>2. misuse' = {} => ~grows  BY Zenon, <2>1
  <2>3. r.ok  BY Zenon, <1>11, SoundOkay
  <2>4. misuse \subseteq misuse'  BY Zenon, <2>1
  <2>5. QED  BY Zenon, <1>13, <1>16, <2>2, <2>3, <2>4
<1>18. v \in alive' /\ \A u \in Vec \ {v} : u \in alive => u \in alive'  BY Zenon DEF PushBackOwn
<1>19. Append(e, x) \in Seq(Value)  OBVIOUS
<1>20. Sound(Okay(s), Append(e, x)) \/ ("heap" \in misuse' /\ Empty(Okay(s), Append(e, x)))
  BY Zenon, <1>11, <1>16
<1>21. v \notin alive' => Okay(s) = InBuffer(<<>>, 0) /\ Append(e, x) = <<>>  BY Zenon, <1>18
<1>22. misuse \subseteq misuse'  BY Zenon, <1>17
<1>23. misuse' = {} => s.ok  BY Zenon, <1>17
<1>24. QED
  BY ZenonT(30), <1>12, <1>15, <1>18, <1>19, <1>20, <1>21, <1>22, <1>23, OneKeeps

\* pop_back().
LEMMA PopBackKeeps == ASSUME VectorInv, ~Crashed, NEW v \in Vec, PopBack(v)  PROVE VectorInv'
<1>1. PICK e : e = expected[v]  BY Zenon
<1>2. Fields(v).count = count[v]  BY Zenon DEF Fields
<1>a. Sound(Fields(v), e)
  <2>1. count[v] > 0  BY Zenon DEF PopBack
  <2>2. count[v] # 0  BY <2>1
  <2>3. ~Empty(Fields(v), e)  BY Zenon, <1>2, <2>2, EmptyFields
  <2>4. QED  BY Zenon, <1>1, <2>3 DEF VectorInv
<1>3. e \in Seq(Value) /\ count[v] = Len(e)  BY Zenon, <1>a, <1>2, StorageFields DEF Sound
<1>4. PICK n \in Nat : n + 1 = Len(e) /\ n = Len(e) - 1
  <2>1. Len(e) \in Nat /\ Len(e) > 0  BY <1>3 DEF PopBack
  <2>2. Len(e) - 1 \in Nat /\ (Len(e) - 1) + 1 = Len(e)  BY <2>1
  <2>3. QED  BY Zenon, <2>2
<1>5. PICK r : r = [Destroy(Fields(v), {n + 1}) EXCEPT !.count = @ - 1]  BY Zenon
<1>6. Sound(r, SubSeq(e, 1, n))  BY Zenon, <1>a, <1>4, <1>5, PoppedFacts
<1>7. Update(One(v, r))  BY Zenon, <1>3, <1>4, <1>5 DEF PopBack
<1>8. expected' = [expected EXCEPT ![v] = SubSeq(e, 1, n)]  BY Zenon, <1>1, <1>4 DEF PopBack
<1>9. v \in alive' /\ alive' = alive /\ misuse' = misuse  BY Zenon DEF PopBack
<1>10. QED  BY ZenonT(30), <1>6, <1>7, <1>8, <1>9, SoundKeeps

\* resize().
LEMMA ResizeKeeps ==
    ASSUME VectorInv, ~Crashed, NEW v \in Vec, NEW n \in Nat, Resize(v, n)  PROVE VectorInv'
<1>1. PICK e \in Seq(Value) : e = expected[v]  BY Zenon DEF VectorInv
<1>2. PICK q : q = Fields(v)  BY Zenon
<1>3. PICK r : r = Resized(q, n)  BY Zenon
<1>4. expected' = [expected EXCEPT ![v] = Cut(e, n)]  BY Zenon, <1>1 DEF Resize, Cut
<1>5. Update(One(v, r)) /\ v \in alive' /\ alive' = alive /\ misuse' = misuse
  BY Zenon, <1>2, <1>3 DEF Resize
<1>6. ASSUME Sound(Reserve(q, n), e), n <= Reserve(q, n).capacity  PROVE VectorInv'
  <2>1. Sound(r, Cut(e, n))  BY Zenon, <1>3, <1>6, ResizedFacts
  <2>2. QED  BY ZenonT(30), <1>4, <1>5, <2>1, SoundKeeps
<1>7. CASE Sound(q, e)  BY Zenon, <1>6, <1>7, ReserveFacts
<1>8. CASE "heap" \in misuse /\ Empty(q, e)
  <2>1. PICK c \in Nat \ {0} : q = NoStorage(c)  BY Zenon, <1>8 DEF Empty
  <2>2. CASE n > c  BY Zenon, <1>6, <1>8, <2>1, <2>2, NullReserved DEF Empty
  <2>3. CASE n <= c
    <3>1. r.elements = "null" /\ r.count = n /\ (n = 0 => Okay(r) = NoStorage(c))
      BY Zenon, <1>3, <2>1, <2>3, NullResized
    <3>2. Cut(e, n) \in Seq(Value) /\ Len(Cut(e, n)) = n  BY Zenon, CutFacts
    <3>3. CASE n = 0
      <4>1. Cut(e, n) = <<>>  BY <3>2, <3>3
      <4>2. Empty(Okay(r), Cut(e, n))  BY Zenon, <3>1, <3>3, <4>1 DEF Empty
      <4>3. "heap" \in misuse' /\ misuse \subseteq misuse' /\ misuse' # {}  BY Zenon, <1>5, <1>8
      <4>4. QED  BY ZenonT(30), <1>4, <1>5, <3>2, <4>2, <4>3, OneKeeps
    <3>4. CASE n # 0
      <4>1. r.count > 0  BY <3>1, <3>4
      <4>2. PICK new : new = One(v, r)  BY Zenon
      <4>3. DOMAIN new = {v} /\ new[v] = r  BY Zenon, <4>2 DEF One
      <4>4. expected' \in [Vec -> Seq(Value)]  BY Zenon, <1>4, <3>2, ExpectedSet
      <4>5. QED  BY Zenon, <1>5, <1>8, <3>1, <4>1, <4>2, <4>3, <4>4, CrashKeeps
    <3>5. QED  BY Zenon, <3>3, <3>4
  <2>4. QED  BY <2>2, <2>3
<1>9. QED  BY Zenon, <1>1, <1>2, <1>7, <1>8 DEF VectorInv

\* reserve().
LEMMA ReserveOnlyKeeps ==
    ASSUME VectorInv, ~Crashed, NEW v \in Vec, NEW n \in Nat, ReserveOnly(v, n)  PROVE VectorInv'
<1>1. PICK e \in Seq(Value) : e = expected[v]  BY Zenon DEF VectorInv
<1>2. PICK q : q = Fields(v)  BY Zenon
<1>3. PICK r : r = Reserve(q, n)  BY Zenon
<1>4. expected' = [expected EXCEPT ![v] = e]  BY Zenon, <1>1 DEF ReserveOnly, VectorInv
<1>5. Update(One(v, r)) /\ v \in alive' /\ alive' = alive /\ misuse' = misuse
  BY Zenon, <1>2, <1>3 DEF ReserveOnly
<1>6. ASSUME Sound(r, e)  PROVE VectorInv'  BY ZenonT(30), <1>4, <1>5, <1>6, SoundKeeps
<1>7. CASE Sound(q, e)  BY Zenon, <1>3, <1>6, <1>7, ReserveFacts
<1>8. CASE "heap" \in misuse /\ Empty(q, e)
  <2>1. PICK c \in Nat \ {0} : q = NoStorage(c)  BY Zenon, <1>8 DEF Empty
  <2>2. CASE n > c  BY Zenon, <1>3, <1>6, <1>8, <2>1, <2>2, NullReserved DEF Empty
  <2>3. CASE n <= c
    <3>1. r = NoStorage(c)  BY Zenon, <1>3, <2>1, <2>3, NullReserved
    <3>2. Okay(r) = NoStorage(c)  BY <3>1 DEF Okay, NoStorage, Members
    <3>3. Empty(Okay(r), e)  BY Zenon, <1>8, <3>2 DEF Empty
    <3>4. "heap" \in misuse' /\ misuse \subseteq misuse' /\ misuse' # {}  BY Zenon, <1>5, <1>8
    <3>5. QED  BY ZenonT(30), <1>4, <1>5, <3>3, <3>4, OneKeeps
  <2>4. QED  BY <2>2, <2>3
<1>9. QED  BY Zenon, <1>1, <1>2, <1>7, <1>8 DEF VectorInv

\* The destructor.
LEMMA DeleteKeeps == ASSUME VectorInv, ~Crashed, NEW v \in Vec, Delete(v)  PROVE VectorInv'
<1>1. PICK e : e = expected[v]  BY Zenon
<1>2. PICK r : r = InBuffer(<<>>, 0)  BY Zenon
<1>3. Update(One(v, r))
  <2>1. Update(One(v, [Freed(Fields(v)) EXCEPT !.count = 0, !.capacity = BaseCapacity,
                                               !.elements = "buffer"]))
    BY Zenon DEF Delete
  <2>2. [Freed(Fields(v)) EXCEPT !.count = 0, !.capacity = BaseCapacity, !.elements = "buffer"] = r
    <3>1. CASE Sound(Fields(v), e)  BY Zenon, <1>2, <3>1, DeletedFacts
    <3>2. CASE Empty(Fields(v), e)
      <4>1. PICK c \in Nat \ {0} : Fields(v) = NoStorage(c)  BY Zenon, <3>2 DEF Empty
      <4>2. PICK s : s = Freed(Fields(v))  BY Zenon
      <4>3. PICK b : b = Filled(<<>>, BaseCapacity)  BY Zenon
      <4>4. s = Members(0, c, "null", b, <<>>, Fine)
        BY Zenon, <4>1, <4>2, <4>3, NullFreed DEF NoStorage
      <4>5. [s EXCEPT !.count = 0] = Members(0, c, "null", b, <<>>, Fine)  BY <4>4 DEF Members
      <4>6. [Members(0, c, "null", b, <<>>, Fine) EXCEPT !.capacity = BaseCapacity]
            = Members(0, BaseCapacity, "null", b, <<>>, Fine)
        BY DEF Members
      <4>7. [Members(0, BaseCapacity, "null", b, <<>>, Fine) EXCEPT !.elements = "buffer"]
            = Members(0, BaseCapacity, "buffer", b, <<>>, Fine)
        BY DEF Members
      <4>8. QED  BY Zenon, <1>2, <4>2, <4>3, <4>5, <4>6, <4>7 DEF InBuffer
    <3>3. QED  BY Zenon, <1>1, <3>1, <3>2 DEF VectorInv
  <2>3. QED  BY Zenon, <2>1, <2>2
<1>4. Sound(r, <<>>)  BY Zenon, <1>2, FreshFacts
<1>5. misuse' = misuse /\ \A u \in Vec \ {v} : u \in alive => u \in alive'  BY Zenon DEF Delete
<1>6. expected' = [expected EXCEPT ![v] = <<>>]  BY Zenon DEF Delete
<1>7. QED  BY ZenonT(30), <1>2, <1>3, <1>4, <1>5, <1>6, SoundKeeps

\* The elements of a vector, as another one copies them.
LEMMA HeldFacts ==
    ASSUME NEW r, NEW e, Held(r, e)
    PROVE  /\ e \in Seq(Value) /\ r.count = Len(e)
           /\ \A i \in 1..Len(e) : IsLive(r, i) /\ At(r)[i] = e[i]
<1>1. CASE Sound(r, e)
  <2>1. /\ e \in Seq(Value) /\ r.count = Len(e) /\ r.capacity \in Nat /\ Len(e) <= r.capacity
        /\ At(r) = Filled(e, r.capacity)
    BY Zenon, <1>1, StorageFields DEF Sound
  <2>2. \A i \in 1..Len(e) : IsLive(r, i) /\ At(r)[i] = e[i]  BY <2>1, SlotsAre
  <2>3. QED  BY Zenon, <2>1, <2>2
<1>2. CASE Empty(r, e)
  <2>1. e \in Seq(Value) /\ r.count = 0 /\ Len(e) = 0  BY Zenon, <1>2, EmptyFields
  <2>2. 1..0 = {}  OBVIOUS
  <2>3. QED  BY Zenon, <2>1, <2>2
<1>3. QED  BY Zenon, <1>1, <1>2 DEF Held

\* The moving assignment empties the other vector.
LEMMA MovedFrom ==
    ASSUME NEW o, NEW g \in Seq(Value)
    PROVE  /\ Sound(o, g) => Sound(Resized(o, 0), <<>>)
           /\ Empty(o, g) => Empty(Okay(Resized(o, 0)), <<>>) /\ Empty(Okay(o), g)
<1>1. ASSUME Sound(o, g)  PROVE Sound(Resized(o, 0), <<>>)
  <2>1. 0 \in Nat  OBVIOUS
  <2>2. Sound(Resized(o, 0), Cut(g, 0))  BY Zenon, <1>1, <2>1, ReserveFacts, ResizedFacts
  <2>3. Cut(g, 0) \in Seq(Value) /\ Len(Cut(g, 0)) = 0  BY Zenon, <2>1, CutFacts
  <2>4. Cut(g, 0) = <<>>  BY <2>3
  <2>5. QED  BY Zenon, <2>2, <2>4
<1>2. ASSUME Empty(o, g)  PROVE Empty(Okay(Resized(o, 0)), <<>>) /\ Empty(Okay(o), g)
  <2>1. PICK c \in Nat \ {0} : o = NoStorage(c)  BY Zenon, <1>2 DEF Empty
  <2>2. 0 \in Nat /\ 0 <= c  OBVIOUS
  <2>3. Okay(Resized(o, 0)) = NoStorage(c)  BY Zenon, <2>1, <2>2, NullResized
  <2>4. Okay(o) = NoStorage(c)  BY <2>1 DEF Okay, NoStorage, Members
  <2>5. QED  BY Zenon, <1>2, <2>1, <2>3, <2>4 DEF Empty
<1>3. QED  BY Zenon, <1>1, <1>2

\* The copying and moving constructors and assignments.
LEMMA AssignKeeps ==
    ASSUME VectorInv, ~Crashed, NEW v \in Vec, NEW w \in Vec, NEW move \in BOOLEAN,
           Assign(v, w, move)
    PROVE  VectorInv'
<1>1. PICK g \in Seq(Value) : g = expected[w]  BY Zenon DEF VectorInv
<1>2. PICK o : o = Fields(w)  BY Zenon
<1>3. Sound(o, g) \/ ("heap" \in misuse /\ Empty(o, g))  BY Zenon, <1>1, <1>2 DEF VectorInv
<1>4. o.count = Len(g) /\ \A i \in 1..Len(g) : IsLive(o, i) /\ At(o)[i] = g[i]
  BY Zenon, <1>3, HeldFacts DEF Held
<1>5. o.count = count[w]  BY Zenon, <1>2 DEF Fields
<1>6. PICK q : q = IF v \in alive THEN Fields(v) ELSE Fresh  BY Zenon
<1>7. PICK e : e = IF v \in alive THEN expected[v] ELSE <<>>  BY Zenon
<1>8. Held(q, e)
  <2>1. CASE v \in alive  BY Zenon, <1>6, <1>7, <2>1 DEF VectorInv, Held
  <2>2. CASE v \notin alive  BY Zenon, <1>6, <1>7, <2>2, FreshFacts DEF Held
  <2>3. QED  BY Zenon, <2>1, <2>2
<1>9. PICK fine : fine = Suits(q, e, Len(g))  BY Zenon
<1>10. PICK r : r = Assigned(q, o)  BY Zenon
<1>11. /\ fine => Sound(r, g)
       /\ ~fine /\ q.elements = "buffer" => Sound(Okay(r), g)
       /\ ~fine /\ q.elements # "buffer" => /\ r.elements = "null" /\ r.count = Len(g)
                                            /\ Len(g) = 0 => Empty(Okay(r), g)
  BY Zenon, <1>4, <1>8, <1>9, <1>10, AssignedFacts
<1>12. /\ misuse \subseteq misuse'
       /\ ~fine /\ q.elements = "buffer" => "buffer" \in misuse'
       /\ ~fine /\ q.elements # "buffer" => "heap" \in misuse'
  <2>1. misuse' = misuse \cup (IF v \in alive THEN Misassigned(v, w) ELSE {})  BY Zenon DEF Assign
  <2>2. CASE v \in alive
    <3>1. q.elements = elements[v] /\ q.count = count[v] /\ q.capacity = capacity[v]
      BY Zenon, <1>6, <2>2 DEF Fields
    <3>2. q.count = Len(e)  BY Zenon, <1>8, HeldFacts
    <3>3. fine = IF count[w] > capacity[v] THEN count[v] = 0 ELSE elements[v] = "buffer"
      BY Zenon, <1>4, <1>5, <1>9, <3>1, <3>2 DEF Suits
    <3>4. /\ ~fine /\ elements[v] = "buffer" => "buffer" \in Misassigned(v, w)
          /\ ~fine /\ elements[v] # "buffer" => "heap" \in Misassigned(v, w)
      BY Zenon, <3>3 DEF Misassigned
    <3>5. QED  BY Zenon, <2>1, <2>2, <3>1, <3>4
  <2>3. CASE v \notin alive
    <3>1. q.elements = "buffer" /\ Len(e) = 0
      <4>1. Len(<<>>) = 0  OBVIOUS
      <4>2. QED  BY Zenon, <1>6, <1>7, <2>3, <4>1 DEF Fresh
    <3>2. fine  BY Zenon, <1>9, <3>1 DEF Suits
    <3>3. QED  BY Zenon, <2>1, <3>2
  <2>4. QED  BY Zenon, <2>2, <2>3
<1>13. PICK rest : rest = IF move THEN Resized(o, 0) ELSE o  BY Zenon
<1>14. PICK h \in Seq(Value) : h = (IF move THEN <<>> ELSE g)
  <2>1. (IF move THEN <<>> ELSE g) \in Seq(Value)  OBVIOUS
  <2>2. QED  BY Zenon, <2>1
<1>15. Sound(rest, h) \/ ("heap" \in misuse /\ Empty(Okay(rest), h))
  <2>1. CASE move  BY Zenon, <1>3, <1>13, <1>14, <2>1, MovedFrom
  <2>2. CASE ~move  BY Zenon, <1>3, <1>13, <1>14, <2>2, MovedFrom
  <2>3. QED  BY Zenon, <2>1, <2>2
<1>16. PICK new : new = [u \in {v, w} |-> IF u = v THEN r ELSE rest]  BY Zenon
<1>17. Update(new)
  <2>1. Update([u \in {v, w} |-> IF u = v THEN Assigned(q, o)
                                 ELSE IF move THEN Resized(o, 0) ELSE o])
    BY Zenon, <1>2, <1>6 DEF Assign
  <2>2. QED  BY Zenon, <1>10, <1>13, <1>16, <2>1
<1>18. PICK ex \in [Vec -> Seq(Value)] : ex = [[expected EXCEPT ![v] = g] EXCEPT ![w] = h]
  <2>1. [[expected EXCEPT ![v] = g] EXCEPT ![w] = h] \in [Vec -> Seq(Value)]
    BY Zenon, <1>14 DEF VectorInv
  <2>2. QED  BY Zenon, <2>1
<1>19. v # w  BY Zenon DEF Assign
<1>20. expected' = ex
  <2>1. expected' = [[expected EXCEPT ![v] = g]
                       EXCEPT ![w] = IF move THEN <<>> ELSE [expected EXCEPT ![v] = g][w]]
    BY Zenon, <1>1 DEF Assign
  <2>2. [expected EXCEPT ![v] = g][w] = g  BY Zenon, <1>1, <1>19 DEF VectorInv
  <2>3. QED  BY Zenon, <1>14, <1>18, <2>1, <2>2
<1>21. /\ DOMAIN new = {v, w} /\ new[v] = r /\ new[w] = rest
       /\ ex[v] = g /\ ex[w] = h /\ \A u \in Vec \ {v, w} : ex[u] = expected[u]
  BY Zenon, <1>16, <1>18, <1>19 DEF VectorInv
<1>22. v \in alive' /\ w \in alive' /\ \A u \in Vec : u \in alive => u \in alive'  BY Zenon DEF Assign
<1>23. CASE ~fine /\ q.elements # "buffer" /\ Len(g) # 0
  <2>1. r.elements = "null" /\ r.count > 0
    <3>1. r.elements = "null" /\ r.count = Len(g)  BY Zenon, <1>11, <1>23
    <3>2. Len(g) > 0  BY <1>23
    <3>3. QED  BY Zenon, <3>1, <3>2
  <2>2. QED  BY ZenonT(30), <1>12, <1>17, <1>18, <1>20, <1>21, <1>23, <2>1, CrashKeeps
<1>24. CASE ~(~fine /\ q.elements # "buffer" /\ Len(g) # 0)
  <2>1. Sound(Okay(r), g) \/ ("heap" \in misuse' /\ Empty(Okay(r), g))
    <3>1. CASE fine
      <4>1. Sound(r, g) /\ Okay(r) = r  BY Zenon, <1>11, <3>1, SoundOkay
      <4>2. QED  BY Zenon, <4>1
    <3>2. CASE ~fine  BY Zenon, <1>11, <1>12, <1>24, <3>2
    <3>3. QED  BY Zenon, <3>1, <3>2
  <2>2. Sound(Okay(rest), h) \/ ("heap" \in misuse' /\ Empty(Okay(rest), h))
    <3>1. CASE Sound(rest, h)
      <4>1. Okay(rest) = rest  BY Zenon, <3>1, SoundOkay
      <4>2. QED  BY Zenon, <3>1, <4>1
    <3>2. CASE "heap" \in misuse /\ Empty(Okay(rest), h)  BY Zenon, <1>12, <3>2
    <3>3. QED  BY Zenon, <1>15, <3>1, <3>2
  <2>3. misuse' = {} => \A u \in DOMAIN new : new[u].ok
    <3>1. SUFFICES ASSUME misuse' = {}  PROVE \A u \in DOMAIN new : new[u].ok  BY Zenon
    <3>2. fine /\ "heap" \notin misuse  BY Zenon, <1>12, <3>1
    <3>3. r.ok /\ rest.ok
      <4>1. r.ok  BY Zenon, <1>11, <3>2, SoundOkay
      <4>2. rest.ok  BY Zenon, <1>15, <3>2, SoundOkay
      <4>3. QED  BY Zenon, <4>1, <4>2
    <3>4. QED  BY Zenon, <1>21, <3>3
  <2>4. \A u \in DOMAIN new :
           /\ u \in Vec
           /\ Sound(Okay(new[u]), ex[u]) \/ ("heap" \in misuse' /\ Empty(Okay(new[u]), ex[u]))
           /\ u \notin alive' => Okay(new[u]) = InBuffer(<<>>, 0) /\ ex[u] = <<>>
    BY Zenon, <1>21, <1>22, <2>1, <2>2
  <2>5. \A u \in Vec \ DOMAIN new : ex[u] = expected[u] /\ (u \in alive => u \in alive')
    BY Zenon, <1>21, <1>22
  <2>6. QED  BY ZenonT(30), <1>12, <1>17, <1>18, <1>20, <2>3, <2>4, <2>5, UpdateKeeps
<1>25. QED  BY Zenon, <1>23, <1>24

-----------------------------------------------------------------------------

\* The slots of a filled storage that hold objects are those of the elements.
LEMMA LiveFacts ==
    ASSUME NEW e \in Seq(Value), NEW n \in Nat, Len(e) <= n
    PROVE  Live(Filled(e, n)) = 1..Len(e)
<1>1. Len(Filled(e, n)) = n  BY Zenon, FilledFacts
<1>2. \A i \in 1..n : Filled(e, n)[i] # Raw <=> i <= Len(e)
  <2>1. ASSUME NEW i \in 1..n  PROVE Filled(e, n)[i] # Raw <=> i <= Len(e)
    <3>1. CASE i <= Len(e)  BY Zenon, <3>1, FilledFacts
    <3>2. CASE i > Len(e)  BY ZenonT(30), <3>2, FilledFacts
    <3>3. QED  BY <3>1, <3>2
  <2>2. QED  BY Zenon, <2>1
<1>3. Live(Filled(e, n)) = {i \in 1..n : i <= Len(e)}  BY Zenon, <1>1, <1>2 DEF Live
<1>4. QED  BY <1>3

\* The objects in the storage of a vector are its elements.
LEMMA HeldLive ==
    ASSUME NEW r, NEW e, Held(r, e)
    PROVE  /\ Live(r.buffer) = IF r.elements = "buffer" THEN 1..Len(e) ELSE {}
           /\ Live(r.heap) = IF r.elements = "heap" THEN 1..Len(e) ELSE {}
<1>1. BaseCapacity \in Nat \ {0}  BY Zenon, VectorAssumption
<1>2. PICK z \in Seq(Value) : z = <<>> /\ Len(z) = 0
  <2>1. <<>> \in Seq(Value) /\ Len(<<>>) = 0  OBVIOUS
  <2>2. QED  BY Zenon, <2>1
<1>3. Live(<<>>) = {}  BY DEF Live
<1>4. Live(Filled(<<>>, BaseCapacity)) = {}
  <2>1. BaseCapacity \in Nat /\ Len(z) <= BaseCapacity  BY <1>1, <1>2
  <2>2. Live(Filled(z, BaseCapacity)) = 1..Len(z)  BY Zenon, <2>1, LiveFacts
  <2>3. 1..Len(z) = {}  BY <1>2
  <2>4. QED  BY Zenon, <1>2, <2>2, <2>3
<1>5. "buffer" # "heap" /\ "null" # "buffer" /\ "null" # "heap"  OBVIOUS
<1>6. CASE Sound(r, e)
  <2>1. PICK c \in Nat : c = r.capacity /\ e \in Seq(Value) /\ Len(e) <= c
    BY Zenon, <1>6, StorageFields DEF Sound
  <2>2. Live(Filled(e, c)) = 1..Len(e)  BY Zenon, <2>1, LiveFacts
  <2>3. CASE r.elements = "buffer"
    <3>1. r = InBuffer(e, Len(e)) /\ r.heap = <<>> /\ r.capacity = BaseCapacity
      BY Zenon, <1>6, <2>3, StorageFields DEF Sound
    <3>2. r.buffer = Filled(e, c)  BY ZenonT(30), <2>1, <3>1 DEF InBuffer, Members
    <3>3. QED  BY Zenon, <1>3, <1>5, <2>2, <2>3, <3>1, <3>2
  <2>4. CASE r.elements # "buffer"
    <3>1. r.elements = "heap" /\ r = OnHeap(e, c, Len(e)) /\ r.heap = Filled(e, c)
      <4>1. Storage(r, e, Len(e))  BY Zenon, <1>6 DEF Sound
      <4>2. QED  BY Zenon, <2>1, <2>4, <4>1, StorageFields
    <3>2. r.buffer = Filled(<<>>, BaseCapacity)  BY <3>1 DEF OnHeap, Members
    <3>3. QED  BY Zenon, <1>4, <2>2, <2>4, <3>1, <3>2
  <2>5. QED  BY Zenon, <2>3, <2>4
<1>7. CASE Empty(r, e)
  <2>1. PICK c : r = NoStorage(c)  BY Zenon, <1>7 DEF Empty
  <2>2. r.elements = "null" /\ r.buffer = Filled(<<>>, BaseCapacity) /\ r.heap = <<>>
    BY Zenon, <2>1 DEF NoStorage, Members
  <2>3. QED  BY Zenon, <1>3, <1>4, <1>5, <2>2
<1>8. QED  BY Zenon, <1>6, <1>7 DEF Held

\* The invariant says what the model checker asks.
LEMMA VectorInvImplies == VectorInv => HoldsWhatItShould
<1> SUFFICES ASSUME VectorInv  PROVE HoldsWhatItShould  BY Zenon
<1>1. ASSUME NEW v \in Vec
      PROVE  /\ Fields(v).count = count[v] /\ Fields(v).elements = elements[v]
             /\ Fields(v).buffer = store[v].buffer /\ Fields(v).heap = store[v].heap
  BY Zenon DEF Fields
<1>2. ASSUME ~Crashed, NEW v \in Vec
      PROVE  /\ Live(store[v].buffer) = IF elements[v] = "buffer" THEN 1..count[v] ELSE {}
             /\ Live(store[v].heap) = IF elements[v] = "heap" THEN 1..count[v] ELSE {}
             /\ v \notin alive => store[v].heap = <<>>
             /\ count[v] = Len(expected[v])
             /\ \A i \in 1..count[v] : At(Fields(v))[i] = expected[v][i]
  <2>1. PICK r : r = Fields(v)  BY Zenon
  <2>2. PICK e : e = expected[v]  BY Zenon
  <2>3. Held(r, e)  BY Zenon, <1>2, <2>1, <2>2 DEF VectorInv, Held
  <2>4. /\ Live(r.buffer) = IF r.elements = "buffer" THEN 1..Len(e) ELSE {}
        /\ Live(r.heap) = IF r.elements = "heap" THEN 1..Len(e) ELSE {}
    BY Zenon, <2>3, HeldLive
  <2>5. r.count = Len(e) /\ \A i \in 1..Len(e) : At(r)[i] = e[i]  BY Zenon, <2>3, HeldFacts
  <2>6. v \notin alive => r.heap = <<>>
    <3>1. v \notin alive => r = InBuffer(<<>>, 0)  BY Zenon, <1>2, <2>1 DEF VectorInv
    <3>2. InBuffer(<<>>, 0).heap = <<>>  BY Zenon DEF InBuffer, Members
    <3>3. QED  BY Zenon, <3>1, <3>2
  <2>7. QED  BY Zenon, <1>1, <2>1, <2>2, <2>4, <2>5, <2>6
<1>3. ASSUME "heap" \notin misuse, NEW v \in Vec  PROVE elements[v] # "null"
  <2>1. ~Crashed  BY Zenon, <1>3 DEF VectorInv
  <2>2. PICK r : r = Fields(v) /\ r.elements = elements[v]  BY Zenon, <1>1
  <2>3. PICK e : Sound(r, e)  BY Zenon, <1>3, <2>1, <2>2 DEF VectorInv
  <2>4. QED  BY Zenon, <2>2, <2>3, SoundOkay
<1>4. misuse = {} => sound  BY Zenon DEF VectorInv
<1>5. QED  BY Zenon, <1>2, <1>3, <1>4 DEF HoldsWhatItShould

\* Every member preserves VectorInv, whatever it is called with.
THEOREM VectorInvariance == VectorSpec => []VectorInv
<1>1. ASSUME VectorInv, [VectorNext]_vectorVars  PROVE VectorInv'
  <2>0. CASE VectorNext
    <3>0. ~Crashed  BY Zenon, <2>0 DEF VectorNext
    <3>1. ASSUME NEW v \in Vec, New(v)  PROVE VectorInv'  BY Zenon, <1>1, <3>0, <3>1, NewKeeps
    <3>2. ASSUME NEW v \in Vec, NEW x \in Value, PushBack(v, x)  PROVE VectorInv'
      BY Zenon, <1>1, <3>0, <3>2, PushBackKeeps
    <3>3. ASSUME NEW v \in Vec, NEW i \in 1..MaxSize, PushBackOwn(v, i)  PROVE VectorInv'
      BY Zenon, <1>1, <3>0, <3>3, PushBackOwnKeeps
    <3>4. ASSUME NEW v \in Vec, PopBack(v)  PROVE VectorInv'
      BY Zenon, <1>1, <3>0, <3>4, PopBackKeeps
    <3>5. ASSUME NEW v \in Vec, NEW n \in 0..MaxSize, Resize(v, n) \/ ReserveOnly(v, n)
          PROVE  VectorInv'
      <4>1. n \in Nat  BY VectorAssumption
      <4>2. QED  BY ZenonT(30), <1>1, <3>0, <3>5, <4>1, ResizeKeeps, ReserveOnlyKeeps
    <3>6. ASSUME NEW v \in Vec, NEW w \in Vec, NEW move \in BOOLEAN, Assign(v, w, move)
          PROVE  VectorInv'
      BY Zenon, <1>1, <3>0, <3>6, AssignKeeps
    <3>7. ASSUME NEW v \in Vec, Delete(v)  PROVE VectorInv'
      BY Zenon, <1>1, <3>0, <3>7, DeleteKeeps
    <3>8. QED
      BY ZenonT(30), <2>0, <3>1, <3>2, <3>3, <3>4, <3>5, <3>6, <3>7 DEF VectorNext
  <2>1. CASE UNCHANGED vectorVars
    <3>1. \A v \in Vec : Fields(v)' = Fields(v)  BY Zenon, <2>1 DEF vectorVars, Fields
    <3>2. /\ sound' = sound /\ expected' = expected /\ alive' = alive /\ misuse' = misuse
          /\ elements' = elements /\ count' = count
      BY Zenon, <2>1 DEF vectorVars
    <3>3. Crashed' <=> Crashed  BY Zenon, <3>2 DEF Crashed
    <3>4. QED  BY Zenon, <1>1, <3>1, <3>2, <3>3 DEF VectorInv
  <2>2. QED  BY Zenon, <1>1, <2>0, <2>1
<1>2. QED  BY <1>1, VectorInitial, PTL DEF VectorSpec

\* For every capacity and every number of vectors and elements, and whatever the
\* members are called with: a vector holds what std::vector would hold until the
\* program crashes, which takes operator= on a vector with an allocation; and no
\* object is used that is not alive, or destroyed twice, until push_back() or
\* operator= is called in one of the three ways that misuse tells apart.
THEOREM VectorCorrect == VectorSpec => []HoldsWhatItShould
<1>1. VectorSpec => []VectorInv  BY Zenon, VectorInvariance
<1>2. QED  BY <1>1, VectorInvImplies, PTL
=============================================================================
