------------------------------ MODULE Allocator ------------------------------
(***************************************************************************)
(* marl::Allocator: DefaultAllocator under a TrackedAllocator, and the     *)
(* ways to allocate and release objects through them.  Addresses are those *)
(* of a small machine.                                                     *)
(***************************************************************************)
EXTENDS Integers, FiniteSets, FiniteSetsExt

CONSTANTS
    Thread,         \* callers of the allocator
    Type,           \* the types allocated: records with size and alignment
    MaxArray,       \* bound: objects of one allocation
    DeleterForAll,  \* make_unique_n() and make_shared() are used for types, too,
                    \* that malloc() does not align well enough
    MallocAlign,    \* malloc() aligns its blocks to this
    PtrSize,        \* sizeof(void *)
    PageSize,
    MemSize,        \* bound: addresses 0 .. MemSize - 1
    MaxHeld         \* bound: allocations held

\* Alignments are powers of two: of two of them, the smaller divides the larger.
ASSUME AllocatorAssumption ==
    /\ \A t \in Type : t.size \in Nat \ {0} /\ t.alignment \in Nat \ {0}
    /\ MallocAlign \in Nat \ {0} /\ PtrSize \in Nat \ {0} /\ PageSize \in Nat \ {0}
    /\ MaxArray \in Nat /\ MemSize \in Nat
    /\ \A t \in Type : /\ t.alignment <= MallocAlign => MallocAlign % t.alignment = 0
                       /\ t.alignment < PageSize => PageSize % t.alignment = 0

Usage == {"Stack", "Create", "Stl"}

\* How memory is asked for, and released: create()/destroy(), make_unique_n()
\* and make_shared() with their Deleter, StlAllocator, and the guarded stacks
\* of the fibers.
Kind == {"create", "unique", "stl", "stack"}

UsageOf(k) == CASE k = "stack" -> "Stack" [] k = "stl" -> "Stl" [] OTHER -> "Create"

VARIABLES
    blocks,     \* what malloc() and mmap() gave out: base, length, guard pages
    saved,      \* the base pointers saved behind the payloads, by address
    held,       \* allocations of the callers: kind, type, n, ptr
    stats,      \* stats_.by_usage
    pc,         \* each thread's call: what it has counted and not yet done
    released    \* every release was of a block given out, as a whole

allocatorVars == <<blocks, saved, held, stats, pc, released>>

NoCall == [op |-> "none"]

AllocatorInit ==
    /\ blocks = {}
    /\ saved = [a \in {} |-> 0]
    /\ held = {}
    /\ stats = [u \in Usage |-> [count |-> 0, bytes |-> 0]]
    /\ pc = [t \in Thread |-> NoCall]
    /\ released = TRUE

AlignUp(val, alignment) == alignment * ((val + alignment - 1) \div alignment)

\* The addresses from a on, n of them.
Span(a, n) == a..(a + n - 1)

Used == UNION {Span(b.base, b.length) : b \in blocks}

\* Where a block of this length can be.
Room(length, alignment) ==
    {a \in 0..(MemSize - length) : a % alignment = 0 /\ Span(a, length) \cap Used = {}}

-----------------------------------------------------------------------------
\* A request: size in all and alignment.
Request(k, type, n) ==
    [size |-> n * type.size, alignment |-> type.alignment, guards |-> k = "stack"]

\* No room for the alignment.
AllocSize_Tight(req) == req.size + PtrSize

\* alignedMalloc(): room for the payload at any alignment, and a pointer.
AllocSize(req) == req.size + req.alignment + PtrSize

Pages(req) == (req.size + PageSize - 1) \div PageSize

\* What DefaultAllocator::allocate() asks the system for.
Length(req) ==
    IF req.guards THEN PageSize * (Pages(req) + 2)
    ELSE IF req.alignment > 1 THEN AllocSize(req)
    ELSE req.size

\* The pointer it returns for a block at base.
Payload(req, base) ==
    IF req.guards THEN base + PageSize
    ELSE IF req.alignment > 1 THEN AlignUp(base, req.alignment)
    ELSE base

\* The page below the payload and the page above it.
Guards(req, base) ==
    IF req.guards
    THEN Span(base, PageSize) \cup Span(base + PageSize * (Pages(req) + 1), PageSize)
    ELSE {}

HasSaved(req) == ~req.guards /\ req.alignment > 1

\* The base a call of free() with this request gives to free() or munmap().
Base(req, ptr) ==
    IF req.guards THEN ptr - PageSize
    ELSE IF req.alignment > 1
         THEN IF ptr + req.size \in DOMAIN saved THEN saved[ptr + req.size] ELSE -1
    ELSE ptr

\* Everybody forgets the alignment.
FreeRequest_NoAlignment(h) == [Request(h.kind, h.type, h.n) EXCEPT !.alignment = 0]

\* Deleter::operator() fills in no alignment; the others repeat the request.
FreeRequest(h) ==
    LET req == Request(h.kind, h.type, h.n) IN
    IF h.kind = "unique" THEN [req EXCEPT !.alignment = 0] ELSE req

\* A deallocate() that takes the size of one object.
FreedSize_One(h) == h.type.size

FreedSize(h) == FreeRequest(h).size

FreedUsage(h) == UsageOf(h.kind)

-----------------------------------------------------------------------------
\* TrackedAllocator::allocate(): counted under the mutex, ...
CountAlloc(t, k, type, n) ==
    /\ pc[t] = NoCall
    /\ Cardinality(held) + Cardinality({u \in Thread : pc[u].op = "alloc"}) < MaxHeld
    /\ k \in {"create", "stack"} => n = 1
    /\ k = "stack" => type.alignment < PageSize
    /\ k = "unique" => DeleterForAll \/ type.alignment <= MallocAlign
    /\ stats' = [stats EXCEPT ![UsageOf(k)].count = @ + 1,
                              ![UsageOf(k)].bytes = @ + n * type.size]
    /\ pc' = [pc EXCEPT ![t] = [op |-> "alloc", kind |-> k, type |-> type, n |-> n]]
    /\ UNCHANGED <<blocks, saved, held, released>>

\* ... and then allocated.
Allocate(t) ==
    /\ pc[t].op = "alloc"
    /\ LET c   == pc[t]
           req == Request(c.kind, c.type, c.n)
       IN  \E base \in Room(Length(req), IF req.guards THEN PageSize ELSE MallocAlign) :
             /\ blocks' = blocks \cup {[base |-> base, length |-> Length(req),
                                        guards |-> Guards(req, base)]}
             /\ held' = held \cup {[kind |-> c.kind, type |-> c.type, n |-> c.n,
                                    ptr |-> Payload(req, base)]}
             /\ saved' = IF HasSaved(req)
                         THEN [a \in DOMAIN saved \cup {Payload(req, base) + req.size} |->
                                 IF a = Payload(req, base) + req.size THEN base ELSE saved[a]]
                         ELSE saved
    /\ pc' = [pc EXCEPT ![t] = NoCall]
    /\ UNCHANGED <<stats, released>>

\* TrackedAllocator::free(): uncounted under the mutex, ...
CountFree(t, h) ==
    /\ pc[t] = NoCall
    /\ held' = held \ {h}
    /\ stats' = [stats EXCEPT ![FreedUsage(h)].count = @ - 1,
                              ![FreedUsage(h)].bytes = @ - FreedSize(h)]
    /\ pc' = [pc EXCEPT ![t] = [op |-> "free", req |-> FreeRequest(h), ptr |-> h.ptr]]
    /\ UNCHANGED <<blocks, saved, released>>

\* ... and then released.  munmap() takes a length, which must be the block's.
Release(t) ==
    /\ pc[t].op = "free"
    /\ LET req  == pc[t].req
           base == Base(req, pc[t].ptr)
           mine == {b \in blocks : b.base = base /\ (req.guards => b.length = Length(req))}
       IN  /\ blocks' = blocks \ mine
           /\ released' = (released /\ mine # {})
           /\ saved' = [a \in DOMAIN saved \ UNION {Span(b.base, b.length) : b \in mine}
                          |-> saved[a]]
    /\ pc' = [pc EXCEPT ![t] = NoCall]
    /\ UNCHANGED <<held, stats>>

AllocatorNext ==
    \E t \in Thread :
       \/ \E k \in Kind, type \in Type, n \in 1..MaxArray : CountAlloc(t, k, type, n)
       \/ Allocate(t)
       \/ \E h \in held : CountFree(t, h)
       \/ Release(t)

-----------------------------------------------------------------------------
\* An allocation is aligned as requested and lies inside one block, clear of
\* the block's guard pages and of every saved base pointer, so that writing to
\* all of it harms nothing; no two allocations overlap.
PayloadIsOwn ==
    \A h \in held :
       LET req == Request(h.kind, h.type, h.n)
           own == Span(h.ptr, req.size)
       IN  /\ h.ptr % req.alignment = 0
           /\ \E b \in blocks : own \subseteq Span(b.base, b.length) \ b.guards
           /\ \A a \in DOMAIN saved : Span(a, PtrSize) \cap own = {}
           /\ \A g \in held \ {h} : own \cap Span(g.ptr, g.n * g.type.size) = {}

\* The allocations that are counted and not yet made, and those held.
Pending(u) == {t \in Thread : pc[t].op = "alloc" /\ UsageOf(pc[t].kind) = u}
HeldFor(u) == {h \in held : UsageOf(h.kind) = u}

\* The statistics of TrackedAllocator are those of the allocations held and
\* being made: whatever two threads do, nothing is counted twice or with another
\* size or usage.
StatsAreTrue ==
    \A u \in Usage :
       /\ stats[u].count = Cardinality(HeldFor(u)) + Cardinality(Pending(u))
       /\ stats[u].bytes = MapThenSumSet(LAMBDA h : h.n * h.type.size, HeldFor(u))
                             + MapThenSumSet(LAMBDA t : pc[t].n * pc[t].type.size, Pending(u))

\* What is released is what the system gave out: free() gets a pointer that
\* came from malloc(), munmap() a whole mapping.
ReleasesBlocks == released
=============================================================================
