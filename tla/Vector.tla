------------------------------- MODULE Vector -------------------------------
(***************************************************************************)
(* marl::containers::vector: elements in a buffer of the object, or in an  *)
(* allocation once they outgrow it.  A slot of storage holds a value, or   *)
(* Raw where no object is alive.                                           *)
(*                                                                         *)
(* Every call is modelled with what the code makes of it, also those that  *)
(* free() and reserve() are not made for; misuse remembers which of these  *)
(* there were.                                                             *)
(***************************************************************************)
EXTENDS Naturals, Sequences, FiniteSetsExt

CONSTANTS
    Vec,            \* the vectors of the program
    Value,          \* values a caller stores; Default is T()
    Default,
    Raw,            \* the content of a slot without an object
    BaseCapacity,   \* BASE_CAPACITY
    MinCapacity,    \* capacity of the first allocation, at least (8 in the code)
    MaxSize,        \* bound: elements of a vector
    MaxPushed       \* bound: elements that are pushed without need to grow

ASSUME VectorAssumption ==
    /\ Default \in Value
    /\ Raw \notin Value
    /\ BaseCapacity \in Nat \ {0}
    /\ MinCapacity \in Nat
    /\ MaxSize \in Nat /\ MaxPushed \in Nat

\* What elements_ points to.
Places == {"buffer", "heap", "null"}

VARIABLES
    alive,      \* the vectors that are constructed
    count,      \* count_
    capacity,   \* capacity_
    elements,   \* elements_
    store,      \* store[v].buffer, store[v].heap: the slots; heap is <<>> without allocation_
    sound,      \* history: every object was constructed before its use, and destroyed once
    expected,   \* history: the contents std::vector would have
    misuse      \* history: the kinds of calls so far that the members mishandle

vectorVars == <<alive, count, capacity, elements, store, sound, expected, misuse>>

Slots(n) == [i \in 1..n |-> Raw]

VectorInit ==
    /\ alive = {}
    /\ count = [v \in Vec |-> 0]
    /\ capacity = [v \in Vec |-> BaseCapacity]
    /\ elements = [v \in Vec |-> "buffer"]
    /\ store = [v \in Vec |-> [buffer |-> Slots(BaseCapacity), heap |-> <<>>]]
    /\ sound = TRUE
    /\ expected = [v \in Vec |-> <<>>]
    /\ misuse = {}

-----------------------------------------------------------------------------
\* The members work on a record of the fields of one vector; ok collects
\* whether every access was to a live object, or to raw storage where an
\* object is constructed.

Fields(v) == [count |-> count[v], capacity |-> capacity[v], elements |-> elements[v],
              buffer |-> store[v].buffer, heap |-> store[v].heap, ok |-> TRUE]

At(r) ==
    CASE r.elements = "buffer" -> r.buffer
      [] r.elements = "heap"   -> r.heap
      [] r.elements = "null"   -> <<>>

IsLive(r, i) == i <= Len(At(r)) /\ At(r)[i] # Raw
IsRaw(r, i)  == i <= Len(At(r)) /\ At(r)[i] = Raw

\* The slots in idx, as far as there are any, get new contents.
Write(r, idx, f) ==
    LET new == [i \in 1..Len(At(r)) |-> IF i \in idx THEN f[i] ELSE At(r)[i]] IN
    CASE r.elements = "buffer" -> [r EXCEPT !.buffer = new]
      [] r.elements = "heap"   -> [r EXCEPT !.heap = new]
      [] r.elements = "null"   -> r

Destroy(r, idx) ==
    LET s == Write(r, idx, [i \in idx |-> Raw]) IN
    [s EXCEPT !.ok = @ /\ \A i \in idx : IsLive(r, i)]

Construct(r, idx, f) ==
    LET s == Write(r, idx, f) IN
    [s EXCEPT !.ok = @ /\ \A i \in idx : IsRaw(r, i)]

\* free(): the elements, then the allocation; count_ and capacity_ stay.
Freed(r) ==
    LET s == Destroy(r, 1..r.count) IN
    IF r.heap = <<>> THEN s
    ELSE [s EXCEPT !.heap = <<>>, !.elements = "null"]

\* reserve() that forgets the last element.
Grown_OffByOne(r, n) ==
    LET new == [i \in 1..Max({n * 2, MinCapacity}) |-> IF i < r.count THEN At(r)[i] ELSE Raw]
        s   == Freed(r)
    IN  [s EXCEPT !.capacity = Max({n * 2, MinCapacity}), !.heap = new, !.elements = "heap"]

\* The larger allocation, with the elements moved to it.  What is moved from a
\* slot where no object lives is of no consequence: operator=, in whose call
\* alone this happens, writes over it.  Without storage nothing can be moved,
\* and the program ends here.
Grown(r, n) ==
    LET new == [i \in 1..Max({n * 2, MinCapacity}) |->
                  IF i > r.count THEN Raw ELSE IF IsLive(r, i) THEN At(r)[i] ELSE Default]
        s   == Freed(r)
    IN  IF r.elements = "null" /\ r.count > 0 THEN [r EXCEPT !.ok = FALSE]
        ELSE [s EXCEPT !.capacity = Max({n * 2, MinCapacity}), !.heap = new, !.elements = "heap",
                       !.ok = @ /\ \A i \in 1..r.count : IsLive(r, i)]

Reserve(r, n) == IF n > r.capacity THEN Grown(r, n) ELSE r

Pushed(r, x) ==
    LET s == Reserve(r, r.count + 1)
        t == Construct(s, {s.count + 1}, [i \in {s.count + 1} |-> x])
    IN  [t EXCEPT !.count = @ + 1]

Resized(r, n) ==
    LET s   == Reserve(r, n)
        add == (s.count + 1)..n
        t   == Construct(s, add, [i \in add |-> Default])
        u   == Destroy(t, (n + 1)..t.count)
    IN  [u EXCEPT !.count = n]

\* operator=: the contents of the other vector in place of one's own.
Assigned(r, other) ==
    LET s   == Reserve(Freed(r), other.count)
        idx == 1..other.count
        t   == Construct(s, idx, [i \in idx |-> IF IsLive(other, i) THEN At(other)[i] ELSE Default])
    IN  [t EXCEPT !.count = other.count, !.ok = @ /\ \A i \in idx : IsLive(other, i)]

-----------------------------------------------------------------------------
\* The elements of some vectors become those of the records in new.
Update(new) ==
    LET now(v) == IF v \in DOMAIN new THEN new[v] ELSE Fields(v) IN
    /\ count' = [v \in Vec |-> now(v).count]
    /\ capacity' = [v \in Vec |-> now(v).capacity]
    /\ elements' = [v \in Vec |-> now(v).elements]
    /\ store' = [v \in Vec |-> [buffer |-> now(v).buffer, heap |-> now(v).heap]]
    /\ sound' = (sound /\ \A v \in DOMAIN new : new[v].ok)

\* A vector without storage counts elements: the program has used an element at
\* elements_ = nullptr, which ends it.
Crashed == \E v \in Vec : elements[v] = "null" /\ count[v] > 0

One(v, r) == [u \in {v} |-> r]
Fresh == [count |-> 0, capacity |-> BaseCapacity, elements |-> "buffer",
          buffer |-> Slots(BaseCapacity), heap |-> <<>>, ok |-> TRUE]

New(v) ==
    /\ v \notin alive
    /\ alive' = alive \cup {v}
    /\ Update(One(v, Fresh))
    /\ expected' = [expected EXCEPT ![v] = <<>>]
    /\ UNCHANGED misuse

MayPush(v) == count[v] < MaxSize /\ (count[v] < MaxPushed \/ count[v] = capacity[v])

PushBack(v, x) ==
    /\ v \in alive
    /\ MayPush(v)
    /\ Update(One(v, Pushed(Fields(v), x)))
    /\ expected' = [expected EXCEPT ![v] = Append(@, x)]
    /\ UNCHANGED <<alive, misuse>>

\* push_back(v[i]): the reference is used after reserve(); if that has moved the
\* element away and destroyed it, what is copied may be any value, and this is
\* then what is expected.
PushBackOwn(v, i) ==
    LET grows == count[v] = capacity[v] IN
    /\ v \in alive
    /\ i <= count[v]
    /\ MayPush(v)
    /\ \E x \in Value :
         /\ ~grows => x = At(Fields(v))[i]
         /\ Update(One(v, [Pushed(Fields(v), x) EXCEPT !.ok = @ /\ ~grows]))
         /\ expected' = [expected EXCEPT ![v] = Append(@, IF grows THEN x ELSE @[i])]
    /\ misuse' = misuse \cup IF grows THEN {"own"} ELSE {}
    /\ UNCHANGED alive

PopBack(v) ==
    /\ v \in alive
    /\ count[v] > 0
    /\ Update(One(v, [Destroy(Fields(v), {count[v]}) EXCEPT !.count = @ - 1]))
    /\ expected' = [expected EXCEPT ![v] = SubSeq(@, 1, Len(@) - 1)]
    /\ UNCHANGED <<alive, misuse>>

Resize(v, n) ==
    /\ v \in alive
    /\ Update(One(v, Resized(Fields(v), n)))
    /\ expected' = [expected EXCEPT ![v] = [i \in 1..n |-> IF i <= Len(@) THEN @[i] ELSE Default]]
    /\ UNCHANGED <<alive, misuse>>

ReserveOnly(v, n) ==
    /\ v \in alive
    /\ Update(One(v, Reserve(Fields(v), n)))
    /\ UNCHANGED <<alive, expected, misuse>>

\* free() keeps count_ and capacity_.  reserve() goes by both: it moves the
\* elements that free() has destroyed when it finds the capacity too small, and
\* takes the storage that free() has released for granted when it does not.
Misassigned(v, w) ==
    IF IF count[w] > capacity[v] THEN count[v] = 0 ELSE elements[v] = "buffer" THEN {}
    ELSE IF elements[v] = "buffer" THEN {"buffer"} ELSE {"heap"}

\* The copy constructor and operator= (move = FALSE), or the moving ones,
\* which leave the other vector empty.
Assign(v, w, move) ==
    /\ w \in alive
    /\ v # w
    /\ alive' = alive \cup {v}
    /\ LET r == Assigned(IF v \in alive THEN Fields(v) ELSE Fresh, Fields(w)) IN
       Update([u \in {v, w} |-> IF u = v THEN r
                                ELSE IF move THEN Resized(Fields(w), 0) ELSE Fields(w)])
    /\ expected' = [expected EXCEPT ![v] = expected[w], ![w] = IF move THEN <<>> ELSE @]
    /\ misuse' = misuse \cup IF v \in alive THEN Misassigned(v, w) ELSE {}

\* The destructor; what was a vector is raw memory again.
Delete(v) ==
    /\ v \in alive
    /\ alive' = alive \ {v}
    /\ LET r == Freed(Fields(v)) IN
       Update(One(v, [r EXCEPT !.count = 0, !.capacity = BaseCapacity, !.elements = "buffer"]))
    /\ expected' = [expected EXCEPT ![v] = <<>>]
    /\ UNCHANGED misuse

VectorNext ==
    /\ ~Crashed
    /\ \E v \in Vec :
         \/ New(v)
         \/ \E x \in Value : PushBack(v, x)
         \/ \E i \in 1..MaxSize : PushBackOwn(v, i)
         \/ PopBack(v)
         \/ \E n \in 0..MaxSize : Resize(v, n) \/ ReserveOnly(v, n)
         \/ \E w \in Vec, move \in BOOLEAN : Assign(v, w, move)
         \/ Delete(v)

VectorSpec == VectorInit /\ [][VectorNext]_vectorVars

-----------------------------------------------------------------------------
\* The slots that hold objects.
Live(s) == {i \in 1..Len(s) : s[i] # Raw}

\* Whatever was called, and unless the program has crashed, every vector holds
\* the elements that std::vector would hold, and exactly the first count_ slots
\* of its storage hold objects, so that reserve(), resize() and the destructor
\* leak none.  No member uses an object that is not alive, destroys one twice or
\* constructs one over another, until push_back() gets an element of the vector
\* itself when it must grow, or operator= a vector whose elements or allocation
\* reserve() counts on after free().  It takes such an operator=, for a vector
\* with an allocation, to leave one without storage.
HoldsWhatItShould ==
    /\ misuse = {} => sound
    /\ "heap" \notin misuse => \A v \in Vec : elements[v] # "null"
    /\ ~Crashed => \A v \in Vec :
         LET s == store[v] IN
         /\ Live(s.buffer) = IF elements[v] = "buffer" THEN 1..count[v] ELSE {}
         /\ Live(s.heap) = IF elements[v] = "heap" THEN 1..count[v] ELSE {}
         /\ v \notin alive => s.heap = <<>>
         /\ count[v] = Len(expected[v])
         /\ \A i \in 1..count[v] : At(Fields(v))[i] = expected[v][i]

\* What the tests Copy and Move do: vec2, which holds an element in its buffer,
\* is assigned the elements of vec1, which are too many for the buffer, and has
\* them then.  On the way no element may be used or destroyed that is not alive.
AssignmentIsRight == misuse \subseteq {"buffer"} => sound
=============================================================================
