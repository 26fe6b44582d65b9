-------------------------------- MODULE List --------------------------------
(***************************************************************************)
(* marl::containers::list: entries are taken from a list of free ones and  *)
(* given back to it, and allocated in blocks when it is empty.  An entry   *)
(* is a number, Nil is nullptr.                                            *)
(***************************************************************************)
EXTENDS Naturals, Sequences, SequencesExt, FiniteSetsExt

CONSTANTS
    MinGrow,        \* entries of the first block, at least (8 in the code)
    MaxEntries      \* bound: entries allocated

ASSUME ListAssumption == MinGrow \in Nat \ {0} /\ MaxEntries \in Nat

Nil   == 0
Entry == 1..MaxEntries

VARIABLES
    next, prev,     \* the links of the entries
    free,           \* the first free entry
    head,           \* the first entry in use
    size,           \* size_
    entries,        \* capacity_: the entries allocated are 1 .. entries
    chain,          \* allocations_: sizes of the blocks, last allocated first
    order           \* the entries in use, in the order std::list would have them

listVars == <<next, prev, free, head, size, entries, chain, order>>

ListInit ==
    /\ next = [e \in Entry |-> Nil]
    /\ prev = [e \in Entry |-> Nil]
    /\ free = Nil
    /\ head = Nil
    /\ size = 0
    /\ entries = 0
    /\ chain = <<>>
    /\ order = <<>>

-----------------------------------------------------------------------------
\* unlink() that leaves the way back to the entry.
Unlink_NoPrev(l, e) ==
    [first |-> IF l.first = e THEN l.next[e] ELSE l.first,
     next  |-> [x \in Entry |-> IF x = e THEN Nil
                                ELSE IF x = l.prev[e] THEN l.next[e] ELSE l.next[x]],
     prev  |-> [l.prev EXCEPT ![e] = Nil]]

\* unlink(): the entry leaves the list that begins with l.first.
Unlink(l, e) ==
    [first |-> IF l.first = e THEN l.next[e] ELSE l.first,
     next  |-> [x \in Entry |-> IF x = e THEN Nil
                                ELSE IF x = l.prev[e] THEN l.next[e] ELSE l.next[x]],
     prev  |-> [x \in Entry |-> IF x = e THEN Nil
                                ELSE IF x = l.next[e] THEN l.prev[e] ELSE l.prev[x]]]

\* link(): an entry that is in no list becomes the first one.
Link(l, e) ==
    [first |-> e,
     next  |-> [l.next EXCEPT ![e] = IF l.first = Nil THEN @ ELSE l.first],
     prev  |-> [x \in Entry |-> IF x = l.first THEN e ELSE l.prev[x]]]

\* unlink(e, from), and then link(e, to).
Move(l, e, to) == Link([Unlink(l, e) EXCEPT !.first = to], e)

GrowBy == Max({entries, MinGrow})

\* The loop of grow(): the new entries go in front of the free ones, of which
\* there are none when emplace_front() calls it.
WithBlock(l) ==
    LET new == (entries + 1)..(entries + GrowBy) IN
    [first |-> entries + GrowBy,
     next  |-> [e \in Entry |-> IF e \notin new THEN l.next[e]
                                ELSE IF e = entries + 1 THEN l.first ELSE e - 1],
     prev  |-> [e \in Entry |-> IF e \in new THEN IF e + 1 \in new THEN e + 1 ELSE Nil
                                ELSE IF e = l.first THEN entries + 1 ELSE l.prev[e]]]

EmplaceFront ==
    LET grow == free = Nil
        now  == [first |-> free, next |-> next, prev |-> prev]
        l    == IF grow THEN WithBlock(now) ELSE now
        e    == l.first
        m    == Move(l, e, head)
    IN  /\ grow => entries + GrowBy <= MaxEntries
        /\ entries' = IF grow THEN entries + GrowBy ELSE entries
        /\ chain' = IF grow THEN <<GrowBy>> \o chain ELSE chain
        /\ free' = Unlink(l, e).first
        /\ head' = m.first
        /\ next' = m.next
        /\ prev' = m.prev
        /\ size' = size + 1
        /\ order' = <<e>> \o order

\* erase() of the entry an iterator points to.
Erase(e) ==
    LET now == [first |-> head, next |-> next, prev |-> prev]
        m   == Move(now, e, free)
    IN  /\ head' = Unlink(now, e).first
        /\ free' = m.first
        /\ next' = m.next
        /\ prev' = m.prev
        /\ size' = size - 1
        /\ order' = SelectSeq(order, LAMBDA x : x # e)
        /\ UNCHANGED <<entries, chain>>

\* What an iterator that starts at e meets (a cycle is cut off).
Walk(e) ==
    LET from[n \in 0..MaxEntries, x \in 0..MaxEntries] ==
          IF n = 0 \/ x = Nil THEN <<>> ELSE <<x>> \o from[n - 1, next[x]]
    IN  from[MaxEntries, e]

\* The destructor: the data of the entries it meets, then the blocks.
DeleteList ==
    /\ entries > 0
    /\ order' = SelectSeq(order, LAMBDA e : e \notin ToSet(Walk(head)))
    /\ chain' = <<>>
    /\ entries' = 0
    /\ size' = 0
    /\ free' = Nil
    /\ head' = Nil
    /\ next' = [e \in Entry |-> Nil]
    /\ prev' = [e \in Entry |-> Nil]

ListNext ==
    \/ EmplaceFront
    \/ \E e \in ToSet(order) : Erase(e)
    \/ DeleteList

-----------------------------------------------------------------------------
\* After any calls of emplace_front() and erase(), an iterator meets exactly the
\* entries that are in use, in the order std::list would have them, and size()
\* counts them; the other entries of the blocks are in the free list, each once,
\* so that none is lost; and prev undoes next, which unlink() and the assertions
\* of link() rely on.
ListIsRight ==
    /\ Walk(head) = order
    /\ size = Len(order)
    /\ Len(Walk(free)) = entries - Len(order)
    /\ ToSet(Walk(free)) = 1..entries \ ToSet(order)
    /\ FoldLeft(+, 0, chain) = entries
    /\ \A e \in 1..entries : next[e] # Nil => prev[next[e]] = e
    /\ \A e \in {head, free} \ {Nil} : prev[e] = Nil
=============================================================================
