------------------------------ MODULE Threads -------------------------------
(***************************************************************************)
(* marl::Thread: the cores a thread may run on (Thread::Affinity), the     *)
(* policies that choose among them, and a Thread object with its Impl,     *)
(* from Worker::start() to the join in Worker::stop().                     *)
(***************************************************************************)
EXTENDS Naturals, Sequences, FiniteSets, SequencesExt

CONSTANTS
    NumCores,       \* the machine's cores are 0 .. NumCores - 1
    Mask,           \* the cores the operating system lets the program use
    NumWorkers,     \* worker threads to start
    MaxArgs,        \* bound: cores in the argument of a call
    MaxCores        \* bound: cores in an affinity

ASSUME ThreadsAssumption ==
    /\ NumCores \in Nat
    /\ Mask # {} /\ Mask \subseteq 0..(NumCores - 1)

Core  == 0..(NumCores - 1)
Named == 0..NumCores            \* cores a program may name; the last is not there
Args  == BoundedSeq(Named, MaxArgs)
WorkerId == 0..(NumWorkers - 1)

VARIABLES
    cores,      \* the affinity being put together, then that of the policy
    call,       \* the last call: its name and argument
    owner,      \* what the scheduler does with which worker's thread
    impl,       \* impl[w]: the members of an Impl that are initialised, {} if deleted
    temp,       \* the temporary Thread of start() has the Impl
    thread_,    \* thread_[w]: the worker's Thread has the Impl
    state,      \* state[w]: how far the system's thread is
    pinned,     \* pinned[w]: the cores it may run on
    asserted    \* every assertion held, and no Impl was used that was not there

threadsVars == <<cores, call, owner, impl, temp, thread_, state, pinned, asserted>>
threadVars  == <<owner, impl, temp, thread_, state, pinned, asserted>>

ThreadsInit ==
    /\ cores = <<>>
    /\ call = [op |-> "none", other |-> <<>>]
    /\ owner = [op |-> "configure", w |-> 0]
    /\ impl = [w \in WorkerId |-> {}]
    /\ temp = FALSE
    /\ thread_ = [w \in WorkerId |-> FALSE]
    /\ state = [w \in WorkerId |-> "none"]
    /\ pinned = [w \in WorkerId |-> Mask]
    /\ asserted = TRUE

-----------------------------------------------------------------------------
\* Affinity: a vector of cores, which add() and remove() sort.

Sorted(s) == SortSeq(s, <)

ConstructAffinity(s) ==
    /\ owner.op = "configure"
    /\ cores' = s
    /\ call' = [op |-> "construct", other |-> s]
    /\ UNCHANGED threadVars

\* all() counts the cores of the mask and numbers them from 0.
UseAll ==
    /\ owner.op = "configure"
    /\ cores' = [i \in 1..Cardinality(Mask) |-> i - 1]
    /\ call' = [op |-> "all", other |-> <<>>]
    /\ UNCHANGED threadVars

\* Only the cores that were there before the call are looked up: a core that
\* is twice in other is added twice.
Added(other) == cores \o SelectSeq(other, LAMBDA c : c \notin ToSet(cores))

AddCores(other) ==
    /\ owner.op = "configure"
    /\ Len(Added(other)) <= MaxCores
    /\ cores' = Sorted(Added(other))
    /\ call' = [op |-> "add", other |-> other]
    /\ UNCHANGED threadVars

\* The indices the loop of remove() goes through, if it drops nothing.
Indices == [i \in 1..Len(cores) |-> i]

\* The last core is dropped, and the one to be removed stays.
Removed_Last(other) ==
    FoldLeft(LAMBDA s, i : IF i <= Len(s) /\ s[i] \in ToSet(other) THEN Front(s) ELSE s,
             cores, Indices)

\* cores[i] = cores.back(), and the last one is dropped; the loop goes on to
\* the next index without a look at the core that is now at this one.
Removed(other) ==
    FoldLeft(LAMBDA s, i : IF i <= Len(s) /\ s[i] \in ToSet(other)
                           THEN Front([s EXCEPT ![i] = Last(s)]) ELSE s,
             cores, Indices)

RemoveCores(other) ==
    /\ owner.op = "configure"
    /\ cores' = Sorted(Removed(other))
    /\ call' = [op |-> "remove", other |-> other]
    /\ UNCHANGED threadVars

\* The affinity is given to a policy, and the scheduler starts its workers.
MakePolicy(policy) ==
    /\ owner.op = "configure"
    /\ owner' = [op |-> "allocate", w |-> 0]
    /\ call' = [op |-> policy, other |-> <<>>]
    /\ UNCHANGED <<cores, impl, temp, thread_, state, pinned, asserted>>

\* Policy::get() for the thread with the given id.
Get(policy, w) ==
    IF policy = "anyOf" \/ cores = <<>> THEN cores ELSE <<cores[(w % Len(cores)) + 1]>>

-----------------------------------------------------------------------------
\* Worker::start(): thread_ = Thread(affinity, f).

\* thread_ is declared first, and so is initialised first.
Members_ThreadFirst == <<"thread_", "affinity_", "func_">>

\* Impl's members, in the order of their declaration.
Members == <<"affinity_", "func_", "thread_">>

\* The next member is initialised; with thread_ the system's thread starts.
Initialise ==
    LET w == owner.w
        m == Members[Cardinality(impl[w]) + 1]
    IN  /\ owner.op = "allocate"
        /\ impl' = [impl EXCEPT ![w] = @ \cup {m}]
        /\ state' = IF m = "thread_" THEN [state EXCEPT ![w] = "started"] ELSE state
        /\ temp' = (impl'[w] = ToSet(Members))
        /\ owner' = IF temp' THEN [owner EXCEPT !.op = "assign"] ELSE owner
        /\ UNCHANGED <<cores, call, thread_, pinned, asserted>>

\* operator=(Thread &&) must find no Impl, whose thread would be running, and the
\* temporary has none when it is destroyed.
MoveAssign ==
    LET w == owner.w IN
    /\ owner.op = "assign"
    /\ thread_' = [thread_ EXCEPT ![w] = temp]
    /\ temp' = FALSE
    /\ asserted' = (asserted /\ ~thread_[w] /\ ~temp')
    /\ owner' = IF w + 1 < NumWorkers THEN [op |-> "allocate", w |-> w + 1]
                                      ELSE [op |-> "join", w |-> w]
    /\ UNCHANGED <<cores, call, impl, state, pinned>>

\* stop(): join(), last worker first, which deletes the Impl; ~Thread() follows.
Join ==
    LET w == owner.w IN
    /\ owner.op = "join"
    /\ state[w] = "ended"
    /\ impl' = [impl EXCEPT ![w] = {}]
    /\ thread_' = [thread_ EXCEPT ![w] = FALSE]
    /\ asserted' = (asserted /\ ~thread_'[w])
    /\ owner' = IF w > 0 THEN [op |-> "join", w |-> w - 1] ELSE [op |-> "done", w |-> 0]
    /\ UNCHANGED <<cores, call, temp, state, pinned>>

\* Thread::Impl::setAffinity(): no affinity leaves the thread where it is, and
\* so does one of which the machine has no core.
SetAffinity(w) ==
    LET mine == ToSet(Get(call.op, w)) IN
    /\ state[w] = "started"
    /\ state' = [state EXCEPT ![w] = "pinned"]
    /\ pinned' = IF mine \cap Core = {} THEN pinned ELSE [pinned EXCEPT ![w] = mine \cap Core]
    /\ asserted' = (asserted /\ "affinity_" \in impl[w])
    /\ UNCHANGED <<cores, call, owner, impl, temp, thread_>>

\* func_() is called, and returns at some time.
CallFunc(w) ==
    /\ state[w] = "pinned"
    /\ state' = [state EXCEPT ![w] = "running"]
    /\ asserted' = (asserted /\ "func_" \in impl[w])
    /\ UNCHANGED <<cores, call, owner, impl, temp, thread_, pinned>>

FuncReturns(w) ==
    /\ state[w] = "running"
    /\ state' = [state EXCEPT ![w] = "ended"]
    /\ UNCHANGED <<cores, call, owner, impl, temp, thread_, pinned, asserted>>

ThreadsNext ==
    \/ \E s \in Args : ConstructAffinity(s) \/ AddCores(s) \/ RemoveCores(s)
    \/ UseAll
    \/ \E policy \in {"anyOf", "oneOf"} : MakePolicy(policy)
    \/ Initialise
    \/ MoveAssign
    \/ Join
    \/ \E w \in WorkerId : SetAffinity(w) \/ CallFunc(w) \/ FuncReturns(w)

-----------------------------------------------------------------------------
Twice(s) == \E i, j \in 1..Len(s) : i # j /\ s[i] = s[j]

\* The positions of the cores that are to be removed.
Hits(other) == {i \in 1..Len(cores) : cores[i] \in ToSet(other)}

\* remove() moves no core to be removed to a position it has passed.
MovesNoHit(other) ==
    \/ Cardinality(Hits(other)) = 1
    \/ \A i \in Hits(other) : i <= Len(cores) - Cardinality(Hits(other))

\* add() gives the sorted union of two affinities, with no core twice if neither
\* had one twice.  remove() keeps every other core and invents none; it removes
\* all it should unless it moves one of them to a position it has passed.
AffinityIsRight ==
    [][LET other == call'.other IN
       /\ call'.op = "add" =>
            /\ ToSet(cores') = ToSet(cores) \cup ToSet(other)
            /\ ~Twice(cores) /\ ~Twice(other) => ~Twice(cores')
       /\ call'.op = "remove" =>
            /\ ToSet(cores) \ ToSet(other) \subseteq ToSet(cores')
            /\ ToSet(cores') \subseteq ToSet(cores)
            /\ MovesNoHit(other) => ToSet(cores') \cap ToSet(other) = {}
       /\ call'.op \in {"add", "remove"} =>
            \A i \in 1..(Len(cores') - 1) : cores'[i] <= cores'[i + 1]]_<<cores, call>>

Pinned == {w \in WorkerId : state[w] \in {"pinned", "running", "ended"}}
Load(c) == Cardinality({w \in Pinned : c \in pinned[w]})

\* A thread finds the members of its Impl initialised and not yet deleted, though
\* it is started by the constructor; the Impl has one owner at a time, and no
\* assertion of ~Thread() fails.  With Policy::oneOf() the threads, once they
\* are pinned, are spread evenly over the affinity's cores.
ThreadsAreOwned ==
    /\ asserted
    /\ \A w \in WorkerId :
         /\ state[w] \in {"started", "pinned", "running"} => impl[w] = ToSet(Members)
         /\ thread_[w] => impl[w] # {} /\ ~(temp /\ owner.w = w)
    /\ call.op = "oneOf" /\ Pinned = WorkerId /\ cores # <<>> /\ ToSet(cores) \subseteq Core
         /\ ~Twice(cores) =>
            \A c, d \in ToSet(cores) : Load(c) <= Load(d) + 1
=============================================================================
