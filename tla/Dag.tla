--------------------------------- MODULE Dag ---------------------------------
(***************************************************************************)
(* marl::DAG: a builder that collects nodes and dependencies, and run(),   *)
(* which calls every node once all the nodes it depends on are finished.   *)
(*                                                                         *)
(* A strand is a chain of calls of invoke() on one stack: run() is the     *)
(* first, and invoke() schedules a task for all but the last of the nodes  *)
(* that it finds ready.                                                    *)
(***************************************************************************)
EXTENDS Naturals, Sequences, FiniteSets

CONSTANTS
    MaxNodes,       \* bound: nodes, the root included
    MaxEdges,       \* bound: dependencies
    MaxRuns         \* bound: calls of run(), one after the other

ASSUME DagAssumption ==
    MaxNodes \in Nat \ {0} /\ MaxEdges \in Nat /\ MaxRuns \in Nat

Index   == 0..(MaxNodes - 1)
Root    == 0
Invalid == MaxNodes     \* InvalidCounterIndex, InvalidNodeIndex

VARIABLES
    \* the builder and the graph
    size,               \* nodes.size()
    outs,               \* Node::outs
    numIns,             \* DAGBuilder::numIns
    counterIndex,       \* Node::counterIndex
    initialCounters,
    built,              \* how far build() has come, Invalid + 1 at its end
    \* one call of run()
    counters,           \* RunContext::counters
    strands,            \* the strands, run() first
    wg,                 \* the count of the WaitGroup
    runs,               \* calls of run() left
    finished            \* history: how often each node's work was done

graphVars == <<size, outs, numIns, counterIndex, initialCounters, built>>
runVars   == <<counters, strands, wg, runs, finished>>
vars      == <<graphVars, runVars>>

IsBuilt == built = Invalid + 1
Running == strands # <<>>

Init ==
    /\ size = 1
    /\ outs = [n \in Index |-> <<>>]
    /\ numIns = [n \in Index |-> 0]
    /\ counterIndex = [n \in Index |-> Invalid]
    /\ initialCounters = <<>>
    /\ built = 0
    /\ counters = <<>>
    /\ strands = <<>>
    /\ wg = 0
    /\ runs = MaxRuns
    /\ finished = [n \in Index |-> 0]

Edges(n) == Len(outs[n])
Parents(n) == {m \in Index : \E i \in 1..Edges(m) : outs[m][i] = n}

-----------------------------------------------------------------------------
\* The builder.

\* node() with the nodes it comes after, in any order (then() has one).
AddNode(after) ==
    /\ built = 0
    /\ size < MaxNodes
    /\ after \subseteq 0..(size - 1)
    /\ size' = size + 1
    /\ numIns' = [numIns EXCEPT ![size] = Cardinality(after)]
    /\ outs' = [n \in Index |-> IF n \in after THEN Append(outs[n], size) ELSE outs[n]]
    /\ UNCHANGED <<counterIndex, initialCounters, built, runVars>>

\* No path leads from child to parent.
Acyclic(parent, child) ==
    \E above \in SUBSET (0..(size - 1)) :
       /\ parent \in above /\ child \notin above
       /\ \A n \in above : Parents(n) \subseteq above

\* addDependency(), which may add the same dependency again.
AddDependency(parent, child) ==
    /\ built = 0
    /\ {parent, child} \subseteq 0..(size - 1)
    /\ Acyclic(parent, child)
    /\ numIns' = [numIns EXCEPT ![child] = @ + 1]
    /\ outs' = [outs EXCEPT ![parent] = Append(@, child)]
    /\ UNCHANGED <<size, counterIndex, initialCounters, built, runVars>>

\* build() that gives no counter to a node with two dependencies.
Build_OffByOne ==
    /\ built <= Invalid
    /\ built' = built + 1
    /\ IF built < size /\ numIns[built] > 2
       THEN /\ counterIndex' = [counterIndex EXCEPT ![built] = Len(initialCounters)]
            /\ initialCounters' = Append(initialCounters, numIns[built])
       ELSE UNCHANGED <<counterIndex, initialCounters>>
    /\ UNCHANGED <<size, outs, numIns, runVars>>

\* build(), one node after the other: a node with more than one dependency
\* gets a counter.
Build ==
    /\ built <= Invalid
    /\ built' = built + 1
    /\ IF built < size /\ numIns[built] > 1
       THEN /\ counterIndex' = [counterIndex EXCEPT ![built] = Len(initialCounters)]
            /\ initialCounters' = Append(initialCounters, numIns[built])
       ELSE UNCHANGED <<counterIndex, initialCounters>>
    /\ UNCHANGED <<size, outs, numIns, runVars>>

-----------------------------------------------------------------------------
\* run().

Strand(n) == [at |-> "work", node |-> n, out |-> 0, toInvoke |-> Invalid]
Move(s, rec) == strands' = [strands EXCEPT ![s] = rec]

\* initCounters() that leaves the counters of an earlier run.
InitCounters_Once == IF counters = <<>> THEN initialCounters ELSE counters

InitCounters == initialCounters

\* run() up to its call of invoke().
Run ==
    /\ IsBuilt
    /\ ~Running
    /\ runs > 0
    /\ runs' = runs - 1
    /\ counters' = InitCounters
    /\ strands' = <<Strand(Root)>>
    /\ wg' = 0
    /\ finished' = [n \in Index |-> 0]
    /\ UNCHANGED graphVars

\* invoke() calls the work of its node.
Work(s) ==
    /\ strands[s].at = "work"
    /\ finished' = [finished EXCEPT ![strands[s].node] = @ + 1]
    /\ Move(s, [strands[s] EXCEPT !.at = "outs", !.out = 1, !.toInvoke = Invalid])
    /\ UNCHANGED <<counters, wg, runs, graphVars>>

Target(s) == outs[strands[s].node][strands[s].out]

\* invoke() goes on to the next of the outs.
Skip(s) == Move(s, [strands[s] EXCEPT !.out = @ + 1])

\* notify() of one of the outs: one of its dependencies is finished.  If it
\* was the last one the node is kept in toInvoke; a node that was kept there
\* before is scheduled.
Notify(s) ==
    /\ strands[s].at = "outs"
    /\ strands[s].out <= Edges(strands[s].node)
    /\ LET c     == counterIndex[Target(s)]
           ready == c = Invalid \/ counters[c + 1] = 1
       IN  /\ counters' = IF c = Invalid THEN counters
                          ELSE [counters EXCEPT ![c + 1] = @ - 1]
           /\ IF ~ready THEN Skip(s)
              ELSE IF strands[s].toInvoke = Invalid
              THEN Move(s, [strands[s] EXCEPT !.out = @ + 1, !.toInvoke = Target(s)])
              ELSE Move(s, [strands[s] EXCEPT !.at = "add"])
    /\ UNCHANGED <<wg, runs, finished, graphVars>>

WgAdd(s) ==
    /\ strands[s].at = "add"
    /\ wg' = wg + 1
    /\ Move(s, [strands[s] EXCEPT !.at = "schedule"])
    /\ UNCHANGED <<counters, runs, finished, graphVars>>

\* schedule() of a task that invokes the node in toInvoke.
Schedule(s) ==
    /\ strands[s].at = "schedule"
    /\ strands' = Append([strands EXCEPT ![s] = [strands[s] EXCEPT !.at = "outs", !.out = @ + 1,
                                                                  !.toInvoke = Target(s)]],
                         Strand(strands[s].toInvoke))
    /\ UNCHANGED <<counters, wg, runs, finished, graphVars>>

\* invoke() ends with a call of itself, or returns.
InvokeLast(s) ==
    /\ strands[s].at = "outs"
    /\ strands[s].out > Edges(strands[s].node)
    /\ Move(s, IF strands[s].toInvoke # Invalid THEN Strand(strands[s].toInvoke)
               ELSE [strands[s] EXCEPT !.at = "returned"])
    /\ UNCHANGED <<counters, wg, runs, finished, graphVars>>

\* The task forgets its WaitGroup.
WgDone_Missing(s) ==
    /\ s # 1
    /\ strands[s].at = "returned"
    /\ Move(s, [strands[s] EXCEPT !.at = "ended"])
    /\ UNCHANGED <<wg, counters, runs, finished, graphVars>>

\* The task calls done() of its WaitGroup.
WgDone(s) ==
    /\ s # 1
    /\ strands[s].at = "returned"
    /\ wg' = wg - 1
    /\ Move(s, [strands[s] EXCEPT !.at = "ended"])
    /\ UNCHANGED <<counters, runs, finished, graphVars>>

\* wait() of the WaitGroup returns, and run() with it: ctx is destroyed.
WgWait ==
    /\ Running
    /\ strands[1].at = "returned"
    /\ wg = 0
    /\ strands' = <<>>
    /\ UNCHANGED <<counters, wg, runs, finished, graphVars>>

StrandStep(s) ==
    Work(s) \/ Notify(s) \/ WgAdd(s) \/ Schedule(s) \/ InvokeLast(s) \/ WgDone(s)

EdgesTotal == Cardinality({e \in Index \X (1..MaxEdges) : e[2] <= Edges(e[1])})

Next ==
    \/ \E after \in SUBSET Index :
          EdgesTotal + Cardinality(after) <= MaxEdges /\ AddNode(after)
    \/ \E m, n \in Index : EdgesTotal < MaxEdges /\ AddDependency(m, n)
    \/ Build
    \/ Run
    \/ \E s \in 1..Len(strands) : StrandStep(s)
    \/ WgWait

Spec == Init /\ [][Next]_vars

\* The tasks are run by the scheduler, and run() goes on.
FairSpec ==
    /\ Spec
    /\ WF_vars(WgWait)
    /\ \A s \in 1..MaxNodes : WF_vars(s <= Len(strands) /\ StrandStep(s))

-----------------------------------------------------------------------------
\* The nodes that a run reaches: the root, and every node with dependencies
\* all of which are reached.  (The smallest such set.)
Reached ==
    {n \in Index : \A S \in SUBSET Index :
       /\ Root \in S
       /\ \A m \in Index : Parents(m) # {} /\ Parents(m) \subseteq S => m \in S
       => n \in S}

\* No node is called before all the nodes it depends on are finished, or a
\* second time, not even by two strands that finish two of its dependencies at
\* the same time.
DependenciesFirst ==
    \A s \in 1..Len(strands) : strands[s].at = "work" =>
       /\ finished[strands[s].node] = 0
       /\ strands[s].node # Root => \A m \in Parents(strands[s].node) : finished[m] > 0

\* run() returns only when every node that can be reached has been called, and
\* no task of the run is left that could use the RunContext.
RunComplete ==
    [][WgWait => /\ \A n \in Index : finished[n] = IF n \in Reached THEN 1 ELSE 0
                 /\ \A s \in 2..Len(strands) : strands[s].at = "ended"]_vars

\* run() returns.
RunReturns == Running ~> ~Running
=============================================================================
