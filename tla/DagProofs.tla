----------------------------- MODULE DagProofs ------------------------------
(***************************************************************************)
(* For any graph that the builder can make and any number of runs: no node *)
(* is called before the nodes it depends on, or twice in a run, and run()  *)
(* returns when every node that can be reached was called and no task is   *)
(* left.  The argument is that the counter of a node is the number of its  *)
(* edges of which notify() has not been told, and that a node is ready in  *)
(* one place at most, from the notify() that brings its counter to zero to *)
(* its call.                                                               *)
(***************************************************************************)
EXTENDS Dag, FiniteSetTheorems, TLAPS

\* An edge is a node and an index in its outs; those that lead to n.
AllEdges == {e \in Index \X (Nat \ {0}) : e[2] <= Len(outs[e[1]])}
Into(n) ==
    {e \in Index \X (Nat \ {0}) : e[2] <= Len(outs[e[1]]) /\ outs[e[1]][e[2]] = n}

\* The graph has no cycle: every edge leads to a node of higher rank.
IsRank(f) == \A m \in Index : \A i \in 1..Len(outs[m]) : f[m] < f[outs[m][i]]

GraphInv ==
    /\ size \in 1..MaxNodes
    /\ outs \in [Index -> Seq(0..(size - 1))]
    /\ numIns \in [Index -> Nat]
    /\ \A n \in Index : n >= size => outs[n] = <<>> /\ numIns[n] = 0
    /\ \A n \in Index : IsFiniteSet(Into(n)) /\ numIns[n] = Cardinality(Into(n))
    /\ \E f \in [Index -> Nat], b \in Nat : IsRank(f) /\ \A n \in Index : f[n] < b

\* build() gives a counter of its own to each node with more than one edge.
BuildInv ==
    /\ built \in 0..(Invalid + 1)
    /\ initialCounters \in Seq(Nat) /\ Len(initialCounters) <= built
    /\ counterIndex \in [Index -> Nat]
    /\ \A n \in Index : counterIndex[n] = Invalid <=> n >= built \/ numIns[n] <= 1
    /\ \A n \in Index : counterIndex[n] # Invalid =>
         counterIndex[n] < Len(initialCounters) /\ initialCounters[counterIndex[n] + 1] = numIns[n]
    /\ \A m, n \in Index : counterIndex[m] = counterIndex[n] /\ counterIndex[n] # Invalid => m = n

Active == {"outs", "add", "schedule"}
StrandRec == [at : Active \cup {"work", "returned", "ended"}, node : Index, out : Nat,
              toInvoke : Index \cup {Invalid}]

\* notify() has been told of the i-th edge of m: m was called, and the strand
\* that goes through its outs, if there is still one, has passed the edge.
Passed(r) == IF r.at = "outs" THEN r.out - 1 ELSE r.out
Told(e) ==
    /\ finished[e[1]] = 1
    /\ \A s \in 1..Len(strands) :
         strands[s].at \in Active /\ strands[s].node = e[1] => e[2] <= Passed(strands[s])

Left(n) == {e \in Into(n) : ~Told(e)}

\* Where a strand has a node that is ready and not yet called: it is about to
\* call it, keeps it in toInvoke, or has just found it while it kept another.
Places == {"work", "kept", "next"}
Holds(s, k, n) ==
    \/ k = "work" /\ strands[s].at = "work" /\ strands[s].node = n
    \/ k = "kept" /\ strands[s].at \in Active /\ strands[s].toInvoke = n
    \/ k = "next" /\ strands[s].at \in {"add", "schedule"} /\ Target(s) = n
Pending(n) == \E s \in 1..Len(strands), k \in Places : Holds(s, k, n)

StrandInv ==
    /\ strands \in Seq(StrandRec)
    /\ finished \in [Index -> {0, 1}]
    /\ counters \in Seq(Int) /\ Len(counters) = Len(initialCounters)
    /\ \A s \in 1..Len(strands) : strands[s].at \in Active =>
         /\ finished[strands[s].node] = 1
         /\ strands[s].out \in 1..(Edges(strands[s].node) + 1)
         /\ strands[s].at # "outs" => /\ strands[s].out <= Edges(strands[s].node)
                                      /\ strands[s].toInvoke # Invalid
    /\ \A s, t \in 1..Len(strands) : strands[s].at \in Active /\ strands[t].at \in Active
                                       /\ strands[s].node = strands[t].node => s = t

\* A ready node is ready in one place.
PlaceInv ==
    \A s, t \in 1..Len(strands), j, k \in Places, n \in Index :
       Holds(s, j, n) /\ Holds(t, k, n) => s = t /\ j = k

\* The counters are right.  A node is ready or called when all its edges are told,
\* and not before, except for the root; a ready node was not called.  Only what
\* follows from the root is called.
Begun(n) == finished[n] = 1 \/ Pending(n)
Follows(S) == Root \in S /\ \A m \in Index : Parents(m) # {} /\ Parents(m) \subseteq S => m \in S
NodeInv ==
    /\ \A n \in Index : counterIndex[n] # Invalid =>
         counters[counterIndex[n] + 1] = Cardinality(Left(n))
    /\ \A n \in Index : Pending(n) => finished[n] = 0
    /\ \A n \in Index : Begun(n) /\ n # Root => Left(n) = {}
    /\ \A n \in Index : n = Root \/ (Into(n) # {} /\ Left(n) = {}) => Begun(n)
    /\ \A S \in SUBSET Index : Follows(S) => \A n \in Index : Begun(n) => n \in S

\* The WaitGroup counts the tasks that are to call done(), and those that
\* schedule() is about to be called for.
Tasks     == {t \in 2..Len(strands) : strands[t].at # "ended"}
Announced == {t \in 1..Len(strands) : strands[t].at = "schedule"}
WgInv ==
    /\ IsFiniteSet(Tasks) /\ IsFiniteSet(Announced)
    /\ wg = Cardinality(Tasks) + Cardinality(Announced)
    /\ strands[1].at # "ended"

RunInv == StrandInv /\ PlaceInv /\ NodeInv /\ WgInv

\* One strand goes on, to one of the places in A.
Goes(s, A) ==
    /\ Len(strands') = Len(strands) /\ strands'[s].at \in A
    /\ \A t \in 1..Len(strands) : t # s => strands'[t] = strands[t]

DagInv == GraphInv /\ BuildInv /\ (Running => IsBuilt /\ RunInv) /\ strands \in Seq(StrandRec)

-----------------------------------------------------------------------------
\* What Append does.
LEMMA AppendIs ==
    ASSUME NEW S, NEW z \in Seq(S), NEW x \in S
    PROVE  /\ Append(z, x) \in Seq(S) /\ Len(z) \in Nat /\ Len(Append(z, x)) = Len(z) + 1
           /\ \A i \in 1..Len(z) : Append(z, x)[i] = z[i]
           /\ Append(z, x)[Len(z) + 1] = x
    OBVIOUS

\* Sets with a function one to one between them are of the same size.
LEMMA OneToOne ==
    ASSUME NEW S, NEW T, IsFiniteSet(S), NEW F \in [S -> T],
           \A x, y \in S : F[x] = F[y] => x = y,
           \A t \in T : \E x \in S : F[x] = t
    PROVE  IsFiniteSet(T) /\ Cardinality(T) = Cardinality(S)
<1>1. F \in Bijection(S, T)
    BY DEF Bijection, Injection, Surjection, IsInjective
<1> QED
    BY <1>1, FS_Bijection DEF ExistsBijection

\* Appending t to the outs of the nodes in A adds an edge to t from each.
LEMMA NewEdges ==
    ASSUME NEW k \in Nat, NEW A \in SUBSET Index, NEW t \in 0..k, NEW l \in 0..(k + 1),
           outs \in [Index -> Seq(0..(l - 1))], 0..(l - 1) \subseteq 0..k,
           outs' = [n \in Index |-> IF n \in A THEN Append(outs[n], t) ELSE outs[n]]
    PROVE  /\ outs' \in [Index -> Seq(0..k)]
           /\ \A m \in Index :
                /\ Len(outs[m]) \in Nat
                /\ Len(outs'[m]) = IF m \in A THEN Len(outs[m]) + 1 ELSE Len(outs[m])
                /\ m \in A => outs'[m][Len(outs[m]) + 1] = t
                /\ \A i \in 1..Len(outs[m]) : outs'[m][i] = outs[m][i]
                                              /\ outs[m][i] \in 0..(l - 1)
           /\ \A n \in Index : n # t => Into(n)' = Into(n)
           /\ Into(t)' = Into(t) \cup {<<m, Len(outs[m]) + 1>> : m \in A}
<1>1. ASSUME NEW m \in Index
      PROVE  /\ outs'[m] \in Seq(0..k)
             /\ Len(outs[m]) \in Nat
             /\ Len(outs'[m]) = IF m \in A THEN Len(outs[m]) + 1 ELSE Len(outs[m])
             /\ m \in A => outs'[m][Len(outs[m]) + 1] = t
             /\ \A i \in 1..Len(outs[m]) : outs'[m][i] = outs[m][i]
                                           /\ outs[m][i] \in 0..(l - 1)
  <2>1. /\ outs[m] \in Seq(0..(l - 1))
        /\ outs'[m] = IF m \in A THEN Append(outs[m], t) ELSE outs[m]
      OBVIOUS
  <2>2. outs[m] \in Seq(0..k)
      BY <2>1
  <2>3. \A i \in 1..Len(outs[m]) : outs[m][i] \in 0..(l - 1)
      BY <2>1
  <2>4. CASE m \in A
    <3>1. /\ Append(outs[m], t) \in Seq(0..k)
          /\ Len(Append(outs[m], t)) = Len(outs[m]) + 1
          /\ \A i \in 1..Len(outs[m]) : Append(outs[m], t)[i] = outs[m][i]
          /\ Append(outs[m], t)[Len(outs[m]) + 1] = t
        BY <2>2, AppendIs
    <3> QED
        BY <2>1, <2>2, <2>3, <2>4, <3>1
  <2>5. CASE m \notin A
      BY <2>1, <2>2, <2>3, <2>5
  <2> QED
      BY <2>4, <2>5
<1>2. outs' \in [Index -> Seq(0..k)]
    BY <1>1
<1>3. ASSUME NEW m \in Index, NEW i \in Nat \ {0}
      PROVE  /\ i <= Len(outs'[m]) <=> i <= Len(outs[m]) \/ (m \in A /\ i = Len(outs[m]) + 1)
             /\ i <= Len(outs[m]) => outs'[m][i] = outs[m][i]
             /\ m \in A /\ i = Len(outs[m]) + 1 => outs'[m][i] = t
    BY <1>1
<1>4. ASSUME NEW n \in Index, n # t PROVE Into(n)' = Into(n)
  <2>1. ASSUME NEW e \in Index \X (Nat \ {0})
        PROVE  e[2] <= Len(outs'[e[1]]) /\ outs'[e[1]][e[2]] = n
                 <=> e[2] <= Len(outs[e[1]]) /\ outs[e[1]][e[2]] = n
    <3>1. e[1] \in Index /\ e[2] \in Nat \ {0}
        OBVIOUS
    <3> QED
        BY <3>1, <1>3, <1>4
  <2> QED
      BY ZenonT(30), <2>1 DEF Into
<1>5. Into(t)' = Into(t) \cup {<<m, Len(outs[m]) + 1>> : m \in A}
  <2> DEFINE New == {<<m, Len(outs[m]) + 1>> : m \in A}
  <2>1. ASSUME NEW e \in Index \X (Nat \ {0})
        PROVE  e[2] <= Len(outs'[e[1]]) /\ outs'[e[1]][e[2]] = t
                 <=> (e[2] <= Len(outs[e[1]]) /\ outs[e[1]][e[2]] = t) \/ e \in New
    <3>1. e[1] \in Index /\ e[2] \in Nat \ {0} /\ e = <<e[1], e[2]>>
        OBVIOUS
    <3>2. e \in New <=> e[1] \in A /\ e[2] = Len(outs[e[1]]) + 1
        BY <3>1
    <3> HIDE DEF New
    <3> QED
        BY <3>1, <3>2, <1>3
  <2>2. New \subseteq Index \X (Nat \ {0})
      BY <1>1
  <2> HIDE DEF New
  <2>3. Into(t)' = Into(t) \cup New
      BY <2>1, <2>2 DEF Into
  <2> QED
      BY <2>3 DEF New
<1> QED
    BY <1>1, <1>2, <1>4, <1>5

\* node() keeps the graph in order: the new node has one edge from each node it
\* comes after, and none to another.
LEMMA AddNodeGraph ==
    ASSUME GraphInv, NEW after \in SUBSET Index, AddNode(after)
    PROVE  GraphInv'
<1>1. PICK z \in Index : z = size
    BY DagAssumption DEF GraphInv, AddNode, Index
<1>2. /\ MaxNodes \in Nat /\ z \in Nat /\ z \in 1..MaxNodes /\ z + 1 \in 1..MaxNodes
      /\ after \subseteq 0..(z - 1) /\ size' = z + 1 /\ z \notin after
      /\ Index = 0..(MaxNodes - 1)
    BY <1>1, DagAssumption DEF GraphInv, AddNode, Index
<1>3. /\ outs \in [Index -> Seq(0..(z - 1))]
      /\ \A n \in Index : n >= z => outs[n] = <<>> /\ numIns[n] = 0
      /\ numIns \in [Index -> Nat]
      /\ \A n \in Index : IsFiniteSet(Into(n)) /\ numIns[n] = Cardinality(Into(n))
    BY <1>1 DEF GraphInv
<1>4. /\ outs' = [n \in Index |-> IF n \in after THEN Append(outs[n], z) ELSE outs[n]]
      /\ numIns' = [numIns EXCEPT ![z] = Cardinality(after)]
    BY <1>1 DEF AddNode
<1>5. /\ outs' \in [Index -> Seq(0..z)]
      /\ \A m \in Index :
           /\ Len(outs[m]) \in Nat
           /\ Len(outs'[m]) = IF m \in after THEN Len(outs[m]) + 1 ELSE Len(outs[m])
           /\ m \in after => outs'[m][Len(outs[m]) + 1] = z
           /\ \A i \in 1..Len(outs[m]) : outs'[m][i] = outs[m][i] /\ outs[m][i] \in 0..(z - 1)
      /\ \A n \in Index : n # z => Into(n)' = Into(n)
      /\ Into(z)' = Into(z) \cup {<<m, Len(outs[m]) + 1>> : m \in after}
  <2>1. z \in Nat /\ after \in SUBSET Index /\ z \in 0..z /\ z \in 0..(z + 1)
        /\ 0..(z - 1) \subseteq 0..z
      BY <1>2
  <2> QED
      BY ZenonT(30), <2>1, <1>3, <1>4, NewEdges
<1>6. Into(z) = {}
    BY <1>2, <1>5 DEF Into
<1>7. IsFiniteSet(after) /\ Cardinality(after) \in Nat
  <2>1. 0 \in Int /\ z - 1 \in Int /\ after \in SUBSET (0..(z - 1))
      BY <1>2
  <2>2. IsFiniteSet(0..(z - 1))
      BY ZenonT(30), <2>1, FS_Interval
  <2> QED
      BY ZenonT(30), <2>1, <2>2, FS_Subset, FS_CardinalityType
<1>8. IsFiniteSet(Into(z)') /\ Cardinality(Into(z)') = Cardinality(after)
  <2> DEFINE F == [m \in after |-> <<m, Len(outs[m]) + 1>>]
             T == {<<m, Len(outs[m]) + 1>> : m \in after}
  <2>0. F \in [after -> T] /\ \A t \in T : \E x \in after : F[x] = t
      OBVIOUS
  <2>1. \A x, y \in after : F[x] = F[y] => x = y
    <3> SUFFICES ASSUME NEW x \in after, NEW y \in after, F[x] = F[y] PROVE x = y
        OBVIOUS
    <3>1. F[x][1] = x /\ F[y][1] = y
        OBVIOUS
    <3> HIDE DEF F
    <3> QED
        BY <3>1
  <2> HIDE DEF F, T
  <2>2. IsFiniteSet(T) /\ Cardinality(T) = Cardinality(after)
      BY ZenonT(30), <2>0, <2>1, <1>7, OneToOne
  <2> QED
      BY <2>2, <1>5, <1>6 DEF T
<1>9. ASSUME NEW n \in Index
      PROVE  /\ IsFiniteSet(Into(n)') /\ numIns'[n] = Cardinality(Into(n)')
             /\ n >= z + 1 => outs'[n] = <<>> /\ numIns'[n] = 0
  <2>1. n >= z + 1 => n \notin after /\ n # z /\ n >= z
      BY <1>2
  <2>2. n \notin after => outs'[n] = outs[n]
      BY <1>4
  <2>3. numIns'[n] = IF n = z THEN Cardinality(after) ELSE numIns[n]
      BY <1>3, <1>4
  <2>4. CASE n = z
      BY <2>1, <2>3, <2>4, <1>8
  <2>5. CASE n # z
      BY <2>1, <2>2, <2>3, <2>5, <1>3, <1>5
  <2> QED
      BY <2>4, <2>5
<1>10. \E f \in [Index -> Nat], b \in Nat : IsRank(f)' /\ \A n \in Index : f[n] < b
  <2>1. PICK f \in [Index -> Nat], b \in Nat : IsRank(f) /\ \A n \in Index : f[n] < b
      BY ZenonT(30) DEF GraphInv
  <2>2. PICK g \in [Index -> Nat] : g = [n \in Index |-> IF n = z THEN b ELSE f[n]]
      BY ZenonT(30)
  <2>3. b + 1 \in Nat /\ \A n \in Index : g[n] < b + 1
      BY <2>1, <2>2
  <2>4. ASSUME NEW m \in Index, NEW i \in 1..Len(outs'[m]) PROVE g[m] < g[outs'[m][i]]
    <3>1. CASE i \in 1..Len(outs[m])
      <4>0. outs[z] = <<>> /\ Len(outs[z]) = 0
          BY <1>2, <1>3
      <4>1. m # z
          BY <3>1, <4>0
      <4>2. outs'[m][i] = outs[m][i] /\ outs[m][i] \in 0..(z - 1)
          BY ZenonT(30), <3>1, <1>5
      <4>3. outs'[m][i] # z /\ outs[m][i] \in Index
        <5>1. \A t \in 0..(z - 1) : t # z /\ t \in Index
            BY <1>2
        <5> QED
            BY ZenonT(30), <4>2, <5>1
      <4>4. f[m] < f[outs[m][i]]
          BY ZenonT(30), <3>1, <2>1 DEF IsRank
      <4> QED
          BY <4>1, <4>2, <4>3, <4>4, <2>2
    <3>2. CASE i \notin 1..Len(outs[m])
      <4>1. m \in after /\ i = Len(outs[m]) + 1
          BY <3>2, <1>5
      <4>2. outs'[m][i] = z /\ m # z
          BY <4>1, <1>2, <1>5
      <4> QED
          BY <4>2, <1>2, <2>1, <2>2
    <3> QED
        BY <3>1, <3>2
  <2>5. IsRank(g)'
    <3>1. \A m \in Index : \A i \in 1..Len(outs'[m]) : g[m] < g[outs'[m][i]]
        BY ZenonT(30), <2>4
    <3> QED
        BY ZenonT(30), <3>1 DEF IsRank
  <2> QED
      BY ZenonT(30), <2>3, <2>5
<1>11. size' \in 1..MaxNodes /\ size' - 1 = z
    BY <1>2
<1>12. numIns' \in [Index -> Nat]
    BY ZenonT(30), <1>3, <1>4, <1>7
<1> QED
    BY ZenonT(30), <1>2, <1>5, <1>9, <1>10, <1>11, <1>12 DEF GraphInv

\* addDependency() adds one edge, and no cycle: the nodes that are not above the
\* parent can be moved to higher ranks.
LEMMA AddDependencyGraph ==
    ASSUME GraphInv, NEW parent \in Index, NEW child \in Index, AddDependency(parent, child)
    PROVE  GraphInv'
<1>1. PICK k \in Nat : k + 1 = size
    BY DagAssumption DEF GraphInv
<1>2. /\ parent \in 0..k /\ child \in 0..k /\ size' = size /\ size - 1 = k
      /\ outs' = [outs EXCEPT ![parent] = Append(@, child)]
      /\ numIns' = [numIns EXCEPT ![child] = @ + 1]
      /\ Acyclic(parent, child)
    BY <1>1 DEF AddDependency
<1>3. /\ outs \in [Index -> Seq(0..k)]
      /\ numIns \in [Index -> Nat]
      /\ \A n \in Index : n >= size => outs[n] = <<>> /\ numIns[n] = 0
      /\ \A n \in Index : IsFiniteSet(Into(n)) /\ numIns[n] = Cardinality(Into(n))
    BY ZenonT(30), <1>2 DEF GraphInv
<1>0. PICK l \in 0..(k + 1) : l = k + 1 /\ l - 1 = k
    OBVIOUS
<1>a. PICK A \in SUBSET Index : A = {parent}
    BY ZenonT(30)
<1>4. outs' = [n \in Index |-> IF n \in A THEN Append(outs[n], child) ELSE outs[n]]
    BY ZenonT(30), <1>2, <1>3, <1>a
<1>5. /\ outs' \in [Index -> Seq(0..k)]
      /\ \A m \in Index :
           /\ Len(outs[m]) \in Nat
           /\ Len(outs'[m]) = IF m \in A THEN Len(outs[m]) + 1 ELSE Len(outs[m])
           /\ m \in A => outs'[m][Len(outs[m]) + 1] = child
           /\ \A i \in 1..Len(outs[m]) : outs'[m][i] = outs[m][i] /\ outs[m][i] \in 0..(l - 1)
      /\ \A n \in Index : n # child => Into(n)' = Into(n)
      /\ Into(child)' = Into(child) \cup {<<m, Len(outs[m]) + 1>> : m \in A}
  <2>1. /\ 0..(l - 1) \subseteq 0..k
        /\ outs \in [Index -> Seq(0..(l - 1))]
      BY ZenonT(30), <1>0, <1>3
  <2>2. child \in 0..k
      BY <1>2
  <2> QED
      BY ZenonT(30), <2>1, <2>2, <1>4, NewEdges
<1>6. Into(child)' = Into(child) \cup {<<parent, Len(outs[parent]) + 1>>}
    BY <1>5, <1>a
<1>7. <<parent, Len(outs[parent]) + 1>> \notin Into(child)
    BY <1>5 DEF Into
<1>8. IsFiniteSet(Into(child)') /\ Cardinality(Into(child)') = Cardinality(Into(child)) + 1
  <2> DEFINE e == <<parent, Len(outs[parent]) + 1>>
  <2>1. e \notin Into(child) /\ IsFiniteSet(Into(child)) /\ Into(child)' = Into(child) \cup {e}
      BY ZenonT(30), <1>3, <1>6, <1>7
  <2> HIDE DEF e
  <2>2. /\ IsFiniteSet(Into(child) \cup {e})
        /\ Cardinality(Into(child) \cup {e}) =
             IF e \in Into(child) THEN Cardinality(Into(child)) ELSE Cardinality(Into(child)) + 1
      BY ZenonT(30), <2>1, FS_AddElement
  <2> QED
      BY ZenonT(30), <2>1, <2>2
<1>9. ASSUME NEW n \in Index
      PROVE  /\ IsFiniteSet(Into(n)') /\ numIns'[n] = Cardinality(Into(n)')
             /\ n >= size => outs'[n] = <<>> /\ numIns'[n] = 0
  <2>1. n >= size => n # parent /\ n # child
      BY <1>1, <1>2
  <2>2. n # parent => outs'[n] = outs[n]
      BY <1>2, <1>3
  <2>3. numIns'[n] = IF n = child THEN numIns[n] + 1 ELSE numIns[n]
      BY <1>2, <1>3
  <2>4. CASE n = child
      BY <2>1, <2>3, <2>4, <1>3, <1>8
  <2>5. CASE n # child
      BY ZenonT(30), <2>1, <2>2, <2>3, <2>5, <1>3, <1>5
  <2> QED
      BY <2>4, <2>5
<1>10. \E f \in [Index -> Nat], b \in Nat : IsRank(f)' /\ \A n \in Index : f[n] < b
  <2>1. PICK f \in [Index -> Nat], b \in Nat : IsRank(f) /\ \A n \in Index : f[n] < b
      BY ZenonT(30) DEF GraphInv
  <2>2. PICK above \in SUBSET (0..(size - 1)) :
            /\ parent \in above /\ child \notin above
            /\ \A n \in above : Parents(n) \subseteq above
      BY <1>2 DEF Acyclic
  <2>3. PICK g \in [Index -> Nat] : g = [n \in Index |-> IF n \in above THEN f[n] ELSE f[n] + b]
    <3>1. \A n \in Index : f[n] \in Nat /\ f[n] + b \in Nat
        OBVIOUS
    <3> QED
        BY ZenonT(30), <3>1
  <2>4. b + b \in Nat /\ \A n \in Index : g[n] < b + b
      BY <2>1, <2>3
  <2>5. ASSUME NEW m \in Index, NEW i \in 1..Len(outs'[m]) PROVE g[m] < g[outs'[m][i]]
    <3>1. CASE i \in 1..Len(outs[m])
      <4>1. outs'[m][i] = outs[m][i] /\ outs[m][i] \in Index
        <5>1. 0..k \subseteq Index
            BY <1>1, DagAssumption DEF GraphInv, Index
        <5> QED
            BY ZenonT(30), <3>1, <1>0, <1>5, <5>1
      <4>2. f[m] < f[outs[m][i]]
          BY ZenonT(30), <3>1, <2>1 DEF IsRank
      <4>3. outs[m][i] \in above => m \in above
        <5>1. m \in Parents(outs[m][i])
            BY ZenonT(30), <3>1 DEF Parents, Edges
        <5> QED
            BY ZenonT(30), <5>1, <2>2
      <4> QED
          BY <4>1, <4>2, <4>3, <2>1, <2>3
    <3>2. CASE i \notin 1..Len(outs[m])
      <4>1. m = parent /\ i = Len(outs[m]) + 1
        <5>1. /\ Len(outs[m]) \in Nat
              /\ Len(outs'[m]) = IF m \in A THEN Len(outs[m]) + 1 ELSE Len(outs[m])
            BY ZenonT(30), <1>5
        <5> QED
            BY <3>2, <5>1, <1>a
      <4>2. outs'[m][i] = child
          BY ZenonT(30), <4>1, <1>5, <1>a
      <4>3. g[parent] = f[parent] /\ g[child] = f[child] + b /\ f[parent] < b
          BY <2>1, <2>2, <2>3
      <4>4. f[child] \in Nat /\ f[parent] \in Nat
          OBVIOUS
      <4> QED
          BY <4>1, <4>2, <4>3, <4>4
    <3> QED
        BY <3>1, <3>2
  <2>6. IsRank(g)'
    <3>1. \A m \in Index : \A i \in 1..Len(outs'[m]) : g[m] < g[outs'[m][i]]
        BY ZenonT(30), <2>5
    <3> QED
        BY ZenonT(30), <3>1 DEF IsRank
  <2> QED
      BY ZenonT(30), <2>4, <2>6
<1>11. numIns' \in [Index -> Nat]
    BY <1>2, <1>3
<1>12. size' \in 1..MaxNodes /\ size' - 1 = k
    BY <1>2 DEF GraphInv
<1> QED
    BY ZenonT(30), <1>2, <1>5, <1>9, <1>10, <1>11, <1>12 DEF GraphInv

\* Nothing else changes the graph.
LEMMA GraphFrame ==
    ASSUME GraphInv, size' = size, outs' = outs, numIns' = numIns
    PROVE  GraphInv'
<1>1. \A n \in Index : Into(n)' = Into(n)
    BY ZenonT(30) DEF Into
<1>2. ASSUME NEW f \in [Index -> Nat], IsRank(f) PROVE IsRank(f)'
    BY ZenonT(30), <1>2 DEF IsRank
<1>3. \E f \in [Index -> Nat], b \in Nat : IsRank(f)' /\ \A n \in Index : f[n] < b
    BY ZenonT(30), <1>2 DEF GraphInv
<1> QED
    BY ZenonT(30), <1>1, <1>3 DEF GraphInv

\* Before build() no node has a counter.
LEMMA BuilderStep ==
    ASSUME BuildInv, built = 0, UNCHANGED <<built, counterIndex, initialCounters>>
    PROVE  BuildInv'
<1>1. \A n \in Index : n >= built
    BY DagAssumption DEF Index
<1> QED
    BY ZenonT(30), <1>1 DEF BuildInv

\* build() gives the next node a counter that no other has.
LEMMA BuildStep ==
    ASSUME GraphInv, BuildInv, Build
    PROVE  BuildInv'
<1>1. /\ MaxNodes \in Nat \ {0} /\ Invalid = MaxNodes /\ Index = 0..(MaxNodes - 1)
      /\ built \in Nat /\ built <= Invalid /\ built' = built + 1 /\ built' \in 0..(Invalid + 1)
      /\ numIns' = numIns /\ numIns \in [Index -> Nat] /\ size \in 1..MaxNodes
      /\ \A n \in Index : n >= size => numIns[n] = 0
  <2>1. /\ built \in 0..(Invalid + 1) /\ built <= Invalid /\ built' = built + 1
        /\ numIns' = numIns /\ numIns \in [Index -> Nat] /\ size \in 1..MaxNodes
        /\ \A n \in Index : n >= size => numIns[n] = 0
      BY ZenonT(30) DEF Build, BuildInv, GraphInv
  <2>2. MaxNodes \in Nat \ {0} /\ Invalid = MaxNodes /\ Index = 0..(MaxNodes - 1)
      BY ZenonT(30), DagAssumption DEF Invalid, Index
  <2>3. built \in Nat /\ built' \in 0..(Invalid + 1)
      BY <2>1, <2>2
  <2> QED
      BY ZenonT(30), <2>1, <2>2, <2>3
<1>2. /\ initialCounters \in Seq(Nat) /\ Len(initialCounters) \in Nat
      /\ Len(initialCounters) <= built /\ counterIndex \in [Index -> Nat]
    BY DEF BuildInv
<1>3. CASE built < size /\ numIns[built] > 1
  <2>1. built \in Index /\ Len(initialCounters) < Invalid /\ numIns[built] \in Nat
      BY <1>1, <1>2, <1>3
  <2>2. /\ counterIndex' = [counterIndex EXCEPT ![built] = Len(initialCounters)]
        /\ initialCounters' = Append(initialCounters, numIns[built])
      BY <1>3 DEF Build
  <2>3. /\ initialCounters' \in Seq(Nat)
        /\ Len(initialCounters') = Len(initialCounters) + 1
        /\ \A i \in 1..Len(initialCounters) : initialCounters'[i] = initialCounters[i]
        /\ initialCounters'[Len(initialCounters) + 1] = numIns[built]
      BY <2>1, <2>2, <1>2, AppendIs
  <2>4. \A n \in Index : counterIndex'[n] = IF n = built THEN Len(initialCounters)
                                                         ELSE counterIndex[n]
      BY <2>2, <1>2
  <2>5. \A n \in Index : n # built => (n >= built' <=> n >= built)
      BY <1>1
  <2>6. ASSUME NEW n \in Index
        PROVE  /\ counterIndex'[n] = Invalid <=> n >= built' \/ numIns'[n] <= 1
               /\ counterIndex'[n] # Invalid =>
                    /\ counterIndex'[n] < Len(initialCounters')
                    /\ initialCounters'[counterIndex'[n] + 1] = numIns'[n]
               /\ n # built => counterIndex'[n] # Len(initialCounters)
    <3>1. CASE n = built
      <4>1. counterIndex'[n] = Len(initialCounters) /\ numIns'[n] = numIns[built]
          BY ZenonT(30), <3>1, <2>4, <1>1
      <4>2. /\ ~(n >= built') /\ ~(numIns[built] <= 1) /\ Len(initialCounters) # Invalid
            /\ Len(initialCounters) < Len(initialCounters')
        <5>1. built \in Nat /\ built' = built + 1 /\ Invalid \in Nat
            BY <1>1
        <5>2. ~(n >= built')
            BY <3>1, <5>1
        <5>3. ~(numIns[built] <= 1)
            BY <1>3, <2>1
        <5>4. Len(initialCounters) # Invalid
            BY <2>1, <1>2, <5>1
        <5>5. Len(initialCounters) < Len(initialCounters')
            BY <2>3, <1>2
        <5> QED
            BY <5>2, <5>3, <5>4, <5>5
      <4>3. initialCounters'[counterIndex'[n] + 1] = numIns'[n]
          BY ZenonT(30), <4>1, <2>3
      <4> QED
          BY ZenonT(30), <3>1, <4>1, <4>2, <4>3
    <3>2. CASE n # built
      <4>1. /\ counterIndex[n] = Invalid <=> n >= built \/ numIns[n] <= 1
            /\ counterIndex[n] # Invalid =>
                 /\ counterIndex[n] < Len(initialCounters)
                 /\ initialCounters[counterIndex[n] + 1] = numIns[n]
            /\ counterIndex[n] \in Nat
          BY ZenonT(30), <1>2 DEF BuildInv
      <4>2. counterIndex'[n] = counterIndex[n] /\ numIns'[n] = numIns[n]
          BY ZenonT(30), <3>2, <2>4, <1>1
      <4>3. counterIndex[n] # Invalid => counterIndex[n] + 1 \in 1..Len(initialCounters)
          BY <4>1, <1>2
      <4>4. counterIndex[n] # Invalid => initialCounters'[counterIndex[n] + 1] = numIns[n]
          BY ZenonT(30), <4>1, <4>3, <2>3
      <4> QED
          BY <3>2, <4>1, <4>2, <4>4, <2>1, <2>3, <2>5, <1>2
    <3> QED
        BY <3>1, <3>2
  <2>7. \A m, n \in Index : counterIndex'[m] = counterIndex'[n] /\ counterIndex'[n] # Invalid => m = n
    <3> SUFFICES ASSUME NEW m \in Index, NEW n \in Index, m # n,
                        counterIndex'[m] = counterIndex'[n], counterIndex'[n] # Invalid
                 PROVE  FALSE
        BY ZenonT(30)
    <3>1. m # built /\ n # built
        BY ZenonT(30), <2>4, <2>6
    <3> QED
        BY ZenonT(30), <3>1, <2>4 DEF BuildInv
  <2>8. counterIndex' \in [Index -> Nat]
      BY ZenonT(30), <2>1, <2>2, <1>2
  <2>9. Len(initialCounters') <= built'
      BY <2>3, <1>1, <1>2
  <2> QED
      BY ZenonT(30), <2>3, <2>6, <2>7, <2>8, <2>9, <1>1 DEF BuildInv
<1>4. CASE ~(built < size /\ numIns[built] > 1)
  <2>1. counterIndex' = counterIndex /\ initialCounters' = initialCounters
      BY <1>4 DEF Build
  <2>2. ASSUME NEW n \in Index PROVE n >= built' \/ numIns[n] <= 1 <=> n >= built \/ numIns[n] <= 1
      BY <1>1, <1>4
  <2>3. Len(initialCounters) <= built'
      BY <1>1, <1>2
  <2> QED
      BY ZenonT(30), <2>1, <2>2, <2>3, <1>1 DEF BuildInv
<1> QED
    BY <1>3, <1>4

-----------------------------------------------------------------------------
\* What a step of a strand means for the nodes: nothing, ...
LEMMA QuietNodes ==
    ASSUME NodeInv, UNCHANGED <<outs, counterIndex, counters, finished>>,
           \A e \in AllEdges : Told(e)' <=> Told(e),
           \A n \in Index : Pending(n)' <=> Pending(n)
    PROVE  NodeInv'
<1>1. \A n \in Index : Into(n)' = Into(n)
    BY ZenonT(30) DEF Into
<1>2. ASSUME NEW n \in Index PROVE Left(n)' = Left(n)
  <2>1. \A e \in Into(n) : e \in AllEdges
      BY ZenonT(30) DEF Into, AllEdges
  <2> QED
      BY ZenonT(30), <1>1, <2>1 DEF Left
<1>3. \A n \in Index : Begun(n)' <=> Begun(n)
    BY ZenonT(30) DEF Begun
<1>4. \A n \in Index : Parents(n)' = Parents(n)
    BY ZenonT(30) DEF Parents, Edges
<1>5. \A S \in SUBSET Index : Follows(S)' <=> Follows(S)
    BY ZenonT(30), <1>4 DEF Follows
<1> QED
    BY ZenonT(30), <1>1, <1>2, <1>3, <1>5 DEF NodeInv

\* ... the call of a node that was ready, ...
LEMMA WorkNodes ==
    ASSUME NodeInv, UNCHANGED <<outs, counterIndex, counters>>, NEW m \in Index,
           finished \in [Index -> {0, 1}], finished' = [finished EXCEPT ![m] = 1], Pending(m),
           \A e \in AllEdges : Told(e)' <=> Told(e),
           \A n \in Index : Pending(n)' <=> Pending(n) /\ n # m
    PROVE  NodeInv'
<1>1. \A n \in Index : Into(n)' = Into(n)
    BY ZenonT(30) DEF Into
<1>2. ASSUME NEW n \in Index PROVE Left(n)' = Left(n)
  <2>1. \A e \in Into(n) : e \in AllEdges
      BY ZenonT(30) DEF Into, AllEdges
  <2> QED
      BY ZenonT(30), <1>1, <2>1 DEF Left
<1>3. \A n \in Index : finished'[n] = IF n = m THEN 1 ELSE finished[n]
    BY ZenonT(30)
<1>4. \A n \in Index : Begun(n)' <=> Begun(n)
    BY ZenonT(30), <1>3 DEF Begun
<1>5. \A n \in Index : Parents(n)' = Parents(n)
    BY ZenonT(30) DEF Parents, Edges
<1>6. \A S \in SUBSET Index : Follows(S)' <=> Follows(S)
    BY ZenonT(30), <1>5 DEF Follows
<1>7. \A n \in Index : Pending(n)' => finished'[n] = 0
    BY ZenonT(30), <1>3 DEF NodeInv
<1> QED
    BY ZenonT(30), <1>1, <1>2, <1>4, <1>6, <1>7 DEF NodeInv

\* A node that is ready or called is not below the root.
LEMMA AboveRoot ==
    ASSUME GraphInv, NodeInv, NEW f \in [Index -> Nat], IsRank(f), NEW n \in Index, Begun(n)
    PROVE  f[Root] <= f[n]
<1>0. Root \in Index
    BY DagAssumption DEF Root, Index
<1> DEFINE S == {m \in Index : f[Root] <= f[m]}
<1>1. ASSUME NEW m \in Index, Parents(m) # {}, Parents(m) \subseteq S PROVE m \in S
  <2>1. PICK p \in Index : \E i \in 1..Len(outs[p]) : outs[p][i] = m
      BY ZenonT(30), <1>1 DEF Parents, Edges
  <2>2. p \in Parents(m)
      BY ZenonT(30), <2>1 DEF Parents, Edges
  <2>3. f[Root] <= f[p]
      BY ZenonT(30), <1>1, <2>2
  <2>4. f[p] < f[m]
      BY ZenonT(30), <2>1 DEF IsRank
  <2> QED
      BY <1>0, <2>3, <2>4
<1>2. S \in SUBSET Index /\ Follows(S)
  <2>1. Root \in S
      BY <1>0
  <2> HIDE DEF S
  <2>2. S \in SUBSET Index
      BY ZenonT(30) DEF S
  <2> QED
      BY ZenonT(30), <1>1, <2>1, <2>2 DEF Follows
<1> HIDE DEF S
<1>3. n \in S
    BY ZenonT(30), <1>2 DEF NodeInv
<1> QED
    BY ZenonT(30), <1>3 DEF S

\* A decrement changes one counter.
LEMMA OneLess ==
    ASSUME counters \in Seq(Int), NEW c \in Nat, c < Len(counters),
           counters' = [counters EXCEPT ![c + 1] = @ - 1]
    PROVE  /\ counters' \in Seq(Int) /\ Len(counters') = Len(counters)
           /\ counters'[c + 1] = counters[c + 1] - 1
           /\ \A d \in Nat : d < Len(counters) /\ d # c => counters'[d + 1] = counters[d + 1]
    OBVIOUS

\* ... or that notify() is told of one more edge, and makes a node ready if it
\* is the last edge to it.
LEMMA NotifyNodes ==
    ASSUME GraphInv, BuildInv, IsBuilt, NodeInv, UNCHANGED <<outs, counterIndex, finished>>,
           counters \in Seq(Int), Len(counters) = Len(initialCounters),
           finished \in [Index -> {0, 1}],
           NEW m \in Index, NEW i \in 1..Len(outs[m]), finished[m] = 1, ~Told(<<m, i>>),
           NEW x \in Index, x = outs[m][i], NEW c, c = counterIndex[x],
           NEW ready \in BOOLEAN, ready <=> c = Invalid \/ counters[c + 1] = 1,
           counters' = IF c = Invalid THEN counters ELSE [counters EXCEPT ![c + 1] = @ - 1],
           \A d \in AllEdges : Told(d)' <=> Told(d) \/ d = <<m, i>>,
           \A n \in Index : Pending(n)' <=> Pending(n) \/ (ready /\ n = x)
    PROVE  ~Begun(x) /\ NodeInv'
<1> DEFINE e == <<m, i>>
<1>0. Root \in Index /\ c \in Nat
  <2>1. Root \in Index
      BY DagAssumption DEF Root, Index
  <2> QED
      BY ZenonT(30), <2>1 DEF BuildInv
<1>1. \A n \in Index : Into(n)' = Into(n)
    BY ZenonT(30) DEF Into
<1>2. e \in Index \X (Nat \ {0}) /\ e[1] = m /\ e[2] = i /\ i <= Len(outs[m])
  <2>1. outs[m] \in Seq(0..(size - 1))
      BY ZenonT(30) DEF GraphInv
  <2>2. Len(outs[m]) \in Nat
      BY <2>1
  <2>3. i \in Nat \ {0} /\ i <= Len(outs[m])
      BY <2>2
  <2> QED
      BY ZenonT(30), <2>3
<1>3. e \in Left(x)
    BY ZenonT(30), <1>2 DEF Left, Into
<1>4. \A n \in Index : \A d \in Into(n) : d \in AllEdges
    BY ZenonT(30) DEF Into, AllEdges
<1>5. Left(x)' = Left(x) \ {e}
    BY ZenonT(30), <1>1, <1>4 DEF Left
<1>6. ASSUME NEW n \in Index, n # x PROVE Left(n)' = Left(n)
  <2>1. e \notin Into(n)
      BY ZenonT(30), <1>2, <1>6 DEF Into
  <2> QED
      BY ZenonT(30), <1>1, <1>4, <2>1 DEF Left
<1>7. Begun(m)
    BY ZenonT(30) DEF Begun
<1>8. x # Root
  <2>1. PICK f \in [Index -> Nat] : IsRank(f)
      BY ZenonT(30) DEF GraphInv
  <2>2. f[Root] <= f[m]
      BY ZenonT(30), <1>7, <2>1, AboveRoot
  <2>3. f[m] < f[x]
      BY ZenonT(30), <2>1 DEF IsRank
  <2>4. f[Root] \in Nat /\ f[m] \in Nat /\ f[x] \in Nat
      BY ZenonT(30), <1>0
  <2>5. f[Root] # f[x]
      BY <2>2, <2>3, <2>4
  <2> QED
      BY ZenonT(30), <2>5
<1>9. ~Begun(x)
    BY ZenonT(30), <1>3, <1>8 DEF NodeInv
<1>10. IsFiniteSet(Into(x)) /\ numIns[x] = Cardinality(Into(x))
    BY ZenonT(30) DEF GraphInv
<1>11. Left(x) \subseteq Into(x) /\ e \in Into(x)
    BY ZenonT(30), <1>3 DEF Left
<1>12. IsFiniteSet(Left(x))
    BY ZenonT(30), <1>10, <1>11, FS_Subset
<1>13. /\ IsFiniteSet(Left(x) \ {e})
       /\ Cardinality(Left(x) \ {e}) = Cardinality(Left(x)) - 1
       /\ Cardinality(Left(x)) \in Nat /\ Cardinality(Left(x) \ {e}) \in Nat
    BY ZenonT(30), <1>3, <1>12, FS_RemoveElement, FS_CardinalityType
<1>14. ready <=> Left(x)' = {}
  <2>1. CASE c = Invalid
    <3>1. numIns[x] <= 1
      <4>1. x >= built \/ numIns[x] <= 1
          BY ZenonT(30), <2>1 DEF BuildInv
      <4>2. ~(x >= built)
          BY DagAssumption DEF IsBuilt, Index, Invalid
      <4> QED
          BY ZenonT(30), <4>1, <4>2
    <3>2. /\ IsFiniteSet(Into(x) \ {e})
          /\ Cardinality(Into(x) \ {e}) = Cardinality(Into(x)) - 1
          /\ Cardinality(Into(x)) \in Nat /\ Cardinality(Into(x) \ {e}) \in Nat
        BY ZenonT(30), <1>10, <1>11, FS_RemoveElement, FS_CardinalityType
    <3>3. Cardinality(Into(x)) <= 1
        BY ZenonT(30), <1>10, <3>1
    <3>4. Cardinality(Into(x) \ {e}) = 0
        BY <3>2, <3>3
    <3>5. Into(x) \ {e} = {}
        BY ZenonT(30), <3>2, <3>4, FS_EmptySet
    <3> QED
        BY ZenonT(30), <1>5, <1>11, <2>1, <3>5
  <2>2. CASE c # Invalid
    <3>1. counters[c + 1] = Cardinality(Left(x))
        BY ZenonT(30), <2>2 DEF NodeInv
    <3>2. ready <=> Cardinality(Left(x)) = 1
        BY ZenonT(30), <2>2, <3>1
    <3>3. Cardinality(Left(x)) = 1 <=> Cardinality(Left(x) \ {e}) = 0
        BY <1>13
    <3>4. Cardinality(Left(x) \ {e}) = 0 <=> Left(x) \ {e} = {}
        BY ZenonT(30), <1>13, FS_EmptySet
    <3> QED
        BY ZenonT(30), <1>5, <3>2, <3>3, <3>4
  <2> QED
      BY ZenonT(30), <2>1, <2>2
<1>15. \A n \in Index : Begun(n)' <=> Begun(n) \/ (ready /\ n = x)
    BY ZenonT(30) DEF Begun
<1>16. ASSUME NEW n \in Index, counterIndex[n] # Invalid
       PROVE  counters'[counterIndex[n] + 1] = Cardinality(Left(n)')
  <2>1. counters[counterIndex[n] + 1] = Cardinality(Left(n))
      BY ZenonT(30), <1>16 DEF NodeInv
  <2>2. CASE n = x
    <3>1. c < Len(counters)
        BY ZenonT(30), <1>16, <2>2 DEF BuildInv
    <3>2. counters' = [counters EXCEPT ![c + 1] = @ - 1]
        BY ZenonT(30), <1>16, <2>2
    <3>3. counters'[c + 1] = counters[c + 1] - 1
        BY ZenonT(30), <1>0, <3>1, <3>2, OneLess
    <3> QED
        BY ZenonT(30), <1>5, <1>13, <2>1, <2>2, <3>3
  <2>3. CASE n # x
    <3>1. Left(n)' = Left(n)
        BY ZenonT(30), <1>6, <2>3
    <3>2. counterIndex[n] # c
        BY ZenonT(30), <1>16, <2>3 DEF BuildInv
    <3>3. counterIndex[n] < Len(counters) /\ counterIndex[n] \in Nat
        BY ZenonT(30), <1>16 DEF BuildInv
    <3>4. CASE c = Invalid
        BY ZenonT(30), <2>1, <3>1, <3>4
    <3>5. CASE c # Invalid
      <4>1. c < Len(counters)
          BY ZenonT(30), <3>5 DEF BuildInv
      <4>2. counters' = [counters EXCEPT ![c + 1] = @ - 1]
          BY ZenonT(30), <3>5
      <4>3. counters'[counterIndex[n] + 1] = counters[counterIndex[n] + 1]
          BY ZenonT(30), <1>0, <3>2, <3>3, <4>1, <4>2, OneLess
      <4> QED
          BY ZenonT(30), <2>1, <3>1, <4>3
    <3> QED
        BY ZenonT(30), <3>4, <3>5
  <2> QED
      BY ZenonT(30), <2>2, <2>3
<1>17. \A n \in Index : Pending(n)' => finished'[n] = 0
  <2>1. finished[x] # 1
      BY ZenonT(30), <1>9 DEF Begun
  <2>2. finished[x] = 0
      BY ZenonT(30), <2>1
  <2> QED
      BY ZenonT(30), <2>2 DEF NodeInv
<1>18. \A n \in Index : Begun(n)' /\ n # Root => Left(n)' = {}
  <2>1. \A n \in Index : Begun(n) => n # x
      BY ZenonT(30), <1>9
  <2> QED
      BY ZenonT(30), <1>6, <1>14, <1>15, <2>1 DEF NodeInv
<1>19. \A n \in Index : n = Root \/ (Into(n)' # {} /\ Left(n)' = {}) => Begun(n)'
    BY ZenonT(30), <1>1, <1>6, <1>14, <1>15 DEF NodeInv
<1>20. \A n \in Index : Parents(n)' = Parents(n)
    BY ZenonT(30) DEF Parents, Edges
<1>21. \A S \in SUBSET Index : Follows(S)' <=> Follows(S)
    BY ZenonT(30), <1>20 DEF Follows
<1>22. ASSUME NEW S \in SUBSET Index, Follows(S), NEW n \in Index, Begun(n)' PROVE n \in S
  <2>1. CASE Begun(n)
      BY ZenonT(30), <1>22, <2>1 DEF NodeInv
  <2>2. CASE ready /\ n = x
    <3>1. ASSUME NEW p \in Parents(x) PROVE p \in S
      <4>1. p \in Index
          BY ZenonT(30) DEF Parents
      <4>2. PICK j \in 1..Len(outs[p]) : outs[p][j] = x
          BY ZenonT(30) DEF Parents, Edges
      <4>3. <<p, j>> \in Into(x)
        <5>1. outs[p] \in Seq(0..(size - 1))
            BY ZenonT(30), <4>1 DEF GraphInv
        <5>2. Len(outs[p]) \in Nat
            BY <5>1
        <5>3. j \in Nat \ {0} /\ j <= Len(outs[p])
            BY <5>2
        <5> QED
            BY ZenonT(30), <4>1, <4>2, <5>3 DEF Into
      <4>4. Told(<<p, j>>)'
          BY ZenonT(30), <1>1, <1>14, <2>2, <4>3 DEF Left
      <4>5. finished[p] = 1
          BY ZenonT(30), <4>4 DEF Told
      <4> QED
          BY ZenonT(30), <1>22, <4>1, <4>5 DEF NodeInv, Begun
    <3>2. m \in Parents(x)
        BY ZenonT(30) DEF Parents, Edges
    <3> QED
        BY ZenonT(30), <1>22, <2>2, <3>1, <3>2 DEF Follows
  <2> QED
      BY ZenonT(30), <1>15, <1>22, <2>1, <2>2
<1> HIDE DEF e
<1>23. \A n \in Index : counterIndex'[n] # Invalid =>
         counters'[counterIndex'[n] + 1] = Cardinality(Left(n)')
    BY ZenonT(30), <1>16
<1>24. \A n \in Index : counterIndex'[n] # Invalid =>
         counters'[counterIndex'[n] + 1] = Cardinality(Left(n))'
    BY <1>23
<1>25. \A S \in SUBSET Index : Follows(S)' => \A n \in Index : Begun(n)' => n \in S
    BY ZenonT(30), <1>21, <1>22
<1> QED
    BY ZenonT(30), <1>9, <1>17, <1>18, <1>19, <1>24, <1>25 DEF NodeInv

-----------------------------------------------------------------------------
\* What a step of one strand leaves alone.
LEMMA MoveStrand ==
    ASSUME strands \in Seq(StrandRec), NEW s \in 1..Len(strands), NEW r \in StrandRec,
           strands' = [strands EXCEPT ![s] = r]
    PROVE  /\ strands' \in Seq(StrandRec) /\ Len(strands') = Len(strands)
           /\ strands'[s] = r
           /\ \A t \in 1..Len(strands) : t # s => strands'[t] = strands[t]
           /\ \A t \in 1..Len(strands) : strands[t] \in StrandRec
<1> DEFINE R == StrandRec
<1>1. strands \in Seq(R) /\ r \in R
    OBVIOUS
<1> HIDE DEF R
<1>2. /\ strands' \in Seq(R) /\ Len(strands') = Len(strands)
      /\ strands'[s] = r
      /\ \A t \in 1..Len(strands) : t # s => strands'[t] = strands[t]
      /\ \A t \in 1..Len(strands) : strands[t] \in R
    BY <1>1
<1> QED
    BY ZenonT(30), <1>2 DEF R

\* The other strands hold what they held.
LEMMA OthersHold ==
    ASSUME NEW t, UNCHANGED outs, strands'[t] = strands[t], NEW k, NEW n
    PROVE  Holds(t, k, n)' <=> Holds(t, k, n)
<1>1. Target(t)' = Target(t)
    BY ZenonT(30) DEF Target
<1> QED
    BY ZenonT(30), <1>1 DEF Holds

\* Of which edges notify() was told when a strand goes through the outs of its
\* node: the edges of the node that the strand passed, and the others as before.
LEMMA ToldStep ==
    ASSUME StrandInv, UNCHANGED finished,
           NEW s \in 1..Len(strands), s \in 1..Len(strands'), NEW m,
           strands[s].at \in Active, strands[s].node = m,
           strands'[s].at \in Active, strands'[s].node = m,
           \A t \in 1..Len(strands) : t # s => t \in 1..Len(strands') /\ strands'[t] = strands[t],
           \A t \in 1..Len(strands') : t \notin 1..Len(strands) => strands'[t].at \notin Active,
           NEW e
    PROVE  /\ e[1] # m => (Told(e)' <=> Told(e))
           /\ e[1] = m => /\ Told(e) <=> e[2] <= Passed(strands[s])
                          /\ Told(e)' <=> e[2] <= Passed(strands[s])'
<1>1. \A t \in 1..Len(strands') :
        strands'[t].at \in Active /\ t # s => t \in 1..Len(strands) /\ strands'[t] = strands[t]
    BY ZenonT(30)
<1>2. ASSUME e[1] # m PROVE Told(e)' <=> Told(e)
  <2> DEFINE Ok(r) == r.at \in Active /\ r.node = e[1] => e[2] <= Passed(r)
  <2>1. Told(e) <=> finished[e[1]] = 1 /\ \A t \in 1..Len(strands) : Ok(strands[t])
      BY ZenonT(30) DEF Told
  <2>2. Told(e)' <=> finished[e[1]] = 1 /\ \A t \in 1..Len(strands') : Ok(strands'[t])
      BY ZenonT(30) DEF Told, Passed
  <2>3. Ok(strands[s]) /\ Ok(strands'[s])
      BY ZenonT(30), <1>2
  <2>4. \A t \in 1..Len(strands') : t \notin 1..Len(strands) => Ok(strands'[t])
      BY ZenonT(30)
  <2> HIDE DEF Ok
  <2> QED
      BY ZenonT(30), <2>1, <2>2, <2>3, <2>4
<1>3. ASSUME e[1] = m PROVE Told(e) <=> e[2] <= Passed(strands[s])
  <2>1. \A t \in 1..Len(strands) : strands[t].at \in Active /\ strands[t].node = m => t = s
      BY ZenonT(30) DEF StrandInv
  <2>2. finished[m] = 1
      BY ZenonT(30) DEF StrandInv
  <2> QED
      BY ZenonT(30), <1>3, <2>1, <2>2 DEF Told
<1>4. ASSUME e[1] = m PROVE Told(e)' <=> e[2] <= Passed(strands[s])'
  <2>1. \A t \in 1..Len(strands') : strands'[t].at \in Active /\ strands'[t].node = m => t = s
      BY ZenonT(30), <1>1 DEF StrandInv
  <2>2. finished[m] = 1
      BY ZenonT(30) DEF StrandInv
  <2> QED
      BY ZenonT(30), <1>4, <2>1, <2>2 DEF Told
<1> QED
    BY ZenonT(30), <1>2, <1>3, <1>4

\* A strand that has passed all the outs of its node leaves it.
LEMMA ToldLeave ==
    ASSUME StrandInv, UNCHANGED finished, NEW s \in 1..Len(strands), Len(strands') = Len(strands),
           strands[s].at = "outs", NEW m \in Index, strands[s].node = m,
           strands[s].out \in Nat, Len(outs[m]) \in Nat, strands[s].out > Len(outs[m]),
           strands'[s].at \notin Active,
           \A t \in 1..Len(strands) : t # s => strands'[t] = strands[t],
           NEW e \in AllEdges
    PROVE  Told(e)' <=> Told(e)
<1>0. e[1] \in Index /\ e[2] \in Nat /\ e[2] <= Len(outs[e[1]]) /\ "outs" \in Active
    BY ZenonT(30) DEF AllEdges, Active
<1>1. CASE e[1] # m
  <2> DEFINE Ok(r) == r.at \in Active /\ r.node = e[1] => e[2] <= Passed(r)
  <2>1. Told(e) <=> finished[e[1]] = 1 /\ \A t \in 1..Len(strands) : Ok(strands[t])
      BY ZenonT(30) DEF Told
  <2>2. Told(e)' <=> finished[e[1]] = 1 /\ \A t \in 1..Len(strands) : Ok(strands'[t])
      BY ZenonT(30) DEF Told, Passed
  <2>3. Ok(strands[s]) /\ Ok(strands'[s])
      BY ZenonT(30), <1>1
  <2> HIDE DEF Ok
  <2> QED
      BY ZenonT(30), <2>1, <2>2, <2>3
<1>2. CASE e[1] = m
  <2>1. \A t \in 1..Len(strands) : strands[t].at \in Active /\ strands[t].node = m => t = s
      BY ZenonT(30), <1>0 DEF StrandInv
  <2>2. finished[m] = 1
      BY ZenonT(30), <1>0 DEF StrandInv
  <2>3. e[2] <= strands[s].out - 1
    <3>1. e[2] <= Len(outs[m])
        BY ZenonT(30), <1>0, <1>2
    <3> QED
        BY <1>0, <3>1
  <2>4. Passed(strands[s]) = strands[s].out - 1
      BY ZenonT(30) DEF Passed
  <2>5. Told(e)
      BY ZenonT(30), <1>2, <2>1, <2>2, <2>3, <2>4 DEF Told
  <2>6. \A t \in 1..Len(strands) : strands'[t].at \in Active => strands'[t].node # m
      BY ZenonT(30), <2>1
  <2>7. Told(e)'
      BY ZenonT(30), <1>2, <2>2, <2>6 DEF Told
  <2> QED
      BY ZenonT(30), <2>5, <2>7
<1> QED
    BY ZenonT(30), <1>1, <1>2

\* invoke() of a node that is ready.
LEMMA WorkStep ==
    ASSUME GraphInv, BuildInv, IsBuilt, StrandInv, PlaceInv, NodeInv,
           NEW s \in 1..Len(strands), Work(s)
    PROVE  StrandInv' /\ PlaceInv' /\ NodeInv' /\ Goes(s, {"outs"})
<1>0. 0 # 1
    OBVIOUS
<1>1. PICK m \in Index : m = strands[s].node
  <2>1. strands[s] \in StrandRec
      BY DEF StrandInv
  <2> QED
      BY ZenonT(30), <2>1 DEF StrandRec
<1> DEFINE r == [strands[s] EXCEPT !.at = "outs", !.out = 1, !.toInvoke = Invalid]
<1>2. /\ r \in StrandRec /\ r.at = "outs" /\ r.node = m /\ r.out = 1 /\ r.toInvoke = Invalid
      /\ strands[s].at = "work" /\ strands[s].node = m
  <2>1. strands[s] \in StrandRec
      BY DEF StrandInv
  <2> QED
      BY ZenonT(30), <1>1, <2>1 DEF StrandRec, Active, Work
<1>3. strands' = [strands EXCEPT ![s] = r]
    BY ZenonT(30) DEF Work, Move
<1> HIDE DEF r
<1>4. /\ strands' \in Seq(StrandRec) /\ Len(strands') = Len(strands)
      /\ strands'[s] = r
      /\ \A t \in 1..Len(strands) : t # s => strands'[t] = strands[t]
    BY ZenonT(30), <1>2, <1>3, MoveStrand DEF StrandInv
<1>5. Holds(s, "work", m) /\ "work" \in Places
    BY ZenonT(30), <1>2 DEF Holds, Places
<1>6. Pending(m)
    BY ZenonT(30), <1>5 DEF Pending
<1>7. finished[m] = 0
    BY ZenonT(30), <1>6 DEF NodeInv
<1>8. finished' = [finished EXCEPT ![m] = 1] /\ finished \in [Index -> {0, 1}]
  <2>1. finished' = [finished EXCEPT ![m] = finished[m] + 1] /\ finished \in [Index -> {0, 1}]
      BY ZenonT(30), <1>1 DEF Work, StrandInv
  <2>2. 0 + 1 = 1
      OBVIOUS
  <2> QED
      BY ZenonT(30), <1>7, <2>1, <2>2
<1>9. \A n \in Index : finished'[n] = IF n = m THEN 1 ELSE finished[n]
    BY ZenonT(30), <1>8
<1>10. UNCHANGED <<size, outs, numIns, counterIndex, initialCounters, built, counters>>
    BY ZenonT(30) DEF Work, graphVars
<1>11. Invalid \notin Index /\ Len(outs[m]) \in Nat
  <2>1. outs[m] \in Seq(0..(size - 1))
      BY ZenonT(30) DEF GraphInv
  <2> QED
      BY <2>1, DagAssumption DEF Invalid, Index
<1>12. StrandInv'
  <2>1. finished' \in [Index -> {0, 1}]
      BY ZenonT(30), <1>8
  <2>2. \A t \in 1..Len(strands) : strands[t] \in StrandRec
      BY DEF StrandInv
  <2>3. ASSUME NEW t \in 1..Len(strands), t # s, strands[t].at \in Active
        PROVE  strands[t].node # m /\ finished'[strands[t].node] = 1
    <3>1. strands[t].node \in Index
        BY ZenonT(30), <2>2 DEF StrandRec
    <3>2. finished[strands[t].node] = 1
        BY ZenonT(30), <2>3 DEF StrandInv
    <3> QED
        BY ZenonT(30), <1>0, <1>7, <1>9, <3>1, <3>2
  <2>4. 1 \in 1..(Len(outs[m]) + 1)
      BY <1>11
  <2>5. ASSUME NEW t \in 1..Len(strands), strands'[t].at \in Active
        PROVE  /\ finished'[strands'[t].node] = 1
               /\ strands'[t].out \in 1..(Edges(strands[t].node)' + 1)
               /\ strands'[t].at # "outs" => /\ strands'[t].out <= Edges(strands[t].node)'
                                             /\ strands'[t].toInvoke # Invalid
    <3>1. CASE t = s
        BY ZenonT(30), <1>2, <1>4, <1>9, <1>10, <2>4, <3>1 DEF Edges
    <3>2. CASE t # s
      <4>1. strands'[t] = strands[t]
          BY ZenonT(30), <1>4, <3>2
      <4>2. finished'[strands[t].node] = 1
          BY ZenonT(30), <2>3, <2>5, <3>2, <4>1
      <4> QED
          BY ZenonT(30), <1>10, <2>5, <4>1, <4>2 DEF StrandInv, Edges
    <3> QED
        BY ZenonT(30), <3>1, <3>2
  <2>6. ASSUME NEW t \in 1..Len(strands), NEW u \in 1..Len(strands), strands'[t].at \in Active,
               strands'[u].at \in Active, strands'[t].node = strands'[u].node
        PROVE  t = u
    <3>1. CASE t = s \/ u = s
        BY ZenonT(30), <1>2, <1>4, <2>3, <2>6, <3>1
    <3>2. CASE t # s /\ u # s
        BY ZenonT(30), <1>4, <2>6, <3>2 DEF StrandInv
    <3> QED
        BY ZenonT(30), <3>1, <3>2
  <2> QED
      BY ZenonT(30), <1>4, <1>10, <2>1, <2>5, <2>6 DEF StrandInv
<1>13. ASSUME NEW e \in AllEdges PROVE Told(e)' <=> Told(e)
  <2>0. e[1] \in Index /\ e[2] \in Nat \ {0}
      BY ZenonT(30) DEF AllEdges
  <2>1. CASE e[1] # m
    <3> DEFINE Ok(q) == q.at \in Active /\ q.node = e[1] => e[2] <= Passed(q)
    <3>1. Told(e) <=> finished[e[1]] = 1 /\ \A t \in 1..Len(strands) : Ok(strands[t])
        BY ZenonT(30) DEF Told
    <3>2. Told(e)' <=> finished[e[1]] = 1 /\ \A t \in 1..Len(strands) : Ok(strands'[t])
        BY ZenonT(30), <1>4, <1>9, <2>0, <2>1 DEF Told, Passed
    <3>3. Ok(strands[s]) /\ Ok(strands'[s])
        BY ZenonT(30), <1>2, <1>4, <2>1
    <3> HIDE DEF Ok
    <3> QED
        BY ZenonT(30), <1>4, <3>1, <3>2, <3>3
  <2>2. CASE e[1] = m
    <3>1. ~Told(e)
        BY ZenonT(30), <1>0, <1>7, <2>2 DEF Told
    <3>2. Passed(strands[s])' = 0
      <4>1. 1 - 1 = 0
          OBVIOUS
      <4> QED
          BY ZenonT(30), <1>2, <1>4, <4>1 DEF Passed
    <3>3. ~(e[2] <= 0)
        BY <2>0
    <3>4. ~Told(e)'
        BY ZenonT(30), <1>2, <1>4, <2>2, <3>2, <3>3 DEF Told, Active
    <3> QED
        BY ZenonT(30), <3>1, <3>4
  <2> QED
      BY ZenonT(30), <2>1, <2>2
<1>14. \A n \in Index : ~Holds(s, "work", n)' /\ ~Holds(s, "kept", n)' /\ ~Holds(s, "next", n)'
    BY ZenonT(30), <1>2, <1>4, <1>11 DEF Holds
<1>15. ASSUME NEW t \in 1..Len(strands), t # s, NEW k, NEW n PROVE Holds(t, k, n)' <=> Holds(t, k, n)
    BY ZenonT(30), <1>4, <1>10, <1>15, OthersHold
<1>16. \A n \in Index, k \in Places : ~Holds(s, k, n)'
    BY ZenonT(30), <1>14 DEF Places
<1>17. PlaceInv'
  <2>1. ASSUME NEW t \in 1..Len(strands), NEW u \in 1..Len(strands), NEW j \in Places,
               NEW k \in Places, NEW n \in Index, Holds(t, j, n)', Holds(u, k, n)'
        PROVE  t = u /\ j = k
    <3>1. t # s /\ u # s
        BY ZenonT(30), <1>16, <2>1
    <3>2. Holds(t, j, n) /\ Holds(u, k, n)
        BY ZenonT(30), <1>15, <2>1, <3>1
    <3> QED
        BY ZenonT(30), <3>2 DEF PlaceInv
  <2> QED
      BY ZenonT(30), <1>4, <2>1 DEF PlaceInv
<1>18. ASSUME NEW n \in Index PROVE Pending(n)' <=> Pending(n) /\ n # m
  <2>1. \A k \in Places : Holds(s, k, n) => n = m
      BY ZenonT(30), <1>2 DEF Holds, Active, Places
  <2>2. \A t \in 1..Len(strands), k \in Places : Holds(t, k, m) => t = s
      BY ZenonT(30), <1>5 DEF PlaceInv
  <2> QED
      BY ZenonT(30), <1>4, <1>15, <1>16, <2>1, <2>2 DEF Pending
<1>19. NodeInv'
    BY ZenonT(30), <1>6, <1>8, <1>10, <1>13, <1>18, WorkNodes
<1>20. Goes(s, {"outs"})
    BY ZenonT(30), <1>2, <1>4 DEF Goes
<1> QED
    BY ZenonT(30), <1>12, <1>17, <1>19, <1>20

\* A strand that goes through the outs of a node stays with the node.
LEMMA StrandStays ==
    ASSUME StrandInv, UNCHANGED <<outs, initialCounters, finished>>,
           counters' \in Seq(Int), Len(counters') = Len(counters),
           strands' \in Seq(StrandRec), NEW s \in 1..Len(strands), NEW m,
           \A t \in 1..Len(strands) : t # s => t \in 1..Len(strands') /\ strands'[t] = strands[t],
           \A t \in 1..Len(strands') : t \notin 1..Len(strands) => strands'[t].at \notin Active,
           strands'[s].at \in Active =>
             /\ strands[s].at \in Active /\ strands[s].node = m /\ strands'[s].node = m
             /\ strands'[s].out \in 1..(Len(outs[m]) + 1)
             /\ strands'[s].at # "outs" => /\ strands'[s].out <= Len(outs[m])
                                           /\ strands'[s].toInvoke # Invalid
    PROVE  StrandInv'
<1>1. ASSUME NEW t \in 1..Len(strands'), strands'[t].at \in Active
      PROVE  /\ t \in 1..Len(strands) /\ strands[t].at \in Active
             /\ strands'[t].node = strands[t].node
    BY ZenonT(30), <1>1
<1>2. ASSUME NEW t \in 1..Len(strands'), strands'[t].at \in Active
      PROVE  /\ finished'[strands'[t].node] = 1
             /\ strands'[t].out \in 1..(Edges(strands[t].node)' + 1)
             /\ strands'[t].at # "outs" => /\ strands'[t].out <= Edges(strands[t].node)'
                                           /\ strands'[t].toInvoke # Invalid
  <2>1. finished'[strands'[t].node] = 1
      BY ZenonT(30), <1>1, <1>2 DEF StrandInv
  <2>2. CASE t = s
      BY ZenonT(30), <1>2, <2>1, <2>2 DEF Edges
  <2>3. CASE t # s
    <3>1. t \in 1..Len(strands) /\ strands'[t] = strands[t]
        BY ZenonT(30), <1>1, <1>2, <2>3
    <3> QED
        BY ZenonT(30), <1>2, <2>1, <3>1 DEF StrandInv, Edges
  <2> QED
      BY ZenonT(30), <2>2, <2>3
<1>3. ASSUME NEW t \in 1..Len(strands'), NEW u \in 1..Len(strands'), strands'[t].at \in Active,
             strands'[u].at \in Active, strands'[t].node = strands'[u].node
      PROVE  t = u
    BY ZenonT(30), <1>1, <1>3 DEF StrandInv
<1>4. Len(counters') = Len(initialCounters') /\ finished' \in [Index -> {0, 1}]
    BY ZenonT(30) DEF StrandInv
<1> QED
    BY ZenonT(30), <1>2, <1>3, <1>4 DEF StrandInv

\* notify() of one of the outs.
LEMMA NotifyStep ==
    ASSUME GraphInv, BuildInv, IsBuilt, StrandInv, PlaceInv, NodeInv,
           NEW s \in 1..Len(strands), Notify(s)
    PROVE  StrandInv' /\ PlaceInv' /\ NodeInv' /\ Goes(s, {"outs", "add"})
<1>0. strands[s] \in StrandRec
    BY DEF StrandInv
<1>1. PICK m \in Index : m = strands[s].node
    BY ZenonT(30), <1>0 DEF StrandRec
<1>2. outs[m] \in Seq(0..(size - 1)) /\ size \in 1..MaxNodes
    BY ZenonT(30) DEF GraphInv
<1>3. Len(outs[m]) \in Nat
    BY <1>2
<1>4. PICK i \in 1..Len(outs[m]) : i = strands[s].out
  <2>1. strands[s].out \in 1..(Len(outs[m]) + 1) /\ strands[s].out <= Len(outs[m])
      BY ZenonT(30), <1>1 DEF Notify, StrandInv, Edges, Active
  <2> QED
      BY <1>3, <2>1
<1>5. PICK x \in Index : x = outs[m][i] /\ x = Target(s)
  <2>1. outs[m][i] \in 0..(size - 1)
      BY <1>2
  <2>2. outs[m][i] \in Index
      BY <1>2, <2>1, DagAssumption DEF Index
  <2> QED
      BY ZenonT(30), <1>1, <1>4, <2>2 DEF Target
<1>6. PICK c : c = counterIndex[x]
    OBVIOUS
<1>7. PICK ready \in BOOLEAN : ready <=> c = Invalid \/ counters[c + 1] = 1
    BY ZenonT(30)
<1>8. /\ strands[s].at = "outs"
      /\ counters' = IF c = Invalid THEN counters ELSE [counters EXCEPT ![c + 1] = @ - 1]
      /\ UNCHANGED <<size, outs, numIns, counterIndex, initialCounters, built, finished>>
    BY ZenonT(30), <1>5, <1>6 DEF Notify, graphVars
<1>9. /\ ~ready => strands' = [strands EXCEPT ![s] = [strands[s] EXCEPT !.out = @ + 1]]
      /\ ready /\ strands[s].toInvoke = Invalid =>
           strands' = [strands EXCEPT ![s] = [strands[s] EXCEPT !.out = @ + 1, !.toInvoke = x]]
      /\ ready /\ strands[s].toInvoke # Invalid =>
           strands' = [strands EXCEPT ![s] = [strands[s] EXCEPT !.at = "add"]]
    BY ZenonT(30), <1>5, <1>6, <1>7 DEF Notify, Move, Skip
<1>10. PICK r \in StrandRec :
         /\ strands' = [strands EXCEPT ![s] = r] /\ r.node = m
         /\ \/ ~ready /\ r.at = "outs" /\ r.out = i + 1 /\ r.toInvoke = strands[s].toInvoke
            \/ /\ ready /\ strands[s].toInvoke = Invalid
               /\ r.at = "outs" /\ r.out = i + 1 /\ r.toInvoke = x
            \/ /\ ready /\ strands[s].toInvoke # Invalid
               /\ r.at = "add" /\ r.out = i /\ r.toInvoke = strands[s].toInvoke
  <2>1. i + 1 \in Nat
      BY <1>3
  <2>2. CASE ~ready
    <3> DEFINE r == [strands[s] EXCEPT !.out = i + 1]
    <3>1. r \in StrandRec /\ r.node = m /\ r.at = "outs" /\ r.out = i + 1
          /\ r.toInvoke = strands[s].toInvoke
        BY ZenonT(30), <1>0, <1>1, <1>8, <2>1 DEF StrandRec
    <3>2. strands' = [strands EXCEPT ![s] = r]
        BY ZenonT(30), <1>4, <1>9, <2>2
    <3> QED
        BY ZenonT(30), <2>2, <3>1, <3>2
  <2>3. CASE ready /\ strands[s].toInvoke = Invalid
    <3> DEFINE r == [strands[s] EXCEPT !.out = i + 1, !.toInvoke = x]
    <3>1. r \in StrandRec /\ r.node = m /\ r.at = "outs" /\ r.out = i + 1 /\ r.toInvoke = x
        BY ZenonT(30), <1>0, <1>1, <1>8, <2>1 DEF StrandRec
    <3>2. strands' = [strands EXCEPT ![s] = r]
        BY ZenonT(30), <1>4, <1>9, <2>3
    <3> QED
        BY ZenonT(30), <2>3, <3>1, <3>2
  <2>4. CASE ready /\ strands[s].toInvoke # Invalid
    <3> DEFINE r == [strands[s] EXCEPT !.at = "add"]
    <3>1. r \in StrandRec /\ r.node = m /\ r.at = "add" /\ r.out = i
          /\ r.toInvoke = strands[s].toInvoke
        BY ZenonT(30), <1>0, <1>1, <1>4 DEF StrandRec, Active
    <3>2. strands' = [strands EXCEPT ![s] = r]
        BY ZenonT(30), <1>9, <2>4
    <3> QED
        BY ZenonT(30), <2>4, <3>1, <3>2
  <2> QED
      BY ZenonT(30), <2>2, <2>3, <2>4
<1>11. /\ strands' \in Seq(StrandRec) /\ Len(strands') = Len(strands)
       /\ strands'[s] = r
       /\ \A t \in 1..Len(strands) : t # s => strands'[t] = strands[t]
    BY ZenonT(30), <1>10, MoveStrand DEF StrandInv
<1>12. counters' \in Seq(Int) /\ Len(counters') = Len(counters)
  <2>1. CASE c = Invalid
      BY ZenonT(30), <1>8, <2>1 DEF StrandInv
  <2>2. CASE c # Invalid
    <3>1. c \in Nat /\ c < Len(counters)
        BY ZenonT(30), <1>6, <2>2 DEF BuildInv, StrandInv
    <3>2. counters' = [counters EXCEPT ![c + 1] = @ - 1]
        BY ZenonT(30), <1>8, <2>2
    <3> QED
        BY ZenonT(30), <3>1, <3>2, OneLess DEF StrandInv
  <2> QED
      BY ZenonT(30), <2>1, <2>2
<1>13. StrandInv'
  <2>1. i + 1 \in 1..(Len(outs[m]) + 1) /\ i \in 1..(Len(outs[m]) + 1) /\ i <= Len(outs[m])
      BY <1>3
  <2>2. /\ strands[s].at \in Active /\ strands[s].node = m /\ strands'[s].node = m
        /\ strands'[s].out \in 1..(Len(outs[m]) + 1)
        /\ strands'[s].at # "outs" => /\ strands'[s].out <= Len(outs[m])
                                      /\ strands'[s].toInvoke # Invalid
      BY ZenonT(30), <1>1, <1>8, <1>10, <1>11, <2>1 DEF Active
  <2> QED
      BY ZenonT(30), <1>8, <1>11, <1>12, <2>2, StrandStays
<1>14. ASSUME NEW e \in AllEdges PROVE Told(e)' <=> Told(e) \/ e = <<m, i>>
  <2>0. e \in Index \X (Nat \ {0})
      BY ZenonT(30) DEF AllEdges
  <2>1. e[1] \in Index /\ e[2] \in Nat \ {0} /\ (e = <<m, i>> <=> e[1] = m /\ e[2] = i)
      BY <2>0
  <2>2. strands[s].at \in Active /\ strands'[s].at \in Active /\ strands'[s].node = m
      BY ZenonT(30), <1>8, <1>10, <1>11 DEF Active
  <2>3. /\ e[1] # m => (Told(e)' <=> Told(e))
        /\ e[1] = m => /\ Told(e) <=> e[2] <= Passed(strands[s])
                       /\ Told(e)' <=> e[2] <= Passed(strands[s])'
      BY ZenonT(30), <1>1, <1>8, <1>11, <2>2, ToldStep
  <2>4. Passed(strands[s]) = i - 1
      BY ZenonT(30), <1>4, <1>8 DEF Passed
  <2>5. Passed(strands[s])' = i
    <3>1. (i + 1) - 1 = i
        BY <1>3
    <3> QED
        BY ZenonT(30), <1>10, <1>11, <3>1 DEF Passed
  <2>6. e[2] <= i <=> e[2] <= i - 1 \/ e[2] = i
      BY <1>3, <2>1
  <2> QED
      BY ZenonT(30), <2>1, <2>3, <2>4, <2>5, <2>6
<1>15. ~Told(<<m, i>>)
  <2>1. "outs" \in Active
      BY ZenonT(30) DEF Active
  <2>2. Passed(strands[s]) = i - 1
      BY ZenonT(30), <1>4, <1>8 DEF Passed
  <2>3. ~(i <= i - 1)
      BY <1>3
  <2> QED
      BY ZenonT(30), <1>1, <1>8, <2>1, <2>2, <2>3 DEF Told
<1>16. PICK kk \in Places : \A k \in Places, n \in Index :
         Holds(s, k, n)' <=> Holds(s, k, n) \/ (ready /\ k = kk /\ n = x)
  <2>0. Invalid \notin Index
      BY DagAssumption DEF Invalid, Index
  <2>1. \A n \in Index : /\ ~Holds(s, "work", n) /\ ~Holds(s, "next", n)
                         /\ Holds(s, "kept", n) <=> strands[s].toInvoke = n
      BY ZenonT(30), <1>8 DEF Holds, Active
  <2>2. CASE r.at = "outs"
    <3>1. \A n \in Index : /\ ~Holds(s, "work", n)' /\ ~Holds(s, "next", n)'
                           /\ Holds(s, "kept", n)' <=> r.toInvoke = n
        BY ZenonT(30), <1>11, <2>2 DEF Holds, Active
    <3>2. \A n \in Index : r.toInvoke = n <=> strands[s].toInvoke = n \/ (ready /\ n = x)
        BY ZenonT(30), <1>10, <2>0, <2>2
    <3> QED
        BY ZenonT(30), <2>1, <3>1, <3>2 DEF Places
  <2>3. CASE r.at = "add"
    <3>1. ready /\ r.toInvoke = strands[s].toInvoke /\ r.out = i
        BY ZenonT(30), <1>10, <2>3
    <3>2. Target(s)' = x
        BY ZenonT(30), <1>5, <1>8, <1>10, <1>11, <3>1 DEF Target
    <3>3. \A n \in Index : /\ ~Holds(s, "work", n)' /\ (Holds(s, "next", n)' <=> n = x)
                           /\ Holds(s, "kept", n)' <=> r.toInvoke = n
        BY ZenonT(30), <1>11, <2>3, <3>2 DEF Holds, Active
    <3>4. \A k \in Places, n \in Index :
            Holds(s, k, n)' <=> Holds(s, k, n) \/ (ready /\ k = "next" /\ n = x)
        BY ZenonT(30), <2>1, <3>1, <3>3 DEF Places
    <3>5. "next" \in Places
        BY ZenonT(30) DEF Places
    <3> QED
        BY ZenonT(30), <3>4, <3>5
  <2> QED
      BY ZenonT(30), <1>10, <2>2, <2>3
<1>17. ASSUME NEW t \in 1..Len(strands), t # s, NEW k, NEW n PROVE Holds(t, k, n)' <=> Holds(t, k, n)
    BY ZenonT(30), <1>8, <1>11, <1>17, OthersHold
<1>18. ASSUME NEW n \in Index PROVE Pending(n)' <=> Pending(n) \/ (ready /\ n = x)
    BY ZenonT(30), <1>11, <1>16, <1>17 DEF Pending
<1>19. ~Begun(x) /\ NodeInv'
  <2>1. finished[m] = 1 /\ finished \in [Index -> {0, 1}]
      BY ZenonT(30), <1>1, <1>8 DEF StrandInv, Active
  <2>2. counters \in Seq(Int) /\ Len(counters) = Len(initialCounters)
      BY ZenonT(30) DEF StrandInv
  <2> QED
      BY ZenonT(30), <1>5, <1>6, <1>7, <1>8, <1>14, <1>15, <1>18, <2>1, <2>2, NotifyNodes
<1>20. PlaceInv'
  <2>1. ASSUME NEW t \in 1..Len(strands), NEW k \in Places, NEW n \in Index, Holds(t, k, n)'
        PROVE  Holds(t, k, n) \/ (n = x /\ t = s /\ k = kk)
      BY ZenonT(30), <1>16, <1>17, <2>1
  <2>2. \A t \in 1..Len(strands), k \in Places : ~Holds(t, k, x)
      BY ZenonT(30), <1>19 DEF Begun, Pending
  <2>3. ASSUME NEW t \in 1..Len(strands), NEW u \in 1..Len(strands), NEW j \in Places,
               NEW k \in Places, NEW n \in Index, Holds(t, j, n)', Holds(u, k, n)'
        PROVE  t = u /\ j = k
    <3>1. CASE n = x
        BY ZenonT(30), <2>1, <2>2, <2>3, <3>1
    <3>2. CASE n # x
      <4>1. Holds(t, j, n) /\ Holds(u, k, n)
          BY ZenonT(30), <2>1, <2>3, <3>2
      <4> QED
          BY ZenonT(30), <4>1 DEF PlaceInv
    <3> QED
        BY ZenonT(30), <3>1, <3>2
  <2> QED
      BY ZenonT(30), <1>11, <2>3 DEF PlaceInv
<1>21. Goes(s, {"outs", "add"})
    BY ZenonT(30), <1>10, <1>11 DEF Goes
<1> QED
    BY ZenonT(30), <1>13, <1>19, <1>20, <1>21

\* wg.add(), before the task is scheduled.
LEMMA WgAddStep ==
    ASSUME GraphInv, BuildInv, IsBuilt, StrandInv, PlaceInv, NodeInv,
           NEW s \in 1..Len(strands), WgAdd(s)
    PROVE  StrandInv' /\ PlaceInv' /\ NodeInv' /\ Goes(s, {"schedule"})
<1>0. strands[s] \in StrandRec
    BY DEF StrandInv
<1>1. PICK m \in Index : m = strands[s].node
    BY ZenonT(30), <1>0 DEF StrandRec
<1>2. PICK r \in StrandRec :
        /\ strands' = [strands EXCEPT ![s] = r] /\ strands[s].at = "add"
        /\ r.at = "schedule" /\ r.node = m /\ r.out = strands[s].out
        /\ r.toInvoke = strands[s].toInvoke
  <2> DEFINE r == [strands[s] EXCEPT !.at = "schedule"]
  <2>1. r \in StrandRec /\ r.node = m /\ r.at = "schedule" /\ r.out = strands[s].out
        /\ r.toInvoke = strands[s].toInvoke
      BY ZenonT(30), <1>0, <1>1 DEF StrandRec, Active
  <2>2. strands' = [strands EXCEPT ![s] = r] /\ strands[s].at = "add"
      BY ZenonT(30) DEF WgAdd, Move
  <2> QED
      BY ZenonT(30), <2>1, <2>2
<1>3. UNCHANGED <<size, outs, numIns, counterIndex, initialCounters, built, finished, counters>>
    BY ZenonT(30) DEF WgAdd, graphVars
<1>4. /\ strands' \in Seq(StrandRec) /\ Len(strands') = Len(strands)
      /\ strands'[s] = r
      /\ \A t \in 1..Len(strands) : t # s => strands'[t] = strands[t]
    BY ZenonT(30), <1>2, MoveStrand DEF StrandInv
<1>5. strands[s].at \in Active /\ strands'[s].at \in Active /\ strands'[s].node = m
    BY ZenonT(30), <1>2, <1>4 DEF Active
<1>6. StrandInv'
  <2>1. /\ strands'[s].out \in 1..(Len(outs[m]) + 1)
        /\ strands'[s].out <= Len(outs[m]) /\ strands'[s].toInvoke # Invalid
      BY ZenonT(30), <1>1, <1>2, <1>4, <1>5 DEF StrandInv, Edges
  <2>2. counters' \in Seq(Int) /\ Len(counters') = Len(counters)
      BY ZenonT(30), <1>3 DEF StrandInv
  <2> QED
      BY ZenonT(30), <1>1, <1>3, <1>4, <1>5, <2>1, <2>2, StrandStays
<1>7. ASSUME NEW e \in AllEdges PROVE Told(e)' <=> Told(e)
  <2>1. /\ e[1] # m => (Told(e)' <=> Told(e))
        /\ e[1] = m => /\ Told(e) <=> e[2] <= Passed(strands[s])
                       /\ Told(e)' <=> e[2] <= Passed(strands[s])'
      BY ZenonT(30), <1>1, <1>3, <1>4, <1>5, ToldStep
  <2>2. Passed(strands[s])' = Passed(strands[s])
      BY ZenonT(30), <1>2, <1>4 DEF Passed
  <2> QED
      BY ZenonT(30), <2>1, <2>2
<1>8. ASSUME NEW t \in 1..Len(strands), NEW k, NEW n PROVE Holds(t, k, n)' <=> Holds(t, k, n)
  <2>1. CASE t = s
    <3>1. Target(s)' = Target(s)
        BY ZenonT(30), <1>1, <1>2, <1>3, <1>4 DEF Target
    <3> QED
        BY ZenonT(30), <1>2, <1>4, <1>5, <2>1, <3>1 DEF Holds
  <2>2. CASE t # s
      BY ZenonT(30), <1>3, <1>4, <2>2, OthersHold
  <2> QED
      BY ZenonT(30), <2>1, <2>2
<1>9. \A n \in Index : Pending(n)' <=> Pending(n)
    BY ZenonT(30), <1>4, <1>8 DEF Pending
<1>10. PlaceInv'
  <2>1. ASSUME NEW t \in 1..Len(strands), NEW u \in 1..Len(strands), NEW j \in Places,
               NEW k \in Places, NEW n \in Index, Holds(t, j, n)', Holds(u, k, n)'
        PROVE  t = u /\ j = k
    <3>1. Holds(t, j, n) /\ Holds(u, k, n)
        BY ZenonT(30), <1>8, <2>1
    <3> QED
        BY ZenonT(30), <3>1 DEF PlaceInv
  <2> QED
      BY ZenonT(30), <1>4, <2>1 DEF PlaceInv
<1>11. NodeInv'
    BY ZenonT(30), <1>3, <1>7, <1>9, QuietNodes
<1>12. Goes(s, {"schedule"})
    BY ZenonT(30), <1>2, <1>4 DEF Goes
<1> QED
    BY ZenonT(30), <1>6, <1>10, <1>11, <1>12

\* The last call of invoke(), or its return.
LEMMA InvokeLastStep ==
    ASSUME GraphInv, BuildInv, IsBuilt, StrandInv, PlaceInv, NodeInv,
           NEW s \in 1..Len(strands), InvokeLast(s)
    PROVE  StrandInv' /\ PlaceInv' /\ NodeInv' /\ Goes(s, {"work", "returned"})
<1>0. strands[s] \in StrandRec
    BY DEF StrandInv
<1>1. PICK m \in Index : m = strands[s].node
    BY ZenonT(30), <1>0 DEF StrandRec
<1>2. PICK x \in Index \cup {Invalid} : x = strands[s].toInvoke
    BY ZenonT(30), <1>0 DEF StrandRec
<1>3. Invalid \notin Index /\ Invalid \in Nat /\ 0 \in Nat
    BY DagAssumption DEF Invalid, Index
<1>4. PICK r \in StrandRec :
        /\ strands' = [strands EXCEPT ![s] = r] /\ strands[s].at = "outs"
        /\ x \in Index => r.at = "work" /\ r.node = x
        /\ x = Invalid => r.at = "returned"
  <2>1. CASE x = Invalid
    <3> DEFINE r == [strands[s] EXCEPT !.at = "returned"]
    <3>1. r \in StrandRec /\ r.at = "returned"
        BY ZenonT(30), <1>0 DEF StrandRec, Active
    <3>2. strands' = [strands EXCEPT ![s] = r] /\ strands[s].at = "outs"
        BY ZenonT(30), <1>2, <2>1 DEF InvokeLast, Move
    <3> QED
        BY ZenonT(30), <1>3, <2>1, <3>1, <3>2
  <2>2. CASE x # Invalid
    <3> DEFINE r == [at |-> "work", node |-> x, out |-> 0, toInvoke |-> Invalid]
    <3>1. r \in StrandRec /\ r.at = "work" /\ r.node = x
        BY ZenonT(30), <1>3, <2>2 DEF StrandRec, Active
    <3>2. strands' = [strands EXCEPT ![s] = r] /\ strands[s].at = "outs"
        BY ZenonT(30), <1>2, <2>2 DEF InvokeLast, Move, Strand
    <3> QED
        BY ZenonT(30), <2>2, <3>1, <3>2
  <2> QED
      BY ZenonT(30), <2>1, <2>2
<1>5. UNCHANGED <<size, outs, numIns, counterIndex, initialCounters, built, finished, counters>>
    BY ZenonT(30) DEF InvokeLast, graphVars
<1>6. /\ strands' \in Seq(StrandRec) /\ Len(strands') = Len(strands)
      /\ strands'[s] = r
      /\ \A t \in 1..Len(strands) : t # s => strands'[t] = strands[t]
    BY ZenonT(30), <1>4, MoveStrand DEF StrandInv
<1>7. strands'[s].at \notin Active
    BY ZenonT(30), <1>4, <1>6 DEF Active
<1>8. StrandInv'
  <2>1. counters' \in Seq(Int) /\ Len(counters') = Len(counters)
      BY ZenonT(30), <1>5 DEF StrandInv
  <2> QED
      BY ZenonT(30), <1>5, <1>6, <1>7, <2>1, StrandStays
<1>9. ASSUME NEW e \in AllEdges PROVE Told(e)' <=> Told(e)
  <2>1. outs[m] \in Seq(0..(size - 1)) /\ strands[s].out \in Nat
      BY ZenonT(30), <1>0 DEF GraphInv, StrandRec
  <2>2. Len(outs[m]) \in Nat
      BY <2>1
  <2>3. strands[s].out > Len(outs[m])
      BY ZenonT(30), <1>1 DEF InvokeLast, Edges
  <2> QED
      BY ZenonT(30), <1>1, <1>4, <1>5, <1>6, <1>7, <2>1, <2>2, <2>3, ToldLeave
<1>10. ASSUME NEW t \in 1..Len(strands), t # s, NEW k, NEW n PROVE Holds(t, k, n)' <=> Holds(t, k, n)
    BY ZenonT(30), <1>5, <1>6, <1>10, OthersHold
<1>11. \A n \in Index : /\ ~Holds(s, "work", n) /\ ~Holds(s, "next", n)
                        /\ Holds(s, "kept", n) <=> n = x
    BY ZenonT(30), <1>2, <1>4 DEF Holds, Active
<1>12. \A n \in Index : /\ ~Holds(s, "kept", n)' /\ ~Holds(s, "next", n)'
                        /\ Holds(s, "work", n)' <=> n = x
    BY ZenonT(30), <1>3, <1>4, <1>6 DEF Holds, Active
<1>13. \A n \in Index : Pending(n)' <=> Pending(n)
    BY ZenonT(30), <1>6, <1>10, <1>11, <1>12 DEF Pending, Places
<1>14. PlaceInv'
  <2>1. ASSUME NEW t \in 1..Len(strands), NEW k \in Places, NEW n \in Index, Holds(t, k, n)'
        PROVE  (t # s /\ Holds(t, k, n)) \/ (t = s /\ k = "work" /\ Holds(s, "kept", n))
      BY ZenonT(30), <1>10, <1>11, <1>12, <2>1 DEF Places
  <2>2. ASSUME NEW t \in 1..Len(strands), NEW u \in 1..Len(strands), NEW j \in Places,
               NEW k \in Places, NEW n \in Index, Holds(t, j, n)', Holds(u, k, n)'
        PROVE  t = u /\ j = k
    <3>1. "kept" \in Places
        BY ZenonT(30) DEF Places
    <3> QED
        BY ZenonT(30), <2>1, <2>2, <3>1 DEF PlaceInv
  <2> QED
      BY ZenonT(30), <1>6, <2>2 DEF PlaceInv
<1>15. NodeInv'
    BY ZenonT(30), <1>5, <1>9, <1>13, QuietNodes
<1>16. Goes(s, {"work", "returned"})
    BY ZenonT(30), <1>2, <1>4, <1>6 DEF Goes
<1> QED
    BY ZenonT(30), <1>8, <1>14, <1>15, <1>16

\* schedule() of a task for the node that was kept.
LEMMA AppendStrand ==
    ASSUME strands \in Seq(StrandRec), NEW s \in 1..Len(strands),
           NEW r \in StrandRec, NEW q \in StrandRec,
           strands' = Append([strands EXCEPT ![s] = r], q)
    PROVE  /\ strands' \in Seq(StrandRec) /\ Len(strands') = Len(strands) + 1
           /\ Len(strands) \in Nat
           /\ strands'[s] = r /\ strands'[Len(strands) + 1] = q
           /\ \A t \in 1..Len(strands) : t # s => strands'[t] = strands[t]
<1> DEFINE R == StrandRec
<1>1. strands \in Seq(R) /\ r \in R /\ q \in R
    OBVIOUS
<1> HIDE DEF R
<1>2. PICK z : z = [strands EXCEPT ![s] = r]
    BY ZenonT(30)
<1>3. /\ z \in Seq(R) /\ Len(z) = Len(strands) /\ z[s] = r /\ Len(strands) \in Nat
      /\ \A t \in 1..Len(strands) : t # s => z[t] = strands[t]
    BY <1>1, <1>2
<1>4. strands' = Append(z, q)
    BY ZenonT(30), <1>2
<1>5. /\ Append(z, q) \in Seq(R) /\ Len(Append(z, q)) = Len(z) + 1
      /\ Append(z, q)[Len(z) + 1] = q
      /\ \A t \in 1..Len(z) : Append(z, q)[t] = z[t]
    BY ZenonT(30), <1>1, <1>3, AppendIs
<1> QED
    BY ZenonT(30), <1>3, <1>4, <1>5 DEF R

LEMMA ScheduleStep ==
    ASSUME GraphInv, BuildInv, IsBuilt, StrandInv, PlaceInv, NodeInv,
           NEW s \in 1..Len(strands), Schedule(s)
    PROVE  /\ StrandInv' /\ PlaceInv' /\ NodeInv'
           /\ Len(strands') = Len(strands) + 1
           /\ strands'[s].at = "outs" /\ strands'[Len(strands) + 1].at = "work"
           /\ \A t \in 1..Len(strands) : t # s => strands'[t] = strands[t]
<1>0. strands[s] \in StrandRec
    BY DEF StrandInv
<1>1. PICK m \in Index : m = strands[s].node
    BY ZenonT(30), <1>0 DEF StrandRec
<1>2. strands[s].at = "schedule" /\ strands[s].at \in Active
    BY ZenonT(30) DEF Schedule, Active
<1>3. PICK y \in Index : y = strands[s].toInvoke
    BY ZenonT(30), <1>0, <1>2 DEF StrandRec, StrandInv
<1>4. outs[m] \in Seq(0..(size - 1)) /\ size \in 1..MaxNodes
    BY ZenonT(30) DEF GraphInv
<1>5. Len(outs[m]) \in Nat
    BY <1>4
<1>6. PICK i \in 1..Len(outs[m]) : i = strands[s].out
  <2>1. strands[s].out \in 1..(Len(outs[m]) + 1) /\ strands[s].out <= Len(outs[m])
      BY ZenonT(30), <1>1, <1>2 DEF StrandInv, Edges
  <2> QED
      BY <1>5, <2>1
<1>7. PICK x \in Index : x = outs[m][i] /\ x = Target(s)
  <2>1. outs[m][i] \in 0..(size - 1)
      BY <1>4
  <2>2. outs[m][i] \in Index
      BY <1>4, <2>1, DagAssumption DEF Index
  <2> QED
      BY ZenonT(30), <1>1, <1>6, <2>2 DEF Target
<1>8. PICK r \in StrandRec, q \in StrandRec :
        /\ strands' = Append([strands EXCEPT ![s] = r], q)
        /\ r.at = "outs" /\ r.node = m /\ r.out = i + 1 /\ r.toInvoke = x
        /\ q.at = "work" /\ q.node = y
  <2> DEFINE r == [strands[s] EXCEPT !.at = "outs", !.out = i + 1, !.toInvoke = x]
             q == [at |-> "work", node |-> y, out |-> 0, toInvoke |-> Invalid]
  <2>0. i + 1 \in Nat /\ 0 \in Nat
      BY <1>5
  <2>1. r \in StrandRec /\ r.at = "outs" /\ r.node = m /\ r.out = i + 1 /\ r.toInvoke = x
      BY ZenonT(30), <1>0, <1>1, <2>0 DEF StrandRec, Active
  <2>2. q \in StrandRec /\ q.at = "work" /\ q.node = y
      BY ZenonT(30), <2>0 DEF StrandRec, Active
  <2>3. strands' = Append([strands EXCEPT ![s] = [strands[s] EXCEPT !.at = "outs", !.out = @ + 1,
                                                                   !.toInvoke = Target(s)]],
                          Strand(strands[s].toInvoke))
      BY ZenonT(30) DEF Schedule
  <2>4. strands' = Append([strands EXCEPT ![s] = r], q)
      BY ZenonT(30), <1>3, <1>6, <1>7, <2>3 DEF Strand
  <2> QED
      BY ZenonT(30), <2>1, <2>2, <2>4
<1>9. UNCHANGED <<size, outs, numIns, counterIndex, initialCounters, built, finished, counters>>
    BY ZenonT(30) DEF Schedule, graphVars
<1>10. PICK l \in Nat : l = Len(strands) + 1
    BY DEF StrandInv
<1>11. /\ strands' \in Seq(StrandRec) /\ Len(strands') = l
       /\ strands'[s] = r /\ strands'[l] = q
       /\ \A t \in 1..Len(strands) : t # s => strands'[t] = strands[t]
       /\ Len(strands) \in Nat
    BY ZenonT(30), <1>8, <1>10, AppendStrand DEF StrandInv
<1>12. 1..l = 1..Len(strands) \cup {l} /\ l \notin 1..Len(strands) /\ s # l
    BY <1>10, <1>11
<1>13. /\ s \in 1..Len(strands')
       /\ \A t \in 1..Len(strands) : t # s => t \in 1..Len(strands') /\ strands'[t] = strands[t]
       /\ \A t \in 1..Len(strands') : t \notin 1..Len(strands) => strands'[t].at \notin Active
       /\ strands'[s].at \in Active /\ strands'[s].node = m
    BY ZenonT(30), <1>8, <1>11, <1>12 DEF Active
<1>14. StrandInv'
  <2>1. i + 1 \in 1..(Len(outs[m]) + 1)
      BY <1>5
  <2>2. /\ strands'[s].out \in 1..(Len(outs[m]) + 1) /\ strands'[s].at = "outs"
      BY ZenonT(30), <1>8, <1>11, <2>1
  <2>3. counters' \in Seq(Int) /\ Len(counters') = Len(counters)
      BY ZenonT(30), <1>9 DEF StrandInv
  <2> QED
      BY ZenonT(30), <1>1, <1>2, <1>9, <1>11, <1>13, <2>2, <2>3, StrandStays
<1>15. ASSUME NEW e \in AllEdges PROVE Told(e)' <=> Told(e)
  <2>1. /\ e[1] # m => (Told(e)' <=> Told(e))
        /\ e[1] = m => /\ Told(e) <=> e[2] <= Passed(strands[s])
                       /\ Told(e)' <=> e[2] <= Passed(strands[s])'
      BY ZenonT(30), <1>1, <1>2, <1>9, <1>13, ToldStep
  <2>2. Passed(strands[s])' = i /\ Passed(strands[s]) = i
    <3>1. (i + 1) - 1 = i
        BY <1>5
    <3> QED
        BY ZenonT(30), <1>2, <1>6, <1>8, <1>11, <3>1 DEF Passed
  <2> QED
      BY ZenonT(30), <2>1, <2>2
<1>16. ASSUME NEW t \in 1..Len(strands), t # s, NEW k, NEW n PROVE Holds(t, k, n)' <=> Holds(t, k, n)
    BY ZenonT(30), <1>9, <1>11, <1>16, OthersHold
<1>17. \A n \in Index : /\ ~Holds(s, "work", n)
                        /\ Holds(s, "kept", n) <=> n = y
                        /\ Holds(s, "next", n) <=> n = x
    BY ZenonT(30), <1>2, <1>3, <1>7 DEF Holds
<1>18. \A n \in Index : /\ ~Holds(s, "work", n)' /\ ~Holds(s, "next", n)'
                        /\ Holds(s, "kept", n)' <=> n = x
    BY ZenonT(30), <1>8, <1>11 DEF Holds, Active
<1>19. \A n \in Index : /\ ~Holds(l, "kept", n)' /\ ~Holds(l, "next", n)'
                        /\ Holds(l, "work", n)' <=> n = y
    BY ZenonT(30), <1>8, <1>11 DEF Holds, Active
<1>20. "kept" \in Places /\ "next" \in Places /\ "work" \in Places
    BY ZenonT(30) DEF Places
<1>21. ASSUME NEW n \in Index PROVE Pending(n)' <=> Pending(n)
  <2>1. ASSUME Pending(n) PROVE Pending(n)'
    <3>1. PICK t \in 1..Len(strands), k \in Places : Holds(t, k, n)
        BY ZenonT(30), <2>1 DEF Pending
    <3>2. CASE t = s
      <4>1. n = y \/ n = x
          BY ZenonT(30), <1>17, <3>1, <3>2 DEF Places
      <4>2. Holds(l, "work", n)' \/ Holds(s, "kept", n)'
          BY ZenonT(30), <1>18, <1>19, <4>1
      <4>3. s \in 1..Len(strands') /\ l \in 1..Len(strands')
          BY ZenonT(30), <1>11, <1>12
      <4> QED
          BY ZenonT(30), <1>20, <4>2, <4>3 DEF Pending
    <3>3. CASE t # s
      <4>1. t \in 1..Len(strands') /\ Holds(t, k, n)'
          BY ZenonT(30), <1>13, <1>16, <3>1, <3>3
      <4> QED
          BY ZenonT(30), <4>1 DEF Pending
    <3> QED
        BY ZenonT(30), <3>2, <3>3
  <2>2. ASSUME Pending(n)' PROVE Pending(n)
    <3>1. PICK t \in 1..l, k \in Places : Holds(t, k, n)'
        BY ZenonT(30), <1>11, <2>2 DEF Pending
    <3>2. CASE t = s \/ t = l
      <4>1. n = y \/ n = x
          BY ZenonT(30), <1>18, <1>19, <3>1, <3>2 DEF Places
      <4>2. Holds(s, "kept", n) \/ Holds(s, "next", n)
          BY ZenonT(30), <1>17, <4>1
      <4> QED
          BY ZenonT(30), <1>20, <4>2 DEF Pending
    <3>3. CASE t # s /\ t # l
      <4>1. t \in 1..Len(strands)
          BY ZenonT(30), <1>12, <3>3
      <4>2. Holds(t, k, n)
          BY ZenonT(30), <1>16, <3>1, <3>3, <4>1
      <4> QED
          BY ZenonT(30), <4>1, <4>2 DEF Pending
    <3> QED
        BY ZenonT(30), <3>2, <3>3
  <2> QED
      BY ZenonT(30), <2>1, <2>2
<1>22. PlaceInv'
  <2>1. ASSUME NEW t \in 1..l, NEW k \in Places, NEW n \in Index, Holds(t, k, n)'
        PROVE  \/ t \in 1..Len(strands) /\ t # s /\ Holds(t, k, n)
               \/ t = s /\ k = "kept" /\ Holds(s, "next", n)
               \/ t = l /\ k = "work" /\ Holds(s, "kept", n)
    <3>1. CASE t = s
        BY ZenonT(30), <1>17, <1>18, <2>1, <3>1 DEF Places
    <3>2. CASE t = l
        BY ZenonT(30), <1>17, <1>19, <2>1, <3>2 DEF Places
    <3>3. CASE t # s /\ t # l
        BY ZenonT(30), <1>12, <1>16, <2>1, <3>3
    <3> QED
        BY ZenonT(30), <3>1, <3>2, <3>3
  <2>2. ASSUME NEW t \in 1..l, NEW u \in 1..l, NEW j \in Places,
               NEW k \in Places, NEW n \in Index, Holds(t, j, n)', Holds(u, k, n)'
        PROVE  t = u /\ j = k
    <3>1. ASSUME NEW a \in 1..Len(strands), NEW b \in 1..Len(strands), NEW g \in Places,
                 NEW h \in Places, Holds(a, g, n), Holds(b, h, n)
          PROVE  a = b /\ g = h
        BY ZenonT(30), <3>1 DEF PlaceInv
    <3>2. ~(Holds(s, "kept", n) /\ Holds(s, "next", n))
        BY ZenonT(30), <1>20, <3>1
    <3>3. \A a \in 1..Len(strands), g \in Places :
            Holds(a, g, n) /\ (Holds(s, "kept", n) \/ Holds(s, "next", n)) => a = s
        BY ZenonT(30), <1>20, <3>1
    <3> QED
        BY ZenonT(30), <2>1, <2>2, <3>1, <3>2, <3>3
  <2> QED
      BY ZenonT(30), <1>11, <2>2 DEF PlaceInv
<1>23. NodeInv'
    BY ZenonT(30), <1>9, <1>15, <1>21, QuietNodes
<1> QED
    BY ZenonT(30), <1>8, <1>10, <1>11, <1>14, <1>22, <1>23

\* done() of the WaitGroup, at the end of a task.
LEMMA WgDoneStep ==
    ASSUME GraphInv, BuildInv, IsBuilt, StrandInv, PlaceInv, NodeInv,
           NEW s \in 1..Len(strands), WgDone(s)
    PROVE  StrandInv' /\ PlaceInv' /\ NodeInv' /\ Goes(s, {"ended"})
<1>0. strands[s] \in StrandRec
    BY DEF StrandInv
<1>1. PICK r \in StrandRec :
        strands' = [strands EXCEPT ![s] = r] /\ strands[s].at = "returned" /\ r.at = "ended"
  <2> DEFINE r == [strands[s] EXCEPT !.at = "ended"]
  <2>1. r \in StrandRec /\ r.at = "ended"
      BY ZenonT(30), <1>0 DEF StrandRec, Active
  <2>2. strands' = [strands EXCEPT ![s] = r] /\ strands[s].at = "returned"
      BY ZenonT(30) DEF WgDone, Move
  <2> QED
      BY ZenonT(30), <2>1, <2>2
<1>2. UNCHANGED <<size, outs, numIns, counterIndex, initialCounters, built, finished, counters>>
    BY ZenonT(30) DEF WgDone, graphVars
<1>3. /\ strands' \in Seq(StrandRec) /\ Len(strands') = Len(strands)
      /\ strands'[s] = r
      /\ \A t \in 1..Len(strands) : t # s => strands'[t] = strands[t]
    BY ZenonT(30), <1>1, MoveStrand DEF StrandInv
<1>4. strands[s].at \notin Active /\ strands'[s].at \notin Active
    BY ZenonT(30), <1>1, <1>3 DEF Active
<1>5. StrandInv'
  <2>1. counters' \in Seq(Int) /\ Len(counters') = Len(counters)
      BY ZenonT(30), <1>2 DEF StrandInv
  <2> QED
      BY ZenonT(30), <1>2, <1>3, <1>4, <2>1, StrandStays
<1>6. ASSUME NEW e \in AllEdges PROVE Told(e)' <=> Told(e)
  <2> DEFINE Ok(q) == q.at \in Active /\ q.node = e[1] => e[2] <= Passed(q)
  <2>1. Told(e) <=> finished[e[1]] = 1 /\ \A t \in 1..Len(strands) : Ok(strands[t])
      BY ZenonT(30) DEF Told
  <2>2. Told(e)' <=> finished[e[1]] = 1 /\ \A t \in 1..Len(strands) : Ok(strands'[t])
      BY ZenonT(30), <1>2, <1>3 DEF Told, Passed
  <2>3. Ok(strands[s]) /\ Ok(strands'[s])
      BY ZenonT(30), <1>4
  <2> HIDE DEF Ok
  <2> QED
      BY ZenonT(30), <1>3, <2>1, <2>2, <2>3
<1>7. ASSUME NEW t \in 1..Len(strands), NEW k, NEW n PROVE Holds(t, k, n)' <=> Holds(t, k, n)
  <2>1. CASE t = s
    <3>1. ~Holds(s, k, n) /\ ~Holds(s, k, n)'
        BY ZenonT(30), <1>1, <1>3 DEF Holds, Active
    <3> QED
        BY ZenonT(30), <2>1, <3>1
  <2>2. CASE t # s
      BY ZenonT(30), <1>2, <1>3, <2>2, OthersHold
  <2> QED
      BY ZenonT(30), <2>1, <2>2
<1>8. \A n \in Index : Pending(n)' <=> Pending(n)
    BY ZenonT(30), <1>3, <1>7 DEF Pending
<1>9. PlaceInv'
  <2>1. ASSUME NEW t \in 1..Len(strands), NEW u \in 1..Len(strands), NEW j \in Places,
               NEW k \in Places, NEW n \in Index, Holds(t, j, n)', Holds(u, k, n)'
        PROVE  t = u /\ j = k
    <3>1. Holds(t, j, n) /\ Holds(u, k, n)
        BY ZenonT(30), <1>7, <2>1
    <3> QED
        BY ZenonT(30), <3>1 DEF PlaceInv
  <2> QED
      BY ZenonT(30), <1>3, <2>1 DEF PlaceInv
<1>10. NodeInv'
    BY ZenonT(30), <1>2, <1>6, <1>8, QuietNodes
<1>11. Goes(s, {"ended"})
    BY ZenonT(30), <1>1, <1>3 DEF Goes
<1> QED
    BY ZenonT(30), <1>5, <1>9, <1>10, <1>11

-----------------------------------------------------------------------------
\* The WaitGroup.
\* A step that neither ends a strand nor changes whether it is about to call
\* schedule() changes nothing for the WaitGroup.
LEMMA WgSame ==
    ASSUME WgInv, UNCHANGED wg, NEW s \in 1..Len(strands), NEW A, Goes(s, A),
           strands[s].at \notin {"schedule", "ended"}, A \cap {"schedule", "ended"} = {}
    PROVE  WgInv'
<1>1. \A t \in 1..Len(strands) : /\ strands'[t].at = "ended" <=> strands[t].at = "ended"
                                 /\ strands'[t].at = "schedule" <=> strands[t].at = "schedule"
    BY ZenonT(30) DEF Goes
<1>2. Len(strands') = Len(strands)
    BY ZenonT(30) DEF Goes
<1>3. \A t \in 2..Len(strands) : t \in 1..Len(strands)
    OBVIOUS
<1>4. Tasks' = Tasks
    BY ZenonT(30), <1>1, <1>2, <1>3 DEF Tasks
<1>5. Announced' = Announced
    BY ZenonT(30), <1>1, <1>2 DEF Announced
<1>7. strands'[1].at # "ended"
  <2>1. 1 \in 1..Len(strands)
      OBVIOUS
  <2> QED
      BY ZenonT(30), <1>1, <2>1 DEF WgInv
<1> QED
    BY ZenonT(30), <1>4, <1>5, <1>7 DEF WgInv

\* add() before schedule(), ...
LEMMA WgAddCount ==
    ASSUME StrandInv, WgInv, NEW s \in 1..Len(strands), WgAdd(s), Goes(s, {"schedule"})
    PROVE  WgInv'
<1>1. strands[s].at = "add" /\ strands'[s].at = "schedule" /\ wg' = wg + 1
    BY ZenonT(30) DEF WgAdd, Goes
<1>2. /\ Len(strands') = Len(strands)
      /\ \A t \in 1..Len(strands) : t # s => strands'[t] = strands[t]
    BY ZenonT(30) DEF Goes
<1>3. \A t \in 2..Len(strands) : t \in 1..Len(strands)
    OBVIOUS
<1>4. Tasks' = Tasks
    BY ZenonT(30), <1>1, <1>2, <1>3 DEF Tasks
<1>5. Announced' = Announced \cup {s} /\ s \notin Announced
    BY ZenonT(30), <1>1, <1>2 DEF Announced
<1>6. IsFiniteSet(Announced') /\ Cardinality(Announced') = Cardinality(Announced) + 1
    BY ZenonT(30), <1>5, FS_AddElement DEF WgInv
<1>7. Cardinality(Tasks) \in Nat /\ Cardinality(Announced) \in Nat
    BY ZenonT(30), FS_CardinalityType DEF WgInv
<1>8. wg' = Cardinality(Tasks) + Cardinality(Announced')
  <2>1. wg = Cardinality(Tasks) + Cardinality(Announced)
      BY ZenonT(30) DEF WgInv
  <2> QED
      BY <1>1, <1>6, <1>7, <2>1
<1>9. strands'[1].at # "ended"
  <2>1. 1 \in 1..Len(strands)
      OBVIOUS
  <2> QED
      BY ZenonT(30), <1>1, <1>2, <2>1 DEF WgInv
<1>10. IsFiniteSet(Announced)' /\ wg' = Cardinality(Tasks)' + Cardinality(Announced)'
    BY ZenonT(30), <1>4, <1>6, <1>8
<1> QED
    BY ZenonT(30), <1>4, <1>9, <1>10 DEF WgInv

\* ... schedule(), which leaves the done() to the task, ...
LEMMA ScheduleCount ==
    ASSUME StrandInv, WgInv, NEW s \in 1..Len(strands), strands[s].at = "schedule", UNCHANGED wg,
           Len(strands') = Len(strands) + 1,
           strands'[s].at = "outs", strands'[Len(strands) + 1].at = "work",
           \A t \in 1..Len(strands) : t # s => strands'[t] = strands[t]
    PROVE  WgInv'
<1>1. PICK l \in Nat : l = Len(strands) + 1
    BY DEF StrandInv
<1>2. /\ 2..l = 2..Len(strands) \cup {l} /\ 1..l = 1..Len(strands) \cup {l}
      /\ l \notin 1..Len(strands) /\ l \notin 2..Len(strands)
      /\ 2..Len(strands) \subseteq 1..Len(strands)
  <2>1. Len(strands) \in Nat
      BY DEF StrandInv
  <2> QED
      BY <1>1, <2>1
<1>3. /\ Len(strands') = l /\ strands'[l].at = "work"
    BY ZenonT(30), <1>1
<1>4. Tasks' = Tasks \cup {l} /\ l \notin Tasks
    BY ZenonT(30), <1>2, <1>3 DEF Tasks
<1>5. Announced' = Announced \ {s} /\ s \in Announced
    BY ZenonT(30), <1>2, <1>3 DEF Announced
<1>6. IsFiniteSet(Tasks') /\ Cardinality(Tasks') = Cardinality(Tasks) + 1
    BY ZenonT(30), <1>4, FS_AddElement DEF WgInv
<1>7. IsFiniteSet(Announced') /\ Cardinality(Announced') = Cardinality(Announced) - 1
    BY ZenonT(30), <1>5, FS_RemoveElement DEF WgInv
<1>8. Cardinality(Tasks) \in Nat /\ Cardinality(Announced) \in Nat
    BY ZenonT(30), FS_CardinalityType DEF WgInv
<1>9. wg' = Cardinality(Tasks') + Cardinality(Announced')
  <2>1. wg' = Cardinality(Tasks) + Cardinality(Announced)
      BY ZenonT(30) DEF WgInv
  <2> QED
      BY <1>6, <1>7, <1>8, <2>1
<1>13. strands'[1].at # "ended"
  <2>1. 1 \in 1..Len(strands)
      OBVIOUS
  <2> QED
      BY ZenonT(30), <2>1 DEF WgInv
<1>14. /\ IsFiniteSet(Tasks)' /\ IsFiniteSet(Announced)'
       /\ wg' = Cardinality(Tasks)' + Cardinality(Announced)'
    BY ZenonT(30), <1>6, <1>7, <1>9
<1> QED
    BY ZenonT(30), <1>13, <1>14 DEF WgInv

\* ... and done().
LEMMA WgDoneCount ==
    ASSUME StrandInv, WgInv, NEW s \in 1..Len(strands), WgDone(s), Goes(s, {"ended"})
    PROVE  WgInv'
<1>1. s # 1 /\ strands[s].at = "returned" /\ strands'[s].at = "ended" /\ wg' = wg - 1
    BY ZenonT(30) DEF WgDone, Goes
<1>2. /\ Len(strands') = Len(strands)
      /\ \A t \in 1..Len(strands) : t # s => strands'[t] = strands[t]
    BY ZenonT(30) DEF Goes
<1>3. 2..Len(strands) \subseteq 1..Len(strands) /\ s \in 2..Len(strands)
    BY <1>1
<1>4. Tasks' = Tasks \ {s} /\ s \in Tasks
    BY ZenonT(30), <1>1, <1>2, <1>3 DEF Tasks
<1>5. Announced' = Announced
    BY ZenonT(30), <1>1, <1>2 DEF Announced
<1>6. IsFiniteSet(Tasks') /\ Cardinality(Tasks') = Cardinality(Tasks) - 1
    BY ZenonT(30), <1>4, FS_RemoveElement DEF WgInv
<1>7. Cardinality(Tasks) \in Nat /\ Cardinality(Announced) \in Nat
    BY ZenonT(30), FS_CardinalityType DEF WgInv
<1>8. wg' = Cardinality(Tasks') + Cardinality(Announced)
  <2>1. wg = Cardinality(Tasks) + Cardinality(Announced)
      BY ZenonT(30) DEF WgInv
  <2> QED
      BY <1>1, <1>6, <1>7, <2>1
<1>9. strands'[1].at # "ended"
  <2>1. 1 \in 1..Len(strands)
      OBVIOUS
  <2> QED
      BY ZenonT(30), <1>1, <1>2, <2>1 DEF WgInv
<1>10. IsFiniteSet(Tasks)' /\ wg' = Cardinality(Tasks)' + Cardinality(Announced)'
    BY ZenonT(30), <1>5, <1>6, <1>8
<1> QED
    BY ZenonT(30), <1>5, <1>9, <1>10 DEF WgInv

\* Every step of a strand.
LEMMA StrandStepRun ==
    ASSUME GraphInv, BuildInv, IsBuilt, RunInv, NEW s \in 1..Len(strands), StrandStep(s)
    PROVE  RunInv' /\ strands' # <<>>
<1> USE DEF RunInv
<1>0. StrandInv /\ PlaceInv /\ NodeInv /\ WgInv
    BY ZenonT(30)
<1>1. ASSUME NEW A, Goes(s, A) PROVE strands' # <<>>
  <2>1. Len(strands') = Len(strands)
      BY ZenonT(30), <1>1 DEF Goes
  <2> QED
      BY <2>1
<1>2. CASE Work(s)
  <2>1. StrandInv' /\ PlaceInv' /\ NodeInv' /\ Goes(s, {"outs"})
      BY ZenonT(30), <1>0, <1>2, WorkStep
  <2>2. UNCHANGED wg /\ strands[s].at = "work" /\ {"outs"} \cap {"schedule", "ended"} = {}
      BY ZenonT(30), <1>2 DEF Work
  <2>3. WgInv'
      BY ZenonT(30), <1>0, <2>1, <2>2, WgSame
  <2> QED
      BY ZenonT(30), <1>1, <2>1, <2>3
<1>3. CASE Notify(s)
  <2>1. StrandInv' /\ PlaceInv' /\ NodeInv' /\ Goes(s, {"outs", "add"})
      BY ZenonT(30), <1>0, <1>3, NotifyStep
  <2>2. UNCHANGED wg /\ strands[s].at = "outs" /\ {"outs", "add"} \cap {"schedule", "ended"} = {}
      BY ZenonT(30), <1>3 DEF Notify
  <2>3. WgInv'
      BY ZenonT(30), <1>0, <2>1, <2>2, WgSame
  <2> QED
      BY ZenonT(30), <1>1, <2>1, <2>3
<1>4. CASE WgAdd(s)
  <2>1. StrandInv' /\ PlaceInv' /\ NodeInv' /\ Goes(s, {"schedule"})
      BY ZenonT(30), <1>0, <1>4, WgAddStep
  <2>2. WgInv'
      BY ZenonT(30), <1>0, <1>4, <2>1, WgAddCount
  <2> QED
      BY ZenonT(30), <1>1, <2>1, <2>2
<1>5. CASE Schedule(s)
  <2>1. /\ StrandInv' /\ PlaceInv' /\ NodeInv'
        /\ Len(strands') = Len(strands) + 1
        /\ strands'[s].at = "outs" /\ strands'[Len(strands) + 1].at = "work"
        /\ \A t \in 1..Len(strands) : t # s => strands'[t] = strands[t]
      BY ZenonT(30), <1>0, <1>5, ScheduleStep
  <2>2. UNCHANGED wg /\ strands[s].at = "schedule"
      BY ZenonT(30), <1>5 DEF Schedule
  <2>3. WgInv'
      BY ZenonT(30), <1>0, <2>1, <2>2, ScheduleCount
  <2>4. strands' # <<>>
    <3>1. Len(strands') = Len(strands) + 1
        BY ZenonT(30), <2>1
    <3> QED
        BY <3>1
  <2> QED
      BY ZenonT(30), <2>1, <2>3, <2>4
<1>6. CASE InvokeLast(s)
  <2>1. StrandInv' /\ PlaceInv' /\ NodeInv' /\ Goes(s, {"work", "returned"})
      BY ZenonT(30), <1>0, <1>6, InvokeLastStep
  <2>2. /\ UNCHANGED wg /\ strands[s].at = "outs"
        /\ {"work", "returned"} \cap {"schedule", "ended"} = {}
      BY ZenonT(30), <1>6 DEF InvokeLast
  <2>3. WgInv'
      BY ZenonT(30), <1>0, <2>1, <2>2, WgSame
  <2> QED
      BY ZenonT(30), <1>1, <2>1, <2>3
<1>7. CASE WgDone(s)
  <2>1. StrandInv' /\ PlaceInv' /\ NodeInv' /\ Goes(s, {"ended"})
      BY ZenonT(30), <1>0, <1>7, WgDoneStep
  <2>2. WgInv'
      BY ZenonT(30), <1>0, <1>7, <2>1, WgDoneCount
  <2> QED
      BY ZenonT(30), <1>1, <2>1, <2>2
<1> QED
    BY ZenonT(30), <1>2, <1>3, <1>4, <1>5, <1>6, <1>7 DEF StrandStep

-----------------------------------------------------------------------------
\* run() starts with the root ready and every other node untouched.
LEMMA RunStep ==
    ASSUME GraphInv, BuildInv, Run
    PROVE  RunInv' /\ strands' \in Seq(StrandRec)
<1>1. Root \in Index /\ Invalid \notin Index /\ 0 # 1
    BY DagAssumption DEF Root, Index, Invalid
<1>2. UNCHANGED <<size, outs, numIns, counterIndex, initialCounters, built>>
    BY ZenonT(30) DEF Run, graphVars
<1>3. PICK q \in StrandRec : strands' = <<q>> /\ q.at = "work" /\ q.node = Root
  <2> DEFINE q == [at |-> "work", node |-> Root, out |-> 0, toInvoke |-> Invalid]
  <2>0. 0 \in Nat
      OBVIOUS
  <2>1. q \in StrandRec /\ q.at = "work" /\ q.node = Root
      BY ZenonT(30), <1>1, <2>0 DEF StrandRec, Active
  <2>2. strands' = <<q>>
      BY ZenonT(30) DEF Run, Strand
  <2> QED
      BY ZenonT(30), <2>1, <2>2
<1>4. strands' \in Seq(StrandRec) /\ Len(strands') = 1 /\ strands'[1] = q /\ 1..1 = {1} /\ 2..1 = {}
  <2> DEFINE R == StrandRec
  <2>1. q \in R /\ strands' = <<q>>
      BY ZenonT(30), <1>3
  <2> HIDE DEF R
  <2>2. strands' \in Seq(R) /\ Len(strands') = 1 /\ strands'[1] = q /\ 1..1 = {1} /\ 2..1 = {}
      BY <2>1
  <2> QED
      BY ZenonT(30), <2>2 DEF R
<1>5. /\ finished' = [n \in Index |-> 0] /\ counters' = initialCounters /\ wg' = 0
    BY ZenonT(30) DEF Run, InitCounters
<1>6. \A n \in Index : finished'[n] = 0
    BY ZenonT(30), <1>5
<1>7. \A t \in 1..Len(strands') : t = 1 /\ strands'[t].at = "work" /\ strands'[t].node = Root
    BY ZenonT(30), <1>3, <1>4
<1>8. StrandInv'
  <2>1. counters' \in Seq(Int) /\ Len(counters') = Len(initialCounters')
    <3>1. initialCounters \in Seq(Nat)
        BY ZenonT(30) DEF BuildInv
    <3>2. initialCounters \in Seq(Int)
        BY <3>1
    <3> QED
        BY ZenonT(30), <1>2, <1>5, <3>2
  <2>2. finished' \in [Index -> {0, 1}]
      BY ZenonT(30), <1>5
  <2>3. \A t \in 1..Len(strands') : strands'[t].at \notin Active
      BY ZenonT(30), <1>7 DEF Active
  <2> QED
      BY ZenonT(30), <1>4, <2>1, <2>2, <2>3 DEF StrandInv
<1>9. ASSUME NEW t \in 1..Len(strands'), NEW k \in Places, NEW n \in Index
      PROVE  Holds(t, k, n)' <=> k = "work" /\ n = Root
    BY ZenonT(30), <1>7 DEF Holds, Active, Places
<1>10. PlaceInv'
    BY ZenonT(30), <1>7, <1>9 DEF PlaceInv
<1>11. \A n \in Index : Pending(n)' <=> n = Root
  <2>1. "work" \in Places /\ 1 \in 1..Len(strands')
      BY ZenonT(30), <1>4 DEF Places
  <2> QED
      BY ZenonT(30), <1>9, <2>1 DEF Pending
<1>12. NodeInv'
  <2>1. \A n \in Index : Into(n)' = Into(n)
      BY ZenonT(30), <1>2 DEF Into
  <2>2. ASSUME NEW n \in Index PROVE Left(n)' = Into(n)
    <3>1. \A e \in Into(n) : e[1] \in Index
        BY ZenonT(30) DEF Into
    <3>2. \A e \in Into(n) : ~Told(e)'
        BY ZenonT(30), <1>1, <1>6, <3>1 DEF Told
    <3> QED
        BY ZenonT(30), <2>1, <3>2 DEF Left
  <2>3. \A n \in Index : Begun(n)' <=> n = Root
      BY ZenonT(30), <1>1, <1>6, <1>11 DEF Begun
  <2>4. ASSUME NEW n \in Index, counterIndex'[n] # Invalid
        PROVE  counters'[counterIndex'[n] + 1] = Cardinality(Left(n))'
    <3>1. initialCounters[counterIndex[n] + 1] = numIns[n]
        BY ZenonT(30), <1>2, <2>4 DEF BuildInv
    <3>2. numIns[n] = Cardinality(Into(n))
        BY ZenonT(30) DEF GraphInv
    <3>3. counters'[counterIndex'[n] + 1] = Cardinality(Left(n)')
        BY ZenonT(30), <1>2, <1>5, <2>2, <3>1, <3>2
    <3> QED
        BY ZenonT(30), <3>3
  <2>5. \A S \in SUBSET Index : Follows(S)' => Root \in S
      BY ZenonT(30) DEF Follows
  <2> QED
      BY ZenonT(30), <1>1, <1>6, <1>11, <2>1, <2>2, <2>3, <2>4, <2>5 DEF NodeInv
<1>13. WgInv'
  <2>1. Tasks' = {} /\ Announced' = {}
      BY ZenonT(30), <1>4, <1>7 DEF Tasks, Announced
  <2>2. IsFiniteSet({}) /\ Cardinality({}) = 0
      BY ZenonT(30), FS_EmptySet
  <2>3. 0 + 0 = 0
      OBVIOUS
  <2>4. /\ IsFiniteSet(Tasks)' /\ IsFiniteSet(Announced)'
        /\ wg' = Cardinality(Tasks)' + Cardinality(Announced)'
      BY ZenonT(30), <1>5, <2>1, <2>2, <2>3
  <2> QED
      BY ZenonT(30), <1>3, <1>4, <2>4 DEF WgInv
<1> QED
    BY ZenonT(30), <1>4, <1>8, <1>10, <1>12, <1>13 DEF RunInv

LEMMA InitDag ==
    ASSUME Init
    PROVE  DagInv
<1>1. strands = <<>> /\ strands \in Seq(StrandRec)
    BY DEF Init
<1>2. \A n \in Index : outs[n] = <<>> /\ numIns[n] = 0 /\ counterIndex[n] = Invalid
    BY ZenonT(30) DEF Init
<1>3. \A n \in Index : Into(n) = {}
  <2>1. Len(<<>>) = 0 /\ \A i \in Nat \ {0} : ~(i <= 0)
      OBVIOUS
  <2> QED
      BY ZenonT(30), <1>2, <2>1 DEF Into
<1>4. GraphInv
  <2>1. size \in 1..MaxNodes
      BY DagAssumption DEF Init
  <2>2. outs \in [Index -> Seq(0..(size - 1))]
    <3>1. <<>> \in Seq(0..(size - 1))
        OBVIOUS
    <3> QED
        BY ZenonT(30), <3>1 DEF Init
  <2>3. numIns \in [Index -> Nat]
      BY DEF Init
  <2>4. \A n \in Index : IsFiniteSet(Into(n)) /\ numIns[n] = Cardinality(Into(n))
      BY ZenonT(30), <1>2, <1>3, FS_EmptySet
  <2>5. \E f \in [Index -> Nat], b \in Nat : IsRank(f) /\ \A n \in Index : f[n] < b
    <3> DEFINE f == [n \in Index |-> 0]
    <3>1. f \in [Index -> Nat] /\ 1 \in Nat /\ \A n \in Index : f[n] < 1
        OBVIOUS
    <3>2. 1..Len(<<>>) = {}
        OBVIOUS
    <3> HIDE DEF f
    <3>3. IsRank(f)
        BY ZenonT(30), <1>2, <3>2 DEF IsRank
    <3> QED
        BY ZenonT(30), <3>1, <3>3
  <2> QED
      BY ZenonT(30), <1>2, <2>1, <2>2, <2>3, <2>4, <2>5 DEF GraphInv
<1>5. BuildInv
  <2>1. built \in 0..(Invalid + 1) /\ initialCounters \in Seq(Nat) /\ Len(initialCounters) <= built
      BY DagAssumption DEF Init, Invalid
  <2>2. counterIndex \in [Index -> Nat] /\ \A n \in Index : n >= built
      BY DagAssumption DEF Init, Invalid, Index
  <2> QED
      BY ZenonT(30), <1>2, <2>1, <2>2 DEF BuildInv
<1> QED
    BY ZenonT(30), <1>1, <1>4, <1>5 DEF DagInv, Running

LEMMA NextDag ==
    ASSUME DagInv, [Next]_vars
    PROVE  DagInv'
<1>0. GraphInv /\ BuildInv /\ (Running => IsBuilt /\ RunInv) /\ strands \in Seq(StrandRec)
    BY ZenonT(30) DEF DagInv
<1>1. ASSUME built <= Invalid, GraphInv', BuildInv', UNCHANGED strands PROVE DagInv'
  <2>1. ~IsBuilt
    <3>1. built \in 0..(Invalid + 1) /\ Invalid \in Nat
        BY <1>0, DagAssumption DEF BuildInv, Invalid
    <3> QED
        BY <1>1, <3>1 DEF IsBuilt
  <2>2. strands = <<>>
      BY ZenonT(30), <1>0, <2>1 DEF Running
  <2> QED
      BY ZenonT(30), <1>0, <1>1, <2>2 DEF DagInv, Running
<1>2. ASSUME built = 0, UNCHANGED <<counterIndex, initialCounters, built, strands>>, GraphInv'
      PROVE  DagInv'
  <2>1. built <= Invalid
      BY <1>2, DagAssumption DEF Invalid
  <2>2. BuildInv'
      BY ZenonT(30), <1>0, <1>2, BuilderStep
  <2> QED
      BY ZenonT(30), <1>1, <1>2, <2>1, <2>2
<1>3. ASSUME NEW after \in SUBSET Index, AddNode(after) PROVE DagInv'
  <2>1. GraphInv'
      BY ZenonT(30), <1>0, <1>3, AddNodeGraph
  <2>2. built = 0 /\ UNCHANGED <<counterIndex, initialCounters, built, strands>>
      BY ZenonT(30), <1>3 DEF AddNode, runVars
  <2> QED
      BY ZenonT(30), <1>2, <2>1, <2>2
<1>4. ASSUME NEW m \in Index, NEW n \in Index, AddDependency(m, n) PROVE DagInv'
  <2>1. GraphInv'
      BY ZenonT(30), <1>0, <1>4, AddDependencyGraph
  <2>2. built = 0 /\ UNCHANGED <<counterIndex, initialCounters, built, strands>>
      BY ZenonT(30), <1>4 DEF AddDependency, runVars
  <2> QED
      BY ZenonT(30), <1>2, <2>1, <2>2
<1>5. CASE Build
  <2>1. BuildInv'
      BY ZenonT(30), <1>0, <1>5, BuildStep
  <2>2. built <= Invalid /\ UNCHANGED <<size, outs, numIns, strands>>
      BY ZenonT(30), <1>5 DEF Build, runVars
  <2>3. GraphInv'
      BY ZenonT(30), <1>0, <2>2, GraphFrame
  <2> QED
      BY ZenonT(30), <1>1, <2>1, <2>2, <2>3
<1>6. ASSUME UNCHANGED <<size, outs, numIns, counterIndex, initialCounters, built>>
      PROVE  GraphInv' /\ BuildInv' /\ (IsBuilt => IsBuilt')
  <2>1. GraphInv'
      BY ZenonT(30), <1>0, <1>6, GraphFrame
  <2>2. BuildInv' /\ (IsBuilt => IsBuilt')
      BY ZenonT(30), <1>0, <1>6 DEF BuildInv, IsBuilt
  <2> QED
      BY ZenonT(30), <2>1, <2>2
<1>7. CASE Run
  <2>1. RunInv' /\ strands' \in Seq(StrandRec)
      BY ZenonT(30), <1>0, <1>7, RunStep
  <2>2. IsBuilt /\ UNCHANGED <<size, outs, numIns, counterIndex, initialCounters, built>>
      BY ZenonT(30), <1>7 DEF Run, graphVars
  <2> QED
      BY ZenonT(30), <1>6, <2>1, <2>2 DEF DagInv
<1>8. ASSUME NEW s \in 1..Len(strands), StrandStep(s) PROVE DagInv'
  <2>1. Running
    <3>1. strands # <<>>
        OBVIOUS
    <3> QED
        BY ZenonT(30), <3>1 DEF Running
  <2>2. RunInv'
      BY ZenonT(30), <1>0, <1>8, <2>1, StrandStepRun
  <2>3. UNCHANGED <<size, outs, numIns, counterIndex, initialCounters, built>>
      BY ZenonT(30), <1>8
         DEF StrandStep, Work, Notify, WgAdd, Schedule, InvokeLast, WgDone, graphVars
  <2>4. strands' \in Seq(StrandRec)
      BY ZenonT(30), <2>2 DEF RunInv, StrandInv
  <2> QED
      BY ZenonT(30), <1>0, <1>6, <2>1, <2>2, <2>3, <2>4 DEF DagInv
<1>9. CASE WgWait
  <2>1. strands' = <<>> /\ UNCHANGED <<size, outs, numIns, counterIndex, initialCounters, built>>
      BY ZenonT(30), <1>9 DEF WgWait, graphVars
  <2>2. <<>> \in Seq(StrandRec)
      OBVIOUS
  <2> QED
      BY ZenonT(30), <1>6, <2>1, <2>2 DEF DagInv, Running
<1>10. CASE UNCHANGED vars
  <2>1. /\ UNCHANGED <<size, outs, numIns, counterIndex, initialCounters, built>>
        /\ UNCHANGED <<counters, strands, wg, finished>>
      BY ZenonT(30), <1>10 DEF vars, graphVars, runVars
  <2>2. RunInv => RunInv'
    <3>1. StrandInv => StrandInv'
        BY ZenonT(30), <2>1 DEF StrandInv, Edges
    <3>2. ASSUME NEW t, NEW k, NEW n PROVE Holds(t, k, n)' <=> Holds(t, k, n)
        BY ZenonT(30), <2>1, OthersHold
    <3>3. ASSUME PlaceInv PROVE PlaceInv'
      <4>1. ASSUME NEW t \in 1..Len(strands), NEW u \in 1..Len(strands), NEW j \in Places,
                   NEW k \in Places, NEW n \in Index, Holds(t, j, n)', Holds(u, k, n)'
            PROVE  t = u /\ j = k
        <5>1. Holds(t, j, n) /\ Holds(u, k, n)
            BY ZenonT(30), <3>2, <4>1
        <5> QED
            BY ZenonT(30), <3>3, <5>1 DEF PlaceInv
      <4>2. Len(strands') = Len(strands)
          BY ZenonT(30), <2>1
      <4> QED
          BY ZenonT(30), <4>1, <4>2 DEF PlaceInv
    <3>4. \A n \in Index : Pending(n)' <=> Pending(n)
        BY ZenonT(30), <2>1, <3>2 DEF Pending
    <3>5. \A e \in AllEdges : Told(e)' <=> Told(e)
        BY ZenonT(30), <2>1 DEF Told, Passed
    <3>6. NodeInv => NodeInv'
        BY ZenonT(30), <2>1, <3>4, <3>5, QuietNodes
    <3>7. WgInv => WgInv'
        BY ZenonT(30), <2>1 DEF WgInv, Tasks, Announced
    <3> QED
        BY ZenonT(30), <3>1, <3>3, <3>6, <3>7 DEF RunInv
  <2> QED
      BY ZenonT(30), <1>0, <1>6, <2>1, <2>2 DEF DagInv, Running
<1> QED
    BY ZenonT(30), <1>3, <1>4, <1>5, <1>7, <1>8, <1>9, <1>10 DEF Next

\* The graph, the counters and the strands agree in every state.
THEOREM DagInvariance == Spec => []DagInv
<1>1. Init => DagInv
    BY InitDag
<1>2. DagInv /\ [Next]_vars => DagInv'
    BY NextDag
<1> QED
    BY <1>1, <1>2, PTL DEF Spec

\* For every graph, number of runs and interleaving of the strands: invoke()
\* never calls the work of a node before all the nodes it depends on are
\* finished, nor a second time in a run.
THEOREM DependenciesCorrect == Spec => []DependenciesFirst
<1>1. DagInv => DependenciesFirst
  <2>1. SUFFICES ASSUME DagInv, NEW s \in 1..Len(strands), strands[s].at = "work",
                        NEW n, n = strands[s].node
                 PROVE  finished[n] = 0 /\ (n # Root => \A m \in Parents(n) : finished[m] > 0)
      BY ZenonT(30) DEF DependenciesFirst
  <2>2. Running
    <3>1. strands # <<>>
        OBVIOUS
    <3> QED
        BY ZenonT(30), <3>1 DEF Running
  <2>3. GraphInv /\ StrandInv /\ NodeInv
      BY ZenonT(30), <2>1, <2>2 DEF DagInv, RunInv
  <2>4. n \in Index
    <3>1. strands[s] \in StrandRec
        BY <2>3 DEF StrandInv
    <3> QED
        BY ZenonT(30), <2>1, <3>1 DEF StrandRec
  <2>5. Pending(n)
    <3>1. Holds(s, "work", n) /\ "work" \in Places
        BY ZenonT(30), <2>1 DEF Holds, Places
    <3> QED
        BY ZenonT(30), <3>1 DEF Pending
  <2>6. finished[n] = 0 /\ (n # Root => Left(n) = {})
      BY ZenonT(30), <2>3, <2>4, <2>5 DEF NodeInv, Begun
  <2>7. ASSUME n # Root, NEW m \in Parents(n) PROVE finished[m] > 0
    <3>1. m \in Index
        BY ZenonT(30) DEF Parents
    <3>2. PICK i \in 1..Len(outs[m]) : outs[m][i] = n
        BY ZenonT(30) DEF Parents, Edges
    <3>3. outs[m] \in Seq(0..(size - 1))
        BY ZenonT(30), <2>3, <3>1 DEF GraphInv
    <3>4. Len(outs[m]) \in Nat
        BY <3>3
    <3>5. i \in Nat \ {0} /\ i <= Len(outs[m])
        BY <3>4
    <3>6. <<m, i>> \in Into(n)
        BY ZenonT(30), <3>1, <3>2, <3>5 DEF Into
    <3>7. Told(<<m, i>>)
        BY ZenonT(30), <2>6, <2>7, <3>6 DEF Left
    <3>8. finished[m] = 1
        BY ZenonT(30), <3>7 DEF Told
    <3> QED
        BY <3>8
  <2> QED
      BY ZenonT(30), <2>6, <2>7
<1> QED
    BY <1>1, DagInvariance, PTL

\* For every graph, number of runs and interleaving of the strands: when wait()
\* returns and run() with it, exactly the nodes that follow from the root have
\* been called, each once, and every task of the run has ended, so that none
\* uses the RunContext that is destroyed.
THEOREM RunCompleteCorrect == Spec => RunComplete
<1>1. ASSUME DagInv, WgWait
      PROVE  /\ \A n \in Index : finished[n] = IF n \in Reached THEN 1 ELSE 0
             /\ \A s \in 2..Len(strands) : strands[s].at = "ended"
  <2>1. strands[1].at = "returned" /\ wg = 0 /\ Running
      BY ZenonT(30), <1>1 DEF WgWait
  <2>2. GraphInv /\ StrandInv /\ NodeInv /\ WgInv
      BY ZenonT(30), <1>1, <2>1 DEF DagInv, RunInv
  <2>3. Tasks = {}
    <3>1. IsFiniteSet(Tasks) /\ IsFiniteSet(Announced) /\ 0 = Cardinality(Tasks) + Cardinality(Announced)
        BY ZenonT(30), <2>1, <2>2 DEF WgInv
    <3>2. Cardinality(Tasks) \in Nat /\ Cardinality(Announced) \in Nat
        BY ZenonT(30), <3>1, FS_CardinalityType
    <3>3. Cardinality(Tasks) = 0
        BY <3>1, <3>2
    <3> QED
        BY ZenonT(30), <3>1, <3>3, FS_EmptySet
  <2>4. \A s \in 2..Len(strands) : strands[s].at = "ended"
      BY ZenonT(30), <2>3 DEF Tasks
  <2>5. \A s \in 1..Len(strands) : strands[s].at \in {"returned", "ended"}
    <3>1. \A s \in 1..Len(strands) : s = 1 \/ s \in 2..Len(strands)
        OBVIOUS
    <3> QED
        BY ZenonT(30), <2>1, <2>4, <3>1
  <2>6. \A n \in Index : ~Pending(n)
      BY ZenonT(30), <2>5 DEF Pending, Holds, Active
  <2>7. \A e : Told(e) <=> finished[e[1]] = 1
      BY ZenonT(30), <2>5 DEF Told, Active
  <2>8. \A n \in Index : Begun(n) <=> finished[n] = 1
      BY ZenonT(30), <2>6 DEF Begun
  <2>9. \A n \in Index : finished[n] = 1 \/ finished[n] = 0
      BY ZenonT(30), <2>2 DEF StrandInv
  <2>10. ASSUME NEW n \in Index, finished[n] = 1 PROVE n \in Reached
      BY ZenonT(30), <2>2, <2>8, <2>10 DEF NodeInv, Follows, Reached
  <2> DEFINE Done == {n \in Index : finished[n] = 1}
  <2>11. Root \in Done
    <3>1. Root \in Index
        BY DagAssumption DEF Root, Index
    <3> QED
        BY ZenonT(30), <2>2, <2>8, <3>1 DEF NodeInv
  <2>12. ASSUME NEW n \in Index, Parents(n) # {}, Parents(n) \subseteq Done PROVE n \in Done
    <3>1. Left(n) = {}
      <4>1. ASSUME NEW e \in Into(n) PROVE finished[e[1]] = 1
        <5>1. e[1] \in Index /\ e[2] \in Nat \ {0} /\ e[2] <= Len(outs[e[1]]) /\ outs[e[1]][e[2]] = n
            BY ZenonT(30) DEF Into
        <5>2. outs[e[1]] \in Seq(0..(size - 1))
            BY ZenonT(30), <2>2, <5>1 DEF GraphInv
        <5>3. Len(outs[e[1]]) \in Nat
            BY <5>2
        <5>4. e[2] \in 1..Len(outs[e[1]])
            BY <5>1, <5>3
        <5>5. e[1] \in Parents(n)
            BY ZenonT(30), <5>1, <5>4 DEF Parents, Edges
        <5> QED
            BY ZenonT(30), <2>12, <5>5
      <4> QED
          BY ZenonT(30), <2>7, <4>1 DEF Left
    <3>2. Into(n) # {}
      <4>1. PICK m \in Index : \E i \in 1..Edges(m) : outs[m][i] = n
          BY ZenonT(30), <2>12 DEF Parents
      <4>2. PICK i \in 1..Len(outs[m]) : outs[m][i] = n
          BY ZenonT(30), <4>1 DEF Edges
      <4>3. outs[m] \in Seq(0..(size - 1))
          BY ZenonT(30), <2>2 DEF GraphInv
      <4>4. Len(outs[m]) \in Nat
          BY <4>3
      <4>5. i \in Nat \ {0} /\ i <= Len(outs[m])
          BY <4>4
      <4>6. <<m, i>> \in Into(n)
          BY ZenonT(30), <4>2, <4>5 DEF Into
      <4> QED
          BY ZenonT(30), <4>6
    <3> QED
        BY ZenonT(30), <2>2, <2>8, <3>1, <3>2 DEF NodeInv
  <2>13. ASSUME NEW n \in Reached PROVE n \in Done
    <3>1. Done \in SUBSET Index
        BY ZenonT(30)
    <3> HIDE DEF Done
    <3> QED
        BY ZenonT(30), <2>11, <2>12, <3>1 DEF Reached
  <2>14. \A n \in Index : finished[n] = IF n \in Reached THEN 1 ELSE 0
      BY ZenonT(30), <2>9, <2>10, <2>13
  <2> QED
      BY ZenonT(30), <2>4, <2>14
<1>2. DagInv /\ [Next]_vars =>
        [WgWait => /\ \A n \in Index : finished[n] = IF n \in Reached THEN 1 ELSE 0
                   /\ \A s \in 2..Len(strands) : strands[s].at = "ended"]_vars
    BY ZenonT(30), <1>1
<1> QED
    BY <1>2, DagInvariance, PTL DEF Spec, RunComplete
=============================================================================
