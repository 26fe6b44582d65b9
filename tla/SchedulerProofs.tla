-------------------------- MODULE SchedulerProofs ---------------------------
(***************************************************************************)
(* For any number of worker threads, clients and tasks: the variables of   *)
(* the scheduler keep their types, the control point of a thread says what *)
(* it holds, no task is lost or duplicated, the scheduler implements       *)
(* TaskPool, and ~Scheduler() destroys the workers when every worker thread*)
(* has ended and no client is bound; with at most one worker thread every  *)
(* task is done then.                                                      *)
(***************************************************************************)
EXTENDS Scheduler, SequenceTheorems, TLAPS

\* Between the choice of a worker for a task and the end of enqueue().
Choosing == {"pick", "exchange", "roundRobin", "tryLock"}
Enqueuing == Choosing \cup {"notify"}

\* A thread holds a task exactly while it looks for a worker for it, or has
\* stolen it; it runs one only between the start and the end of that task; the
\* worker it has chosen is one of the scheduler's.
ControlInv ==
    /\ \A a \in Actor :
         /\ hand[a] # NoTask <=> pc[a] \in Choosing \cup {"stolen"}
         /\ running[a] # NoTask => pc[a] \in {"task"} \cup Enqueuing
         /\ pc[a] \in Choosing => count > 0
         /\ pc[a] \in {"tryLock", "notify"} => target[a] \in 0..(count - 1)
    /\ \A w \in Worker :
         /\ pc[w] = "absent" <=> w >= count
         /\ pc[w] \notin {"unbound", "left"}
    /\ \A i \in 0..(Slots - 1) : slots[i] # Empty => slots[i] < count

\* What the assumptions say of the sets of threads and tasks.
LEMMA Sets ==
    /\ Worker \subseteq Nat
    /\ Empty \notin Worker
    /\ Counts \subseteq Nat
    /\ \A n \in Counts : n <= MaxCount /\ 0..(n - 1) \subseteq Worker
    /\ Worker \subseteq Actor /\ Client \subseteq Actor
    /\ Task \subseteq AnyTask /\ Worker \subseteq AnyTask
BY CountAssumption DEF Worker, Empty, Actor, AnyTask

-----------------------------------------------------------------------------
\* The places of the tasks.

In(s, u)   == \E i \in 1..Len(s) : s[i] = u
Uniq(s, u) == \A i, j \in 1..Len(s) : s[i] = u /\ s[j] = u => i = j

\* The places of a task that is not finished, by kind and thread.
Kinds == {"queue", "hand", "running"}
At(k, a, u) ==
    \/ k = "queue" /\ In(queue[a], u)
    \/ k = "hand" /\ hand[a] = u
    \/ k = "running" /\ running[a] = u

\* TaskConservation, in the form in which the steps preserve it.
PlacedOnce(u) ==
    /\ \A k, l \in Kinds, a, b \in Actor : At(k, a, u) /\ At(l, b, u) => k = l /\ a = b
    /\ u \in done => \A k \in Kinds, a \in Actor : ~At(k, a, u)
    /\ home[u] = Nobody => u \notin done /\ \A k \in Kinds, a \in Actor : ~At(k, a, u)
    /\ home[u] # Nobody => u \in done \/ \E k \in Kinds, a \in Actor : At(k, a, u)
    /\ \A a \in Actor : Uniq(queue[a], u)

PlaceInv == \A u \in Task : PlacedOnce(u)

\* Every task is in one place.
LEMMA PlaceMeansConserved == PlaceInv => TaskConservation
<1> SUFFICES ASSUME PlaceInv, NEW t \in Task
             PROVE  /\ home[t] = Nobody => \A p \in Place : ~IsAt(t, p)
                    /\ home[t] # Nobody => \E p \in Place : \A q \in Place : IsAt(t, q) <=> q = p
                    /\ \A a \in Actor : \A i, j \in 1..Len(queue[a]) :
                         queue[a][i] = t /\ queue[a][j] = t => i = j
    BY DEF TaskConservation
<1>1. \A k \in Kinds, a \in Actor : <<k, a>> \in Place /\ (IsAt(t, <<k, a>>) <=> At(k, a, t))
    BY ZenonT(30) DEF Kinds, Place, IsAt, InQueue, At, In
<1>2. \A u \in Task : <<"done", u>> \in Place
                      /\ (IsAt(t, <<"done", u>>) <=> u = t /\ t \in done)
    BY DEF Place, IsAt
<1>3. \A p \in Place : \/ \E k \in Kinds, a \in Actor : p = <<k, a>>
                       \/ \E u \in Task : p = <<"done", u>>
    BY DEF Place, Kinds
<1>4. home[t] = Nobody => \A p \in Place : ~IsAt(t, p)
    BY <1>1, <1>2, <1>3 DEF PlaceInv, PlacedOnce
<1>5. ASSUME home[t] # Nobody
      PROVE  \E p \in Place : \A q \in Place : IsAt(t, q) <=> q = p
  <2>1. CASE t \in done
    <3>1. \A q \in Place : IsAt(t, q) <=> q = <<"done", t>>
        BY <1>1, <1>2, <1>3, <2>1 DEF PlaceInv, PlacedOnce, Kinds
    <3> QED
        BY ZenonT(30), <1>2, <3>1
  <2>2. CASE t \notin done
    <3>1. PICK k \in Kinds, a \in Actor : At(k, a, t)
        BY <1>5, <2>2 DEF PlaceInv, PlacedOnce
    <3>2. \A q \in Place : IsAt(t, q) <=> q = <<k, a>>
        BY <1>1, <1>2, <1>3, <2>2, <3>1 DEF PlaceInv, PlacedOnce, Kinds
    <3> QED
        BY ZenonT(30), <1>1, <3>2
  <2> QED
      BY <2>1, <2>2
<1>6. \A a \in Actor : \A i, j \in 1..Len(queue[a]) :
        queue[a][i] = t /\ queue[a][j] = t => i = j
    BY DEF PlaceInv, PlacedOnce, Uniq
<1> QED
    BY <1>4, <1>5, <1>6

-----------------------------------------------------------------------------
\* What Append does to the tasks in a queue.
LEMMA AppendIn ==
    ASSUME NEW s \in Seq(AnyTask), NEW x \in AnyTask, NEW u
    PROVE  /\ In(Append(s, x), u) <=> In(s, u) \/ u = x
           /\ Uniq(s, u) /\ ~(u = x /\ In(s, u)) => Uniq(Append(s, x), u)
<1>1. /\ Len(s) \in Nat
      /\ Len(Append(s, x)) = Len(s) + 1
      /\ \A i \in 1..Len(s) : Append(s, x)[i] = s[i]
      /\ Append(s, x)[Len(s) + 1] = x
    BY AppendProperties
<1>2. 1..(Len(s) + 1) = 1..Len(s) \cup {Len(s) + 1}
    BY <1>1
<1>3. In(Append(s, x), u) <=> In(s, u) \/ u = x
    BY <1>1, <1>2 DEF In
<1>4. ASSUME Uniq(s, u), ~(u = x /\ In(s, u)) PROVE Uniq(Append(s, x), u)
    BY <1>1, <1>2, <1>4 DEF In, Uniq
<1> QED
    BY <1>3, <1>4

\* What Tail does to them.
LEMMA TailIn ==
    ASSUME NEW s \in Seq(AnyTask), s # <<>>, NEW u
    PROVE  /\ In(s, Head(s))
           /\ Head(s) # u => (In(Tail(s), u) <=> In(s, u))
           /\ Uniq(s, u) => Uniq(Tail(s), u)
           /\ Uniq(s, u) /\ Head(s) = u => ~In(Tail(s), u)
<1>1. /\ Len(s) \in Nat \ {0}
      /\ Head(s) = s[1]
      /\ Len(Tail(s)) = Len(s) - 1
      /\ \A i \in 1..(Len(s) - 1) : Tail(s)[i] = s[i + 1]
    BY HeadTailProperties, EmptySeq, LenProperties
<1>2. \A i \in 1..(Len(s) - 1) : i + 1 \in 1..Len(s)
    BY <1>1
<1>3. \A i \in 1..Len(s) : i = 1 \/ (i - 1 \in 1..(Len(s) - 1) /\ Tail(s)[i - 1] = s[i])
    BY <1>1
<1>4. In(s, Head(s))
    BY <1>1 DEF In
<1>5. Head(s) # u => (In(Tail(s), u) <=> In(s, u))
    BY <1>1, <1>2, <1>3 DEF In
<1>6. Uniq(s, u) => Uniq(Tail(s), u)
    BY <1>1, <1>2 DEF Uniq
<1>7. Uniq(s, u) /\ Head(s) = u => ~In(Tail(s), u)
    BY <1>1, <1>2 DEF Uniq, In
<1> QED
    BY <1>4, <1>5, <1>6, <1>7

-----------------------------------------------------------------------------
\* A step that moves no task.
LEMMA PlaceStays ==
    ASSUME PlaceInv, UNCHANGED <<queue, hand, running, home, done>>
    PROVE  PlaceInv'
BY DEF PlaceInv, PlacedOnce, At, In, Uniq

\* A step after which x, which may be a task of the program or one of stop(),
\* is at one place, and the other tasks are where they were.
MovesTo(x, l, b) ==
    /\ \A u \in Task, m \in Kinds, c \in Actor :
         /\ u = x => (At(m, c, u)' <=> m = l /\ c = b)
         /\ u # x => (At(m, c, u)' <=> At(m, c, u))
    /\ \A u \in Task, c \in Actor : Uniq(queue[c], u)'
    /\ home' = home /\ done' = done

LEMMA PlaceMoves ==
    ASSUME PlaceInv, NEW x, NEW k \in Kinds, NEW a \in Actor, NEW l \in Kinds, NEW b \in Actor,
           At(k, a, x), MovesTo(x, l, b)
    PROVE  PlaceInv'
<1> SUFFICES ASSUME NEW u \in Task PROVE PlacedOnce(u)'
    BY DEF PlaceInv
<1>1. CASE u = x
    BY <1>1 DEF PlaceInv, PlacedOnce, MovesTo
<1>2. CASE u # x
    BY <1>2 DEF PlaceInv, PlacedOnce, MovesTo
<1> QED
    BY <1>1, <1>2

\* A thread takes the first task of a queue: what is in the queues then.
LEMMA TakenPlaces ==
    ASSUME TypeOK, PlaceInv, NEW a \in Actor, queue[a] # <<>>, Take(a)
    PROVE  /\ In(queue[a], Head(queue[a]))
           /\ \A u \in Task, c \in Actor : Uniq(queue[c], u)'
           /\ \A u \in Task, c \in Actor :
                In(queue[c], u)' <=> In(queue[c], u) /\ u # Head(queue[a])
<1>1. queue[a] \in Seq(AnyTask)
    BY DEF TypeOK
<1>2. \A c \in Actor : queue'[c] = IF c = a THEN Tail(queue[a]) ELSE queue[c]
    BY DEF Take, TypeOK
<1>3. \A u \in Task, c \in Actor : Uniq(queue[c], u)
    BY DEF PlaceInv, PlacedOnce
<1>4. \A u \in Task, c \in Actor : In(queue[c], u) /\ u = Head(queue[a]) => c = a
    BY <1>1, TailIn DEF PlaceInv, PlacedOnce, At, Kinds
<1>5. \A u \in Task, c \in Actor : Uniq(queue'[c], u)
    BY <1>1, <1>2, <1>3, TailIn
<1>6. \A u \in Task, c \in Actor : In(queue'[c], u) <=> In(queue[c], u) /\ u # Head(queue[a])
    BY <1>1, <1>2, <1>3, <1>4, TailIn
<1> QED
    BY <1>1, <1>5, <1>6, TailIn DEF In, Uniq

\* A task is put into a queue: what is in the queues then.
LEMMA PutPlaces ==
    ASSUME TypeOK, PlaceInv, NEW a \in Actor, NEW x \in AnyTask,
           queue' = [queue EXCEPT ![a] = Append(queue[a], x)],
           x \in Task => ~In(queue[a], x)
    PROVE  /\ \A u \in Task, c \in Actor : Uniq(queue[c], u)'
           /\ \A u \in Task, c \in Actor :
                In(queue[c], u)' <=> In(queue[c], u) \/ (u = x /\ c = a)
<1>1. queue[a] \in Seq(AnyTask)
    BY DEF TypeOK
<1>2. \A c \in Actor : queue'[c] = IF c = a THEN Append(queue[a], x) ELSE queue[c]
    BY DEF TypeOK
<1>3. \A u \in Task, c \in Actor : Uniq(queue[c], u)
    BY DEF PlaceInv, PlacedOnce
<1>5. \A u \in Task, c \in Actor : Uniq(queue'[c], u)
    BY <1>1, <1>2, <1>3, AppendIn
<1>6. \A u \in Task, c \in Actor : In(queue'[c], u) <=> In(queue[c], u) \/ (u = x /\ c = a)
    BY <1>1, <1>2, AppendIn
<1> QED
    BY ZenonT(30), <1>5, <1>6 DEF In, Uniq

\* runUntilIdle(): the first task of the queue is run.
LEMMA ContinuePlaces ==
    ASSUME TypeOK, ControlInv, PlaceInv, NEW a \in Actor, Continue(a),
           pc[a] \in {"relock", "asleep", "afterTask"}, UNCHANGED <<hand, home, done>>
    PROVE  PlaceInv'
<1>1. CASE queue[a] = <<>>
    BY <1>1, PlaceStays DEF Continue, HasWork
<1>2. CASE queue[a] # <<>>
  <2>0. PICK x : x = Head(queue[a])
      OBVIOUS
  <2>1. Take(a) /\ running' = [running EXCEPT ![a] = x] /\ hand' = hand
      BY <1>2, <2>0 DEF Continue, HasWork
  <2>2. running[a] = NoTask
      BY DEF ControlInv, Enqueuing, Choosing
  <2>3. /\ In(queue[a], x)
        /\ \A u \in Task, c \in Actor : Uniq(queue[c], u)'
        /\ \A u \in Task, c \in Actor : In(queue[c], u)' <=> In(queue[c], u) /\ u # x
      BY <1>2, <2>0, <2>1, TakenPlaces
  <2>4. \A u \in Task, c \in Actor :
          /\ running'[c] = u <=> running[c] = u \/ (u = x /\ c = a)
          /\ hand'[c] = u <=> hand[c] = u
    <3>1. NoTask \notin Task
        BY TaskAssumption DEF AnyTask
    <3> QED
        BY <2>1, <2>2, <3>1 DEF TypeOK
  <2>5. At("queue", a, x)
      BY <2>3 DEF At
  <2>6. \A u \in Task, m \in Kinds, c \in Actor :
          /\ u = x => (At(m, c, u)' <=> m = "running" /\ c = a)
          /\ u # x => (At(m, c, u)' <=> At(m, c, u))
    <3>1. \A u \in Task, c \in Actor : u = x => running[c] # u /\ hand[c] # u
        BY <2>5 DEF PlaceInv, PlacedOnce, At, Kinds
    <3> QED
        BY <2>3, <2>4, <3>1 DEF At, Kinds
  <2>7. "queue" \in Kinds /\ "running" \in Kinds /\ home' = home /\ done' = done
      BY DEF Kinds
  <2>8. MovesTo(x, "running", a)
      BY <2>3, <2>6, <2>7 DEF MovesTo
  <2> QED
      BY <2>5, <2>7, <2>8, PlaceMoves
<1> QED
    BY <1>1, <1>2

\* work_.wait().
LEMMA EnterPlaces ==
    ASSUME TypeOK, ControlInv, PlaceInv, NEW a \in Actor, Enter(a),
           pc[a] \in {"relock", "asleep"}, UNCHANGED <<hand, home, done>>
    PROVE  PlaceInv'
<1>1. CASE queue[a] # <<>> \/ shutdown[a]
    BY <1>1, ContinuePlaces DEF Enter
<1>2. CASE ~(queue[a] # <<>> \/ shutdown[a])
    BY <1>2, PlaceStays DEF Enter
<1> QED
    BY <1>1, <1>2

\* A task goes from a hand to a queue.
LEMMA HandToQueue ==
    ASSUME TypeOK, PlaceInv, NEW a \in Actor, NEW b \in Actor, hand[a] # NoTask,
           queue' = [queue EXCEPT ![b] = Append(queue[b], hand[a])],
           hand' = [hand EXCEPT ![a] = NoTask],
           UNCHANGED <<running, home, done>>
    PROVE  PlaceInv'
<1>0. PICK x : x = hand[a]
    OBVIOUS
<1>1. x \in AnyTask /\ NoTask \notin Task
    BY <1>0, TaskAssumption DEF TypeOK, AnyTask
<1>2. At("hand", a, x)
    BY <1>0 DEF At
<1>3. \A u \in Task, c \in Actor :
        u = x => ~In(queue[c], u) /\ running[c] # u /\ (hand[c] = u => c = a)
    BY <1>2 DEF PlaceInv, PlacedOnce, At, Kinds
<1>4. /\ \A u \in Task, c \in Actor : Uniq(queue[c], u)'
      /\ \A u \in Task, c \in Actor : In(queue[c], u)' <=> In(queue[c], u) \/ (u = x /\ c = b)
  <2>1. x \in Task => ~In(queue[b], x)
      BY <1>3
  <2>2. queue' = [queue EXCEPT ![b] = Append(queue[b], x)]
      BY <1>0
  <2> QED
      BY ZenonT(30), <1>1, <2>1, <2>2, PutPlaces
<1>5. \A u \in Task, c \in Actor : hand'[c] = u <=> hand[c] = u /\ c # a
    BY <1>0, <1>1 DEF TypeOK
<1>6. \A u \in Task, m \in Kinds, c \in Actor :
        /\ u = x => (At(m, c, u)' <=> m = "queue" /\ c = b)
        /\ u # x => (At(m, c, u)' <=> At(m, c, u))
    BY <1>0, <1>3, <1>4, <1>5 DEF At, Kinds
<1>7. "queue" \in Kinds /\ "hand" \in Kinds /\ home' = home /\ done' = done
    BY <1>1 DEF Kinds
<1>8. MovesTo(x, "queue", b)
    BY ZenonT(30), <1>4, <1>6, <1>7 DEF MovesTo
<1> QED
    BY <1>2, <1>7, <1>8, PlaceMoves

\* A theft: the task goes from the queue of v to the hand of w.
LEMMA StealPlaces ==
    ASSUME TypeOK, ControlInv, PlaceInv, NEW w \in Worker, NEW v \in Worker, Steal(w, v)
    PROVE  PlaceInv'
<1>0. PICK x : x = Head(queue[v])
    OBVIOUS
<1>1. /\ w \in Actor /\ v \in Actor /\ queue[v] # <<>> /\ Take(v) /\ hand[w] = NoTask
      /\ hand' = [hand EXCEPT ![w] = x]
      /\ UNCHANGED <<running, home, done>>
    BY ZenonT(30), <1>0, Sets DEF Steal, MayStealFrom, ControlInv, Choosing, histVars
<1>2. NoTask \notin Task
    BY TaskAssumption DEF AnyTask
<1>3. /\ In(queue[v], x)
      /\ \A u \in Task, c \in Actor : Uniq(queue[c], u)'
      /\ \A u \in Task, c \in Actor : In(queue[c], u)' <=> In(queue[c], u) /\ u # x
    BY ZenonT(30), <1>0, <1>1, TakenPlaces
<1>4. \A u \in Task, c \in Actor : hand'[c] = u <=> hand[c] = u \/ (u = x /\ c = w)
    BY <1>1, <1>2 DEF TypeOK
<1>5. At("queue", v, x)
    BY <1>3 DEF At
<1>6. \A u \in Task, m \in Kinds, c \in Actor :
        /\ u = x => (At(m, c, u)' <=> m = "hand" /\ c = w)
        /\ u # x => (At(m, c, u)' <=> At(m, c, u))
  <2>1. \A u \in Task, c \in Actor : u = x => running[c] # u /\ hand[c] # u
      BY <1>1, <1>5 DEF PlaceInv, PlacedOnce, At, Kinds
  <2> QED
      BY ZenonT(30), <1>1, <1>3, <1>4, <2>1 DEF At, Kinds
<1>7. "queue" \in Kinds /\ "hand" \in Kinds /\ home' = home /\ done' = done
    BY <1>1 DEF Kinds
<1>8. MovesTo(x, "hand", w)
    BY ZenonT(30), <1>3, <1>6, <1>7 DEF MovesTo
<1> QED
    BY <1>1, <1>5, <1>7, <1>8, PlaceMoves

\* A task returns.
LEMMA ReturnPlaces ==
    ASSUME TypeOK, PlaceInv, NEW a \in Actor, TaskReturns(a)
    PROVE  PlaceInv'
<1>0. PICK x : x = running[a]
    OBVIOUS
<1>1. /\ x \in AnyTask /\ NoTask \notin Task
      /\ queue' = queue /\ hand' = hand /\ home' = home /\ done' = done \cup {x}
    BY <1>0, TaskAssumption DEF TypeOK, AnyTask, TaskReturns
<1>2. \A c \in Actor : running'[c] = IF c = a THEN NoTask ELSE running[c]
    BY DEF TypeOK, TaskReturns
<1>3. At("running", a, x)
    BY <1>0 DEF At
<1>4. \A u \in Task, m \in Kinds, c \in Actor : u # x => (At(m, c, u)' <=> At(m, c, u))
    BY <1>0, <1>1, <1>2 DEF At
<1>5. \A m \in Kinds, c \in Actor : x \in Task => ~At(m, c, x)'
  <2> SUFFICES ASSUME x \in Task, NEW m \in Kinds, NEW c \in Actor
               PROVE  ~At(m, c, x)'
      OBVIOUS
  <2>1. At(m, c, x) => m = "running" /\ c = a
      BY <1>3 DEF PlaceInv, PlacedOnce, Kinds
  <2> QED
      BY <1>1, <1>2, <2>1 DEF At
<1>6. \A u \in Task, c \in Actor : Uniq(queue[c], u)'
    BY <1>1 DEF PlaceInv, PlacedOnce, Uniq
<1>7. x \in Task => home[x] # Nobody
    BY <1>3 DEF PlaceInv, PlacedOnce, Kinds
<1> SUFFICES ASSUME NEW u \in Task PROVE PlacedOnce(u)'
    BY DEF PlaceInv
<1>8. CASE u = x
    BY <1>1, <1>5, <1>6, <1>7, <1>8 DEF PlacedOnce
<1>9. CASE u # x
    BY <1>1, <1>4, <1>6, <1>9 DEF PlaceInv, PlacedOnce
<1> QED
    BY <1>8, <1>9

\* schedule(): a new task goes into a queue or into the hand of the caller.
LEMMA SchedulePlaces ==
    ASSUME TypeOK, ControlInv, PlaceInv, NEW a \in Actor, NEW t \in Task, Schedule(a, t)
    PROVE  PlaceInv'
<1>1. /\ home[t] = Nobody /\ running' = running /\ done' = done
      /\ \A u \in Task : home'[u] = IF u = t THEN a ELSE home[u]
    BY DEF TypeOK, Schedule
<1>2. /\ t \notin done /\ a # Nobody /\ t \in AnyTask /\ NoTask \notin Task
      /\ \A m \in Kinds, c \in Actor : ~At(m, c, t)
    BY ZenonT(30), <1>1, TaskAssumption DEF PlaceInv, PlacedOnce, AnyTask
<1>3. \E l \in Kinds :
        /\ \A u \in Task, m \in Kinds, c \in Actor :
             /\ u = t => (At(m, c, u)' <=> m = l /\ c = a)
             /\ u # t => (At(m, c, u)' <=> At(m, c, u))
        /\ \A u \in Task, c \in Actor : Uniq(queue[c], u)'
  <2>1. CASE t \in SameThread \/ count = 0
    <3>1. queue' = [queue EXCEPT ![a] = Append(queue[a], t)] /\ hand' = hand
        BY <2>1 DEF Schedule
    <3>2. ~In(queue[a], t)
        BY <1>2 DEF At, Kinds
    <3>3. /\ \A u \in Task, c \in Actor : Uniq(queue[c], u)'
          /\ \A u \in Task, c \in Actor :
               In(queue[c], u)' <=> In(queue[c], u) \/ (u = t /\ c = a)
        BY ZenonT(30), <1>2, <3>1, <3>2, PutPlaces
    <3>4. \A u \in Task, m \in Kinds, c \in Actor :
             /\ u = t => (At(m, c, u)' <=> m = "queue" /\ c = a)
             /\ u # t => (At(m, c, u)' <=> At(m, c, u))
        BY <1>1, <1>2, <3>1, <3>3 DEF At, Kinds
    <3> QED
        BY <3>3, <3>4 DEF Kinds
  <2>2. CASE ~(t \in SameThread \/ count = 0)
    <3>1. queue' = queue /\ hand' = [hand EXCEPT ![a] = t]
        BY <2>2 DEF Schedule
    <3>2. hand[a] = NoTask
        BY ZenonT(30) DEF ControlInv, Choosing, Schedule, InProgram
    <3>3. \A u \in Task, m \in Kinds, c \in Actor :
             /\ u = t => (At(m, c, u)' <=> m = "hand" /\ c = a)
             /\ u # t => (At(m, c, u)' <=> At(m, c, u))
        BY ZenonT(30), <1>1, <1>2, <3>1, <3>2 DEF At, Kinds, TypeOK
    <3>4. \A u \in Task, c \in Actor : Uniq(queue[c], u)'
        BY <3>1 DEF PlaceInv, PlacedOnce, Uniq
    <3> QED
        BY <3>3, <3>4 DEF Kinds
  <2> QED
      BY ZenonT(30), <2>1, <2>2
<1> SUFFICES ASSUME NEW u \in Task PROVE PlacedOnce(u)'
    BY DEF PlaceInv
<1>4. CASE u = t
    BY ZenonT(30), <1>1, <1>2, <1>3, <1>4 DEF PlacedOnce
<1>5. CASE u # t
    BY <1>1, <1>3, <1>5 DEF PlaceInv, PlacedOnce
<1> QED
    BY <1>4, <1>5

\* The worker an actor enqueues to, and the task it holds then.
LEMMA EnqueueTarget ==
    ASSUME TypeOK, ControlInv, NEW a \in Actor, EnqueueAndUnlock(a)
    PROVE  hand[a] # NoTask /\ target[a] \in Actor
<1>1. target[a] \in 0..(count - 1) /\ count \in Counts
    BY DEF EnqueueAndUnlock, ControlInv, TypeOK
<1>2. target[a] \in Worker
    BY <1>1, Sets
<1> QED
    BY ZenonT(30), <1>2, Sets DEF EnqueueAndUnlock, ControlInv, Choosing

\* What stop() puts into which queue.
LEMMA StopTarget ==
    ASSUME TypeOK, StopWorker
    PROVE  \E w \in Worker :
             /\ w = stopping - 1 /\ w \in Actor /\ w \in AnyTask /\ w \notin Task
             /\ queue' = [queue EXCEPT ![w] = Append(queue[w], w)]
             /\ hand' = hand /\ running' = running /\ home' = home /\ done' = done
<1>1. count \in Counts /\ stopping \in 0..count /\ stopping > 0
    BY DEF TypeOK, StopWorker
<1>2. count \in Nat /\ 0..(count - 1) \subseteq Worker
    BY <1>1, Sets
<1>3. PICK w \in Worker : w = stopping - 1
    BY <1>1, <1>2
<1> QED
    BY ZenonT(30), <1>3, Sets, TaskAssumption DEF StopWorker, histVars

\* stop() puts a task of its own into a queue.
LEMMA StopPlaces ==
    ASSUME TypeOK, PlaceInv, StopWorker
    PROVE  PlaceInv'
<1>1. PICK w \in Worker :
        /\ w \in Actor /\ w \in AnyTask /\ w \notin Task
        /\ queue' = [queue EXCEPT ![w] = Append(queue[w], w)]
        /\ hand' = hand /\ running' = running /\ home' = home /\ done' = done
    BY StopTarget
<1>2. /\ \A u \in Task, c \in Actor : Uniq(queue[c], u)'
      /\ \A u \in Task, c \in Actor : In(queue[c], u)' <=> In(queue[c], u) \/ (u = w /\ c = w)
    BY ZenonT(30), <1>1, PutPlaces
<1>3. \A u \in Task, m \in Kinds, c \in Actor : At(m, c, u)' <=> At(m, c, u)
    BY ZenonT(30), <1>1, <1>2 DEF At
<1> SUFFICES ASSUME NEW u \in Task PROVE PlacedOnce(u)'
    BY DEF PlaceInv
<1> QED
    BY <1>1, <1>2, <1>3 DEF PlaceInv, PlacedOnce

\* Every step keeps the tasks in their places.
LEMMA PlaceStep ==
    ASSUME TypeOK, ControlInv, PlaceInv, [Next]_vars
    PROVE  PlaceInv'
<1>1. ASSUME NEW w \in Worker, WorkerStep(w) \/ SpuriousWake(w) PROVE PlaceInv'
  <2>1. w \in Actor
      BY Sets
  <2>2. CASE BeginSpinning(w) \/ Publish(w) \/ SpinEnds(w)
      BY <2>2, PlaceStays DEF BeginSpinning, Publish, SpinEnds, histVars
  <2>3. CASE KeepStolen(w)
      BY ZenonT(30), <2>1, <2>3, HandToQueue DEF KeepStolen, ControlInv, histVars
  <2>4. CASE Relock(w) \/ Wake(w) \/ SpuriousWake(w)
      BY ZenonT(30), <2>1, <2>4, EnterPlaces DEF Relock, Wake, SpuriousWake, histVars
  <2> QED
      BY <1>1, <2>2, <2>3, <2>4 DEF WorkerStep
<1>2. ASSUME NEW w \in Worker, NEW v \in Worker, Steal(w, v) PROVE PlaceInv'
    BY <1>2, StealPlaces
<1>3. ASSUME NEW a \in Actor, ActorStep(a) \/ TryLockFails(a) PROVE PlaceInv'
  <2>1. CASE TaskReturns(a)
      BY <2>1, ReturnPlaces
  <2>2. CASE AfterTask(a)
      BY <2>2, ContinuePlaces DEF AfterTask, histVars
  <2>3. CASE EnqueueAndUnlock(a)
      BY ZenonT(30), <2>3, EnqueueTarget, HandToQueue DEF EnqueueAndUnlock, histVars
  <2>4. CASE Pick(a) \/ Exchange(a) \/ RoundRobin(a) \/ NotifyOne(a) \/ TryLockFails(a)
      BY <2>4, PlaceStays DEF Pick, Exchange, RoundRobin, NotifyOne, TryLockFails, histVars
  <2> QED
      BY <1>3, <2>1, <2>2, <2>3, <2>4 DEF ActorStep
<1>4. ASSUME NEW a \in Actor, NEW t \in Task, Schedule(a, t) PROVE PlaceInv'
    BY <1>4, SchedulePlaces
<1>5. ASSUME NEW c \in Client, Bind(c) \/ Unbind(c) \/ Unregister(c) PROVE PlaceInv'
    BY ZenonT(30), <1>5, PlaceStays DEF Bind, Unbind, Unregister, histVars
<1>6. CASE WaitUnbound \/ StopNotifies \/ Join \/ Destroy
    BY <1>6, PlaceStays DEF WaitUnbound, StopNotifies, Join, Destroy, actorVars, histVars
<1>7. CASE StopWorker
    BY <1>7, StopPlaces
<1>8. CASE UNCHANGED vars
    BY <1>8, PlaceStays DEF vars, actorVars, histVars
<1> QED
    BY <1>1, <1>2, <1>3, <1>4, <1>5, <1>6, <1>7, <1>8 DEF Next, DtorStep

\* At first every task is nowhere.
LEMMA InitPlaces == Init => PlaceInv
<1> SUFFICES ASSUME Init, NEW u \in Task PROVE PlacedOnce(u)
    BY DEF PlaceInv
<1>1. \A a \in Actor : ~In(queue[a], u) /\ Uniq(queue[a], u)
    BY DEF Init, In, Uniq
<1>2. NoTask \notin Task
    BY TaskAssumption DEF AnyTask
<1> QED
    BY <1>1, <1>2 DEF Init, PlacedOnce, At

-----------------------------------------------------------------------------
\* The types of the variables.

\* Remainders by a positive number, which the indices of slots and workers are.
LEMMA Remainder ==
    ASSUME NEW n \in Nat, NEW m \in Nat \ {0}
    PROVE  n % m \in 0..(m - 1)
OBVIOUS

\* The initial state.
LEMMA InitTypes == Init => TypeOK /\ ControlInv
<1> SUFFICES ASSUME Init PROVE TypeOK /\ ControlInv
    OBVIOUS
<1>1. TypeOK
  <2>1. /\ count \in Counts /\ stopping \in 0..count
        /\ slots \in [0..(Slots - 1) -> Worker \cup {Empty}]
        /\ nextSpin \in 0..(IndexMod - 1) /\ nextEnqueue \in 0..(IndexMod - 1)
        /\ index \in [Actor -> 0..(Slots - 1)]
      BY Sets, SlotAssumption DEF Init
  <2>2. /\ queue \in [Actor -> Seq(AnyTask)]
        /\ running \in [Actor -> AnyTask \cup {NoTask}]
        /\ hand \in [Actor -> AnyTask \cup {NoTask}]
        /\ target \in [Actor -> Worker \cup {Empty}]
        /\ bound \subseteq Client
        /\ dtor \in {"idle", "asleep", "stop", "notify", "join", "destroyed"}
        /\ home \in [Task -> Actor \cup {Nobody}]
        /\ done \subseteq AnyTask
      BY DEF Init
  <2>3. /\ notifyAdded \in [Actor -> BOOLEAN] /\ wakeup \in [Actor -> BOOLEAN]
        /\ shutdown \in [Actor -> BOOLEAN] /\ unbound \in BOOLEAN
      BY ZenonT(30) DEF Init
  <2>4. pc \in [Actor -> Point]
      BY DEF Init, Point
  <2> QED
      BY <2>1, <2>2, <2>3, <2>4 DEF TypeOK
<1>2. ControlInv
    BY Sets, SlotAssumption, CountAssumption, TaskAssumption
       DEF Init, ControlInv, Choosing, Enqueuing, Actor, Worker, Empty
<1> QED
    BY <1>1, <1>2

\* The indices stay in their ranges.
LEMMA Indices ==
    ASSUME NEW n \in 0..(IndexMod - 1)
    PROVE  /\ n % Slots \in 0..(Slots - 1)
           /\ (n + 1) % IndexMod \in 0..(IndexMod - 1)
           /\ Decrement(n) \in 0..(IndexMod - 1)
<1>1. n \in Nat /\ n + 1 \in Nat /\ n + IndexMod - 1 \in Nat
    BY SlotAssumption
<1> QED
    BY <1>1, Remainder, SlotAssumption DEF Decrement

\* runUntilIdle() and what follows it.
LEMMA ContinueTypes ==
    ASSUME TypeOK, NEW a \in Actor, Continue(a)
    PROVE  /\ pc' \in [Actor -> Point]
           /\ running' \in [Actor -> AnyTask \cup {NoTask}]
           /\ queue' \in [Actor -> Seq(AnyTask)]
<1>1. queue[a] \in Seq(AnyTask)
    BY DEF TypeOK
<1>2. CASE queue[a] # <<>>
  <2>1. Head(queue[a]) \in AnyTask /\ Tail(queue[a]) \in Seq(AnyTask)
      BY <1>1, <1>2, HeadTailProperties
  <2> QED
      BY ZenonT(30), <1>2, <2>1 DEF TypeOK, Continue, HasWork, Take, Point
<1>3. CASE queue[a] = <<>>
    BY ZenonT(30), <1>3 DEF TypeOK, Continue, HasWork, Point
<1> QED
    BY <1>2, <1>3

\* work_.wait().
LEMMA EnterTypes ==
    ASSUME TypeOK, NEW a \in Actor, Enter(a)
    PROVE  /\ pc' \in [Actor -> Point]
           /\ running' \in [Actor -> AnyTask \cup {NoTask}]
           /\ queue' \in [Actor -> Seq(AnyTask)]
           /\ notifyAdded' \in [Actor -> BOOLEAN]
<1>1. CASE queue[a] # <<>> \/ shutdown[a]
    BY ZenonT(30), <1>1, ContinueTypes DEF TypeOK, Enter
<1>2. CASE ~(queue[a] # <<>> \/ shutdown[a])
    BY ZenonT(30), <1>2 DEF TypeOK, Enter, Point
<1> QED
    BY <1>1, <1>2

\* The steps of a worker's loop keep the types.
LEMMA WorkerTypes ==
    ASSUME TypeOK, ControlInv, NEW w \in Worker, WorkerStep(w) \/ SpuriousWake(w)
    PROVE  TypeOK'
<1>0. w \in Actor
    BY Sets
<1>1. CASE BeginSpinning(w)
    BY ZenonT(30), <1>0, <1>1, Indices DEF TypeOK, BeginSpinning, dtorVars, histVars, Point
<1>2. CASE Publish(w)
    BY ZenonT(30), <1>0, <1>2 DEF TypeOK, Publish, dtorVars, histVars, Point
<1>3. CASE SpinEnds(w)
    BY <1>0, <1>3 DEF TypeOK, SpinEnds, schedVars, dtorVars, histVars, Point
<1>4. CASE KeepStolen(w)
  <2>1. hand[w] \in AnyTask
      BY ZenonT(30), <1>0, <1>4 DEF TypeOK, ControlInv, KeepStolen
  <2>2. queue' \in [Actor -> Seq(AnyTask)]
      BY ZenonT(30), <1>0, <1>4, <2>1, AppendProperties DEF TypeOK, KeepStolen
  <2> QED
      BY ZenonT(30), <1>0, <1>4, <2>2 DEF TypeOK, KeepStolen, schedVars, dtorVars, histVars, Point
<1>5. CASE Relock(w)
    BY ZenonT(30), <1>0, <1>5, EnterTypes DEF TypeOK, Relock, schedVars, dtorVars, histVars
<1>6. CASE Wake(w)
    BY ZenonT(30), <1>0, <1>6, EnterTypes DEF TypeOK, Wake, schedVars, dtorVars, histVars
<1>7. CASE SpuriousWake(w)
    BY ZenonT(30), <1>0, <1>7, EnterTypes DEF TypeOK, SpuriousWake, schedVars, dtorVars, histVars
<1> QED
    BY <1>1, <1>2, <1>3, <1>4, <1>5, <1>6, <1>7 DEF WorkerStep

\* A theft keeps the types.
LEMMA StealTypes ==
    ASSUME TypeOK, NEW w \in Worker, NEW v \in Worker, Steal(w, v)
    PROVE  TypeOK'
<1>1. w \in Actor /\ v \in Actor /\ queue[v] \in Seq(AnyTask) /\ queue[v] # <<>>
    BY ZenonT(30), Sets DEF TypeOK, Steal, MayStealFrom
<1>2. Head(queue[v]) \in AnyTask /\ Tail(queue[v]) \in Seq(AnyTask)
    BY ZenonT(30), <1>1, HeadTailProperties
<1> QED
    BY <1>1, <1>2 DEF TypeOK, Steal, Take, schedVars, dtorVars, histVars, Point

\* The steps of a task, and of enqueue(), keep the types.
LEMMA ActorTypes ==
    ASSUME TypeOK, ControlInv, NEW a \in Actor, ActorStep(a) \/ TryLockFails(a)
    PROVE  TypeOK'
<1>1. CASE TaskReturns(a)
  <2>1. shutdown' \in [Actor -> BOOLEAN]
      BY ZenonT(30), <1>1 DEF TypeOK, TaskReturns
  <2>2. done' \subseteq AnyTask
      BY ZenonT(30), <1>1, TaskAssumption DEF TypeOK, TaskReturns
  <2> QED
      BY ZenonT(30), <1>1, <2>1, <2>2 DEF TypeOK, TaskReturns, schedVars, dtorVars, histVars, Point
<1>2. CASE AfterTask(a)
    BY ZenonT(30), <1>2, ContinueTypes DEF TypeOK, AfterTask, schedVars, dtorVars, histVars
<1>3. CASE Pick(a)
  <2>1. nextSpin' \in 0..(IndexMod - 1) /\ nextSpin' % Slots \in 0..(Slots - 1)
      BY ZenonT(30), <1>3, Indices DEF TypeOK, Pick
  <2> QED
      BY <1>3, <2>1 DEF TypeOK, Pick, dtorVars, histVars, Point
<1>4. CASE Exchange(a)
    BY <1>4 DEF TypeOK, Exchange, dtorVars, histVars, Point
<1>5. CASE RoundRobin(a)
  <2>1. count \in Nat \ {0} /\ nextEnqueue \in Nat
      BY <1>5, Sets, SlotAssumption DEF TypeOK, ControlInv, Choosing, RoundRobin
  <2>2. nextEnqueue % count \in Worker
      BY ZenonT(30), <2>1, Remainder, Sets DEF TypeOK
  <2> QED
      BY ZenonT(30), <1>5, <2>2, Indices DEF TypeOK, RoundRobin, dtorVars, histVars, Point
<1>6. CASE EnqueueAndUnlock(a)
  <2>1. hand[a] \in AnyTask
      BY ZenonT(30), <1>6 DEF TypeOK, ControlInv, Choosing, EnqueueAndUnlock
  <2>2. target[a] \in Actor
      BY <1>6, Sets DEF TypeOK, ControlInv, EnqueueAndUnlock
  <2>3. queue' \in [Actor -> Seq(AnyTask)]
      BY ZenonT(30), <1>6, <2>1, <2>2, AppendProperties DEF TypeOK, EnqueueAndUnlock
  <2> QED
      BY ZenonT(30), <1>6, <2>3 DEF TypeOK, EnqueueAndUnlock, schedVars, dtorVars, histVars, Point
<1>7. CASE TryLockFails(a)
    BY ZenonT(30), <1>7 DEF TypeOK, TryLockFails, schedVars, dtorVars, histVars, Point
<1>8. CASE NotifyOne(a)
  <2>1. wakeup' \in [Actor -> BOOLEAN]
      BY ZenonT(30), <1>8 DEF TypeOK, NotifyOne
  <2> QED
      BY <1>8, <2>1 DEF TypeOK, NotifyOne, schedVars, dtorVars, histVars, Point
<1> QED
    BY ZenonT(30), <1>1, <1>2, <1>3, <1>4, <1>5, <1>6, <1>7, <1>8 DEF ActorStep

\* schedule() keeps the types.
LEMMA ScheduleTypes ==
    ASSUME TypeOK, NEW a \in Actor, NEW t \in Task, Schedule(a, t)
    PROVE  TypeOK'
<1>1. t \in AnyTask
    BY Sets
<1>2. Append(queue[a], t) \in Seq(AnyTask)
    BY ZenonT(30), <1>1, AppendProperties DEF TypeOK
<1>3. queue' \in [Actor -> Seq(AnyTask)]
    BY ZenonT(30), <1>2 DEF TypeOK, Schedule
<1> QED
    BY ZenonT(30), <1>1, <1>3 DEF TypeOK, Schedule, schedVars, dtorVars, Point

\* Binding and unbinding keep the types.
LEMMA ClientTypes ==
    ASSUME TypeOK, NEW c \in Client, Bind(c) \/ Unbind(c) \/ Unregister(c)
    PROVE  TypeOK'
<1>0. c \in Actor
    BY ZenonT(30), Sets
<1>1. CASE Bind(c)
    BY ZenonT(30), <1>0, <1>1 DEF TypeOK, Bind, dtorVars, histVars, Point
<1>2. CASE Unbind(c)
    BY ZenonT(30), <1>0, <1>2 DEF TypeOK, Unbind, schedVars, dtorVars, histVars, Point
<1>3. CASE Unregister(c)
  <2>1. unbound' \in BOOLEAN
      BY <1>3 DEF TypeOK, Unregister
  <2> QED
      BY ZenonT(30), <1>0, <1>3, <2>1 DEF TypeOK, Unregister, histVars, Point
<1> QED
    BY <1>1, <1>2, <1>3

\* The destructor keeps the types.
LEMMA DtorTypes ==
    ASSUME TypeOK, WaitUnbound \/ DtorStep
    PROVE  TypeOK'
<1>0. count \in Nat /\ stopping \in 0..count /\ count <= MaxCount
    BY Sets DEF TypeOK
<1>1. CASE WaitUnbound
    BY ZenonT(30), <1>1 DEF TypeOK, WaitUnbound, actorVars, schedVars, histVars
<1>2. CASE StopWorker
  <2>1. stopping - 1 \in 0..count /\ stopping - 1 \in Worker /\ stopping - 1 \in Actor
      BY <1>0, <1>2, Sets, CountAssumption DEF StopWorker, Worker
  <2>2. stopping - 1 \in AnyTask
      BY ZenonT(30), <2>1, Sets
  <2>3. queue' \in [Actor -> Seq(AnyTask)]
      BY ZenonT(30), <1>2, <2>1, <2>2, AppendProperties DEF TypeOK, StopWorker
  <2> QED
      BY <1>2, <2>1, <2>3 DEF TypeOK, StopWorker, schedVars, histVars
<1>3. CASE StopNotifies
  <2>1. wakeup' \in [Actor -> BOOLEAN]
      BY ZenonT(30), <1>3 DEF TypeOK, StopNotifies
  <2> QED
      BY <1>3, <2>1 DEF TypeOK, StopNotifies, schedVars, histVars
<1>4. CASE Join
    BY ZenonT(30), <1>4 DEF TypeOK, Join, actorVars, schedVars, histVars
<1>5. CASE Destroy
    BY ZenonT(30), <1>5 DEF TypeOK, Destroy, actorVars, schedVars, histVars
<1> QED
    BY <1>1, <1>2, <1>3, <1>4, <1>5 DEF DtorStep

-----------------------------------------------------------------------------
\* What one thread does leaves the control of the others alone: the invariant
\* needs to be shown for that thread, and for a slot that it writes.
LEMMA ControlFrame ==
    ASSUME TypeOK, ControlInv, NEW a \in Actor,
           \A b \in Actor \ {a} : /\ pc'[b] = pc[b] /\ hand'[b] = hand[b]
                                  /\ running'[b] = running[b] /\ target'[b] = target[b],
           hand'[a] # NoTask <=> pc'[a] \in Choosing \cup {"stolen"},
           running'[a] # NoTask => pc'[a] \in {"task"} \cup Enqueuing,
           pc'[a] \in Choosing => count > 0,
           pc'[a] \in {"tryLock", "notify"} => target'[a] \in 0..(count - 1),
           a \in Worker => /\ pc'[a] = "absent" <=> a >= count
                          /\ pc'[a] \notin {"unbound", "left"},
           \A i \in 0..(Slots - 1) : slots'[i] # Empty => slots'[i] < count,
           count' = count
    PROVE  ControlInv'
BY ZenonT(30), Sets DEF ControlInv

\* A worker between two tasks: neither hand nor stack holds one.
LEMMA ContinueControl ==
    ASSUME TypeOK, ControlInv, NEW a \in Actor, Continue(a),
           pc[a] \in {"relock", "asleep", "afterTask"},
           UNCHANGED <<hand, target, count, slots>>
    PROVE  ControlInv'
<1>1. hand[a] = NoTask /\ running[a] = NoTask
    BY ZenonT(30) DEF ControlInv, Choosing, Enqueuing
<1>2. a \in Worker => a < count
    BY Sets DEF ControlInv, TypeOK
<1>3. /\ pc'[a] \in {"task", "exited", "beginSpinning"}
      /\ running'[a] # NoTask => pc'[a] = "task"
      /\ \A b \in Actor \ {a} : pc'[b] = pc[b] /\ running'[b] = running[b]
    BY <1>1 DEF Continue, TypeOK
<1> QED
    BY ZenonT(30), <1>1, <1>2, <1>3, ControlFrame, Sets DEF ControlInv, Choosing, Enqueuing, TypeOK

\* work_.wait().
LEMMA EnterControl ==
    ASSUME TypeOK, ControlInv, NEW a \in Actor, Enter(a), pc[a] \in {"relock", "asleep"},
           UNCHANGED <<hand, target, count, slots>>
    PROVE  ControlInv'
<1>1. CASE queue[a] # <<>> \/ shutdown[a]
    BY ZenonT(30), <1>1, ContinueControl DEF Enter
<1>2. CASE ~(queue[a] # <<>> \/ shutdown[a])
    BY ZenonT(30), <1>2, Sets DEF Enter, ControlInv, Choosing, Enqueuing, TypeOK
<1> QED
    BY ZenonT(30), <1>1, <1>2

\* The steps of a worker's loop.
LEMMA WorkerControl ==
    ASSUME TypeOK, ControlInv, NEW w \in Worker, WorkerStep(w) \/ SpuriousWake(w)
    PROVE  ControlInv'
<1>0. w \in Actor
    BY Sets
<1>1. CASE BeginSpinning(w)
    BY ZenonT(30), <1>0, <1>1, Sets DEF BeginSpinning, ControlInv, Choosing, Enqueuing, TypeOK
<1>2. CASE Publish(w)
  <2>1. w < count
      BY <1>2, Sets DEF ControlInv, Choosing, Enqueuing, TypeOK, Publish
  <2> QED
      BY <1>0, <1>2, <2>1 DEF Publish, ControlInv, Choosing, Enqueuing, TypeOK
<1>3. CASE SpinEnds(w)
    BY ZenonT(30), <1>0, <1>3, Sets DEF SpinEnds, schedVars, ControlInv, Choosing, Enqueuing, TypeOK
<1>4. CASE KeepStolen(w)
    BY ZenonT(30), <1>0, <1>4, Sets DEF KeepStolen, schedVars, ControlInv, Choosing, Enqueuing, TypeOK
<1>5. CASE Relock(w)
    BY <1>0, <1>5, EnterControl DEF Relock, schedVars
<1>6. CASE Wake(w)
    BY ZenonT(30), <1>0, <1>6, EnterControl DEF Wake, schedVars
<1>7. CASE SpuriousWake(w)
    BY <1>0, <1>7, EnterControl DEF SpuriousWake, schedVars
<1> QED
    BY <1>1, <1>2, <1>3, <1>4, <1>5, <1>6, <1>7 DEF WorkerStep

\* A theft: the stolen task is in the thief's hand.
LEMMA StealControl ==
    ASSUME TypeOK, ControlInv, NEW w \in Worker, NEW v \in Worker, Steal(w, v)
    PROVE  ControlInv'
<1>1. w \in Actor /\ v \in Actor /\ queue[v] \in Seq(AnyTask) /\ queue[v] # <<>>
    BY Sets DEF TypeOK, Steal, MayStealFrom
<1>2. Head(queue[v]) # NoTask
    BY <1>1, HeadTailProperties, TaskAssumption
<1> QED
    BY ZenonT(30), <1>1, <1>2, Sets DEF Steal, schedVars, ControlInv, Choosing, Enqueuing, TypeOK

\* The steps of a task, and of enqueue().
LEMMA ActorControl ==
    ASSUME TypeOK, ControlInv, NEW a \in Actor, ActorStep(a) \/ TryLockFails(a)
    PROVE  ControlInv'
<1>1. CASE TaskReturns(a)
    BY <1>1 DEF TaskReturns, schedVars, ControlInv, Choosing, Enqueuing, TypeOK
<1>2. CASE AfterTask(a)
    BY ZenonT(30), <1>2, ContinueControl DEF AfterTask, schedVars
<1>3. CASE Pick(a)
    BY <1>3 DEF Pick, ControlInv, Choosing, Enqueuing, TypeOK
<1>4. CASE Exchange(a)
  <2>1. slots[index[a]] \in Worker \cup {Empty} /\ index[a] \in 0..(Slots - 1)
      BY ZenonT(30) DEF TypeOK
  <2>2. slots[index[a]] # Empty => slots[index[a]] \in 0..(count - 1)
    <3>1. count \in Nat /\ (slots[index[a]] # Empty => slots[index[a]] < count)
        BY <2>1, Sets DEF ControlInv, TypeOK
    <3>2. slots[index[a]] # Empty => slots[index[a]] \in Nat
        BY ZenonT(30), <2>1, Sets
    <3> QED
        BY <3>1, <3>2
  <2> QED
      BY ZenonT(30), <1>4, <2>2, Sets DEF Exchange, ControlInv, Choosing, Enqueuing, TypeOK
<1>5. CASE RoundRobin(a)
  <2>1. count \in Nat \ {0} /\ nextEnqueue \in Nat
      BY <1>5, Sets, SlotAssumption DEF TypeOK, ControlInv, Choosing, RoundRobin
  <2>2. nextEnqueue % count \in 0..(count - 1)
      BY ZenonT(30), <2>1, Remainder
  <2> QED
      BY <1>5, <2>1, <2>2 DEF RoundRobin, ControlInv, Choosing, Enqueuing, TypeOK
<1>6. CASE EnqueueAndUnlock(a)
    BY <1>6 DEF EnqueueAndUnlock, schedVars, ControlInv, Choosing, Enqueuing, TypeOK
<1>7. CASE TryLockFails(a)
    BY <1>7 DEF TryLockFails, schedVars, ControlInv, Choosing, Enqueuing, TypeOK
<1>8. CASE NotifyOne(a)
    BY <1>8 DEF NotifyOne, schedVars, ControlInv, Choosing, Enqueuing, TypeOK
<1> QED
    BY ZenonT(30), <1>1, <1>2, <1>3, <1>4, <1>5, <1>6, <1>7, <1>8 DEF ActorStep

\* schedule() and the steps of clients.
LEMMA ClientControl ==
    ASSUME TypeOK, ControlInv,
           \/ \E a \in Actor, t \in Task : Schedule(a, t)
           \/ \E c \in Client : Bind(c) \/ Unbind(c) \/ Unregister(c)
    PROVE  ControlInv'
<1>1. ASSUME NEW a \in Actor, NEW t \in Task, Schedule(a, t) PROVE ControlInv'
  <2>1. t # NoTask /\ count \in Nat
      BY Sets, TaskAssumption DEF TypeOK
  <2>2. CASE t \in SameThread \/ count = 0
      BY ZenonT(30), <1>1, <2>2 DEF Schedule, schedVars, ControlInv, Choosing, Enqueuing, TypeOK
  <2>3. CASE ~(t \in SameThread \/ count = 0)
    <3>0. count > 0
        BY <2>1, <2>3
    <3>1. pc[a] = "task" /\ UNCHANGED <<running, target, slots, count>>
        BY ZenonT(30), <1>1 DEF Schedule, InProgram, schedVars
    <3>2. /\ pc' = [pc EXCEPT ![a] = "pick"]
          /\ hand' = [hand EXCEPT ![a] = t]
        BY <1>1, <2>3 DEF Schedule
    <3> QED
        BY ZenonT(30), <2>1, <3>0, <3>1, <3>2, Sets DEF ControlInv, Choosing, Enqueuing, TypeOK
  <2> QED
      BY ZenonT(30), <2>2, <2>3
<1>2. ASSUME NEW c \in Client, Bind(c) \/ Unbind(c) \/ Unregister(c) PROVE ControlInv'
  <2>1. c \in Actor /\ c \notin Worker
      BY ZenonT(30), Sets, TaskAssumption
  <2>2. CASE Bind(c)
      BY <2>1, <2>2 DEF Bind, ControlInv, Choosing, Enqueuing, TypeOK
  <2>3. CASE Unbind(c)
      BY <2>1, <2>3 DEF Unbind, schedVars, ControlInv, Choosing, Enqueuing, TypeOK
  <2>4. CASE Unregister(c)
      BY ZenonT(30), <2>1, <2>4, Sets DEF Unregister, ControlInv, Choosing, Enqueuing, TypeOK
  <2> QED
      BY <1>2, <2>2, <2>3, <2>4
<1> QED
    BY <1>1, <1>2

\* The destructor leaves the threads' control alone.
LEMMA DtorControl ==
    ASSUME TypeOK, ControlInv, WaitUnbound \/ DtorStep
    PROVE  ControlInv'
<1>1. UNCHANGED <<pc, hand, running, target, slots, count>>
    BY DEF WaitUnbound, DtorStep, StopWorker, StopNotifies, Join, Destroy,
           actorVars, schedVars
<1> QED
    BY ZenonT(30), <1>1 DEF ControlInv

\* Types and control, together, are inductive.
LEMMA TypesStep ==
    ASSUME TypeOK, ControlInv, [Next]_vars
    PROVE  TypeOK' /\ ControlInv'
<1>1. CASE UNCHANGED vars
    BY <1>1 DEF TypeOK, ControlInv, vars, actorVars, schedVars, dtorVars, histVars
<1>2. CASE Next
  <2>1. TypeOK'
      BY ZenonT(30), <1>2, WorkerTypes, StealTypes, ActorTypes, ScheduleTypes, ClientTypes, DtorTypes DEF Next
  <2>2. ControlInv'
      BY <1>2, WorkerControl, StealControl, ActorControl, ClientControl, DtorControl DEF Next
  <2> QED
      BY <2>1, <2>2
<1> QED
    BY ZenonT(30), <1>1, <1>2

\* The variables of the scheduler keep their types, whatever the numbers of
\* workers, clients and tasks; the unsigned counters of the spinning and the
\* enqueuing index stay in their range.
THEOREM SchedulerTypeCorrect == Spec => [](TypeOK /\ ControlInv)
BY InitTypes, TypesStep, PTL DEF Spec

\* No task is lost or duplicated, however many threads steal and enqueue.
THEOREM ConservationCorrect == Spec => []TaskConservation
BY InitPlaces, PlaceStep, PlaceMeansConserved, SchedulerTypeCorrect, PTL DEF Spec

-----------------------------------------------------------------------------
\* A task that must stay on its thread is never in a hand, and only in the queue
\* of the thread that scheduled it.
StayInv ==
    \A u \in SameThread, a \in Actor :
       hand[a] # u /\ (In(queue[a], u) => home[u] = a)

\* A step that puts no such task anywhere.
LEMMA StayKept ==
    ASSUME StayInv, home' = home,
           \A u \in SameThread, c \in Actor :
              /\ hand'[c] = u => hand[c] = u
              /\ In(queue[c], u)' => In(queue[c], u)
    PROVE  StayInv'
BY ZenonT(30) DEF StayInv, In

\* The first task of a queue is taken, and perhaps held.
LEMMA TakenStays ==
    ASSUME TypeOK, PlaceInv, StayInv, NEW a \in Actor, queue[a] # <<>>, Take(a), home' = home,
           \/ hand' = hand
           \/ \E w \in Actor : /\ hand' = [hand EXCEPT ![w] = Head(queue[a])]
                               /\ Head(queue[a]) \notin SameThread
    PROVE  StayInv'
<1>1. \A u \in Task, c \in Actor : In(queue[c], u)' => In(queue[c], u)
    BY ZenonT(30), TakenPlaces
<1>2. \A u \in SameThread, c \in Actor : hand'[c] = u => hand[c] = u
    BY ZenonT(30) DEF TypeOK
<1>3. SameThread \subseteq Task
    BY ZenonT(30), TaskAssumption
<1> QED
    BY ZenonT(30), <1>1, <1>2, <1>3, StayKept

\* A task that is held, or one of stop(), is put into a queue.
LEMMA PutStays ==
    ASSUME TypeOK, PlaceInv, StayInv, NEW a \in Actor, NEW x \in AnyTask,
           queue' = [queue EXCEPT ![a] = Append(queue[a], x)],
           x \in Task => ~In(queue[a], x), x \notin SameThread, home' = home,
           \A u \in SameThread, c \in Actor : hand'[c] = u => hand[c] = u
    PROVE  StayInv'
<1>1. \A u \in Task, c \in Actor : In(queue[c], u)' => In(queue[c], u) \/ (u = x /\ c = a)
    BY ZenonT(30), PutPlaces
<1>2. SameThread \subseteq Task
    BY ZenonT(30), TaskAssumption
<1> QED
    BY ZenonT(30), <1>1, <1>2, StayKept

\* A held task is put into a queue.
LEMMA HandStays ==
    ASSUME TypeOK, PlaceInv, StayInv, NEW a \in Actor, NEW b \in Actor, hand[a] # NoTask,
           queue' = [queue EXCEPT ![b] = Append(queue[b], hand[a])],
           hand' = [hand EXCEPT ![a] = NoTask], home' = home
    PROVE  StayInv'
<1>1. PICK x \in AnyTask : x = hand[a]
    BY ZenonT(30) DEF TypeOK
<1>2. x \in Task => ~In(queue[b], x)
  <2>1. At("hand", a, x)
      BY <1>1 DEF At
  <2> QED
      BY <2>1 DEF PlaceInv, PlacedOnce, At, Kinds
<1>3. x \notin SameThread
    BY ZenonT(30), <1>1 DEF StayInv
<1>4. \A u \in SameThread, c \in Actor : hand'[c] = u => hand[c] = u
  <2>1. NoTask \notin SameThread
      BY TaskAssumption DEF AnyTask
  <2> QED
      BY <2>1 DEF TypeOK
<1>5. queue' = [queue EXCEPT ![b] = Append(queue[b], x)]
    BY <1>1
<1> QED
    BY ZenonT(30), <1>2, <1>3, <1>4, <1>5, PutStays

\* schedule().
LEMMA ScheduleStays ==
    ASSUME TypeOK, PlaceInv, StayInv, NEW a \in Actor, NEW t \in Task, Schedule(a, t)
    PROVE  StayInv'
<1>1. \A u \in Task : home'[u] = IF u = t THEN a ELSE home[u]
    BY ZenonT(30) DEF TypeOK, Schedule
<1>2. \A c \in Actor : ~In(queue[c], t) /\ hand[c] # t
    BY ZenonT(30) DEF Schedule, PlaceInv, PlacedOnce, At, Kinds
<1>3. SameThread \subseteq Task /\ t \in AnyTask
    BY ZenonT(30), TaskAssumption DEF AnyTask
<1>4. CASE t \in SameThread \/ count = 0
  <2>1. queue' = [queue EXCEPT ![a] = Append(queue[a], t)] /\ hand' = hand
      BY <1>4 DEF Schedule
  <2>2. \A u \in Task, c \in Actor : In(queue[c], u)' => In(queue[c], u) \/ (u = t /\ c = a)
      BY ZenonT(30), <1>2, <1>3, <2>1, PutPlaces
  <2> QED
      BY ZenonT(30), <1>1, <1>2, <1>3, <2>1, <2>2 DEF StayInv
<1>5. CASE ~(t \in SameThread \/ count = 0)
  <2>1. queue' = queue /\ hand' = [hand EXCEPT ![a] = t] /\ t \notin SameThread
      BY <1>5 DEF Schedule
  <2>2. \A u \in SameThread, c \in Actor : hand'[c] # u
      BY ZenonT(30), <2>1 DEF StayInv, TypeOK
  <2>3. \A u \in SameThread : home'[u] = home[u]
      BY ZenonT(30), <1>1, <1>3, <2>1
  <2>4. \A u \in SameThread, c \in Actor : In(queue[c], u)' => In(queue[c], u)
      BY ZenonT(30), <2>1 DEF In
  <2> QED
      BY ZenonT(30), <2>2, <2>3, <2>4 DEF StayInv
<1> QED
    BY ZenonT(30), <1>4, <1>5

\* runUntilIdle(), alone and from work_.wait().
LEMMA ContinueStays ==
    ASSUME TypeOK, PlaceInv, StayInv, NEW a \in Actor, Continue(a) \/ Enter(a),
           hand' = hand, home' = home
    PROVE  StayInv'
<1>1. CASE queue[a] # <<>> /\ Take(a)
    BY <1>1, TakenStays
<1>2. CASE queue' = queue
    BY <1>2 DEF StayInv, In
<1> QED
    BY <1>1, <1>2 DEF Continue, Enter, HasWork

\* Every step keeps such tasks on their threads.
LEMMA StayStep ==
    ASSUME TypeOK, ControlInv, PlaceInv, StayInv, [Next]_vars
    PROVE  StayInv'
<1>1. ASSUME NEW w \in Worker, WorkerStep(w) \/ SpuriousWake(w) PROVE StayInv'
  <2>1. w \in Actor
      BY ZenonT(30), Sets
  <2>2. CASE BeginSpinning(w) \/ Publish(w) \/ SpinEnds(w)
      BY ZenonT(30), <2>2 DEF BeginSpinning, Publish, SpinEnds, histVars, StayInv, In
  <2>3. CASE KeepStolen(w)
      BY ZenonT(30), <2>1, <2>3, HandStays DEF KeepStolen, ControlInv, histVars
  <2>4. CASE Relock(w) \/ Wake(w) \/ SpuriousWake(w)
      BY ZenonT(30), <2>1, <2>4, ContinueStays DEF Relock, Wake, SpuriousWake, histVars
  <2> QED
      BY <1>1, <2>2, <2>3, <2>4 DEF WorkerStep
<1>2. ASSUME NEW w \in Worker, NEW v \in Worker, Steal(w, v) PROVE StayInv'
    BY ZenonT(30), <1>2, TakenStays, Sets DEF Steal, MayStealFrom, histVars
<1>3. ASSUME NEW a \in Actor, ActorStep(a) \/ TryLockFails(a) PROVE StayInv'
  <2>1. CASE AfterTask(a)
      BY <2>1, ContinueStays DEF AfterTask, histVars
  <2>2. CASE EnqueueAndUnlock(a)
      BY ZenonT(30), <2>2, EnqueueTarget, HandStays DEF EnqueueAndUnlock, histVars
  <2>3. CASE \/ TaskReturns(a) \/ Pick(a) \/ Exchange(a) \/ RoundRobin(a)
             \/ NotifyOne(a) \/ TryLockFails(a)
      BY ZenonT(30), <2>3 DEF TaskReturns, Pick, Exchange, RoundRobin, NotifyOne, TryLockFails, histVars,
                  StayInv, In
  <2> QED
      BY <1>3, <2>1, <2>2, <2>3 DEF ActorStep
<1>4. ASSUME NEW a \in Actor, NEW t \in Task, Schedule(a, t) PROVE StayInv'
    BY ZenonT(30), <1>4, ScheduleStays
<1>5. ASSUME NEW c \in Client, Bind(c) \/ Unbind(c) \/ Unregister(c) PROVE StayInv'
    BY ZenonT(30), <1>5 DEF Bind, Unbind, Unregister, histVars, StayInv, In
<1>6. CASE WaitUnbound \/ StopNotifies \/ Join \/ Destroy
    BY ZenonT(30), <1>6 DEF WaitUnbound, StopNotifies, Join, Destroy, actorVars, histVars, StayInv, In
<1>7. CASE StopWorker
  <2>1. PICK w \in Worker :
          /\ w \in Actor /\ w \in AnyTask /\ w \notin Task
          /\ queue' = [queue EXCEPT ![w] = Append(queue[w], w)]
          /\ hand' = hand /\ home' = home
      BY <1>7, StopTarget
  <2>2. w \notin SameThread
      BY <2>1, TaskAssumption
  <2> QED
      BY ZenonT(30), <2>1, <2>2, PutStays
<1>8. CASE UNCHANGED vars
    BY ZenonT(30), <1>8 DEF vars, actorVars, histVars, StayInv, In
<1> QED
    BY ZenonT(30), <1>1, <1>2, <1>3, <1>4, <1>5, <1>6, <1>7, <1>8 DEF Next, DtorStep

-----------------------------------------------------------------------------
\* A step that starts and ends nothing is a stuttering step of TaskPool.
LEMMA Stutters ==
    ASSUME running' = running, done' = done, home' = home
    PROVE  [TP!Next]_TP!vars
BY DEF TP!vars

\* A task that is started is one TaskPool lets start.
LEMMA ContinueRefines ==
    ASSUME TypeOK, ControlInv, PlaceInv, StayInv, NEW a \in Actor, Continue(a) \/ Enter(a),
           pc[a] \in {"relock", "asleep", "afterTask"}, home' = home, done' = done
    PROVE  [TP!Next]_TP!vars
<1>1. CASE running' = running
    BY <1>1, Stutters
<1>2. CASE queue[a] # <<>> /\ running' = [running EXCEPT ![a] = Head(queue[a])]
  <2>1. PICK x : x = Head(queue[a])
      OBVIOUS
  <2>2. running[a] = NoTask /\ NoTask \notin Task
      BY TaskAssumption DEF ControlInv, Enqueuing, Choosing, AnyTask
  <2>3. \A c \in Actor : running'[c] = IF c = a THEN x ELSE running[c]
      BY ZenonT(30), <1>2, <2>1 DEF TypeOK
  <2>4. At("queue", a, x)
      BY ZenonT(30), <1>2, <2>1, TailIn DEF TypeOK, At
  <2>5. CASE x \in Task
    <3>1. /\ home[x] # Nobody /\ x \notin done
          /\ \A b \in Actor : running[b] # x
        BY ZenonT(30), <2>4, <2>5 DEF PlaceInv, PlacedOnce, At, Kinds
    <3>2. x \in SameThread => home[x] = a
        BY ZenonT(30), <2>4 DEF StayInv, At
    <3>3. TP!Start(a, x)
      <4>1. [c \in Actor |-> IF running'[c] \in Task THEN running'[c] ELSE NoTask]
            = [[c \in Actor |-> IF running[c] \in Task THEN running[c] ELSE NoTask]
               EXCEPT ![a] = x]
          BY ZenonT(30), <2>3, <2>5
      <4> QED
          BY <2>2, <2>5, <3>1, <3>2, <4>1 DEF TP!Start
    <3> QED
        BY ZenonT(30), <2>5, <3>3 DEF TP!Next
  <2>6. CASE x \notin Task
      BY ZenonT(30), <2>2, <2>3, <2>6 DEF TP!vars
  <2> QED
      BY <2>5, <2>6
<1> QED
    BY ZenonT(30), <1>1, <1>2 DEF Continue, Enter, HasWork

\* A task that returns is finished in TaskPool.
LEMMA ReturnRefines ==
    ASSUME TypeOK, NEW a \in Actor, TaskReturns(a)
    PROVE  [TP!Next]_TP!vars
<1>1. PICK x : x = running[a]
    OBVIOUS
<1>2. NoTask \notin Task /\ home' = home /\ done' = done \cup {x}
    BY ZenonT(30), <1>1, TaskAssumption DEF AnyTask, TaskReturns
<1>3. \A c \in Actor : running'[c] = IF c = a THEN NoTask ELSE running[c]
    BY DEF TypeOK, TaskReturns
<1>4. CASE x \in Task
  <2>1. [c \in Actor |-> IF running'[c] \in Task THEN running'[c] ELSE NoTask]
        = [[c \in Actor |-> IF running[c] \in Task THEN running[c] ELSE NoTask]
           EXCEPT ![a] = NoTask]
      BY ZenonT(30), <1>2, <1>3
  <2>2. done' \cap Task = (done \cap Task) \cup {x}
      BY ZenonT(30), <1>2, <1>4
  <2>3. TP!Finish(a)
      BY ZenonT(30), <1>1, <1>2, <1>4, <2>1, <2>2 DEF TP!Finish
  <2> QED
      BY <2>3 DEF TP!Next
<1>5. CASE x \notin Task
  <2>1. done' \cap Task = done \cap Task
      BY ZenonT(30), <1>2, <1>5
  <2>2. [c \in Actor |-> IF running'[c] \in Task THEN running'[c] ELSE NoTask]
        = [c \in Actor |-> IF running[c] \in Task THEN running[c] ELSE NoTask]
      BY <1>1, <1>2, <1>3, <1>5
  <2> QED
      BY <1>2, <2>1, <2>2 DEF TP!vars
<1> QED
    BY <1>4, <1>5

\* schedule() is Schedule of TaskPool.
LEMMA ScheduleRefines ==
    ASSUME NEW a \in Actor, NEW t \in Task, Schedule(a, t)
    PROVE  [TP!Next]_TP!vars
<1>1. TP!Schedule(a, t)
    BY DEF Schedule, TP!Schedule
<1> QED
    BY ZenonT(30), <1>1 DEF TP!Next

\* Every step of the scheduler is a step of TaskPool or none.
LEMMA RefinementStep ==
    ASSUME TypeOK, ControlInv, PlaceInv, StayInv, [Next]_vars
    PROVE  [TP!Next]_TP!vars
<1>1. ASSUME NEW w \in Worker, WorkerStep(w) \/ SpuriousWake(w) PROVE [TP!Next]_TP!vars
  <2>1. CASE BeginSpinning(w) \/ Publish(w) \/ SpinEnds(w) \/ KeepStolen(w)
      BY <2>1, Stutters DEF BeginSpinning, Publish, SpinEnds, KeepStolen, histVars
  <2>2. CASE Relock(w) \/ Wake(w) \/ SpuriousWake(w)
      BY ZenonT(30), <2>2, ContinueRefines, Sets DEF Relock, Wake, SpuriousWake, histVars
  <2> QED
      BY ZenonT(30), <1>1, <2>1, <2>2 DEF WorkerStep
<1>2. ASSUME NEW w \in Worker, NEW v \in Worker, Steal(w, v) PROVE [TP!Next]_TP!vars
    BY <1>2, Stutters DEF Steal, histVars
<1>3. ASSUME NEW a \in Actor, ActorStep(a) \/ TryLockFails(a) PROVE [TP!Next]_TP!vars
  <2>1. CASE TaskReturns(a)
      BY <2>1, ReturnRefines
  <2>2. CASE AfterTask(a)
      BY <2>2, ContinueRefines DEF AfterTask, histVars
  <2>3. CASE \/ Pick(a) \/ Exchange(a) \/ RoundRobin(a) \/ EnqueueAndUnlock(a)
             \/ NotifyOne(a) \/ TryLockFails(a)
      BY ZenonT(30), <2>3, Stutters DEF Pick, Exchange, RoundRobin, EnqueueAndUnlock, NotifyOne,
                            TryLockFails, histVars
  <2> QED
      BY <1>3, <2>1, <2>2, <2>3 DEF ActorStep
<1>4. ASSUME NEW a \in Actor, NEW t \in Task, Schedule(a, t) PROVE [TP!Next]_TP!vars
    BY <1>4, ScheduleRefines
<1>5. ASSUME NEW c \in Client, Bind(c) \/ Unbind(c) \/ Unregister(c)
      PROVE  [TP!Next]_TP!vars
    BY ZenonT(30), <1>5, Stutters DEF Bind, Unbind, Unregister, histVars
<1>6. CASE WaitUnbound \/ DtorStep
    BY <1>6, Stutters DEF WaitUnbound, DtorStep, StopWorker, StopNotifies, Join, Destroy,
                          actorVars, histVars
<1>7. CASE UNCHANGED vars
    BY <1>7, Stutters DEF vars, actorVars, histVars
<1> QED
    BY ZenonT(30), <1>1, <1>2, <1>3, <1>4, <1>5, <1>6, <1>7 DEF Next

\* The scheduler implements TaskPool: a task is run once, by one thread, and a
\* task with Task::Flags::SameThread by the thread that scheduled it.
THEOREM RefinesTaskPool == Spec => ImplementsTaskPool
<1>1. Init => TP!Init
  <2> SUFFICES ASSUME Init PROVE TP!Init
      OBVIOUS
  <2>1. NoTask \notin Task
      BY TaskAssumption DEF AnyTask
  <2> QED
      BY <2>1 DEF Init, TP!Init
<1>2. Init => PlaceInv
    BY ZenonT(30), InitPlaces
<1>3. Init => StayInv
  <2> SUFFICES ASSUME Init, NEW u \in SameThread, NEW a \in Actor
               PROVE  hand[a] # u /\ (In(queue[a], u) => home[u] = a)
      BY ZenonT(30) DEF StayInv
  <2> QED
      BY TaskAssumption DEF Init, In, AnyTask
<1> QED
    BY <1>1, <1>2, <1>3, PlaceStep, StayStep, RefinementStep, SchedulerTypeCorrect, PTL
       DEF Spec, ImplementsTaskPool, TP!Spec

-----------------------------------------------------------------------------
\* ~Scheduler().

\* The destructor has found by_tid empty.
Began == dtor \notin {"idle", "asleep"}

\* Where the destructor is: the clients have left when it begins, and the
\* workers it has stopped, but for the one it waits for, have ended.
DtorInv ==
    /\ bound = {c \in Client : pc[c] \notin {"unbound", "left"}}
    /\ Began => bound = {}
    /\ ~Began => stopping = count
    /\ dtor \in {"notify", "join"} => stopping < count
    /\ dtor = "destroyed" => stopping = 0
    /\ \A w \in Worker :
         stopping <= w /\ w < count =>
           pc[w] = "exited" \/ (w = stopping /\ dtor \in {"notify", "join"})

\* A step of a thread that works for the scheduler, of which the destructor
\* sees at most that the thread leaves its loop.
GoesOn(a) ==
    /\ pc[a] \notin {"exited", "unbound", "left", "absent"}
    /\ pc'[a] \notin {"unbound", "left", "absent"}
    /\ \A b \in Actor : b # a => pc'[b] = pc[b]
    /\ UNCHANGED <<count, bound, dtor, stopping>>

LEMMA WorkerGoesOn ==
    ASSUME DtorInv, NEW a \in Actor, GoesOn(a)
    PROVE  DtorInv'
<1>1. \A c \in Client : pc'[c] \in {"unbound", "left"} <=> pc[c] \in {"unbound", "left"}
    BY Sets DEF GoesOn
<1>2. \A w \in Worker : pc[w] = "exited" => pc'[w] = "exited"
    BY Sets DEF GoesOn
<1>3. bound' = {c \in Client : pc'[c] \notin {"unbound", "left"}}
    BY ZenonT(30), <1>1 DEF DtorInv, GoesOn
<1> QED
    BY <1>2, <1>3 DEF DtorInv, Began, GoesOn

\* The steps of which this is true.
LEMMA ThreadsGoOn ==
    ASSUME TypeOK, NEW a \in Actor,
           \/ WorkerStep(a) \/ SpuriousWake(a) \/ (\E v \in Worker : Steal(a, v))
           \/ ActorStep(a) \/ TryLockFails(a)
           \/ \E t \in Task : Schedule(a, t)
           \/ Unbind(a)
    PROVE  GoesOn(a)
<1>1. ASSUME Continue(a) PROVE /\ pc'[a] \in {"task", "exited", "beginSpinning"}
                                /\ \A b \in Actor : b # a => pc'[b] = pc[b]
    BY ZenonT(30), <1>1 DEF Continue, TypeOK
<1>2. ASSUME Enter(a) PROVE /\ pc'[a] \in {"task", "exited", "beginSpinning", "asleep"}
                             /\ \A b \in Actor : b # a => pc'[b] = pc[b]
    BY ZenonT(30), <1>1, <1>2 DEF Enter, TypeOK
<1>3. CASE BeginSpinning(a) \/ Publish(a) \/ SpinEnds(a) \/ KeepStolen(a)
    BY ZenonT(30), <1>3 DEF GoesOn, TypeOK, BeginSpinning, Publish, SpinEnds, KeepStolen, schedVars, dtorVars
<1>4. CASE Relock(a) \/ Wake(a) \/ SpuriousWake(a)
    BY ZenonT(30), <1>2, <1>4 DEF GoesOn, Relock, Wake, SpuriousWake, schedVars, dtorVars
<1>5. CASE \E v \in Worker : Steal(a, v)
    BY <1>5 DEF GoesOn, TypeOK, Steal, schedVars, dtorVars
<1>6. CASE AfterTask(a)
    BY ZenonT(30), <1>1, <1>6 DEF GoesOn, AfterTask, schedVars, dtorVars
<1>7. CASE TaskReturns(a) \/ EnqueueAndUnlock(a) \/ NotifyOne(a) \/ TryLockFails(a) \/ Unbind(a)
    BY ZenonT(30), <1>7 DEF GoesOn, TypeOK, TaskReturns, EnqueueAndUnlock, NotifyOne, TryLockFails, Unbind,
                schedVars, dtorVars
<1>8. CASE Pick(a) \/ Exchange(a) \/ RoundRobin(a)
    BY ZenonT(30), <1>8 DEF GoesOn, TypeOK, Pick, Exchange, RoundRobin, dtorVars
<1>9. CASE \E t \in Task : Schedule(a, t)
    BY ZenonT(30), <1>9 DEF GoesOn, TypeOK, Schedule, InProgram, schedVars, dtorVars
<1> QED
    BY ZenonT(30), <1>3, <1>4, <1>5, <1>6, <1>7, <1>8, <1>9 DEF WorkerStep, ActorStep

\* Binding and unbinding.
LEMMA ClientsDtor ==
    ASSUME TypeOK, DtorInv, NEW c \in Client, Bind(c) \/ Unregister(c)
    PROVE  DtorInv'
<1>1. /\ \A a \in Actor \ {c} : pc'[a] = pc[a]
      /\ c \in Actor /\ c \notin Worker
      /\ UNCHANGED <<count, dtor, stopping>>
    BY ZenonT(30), Sets, TaskAssumption DEF TypeOK, Bind, Unregister, dtorVars
<1>2. \A w \in Worker : pc'[w] = pc[w]
    BY ZenonT(30), <1>1, Sets
<1>3. bound' = {d \in Client : pc'[d] \notin {"unbound", "left"}} /\ (Began' => bound' = {})
  <2>1. CASE Bind(c)
    <3>1. bound' = bound \cup {c} /\ pc'[c] = "task" /\ dtor = "idle"
        BY ZenonT(30), <1>1, <2>1 DEF Bind, TypeOK
    <3> QED
        BY ZenonT(30), <1>1, <3>1, Sets DEF DtorInv, Began
  <2>2. CASE Unregister(c)
    <3>1. bound' = bound \ {c} /\ pc'[c] = "left"
        BY ZenonT(30), <1>1, <2>2 DEF Unregister, TypeOK
    <3> QED
        BY ZenonT(30), <1>1, <3>1, Sets DEF DtorInv, Began
  <2> QED
      BY ZenonT(30), <2>1, <2>2
<1> QED
    BY <1>1, <1>2, <1>3 DEF DtorInv, Began

\* The destructor.
LEMMA StepsDtor ==
    ASSUME TypeOK, DtorInv, WaitUnbound \/ DtorStep
    PROVE  DtorInv'
<1>1. pc' = pc /\ bound' = bound /\ count' = count
    BY DEF WaitUnbound, DtorStep, StopWorker, StopNotifies, Join, Destroy, actorVars, schedVars
<1>2. count \in Nat /\ stopping \in 0..count /\ Worker \subseteq Nat
    BY ZenonT(30), Sets DEF TypeOK
<1>3. CASE WaitUnbound
    BY <1>1, <1>2, <1>3 DEF DtorInv, Began, WaitUnbound, AllUnbound
<1>4. CASE StopWorker
  <2>1. /\ dtor = "stop" /\ dtor' \in {"notify", "join"}
        /\ stopping > 0 /\ stopping' = stopping - 1
      BY <1>4 DEF StopWorker
  <2>2. \A w \in Worker : stopping' <= w => w = stopping' \/ stopping <= w
      BY <1>2, <2>1
  <2> QED
      BY <1>1, <1>2, <2>1, <2>2 DEF DtorInv, Began
<1>5. CASE StopNotifies
    BY <1>1, <1>5 DEF DtorInv, Began, StopNotifies
<1>6. CASE Join
    BY <1>1, <1>6 DEF DtorInv, Began, Join
<1>7. CASE Destroy
    BY <1>1, <1>7 DEF DtorInv, Began, Destroy
<1> QED
    BY ZenonT(30), <1>3, <1>4, <1>5, <1>6, <1>7 DEF DtorStep

-----------------------------------------------------------------------------
\* The task stop() gives worker w exists only once w is being stopped, and the
\* loop of w ends only because that task was run, by w or by a thief.
Somewhere(u) == \E k \in Kinds, a \in Actor : At(k, a, u)

StopInv ==
    \A w \in Worker :
       /\ shutdown[w] \/ Somewhere(w) => Began /\ stopping <= w
       /\ pc[w] = "exited" => shutdown[w]

\* What is in the queues after a task was taken, whatever the task is ...
LEMMA TakenSome ==
    ASSUME TypeOK, NEW a \in Actor, queue[a] # <<>>, Take(a)
    PROVE  /\ In(queue[a], Head(queue[a]))
           /\ \A u, c : c \in Actor /\ In(queue[c], u)' => In(queue[c], u)
<1>1. queue[a] \in Seq(AnyTask)
    BY ZenonT(30) DEF TypeOK
<1>2. \A c \in Actor : queue'[c] = IF c = a THEN Tail(queue[a]) ELSE queue[c]
    BY DEF Take, TypeOK
<1>3. In(queue[a], Head(queue[a])) /\ \A u : In(Tail(queue[a]), u) => In(queue[a], u)
  <2>1. ASSUME NEW u, In(Tail(queue[a]), u) PROVE In(queue[a], u)
    <3>1. CASE Head(queue[a]) # u
        BY ZenonT(30), <1>1, <2>1, <3>1, TailIn
    <3>2. CASE Head(queue[a]) = u
        BY <1>1, <3>2, TailIn
    <3> QED
        BY <3>1, <3>2
  <2> QED
      BY ZenonT(30), <1>1, <2>1, TailIn
<1> QED
    BY ZenonT(30), <1>2, <1>3 DEF In

\* ... and after a task was put there.
LEMMA PutSome ==
    ASSUME TypeOK, NEW a \in Actor, NEW x \in AnyTask,
           queue' = [queue EXCEPT ![a] = Append(queue[a], x)]
    PROVE  \A u, c : c \in Actor /\ In(queue[c], u)' => In(queue[c], u) \/ u = x
<1>1. queue[a] \in Seq(AnyTask)
    BY DEF TypeOK
<1>2. \A c \in Actor : queue'[c] = IF c = a THEN Append(queue[a], x) ELSE queue[c]
    BY DEF TypeOK
<1>3. \A u : In(Append(queue[a], x), u) => In(queue[a], u) \/ u = x
    BY <1>1, AppendIn
<1> QED
    BY ZenonT(30), <1>2, <1>3 DEF In

\* A step that makes no task of stop().
Keeps ==
    \A w \in Worker :
       /\ shutdown'[w] => shutdown[w] \/ Somewhere(w)
       /\ \A a \in Actor : In(queue[a], w)' \/ hand'[a] = w \/ running'[a] = w => Somewhere(w)

LEMMA StopKept ==
    ASSUME StopInv, Keeps, stopping' = stopping, Began => Began',
           \A w \in Worker : pc'[w] = "exited" => shutdown'[w]
    PROVE  StopInv'
<1>1. \A w \in Worker : Somewhere(w)' => Somewhere(w)
    BY DEF Keeps, Somewhere, At, Kinds
<1> QED
    BY <1>1 DEF StopInv, Keeps

\* Somewhere, place by place.
LEMMA SomewhereIs ==
    ASSUME NEW u, NEW a \in Actor, In(queue[a], u) \/ hand[a] = u \/ running[a] = u
    PROVE  Somewhere(u)
BY ZenonT(30) DEF Somewhere, At, Kinds

\* runUntilIdle() starts a task that was in the queue.
LEMMA ContinueKeeps ==
    ASSUME TypeOK, NEW a \in Actor, Continue(a) \/ Enter(a),
           hand' = hand, shutdown' = shutdown
    PROVE  Keeps
<1>1. CASE queue' = queue /\ running' = running
    BY ZenonT(30), <1>1, SomewhereIs DEF Keeps, In
<1>2. CASE queue[a] # <<>> /\ Take(a) /\ running' = [running EXCEPT ![a] = Head(queue[a])]
  <2>1. \A c \in Actor : running'[c] = IF c = a THEN Head(queue[a]) ELSE running[c]
      BY ZenonT(30), <1>2 DEF TypeOK
  <2>2. /\ In(queue[a], Head(queue[a]))
        /\ \A u, c : c \in Actor /\ In(queue[c], u)' => In(queue[c], u)
      BY ZenonT(30), <1>2, TakenSome
  <2> QED
      BY ZenonT(30), <2>1, <2>2, SomewhereIs DEF Keeps
<1> QED
    BY <1>1, <1>2 DEF Continue, Enter, HasWork

\* The steps that move, run or make tasks of the program.
LEMMA ThreadsKeep ==
    ASSUME TypeOK, ControlInv, NEW a \in Actor,
           \/ WorkerStep(a) \/ SpuriousWake(a) \/ (\E v \in Worker : Steal(a, v))
           \/ ActorStep(a) \/ TryLockFails(a)
           \/ \E t \in Task : Schedule(a, t)
    PROVE  Keeps
<1> DEFINE Held == hand' = [hand EXCEPT ![a] = NoTask]
<1>0. NoTask \notin Worker /\ Task \cap Worker = {}
    BY TaskAssumption DEF AnyTask
<1>1. CASE UNCHANGED <<queue, hand, running, shutdown>>
    BY ZenonT(30), <1>1, SomewhereIs DEF Keeps, In
<1>2. CASE Relock(a) \/ Wake(a) \/ SpuriousWake(a) \/ AfterTask(a)
    BY ZenonT(30), <1>2, ContinueKeeps DEF Relock, Wake, SpuriousWake, AfterTask
<1>3. ASSUME NEW b \in Actor, hand[a] # NoTask, Held, UNCHANGED <<running, shutdown>>,
             queue' = [queue EXCEPT ![b] = Append(queue[b], hand[a])]
      PROVE  Keeps
  <2>1. hand[a] \in AnyTask
      BY ZenonT(30), <1>3 DEF TypeOK
  <2>2. \A u, c : c \in Actor /\ In(queue[c], u)' => In(queue[c], u) \/ u = hand[a]
      BY ZenonT(30), <1>3, <2>1, PutSome
  <2>3. \A c \in Actor : hand'[c] = hand[c] \/ hand'[c] = NoTask
      BY <1>3 DEF TypeOK
  <2> QED
      BY ZenonT(30), <1>0, <1>3, <2>2, <2>3, SomewhereIs DEF Keeps
<1>4. CASE KeepStolen(a)
    BY ZenonT(30), <1>3, <1>4 DEF KeepStolen, ControlInv
<1>5. CASE EnqueueAndUnlock(a)
    BY ZenonT(30), <1>3, <1>5, EnqueueTarget DEF EnqueueAndUnlock
<1>6. ASSUME NEW v \in Worker, Steal(a, v) PROVE Keeps
  <2>1. /\ v \in Actor /\ queue[v] # <<>> /\ Take(v) /\ UNCHANGED <<running, shutdown>>
        /\ \A c \in Actor : hand'[c] = IF c = a THEN Head(queue[v]) ELSE hand[c]
      BY ZenonT(30), <1>6, Sets DEF Steal, MayStealFrom, TypeOK
  <2>2. /\ In(queue[v], Head(queue[v]))
        /\ \A u, c : c \in Actor /\ In(queue[c], u)' => In(queue[c], u)
      BY ZenonT(30), <2>1, TakenSome
  <2> QED
      BY ZenonT(30), <2>1, <2>2, SomewhereIs DEF Keeps
<1>7. CASE TaskReturns(a)
  <2>1. /\ queue' = queue /\ hand' = hand
        /\ \A c \in Actor : running'[c] = running[c] \/ running'[c] = NoTask
        /\ \A w \in Worker : shutdown'[w] => shutdown[w] \/ running[a] = w
      BY ZenonT(30), <1>7, Sets DEF TaskReturns, TypeOK
  <2> QED
      BY ZenonT(30), <1>0, <2>1, SomewhereIs DEF Keeps, In
<1>8. ASSUME NEW t \in Task, Schedule(a, t) PROVE Keeps
  <2>1. CASE t \in SameThread \/ count = 0
    <3>1. /\ queue' = [queue EXCEPT ![a] = Append(queue[a], t)] /\ t \in AnyTask
          /\ UNCHANGED <<hand, running, shutdown>>
        BY <1>8, <2>1, Sets DEF Schedule
    <3>2. \A u, c : c \in Actor /\ In(queue[c], u)' => In(queue[c], u) \/ u = t
        BY ZenonT(30), <3>1, PutSome
    <3> QED
        BY ZenonT(30), <1>0, <3>1, <3>2, SomewhereIs DEF Keeps
  <2>2. CASE ~(t \in SameThread \/ count = 0)
    <3>1. /\ UNCHANGED <<queue, running, shutdown>>
          /\ \A c \in Actor : hand'[c] = IF c = a THEN t ELSE hand[c]
        BY ZenonT(30), <1>8, <2>2 DEF Schedule, TypeOK
    <3> QED
        BY ZenonT(30), <1>0, <3>1, SomewhereIs DEF Keeps, In
  <2> QED
      BY ZenonT(30), <2>1, <2>2
<1>9. CASE \/ BeginSpinning(a) \/ Publish(a) \/ SpinEnds(a) \/ Pick(a) \/ Exchange(a)
           \/ RoundRobin(a) \/ NotifyOne(a) \/ TryLockFails(a)
    BY ZenonT(30), <1>1, <1>9 DEF BeginSpinning, Publish, SpinEnds, Pick, Exchange, RoundRobin, NotifyOne,
                      TryLockFails
<1> QED
    BY ZenonT(30), <1>2, <1>4, <1>5, <1>6, <1>7, <1>8, <1>9 DEF WorkerStep, ActorStep

\* A thread leaves its loop when it is told to and its queue is empty.
LEMMA ThreadsEnd ==
    ASSUME TypeOK, NEW a \in Actor,
           \/ WorkerStep(a) \/ SpuriousWake(a) \/ (\E v \in Worker : Steal(a, v))
           \/ ActorStep(a) \/ TryLockFails(a)
           \/ \E t \in Task : Schedule(a, t)
           \/ Unbind(a)
    PROVE  /\ pc'[a] = "exited" => shutdown[a] /\ queue'[a] = <<>>
           /\ \A b \in Actor : shutdown[b] => shutdown'[b]
<1>1. ASSUME Continue(a) PROVE pc'[a] = "exited" => shutdown[a] /\ queue'[a] = <<>>
    BY ZenonT(30), <1>1 DEF Continue, HasWork, TypeOK
<1>2. ASSUME Enter(a) PROVE pc'[a] = "exited" => shutdown[a] /\ queue'[a] = <<>>
    BY <1>1, <1>2 DEF Enter, TypeOK
<1>3. CASE Relock(a) \/ Wake(a) \/ SpuriousWake(a)
    BY ZenonT(30), <1>2, <1>3 DEF Relock, Wake, SpuriousWake
<1>4. CASE AfterTask(a)
    BY ZenonT(30), <1>1, <1>4 DEF AfterTask
<1>5. CASE TaskReturns(a) \/ Unbind(a)
    BY ZenonT(30), <1>5 DEF TaskReturns, Unbind, TypeOK
<1>6. CASE BeginSpinning(a) \/ Publish(a) \/ SpinEnds(a) \/ KeepStolen(a)
    BY ZenonT(30), <1>6 DEF BeginSpinning, Publish, SpinEnds, KeepStolen, TypeOK
<1>7. CASE \E v \in Worker : Steal(a, v)
    BY ZenonT(30), <1>7 DEF Steal, TypeOK
<1>8. CASE \/ Pick(a) \/ Exchange(a) \/ RoundRobin(a) \/ EnqueueAndUnlock(a) \/ NotifyOne(a)
           \/ TryLockFails(a)
    BY ZenonT(30), <1>8 DEF Pick, Exchange, RoundRobin, EnqueueAndUnlock, NotifyOne, TryLockFails, TypeOK
<1>9. CASE \E t \in Task : Schedule(a, t)
    BY ZenonT(30), <1>9 DEF Schedule, InProgram, TypeOK
<1> QED
    BY ZenonT(30), <1>3, <1>4, <1>5, <1>6, <1>7, <1>8, <1>9 DEF WorkerStep, ActorStep

\* StopInv is kept by the threads ...
LEMMA ThreadsStop ==
    ASSUME TypeOK, ControlInv, DtorInv, StopInv, NEW a \in Actor,
           \/ WorkerStep(a) \/ SpuriousWake(a) \/ (\E v \in Worker : Steal(a, v))
           \/ ActorStep(a) \/ TryLockFails(a)
           \/ \E t \in Task : Schedule(a, t)
    PROVE  StopInv'
<1>1. Keeps
    BY ZenonT(30), ThreadsKeep
<1>2. GoesOn(a)
    BY ZenonT(30), ThreadsGoOn
<1>3. /\ pc'[a] = "exited" => shutdown[a]
      /\ \A b \in Actor : shutdown[b] => shutdown'[b]
    BY ZenonT(30), ThreadsEnd
<1>4. \A w \in Worker : pc'[w] = "exited" => shutdown'[w]
    BY ZenonT(30), <1>2, <1>3, Sets DEF GoesOn, StopInv
<1>5. stopping' = stopping /\ (Began => Began')
    BY <1>2 DEF GoesOn, Began
<1> QED
    BY ZenonT(30), <1>1, <1>4, <1>5, StopKept

\* ... by the clients ...
LEMMA ClientsStop ==
    ASSUME TypeOK, StopInv, NEW c \in Client, Bind(c) \/ Unbind(c) \/ Unregister(c)
    PROVE  StopInv'
<1>1. c \in Actor /\ c \notin Worker
    BY ZenonT(30), Sets, TaskAssumption
<1>2. /\ UNCHANGED <<queue, hand, running, dtor, stopping>>
      /\ \A w \in Worker : pc'[w] = pc[w] /\ shutdown'[w] = shutdown[w]
    BY ZenonT(30), <1>1, Sets DEF Bind, Unbind, Unregister, TypeOK, dtorVars
<1>3. Keeps
    BY ZenonT(30), <1>2, SomewhereIs DEF Keeps, In
<1>4. \A w \in Worker : pc'[w] = "exited" => shutdown'[w]
    BY ZenonT(30), <1>2 DEF StopInv
<1>5. Began => Began'
    BY ZenonT(30), <1>2 DEF Began
<1> QED
    BY ZenonT(30), <1>2, <1>3, <1>4, <1>5, StopKept

\* ... and by the destructor, which makes the task of the worker it stops next.
LEMMA DtorStops ==
    ASSUME TypeOK, StopInv, WaitUnbound \/ DtorStep
    PROVE  StopInv'
<1>1. pc' = pc /\ shutdown' = shutdown
    BY ZenonT(30) DEF WaitUnbound, DtorStep, StopWorker, StopNotifies, Join, Destroy, actorVars
<1>2. CASE WaitUnbound \/ StopNotifies \/ Join \/ Destroy
  <2>1. UNCHANGED <<queue, hand, running, stopping>> /\ (Began => Began')
      BY ZenonT(30), <1>2 DEF WaitUnbound, StopNotifies, Join, Destroy, actorVars, Began
  <2>2. Keeps
      BY ZenonT(30), <1>1, <2>1, SomewhereIs DEF Keeps, In
  <2>3. \A w \in Worker : pc'[w] = "exited" => shutdown'[w]
      BY ZenonT(30), <1>1 DEF StopInv
  <2> QED
      BY <2>1, <2>2, <2>3, StopKept
<1>3. CASE StopWorker
  <2>1. PICK w \in Worker :
          /\ w = stopping - 1 /\ w \in Actor /\ w \in AnyTask
          /\ queue' = [queue EXCEPT ![w] = Append(queue[w], w)]
          /\ hand' = hand /\ running' = running
      BY ZenonT(30), <1>3, StopTarget
  <2>2. /\ stopping \in Nat /\ stopping' = w /\ Worker \subseteq Nat
        /\ Began'
      BY <1>3, <2>1, Sets DEF StopWorker, TypeOK, Began
  <2>3. \A u, c : c \in Actor /\ In(queue[c], u)' => In(queue[c], u) \/ u = w
      BY ZenonT(30), <2>1, PutSome
  <2>4. \A u : Somewhere(u)' => Somewhere(u) \/ u = w
      BY <2>1, <2>3 DEF Somewhere, At
  <2>5. \A u \in Worker : stopping <= u => stopping' <= u
      BY <2>1, <2>2
  <2> QED
      BY <1>1, <2>2, <2>4, <2>5 DEF StopInv
<1> QED
    BY <1>2, <1>3 DEF DtorStep

-----------------------------------------------------------------------------
\* With at most one worker thread, a thread that runs nothing any more leaves
\* nothing in its queue.
Out == {"absent", "exited", "unbound", "left"}

EmptyInv ==
    count < 2 => \A a \in Actor : pc[a] \in Out => queue[a] = <<>>

\* With one worker thread, nobody enqueues to it once it has ended: that would
\* be a bound client, and it was told to end after the last of them had left.
LEMMA NotToTheEnded ==
    ASSUME TypeOK, ControlInv, DtorInv, StopInv, count < 2, NEW a \in Actor, EnqueueAndUnlock(a)
    PROVE  pc[target[a]] \notin Out \/ pc'[target[a]] \notin Out
<1>1. /\ pc[a] = "tryLock" /\ target[a] \in 0..(count - 1) /\ count \in Counts
      /\ pc'[a] \in {"notify", "task"}
    BY DEF EnqueueAndUnlock, ControlInv, TypeOK
<1>2. /\ count \in Nat /\ target[a] \in Worker /\ target[a] < count
      /\ target[a] = 0 /\ Worker \subseteq Nat
    BY <1>1, Sets
<1>3. CASE a \in Worker
  <2>1. ~(a >= count)
      BY ZenonT(30), <1>1, <1>3 DEF ControlInv
  <2>2. a = target[a]
      BY <1>2, <1>3, <2>1
  <2> QED
      BY ZenonT(30), <1>1, <2>2 DEF Out
<1>4. CASE a \in Client
  <2>1. ~Began
      BY ZenonT(30), <1>1, <1>4 DEF DtorInv
  <2>2. ~(target[a] >= count)
      BY <1>2
  <2>3. pc[target[a]] \notin {"exited", "unbound", "left", "absent"}
      BY ZenonT(30), <1>2, <2>1, <2>2 DEF StopInv, ControlInv
  <2> QED
      BY ZenonT(30), <2>3 DEF Out
<1> QED
    BY ZenonT(30), <1>3, <1>4 DEF Actor

\* Every step of a thread.
LEMMA ThreadsEmpty ==
    ASSUME TypeOK, ControlInv, DtorInv, StopInv, EmptyInv, NEW a \in Actor,
           \/ WorkerStep(a) \/ SpuriousWake(a) \/ (\E v \in Worker : Steal(a, v))
           \/ ActorStep(a) \/ TryLockFails(a)
           \/ \E t \in Task : Schedule(a, t)
           \/ Unbind(a)
    PROVE  EmptyInv'
<1>1. GoesOn(a)
    BY ZenonT(30), ThreadsGoOn
<1>2. pc'[a] = "exited" => queue'[a] = <<>>
    BY ZenonT(30), ThreadsEnd
<1> SUFFICES ASSUME count < 2, NEW b \in Actor, pc'[b] \in Out PROVE queue'[b] = <<>>
    BY ZenonT(30), <1>1 DEF EmptyInv, GoesOn
<1>3. CASE b = a
    BY ZenonT(30), <1>1, <1>2, <1>3 DEF GoesOn, Out
<1>4. CASE b # a
  <2>1. pc[b] \in Out /\ queue[b] = <<>>
      BY ZenonT(30), <1>1, <1>4 DEF GoesOn, EmptyInv
  <2>2. queue'[b] = queue[b]
    <3>1. ASSUME Continue(a) \/ Enter(a) PROVE queue'[b] = queue[b]
        BY ZenonT(30), <1>4, <3>1 DEF Continue, Enter, Take, TypeOK
    <3>2. CASE Relock(a) \/ Wake(a) \/ SpuriousWake(a) \/ AfterTask(a)
        BY ZenonT(30), <3>1, <3>2 DEF Relock, Wake, SpuriousWake, AfterTask
    <3>3. CASE EnqueueAndUnlock(a)
      <4>1. target[a] # b
          BY <1>4, <2>1, <3>3, NotToTheEnded, Zenon
      <4> QED
          BY ZenonT(30), <3>3, <4>1 DEF EnqueueAndUnlock, TypeOK
    <3>4. CASE \E v \in Worker : Steal(a, v)
      <4>1. PICK v \in Worker : Steal(a, v)
          BY ZenonT(30), <3>4
      <4>2. v # b
          BY ZenonT(30), <2>1, <4>1 DEF Steal, MayStealFrom
      <4> QED
          BY ZenonT(30), <4>1, <4>2 DEF Steal, Take, TypeOK
    <3>5. CASE KeepStolen(a)
        BY ZenonT(30), <1>4, <3>5 DEF KeepStolen, TypeOK
    <3>6. CASE \E t \in Task : Schedule(a, t)
        BY ZenonT(30), <1>4, <3>6 DEF Schedule, TypeOK
    <3>7. CASE \/ BeginSpinning(a) \/ Publish(a) \/ SpinEnds(a) \/ TaskReturns(a) \/ Pick(a)
               \/ Exchange(a) \/ RoundRobin(a) \/ NotifyOne(a) \/ TryLockFails(a) \/ Unbind(a)
        BY ZenonT(30), <3>7 DEF BeginSpinning, Publish, SpinEnds, TaskReturns, Pick, Exchange, RoundRobin,
                    NotifyOne, TryLockFails, Unbind
    <3> QED
        BY ZenonT(30), <3>2, <3>3, <3>4, <3>5, <3>6, <3>7 DEF WorkerStep, ActorStep
  <2> QED
      BY ZenonT(30), <2>1, <2>2
<1> QED
    BY ZenonT(30), <1>3, <1>4

\* The clients and the destructor.
LEMMA OthersEmpty ==
    ASSUME TypeOK, ControlInv, DtorInv, StopInv, EmptyInv,
           \/ \E c \in Client : Bind(c) \/ Unregister(c)
           \/ WaitUnbound \/ DtorStep
    PROVE  EmptyInv'
<1>1. ASSUME NEW c \in Client, Bind(c) \/ Unregister(c) PROVE EmptyInv'
  <2>1. /\ queue' = queue /\ count' = count
        /\ \A a \in Actor : pc'[a] \in Out => pc[a] \in Out
      BY ZenonT(30), <1>1, Sets DEF Bind, Unregister, TypeOK, Out
  <2> QED
      BY ZenonT(30), <2>1 DEF EmptyInv
<1>2. CASE WaitUnbound \/ StopNotifies \/ Join \/ Destroy
    BY ZenonT(30), <1>2 DEF WaitUnbound, StopNotifies, Join, Destroy, actorVars, schedVars, EmptyInv
<1>3. CASE StopWorker
  <2>1. PICK w \in Worker :
          w = stopping - 1 /\ w \in Actor /\ queue' = [queue EXCEPT ![w] = Append(queue[w], w)]
      BY ZenonT(30), <1>3, StopTarget
  <2>2. pc' = pc /\ count' = count /\ stopping \in 0..count /\ count \in Nat
      BY ZenonT(30), <1>3, Sets DEF StopWorker, schedVars, TypeOK
  <2>3. pc[w] \notin Out
    <3>1. ~(stopping <= w) /\ ~(w >= count)
        BY <2>1, <2>2
    <3> QED
        BY ZenonT(30), <3>1 DEF StopInv, ControlInv, Out
  <2>4. \A a \in Actor : a # w => queue'[a] = queue[a]
      BY <2>1 DEF TypeOK
  <2> QED
      BY ZenonT(30), <2>2, <2>3, <2>4 DEF EmptyInv
<1> QED
    BY ZenonT(30), <1>1, <1>2, <1>3 DEF DtorStep

-----------------------------------------------------------------------------
\* The initial state.
LEMMA InitDtor == Init => DtorInv /\ StopInv /\ EmptyInv
<1> SUFFICES ASSUME Init PROVE DtorInv /\ StopInv /\ EmptyInv
    OBVIOUS
<1>1. count \in Nat /\ Worker \subseteq Nat /\ Worker \subseteq Actor /\ Client \subseteq Actor
    BY Sets DEF Init
<1>2. DtorInv
  <2>1. \A c \in Client : pc[c] = "unbound"
      BY <1>1 DEF Init
  <2>2. bound = {} /\ dtor = "idle" /\ stopping = count
      BY DEF Init
  <2>3. bound = {c \in Client : pc[c] \notin {"unbound", "left"}}
      BY <2>1, <2>2
  <2>4. \A w \in Worker : ~(stopping <= w /\ w < count)
      BY <1>1, <2>2
  <2> QED
      BY ZenonT(30), <2>2, <2>3, <2>4 DEF DtorInv, Began
<1>3. StopInv
  <2>1. \A w \in Worker : pc[w] # "exited" /\ ~shutdown[w]
      BY ZenonT(30), <1>1 DEF Init
  <2>2. \A w \in Worker, a \in Actor : ~In(queue[a], w) /\ hand[a] # w /\ running[a] # w
      BY TaskAssumption DEF Init, In, AnyTask
  <2> QED
      BY <2>1, <2>2 DEF StopInv, Somewhere, At
<1>4. EmptyInv
    BY ZenonT(30) DEF Init, EmptyInv
<1> QED
    BY <1>2, <1>3, <1>4

\* Every step.
LEMMA DtorInvStep ==
    ASSUME TypeOK, ControlInv, DtorInv, StopInv, EmptyInv, [Next]_vars
    PROVE  DtorInv' /\ StopInv' /\ EmptyInv'
<1>1. ASSUME NEW a \in Actor,
             \/ WorkerStep(a) \/ SpuriousWake(a) \/ (\E v \in Worker : Steal(a, v))
             \/ ActorStep(a) \/ TryLockFails(a)
             \/ \E t \in Task : Schedule(a, t)
      PROVE  DtorInv' /\ StopInv' /\ EmptyInv'
    BY ZenonT(30), <1>1, ThreadsGoOn, WorkerGoesOn, ThreadsStop, ThreadsEmpty
<1>2. ASSUME NEW c \in Client, Unbind(c) PROVE DtorInv' /\ StopInv' /\ EmptyInv'
    BY <1>2, ThreadsGoOn, WorkerGoesOn, ClientsStop, ThreadsEmpty, Sets
<1>3. ASSUME NEW c \in Client, Bind(c) \/ Unregister(c)
      PROVE  DtorInv' /\ StopInv' /\ EmptyInv'
    BY ZenonT(30), <1>3, ClientsDtor, ClientsStop, OthersEmpty
<1>4. CASE WaitUnbound \/ DtorStep
    BY <1>4, StepsDtor, DtorStops, OthersEmpty
<1>5. CASE UNCHANGED vars
  <2>1. DtorInv'
    <3>1. pc' = pc /\ count' = count /\ bound' = bound /\ dtor' = dtor /\ stopping' = stopping
        BY ZenonT(30), <1>5 DEF vars, actorVars, schedVars, dtorVars
    <3> QED
        BY <3>1 DEF DtorInv, Began
  <2>2. StopInv'
      BY ZenonT(30), <1>5 DEF vars, actorVars, dtorVars, StopInv, Somewhere, At, In, Began
  <2>3. EmptyInv'
      BY ZenonT(30), <1>5 DEF vars, actorVars, schedVars, EmptyInv
  <2> QED
      BY ZenonT(30), <2>1, <2>2, <2>3
<1> QED
    BY ZenonT(30), <1>1, <1>2, <1>3, <1>4, <1>5, Sets DEF Next

\* Then the scheduler is destroyed when nobody uses it and nothing is left.
LEMMA DtorMeansDone ==
    ASSUME TypeOK, ControlInv, PlaceInv, DtorInv, StopInv, EmptyInv
    PROVE  DestroyedWhenDone
<1> SUFFICES ASSUME dtor = "destroyed"
             PROVE  /\ \A w \in 0..(count - 1) : pc[w] = "exited"
                    /\ \A c \in Client : pc[c] \in {"unbound", "left"}
                    /\ count < 2 => \A t \in Task : home[t] = Nobody \/ t \in done
    BY DEF DestroyedWhenDone
<1>1. stopping = 0 /\ Began
    BY DEF DtorInv, Began
<1>2. \A w \in 0..(count - 1) : pc[w] = "exited"
  <2>1. count \in Nat /\ 0..(count - 1) \subseteq Worker
      BY Sets DEF TypeOK
  <2> QED
      BY <1>1, <2>1 DEF DtorInv
<1>3. \A c \in Client : pc[c] \in {"unbound", "left"}
    BY <1>1 DEF DtorInv
<1>4. ASSUME count < 2, NEW t \in Task, home[t] # Nobody PROVE t \in done
  <2>1. \A a \in Actor : pc[a] \in Out
    <3>1. ASSUME NEW w \in Worker PROVE pc[w] \in Out
      <4>1. CASE w >= count
          BY ZenonT(30), <4>1 DEF ControlInv, Out
      <4>2. CASE ~(w >= count)
        <5>1. w \in 0..(count - 1)
            BY <4>2, Sets DEF TypeOK
        <5> QED
            BY ZenonT(30), <1>2, <5>1 DEF Out
      <4> QED
          BY <4>1, <4>2
    <3> QED
        BY ZenonT(30), <1>3, <3>1 DEF Actor, Out
  <2>2. \A a \in Actor : queue[a] = <<>> /\ hand[a] = NoTask /\ running[a] = NoTask
      BY ZenonT(30), <1>4, <2>1 DEF EmptyInv, ControlInv, Choosing, Enqueuing, Out
  <2>3. \A k \in Kinds, a \in Actor : ~At(k, a, t)
      BY <2>2, TaskAssumption DEF At, In, AnyTask
  <2> QED
      BY <1>4, <2>3 DEF PlaceInv, PlacedOnce
<1> QED
    BY <1>2, <1>3, <1>4

\* ~Scheduler() destroys the workers when every worker thread has ended and no
\* client is bound; with at most one worker thread, every scheduled task is done
\* then, as the comment in the destructor says.
THEOREM DestructionCorrect == Spec => []DestroyedWhenDone
BY InitDtor, DtorInvStep, DtorMeansDone, InitPlaces, PlaceStep, SchedulerTypeCorrect, PTL
   DEF Spec
=============================================================================
