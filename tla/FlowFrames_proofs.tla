------------------------- MODULE FlowFrames_proofs -------------------------
(***************************************************************************)
(* That a run that is suspended and resumed does what an uninterrupted one *)
(* does, and what follows of its tasks and waits, proved of every flow.    *)
(***************************************************************************)
EXTENDS FlowFrames, TLAPS

----------------------------------------------------------------------------
(* Trees *)

\* What a node is under is above it.
LEMMA UnderIsBelow ==
  ASSUME NEW n \in Node, NEW m \in Under(n)
  PROVE  m \in Node /\ n \in UpTo(m)
BY TreeAssumption DEF IsPlaced

LEMMA BelowIsUnder ==
  ASSUME NEW m \in Node, NEW n \in UpTo(m)
  PROVE  n \in Node /\ m \in Under(n)
BY TreeAssumption DEF IsPlaced, UpTo

LEMMA AboveIsTransitive ==
  ASSUME NEW m \in Node, NEW a \in Above(m)
  PROVE  a \in Node /\ Above(a) \subseteq Above(m) /\ UpTo(a) \subseteq Above(m) /\ m \notin UpTo(a) /\ a # m
<1>1. a \in Node /\ Above(a) \subseteq Above(m) /\ m \notin Above(m)
  BY TreeAssumption DEF IsPlaced
<1> QED BY <1>1 DEF UpTo

LEMMA ChildrenOf ==
  ASSUME NEW n \in Node, NEW c \in Children(n)
  PROVE  c \in Node /\ Parent(c) = n /\ c \notin Flows /\ Above(c) = UpTo(n) /\ c \notin UpTo(n)
<1>1. c \in Node /\ Parent(c) = n
  <2>1. Tree(n).children \in Seq(Node) /\ \A d \in Children(n) : Parent(d) = n
    BY TreeAssumption DEF IsFormed
  <2> QED BY <2>1 DEF Children, Positions
<1>2. None \notin Node
  BY TreeAssumption
<1>3. IsPlaced(c)
  BY <1>1, TreeAssumption
<1>4. c \notin Flows /\ Above(c) = UpTo(n)
  BY <1>1, <1>2, <1>3 DEF IsPlaced
<1>5. c \notin Above(c)
  BY <1>3 DEF IsPlaced
<1> QED BY <1>1, <1>4, <1>5

LEMMA ParentOf ==
  ASSUME NEW n \in Node, Parent(n) # None
  PROVE  Parent(n) \in Node /\ n \in Children(Parent(n)) /\ Above(n) = UpTo(Parent(n))
BY TreeAssumption DEF IsPlaced

\* Towards a node, one child of each node above it.
LEMMA ChildTowards ==
  ASSUME NEW m \in Node, NEW a \in Above(m)
  PROVE  \E c \in Children(a) : c \in UpTo(m)
BY TreeAssumption DEF IsPlaced

LEMMA OneChildTowards ==
  ASSUME NEW m \in Node, NEW a \in Node, NEW c \in Children(a) \cap UpTo(m), NEW d \in Children(a) \cap UpTo(m)
  PROVE  c = d
<1>1. c \in UpTo(d) \/ d \in UpTo(c)
  BY TreeAssumption DEF IsPlaced
<1>2. Above(c) = UpTo(a) /\ c \notin UpTo(a) /\ Above(d) = UpTo(a) /\ d \notin UpTo(a)
  BY ChildrenOf
<1> QED BY <1>1, <1>2 DEF UpTo

LEMMA FlowIsRoot ==
  ASSUME NEW f \in Flows
  PROVE  f \in Node /\ Above(f) = {} /\ Parent(f) = None /\ IsKind(f, "sequence") /\ f \in Under(f)
<1>1. f \in Node /\ IsPlaced(f)
  BY TreeAssumption
<1> QED BY <1>1 DEF IsPlaced, UpTo

\* The nodes of a flow.
LEMMA InFlow ==
  ASSUME NEW f \in Flows, NEW n \in Under(f)
  PROVE  /\ n \in Node
         /\ f \in UpTo(n)
         /\ UpTo(n) \subseteq Under(f)
         /\ Under(n) \subseteq Under(f)
         /\ Children(n) \subseteq Under(f)
<1>1. f \in Node /\ Above(f) = {}
  BY FlowIsRoot
<1>2. n \in Node /\ f \in UpTo(n)
  BY <1>1, UnderIsBelow
<1>3. ASSUME NEW m \in Node, f \in UpTo(m)
      PROVE  m \in Under(f)
  BY <1>1, <1>3, BelowIsUnder
<1>4. ASSUME NEW a \in UpTo(n)
      PROVE  a \in Under(f)
  <2>1. a \in Node /\ (a \in UpTo(f) \/ f \in UpTo(a))
    <3>1. \A x, y \in UpTo(n) : x \in UpTo(y) \/ y \in UpTo(x)
      BY <1>2, TreeAssumption DEF IsPlaced
    <3> QED BY <3>1, <1>2, <1>4, BelowIsUnder
  <2>2. f \in UpTo(a)
    BY <2>1, <1>1 DEF UpTo
  <2> QED BY <2>1, <2>2, <1>3
<1>5. ASSUME NEW m \in Node, n \in UpTo(m)
      PROVE  f \in UpTo(m)
  BY <1>5, <1>2, AboveIsTransitive DEF UpTo
<1>6. Under(n) \subseteq Under(f)
  BY <1>2, <1>3, <1>5, UnderIsBelow
<1>7. Children(n) \subseteq Under(f)
  BY <1>2, <1>3, <1>5, ChildrenOf DEF UpTo
<1> QED BY <1>2, <1>4, <1>6, <1>7

\* A node without a parent is the flow.
LEMMA OneRoot ==
  ASSUME NEW f \in Flows, NEW n \in Under(f), Parent(n) = None
  PROVE  n = f
<1>1. n \in Node /\ f \in UpTo(n)
  BY InFlow
<1>2. n \in Flows
  BY <1>1, TreeAssumption DEF IsPlaced
<1> QED BY <1>1, <1>2, FlowIsRoot DEF UpTo

----------------------------------------------------------------------------
(* Executors *)

\* What the executor of a node may have come to.
Shape(n, v) ==
  \/ v \in {Idle, Called, Returned}
  \/ /\ v.at = "busy"
     /\ \/ /\ IsKind(n, "sequence") \/ IsKind(n, "conditional")
           /\ v.index \in Positions(n)
           /\ v = At(v.index)
        \/ /\ IsLoop(n)
           /\ v.index \in Nat
           /\ IsKind(n, "for_each") => v.index \in DOMAIN v.items
           /\ v = Looping(v.index, v.items, v.accumulator)
        \/ IsKind(n, "task") /\ v = Running(v.inputs)
        \/ IsKind(n, "parallel") /\ v = Waiting

Shaped(f, V) == \A n \in Under(f) : Shape(n, V[n])

\* An executor is at work only for those above it, and each of these is at the child that
\* leads to it: there is one stack of calls in each branch of a parallel block.
LeadsTo(V, a, m) ==
  V[a].at = "busy" /\ (~IsKind(a, "parallel") => ChildAt(a, V[a].index) \in UpTo(m))

Path(f, V) == \A m \in Under(f) : V[m] # Idle => \A a \in Above(m) : LeadsTo(V, a, m)

LEMMA ExecutorsDiffer ==
  /\ Idle.at = "idle" /\ Called.at = "called" /\ Returned.at = "returned" /\ Waiting.at = "busy"
  /\ \A i : At(i).at = "busy" /\ At(i).index = i
  /\ \A i : Running(i).at = "busy" /\ Running(i).inputs = i
  /\ \A i, items, acc :
       /\ Looping(i, items, acc).at = "busy"
       /\ Looping(i, items, acc).index = i
       /\ Looping(i, items, acc).items = items
       /\ Looping(i, items, acc).accumulator = acc
BY DEF Idle, Called, Returned, Waiting, At, Running, Looping

\* The child an executor is at is one of its children.
LEMMA ChildAtIsChild ==
  ASSUME NEW n \in Node, NEW v, Shape(n, v), v.at = "busy", ~IsKind(n, "task"), ~IsKind(n, "parallel")
  PROVE  ChildAt(n, v.index) \in Children(n)
<1>1. IsLoop(n) => Positions(n) = {1}
  BY TreeAssumption DEF IsFormed
<1>2. IsLoop(n) \/ v.index \in Positions(n)
  BY ExecutorsDiffer DEF Shape
<1> QED BY <1>1, <1>2 DEF ChildAt, Children

LEMMA PathChild ==
  ASSUME NEW f \in Flows, NEW V, Shaped(f, V), Path(f, V),
         NEW m \in Under(f), V[m] # Idle, NEW n \in Above(m)
  PROVE  \E c \in Children(n) :
           /\ c \in UpTo(m)
           /\ V[c] # Idle
           /\ c = m \/ V[c].at = "busy"
           /\ ~IsKind(n, "parallel") => c = ChildAt(n, V[n].index)
<1>1. m \in Node /\ n \in Node /\ n \in Under(f)
  BY InFlow DEF UpTo
<1>2. PICK c \in Children(n) : c \in UpTo(m)
  BY <1>1, ChildTowards
<1>3. c = m \/ V[c].at = "busy"
  BY <1>2 DEF Path, LeadsTo, UpTo
<1>4. V[c] # Idle
  BY <1>3, ExecutorsDiffer
<1>5. ASSUME ~IsKind(n, "parallel")
      PROVE  c = ChildAt(n, V[n].index)
  <2>1. V[n].at = "busy" /\ ChildAt(n, V[n].index) \in UpTo(m)
    BY <1>5 DEF Path, LeadsTo
  <2>2. ~IsKind(n, "task")
    BY <1>1, <1>2, TreeAssumption DEF IsFormed, Children
  <2>3. ChildAt(n, V[n].index) \in Children(n)
    BY <1>1, <2>1, <2>2, <1>5, ChildAtIsChild DEF Shaped
  <2> QED BY <1>1, <1>2, <2>1, <2>3, OneChildTowards
<1> QED BY <1>2, <1>3, <1>4, <1>5

\* Below children that are not at work nothing is called.
LEMMA NothingBelow ==
  ASSUME NEW f \in Flows, NEW V, Shaped(f, V), Path(f, V),
         NEW m \in Under(f), V[m] # Idle, NEW n \in Above(m),
         \A c \in Children(n) : V[c].at # "busy"
  PROVE  m \in Children(n)
BY PathChild

\* An executor that goes on, while no child of it is at work, changes only what it and its
\* children are at.
LEMMA PathKept ==
  ASSUME NEW f \in Flows, NEW V, NEW W, Shaped(f, V), Path(f, V),
         NEW n \in Under(f), V[n] # Idle,
         \A c \in Children(n) : V[c].at # "busy",
         \A m \in Under(f) : m # n /\ m \notin Children(n) => W[m] = V[m],
         \A c \in Children(n) : W[c] # Idle => LeadsTo(W, n, c)
  PROVE  Path(f, W)
<1> SUFFICES ASSUME NEW m \in Under(f), W[m] # Idle, NEW a \in Above(m)
             PROVE  LeadsTo(W, a, m)
  BY DEF Path
<1>1. m \in Node /\ n \in Node /\ a \in Node /\ a \in Under(f) /\ a # m
  BY InFlow, AboveIsTransitive DEF UpTo
<1>2. CASE m \in Children(n)
  <2>1. Above(m) = UpTo(n)
    BY <1>1, <1>2, ChildrenOf
  <2>2. CASE a = n
    BY <1>2, <2>2
  <2>3. CASE a \in Above(n)
    <3>1. a # n /\ a \notin Children(n)
      BY <1>1, <2>3, ChildrenOf, AboveIsTransitive DEF UpTo
    <3>2. LeadsTo(V, a, n)
      BY <2>3 DEF Path
    <3>3. UpTo(n) \subseteq UpTo(m)
      BY <2>1 DEF UpTo
    <3> QED BY <1>1, <3>1, <3>2, <3>3 DEF LeadsTo
  <2> QED BY <2>1, <2>2, <2>3 DEF UpTo
<1>3. CASE m \notin Children(n)
  <2>1. V[m] # Idle
    BY <1>3
  <2>2. LeadsTo(V, a, m)
    BY <2>1 DEF Path
  <2>3. a # n
    BY <1>3, <2>1, NothingBelow
  <2>4. a \notin Children(n)
    BY <2>2 DEF LeadsTo
  <2> QED BY <1>1, <2>2, <2>3, <2>4 DEF LeadsTo
<1> QED BY <1>2, <1>3

----------------------------------------------------------------------------
(* What has been done: the tasks completed are of iterations gone by *)

\* A task instance that completed is below a node, in the iterations the node is in.
Within(V, x, n) == x[1] \in Under(n) /\ \A l \in LoopsAbove(n) : x[2][l] = V[l].index

FreshAt(V, done, n) == \A j \in DOMAIN done : ~Within(V, done[j].step, n)

\* Nothing below a node has been done when it is called, nor a task while it is at work; and
\* at work, a sequence has done nothing of the steps to come, and a loop of the iterations
\* to come.
Ahead(V, done, n) ==
  /\ V[n] = Called \/ (IsKind(n, "task") /\ V[n].at = "busy") => FreshAt(V, done, n)
  /\ IsKind(n, "sequence") /\ V[n].at = "busy" =>
       \A j \in Positions(n) : j > V[n].index => FreshAt(V, done, ChildAt(n, j))
  /\ IsLoop(n) /\ V[n].at = "busy" =>
       \A j \in DOMAIN done : Within(V, done[j].step, n) => done[j].step[2][n] <= V[n].index

Fresh(f, V, done) == \A n \in Under(f) : Ahead(V, done, n)

IsDone(f, x) ==
  /\ x = <<x[1], x[2]>>
  /\ x[1] \in Under(f)
  /\ IsKind(x[1], "task")
  /\ x[2] = [l \in LoopsAbove(x[1]) |-> x[2][l]]
  /\ \A l \in LoopsAbove(x[1]) : x[2][l] \in Nat

DoneTyped(f, done) == \A j \in DOMAIN done : IsDone(f, done[j].step)

LEMMA ChildFresh ==
  ASSUME NEW n \in Node, ~IsLoop(n), NEW c \in Children(n), NEW V, NEW done, FreshAt(V, done, n)
  PROVE  FreshAt(V, done, c)
<1>1. c \in Node /\ Above(c) = UpTo(n) /\ n \in UpTo(c)
  BY ChildrenOf DEF UpTo
<1>2. \A t \in Under(c) : t \in Under(n)
  <2> TAKE t \in Under(c)
  <2>1. t \in Node /\ c \in UpTo(t)
    BY <1>1, UnderIsBelow
  <2>2. n \in UpTo(t)
    BY <1>1, <2>1, AboveIsTransitive DEF UpTo
  <2> QED BY <2>1, <2>2, BelowIsUnder
<1>3. LoopsAbove(c) = LoopsAbove(n)
  BY <1>1 DEF LoopsAbove, UpTo
<1> QED BY <1>2, <1>3 DEF FreshAt, Within

\* What is within the body of a loop is within the loop, in the iteration the loop is at.
LEMMA WithinBody ==
  ASSUME NEW n \in Node, IsLoop(n), NEW c \in Children(n), NEW V, NEW x, Within(V, x, c)
  PROVE  Within(V, x, n) /\ x[2][n] = V[n].index
<1>1. c \in Node /\ Above(c) = UpTo(n) /\ n \in UpTo(c)
  BY ChildrenOf DEF UpTo
<1>2. \A t \in Under(c) : t \in Under(n)
  <2> TAKE t \in Under(c)
  <2>1. t \in Node /\ c \in UpTo(t)
    BY <1>1, UnderIsBelow
  <2>2. n \in UpTo(t)
    BY <1>1, <2>1, AboveIsTransitive DEF UpTo
  <2> QED BY <2>1, <2>2, BelowIsUnder
<1>3. LoopsAbove(c) = LoopsAbove(n) \cup {n}
  BY <1>1 DEF LoopsAbove, UpTo
<1> QED BY <1>2, <1>3 DEF Within

LEMMA FreshSame ==
  ASSUME NEW n, NEW V, NEW W, NEW done, \A l \in LoopsAbove(n) : W[l] = V[l]
  PROVE  (\A x : Within(W, x, n) <=> Within(V, x, n)) /\ (FreshAt(W, done, n) <=> FreshAt(V, done, n))
BY DEF Within, FreshAt

\* An executor that goes on leaves the others as they were, with the loops they are in.
LEMMA OthersAhead ==
  ASSUME NEW f \in Flows, NEW V, NEW W, NEW done, Shaped(f, V), Path(f, V),
         NEW n \in Under(f), V[n] # Idle,
         \A c \in Children(n) : V[c].at # "busy",
         \A m \in Under(f) : m # n /\ m \notin Children(n) => W[m] = V[m],
         NEW m \in Under(f), m # n, m \notin Children(n), Ahead(V, done, m)
  PROVE  Ahead(W, done, m)
<1>1. m \in Node /\ UpTo(m) \subseteq Under(f) /\ W[m] = V[m]
  BY InFlow
<1>2. CASE V[m] = Idle
  BY <1>1, <1>2, ExecutorsDiffer DEF Ahead
<1>3. CASE V[m] # Idle
  <2>1. \A l \in LoopsAbove(m) : W[l] = V[l]
    <3> TAKE l \in LoopsAbove(m)
    <3>1. V[l].at = "busy"
      BY <1>3 DEF Path, LeadsTo, LoopsAbove
    <3>2. l # n
      BY <1>3, NothingBelow DEF LoopsAbove
    <3> QED BY <1>1, <3>1, <3>2 DEF LoopsAbove, UpTo
  <2>2. ASSUME IsKind(m, "sequence"), NEW c \in Children(m)
        PROVE  FreshAt(W, done, c) <=> FreshAt(V, done, c)
    <3>1. LoopsAbove(c) = LoopsAbove(m)
      BY <1>1, <2>2, ChildrenOf DEF LoopsAbove, UpTo, IsKind, IsLoop
    <3> QED BY <2>1, <3>1, FreshSame
  <2>3. \A j \in Positions(m) : ~IsLoop(m) => ChildAt(m, j) \in Children(m)
    BY DEF ChildAt, Children
  <2>4. IsKind(m, "sequence") => ~IsLoop(m)
    BY DEF IsKind, IsLoop
  <2>5. FreshAt(W, done, m) <=> FreshAt(V, done, m)
    BY <2>1, FreshSame
  <2>6. \A x : Within(W, x, m) <=> Within(V, x, m)
    BY <2>1, FreshSame
  <2> QED BY <1>1, <2>2, <2>3, <2>4, <2>5, <2>6 DEF Ahead
<1> QED BY <1>2, <1>3

\* The instance a step is at, and tasks completed with one more than before.
IsAt(V, x, n) == x[1] = n /\ \A l \in LoopsAbove(n) : x[2][l] = V[l].index

Adds(done, after, x) ==
  \A j \in DOMAIN after : after[j].step = x \/ (j \in DOMAIN done /\ after[j] = done[j])

\* A task that completes is ahead of nothing: it was called below what is at work.
LEMMA CompletionAhead ==
  ASSUME NEW f \in Flows, NEW V, NEW done, NEW after, Shaped(f, V), Path(f, V),
         NEW n \in Under(f), IsKind(n, "task"), V[n].at = "busy",
         NEW x, IsAt(V, x, n), Adds(done, after, x),
         NEW m \in Under(f), m # n, Ahead(V, done, m)
  PROVE  Ahead(V, after, m)
<1> USE DEF IsAt, Adds
<1>1. m \in Node /\ n \in Node /\ UpTo(n) \subseteq Under(f)
  BY InFlow
<1>2. V[n] # Idle
  BY ExecutorsDiffer
<1>3. n \in Under(m) => m \in Above(n)
  BY <1>1, UnderIsBelow DEF UpTo
<1>4. \A a \in Above(n) : V[a].at = "busy" /\ (~IsKind(a, "parallel") => ChildAt(a, V[a].index) \in UpTo(n))
  BY <1>2 DEF Path, LeadsTo
<1>5. \A a \in Above(n) : ~IsKind(a, "task")
  BY <1>1, ChildTowards, AboveIsTransitive, TreeAssumption DEF IsFormed, Children
<1>6. V[m] = Called \/ (IsKind(m, "task") /\ V[m].at = "busy") => ~Within(V, x, m)
  BY <1>3, <1>4, <1>5, ExecutorsDiffer DEF Within
<1>7. ASSUME IsKind(m, "sequence"), V[m].at = "busy", NEW j \in Positions(m), j > V[m].index
      PROVE  ~Within(V, x, ChildAt(m, j))
  <2>1. ~IsLoop(m) /\ ~IsKind(m, "parallel") /\ ~IsKind(m, "task")
    BY <1>7 DEF IsKind, IsLoop
  <2>2. ChildAt(m, j) \in Children(m)
    BY <2>1 DEF ChildAt, Children
  <2>3. SUFFICES ASSUME n \in Under(ChildAt(m, j))
                 PROVE  FALSE
    BY DEF Within
  <2>4. ChildAt(m, j) \in Node /\ ChildAt(m, j) \in UpTo(n) /\ m \in Above(ChildAt(m, j))
    BY <1>1, <2>2, <2>3, ChildrenOf, UnderIsBelow DEF UpTo
  <2>5. m \in Above(n)
    BY <1>1, <2>4, AboveIsTransitive DEF UpTo
  <2>6. V[m].index \in Positions(m) /\ ChildAt(m, V[m].index) \in Children(m) \cap UpTo(n)
    <3>1. V[m].index \in Positions(m)
      BY <1>7, <2>1, ExecutorsDiffer DEF Shaped, Shape
    <3> QED BY <3>1, <1>4, <2>1, <2>5 DEF ChildAt, Children
  <2>7. ChildAt(m, j) = ChildAt(m, V[m].index)
    BY <1>1, <2>2, <2>4, <2>6, OneChildTowards
  <2>8. j = V[m].index
    BY <1>1, <2>1, <2>6, <2>7, TreeAssumption DEF IsFormed, ChildAt, Children
  <2>9. j \in Nat
    BY <1>1, TreeAssumption DEF IsFormed, Positions
  <2> QED BY <1>7, <2>8, <2>9
<1>8. ASSUME IsLoop(m), V[m].at = "busy", Within(V, x, m)
      PROVE  x[2][m] <= V[m].index
  <2>1. m \in LoopsAbove(n)
    BY <1>3, <1>8 DEF Within, LoopsAbove
  <2>2. V[m].index \in Nat
    BY <1>8, ExecutorsDiffer DEF Shaped, Shape, IsKind, IsLoop
  <2> QED BY <2>1, <2>2
<1> QED BY <1>6, <1>7, <1>8 DEF Ahead, FreshAt

----------------------------------------------------------------------------
(* Steps of executors that no wait concerns *)

\* An executor that has called nothing, or whose calls have returned.
LEMMA CalledIsAbove ==
  ASSUME flow \in Flows, Shaped(flow, act), Path(flow, act), NEW n \in Under(flow), act[n] = Called
  PROVE  act[n] # Idle /\ \A c \in Children(n) : act[c] = Idle
<1>1. n \in Node /\ act[n].at = "called" /\ Children(n) \subseteq Under(flow)
  BY InFlow, ExecutorsDiffer
<1>2. \A c \in Children(n) : n \in Above(c)
  BY <1>1, ChildrenOf DEF UpTo
<1> QED BY <1>1, <1>2, ExecutorsDiffer DEF Path, LeadsTo

LEMMA ReturnedIsAbove ==
  ASSUME flow \in Flows, Shaped(flow, act), Path(flow, act), NEW n \in Under(flow),
         HasReturned(n), ~IsKind(n, "task"), ~IsKind(n, "parallel")
  PROVE  /\ act[n] # Idle
         /\ ChildAt(n, act[n].index) \in Children(n)
         /\ \A c \in Children(n) : act[c] = IF c = ChildAt(n, act[n].index) THEN Returned ELSE Idle
<1>1. n \in Node /\ act[n].at = "busy" /\ Children(n) \subseteq Under(flow)
  BY InFlow DEF HasReturned, IsBusy
<1>2. ChildAt(n, act[n].index) \in Children(n)
  BY <1>1, ChildAtIsChild DEF Shaped
<1>3. ASSUME NEW c \in Children(n), act[c] # Idle
      PROVE  c = ChildAt(n, act[n].index)
  <2>1. c \in Node /\ n \in Above(c) /\ c \in Under(flow)
    BY <1>1, <1>3, ChildrenOf DEF UpTo
  <2>2. ChildAt(n, act[n].index) \in UpTo(c)
    BY <1>3, <2>1 DEF Path, LeadsTo
  <2> QED BY <1>1, <1>2, <2>1, <2>2, OneChildTowards DEF UpTo
<1> QED BY <1>1, <1>2, <1>3, ExecutorsDiffer DEF HasReturned

\* What an executor that takes a step was at, and comes to.
Moves(n, local, called) ==
  /\ act' = Executed(act, n, local, called)
  /\ act[n] # Idle /\ local # Idle
  /\ Shape(n, local)
  /\ called \subseteq Children(n)
  /\ \A c \in called :
       local.at = "busy" /\ (~IsKind(n, "parallel") => c = ChildAt(n, local.index))
  /\ \A c \in Children(n) : act[c] \in {Idle, Returned}

LEMMA TaskHasNoChildren ==
  ASSUME NEW n \in Node, IsKind(n, "task")
  PROVE  Children(n) = {}
BY TreeAssumption DEF IsFormed, Children

LEMMA StepsFromMoves ==
  ASSUME NEW n \in Node, IsKind(n, "sequence"), NEW index, StepsFrom(n, index),
         act[n] # Idle, \A c \in Children(n) : act[c] \in {Idle, Returned}
  PROVE  \/ index \in Positions(n) /\ Moves(n, At(index), {ChildAt(n, index)})
         \/ Moves(n, Returned, {})
<1>1. ~IsLoop(n) /\ ~IsKind(n, "parallel")
  BY DEF IsKind, IsLoop
<1>2. CASE index \in Positions(n)
  <2>1. ChildAt(n, index) \in Children(n)
    BY <1>1, <1>2 DEF ChildAt, Children
  <2>2. Shape(n, At(index)) /\ At(index) # Idle /\ At(index).at = "busy" /\ At(index).index = index
    BY <1>2, ExecutorsDiffer DEF Shape
  <2> QED BY <1>2, <2>1, <2>2 DEF Moves, StepsFrom, Execute
<1>3. CASE index \notin Positions(n)
  BY <1>3, ExecutorsDiffer DEF Moves, StepsFrom, Execute, Return, Shape
<1> QED BY <1>2, <1>3

LEMMA IterationsFromMoves ==
  ASSUME NEW n \in Node, IsLoop(n), NEW index \in Nat, NEW items, NEW acc, IterationsFrom(n, index, items, acc),
         act[n] # Idle, \A c \in Children(n) : act[c] \in {Idle, Returned}
  PROVE  \/ Moves(n, Looping(index, items, acc), Children(n))
         \/ Moves(n, Returned, {})
<1>1. ~IsKind(n, "parallel") /\ \A c \in Children(n) : c = ChildAt(n, index)
  BY TreeAssumption DEF IsFormed, IsKind, IsLoop, ChildAt, Children
<1>2. CASE HasIteration(n, index, items, acc)
  <2>1. Shape(n, Looping(index, items, acc)) /\ Looping(index, items, acc) # Idle
    BY <1>2, ExecutorsDiffer DEF Shape, HasIteration
  <2> QED BY <1>1, <1>2, <2>1, ExecutorsDiffer DEF Moves, IterationsFrom, Execute
<1>3. CASE ~HasIteration(n, index, items, acc)
  BY <1>3, ExecutorsDiffer DEF Moves, IterationsFrom, LoopEnds, Execute, Return, Shape
<1> QED BY <1>2, <1>3

LEMMA StepMoves ==
  ASSUME flow \in Flows, Shaped(flow, act), Path(flow, act), NEW n \in Under(flow), Step(n)
  PROVE  \E local, called : Moves(n, local, called)
<1>1. n \in Node
  BY InFlow
<1>2. CASE SequenceBegins(n)
  <2>1. IsKind(n, "sequence") /\ act[n] = Called /\ StepsFrom(n, 1)
    BY <1>2 DEF SequenceBegins, IsCalled
  <2> QED BY <1>1, <2>1, CalledIsAbove, StepsFromMoves
<1>3. CASE SequenceContinues(n)
  <2>1. IsKind(n, "sequence") /\ HasReturned(n) /\ StepsFrom(n, act[n].index + 1)
    BY <1>3 DEF SequenceContinues
  <2>2. ~IsKind(n, "task") /\ ~IsKind(n, "parallel")
    BY <2>1 DEF IsKind
  <2> QED BY <1>1, <2>1, <2>2, ReturnedIsAbove, StepsFromMoves
<1>4. CASE TaskBegins(n)
  <2>1. Moves(n, Running(Eval(Tree(n).inputs, ScopeOf(n))), {})
    BY <1>1, <1>4, CalledIsAbove, ExecutorsDiffer DEF TaskBegins, IsCalled, Moves, Execute, Shape
  <2> QED BY <2>1
<1>5. CASE TaskCompletes(n)
  <2>1. Moves(n, Returned, {})
    BY <1>1, <1>5, TaskHasNoChildren, ExecutorsDiffer DEF TaskCompletes, IsBusy, Moves, Execute, Return, Shape
  <2> QED BY <2>1
<1>6. CASE ConditionalBegins(n)
  <2>1. PICK branch \in Positions(n) : Execute(n, At(branch), {ChildAt(n, branch)})
    BY <1>6 DEF ConditionalBegins
  <2>2. IsKind(n, "conditional") /\ act[n] = Called /\ ChildAt(n, branch) \in Children(n)
    BY <1>6 DEF ConditionalBegins, IsCalled, ChildAt, Children, IsKind, IsLoop
  <2>3. Moves(n, At(branch), {ChildAt(n, branch)})
    BY <1>1, <2>1, <2>2, CalledIsAbove, ExecutorsDiffer DEF Moves, Execute, Shape
  <2> QED BY <2>3
<1>7. CASE ConditionalSkips(n)
  <2>1. Moves(n, Returned, {})
    BY <1>1, <1>7, CalledIsAbove, ExecutorsDiffer DEF ConditionalSkips, IsCalled, Moves, Execute, Return, Shape
  <2> QED BY <2>1
<1>8. CASE ConditionalReturns(n)
  <2>1. HasReturned(n) /\ ~IsKind(n, "task") /\ ~IsKind(n, "parallel") /\ act' = Executed(act, n, Returned, {})
    BY <1>8 DEF ConditionalReturns, IsKind, Return, Execute
  <2>2. Moves(n, Returned, {})
    BY <2>1, ReturnedIsAbove, ExecutorsDiffer DEF Moves, Shape
  <2> QED BY <2>2
<1>9. CASE LoopBegins(n)
  <2>1. PICK items, acc : IterationsFrom(n, 1, items, acc)
    BY <1>9 DEF LoopBegins
  <2>2. IsLoop(n) /\ act[n] = Called
    BY <1>9 DEF LoopBegins, IsCalled
  <2> QED BY <1>1, <2>1, <2>2, CalledIsAbove, IterationsFromMoves
<1>10. CASE LoopContinues(n)
  <2>1. IsLoop(n) /\ HasReturned(n) /\ ~IsKind(n, "task") /\ ~IsKind(n, "parallel")
    BY <1>10 DEF LoopContinues, IsLoop, IsKind
  <2>2. act[n] # Idle /\ \A c \in Children(n) : act[c] \in {Idle, Returned}
    BY <2>1, ReturnedIsAbove
  <2>3. act[n].index + 1 \in Nat
    BY <2>1, ExecutorsDiffer DEF Shaped, Shape, IsLoop, IsKind, HasReturned, IsBusy
  <2>4. CASE Stops(n)
    <3>1. act' = Executed(act, n, Returned, {})
      BY <1>10, <2>4 DEF LoopContinues, LoopEnds, Return, Execute
    <3>2. Moves(n, Returned, {})
      BY <2>2, <3>1, ExecutorsDiffer DEF Moves, Shape
    <3> QED BY <3>2
  <2>5. CASE ~Stops(n)
    <3>1. IterationsFrom(n, act[n].index + 1, act[n].items, Merged(n))
      BY <1>10, <2>5 DEF LoopContinues
    <3> QED BY <1>1, <2>1, <2>2, <2>3, <3>1, IterationsFromMoves
  <2> QED BY <2>4, <2>5
<1>11. CASE ParallelBegins(n)
  <2>1. Moves(n, Waiting, Children(n))
    BY <1>1, <1>11, CalledIsAbove, ExecutorsDiffer DEF ParallelBegins, IsCalled, Moves, Execute, Shape
  <2> QED BY <2>1
<1>12. CASE ParallelReturns(n)
  <2>1. Moves(n, Returned, {})
    BY <1>1, <1>12, ExecutorsDiffer DEF ParallelReturns, AllReturned, IsBusy, Moves, Execute, Return, Shape
  <2> QED BY <2>1
<1> QED BY <1>2, <1>3, <1>4, <1>5, <1>6, <1>7, <1>8, <1>9, <1>10, <1>11, <1>12 DEF Step

----------------------------------------------------------------------------
(* Frames and the walk they stand for *)

\* Executors, and the frames of those that are not at work.
Executors ==
  /\ flow \in Flows
  /\ DOMAIN act = Under(flow) /\ DOMAIN output = Under(flow) /\ DOMAIN accumulator = Under(flow)
  /\ Shaped(flow, act)
  /\ Path(flow, act)
  /\ DOMAIN frames \subseteq Under(flow)
  /\ \A n \in DOMAIN frames : act[n].at # "busy"

\* Between passes no executor runs.
Phases ==
  /\ status \in {"idle", "running", "suspended", "failed", "finished"}
  /\ status # "running" => \A n \in Under(flow) : act[n] = Idle
  /\ status \in {"idle", "finished"} => DOMAIN frames = {}
  /\ status = "idle" => ran = <<>> /\ asked = <<>> /\ resolved = <<>>
  /\ status = "suspended" => HasFrame(flow)

LEMMA ScopeFacts ==
  ASSUME NEW n \in Node
  PROVE  /\ Layer(n) \in UpTo(n) /\ OwnsOutput(Layer(n))
         /\ Scope(n) \in UpTo(n) /\ OwnsAccumulator(Scope(n))
         /\ Loop(n) \in LoopsAbove(n) \cup {None} /\ None \notin LoopsAbove(n)
<1>1. IsScoped(n) /\ Above(n) \subseteq Node /\ None \notin Node
  BY TreeAssumption DEF IsPlaced
<1> QED BY <1>1 DEF IsScoped, LoopsAbove

LEMMA WalkedIs ==
  /\ DOMAIN Walked = Under(flow) /\ DOMAIN Written = Under(flow) /\ DOMAIN Accumulated = Under(flow)
  /\ \A n \in Under(flow) : Walked[n] = WalkedAt(n) /\ Written[n] = WrittenAt(n) /\ Accumulated[n] = AccumulatedAt(n)
BY DEF Walked, Written, Accumulated

\* Above an executor that was called nothing has a frame: the walk is there as the run is.
LEMMA AboveCalled ==
  ASSUME Executors, Phases, NEW n \in Under(flow), act[n] # Idle, NEW a \in Above(n)
  PROVE  /\ a \in Under(flow) /\ act[a].at = "busy" /\ ~HasFrame(a)
         /\ Walked[a] = act[a]
         /\ Accumulated[a] = accumulator[a]
         /\ OwnsOutput(a) => Written[a] = output[a]
<1>1. n \in Node /\ a \in Node /\ a \in Under(flow) /\ UpTo(a) \subseteq Above(n)
  BY InFlow, AboveIsTransitive DEF Executors, UpTo
<1>2. \A b \in Above(n) : act[b].at = "busy" /\ ~HasFrame(b)
  BY DEF Executors, Path, LeadsTo, HasFrame
<1>3. act[a] # Idle
  BY <1>2, ExecutorsDiffer
<1>4. OwnsOutput(a) => Written[a] = output[a]
  <2>1. status = "running"
    BY DEF Phases
  <2>2. CASE IsBranch(a)
    <3>1. Parent(a) \in Above(n)
      BY <1>1, <2>2, ParentOf DEF IsBranch, UpTo
    <3> QED BY <1>1, <1>2, <2>1, <3>1, WalkedIs DEF WrittenAt
  <2>3. CASE ~IsBranch(a)
    BY <1>1, <2>1, <2>3, WalkedIs DEF WrittenAt
  <2> QED BY <2>2, <2>3
<1> QED BY <1>1, <1>2, <1>3, <1>4, WalkedIs DEF WalkedAt, AccumulatedAt

LEMMA AtCalled ==
  ASSUME Executors, Phases, NEW n \in Under(flow), act[n] # Idle, ~HasFrame(n), NEW a \in UpTo(n)
  PROVE  /\ a \in Under(flow) /\ act[a] # Idle /\ ~HasFrame(a)
         /\ Walked[a] = act[a]
         /\ Accumulated[a] = accumulator[a]
         /\ OwnsOutput(a) => Written[a] = output[a]
<1>1. CASE a \in Above(n)
  BY <1>1, AboveCalled, ExecutorsDiffer
<1>2. CASE a = n
  <2>1. n \in Node /\ status = "running"
    BY InFlow DEF Executors, Phases
  <2>2. ~IsBranch(n) \/ ~HasFrame(Parent(n))
    BY <2>1, AboveCalled, ParentOf DEF IsBranch, UpTo
  <2> QED BY <1>2, <2>1, <2>2, WalkedIs DEF WalkedAt, AccumulatedAt, WrittenAt
<1> QED BY <1>1, <1>2 DEF UpTo

\* Step instances and scopes are those of the walk.
LEMMA InstancesAgree ==
  ASSUME Executors, Phases, NEW n \in Under(flow), act[n] # Idle, NEW m, LoopsAbove(m) = LoopsAbove(n)
  PROVE  Walk!Instance(m) = Instance(m)
<1>1. \A l \in LoopsAbove(m) : Walked[l] = act[l]
  BY AboveCalled DEF LoopsAbove
<1>2. Walk!LoopsAbove(m) = LoopsAbove(m)
  BY DEF Walk!LoopsAbove, LoopsAbove, Walk!Above, Above, Walk!IsLoop, IsLoop
<1> QED BY <1>1, <1>2 DEF Walk!Instance, Instance

LEMMA ScopesAgree ==
  ASSUME Executors, Phases, NEW n \in Under(flow), act[n] # Idle, ~HasFrame(n)
  PROVE  /\ Walk!ScopeOf(n) = ScopeOf(n)
         /\ \A index, items, acc : Walk!LoopScope(n, index, items, acc) = LoopScope(n, index, items, acc)
<1>1. n \in Node
  BY InFlow DEF Executors
<1>2. Walk!OutputOf(n) = OutputOf(n)
  <2>1. \A l : Walk!UpTo(l) = UpTo(l)
    BY DEF Walk!UpTo, UpTo, Walk!Above, Above
  <2>2. Walk!Layers(n) = Layers(n)
    BY <2>1 DEF Walk!Layers, Layers, Walk!OwnsOutput, OwnsOutput, Walk!Parent, Parent, Walk!IsBranch, IsBranch,
             Walk!IsKind, IsKind
  <2>3. \A l \in Layers(n) : Written[l] = output[l]
    BY AtCalled DEF Layers
  <2>4. [l \in Walk!Layers(n) |-> Written[l]] = [l \in Layers(n) |-> output[l]]
    BY <2>2, <2>3
  <2>5. \A layers : Walk!Seen(layers) = Seen(layers)
    BY DEF Walk!Seen, Seen, Walk!UpTo, UpTo, Walk!Above, Above
  <2> QED BY <2>4, <2>5 DEF Walk!OutputOf, OutputOf
<1>3. \A l, index, items : Walk!IterationAt(l, index, items) = IterationAt(l, index, items)
  BY DEF Walk!IterationAt, IterationAt, Walk!IsKind, IsKind
<1>4. Walk!IterationOf(n) = IterationOf(n)
  <2>1. Loop(n) # None => Walked[Loop(n)] = act[Loop(n)]
    BY <1>1, ScopeFacts, AboveCalled DEF LoopsAbove
  <2> QED BY <1>3, <2>1 DEF Walk!IterationOf, IterationOf, Walk!Loop, Loop
<1>5. Accumulated[Walk!Scope(n)] = accumulator[Scope(n)]
  BY <1>1, ScopeFacts, AtCalled DEF Walk!Scope, Scope
<1> QED BY <1>2, <1>3, <1>4, <1>5 DEF Walk!ScopeOf, ScopeOf, Walk!LoopScope, LoopScope

----------------------------------------------------------------------------
(* What no wait concerns is a step of the walk *)

LEMMA MovesWalk ==
  ASSUME Executors, Phases, NEW n \in Under(flow), Unframed(n),
         NEW local, NEW called, Moves(n, local, called), UNCHANGED <<flow, frames>>
  PROVE  /\ Walked' = Executed(Walked, n, local, called)
         /\ Walked[n] = act[n]
         /\ \A c \in Children(n) : Walked[c] = act[c]
<1>1. n \in Node /\ Children(n) \subseteq Under(flow) /\ ~HasFrame(n) /\ n \notin Children(n)
  BY InFlow, ChildrenOf DEF Executors, Unframed, UpTo
<1>2. \A c \in Children(n) : ~HasFrame(c) /\ Parent(c) = n
  BY <1>1, ChildrenOf DEF Unframed
<1>3. Walked[n] = act[n] /\ \A c \in Children(n) : Walked[c] = act[c]
  BY <1>1, <1>2, AtCalled, WalkedIs DEF WalkedAt, Moves, UpTo
<1>4. \A m : HasFrame(m)' <=> HasFrame(m)
  BY DEF HasFrame
<1>5. DOMAIN act = Under(flow)
  BY DEF Executors
<1>6. Walked' = [m \in Under(flow) |-> WalkedAt(m)']
  BY DEF Walked
<1>7. ASSUME NEW m \in Under(flow)
      PROVE  WalkedAt(m)' = Executed(Walked, n, local, called)[m]
  <2>1. Executed(Walked, n, local, called)[m] =
          IF m = n THEN local ELSE IF m \in called THEN Called ELSE IF m \in Children(n) THEN Idle ELSE WalkedAt(m)
    BY WalkedIs DEF Executed
  <2>2. act'[m] = IF m = n THEN local ELSE IF m \in called THEN Called ELSE IF m \in Children(n) THEN Idle ELSE act[m]
    BY <1>5 DEF Executed, Moves
  <2>3. CASE m = n
    BY <1>1, <1>4, <2>1, <2>2, <2>3 DEF WalkedAt, Moves
  <2>4. CASE m \in Children(n)
    BY <1>1, <1>2, <1>4, <2>1, <2>2, <2>4, ExecutorsDiffer DEF WalkedAt, Moves
  <2>5. CASE m # n /\ m \notin Children(n)
    <3>1. m \notin called /\ act'[m] = act[m]
      BY <2>2, <2>5 DEF Moves
    <3>2. WalkedAt(m)' = WalkedAt(m)
      BY <1>4, <3>1 DEF WalkedAt, RecordedAt
    <3> QED BY <2>1, <2>5, <3>1, <3>2
  <2> QED BY <2>3, <2>4, <2>5
<1>8. Executed(Walked, n, local, called) = [m \in Under(flow) |-> Executed(Walked, n, local, called)[m]]
  BY WalkedIs DEF Executed
<1> QED BY <1>3, <1>6, <1>7, <1>8

\* Layers and accumulators.
LEMMA LayersWalk ==
  ASSUME Executors, Phases, NEW n \in Under(flow), act[n] # Idle, Unframed(n), UNCHANGED <<flow, status, frames, saved>>
  PROVE  /\ \A x \in Under(flow) : output'[x] = output[x] => Written'[x] = Written[x]
         /\ \A x \in Under(flow) : accumulator'[x] = accumulator[x] => Accumulated'[x] = Accumulated[x]
         /\ \A x \in UpTo(n) \cup Children(n) :
              /\ x \in Under(flow)
              /\ Accumulated[x] = accumulator[x] /\ Accumulated'[x] = accumulator'[x]
              /\ OwnsOutput(x) => Written[x] = output[x] /\ Written'[x] = output'[x]
<1>1. n \in Node /\ Children(n) \subseteq Under(flow) /\ ~HasFrame(n)
  BY InFlow DEF Executors, Unframed
<1>2. \A c \in Children(n) : ~HasFrame(c) /\ Parent(c) = n /\ c # flow
  BY <1>1, ChildrenOf DEF Unframed, Executors
<1>3. \A m : HasFrame(m)' <=> HasFrame(m)
  BY DEF HasFrame
<1>4. \A x \in Under(flow) : Written'[x] = WrittenAt(x)' /\ Accumulated'[x] = AccumulatedAt(x)'
  BY DEF Written, Accumulated
<1>5. status = "running"
  BY DEF Phases
<1>6. ASSUME NEW x \in Under(flow)
      PROVE  /\ output'[x] = output[x] => WrittenAt(x)' = WrittenAt(x)
             /\ accumulator'[x] = accumulator[x] => AccumulatedAt(x)' = AccumulatedAt(x)
  BY <1>3 DEF WrittenAt, AccumulatedAt
<1>7. ASSUME NEW c \in Children(n)
      PROVE  /\ WrittenAt(c) = output[c] /\ WrittenAt(c)' = output'[c]
             /\ AccumulatedAt(c) = accumulator[c] /\ AccumulatedAt(c)' = accumulator'[c]
  BY <1>1, <1>2, <1>3 DEF WrittenAt, AccumulatedAt
<1>8. ASSUME NEW a \in UpTo(n)
      PROVE  /\ a \in Under(flow)
             /\ AccumulatedAt(a) = accumulator[a] /\ AccumulatedAt(a)' = accumulator'[a]
             /\ OwnsOutput(a) => WrittenAt(a) = output[a] /\ WrittenAt(a)' = output'[a]
  <2>1. a \in Under(flow) /\ ~HasFrame(a) /\ a \in Node /\ UpTo(a) \subseteq UpTo(n)
    BY <1>1, AtCalled, AboveIsTransitive DEF UpTo
  <2>2. IsBranch(a) => ~HasFrame(Parent(a))
    <3>1. IsBranch(a) => Parent(a) \in UpTo(n)
      BY <2>1, ParentOf DEF IsBranch, UpTo
    <3> QED BY <1>1, <3>1, AtCalled
  <2> QED BY <1>3, <1>5, <2>1, <2>2 DEF WrittenAt, AccumulatedAt
<1> QED BY <1>1, <1>4, <1>6, <1>7, <1>8, WalkedIs

LEMMA WriteWalk ==
  ASSUME Executors, Phases, NEW n \in Under(flow), act[n] # Idle, Unframed(n), UNCHANGED <<flow, status, frames, saved>>,
         NEW value, Write(n, value)
  PROVE  Walk!Write(n, value)
<1>1. n \in Node /\ DOMAIN output = Under(flow)
  BY InFlow DEF Executors
<1>2. Layer(n) \in UpTo(n) /\ OwnsOutput(Layer(n)) /\ Walk!Layer(n) = Layer(n)
  BY <1>1, ScopeFacts DEF Walk!Layer, Layer
<1>3. Written[Layer(n)] = output[Layer(n)] /\ Written'[Layer(n)] = output'[Layer(n)] /\ Layer(n) \in Under(flow)
  BY <1>2, LayersWalk
<1>4. output'[Layer(n)] = Updated(output[Layer(n)], [name \in {Tree(n).name} |-> value])
  BY <1>1, <1>3 DEF Write
<1>5. \A x \in Under(flow) : x # Layer(n) => Written'[x] = Written[x]
  BY <1>1, LayersWalk DEF Write
<1>6. Written' = [x \in Under(flow) |-> Written'[x]] /\ DOMAIN Written = Under(flow)
  BY DEF Written
<1>7. Written' = [Written EXCEPT ![Layer(n)] = Updated(Written[Layer(n)], [name \in {Tree(n).name} |-> value])]
  BY <1>3, <1>4, <1>5, <1>6
<1> QED BY <1>2, <1>7 DEF Walk!Write, Walk!Updated, Updated

LEMMA AccumulatorWalk ==
  ASSUME Executors, Phases, NEW n \in Under(flow), act[n] # Idle, Unframed(n), UNCHANGED <<flow, status, frames, saved>>,
         NEW x \in UpTo(n) \cup Children(n), NEW value, accumulator' = [accumulator EXCEPT ![x] = value]
  PROVE  Accumulated' = [Accumulated EXCEPT ![x] = value]
<1>1. DOMAIN accumulator = Under(flow) /\ x \in Under(flow) /\ Accumulated'[x] = accumulator'[x]
  BY LayersWalk DEF Executors
<1>2. \A y \in Under(flow) : y # x => Accumulated'[y] = Accumulated[y]
  BY <1>1, LayersWalk
<1>3. Accumulated' = [y \in Under(flow) |-> Accumulated'[y]] /\ DOMAIN Accumulated = Under(flow)
  BY DEF Accumulated
<1> QED BY <1>1, <1>2, <1>3

LEMMA UnchangedWalk ==
  ASSUME UNCHANGED <<flow, status, frames, saved>>
  PROVE  /\ Progress' = Progress
         /\ output' = output => Written' = Written
         /\ accumulator' = accumulator => Accumulated' = Accumulated
         /\ snapshots' = snapshots => Told' = Told
BY DEF Progress, Written, WrittenAt, Accumulated, AccumulatedAt, Told, HasFrame

LEMMA ReportWalk ==
  ASSUME NEW instances, NEW word, word # "suspended", Report(instances, word)
  PROVE  Walk!Report(instances, word)
BY DEF Report, Walk!Report, Told, Updated, Walk!Updated

\* What FlowWalk means by the operators of trees.
LEMMA WalkTree ==
  /\ \A n, kind : Walk!IsKind(n, kind) <=> IsKind(n, kind)
  /\ \A n : /\ Walk!IsLoop(n) <=> IsLoop(n)
            /\ Walk!Positions(n) = Positions(n)
            /\ Walk!Children(n) = Children(n)
            /\ Walk!Parent(n) = Parent(n)
            /\ Walk!Above(n) = Above(n)
            /\ Walk!UpTo(n) = UpTo(n)
            /\ Walk!LoopsAbove(n) = LoopsAbove(n)
            /\ Walk!Under(n) = Under(n)
            /\ Walk!OwnsAccumulator(n) <=> OwnsAccumulator(n)
            /\ Walk!Layer(n) = Layer(n)
            /\ Walk!Scope(n) = Scope(n)
  /\ \A n, index : Walk!ChildAt(n, index) = ChildAt(n, index)
  /\ Walk!Called = Called /\ Walk!Returned = Returned /\ Walk!Waiting = Waiting /\ Walk!Idle = Idle
  /\ \A i : Walk!At(i) = At(i) /\ Walk!Running(i) = Running(i)
  /\ \A i, items, acc : Walk!Looping(i, items, acc) = Looping(i, items, acc)
  /\ \A e, n, local, called : Walk!Executed(e, n, local, called) = Executed(e, n, local, called)
  /\ \A condition, scope : Walk!Holds(condition, scope) <=> Holds(condition, scope)
<1>1. \A n : Walk!OwnsAccumulator(n) <=> OwnsAccumulator(n)
  BY DEF Walk!OwnsAccumulator, OwnsAccumulator, Walk!IsKind, IsKind, Walk!IsLoop, IsLoop, Walk!IsBranch, IsBranch,
         Walk!Parent, Parent
<1>2. \A e, n, local, called : Walk!Executed(e, n, local, called) = Executed(e, n, local, called)
  BY DEF Walk!Executed, Executed, Walk!Children, Children, Walk!Positions, Positions, Walk!Called, Called, Walk!Idle, Idle
<1>3. \A n : /\ Walk!LoopsAbove(n) = LoopsAbove(n)
             /\ Walk!Children(n) = Children(n)
             /\ Walk!UpTo(n) = UpTo(n)
  BY DEF Walk!LoopsAbove, LoopsAbove, Walk!Above, Above, Walk!IsLoop, IsLoop, Walk!Children, Children,
         Walk!Positions, Positions, Walk!UpTo, UpTo
<1>4. /\ \A n, kind : Walk!IsKind(n, kind) <=> IsKind(n, kind)
      /\ \A n : /\ Walk!IsLoop(n) <=> IsLoop(n)
                /\ Walk!Positions(n) = Positions(n)
                /\ Walk!Parent(n) = Parent(n)
                /\ Walk!Above(n) = Above(n)
                /\ Walk!Under(n) = Under(n)
                /\ Walk!Layer(n) = Layer(n)
                /\ Walk!Scope(n) = Scope(n)
  BY DEF Walk!IsKind, IsKind, Walk!IsLoop, IsLoop, Walk!Positions, Positions, Walk!Parent, Parent, Walk!Above, Above,
         Walk!Under, Under, Walk!Layer, Layer, Walk!Scope, Scope
<1>5. /\ \A n, index : Walk!ChildAt(n, index) = ChildAt(n, index)
      /\ Walk!Called = Called /\ Walk!Returned = Returned /\ Walk!Waiting = Waiting /\ Walk!Idle = Idle
      /\ \A i : Walk!At(i) = At(i) /\ Walk!Running(i) = Running(i)
      /\ \A i, items, acc : Walk!Looping(i, items, acc) = Looping(i, items, acc)
  BY DEF Walk!ChildAt, ChildAt, Walk!IsLoop, IsLoop, Walk!Called, Called, Walk!Returned, Returned, Walk!Waiting, Waiting,
         Walk!Idle, Idle, Walk!At, At, Walk!Running, Running, Walk!Looping, Looping
<1>6. \A condition, scope : Walk!Holds(condition, scope) <=> Holds(condition, scope)
  BY DEF Walk!Holds, Holds
<1> QED BY <1>1, <1>2, <1>3, <1>4, <1>5, <1>6

\* An executor that no wait concerns takes its step as it would in the walk.
Unconcerned(n) ==
  /\ Executors /\ Phases
  /\ n \in Under(flow)
  /\ act[n] # Idle
  /\ Unframed(n)
  /\ UNCHANGED <<frames, kept>>

LEMMA UnconcernedFacts ==
  ASSUME NEW n, Unconcerned(n), UNCHANGED <<flow, status>>
  PROVE  /\ n \in Node /\ Children(n) \subseteq Under(flow) /\ ~HasFrame(n)
         /\ UNCHANGED <<flow, status, frames, saved>>
         /\ Progress' = Progress
         /\ output' = output => Written' = Written
         /\ accumulator' = accumulator => Accumulated' = Accumulated
         /\ snapshots' = snapshots => Told' = Told
BY InFlow, UnchangedWalk DEF Unconcerned, Unframed, Executors, kept

LEMMA StepsFromWalk ==
  ASSUME NEW n, Unconcerned(n), IsKind(n, "sequence"), NEW index, StepsFrom(n, index),
         \A c \in Children(n) : act[c] \in {Idle, Returned}
  PROVE  Walk!StepsFrom(n, index)
<1>1. UNCHANGED <<flow, status, output, snapshots, ran>>
  BY DEF StepsFrom
<1>2. n \in Node /\ UNCHANGED <<flow, status, frames, saved>> /\ Progress' = Progress /\ Written' = Written /\ Told' = Told
      /\ (accumulator' = accumulator => Accumulated' = Accumulated)
  BY <1>1, UnconcernedFacts
<1>3. CASE index \in Positions(n)
  <2>1. Moves(n, At(index), {ChildAt(n, index)})
    <3>1. ~IsLoop(n) /\ ~IsKind(n, "parallel") /\ ChildAt(n, index) \in Children(n)
      BY <1>3 DEF IsKind, IsLoop, ChildAt, Children
    <3> QED BY <1>3, <3>1, ExecutorsDiffer DEF Moves, StepsFrom, Execute, Shape, Unconcerned
  <2>2. Walked' = Executed(Walked, n, At(index), {ChildAt(n, index)})
    BY <1>2, <2>1, MovesWalk DEF Unconcerned
  <2> QED BY <1>1, <1>2, <1>3, <2>2, WalkTree DEF Walk!StepsFrom, Walk!Execute, StepsFrom
<1>4. CASE index \notin Positions(n)
  <2>1. Moves(n, Returned, {})
    BY <1>4, ExecutorsDiffer DEF Moves, StepsFrom, Execute, Return, Shape, Unconcerned
  <2>2. Walked' = Executed(Walked, n, Returned, {})
    BY <1>2, <2>1, MovesWalk DEF Unconcerned
  <2>3. Accumulated' = [Accumulated EXCEPT ![n] = None]
    BY <1>2, <1>4, AccumulatorWalk DEF StepsFrom, UpTo, Unconcerned
  <2> QED BY <1>1, <1>2, <1>4, <2>2, <2>3, WalkTree DEF Walk!StepsFrom, Walk!Execute, Walk!Return
<1> QED BY <1>3, <1>4

LEMMA AtWalk ==
  ASSUME NEW n, Unconcerned(n)
  PROVE  Walked[n] = act[n] /\ \A c \in Children(n) : Walked[c] = act[c]
<1>1. n \in Node /\ Children(n) \subseteq Under(flow) /\ ~HasFrame(n)
  BY InFlow DEF Unconcerned, Executors, Unframed
<1>2. \A c \in Children(n) : ~HasFrame(c) /\ Parent(c) = n
  BY <1>1, ChildrenOf DEF Unframed, Unconcerned
<1> QED BY <1>1, <1>2, AtCalled, WalkedIs DEF WalkedAt, Unconcerned, UpTo

LEMMA ReturnedWalk ==
  ASSUME NEW n, Unconcerned(n), HasReturned(n), ~IsKind(n, "task"), ~IsKind(n, "parallel")
  PROVE  /\ Walk!HasReturned(n)
         /\ ChildAt(n, act[n].index) \in Children(n)
         /\ \A c \in Children(n) : act[c] \in {Idle, Returned}
<1>1. ChildAt(n, act[n].index) \in Children(n) /\ \A c \in Children(n) : act[c] \in {Idle, Returned}
  BY ReturnedIsAbove DEF Unconcerned, Executors
<1> QED BY <1>1, AtWalk, WalkTree DEF Walk!HasReturned, Walk!IsBusy, HasReturned, IsBusy

LEMMA SequenceWalks ==
  ASSUME NEW n, Unconcerned(n), SequenceBegins(n) \/ SequenceContinues(n)
  PROVE  Walk!SequenceBegins(n) \/ Walk!SequenceContinues(n)
<1>1. CASE SequenceBegins(n)
  <2>1. IsKind(n, "sequence") /\ act[n] = Called /\ StepsFrom(n, 1)
    BY <1>1 DEF SequenceBegins, IsCalled
  <2>2. \A c \in Children(n) : act[c] \in {Idle, Returned}
    BY <2>1, CalledIsAbove DEF Unconcerned, Executors
  <2>3. Walk!StepsFrom(n, 1)
    BY <2>1, <2>2, StepsFromWalk
  <2> QED BY <2>1, <2>3, AtWalk, WalkTree DEF Walk!SequenceBegins, Walk!IsCalled
<1>2. CASE SequenceContinues(n)
  <2>1. IsKind(n, "sequence") /\ HasReturned(n) /\ StepsFrom(n, act[n].index + 1)
    BY <1>2 DEF SequenceContinues
  <2>2. ~IsKind(n, "task") /\ ~IsKind(n, "parallel")
    BY <2>1 DEF IsKind
  <2>3. Walk!StepsFrom(n, act[n].index + 1)
    BY <2>1, <2>2, ReturnedWalk, StepsFromWalk
  <2> QED BY <2>1, <2>2, <2>3, AtWalk, ReturnedWalk, WalkTree DEF Walk!SequenceContinues
<1> QED BY <1>1, <1>2

LEMMA InstanceWalk ==
  ASSUME NEW n, Unconcerned(n), NEW m, LoopsAbove(m) = LoopsAbove(n)
  PROVE  Walk!Instance(m) = Instance(m)
BY InstancesAgree DEF Unconcerned

LEMMA ScopeWalk ==
  ASSUME NEW n, Unconcerned(n)
  PROVE  /\ Walk!ScopeOf(n) = ScopeOf(n)
         /\ \A index, items, acc : Walk!LoopScope(n, index, items, acc) = LoopScope(n, index, items, acc)
<1>1. ~HasFrame(n)
  BY DEF Unconcerned, Unframed
<1> QED BY <1>1, ScopesAgree DEF Unconcerned

LEMMA TaskBeginsWalk ==
  ASSUME NEW n, Unconcerned(n), TaskBegins(n)
  PROVE  Walk!TaskBegins(n)
<1>1. /\ IsKind(n, "task") /\ act[n] = Called
      /\ act' = Executed(act, n, Running(Eval(Tree(n).inputs, ScopeOf(n))), {})
      /\ Report({Instance(n)}, "running")
      /\ UNCHANGED <<flow, status, output, accumulator, ran>>
  BY DEF TaskBegins, IsCalled, Execute
<1>2. n \in Node /\ UNCHANGED <<flow, status, frames, saved>> /\ Progress' = Progress /\ Written' = Written
      /\ Accumulated' = Accumulated
  BY <1>1, UnconcernedFacts
<1>3. Moves(n, Running(Eval(Tree(n).inputs, ScopeOf(n))), {})
  BY <1>1, CalledIsAbove, ExecutorsDiffer DEF Moves, Shape, Unconcerned, Executors
<1>4. Walked' = Executed(Walked, n, Running(Eval(Tree(n).inputs, ScopeOf(n))), {})
  BY <1>2, <1>3, MovesWalk DEF Unconcerned
<1>5. Walk!Execute(n, Walk!Running(Eval(Tree(n).inputs, Walk!ScopeOf(n))), {})
  BY <1>4, ScopeWalk, WalkTree DEF Walk!Execute
<1>6. Walk!Report({Walk!Instance(n)}, "running")
  BY <1>1, InstanceWalk, ReportWalk
<1> QED BY <1>1, <1>2, <1>5, <1>6, AtWalk, WalkTree DEF Walk!TaskBegins, Walk!IsCalled

LEMMA TaskCompletesWalk ==
  ASSUME NEW n, Unconcerned(n), TaskCompletes(n)
  PROVE  Walk!TaskCompletes(n)
<1>1. /\ IsKind(n, "task") /\ act[n].at = "busy"
      /\ act' = Executed(act, n, Returned, {})
      /\ Write(n, Instance(n))
      /\ Report({Instance(n)}, "completed")
      /\ ran' = Append(ran, [step |-> Instance(n), inputs |-> act[n].inputs])
      /\ UNCHANGED <<flow, status, accumulator>>
  BY DEF TaskCompletes, IsBusy, Return, Execute
<1>2. n \in Node /\ UNCHANGED <<flow, status, frames, saved>> /\ Progress' = Progress
      /\ Accumulated' = Accumulated
  BY <1>1, UnconcernedFacts
<1>3. Moves(n, Returned, {})
  BY <1>1, <1>2, TaskHasNoChildren, ExecutorsDiffer DEF Moves, Shape, Unconcerned
<1>4. Walked' = Executed(Walked, n, Returned, {})
  BY <1>2, <1>3, MovesWalk DEF Unconcerned
<1>5. Walk!Return(n)
  BY <1>4, WalkTree DEF Walk!Execute, Walk!Return
<1>6. Walk!Instance(n) = Instance(n)
  BY InstanceWalk
<1>7. Walk!Report({Walk!Instance(n)}, "completed")
  BY <1>1, <1>6, ReportWalk
<1>8. Walk!Write(n, Walk!Instance(n))
  BY <1>1, <1>2, <1>6, WriteWalk DEF Unconcerned
<1>9. Walk!IsKind(n, "task") /\ Walk!IsBusy(n)
  BY <1>1, AtWalk, WalkTree DEF Walk!IsBusy
<1>10. ran' = Append(ran, [step |-> Walk!Instance(n), inputs |-> Walked[n].inputs])
  BY <1>1, <1>6, AtWalk
<1> QED BY <1>1, <1>2, <1>5, <1>7, <1>8, <1>9, <1>10 DEF Walk!TaskCompletes

LEMMA SkipBranchesWalk ==
  ASSUME NEW n, Unconcerned(n), NEW branches, SkipBranches(n, branches)
  PROVE  Walk!SkipBranches(n, branches)
<1>1. Walk!StepsUnder(n, branches) = StepsUnder(n, branches)
  BY WalkTree DEF Walk!StepsUnder, StepsUnder
<1>2. {Walk!Instance(m) : m \in Walk!StepsUnder(n, branches)} = {Instance(m) : m \in StepsUnder(n, branches)}
  BY <1>1, InstanceWalk DEF StepsUnder
<1>3. Report({Instance(m) : m \in StepsUnder(n, branches)}, "skipped")
  BY DEF SkipBranches
<1>4. Walk!Report({Instance(m) : m \in StepsUnder(n, branches)}, "skipped")
  BY <1>3, ReportWalk
<1> QED BY <1>2, <1>4 DEF Walk!SkipBranches

LEMMA ConditionalBeginsWalk ==
  ASSUME NEW n, Unconcerned(n), ConditionalBegins(n)
  PROVE  Walk!ConditionalBegins(n)
<1>1. PICK branch \in Positions(n) :
       /\ BranchHolds(n, branch)
       /\ \A earlier \in Positions(n) : earlier < branch => ~BranchHolds(n, earlier)
       /\ act' = Executed(act, n, At(branch), {ChildAt(n, branch)})
       /\ SkipBranches(n, Positions(n) \ {branch})
       /\ accumulator' = [accumulator EXCEPT ![ChildAt(n, branch)] =
                            IF OwnsAccumulator(ChildAt(n, branch)) THEN accumulator[Scope(n)] ELSE None]
  BY DEF ConditionalBegins, Execute
<1>2. IsKind(n, "conditional") /\ act[n] = Called /\ UNCHANGED <<flow, status, output, ran>>
  BY DEF ConditionalBegins, IsCalled
<1>3. n \in Node /\ UNCHANGED <<flow, status, frames, saved>> /\ Progress' = Progress /\ Written' = Written
  BY <1>2, UnconcernedFacts
<1>4. ~IsLoop(n) /\ ~IsKind(n, "parallel") /\ ChildAt(n, branch) \in Children(n)
  BY <1>2 DEF IsKind, IsLoop, ChildAt, Children
<1>5. Moves(n, At(branch), {ChildAt(n, branch)})
  BY <1>1, <1>2, <1>4, CalledIsAbove, ExecutorsDiffer DEF Moves, Shape, Unconcerned, Executors
<1>6. Walk!Execute(n, Walk!At(branch), {Walk!ChildAt(n, branch)})
  BY <1>3, <1>5, MovesWalk, WalkTree DEF Walk!Execute, Unconcerned
<1>7. \A b : Walk!BranchHolds(n, b) <=> BranchHolds(n, b)
  BY ScopeWalk, WalkTree DEF Walk!BranchHolds, BranchHolds
<1>8. Walk!SkipBranches(n, Walk!Positions(n) \ {branch})
  BY <1>1, SkipBranchesWalk, WalkTree
<1>9. Accumulated[Scope(n)] = accumulator[Scope(n)]
  BY <1>3, ScopeFacts, LayersWalk DEF Unconcerned
<1>10. Accumulated' = [Accumulated EXCEPT ![ChildAt(n, branch)] =
                            IF OwnsAccumulator(ChildAt(n, branch)) THEN Accumulated[Scope(n)] ELSE None]
  BY <1>1, <1>3, <1>4, <1>9, AccumulatorWalk DEF Unconcerned
<1>11. Accumulated' = [Accumulated EXCEPT ![Walk!ChildAt(n, branch)] =
                            IF Walk!OwnsAccumulator(Walk!ChildAt(n, branch)) THEN Accumulated[Walk!Scope(n)] ELSE None]
  BY <1>10, WalkTree
<1>12. branch \in Walk!Positions(n) /\ \A earlier \in Walk!Positions(n) : earlier < branch => ~Walk!BranchHolds(n, earlier)
  BY <1>1, <1>7, WalkTree
<1>13. Walk!IsKind(n, "conditional") /\ Walk!IsCalled(n)
  BY <1>2, AtWalk, WalkTree DEF Walk!IsCalled
<1> QED BY <1>1, <1>2, <1>3, <1>6, <1>7, <1>8, <1>11, <1>12, <1>13 DEF Walk!ConditionalBegins

LEMMA ConditionalSkipsWalk ==
  ASSUME NEW n, Unconcerned(n), ConditionalSkips(n)
  PROVE  Walk!ConditionalSkips(n)
<1>1. /\ IsKind(n, "conditional") /\ act[n] = Called
      /\ \A branch \in Positions(n) : ~BranchHolds(n, branch)
      /\ act' = Executed(act, n, Returned, {})
      /\ SkipBranches(n, Positions(n))
      /\ UNCHANGED <<flow, status, output, accumulator, ran>>
  BY DEF ConditionalSkips, IsCalled, Return, Execute
<1>2. n \in Node /\ UNCHANGED <<flow, status, frames, saved>> /\ Progress' = Progress /\ Written' = Written
      /\ Accumulated' = Accumulated
  BY <1>1, UnconcernedFacts
<1>3. Moves(n, Returned, {})
  BY <1>1, CalledIsAbove, ExecutorsDiffer DEF Moves, Shape, Unconcerned, Executors
<1>4. Walk!Return(n)
  BY <1>2, <1>3, MovesWalk, WalkTree DEF Walk!Execute, Walk!Return, Unconcerned
<1>5. \A b : Walk!BranchHolds(n, b) <=> BranchHolds(n, b)
  BY ScopeWalk, WalkTree DEF Walk!BranchHolds, BranchHolds
<1>6. Walk!SkipBranches(n, Walk!Positions(n))
  BY <1>1, SkipBranchesWalk, WalkTree
<1> QED BY <1>1, <1>2, <1>4, <1>5, <1>6, AtWalk, WalkTree DEF Walk!ConditionalSkips, Walk!IsCalled

LEMMA ConditionalReturnsWalk ==
  ASSUME NEW n, Unconcerned(n), ConditionalReturns(n)
  PROVE  Walk!ConditionalReturns(n)
<1>1. /\ IsKind(n, "conditional") /\ HasReturned(n) /\ ~IsKind(n, "task") /\ ~IsKind(n, "parallel")
      /\ act' = Executed(act, n, Returned, {})
      /\ UNCHANGED <<flow, status, output, accumulator, snapshots, ran>>
  BY DEF ConditionalReturns, IsKind, Return, Execute
<1>2. n \in Node /\ UNCHANGED <<flow, status, frames, saved>> /\ Progress' = Progress /\ Written' = Written
      /\ Accumulated' = Accumulated /\ Told' = Told
  BY <1>1, UnconcernedFacts
<1>3. Moves(n, Returned, {})
  BY <1>1, ReturnedWalk, ExecutorsDiffer DEF Moves, Shape, Unconcerned
<1>4. Walk!Return(n)
  BY <1>2, <1>3, MovesWalk, WalkTree DEF Walk!Execute, Walk!Return, Unconcerned
<1> QED BY <1>1, <1>2, <1>4, ReturnedWalk, WalkTree DEF Walk!ConditionalReturns

LEMMA LoopEndsWalk ==
  ASSUME NEW n, Unconcerned(n), IsLoop(n), NEW acc, LoopEnds(n, acc), UNCHANGED <<flow, status>>,
         \A c \in Children(n) : act[c] \in {Idle, Returned}
  PROVE  Walk!LoopEnds(n, acc)
<1>1. n \in Node /\ UNCHANGED <<flow, status, frames, saved>>
      /\ (output' = output => Written' = Written)
      /\ (accumulator' = accumulator => Accumulated' = Accumulated)
  BY UnconcernedFacts
<1>2. Moves(n, Returned, {})
  BY ExecutorsDiffer DEF Moves, Shape, LoopEnds, Return, Execute, Unconcerned
<1>3. Walk!Return(n)
  BY <1>1, <1>2, MovesWalk, WalkTree DEF Walk!Execute, Walk!Return, Unconcerned
<1>4. IF Tree(n).accumulate /\ Tree(n).name # None THEN Walk!Write(n, acc) ELSE UNCHANGED Written
  BY <1>1, WriteWalk DEF LoopEnds, Unconcerned
<1>5. Accumulated' = IF Tree(n).accumulate /\ IsKind(Parent(n), "sequence")
                     THEN [Accumulated EXCEPT ![Scope(n)] = acc] ELSE Accumulated
  <2>1. Scope(n) \in UpTo(n)
    BY <1>1, ScopeFacts
  <2>2. CASE Tree(n).accumulate /\ IsKind(Parent(n), "sequence")
    <3>1. accumulator' = [accumulator EXCEPT ![Scope(n)] = acc]
      BY <2>2 DEF LoopEnds
    <3> QED BY <1>1, <2>1, <2>2, <3>1, AccumulatorWalk DEF Unconcerned
  <2>3. CASE ~(Tree(n).accumulate /\ IsKind(Parent(n), "sequence"))
    BY <1>1, <2>3 DEF LoopEnds
  <2> QED BY <2>2, <2>3
<1> QED BY <1>3, <1>4, <1>5, WalkTree DEF Walk!LoopEnds

LEMMA IterationsFromWalk ==
  ASSUME NEW n, Unconcerned(n), IsLoop(n), NEW index \in Nat, NEW items, NEW acc,
         IterationsFrom(n, index, items, acc), UNCHANGED <<flow, status>>,
         \A c \in Children(n) : act[c] \in {Idle, Returned}
  PROVE  Walk!IterationsFrom(n, index, items, acc)
<1>1. n \in Node /\ UNCHANGED <<flow, status, frames, saved>> /\ (output' = output => Written' = Written)
  BY UnconcernedFacts
<1>2. Walk!HasIteration(n, index, items, acc) <=> HasIteration(n, index, items, acc)
  BY ScopeWalk, WalkTree DEF Walk!HasIteration, HasIteration
<1>3. CASE HasIteration(n, index, items, acc)
  <2>1. ~IsKind(n, "parallel") /\ ChildAt(n, index) \in Children(n) /\ \A c \in Children(n) : c = ChildAt(n, index)
    BY <1>1, TreeAssumption DEF IsFormed, IsKind, IsLoop, ChildAt, Children
  <2>2. /\ act' = Executed(act, n, Looping(index, items, acc), Children(n))
        /\ accumulator' = [accumulator EXCEPT ![ChildAt(n, index)] = acc]
        /\ output' = output
    BY <1>3 DEF IterationsFrom, Execute
  <2>3. Moves(n, Looping(index, items, acc), Children(n))
    BY <1>3, <2>1, <2>2, ExecutorsDiffer DEF Moves, Shape, HasIteration, Unconcerned
  <2>4. Walk!Execute(n, Walk!Looping(index, items, acc), Walk!Children(n))
    BY <1>1, <2>3, MovesWalk, WalkTree DEF Walk!Execute, Unconcerned
  <2>5. Accumulated' = [Accumulated EXCEPT ![ChildAt(n, index)] = acc]
    BY <1>1, <2>1, <2>2, AccumulatorWalk DEF Unconcerned
  <2> QED BY <1>1, <1>2, <1>3, <2>2, <2>4, <2>5, WalkTree DEF Walk!IterationsFrom
<1>4. CASE ~HasIteration(n, index, items, acc)
  BY <1>2, <1>4, LoopEndsWalk DEF Walk!IterationsFrom, IterationsFrom
<1> QED BY <1>3, <1>4

LEMMA LoopBeginsWalk ==
  ASSUME NEW n, Unconcerned(n), LoopBegins(n)
  PROVE  Walk!LoopBegins(n)
<1> DEFINE items == IF IsKind(n, "for_each") THEN Eval(Tree(n).items, ScopeOf(n)) ELSE <<>>
           acc == IF Tree(n).initial # None THEN Tree(n).initial ELSE accumulator[Scope(n)]
<1>1. IsLoop(n) /\ act[n] = Called /\ UNCHANGED <<flow, status, snapshots, ran>> /\ IterationsFrom(n, 1, items, acc)
  BY DEF LoopBegins, IsCalled
<1>2. n \in Node /\ UNCHANGED <<flow, status, frames, saved>> /\ Progress' = Progress /\ Told' = Told
  BY <1>1, UnconcernedFacts
<1>3. \A c \in Children(n) : act[c] \in {Idle, Returned}
  BY <1>1, CalledIsAbove DEF Unconcerned, Executors
<1>4. Walk!IterationsFrom(n, 1, items, acc)
  BY <1>1, <1>3, IterationsFromWalk
<1>5. Accumulated[Scope(n)] = accumulator[Scope(n)]
  BY <1>2, ScopeFacts, LayersWalk DEF Unconcerned
<1>6. items = IF Walk!IsKind(n, "for_each") THEN Eval(Tree(n).items, Walk!ScopeOf(n)) ELSE <<>>
  BY ScopeWalk, WalkTree
<1>7. acc = IF Tree(n).initial # None THEN Tree(n).initial ELSE Accumulated[Walk!Scope(n)]
  BY <1>5, WalkTree
<1>8. Walk!IsLoop(n) /\ Walk!IsCalled(n)
  BY <1>1, AtWalk, WalkTree DEF Walk!IsCalled
<1> QED BY <1>1, <1>2, <1>4, <1>6, <1>7, <1>8 DEF Walk!LoopBegins

LEMMA LoopContinuesWalk ==
  ASSUME NEW n, Unconcerned(n), LoopContinues(n)
  PROVE  Walk!LoopContinues(n)
<1>1. IsLoop(n) /\ HasReturned(n) /\ UNCHANGED <<flow, status, snapshots, ran>>
      /\ ~IsKind(n, "task") /\ ~IsKind(n, "parallel")
  BY DEF LoopContinues, IsLoop, IsKind
<1>2. n \in Node /\ UNCHANGED <<flow, status, frames, saved>> /\ Progress' = Progress /\ Told' = Told
  BY <1>1, UnconcernedFacts
<1>3. Walk!HasReturned(n) /\ \A c \in Children(n) : act[c] \in {Idle, Returned}
  BY <1>1, ReturnedWalk
<1>4. Walk!Merged(n) = Merged(n)
  BY AtWalk, ScopeWalk DEF Walk!Merged, Merged
<1>5. Walk!Stops(n) <=> Stops(n)
  BY AtWalk, ScopeWalk, WalkTree DEF Walk!Stops, Stops
<1>6. CASE Stops(n)
  <2>1. LoopEnds(n, Merged(n))
    BY <1>6 DEF LoopContinues
  <2>2. Walk!LoopEnds(n, Merged(n))
    BY <1>1, <1>3, <2>1, LoopEndsWalk
  <2> QED BY <1>1, <1>2, <1>3, <1>4, <1>5, <1>6, <2>2, WalkTree DEF Walk!LoopContinues
<1>7. CASE ~Stops(n)
  <2>1. IterationsFrom(n, act[n].index + 1, act[n].items, Merged(n))
    BY <1>7 DEF LoopContinues
  <2>2. act[n].index + 1 \in Nat
    BY <1>1, ExecutorsDiffer DEF Shaped, Shape, IsLoop, IsKind, HasReturned, IsBusy, Unconcerned, Executors
  <2>3. Walk!IterationsFrom(n, act[n].index + 1, act[n].items, Merged(n))
    BY <1>1, <1>3, <2>1, <2>2, IterationsFromWalk
  <2> QED BY <1>1, <1>2, <1>3, <1>4, <1>5, <1>7, <2>3, AtWalk, WalkTree DEF Walk!LoopContinues
<1> QED BY <1>6, <1>7

LEMMA ParallelBeginsWalk ==
  ASSUME NEW n, Unconcerned(n), ParallelBegins(n)
  PROVE  Walk!ParallelBegins(n)
<1>1. /\ IsKind(n, "parallel") /\ act[n] = Called
      /\ act' = Executed(act, n, Waiting, Children(n))
      /\ UNCHANGED <<flow, status, output, accumulator, snapshots, ran>>
  BY DEF ParallelBegins, IsCalled, Execute
<1>2. n \in Node /\ UNCHANGED <<flow, status, frames, saved>> /\ Progress' = Progress /\ Written' = Written
      /\ Accumulated' = Accumulated /\ Told' = Told
  BY <1>1, UnconcernedFacts
<1>3. Moves(n, Waiting, Children(n))
  BY <1>1, CalledIsAbove, ExecutorsDiffer DEF Moves, Shape, Unconcerned, Executors
<1>4. Walk!Execute(n, Walk!Waiting, Walk!Children(n))
  BY <1>2, <1>3, MovesWalk, WalkTree DEF Walk!Execute, Unconcerned
<1> QED BY <1>1, <1>2, <1>4, AtWalk, WalkTree DEF Walk!ParallelBegins, Walk!IsCalled

LEMMA ParallelReturnsWalk ==
  ASSUME NEW n, Unconcerned(n), ParallelReturns(n)
  PROVE  Walk!ParallelReturns(n)
<1> DEFINE Merge(out) == Joined([i \in Positions(n) |-> out[Tree(n).children[i]]])
           After(out, l) == IF l = Layer(n) THEN Updated(out[l], Merge(out))
                            ELSE IF l \in Children(n) THEN <<>> ELSE out[l]
<1>1. /\ IsKind(n, "parallel") /\ AllReturned(n)
      /\ act' = Executed(act, n, Returned, {})
      /\ output' = [l \in DOMAIN output |-> After(output, l)]
      /\ UNCHANGED <<flow, status, accumulator, snapshots, ran>>
  BY DEF ParallelReturns, Return, Execute
<1>2. n \in Node /\ UNCHANGED <<flow, status, frames, saved>> /\ Progress' = Progress
      /\ Accumulated' = Accumulated /\ Told' = Told
  BY <1>1, UnconcernedFacts
<1>3. Moves(n, Returned, {})
  BY <1>1, ExecutorsDiffer DEF Moves, Shape, AllReturned, Unconcerned
<1>4. Walk!Return(n)
  BY <1>2, <1>3, MovesWalk, WalkTree DEF Walk!Execute, Walk!Return, Unconcerned
<1>5. Walk!AllReturned(n)
  BY <1>1, AtWalk, WalkTree DEF Walk!AllReturned, Walk!IsBusy, AllReturned, IsBusy
<1>6. \A c \in Children(n) : OwnsOutput(c)
  BY <1>1, <1>2, ChildrenOf, TreeAssumption DEF OwnsOutput, IsBranch
<1>7. \A c \in Children(n) : c \in Under(flow) /\ Written[c] = output[c] /\ Written'[c] = output'[c]
  BY <1>2, <1>6, LayersWalk DEF Unconcerned
<1>8. Layer(n) \in Under(flow) /\ Written[Layer(n)] = output[Layer(n)] /\ Written'[Layer(n)] = output'[Layer(n)]
  BY <1>2, LayersWalk, ScopeFacts DEF Unconcerned
<1>9. DOMAIN output = Under(flow)
  BY DEF Unconcerned, Executors
<1>10. Merge(output) = Merge(Written)
  <2>1. \A i \in Positions(n) : Written[Tree(n).children[i]] = output[Tree(n).children[i]]
    BY <1>7 DEF Children
  <2>2. [i \in Positions(n) |-> output[Tree(n).children[i]]] = [i \in Positions(n) |-> Written[Tree(n).children[i]]]
    BY <2>1
  <2> QED BY <2>2
<1>11. \A l \in Under(flow) : Written'[l] = After(Written, l)
  <2> TAKE l \in Under(flow)
  <2>1. output'[l] = After(output, l)
    BY <1>1, <1>9
  <2>2. CASE l = Layer(n)
    BY <1>8, <1>10, <2>1, <2>2
  <2>3. CASE l # Layer(n) /\ l \in Children(n)
    BY <1>7, <2>1, <2>3
  <2>4. CASE l # Layer(n) /\ l \notin Children(n)
    <3>1. output'[l] = output[l]
      BY <2>1, <2>4
    <3>2. Written'[l] = Written[l]
      BY <1>2, <3>1, LayersWalk DEF Unconcerned
    <3> QED BY <2>4, <3>2
  <2> QED BY <2>2, <2>3, <2>4
<1>12. Written' = [l \in DOMAIN Written |-> After(Written, l)]
  <2>1. Written' = [l \in Under(flow) |-> Written'[l]] /\ DOMAIN Written = Under(flow)
    BY <1>1 DEF Written
  <2> HIDE DEF After
  <2> QED BY <1>11, <2>1
<1>13. \A l : After(Written, l) =
                IF l = Walk!Layer(n)
                THEN Walk!Updated(Written[l], Walk!Joined([i \in Walk!Positions(n) |-> Written[Tree(n).children[i]]]))
                ELSE IF l \in Walk!Children(n) THEN <<>> ELSE Written[l]
  BY DEF Walk!Layer, Layer, Walk!Updated, Updated, Walk!Joined, Joined, Walk!Positions, Positions, Walk!Children, Children
<1>14. Written' = [l \in DOMAIN Written |->
                     IF l = Walk!Layer(n)
                     THEN Walk!Updated(Written[l], Walk!Joined([i \in Walk!Positions(n) |-> Written[Tree(n).children[i]]]))
                     ELSE IF l \in Walk!Children(n) THEN <<>> ELSE Written[l]]
  BY <1>12, <1>13
<1> QED BY <1>1, <1>2, <1>4, <1>5, <1>14, WalkTree DEF Walk!ParallelReturns

LEMMA StepRunsWalks ==
  ASSUME Executors, Phases, NEW n \in Under(flow), StepRuns(n)
  PROVE  Walk!Step(n)
<1>1. Unframed(n) /\ Step(n) /\ UNCHANGED <<frames, kept>>
  BY DEF StepRuns
<1>2. Unconcerned(n)
  <2>1. \E local, called : Moves(n, local, called)
    BY <1>1, StepMoves DEF Executors
  <2> QED BY <1>1, <2>1 DEF Moves, Unconcerned
<1> QED BY <1>1, <1>2, SequenceWalks, TaskBeginsWalk, TaskCompletesWalk, ConditionalBeginsWalk, ConditionalSkipsWalk,
       ConditionalReturnsWalk, LoopBeginsWalk, LoopContinuesWalk, ParallelBeginsWalk, ParallelReturnsWalk
       DEF Step, Walk!Step

----------------------------------------------------------------------------
(* Suspending and resuming leaves the walk where it is *)

\* What frames hold of the flow below them, and the accumulators they will go on under.
FramesFit ==
  \A n \in DOMAIN frames :
    /\ IsKind(n, "parallel") =>
         DOMAIN frames[n].outputs = Children(n) /\ \E b \in Children(n) : HasFrame(b)
    /\ ~IsKind(n, "parallel") /\ ~IsKind(n, "task") => HasFrame(ChildAt(n, frames[n].index))
    /\ IsKind(n, "sequence") => frames[n].accumulator = Accumulated[Scope(n)]

\* Accumulators and outputs last as long as what they are the state of is at work.
Cleared ==
  \A n \in Under(flow) :
    /\ accumulator[n] # None => OwnsAccumulator(n) /\ (act[n] = Called \/ act[n].at = "busy")
    /\ n # flow /\ output[n] # <<>> => IsBranch(n) /\ act[Parent(n)].at = "busy"

\* What is reported of the tasks at work, and of those that wait.
Reports ==
  \A t \in Under(flow) : IsKind(t, "task") =>
    /\ act[t].at = "busy" => Instance(t) \in DOMAIN snapshots /\ snapshots[Instance(t)] = "running"
    /\ HasFrame(t) => /\ frames[t].wait = Walk!Instance(t)
                      /\ frames[t].wait \in DOMAIN snapshots
                      /\ snapshots[frames[t].wait] = "suspended"

OnlyFrameOf(n) ==
  \A m : m # n => (HasFrame(m)' <=> HasFrame(m)) /\ (HasFrame(m) => frames'[m] = frames[m])

LEMMA KeepFacts ==
  ASSUME NEW n, NEW frame, Keep(n, frame)
  PROVE  OnlyFrameOf(n) /\ HasFrame(n)' /\ frames'[n] = frame /\ DOMAIN frames' = DOMAIN frames \cup {n}
BY DEF Keep, OnlyFrameOf, HasFrame

LEMMA TakeUpFacts ==
  ASSUME NEW n, TakeUp(n)
  PROVE  OnlyFrameOf(n) /\ ~HasFrame(n)' /\ DOMAIN frames' = DOMAIN frames \ {n}
BY DEF TakeUp, OnlyFrameOf, HasFrame

LEMMA BranchesOf ==
  ASSUME NEW n \in Node, NEW m \in Node, IsBranch(m)
  PROVE  Parent(m) = n <=> IsKind(n, "parallel") /\ m \in Children(n)
BY ChildrenOf, ParentOf DEF IsBranch

LEMMA SuspendedWalked ==
  ASSUME Executors, NEW n \in Under(flow), act[n] # Idle, ~HasFrame(n),
         NEW frame, Keep(n, frame), UNCHANGED flow,
         act' = Executed(act, n, Returned, {}),
         RecordedAt(n)' = act[n],
         \A c \in Children(n) : ~HasFrame(c) => act[c] = IF IsKind(n, "parallel") THEN Returned ELSE Idle
  PROVE  Walked' = Walked
<1>1. OnlyFrameOf(n) /\ HasFrame(n)' /\ n \in Node /\ DOMAIN act = Under(flow) /\ n \notin Children(n)
  BY KeepFacts, InFlow, ChildrenOf DEF Executors, UpTo
<1>2. SUFFICES ASSUME NEW m \in Under(flow)
               PROVE  WalkedAt(m)' = WalkedAt(m)
  BY DEF Walked
<1>3. m \in Node /\ act'[m] = IF m = n THEN Returned ELSE IF m \in Children(n) THEN Idle ELSE act[m]
  BY <1>1, InFlow DEF Executed, Executors
<1>4. m # n /\ HasFrame(m) => RecordedAt(m)' = RecordedAt(m)
  BY <1>1 DEF OnlyFrameOf, RecordedAt
<1>5. CASE m = n
  BY <1>1, <1>5 DEF WalkedAt
<1>6. CASE m \in Children(n) /\ HasFrame(m)
  BY <1>1, <1>4, <1>6 DEF WalkedAt, OnlyFrameOf
<1>7. CASE m \in Children(n) /\ ~HasFrame(m)
  <2>1. Parent(m) = n /\ (IsBranch(m) <=> IsKind(n, "parallel")) /\ act'[m] = Idle /\ ~HasFrame(m)'
    BY <1>1, <1>3, <1>7, ChildrenOf, TreeAssumption DEF OnlyFrameOf, IsBranch
  <2> QED BY <1>1, <1>7, <2>1, ExecutorsDiffer DEF WalkedAt
<1>8. CASE m # n /\ m \notin Children(n)
  <2>1. act'[m] = act[m] /\ (HasFrame(m)' <=> HasFrame(m))
    BY <1>1, <1>3, <1>8 DEF OnlyFrameOf
  <2>2. IsBranch(m) => (HasFrame(Parent(m))' <=> HasFrame(Parent(m)))
    BY <1>1, <1>3, <1>8, BranchesOf DEF OnlyFrameOf
  <2> QED BY <1>4, <1>8, <2>1, <2>2 DEF WalkedAt
<1> QED BY <1>5, <1>6, <1>7, <1>8

LEMMA ResumedWalked ==
  ASSUME Executors, NEW n \in Under(flow), act[n] = Called, HasFrame(n), TakeUp(n), UNCHANGED flow,
         act'[n] = RecordedAt(n),
         act'[n] # Idle,
         \A m \in Under(flow) : m # n /\ m \notin Children(n) => act'[m] = act[m],
         \A c \in Children(n) : ~HasFrame(c) => act'[c] = IF IsKind(n, "parallel") THEN Returned ELSE Idle
  PROVE  Walked' = Walked
<1>1. OnlyFrameOf(n) /\ ~HasFrame(n)' /\ n \in Node /\ n \notin Children(n)
  BY TakeUpFacts, InFlow, ChildrenOf DEF Executors, UpTo
<1>2. SUFFICES ASSUME NEW m \in Under(flow)
               PROVE  WalkedAt(m)' = WalkedAt(m)
  BY DEF Walked
<1>3. m \in Node
  BY <1>1, InFlow DEF Executors
<1>4. m # n /\ HasFrame(m) => RecordedAt(m)' = RecordedAt(m)
  BY <1>1 DEF OnlyFrameOf, RecordedAt
<1>5. CASE m = n
  BY <1>1, <1>5 DEF WalkedAt
<1>6. CASE m \in Children(n) /\ HasFrame(m)
  BY <1>1, <1>4, <1>6 DEF WalkedAt, OnlyFrameOf
<1>7. CASE m \in Children(n) /\ ~HasFrame(m)
  <2>1. Parent(m) = n /\ (IsBranch(m) <=> IsKind(n, "parallel")) /\ ~HasFrame(m)'
    BY <1>1, <1>7, ChildrenOf, TreeAssumption DEF OnlyFrameOf, IsBranch
  <2>2. act[m] = Idle
    BY <1>7, CalledIsAbove DEF Executors
  <2> QED BY <1>1, <1>7, <2>1, <2>2, ExecutorsDiffer DEF WalkedAt
<1>8. CASE m # n /\ m \notin Children(n)
  <2>1. act'[m] = act[m] /\ (HasFrame(m)' <=> HasFrame(m))
    BY <1>1, <1>3, <1>8 DEF OnlyFrameOf
  <2>2. IsBranch(m) => (HasFrame(Parent(m))' <=> HasFrame(Parent(m)))
    BY <1>1, <1>3, <1>8, BranchesOf DEF OnlyFrameOf
  <2> QED BY <1>4, <1>8, <2>1, <2>2 DEF WalkedAt
<1> QED BY <1>5, <1>6, <1>7, <1>8

\* The frame of a node that is no parallel block holds no outputs, and that of one that is
\* no sequence no accumulator of a scope.
LEMMA FrameWithoutOutputs ==
  ASSUME Executors, NEW n \in Under(flow), ~IsKind(n, "parallel"), OnlyFrameOf(n),
         UNCHANGED <<flow, status, output, saved>>
  PROVE  Written' = Written
<1> SUFFICES ASSUME NEW m \in Under(flow)
             PROVE  WrittenAt(m)' = WrittenAt(m)
  BY DEF Written
<1>1. IsBranch(m) => Parent(m) # n
  BY DEF IsBranch
<1> QED BY <1>1 DEF WrittenAt, OnlyFrameOf

LEMMA FrameWithoutAccumulator ==
  ASSUME NEW n \in Under(flow), ~OwnsAccumulator(n), OnlyFrameOf(n), UNCHANGED <<flow, accumulator>>
  PROVE  Accumulated' = Accumulated
<1> SUFFICES ASSUME NEW m \in Under(flow)
             PROVE  AccumulatedAt(m)' = AccumulatedAt(m)
  BY DEF Accumulated
<1> QED BY DEF AccumulatedAt, OnlyFrameOf

WalkStays == UNCHANGED <<flow, Progress, Walked, Written, Accumulated, Told, ran>>

LEMMA TellsSame ==
  ASSUME NEW i \in DOMAIN snapshots, NEW word,
         snapshots[i] \in {"running", "suspended"}, word \in {"running", "suspended"},
         Report({i}, word)
  PROVE  Told' = Told
BY DEF Report, Updated, Told

LEMMA TaskAsksStays ==
  ASSUME Executors, Phases, Reports, NEW n \in Under(flow), TaskAsks(n)
  PROVE  WalkStays
<1>1. /\ IsKind(n, "task") /\ act[n].at = "busy"
      /\ act' = Executed(act, n, Returned, {})
      /\ Keep(n, TaskFrame(n))
      /\ Report({Instance(n)}, "suspended")
      /\ UNCHANGED <<flow, status, output, saved, accumulator, ran>>
  BY DEF TaskAsks, IsBusy, Return, Execute
<1>2. n \in Node /\ ~HasFrame(n) /\ act[n] # Idle /\ ~IsKind(n, "parallel") /\ Children(n) = {}
  BY <1>1, InFlow, TaskHasNoChildren, ExecutorsDiffer DEF Executors, HasFrame, IsKind
<1>3. OnlyFrameOf(n) /\ frames'[n].inputs = act[n].inputs
  <2>1. OnlyFrameOf(n) /\ frames'[n] = TaskFrame(n)
    BY <1>1, KeepFacts
  <2> QED BY <2>1 DEF TaskFrame
<1>4. RecordedAt(n)' = act[n]
  <2>1. act[n] = Running(act[n].inputs)
    BY <1>1, ExecutorsDiffer DEF Executors, Shaped, Shape, IsKind, IsLoop
  <2>2. RecordedAt(n)' = Running(frames'[n].inputs)
    BY <1>1 DEF RecordedAt, IsKind, IsLoop
  <2> QED BY <1>3, <2>1, <2>2
<1>5. Walked' = Walked
  BY <1>1, <1>2, <1>4, SuspendedWalked
<1>6. Written' = Written
  BY <1>1, <1>2, <1>3, FrameWithoutOutputs
<1>7. Accumulated' = Accumulated
  <2>1. ~OwnsAccumulator(n)
    BY <1>1 DEF OwnsAccumulator, IsKind
  <2> QED BY <1>1, <1>3, <2>1, FrameWithoutAccumulator
<1>8. Told' = Told
  BY <1>1, TellsSame DEF Reports
<1> QED BY <1>1, <1>5, <1>6, <1>7, <1>8 DEF WalkStays, Progress

\* What is common to sequences, conditionals and loops that return a frame of their own.
LEMMA InterruptedStays ==
  ASSUME Executors, Phases, NEW n \in Under(flow), ~IsKind(n, "task"), ~IsKind(n, "parallel"), IsInterrupted(n),
         Return(n), NEW frame, Keep(n, frame), RecordedAt(n)' = act[n], UNCHANGED <<flow, status, output, saved>>
  PROVE  Walked' = Walked /\ Written' = Written /\ OnlyFrameOf(n) /\ ~HasFrame(n) /\ frames'[n] = frame
         /\ n \in Node /\ act[n].at = "busy" /\ Shape(n, act[n])
<1>1. HasReturned(n) /\ HasFrame(ChildAt(n, act[n].index)) /\ act' = Executed(act, n, Returned, {})
  BY DEF IsInterrupted, Return, Execute
<1>2. n \in Node /\ act[n].at = "busy" /\ ~HasFrame(n)
  BY <1>1, InFlow DEF Executors, HasFrame, HasReturned, IsBusy
<1>3. act[n] # Idle /\ \A c \in Children(n) : ~HasFrame(c) => act[c] = Idle
  BY <1>1, ReturnedIsAbove DEF Executors
<1>4. OnlyFrameOf(n) /\ frames'[n] = frame
  BY KeepFacts
<1>5. Walked' = Walked
  BY <1>1, <1>2, <1>3, SuspendedWalked
<1>6. Written' = Written
  BY <1>4, FrameWithoutOutputs
<1> QED BY <1>2, <1>4, <1>5, <1>6 DEF Executors, Shaped

LEMMA SequenceSuspendsStays ==
  ASSUME Executors, Phases, Cleared, NEW n \in Under(flow), SequenceSuspends(n)
  PROVE  WalkStays
<1>1. /\ IsKind(n, "sequence") /\ IsInterrupted(n) /\ Return(n)
      /\ Keep(n, SequenceFrame(n))
      /\ accumulator' = [accumulator EXCEPT ![n] = None]
      /\ UNCHANGED <<flow, status, output, saved, snapshots, ran>>
  BY DEF SequenceSuspends, kept
<1>2. ~IsKind(n, "task") /\ ~IsKind(n, "parallel") /\ ~IsLoop(n)
  BY <1>1 DEF IsKind, IsLoop
<1>3. frames'[n] = SequenceFrame(n)
  BY <1>1, KeepFacts
<1>4. RecordedAt(n)' = act[n]
  <2>1. act[n] = At(act[n].index)
    BY <1>1, <1>2, ExecutorsDiffer DEF Executors, Shaped, Shape, IsInterrupted, HasReturned, IsBusy
  <2>2. RecordedAt(n)' = At(frames'[n].index)
    BY <1>1, <1>2 DEF RecordedAt, IsKind
  <2> QED BY <1>3, <2>1, <2>2 DEF SequenceFrame
<1>5. Walked' = Walked /\ Written' = Written /\ OnlyFrameOf(n) /\ ~HasFrame(n) /\ n \in Node
  BY <1>1, <1>2, <1>4, InterruptedStays
<1>6. Accumulated' = Accumulated
  <2>1. SUFFICES ASSUME NEW m \in Under(flow)
                 PROVE  AccumulatedAt(m)' = AccumulatedAt(m)
    BY <1>1 DEF Accumulated
  <2>2. DOMAIN accumulator = Under(flow)
    BY DEF Executors
  <2>3. CASE m # n
    BY <1>1, <1>5, <2>2, <2>3 DEF AccumulatedAt, OnlyFrameOf
  <2>4. CASE m = n /\ OwnsAccumulator(n)
    <3>1. Scope(n) = n
      BY <1>5, <2>4, TreeAssumption DEF IsScoped
    <3>2. HasFrame(n)'
      BY <1>1, KeepFacts
    <3> QED BY <1>3, <1>5, <2>4, <3>1, <3>2 DEF AccumulatedAt, SequenceFrame
  <2>5. CASE m = n /\ ~OwnsAccumulator(n)
    <3>1. accumulator[n] = None
      BY <2>5 DEF Cleared
    <3> QED BY <1>1, <2>2, <2>5, <3>1 DEF AccumulatedAt
  <2> QED BY <2>3, <2>4, <2>5
<1> QED BY <1>1, <1>5, <1>6, UnchangedWalk DEF WalkStays, Progress, Told

LEMMA ConditionalSuspendsStays ==
  ASSUME Executors, Phases, NEW n \in Under(flow), ConditionalSuspends(n)
  PROVE  WalkStays
<1>1. /\ IsKind(n, "conditional") /\ IsInterrupted(n) /\ Return(n)
      /\ Keep(n, ConditionalFrame(n))
      /\ UNCHANGED <<flow, status, output, accumulator, saved, snapshots, ran>>
  BY DEF ConditionalSuspends, kept
<1>2. ~IsKind(n, "task") /\ ~IsKind(n, "parallel") /\ ~IsLoop(n) /\ ~OwnsAccumulator(n)
  BY <1>1 DEF IsKind, IsLoop, OwnsAccumulator
<1>3. frames'[n].index = act[n].index
  <2>1. frames'[n] = ConditionalFrame(n)
    BY <1>1, KeepFacts
  <2> QED BY <2>1 DEF ConditionalFrame
<1>4. RecordedAt(n)' = act[n]
  <2>1. act[n] = At(act[n].index)
    BY <1>1, <1>2, ExecutorsDiffer DEF Executors, Shaped, Shape, IsInterrupted, HasReturned, IsBusy
  <2>2. RecordedAt(n)' = At(frames'[n].index)
    BY <1>1, <1>2 DEF RecordedAt, IsKind
  <2> QED BY <1>3, <2>1, <2>2
<1>5. Walked' = Walked /\ Written' = Written /\ OnlyFrameOf(n)
  BY <1>1, <1>2, <1>4, InterruptedStays
<1>6. Accumulated' = Accumulated
  BY <1>1, <1>2, <1>5, FrameWithoutAccumulator
<1> QED BY <1>1, <1>5, <1>6 DEF WalkStays, Progress, Told

LEMMA LoopSuspendsStays ==
  ASSUME Executors, Phases, NEW n \in Under(flow), LoopSuspends(n)
  PROVE  WalkStays
<1>1. /\ IsLoop(n) /\ IsInterrupted(n) /\ Return(n)
      /\ Keep(n, LoopFrame(n))
      /\ UNCHANGED <<flow, status, output, accumulator, saved, snapshots, ran>>
  BY DEF LoopSuspends, kept
<1>2. ~IsKind(n, "task") /\ ~IsKind(n, "parallel") /\ ~OwnsAccumulator(n)
  BY <1>1 DEF IsKind, IsLoop, OwnsAccumulator
<1>3. /\ frames'[n].index = act[n].index
      /\ frames'[n].items = act[n].items
      /\ frames'[n].accumulator = act[n].accumulator
  <2>1. frames'[n] = LoopFrame(n)
    BY <1>1, KeepFacts
  <2> QED BY <2>1 DEF LoopFrame
<1>4. RecordedAt(n)' = act[n]
  <2>1. act[n] = Looping(act[n].index, act[n].items, act[n].accumulator)
    BY <1>1, <1>2, ExecutorsDiffer
       DEF Executors, Shaped, Shape, IsInterrupted, HasReturned, IsBusy, IsLoop, IsKind
  <2>2. RecordedAt(n)' = Looping(frames'[n].index, frames'[n].items, frames'[n].accumulator)
    BY <1>1, <1>2 DEF RecordedAt, IsKind
  <2> QED BY <1>3, <2>1, <2>2
<1>5. Walked' = Walked /\ Written' = Written /\ OnlyFrameOf(n)
  BY <1>1, <1>2, <1>4, InterruptedStays
<1>6. Accumulated' = Accumulated
  BY <1>1, <1>2, <1>5, FrameWithoutAccumulator
<1> QED BY <1>1, <1>5, <1>6 DEF WalkStays, Progress, Told

LEMMA ParallelSuspendsStays ==
  ASSUME Executors, Phases, NEW n \in Under(flow), ParallelSuspends(n)
  PROVE  WalkStays
<1>1. /\ IsKind(n, "parallel") /\ act[n].at = "busy"
      /\ \A b \in Children(n) : act[b] = Returned
      /\ act' = Executed(act, n, Returned, {})
      /\ Keep(n, ParallelFrame(n))
      /\ output' = [l \in DOMAIN output |-> IF l \in Children(n) THEN <<>> ELSE output[l]]
      /\ UNCHANGED <<flow, status, accumulator, saved, snapshots, ran>>
  BY DEF ParallelSuspends, AllReturned, IsBusy, Return, Execute, kept
<1>2. /\ ~IsKind(n, "task") /\ ~IsLoop(n) /\ ~OwnsAccumulator(n)
      /\ n \in Node /\ ~HasFrame(n) /\ act[n] # Idle
  BY <1>1, InFlow, ExecutorsDiffer DEF IsKind, IsLoop, OwnsAccumulator, Executors, HasFrame
<1>3. OnlyFrameOf(n) /\ HasFrame(n)' /\ frames'[n].outputs = [b \in Children(n) |-> output[b]]
  <2>1. OnlyFrameOf(n) /\ HasFrame(n)' /\ frames'[n] = ParallelFrame(n)
    BY <1>1, KeepFacts
  <2> QED BY <2>1 DEF ParallelFrame
<1>4. RecordedAt(n)' = act[n]
  <2>1. act[n] = Waiting
    BY <1>1, <1>2, ExecutorsDiffer DEF Executors, Shaped, Shape, IsKind
  <2> QED BY <1>1, <1>2, <2>1 DEF RecordedAt, IsKind
<1>5. Walked' = Walked
  BY <1>1, <1>2, <1>4, SuspendedWalked
<1>6. Accumulated' = Accumulated
  BY <1>1, <1>2, <1>3, FrameWithoutAccumulator
<1>7. Written' = Written
  <2>1. SUFFICES ASSUME NEW m \in Under(flow)
                 PROVE  WrittenAt(m)' = WrittenAt(m)
    BY <1>1 DEF Written
  <2>2. m \in Node /\ DOMAIN output = Under(flow)
    BY InFlow DEF Executors
  <2>3. CASE m \in Children(n)
    <3>1. m # flow /\ IsBranch(m) /\ Parent(m) = n
      BY <1>1, <1>2, <2>3, ChildrenOf, TreeAssumption DEF IsBranch, Executors
    <3> QED BY <1>1, <1>2, <1>3, <2>3, <3>1 DEF WrittenAt
  <2>4. CASE m \notin Children(n)
    <3>1. output'[m] = output[m]
      BY <1>1, <2>2, <2>4
    <3>2. IsBranch(m) => Parent(m) # n
      BY <1>2, <2>2, <2>4, BranchesOf
    <3> QED BY <1>1, <1>3, <3>1, <3>2 DEF WrittenAt, OnlyFrameOf
  <2> QED BY <2>3, <2>4
<1> QED BY <1>1, <1>5, <1>6, <1>7 DEF WalkStays, Progress, Told

LEMMA TaskResumesStays ==
  ASSUME Executors, Phases, Reports, NEW n \in Under(flow), TaskResumes(n)
  PROVE  WalkStays
<1>1. /\ IsKind(n, "task") /\ act[n] = Called /\ HasFrame(n)
      /\ UNCHANGED <<flow, status, output, saved, accumulator, ran>>
  BY DEF TaskResumes, IsHanded, kept
<1>2. /\ n \in Node /\ Children(n) = {} /\ act[n] # Idle
      /\ ~IsKind(n, "parallel") /\ ~IsLoop(n) /\ ~OwnsAccumulator(n)
      /\ DOMAIN act = Under(flow)
  BY <1>1, InFlow, TaskHasNoChildren, ExecutorsDiffer DEF Executors, IsKind, IsLoop, OwnsAccumulator
<1>3. CASE frames[n].wait \in resolutions
  <2>1. /\ act' = Executed(act, n, Running(frames[n].inputs), {}) /\ TakeUp(n)
        /\ Report({Instance(n)}, "running")
    BY <1>3 DEF TaskResumes, Execute
  <2>2. OnlyFrameOf(n)
    BY <2>1, TakeUpFacts
  <2>3. act'[n] = RecordedAt(n) /\ act'[n] # Idle /\ \A m \in Under(flow) : m # n => act'[m] = act[m]
    BY <1>1, <1>2, <2>1, ExecutorsDiffer DEF Executed, RecordedAt
  <2>4. Walked' = Walked
    BY <1>1, <1>2, <2>1, <2>3, ResumedWalked
  <2>5. Written' = Written /\ Accumulated' = Accumulated
    BY <1>1, <1>2, <2>2, FrameWithoutOutputs, FrameWithoutAccumulator
  <2>6. Walk!Instance(n) = Instance(n)
    BY <1>2, InstancesAgree
  <2>7. Told' = Told
    BY <1>1, <2>1, <2>6, TellsSame DEF Reports
  <2> QED BY <1>1, <2>4, <2>5, <2>7 DEF WalkStays, Progress
<1>4. CASE frames[n].wait \notin resolutions
  <2>1. act' = Executed(act, n, Returned, {}) /\ UNCHANGED <<frames, snapshots>>
    BY <1>4 DEF TaskResumes, Execute, Return
  <2>2. \A m \in Under(flow) : m # n => act'[m] = act[m]
    BY <1>2, <2>1 DEF Executed
  <2>3. Walked' = Walked
    <3>1. SUFFICES ASSUME NEW m \in Under(flow)
                   PROVE  WalkedAt(m)' = WalkedAt(m)
      BY <1>1 DEF Walked
    <3>2. HasFrame(m)' <=> HasFrame(m)
      BY <2>1 DEF HasFrame
    <3>3. RecordedAt(m)' = RecordedAt(m)
      BY <2>1 DEF RecordedAt
    <3>4. HasFrame(Parent(m))' <=> HasFrame(Parent(m))
      BY <2>1 DEF HasFrame
    <3> QED BY <1>1, <2>2, <3>2, <3>3, <3>4 DEF WalkedAt
  <2> QED BY <1>1, <2>1, <2>3, UnchangedWalk DEF WalkStays
<1> QED BY <1>3, <1>4

\* What is common to sequences, conditionals and loops that take up their frames.
LEMMA ContinuedStays ==
  ASSUME Executors, Phases, Shaped(flow, Walked), FramesFit,
         NEW n \in Under(flow), ~IsKind(n, "task"), ~IsKind(n, "parallel"), IsHanded(n),
         NEW local, local = RecordedAt(n), local.at = "busy", Resumed(n, local), TakeUp(n),
         UNCHANGED <<flow, status, output, saved>>
  PROVE  /\ Walked' = Walked /\ Written' = Written /\ OnlyFrameOf(n) /\ HasFrame(n) /\ ~HasFrame(n)'
         /\ n \in Node /\ act[n] = Called
<1>1. act[n] = Called /\ HasFrame(n) /\ act' = Executed(act, n, local, {ChildAt(n, frames[n].index)})
  BY DEF IsHanded, Resumed, Execute
<1>2. n \in Node /\ OnlyFrameOf(n) /\ ~HasFrame(n)' /\ HasFrame(ChildAt(n, frames[n].index)) /\ DOMAIN act = Under(flow)
      /\ Children(n) \subseteq Under(flow) /\ n \notin Children(n)
  BY <1>1, InFlow, TakeUpFacts, ChildrenOf DEF Executors, FramesFit, HasFrame, UpTo
<1>3. local # Idle
  BY ExecutorsDiffer
<1>4. act'[n] = RecordedAt(n) /\ act'[n] # Idle
  BY <1>1, <1>2, <1>3 DEF Executed
<1>5. \A c \in Children(n) : ~HasFrame(c) => act'[c] = Idle
  BY <1>1, <1>2 DEF Executed
<1>6. ChildAt(n, frames[n].index) \in Children(n)
  <2>1. Shape(n, RecordedAt(n)) /\ RecordedAt(n).at = "busy"
    BY <1>1, WalkedIs DEF WalkedAt, Shaped
  <2>2. RecordedAt(n).index = frames[n].index
    BY ExecutorsDiffer DEF RecordedAt
  <2> QED BY <1>2, <2>1, <2>2, ChildAtIsChild
<1>7. \A m \in Under(flow) : m # n /\ m \notin Children(n) => act'[m] = act[m]
  BY <1>1, <1>2, <1>6 DEF Executed
<1>8. Walked' = Walked
  BY <1>1, <1>4, <1>5, <1>7, ResumedWalked
<1> QED BY <1>1, <1>2, <1>8, FrameWithoutOutputs

LEMMA SequenceResumesStays ==
  ASSUME Executors, Phases, Shaped(flow, Walked), FramesFit, NEW n \in Under(flow), SequenceResumes(n)
  PROVE  WalkStays
<1>1. /\ IsKind(n, "sequence") /\ IsHanded(n) /\ Resumed(n, At(frames[n].index)) /\ TakeUp(n)
      /\ accumulator' = [accumulator EXCEPT ![Scope(n)] = frames[n].accumulator]
      /\ UNCHANGED <<flow, status, output, saved, snapshots, ran>>
  BY DEF SequenceResumes, Entered, kept
<1>2. ~IsKind(n, "task") /\ ~IsKind(n, "parallel") /\ ~IsLoop(n)
  BY <1>1 DEF IsKind, IsLoop
<1>3. At(frames[n].index) = RecordedAt(n) /\ At(frames[n].index).at = "busy"
  BY <1>2, ExecutorsDiffer DEF RecordedAt
<1>4. /\ Walked' = Walked /\ Written' = Written /\ OnlyFrameOf(n) /\ HasFrame(n) /\ ~HasFrame(n)'
      /\ n \in Node /\ act[n] = Called
  BY <1>1, <1>2, <1>3, ContinuedStays
<1>5. Accumulated' = Accumulated
  <2>1. SUFFICES ASSUME NEW m \in Under(flow)
                 PROVE  AccumulatedAt(m)' = AccumulatedAt(m)
    BY <1>1 DEF Accumulated
  <2>2. DOMAIN accumulator = Under(flow) /\ Scope(n) \in UpTo(n) /\ OwnsAccumulator(Scope(n))
    BY <1>4, ScopeFacts DEF Executors
  <2>3. Scope(n) = n <=> OwnsAccumulator(n)
    BY <1>4, <2>2, ChildTowards, AboveIsTransitive, ParentOf, ScopeFacts, TreeAssumption DEF IsScoped, UpTo
  <2>4. frames[n].accumulator = Accumulated[Scope(n)]
    BY <1>1, <1>4 DEF FramesFit, HasFrame
  <2>5. CASE m = n /\ OwnsAccumulator(n)
    BY <1>1, <1>4, <2>2, <2>3, <2>5 DEF AccumulatedAt
  <2>6. CASE m = n /\ ~OwnsAccumulator(n)
    BY <1>1, <2>2, <2>3, <2>6 DEF AccumulatedAt
  <2>7. CASE m # n /\ m = Scope(n)
    <3>1. m \in Above(n) /\ act[n] # Idle
      BY <1>4, <2>2, <2>7, ExecutorsDiffer DEF UpTo
    <3>2. ~HasFrame(m) /\ Accumulated[m] = accumulator[m]
      BY <3>1, AboveCalled
    <3>3. ~HasFrame(m)'
      BY <1>4, <2>7, <3>2 DEF OnlyFrameOf
    <3> QED BY <1>1, <2>2, <2>4, <2>7, <3>2, <3>3, WalkedIs DEF AccumulatedAt
  <2>8. CASE m # n /\ m # Scope(n)
    BY <1>1, <1>4, <2>2, <2>8 DEF AccumulatedAt, OnlyFrameOf
  <2> QED BY <2>5, <2>6, <2>7, <2>8
<1> QED BY <1>1, <1>4, <1>5 DEF WalkStays, Progress, Told

LEMMA ConditionalResumesStays ==
  ASSUME Executors, Phases, Shaped(flow, Walked), FramesFit, NEW n \in Under(flow), ConditionalResumes(n)
  PROVE  WalkStays
<1>1. /\ IsKind(n, "conditional") /\ IsHanded(n) /\ Resumed(n, At(frames[n].index)) /\ TakeUp(n)
      /\ UNCHANGED <<flow, status, output, accumulator, saved, snapshots, ran>>
  BY DEF ConditionalResumes, kept
<1>2. ~IsKind(n, "task") /\ ~IsKind(n, "parallel") /\ ~IsLoop(n) /\ ~OwnsAccumulator(n)
  BY <1>1 DEF IsKind, IsLoop, OwnsAccumulator
<1>3. At(frames[n].index) = RecordedAt(n) /\ At(frames[n].index).at = "busy"
  BY <1>2, ExecutorsDiffer DEF RecordedAt
<1>4. Walked' = Walked /\ Written' = Written /\ OnlyFrameOf(n)
  BY <1>1, <1>2, <1>3, ContinuedStays
<1>5. Accumulated' = Accumulated
  BY <1>1, <1>2, <1>4, FrameWithoutAccumulator
<1> QED BY <1>1, <1>4, <1>5 DEF WalkStays, Progress, Told

LEMMA LoopResumesStays ==
  ASSUME Executors, Phases, Shaped(flow, Walked), FramesFit, NEW n \in Under(flow), LoopResumes(n)
  PROVE  WalkStays
<1> DEFINE local == Looping(frames[n].index, frames[n].items, frames[n].accumulator)
<1>1. /\ IsLoop(n) /\ IsHanded(n) /\ Resumed(n, local) /\ TakeUp(n)
      /\ UNCHANGED <<flow, status, output, accumulator, saved, snapshots, ran>>
  BY DEF LoopResumes, kept
<1>2. ~IsKind(n, "task") /\ ~IsKind(n, "parallel") /\ ~OwnsAccumulator(n)
  BY <1>1 DEF IsKind, IsLoop, OwnsAccumulator
<1>3. local = RecordedAt(n) /\ local.at = "busy"
  BY <1>1, <1>2, ExecutorsDiffer DEF RecordedAt
<1>4. Walked' = Walked /\ Written' = Written /\ OnlyFrameOf(n)
  <2> HIDE DEF local
  <2> QED BY <1>1, <1>2, <1>3, ContinuedStays
<1>5. Accumulated' = Accumulated
  BY <1>1, <1>2, <1>4, FrameWithoutAccumulator
<1> QED BY <1>1, <1>4, <1>5 DEF WalkStays, Progress, Told

LEMMA ParallelResumesStays ==
  ASSUME Executors, Phases, FramesFit, NEW n \in Under(flow), ParallelResumes(n)
  PROVE  WalkStays
<1>1. /\ IsKind(n, "parallel") /\ act[n] = Called /\ HasFrame(n)
      /\ act' = [m \in DOMAIN act |->
                   IF m \in Children(n) /\ Stays(m) THEN Returned
                   ELSE Executed(act, n, Waiting, Children(n))[m]]
      /\ TakeUp(n)
      /\ output' = [l \in DOMAIN output |-> IF l \in Children(n) THEN frames[n].outputs[l] ELSE output[l]]
      /\ UNCHANGED <<flow, status, accumulator, saved, snapshots, ran>>
  BY DEF ParallelResumes, IsHanded, kept
<1>2. /\ ~IsKind(n, "task") /\ ~IsLoop(n) /\ ~OwnsAccumulator(n)
      /\ n \in Node /\ n \notin Children(n)
      /\ DOMAIN act = Under(flow) /\ DOMAIN output = Under(flow)
  BY <1>1, InFlow, ChildrenOf DEF IsKind, IsLoop, OwnsAccumulator, Executors, UpTo
<1>3. OnlyFrameOf(n) /\ ~HasFrame(n)'
  BY <1>1, TakeUpFacts
<1>4. act'[n] = RecordedAt(n) /\ act'[n] # Idle
  BY <1>1, <1>2, ExecutorsDiffer DEF RecordedAt, Executed
<1>5. \A m \in Under(flow) : m # n /\ m \notin Children(n) => act'[m] = act[m]
  BY <1>1, <1>2 DEF Executed
<1>6. \A c \in Children(n) : ~HasFrame(c) => act'[c] = Returned
  <2> TAKE c \in Children(n)
  <2>1. c \in Under(flow)
    BY InFlow DEF Executors
  <2> QED BY <1>1, <1>2, <2>1 DEF Stays
<1>7. Walked' = Walked
  BY <1>1, <1>4, <1>5, <1>6, ResumedWalked
<1>8. Accumulated' = Accumulated
  BY <1>1, <1>2, <1>3, FrameWithoutAccumulator
<1>9. Written' = Written
  <2>1. SUFFICES ASSUME NEW m \in Under(flow)
                 PROVE  WrittenAt(m)' = WrittenAt(m)
    BY <1>1 DEF Written
  <2>2. m \in Node
    BY InFlow DEF Executors
  <2>3. CASE m \in Children(n)
    <3>1. m # flow /\ IsBranch(m) /\ Parent(m) = n
      BY <1>1, <1>2, <2>3, ChildrenOf, TreeAssumption DEF IsBranch, Executors
    <3> QED BY <1>1, <1>2, <1>3, <2>3, <3>1 DEF WrittenAt
  <2>4. CASE m \notin Children(n)
    <3>1. output'[m] = output[m]
      BY <1>1, <1>2, <2>4
    <3>2. IsBranch(m) => Parent(m) # n
      BY <1>2, <2>2, <2>4, BranchesOf
    <3> QED BY <1>1, <1>3, <3>1, <3>2 DEF WrittenAt, OnlyFrameOf
  <2> QED BY <2>3, <2>4
<1> QED BY <1>1, <1>7, <1>8, <1>9 DEF WalkStays, Progress, Told

----------------------------------------------------------------------------
(* Passes begin and end *)

LEMMA RootReturned ==
  ASSUME Executors, Phases, act[flow] = Returned
  PROVE  status = "running" /\ \A m \in Under(flow) : m # flow => act[m] = Idle
<1>1. flow \in Under(flow) /\ act[flow] # Idle /\ act[flow].at # "busy"
  BY FlowIsRoot, ExecutorsDiffer DEF Executors
<1>2. \A m \in Under(flow) : m # flow => flow \in Above(m)
  BY InFlow DEF Executors, UpTo
<1> QED BY <1>1, <1>2 DEF Executors, Path, LeadsTo, Phases

LEMMA StartWalks ==
  ASSUME Executors, Phases, Start
  PROVE  Walk!Start
<1>1. /\ status = "idle" /\ status' = "running" /\ act' = [act EXCEPT ![flow] = Called]
      /\ UNCHANGED <<flow, frames, output, accumulator, snapshots, ran, saved>>
  BY DEF Start, kept
<1>2. \A m : ~HasFrame(m) /\ ~HasFrame(m)'
  BY <1>1 DEF Phases, HasFrame
<1>3. flow \in Under(flow) /\ DOMAIN act = Under(flow)
  BY FlowIsRoot DEF Executors
<1>4. Progress = "idle" /\ Progress' = "running"
  BY <1>1 DEF Progress
<1>5. Walked' = [Walked EXCEPT ![flow] = Called]
  <2>1. \A m \in Under(flow) : Walked[m] = act[m]
    BY <1>2, WalkedIs DEF WalkedAt
  <2>2. \A m \in Under(flow) : WalkedAt(m)' = act'[m]
    BY <1>2 DEF WalkedAt
  <2>3. Walked' = [m \in Under(flow) |-> WalkedAt(m)']
    BY <1>1 DEF Walked
  <2> QED BY <1>1, <1>3, <2>1, <2>2, <2>3, WalkedIs
<1>6. Written' = Written
  <2>1. \A m \in Under(flow) : WrittenAt(m)' = WrittenAt(m)
    BY <1>1, <1>2 DEF WrittenAt
  <2> QED BY <1>1, <2>1 DEF Written
<1>7. Accumulated' = Accumulated /\ Told' = Told
  BY <1>1, <1>2 DEF Accumulated, AccumulatedAt, Told
<1> QED BY <1>1, <1>4, <1>5, <1>6, <1>7, WalkTree DEF Walk!Start

LEMMA PassSuspendsStays ==
  ASSUME Executors, Phases, Cleared, LosesNothing, PassSuspends
  PROVE  WalkStays
<1>1. /\ act[flow] = Returned /\ HasFrame(flow) /\ status' = "suspended" /\ saved' = output[flow]
      /\ act' = [n \in Under(flow) |-> Idle]
      /\ output' = [n \in Under(flow) |-> <<>>]
      /\ accumulator' = [n \in Under(flow) |-> None]
      /\ UNCHANGED <<flow, frames, snapshots, ran>>
  BY DEF PassSuspends, Everywhere, LosesNothing, ReadsBack
<1>2. status = "running" /\ \A m \in Under(flow) : m # flow => act[m] = Idle
  BY <1>1, RootReturned
<1>3. \A m : HasFrame(m)' <=> HasFrame(m)
  BY <1>1 DEF HasFrame
<1>4. Walked' = Walked
  <2>1. SUFFICES ASSUME NEW m \in Under(flow)
                 PROVE  WalkedAt(m)' = WalkedAt(m)
    BY <1>1 DEF Walked
  <2>2. RecordedAt(m)' = RecordedAt(m)
    BY <1>1 DEF RecordedAt
  <2> QED BY <1>1, <1>2, <1>3, <2>2 DEF WalkedAt
<1>5. Written' = Written
  <2>1. SUFFICES ASSUME NEW m \in Under(flow)
                 PROVE  WrittenAt(m)' = WrittenAt(m)
    BY <1>1 DEF Written
  <2>2. m # flow => output[m] = <<>>
    <3>1. ASSUME m # flow, output[m] # <<>>
          PROVE  FALSE
      <4>1. IsBranch(m) /\ act[Parent(m)].at = "busy"
        BY <3>1 DEF Cleared
      <4>2. Parent(m) \in Under(flow)
        BY <4>1, InFlow, ParentOf DEF Executors, IsBranch, UpTo
      <4>3. act[Parent(m)] = Idle \/ act[Parent(m)] = Returned
        BY <1>1, <1>2, <4>2
      <4> QED BY <4>1, <4>3, ExecutorsDiffer
    <3> QED BY <3>1
  <2> QED BY <1>1, <1>2, <1>3, <2>2 DEF WrittenAt
<1>6. Accumulated' = Accumulated
  <2>1. SUFFICES ASSUME NEW m \in Under(flow)
                 PROVE  AccumulatedAt(m)' = AccumulatedAt(m)
    BY <1>1 DEF Accumulated
  <2>2. accumulator[m] = None
    BY <1>1, <1>2, ExecutorsDiffer DEF Cleared
  <2> QED BY <1>1, <1>3, <2>2 DEF AccumulatedAt
<1> QED BY <1>1, <1>2, <1>4, <1>5, <1>6 DEF WalkStays, Progress, Told

LEMMA NothingFramed ==
  ASSUME Executors, Phases, Shaped(flow, Walked), Path(flow, Walked), act[flow] = Returned, ~HasFrame(flow)
  PROVE  DOMAIN frames = {}
<1>1. flow \in Under(flow) /\ Walked[flow] = Returned
  BY FlowIsRoot, WalkedIs, ExecutorsDiffer DEF WalkedAt, IsBranch, Executors
<1>2. SUFFICES ASSUME NEW m \in DOMAIN frames
               PROVE  FALSE
  OBVIOUS
<1>3. m \in Under(flow) /\ m # flow /\ flow \in Above(m)
  BY InFlow DEF Executors, HasFrame, UpTo
<1>4. Walked[m] = RecordedAt(m) /\ RecordedAt(m).at = "busy"
  BY <1>3, WalkedIs, ExecutorsDiffer DEF WalkedAt, HasFrame, RecordedAt
<1> QED BY <1>1, <1>3, <1>4, ExecutorsDiffer DEF Path, LeadsTo

LEMMA PassFinishesWalks ==
  ASSUME Executors, Phases, Shaped(flow, Walked), Path(flow, Walked), PassFinishes
  PROVE  Walk!Finish /\ DOMAIN frames = {}
<1>1. /\ act[flow] = Returned /\ ~HasFrame(flow) /\ status' = "finished"
      /\ act' = [n \in Under(flow) |-> Idle]
      /\ UNCHANGED <<flow, frames, output, accumulator, snapshots, ran, saved>>
  BY DEF PassFinishes, Everywhere, kept
<1>2. status = "running" /\ DOMAIN frames = {}
  BY <1>1, RootReturned, NothingFramed
<1>3. \A m : ~HasFrame(m) /\ ~HasFrame(m)'
  BY <1>1, <1>2 DEF HasFrame
<1>4. Walked[flow] = Returned
  BY <1>1, <1>3, FlowIsRoot, WalkedIs DEF WalkedAt, Executors
<1>5. Walked' = [n \in Under(flow) |-> Idle]
  <2>1. \A m \in Under(flow) : WalkedAt(m)' = Idle
    BY <1>1, <1>3 DEF WalkedAt
  <2> QED BY <1>1, <2>1 DEF Walked
<1>6. Written' = Written
  <2>1. \A m \in Under(flow) : WrittenAt(m)' = WrittenAt(m)
    BY <1>1, <1>2, <1>3 DEF WrittenAt
  <2> QED BY <1>1, <2>1 DEF Written
<1>7. Accumulated' = Accumulated /\ Told' = Told /\ Progress' = "finished"
  BY <1>1, <1>3 DEF Accumulated, AccumulatedAt, Told, Progress
<1> QED BY <1>1, <1>2, <1>4, <1>5, <1>6, <1>7, WalkTree DEF Walk!Finish, Walk!Everywhere

LEMMA ResumeStays ==
  ASSUME Executors, Phases, LosesNothing, NEW wait, Resume(wait)
  PROVE  WalkStays
<1>1. /\ status = "suspended" /\ status' = "running" /\ act' = [act EXCEPT ![flow] = Called]
      /\ output' = [output EXCEPT ![flow] = saved]
      /\ UNCHANGED <<flow, frames, saved, accumulator, snapshots, ran>>
  BY DEF Resume, Reported, LosesNothing, ReadsBack
<1>2. HasFrame(flow) /\ flow \in Under(flow) /\ DOMAIN act = Under(flow) /\ DOMAIN output = Under(flow)
  BY <1>1, FlowIsRoot DEF Phases, Executors
<1>3. \A m : HasFrame(m)' <=> HasFrame(m)
  BY <1>1 DEF HasFrame
<1>4. Walked' = Walked
  <2>1. SUFFICES ASSUME NEW m \in Under(flow)
                 PROVE  WalkedAt(m)' = WalkedAt(m)
    BY <1>1 DEF Walked
  <2>2. RecordedAt(m)' = RecordedAt(m)
    BY <1>1 DEF RecordedAt
  <2> QED BY <1>1, <1>2, <1>3, <2>2 DEF WalkedAt
<1>5. Written' = Written
  <2>1. SUFFICES ASSUME NEW m \in Under(flow)
                 PROVE  WrittenAt(m)' = WrittenAt(m)
    BY <1>1 DEF Written
  <2> QED BY <1>1, <1>2, <1>3 DEF WrittenAt
<1> QED BY <1>1, <1>4, <1>5 DEF WalkStays, Progress, Told, Accumulated, AccumulatedAt, HasFrame

----------------------------------------------------------------------------
(* What each step does to executors *)

\* An executor takes a turn: it goes on from a call or from the children that returned to
\* it, and what is not its own or its children's stays.
Turns(n) ==
  /\ n \in Under(flow)
  /\ UNCHANGED <<flow, status>>
  /\ DOMAIN act' = Under(flow)
  /\ DOMAIN output' = Under(flow) /\ DOMAIN accumulator' = Under(flow)
  /\ act[n] # Idle /\ act'[n] # Idle
  /\ Shape(n, act'[n])
  /\ \A m \in Under(flow) : m # n /\ m \notin Children(n) => act'[m] = act[m]
  /\ \A c \in Children(n) :
       /\ act[c] \in {Idle, Returned}
       /\ act'[c] \in {Idle, Called, Returned}
       /\ act'[c] # Idle => LeadsTo(act', n, c)

LEMMA MovesTurn ==
  ASSUME Executors, NEW n \in Under(flow), NEW local, NEW called, Moves(n, local, called),
         UNCHANGED <<flow, status>>, DOMAIN output' = DOMAIN output, DOMAIN accumulator' = DOMAIN accumulator
  PROVE  Turns(n) /\ act'[n] = local
<1>1. n \in Node /\ n \notin Children(n) /\ Children(n) \subseteq Under(flow) /\ DOMAIN act = Under(flow)
      /\ DOMAIN output = Under(flow) /\ DOMAIN accumulator = Under(flow)
  BY InFlow, ChildrenOf DEF Executors, UpTo
<1>2. DOMAIN act' = Under(flow) /\ act'[n] = local
  BY <1>1 DEF Moves, Executed
<1>3. \A m \in Under(flow) : m # n /\ m \notin Children(n) => act'[m] = act[m]
  BY <1>1 DEF Moves, Executed
<1>4. \A c \in Children(n) : act'[c] = IF c \in called THEN Called ELSE Idle
  BY <1>1 DEF Moves, Executed
<1>5. \A c \in called : LeadsTo(act', n, c)
  BY <1>2 DEF LeadsTo, Moves, UpTo
<1> QED BY <1>1, <1>2, <1>3, <1>4, <1>5 DEF Turns, Moves

LEMMA ReturnsTurn ==
  ASSUME Executors, NEW n \in Under(flow), act[n] # Idle, \A c \in Children(n) : act[c] \in {Idle, Returned},
         Return(n), UNCHANGED <<flow, status>>, DOMAIN output' = DOMAIN output, DOMAIN accumulator' = DOMAIN accumulator
  PROVE  Turns(n) /\ act'[n] = Returned
<1>1. Moves(n, Returned, {})
  BY ExecutorsDiffer DEF Moves, Return, Execute, Shape
<1> QED BY <1>1, MovesTurn

\* Steps that no wait concerns.
LEMMA StepDomains ==
  ASSUME NEW n, Step(n)
  PROVE  UNCHANGED <<flow, status>> /\ DOMAIN output' = DOMAIN output /\ DOMAIN accumulator' = DOMAIN accumulator
<1>1. SequenceBegins(n) \/ SequenceContinues(n) =>
        UNCHANGED <<flow, status>> /\ DOMAIN output' = DOMAIN output /\ DOMAIN accumulator' = DOMAIN accumulator
  BY DEF SequenceBegins, SequenceContinues, StepsFrom
<1>2. TaskBegins(n) \/ TaskCompletes(n) =>
        UNCHANGED <<flow, status>> /\ DOMAIN output' = DOMAIN output /\ DOMAIN accumulator' = DOMAIN accumulator
  BY DEF TaskBegins, TaskCompletes, Write
<1>3. ConditionalBegins(n) \/ ConditionalSkips(n) \/ ConditionalReturns(n) =>
        UNCHANGED <<flow, status>> /\ DOMAIN output' = DOMAIN output /\ DOMAIN accumulator' = DOMAIN accumulator
  BY DEF ConditionalBegins, ConditionalSkips, ConditionalReturns
<1>4. \A acc : LoopEnds(n, acc) => DOMAIN output' = DOMAIN output /\ DOMAIN accumulator' = DOMAIN accumulator
  BY DEF LoopEnds, Write
<1>5. \A i, items, acc : IterationsFrom(n, i, items, acc) =>
        DOMAIN output' = DOMAIN output /\ DOMAIN accumulator' = DOMAIN accumulator
  BY <1>4 DEF IterationsFrom
<1>6. LoopBegins(n) \/ LoopContinues(n) =>
        UNCHANGED <<flow, status>> /\ DOMAIN output' = DOMAIN output /\ DOMAIN accumulator' = DOMAIN accumulator
  BY <1>4, <1>5 DEF LoopBegins, LoopContinues
<1>7. ParallelBegins(n) \/ ParallelReturns(n) =>
        UNCHANGED <<flow, status>> /\ DOMAIN output' = DOMAIN output /\ DOMAIN accumulator' = DOMAIN accumulator
  BY DEF ParallelBegins, ParallelReturns
<1> QED BY <1>1, <1>2, <1>3, <1>6, <1>7 DEF Step

LEMMA StepRunsTurn ==
  ASSUME Executors, NEW n \in Under(flow), StepRuns(n)
  PROVE  Turns(n) /\ UNCHANGED frames /\ \E local, called : Moves(n, local, called)
<1>1. Step(n) /\ UNCHANGED frames
  BY DEF StepRuns
<1>2. PICK local, called : Moves(n, local, called)
  BY <1>1, StepMoves DEF Executors
<1> QED BY <1>1, <1>2, StepDomains, MovesTurn

\* Steps that end in a wait.
LEMMA StepSuspendsTurn ==
  ASSUME Executors, NEW n \in Under(flow), StepSuspends(n)
  PROVE  Turns(n) /\ act[n].at = "busy" /\ act'[n] = Returned /\ OnlyFrameOf(n) /\ HasFrame(n)'
         /\ DOMAIN frames' = DOMAIN frames \cup {n}
<1>1. \E frame : Keep(n, frame)
  BY DEF StepSuspends, TaskAsks, SequenceSuspends, ConditionalSuspends, LoopSuspends, ParallelSuspends
<1>2. OnlyFrameOf(n) /\ HasFrame(n)' /\ DOMAIN frames' = DOMAIN frames \cup {n}
  BY <1>1, KeepFacts
<1>3. Return(n) /\ UNCHANGED <<flow, status>> /\ DOMAIN output' = DOMAIN output /\ DOMAIN accumulator' = DOMAIN accumulator
  BY DEF StepSuspends, TaskAsks, SequenceSuspends, ConditionalSuspends, LoopSuspends, ParallelSuspends
<1>4. act[n].at = "busy"
  BY DEF StepSuspends, TaskAsks, SequenceSuspends, ConditionalSuspends, LoopSuspends, ParallelSuspends,
         IsBusy, IsInterrupted, HasReturned, AllReturned
<1>5. \A c \in Children(n) : act[c] \in {Idle, Returned}
  <2>1. n \in Node
    BY InFlow DEF Executors
  <2>2. CASE TaskAsks(n)
    BY <2>1, <2>2, TaskHasNoChildren DEF TaskAsks
  <2>3. CASE SequenceSuspends(n) \/ ConditionalSuspends(n) \/ LoopSuspends(n)
    <3>1. HasReturned(n) /\ ~IsKind(n, "task") /\ ~IsKind(n, "parallel")
      BY <2>3 DEF SequenceSuspends, ConditionalSuspends, LoopSuspends, IsInterrupted, IsKind, IsLoop
    <3> QED BY <3>1, ReturnedIsAbove DEF Executors
  <2>4. CASE ParallelSuspends(n)
    BY <2>4 DEF ParallelSuspends, AllReturned
  <2> QED BY <2>2, <2>3, <2>4 DEF StepSuspends
<1>6. act[n] # Idle
  BY <1>4, ExecutorsDiffer
<1> QED BY <1>2, <1>3, <1>4, <1>5, <1>6, ReturnsTurn

\* Steps that go on from a frame.
LEMMA StepResumesTurn ==
  ASSUME Executors, Shaped(flow, Walked), FramesFit, NEW n \in Under(flow), StepResumes(n)
  PROVE  /\ Turns(n) /\ act[n] = Called /\ HasFrame(n) /\ OnlyFrameOf(n)
         /\ DOMAIN frames' \subseteq DOMAIN frames
         /\ HasFrame(n)' => UNCHANGED frames /\ act'[n] = Returned /\ frames[n].wait \notin resolutions /\ IsKind(n, "task")
         /\ ~HasFrame(n)' => act'[n].at = "busy"
<1>1. act[n] = Called /\ HasFrame(n) /\ UNCHANGED <<flow, status>>
      /\ DOMAIN output' = DOMAIN output /\ DOMAIN accumulator' = DOMAIN accumulator
  BY DEF StepResumes, TaskResumes, SequenceResumes, ConditionalResumes, LoopResumes, ParallelResumes, IsHanded, Entered
<1>2. n \in Node /\ act[n] # Idle /\ \A c \in Children(n) : act[c] = Idle
  BY <1>1, InFlow, CalledIsAbove DEF Executors
<1>3. UNCHANGED frames \/ TakeUp(n)
  BY DEF StepResumes, TaskResumes, SequenceResumes, ConditionalResumes, LoopResumes, ParallelResumes
<1>4. OnlyFrameOf(n) /\ DOMAIN frames' \subseteq DOMAIN frames
  BY <1>3, TakeUpFacts DEF OnlyFrameOf, HasFrame
<1>5. CASE TaskResumes(n)
  <2>1. CASE frames[n].wait \in resolutions
    <3>1. Moves(n, Running(frames[n].inputs), {}) /\ TakeUp(n)
      BY <1>2, <1>5, <2>1, ExecutorsDiffer DEF TaskResumes, Moves, Execute, Shape
    <3>2. Turns(n) /\ act'[n] = Running(frames[n].inputs)
      BY <1>1, <3>1, MovesTurn
    <3>3. ~HasFrame(n)' /\ DOMAIN frames' \subseteq DOMAIN frames
      BY <1>4, <3>1, TakeUpFacts
    <3>4. act'[n].at = "busy"
      BY <3>2, ExecutorsDiffer
    <3> QED BY <1>1, <1>4, <3>2, <3>3, <3>4
  <2>2. CASE frames[n].wait \notin resolutions
    <3>1. Return(n) /\ UNCHANGED frames /\ HasFrame(n)' /\ IsKind(n, "task")
      BY <1>1, <1>5, <2>2 DEF TaskResumes, HasFrame
    <3> QED BY <1>1, <1>2, <1>4, <2>2, <3>1, ReturnsTurn
  <2> QED BY <2>1, <2>2
<1>6. CASE SequenceResumes(n) \/ ConditionalResumes(n) \/ LoopResumes(n)
  <2>1. TakeUp(n) /\ ~IsKind(n, "task") /\ ~IsKind(n, "parallel")
    BY <1>6 DEF SequenceResumes, ConditionalResumes, LoopResumes, IsKind, IsLoop
  <2>2. act' = Executed(act, n, RecordedAt(n), {ChildAt(n, frames[n].index)})
    <3>1. SequenceResumes(n) \/ ConditionalResumes(n) => ~IsLoop(n)
      BY DEF SequenceResumes, ConditionalResumes, IsKind, IsLoop
    <3> QED BY <1>6, <2>1, <3>1 DEF SequenceResumes, ConditionalResumes, LoopResumes, Resumed, Execute, RecordedAt
  <2>3. Shape(n, RecordedAt(n)) /\ RecordedAt(n).at = "busy" /\ RecordedAt(n).index = frames[n].index
    BY <1>1, <2>1, WalkedIs, ExecutorsDiffer DEF WalkedAt, Shaped, RecordedAt
  <2>4. ChildAt(n, frames[n].index) \in Children(n)
    BY <1>2, <2>1, <2>3, ChildAtIsChild
  <2>5. Moves(n, RecordedAt(n), {ChildAt(n, frames[n].index)})
    BY <1>2, <2>2, <2>3, <2>4, ExecutorsDiffer DEF Moves
  <2>6. Turns(n) /\ act'[n] = RecordedAt(n)
    BY <1>1, <2>5, MovesTurn
  <2> QED BY <1>1, <1>4, <2>1, <2>3, <2>6, TakeUpFacts
<1>7. CASE ParallelResumes(n)
  <2>1. /\ IsKind(n, "parallel") /\ TakeUp(n)
        /\ act' = [m \in DOMAIN act |->
                     IF m \in Children(n) /\ Stays(m) THEN Returned
                     ELSE Executed(act, n, Waiting, Children(n))[m]]
    BY <1>7 DEF ParallelResumes
  <2>2. DOMAIN act = Under(flow) /\ DOMAIN output = Under(flow) /\ DOMAIN accumulator = Under(flow)
        /\ Children(n) \subseteq Under(flow) /\ n \notin Children(n)
    BY <1>2, InFlow, ChildrenOf DEF Executors, UpTo
  <2>3. DOMAIN act' = Under(flow) /\ act'[n] = Waiting
        /\ \A m \in Under(flow) : m # n /\ m \notin Children(n) => act'[m] = act[m]
    BY <2>1, <2>2 DEF Executed
  <2>4. \A c \in Children(n) : act'[c] \in {Called, Returned}
    BY <2>1, <2>2 DEF Executed
  <2>5. Shape(n, Waiting) /\ Waiting # Idle /\ Waiting.at = "busy"
    BY <2>1, ExecutorsDiffer DEF Shape
  <2>6. Turns(n)
    BY <1>1, <1>2, <2>1, <2>2, <2>3, <2>4, <2>5 DEF Turns, LeadsTo
  <2> QED BY <1>1, <1>4, <2>1, <2>3, <2>5, <2>6, TakeUpFacts
<1> QED BY <1>5, <1>6, <1>7 DEF StepResumes

LEMMA ExecutorsTurn ==
  ASSUME Executors, NEW n, Turns(n),
         DOMAIN frames' \subseteq DOMAIN frames \cup {n}, HasFrame(n)' => act'[n].at # "busy"
  PROVE  Executors'
<1>1. n \in Under(flow) /\ n \in Node /\ n \notin Children(n) /\ flow' = flow
  BY InFlow, ChildrenOf DEF Turns, Executors, UpTo
<1>2. Shaped(flow, act')
  <2>1. SUFFICES ASSUME NEW m \in Under(flow)
                 PROVE  Shape(m, act'[m])
    BY DEF Shaped
  <2>2. CASE m = n
    BY <2>2 DEF Turns
  <2>3. CASE m \in Children(n)
    BY <2>3 DEF Turns, Shape
  <2>4. CASE m # n /\ m \notin Children(n)
    BY <2>4 DEF Turns, Executors, Shaped
  <2> QED BY <2>2, <2>3, <2>4
<1>3. Path(flow, act')
  <2>1. \A c \in Children(n) : act[c].at # "busy"
    BY ExecutorsDiffer DEF Turns
  <2> QED BY <1>1, <2>1, PathKept DEF Turns, Executors
<1>4. \A m \in DOMAIN frames' : m \in Under(flow) /\ act'[m].at # "busy"
  <2> TAKE m \in DOMAIN frames'
  <2>1. CASE m = n
    BY <1>1, <2>1 DEF HasFrame
  <2>2. CASE m # n
    <3>1. m \in DOMAIN frames /\ m \in Under(flow) /\ act[m].at # "busy"
      BY <2>2 DEF Executors
    <3> QED BY <2>2, <3>1, ExecutorsDiffer DEF Turns
  <2> QED BY <2>1, <2>2
<1>5. Shaped(flow, act)' /\ Path(flow, act)'
  BY <1>1, <1>2, <1>3 DEF Shaped, Path
<1> QED BY <1>1, <1>4, <1>5 DEF Executors, Turns

----------------------------------------------------------------------------
(* Accumulators and outputs are kept no longer than what they are of is at work *)

Settles(n) ==
  /\ \A m \in Under(flow) :
       \/ accumulator'[m] \in {accumulator[m], None}
       \/ OwnsAccumulator(m) /\ (act'[m] = Called \/ act'[m].at = "busy")
  /\ IsKind(n, "sequence") => act'[n].at = "busy" \/ accumulator'[n] = None
  /\ \A m \in Under(flow) :
       \/ output'[m] \in {output[m], <<>>}
       \/ m = Layer(n)
       \/ IsKind(n, "parallel") /\ m \in Children(n) /\ act'[n].at = "busy"
  /\ IsKind(n, "parallel") => act'[n].at = "busy" \/ \A m \in Children(n) : output'[m] = <<>>

LEMMA ClearedTurn ==
  ASSUME Executors, Cleared, NEW n, Turns(n), Settles(n)
  PROVE  Cleared'
<1>1. n \in Under(flow) /\ n \in Node /\ flow' = flow /\ flow \in Flows
  BY InFlow DEF Turns, Executors
<1>2. ASSUME NEW m \in Under(flow), accumulator'[m] # None
      PROVE  OwnsAccumulator(m) /\ (act'[m] = Called \/ act'[m].at = "busy")
  <2>1. CASE accumulator'[m] = accumulator[m]
    <3>1. OwnsAccumulator(m) /\ (act[m] = Called \/ act[m].at = "busy")
      BY <1>2, <2>1 DEF Cleared
    <3>2. CASE m = n
      BY <1>2, <3>1, <3>2 DEF Settles, OwnsAccumulator
    <3>3. CASE m \in Children(n)
      BY <3>1, <3>3, ExecutorsDiffer DEF Turns
    <3>4. CASE m # n /\ m \notin Children(n)
      BY <3>1, <3>4 DEF Turns
    <3> QED BY <3>2, <3>3, <3>4
  <2> QED BY <1>2, <2>1 DEF Settles
<1>3. ASSUME NEW m \in Under(flow), m # flow, output'[m] # <<>>
      PROVE  IsBranch(m) /\ act'[Parent(m)].at = "busy"
  <2>1. m \in Node
    BY <1>1, InFlow
  <2>2. CASE IsKind(n, "parallel") /\ m \in Children(n) /\ act'[n].at = "busy"
    <3>1. Parent(m) = n
      BY <1>1, <2>2, ChildrenOf
    <3> QED BY <1>1, <2>2, <3>1, TreeAssumption DEF IsBranch
  <2>3. CASE output'[m] = output[m]
    <3>1. IsBranch(m) /\ act[Parent(m)].at = "busy"
      BY <1>3, <2>3 DEF Cleared
    <3>2. Parent(m) \in Under(flow) /\ m \in Children(Parent(m))
      BY <1>1, <2>1, <3>1, InFlow, ParentOf DEF IsBranch, UpTo
    <3>3. Parent(m) = n => act'[n].at = "busy"
      BY <1>3, <3>1, <3>2 DEF IsBranch, Settles
    <3>4. Parent(m) \notin Children(n)
      BY <3>1, ExecutorsDiffer DEF Turns
    <3> QED BY <3>1, <3>2, <3>3, <3>4 DEF Turns
  <2>4. CASE m = Layer(n)
    <3>1. m \in UpTo(n) /\ OwnsOutput(m)
      BY <1>1, <2>4, ScopeFacts
    <3>2. Parent(m) # None /\ IsBranch(m)
      BY <1>1, <1>3, <3>1, OneRoot DEF OwnsOutput
    <3>3. Parent(m) \in Above(n)
      BY <1>1, <2>1, <3>1, <3>2, ParentOf, AboveIsTransitive DEF UpTo
    <3>4. act[Parent(m)].at = "busy" /\ Parent(m) \in Under(flow) /\ Parent(m) # n
      BY <1>1, <3>3, InFlow, AboveIsTransitive DEF Turns, Executors, Path, LeadsTo, UpTo
    <3>5. Parent(m) \notin Children(n)
      BY <3>4, ExecutorsDiffer DEF Turns
    <3> QED BY <3>2, <3>4, <3>5 DEF Turns
  <2> QED BY <1>3, <2>2, <2>3, <2>4 DEF Settles
<1> QED BY <1>1, <1>2, <1>3 DEF Cleared

\* A value written in an accumulator of the executors at work or called.
LEMMA AccumulatorAt ==
  ASSUME Executors, NEW x, NEW value, accumulator' = [accumulator EXCEPT ![x] = value],
         (OwnsAccumulator(x) /\ (act'[x] = Called \/ act'[x].at = "busy")) \/ value = None,
         NEW m \in Under(flow)
  PROVE  \/ accumulator'[m] \in {accumulator[m], None}
         \/ OwnsAccumulator(m) /\ (act'[m] = Called \/ act'[m].at = "busy")
BY DEF Executors

\* The scope of a step that is not a sequence is above it, and so at work.
LEMMA ScopeAtWork ==
  ASSUME Executors, NEW n, Turns(n), ~IsKind(n, "sequence") \/ act'[n].at = "busy"
  PROVE  OwnsAccumulator(Scope(n)) /\ act'[Scope(n)].at = "busy" /\ Scope(n) \in Under(flow)
<1>1. n \in Under(flow) /\ n \in Node /\ flow \in Flows
  BY InFlow DEF Turns, Executors
<1>2. Scope(n) \in UpTo(n) /\ OwnsAccumulator(Scope(n)) /\ Scope(n) \in Under(flow)
  BY <1>1, ScopeFacts, InFlow
<1>3. CASE Scope(n) = n
  BY <1>2, <1>3 DEF OwnsAccumulator
<1>4. CASE Scope(n) \in Above(n)
  <2>1. act[Scope(n)].at = "busy" /\ Scope(n) # n
    BY <1>1, <1>4, AboveIsTransitive DEF Turns, Executors, Path, LeadsTo
  <2>2. Scope(n) \notin Children(n)
    BY <2>1, ExecutorsDiffer DEF Turns
  <2> QED BY <1>2, <2>1, <2>2 DEF Turns
<1> QED BY <1>2, <1>3, <1>4 DEF UpTo

LEMMA LoopEndsSettles ==
  ASSUME Executors, NEW n, Turns(n), IsLoop(n), NEW acc, LoopEnds(n, acc)
  PROVE  Settles(n)
<1>1. ~IsKind(n, "sequence") /\ ~IsKind(n, "parallel")
  BY DEF IsKind, IsLoop
<1>2. OwnsAccumulator(Scope(n)) /\ act'[Scope(n)].at = "busy"
  BY <1>1, ScopeAtWork
<1>3. accumulator' = accumulator \/ accumulator' = [accumulator EXCEPT ![Scope(n)] = acc]
  BY DEF LoopEnds
<1>4. \A m \in Under(flow) :
        \/ accumulator'[m] \in {accumulator[m], None}
        \/ OwnsAccumulator(m) /\ (act'[m] = Called \/ act'[m].at = "busy")
  BY <1>2, <1>3, AccumulatorAt
<1>5. \A m \in Under(flow) : output'[m] = output[m] \/ m = Layer(n)
  BY DEF LoopEnds, Write, Executors
<1> QED BY <1>1, <1>4, <1>5 DEF Settles

LEMMA IterationsFromSettles ==
  ASSUME Executors, NEW n, Turns(n), IsLoop(n), NEW index, NEW items, NEW acc, IterationsFrom(n, index, items, acc)
  PROVE  Settles(n)
<1>1. ~IsKind(n, "sequence") /\ ~IsKind(n, "parallel")
  BY DEF IsKind, IsLoop
<1>2. CASE HasIteration(n, index, items, acc)
  <2>1. accumulator' = [accumulator EXCEPT ![ChildAt(n, index)] = acc] /\ output' = output
        /\ act' = Executed(act, n, Looping(index, items, acc), Children(n))
    BY <1>2 DEF IterationsFrom, Execute
  <2>2. n \in Node /\ n \in Under(flow) /\ flow \in Flows
    BY InFlow DEF Turns, Executors
  <2>3. ChildAt(n, index) \in Children(n)
    BY <2>2, TreeAssumption DEF IsFormed, ChildAt, Children
  <2>4. OwnsAccumulator(ChildAt(n, index))
    <3>1. IsKind(ChildAt(n, index), "sequence") /\ Parent(ChildAt(n, index)) = n
      BY <2>2, <2>3, TreeAssumption DEF IsFormed
    <3> QED BY <3>1 DEF OwnsAccumulator
  <2>5. act'[ChildAt(n, index)] = Called
    BY <2>1, <2>2, <2>3, InFlow, ChildrenOf DEF Executed, Executors, UpTo
  <2> QED BY <1>1, <2>1, <2>4, <2>5, AccumulatorAt DEF Settles
<1>3. CASE ~HasIteration(n, index, items, acc)
  BY <1>3, LoopEndsSettles DEF IterationsFrom
<1> QED BY <1>2, <1>3

LEMMA StepSettles ==
  ASSUME Executors, NEW n \in Under(flow), Turns(n), Step(n)
  PROVE  Settles(n)
<1>1. n \in Node /\ n \notin Children(n) /\ Children(n) \subseteq Under(flow) /\ DOMAIN act = Under(flow)
      /\ DOMAIN output = Under(flow) /\ DOMAIN accumulator = Under(flow)
  BY InFlow, ChildrenOf DEF Executors, UpTo
<1>2. CASE SequenceBegins(n) \/ SequenceContinues(n)
  <2>1. PICK index : StepsFrom(n, index)
    BY <1>2 DEF SequenceBegins, SequenceContinues
  <2>2. IsKind(n, "sequence") /\ ~IsKind(n, "parallel") /\ output' = output
    BY <1>2, <2>1 DEF SequenceBegins, SequenceContinues, IsKind, StepsFrom
  <2>3. CASE index \in Positions(n)
    BY <1>1, <2>1, <2>2, <2>3, ExecutorsDiffer DEF StepsFrom, Execute, Executed, Settles
  <2>4. CASE index \notin Positions(n)
    BY <1>1, <2>1, <2>2, <2>4 DEF StepsFrom, Settles
  <2> QED BY <2>3, <2>4
<1>3. CASE TaskBegins(n) \/ TaskCompletes(n)
  <2>1. IsKind(n, "task") /\ accumulator' = accumulator
    BY <1>3 DEF TaskBegins, TaskCompletes
  <2>2. \A m \in Under(flow) : output'[m] = output[m] \/ m = Layer(n)
    BY <1>1, <1>3 DEF TaskBegins, TaskCompletes, Write
  <2> QED BY <2>1, <2>2 DEF Settles, IsKind
<1>4. CASE ConditionalBegins(n)
  <2>1. PICK branch \in Positions(n) :
          /\ Execute(n, At(branch), {ChildAt(n, branch)})
          /\ accumulator' = [accumulator EXCEPT ![ChildAt(n, branch)] =
                               IF OwnsAccumulator(ChildAt(n, branch)) THEN accumulator[Scope(n)] ELSE None]
    BY <1>4 DEF ConditionalBegins
  <2>2. IsKind(n, "conditional") /\ output' = output
    BY <1>4 DEF ConditionalBegins
  <2>3. ChildAt(n, branch) \in Children(n)
    BY <2>2 DEF ChildAt, Children, IsKind, IsLoop
  <2>4. act'[ChildAt(n, branch)] = Called
    BY <1>1, <2>1, <2>3 DEF Execute, Executed
  <2>5. \A m \in Under(flow) :
          \/ accumulator'[m] \in {accumulator[m], None}
          \/ OwnsAccumulator(m) /\ (act'[m] = Called \/ act'[m].at = "busy")
    BY <2>1, <2>4, AccumulatorAt
  <2> QED BY <2>2, <2>5 DEF Settles, IsKind
<1>5. CASE ConditionalSkips(n) \/ ConditionalReturns(n)
  BY <1>5 DEF ConditionalSkips, ConditionalReturns, IsKind, Settles
<1>6. CASE LoopBegins(n) \/ LoopContinues(n)
  BY <1>6, LoopEndsSettles, IterationsFromSettles DEF LoopBegins, LoopContinues
<1>7. CASE ParallelBegins(n)
  BY <1>1, <1>7, ExecutorsDiffer DEF ParallelBegins, Execute, Executed, IsKind, Settles
<1>8. CASE ParallelReturns(n)
  <2>1. IsKind(n, "parallel") /\ accumulator' = accumulator
        /\ \A m \in Under(flow) : output'[m] \in {output[m], <<>>} \/ m = Layer(n)
    BY <1>1, <1>8 DEF ParallelReturns
  <2>2. Layer(n) \notin Children(n)
    BY <1>1, ScopeFacts, ChildrenOf
  <2>3. \A m \in Children(n) : output'[m] = <<>>
    BY <1>1, <1>8, <2>2 DEF ParallelReturns
  <2> QED BY <2>1, <2>3 DEF Settles, IsKind
<1> QED BY <1>2, <1>3, <1>4, <1>5, <1>6, <1>7, <1>8 DEF Step

LEMMA StepSuspendsSettles ==
  ASSUME Executors, NEW n \in Under(flow), Turns(n), StepSuspends(n)
  PROVE  Settles(n)
<1>1. Children(n) \subseteq Under(flow) /\ DOMAIN output = Under(flow) /\ DOMAIN accumulator = Under(flow)
  BY InFlow DEF Executors
<1>2. CASE TaskAsks(n)
  BY <1>2 DEF TaskAsks, IsKind, Settles
<1>3. CASE SequenceSuspends(n)
  BY <1>1, <1>3 DEF SequenceSuspends, IsKind, Settles
<1>4. CASE ConditionalSuspends(n)
  BY <1>4 DEF ConditionalSuspends, IsKind, Settles
<1>5. CASE LoopSuspends(n)
  BY <1>5 DEF LoopSuspends, IsKind, IsLoop, Settles
<1>6. CASE ParallelSuspends(n)
  BY <1>1, <1>6 DEF ParallelSuspends, IsKind, Settles
<1> QED BY <1>2, <1>3, <1>4, <1>5, <1>6 DEF StepSuspends

LEMMA StepResumesSettles ==
  ASSUME Executors, NEW n \in Under(flow), Turns(n), ~HasFrame(n)' => act'[n].at = "busy", StepResumes(n)
  PROVE  Settles(n)
<1>1. Children(n) \subseteq Under(flow) /\ DOMAIN output = Under(flow) /\ DOMAIN accumulator = Under(flow)
  BY InFlow DEF Executors
<1>2. CASE TaskResumes(n)
  BY <1>2 DEF TaskResumes, IsKind, Settles
<1>3. ASSUME TakeUp(n)
      PROVE  act'[n].at = "busy"
  BY <1>3, TakeUpFacts
<1>4. CASE SequenceResumes(n)
  <2>1. IsKind(n, "sequence") /\ act'[n].at = "busy" /\ output' = output
        /\ accumulator' = [accumulator EXCEPT ![Scope(n)] = frames[n].accumulator]
    BY <1>3, <1>4 DEF SequenceResumes, Entered
  <2>2. \A m \in Under(flow) :
          \/ accumulator'[m] \in {accumulator[m], None}
          \/ OwnsAccumulator(m) /\ (act'[m] = Called \/ act'[m].at = "busy")
    BY <2>1, ScopeAtWork, AccumulatorAt
  <2> QED BY <2>1, <2>2 DEF IsKind, Settles
<1>5. CASE ConditionalResumes(n)
  BY <1>5 DEF ConditionalResumes, IsKind, Settles
<1>6. CASE LoopResumes(n)
  BY <1>6 DEF LoopResumes, IsKind, IsLoop, Settles
<1>7. CASE ParallelResumes(n)
  <2>1. IsKind(n, "parallel") /\ act'[n].at = "busy" /\ accumulator' = accumulator
    BY <1>3, <1>7 DEF ParallelResumes
  <2>2. \A m \in Under(flow) : output'[m] = output[m] \/ m \in Children(n)
    BY <1>1, <1>7 DEF ParallelResumes
  <2> QED BY <2>1, <2>2 DEF IsKind, Settles
<1> QED BY <1>2, <1>4, <1>5, <1>6, <1>7 DEF StepResumes

----------------------------------------------------------------------------
(* What frames hold stays as long as they do *)

LEMMA FrameIsAtWork ==
  ASSUME Executors, NEW m \in DOMAIN frames
  PROVE  m \in Under(flow) /\ m \in Node /\ Walked[m] = RecordedAt(m) /\ Walked[m].at = "busy"
<1>1. m \in Under(flow) /\ m \in Node
  BY InFlow DEF Executors
<1>2. Walked[m] = RecordedAt(m)
  BY <1>1, WalkedIs DEF WalkedAt, HasFrame
<1> QED BY <1>1, <1>2, ExecutorsDiffer DEF RecordedAt

\* An executor that was handed no frame, and whose children returned none, is in another
\* branch than the frames.
LEMMA FramedApart ==
  ASSUME Executors, Phases, Shaped(flow, Walked), Path(flow, Walked),
         NEW n \in Under(flow), act[n] # Idle, Unframed(n), \A c \in Children(n) : act[c] \in {Idle, Returned},
         NEW m \in DOMAIN frames
  PROVE  n \notin UpTo(m) /\ m \notin UpTo(n)
<1>1. n \in Node /\ flow \in Flows /\ ~HasFrame(n) /\ \A c \in Children(n) : ~HasFrame(c)
  BY InFlow DEF Executors, Unframed
<1>2. m \in Under(flow) /\ m \in Node /\ Walked[m].at = "busy" /\ Walked[m] # Idle
  BY FrameIsAtWork, ExecutorsDiffer
<1>3. m \notin UpTo(n)
  BY <1>1, AtCalled DEF HasFrame
<1>4. n # m
  BY <1>1 DEF HasFrame
<1>5. ASSUME n \in Above(m)
      PROVE  FALSE
  <2>1. PICK c \in Children(n) : Walked[c] # Idle /\ (c = m \/ Walked[c].at = "busy")
    BY <1>1, <1>2, <1>5, PathChild
  <2>2. c \in Node /\ c \in Under(flow) /\ Parent(c) = n /\ ~HasFrame(c) /\ c # m
    BY <1>1, <2>1, InFlow, ChildrenOf DEF HasFrame
  <2>3. Walked[c] = act[c]
    BY <1>1, <2>2, WalkedIs DEF WalkedAt
  <2> QED BY <2>1, <2>2, <2>3, ExecutorsDiffer
<1> QED BY <1>3, <1>4, <1>5 DEF UpTo

\* The accumulator of a sequence that suspended is not the one a step in another branch has.
LEMMA ScopesApart ==
  ASSUME Executors, Shaped(flow, Walked), Path(flow, Walked),
         NEW n \in Under(flow), Walked[n] # Idle, Parent(n) # None, IsKind(Parent(n), "sequence"),
         NEW m \in DOMAIN frames, n \notin UpTo(m), m \notin UpTo(n)
  PROVE  Scope(n) \notin UpTo(m)
<1>1. n \in Node /\ Parent(n) \in Node /\ n \in Children(Parent(n)) /\ Above(n) = UpTo(Parent(n))
  BY InFlow, ParentOf DEF Executors
<1>2. m \in Under(flow) /\ m \in Node /\ Walked[m] # Idle
  BY FrameIsAtWork, ExecutorsDiffer
<1>3. n \notin Flows
  BY <1>1, ChildrenOf
<1> DEFINE p == Parent(n)
<1>4. Scope(n) = IF OwnsAccumulator(n) THEN n ELSE Scope(p)
  BY <1>1, TreeAssumption DEF IsScoped
<1>5. ~OwnsAccumulator(n)
  BY <1>1, TreeAssumption DEF IsFormed, OwnsAccumulator, IsKind, IsLoop
<1>6. Scope(n) = Scope(p) /\ Scope(p) \in UpTo(p) /\ Scope(p) \in Above(n)
  BY <1>1, <1>4, <1>5, ScopeFacts
<1> SUFFICES ASSUME Scope(p) \in UpTo(m)
             PROVE  FALSE
  BY <1>6
<1>7. m \in Under(Scope(p))
  BY <1>2, BelowIsUnder
<1>8. PICK b \in Above(n) \cap Above(m) : Children(b) \cap UpTo(n) \cap UpTo(m) = {}
  BY <1>1, <1>6, <1>7, TreeAssumption DEF IsParted
<1>9. b \in Node /\ b \in Under(flow)
  BY <1>1, AboveIsTransitive, InFlow DEF UpTo, Executors
<1>10. IsKind(b, "parallel")
  <2>1. SUFFICES ASSUME ~IsKind(b, "parallel")
                 PROVE  FALSE
    OBVIOUS
  <2>2. \E c \in Children(b) : c \in UpTo(n) /\ c = ChildAt(b, Walked[b].index)
    BY <1>8, <2>1, PathChild DEF Executors
  <2>3. \E c \in Children(b) : c \in UpTo(m) /\ c = ChildAt(b, Walked[b].index)
    BY <1>2, <1>8, <2>1, PathChild DEF Executors
  <2> QED BY <1>8, <2>2, <2>3
<1>11. b # p
  BY <1>10 DEF IsKind
<1>12. b \in Above(p)
  BY <1>1, <1>8, <1>11 DEF UpTo
<1>13. b \in Above(Scope(p))
  BY <1>1, <1>10, <1>12, TreeAssumption DEF IsScoped
<1>14. Scope(p) \in Node
  BY <1>1, <1>6, AboveIsTransitive
<1>15. PICK c \in Children(b) : c \in UpTo(Scope(p))
  BY <1>13, <1>14, ChildTowards
<1>16. UpTo(Scope(p)) \subseteq UpTo(n) /\ UpTo(Scope(p)) \subseteq UpTo(m)
  BY <1>1, <1>2, <1>6, AboveIsTransitive DEF UpTo
<1> QED BY <1>8, <1>15, <1>16

\* The walk that frames stand for, and how far it has come.
WalkInv ==
  /\ Shaped(flow, Walked)
  /\ Path(flow, Walked)
  /\ DoneTyped(flow, ran)
  /\ Fresh(flow, Walked, ran)

LEMMA StepAccumulators ==
  ASSUME Executors, NEW n \in Under(flow), Step(n), NEW x \in Under(flow), accumulator'[x] # accumulator[x]
  PROVE  \/ x = n \/ x \in Children(n)
         \/ x = Scope(n) /\ Parent(n) # None /\ IsKind(Parent(n), "sequence")
<1>1. n \in Node /\ DOMAIN accumulator = Under(flow)
  BY InFlow DEF Executors
<1>2. (~SequenceBegins(n) /\ ~SequenceContinues(n)) \/ x = n
  BY <1>1 DEF SequenceBegins, SequenceContinues, StepsFrom
<1>3. ~TaskBegins(n) /\ ~TaskCompletes(n) /\ ~ConditionalSkips(n) /\ ~ConditionalReturns(n)
      /\ ~ParallelBegins(n) /\ ~ParallelReturns(n)
  BY DEF TaskBegins, TaskCompletes, ConditionalSkips, ConditionalReturns, ParallelBegins, ParallelReturns
<1>4. ASSUME ConditionalBegins(n)
      PROVE  x \in Children(n)
  BY <1>1, <1>4 DEF ConditionalBegins, ChildAt, Children, IsKind, IsLoop
<1>5. ASSUME IsLoop(n), NEW acc, LoopEnds(n, acc)
      PROVE  x = Scope(n) /\ Parent(n) # None /\ IsKind(Parent(n), "sequence")
  <2>1. Parent(n) # None
    BY <1>1, <1>5, TreeAssumption DEF IsPlaced, IsKind, IsLoop
  <2> QED BY <1>1, <1>5, <2>1 DEF LoopEnds
<1>6. ASSUME IsLoop(n), NEW index, NEW items, NEW acc, IterationsFrom(n, index, items, acc), ~\E a : LoopEnds(n, a)
      PROVE  x \in Children(n)
  <2>1. accumulator' = [accumulator EXCEPT ![ChildAt(n, index)] = acc]
    BY <1>6 DEF IterationsFrom
  <2>2. ChildAt(n, index) \in Children(n)
    BY <1>1, <1>6, TreeAssumption DEF IsFormed, ChildAt, Children
  <2> QED BY <1>1, <2>1, <2>2
<1>7. ASSUME LoopBegins(n) \/ LoopContinues(n)
      PROVE  x \in Children(n) \/ (x = Scope(n) /\ Parent(n) # None /\ IsKind(Parent(n), "sequence"))
  <2>1. IsLoop(n) /\ ((\E a : LoopEnds(n, a)) \/ (\E i, items, a : IterationsFrom(n, i, items, a)))
    BY <1>7 DEF LoopBegins, LoopContinues
  <2> QED BY <1>5, <1>6, <2>1
<1> QED BY <1>2, <1>3, <1>4, <1>7 DEF Step

LEMMA FramesFitRuns ==
  ASSUME Executors, Phases, WalkInv, FramesFit, NEW n \in Under(flow), StepRuns(n)
  PROVE  FramesFit'
<1>1. Turns(n) /\ UNCHANGED <<frames, saved>> /\ Unframed(n) /\ Step(n)
  BY StepRunsTurn DEF StepRuns, kept
<1>2. act[n] # Idle /\ (\A c \in Children(n) : act[c] \in {Idle, Returned}) /\ UNCHANGED <<flow, status>> /\ n \in Node
  BY <1>1, InFlow DEF Turns, Executors
<1>3. Walked[n] # Idle
  BY <1>1, <1>2, AtCalled DEF Unframed, UpTo
<1>4. ASSUME NEW m \in DOMAIN frames
      PROVE  Accumulated'[Scope(m)] = Accumulated[Scope(m)]
  <2>1. m \in Under(flow) /\ m \in Node /\ Scope(m) \in UpTo(m) /\ Scope(m) \in Under(flow) /\ Scope(m) \in Node
    BY FrameIsAtWork, ScopeFacts, InFlow DEF Executors
  <2>2. n \notin UpTo(m) /\ m \notin UpTo(n)
    BY <1>1, <1>2, FramedApart DEF WalkInv
  <2>3. UpTo(Scope(m)) \subseteq UpTo(m)
    BY <2>1, AboveIsTransitive DEF UpTo
  <2>4. Scope(m) # n
    BY <2>1, <2>2
  <2>5. Scope(m) \notin Children(n)
    <3>1. ASSUME Scope(m) \in Children(n)
          PROVE  n \in UpTo(Scope(m))
      BY <1>2, <3>1, ChildrenOf DEF UpTo
    <3> QED BY <2>2, <2>3, <3>1
  <2>6. Parent(n) # None /\ IsKind(Parent(n), "sequence") => Scope(m) # Scope(n)
    BY <1>3, <2>1, <2>2, ScopesApart DEF WalkInv
  <2>7. accumulator'[Scope(m)] = accumulator[Scope(m)]
    BY <1>1, <2>1, <2>4, <2>5, <2>6, StepAccumulators
  <2> QED BY <1>1, <1>2, <2>1, <2>7, LayersWalk
<1> QED BY <1>1, <1>4 DEF FramesFit, HasFrame

LEMMA FramesFitSuspends ==
  ASSUME Executors, Phases, FramesFit, NEW n \in Under(flow), StepSuspends(n), WalkStays
  PROVE  FramesFit'
<1>1. n \in Node /\ n \notin Children(n) /\ act[n] # Idle /\ act[n].at = "busy" /\ ~HasFrame(n)
  BY StepSuspendsTurn, InFlow, ChildrenOf DEF Executors, Turns, UpTo, HasFrame
<1>2. OnlyFrameOf(n) /\ DOMAIN frames' = DOMAIN frames \cup {n} /\ Accumulated' = Accumulated
  BY StepSuspendsTurn DEF WalkStays
<1>3. \A m : HasFrame(m) => HasFrame(m)'
  BY <1>2 DEF HasFrame
<1>4. SUFFICES ASSUME NEW m \in DOMAIN frames'
      PROVE  /\ IsKind(m, "parallel") =>
                  DOMAIN frames'[m].outputs = Children(m) /\ \E b \in Children(m) : b \in DOMAIN frames'
             /\ ~IsKind(m, "parallel") /\ ~IsKind(m, "task") => ChildAt(m, frames'[m].index) \in DOMAIN frames'
             /\ IsKind(m, "sequence") => frames'[m].accumulator = Accumulated[Scope(m)]
  BY <1>2 DEF FramesFit, HasFrame
<1>5. CASE m # n
  <2>1. m \in DOMAIN frames /\ frames'[m] = frames[m]
    BY <1>2, <1>5 DEF OnlyFrameOf, HasFrame
  <2> QED BY <1>3, <2>1 DEF FramesFit, HasFrame
<1>6. CASE m = n
  <2>1. CASE TaskAsks(n)
    BY <1>6, <2>1 DEF TaskAsks, IsKind
  <2>2. CASE SequenceSuspends(n)
    <3>1. IsKind(n, "sequence") /\ HasFrame(ChildAt(n, act[n].index)) /\ Keep(n, SequenceFrame(n))
      BY <2>2 DEF SequenceSuspends, IsInterrupted
    <3>2. frames'[n] = SequenceFrame(n)
      BY <3>1, KeepFacts
    <3>3. Accumulated[Scope(n)] = accumulator[Scope(n)]
      BY <1>1, ScopeFacts, AtCalled
    <3> QED BY <1>3, <1>6, <3>1, <3>2, <3>3 DEF HasFrame, SequenceFrame, IsKind
  <2>3. CASE ConditionalSuspends(n)
    <3>1. IsKind(n, "conditional") /\ HasFrame(ChildAt(n, act[n].index)) /\ Keep(n, ConditionalFrame(n))
      BY <2>3 DEF ConditionalSuspends, IsInterrupted
    <3>2. frames'[n] = ConditionalFrame(n)
      BY <3>1, KeepFacts
    <3> QED BY <1>3, <1>6, <3>1, <3>2 DEF HasFrame, ConditionalFrame, IsKind
  <2>4. CASE LoopSuspends(n)
    <3>1. IsLoop(n) /\ HasFrame(ChildAt(n, act[n].index)) /\ Keep(n, LoopFrame(n))
      BY <2>4 DEF LoopSuspends, IsInterrupted
    <3>2. frames'[n] = LoopFrame(n)
      BY <3>1, KeepFacts
    <3> QED BY <1>3, <1>6, <3>1, <3>2 DEF HasFrame, LoopFrame, IsKind, IsLoop
  <2>5. CASE ParallelSuspends(n)
    <3>1. IsKind(n, "parallel") /\ (\E b \in Children(n) : HasFrame(b)) /\ Keep(n, ParallelFrame(n))
      BY <2>5 DEF ParallelSuspends
    <3>2. frames'[n] = ParallelFrame(n)
      BY <3>1, KeepFacts
    <3>3. DOMAIN frames'[n].outputs = Children(n)
      BY <3>2 DEF ParallelFrame
    <3> QED BY <1>3, <1>6, <3>1, <3>3 DEF HasFrame, IsKind
  <2> QED BY <2>1, <2>2, <2>3, <2>4, <2>5 DEF StepSuspends
<1> QED BY <1>5, <1>6

LEMMA FramesFitResumes ==
  ASSUME Executors, Phases, WalkInv, FramesFit, NEW n \in Under(flow), StepResumes(n), WalkStays
  PROVE  FramesFit'
<1>1. n \in Node /\ act[n] = Called /\ HasFrame(n) /\ OnlyFrameOf(n) /\ DOMAIN frames' \subseteq DOMAIN frames
      /\ (HasFrame(n)' => UNCHANGED frames) /\ Accumulated' = Accumulated
  BY StepResumesTurn, InFlow DEF WalkInv, Executors, WalkStays
<1>2. \A m : HasFrame(m) /\ m # n => HasFrame(m)'
  BY <1>1 DEF OnlyFrameOf
<1>3. \A m \in DOMAIN frames : n \notin Children(m)
  <2>1. SUFFICES ASSUME NEW m \in DOMAIN frames, n \in Children(m)
                 PROVE  FALSE
    OBVIOUS
  <2>2. m \in Node /\ m \in Above(n)
    BY <2>1, FrameIsAtWork, ChildrenOf DEF UpTo
  <2> QED BY <1>1, <2>1, <2>2, AboveCalled, ExecutorsDiffer DEF HasFrame
<1>4. CASE HasFrame(n)'
  BY <1>1, <1>4 DEF FramesFit, HasFrame
<1>5. CASE ~HasFrame(n)'
  <2>1. SUFFICES ASSUME NEW m \in DOMAIN frames'
        PROVE  /\ IsKind(m, "parallel") =>
                    DOMAIN frames'[m].outputs = Children(m) /\ \E b \in Children(m) : b \in DOMAIN frames'
               /\ ~IsKind(m, "parallel") /\ ~IsKind(m, "task") => ChildAt(m, frames'[m].index) \in DOMAIN frames'
               /\ IsKind(m, "sequence") => frames'[m].accumulator = Accumulated[Scope(m)]
    BY <1>1 DEF FramesFit, HasFrame
  <2>2. m # n /\ m \in DOMAIN frames /\ frames'[m] = frames[m]
    BY <1>1, <1>5 DEF OnlyFrameOf, HasFrame
  <2>3. m \in Node /\ Walked[m] = RecordedAt(m) /\ RecordedAt(m).at = "busy" /\ Shape(m, RecordedAt(m))
    BY <2>2, FrameIsAtWork DEF WalkInv, Shaped
  <2>4. ASSUME ~IsKind(m, "parallel"), ~IsKind(m, "task")
        PROVE  ChildAt(m, frames[m].index) \in Children(m)
    <3>1. RecordedAt(m).index = frames[m].index
      BY <2>4, ExecutorsDiffer DEF RecordedAt
    <3> QED BY <2>3, <2>4, <3>1, ChildAtIsChild
  <2>5. \A b \in Children(m) : b # n
    BY <1>3, <2>2
  <2> QED BY <1>2, <2>2, <2>4, <2>5 DEF FramesFit, HasFrame
<1> QED BY <1>4, <1>5

----------------------------------------------------------------------------
(* What a step leaves ahead of it *)

LEMMA FreshTurn ==
  ASSUME NEW f \in Flows, NEW V, NEW W, NEW done, Shaped(f, V), Path(f, V), Fresh(f, V, done),
         NEW n \in Under(f), V[n] # Idle,
         \A c \in Children(n) : V[c].at # "busy",
         \A m \in Under(f) : m # n /\ m \notin Children(n) => W[m] = V[m],
         \A c \in Children(n) : W[c] \in {Idle, Called} /\ (W[c] = Called => FreshAt(W, done, c)),
         Ahead(W, done, n)
  PROVE  Fresh(f, W, done)
<1> SUFFICES ASSUME NEW m \in Under(f)
             PROVE  Ahead(W, done, m)
  BY DEF Fresh
<1>1. CASE m = n
  BY <1>1
<1>2. CASE m \in Children(n)
  BY <1>2, ExecutorsDiffer DEF Ahead
<1>3. CASE m # n /\ m \notin Children(n)
  <2>1. Ahead(V, done, m)
    BY DEF Fresh
  <2> QED BY <1>3, <2>1, OthersAhead
<1> QED BY <1>1, <1>2, <1>3

\* A step that no wait concerns is the same in the walk.
LEMMA WalkedTurns ==
  ASSUME Executors, Phases, NEW n \in Under(flow), StepRuns(n)
  PROVE  /\ n \in Node /\ n \notin Children(n) /\ Children(n) \subseteq Under(flow)
         /\ UNCHANGED <<flow, status, frames>>
         /\ Walked[n] = act[n] /\ Walked'[n] = act'[n] /\ act[n] # Idle /\ act'[n] # Idle
         /\ Shape(n, act'[n])
         /\ \A c \in Children(n) :
              /\ Walked[c] = act[c] /\ Walked[c] \in {Idle, Returned} /\ Walked[c].at # "busy"
              /\ Walked'[c] = act'[c] /\ act'[c] \in {Idle, Called}
              /\ act'[c] # Idle => LeadsTo(Walked', n, c)
         /\ \A m \in Under(flow) : m # n /\ m \notin Children(n) => Walked'[m] = Walked[m]
         /\ \A l \in LoopsAbove(n) : Walked'[l] = Walked[l] /\ act'[l] = act[l] /\ Walked[l] = act[l]
<1>1. n \in Node /\ n \notin Children(n) /\ Children(n) \subseteq Under(flow) /\ DOMAIN Walked = Under(flow)
  BY InFlow, ChildrenOf, WalkedIs DEF Executors, UpTo
<1>2. Turns(n) /\ UNCHANGED <<flow, status, frames>> /\ Unframed(n)
  BY StepRunsTurn DEF StepRuns, Turns
<1>3. PICK local, called : Moves(n, local, called)
  BY StepRunsTurn
<1>4. Walked' = Executed(Walked, n, local, called) /\ Walked[n] = act[n] /\ \A c \in Children(n) : Walked[c] = act[c]
  BY <1>2, <1>3, MovesWalk
<1>5. act' = Executed(act, n, local, called) /\ DOMAIN act = Under(flow)
  BY <1>3 DEF Moves, Executors
<1>6. Walked'[n] = local /\ act'[n] = local
  BY <1>1, <1>4, <1>5 DEF Executed
<1>7. \A c \in Children(n) : Walked'[c] = act'[c] /\ act'[c] \in {Idle, Called}
  BY <1>1, <1>4, <1>5 DEF Executed
<1>8. \A m \in Under(flow) : m # n /\ m \notin Children(n) => Walked'[m] = Walked[m]
  BY <1>1, <1>3, <1>4 DEF Executed, Moves
<1>9. \A l \in LoopsAbove(n) : Walked'[l] = Walked[l] /\ act'[l] = act[l] /\ Walked[l] = act[l]
  <2> TAKE l \in LoopsAbove(n)
  <2>1. l \in Under(flow) /\ act[l].at = "busy" /\ Walked[l] = act[l] /\ l # n
    BY <1>1, <1>2, AboveCalled, AboveIsTransitive DEF LoopsAbove, Turns
  <2>2. l \notin Children(n)
    BY <2>1, <1>2, ExecutorsDiffer DEF Turns
  <2> QED BY <1>2, <1>8, <2>1, <2>2 DEF Turns
<1>10. \A c \in Children(n) : act'[c] # Idle => LeadsTo(Walked', n, c)
  BY <1>2, <1>6 DEF Turns, LeadsTo
<1>11. \A c \in Children(n) : act[c] \in {Idle, Returned} /\ Walked[c].at # "busy"
  BY <1>2, <1>4, ExecutorsDiffer DEF Turns
<1> QED BY <1>1, <1>2, <1>4, <1>6, <1>7, <1>8, <1>9, <1>10, <1>11 DEF Turns

\* Nothing below has been done of what is called.
LEMMA CalledAhead ==
  ASSUME Executors, Phases, NEW n \in Under(flow), StepRuns(n), ~IsLoop(n), ~IsKind(n, "task"), act'[n] # Called,
         FreshAt(Walked, ran, n)
  PROVE  (\A c \in Children(n) : FreshAt(Walked', ran, c)) /\ Ahead(Walked', ran, n)
<1>1. \A c \in Children(n) : FreshAt(Walked', ran, c)
  <2> TAKE c \in Children(n)
  <2>1. FreshAt(Walked, ran, c)
    BY WalkedTurns, ChildFresh
  <2>2. LoopsAbove(c) = LoopsAbove(n)
    BY WalkedTurns, ChildrenOf DEF LoopsAbove, UpTo
  <2> QED BY <2>1, <2>2, WalkedTurns, FreshSame
<1>2. \A j \in Positions(n) : ChildAt(n, j) \in Children(n)
  BY DEF ChildAt, Children
<1> QED BY <1>1, <1>2, WalkedTurns DEF Ahead

LEMMA ReturnedAhead ==
  ASSUME NEW V, NEW done, NEW n, V[n] = Returned
  PROVE  Ahead(V, done, n)
BY ExecutorsDiffer DEF Ahead

\* A loop that goes on to an iteration above those gone by.
LEMMA IterationAhead ==
  ASSUME Executors, Phases, WalkInv, NEW n \in Under(flow), StepRuns(n), IsLoop(n),
         act'[n].at = "busy", NEW index \in Nat, act'[n].index = index + 1,
         \A j \in DOMAIN ran : Within(Walked, ran[j].step, n) => ran[j].step[2][n] <= index
  PROVE  (\A c \in Children(n) : FreshAt(Walked', ran, c)) /\ Ahead(Walked', ran, n)
<1>1. n \in Node /\ Walked'[n] = act'[n]
  BY WalkedTurns
<1>2. \A x : Within(Walked', x, n) <=> Within(Walked, x, n)
  BY WalkedTurns, FreshSame
<1>3. ~IsKind(n, "sequence") /\ ~IsKind(n, "task")
  BY DEF IsKind, IsLoop
<1>4. ASSUME NEW j \in DOMAIN ran, Within(Walked', ran[j].step, n)
      PROVE  ran[j].step[2][n] <= index /\ ran[j].step[2][n] \in Nat
  <2>1. ran[j].step[1] \in Under(n) /\ ran[j].step[2][n] <= index
    BY <1>2, <1>4 DEF Within
  <2>2. n # ran[j].step[1]
    BY <1>3 DEF WalkInv, DoneTyped, IsDone
  <2>3. n \in LoopsAbove(ran[j].step[1])
    BY <1>1, <2>1, <2>2, UnderIsBelow DEF UpTo, LoopsAbove
  <2> QED BY <2>1, <2>3 DEF WalkInv, DoneTyped, IsDone
<1>5. ASSUME NEW c \in Children(n), NEW j \in DOMAIN ran, Within(Walked', ran[j].step, c)
      PROVE  FALSE
  <2>1. Within(Walked', ran[j].step, n) /\ ran[j].step[2][n] = index + 1
    BY <1>1, <1>5, WithinBody
  <2> QED BY <1>4, <2>1
<1>6. \A j \in DOMAIN ran : Within(Walked', ran[j].step, n) => ran[j].step[2][n] <= Walked'[n].index
  BY <1>1, <1>4
<1> QED BY <1>1, <1>3, <1>5, <1>6, ExecutorsDiffer DEF FreshAt, Ahead

\* Histories are lists.
Listed(s) == s \in Seq(Range(s))
Lists == Listed(ran) /\ Listed(asked) /\ Listed(resolved)

LEMMA AppendedOnce ==
  ASSUME NEW s, NEW e, Listed(s)
  PROVE  \A j \in DOMAIN Append(s, e) : Append(s, e)[j] = e \/ (j \in DOMAIN s /\ Append(s, e)[j] = s[j])
BY DEF Listed, Range

LEMMA AppendedLists ==
  ASSUME NEW s, NEW e, Listed(s)
  PROVE  Listed(Append(s, e)) /\ Range(Append(s, e)) = Range(s) \cup {e}
<1> DEFINE T == Range(s) \cup {e}
<1>1. s \in Seq(T)
  BY DEF Range, Listed
<1>2. Append(s, e) \in Seq(T) /\ Len(s) \in Nat /\ DOMAIN s = 1..Len(s) /\ DOMAIN Append(s, e) = 1..(Len(s) + 1)
  BY <1>1
<1>3. (\A i \in 1..Len(s) : Append(s, e)[i] = s[i]) /\ Append(s, e)[Len(s) + 1] = e
  BY <1>1
<1>4. Range(Append(s, e)) = T
  BY <1>1, <1>2, <1>3 DEF Range
<1> QED BY <1>2, <1>4 DEF Listed

LEMMA AppendedInjective ==
  ASSUME NEW s, NEW e, Listed(s), e \notin Range(s), IsInjective(s)
  PROVE  IsInjective(Append(s, e))
BY DEF Listed, Range, IsInjective

LEMMA StepAhead ==
  ASSUME Executors, Phases, WalkInv, NEW n \in Under(flow), StepRuns(n), ~TaskCompletes(n)
  PROVE  (\A c \in Children(n) : act'[c] = Called => FreshAt(Walked', ran, c)) /\ Ahead(Walked', ran, n)
<1>1. /\ n \in Node /\ n \notin Children(n) /\ Children(n) \subseteq Under(flow) /\ DOMAIN act = Under(flow)
      /\ Walked[n] = act[n] /\ Walked'[n] = act'[n] /\ n \in Under(flow)
      /\ \A c \in Children(n) : Walked[c] = act[c] /\ Walked'[c] = act'[c]
      /\ Step(n)
  BY WalkedTurns DEF Executors, StepRuns
<1>2. Ahead(Walked, ran, n)
  BY DEF WalkInv, Fresh
<1>3. act[n] = Called => FreshAt(Walked, ran, n)
  BY <1>1, <1>2 DEF Ahead
<1>4. ASSUME Return(n)
      PROVE  (\A c \in Children(n) : act'[c] = Called => FreshAt(Walked', ran, c)) /\ Ahead(Walked', ran, n)
  <2>1. act'[n] = Returned /\ \A c \in Children(n) : act'[c] = Idle
    BY <1>1, <1>4 DEF Return, Execute, Executed
  <2> QED BY <1>1, <2>1, ReturnedAhead, ExecutorsDiffer
<1>5. CASE SequenceBegins(n) \/ ConditionalBegins(n) \/ ParallelBegins(n)
  <2>1. act[n] = Called /\ ~IsLoop(n) /\ ~IsKind(n, "task")
    BY <1>5 DEF SequenceBegins, ConditionalBegins, ParallelBegins, IsCalled, IsKind, IsLoop
  <2>2. act'[n] # Called
    <3>1. \E local, called : local # Called /\ act' = Executed(act, n, local, called)
      <4>1. Returned # Called /\ Waiting # Called /\ \A i : At(i) # Called
        BY ExecutorsDiffer
      <4>2. CASE SequenceBegins(n)
        BY <4>1, <4>2 DEF SequenceBegins, StepsFrom, Execute, Return
      <4>3. CASE ConditionalBegins(n)
        BY <4>1, <4>3 DEF ConditionalBegins, Execute
      <4>4. CASE ParallelBegins(n)
        BY <4>1, <4>4 DEF ParallelBegins, Execute
      <4> QED BY <1>5, <4>2, <4>3, <4>4
    <3> QED BY <1>1, <3>1 DEF Executed
  <2> QED BY <1>3, <2>1, <2>2, CalledAhead
<1>6. CASE SequenceContinues(n)
  <2>1. IsKind(n, "sequence") /\ HasReturned(n) /\ StepsFrom(n, act[n].index + 1)
        /\ ~IsLoop(n) /\ ~IsKind(n, "task") /\ ~IsKind(n, "parallel")
    BY <1>6 DEF SequenceContinues, IsKind, IsLoop
  <2>2. act[n].at = "busy" /\ act[n].index \in Positions(n) /\ Positions(n) \subseteq Nat
    <3>1. act[n].at = "busy" /\ Shape(n, act[n])
      BY <2>1 DEF Executors, Shaped, HasReturned, IsBusy
    <3>2. Positions(n) \subseteq Nat
      BY <1>1, TreeAssumption DEF IsFormed, Positions
    <3> QED BY <2>1, <3>1, <3>2, ExecutorsDiffer DEF Shape
  <2>3. ASSUME NEW j \in Positions(n), j > act[n].index
        PROVE  FreshAt(Walked', ran, ChildAt(n, j))
    <3>1. FreshAt(Walked, ran, ChildAt(n, j))
      BY <1>1, <1>2, <2>1, <2>2, <2>3 DEF Ahead
    <3>2. ChildAt(n, j) \in Children(n)
      BY <2>1 DEF ChildAt, Children
    <3>3. LoopsAbove(ChildAt(n, j)) = LoopsAbove(n)
      BY <1>1, <2>1, <3>2, ChildrenOf DEF LoopsAbove, UpTo
    <3> QED BY <3>1, <3>3, WalkedTurns, FreshSame
  <2>4. CASE act[n].index + 1 \in Positions(n)
    <3> DEFINE next == act[n].index + 1
    <3>1. act' = Executed(act, n, At(next), {ChildAt(n, next)})
      BY <2>1, <2>4 DEF StepsFrom, Execute
    <3>2. act'[n] = At(next) /\ \A c \in Children(n) : act'[c] = Called => c = ChildAt(n, next)
      BY <1>1, <3>1, ExecutorsDiffer DEF Executed
    <3>3. FreshAt(Walked', ran, ChildAt(n, next))
      BY <2>2, <2>3, <2>4
    <3>4. \A j \in Positions(n) : j > next => FreshAt(Walked', ran, ChildAt(n, j))
      BY <2>2, <2>3
    <3>5. Ahead(Walked', ran, n)
      BY <1>1, <2>1, <3>2, <3>4, ExecutorsDiffer DEF Ahead
    <3> QED BY <3>2, <3>3, <3>5
  <2>5. CASE act[n].index + 1 \notin Positions(n)
    BY <1>4, <2>1, <2>5 DEF StepsFrom
  <2> QED BY <2>4, <2>5
<1>7. CASE TaskBegins(n)
  <2>1. IsKind(n, "task") /\ act[n] = Called /\ ~IsLoop(n) /\ ~IsKind(n, "sequence")
    BY <1>7 DEF TaskBegins, IsCalled, IsKind, IsLoop
  <2>2. FreshAt(Walked', ran, n)
    BY <1>3, <2>1, WalkedTurns, FreshSame
  <2> QED BY <1>1, <2>1, <2>2, TaskHasNoChildren DEF Ahead
<1>8. CASE ConditionalSkips(n) \/ ConditionalReturns(n) \/ ParallelReturns(n)
  BY <1>4, <1>8 DEF ConditionalSkips, ConditionalReturns, ParallelReturns
<1>9. ASSUME IsLoop(n), NEW index \in Nat, NEW items, NEW acc, IterationsFrom(n, index + 1, items, acc),
             \A j \in DOMAIN ran : Within(Walked, ran[j].step, n) => ran[j].step[2][n] <= index
      PROVE  (\A c \in Children(n) : act'[c] = Called => FreshAt(Walked', ran, c)) /\ Ahead(Walked', ran, n)
  <2>1. CASE HasIteration(n, index + 1, items, acc)
    <3>1. act' = Executed(act, n, Looping(index + 1, items, acc), Children(n))
      BY <1>9, <2>1 DEF IterationsFrom, Execute
    <3>2. act'[n].at = "busy" /\ act'[n].index = index + 1
      BY <1>1, <3>1, ExecutorsDiffer DEF Executed
    <3> QED BY <1>9, <3>2, IterationAhead
  <2>2. CASE ~HasIteration(n, index + 1, items, acc)
    BY <1>4, <1>9, <2>2 DEF IterationsFrom, LoopEnds
  <2> QED BY <2>1, <2>2
<1>10. CASE LoopBegins(n)
  <2>1. IsLoop(n) /\ act[n] = Called
    BY <1>10 DEF LoopBegins, IsCalled
  <2>2. PICK items, acc : IterationsFrom(n, 0 + 1, items, acc)
    BY <1>10 DEF LoopBegins
  <2>3. \A j \in DOMAIN ran : ~Within(Walked, ran[j].step, n)
    BY <1>3, <2>1 DEF FreshAt
  <2> QED BY <1>9, <2>1, <2>2, <2>3
<1>11. CASE LoopContinues(n)
  <2>1. IsLoop(n) /\ HasReturned(n)
    BY <1>11 DEF LoopContinues
  <2>2. act[n].at = "busy" /\ act[n].index \in Nat
    BY <2>1, ExecutorsDiffer DEF Executors, Shaped, Shape, IsLoop, IsKind, HasReturned, IsBusy
  <2>3. \A j \in DOMAIN ran : Within(Walked, ran[j].step, n) => ran[j].step[2][n] <= act[n].index
    BY <1>1, <1>2, <2>1, <2>2 DEF Ahead
  <2>4. CASE Stops(n)
    BY <1>4, <1>11, <2>4 DEF LoopContinues, LoopEnds
  <2>5. CASE ~Stops(n)
    BY <1>9, <1>11, <2>1, <2>2, <2>3, <2>5 DEF LoopContinues
  <2> QED BY <2>4, <2>5
<1> QED BY <1>1, <1>5, <1>6, <1>7, <1>8, <1>10, <1>11 DEF Step

LEMMA WalkInvRuns ==
  ASSUME Executors, Phases, WalkInv, Lists, NEW n \in Under(flow), StepRuns(n)
  PROVE  WalkInv'
<1>1. flow' = flow /\ flow \in Flows /\ n \in Node
  BY WalkedTurns DEF Executors
<1>2. Shaped(flow, Walked')
  <2>1. SUFFICES ASSUME NEW m \in Under(flow)
                 PROVE  Shape(m, Walked'[m])
    BY DEF Shaped
  <2>2. CASE m = n
    BY <2>2, WalkedTurns
  <2>3. CASE m \in Children(n)
    BY <2>3, WalkedTurns DEF Shape
  <2>4. CASE m # n /\ m \notin Children(n)
    BY <2>4, WalkedTurns DEF WalkInv, Shaped
  <2> QED BY <2>2, <2>3, <2>4
<1>3. Path(flow, Walked')
  <2>1. /\ Walked[n] # Idle
        /\ \A c \in Children(n) : Walked[c].at # "busy"
        /\ \A m \in Under(flow) : m # n /\ m \notin Children(n) => Walked'[m] = Walked[m]
        /\ \A c \in Children(n) : Walked'[c] # Idle => LeadsTo(Walked', n, c)
    BY WalkedTurns
  <2> QED BY <1>1, <2>1, PathKept DEF WalkInv
<1>4. CASE ~TaskCompletes(n)
  <2>1. ran' = ran
    BY <1>4 DEF StepRuns, Step, SequenceBegins, SequenceContinues, StepsFrom, TaskBegins, ConditionalBegins,
           ConditionalSkips, ConditionalReturns, LoopBegins, LoopContinues, ParallelBegins, ParallelReturns
  <2>2. Fresh(flow, Walked', ran)
    <3>1. /\ Walked[n] # Idle
          /\ \A c \in Children(n) : Walked[c].at # "busy"
          /\ \A m \in Under(flow) : m # n /\ m \notin Children(n) => Walked'[m] = Walked[m]
          /\ \A c \in Children(n) : Walked'[c] = act'[c] /\ Walked'[c] \in {Idle, Called}
      BY WalkedTurns
    <3>2. \A c \in Children(n) : Walked'[c] = Called => FreshAt(Walked', ran, c)
      BY <1>4, <3>1, StepAhead
    <3>3. Ahead(Walked', ran, n)
      BY <1>4, StepAhead
    <3> QED BY <1>1, <3>1, <3>2, <3>3, FreshTurn DEF WalkInv
  <2> QED BY <1>1, <1>2, <1>3, <2>1, <2>2 DEF WalkInv, Shaped, Path, DoneTyped, Fresh
<1>5. CASE TaskCompletes(n)
  <2>1. /\ IsKind(n, "task") /\ act[n].at = "busy"
        /\ ran' = Append(ran, [step |-> Instance(n), inputs |-> act[n].inputs])
        /\ act'[n] = Returned
    <3>1. IsKind(n, "task") /\ act[n].at = "busy" /\ act' = Executed(act, n, Returned, {})
          /\ ran' = Append(ran, [step |-> Instance(n), inputs |-> act[n].inputs])
      BY <1>5 DEF TaskCompletes, IsBusy, Return, Execute
    <3> QED BY <3>1 DEF Executed, Executors
  <2>2. IsAt(Walked, Instance(n), n)
    BY WalkedTurns DEF Instance, IsAt
  <2>3. Adds(ran, ran', Instance(n))
    BY <2>1, AppendedOnce DEF Lists, Adds
  <2>4. Fresh(flow, Walked', ran')
    <3>1. /\ Walked[n] # Idle /\ Walked[n] = act[n] /\ Walked'[n] = act'[n]
          /\ \A c \in Children(n) : Walked[c].at # "busy"
          /\ \A m \in Under(flow) : m # n /\ m \notin Children(n) => Walked'[m] = Walked[m]
      BY WalkedTurns
    <3>2. ASSUME NEW m \in Under(flow), m # n
          PROVE  Ahead(Walked, ran', m)
      <4>1. Ahead(Walked, ran, m)
        BY DEF WalkInv, Fresh
      <4>2. Shaped(flow, Walked) /\ Path(flow, Walked) /\ Walked[n].at = "busy"
        BY <2>1, <3>1 DEF WalkInv
      <4> QED BY <1>1, <2>1, <2>2, <2>3, <3>2, <4>1, <4>2, CompletionAhead
    <3>3. ASSUME NEW m \in Under(flow), m # n
          PROVE  Ahead(Walked', ran', m)
      <4>1. m \notin Children(n)
        BY <1>1, <2>1, TaskHasNoChildren
      <4> QED BY <1>1, <3>1, <3>2, <3>3, <4>1, OthersAhead DEF WalkInv
    <3>4. Ahead(Walked', ran', n)
      BY <2>1, <3>1, ReturnedAhead
    <3> QED BY <3>3, <3>4 DEF Fresh
  <2>5. IsDone(flow, Instance(n))
    <3>1. \A l \in LoopsAbove(n) : act[l].index \in Nat
      <4> TAKE l \in LoopsAbove(n)
      <4>1. l \in Under(flow) /\ act[l].at = "busy" /\ IsLoop(l)
        BY WalkedTurns, AboveCalled DEF LoopsAbove
      <4> QED BY <4>1, ExecutorsDiffer DEF Executors, Shaped, Shape, IsKind, IsLoop
    <3> QED BY <2>1, <3>1 DEF Instance, IsDone
  <2>6. DoneTyped(flow, ran')
    BY <2>3, <2>5 DEF WalkInv, DoneTyped, Adds
  <2> QED BY <1>1, <1>2, <1>3, <2>4, <2>6 DEF WalkInv, Shaped, Path, DoneTyped, Fresh
<1> QED BY <1>4, <1>5

----------------------------------------------------------------------------
(* What is reported of tasks *)

\* What is reported suspended waits.
SuspendedWait ==
  \A i \in DOMAIN snapshots : snapshots[i] = "suspended" =>
    \E t \in DOMAIN frames : IsKind(t, "task") /\ frames[t].wait = i

\* An executor that takes a turn leaves those at work, and the iterations they are in.
LEMMA BusyApart ==
  ASSUME Executors, NEW n, Turns(n), NEW t \in Under(flow), t # n, act[t].at = "busy" \/ act'[t].at = "busy"
  PROVE  act[t].at = "busy" /\ act'[t] = act[t] /\ t \notin Under(n) /\ Instance(t)' = Instance(t)
<1>1. n \in Under(flow) /\ n \in Node /\ t \in Node /\ flow \in Flows
  BY InFlow DEF Turns, Executors
<1>2. \A c \in Children(n) : act[c].at # "busy" /\ act'[c].at # "busy"
  BY ExecutorsDiffer DEF Turns
<1>3. act[t].at = "busy" /\ act'[t] = act[t] /\ act[t] # Idle /\ t \notin Children(n)
  BY <1>2, ExecutorsDiffer DEF Turns
<1>4. n \notin Above(t)
  BY <1>1, <1>2, <1>3, NothingBelow DEF Executors
<1>5. t \notin Under(n)
  BY <1>1, <1>4, UnderIsBelow DEF UpTo
<1>6. \A l \in LoopsAbove(t) : act'[l] = act[l]
  <2> TAKE l \in LoopsAbove(t)
  <2>1. act[l].at = "busy" /\ l # n /\ l \in Under(flow)
    BY <1>1, <1>3, <1>4, InFlow DEF Executors, Path, LeadsTo, LoopsAbove, UpTo
  <2> QED BY <1>2, <2>1 DEF Turns
<1> QED BY <1>3, <1>5, <1>6 DEF Instance

\* So are the instances of steps that wait left by steps that do not concern them.
LEMMA FramedInstances ==
  ASSUME Executors, Phases, WalkInv, NEW n \in Under(flow), StepRuns(n), NEW t \in DOMAIN frames
  PROVE  /\ t \in Under(flow) /\ t \in Node /\ n \notin UpTo(t) /\ t \notin Under(n) /\ t # n
         /\ \A a \in UpTo(t) : act'[a] = act[a] /\ a \in Under(flow)
         /\ Walk!Instance(t)' = Walk!Instance(t)
<1>1. n \in Node /\ t \in Under(flow) /\ t \in Node /\ flow \in Flows
  BY WalkedTurns, FrameIsAtWork DEF Executors
<1>2. n \notin UpTo(t)
  BY WalkedTurns, FramedApart DEF WalkInv, StepRuns
<1>3. \A a \in UpTo(t) : a \in Under(flow) /\ a # n /\ a \notin Children(n)
  <2> TAKE a \in UpTo(t)
  <2>1. a \in Under(flow) /\ a # n /\ a \in Node
    BY <1>1, <1>2, InFlow
  <2>2. a \in Children(n) => n \in UpTo(t)
    BY <1>1, <2>1, ChildrenOf, AboveIsTransitive DEF UpTo
  <2> QED BY <1>2, <2>1, <2>2
<1>4. \A a \in UpTo(t) : act'[a] = act[a] /\ Walked'[a] = Walked[a]
  BY <1>3, WalkedTurns, StepRunsTurn DEF Turns
<1>5. Walk!Instance(t)' = Walk!Instance(t)
  <2>1. Walk!LoopsAbove(t) \subseteq UpTo(t)
    BY WalkTree DEF LoopsAbove, UpTo
  <2> QED BY <1>4, <2>1 DEF Walk!Instance
<1>6. t \notin Under(n)
  BY <1>1, <1>2, UnderIsBelow
<1>7. t # n
  BY <1>2 DEF UpTo
<1> QED BY <1>1, <1>2, <1>3, <1>4, <1>5, <1>6, <1>7

\* A step reports of its own instance and of those below it, and that none is suspended.
LEMMA UnderIsTransitive ==
  ASSUME NEW n \in Node, NEW c \in Children(n), NEW m \in Under(c)
  PROVE  m \in Under(n)
<1>1. c \in Node /\ n \in Above(c)
  BY ChildrenOf DEF UpTo
<1>2. m \in Node /\ c \in UpTo(m)
  BY <1>1, UnderIsBelow
<1>3. n \in UpTo(m)
  BY <1>1, <1>2, AboveIsTransitive DEF UpTo
<1> QED BY <1>2, <1>3, BelowIsUnder

LEMMA ReportFacts ==
  ASSUME NEW instances, NEW word, Report(instances, word)
  PROVE  /\ \A i : i \in DOMAIN snapshots' <=> i \in DOMAIN snapshots \/ i \in instances
         /\ \A i \in instances : snapshots'[i] = word
         /\ \A i \in DOMAIN snapshots : i \notin instances => snapshots'[i] = snapshots[i]
BY DEF Report, Updated

LEMMA StepReports ==
  ASSUME NEW n \in Node, Step(n)
  PROVE  /\ \A i \in DOMAIN snapshots :
              i \in DOMAIN snapshots' /\ (i[1] \notin Under(n) => snapshots'[i] = snapshots[i])
         /\ \A i \in DOMAIN snapshots' :
              snapshots'[i] = "suspended" => i \in DOMAIN snapshots /\ snapshots[i] = "suspended"
<1>1. ASSUME NEW instances, NEW word, word # "suspended", Report(instances, word), \A i \in instances : i[1] \in Under(n)
      PROVE  /\ \A i \in DOMAIN snapshots :
                  i \in DOMAIN snapshots' /\ (i[1] \notin Under(n) => snapshots'[i] = snapshots[i])
             /\ \A i \in DOMAIN snapshots' :
                  snapshots'[i] = "suspended" => i \in DOMAIN snapshots /\ snapshots[i] = "suspended"
  BY <1>1, ReportFacts
<1>2. n \in Under(n)
  BY BelowIsUnder DEF UpTo
<1>3. CASE TaskBegins(n) \/ TaskCompletes(n)
  <2>1. Report({Instance(n)}, "running") \/ Report({Instance(n)}, "completed")
    BY <1>3 DEF TaskBegins, TaskCompletes
  <2>2. \A i \in {Instance(n)} : i[1] \in Under(n)
    BY <1>2 DEF Instance
  <2> QED BY <1>1, <2>1, <2>2
<1>4. CASE ConditionalBegins(n) \/ ConditionalSkips(n)
  <2>1. IsKind(n, "conditional") /\ \E branches : branches \subseteq Positions(n) /\ SkipBranches(n, branches)
    BY <1>4 DEF ConditionalBegins, ConditionalSkips
  <2>2. PICK branches : branches \subseteq Positions(n) /\ SkipBranches(n, branches)
    BY <2>1
  <2>3. \A m \in StepsUnder(n, branches) : m \in Under(n)
    <3> TAKE m \in StepsUnder(n, branches)
    <3>1. PICK b \in branches : m \in Under(ChildAt(n, b))
      BY DEF StepsUnder
    <3>2. ChildAt(n, b) \in Children(n)
      BY <2>1, <2>2 DEF ChildAt, Children, IsKind, IsLoop
    <3> QED BY <3>1, <3>2, UnderIsTransitive
  <2> DEFINE instances == {Instance(m) : m \in StepsUnder(n, branches)}
  <2>4. Report(instances, "skipped")
    BY <2>2 DEF SkipBranches
  <2>5. \A i \in instances : i[1] \in Under(n)
    BY <2>3 DEF Instance
  <2> QED BY <1>1, <2>4, <2>5
<1>5. CASE snapshots' = snapshots
  BY <1>5
<1> QED BY <1>3, <1>4, <1>5 DEF Step, SequenceBegins, SequenceContinues, StepsFrom, ConditionalReturns, LoopBegins,
       LoopContinues, ParallelBegins, ParallelReturns

LEMMA ReportsRun ==
  ASSUME Executors, Phases, WalkInv, Reports, SuspendedWait, NEW n \in Under(flow), StepRuns(n)
  PROVE  Reports' /\ SuspendedWait'
<1>1. n \in Node /\ Turns(n) /\ Step(n) /\ UNCHANGED <<flow, frames>>
  BY WalkedTurns, StepRunsTurn DEF StepRuns
<1>2. ASSUME NEW t \in Under(flow), IsKind(t, "task"), act'[t].at = "busy"
      PROVE  Instance(t)' \in DOMAIN snapshots' /\ snapshots'[Instance(t)'] = "running"
  <2>1. CASE t = n
    <3>1. TaskBegins(n) \/ TaskCompletes(n)
      BY <1>1, <1>2, <2>1 DEF Step, SequenceBegins, SequenceContinues, ConditionalBegins, ConditionalSkips,
             ConditionalReturns, LoopBegins, LoopContinues, ParallelBegins, ParallelReturns, IsKind, IsLoop
    <3>2. ~TaskCompletes(n)
      BY <1>2, <2>1, ExecutorsDiffer DEF TaskCompletes, Return, Execute, Executed, Executors
    <3>3. Report({Instance(n)}, "running")
      BY <3>1, <3>2 DEF TaskBegins
    <3>4. Instance(n)' = Instance(n)
      BY WalkedTurns DEF Instance
    <3> QED BY <2>1, <3>3, <3>4, ReportFacts
  <2>2. CASE t # n
    <3>1. act[t].at = "busy" /\ t \notin Under(n) /\ Instance(t)' = Instance(t)
      BY <1>1, <1>2, <2>2, BusyApart
    <3>2. Instance(t) \in DOMAIN snapshots /\ snapshots[Instance(t)] = "running" /\ Instance(t)[1] = t
      BY <1>2, <3>1 DEF Reports, Instance
    <3> QED BY <1>1, <3>1, <3>2, StepReports
  <2> QED BY <2>1, <2>2
<1>3. ASSUME NEW t \in Under(flow), IsKind(t, "task"), HasFrame(t)'
      PROVE  /\ frames'[t].wait = Walk!Instance(t)'
             /\ frames'[t].wait \in DOMAIN snapshots'
             /\ snapshots'[frames'[t].wait] = "suspended"
  <2>1. t \in DOMAIN frames /\ HasFrame(t) /\ frames' = frames
    BY <1>1, <1>3 DEF HasFrame
  <2>2. t \notin Under(n) /\ Walk!Instance(t)' = Walk!Instance(t)
    BY <2>1, FramedInstances
  <2>3. /\ frames[t].wait = Walk!Instance(t)
        /\ frames[t].wait \in DOMAIN snapshots
        /\ snapshots[frames[t].wait] = "suspended"
    BY <1>3, <2>1 DEF Reports
  <2>4. frames[t].wait[1] = t
    BY <2>3 DEF Walk!Instance
  <2> QED BY <1>1, <2>1, <2>2, <2>3, <2>4, StepReports
<1>4. SuspendedWait'
  BY <1>1, StepReports DEF SuspendedWait
<1> QED BY <1>1, <1>2, <1>3, <1>4 DEF Reports

LEMMA OwnInstance ==
  ASSUME Executors, Phases, NEW n, Turns(n)
  PROVE  Instance(n)' = Instance(n) /\ Walk!Instance(n) = Instance(n) /\ Instance(n)[1] = n
<1>1. n \in Under(flow) /\ n \in Node /\ flow \in Flows /\ act[n] # Idle
  BY InFlow DEF Turns, Executors
<1>2. Walk!Instance(n) = Instance(n)
  BY <1>1, InstancesAgree
<1>3. \A l \in LoopsAbove(n) : act'[l] = act[l]
  <2> TAKE l \in LoopsAbove(n)
  <2>1. l \in Under(flow) /\ act[l].at = "busy" /\ l # n
    BY <1>1, AboveCalled, AboveIsTransitive DEF LoopsAbove
  <2> QED BY <2>1, ExecutorsDiffer DEF Turns
<1> QED BY <1>2, <1>3 DEF Instance

LEMMA InstancesStay ==
  ASSUME WalkStays
  PROVE  \A t : Walk!Instance(t)' = Walk!Instance(t)
BY DEF WalkStays, Walk!Instance

LEMMA ReportsSuspend ==
  ASSUME Executors, Phases, Reports, SuspendedWait, NEW n \in Under(flow), StepSuspends(n), WalkStays
  PROVE  Reports' /\ SuspendedWait'
<1>1. Turns(n) /\ act[n].at = "busy" /\ act'[n] = Returned /\ OnlyFrameOf(n) /\ HasFrame(n)'
      /\ DOMAIN frames' = DOMAIN frames \cup {n}
  BY StepSuspendsTurn
<1>2. flow' = flow /\ n \notin DOMAIN frames /\ Instance(n)[1] = n
  BY <1>1, OwnInstance DEF Turns, Executors
<1>3. \A i \in DOMAIN snapshots : i \in DOMAIN snapshots' /\ (i[1] # n => snapshots'[i] = snapshots[i])
  <2>1. CASE TaskAsks(n)
    BY <1>2, <2>1, ReportFacts DEF TaskAsks
  <2>2. CASE ~TaskAsks(n)
    BY <2>2 DEF StepSuspends, SequenceSuspends, ConditionalSuspends, LoopSuspends, ParallelSuspends
  <2> QED BY <2>1, <2>2
<1>4. IsKind(n, "task") => /\ frames'[n].wait = Instance(n)
                           /\ Instance(n) \in DOMAIN snapshots' /\ snapshots'[Instance(n)] = "suspended"
                           /\ \A i \in DOMAIN snapshots' : i # Instance(n) => i \in DOMAIN snapshots /\ snapshots'[i] = snapshots[i]
  <2>1. CASE TaskAsks(n)
    <3>1. Report({Instance(n)}, "suspended") /\ Keep(n, TaskFrame(n))
      BY <2>1 DEF TaskAsks
    <3>2. frames'[n] = TaskFrame(n)
      BY <3>1, KeepFacts
    <3> QED BY <3>1, <3>2, ReportFacts DEF TaskFrame
  <2>2. CASE ~TaskAsks(n)
    BY <2>2 DEF StepSuspends, SequenceSuspends, ConditionalSuspends, LoopSuspends, ParallelSuspends, IsKind, IsLoop
  <2> QED BY <2>1, <2>2
<1>5. ~IsKind(n, "task") => snapshots' = snapshots
  BY DEF StepSuspends, TaskAsks, SequenceSuspends, ConditionalSuspends, LoopSuspends, ParallelSuspends
<1>6. ASSUME NEW t \in Under(flow), IsKind(t, "task"), act'[t].at = "busy"
      PROVE  Instance(t)' \in DOMAIN snapshots' /\ snapshots'[Instance(t)'] = "running"
  <2>1. t # n
    BY <1>1, <1>6, ExecutorsDiffer
  <2>2. act[t].at = "busy" /\ Instance(t)' = Instance(t) /\ Instance(t)[1] = t
    BY <1>1, <1>6, <2>1, BusyApart DEF Instance
  <2>3. Instance(t) \in DOMAIN snapshots /\ snapshots[Instance(t)] = "running"
    BY <1>6, <2>2 DEF Reports
  <2> QED BY <1>3, <2>1, <2>2, <2>3
<1>7. ASSUME NEW t \in Under(flow), IsKind(t, "task"), HasFrame(t)'
      PROVE  /\ frames'[t].wait = Walk!Instance(t)'
             /\ frames'[t].wait \in DOMAIN snapshots'
             /\ snapshots'[frames'[t].wait] = "suspended"
  <2>1. CASE t = n
    BY <1>1, <1>4, <1>7, <2>1, OwnInstance, InstancesStay
  <2>2. CASE t # n
    <3>1. HasFrame(t) /\ frames'[t] = frames[t]
      BY <1>1, <1>7, <2>2 DEF OnlyFrameOf
    <3>2. /\ frames[t].wait = Walk!Instance(t)
          /\ frames[t].wait \in DOMAIN snapshots
          /\ snapshots[frames[t].wait] = "suspended"
      BY <1>7, <3>1 DEF Reports
    <3>3. frames[t].wait[1] = t
      BY <3>2 DEF Walk!Instance
    <3> QED BY <1>3, <2>2, <3>1, <3>2, <3>3, InstancesStay
  <2> QED BY <2>1, <2>2
<1>8. SuspendedWait'
  <2>1. SUFFICES ASSUME NEW i \in DOMAIN snapshots', snapshots'[i] = "suspended"
                 PROVE  \E t \in DOMAIN frames' : IsKind(t, "task") /\ frames'[t].wait = i
    BY DEF SuspendedWait
  <2>2. CASE IsKind(n, "task") /\ i = Instance(n)
    BY <1>1, <1>4, <2>2
  <2>3. CASE ~(IsKind(n, "task") /\ i = Instance(n))
    <3>1. i \in DOMAIN snapshots /\ snapshots[i] = "suspended"
      BY <1>4, <1>5, <2>1, <2>3
    <3>2. PICK t \in DOMAIN frames : IsKind(t, "task") /\ frames[t].wait = i
      BY <3>1 DEF SuspendedWait
    <3> QED BY <1>1, <1>2, <3>2 DEF OnlyFrameOf, HasFrame
  <2> QED BY <2>2, <2>3
<1> QED BY <1>2, <1>6, <1>7, <1>8 DEF Reports

LEMMA ReportsResume ==
  ASSUME Executors, Phases, WalkInv, FramesFit, Reports, SuspendedWait, NEW n \in Under(flow), StepResumes(n), WalkStays
  PROVE  Reports' /\ SuspendedWait'
<1>1. Turns(n) /\ HasFrame(n) /\ OnlyFrameOf(n) /\ DOMAIN frames' \subseteq DOMAIN frames /\ flow' = flow
      /\ (HasFrame(n)' => UNCHANGED frames /\ act'[n] = Returned /\ frames[n].wait \notin resolutions /\ IsKind(n, "task"))
  BY StepResumesTurn DEF WalkInv, Turns
<1>2. /\ Instance(n)' = Instance(n) /\ Instance(n)[1] = n
      /\ IsKind(n, "task") => frames[n].wait = Instance(n)
  BY <1>1, OwnInstance DEF Reports, Turns
<1>3. CASE IsKind(n, "task") /\ ~HasFrame(n)'
  <2>1. TaskResumes(n)
    BY <1>3 DEF StepResumes, SequenceResumes, ConditionalResumes, LoopResumes, ParallelResumes, IsKind, IsLoop
  <2>2. Report({Instance(n)}, "running")
    BY <1>1, <1>3, <2>1 DEF TaskResumes, HasFrame
  <2>3. /\ Instance(n) \in DOMAIN snapshots' /\ snapshots'[Instance(n)] = "running"
        /\ \A i : i # Instance(n) => (i \in DOMAIN snapshots' <=> i \in DOMAIN snapshots)
        /\ \A i \in DOMAIN snapshots : i # Instance(n) => snapshots'[i] = snapshots[i]
    BY <2>2, ReportFacts
  <2>4. ASSUME NEW t \in Under(flow), IsKind(t, "task"), act'[t].at = "busy"
        PROVE  Instance(t)' \in DOMAIN snapshots' /\ snapshots'[Instance(t)'] = "running"
    <3>1. CASE t = n
      BY <1>2, <2>3, <3>1
    <3>2. CASE t # n
      <4>1. act[t].at = "busy" /\ Instance(t)' = Instance(t) /\ Instance(t)[1] = t
        BY <1>1, <2>4, <3>2, BusyApart DEF Instance
      <4>2. Instance(t) \in DOMAIN snapshots /\ snapshots[Instance(t)] = "running" /\ Instance(t) # Instance(n)
        BY <1>2, <2>4, <3>2, <4>1 DEF Reports
      <4> QED BY <2>3, <4>1, <4>2
    <3> QED BY <3>1, <3>2
  <2>5. ASSUME NEW t \in Under(flow), IsKind(t, "task"), HasFrame(t)'
        PROVE  /\ frames'[t].wait = Walk!Instance(t)'
               /\ frames'[t].wait \in DOMAIN snapshots'
               /\ snapshots'[frames'[t].wait] = "suspended"
    <3>1. t # n /\ HasFrame(t) /\ frames'[t] = frames[t]
      BY <1>1, <1>3, <2>5 DEF OnlyFrameOf
    <3>2. /\ frames[t].wait = Walk!Instance(t)
          /\ frames[t].wait \in DOMAIN snapshots
          /\ snapshots[frames[t].wait] = "suspended"
      BY <2>5, <3>1 DEF Reports
    <3>3. frames[t].wait # Instance(n)
      BY <1>2, <3>1, <3>2 DEF Walk!Instance
    <3> QED BY <2>3, <3>1, <3>2, <3>3, InstancesStay
  <2>6. SuspendedWait'
    <3>1. SUFFICES ASSUME NEW i \in DOMAIN snapshots', snapshots'[i] = "suspended"
                   PROVE  \E t \in DOMAIN frames' : IsKind(t, "task") /\ frames'[t].wait = i
      BY DEF SuspendedWait
    <3>2. i # Instance(n) /\ i \in DOMAIN snapshots /\ snapshots[i] = "suspended"
      BY <2>3, <3>1
    <3>3. PICK t \in DOMAIN frames : IsKind(t, "task") /\ frames[t].wait = i
      BY <3>2 DEF SuspendedWait
    <3>4. t # n
      BY <1>2, <1>3, <3>2, <3>3
    <3> QED BY <1>1, <3>3, <3>4 DEF OnlyFrameOf, HasFrame
  <2> QED BY <1>1, <2>4, <2>5, <2>6 DEF Reports
<1>4. CASE ~IsKind(n, "task") \/ HasFrame(n)'
  <2>1. snapshots' = snapshots
    <3>1. CASE TaskResumes(n)
      BY <1>1, <1>4, <3>1 DEF TaskResumes
    <3>2. CASE ~TaskResumes(n)
      BY <3>2 DEF StepResumes, SequenceResumes, ConditionalResumes, LoopResumes, ParallelResumes
    <3> QED BY <3>1, <3>2
  <2>2. ASSUME NEW t \in Under(flow), IsKind(t, "task"), act'[t].at = "busy"
        PROVE  Instance(t)' = Instance(t) /\ act[t].at = "busy"
    <3>1. t # n
      BY <1>1, <1>4, <2>2, ExecutorsDiffer
    <3> QED BY <1>1, <2>2, <3>1, BusyApart
  <2>3. \A t \in Under(flow) : IsKind(t, "task") => (HasFrame(t)' <=> HasFrame(t)) /\ (HasFrame(t) => frames'[t] = frames[t])
    BY <1>1, <1>4 DEF OnlyFrameOf
  <2>4. SuspendedWait'
    <3>1. SUFFICES ASSUME NEW i \in DOMAIN snapshots, snapshots[i] = "suspended"
                   PROVE  \E t \in DOMAIN frames' : IsKind(t, "task") /\ frames'[t].wait = i
      BY <2>1 DEF SuspendedWait
    <3>2. PICK t \in DOMAIN frames : IsKind(t, "task") /\ frames[t].wait = i
      BY <3>1 DEF SuspendedWait
    <3> QED BY <2>3, <3>2 DEF HasFrame, Executors
  <2> QED BY <1>1, <2>1, <2>2, <2>3, <2>4, InstancesStay DEF Reports
<1> QED BY <1>3, <1>4

----------------------------------------------------------------------------
(* Waits *)

\* A wait that was opened is of a task that has completed, waits, or runs again with what
\* the wait resolved to.
WaitsFit ==
  /\ \A x \in Range(asked) :
       \/ \E j \in DOMAIN ran : ran[j].step = x
       \/ \E t \in DOMAIN frames : IsKind(t, "task") /\ frames[t].wait = x
       \/ \E t \in Under(flow) : IsKind(t, "task") /\ act[t].at = "busy" /\ Instance(t) = x /\ x \in resolutions
  /\ Range(resolved) \subseteq Range(asked)
  /\ resolutions \subseteq Range(resolved)
  /\ \A t \in DOMAIN frames : IsKind(t, "task") => frames[t].wait \in Range(asked)

\* A wait that is resolved and still open is on the way to be taken up in this pass.
GoesOn ==
  \A t \in DOMAIN frames : IsKind(t, "task") /\ frames[t].wait \in Range(resolved) =>
    status = "running" /\ frames[t].wait \in resolutions /\ \A a \in UpTo(t) : act[a] # Returned

LEMMA NotDone ==
  ASSUME Executors, Phases, WalkInv, NEW n \in Under(flow), IsKind(n, "task"), act[n].at = "busy"
  PROVE  \A j \in DOMAIN ran : ran[j].step # Instance(n)
<1>1. n \in Node /\ act[n] # Idle /\ ~HasFrame(n)
  BY InFlow, ExecutorsDiffer DEF Executors, HasFrame
<1>2. Walked[n] = act[n]
  BY <1>1, WalkedIs DEF WalkedAt
<1>3. FreshAt(Walked, ran, n)
  BY <1>2 DEF WalkInv, Fresh, Ahead
<1>4. \A l \in LoopsAbove(n) : Walked[l] = act[l]
  BY <1>1, AboveCalled DEF LoopsAbove
<1>5. n \in Under(n)
  BY <1>1, BelowIsUnder DEF UpTo
<1>6. Within(Walked, Instance(n), n)
  BY <1>4, <1>5 DEF Within, Instance
<1> QED BY <1>3, <1>6 DEF FreshAt

LEMMA GoesOnRuns ==
  ASSUME Executors, Phases, WalkInv, GoesOn, NEW n \in Under(flow), StepRuns(n)
  PROVE  GoesOn'
<1>1. UNCHANGED <<status, frames, resolutions, resolved>>
  BY WalkedTurns DEF StepRuns, kept
<1>2. \A t \in DOMAIN frames : \A a \in UpTo(t) : act'[a] = act[a]
  BY FramedInstances
<1> QED BY <1>1, <1>2 DEF GoesOn

LEMMA WaitsRun ==
  ASSUME Executors, Phases, WalkInv, Lists, TasksRunOnce, WaitsFit, GoesOn, NEW n \in Under(flow), StepRuns(n)
  PROVE  Lists' /\ TasksRunOnce' /\ WaitsFit' /\ GoesOn'
<1>1. n \in Node /\ Turns(n) /\ Step(n) /\ UNCHANGED <<flow, status, frames, resolutions, asked, resolved>>
  BY WalkedTurns, StepRunsTurn DEF StepRuns, kept
<1>2. CASE TaskCompletes(n)
  <2>1. IsKind(n, "task") /\ act[n].at = "busy"
        /\ ran' = Append(ran, [step |-> Instance(n), inputs |-> act[n].inputs])
    BY <1>2 DEF TaskCompletes, IsBusy
  <2>2. Adds(ran, ran', Instance(n)) /\ Listed(ran')
    BY <2>1, AppendedOnce, AppendedLists DEF Lists, Adds
  <2>3. Range(ran') = Range(ran) \cup {[step |-> Instance(n), inputs |-> act[n].inputs]}
    BY <2>1, AppendedLists DEF Lists
  <2>4. DOMAIN ran \subseteq DOMAIN ran' /\ (\A j \in DOMAIN ran : ran'[j] = ran[j])
        /\ \E j \in DOMAIN ran' : ran'[j].step = Instance(n)
    BY <2>1 DEF Lists, Listed
  <2>5. \A i, j \in DOMAIN ran' : i \notin DOMAIN ran /\ j \notin DOMAIN ran => i = j
    BY <2>1 DEF Lists, Listed
  <2>6. TasksRunOnce'
    <3>1. \A j \in DOMAIN ran' : j \notin DOMAIN ran => ran'[j].step = Instance(n)
      BY <2>2 DEF Adds
    <3>2. \A j \in DOMAIN ran : ran[j].step # Instance(n)
      BY <2>1, NotDone
    <3> QED BY <2>4, <2>5, <3>1, <3>2 DEF TasksRunOnce
  <2>7. ASSUME NEW x \in Range(asked)
        PROVE  \/ \E j \in DOMAIN ran' : ran'[j].step = x
               \/ \E t \in DOMAIN frames : IsKind(t, "task") /\ frames[t].wait = x
               \/ \E t \in Under(flow) : IsKind(t, "task") /\ act'[t].at = "busy" /\ Instance(t)' = x /\ x \in resolutions
    <3>1. CASE \E j \in DOMAIN ran : ran[j].step = x
      BY <2>4, <3>1
    <3>2. CASE \E t \in Under(flow) : IsKind(t, "task") /\ act[t].at = "busy" /\ Instance(t) = x /\ x \in resolutions
      <4>1. PICK t \in Under(flow) : IsKind(t, "task") /\ act[t].at = "busy" /\ Instance(t) = x /\ x \in resolutions
        BY <3>2
      <4>2. CASE t = n
        BY <2>4, <4>1, <4>2
      <4>3. CASE t # n
        BY <1>1, <4>1, <4>3, BusyApart
      <4> QED BY <4>2, <4>3
    <3> QED BY <2>7, <3>1, <3>2 DEF WaitsFit
  <2>8. WaitsFit'
    BY <1>1, <2>7 DEF WaitsFit
  <2> QED BY <1>1, <2>2, <2>6, <2>8, GoesOnRuns DEF Lists
<1>3. CASE ~TaskCompletes(n)
  <2>1. ran' = ran
    BY <1>1, <1>3 DEF Step, SequenceBegins, SequenceContinues, StepsFrom, TaskBegins, ConditionalBegins,
           ConditionalSkips, ConditionalReturns, LoopBegins, LoopContinues, ParallelBegins, ParallelReturns
  <2>2. ASSUME NEW t \in Under(flow), IsKind(t, "task"), act[t].at = "busy"
        PROVE  act'[t].at = "busy" /\ Instance(t)' = Instance(t)
    <3>1. CASE t = n
      <4>1. FALSE
        BY <1>1, <1>3, <2>2, <3>1, ExecutorsDiffer DEF Step, SequenceBegins, SequenceContinues, TaskBegins, IsCalled,
               ConditionalBegins, ConditionalSkips, ConditionalReturns, LoopBegins, LoopContinues, ParallelBegins,
               ParallelReturns, IsKind, IsLoop
      <4> QED BY <4>1
    <3>2. CASE t # n
      BY <1>1, <2>2, <3>2, BusyApart
    <3> QED BY <3>1, <3>2
  <2>3. WaitsFit'
    BY <1>1, <2>1, <2>2 DEF WaitsFit
  <2> QED BY <1>1, <2>1, <2>3, GoesOnRuns DEF Lists, TasksRunOnce
<1> QED BY <1>2, <1>3

\* A step does not touch the executors on the way to what is not below it.
LEMMA TurnApart ==
  ASSUME Executors, NEW n, Turns(n), NEW t \in Under(flow), n \notin UpTo(t)
  PROVE  \A a \in UpTo(t) : act'[a] = act[a]
<1>1. n \in Node /\ t \in Node /\ flow \in Flows
  BY InFlow DEF Turns, Executors
<1> TAKE a \in UpTo(t)
<1>2. a \in Under(flow) /\ a # n /\ a \in Node
  BY <1>1, InFlow
<1>3. a \in Children(n) => n \in UpTo(t)
  BY <1>1, <1>2, ChildrenOf, AboveIsTransitive DEF UpTo
<1> QED BY <1>2, <1>3 DEF Turns

LEMMA GoesOnSuspends ==
  ASSUME Executors, Phases, WalkInv, Reports, WaitsFit, GoesOn, NEW n \in Under(flow), StepSuspends(n),
         IsKind(n, "task") => frames'[n].wait \notin Range(asked)
  PROVE  GoesOn'
<1>1. Turns(n) /\ act[n].at = "busy" /\ OnlyFrameOf(n) /\ n \in Node /\ flow \in Flows /\ status' = status
      /\ n \notin DOMAIN frames /\ act[n] # Idle
  BY StepSuspendsTurn, InFlow DEF Executors, Turns
<1>2. UNCHANGED <<resolutions, resolved>>
  BY DEF StepSuspends, TaskAsks, SequenceSuspends, ConditionalSuspends, LoopSuspends, ParallelSuspends, kept
<1>3. SUFFICES ASSUME NEW t \in DOMAIN frames', IsKind(t, "task"), frames'[t].wait \in Range(resolved)
               PROVE  status = "running" /\ frames'[t].wait \in resolutions /\ \A a \in UpTo(t) : act'[a] # Returned
  BY <1>1, <1>2 DEF GoesOn
<1>4. t # n
  BY <1>3 DEF WaitsFit
<1>5. t \in DOMAIN frames /\ frames'[t] = frames[t]
  BY <1>1, <1>4 DEF OnlyFrameOf, HasFrame
<1>6. status = "running" /\ frames[t].wait \in resolutions /\ \A a \in UpTo(t) : act[a] # Returned
  BY <1>3, <1>5 DEF GoesOn
<1>7. t \in Under(flow) /\ t \in Node /\ Walked[t] # Idle
  BY <1>5, FrameIsAtWork, ExecutorsDiffer
<1>8. n \notin Above(t)
  <2>1. SUFFICES ASSUME n \in Above(t)
                 PROVE  FALSE
    OBVIOUS
  <2>2. Walked[n] = act[n]
    BY <1>1, WalkedIs DEF WalkedAt, HasFrame
  <2>3. PICK c \in Children(n) : c \in UpTo(t) /\ (~IsKind(n, "parallel") => c = ChildAt(n, act[n].index))
    BY <1>1, <1>7, <2>1, <2>2, PathChild DEF WalkInv
  <2>4. act[c] # Returned
    BY <1>6, <2>3
  <2>5. ~IsKind(n, "task")
    BY <1>1, <2>3, TaskHasNoChildren
  <2>6. IF IsKind(n, "parallel") THEN AllReturned(n) ELSE HasReturned(n)
    BY <2>5 DEF StepSuspends, TaskAsks, SequenceSuspends, ConditionalSuspends, LoopSuspends, ParallelSuspends,
           IsInterrupted, IsKind, IsLoop
  <2> QED BY <2>3, <2>4, <2>6 DEF AllReturned, HasReturned
<1>9. n \notin UpTo(t)
  BY <1>4, <1>8 DEF UpTo
<1> QED BY <1>1, <1>5, <1>6, <1>7, <1>9, TurnApart

LEMMA WaitsSuspend ==
  ASSUME Executors, Phases, WalkInv, Reports, Lists, WaitsAreUnique, WaitsFit, GoesOn,
         NEW n \in Under(flow), StepSuspends(n)
  PROVE  Lists' /\ WaitsAreUnique' /\ WaitsFit' /\ GoesOn'
<1>1. Turns(n) /\ act[n].at = "busy" /\ act'[n] = Returned /\ OnlyFrameOf(n) /\ DOMAIN frames' = DOMAIN frames \cup {n}
      /\ n \notin DOMAIN frames /\ n \in Node /\ flow' = flow
  BY StepSuspendsTurn, InFlow DEF Executors, Turns
<1>2. UNCHANGED <<resolutions, resolved, ran>>
  BY DEF StepSuspends, TaskAsks, SequenceSuspends, ConditionalSuspends, LoopSuspends, ParallelSuspends, kept
<1>3. \A t \in DOMAIN frames : t # n /\ t \in DOMAIN frames' /\ frames'[t] = frames[t]
  BY <1>1 DEF OnlyFrameOf, HasFrame
<1>4. \A t \in Under(flow) : t # n /\ act[t].at = "busy" => act'[t].at = "busy" /\ Instance(t)' = Instance(t)
  BY <1>1, BusyApart
<1>5. CASE TaskAsks(n)
  <2>1. IsKind(n, "task") /\ Asks(n) /\ Keep(n, TaskFrame(n)) /\ asked' = Append(asked, Instance(n))
    BY <1>5 DEF TaskAsks
  <2>2. frames'[n].wait = Instance(n)
    <3>1. frames'[n] = TaskFrame(n)
      BY <2>1, KeepFacts
    <3> QED BY <3>1 DEF TaskFrame
  <2>3. Instance(n) \notin Range(asked)
    <3>1. SUFFICES ASSUME Instance(n) \in Range(asked)
                   PROVE  FALSE
      OBVIOUS
    <3>2. \A j \in DOMAIN ran : ran[j].step # Instance(n)
      BY <1>1, <2>1, NotDone
    <3>3. ASSUME NEW t \in DOMAIN frames, IsKind(t, "task")
          PROVE  frames[t].wait # Instance(n)
      <4>1. frames[t].wait = Walk!Instance(t)
        BY <3>3 DEF Reports, Executors, HasFrame
      <4>2. frames[t].wait[1] = t
        BY <4>1 DEF Walk!Instance
      <4>3. Instance(n)[1] = n
        BY DEF Instance
      <4> QED BY <1>1, <4>2, <4>3
    <3>4. Instance(n) \notin resolutions
      BY <2>1 DEF Asks
    <3> QED BY <3>1, <3>2, <3>3, <3>4 DEF WaitsFit
  <2>4. Listed(asked') /\ Range(asked') = Range(asked) \cup {Instance(n)} /\ IsInjective(asked')
    BY <2>1, <2>3, AppendedLists, AppendedInjective DEF Lists, WaitsAreUnique
  <2>5. GoesOn'
    BY <2>2, <2>3, GoesOnSuspends
  <2>6. ASSUME NEW x \in Range(asked)
        PROVE  \/ \E j \in DOMAIN ran : ran[j].step = x
               \/ \E t \in DOMAIN frames' : IsKind(t, "task") /\ frames'[t].wait = x
               \/ \E t \in Under(flow) : IsKind(t, "task") /\ act'[t].at = "busy" /\ Instance(t)' = x /\ x \in resolutions
    <3>1. CASE \E t \in DOMAIN frames : IsKind(t, "task") /\ frames[t].wait = x
      BY <1>3, <3>1
    <3>2. CASE \E t \in Under(flow) : IsKind(t, "task") /\ act[t].at = "busy" /\ Instance(t) = x /\ x \in resolutions
      <4>1. PICK t \in Under(flow) : IsKind(t, "task") /\ act[t].at = "busy" /\ Instance(t) = x /\ x \in resolutions
        BY <3>2
      <4>2. t # n
        BY <2>1, <4>1 DEF Asks
      <4> QED BY <1>4, <4>1, <4>2
    <3> QED BY <2>6, <3>1, <3>2 DEF WaitsFit
  <2>7. \A t \in DOMAIN frames' : IsKind(t, "task") => frames'[t].wait \in Range(asked')
    BY <1>1, <1>3, <2>2, <2>4 DEF WaitsFit
  <2>8. WaitsFit'
    <3>1. ASSUME NEW x \in Range(asked')
          PROVE  \/ \E j \in DOMAIN ran : ran[j].step = x
                 \/ \E t \in DOMAIN frames' : IsKind(t, "task") /\ frames'[t].wait = x
                 \/ \E t \in Under(flow) : IsKind(t, "task") /\ act'[t].at = "busy" /\ Instance(t)' = x /\ x \in resolutions
      <4>1. CASE x = Instance(n)
        BY <1>1, <2>1, <2>2, <4>1
      <4>2. CASE x \in Range(asked)
        BY <2>6, <4>2
      <4> QED BY <2>4, <4>1, <4>2
    <3> QED BY <1>1, <1>2, <2>4, <2>7, <3>1 DEF WaitsFit
  <2> QED BY <1>2, <2>4, <2>5, <2>8 DEF Lists, WaitsAreUnique
<1>6. CASE ~TaskAsks(n)
  <2>1. asked' = asked /\ ~IsKind(n, "task")
    BY <1>6 DEF StepSuspends, SequenceSuspends, ConditionalSuspends, LoopSuspends, ParallelSuspends, kept, IsKind, IsLoop
  <2>2. GoesOn'
    BY <2>1, GoesOnSuspends
  <2>3. ASSUME NEW x \in Range(asked)
        PROVE  \/ \E j \in DOMAIN ran : ran[j].step = x
               \/ \E t \in DOMAIN frames' : IsKind(t, "task") /\ frames'[t].wait = x
               \/ \E t \in Under(flow) : IsKind(t, "task") /\ act'[t].at = "busy" /\ Instance(t)' = x /\ x \in resolutions
    <3>1. CASE \E t \in DOMAIN frames : IsKind(t, "task") /\ frames[t].wait = x
      BY <1>3, <3>1
    <3>2. CASE \E t \in Under(flow) : IsKind(t, "task") /\ act[t].at = "busy" /\ Instance(t) = x /\ x \in resolutions
      BY <1>4, <2>1, <3>2
    <3> QED BY <2>3, <3>1, <3>2 DEF WaitsFit
  <2>4. WaitsFit'
    BY <1>1, <1>2, <1>3, <2>1, <2>3 DEF WaitsFit
  <2> QED BY <1>2, <2>1, <2>2, <2>4 DEF Lists, WaitsAreUnique
<1> QED BY <1>5, <1>6

LEMMA GoesOnResumes ==
  ASSUME Executors, Phases, WalkInv, FramesFit, WaitsFit, GoesOn, NEW n \in Under(flow), StepResumes(n)
  PROVE  GoesOn'
<1>1. Turns(n) /\ act[n] = Called /\ HasFrame(n) /\ OnlyFrameOf(n) /\ DOMAIN frames' \subseteq DOMAIN frames
      /\ n \in Node /\ flow \in Flows /\ status' = status /\ act[n] # Idle
      /\ (HasFrame(n)' => UNCHANGED frames /\ act'[n] = Returned /\ frames[n].wait \notin resolutions /\ IsKind(n, "task"))
      /\ (~HasFrame(n)' => act'[n].at = "busy")
  BY StepResumesTurn, InFlow DEF Executors, Turns, WalkInv
<1>2. UNCHANGED <<resolutions, resolved>>
  BY DEF StepResumes, TaskResumes, SequenceResumes, ConditionalResumes, LoopResumes, ParallelResumes, kept
<1>3. SUFFICES ASSUME NEW t \in DOMAIN frames', IsKind(t, "task"), frames'[t].wait \in Range(resolved)
               PROVE  status = "running" /\ frames'[t].wait \in resolutions /\ \A a \in UpTo(t) : act'[a] # Returned
  BY <1>1, <1>2 DEF GoesOn
<1>4. t \in DOMAIN frames /\ frames'[t] = frames[t]
  BY <1>1 DEF OnlyFrameOf, HasFrame
<1>5. status = "running" /\ frames[t].wait \in resolutions /\ \A a \in UpTo(t) : act[a] # Returned
  BY <1>3, <1>4 DEF GoesOn
<1>6. t \in Under(flow) /\ t \in Node /\ Walked[t] # Idle
  BY <1>4, FrameIsAtWork, ExecutorsDiffer
<1>7. t # n
  BY <1>1, <1>4, <1>5 DEF HasFrame
<1>8. CASE n \notin Above(t)
  <2>1. n \notin UpTo(t)
    BY <1>7, <1>8 DEF UpTo
  <2> QED BY <1>1, <1>4, <1>5, <1>6, <2>1, TurnApart
<1>9. CASE n \in Above(t)
  <2>1. PICK c \in Children(n) : c \in UpTo(t) /\ (c = t \/ Walked[c].at = "busy")
    BY <1>1, <1>6, <1>9, PathChild DEF WalkInv
  <2>2. ~IsKind(n, "task") /\ act'[n] # Returned
    BY <1>1, <2>1, TaskHasNoChildren, ExecutorsDiffer
  <2>3. c \in Node /\ c \in Under(flow) /\ act[c] = Idle /\ \A d \in Children(n) : d \in UpTo(t) => d = c
    BY <1>1, <1>6, <2>1, ChildrenOf, InFlow, CalledIsAbove, OneChildTowards DEF Executors
  <2>4. HasFrame(c)
    BY <1>4, <2>1, <2>3, WalkedIs, ExecutorsDiffer DEF WalkedAt, HasFrame
  <2>5. t \in Under(c)
    BY <1>6, <2>1, BelowIsUnder
  <2>6. ~Stays(c)
    BY <1>3, <1>4, <1>5, <2>4, <2>5 DEF Stays, WaitsUnder, HasFrame
  <2>7. act'[c] # Returned
    <3>1. c # n /\ DOMAIN act = Under(flow)
      BY <1>1, <2>1, ChildrenOf DEF UpTo, Executors
    <3>2. \A local, called : Executed(act, n, local, called)[c] \in {Called, Idle}
      BY <2>1, <2>3, <3>1 DEF Executed
    <3>3. act'[c] \in {Called, Idle}
      <4>1. CASE ParallelResumes(n)
        BY <2>3, <2>6, <3>1, <3>2, <4>1 DEF ParallelResumes
      <4>2. CASE ~ParallelResumes(n)
        <5>1. \E local, called : act' = Executed(act, n, local, called)
          BY <2>2, <4>2 DEF StepResumes, TaskResumes, SequenceResumes, ConditionalResumes, LoopResumes, Resumed, Execute
        <5> QED BY <3>2, <5>1
      <4> QED BY <4>1, <4>2
    <3> QED BY <3>3, ExecutorsDiffer
  <2>8. \A a \in UpTo(t) : a \in Under(flow) /\ (a # n /\ a # c => act'[a] = act[a])
    BY <1>1, <1>6, <2>3, InFlow DEF Turns
  <2> QED BY <1>4, <1>5, <2>2, <2>7, <2>8
<1> QED BY <1>8, <1>9

LEMMA WaitsResume ==
  ASSUME Executors, Phases, WalkInv, FramesFit, Reports, Lists, WaitsAreUnique, WaitsFit, GoesOn,
         NEW n \in Under(flow), StepResumes(n)
  PROVE  Lists' /\ WaitsAreUnique' /\ WaitsFit' /\ GoesOn'
<1>1. Turns(n) /\ act[n] = Called /\ HasFrame(n) /\ OnlyFrameOf(n) /\ DOMAIN frames' \subseteq DOMAIN frames
      /\ n \in Node /\ flow' = flow
      /\ (HasFrame(n)' => UNCHANGED frames)
      /\ (~HasFrame(n)' => act'[n].at = "busy")
  BY StepResumesTurn, InFlow DEF Executors, Turns, WalkInv
<1>2. UNCHANGED <<resolutions, resolved, asked, ran>>
  BY DEF StepResumes, TaskResumes, SequenceResumes, ConditionalResumes, LoopResumes, ParallelResumes, kept
<1>3. ASSUME NEW x \in Range(asked)
      PROVE  \/ \E j \in DOMAIN ran : ran[j].step = x
             \/ \E t \in DOMAIN frames' : IsKind(t, "task") /\ frames'[t].wait = x
             \/ \E t \in Under(flow) : IsKind(t, "task") /\ act'[t].at = "busy" /\ Instance(t)' = x /\ x \in resolutions
  <2>1. CASE \E t \in DOMAIN frames : IsKind(t, "task") /\ frames[t].wait = x
    <3>1. PICK t \in DOMAIN frames : IsKind(t, "task") /\ frames[t].wait = x
      BY <2>1
    <3>2. CASE t # n \/ HasFrame(n)'
      BY <1>1, <3>1, <3>2 DEF OnlyFrameOf, HasFrame
    <3>3. CASE t = n /\ ~HasFrame(n)'
      <4>1. x \in resolutions
        <5>1. TaskResumes(n)
          BY <3>1, <3>3 DEF StepResumes, SequenceResumes, ConditionalResumes, LoopResumes, ParallelResumes, IsKind, IsLoop
        <5> QED BY <1>1, <3>1, <3>3, <5>1 DEF TaskResumes, HasFrame
      <4>2. Instance(n)' = x
        BY <1>1, <3>1, <3>3, OwnInstance DEF Reports
      <4> QED BY <1>1, <3>1, <3>3, <4>1, <4>2
    <3> QED BY <3>2, <3>3
  <2>2. CASE \E t \in Under(flow) : IsKind(t, "task") /\ act[t].at = "busy" /\ Instance(t) = x /\ x \in resolutions
    <3>1. PICK t \in Under(flow) : IsKind(t, "task") /\ act[t].at = "busy" /\ Instance(t) = x /\ x \in resolutions
      BY <2>2
    <3>2. t # n
      BY <1>1, <3>1, ExecutorsDiffer
    <3> QED BY <1>1, <3>1, <3>2, BusyApart
  <2> QED BY <1>3, <2>1, <2>2 DEF WaitsFit
<1>4. \A t \in DOMAIN frames' : t \in DOMAIN frames /\ frames'[t] = frames[t]
  BY <1>1 DEF OnlyFrameOf, HasFrame
<1>5. WaitsFit'
  BY <1>1, <1>2, <1>3, <1>4 DEF WaitsFit
<1> QED BY <1>2, <1>5, GoesOnResumes DEF Lists, WaitsAreUnique

----------------------------------------------------------------------------
(* The inductive invariant *)

IInv ==
  /\ Executors
  /\ Phases
  /\ FramesFit
  /\ Cleared
  /\ WalkInv
  /\ Reports
  /\ SuspendedWait
  /\ Lists
  /\ TasksRunOnce
  /\ WaitsAreUnique
  /\ WaitsFit
  /\ GoesOn

\* Where all executors are idle, or all but one that was just called.
LEMMA NothingAtWork ==
  ASSUME flow \in Flows, NEW V, V = [m \in Under(flow) |-> Idle] \/ V = [[m \in Under(flow) |-> Idle] EXCEPT ![flow] = Called]
  PROVE  /\ DOMAIN V = Under(flow)
         /\ Shaped(flow, V) /\ Path(flow, V)
         /\ \A m \in Under(flow) : V[m] # Returned /\ V[m].at # "busy"
<1>1. flow \in Under(flow) /\ Above(flow) = {}
  BY FlowIsRoot
<1>2. DOMAIN V = Under(flow) /\ \A m \in Under(flow) : V[m] = Idle \/ (m = flow /\ V[m] = Called)
  BY <1>1
<1>3. Shaped(flow, V)
  BY <1>2 DEF Shaped, Shape
<1>4. Path(flow, V)
  BY <1>1, <1>2 DEF Path
<1> QED BY <1>2, <1>3, <1>4, ExecutorsDiffer

LEMMA IdleFresh ==
  ASSUME NEW f, NEW V, NEW done, \A m \in Under(f) : V[m] = Idle
  PROVE  Fresh(f, V, done)
BY ExecutorsDiffer DEF Fresh, Ahead

LEMMA InitInv ==
  ASSUME Init
  PROVE  IInv
<1>1. /\ flow \in Flows
      /\ act = [m \in Under(flow) |-> Idle]
      /\ output = [m \in Under(flow) |-> <<>>]
      /\ accumulator = [m \in Under(flow) |-> None]
      /\ status = "idle" /\ snapshots = <<>> /\ ran = <<>> /\ frames = <<>> /\ resolutions = {} /\ asked = <<>> /\ resolved = <<>>
  BY DEF Init, Everywhere
<1>2. DOMAIN frames = {} /\ DOMAIN snapshots = {} /\ DOMAIN ran = {} /\ Range(asked) = {} /\ Range(resolved) = {}
  BY <1>1 DEF Range
<1>3. Executors
  BY <1>1, <1>2, NothingAtWork DEF Executors
<1>4. Phases /\ FramesFit /\ Cleared
  BY <1>1, <1>2 DEF Phases, FramesFit, Cleared
<1>5. Walked = act
  <2>1. \A m \in Under(flow) : Walked[m] = Idle
    BY <1>1, <1>2, WalkedIs DEF WalkedAt, HasFrame
  <2> QED BY <1>1, <2>1 DEF Walked
<1>6. WalkInv
  BY <1>1, <1>2, <1>3, <1>5, IdleFresh DEF WalkInv, Executors, DoneTyped
<1>7. Reports /\ SuspendedWait
  BY <1>1, <1>2, NothingAtWork DEF Reports, SuspendedWait, HasFrame
<1>8. Lists
  BY <1>1 DEF Lists, Listed, Range
<1>9. TasksRunOnce /\ WaitsAreUnique /\ WaitsFit /\ GoesOn
  BY <1>1, <1>2 DEF TasksRunOnce, WaitsAreUnique, IsInjective, WaitsFit, GoesOn
<1> QED BY <1>3, <1>4, <1>6, <1>7, <1>8, <1>9 DEF IInv

LEMMA StartInv ==
  ASSUME IInv, Start
  PROVE  IInv'
<1>1. /\ status = "idle" /\ status' = "running" /\ act' = [act EXCEPT ![flow] = Called]
      /\ UNCHANGED <<flow, frames, output, accumulator, snapshots, ran, resolutions, asked, resolved>>
  BY DEF Start, kept
<1>2. flow \in Flows /\ (\A m \in Under(flow) : act[m] = Idle) /\ DOMAIN frames = {} /\ ran = <<>> /\ asked = <<>>
      /\ resolved = <<>> /\ DOMAIN act = Under(flow)
  BY <1>1 DEF IInv, Executors, Phases
<1>3. DOMAIN ran = {} /\ Range(asked) = {} /\ Range(resolved) = {}
  BY <1>2 DEF Range
<1>4. act' = [[m \in Under(flow) |-> Idle] EXCEPT ![flow] = Called]
  BY <1>1, <1>2
<1>5. /\ DOMAIN act' = Under(flow) /\ Shaped(flow, act') /\ Path(flow, act')
      /\ \A m \in Under(flow) : act'[m] # Returned /\ act'[m].at # "busy"
  BY <1>2, <1>4, NothingAtWork
<1>6. Executors'
  BY <1>1, <1>2, <1>5 DEF IInv, Executors, Shaped, Path
<1>7. Phases' /\ FramesFit'
  BY <1>1, <1>2 DEF Phases, FramesFit
<1>8. Cleared'
  <2>1. \A m \in Under(flow) : accumulator[m] = None
    BY <1>2, ExecutorsDiffer DEF IInv, Cleared
  <2>2. ASSUME NEW m \in Under(flow), m # flow
        PROVE  output[m] = <<>>
    <3>1. IsBranch(m) => Parent(m) \in Under(flow)
      BY <1>2, InFlow, ParentOf DEF IsBranch, UpTo
    <3> QED BY <1>2, <2>2, <3>1, ExecutorsDiffer DEF IInv, Cleared
  <2> QED BY <1>1, <2>1, <2>2 DEF Cleared
<1>9. Walked' = act'
  <2>1. \A m \in Under(flow) : WalkedAt(m)' = act'[m]
    BY <1>1, <1>2 DEF WalkedAt, HasFrame
  <2> QED BY <1>1, <1>5, <2>1 DEF Walked
<1>10. WalkInv'
  <2>1. Fresh(flow, Walked', ran)
    BY <1>3 DEF Fresh, Ahead, FreshAt
  <2> QED BY <1>1, <1>3, <1>5, <1>9, <2>1 DEF WalkInv, Shaped, Path, DoneTyped, Fresh
<1>11. Reports' /\ SuspendedWait'
  BY <1>1, <1>2, <1>5 DEF IInv, Reports, SuspendedWait, HasFrame
<1>12. Lists' /\ TasksRunOnce' /\ WaitsAreUnique'
  BY <1>1 DEF IInv, Lists, TasksRunOnce, WaitsAreUnique
<1>13. WaitsFit' /\ GoesOn'
  BY <1>1, <1>2, <1>3 DEF IInv, WaitsFit, GoesOn
<1> QED BY <1>6, <1>7, <1>8, <1>10, <1>11, <1>12, <1>13 DEF IInv

LEMMA WalkInvStays ==
  ASSUME WalkInv, WalkStays
  PROVE  WalkInv'
BY DEF WalkInv, WalkStays, Shaped, Path, DoneTyped, Fresh

----------------------------------------------------------------------------
(* What JSON makes of a checkpoint has the shape it had *)

\* Executors that differ in values only.
Similar(f, V, W) ==
  \A m \in Under(f) :
    \/ W[m] = V[m]
    \/ /\ V[m].at = "busy" /\ W[m].at = "busy"
       /\ ~IsKind(m, "task") /\ ~IsKind(m, "parallel") => W[m].index = V[m].index

LEMMA SimilarWalks ==
  ASSUME NEW f \in Flows, NEW V, NEW W, NEW done, Similar(f, V, W), Path(f, V), Fresh(f, V, done)
  PROVE  /\ Path(f, W) /\ Fresh(f, W, done)
         /\ \A m \in Under(f) : \A l \in LoopsAbove(m) : W[l].index = V[l].index
<1>1. \A l \in Under(f) : IsLoop(l) => W[l].index = V[l].index
  BY DEF Similar, IsKind, IsLoop
<1>2. \A m \in Under(f) : UpTo(m) \subseteq Under(f) /\ m \in Node /\ Children(m) \subseteq Under(f)
  BY InFlow
<1>3. \A m \in Under(f) : \A l \in LoopsAbove(m) : W[l].index = V[l].index
  BY <1>1, <1>2 DEF LoopsAbove, UpTo
<1>4. Path(f, W)
  <2>1. SUFFICES ASSUME NEW m \in Under(f), W[m] # Idle, NEW a \in Above(m)
                 PROVE  LeadsTo(W, a, m)
    BY DEF Path
  <2>2. V[m] # Idle
    BY <2>1, ExecutorsDiffer DEF Similar
  <2>3. LeadsTo(V, a, m)
    BY <2>2 DEF Path
  <2>4. a \in Under(f) /\ a \in Node
    BY <1>2 DEF UpTo
  <2>5. ~IsKind(a, "task")
    BY <1>2, <2>4, ChildTowards, TaskHasNoChildren
  <2> QED BY <2>3, <2>4, <2>5 DEF LeadsTo, Similar
<1>5. Fresh(f, W, done)
  <2>1. SUFFICES ASSUME NEW n \in Under(f)
                 PROVE  Ahead(W, done, n)
    BY DEF Fresh
  <2>2. Ahead(V, done, n)
    BY DEF Fresh
  <2>3. \A m \in Under(f) : (\A x : Within(W, x, m) <=> Within(V, x, m)) /\ (FreshAt(W, done, m) <=> FreshAt(V, done, m))
    BY <1>3 DEF Within, FreshAt
  <2>4. W[n].at = V[n].at /\ (W[n] = Called => V[n] = Called)
    BY ExecutorsDiffer DEF Similar
  <2>5. IsKind(n, "sequence") \/ IsLoop(n) => W[n] = V[n] \/ W[n].index = V[n].index
    BY DEF Similar, IsKind, IsLoop
  <2>6. ASSUME IsKind(n, "sequence"), NEW j \in Positions(n)
        PROVE  ChildAt(n, j) \in Under(f)
    <3>1. ChildAt(n, j) \in Children(n)
      BY <2>6 DEF ChildAt, Children, IsKind, IsLoop
    <3> QED BY <1>2, <3>1
  <2> QED BY <2>2, <2>3, <2>4, <2>5, <2>6 DEF Ahead
<1> QED BY <1>3, <1>4, <1>5

LEMMA FrameRead ==
  ASSUME NEW n
  PROVE  /\ IsKind(n, "task") => FrameAsJson(n).wait = frames[n].wait
         /\ IsKind(n, "parallel") => DOMAIN FrameAsJson(n).outputs = DOMAIN frames[n].outputs
         /\ IsLoop(n) => /\ FrameAsJson(n).index = frames[n].index
                         /\ DOMAIN FrameAsJson(n).items = DOMAIN frames[n].items
         /\ IsKind(n, "sequence") => /\ FrameAsJson(n).index = frames[n].index
                                     /\ FrameAsJson(n).accumulator = AsJson(frames[n].accumulator)
         /\ IsKind(n, "conditional") => FrameAsJson(n) = frames[n]
<1>1. CASE IsKind(n, "task")
  BY <1>1 DEF FrameAsJson, IsKind, IsLoop
<1>2. CASE IsKind(n, "parallel")
  BY <1>2 DEF FrameAsJson, IsKind, IsLoop
<1>3. CASE IsLoop(n)
  BY <1>3 DEF FrameAsJson, IsKind, IsLoop
<1>4. CASE IsKind(n, "sequence")
  BY <1>4 DEF FrameAsJson, IsKind, IsLoop
<1>5. CASE IsKind(n, "conditional")
  BY <1>5 DEF FrameAsJson, IsKind, IsLoop
<1> QED BY <1>1, <1>2, <1>3, <1>4, <1>5 DEF IsKind, IsLoop

\* A checkpoint is read back, between passes.
Reread ==
  /\ frames' = FramesAsJson
  /\ UNCHANGED <<flow, ran>>
  /\ \A m \in Under(flow) : /\ ~HasFrame(m) => WalkedAt(m)' = WalkedAt(m)
                            /\ accumulator[m] = None /\ accumulator'[m] = None

LEMMA RereadFrames ==
  ASSUME Reread
  PROVE  /\ DOMAIN frames' = DOMAIN frames
         /\ \A m : HasFrame(m)' <=> HasFrame(m)
         /\ \A m \in DOMAIN frames : frames'[m] = FrameAsJson(m)
         /\ \A m \in DOMAIN frames : IsKind(m, "task") => frames'[m].wait = frames[m].wait
BY FrameRead DEF Reread, FramesAsJson, HasFrame

LEMMA RereadWalk ==
  ASSUME Executors, WalkInv, Reread
  PROVE  WalkInv' /\ \A t \in Under(flow) : Walk!Instance(t)' = Walk!Instance(t)
<1>1. ASSUME NEW m \in DOMAIN frames
      PROVE  /\ Walked'[m] = RecordedAt(m)' /\ RecordedAt(m)'.at = "busy"
             /\ Shape(m, Walked'[m])
             /\ ~IsKind(m, "task") /\ ~IsKind(m, "parallel") => Walked'[m].index = Walked[m].index
  <2>1. m \in Under(flow) /\ Walked[m] = RecordedAt(m) /\ Shape(m, Walked[m]) /\ Tree(m).kind \in Kinds
    BY FrameIsAtWork, TreeAssumption DEF WalkInv, Shaped, IsFormed
  <2>2. Walked'[m] = RecordedAt(m)'
    BY <2>1, RereadFrames DEF Walked, WalkedAt, Reread, HasFrame
  <2>3. frames'[m] = FrameAsJson(m)
    BY RereadFrames
  <2>4. CASE IsKind(m, "task")
    <3>1. RecordedAt(m)' = Running(frames'[m].inputs)
      BY <2>4 DEF RecordedAt, IsKind, IsLoop
    <3> QED BY <2>2, <2>4, <3>1, ExecutorsDiffer DEF Shape
  <2>5. CASE IsKind(m, "parallel")
    <3>1. RecordedAt(m)' = Waiting
      BY <2>5 DEF RecordedAt, IsKind, IsLoop
    <3> QED BY <2>2, <2>5, <3>1, ExecutorsDiffer DEF Shape
  <2>6. CASE IsLoop(m)
    <3>1. Walked[m] = Looping(frames[m].index, frames[m].items, frames[m].accumulator)
      BY <2>1, <2>6 DEF RecordedAt, IsKind, IsLoop
    <3>2. Walked'[m] = Looping(frames'[m].index, frames'[m].items, frames'[m].accumulator)
      BY <2>2, <2>6 DEF RecordedAt, IsKind, IsLoop
    <3>3. frames'[m].index = frames[m].index /\ DOMAIN frames'[m].items = DOMAIN frames[m].items
      BY <2>3, <2>6, FrameRead
    <3>4. frames[m].index \in Nat /\ (IsKind(m, "for_each") => frames[m].index \in DOMAIN frames[m].items)
      BY <2>1, <2>6, <3>1, ExecutorsDiffer DEF Shape, IsKind, IsLoop
    <3> QED BY <2>2, <2>6, <3>1, <3>2, <3>3, <3>4, ExecutorsDiffer DEF Shape
  <2>7. CASE IsKind(m, "sequence") \/ IsKind(m, "conditional")
    <3>1. Walked[m] = At(frames[m].index) /\ Walked'[m] = At(frames'[m].index)
      BY <2>1, <2>2, <2>7 DEF RecordedAt, IsKind, IsLoop
    <3>2. frames'[m].index = frames[m].index
      BY <2>3, <2>7, FrameRead
    <3> QED BY <2>1, <2>2, <3>1, <3>2, ExecutorsDiffer
  <2> QED BY <2>1, <2>4, <2>5, <2>6, <2>7 DEF Kinds, IsKind, IsLoop
<1>2. \A m \in Under(flow) : ~HasFrame(m) => Walked'[m] = Walked[m]
  BY DEF Walked, Reread
<1>3. Similar(flow, Walked, Walked')
  BY <1>1, <1>2, FrameIsAtWork DEF Similar, HasFrame
<1>4. Shaped(flow, Walked')
  BY <1>1, <1>2 DEF WalkInv, Shaped, HasFrame
<1>5. /\ Path(flow, Walked') /\ Fresh(flow, Walked', ran)
      /\ \A m \in Under(flow) : \A l \in LoopsAbove(m) : Walked'[l].index = Walked[l].index
  BY <1>3, SimilarWalks DEF WalkInv, Executors
<1>6. WalkInv'
  BY <1>4, <1>5 DEF WalkInv, Reread, Shaped, Path, Fresh, DoneTyped
<1>7. \A t \in Under(flow) : Walk!Instance(t)' = Walk!Instance(t)
  BY <1>5, WalkTree DEF Walk!Instance
<1> QED BY <1>6, <1>7

LEMMA RereadFits ==
  ASSUME Executors, FramesFit, Reread
  PROVE  FramesFit'
<1>1. SUFFICES ASSUME NEW n \in DOMAIN frames
      PROVE  /\ IsKind(n, "parallel") =>
                  DOMAIN frames'[n].outputs = Children(n) /\ \E b \in Children(n) : HasFrame(b)
             /\ ~IsKind(n, "parallel") /\ ~IsKind(n, "task") => HasFrame(ChildAt(n, frames'[n].index))
             /\ IsKind(n, "sequence") => frames'[n].accumulator = Accumulated'[Scope(n)]
  BY RereadFrames DEF FramesFit
<1>2. n \in Under(flow) /\ n \in Node /\ Tree(n).kind \in Kinds /\ frames'[n] = FrameAsJson(n)
  BY RereadFrames, InFlow, TreeAssumption DEF Executors, IsFormed
<1>3. IsKind(n, "parallel") => DOMAIN frames'[n].outputs = Children(n) /\ \E b \in Children(n) : HasFrame(b)
  BY <1>2, FrameRead DEF FramesFit
<1>4. ~IsKind(n, "parallel") /\ ~IsKind(n, "task") => HasFrame(ChildAt(n, frames'[n].index))
  <2>1. ~IsKind(n, "parallel") /\ ~IsKind(n, "task") => frames'[n].index = frames[n].index
    BY <1>2, FrameRead DEF Kinds, IsKind, IsLoop
  <2> QED BY <2>1 DEF FramesFit
<1>5. ASSUME IsKind(n, "sequence")
      PROVE  frames'[n].accumulator = Accumulated'[Scope(n)]
  <2>1. Scope(n) \in Under(flow) /\ OwnsAccumulator(Scope(n)) /\ IsKind(Scope(n), "sequence")
    BY <1>2, ScopeFacts, InFlow DEF Executors, OwnsAccumulator
  <2>2. frames'[n].accumulator = AsJson(frames[n].accumulator) /\ frames[n].accumulator = Accumulated[Scope(n)]
    BY <1>2, <1>5, FrameRead DEF FramesFit
  <2>3. Accumulated[Scope(n)] = AccumulatedAt(Scope(n)) /\ Accumulated'[Scope(n)] = AccumulatedAt(Scope(n))'
    BY <2>1 DEF Accumulated, Reread
  <2>4. CASE HasFrame(Scope(n))
    <3>1. AccumulatedAt(Scope(n)) = frames[Scope(n)].accumulator
      BY <2>1, <2>4 DEF AccumulatedAt
    <3>2. AccumulatedAt(Scope(n))' = frames'[Scope(n)].accumulator
      BY <2>1, <2>4, RereadFrames DEF AccumulatedAt
    <3>3. frames'[Scope(n)].accumulator = AsJson(frames[Scope(n)].accumulator)
      BY <2>1, <2>4, RereadFrames, FrameRead DEF HasFrame
    <3> QED BY <2>2, <2>3, <3>1, <3>2, <3>3
  <2>5. CASE ~HasFrame(Scope(n))
    <3>1. AccumulatedAt(Scope(n)) = None /\ AccumulatedAt(Scope(n))' = None
      BY <2>1, <2>5, RereadFrames DEF AccumulatedAt, Reread
    <3> QED BY <2>2, <2>3, <3>1 DEF AsJson
  <2> QED BY <2>4, <2>5
<1> QED BY <1>3, <1>4, <1>5

----------------------------------------------------------------------------
(* Passes keep the invariant *)

\* While nothing is at work there is neither an accumulator nor, off the flow, an output.
LEMMA NothingKept ==
  ASSUME flow \in Flows, Cleared, \A m \in Under(flow) : act[m] = Idle \/ act[m] = Returned
  PROVE  \A m \in Under(flow) : accumulator[m] = None /\ (m # flow => output[m] = <<>>)
<1>1. \A m \in Under(flow) : accumulator[m] = None
  BY ExecutorsDiffer DEF Cleared
<1>2. ASSUME NEW m \in Under(flow), m # flow
      PROVE  output[m] = <<>>
  <2>1. IsBranch(m) => Parent(m) \in Under(flow)
    BY InFlow, ParentOf DEF IsBranch, UpTo
  <2> QED BY <1>2, <2>1, ExecutorsDiffer DEF Cleared
<1> QED BY <1>1, <1>2

LEMMA PassSuspendsInv ==
  ASSUME IInv, PassSuspends
  PROVE  IInv'
<1>1. /\ act[flow] = Returned /\ HasFrame(flow) /\ status' = "suspended"
      /\ frames' = FramesAsJson
      /\ act' = [n \in Under(flow) |-> Idle]
      /\ output' = [n \in Under(flow) |-> <<>>]
      /\ accumulator' = [n \in Under(flow) |-> None]
      /\ UNCHANGED <<flow, resolutions, snapshots, ran, asked, resolved>>
  BY DEF PassSuspends, Everywhere
<1>2. flow \in Flows /\ status = "running" /\ (\A m \in Under(flow) : m # flow => act[m] = Idle)
      /\ (\A m \in Under(flow) : act[m] = Idle \/ act[m] = Returned)
      /\ DOMAIN frames \subseteq Under(flow)
  BY <1>1, RootReturned DEF IInv, Executors
<1>3. Reread
  <2>1. \A m : HasFrame(m)' <=> HasFrame(m)
    BY <1>1 DEF HasFrame, FramesAsJson
  <2>2. \A m \in Under(flow) : ~HasFrame(m) => WalkedAt(m)' = WalkedAt(m)
    BY <1>1, <1>2, <2>1, ExecutorsDiffer DEF WalkedAt
  <2>3. \A m \in Under(flow) : accumulator[m] = None
    BY <1>2, NothingKept DEF IInv
  <2> QED BY <1>1, <2>2, <2>3 DEF Reread
<1>4. /\ DOMAIN frames' = DOMAIN frames
      /\ \A m : HasFrame(m)' <=> HasFrame(m)
      /\ \A m \in DOMAIN frames : IsKind(m, "task") => frames'[m].wait = frames[m].wait
  BY <1>3, RereadFrames
<1>5. DOMAIN act' = Under(flow) /\ Shaped(flow, act') /\ Path(flow, act') /\ \A m \in Under(flow) : act'[m].at # "busy"
  BY <1>1, <1>2, NothingAtWork
<1>6. Executors'
  BY <1>1, <1>2, <1>4, <1>5 DEF Executors, Shaped, Path
<1>7. Phases' /\ Cleared'
  BY <1>1, <1>4 DEF Phases, Cleared
<1>8. FramesFit' /\ WalkInv' /\ \A t \in Under(flow) : Walk!Instance(t)' = Walk!Instance(t)
  BY <1>3, RereadFits, RereadWalk DEF IInv
<1>9. Reports'
  BY <1>1, <1>4, <1>5, <1>8 DEF IInv, Reports, HasFrame
<1>10. SuspendedWait' /\ Lists' /\ TasksRunOnce' /\ WaitsAreUnique'
  BY <1>1, <1>4 DEF IInv, SuspendedWait, Lists, TasksRunOnce, WaitsAreUnique
<1>11. WaitsFit'
  BY <1>1, <1>2, <1>4, ExecutorsDiffer DEF IInv, WaitsFit
<1>12. GoesOn'
  <2>1. \A t \in DOMAIN frames : flow \in UpTo(t)
    BY <1>2, InFlow
  <2> QED BY <1>1, <1>4, <2>1 DEF IInv, GoesOn
<1> QED BY <1>6, <1>7, <1>8, <1>9, <1>10, <1>11, <1>12 DEF IInv

LEMMA PassFailsInv ==
  ASSUME IInv, PassFails
  PROVE  IInv'
<1>1. /\ act[flow] = Returned /\ HasFrame(flow) /\ status' = "failed"
      /\ act' = [n \in Under(flow) |-> Idle]
      /\ UNCHANGED <<flow, frames, output, accumulator, resolutions, snapshots, ran, asked, resolved>>
  BY DEF PassFails, Everywhere, kept
<1>2. flow \in Flows /\ status = "running" /\ (\A m \in Under(flow) : m # flow => act[m] = Idle)
      /\ (\A m \in Under(flow) : act[m] = Idle \/ act[m] = Returned)
      /\ DOMAIN frames \subseteq Under(flow) /\ DOMAIN output = Under(flow) /\ DOMAIN accumulator = Under(flow)
  BY <1>1, RootReturned DEF IInv, Executors
<1>3. DOMAIN act' = Under(flow) /\ Shaped(flow, act') /\ Path(flow, act') /\ \A m \in Under(flow) : act'[m].at # "busy"
  BY <1>1, <1>2, NothingAtWork
<1>4. Executors' /\ Phases'
  BY <1>1, <1>2, <1>3 DEF Executors, Shaped, Path, Phases
<1>5. \A m : HasFrame(m)' <=> HasFrame(m)
  BY <1>1 DEF HasFrame
<1>6. Walked' = Walked
  <2>1. \A m \in Under(flow) : RecordedAt(m)' = RecordedAt(m)
    BY <1>1 DEF RecordedAt
  <2>2. \A m \in Under(flow) : WalkedAt(m)' = WalkedAt(m)
    BY <1>1, <1>2, <1>5, <2>1, ExecutorsDiffer DEF WalkedAt
  <2> QED BY <1>1, <2>2 DEF Walked
<1>7. Accumulated' = Accumulated
  <2>1. \A m \in Under(flow) : AccumulatedAt(m)' = AccumulatedAt(m)
    BY <1>1, <1>5 DEF AccumulatedAt
  <2> QED BY <1>1, <2>1 DEF Accumulated
<1>8. FramesFit'
  BY <1>1, <1>5, <1>7 DEF IInv, FramesFit
<1>9. Cleared'
  BY <1>1, <1>2, NothingKept DEF IInv, Cleared
<1>10. WalkInv'
  BY <1>1, <1>6 DEF IInv, WalkInv, Shaped, Path, DoneTyped, Fresh
<1>11. Reports' /\ SuspendedWait'
  BY <1>1, <1>3, <1>5, <1>6 DEF IInv, Reports, SuspendedWait, Walk!Instance
<1>12. Lists' /\ TasksRunOnce' /\ WaitsAreUnique'
  BY <1>1 DEF IInv, Lists, TasksRunOnce, WaitsAreUnique
<1>13. WaitsFit'
  BY <1>1, <1>2, ExecutorsDiffer DEF IInv, WaitsFit
<1>14. GoesOn'
  <2>1. \A t \in DOMAIN frames : flow \in UpTo(t)
    BY <1>2, InFlow
  <2> QED BY <1>1, <2>1 DEF IInv, GoesOn
<1> QED BY <1>4, <1>8, <1>9, <1>10, <1>11, <1>12, <1>13, <1>14 DEF IInv

LEMMA PassFinishesInv ==
  ASSUME IInv, PassFinishes
  PROVE  IInv'
<1>1. /\ act[flow] = Returned /\ status' = "finished"
      /\ act' = [n \in Under(flow) |-> Idle]
      /\ UNCHANGED <<flow, frames, output, accumulator, resolutions, snapshots, ran, asked, resolved>>
  BY DEF PassFinishes, Everywhere, kept
<1>2. flow \in Flows /\ status = "running" /\ (\A m \in Under(flow) : act[m] = Idle \/ act[m] = Returned)
      /\ DOMAIN output = Under(flow) /\ DOMAIN accumulator = Under(flow)
  BY <1>1, RootReturned DEF IInv, Executors
<1>3. DOMAIN frames = {}
  BY PassFinishesWalks DEF IInv, WalkInv
<1>4. DOMAIN act' = Under(flow) /\ Shaped(flow, act') /\ Path(flow, act') /\ \A m \in Under(flow) : act'[m].at # "busy"
  BY <1>1, <1>2, NothingAtWork
<1>5. Executors' /\ Phases' /\ FramesFit'
  BY <1>1, <1>2, <1>3, <1>4 DEF Executors, Shaped, Path, Phases, FramesFit
<1>6. Cleared'
  <2>1. \A m \in Under(flow) : accumulator[m] = None
    BY <1>2, ExecutorsDiffer DEF IInv, Cleared
  <2>2. ASSUME NEW m \in Under(flow), m # flow
        PROVE  output[m] = <<>>
    <3>1. IsBranch(m) => Parent(m) \in Under(flow)
      BY <1>2, InFlow, ParentOf DEF IsBranch, UpTo
    <3> QED BY <1>2, <2>2, <3>1, ExecutorsDiffer DEF IInv, Cleared
  <2> QED BY <1>1, <2>1, <2>2 DEF Cleared
<1>7. WalkInv'
  <2>1. \A m \in Under(flow) : WalkedAt(m)' = Idle
    BY <1>1, <1>3 DEF WalkedAt, HasFrame
  <2>2. Walked' = [m \in Under(flow) |-> Idle]
    BY <1>1, <2>1 DEF Walked
  <2>3. Shaped(flow, Walked') /\ Path(flow, Walked') /\ Fresh(flow, Walked', ran)
    BY <1>2, <2>2, NothingAtWork, IdleFresh
  <2> QED BY <1>1, <2>3 DEF IInv, WalkInv, Shaped, Path, DoneTyped, Fresh
<1>8. Reports' /\ SuspendedWait'
  BY <1>1, <1>3, <1>4 DEF IInv, Reports, SuspendedWait, HasFrame
<1>9. Lists' /\ TasksRunOnce' /\ WaitsAreUnique'
  BY <1>1 DEF IInv, Lists, TasksRunOnce, WaitsAreUnique
<1>10. WaitsFit' /\ GoesOn'
  BY <1>1, <1>2, <1>3, ExecutorsDiffer DEF IInv, WaitsFit, GoesOn
<1> QED BY <1>5, <1>6, <1>7, <1>8, <1>9, <1>10 DEF IInv

LEMMA ResumeInv ==
  ASSUME IInv, NEW wait \in OpenWaits, Resume(wait)
  PROVE  IInv'
<1>1. /\ status = "suspended" /\ status' = "running" /\ act' = [act EXCEPT ![flow] = Called]
      /\ output' = [output EXCEPT ![flow] = OutputAsJson(saved)]
      /\ frames' = FramesAsJson
      /\ resolutions' = {wait} /\ resolved' = Append(resolved, wait)
      /\ UNCHANGED <<flow, accumulator, snapshots, ran, asked>>
  BY DEF Resume, Reported, Resolving
<1>2. flow \in Flows /\ (\A m \in Under(flow) : act[m] = Idle) /\ DOMAIN act = Under(flow)
      /\ DOMAIN frames \subseteq Under(flow) /\ DOMAIN output = Under(flow) /\ DOMAIN accumulator = Under(flow)
  BY <1>1 DEF IInv, Executors, Phases
<1>3. \A m \in Under(flow) : accumulator[m] = None /\ (m # flow => output[m] = <<>>)
  BY <1>2, NothingKept DEF IInv
<1>4. act' = [[m \in Under(flow) |-> Idle] EXCEPT ![flow] = Called]
  BY <1>1, <1>2
<1>5. /\ DOMAIN act' = Under(flow) /\ Shaped(flow, act') /\ Path(flow, act')
      /\ \A m \in Under(flow) : act'[m] # Returned /\ act'[m].at # "busy"
  BY <1>2, <1>4, NothingAtWork
<1>6. Reread
  <2>1. \A m : HasFrame(m)' <=> HasFrame(m)
    BY <1>1 DEF HasFrame, FramesAsJson
  <2>2. HasFrame(flow)
    BY <1>1 DEF IInv, Phases
  <2>3. \A m \in Under(flow) : ~HasFrame(m) => WalkedAt(m)' = WalkedAt(m)
    BY <1>1, <1>2, <2>1, <2>2 DEF WalkedAt
  <2> QED BY <1>1, <1>3, <2>3 DEF Reread
<1>7. /\ DOMAIN frames' = DOMAIN frames
      /\ \A m : HasFrame(m)' <=> HasFrame(m)
      /\ \A m \in DOMAIN frames : IsKind(m, "task") => frames'[m].wait = frames[m].wait
  BY <1>6, RereadFrames
<1>8. Executors' /\ Phases'
  BY <1>1, <1>2, <1>5, <1>7 DEF Executors, Shaped, Path, Phases
<1>9. FramesFit' /\ WalkInv' /\ \A m \in Under(flow) : Walk!Instance(m)' = Walk!Instance(m)
  BY <1>6, RereadFits, RereadWalk DEF IInv
<1>10. Cleared'
  BY <1>1, <1>2, <1>3 DEF Cleared
<1>11. Reports'
  BY <1>1, <1>5, <1>9, <1>7 DEF IInv, Reports, HasFrame
<1>12. SuspendedWait' /\ TasksRunOnce'
  BY <1>1, <1>7 DEF IInv, SuspendedWait, TasksRunOnce
<1>13. PICK t \in DOMAIN frames : IsKind(t, "task") /\ frames[t].wait = wait
  BY DEF OpenWaits, WaitsUnder, HasFrame
<1>14. wait \notin Range(resolved) /\ wait \in Range(asked)
  BY <1>1, <1>13 DEF IInv, GoesOn, WaitsFit
<1>15. Listed(resolved') /\ Range(resolved') = Range(resolved) \cup {wait} /\ IsInjective(resolved')
  BY <1>1, <1>14, AppendedLists, AppendedInjective DEF IInv, Lists, WaitsAreUnique
<1>16. Lists' /\ WaitsAreUnique'
  BY <1>1, <1>15 DEF IInv, Lists, WaitsAreUnique
<1>17. WaitsFit'
  BY <1>1, <1>2, <1>14, <1>15, <1>7, ExecutorsDiffer DEF IInv, WaitsFit
<1>18. GoesOn'
  <2>1. SUFFICES ASSUME NEW s \in DOMAIN frames, IsKind(s, "task"), frames[s].wait \in Range(resolved')
                 PROVE  frames[s].wait \in {wait} /\ \A a \in UpTo(s) : act'[a] # Returned
    BY <1>1, <1>7 DEF GoesOn
  <2>2. frames[s].wait = wait
    BY <1>1, <1>15, <2>1 DEF IInv, GoesOn
  <2>3. UpTo(s) \subseteq Under(flow)
    BY <1>2, InFlow
  <2> QED BY <1>5, <2>2, <2>3
<1> QED BY <1>8, <1>9, <1>10, <1>11, <1>12, <1>16, <1>17, <1>18 DEF IInv

LEMMA StepSuspendsStays ==
  ASSUME Executors, Phases, Cleared, Reports, NEW n \in Under(flow), StepSuspends(n)
  PROVE  WalkStays
BY TaskAsksStays, SequenceSuspendsStays, ConditionalSuspendsStays, LoopSuspendsStays, ParallelSuspendsStays
   DEF StepSuspends

LEMMA StepResumesStays ==
  ASSUME Executors, Phases, Shaped(flow, Walked), FramesFit, Reports, NEW n \in Under(flow), StepResumes(n)
  PROVE  WalkStays
BY TaskResumesStays, SequenceResumesStays, ConditionalResumesStays, LoopResumesStays, ParallelResumesStays
   DEF StepResumes

\* An executor has its turn in a pass only.
LEMMA PhasesTurn ==
  ASSUME Phases, NEW n, Turns(n)
  PROVE  status = "running" /\ Phases'
BY DEF Phases, Turns

LEMMA StepRunsInv ==
  ASSUME IInv, NEW n \in Under(flow), StepRuns(n)
  PROVE  IInv'
<1>1. Executors /\ Phases /\ FramesFit /\ Cleared /\ WalkInv /\ Reports /\ SuspendedWait /\ Lists /\ TasksRunOnce
      /\ WaitsAreUnique /\ WaitsFit /\ GoesOn
  BY DEF IInv
<1>2. Turns(n) /\ UNCHANGED frames /\ ~HasFrame(n)
  BY <1>1, StepRunsTurn DEF StepRuns, Unframed
<1>3. Executors'
  <2>1. DOMAIN frames' \subseteq DOMAIN frames \cup {n} /\ ~HasFrame(n)'
    BY <1>2 DEF HasFrame
  <2> QED BY <1>1, <1>2, <2>1, ExecutorsTurn
<1>4. Phases'
  BY <1>1, <1>2, PhasesTurn
<1>5. Cleared'
  BY <1>1, <1>2, StepSettles, ClearedTurn DEF StepRuns
<1>6. FramesFit'
  BY <1>1, FramesFitRuns
<1>7. WalkInv'
  BY <1>1, WalkInvRuns
<1>8. Reports' /\ SuspendedWait'
  BY <1>1, ReportsRun
<1>9. Lists' /\ TasksRunOnce' /\ WaitsFit' /\ GoesOn'
  BY <1>1, WaitsRun
<1>10. WaitsAreUnique'
  BY <1>1 DEF WaitsAreUnique, StepRuns, kept
<1> QED BY <1>3, <1>4, <1>5, <1>6, <1>7, <1>8, <1>9, <1>10 DEF IInv

LEMMA StepSuspendsInv ==
  ASSUME IInv, NEW n \in Under(flow), StepSuspends(n)
  PROVE  IInv'
<1>1. Executors /\ Phases /\ FramesFit /\ Cleared /\ WalkInv /\ Reports /\ SuspendedWait /\ Lists /\ TasksRunOnce
      /\ WaitsAreUnique /\ WaitsFit /\ GoesOn
  BY DEF IInv
<1>2. WalkStays
  BY <1>1, StepSuspendsStays
<1>3. Turns(n) /\ act'[n].at # "busy" /\ DOMAIN frames' \subseteq DOMAIN frames \cup {n}
  BY <1>1, StepSuspendsTurn, ExecutorsDiffer
<1>4. Executors' /\ Phases'
  BY <1>1, <1>3, ExecutorsTurn, PhasesTurn
<1>5. Cleared'
  BY <1>1, <1>3, StepSuspendsSettles, ClearedTurn
<1>6. FramesFit' /\ WalkInv' /\ Reports' /\ SuspendedWait'
  BY <1>1, <1>2, FramesFitSuspends, WalkInvStays, ReportsSuspend
<1>7. Lists' /\ WaitsAreUnique' /\ WaitsFit' /\ GoesOn'
  BY <1>1, WaitsSuspend
<1>8. TasksRunOnce'
  BY <1>1, <1>2 DEF TasksRunOnce, WalkStays
<1> QED BY <1>4, <1>5, <1>6, <1>7, <1>8 DEF IInv

LEMMA StepResumesInv ==
  ASSUME IInv, NEW n \in Under(flow), StepResumes(n)
  PROVE  IInv'
<1>1. Executors /\ Phases /\ FramesFit /\ Cleared /\ WalkInv /\ Reports /\ SuspendedWait /\ Lists /\ TasksRunOnce
      /\ WaitsAreUnique /\ WaitsFit /\ GoesOn /\ Shaped(flow, Walked)
  BY DEF IInv, WalkInv
<1>2. WalkStays
  BY <1>1, StepResumesStays
<1>3. /\ Turns(n) /\ DOMAIN frames' \subseteq DOMAIN frames
      /\ HasFrame(n)' => act'[n].at # "busy"
      /\ ~HasFrame(n)' => act'[n].at = "busy"
  <2>1. /\ Turns(n) /\ DOMAIN frames' \subseteq DOMAIN frames
        /\ HasFrame(n)' => act'[n] = Returned
        /\ ~HasFrame(n)' => act'[n].at = "busy"
    BY <1>1, StepResumesTurn
  <2> QED BY <2>1, ExecutorsDiffer
<1>4. Executors' /\ Phases'
  BY <1>1, <1>3, ExecutorsTurn, PhasesTurn
<1>5. Cleared'
  BY <1>1, <1>3, StepResumesSettles, ClearedTurn
<1>6. FramesFit' /\ WalkInv' /\ Reports' /\ SuspendedWait'
  BY <1>1, <1>2, FramesFitResumes, WalkInvStays, ReportsResume
<1>7. Lists' /\ WaitsAreUnique' /\ WaitsFit' /\ GoesOn'
  BY <1>1, WaitsResume
<1>8. TasksRunOnce'
  BY <1>1, <1>2 DEF TasksRunOnce, WalkStays
<1> QED BY <1>4, <1>5, <1>6, <1>7, <1>8 DEF IInv

LEMMA StutterInv ==
  ASSUME IInv, UNCHANGED vars
  PROVE  IInv'
<1>1. UNCHANGED <<flow, status, act, frames, output, saved, accumulator, resolutions, snapshots, ran, asked, resolved>>
  BY DEF vars
<1>2. \A t : Instance(t)' = Instance(t)
  BY <1>1 DEF Instance
<1>3. Walked' = Walked /\ Accumulated' = Accumulated /\ (\A m : HasFrame(m)' <=> HasFrame(m))
  <2>1. \A m : RecordedAt(m)' = RecordedAt(m) /\ (HasFrame(m)' <=> HasFrame(m))
    BY <1>1 DEF RecordedAt, HasFrame
  <2>2. \A m : WalkedAt(m)' = WalkedAt(m) /\ AccumulatedAt(m)' = AccumulatedAt(m)
    BY <1>1, <2>1 DEF WalkedAt, AccumulatedAt
  <2> QED BY <1>1, <2>1, <2>2 DEF Walked, Accumulated
<1>4. \A t : Walk!Instance(t)' = Walk!Instance(t)
  BY <1>3 DEF Walk!Instance
<1>5. Executors' /\ Phases'
  BY <1>1, <1>3 DEF IInv, Executors, Phases, Shaped, Path
<1>6. FramesFit' /\ Cleared'
  BY <1>1, <1>3 DEF IInv, FramesFit, Cleared
<1>7. WalkInv'
  BY <1>1, <1>3 DEF IInv, WalkInv, Shaped, Path, DoneTyped, Fresh
<1>8. Reports' /\ SuspendedWait'
  BY <1>1, <1>2, <1>3, <1>4 DEF IInv, Reports, SuspendedWait
<1>9. Lists' /\ TasksRunOnce' /\ WaitsAreUnique'
  BY <1>1 DEF IInv, Lists, TasksRunOnce, WaitsAreUnique
<1>10. WaitsFit' /\ GoesOn'
  BY <1>1, <1>2 DEF IInv, WaitsFit, GoesOn
<1> QED BY <1>5, <1>6, <1>7, <1>8, <1>9, <1>10 DEF IInv

LEMMA NextInv ==
  ASSUME IInv, [Next]_vars
  PROVE  IInv'
<1>1. CASE Start \/ PassSuspends \/ PassFails \/ PassFinishes
  BY <1>1, StartInv, PassSuspendsInv, PassFailsInv, PassFinishesInv
<1>2. CASE \E wait \in OpenWaits : Resume(wait)
  BY <1>2, ResumeInv
<1>3. CASE \E n \in Under(flow) : StepRuns(n) \/ StepSuspends(n) \/ StepResumes(n)
  BY <1>3, StepRunsInv, StepSuspendsInv, StepResumesInv
<1>4. CASE UNCHANGED vars
  BY <1>4, StutterInv
<1> QED BY <1>1, <1>2, <1>3, <1>4 DEF Next

LEMMA Invariance == Spec => []IInv
BY InitInv, NextInv, PTL DEF Spec

----------------------------------------------------------------------------
(* The theorems *)

LEMMA InitWalks ==
  ASSUME Init
  PROVE  Walk!Init
<1>1. /\ flow \in Flows
      /\ act = [m \in Under(flow) |-> Idle]
      /\ output = [m \in Under(flow) |-> <<>>]
      /\ accumulator = [m \in Under(flow) |-> None]
      /\ status = "idle" /\ snapshots = <<>> /\ ran = <<>> /\ DOMAIN frames = {}
  BY DEF Init, Everywhere
<1>2. \A m : ~HasFrame(m)
  BY <1>1 DEF HasFrame
<1>3. Walked = [m \in Under(flow) |-> Idle]
  BY <1>1, <1>2 DEF Walked, WalkedAt
<1>4. Written = [m \in Under(flow) |-> <<>>]
  BY <1>1, <1>2 DEF Written, WrittenAt
<1>5. Accumulated = [m \in Under(flow) |-> None]
  BY <1>1, <1>2 DEF Accumulated, AccumulatedAt
<1>6. Told = <<>>
  <2>1. DOMAIN snapshots = {}
    BY <1>1
  <2> QED BY <2>1 DEF Told
<1> QED BY <1>1, <1>3, <1>4, <1>5, <1>6, WalkTree DEF Walk!Init, Walk!Everywhere, Progress

LEMMA NextWalks ==
  ASSUME IInv, LosesNothing, [Next]_vars
  PROVE  [Walk!Next]_(Walk!vars)
<1>1. Executors /\ Phases /\ FramesFit /\ Cleared /\ Reports /\ Shaped(flow, Walked) /\ Path(flow, Walked)
  BY DEF IInv, WalkInv
<1>2. CASE Start
  BY <1>1, <1>2, StartWalks DEF Walk!Next
<1>3. CASE PassFinishes
  BY <1>1, <1>3, PassFinishesWalks DEF Walk!Next
<1>4. CASE \E n \in Under(flow) : StepRuns(n)
  BY <1>1, <1>4, StepRunsWalks, WalkTree DEF Walk!Next
<1>5. ASSUME WalkStays
      PROVE  UNCHANGED Walk!vars
  BY <1>5 DEF WalkStays, Walk!vars
<1>6. CASE PassSuspends
  BY <1>1, <1>5, <1>6, PassSuspendsStays
<1>7. CASE PassFails
  BY <1>7 DEF PassFails, LosesNothing
<1>8. CASE \E wait \in OpenWaits : Resume(wait)
  BY <1>1, <1>5, <1>8, ResumeStays
<1>9. CASE \E n \in Under(flow) : StepSuspends(n) \/ StepResumes(n)
  BY <1>1, <1>5, <1>9, StepSuspendsStays, StepResumesStays
<1>10. CASE UNCHANGED vars
  <2>1. UNCHANGED <<flow, status, act, frames, output, saved, accumulator, snapshots, ran>>
    BY <1>10 DEF vars
  <2>2. \A m : RecordedAt(m)' = RecordedAt(m) /\ (HasFrame(m)' <=> HasFrame(m))
    BY <2>1 DEF RecordedAt, HasFrame
  <2>3. \A m : WalkedAt(m)' = WalkedAt(m) /\ WrittenAt(m)' = WrittenAt(m) /\ AccumulatedAt(m)' = AccumulatedAt(m)
    BY <2>1, <2>2 DEF WalkedAt, WrittenAt, AccumulatedAt
  <2>4. WalkStays
    BY <2>1, <2>3 DEF WalkStays, Progress, Walked, Written, Accumulated, Told
  <2> QED BY <1>5, <2>4
<1> QED BY <1>2, <1>3, <1>4, <1>6, <1>8, <1>9, <1>10, <1>7 DEF Next

\* Each step of an executor is a step of executeFlow's walk, with the outputs, the accumulator
\* and the iteration it would have seen; suspending, ending a pass and resuming change nothing
\* of what the walk has come to.  A pass that ends on a checkpoint which JSON does not read
\* back, or cannot encode, and a resume from one, are left out.
THEOREM StepsAreOfTheWalk == Spec => ImplementsWalk
<1>1. IInv /\ [Next]_vars => [LosesNothing => Walk!Next]_(Walk!vars)
  BY NextWalks
<1> QED BY <1>1, InitWalks, Invariance, PTL DEF Spec, ImplementsWalk

\* A run whose checkpoints hold only values that JSON reads back as they are, in which it
\* suspends at waits and is resumed, in whatever order its waits are resolved, is a run that
\* nothing interrupts.
THEOREM SuspensionIsInvisible == Spec /\ []LosesNothing => Walk!Spec
<1>1. LosesNothing /\ [LosesNothing => Walk!Next]_(Walk!vars) => [Walk!Next]_(Walk!vars)
  OBVIOUS
<1> QED BY <1>1, StepsAreOfTheWalk, PTL DEF ImplementsWalk, Walk!Spec

\* A task instance, which is a step in the iterations it is in, is completed by one call of its
\* action, whatever was resumed around it.
THEOREM CompletesOnce == Spec => []TasksRunOnce
<1>1. IInv => TasksRunOnce
  BY DEF IInv
<1> QED BY <1>1, Invariance, PTL

\* No wait is opened twice or resolved twice: an id names one wait of a run.
THEOREM WaitIdsAreUnique == Spec => []WaitsAreUnique
<1>1. IInv => WaitsAreUnique
  BY DEF IInv
<1> QED BY <1>1, Invariance, PTL

\* A pass goes on from the wait it resolved, past keepRecordedBranch in every block above it, so
\* that a suspended run holds none that is resolved.
THEOREM ResolvedWaitsAreGone == Spec => []ResolvedWaitsClose
<1>1. IInv => ResolvedWaitsClose
  BY DEF IInv, GoesOn, ResolvedWaitsClose, OpenWaits, WaitsUnder, HasFrame
<1> QED BY <1>1, Invariance, PTL

LEMMA TurnKeepsWait ==
  ASSUME IInv, NEW n \in Under(flow), StepRuns(n) \/ StepSuspends(n) \/ StepResumes(n),
         NEW t \in DOMAIN frames, IsKind(t, "task"), frames[t].wait \notin Range(resolved)
  PROVE  t \in DOMAIN frames' /\ frames'[t] = frames[t]
<1>1. Executors /\ Phases /\ FramesFit /\ WaitsFit /\ Shaped(flow, Walked)
  BY DEF IInv, WalkInv
<1>2. frames[t].wait \notin resolutions
  BY <1>1 DEF WaitsFit
<1>3. CASE StepRuns(n)
  BY <1>3 DEF StepRuns
<1>4. CASE StepSuspends(n)
  <2>1. act[n].at = "busy" /\ OnlyFrameOf(n)
    BY <1>1, <1>4, StepSuspendsTurn
  <2>2. t # n
    BY <1>1, <2>1 DEF Executors
  <2> QED BY <2>1, <2>2 DEF OnlyFrameOf, HasFrame
<1>5. CASE StepResumes(n)
  <2>1. OnlyFrameOf(n)
    BY <1>1, <1>5, StepResumesTurn
  <2>2. CASE t = n
    <3>1. TaskResumes(t)
      BY <1>5, <2>2 DEF StepResumes, SequenceResumes, ConditionalResumes, LoopResumes, ParallelResumes, IsKind, IsLoop
    <3> QED BY <1>2, <3>1 DEF TaskResumes
  <2>3. CASE t # n
    BY <2>1, <2>3 DEF OnlyFrameOf, HasFrame
  <2> QED BY <2>2, <2>3
<1> QED BY <1>3, <1>4, <1>5

\* What a pass does not resolve it leaves parked: the frame of a waiting task, with the inputs
\* recorded for it or what JSON makes of them, is there until the wait is resolved.
THEOREM ParkedFramesStay == Spec => ParkedWaitsStay
<1> DEFINE Keeps == \A n \in DOMAIN frames :
                      IsKind(n, "task") /\ frames[n].wait \notin Range(resolved)
                        => n \in DOMAIN frames' /\ frames'[n] \in {frames[n], FrameAsJson(n)}
<1>1. IInv /\ [Next]_vars => [Keeps]_vars
  <2>1. SUFFICES ASSUME IInv, Next
                 PROVE  Keeps
    OBVIOUS
  <2>2. CASE UNCHANGED frames
    BY <2>2
  <2>3. CASE \E n \in Under(flow) : StepRuns(n) \/ StepSuspends(n) \/ StepResumes(n)
    BY <2>1, <2>3, TurnKeepsWait
  <2>4. CASE frames' = FramesAsJson
    BY <2>4 DEF FramesAsJson
  <2> QED BY <2>1, <2>2, <2>3, <2>4 DEF Next, Start, PassSuspends, PassFails, PassFinishes, Resume
<1> QED BY <1>1, Invariance, PTL DEF Spec, ParkedWaitsStay

\* A checkpoint holds the frames of all those above a frame.
LEMMA FramesHang ==
  ASSUME Executors, Phases, WalkInv, status = "suspended", NEW n \in DOMAIN frames, Parent(n) # None
  PROVE  HasFrame(Parent(n))
<1>1. n \in Under(flow) /\ n \in Node /\ Walked[n] # Idle
  BY FrameIsAtWork, ExecutorsDiffer
<1>2. Parent(n) \in Above(n) /\ Parent(n) \in Under(flow)
  BY <1>1, ParentOf, InFlow DEF UpTo, Executors
<1>3. Walked[Parent(n)].at = "busy"
  BY <1>1, <1>2 DEF WalkInv, Path, LeadsTo
<1>4. act[Parent(n)] = Idle
  BY <1>2 DEF Phases
<1> QED BY <1>2, <1>3, <1>4, WalkedIs, ExecutorsDiffer DEF WalkedAt

\* The frame of a sequence, a conditional or a loop holds that of the child it is at.
LEMMA FrameHolds ==
  ASSUME Executors, Phases, WalkInv, FramesFit, NEW n \in DOMAIN frames, ~IsKind(n, "task"), ~IsKind(n, "parallel")
  PROVE  /\ IsKind(n, "for_each") => frames[n].index \in DOMAIN frames[n].items
         /\ ~IsLoop(n) => frames[n].index \in Positions(n)
         /\ {c \in Children(n) : HasFrame(c)} = {ChildAt(n, frames[n].index)}
<1>1. n \in Under(flow) /\ n \in Node /\ Walked[n] = RecordedAt(n) /\ Walked[n].at = "busy"
  BY FrameIsAtWork
<1>2. Shape(n, Walked[n])
  BY <1>1 DEF WalkInv, Shaped
<1>3. IsLoop(n) => Walked[n] = Looping(frames[n].index, frames[n].items, frames[n].accumulator)
  BY <1>1 DEF RecordedAt
<1>4. ~IsLoop(n) => Walked[n] = At(frames[n].index)
  BY <1>1 DEF RecordedAt
<1>5. Walked[n].index = frames[n].index
  BY <1>3, <1>4, ExecutorsDiffer
<1>6. IsKind(n, "for_each") => frames[n].index \in DOMAIN frames[n].items
  <2>1. IsKind(n, "for_each") => IsLoop(n) /\ ~IsKind(n, "sequence") /\ ~IsKind(n, "conditional")
    BY DEF IsKind, IsLoop
  <2>2. IsKind(n, "for_each") => Walked[n].index \in DOMAIN Walked[n].items
    BY <1>1, <1>2, <2>1, ExecutorsDiffer DEF Shape
  <2> QED BY <1>3, <1>5, <2>1, <2>2, ExecutorsDiffer
<1>7. ~IsLoop(n) => frames[n].index \in Positions(n)
  BY <1>1, <1>2, <1>5, ExecutorsDiffer DEF Shape
<1>8. ChildAt(n, frames[n].index) \in Children(n) /\ HasFrame(ChildAt(n, frames[n].index))
  BY <1>1, <1>2, <1>5, ChildAtIsChild DEF FramesFit
<1>9. ASSUME NEW c \in Children(n), HasFrame(c)
      PROVE  c = ChildAt(n, frames[n].index)
  <2>1. c \in Under(flow) /\ c \in Node /\ Walked[c] # Idle
    BY <1>9, FrameIsAtWork, ExecutorsDiffer DEF HasFrame
  <2>2. n \in Above(c) /\ c \in UpTo(c)
    BY <1>1, ChildrenOf DEF UpTo
  <2>3. ChildAt(n, frames[n].index) \in UpTo(c)
    BY <1>5, <2>1, <2>2 DEF WalkInv, Path, LeadsTo
  <2> QED BY <1>1, <1>8, <2>1, <2>2, <2>3, OneChildTowards
<1> QED BY <1>6, <1>7, <1>8, <1>9

LEMMA TypedImplies ==
  ASSUME IInv
  PROVE  CheckpointsFit
<1>1. Executors /\ Phases /\ WalkInv /\ FramesFit
  BY DEF IInv
<1>2. flow \in Flows /\ status \in {"idle", "running", "suspended", "failed", "finished"}
      /\ (status = "suspended" => HasFrame(flow)) /\ DOMAIN frames \subseteq Under(flow)
  BY <1>1 DEF Executors, Phases
<1>3. ASSUME status = "suspended", NEW n \in DOMAIN frames
      PROVE  ValidFrame(n)
  <2>1. Parent(n) # None => HasFrame(Parent(n))
    BY <1>1, <1>3, FramesHang
  <2>2. IsKind(n, "parallel") => DOMAIN frames[n].outputs = Children(n) /\ \E b \in Children(n) : HasFrame(b)
    BY <1>1 DEF FramesFit
  <2>3. ~IsKind(n, "task") /\ ~IsKind(n, "parallel") =>
          /\ IsKind(n, "for_each") => frames[n].index \in DOMAIN frames[n].items
          /\ ~IsLoop(n) => frames[n].index \in Positions(n)
          /\ {c \in Children(n) : HasFrame(c)} = {ChildAt(n, frames[n].index)}
    BY <1>1, FrameHolds
  <2> QED BY <2>1, <2>2, <2>3 DEF ValidFrame
<1>4. OpenWaits = {i \in DOMAIN snapshots : snapshots[i] = "suspended"}
  <2>1. OpenWaits \subseteq {i \in DOMAIN snapshots : snapshots[i] = "suspended"}
    BY DEF IInv, Reports, OpenWaits, WaitsUnder
  <2>2. {i \in DOMAIN snapshots : snapshots[i] = "suspended"} \subseteq OpenWaits
    BY <1>2 DEF IInv, SuspendedWait, OpenWaits, WaitsUnder, HasFrame
  <2> QED BY <2>1, <2>2
<1>5. OpenWaits \subseteq Range(asked)
  BY DEF IInv, WaitsFit, OpenWaits, WaitsUnder, HasFrame
<1> QED BY <1>2, <1>3, <1>4, <1>5 DEF CheckpointsFit

\* Every checkpoint a pass ends on is one validateCheckpoint accepts: from the frame of the flow
\* each frame holds those of the children it is at, and the waits it holds are those reported
\* suspended.
THEOREM CheckpointsAreValid == Spec => []CheckpointsFit
BY TypedImplies, Invariance, PTL
=============================================================================
