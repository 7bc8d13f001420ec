------------------------------ MODULE FlowTree ------------------------------
(***************************************************************************)
(* Compiled flows (workflow-types.ts) as trees: their nodes are the lists  *)
(* of steps that executeFlow walks ("sequence") and the steps themselves.  *)
(* The children of a sequence are its steps; a conditional has a sequence  *)
(* for each branch, a loop one for its body, and a parallel block a step   *)
(* for each branch.  And what the executors of these nodes keep.           *)
(***************************************************************************)
EXTENDS Naturals, Sequences

CONSTANTS Node,         \* of every flow
          Flows,        \* the sequences that are whole flows
          Tree(_),      \* what a node is
          None,         \* undefined: no accumulator, no parent, no frame
          Eval(_, _)    \* evaluateValue: what an expression is in a scope

Kinds == {"sequence", "task", "conditional", "parallel", "for_each", "while"}

IsKind(n, kind) == Tree(n).kind = kind
IsLoop(n) == Tree(n).kind \in {"for_each", "while"}

Positions(n) == DOMAIN Tree(n).children
Children(n) == {Tree(n).children[i] : i \in Positions(n)}
Parent(n) == Tree(n).parent
Above(n) == Tree(n).above
UpTo(n) == Above(n) \cup {n}
LoopsAbove(n) == {l \in Above(n) : IsLoop(l)}

Under(n) == Tree(n).under

\* The child at work when an executor is at an index: the body of a loop, in each iteration.
ChildAt(n, index) == Tree(n).children[IF IsLoop(n) THEN 1 ELSE index]

\* A parallel block gives each of its branches an ExecutionState and outputs of its own; the
\* body of a loop has a state of its own and the outputs of the loop.
IsBranch(n) == Parent(n) # None /\ IsKind(Parent(n), "parallel")
OwnsOutput(n) == Parent(n) = None \/ IsBranch(n)

\* The sequences that begin with an accumulator of their own.  In a branch, that is the
\* sequence of a conditional: no other step of a branch is told of an accumulator replaced
\* in it.
OwnsAccumulator(n) ==
  /\ IsKind(n, "sequence")
  /\ Parent(n) = None \/ IsLoop(Parent(n)) \/ IsBranch(Parent(n))

\* Where a node writes its outputs, the layers it sees outputs in, the sequence whose
\* accumulator it sees, and the loop whose iteration it sees.
Layer(n) == Tree(n).layer
Layers(n) == {m \in UpTo(n) : OwnsOutput(m)}
Scope(n) == Tree(n).scope
Loop(n) == Tree(n).loop

\* What compiling definitions gives: nodes of these kinds,
IsFormed(n) ==
  /\ Tree(n).kind \in Kinds
  /\ Tree(n).children \in Seq(Node)
  /\ \A i, j \in Positions(n) : Tree(n).children[i] = Tree(n).children[j] => i = j
  /\ IsLoop(n) => Positions(n) = {1}
  /\ IsKind(n, "task") => Positions(n) = {}
  /\ \A c \in Children(n) :
       /\ Parent(c) = n
       /\ IsKind(c, "sequence") <=> IsKind(n, "conditional") \/ IsLoop(n)

\* in trees, each with those above and under it,
IsPlaced(n) ==
  /\ IF n \in Flows
     THEN Parent(n) = None /\ Above(n) = {} /\ IsKind(n, "sequence")
     ELSE Parent(n) \in Node /\ n \in Children(Parent(n)) /\ Above(n) = UpTo(Parent(n))
  /\ n \notin Above(n) /\ Above(n) \subseteq Node
  /\ \A a \in Above(n) : Above(a) \subseteq Above(n) /\ Children(a) \cap UpTo(n) # {}
  /\ \A a, b \in UpTo(n) : a \in UpTo(b) \/ b \in UpTo(a)
  /\ \A m \in Under(n) : m \in Node /\ n \in UpTo(m)
  /\ \A a \in UpTo(n) : n \in Under(a)

\* and the nearest of those above that own outputs, own an accumulator, and iterate.
IsScoped(n) ==
  /\ Layer(n) = IF OwnsOutput(n) THEN n ELSE Layer(Parent(n))
  /\ Layer(n) \in UpTo(n) /\ OwnsOutput(Layer(n))
  /\ Scope(n) = IF OwnsAccumulator(n) THEN n ELSE Scope(Parent(n))
  /\ Scope(n) \in UpTo(n) /\ OwnsAccumulator(Scope(n))
  /\ IsKind(n, "sequence") => \A a \in Above(n) : IsKind(a, "parallel") => a \in Above(Scope(n))
  /\ Loop(n) = IF n \in Flows THEN None ELSE IF IsLoop(Parent(n)) THEN Parent(n) ELSE Loop(Parent(n))
  /\ Loop(n) \in LoopsAbove(n) \cup {None}

\* Two nodes, neither above the other, part below a node that is above both.
IsParted(n) ==
  \A a \in Above(n) : \A m \in Under(a) :
    \/ m \in UpTo(n) \/ n \in UpTo(m)
    \/ \E b \in Above(n) \cap Above(m) : Children(b) \cap UpTo(n) \cap UpTo(m) = {}

ASSUME TreeAssumption ==
  /\ None \notin Node /\ Flows \subseteq Node
  /\ \A n \in Node : IsFormed(n) /\ IsPlaced(n) /\ IsScoped(n) /\ IsParted(n)

\* Entries set in a map.
Updated(map, entries) ==
  [x \in DOMAIN map \cup DOMAIN entries |-> IF x \in DOMAIN entries THEN entries[x] ELSE map[x]]

----------------------------------------------------------------------------
(* Executors: what the call of one for a node has come to *)

Idle == [at |-> "idle"]
Called == [at |-> "called"]
Returned == [at |-> "returned"]

\* What it keeps while it is at work, by the kind of the node.
At(index) == [at |-> "busy", index |-> index]
Looping(index, items, accumulator) ==
  [at |-> "busy", index |-> index, items |-> items, accumulator |-> accumulator]
Running(inputs) == [at |-> "busy", inputs |-> inputs]
Waiting == [at |-> "busy"]

\* The executor of n goes on with what it keeps, with the children it called; the others
\* have returned to it before, if they were called.
Executed(executors, n, local, called) ==
  [m \in DOMAIN executors |->
     IF m = n THEN local ELSE IF m \in called THEN Called ELSE IF m \in Children(n) THEN Idle
     ELSE executors[m]]
=============================================================================
