----------------------- MODULE ParallelBlock_proofs ------------------------
(***************************************************************************)
(* Theorems about ParallelBlock, for blocks of any number of branches,     *)
(* branches of any length, any keys and any number of passes.              *)
(***************************************************************************)
EXTENDS ParallelBlock, WellFoundedInduction, TLAPS

----------------------------------------------------------------------------
\* Recursion.  The induction of the library is over an operator, which no prover
\* here can instantiate; as a statement about sets it can be cited, and gives the
\* recursive functions of the model their values.

LEMMA Induction ==
  ASSUME NEW S \in SUBSET Nat, 0 \in S, \A n \in S : n + 1 \in S
  PROVE  S = Nat
<1> SUFFICES ASSUME Nat \ S # {} PROVE FALSE
  OBVIOUS
<1> DEFINE R == OpToRel(<, Nat)
           T == Nat \ S
<1>1. IsWellFoundedOn(R, Nat)
  BY NatLessThanWellFounded
<1>2. \A i, j \in Nat : <<i, j>> \in R <=> i < j
  BY DEF OpToRel
<1> HIDE DEF R
<1>3. T \subseteq Nat /\ T # {}
  OBVIOUS
<1>4. PICK n \in T : \A m \in T : ~(<<m, n>> \in R)
  <2> HIDE DEF T
  <2> QED BY <1>1, <1>3, WFMin
<1>5. n # 0 /\ n - 1 \in Nat
  BY <1>4
<1>6. n - 1 \in S
  <2>1. <<n - 1, n>> \in R
    BY <1>2, <1>5
  <2>2. n - 1 \notin T
    BY <1>4, <2>1
  <2>3. QED BY <1>5, <2>2
<1>7. (n - 1) + 1 \in S
  BY <1>6
<1>8. QED BY <1>4, <1>5, <1>7

\* The block is that of the assumption.
LEMMA Shapes ==
  ASSUME block \in Blocks
  PROVE  /\ block.strategy \in {"wait_all", "wait_any"}
         /\ Len(block.tasks) \in Nat \ {0}
         /\ Branches = 1 .. Len(block.tasks)
         /\ \A b \in Branches :
              /\ Len(block.tasks[b]) \in Nat \ {0}
              /\ DOMAIN block.tasks[b] = 1 .. Len(block.tasks[b])
              /\ \A i \in 1 .. Len(block.tasks[b]) :
                   Task(b, i).key \in Key /\ Task(b, i).asks \in BOOLEAN
<1>1. /\ block.strategy \in {"wait_all", "wait_any"}
      /\ block.tasks \in Seq(Seq([key : Key, asks : BOOLEAN])) \ {<<>>}
      /\ \A i \in DOMAIN block.tasks : block.tasks[i] # <<>>
  BY BlocksAssumption
<1>2. Len(block.tasks) \in Nat \ {0} /\ Branches = 1 .. Len(block.tasks)
  BY <1>1 DEF Branches
<1>3. ASSUME NEW b \in Branches
      PROVE  /\ Len(block.tasks[b]) \in Nat \ {0}
             /\ DOMAIN block.tasks[b] = 1 .. Len(block.tasks[b])
             /\ \A i \in 1 .. Len(block.tasks[b]) :
                  Task(b, i).key \in Key /\ Task(b, i).asks \in BOOLEAN
  <2>1. block.tasks[b] \in Seq([key : Key, asks : BOOLEAN]) /\ block.tasks[b] # <<>>
    BY <1>1, <1>2 DEF Branches
  <2>2. Len(block.tasks[b]) \in Nat \ {0} /\ DOMAIN block.tasks[b] = 1 .. Len(block.tasks[b])
    BY <2>1
  <2>3. \A i \in 1 .. Len(block.tasks[b]) : block.tasks[b][i] \in [key : Key, asks : BOOLEAN]
    <3> DEFINE s == block.tasks[b]
               Tasks == [key : Key, asks : BOOLEAN]
    <3>1. s \in Seq(Tasks)
      BY <2>1
    <3> HIDE DEF s, Tasks
    <3>2. \A i \in 1 .. Len(s) : s[i] \in Tasks
      BY <3>1
    <3>3. QED BY <3>2 DEF s, Tasks
  <2>4. QED BY <2>2, <2>3 DEF Task
<1>4. QED BY <1>1, <1>2, <1>3

\* What AloneUpTo computes.
LEMMA AloneUnfolds ==
  ASSUME block \in Blocks, NEW b \in Branches
  PROVE  /\ AloneUpTo(b)[0] = Before
         /\ \A i \in 1 .. Len(block.tasks[b]) :
              AloneUpTo(b)[i] =
                [AloneUpTo(b)[i - 1] EXCEPT
                   ![Task(b, i).key] = [by |-> <<b, i>>, over |-> @.by]]
<1> DEFINE n == Len(block.tasks[b])
           nxt(v, i) == [v EXCEPT ![Task(b, i).key] = [by |-> <<b, i>>, over |-> @.by]]
           Fits(g, m) == g = [i \in 0 .. m |-> IF i = 0 THEN Before ELSE nxt(g[i - 1], i)]
           S == {m \in Nat : \E g : Fits(g, m)}
<1>0. n \in Nat
  BY Shapes
<1>1. S = Nat
  <2> HIDE DEF nxt
  <2>1. 0 \in S
    <3>1. Fits([i \in 0 .. 0 |-> Before], 0)
      OBVIOUS
    <3>2. QED BY <3>1
  <2>2. ASSUME NEW m \in S PROVE m + 1 \in S
    <3>1. PICK g : Fits(g, m)
      OBVIOUS
    <3> DEFINE h == [i \in 0 .. m + 1 |-> IF i = m + 1 THEN nxt(g[m], m + 1) ELSE g[i]]
    <3>2. \A i \in 0 .. m + 1 : h[i] = IF i = 0 THEN Before ELSE nxt(h[i - 1], i)
      BY <3>1
    <3>3. Fits(h, m + 1)
      BY <3>2
    <3>4. m + 1 \in Nat
      OBVIOUS
    <3> HIDE DEF h, Fits
    <3>5. QED BY <3>3, <3>4
  <2>3. S \subseteq Nat
    OBVIOUS
  <2> HIDE DEF S
  <2>4. QED BY <2>1, <2>2, <2>3, Induction
<1>2. \E g : Fits(g, n)
  BY <1>0, <1>1
<1>3. AloneUpTo(b) = CHOOSE g : Fits(g, n)
  BY DEF AloneUpTo
<1>4. Fits(AloneUpTo(b), n)
  <2> HIDE DEF Fits
  <2>1. QED BY <1>2, <1>3
<1> DEFINE alone == AloneUpTo(b)
<1>5. /\ alone[0] = Before
      /\ \A i \in 1 .. n : alone[i] = nxt(alone[i - 1], i)
  <2> HIDE DEF alone, nxt
  <2>1. Fits(alone, n)
    BY <1>4 DEF alone
  <2>2. alone = [i \in 0 .. n |-> IF i = 0 THEN Before ELSE nxt(alone[i - 1], i)]
    BY <2>1
  <2>3. \A i \in 0 .. n : alone[i] = IF i = 0 THEN Before ELSE nxt(alone[i - 1], i)
    BY <2>2
  <2>4. 0 \in 0 .. n /\ \A i \in 1 .. n : i \in 0 .. n /\ i # 0
    BY <1>0
  <2>5. QED BY <2>3, <2>4
<1>6. QED BY <1>5

\* What MergedInOrder computes.
LEMMA MergedUnfolds ==
  ASSUME block \in Blocks
  PROVE  \E into : /\ into[0] = output
                   /\ \A b \in Branches : into[b] = Merged(into[b - 1], Delta(b))
                   /\ MergedInOrder = into[Len(block.tasks)]
<1> DEFINE n == Len(block.tasks)
           Fits(g, m) ==
             g = [b \in 0 .. m |-> IF b = 0 THEN output ELSE Merged(g[b - 1], Delta(b))]
           S == {m \in Nat : \E g : Fits(g, m)}
<1>0. n \in Nat /\ Branches = 1 .. n
  BY Shapes
<1>1. S = Nat
  <2>1. 0 \in S
    <3>1. Fits([b \in 0 .. 0 |-> output], 0)
      OBVIOUS
    <3>2. QED BY <3>1
  <2>2. ASSUME NEW m \in S PROVE m + 1 \in S
    <3>1. PICK g : Fits(g, m)
      OBVIOUS
    <3> DEFINE h == [b \in 0 .. m + 1 |-> IF b = m + 1 THEN Merged(g[m], Delta(m + 1)) ELSE g[b]]
    <3>2. \A b \in 0 .. m + 1 : h[b] = IF b = 0 THEN output ELSE Merged(h[b - 1], Delta(b))
      BY <3>1
    <3>3. Fits(h, m + 1)
      BY <3>2
    <3>4. m + 1 \in Nat
      OBVIOUS
    <3> HIDE DEF h, Fits
    <3>5. QED BY <3>3, <3>4
  <2>3. S \subseteq Nat
    OBVIOUS
  <2> HIDE DEF S
  <2>4. QED BY <2>1, <2>2, <2>3, Induction
<1> DEFINE into == CHOOSE g : Fits(g, n)
<1>2. MergedInOrder = into[n]
  BY DEF MergedInOrder
<1>3. Fits(into, n)
  <2>1. \E g : Fits(g, n)
    BY <1>0, <1>1
  <2> HIDE DEF Fits
  <2>2. QED BY <2>1
<1> HIDE DEF into
<1>4. /\ into[0] = output
      /\ \A b \in Branches : into[b] = Merged(into[b - 1], Delta(b))
  <2>1. into = [b \in 0 .. n |-> IF b = 0 THEN output ELSE Merged(into[b - 1], Delta(b))]
    BY <1>3
  <2>2. \A b \in 0 .. n : into[b] = IF b = 0 THEN output ELSE Merged(into[b - 1], Delta(b))
    BY <2>1
  <2>3. 0 \in 0 .. n /\ \A b \in Branches : b \in 0 .. n /\ b # 0
    BY <1>0
  <2>4. QED BY <2>2, <2>3
<1>5. QED BY <1>2, <1>4

\* Under each key it has what the last branch that wrote it has.
LEMMA MergedValues ==
  ASSUME block \in Blocks, NEW k \in Key
  PROVE  /\ (\A b \in Branches : k \notin branch[b].written) => MergedInOrder[k] = output[k]
         /\ \A b \in Branches :
              /\ k \in branch[b].written
              /\ \A c \in Branches : c > b => k \notin branch[c].written
              => MergedInOrder[k] = branch[b].view[k]
<1> DEFINE n == Len(block.tasks)
<1>1. n \in Nat /\ Branches = 1 .. n
  BY Shapes
<1>2. PICK into : /\ into[0] = output
                  /\ \A b \in Branches : into[b] = Merged(into[b - 1], Delta(b))
                  /\ MergedInOrder = into[n]
  BY MergedUnfolds
<1>3. \A b \in Branches :
        into[b][k] = IF k \in branch[b].written THEN branch[b].view[k] ELSE into[b - 1][k]
  BY ZenonT(60), <1>2 DEF Merged, Delta
<1> DEFINE Holds(m) ==
             /\ (\A b \in 1 .. m : k \notin branch[b].written) => into[m][k] = output[k]
             /\ \A b \in 1 .. m :
                  /\ k \in branch[b].written
                  /\ \A c \in 1 .. m : c > b => k \notin branch[c].written
                  => into[m][k] = branch[b].view[k]
           H == {m \in Nat : m <= n => Holds(m)}
<1>4. H = Nat
  <2>1. 0 \in H
    BY <1>2
  <2>2. ASSUME NEW m \in H PROVE m + 1 \in H
    <3> SUFFICES ASSUME m + 1 <= n PROVE Holds(m + 1)
      BY DEF Holds
    <3>1. Holds(m) /\ m \in Nat /\ m + 1 \in Branches
      BY <1>1
    <3>2. into[m + 1][k] =
            IF k \in branch[m + 1].written THEN branch[m + 1].view[k] ELSE into[m][k]
      BY <1>3, <3>1
    <3>3. (\A b \in 1 .. m + 1 : k \notin branch[b].written) => into[m + 1][k] = output[k]
      BY <3>1, <3>2
    <3>4. ASSUME NEW b \in 1 .. m + 1, k \in branch[b].written,
                 \A c \in 1 .. m + 1 : c > b => k \notin branch[c].written
          PROVE  into[m + 1][k] = branch[b].view[k]
      <4>1. CASE b = m + 1
        BY <4>1, <3>2, <3>4
      <4>2. CASE b # m + 1
        <5>1. b \in 1 .. m /\ k \notin branch[m + 1].written
          BY <4>2, <3>1, <3>4
        <5>2. QED BY <5>1, <3>1, <3>2, <3>4
      <4>3. QED BY <4>1, <4>2
    <3>5. QED BY <3>3, <3>4
  <2>3. H \subseteq Nat
    OBVIOUS
  <2> HIDE DEF H
  <2>4. QED BY <2>1, <2>2, <2>3, Induction
<1>5. Holds(n)
  BY <1>1, <1>4
<1>6. QED BY <1>1, <1>2, <1>5

\* A set of branches has a last one.
LEMMA LastOf ==
  ASSUME NEW n \in Nat, NEW W \in SUBSET (1 .. n), W # {}
  PROVE  \E b \in W : \A c \in W : c <= b
<1> DEFINE S == {m \in Nat : W \cap (1 .. m) # {} =>
                     \E b \in W \cap (1 .. m) : \A c \in W \cap (1 .. m) : c <= b}
<1>1. 0 \in S
  OBVIOUS
<1>2. ASSUME NEW m \in S PROVE m + 1 \in S
  <2>1. CASE m + 1 \in W
    <3>1. \A c \in W \cap (1 .. m + 1) : c <= m + 1
      OBVIOUS
    <3>2. QED BY <2>1, <3>1
  <2>2. CASE m + 1 \notin W
    <3>1. W \cap (1 .. m + 1) = W \cap (1 .. m)
      BY <2>2
    <3>2. QED BY <3>1
  <2>3. QED BY <2>1, <2>2
<1>3. S \subseteq Nat
  OBVIOUS
<1>4. S = Nat
  <2> HIDE DEF S
  <2>1. QED BY <1>1, <1>2, <1>3, Induction
<1>5. W \cap (1 .. n) = W
  OBVIOUS
<1>6. QED BY <1>4, <1>5

----------------------------------------------------------------------------
\* The inductive invariant.

BranchStates ==
  [state : Settled \cup {"running"}, at : Nat, view : [Key -> Value], written : SUBSET Key,
   resumed : BOOLEAN, launched : BOOLEAN, aborted : BOOLEAN]

Deltas == UNION {[D -> Value] : D \in SUBSET Key}
BranchFrames == [state : Settled, at : Nat, delta : Deltas]
Logged == {"pending", "running", "suspended", "completed", "failed", "cancelled"}

\* Types: those of TypeOK, with the fields of a branch and of a frame.
Typed ==
  /\ block \in Blocks
  /\ status \in {"racing", "abandoning", "suspended", "completed", "failed"}
  /\ branch \in [Branches -> BranchStates]
  /\ \A b \in Branches : branch[b].at \in 1 .. Len(block.tasks[b])
  /\ outcome \in [Branches -> Settled \cup {"none"}]
  /\ ending \in [fulfilled : BOOLEAN, branch : Branches \cup {0}]
  /\ frame # <<>> => frame \in [Branches -> BranchFrames]
  /\ frame # <<>> => \A b \in Branches : frame[b].at \in 1 .. Len(block.tasks[b])
  /\ output \in [Key -> Value]
  /\ open \subseteq TasksOf(block.tasks)
  /\ stepLog \in [TasksOf(block.tasks) -> Logged]
  /\ outer \in BOOLEAN

Log(b) == stepLog[<<b, branch[b].at>>]

\* The log tells how far each branch is, and how its current task stands.
LogFollows ==
  \A b \in Branches :
    /\ \A i \in 1 .. Len(block.tasks[b]) :
         /\ i < branch[b].at => stepLog[<<b, i>>] = "completed"
         /\ i > branch[b].at => stepLog[<<b, i>>] = "pending"
    /\ branch[b].state = "running" => Log(b) = "running"
    /\ branch[b].state = "fulfilled" => Log(b) = "completed" /\ LastTask(b)
    /\ branch[b].state = "suspended" => Log(b) = IF Ended THEN "cancelled" ELSE "suspended"
    /\ branch[b].state = "failed" => Log(b) = "failed"
    /\ branch[b].state = "cancelled" => Log(b) \in {"cancelled", "completed", "failed"}

\* How many tasks of the branch have written.
Done(b) == IF Log(b) = "completed" THEN branch[b].at ELSE branch[b].at - 1
KeysUpTo(b, n) == {Task(b, i).key : i \in 1 .. n}

\* A branch sees what it would see alone, however often it was suspended.
ViewsAreAlone ==
  \A b \in Branches :
    /\ branch[b].view = AloneUpTo(b)[Done(b)]
    /\ branch[b].written = KeysUpTo(b, Done(b))
    /\ \A k \in Key \ branch[b].written : branch[b].view[k] = Parent

\* The block has seen its branches as they are, and goes on while none ends it.
OutcomesSeen ==
  /\ \A b \in Branches : outcome[b] \in {"none", branch[b].state}
  /\ status \in {"racing", "suspended"} => \A b \in Branches : ~Ends(outcome[b])
  /\ status = "suspended" => \A b \in Branches : outcome[b] # "none"
  /\ status \in {"suspended", "completed", "failed"} =>
       \A b \in Branches : branch[b].state # "running"

WaitsOpen == open = IF Ended THEN {} ELSE LeftSuspended

FrameBuilt == status = "suspended" => frame = BuildFrame /\ open # {}

\* A pass that goes on from a frame launches one branch; until that one gets past
\* its wait, every branch is as the frame has it.
PassOfFrame ==
  /\ frame = <<>> => \A b \in Branches : ~branch[b].resumed
  /\ status = "racing" /\ frame # <<>> =>
       /\ \A b, c \in Branches : branch[b].launched /\ branch[c].launched => b = c
       /\ \A b \in Branches : ~branch[b].launched => BranchFrame(b) = frame[b]
       /\ \A b \in Branches :
            branch[b].resumed /\ branch[b].state \in {"running", "suspended"} =>
              /\ branch[b].launched
              /\ frame[b] = [state |-> "suspended", at |-> branch[b].at, delta |-> Delta(b)]

EndingSeen ==
  status = "abandoning" =>
    /\ ending.branch \in Branches
    /\ ending.fulfilled =>
         block.strategy = "wait_any" /\ branch[ending.branch].state = "fulfilled"

IInv ==
  /\ Typed
  /\ LogFollows
  /\ ViewsAreAlone
  /\ OutcomesSeen
  /\ WaitsOpen
  /\ FrameBuilt
  /\ PassOfFrame
  /\ EndingSeen
  /\ WaitAllOutput
  /\ WaitAnyOutput

----------------------------------------------------------------------------
\* Types, and what the records of a branch hold.

LEMMA BranchFields ==
  ASSUME Typed, NEW b \in Branches
  PROVE  /\ branch[b] \in BranchStates
         /\ branch[b].state \in Settled \cup {"running"}
         /\ branch[b].at \in Nat \ {0}
         /\ branch[b].at \in 1 .. Len(block.tasks[b])
         /\ branch[b].view \in [Key -> Value]
         /\ branch[b].written \subseteq Key
         /\ branch[b].resumed \in BOOLEAN
         /\ branch[b].launched \in BOOLEAN
         /\ branch[b].aborted \in BOOLEAN
         /\ <<b, branch[b].at>> \in TasksOf(block.tasks)
         /\ Delta(b) \in Deltas
         /\ DOMAIN Delta(b) = branch[b].written
         /\ \A k \in branch[b].written : Delta(b)[k] = branch[b].view[k]
<1>1. branch[b] \in BranchStates /\ branch[b].at \in 1 .. Len(block.tasks[b])
  BY DEF Typed
<1>2. /\ branch[b].state \in Settled \cup {"running"}
      /\ branch[b].at \in Nat
      /\ branch[b].view \in [Key -> Value]
      /\ branch[b].written \subseteq Key
      /\ branch[b].resumed \in BOOLEAN
      /\ branch[b].launched \in BOOLEAN
      /\ branch[b].aborted \in BOOLEAN
  BY <1>1 DEF BranchStates
<1>3. <<b, branch[b].at>> \in TasksOf(block.tasks)
  BY <1>1, Shapes DEF Typed, TasksOf, Branches
<1>4. /\ Delta(b) \in Deltas
      /\ DOMAIN Delta(b) = branch[b].written
      /\ \A k \in branch[b].written : Delta(b)[k] = branch[b].view[k]
  <2>1. Delta(b) \in [branch[b].written -> Value]
    BY <1>2 DEF Delta
  <2>2. QED BY <1>2, <2>1 DEF Deltas, Delta
<1>5. QED BY <1>1, <1>2, <1>3, <1>4

\* A task of the block, by its branch and its place.
LEMMA TaskIds ==
  ASSUME block \in Blocks
  PROVE  /\ \A b \in Branches : \A i \in 1 .. Len(block.tasks[b]) : <<b, i>> \in TasksOf(block.tasks)
         /\ \A t \in TasksOf(block.tasks) :
              \E b \in Branches : \E i \in 1 .. Len(block.tasks[b]) : t = <<b, i>>
  BY Shapes DEF TasksOf, Branches

\* TypeOK says no more.
LEMMA TypedImplies == Typed => TypeOK
<1> SUFFICES ASSUME Typed PROVE TypeOK
  OBVIOUS
<1>1. DOMAIN branch = Branches /\ (frame # <<>> => DOMAIN frame = Branches)
  BY DEF Typed
<1>2. ASSUME NEW b \in Branches
      PROVE  /\ branch[b].state \in Settled \cup {"running"}
             /\ branch[b].at \in DOMAIN block.tasks[b]
             /\ branch[b].view \in [Key -> Value]
             /\ branch[b].written \subseteq Key
             /\ <<branch[b].resumed, branch[b].launched, branch[b].aborted>>
                  \in BOOLEAN \X BOOLEAN \X BOOLEAN
  <2>1. DOMAIN block.tasks[b] = 1 .. Len(block.tasks[b])
    BY Shapes DEF Typed
  <2>2. QED BY <2>1, BranchFields
<1>3. QED BY <1>1, <1>2 DEF Typed, TypeOK, Logged

\* What depends on the block only stays as it is.
LEMMA SameBlock ==
  ASSUME block' = block
  PROVE  /\ Branches' = Branches
         /\ TasksOf(block.tasks)' = TasksOf(block.tasks)
         /\ \A b, i : Task(b, i)' = Task(b, i)
         /\ \A b : AloneUpTo(b)' = AloneUpTo(b)
         /\ \A b, n : KeysUpTo(b, n)' = KeysUpTo(b, n)
         /\ \A b : KeysOf(b)' = KeysOf(b)
         /\ \A b : Alone(b)' = Alone(b)
<1>1. \A b, i : Task(b, i)' = Task(b, i)
  BY DEF Task
<1>2. \A b : AloneUpTo(b)' = AloneUpTo(b)
  BY DEF AloneUpTo, Task
<1>3. \A b, n : KeysUpTo(b, n)' = KeysUpTo(b, n)
  BY DEF KeysUpTo, Task
<1>4. \A b : KeysOf(b)' = KeysOf(b)
  BY DEF KeysOf, Task
<1>5. \A b : Alone(b)' = Alone(b)
  BY <1>2 DEF Alone
<1>6. QED BY <1>1, <1>2, <1>3, <1>4, <1>5 DEF Branches, TasksOf

LEMMA Beginning == Before \in [Key -> Value] /\ Parent \in Value /\ \A k \in Key : Before[k] = Parent
  BY DEF Before, Parent, Value

\* Typed' from what a step leaves.
LEMMA TypedAfter ==
  ASSUME Typed, block' = block,
         status' \in {"racing", "abandoning", "suspended", "completed", "failed"},
         branch' \in [Branches -> BranchStates],
         \A b \in Branches : branch'[b].at \in 1 .. Len(block.tasks[b]),
         outcome' \in [Branches -> Settled \cup {"none"}],
         ending' \in [fulfilled : BOOLEAN, branch : Branches \cup {0}],
         frame' # <<>> => frame' \in [Branches -> BranchFrames],
         frame' # <<>> => \A b \in Branches : frame'[b].at \in 1 .. Len(block.tasks[b]),
         output' \in [Key -> Value],
         open' \subseteq TasksOf(block.tasks),
         stepLog' \in [TasksOf(block.tasks) -> Logged],
         outer' \in BOOLEAN
  PROVE  Typed'
<1>1. Branches' = Branches /\ TasksOf(block.tasks)' = TasksOf(block.tasks)
  BY SameBlock
<1>2. QED BY <1>1 DEF Typed

\* A step that writes nothing and completes nothing leaves the views alone.
LEMMA SameViews ==
  ASSUME ViewsAreAlone, block' = block,
         \A b \in Branches : /\ branch'[b].view = branch[b].view
                             /\ branch'[b].written = branch[b].written
                             /\ Done(b)' = Done(b)
  PROVE  ViewsAreAlone' /\ \A b \in Branches : Delta(b)' = Delta(b)
<1>1. /\ Branches' = Branches
      /\ \A b : AloneUpTo(b)' = AloneUpTo(b)
      /\ \A b, n : KeysUpTo(b, n)' = KeysUpTo(b, n)
  BY SameBlock
<1>2. \A b \in Branches : Delta(b)' = Delta(b)
  BY DEF Delta
<1>3. ASSUME NEW b \in Branches
      PROVE  /\ branch'[b].view = AloneUpTo(b)'[Done(b)']
             /\ branch'[b].written = KeysUpTo(b, Done(b))'
             /\ \A k \in Key \ branch'[b].written : branch'[b].view[k] = Parent
  <2>1. KeysUpTo(b, Done(b))' = KeysUpTo(b, Done(b))
    <3>1. Done(b)' = Done(b)
      OBVIOUS
    <3>2. QED BY <3>1 DEF KeysUpTo, Task
  <2>2. QED BY <1>1, <2>1 DEF ViewsAreAlone
<1>4. ViewsAreAlone'
  BY <1>1, <1>3 DEF ViewsAreAlone
<1>5. QED BY <1>2, <1>4

LEMMA InitIInv == Init => IInv
<1> SUFFICES ASSUME Init PROVE IInv
  OBVIOUS
<1>0. block \in Blocks /\ Branches = DOMAIN block.tasks
  BY DEF Init, Branches
<1>1. ASSUME NEW b \in Branches
      PROVE  branch[b] = [state |-> "running", at |-> 1, view |-> Before, written |-> {},
                          resumed |-> FALSE, launched |-> TRUE, aborted |-> FALSE]
  BY <1>0 DEF Init
<1>2. ASSUME NEW b \in Branches
      PROVE  /\ branch[b] \in BranchStates
             /\ branch[b].state = "running" /\ branch[b].at = 1 /\ branch[b].view = Before
             /\ branch[b].written = {} /\ branch[b].resumed = FALSE
  <2>1. Before \in [Key -> Value] /\ {} \in SUBSET Key
    BY Beginning
  <2> HIDE DEF Before
  <2>2. [state |-> "running", at |-> 1, view |-> Before, written |-> {},
          resumed |-> FALSE, launched |-> TRUE, aborted |-> FALSE] \in BranchStates
    BY <2>1 DEF BranchStates
  <2>3. branch[b] \in BranchStates
    BY <1>1, <2>2, Zenon
  <2>4. QED BY <1>1, <2>3
<1>a. \A b \in Branches : Len(block.tasks[b]) \in Nat /\ 1 \in 1 .. Len(block.tasks[b])
  <2>1. \A b \in Branches : Len(block.tasks[b]) \in Nat \ {0}
    BY <1>0, Shapes
  <2>2. QED BY <2>1
<1>3. \A b \in Branches : \A i \in 1 .. Len(block.tasks[b]) :
        stepLog[<<b, i>>] = IF i = 1 THEN "running" ELSE "pending"
  BY <1>0, TaskIds DEF Init
<1>4. Typed
  <2>1. branch \in [Branches -> BranchStates]
    BY <1>0, <1>2 DEF Init
  <2>2. \A b \in Branches : branch[b].at \in 1 .. Len(block.tasks[b])
    BY <1>2, <1>a
  <2>3. stepLog \in [TasksOf(block.tasks) -> Logged]
    BY DEF Init, Logged
  <2>4. outcome \in [Branches -> Settled \cup {"none"}]
    BY <1>0 DEF Init
  <2>5. ending \in [fulfilled : BOOLEAN, branch : Branches \cup {0}]
    BY DEF Init, Nobody
  <2>6. QED BY <2>1, <2>2, <2>3, <2>4, <2>5, Beginning DEF Init, Typed
<1>5. \A b \in Branches : Log(b) = "running" /\ Done(b) = 0
  <2>1. \A b \in Branches : stepLog[<<b, 1>>] = "running"
    BY <1>3, <1>a
  <2>2. ASSUME NEW b \in Branches PROVE Log(b) = "running" /\ Done(b) = 0
    <3>1. branch[b].at = 1 /\ stepLog[<<b, 1>>] = "running"
      BY <1>2, <2>1
    <3>2. Log(b) = "running"
      BY <3>1 DEF Log
    <3>3. QED BY <3>1, <3>2 DEF Done
  <2>3. QED BY <2>2
<1>6. LogFollows
  <2>1. ASSUME NEW b \in Branches, NEW i \in 1 .. Len(block.tasks[b])
        PROVE  /\ ~(i < branch[b].at)
               /\ i > branch[b].at => stepLog[<<b, i>>] = "pending"
    <3>1. branch[b].at = 1 /\ Len(block.tasks[b]) \in Nat
      BY <1>2, <1>a
    <3>2. stepLog[<<b, i>>] = IF i = 1 THEN "running" ELSE "pending"
      BY <1>3
    <3>3. QED BY <3>1, <3>2
  <2>2. QED BY <1>2, <1>5, <2>1 DEF LogFollows
<1>7. ViewsAreAlone
  <2>1. \A b : KeysUpTo(b, 0) = {}
    BY DEF KeysUpTo
  <2>2. QED BY <1>0, <1>2, <1>5, <2>1, AloneUnfolds, Beginning DEF ViewsAreAlone
<1>8. OutcomesSeen
  BY <1>0, <1>2 DEF Init, OutcomesSeen, Ends
<1>9. WaitsOpen
  BY <1>2 DEF Init, WaitsOpen, LeftSuspended, Ended
<1>10. PassOfFrame
  BY <1>2 DEF Init, PassOfFrame
<1>11. FrameBuilt /\ EndingSeen /\ WaitAllOutput /\ WaitAnyOutput
  BY DEF Init, FrameBuilt, EndingSeen, WaitAllOutput, WaitAnyOutput
<1>12. QED BY <1>4, <1>6, <1>7, <1>8, <1>9, <1>10, <1>11 DEF IInv

----------------------------------------------------------------------------
\* A task of a branch ends without completing.

LEMMA TaskEnds ==
  ASSUME NEW b \in Branches, Suspend(b) \/ Refuse(b) \/ Fail(b) \/ Cancel(b)
  PROVE  \E state \in {"suspended", "failed", "cancelled"} :
         \E logged \in {"suspended", "failed", "cancelled"} :
           /\ state = "suspended" <=> logged = "suspended"
           /\ state = "failed" => logged = "failed"
           /\ branch[b].state = "running"
           /\ branch' = [branch EXCEPT ![b].state = state]
           /\ stepLog' = [stepLog EXCEPT ![<<b, branch[b].at>>] = logged]
           /\ open' = IF state = "suspended" THEN open \cup {<<b, branch[b].at>>} ELSE open
           /\ UNCHANGED <<block, status, outcome, ending, frame, output, outer>>
<1>1. CASE Suspend(b)
  BY <1>1 DEF Suspend, Settles
<1>2. CASE Refuse(b)
  BY <1>2 DEF Refuse, Settles
<1>3. CASE Fail(b)
  BY <1>3 DEF Fail, Settles, UnlessAborted
<1>4. CASE Cancel(b)
  BY <1>4 DEF Cancel, Settles
<1>5. QED BY <1>1, <1>2, <1>3, <1>4

\* While a branch runs, the block has not ended, nor suspended.
LEMMA RunsInPass ==
  ASSUME Typed, OutcomesSeen, NEW b \in Branches, branch[b].state = "running"
  PROVE  status \in {"racing", "abandoning"} /\ ~Ended /\ outcome[b] = "none"
<1>1. outcome[b] \in Settled \cup {"none"} /\ outcome[b] \in {"none", branch[b].state}
  BY DEF Typed, OutcomesSeen
<1>2. QED BY <1>1 DEF Typed, OutcomesSeen, Ended, Settled

\* In a pass that goes on from a frame, what runs was launched by it.
LEMMA RunsLaunched ==
  ASSUME Typed, PassOfFrame, NEW b \in Branches, branch[b].state = "running",
         status = "racing", frame # <<>>
  PROVE  branch[b].launched
<1>1. ASSUME ~branch[b].launched PROVE FALSE
  <2>1. BranchFrame(b) = frame[b] /\ frame[b] \in BranchFrames
    BY <1>1 DEF PassOfFrame, Typed
  <2>2. frame[b].state = "running" /\ frame[b].state \in Settled
    BY <2>1 DEF BranchFrame, BranchFrames
  <2>3. QED BY <2>2 DEF Settled
<1>2. branch[b].launched \in BOOLEAN
  BY BranchFields
<1>3. QED BY <1>1, <1>2

LEMMA TaskEndsKeeps ==
  ASSUME IInv, NEW b \in Branches, Suspend(b) \/ Refuse(b) \/ Fail(b) \/ Cancel(b)
  PROVE  IInv'
<1>1. PICK state \in {"suspended", "failed", "cancelled"},
           logged \in {"suspended", "failed", "cancelled"} :
        /\ state = "suspended" <=> logged = "suspended"
        /\ state = "failed" => logged = "failed"
        /\ branch[b].state = "running"
        /\ branch' = [branch EXCEPT ![b].state = state]
        /\ stepLog' = [stepLog EXCEPT ![<<b, branch[b].at>>] = logged]
        /\ open' = IF state = "suspended" THEN open \cup {<<b, branch[b].at>>} ELSE open
        /\ UNCHANGED <<block, status, outcome, ending, frame, output, outer>>
  BY TaskEnds
<1>2. Typed /\ LogFollows /\ ViewsAreAlone /\ OutcomesSeen /\ WaitsOpen /\ PassOfFrame /\ EndingSeen
      /\ WaitAllOutput /\ WaitAnyOutput
  BY DEF IInv
<1>3. status \in {"racing", "abandoning"} /\ status' = status /\ ~Ended /\ ~Ended'
  BY <1>1, <1>2, RunsInPass DEF Ended
<1>4. Branches' = Branches /\ TasksOf(block.tasks)' = TasksOf(block.tasks)
  BY <1>1, SameBlock
<1>5. /\ branch' \in [Branches -> BranchStates]
      /\ \A c \in Branches :
           /\ branch'[c].state = IF c = b THEN state ELSE branch[c].state
           /\ branch'[c].at = branch[c].at
           /\ branch'[c].view = branch[c].view
           /\ branch'[c].written = branch[c].written
           /\ branch'[c].resumed = branch[c].resumed
           /\ branch'[c].launched = branch[c].launched
  <2>1. branch \in [Branches -> BranchStates] /\ state \in Settled
    BY <1>2 DEF Typed, Settled
  <2>2. QED BY <1>1, <2>1 DEF BranchStates
<1>6. \A c \in Branches : <<c, branch[c].at>> \in TasksOf(block.tasks)
  BY <1>2, BranchFields
<1>7. \A t \in TasksOf(block.tasks) :
        stepLog'[t] = IF t = <<b, branch[b].at>> THEN logged ELSE stepLog[t]
  BY <1>1, <1>2 DEF Typed
<1>8. \A c \in Branches : Log(c)' = IF c = b THEN logged ELSE Log(c)
  BY <1>5, <1>6, <1>7 DEF Log
<1>9. Log(b) = "running"
  BY <1>1, <1>2 DEF LogFollows
<1>10. \A c \in Branches : Done(c)' = Done(c)
  <2> HIDE DEF Log
  <2>1. ASSUME NEW c \in Branches PROVE Done(c)' = Done(c)
    <3>1. Log(c)' = "completed" <=> Log(c) = "completed"
      BY <1>8, <1>9
    <3>2. branch'[c].at = branch[c].at
      BY <1>5
    <3>3. QED BY <3>1, <3>2 DEF Done
  <2>2. QED BY <2>1
<1>11. ViewsAreAlone' /\ \A c \in Branches : Delta(c)' = Delta(c)
  BY <1>1, <1>2, <1>5, <1>10, SameViews
<1>12. Typed'
  <2>1. stepLog' \in [TasksOf(block.tasks) -> Logged]
    BY <1>1, <1>2 DEF Typed, Logged
  <2>2. open' \subseteq TasksOf(block.tasks)
    BY <1>1, <1>2, <1>6 DEF Typed
  <2>3. \A c \in Branches : branch'[c].at \in 1 .. Len(block.tasks[c])
    BY <1>2, <1>5 DEF Typed
  <2>4. QED BY <1>1, <1>2, <1>5, <2>1, <2>2, <2>3, TypedAfter DEF Typed
<1>13. LogFollows'
  <2>1. ASSUME NEW c \in Branches
        PROVE  /\ \A i \in 1 .. Len(block.tasks[c]) :
                    /\ i < branch'[c].at => stepLog'[<<c, i>>] = "completed"
                    /\ i > branch'[c].at => stepLog'[<<c, i>>] = "pending"
               /\ branch'[c].state = "running" => Log(c)' = "running"
               /\ branch'[c].state = "fulfilled" => Log(c)' = "completed" /\ LastTask(c)'
               /\ branch'[c].state = "suspended" =>
                    Log(c)' = IF Ended' THEN "cancelled" ELSE "suspended"
               /\ branch'[c].state = "failed" => Log(c)' = "failed"
               /\ branch'[c].state = "cancelled" => Log(c)' \in {"cancelled", "completed", "failed"}
    <3>1. LastTask(c)' <=> LastTask(c)
      BY <1>1, <1>5 DEF LastTask
    <3>2. ASSUME NEW i \in 1 .. Len(block.tasks[c]), i # branch[c].at
          PROVE  stepLog'[<<c, i>>] = stepLog[<<c, i>>]
      BY <1>2, <1>7, <3>2, TaskIds DEF Typed
    <3>3. branch[c].at \in Nat /\ Len(block.tasks[c]) \in Nat
      BY <1>2, BranchFields, Shapes DEF Typed
    <3>4. \A i \in 1 .. Len(block.tasks[c]) :
            /\ i < branch'[c].at => stepLog'[<<c, i>>] = "completed"
            /\ i > branch'[c].at => stepLog'[<<c, i>>] = "pending"
      BY <1>2, <1>5, <3>2, <3>3 DEF LogFollows
    <3>5. /\ branch[c].state = "running" => Log(c) = "running"
          /\ branch[c].state = "fulfilled" => Log(c) = "completed" /\ LastTask(c)
          /\ branch[c].state = "suspended" => Log(c) = "suspended"
          /\ branch[c].state = "failed" => Log(c) = "failed"
          /\ branch[c].state = "cancelled" => Log(c) \in {"cancelled", "completed", "failed"}
      BY <1>2, <1>3 DEF LogFollows
    <3>6. QED BY <1>1, <1>3, <1>5, <1>8, <3>1, <3>4, <3>5
  <2>2. QED BY <1>1, <1>4, <2>1 DEF LogFollows
<1>14. OutcomesSeen'
  <2>1. outcome' = outcome /\ outcome[b] = "none" /\ \A c \in Branches : Ends(outcome[c])' <=> Ends(outcome[c])
    BY <1>1, <1>2, RunsInPass DEF Ends
  <2>2. QED BY <1>2, <1>3, <1>4, <1>5, <2>1 DEF OutcomesSeen
<1>15. WaitsOpen'
  <2>1. LeftSuspended' = IF state = "suspended" THEN LeftSuspended \cup {<<b, branch[b].at>>} ELSE LeftSuspended
    BY <1>1, <1>4, <1>5 DEF LeftSuspended
  <2>2. QED BY <1>1, <1>2, <1>3, <2>1 DEF WaitsOpen
<1>16. FrameBuilt'
  BY <1>3 DEF FrameBuilt
<1>17. PassOfFrame'
  <2>1. \A c \in Branches \ {b} : BranchFrame(c)' = BranchFrame(c)
    BY <1>5, <1>11 DEF BranchFrame
  <2>2. status = "racing" /\ frame # <<>> => branch[b].launched
    BY <1>1, <1>2, RunsLaunched
  <2>3. frame' = frame
    BY <1>1
  <2>4. QED BY <1>1, <1>2, <1>3, <1>4, <1>5, <1>11, <2>1, <2>2, <2>3 DEF PassOfFrame
<1>18. EndingSeen'
  BY <1>1, <1>2, <1>3, <1>4, <1>5 DEF EndingSeen
<1>19. WaitAllOutput' /\ WaitAnyOutput'
  <2>1. status' # "completed" /\ output' = Before
    BY <1>1, <1>2, <1>3 DEF WaitAnyOutput
  <2>2. QED BY <2>1 DEF WaitAllOutput, WaitAnyOutput, Before
<1>20. QED
  BY <1>11, <1>12, <1>13, <1>14, <1>15, <1>16, <1>17, <1>18, <1>19 DEF IInv

----------------------------------------------------------------------------
\* A task completes.

LEMMA WrittenFields ==
  ASSUME Typed, NEW b \in Branches
  PROVE  LET w == Written(b)
             key == Task(b, branch[b].at).key
         IN  /\ key \in Key
             /\ w \in BranchStates
             /\ w.state = branch[b].state
             /\ w.at = branch[b].at
             /\ w.resumed = branch[b].resumed
             /\ w.launched = branch[b].launched
             /\ w.written = branch[b].written \cup {key}
             /\ w.view = [branch[b].view EXCEPT
                            ![key] = [by |-> <<b, branch[b].at>>, over |-> branch[b].view[key].by]]
<1> DEFINE key == Task(b, branch[b].at).key
           view == [branch[b].view EXCEPT
                      ![key] = [by |-> <<b, branch[b].at>>, over |-> branch[b].view[key].by]]
<1>1. block \in Blocks /\ branch[b] \in BranchStates /\ branch[b].at \in 1 .. Len(block.tasks[b])
  BY BranchFields DEF Typed
<1>2. key \in Key
  BY <1>1, Shapes
<1>3. Branches \subseteq Nat
  BY <1>1, Shapes
<1>4. view \in [Key -> Value]
  <2>1. branch[b].view \in [Key -> Value] /\ branch[b].at \in Nat
    BY <1>1 DEF BranchStates
  <2>2. branch[b].view[key] \in Value
    BY <1>2, <2>1
  <2> HIDE DEF key
  <2>3. [by |-> <<b, branch[b].at>>, over |-> branch[b].view[key].by] \in Value
    BY <1>3, <2>1, <2>2 DEF Value
  <2>4. QED BY <1>2, <2>1, <2>3
<1>5. branch[b].written \cup {key} \in SUBSET Key
  BY <1>1, <1>2 DEF BranchStates
<1>6. Written(b) = [branch[b] EXCEPT !.view = view, !.written = branch[b].written \cup {key}]
  BY <1>1 DEF Written, BranchStates
<1> DEFINE w == Written(b)
<1>7. /\ w \in BranchStates
      /\ w.state = branch[b].state
      /\ w.at = branch[b].at
      /\ w.resumed = branch[b].resumed
      /\ w.launched = branch[b].launched
      /\ w.written = branch[b].written \cup {key}
      /\ w.view = view
  <2>1. w = [branch[b] EXCEPT !.view = view, !.written = branch[b].written \cup {key}]
    BY <1>6
  <2> HIDE DEF w, view, key
  <2>2. QED BY <1>1, <1>4, <1>5, <2>1 DEF BranchStates
<1>8. QED BY <1>2, <1>7

\* The branch ends with its task, or goes on to the next one.
Finishes(b, next) ==
  /\ next.state \in {"fulfilled", "cancelled"}
  /\ next.state = "fulfilled" => LastTask(b)
  /\ next.at = branch[b].at
  /\ next.resumed = branch[b].resumed
  /\ stepLog' = [stepLog EXCEPT ![<<b, branch[b].at>>] = "completed"]

GoesOn(b, next) ==
  /\ branch[b].at # Len(block.tasks[b])
  /\ next.state = "running"
  /\ next.at = branch[b].at + 1
  /\ next.resumed = FALSE
  /\ stepLog' = [stepLog EXCEPT ![<<b, branch[b].at>>] = "completed",
                                ![<<b, branch[b].at + 1>>] = "running"]

LEMMA TaskCompletes ==
  ASSUME Typed, NEW b \in Branches, Complete(b)
  PROVE  \E next \in BranchStates :
           /\ branch[b].state = "running"
           /\ branch' = [branch EXCEPT ![b] = next]
           /\ Finishes(b, next) \/ GoesOn(b, next)
           /\ next.launched = branch[b].launched
           /\ next.written = branch[b].written \cup {Task(b, branch[b].at).key}
           /\ next.view = [branch[b].view EXCEPT
                ![Task(b, branch[b].at).key] =
                   [by |-> <<b, branch[b].at>>,
                    over |-> branch[b].view[Task(b, branch[b].at).key].by]]
           /\ UNCHANGED <<block, status, outcome, ending, frame, output, open, outer>>
<1> DEFINE w == Written(b)
           key == Task(b, branch[b].at).key
           view == [branch[b].view EXCEPT
                      ![key] = [by |-> <<b, branch[b].at>>, over |-> branch[b].view[key].by]]
<1>1. /\ w \in BranchStates
      /\ w.state = branch[b].state
      /\ w.at = branch[b].at
      /\ w.resumed = branch[b].resumed
      /\ w.launched = branch[b].launched
      /\ w.written = branch[b].written \cup {key}
      /\ w.view = view
  BY WrittenFields
<1>2. branch[b].state = "running"
      /\ UNCHANGED <<block, status, outcome, ending, frame, output, open, outer>>
  BY DEF Complete
<1>3. CASE LastTask(b) \/ branch[b].aborted
  <2> DEFINE state == UnlessAborted(b, "fulfilled")
             next == [w EXCEPT !.state = state]
  <2>1. branch' = [branch EXCEPT ![b] = next]
        /\ stepLog' = [stepLog EXCEPT ![<<b, branch[b].at>>] = "completed"]
    BY <1>3 DEF Complete
  <2>2. state \in {"fulfilled", "cancelled"} /\ (state = "fulfilled" => LastTask(b))
    BY <1>3 DEF UnlessAborted
  <2>3. next = [w EXCEPT !.state = state]
    OBVIOUS
  <2>4. state \in Settled
    BY <2>2 DEF Settled
  <2> HIDE DEF next, state, w, key, view
  <2>5. /\ next \in BranchStates
        /\ next.state = state
        /\ next.at = w.at
        /\ next.resumed = w.resumed
        /\ next.launched = w.launched
        /\ next.written = w.written
        /\ next.view = w.view
    BY <1>1, <2>3, <2>4 DEF BranchStates
  <2>6. Finishes(b, next)
    BY <1>1, <2>1, <2>2, <2>5 DEF Finishes
  <2>7. QED BY <1>1, <1>2, <2>1, <2>5, <2>6 DEF key, view
<1>4. CASE ~(LastTask(b) \/ branch[b].aborted)
  <2> DEFINE next == [w EXCEPT !.at = branch[b].at + 1, !.resumed = FALSE]
  <2>1. branch' = [branch EXCEPT ![b] = next]
        /\ stepLog' = [stepLog EXCEPT ![<<b, branch[b].at>>] = "completed",
                                      ![<<b, branch[b].at + 1>>] = "running"]
    BY <1>4 DEF Complete
  <2>2. branch[b].at # Len(block.tasks[b]) /\ branch[b].at + 1 \in Nat
    <3>1. branch[b].at \in Nat
      BY BranchFields
    <3>2. QED BY <1>4, <3>1 DEF LastTask
  <2>3. next = [w EXCEPT !.at = branch[b].at + 1, !.resumed = FALSE]
    OBVIOUS
  <2> HIDE DEF next, w, key, view
  <2>4. /\ next \in BranchStates
        /\ next.state = w.state
        /\ next.at = branch[b].at + 1
        /\ next.resumed = FALSE
        /\ next.launched = w.launched
        /\ next.written = w.written
        /\ next.view = w.view
    BY <1>1, <2>2, <2>3 DEF BranchStates
  <2>5. GoesOn(b, next)
    BY <1>1, <1>2, <2>1, <2>2, <2>4 DEF GoesOn
  <2>6. QED BY <1>1, <1>2, <2>1, <2>4, <2>5 DEF key, view
<1>5. QED BY <1>3, <1>4

LEMMA TaskCompletesKeeps ==
  ASSUME IInv, NEW b \in Branches, Complete(b)
  PROVE  IInv'
<1> DEFINE at == branch[b].at
           key == Task(b, at).key
<1>0. Typed /\ LogFollows /\ ViewsAreAlone /\ OutcomesSeen /\ WaitsOpen /\ PassOfFrame /\ EndingSeen
      /\ WaitAllOutput /\ WaitAnyOutput
  BY DEF IInv
<1>1. PICK next \in BranchStates :
        /\ branch[b].state = "running"
        /\ branch' = [branch EXCEPT ![b] = next]
        /\ Finishes(b, next) \/ GoesOn(b, next)
        /\ next.launched = branch[b].launched
        /\ next.written = branch[b].written \cup {key}
        /\ next.view = [branch[b].view EXCEPT
             ![key] = [by |-> <<b, at>>, over |-> branch[b].view[key].by]]
        /\ UNCHANGED <<block, status, outcome, ending, frame, output, open, outer>>
  BY <1>0, TaskCompletes
<1>2. /\ Len(block.tasks[b]) \in Nat /\ at \in 1 .. Len(block.tasks[b]) /\ at \in Nat
      /\ key \in Key
      /\ branch[b].view \in [Key -> Value]
      /\ branch[b].written \subseteq Key
  BY <1>0, BranchFields, Shapes DEF Typed
<1>3. status \in {"racing", "abandoning"} /\ status' = status /\ ~Ended /\ ~Ended' /\ outcome[b] = "none"
  BY <1>0, <1>1, RunsInPass DEF Ended
<1>4. /\ Branches' = Branches /\ TasksOf(block.tasks)' = TasksOf(block.tasks)
      /\ \A c : AloneUpTo(c)' = AloneUpTo(c)
  BY <1>1, SameBlock
<1>5. /\ branch' \in [Branches -> BranchStates]
      /\ branch'[b] = next
      /\ \A c \in Branches \ {b} : branch'[c] = branch[c]
  BY <1>0, <1>1 DEF Typed
<1>6. \A c \in Branches : \A i \in 1 .. Len(block.tasks[c]) : <<c, i>> \in TasksOf(block.tasks)
  BY <1>0, TaskIds DEF Typed
<1>7. /\ next.at \in 1 .. Len(block.tasks[b])
      /\ next.state \in {"running", "fulfilled", "cancelled"}
      /\ next.state = "running" => next.resumed = FALSE /\ next.at = at + 1
      /\ next.state # "running" => next.at = at
      /\ next.state = "fulfilled" => at = Len(block.tasks[b])
      /\ next.resumed => branch[b].resumed
      /\ stepLog' \in [TasksOf(block.tasks) -> Logged]
      /\ \A t \in TasksOf(block.tasks) :
           stepLog'[t] = IF t = <<b, at>> THEN "completed"
                         ELSE IF next.state = "running" /\ t = <<b, at + 1>> THEN "running"
                         ELSE stepLog[t]
  <2>0. stepLog \in [TasksOf(block.tasks) -> Logged] /\ branch[b].resumed \in BOOLEAN
        /\ next.resumed \in BOOLEAN
    BY <1>0, BranchFields DEF Typed, BranchStates
  <2>1. CASE Finishes(b, next)
    <3>1. stepLog' = [stepLog EXCEPT ![<<b, at>>] = "completed"]
          /\ next.state \in {"fulfilled", "cancelled"} /\ next.at = at
          /\ next.resumed = branch[b].resumed
          /\ (next.state = "fulfilled" => at = Len(block.tasks[b]))
      BY <2>1 DEF Finishes, LastTask
    <3>2. stepLog' \in [TasksOf(block.tasks) -> Logged]
      BY <2>0, <3>1 DEF Logged
    <3>3. \A t \in TasksOf(block.tasks) :
            stepLog'[t] = IF t = <<b, at>> THEN "completed" ELSE stepLog[t]
      BY <2>0, <3>1
    <3> HIDE DEF at
    <3>4. QED BY <1>2, <2>0, <3>1, <3>2, <3>3
  <2>2. CASE GoesOn(b, next)
    <3>1. stepLog' = [stepLog EXCEPT ![<<b, at>>] = "completed", ![<<b, at + 1>>] = "running"]
          /\ next.state = "running" /\ next.at = at + 1 /\ next.resumed = FALSE
          /\ at # Len(block.tasks[b])
      BY <2>2 DEF GoesOn
    <3>2. stepLog' \in [TasksOf(block.tasks) -> Logged]
      BY <2>0, <3>1 DEF Logged
    <3>3. <<b, at>> # <<b, at + 1>>
      <4> HIDE DEF at
      <4>1. QED BY <1>2
    <3>4. \A t \in TasksOf(block.tasks) :
            stepLog'[t] = IF t = <<b, at>> THEN "completed"
                          ELSE IF t = <<b, at + 1>> THEN "running" ELSE stepLog[t]
      BY <2>0, <3>1, <3>3
    <3> HIDE DEF at
    <3>5. QED BY <1>2, <2>0, <3>1, <3>2, <3>4
  <2>3. QED BY <1>1, <2>1, <2>2
<1> HIDE DEF at
<1>8. \A c \in Branches \ {b} : \A i \in 1 .. Len(block.tasks[c]) :
        stepLog'[<<c, i>>] = stepLog[<<c, i>>]
  BY <1>6, <1>7
<1>9. \A i \in 1 .. Len(block.tasks[b]) :
        /\ i < at => stepLog'[<<b, i>>] = "completed"
        /\ stepLog'[<<b, at>>] = "completed"
        /\ next.state = "running" => stepLog'[<<b, at + 1>>] = "running"
        /\ i > next.at => stepLog'[<<b, i>>] = "pending"
  <2>1. \A i \in 1 .. Len(block.tasks[b]) :
          /\ i < at => stepLog[<<b, i>>] = "completed"
          /\ i > at => stepLog[<<b, i>>] = "pending"
    BY <1>0 DEF LogFollows, at
  <2>2. stepLog'[<<b, at>>] = "completed"
    BY <1>2, <1>6, <1>7
  <2>3. next.state = "running" => stepLog'[<<b, at + 1>>] = "running"
    BY <1>2, <1>6, <1>7
  <2>4. ASSUME NEW i \in 1 .. Len(block.tasks[b]), i # at, i # next.at
        PROVE  stepLog'[<<b, i>>] = stepLog[<<b, i>>]
    BY <1>2, <1>6, <1>7, <2>4
  <2>5. ASSUME NEW i \in 1 .. Len(block.tasks[b])
        PROVE  /\ i < at => stepLog'[<<b, i>>] = "completed"
               /\ i > next.at => stepLog'[<<b, i>>] = "pending"
    <3>1. i \in Nat
      BY <1>2
    <3>2. i < at => i # at /\ i # next.at
      BY <1>2, <1>7, <3>1
    <3>3. i > next.at => i # at /\ i # next.at /\ i > at
      BY <1>2, <1>7, <3>1
    <3>4. QED BY <2>1, <2>4, <3>2, <3>3
  <2>6. QED BY <2>2, <2>3, <2>5
<1>10. /\ Log(b) = "running" /\ Done(b) = at - 1
       /\ Log(b)' = IF next.state = "running" THEN "running" ELSE "completed"
       /\ Done(b)' = at
  <2>1. Log(b) = "running" /\ Done(b) = at - 1
    BY <1>0, <1>1 DEF LogFollows, Done, at
  <2>2. Log(b)' = stepLog'[<<b, next.at>>]
    BY <1>5 DEF Log
  <2>3. Log(b)' = IF next.state = "running" THEN "running" ELSE "completed"
    BY <1>2, <1>7, <1>9, <2>2
  <2>4. branch'[b].at = next.at
    BY <1>5
  <2>5. Done(b)' = IF Log(b)' = "completed" THEN next.at ELSE next.at - 1
    BY <2>4 DEF Done
  <2>6. Done(b)' = at
    BY <1>2, <1>7, <2>3, <2>5
  <2>7. QED BY <2>1, <2>3, <2>6
<1>11. \A c \in Branches \ {b} : Log(c)' = Log(c) /\ Done(c)' = Done(c) /\ Delta(c)' = Delta(c)
  <2>1. ASSUME NEW c \in Branches \ {b} PROVE Log(c)' = Log(c)
    <3>1. branch'[c] = branch[c] /\ branch[c].at \in 1 .. Len(block.tasks[c])
      BY <1>0, <1>5 DEF Typed
    <3>2. stepLog'[<<c, branch[c].at>>] = stepLog[<<c, branch[c].at>>]
      BY <1>8, <3>1
    <3>3. QED BY <3>1, <3>2 DEF Log
  <2>2. QED BY <1>5, <2>1 DEF Done, Delta
<1>12. Typed'
  <2>1. \A c \in Branches : branch'[c].at \in 1 .. Len(block.tasks[c])
    BY <1>0, <1>5, <1>7 DEF Typed
  <2>2. QED BY <1>0, <1>1, <1>5, <1>7, <2>1, TypedAfter DEF Typed
<1>13. LogFollows'
  <2>1. ASSUME NEW c \in Branches
        PROVE  /\ \A i \in 1 .. Len(block.tasks[c]) :
                    /\ i < branch'[c].at => stepLog'[<<c, i>>] = "completed"
                    /\ i > branch'[c].at => stepLog'[<<c, i>>] = "pending"
               /\ branch'[c].state = "running" => Log(c)' = "running"
               /\ branch'[c].state = "fulfilled" => Log(c)' = "completed" /\ LastTask(c)'
               /\ branch'[c].state = "suspended" =>
                    Log(c)' = IF Ended' THEN "cancelled" ELSE "suspended"
               /\ branch'[c].state = "failed" => Log(c)' = "failed"
               /\ branch'[c].state = "cancelled" => Log(c)' \in {"cancelled", "completed", "failed"}
    <3>1. CASE c = b
      <4>1. ASSUME NEW i \in 1 .. Len(block.tasks[b])
            PROVE  /\ i < next.at => stepLog'[<<b, i>>] = "completed"
                   /\ i > next.at => stepLog'[<<b, i>>] = "pending"
        <5>1. i \in Nat /\ (i < next.at => i < at \/ i = at)
          BY <1>2, <1>7
        <5>2. QED BY <1>9, <5>1
      <4>2. next.state = "fulfilled" => LastTask(b)'
        BY <1>1, <1>5, <1>7 DEF LastTask
      <4>3. QED BY <1>5, <1>7, <1>10, <3>1, <4>1, <4>2
    <3>2. CASE c # b
      <4>1. branch'[c] = branch[c] /\ Log(c)' = Log(c)
        BY <1>5, <1>11, <3>2
      <4>2. LastTask(c)' <=> LastTask(c)
        BY <1>1, <4>1 DEF LastTask
      <4>3. \A i \in 1 .. Len(block.tasks[c]) : stepLog'[<<c, i>>] = stepLog[<<c, i>>]
        BY <1>8, <3>2
      <4>4. QED BY <1>0, <1>3, <4>1, <4>2, <4>3 DEF LogFollows
    <3>3. QED BY <3>1, <3>2
  <2>2. QED BY <1>1, <1>4, <2>1 DEF LogFollows
<1>14. ViewsAreAlone'
  <2>1. ASSUME NEW c \in Branches
        PROVE  /\ branch'[c].view = AloneUpTo(c)[Done(c)']
               /\ branch'[c].written = KeysUpTo(c, Done(c))'
               /\ \A k \in Key \ branch'[c].written : branch'[c].view[k] = Parent
    <3>1. CASE c = b
      <4>1. /\ branch[b].view = AloneUpTo(b)[at - 1]
            /\ branch[b].written = KeysUpTo(b, at - 1)
            /\ \A k \in Key \ branch[b].written : branch[b].view[k] = Parent
        BY <1>0, <1>10 DEF ViewsAreAlone
      <4>2. next.view = AloneUpTo(b)[at]
        <5>1. AloneUpTo(b)[at] = [AloneUpTo(b)[at - 1] EXCEPT
                                    ![key] = [by |-> <<b, at>>, over |-> @.by]]
          BY <1>0, <1>2, AloneUnfolds DEF Typed
        <5>2. QED BY <1>1, <4>1, <5>1
      <4>3. next.written = KeysUpTo(b, at)
        <5>1. 1 .. at = (1 .. at - 1) \cup {at}
          BY <1>2
        <5>2. KeysUpTo(b, at) = KeysUpTo(b, at - 1) \cup {key}
          BY <5>1 DEF KeysUpTo
        <5>3. QED BY <1>1, <4>1, <5>2
      <4>4. KeysUpTo(b, Done(b))' = KeysUpTo(b, at)
        BY <1>1, <1>10 DEF KeysUpTo, Task
      <4>5. ASSUME NEW k \in Key \ next.written PROVE next.view[k] = Parent
        <5>1. k # key /\ k \notin branch[b].written
          BY <1>1
        <5>2. next.view[k] = branch[b].view[k]
          BY <1>1, <1>2, <5>1
        <5>3. QED BY <4>1, <5>1, <5>2
      <4>6. QED BY <1>5, <1>10, <3>1, <4>2, <4>3, <4>4, <4>5
    <3>2. CASE c # b
      <4>1. branch'[c] = branch[c] /\ Done(c)' = Done(c)
        BY <1>5, <1>11, <3>2
      <4>2. KeysUpTo(c, Done(c))' = KeysUpTo(c, Done(c))
        BY <1>1, <4>1 DEF KeysUpTo, Task
      <4>3. QED BY <1>0, <4>1, <4>2 DEF ViewsAreAlone
    <3>3. QED BY <3>1, <3>2
  <2>2. QED BY <1>4, <2>1 DEF ViewsAreAlone
<1>15. OutcomesSeen'
  <2>1. outcome' = outcome /\ \A c \in Branches : Ends(outcome[c])' <=> Ends(outcome[c])
    BY <1>1 DEF Ends
  <2>2. QED BY <1>0, <1>3, <1>4, <1>5, <2>1 DEF OutcomesSeen
<1>16. WaitsOpen'
  <2>1. \A c \in Branches : /\ branch'[c].state = "suspended" <=> branch[c].state = "suspended"
                            /\ c # b => branch'[c].at = branch[c].at
    BY <1>1, <1>5, <1>7
  <2>2. LeftSuspended' = LeftSuspended
    BY <1>1, <1>4, <2>1 DEF LeftSuspended
  <2>3. QED BY <1>0, <1>1, <1>3, <2>2 DEF WaitsOpen
<1>17. FrameBuilt'
  BY <1>3 DEF FrameBuilt
<1>18. PassOfFrame'
  <2>1. \A c \in Branches \ {b} : BranchFrame(c)' = BranchFrame(c)
    BY <1>5, <1>11 DEF BranchFrame
  <2>2. status = "racing" /\ frame # <<>> => branch[b].launched
    BY <1>0, <1>1, RunsLaunched
  <2>3. /\ \A c \in Branches : branch'[c].launched = branch[c].launched
        /\ \A c \in Branches : branch'[c].resumed => branch[c].resumed
        /\ ~(branch'[b].resumed /\ branch'[b].state \in {"running", "suspended"})
    BY <1>1, <1>5, <1>7
  <2>4. frame' = frame /\ status' = status
    BY <1>1
  <2>5. frame' = <<>> => \A c \in Branches : ~branch'[c].resumed
    BY <1>0, <2>3, <2>4 DEF PassOfFrame
  <2>6. ASSUME status' = "racing", frame' # <<>>
        PROVE  /\ \A c, d \in Branches : branch'[c].launched /\ branch'[d].launched => c = d
               /\ \A c \in Branches : ~branch'[c].launched => BranchFrame(c)' = frame'[c]
               /\ \A c \in Branches :
                    branch'[c].resumed /\ branch'[c].state \in {"running", "suspended"} =>
                      /\ branch'[c].launched
                      /\ frame'[c] = [state |-> "suspended", at |-> branch'[c].at, delta |-> Delta(c)']
    BY <1>0, <1>5, <1>11, <2>1, <2>2, <2>3, <2>4, <2>6 DEF PassOfFrame
  <2>7. QED BY <1>4, <2>5, <2>6 DEF PassOfFrame
<1>19. EndingSeen'
  BY <1>0, <1>1, <1>3, <1>4, <1>5 DEF EndingSeen
<1>20. WaitAllOutput' /\ WaitAnyOutput'
  <2>1. status' # "completed" /\ output' = Before
    BY <1>0, <1>1, <1>3 DEF WaitAnyOutput
  <2>2. QED BY <2>1 DEF WaitAllOutput, WaitAnyOutput, Before
<1>21. QED
  BY <1>12, <1>13, <1>14, <1>15, <1>16, <1>17, <1>18, <1>19, <1>20 DEF IInv

----------------------------------------------------------------------------
\* The block sees a result, or signals its branches: their tasks stay as they are.

LEMMA SameTasks ==
  ASSUME Typed, LogFollows, ViewsAreAlone, block' = block, stepLog' = stepLog,
         \A c \in Branches : /\ branch'[c].state = branch[c].state
                             /\ branch'[c].at = branch[c].at
                             /\ branch'[c].view = branch[c].view
                             /\ branch'[c].written = branch[c].written,
         \A c \in Branches : branch[c].state = "suspended" => (Ended' <=> Ended)
  PROVE  /\ LogFollows'
         /\ ViewsAreAlone'
         /\ LeftSuspended' = LeftSuspended
         /\ \A c \in Branches : Delta(c)' = Delta(c) /\ BranchFrame(c)' = BranchFrame(c)
<1>1. Branches' = Branches
  BY SameBlock
<1>2. \A c \in Branches : Log(c)' = Log(c) /\ Done(c)' = Done(c)
  <2>1. \A c \in Branches : Log(c)' = Log(c)
    BY DEF Log
  <2>2. QED BY <2>1 DEF Done
<1>3. ViewsAreAlone' /\ \A c \in Branches : Delta(c)' = Delta(c)
  BY <1>2, SameViews
<1>4. \A c \in Branches : BranchFrame(c)' = BranchFrame(c)
  BY <1>3 DEF BranchFrame
<1>5. LeftSuspended' = LeftSuspended
  BY <1>1 DEF LeftSuspended
<1>6. ASSUME NEW c \in Branches
      PROVE  /\ \A i \in 1 .. Len(block.tasks[c]) :
                  /\ i < branch'[c].at => stepLog'[<<c, i>>] = "completed"
                  /\ i > branch'[c].at => stepLog'[<<c, i>>] = "pending"
             /\ branch'[c].state = "running" => Log(c)' = "running"
             /\ branch'[c].state = "fulfilled" => Log(c)' = "completed" /\ LastTask(c)'
             /\ branch'[c].state = "suspended" =>
                  Log(c)' = IF Ended' THEN "cancelled" ELSE "suspended"
             /\ branch'[c].state = "failed" => Log(c)' = "failed"
             /\ branch'[c].state = "cancelled" => Log(c)' \in {"cancelled", "completed", "failed"}
  <2>1. LastTask(c)' <=> LastTask(c)
    BY DEF LastTask
  <2>2. QED BY <1>2, <2>1 DEF LogFollows
<1>7. LogFollows'
  BY <1>1, <1>6 DEF LogFollows
<1>8. QED BY <1>3, <1>4, <1>5, <1>7

\* cancelBranches gives signals only.
LEMMA AbortedFields ==
  ASSUME Typed, NEW B, branch' = Aborted(B)
  PROVE  /\ branch' \in [Branches -> BranchStates]
         /\ \A c \in Branches : /\ branch'[c].state = branch[c].state
                                /\ branch'[c].at = branch[c].at
                                /\ branch'[c].view = branch[c].view
                                /\ branch'[c].written = branch[c].written
                                /\ branch'[c].resumed = branch[c].resumed
                                /\ branch'[c].launched = branch[c].launched
<1>1. ASSUME NEW c \in Branches
      PROVE  /\ branch'[c] \in BranchStates
             /\ branch'[c].state = branch[c].state
             /\ branch'[c].at = branch[c].at
             /\ branch'[c].view = branch[c].view
             /\ branch'[c].written = branch[c].written
             /\ branch'[c].resumed = branch[c].resumed
             /\ branch'[c].launched = branch[c].launched
  <2>1. branch[c] \in BranchStates
    BY BranchFields
  <2>2. branch'[c] = IF c \in B THEN [branch[c] EXCEPT !.aborted = TRUE] ELSE branch[c]
    BY DEF Aborted
  <2>3. CASE c \in B
    <3>1. branch'[c] = [branch[c] EXCEPT !.aborted = TRUE]
      BY <2>2, <2>3
    <3>2. QED BY <2>1, <3>1 DEF BranchStates
  <2>4. CASE c \notin B
    BY <2>1, <2>2, <2>4
  <2>5. QED BY <2>3, <2>4
<1>2. branch' = [c \in Branches |-> branch'[c]]
  BY DEF Aborted
<1>3. branch' \in [Branches -> BranchStates]
  BY <1>1, <1>2
<1>4. QED BY <1>1, <1>3

LEMMA SeeEndKeeps ==
  ASSUME IInv, NEW b \in Branches, SeeEnd(b)
  PROVE  IInv'
<1>0. Typed /\ LogFollows /\ ViewsAreAlone /\ OutcomesSeen /\ WaitsOpen /\ PassOfFrame
      /\ WaitAllOutput /\ WaitAnyOutput
  BY DEF IInv
<1>1. /\ status = "racing" /\ status' = "abandoning"
      /\ branch[b].state \in Settled /\ Ends(branch[b].state)
      /\ outcome' = [outcome EXCEPT ![b] = branch[b].state]
      /\ ending' = [fulfilled |-> branch[b].state = "fulfilled", branch |-> b]
      /\ branch' = Aborted(Pending \ {b})
      /\ UNCHANGED <<block, frame, output, open, stepLog, outer>>
  BY DEF SeeEnd
<1>2. Branches' = Branches
  BY <1>1, SameBlock
<1>3. /\ branch' \in [Branches -> BranchStates]
      /\ \A c \in Branches : /\ branch'[c].state = branch[c].state
                             /\ branch'[c].at = branch[c].at
                             /\ branch'[c].view = branch[c].view
                             /\ branch'[c].written = branch[c].written
                             /\ branch'[c].resumed = branch[c].resumed
                             /\ branch'[c].launched = branch[c].launched
  BY <1>0, <1>1, AbortedFields
<1>4. ~Ended /\ ~Ended'
  BY <1>1 DEF Ended
<1>5. LogFollows' /\ ViewsAreAlone' /\ LeftSuspended' = LeftSuspended
  BY <1>0, <1>1, <1>3, <1>4, SameTasks
<1>6. Typed'
  <2>1. \A c \in Branches : branch'[c].at \in 1 .. Len(block.tasks[c])
    BY <1>0, <1>3 DEF Typed
  <2>2. outcome' \in [Branches -> Settled \cup {"none"}]
    BY <1>0, <1>1 DEF Typed
  <2>3. ending' \in [fulfilled : BOOLEAN, branch : Branches \cup {0}]
    BY <1>1
  <2>4. QED BY <1>0, <1>1, <1>3, <2>1, <2>2, <2>3, TypedAfter DEF Typed
<1>7. OutcomesSeen'
  <2>1. \A c \in Branches : outcome'[c] \in {"none", branch[c].state}
    BY <1>0, <1>1 DEF OutcomesSeen, Typed
  <2>2. QED BY <1>1, <1>2, <1>3, <2>1 DEF OutcomesSeen
<1>8. WaitsOpen'
  BY <1>0, <1>1, <1>4, <1>5 DEF WaitsOpen
<1>9. FrameBuilt'
  BY <1>1 DEF FrameBuilt
<1>10. PassOfFrame'
  BY <1>0, <1>1, <1>2, <1>3 DEF PassOfFrame
<1>11. EndingSeen'
  <2>1. ending'.branch = b /\ (ending'.fulfilled <=> branch[b].state = "fulfilled")
    BY <1>1
  <2>2. branch[b].state = "fulfilled" => block.strategy = "wait_any"
    BY <1>1 DEF Ends
  <2>3. QED BY <1>1, <1>2, <1>3, <2>1, <2>2 DEF EndingSeen
<1>12. WaitAllOutput' /\ WaitAnyOutput'
  <2>1. status' # "completed" /\ output' = Before
    BY <1>0, <1>1 DEF WaitAnyOutput
  <2>2. QED BY <2>1 DEF WaitAllOutput, WaitAnyOutput, Before
<1>13. QED
  BY <1>5, <1>6, <1>7, <1>8, <1>9, <1>10, <1>11, <1>12 DEF IInv

LEMMA OuterAbortKeeps ==
  ASSUME IInv, OuterAbort
  PROVE  IInv'
<1>0. Typed /\ LogFollows /\ ViewsAreAlone /\ OutcomesSeen /\ WaitsOpen /\ PassOfFrame /\ EndingSeen
      /\ WaitAllOutput /\ WaitAnyOutput
  BY DEF IInv
<1> DEFINE B == {b \in Branches : branch[b].state = "running"}
<1>1. /\ status \in {"racing", "abandoning"} /\ outer' = TRUE /\ frame = <<>>
      /\ branch' = Aborted(B)
      /\ UNCHANGED <<block, status, outcome, ending, frame, output, open, stepLog>>
  BY DEF OuterAbort
<1>2. Branches' = Branches
  BY <1>1, SameBlock
<1> HIDE DEF B
<1>3. /\ branch' \in [Branches -> BranchStates]
      /\ \A c \in Branches : /\ branch'[c].state = branch[c].state
                             /\ branch'[c].at = branch[c].at
                             /\ branch'[c].view = branch[c].view
                             /\ branch'[c].written = branch[c].written
                             /\ branch'[c].resumed = branch[c].resumed
                             /\ branch'[c].launched = branch[c].launched
  BY <1>0, <1>1, AbortedFields
<1>4. ~Ended /\ ~Ended'
  BY <1>1 DEF Ended
<1>5. LogFollows' /\ ViewsAreAlone' /\ LeftSuspended' = LeftSuspended
  BY <1>0, <1>1, <1>3, <1>4, SameTasks
<1>6. Typed'
  <2>1. \A c \in Branches : branch'[c].at \in 1 .. Len(block.tasks[c])
    BY <1>0, <1>3 DEF Typed
  <2>2. QED BY <1>0, <1>1, <1>3, <2>1, TypedAfter DEF Typed
<1>7. OutcomesSeen'
  <2>1. \A c \in Branches : Ends(outcome[c])' <=> Ends(outcome[c])
    BY <1>1 DEF Ends
  <2>2. QED BY <1>0, <1>1, <1>2, <1>3, <2>1 DEF OutcomesSeen
<1>8. WaitsOpen'
  BY <1>0, <1>1, <1>4, <1>5 DEF WaitsOpen
<1>9. FrameBuilt'
  BY <1>1 DEF FrameBuilt
<1>10. PassOfFrame'
  BY <1>0, <1>1, <1>2, <1>3 DEF PassOfFrame
<1>11. EndingSeen'
  BY <1>0, <1>1, <1>2, <1>3 DEF EndingSeen
<1>12. WaitAllOutput' /\ WaitAnyOutput'
  <2>1. status' # "completed" /\ output' = Before
    BY <1>0, <1>1 DEF WaitAnyOutput
  <2>2. QED BY <2>1 DEF WaitAllOutput, WaitAnyOutput, Before
<1>13. QED
  BY <1>5, <1>6, <1>7, <1>8, <1>9, <1>10, <1>11, <1>12 DEF IInv

\* A branch that ended its work leaves what it leaves alone.
LEMMA FulfilledAlone ==
  ASSUME Typed, LogFollows, ViewsAreAlone, NEW b \in Branches, branch[b].state = "fulfilled"
  PROVE  /\ branch[b].view = Alone(b)
         /\ branch[b].written = KeysOf(b)
         /\ \A k \in Key \ branch[b].written : branch[b].view[k] = Parent
         /\ \A i \in DOMAIN block.tasks[b] : stepLog[<<b, i>>] = "completed"
<1>1. /\ DOMAIN block.tasks[b] = 1 .. Len(block.tasks[b])
      /\ Len(block.tasks[b]) \in Nat
  BY Shapes DEF Typed
<1>2. Log(b) = "completed" /\ branch[b].at = Len(block.tasks[b])
  BY DEF LogFollows, LastTask
<1>3. Done(b) = Len(block.tasks[b])
  BY <1>2 DEF Done
<1>4. KeysOf(b) = KeysUpTo(b, Len(block.tasks[b]))
  BY <1>1 DEF KeysOf, KeysUpTo
<1>5. ASSUME NEW i \in DOMAIN block.tasks[b] PROVE stepLog[<<b, i>>] = "completed"
  <2>1. i < branch[b].at \/ i = branch[b].at
    BY <1>1, <1>2
  <2>2. QED BY <1>1, <1>2, <2>1 DEF LogFollows, Log
<1>6. QED BY <1>3, <1>4, <1>5 DEF ViewsAreAlone, Alone

\* The frame of settled branches.
LEMMA FrameTyped ==
  ASSUME Typed, \A b \in Branches : branch[b].state \in Settled
  PROVE  /\ BuildFrame # <<>>
         /\ BuildFrame \in [Branches -> BranchFrames]
         /\ DOMAIN BuildFrame = Branches
         /\ \A b \in Branches : /\ BuildFrame[b].state = branch[b].state
                                /\ BuildFrame[b].at = branch[b].at
                                /\ BuildFrame[b].delta = Delta(b)
<1>1. ASSUME NEW b \in Branches
      PROVE  /\ BranchFrame(b) \in BranchFrames
             /\ BranchFrame(b).state = branch[b].state
             /\ BranchFrame(b).at = branch[b].at
             /\ BranchFrame(b).delta = Delta(b)
  BY BranchFields DEF BranchFrame, BranchFrames
<1>2. BuildFrame = [b \in Branches |-> BranchFrame(b)]
  BY DEF BuildFrame
<1>3. 1 \in Branches
  BY Shapes DEF Typed
<1>4. DOMAIN BuildFrame = Branches
  BY <1>2
<1>5. BuildFrame # <<>>
  BY <1>3, <1>4
<1>6. QED BY <1>1, <1>2, <1>4, <1>5

\* The properties of $output read the block, the log and $output only.
LEMMA OutputAfter ==
  ASSUME block' = block,
         status' = "completed" /\ block.strategy = "wait_all" =>
           \A k \in Key :
             LET writers == {b \in Branches : k \in KeysOf(b)} IN
             output'[k] = IF writers = {} THEN Parent
                          ELSE Alone(CHOOSE b \in writers : \A c \in writers : c <= b)[k],
         status' = "completed" /\ block.strategy = "wait_any" =>
           \E b \in Branches :
             /\ output' = Alone(b)
             /\ \A i \in DOMAIN block.tasks[b] : stepLog'[<<b, i>>] = "completed",
         status' # "completed" => output' = Before
  PROVE  WaitAllOutput' /\ WaitAnyOutput'
<1>1. Before' = Before
  BY DEF Before
<1>2. Branches' = Branches /\ \A b : Alone(b)' = Alone(b)
  BY SameBlock
<1>3. \A k : {b \in Branches : k \in KeysOf(b)}' = {b \in Branches : k \in KeysOf(b)}
  <2>1. \A b : KeysOf(b)' = KeysOf(b)
    BY SameBlock
  <2>2. QED BY <1>2, <2>1
<1>4. WaitAnyOutput'
  BY <1>1, <1>2 DEF WaitAnyOutput
<1>5. WaitAllOutput'
  BY <1>2, <1>3 DEF WaitAllOutput
<1>6. QED BY <1>4, <1>5

\* All branches are fulfilled: their deltas, in the order of the branches, are what
\* wait_all promises.
LEMMA AllMerged ==
  ASSUME Typed, LogFollows, ViewsAreAlone, output = Before,
         \A b \in Branches : branch[b].state = "fulfilled",
         NEW k \in Key
  PROVE  LET writers == {b \in Branches : k \in KeysOf(b)} IN
         MergedInOrder[k] = IF writers = {} THEN Parent
                            ELSE Alone(CHOOSE b \in writers : \A c \in writers : c <= b)[k]
<1> DEFINE writers == {b \in Branches : k \in KeysOf(b)}
           last == CHOOSE b \in writers : \A c \in writers : c <= b
<1>1. \A b \in Branches : branch[b].written = KeysOf(b) /\ branch[b].view = Alone(b)
  BY FulfilledAlone
<1>2. block \in Blocks /\ output[k] = Parent
  BY Beginning DEF Typed
<1>3. CASE writers = {}
  <2>1. \A b \in Branches : k \notin branch[b].written
    BY <1>1, <1>3
  <2>2. QED BY <1>2, <1>3, <2>1, MergedValues
<1>4. CASE writers # {}
  <2>1. Branches = 1 .. Len(block.tasks) /\ Len(block.tasks) \in Nat
    BY <1>2, Shapes
  <2>2. writers \in SUBSET (1 .. Len(block.tasks))
    BY <2>1
  <2>3. \E b \in writers : \A c \in writers : c <= b
    <3> HIDE DEF writers
    <3>1. QED BY <1>4, <2>1, <2>2, LastOf
  <2>4. last \in writers /\ \A c \in writers : c <= last
    <3> HIDE DEF writers
    <3>1. QED BY <2>3
  <2> HIDE DEF last
  <2>5. last \in Branches /\ k \in branch[last].written
    BY <1>1, <2>4
  <2>6. ASSUME NEW c \in Branches, c > last PROVE k \notin branch[c].written
    <3>1. ~(c <= last)
      BY <2>1, <2>5, <2>6
    <3>2. c \notin writers
      BY <2>4, <3>1
    <3>3. QED BY <1>1, <3>2
  <2>7. MergedInOrder[k] = branch[last].view[k]
    BY <1>2, <2>5, <2>6, MergedValues
  <2>8. MergedInOrder[k] = Alone(last)[k]
    BY <1>1, <2>5, <2>7
  <2>9. QED BY <1>4, <2>8 DEF last
<1>5. QED BY <1>3, <1>4

LEMMA MergedTyped ==
  ASSUME Typed
  PROVE  MergedInOrder \in [Key -> Value]
<1>1. \A k \in Key : MergedInOrder[k] \in Value
  <2> SUFFICES ASSUME NEW k \in Key PROVE MergedInOrder[k] \in Value
    OBVIOUS
  <2>1. /\ block \in Blocks /\ output[k] \in Value
        /\ \A b \in Branches : branch[b].written \subseteq Key /\ branch[b].view[k] \in Value
    BY ZenonT(60), BranchFields DEF Typed
  <2> DEFINE writers == {b \in Branches : k \in branch[b].written}
  <2>2. CASE writers = {}
    BY <2>1, <2>2, MergedValues
  <2>3. CASE writers # {}
    <3>1. Branches = 1 .. Len(block.tasks) /\ Len(block.tasks) \in Nat
      BY <2>1, Shapes
    <3>2. writers \in SUBSET (1 .. Len(block.tasks))
      BY <3>1
    <3>3. PICK b \in writers : \A c \in writers : c <= b
      <4> HIDE DEF writers
      <4>1. QED BY <2>3, <3>1, <3>2, LastOf
    <3>4. \A c \in Branches : c > b => k \notin branch[c].written
      BY <3>1, <3>3
    <3>5. QED BY <2>1, <3>3, <3>4, MergedValues
  <2>4. QED BY <2>2, <2>3
<1>2. QED
  <2>1. Len(block.tasks) \in Branches
    BY Shapes DEF Typed
  <2>2. \E into, delta : MergedInOrder = Merged(into, delta)
    BY <2>1, MergedUnfolds DEF Typed
  <2>3. QED BY <1>1, <2>2 DEF Merged

\* What the block has seen, when it has seen the result of b; when it was the last
\* one, it has seen them all.
LEMMA ResultSeen ==
  ASSUME Typed, OutcomesSeen, NEW b \in Branches, SeeResult(b)
  PROVE  /\ outcome' \in [Branches -> Settled \cup {"none"}]
         /\ \A c \in Branches : outcome'[c] \in {"none", branch[c].state} /\ ~Ends(outcome'[c])
         /\ Pending = {b} => \A c \in Branches : /\ outcome'[c] = branch[c].state
                                                 /\ branch[c].state \in Settled
<1>1. /\ status = "racing"
      /\ branch[b].state \in Settled
      /\ ~Ends(branch[b].state)
      /\ outcome' = [outcome EXCEPT ![b] = branch[b].state]
  BY DEF SeeResult
<1>2. outcome \in [Branches -> Settled \cup {"none"}]
  BY DEF Typed
<1>3. outcome' \in [Branches -> Settled \cup {"none"}]
  BY <1>1, <1>2
<1>4. \A c \in Branches : outcome'[c] = IF c = b THEN branch[b].state ELSE outcome[c]
  BY <1>1, <1>2
<1>5. \A c \in Branches : outcome'[c] \in {"none", branch[c].state} /\ ~Ends(outcome'[c])
  BY <1>1, <1>4 DEF OutcomesSeen
<1>6. ASSUME Pending = {b}, NEW c \in Branches
      PROVE  outcome'[c] = branch[c].state /\ branch[c].state \in Settled
  <2>1. c # b => outcome[c] # "none"
    BY <1>6 DEF Pending
  <2>2. outcome[c] \in Settled \cup {"none"} /\ outcome[c] \in {"none", branch[c].state}
    BY <1>2 DEF OutcomesSeen
  <2>3. QED BY <1>1, <1>4, <2>1, <2>2
<1>7. QED BY <1>3, <1>5, <1>6

LEMMA SeeResultKeeps ==
  ASSUME IInv, NEW b \in Branches, SeeResult(b)
  PROVE  IInv'
<1>0. Typed /\ LogFollows /\ ViewsAreAlone /\ OutcomesSeen /\ WaitsOpen /\ PassOfFrame
      /\ WaitAllOutput /\ WaitAnyOutput
  BY DEF IInv
<1> DEFINE seen == [outcome EXCEPT ![b] = branch[b].state]
<1>1. /\ status = "racing"
      /\ outcome' = seen
      /\ UNCHANGED <<block, branch, ending, open, stepLog, outer>>
  BY DEF SeeResult
<1>2. Branches' = Branches
  BY <1>1, SameBlock
<1>3. /\ outcome' \in [Branches -> Settled \cup {"none"}]
      /\ \A c \in Branches : outcome'[c] \in {"none", branch[c].state} /\ ~Ends(outcome'[c])
      /\ Pending = {b} => \A c \in Branches : /\ outcome'[c] = branch[c].state
                                              /\ branch[c].state \in Settled
  BY <1>0, ResultSeen
<1>4. \A c \in Branches : Ends(outcome[c])' <=> Ends(outcome'[c])
  BY <1>1 DEF Ends
<1>5. output = Before /\ ~Ended /\ open = LeftSuspended
  BY <1>0, <1>1 DEF WaitAnyOutput, Ended, WaitsOpen
<1>6. CASE Pending # {b}
  <2>1. UNCHANGED <<status, frame, output>> /\ ~Ended'
    BY <1>1, <1>6 DEF SeeResult, Ended
  <2>2. LogFollows' /\ ViewsAreAlone' /\ LeftSuspended' = LeftSuspended
        /\ \A c \in Branches : Delta(c)' = Delta(c) /\ BranchFrame(c)' = BranchFrame(c)
    BY <1>0, <1>1, <1>5, <2>1, SameTasks
  <2>3. Typed'
    BY <1>0, <1>1, <1>3, <2>1, TypedAfter DEF Typed
  <2>4. OutcomesSeen'
    BY <1>1, <1>2, <1>3, <1>4, <2>1 DEF OutcomesSeen
  <2>5. WaitsOpen' /\ FrameBuilt' /\ EndingSeen'
    BY <1>1, <1>5, <2>1, <2>2 DEF WaitsOpen, FrameBuilt, EndingSeen
  <2>6. PassOfFrame'
    BY <1>0, <1>1, <1>2, <2>1, <2>2 DEF PassOfFrame
  <2>7. WaitAllOutput' /\ WaitAnyOutput'
    BY <1>1, <1>5, <2>1, OutputAfter
  <2>8. QED BY <2>2, <2>3, <2>4, <2>5, <2>6, <2>7 DEF IInv
<1>7. CASE Pending = {b} /\ Suspends(seen)
  <2>1. status' = "suspended" /\ frame' = BuildFrame /\ output' = output /\ ~Ended'
    BY <1>7 DEF SeeResult, Ended
  <2>2. LogFollows' /\ ViewsAreAlone' /\ LeftSuspended' = LeftSuspended
        /\ \A c \in Branches : Delta(c)' = Delta(c) /\ BranchFrame(c)' = BranchFrame(c)
    BY <1>0, <1>1, <1>5, <2>1, SameTasks
  <2>3. /\ frame' # <<>> /\ frame' \in [Branches -> BranchFrames]
        /\ \A c \in Branches : frame'[c].at = branch[c].at
    BY <1>0, <1>3, <1>7, <2>1, FrameTyped
  <2>4. Typed'
    BY <1>0, <1>1, <1>3, <2>1, <2>3, TypedAfter DEF Typed
  <2>5. \A c \in Branches : outcome'[c] # "none" /\ branch[c].state # "running"
    BY <1>3, <1>7 DEF Settled
  <2>6. OutcomesSeen'
    BY <1>1, <1>2, <1>3, <1>4, <2>1, <2>5 DEF OutcomesSeen
  <2>7. \E c \in Branches : branch[c].state = "suspended"
    <3>1. CASE \E c \in Branches : seen[c] = "suspended"
      BY <1>1, <1>3, <1>7, <3>1
    <3>2. CASE block.strategy = "wait_any"
      <4>1. outcome'[b] = branch[b].state /\ branch[b].state \in Settled /\ ~Ends(outcome'[b])
        BY <1>3, <1>7
      <4>2. QED BY <3>2, <4>1 DEF Ends, Settled
    <3>3. QED BY <1>7, <3>1, <3>2 DEF Suspends
  <2>8. open # {}
    BY <1>5, <2>7 DEF LeftSuspended
  <2>9. BuildFrame' = BuildFrame
    BY <1>2, <2>2 DEF BuildFrame
  <2>10. WaitsOpen' /\ FrameBuilt' /\ EndingSeen'
    BY <1>1, <1>5, <2>1, <2>2, <2>8, <2>9 DEF WaitsOpen, FrameBuilt, EndingSeen
  <2>11. PassOfFrame'
    BY <2>1, <2>3 DEF PassOfFrame
  <2>12. WaitAllOutput' /\ WaitAnyOutput'
    BY <1>1, <1>5, <2>1, OutputAfter
  <2>13. QED BY <2>2, <2>4, <2>6, <2>10, <2>11, <2>12 DEF IInv
<1>8. CASE Pending = {b} /\ ~Suspends(seen)
  <2>1. status' = "completed" /\ output' = MergedInOrder /\ frame' = frame /\ Ended'
    BY <1>8 DEF SeeResult, Ended
  <2>2. block.strategy # "wait_any" /\ \A c \in Branches : branch[c].state = "fulfilled"
    <3>1. block.strategy # "wait_any" /\ \A c \in Branches : seen[c] # "suspended"
      BY <1>8 DEF Suspends
    <3>2. QED BY <1>1, <1>3, <1>8, <3>1 DEF Ends, Settled
  <2>3. LogFollows' /\ ViewsAreAlone' /\ LeftSuspended' = LeftSuspended
    BY <1>0, <1>1, <2>2, SameTasks
  <2>4. Typed'
    BY <1>0, <1>1, <1>3, <2>1, MergedTyped, TypedAfter DEF Typed
  <2>5. \A c \in Branches : branch[c].state # "running"
    BY <2>2
  <2>6. OutcomesSeen'
    BY <1>1, <1>2, <1>3, <1>4, <2>1, <2>5 DEF OutcomesSeen
  <2>7. open' = {}
    BY <1>1, <1>5, <2>2 DEF LeftSuspended
  <2>8. WaitsOpen' /\ FrameBuilt' /\ EndingSeen'
    BY <2>1, <2>7 DEF WaitsOpen, FrameBuilt, EndingSeen
  <2>9. PassOfFrame'
    BY <1>0, <1>1, <1>2, <2>1 DEF PassOfFrame
  <2>10. \A k \in Key :
           LET writers == {c \in Branches : k \in KeysOf(c)} IN
           output'[k] = IF writers = {} THEN Parent
                        ELSE Alone(CHOOSE c \in writers : \A d \in writers : d <= c)[k]
    BY <1>0, <1>5, <2>1, <2>2, AllMerged
  <2>11. WaitAllOutput' /\ WaitAnyOutput'
    BY <1>1, <2>1, <2>2, <2>10, OutputAfter
  <2>12. QED BY <2>3, <2>4, <2>6, <2>8, <2>9, <2>11 DEF IInv
<1>9. QED BY <1>6, <1>7, <1>8

----------------------------------------------------------------------------
\* The waits of suspended branches are dropped: the block ends.

LEMMA DropsWaits ==
  ASSUME IInv, ~Ended, block' = block, branch' = branch, Ended',
         status' \in {"racing", "abandoning", "suspended", "completed", "failed"},
         \A b \in Branches : branch[b].state \in Settled,
         outcome' \in [Branches -> Settled \cup {"none"}],
         \A b \in Branches : outcome'[b] \in {"none", branch[b].state},
         UNCHANGED <<ending, frame, outer>>,
         DropWaits(LeftSuspended),
         output' \in [Key -> Value],
         WaitAllOutput', WaitAnyOutput'
  PROVE  IInv'
<1>0. Typed /\ LogFollows /\ ViewsAreAlone /\ WaitsOpen /\ PassOfFrame
  BY DEF IInv
<1>1. Branches' = Branches /\ TasksOf(block.tasks)' = TasksOf(block.tasks)
  BY SameBlock
<1>2. \A b \in Branches : /\ branch[b].at \in 1 .. Len(block.tasks[b])
                          /\ <<b, branch[b].at>> \in TasksOf(block.tasks)
  BY <1>0, BranchFields
<1>3. /\ open' = open \ LeftSuspended
      /\ stepLog' \in [TasksOf(block.tasks) -> Logged]
      /\ \A t \in TasksOf(block.tasks) :
           stepLog'[t] = IF t \in LeftSuspended THEN "cancelled" ELSE stepLog[t]
  <2>1. stepLog \in [TasksOf(block.tasks) -> Logged]
    BY <1>0 DEF Typed
  <2>2. QED BY <2>1 DEF DropWaits, Logged
<1>4. open' = {}
  BY <1>0, <1>3 DEF WaitsOpen
<1>5. \A b \in Branches : \A i \in 1 .. Len(block.tasks[b]) :
        stepLog'[<<b, i>>] = IF branch[b].state = "suspended" /\ i = branch[b].at
                             THEN "cancelled" ELSE stepLog[<<b, i>>]
  <2>1. ASSUME NEW b \in Branches, NEW i \in 1 .. Len(block.tasks[b])
        PROVE  <<b, i>> \in LeftSuspended <=> branch[b].state = "suspended" /\ i = branch[b].at
    BY DEF LeftSuspended
  <2>2. \A b \in Branches : \A i \in 1 .. Len(block.tasks[b]) : <<b, i>> \in TasksOf(block.tasks)
    BY <1>0, TaskIds DEF Typed
  <2>3. QED BY <1>3, <2>1, <2>2
<1>6. \A b \in Branches : Log(b)' = IF branch[b].state = "suspended" THEN "cancelled" ELSE Log(b)
  BY <1>2, <1>5 DEF Log
<1>7. \A b \in Branches : Done(b)' = Done(b)
  <2>1. ASSUME NEW b \in Branches PROVE Done(b)' = Done(b)
    <3>1. branch[b].state = "suspended" => Log(b) = "suspended"
      BY <1>0 DEF LogFollows
    <3>2. Log(b)' = "completed" <=> Log(b) = "completed"
      BY <1>6, <3>1
    <3>3. QED BY <3>2 DEF Done
  <2>2. QED BY <2>1
<1>8. ViewsAreAlone'
  BY <1>0, <1>7, SameViews
<1>9. Typed'
  BY <1>0, <1>3, <1>4, TypedAfter DEF Typed
<1>10. LogFollows'
  <2>1. ASSUME NEW b \in Branches
        PROVE  /\ \A i \in 1 .. Len(block.tasks[b]) :
                    /\ i < branch'[b].at => stepLog'[<<b, i>>] = "completed"
                    /\ i > branch'[b].at => stepLog'[<<b, i>>] = "pending"
               /\ branch'[b].state = "running" => Log(b)' = "running"
               /\ branch'[b].state = "fulfilled" => Log(b)' = "completed" /\ LastTask(b)'
               /\ branch'[b].state = "suspended" =>
                    Log(b)' = IF Ended' THEN "cancelled" ELSE "suspended"
               /\ branch'[b].state = "failed" => Log(b)' = "failed"
               /\ branch'[b].state = "cancelled" => Log(b)' \in {"cancelled", "completed", "failed"}
    <3>1. LastTask(b)' <=> LastTask(b)
      BY DEF LastTask
    <3>2. ASSUME NEW i \in 1 .. Len(block.tasks[b]), i # branch[b].at
          PROVE  stepLog'[<<b, i>>] = stepLog[<<b, i>>]
      BY <1>5, <3>2
    <3>3. \A i \in 1 .. Len(block.tasks[b]) :
            /\ i < branch[b].at => i # branch[b].at
            /\ i > branch[b].at => i # branch[b].at
      BY <1>2
    <3>4. branch[b].state # "running"
      BY DEF Settled
    <3>5. QED BY <1>0, <1>6, <3>1, <3>2, <3>3, <3>4 DEF LogFollows
  <2>2. QED BY <1>1, <2>1 DEF LogFollows
<1>11. OutcomesSeen'
  <2>1. status' \notin {"racing", "suspended"}
    BY DEF Ended
  <2>2. \A b \in Branches : branch[b].state # "running"
    BY DEF Settled
  <2>3. QED BY <1>1, <2>1, <2>2 DEF OutcomesSeen
<1>12. WaitsOpen' /\ FrameBuilt' /\ EndingSeen'
  BY <1>4 DEF WaitsOpen, FrameBuilt, EndingSeen, Ended
<1>13. PassOfFrame'
  BY <1>0, <1>1 DEF PassOfFrame, Ended
<1>14. QED BY <1>8, <1>9, <1>10, <1>11, <1>12, <1>13 DEF IInv

LEMMA AbandonKeeps ==
  ASSUME IInv, Abandon
  PROVE  IInv'
<1>0. Typed /\ LogFollows /\ ViewsAreAlone /\ OutcomesSeen /\ EndingSeen /\ WaitAnyOutput
  BY DEF IInv
<1>1. /\ status = "abandoning" /\ ~Ended
      /\ \A b \in Branches : branch[b].state \in Settled
      /\ outcome' = [b \in Branches |-> IF b \in Launched THEN branch[b].state ELSE outcome[b]]
      /\ DropWaits(LeftSuspended)
      /\ IF ending.fulfilled
         THEN status' = "completed" /\ output' = Merged(output, Delta(ending.branch))
         ELSE status' = "failed" /\ UNCHANGED output
      /\ UNCHANGED <<block, branch, ending, frame, outer>>
  BY DEF Abandon, Ended
<1>2. output = Before
  BY <1>0, <1>1 DEF WaitAnyOutput
<1>3. /\ outcome' \in [Branches -> Settled \cup {"none"}]
      /\ \A b \in Branches : outcome'[b] \in {"none", branch[b].state}
  <2>1. \A b \in Branches : /\ outcome'[b] \in Settled \cup {"none"}
                            /\ outcome'[b] \in {"none", branch[b].state}
    BY <1>0, <1>1 DEF Typed, OutcomesSeen
  <2>2. QED BY <1>1, <2>1
<1>4. CASE ending.fulfilled
  <2> DEFINE e == ending.branch
  <2>1. e \in Branches /\ block.strategy = "wait_any" /\ branch[e].state = "fulfilled"
    BY <1>0, <1>1, <1>4 DEF EndingSeen
  <2> HIDE DEF e
  <2>2. status' = "completed" /\ output' = Merged(Before, Delta(e)) /\ Ended'
    BY <1>1, <1>2, <1>4 DEF Ended, e
  <2>3. /\ branch[e].view = Alone(e)
        /\ \A k \in Key \ branch[e].written : branch[e].view[k] = Parent
        /\ \A i \in DOMAIN block.tasks[e] : stepLog[<<e, i>>] = "completed"
    BY <1>0, <2>1, FulfilledAlone
  <2>4. branch[e].view \in [Key -> Value] /\ branch[e].written \subseteq Key
    BY <1>0, <2>1, BranchFields
  <2>5. \A k \in Key : output'[k] = branch[e].view[k]
    BY <2>2, <2>3, Beginning DEF Merged, Delta
  <2>6. output' = branch[e].view
    <3>1. output' = [k \in Key |-> output'[k]]
      BY <2>2 DEF Merged
    <3>2. QED BY <2>4, <2>5, <3>1
  <2>7. \A i \in DOMAIN block.tasks[e] : stepLog'[<<e, i>>] = "completed"
    <3>1. ASSUME NEW i \in DOMAIN block.tasks[e] PROVE stepLog'[<<e, i>>] = "completed"
      <4>1. <<e, i>> \in DOMAIN stepLog
        BY <1>0, <2>1, Shapes, TaskIds DEF Typed
      <4>2. <<e, i>> \notin LeftSuspended
        BY <2>1 DEF LeftSuspended
      <4>3. stepLog'[<<e, i>>] = stepLog[<<e, i>>]
        BY <1>1, <4>1, <4>2 DEF DropWaits
      <4>4. QED BY <2>3, <4>3
    <3>2. QED BY <3>1
  <2>8. WaitAllOutput' /\ WaitAnyOutput'
    BY <1>1, <2>1, <2>2, <2>3, <2>6, <2>7, OutputAfter
  <2>9. QED BY <1>1, <1>3, <2>2, <2>4, <2>6, <2>8, DropsWaits
<1>5. CASE ~ending.fulfilled
  <2>1. status' = "failed" /\ output' = output /\ Ended'
    BY <1>1, <1>5 DEF Ended
  <2>2. WaitAllOutput' /\ WaitAnyOutput'
    BY <1>1, <1>2, <2>1, OutputAfter
  <2>3. output' \in [Key -> Value]
    BY <1>0, <2>1 DEF Typed
  <2>4. QED BY <1>1, <1>3, <2>1, <2>2, <2>3, DropsWaits
<1>6. QED BY <1>4, <1>5

LEMMA OuterDropsKeeps ==
  ASSUME IInv, OuterDrops
  PROVE  IInv'
<1>0. Typed /\ OutcomesSeen /\ FrameBuilt /\ WaitAnyOutput
  BY DEF IInv
<1>1. /\ status = "suspended" /\ status' = "failed" /\ ~Ended /\ Ended'
      /\ DropWaits(WaitsOf(frame))
      /\ UNCHANGED <<block, branch, outcome, ending, frame, output, outer>>
  BY DEF OuterDrops, Ended
<1>2. \A b \in Branches : branch[b].state \in Settled
  BY <1>0, <1>1, BranchFields DEF OutcomesSeen
<1>3. WaitsOf(frame) = LeftSuspended
  BY <1>0, <1>1, <1>2, FrameTyped DEF FrameBuilt, WaitsOf, LeftSuspended
<1>4. DropWaits(LeftSuspended)
  BY <1>1, <1>3
<1>5. WaitAllOutput' /\ WaitAnyOutput'
  BY <1>0, <1>1, OutputAfter DEF WaitAnyOutput
<1>6. /\ outcome' \in [Branches -> Settled \cup {"none"}]
      /\ \A b \in Branches : outcome'[b] \in {"none", branch[b].state}
      /\ output' \in [Key -> Value]
  BY <1>0, <1>1 DEF Typed, OutcomesSeen
<1>7. QED BY <1>1, <1>2, <1>4, <1>5, <1>6, DropsWaits

----------------------------------------------------------------------------
\* A pass goes on from the frame: every branch is as it was, but the one that is
\* answered runs.

LEMMA ResumeFields ==
  ASSUME IInv, NEW w, Resume(w)
  PROVE  /\ w[1] \in Branches
         /\ w = <<w[1], branch[w[1]].at>>
         /\ branch[w[1]].state = "suspended"
         /\ branch' \in [Branches -> BranchStates]
         /\ \A b \in Branches :
              /\ branch'[b].state = IF b = w[1] THEN "running" ELSE branch[b].state
              /\ branch'[b].at = branch[b].at
              /\ branch'[b].view = branch[b].view
              /\ branch'[b].written = branch[b].written
              /\ branch'[b].resumed <=> b = w[1]
              /\ branch'[b].launched <=> b = w[1]
         /\ outcome' = [b \in Branches |-> IF b = w[1] THEN "none" ELSE branch[b].state]
         /\ stepLog' = [t \in DOMAIN stepLog |-> IF t = w THEN "running" ELSE stepLog[t]]
<1>0. Typed /\ ViewsAreAlone /\ OutcomesSeen /\ FrameBuilt /\ WaitAnyOutput
  BY DEF IInv
<1>1. status = "suspended" /\ w \in WaitsOf(frame) /\ frame = BuildFrame /\ output = Before
  BY <1>0 DEF Resume, FrameBuilt, WaitAnyOutput
<1>2. \A b \in Branches : branch[b].state \in Settled
  BY <1>0, <1>1, BranchFields DEF OutcomesSeen
<1>3. /\ DOMAIN frame = Branches
      /\ \A b \in Branches : /\ frame[b].state = branch[b].state
                             /\ frame[b].at = branch[b].at
                             /\ frame[b].delta = Delta(b)
  BY <1>0, <1>1, <1>2, FrameTyped
<1>4. w[1] \in Branches /\ w = <<w[1], branch[w[1]].at>> /\ branch[w[1]].state = "suspended"
  BY <1>1, <1>3 DEF WaitsOf
<1>5. \A b \in Branches : Kept(frame, w, b) <=> b # w[1]
  BY <1>3, <1>4 DEF Kept
<1>6. ASSUME NEW b \in Branches
      PROVE  /\ branch'[b] \in BranchStates
             /\ branch'[b].state = IF b = w[1] THEN "running" ELSE branch[b].state
             /\ branch'[b].at = branch[b].at
             /\ branch'[b].view = branch[b].view
             /\ branch'[b].written = branch[b].written
             /\ branch'[b].resumed <=> b = w[1]
             /\ branch'[b].launched <=> b = w[1]
  <2> DEFINE view == Merged(output, Delta(b))
             written == DOMAIN Delta(b)
  <2>1. written = branch[b].written /\ branch[b].written \subseteq Key
        /\ branch[b].at \in Nat /\ branch[b].view \in [Key -> Value]
    BY <1>0, BranchFields
  <2>2. view = branch[b].view
    <3>1. \A k \in Key : view[k] = branch[b].view[k]
      BY <1>0, <1>1, <2>1, Beginning DEF ViewsAreAlone, Merged, Delta
    <3>2. view = [k \in Key |-> view[k]]
      BY DEF Merged
    <3>3. QED BY <2>1, <3>1, <3>2
  <2>3. branch'[b] = IF Kept(frame, w, b)
                     THEN [Running(frame[b].at, frame[b].delta, FALSE) EXCEPT
                             !.state = frame[b].state, !.launched = FALSE]
                     ELSE Running(frame[b].at, frame[b].delta, TRUE)
    BY DEF Resume
  <2> HIDE DEF view, written
  <2>4. CASE b = w[1]
    <3>1. branch'[b] = Running(branch[b].at, Delta(b), TRUE)
      BY <1>3, <1>5, <2>3, <2>4
    <3>2. branch'[b] = [state |-> "running", at |-> branch[b].at, view |-> view,
                        written |-> written, resumed |-> TRUE, launched |-> TRUE,
                        aborted |-> FALSE]
      BY <3>1 DEF Running, view, written
    <3>3. QED BY <2>1, <2>2, <2>4, <3>2 DEF BranchStates
  <2>5. CASE b # w[1]
    <3>1. branch'[b] = [Running(branch[b].at, Delta(b), FALSE) EXCEPT
                          !.state = branch[b].state, !.launched = FALSE]
      BY <1>3, <1>5, <2>3, <2>5
    <3>2. branch'[b] = [state |-> branch[b].state, at |-> branch[b].at, view |-> view,
                        written |-> written, resumed |-> FALSE, launched |-> FALSE,
                        aborted |-> FALSE]
      BY <3>1 DEF Running, view, written
    <3>3. branch[b].state \in Settled
      BY <1>2
    <3>4. QED BY <2>1, <2>2, <2>5, <3>2, <3>3 DEF BranchStates
  <2>6. QED BY <2>4, <2>5
<1>7. branch' = [b \in Branches |-> branch'[b]]
  BY DEF Resume
<1>8. branch' \in [Branches -> BranchStates]
  BY <1>6, <1>7
<1>9. outcome' = [b \in Branches |-> IF b = w[1] THEN "none" ELSE branch[b].state]
  BY <1>3, <1>5 DEF Resume
<1>10. stepLog' = [t \in DOMAIN stepLog |-> IF t = w THEN "running" ELSE stepLog[t]]
  <2>1. \A t : (\E b \in Branches : ~Kept(frame, w, b) /\ t = <<b, frame[b].at>>) <=> t = w
    BY <1>3, <1>4, <1>5
  <2>2. QED BY <2>1 DEF Resume
<1>11. QED BY <1>4, <1>6, <1>8, <1>9, <1>10

LEMMA ResumeKeeps ==
  ASSUME IInv, NEW w, Resume(w)
  PROVE  IInv'
<1>0. Typed /\ LogFollows /\ ViewsAreAlone /\ OutcomesSeen /\ WaitsOpen /\ FrameBuilt
      /\ WaitAnyOutput
  BY DEF IInv
<1> DEFINE b == w[1]
<1>1. /\ status = "suspended" /\ status' = "racing" /\ ~Ended /\ ~Ended'
      /\ ending' = Nobody /\ open' = open \ {w}
      /\ UNCHANGED <<block, frame, output, outer>>
  BY DEF Resume, Ended
<1>2. Branches' = Branches /\ TasksOf(block.tasks)' = TasksOf(block.tasks)
  BY <1>1, SameBlock
<1>3. /\ b \in Branches
      /\ w = <<b, branch[b].at>>
      /\ branch[b].state = "suspended"
      /\ branch' \in [Branches -> BranchStates]
      /\ \A c \in Branches :
           /\ branch'[c].state = IF c = b THEN "running" ELSE branch[c].state
           /\ branch'[c].at = branch[c].at
           /\ branch'[c].view = branch[c].view
           /\ branch'[c].written = branch[c].written
           /\ branch'[c].resumed <=> c = b
           /\ branch'[c].launched <=> c = b
      /\ outcome' = [c \in Branches |-> IF c = b THEN "none" ELSE branch[c].state]
      /\ stepLog' = [t \in DOMAIN stepLog |-> IF t = w THEN "running" ELSE stepLog[t]]
  BY ResumeFields
<1> HIDE DEF b
<1>4. /\ stepLog' \in [TasksOf(block.tasks) -> Logged]
      /\ \A c \in Branches : \A i \in 1 .. Len(block.tasks[c]) :
           stepLog'[<<c, i>>] = IF c = b /\ i = branch[b].at THEN "running" ELSE stepLog[<<c, i>>]
  <2>1. stepLog \in [TasksOf(block.tasks) -> Logged]
    BY <1>0 DEF Typed
  <2>2. \A c \in Branches : \A i \in 1 .. Len(block.tasks[c]) : <<c, i>> \in TasksOf(block.tasks)
    BY <1>0, TaskIds DEF Typed
  <2>3. stepLog' \in [TasksOf(block.tasks) -> Logged]
    BY <1>3, <2>1 DEF Logged
  <2>4. QED BY <1>3, <2>1, <2>2, <2>3
<1>5. \A c \in Branches : /\ branch[c].at \in 1 .. Len(block.tasks[c])
                          /\ branch[c].state \in Settled
                          /\ outcome[c] = branch[c].state
  BY <1>0, <1>1, BranchFields DEF OutcomesSeen
<1>6. \A c \in Branches : Log(c)' = IF c = b THEN "running" ELSE Log(c)
  <2>1. ASSUME NEW c \in Branches
        PROVE  Log(c)' = IF c = b THEN "running" ELSE Log(c)
    <3>1. branch'[c].at = branch[c].at /\ branch[c].at \in 1 .. Len(block.tasks[c])
      BY <1>3, <1>5
    <3>2. stepLog'[<<c, branch[c].at>>] = IF c = b THEN "running" ELSE stepLog[<<c, branch[c].at>>]
      BY <1>4, <3>1
    <3>3. QED BY <3>1, <3>2 DEF Log
  <2>2. QED BY <2>1
<1>7. Log(b) = "suspended"
  BY <1>0, <1>1, <1>3 DEF LogFollows
<1>8. \A c \in Branches : Done(c)' = Done(c)
  <2>1. ASSUME NEW c \in Branches PROVE Done(c)' = Done(c)
    <3>1. Log(c)' = "completed" <=> Log(c) = "completed"
      BY <1>6, <1>7
    <3>2. branch'[c].at = branch[c].at
      BY <1>3
    <3>3. QED BY <3>1, <3>2 DEF Done
  <2>2. QED BY <2>1
<1>9. ViewsAreAlone' /\ \A c \in Branches : Delta(c)' = Delta(c)
  BY <1>0, <1>1, <1>3, <1>8, SameViews
<1>10. Typed'
  <2>1. outcome' \in [Branches -> Settled \cup {"none"}]
    BY <1>3, <1>5
  <2>2. ending' \in [fulfilled : BOOLEAN, branch : Branches \cup {0}]
    BY <1>1 DEF Nobody
  <2>3. \A c \in Branches : branch'[c].at \in 1 .. Len(block.tasks[c])
    BY <1>3, <1>5
  <2>4. QED BY <1>0, <1>1, <1>3, <1>4, <2>1, <2>2, <2>3, TypedAfter DEF Typed
<1>11. LogFollows'
  <2>1. ASSUME NEW c \in Branches
        PROVE  /\ \A i \in 1 .. Len(block.tasks[c]) :
                    /\ i < branch'[c].at => stepLog'[<<c, i>>] = "completed"
                    /\ i > branch'[c].at => stepLog'[<<c, i>>] = "pending"
               /\ branch'[c].state = "running" => Log(c)' = "running"
               /\ branch'[c].state = "fulfilled" => Log(c)' = "completed" /\ LastTask(c)'
               /\ branch'[c].state = "suspended" =>
                    Log(c)' = IF Ended' THEN "cancelled" ELSE "suspended"
               /\ branch'[c].state = "failed" => Log(c)' = "failed"
               /\ branch'[c].state = "cancelled" => Log(c)' \in {"cancelled", "completed", "failed"}
    <3>1. LastTask(c)' <=> LastTask(c)
      BY <1>1, <1>3 DEF LastTask
    <3>2. ASSUME NEW i \in 1 .. Len(block.tasks[c]), i # branch[c].at
          PROVE  stepLog'[<<c, i>>] = stepLog[<<c, i>>]
      BY <1>4, <3>2
    <3>3. \A i \in 1 .. Len(block.tasks[c]) :
            /\ i < branch[c].at => i # branch[c].at
            /\ i > branch[c].at => i # branch[c].at
      BY <1>5
    <3>4. \A i \in 1 .. Len(block.tasks[c]) :
            /\ i < branch'[c].at => stepLog'[<<c, i>>] = "completed"
            /\ i > branch'[c].at => stepLog'[<<c, i>>] = "pending"
      BY <1>0, <1>3, <3>2, <3>3 DEF LogFollows
    <3>5. branch[c].state # "running"
      BY <1>5 DEF Settled
    <3>6. QED BY <1>0, <1>1, <1>3, <1>6, <3>1, <3>4, <3>5 DEF LogFollows
  <2>2. QED BY <1>1, <1>2, <2>1 DEF LogFollows
<1>12. OutcomesSeen'
  <2>1. \A c \in Branches : ~Ends(outcome[c])
    BY <1>0, <1>1 DEF OutcomesSeen
  <2>2. \A c \in Branches : ~Ends(outcome'[c])
    BY <1>3, <1>5, <2>1 DEF Ends
  <2>3. \A c \in Branches : Ends(outcome[c])' <=> Ends(outcome'[c])
    BY <1>1 DEF Ends
  <2>4. \A c \in Branches : outcome'[c] \in {"none", branch'[c].state}
    BY <1>3
  <2>5. QED BY <1>1, <1>2, <2>2, <2>3, <2>4 DEF OutcomesSeen
<1>13. WaitsOpen'
  <2>1. LeftSuspended' = LeftSuspended \ {w}
    BY <1>2, <1>3 DEF LeftSuspended
  <2>2. QED BY <1>0, <1>1, <2>1 DEF WaitsOpen
<1>14. FrameBuilt' /\ EndingSeen'
  BY <1>1 DEF FrameBuilt, EndingSeen
<1>15. PassOfFrame'
  <2>1. frame = BuildFrame /\ frame' = frame
    BY <1>0, <1>1 DEF FrameBuilt
  <2>2. frame # <<>> /\ \A c \in Branches : frame[c] = BranchFrame(c)
    BY <1>0, <1>5, <2>1, FrameTyped DEF BuildFrame
  <2>3. \A c \in Branches : c # b => BranchFrame(c)' = BranchFrame(c)
    BY <1>3, <1>9 DEF BranchFrame
  <2>4. frame[b] = [state |-> "suspended", at |-> branch'[b].at, delta |-> Delta(b)']
    BY <1>3, <1>9, <2>2 DEF BranchFrame
  <2>5. QED BY <1>2, <1>3, <2>1, <2>2, <2>3, <2>4 DEF PassOfFrame
<1>16. WaitAllOutput' /\ WaitAnyOutput'
  BY <1>0, <1>1, OutputAfter DEF WaitAnyOutput
<1>17. QED
  BY <1>9, <1>10, <1>11, <1>12, <1>13, <1>14, <1>15, <1>16 DEF IInv

LEMMA StutterKeeps ==
  ASSUME IInv, UNCHANGED vars
  PROVE  IInv'
<1>0. Typed /\ LogFollows /\ ViewsAreAlone /\ OutcomesSeen /\ WaitsOpen /\ FrameBuilt
      /\ PassOfFrame /\ EndingSeen /\ WaitAllOutput /\ WaitAnyOutput
  BY DEF IInv
<1>1. UNCHANGED <<block, status, branch, outcome, ending, frame, output, open, stepLog, outer>>
  BY DEF vars
<1>2. Branches' = Branches /\ (Ended' <=> Ended)
  BY <1>1 DEF Branches, Ended
<1>3. /\ LogFollows' /\ ViewsAreAlone' /\ LeftSuspended' = LeftSuspended
      /\ \A c \in Branches : Delta(c)' = Delta(c) /\ BranchFrame(c)' = BranchFrame(c)
  BY <1>0, <1>1, <1>2, SameTasks
<1>4. Typed'
  BY <1>0, <1>1, TypedAfter DEF Typed
<1>5. \A c \in Branches : Ends(outcome[c])' <=> Ends(outcome[c])
  BY <1>1 DEF Ends
<1>6. OutcomesSeen'
  BY <1>0, <1>1, <1>2, <1>5 DEF OutcomesSeen
<1>7. BuildFrame' = BuildFrame
  BY <1>2, <1>3 DEF BuildFrame
<1>8. WaitsOpen' /\ FrameBuilt' /\ EndingSeen'
  BY <1>0, <1>1, <1>2, <1>3, <1>7 DEF WaitsOpen, FrameBuilt, EndingSeen
<1>9. PassOfFrame'
  BY <1>0, <1>1, <1>2, <1>3 DEF PassOfFrame
<1>10. WaitAllOutput' /\ WaitAnyOutput'
  <2>1. block' = block /\ stepLog' = stepLog /\ output' = output /\ status' = status
    BY <1>1
  <2>2. QED BY <1>0, <2>1, OutputAfter DEF WaitAllOutput, WaitAnyOutput
<1>11. QED BY <1>3, <1>4, <1>6, <1>8, <1>9, <1>10 DEF IInv

LEMMA NextKeeps == IInv /\ [Next]_vars => IInv'
<1> SUFFICES ASSUME IInv, [Next]_vars PROVE IInv'
  OBVIOUS
<1>1. ASSUME NEW b \in Branches, Complete(b) PROVE IInv'
  BY <1>1, TaskCompletesKeeps
<1>2. ASSUME NEW b \in Branches, Suspend(b) \/ Refuse(b) \/ Fail(b) \/ Cancel(b) PROVE IInv'
  BY <1>2, TaskEndsKeeps
<1>3. ASSUME NEW b \in Branches, SeeEnd(b) PROVE IInv'
  BY <1>3, SeeEndKeeps
<1>4. ASSUME NEW b \in Branches, SeeResult(b) PROVE IInv'
  BY <1>4, SeeResultKeeps
<1>5. CASE Abandon
  BY <1>5, AbandonKeeps
<1>6. ASSUME NEW w \in open, Resume(w) PROVE IInv'
  BY <1>6, ResumeKeeps
<1>7. CASE OuterAbort
  BY <1>7, OuterAbortKeeps
<1>8. CASE OuterDrops
  BY <1>8, OuterDropsKeeps
<1>9. CASE UNCHANGED vars
  BY <1>9, StutterKeeps
<1>10. QED
  BY <1>1, <1>2, <1>3, <1>4, <1>5, <1>6, <1>7, <1>8, <1>9 DEF Next

LEMMA Invariance == Spec => []IInv
<1>1. Init => IInv
  BY InitIInv
<1>2. IInv /\ [Next]_vars => IInv'
  BY NextKeeps
<1>3. QED BY <1>1, <1>2, PTL DEF Spec

----------------------------------------------------------------------------
(* The theorems *)

\* Whatever the blocks, and however branches and passes interleave, the variables
\* keep their types: a branch is at a task of its own and writes only keys.
THEOREM TypeCorrect == Spec => []TypeOK
<1>1. IInv => TypeOK
  BY TypedImplies DEF IInv
<1>2. QED BY <1>1, Invariance, PTL

\* When executeParallel returns, none of its branches runs; a suspended block can be
\* answered exactly at the waits of its frame, and one that ended at none.
THEOREM NothingIsLeftBehind == Spec => []NothingLeftBehind
<1>1. IInv => NothingLeftBehind
  <2> SUFFICES ASSUME IInv PROVE NothingLeftBehind
    OBVIOUS
  <2>0. Typed /\ LogFollows /\ OutcomesSeen /\ WaitsOpen /\ FrameBuilt
    BY DEF IInv
  <2>1. status \in {"suspended", "completed", "failed"} =>
          \A b \in Branches : branch[b].state # "running"
    BY <2>0 DEF OutcomesSeen
  <2>2. ASSUME Ended
        PROVE  open = {} /\ \A t \in DOMAIN stepLog : stepLog[t] \notin {"running", "suspended"}
    <3>1. open = {}
      BY <2>0, <2>2 DEF WaitsOpen
    <3>2. ASSUME NEW t \in DOMAIN stepLog PROVE stepLog[t] \notin {"running", "suspended"}
      <4>1. t \in TasksOf(block.tasks) /\ block \in Blocks
        BY <2>0 DEF Typed
      <4>2. PICK b \in Branches : \E i \in 1 .. Len(block.tasks[b]) : t = <<b, i>>
        BY <4>1, TaskIds
      <4>3. PICK i \in 1 .. Len(block.tasks[b]) : t = <<b, i>>
        BY <4>2
      <4>4. branch[b].at \in 1 .. Len(block.tasks[b]) /\ Len(block.tasks[b]) \in Nat
            /\ branch[b].state \in Settled \cup {"running"}
        BY <4>1, <2>0, BranchFields, Shapes
      <4>5. i < branch[b].at \/ i = branch[b].at \/ i > branch[b].at
        BY <4>4
      <4>6. CASE i = branch[b].at
        <5>1. branch[b].state # "running"
          BY <2>1, <2>2 DEF Ended
        <5>2. stepLog[t] = Log(b)
          BY <4>3, <4>6 DEF Log
        <5>3. QED BY <2>0, <2>2, <4>4, <5>1, <5>2 DEF LogFollows, Settled
      <4>7. CASE i # branch[b].at
        BY <2>0, <4>3, <4>5, <4>7 DEF LogFollows
      <4>8. QED BY <4>6, <4>7
    <3>3. QED BY <3>1, <3>2
  <2>3. ASSUME status = "suspended" PROVE open = WaitsOf(frame) /\ open # {}
    <3>1. \A b \in Branches : branch[b].state \in Settled
      BY <2>0, <2>1, <2>3, BranchFields
    <3>2. WaitsOf(frame) = LeftSuspended
      BY <2>0, <2>3, <3>1, FrameTyped DEF FrameBuilt, WaitsOf, LeftSuspended
    <3>3. QED BY <2>0, <2>3, <3>2 DEF WaitsOpen, FrameBuilt, Ended
  <2>4. QED BY <2>1, <2>2, <2>3 DEF NothingLeftBehind
<1>2. QED BY <1>1, Invariance, PTL

\* A completed wait_all block leaves, under each key, what the last of its branches
\* that writes the key leaves when it runs alone: mergeBranchOutputs in the order
\* of the branches, over views that never mix, whatever suspended in between.
THEOREM WaitAllMerges == Spec => []WaitAllOutput
<1>1. IInv => WaitAllOutput
  BY DEF IInv
<1>2. QED BY <1>1, Invariance, PTL

\* A completed wait_any block leaves what its winner leaves alone, and every task of
\* the winner completed; a block that did not complete leaves $output as it was.
THEOREM WaitAnyKeepsWinner == Spec => []WaitAnyOutput
<1>1. IInv => WaitAnyOutput
  BY DEF IInv
<1>2. QED BY <1>1, Invariance, PTL

\* A completed task never runs again, in the same pass or a later one: the branch is
\* past it, and a kept branch is not launched.
THEOREM CompletedStaysCompleted == Spec => CompletedRunOnce
<1> DEFINE Keeps == \A t \in DOMAIN stepLog : stepLog[t] = "completed" => stepLog'[t] = "completed"
<1>1. IInv /\ [Next]_vars => [Keeps]_vars
  <2> SUFFICES ASSUME IInv, Next PROVE Keeps
    OBVIOUS
  <2>0. Typed /\ LogFollows /\ OutcomesSeen /\ FrameBuilt
    BY DEF IInv
  <2>1. ASSUME NEW b \in Branches, Suspend(b) \/ Refuse(b) \/ Fail(b) \/ Cancel(b) PROVE Keeps
    <3>1. PICK logged \in {"suspended", "failed", "cancelled"} :
            /\ branch[b].state = "running"
            /\ stepLog' = [stepLog EXCEPT ![<<b, branch[b].at>>] = logged]
      BY <2>1, TaskEnds
    <3>2. stepLog[<<b, branch[b].at>>] = "running"
      BY <2>0, <3>1 DEF LogFollows, Log
    <3>3. QED BY <3>1, <3>2
  <2>2. ASSUME NEW b \in Branches, Complete(b) PROVE Keeps
    <3>1. PICK next \in BranchStates : Finishes(b, next) \/ GoesOn(b, next)
      BY <2>0, <2>2, TaskCompletes
    <3>2. CASE Finishes(b, next)
      BY <3>2 DEF Finishes
    <3>3. CASE GoesOn(b, next)
      <4>1. branch[b].at \in 1 .. Len(block.tasks[b]) /\ Len(block.tasks[b]) \in Nat
            /\ branch[b].at # Len(block.tasks[b])
        BY <2>0, <3>3, BranchFields, Shapes DEF GoesOn, Typed
      <4>2. branch[b].at + 1 \in 1 .. Len(block.tasks[b]) /\ branch[b].at + 1 > branch[b].at
        BY <4>1
      <4>3. stepLog[<<b, branch[b].at + 1>>] = "pending"
        BY <2>0, <4>2 DEF LogFollows
      <4>4. stepLog' = [stepLog EXCEPT ![<<b, branch[b].at>>] = "completed",
                                       ![<<b, branch[b].at + 1>>] = "running"]
        BY <3>3 DEF GoesOn
      <4>5. QED BY <4>3, <4>4
    <3>4. QED BY <3>1, <3>2, <3>3
  <2>3. ASSUME NEW b \in Branches, SeeEnd(b) \/ SeeResult(b) PROVE Keeps
    BY <2>3 DEF SeeEnd, SeeResult
  <2>4. ASSUME ~Ended, DropWaits(LeftSuspended) PROVE Keeps
    <3>1. \A t \in LeftSuspended : stepLog[t] = "suspended"
      BY <2>0, <2>4 DEF LeftSuspended, LogFollows, Log
    <3>2. QED BY <2>4, <3>1 DEF DropWaits
  <2>5. CASE Abandon
    BY <2>4, <2>5 DEF Abandon, Ended
  <2>6. ASSUME NEW w \in open, Resume(w) PROVE Keeps
    <3>1. /\ w[1] \in Branches /\ w = <<w[1], branch[w[1]].at>> /\ branch[w[1]].state = "suspended"
          /\ stepLog' = [t \in DOMAIN stepLog |-> IF t = w THEN "running" ELSE stepLog[t]]
      BY <2>6, ResumeFields
    <3>2. status = "suspended"
      BY <2>6 DEF Resume
    <3>3. stepLog[w] = "suspended"
      BY <2>0, <3>1, <3>2 DEF LogFollows, Log, Ended
    <3>4. QED BY <3>1, <3>3
  <2>7. CASE OuterAbort
    BY <2>7 DEF OuterAbort
  <2>8. CASE OuterDrops
    <3>1. status = "suspended" /\ DropWaits(WaitsOf(frame))
      BY <2>8 DEF OuterDrops
    <3>2. \A b \in Branches : branch[b].state \in Settled
      BY <2>0, <3>1, BranchFields DEF OutcomesSeen
    <3>3. WaitsOf(frame) = LeftSuspended
      BY <2>0, <3>1, <3>2, FrameTyped DEF FrameBuilt, WaitsOf, LeftSuspended
    <3>4. QED BY <2>4, <3>1, <3>3 DEF Ended
  <2>9. QED BY <2>1, <2>2, <2>3, <2>5, <2>6, <2>7, <2>8 DEF Next
<1>2. QED BY <1>1, Invariance, PTL DEF Spec, CompletedRunOnce

\* A pass whose answer is refused suspends on the frame it was resumed from: its one
\* launched branch is back at its wait with what it had written, and the others were
\* not touched.
THEOREM RefusalKeepsTheFrame == Spec => RefusalKeepsFrame
<1> DEFINE Keeps == (/\ status = "racing"
                     /\ status' = "suspended"
                     /\ \E b \in Branches : branch[b].resumed /\ branch[b].state = "suspended")
                    => frame' = frame
<1>1. IInv /\ [Next]_vars => [Keeps]_vars
  <2> SUFFICES ASSUME IInv, Next, status = "racing", status' = "suspended",
                      NEW b \in Branches, branch[b].resumed, branch[b].state = "suspended"
               PROVE  frame' = frame
    OBVIOUS
  <2>0. Typed /\ OutcomesSeen /\ PassOfFrame
    BY DEF IInv
  <2>1. frame # <<>>
    BY <2>0 DEF PassOfFrame
  <2>2. PICK c \in Branches : SeeResult(c)
    BY DEF Next, Complete, Suspend, Refuse, Fail, Cancel, SeeEnd, Abandon, Resume, OuterAbort, OuterDrops
  <2>3. Pending = {c} /\ frame' = BuildFrame
    BY <2>2 DEF SeeResult
  <2>4. \A d \in Branches : branch[d].state \in Settled
    BY <2>0, <2>2, <2>3, ResultSeen
  <2>5. branch[b].launched /\ BranchFrame(b) = frame[b]
    BY <2>0, <2>1 DEF PassOfFrame, BranchFrame
  <2>6. \A d \in Branches : BranchFrame(d) = frame[d]
    <3>1. ASSUME NEW d \in Branches PROVE BranchFrame(d) = frame[d]
      <4>1. CASE branch[d].launched
        BY <2>0, <2>1, <2>5, <4>1 DEF PassOfFrame
      <4>2. CASE ~branch[d].launched
        BY <2>0, <2>1, <4>2 DEF PassOfFrame
      <4>3. QED BY <4>1, <4>2
    <3>2. QED BY <3>1
  <2>7. frame = [d \in Branches |-> frame[d]]
    BY <2>0, <2>1 DEF Typed
  <2>8. QED BY <2>3, <2>6, <2>7 DEF BuildFrame
<1>2. QED BY <1>1, Invariance, PTL DEF Spec, RefusalKeepsFrame
============================================================================
