------------------------ MODULE EventDispatch_proofs ------------------------
(***************************************************************************)
(* Theorems about EventDispatch, for any number of runs and workflows, any *)
(* depth of calls and any events.                                          *)
(***************************************************************************)
EXTENDS EventDispatch, WellFoundedInduction, TLAPS

----------------------------------------------------------------------------
\* The inductive invariant.

Rows ==
  [status : {"absent", "running", "suspended", "ended"}, workflow : Workflow \cup {None},
   parent : Run \cup {None}, waits : SUBSET {"event", "operator"}, calls : SUBSET Run,
   first : BOOLEAN]

Typed ==
  /\ row \in [Run -> Rows]
  /\ queue \in SUBSET Run /\ abandoned \in SUBSET Run /\ cancelled \in SUBSET Run
  /\ looks \in SUBSET [run : Run, children : SUBSET Run]

\* Runs start in their order, a called run after its caller: stacks have an end.
Numbered ==
  \A r \in Run :
    /\ row[r].parent # None => row[r].parent < r
    /\ row[r] # Absent => \A q \in 1 .. r - 1 : row[q] # Absent

\* The children a reconcile has listed are still suspended as they were, and its own.
Listed ==
  \A l \in looks : \A q \in l.children : Suspended(q) /\ row[q].parent = l.run

\* A suspended run is waited on, or somebody owes it a cancel.
Owed == \A r \in Run : Suspended(r) /\ ~IsWaitedOn(r) => IsReconciled(r)

IInv == Typed /\ Numbered /\ Listed /\ Owed

----------------------------------------------------------------------------
\* Runs and their stacks.

LEMMA RunInduction ==
  ASSUME NEW S \in SUBSET Run, \A r \in Run : (\A q \in 1 .. r - 1 : q \in S) => r \in S
  PROVE  S = Run
<1> SUFFICES ASSUME Run \ S # {} PROVE FALSE
  OBVIOUS
<1> DEFINE Less == OpToRel(<, Nat)
           T == Run \ S
<1>1. IsWellFoundedOn(Less, Nat)
  BY NatLessThanWellFounded
<1>2. \A i, j \in Nat : <<i, j>> \in Less <=> i < j
  BY DEF OpToRel
<1>3. Run \subseteq Nat
  BY BoundsAssumption DEF Run
<1> HIDE DEF Less
<1>4. PICK n \in T : \A m \in T : ~(<<m, n>> \in Less)
  <2>1. T \subseteq Nat /\ T # {}
    BY <1>3
  <2> HIDE DEF T
  <2> QED BY <1>1, <2>1, WFMin
<1>5. \A q \in 1 .. n - 1 : q \in S
  <2> SUFFICES ASSUME NEW q \in 1 .. n - 1 PROVE q \in S
    OBVIOUS
  <2>1. n \in Nat /\ n \in 1 .. MaxRuns
    BY <1>3, <1>4 DEF Run
  <2>2. q \in Run /\ q < n /\ q \in Nat
    BY <2>1, BoundsAssumption DEF Run
  <2> QED BY <1>2, <1>4, <2>1, <2>2
<1> QED BY <1>4, <1>5

\* A caller is a run.
LEMMA RowOf ==
  ASSUME Typed, NEW r \in Run
  PROVE  /\ row[r] \in Rows
         /\ row[r].parent \in Run \cup {None}
         /\ CalledByActive(r) => row[r].parent \in Run
BY DEF Typed, Rows, CalledByActive

\* A stack is a run and the stack of its caller.
LEMMA StackUnfolds ==
  ASSUME Typed, NEW r \in Run
  PROVE  StackOf[r] = {r} \cup IF CalledByActive(r) THEN StackOf[row[r].parent] ELSE {}
<1> DEFINE Closed(S) == \A q \in S : CalledByActive(q) => row[q].parent \in S
           Above(q) == {s \in Run : \A S \in SUBSET Run : q \in S /\ Closed(S) => s \in S}
           Eq(g) == g = [q \in Run |->
                           {q} \cup IF CalledByActive(q) THEN g[row[q].parent] ELSE {}]
           f == [q \in Run |-> Above(q)]
<1>1. ASSUME NEW q \in Run
      PROVE  Above(q) = {q} \cup IF CalledByActive(q) THEN Above(row[q].parent) ELSE {}
  <2>1. CASE ~CalledByActive(q)
    <3>1. Closed({q})
      BY <2>1
    <3>2. Above(q) \subseteq {q}
      BY <3>1
    <3> QED BY <2>1, <3>2
  <2>2. CASE CalledByActive(q)
    <3> DEFINE p == row[q].parent
               S == {q} \cup Above(p)
    <3>1. p \in Run
      BY <2>2, RowOf
    <3>2. p \in Above(p)
      BY <3>1
    <3>3. Closed(Above(p))
      <4> SUFFICES ASSUME NEW s \in Above(p), CalledByActive(s)
                   PROVE  row[s].parent \in Above(p)
        OBVIOUS
      <4>1. s \in Run /\ row[s].parent \in Run
        BY RowOf
      <4>2. ASSUME NEW U \in SUBSET Run, p \in U, Closed(U)
            PROVE  row[s].parent \in U
        BY <4>2
      <4> QED BY <4>1, <4>2
    <3>4. Closed(S) /\ S \in SUBSET Run /\ q \in S
      <4> HIDE DEF Above
      <4>1. Above(p) \subseteq Run
        BY DEF Above
      <4> QED BY <3>2, <3>3, <4>1
    <3>5. Above(q) \subseteq S
      BY <3>4
    <3>6. Above(p) \subseteq Above(q)
      <4> SUFFICES ASSUME NEW s \in Above(p), NEW U \in SUBSET Run, q \in U, Closed(U)
                   PROVE  s \in U
        OBVIOUS
      <4>1. p \in U
        BY <2>2
      <4> QED BY <4>1
    <3>7. q \in Above(q)
      OBVIOUS
    <3> HIDE DEF Above
    <3> QED BY <2>2, <3>5, <3>6, <3>7
  <2> QED BY <2>1, <2>2
<1> HIDE DEF Above
<1>2. Eq(f)
  <2>1. \A q \in Run : CalledByActive(q) => f[row[q].parent] = Above(row[q].parent)
    BY RowOf
  <2> QED BY <1>1, <2>1
<1>3. StackOf = CHOOSE g : Eq(g)
  BY DEF StackOf
<1> HIDE DEF f
<1>4. Eq(StackOf)
  <2> HIDE DEF Eq
  <2> QED BY <1>2, <1>3
<1> QED BY <1>4

\* Callers are numbered below the runs they call.
LEMMA StackBelow ==
  ASSUME Typed, Numbered
  PROVE  \A r \in Run : r \in StackOf[r] /\ StackOf[r] \subseteq 1 .. r
<1> DEFINE S == {r \in Run : r \in StackOf[r] /\ StackOf[r] \subseteq 1 .. r}
<1>1. ASSUME NEW r \in Run, \A q \in 1 .. r - 1 : q \in S PROVE r \in S
  <2>1. r \in 1 .. r /\ r \in Nat
    BY BoundsAssumption DEF Run
  <2>2. CASE ~CalledByActive(r)
    BY <2>1, <2>2, StackUnfolds
  <2>3. CASE CalledByActive(r)
    <3> DEFINE p == row[r].parent
    <3>1. p \in Run /\ p < r /\ p \in 1 .. r - 1
      BY <2>1, <2>3, RowOf, NoneAssumption, BoundsAssumption DEF Numbered, Run
    <3>2. StackOf[p] \subseteq 1 .. p
      BY <1>1, <3>1
    <3>3. 1 .. p \subseteq 1 .. r
      BY <2>1, <3>1
    <3> QED BY <2>1, <2>3, <3>2, <3>3, StackUnfolds
  <2> QED BY <2>2, <2>3
<1> HIDE DEF S
<1>2. S = Run
  <2>1. S \in SUBSET Run
    BY DEF S
  <2> QED BY <1>1, <2>1, RunInduction
<1> QED BY <1>2 DEF S

----------------------------------------------------------------------------
\* Steps that write a row.

\* What is known of the reconciles when x is written: a run that goes on loses all that was
\* read of it, and one that stops is put in some queue.
Passed(x) ==
  /\ queue \subseteq queue' /\ queue' \subseteq Run
  /\ cancelled \subseteq cancelled' /\ cancelled' \subseteq Run
  /\ \/ ~Suspended(x) /\ looks' = looks /\ abandoned' = abandoned
     \/ /\ looks' = {[l EXCEPT !.children = @ \ {x}] : l \in looks}
        /\ abandoned' = abandoned \ {x}

LEMMA LooksKept ==
  ASSUME Typed, NEW x \in Run, Passed(x)
  PROVE  /\ looks' \in SUBSET [run : Run, children : SUBSET Run]
         /\ \A l \in looks : \E k \in looks' : k.run = l.run /\ l.children \ {x} \subseteq k.children
         /\ \A k \in looks' : \E l \in looks :
              k.run = l.run /\ k.children \subseteq l.children /\ (Suspended(x) => x \notin k.children)
<1>1. looks \in SUBSET [run : Run, children : SUBSET Run]
  BY DEF Typed
<1>2. CASE ~Suspended(x) /\ looks' = looks
  BY <1>1, <1>2
<1>3. CASE looks' = {[l EXCEPT !.children = @ \ {x}] : l \in looks}
  <2> DEFINE Cut(l) == [l EXCEPT !.children = @ \ {x}]
  <2>1. ASSUME NEW l \in looks
        PROVE  /\ Cut(l) \in looks' /\ Cut(l) \in [run : Run, children : SUBSET Run]
               /\ Cut(l).run = l.run /\ Cut(l).children = l.children \ {x}
    BY <1>1, <1>3
  <2>2. \A k \in looks' : \E l \in looks : k = Cut(l)
    BY <1>3
  <2> HIDE DEF Cut
  <2> QED BY <2>1, <2>2
<1> QED BY <1>2, <1>3 DEF Passed

LEMMA Written ==
  ASSUME IInv, NEW x \in Run, NEW y \in Rows, Passed(x),
         row' = [row EXCEPT ![x] = y],
         y # Absent,
         row[x] # Absent \/ x \in Fresh,
         y.parent # None => y.parent < x,
         y.status = "suspended" => x \in queue',
         y.status = "running" \/ x \in queue' \cup cancelled'
  PROVE  IInv'
<1>1. row \in [Run -> Rows] /\ abandoned \in SUBSET Run
  BY DEF IInv, Typed
<1>2. row' \in [Run -> Rows] /\ row'[x] = y /\ \A q \in Run \ {x} : row'[q] = row[q]
  BY <1>1
<1>3. Typed'
  <2>1. looks' \in SUBSET [run : Run, children : SUBSET Run]
    BY LooksKept DEF IInv
  <2> QED BY <1>1, <1>2, <2>1 DEF Typed, Passed
<1>4. Numbered'
  <2> SUFFICES ASSUME NEW r \in Run
               PROVE  /\ row'[r].parent # None => row'[r].parent < r
                      /\ row'[r] # Absent => \A q \in 1 .. r - 1 : row'[q] # Absent
    BY DEF Numbered, Absent, Row, Run
  <2>1. row'[r].parent # None => row'[r].parent < r
    BY <1>2 DEF IInv, Numbered
  <2>2. \A q \in Run : row[q] # Absent => row'[q] # Absent
    BY <1>2
  <2>3. ASSUME row'[r] # Absent PROVE \A q \in 1 .. r - 1 : row[q] # Absent
    BY <1>2, <2>3 DEF IInv, Numbered, Fresh
  <2>4. 1 .. r - 1 \subseteq Run
    BY BoundsAssumption DEF Run
  <2> QED BY <2>1, <2>2, <2>3, <2>4
<1>5. Listed'
  <2> SUFFICES ASSUME NEW k \in looks', NEW q \in k.children
               PROVE  row'[q].status = "suspended" /\ row'[q].parent = k.run
    BY DEF Listed, Suspended
  <2>1. PICK l \in looks : /\ k.run = l.run /\ q \in l.children
                           /\ Suspended(x) => q # x
    BY LooksKept DEF IInv
  <2>2. Suspended(q) /\ row[q].parent = l.run /\ q \in Run
    BY <2>1 DEF IInv, Listed, Typed
  <2> QED BY <1>2, <2>1, <2>2 DEF Suspended
<1>6. Owed'
  <2> SUFFICES ASSUME NEW r \in Run, Suspended(r)', ~IsWaitedOn(r)' PROVE IsReconciled(r)'
    BY DEF Owed, Run, Suspended, IsWaitedOn, CalledByActive, Active, IsReconciled
  <2> DEFINE p == row[r].parent
  <2>1. CASE r = x
    BY <1>2, <2>1 DEF Suspended, IsReconciled
  <2>2. CASE r # x /\ p = x
    <3>1. row'[r].parent = x /\ x # None
      BY <1>2, <2>2, NoneAssumption DEF Run
    <3>2. y.status # "running"
      BY <1>2, <3>1 DEF IsWaitedOn, CalledByActive, Active, Suspended
    <3> QED BY <3>1, <3>2 DEF IsReconciled
  <2>3. CASE r # x /\ p # x
    <3>1. row'[r] = row[r] /\ (p = None \/ row'[p] = row[p])
      BY <1>1, <1>2, <2>3, RowOf DEF IInv
    <3>2. Suspended(r) /\ ~IsWaitedOn(r)
      BY <3>1 DEF IsWaitedOn, CalledByActive, Active, Suspended
    <3>3. IsReconciled(r)
      BY <3>2 DEF IInv, Owed
    <3>4. CASE {r, p} \cap (queue \cup abandoned) # {} \/ p \in cancelled
      BY <2>3, <3>1, <3>4 DEF IsReconciled, Passed
    <3>5. CASE \E l \in looks : l.run = r \/ (l.run = p /\ r \in l.children)
      <4>1. PICK l \in looks : l.run = r \/ (l.run = p /\ r \in l.children)
        BY <3>5
      <4>2. PICK k \in looks' : k.run = l.run /\ l.children \ {x} \subseteq k.children
        BY LooksKept DEF IInv
      <4> QED BY <2>3, <3>1, <4>1, <4>2 DEF IsReconciled
    <3> QED BY <3>3, <3>4, <3>5 DEF IsReconciled
  <2> QED BY <2>1, <2>2, <2>3
<1> QED BY <1>3, <1>4, <1>5, <1>6 DEF IInv

\* Steps that only read rows: what was owed is owed.
LEMMA Read ==
  ASSUME IInv, row' = row, Typed', Listed',
         \A r \in Run : Suspended(r) /\ ~IsWaitedOn(r) /\ IsReconciled(r) => IsReconciled(r)'
  PROVE  IInv'
<1>1. Numbered'
  BY DEF IInv, Numbered, Absent, Row, Run
<1>2. Owed'
  BY DEF IInv, Owed, Suspended, IsWaitedOn, CalledByActive, Active, Run
<1> QED BY <1>1, <1>2 DEF IInv

----------------------------------------------------------------------------
\* The steps.

\* The next run is after all others.
LEMMA FreshIsNext ==
  ASSUME Numbered, NEW x \in Fresh, NEW r \in Run, row[r] # Absent
  PROVE  x \in Run /\ r < x
<1>1. x \in Run /\ row[x] = Absent
  BY DEF Fresh
<1>2. r # x /\ ~(x < r)
  BY <1>1 DEF Numbered, Run
<1> QED BY <1>1, <1>2, BoundsAssumption DEF Run

\* A run that is there is not absent: its status tells.
LEMMA Present ==
  /\ Absent.status = "absent"
  /\ \A r \in Run : Suspended(r) \/ row[r].status = "running" => row[r] # Absent
<1>1. Absent.status = "absent"
  BY DEF Absent, Row
<1> QED BY <1>1 DEF Suspended

\* A new run, called by p or by nobody.
LEMMA StartsStep ==
  ASSUME IInv, NEW x \in Fresh, NEW w \in Workflow, NEW p \in Run \cup {None},
         p \in Run => row[p] # Absent, Starts(x, w, p)
  PROVE  IInv'
<1>1. NewRun(w, p) \in Rows /\ NewRun(w, p).parent = p /\ NewRun(w, p).status = "running"
  BY DEF NewRun, Row, Rows
<1>2. x \in Run /\ ~Suspended(x)
  BY Present DEF Fresh
<1>3. p # None => p < x
  BY FreshIsNext DEF IInv
<1>4. /\ row' = [row EXCEPT ![x] = NewRun(w, p)]
      /\ queue' = queue /\ looks' = looks /\ abandoned' = abandoned /\ cancelled' = cancelled
  BY DEF Starts, reconciling
<1>5. Passed(x)
  BY <1>2, <1>4 DEF Passed, IInv, Typed
<1>6. NewRun(w, p) # Absent
  BY <1>1, Present
<1> HIDE DEF NewRun
<1> QED BY <1>1, <1>2, <1>3, <1>4, <1>5, <1>6, Written

LEMMA StartNewRunStep ==
  ASSUME IInv, NEW w, StartNewRun(w)
  PROVE  IInv'
<1>1. PICK r \in Fresh, u \in Workflow : Starts(r, u, None)
  BY DEF StartNewRun
<1>2. None \notin Run
  BY NoneAssumption DEF Run
<1> QED BY <1>1, <1>2, StartsStep

LEMMA CallWorkflowStep ==
  ASSUME IInv, NEW r \in Run, NEW w \in Workflow, CallWorkflow(r, w)
  PROVE  IInv'
BY StartsStep DEF CallWorkflow

\* A suspended run is claimed.
LEMMA ClaimStep ==
  ASSUME IInv, NEW r \in Run, Claim(r), NEW y \in Rows, y.parent = row[r].parent,
         row' = [row EXCEPT ![r] = y],
         queue \subseteq queue', queue' \subseteq Run,
         cancelled \subseteq cancelled', cancelled' \subseteq Run,
         y.status = "running" \/ (y.status = "ended" /\ r \in queue' \cup cancelled')
  PROVE  IInv'
<1>1. Passed(r)
  BY DEF Passed, Claim
<1>2. y.parent # None => y.parent < r
  BY DEF IInv, Numbered
<1>3. y # Absent /\ row[r] # Absent
  BY Present DEF Claim
<1> QED BY <1>1, <1>2, <1>3, Written

LEMMA GoesOnStep ==
  ASSUME IInv, NEW r \in Run, GoesOn(r)
  PROVE  IInv'
<1> DEFINE y == [row[r] EXCEPT !.status = "running", !.waits = {}, !.calls = {}]
<1>1. row \in [Run -> Rows]
  BY DEF IInv, Typed
<1>2. row' = [row EXCEPT ![r] = y] /\ Claim(r) /\ queue' = queue /\ cancelled' = cancelled
  BY <1>1 DEF GoesOn, Rows
<1>3. y \in Rows /\ y.parent = row[r].parent /\ y.status = "running"
  <2>1. row[r] \in Rows /\ {} \in SUBSET Run /\ {} \in SUBSET {"event", "operator"}
    BY <1>1
  <2> QED BY <2>1 DEF Rows
<1>4. queue \subseteq Run /\ cancelled \subseteq Run
  BY DEF IInv, Typed
<1> HIDE DEF y
<1> QED BY <1>2, <1>3, <1>4, ClaimStep

\* The row and the reconciles of a run that ends.
LEMMA EndedRows ==
  ASSUME Typed, NEW r \in Run
  PROVE  /\ EndedRow(r) \in Rows /\ EndedRow(r).parent = row[r].parent
         /\ EndedRow(r).status = "ended" /\ EndedRow(r) # Absent
         /\ r \in EndedFollowUps(r) /\ EndedFollowUps(r) \subseteq Run
<1>1. row[r] \in Rows
  BY DEF Typed
<1>2. EndedRow(r) \in Rows /\ EndedRow(r).parent = row[r].parent /\ EndedRow(r).status = "ended"
  BY <1>1 DEF EndedRow, Row, Rows
<1>3. EndedRow(r) # Absent
  BY <1>2, Present
<1>4. r \in EndedFollowUps(r) /\ EndedFollowUps(r) \subseteq Run
  BY RowOf, NoneAssumption DEF EndedFollowUps, Run
<1> QED BY <1>2, <1>3, <1>4

LEMMA FailUnresumableStep ==
  ASSUME IInv, NEW r \in Run, FailUnresumable(r)
  PROVE  IInv'
<1>1. queue \subseteq Run /\ cancelled \subseteq Run
  BY DEF IInv, Typed
<1> QED BY <1>1, EndedRows, ClaimStep DEF FailUnresumable, IInv

LEMMA CancelRunStep ==
  ASSUME IInv, NEW r \in Run, CancelRun(r)
  PROVE  IInv'
<1>1. queue \subseteq Run /\ cancelled \subseteq Run
  BY DEF IInv, Typed
<1> QED BY <1>1, EndedRows, ClaimStep DEF CancelRun, IInv

LEMMA CancelSuspendedStep ==
  ASSUME IInv, NEW r \in Run, CancelSuspended(r)
  PROVE  IInv'
<1>1. queue \subseteq Run /\ cancelled \subseteq Run
  BY DEF IInv, Typed
<1> QED BY <1>1, EndedRows, ClaimStep DEF CancelSuspended, IInv

LEMMA HoldEventStep ==
  ASSUME IInv, NEW r \in Run, HoldEvent(r)
  PROVE  IInv'
<1>1. Typed' /\ Listed' /\ row' = row
  BY DEF HoldEvent, IInv, Typed, Listed, Suspended, Run
<1>2. \A q \in Run : IsReconciled(q) => IsReconciled(q)'
  BY DEF HoldEvent, IsReconciled
<1> QED BY <1>1, <1>2, Read

LEMMA dispatchStep ==
  ASSUME IInv, NEW e \in Event, dispatch(e)
  PROVE  IInv'
<1> DEFINE chosen == Chosen(e.workflow, e.skipBlockedOnOperator)
<1>1. ASSUME NEW r \in chosen PROVE r \in Run
  BY DEF Chosen, PickDeepest, AwaitingEvent, HoldingLeaves, ActiveRuns, Leaves
<1>2. CASE StartNewRun(e.workflow)
  BY <1>2, StartNewRunStep
<1>3. ASSUME NEW r \in chosen, Resume(r) \/ HoldEvent(r) \/ FailUnresumable(r) PROVE IInv'
  BY <1>1, <1>3, GoesOnStep, HoldEventStep, FailUnresumableStep DEF Resume
<1> QED BY <1>2, <1>3 DEF dispatch

LEMMA SuspendStep ==
  ASSUME IInv, NEW r \in Run, Suspend(r)
  PROVE  IInv'
<1>1. PICK waits \in SUBSET {"event", "operator"}, calls \in SUBSET Called(r) :
        row' = [row EXCEPT ![r].status = "suspended", ![r].waits = waits,
                          ![r].calls = calls, ![r].first = FALSE]
  BY DEF Suspend
<1> DEFINE y == [row[r] EXCEPT !.status = "suspended", !.waits = waits,
                               !.calls = calls, !.first = FALSE]
<1>2. row \in [Run -> Rows] /\ calls \in SUBSET Run
  BY DEF IInv, Typed, Called
<1>3. row' = [row EXCEPT ![r] = y]
  BY <1>1, <1>2 DEF Rows
<1>4. y \in Rows /\ y.parent = row[r].parent /\ y.status = "suspended"
  <2>1. row[r] \in Rows
    BY <1>2
  <2> QED BY <1>2, <2>1 DEF Rows
<1>5. Passed(r) /\ r \in queue'
  BY DEF Suspend, Suspended, Passed, IInv, Typed
<1>6. y # Absent /\ row[r] # Absent
  BY <1>4, Present DEF Suspend
<1>7. y.parent # None => y.parent < r
  BY <1>4 DEF IInv, Numbered
<1> HIDE DEF y
<1> QED BY <1>3, <1>4, <1>5, <1>6, <1>7, Written

LEMMA EndStep ==
  ASSUME IInv, NEW r \in Run, End(r)
  PROVE  IInv'
<1>1. /\ EndedRow(r) \in Rows /\ EndedRow(r).parent = row[r].parent
      /\ EndedRow(r).status = "ended" /\ EndedRow(r) # Absent
      /\ r \in EndedFollowUps(r) /\ EndedFollowUps(r) \subseteq Run
  BY EndedRows DEF IInv
<1>2. Passed(r) /\ r \in queue'
  BY <1>1 DEF End, Suspended, Passed, IInv, Typed
<1>3. row[r] # Absent
  BY Present DEF End
<1>4. EndedRow(r).parent # None => EndedRow(r).parent < r
  BY <1>1 DEF IInv, Numbered
<1> QED BY <1>1, <1>2, <1>3, <1>4, Written DEF End

\* What is owed to the children of a run that is reconciled is owed by its listing.
LEMMA ListChildrenStep ==
  ASSUME IInv, NEW r \in Run, ListChildren(r)
  PROVE  IInv'
<1> DEFINE look == [run |-> r, children |-> SuspendedChildren(r)]
<1>1. /\ row' = row /\ queue' = queue \ {r} /\ looks' = looks \cup {look}
      /\ abandoned' = abandoned /\ cancelled' = cancelled
  BY DEF ListChildren
<1>2. /\ look \in [run : Run, children : SUBSET Run] /\ look.run = r
      /\ look.children = {q \in Run : Suspended(q) /\ row[q].parent = r}
  BY DEF SuspendedChildren, ChildrenOf, ActiveRuns, Active, Suspended
<1> HIDE DEF look
<1>3. Typed'
  BY <1>1, <1>2 DEF IInv, Typed
<1>4. Listed'
  BY <1>1, <1>2 DEF IInv, Listed, Suspended
<1>5. ASSUME NEW q \in Run, Suspended(q), IsReconciled(q) PROVE IsReconciled(q)'
  BY <1>1, <1>2, <1>5 DEF IsReconciled
<1> QED BY <1>1, <1>3, <1>4, <1>5, Read

\* What a reconcile owes to the run or to its children is owed by what it finds abandoned.
LEMMA ReadRunStep ==
  ASSUME IInv, NEW look \in looks, ReadRun(look)
  PROVE  IInv'
<1> DEFINE c == look.run
<1>1. /\ row' = row /\ queue' = queue /\ looks' = looks \ {look}
      /\ abandoned' = abandoned \cup Abandoned(look) /\ cancelled' = cancelled
  BY DEF ReadRun
<1>2. c \in Run /\ look.children \subseteq Run /\ Abandoned(look) \subseteq Run
  BY DEF IInv, Typed, Abandoned
<1>3. Typed'
  BY <1>1, <1>2 DEF IInv, Typed
<1>4. Listed'
  BY <1>1 DEF IInv, Listed, Suspended
<1>5. ASSUME NEW q \in Run, Suspended(q), ~IsWaitedOn(q), IsReconciled(q) PROVE IsReconciled(q)'
  <2> DEFINE p == row[q].parent
  <2>1. CASE look.run = q
    BY <1>1, <1>5, <2>1 DEF Abandoned, IsReconciled
  <2>2. CASE look.run = p /\ q \in look.children
    <3>1. p \in Abandoned(look) \/ q \in Abandoned(look)
      BY <1>5, <2>2 DEF Abandoned
    <3> QED BY <1>1, <3>1 DEF IsReconciled
  <2>3. CASE ~(look.run = q \/ (look.run = p /\ q \in look.children))
    <3>1. CASE \E l \in looks : l.run = q \/ (l.run = p /\ q \in l.children)
      BY <1>1, <2>3, <3>1 DEF IsReconciled
    <3>2. CASE {q, p} \cap (queue \cup abandoned) # {} \/ p \in cancelled
      BY <1>1, <3>2 DEF IsReconciled
    <3> QED BY <1>5, <3>1, <3>2 DEF IsReconciled
  <2> QED BY <2>1, <2>2, <2>3
<1> QED BY <1>1, <1>3, <1>4, <1>5, Read

LEMMA ListDescendantsStep ==
  ASSUME IInv, NEW r \in Run, ListDescendants(r)
  PROVE  IInv'
<1>1. /\ row' = row /\ queue' = queue /\ looks' = looks
      /\ abandoned' = abandoned \cup SuspendedChildren(r) /\ cancelled' = cancelled \ {r}
  BY DEF ListDescendants
<1>2. SuspendedChildren(r) = {q \in Run : Suspended(q) /\ row[q].parent = r}
  BY DEF SuspendedChildren, ChildrenOf, ActiveRuns, Active, Suspended
<1>3. Typed' /\ Listed'
  BY <1>1, <1>2 DEF IInv, Typed, Listed, Suspended
<1>4. ASSUME NEW q \in Run, Suspended(q), IsReconciled(q) PROVE IsReconciled(q)'
  BY <1>1, <1>2, <1>4 DEF IsReconciled
<1> QED BY <1>1, <1>3, <1>4, Read

LEMMA InitIInv == Init => IInv
<1> SUFFICES ASSUME Init PROVE IInv
  OBVIOUS
<1>1. Absent \in Rows /\ Absent.parent = None
  BY DEF Absent, Row, Rows
<1>2. \A r \in Run : row[r] = Absent /\ ~Suspended(r)
  BY Present DEF Init, Suspended
<1>3. Typed
  BY <1>1 DEF Init, Typed
<1> QED
  BY <1>1, <1>2, <1>3 DEF Init, IInv, Numbered, Listed, Owed

LEMMA NextIInv == IInv /\ [Next]_vars => IInv'
<1> SUFFICES ASSUME IInv, [Next]_vars PROVE IInv'
  OBVIOUS
<1>1. CASE UNCHANGED vars
  <2>1. /\ row' = row /\ queue' = queue /\ looks' = looks
        /\ abandoned' = abandoned /\ cancelled' = cancelled
    BY <1>1 DEF vars, reconciling
  <2>2. Typed' /\ Listed' /\ \A r \in Run : IsReconciled(r) => IsReconciled(r)'
    BY <2>1 DEF IInv, Typed, Listed, Suspended, IsReconciled
  <2> QED BY <2>1, <2>2, Read
<1>2. ASSUME NEW e \in Event, dispatch(e) PROVE IInv'
  BY <1>2, dispatchStep
<1>3. ASSUME NEW w \in Workflow \cup {None}, StartNewRun(w) PROVE IInv'
  BY <1>3, StartNewRunStep
<1>4. ASSUME NEW look \in looks, ReadRun(look) PROVE IInv'
  BY <1>4, ReadRunStep
<1>5. ASSUME NEW r \in Run, NEW w \in Workflow, CallWorkflow(r, w) PROVE IInv'
  BY <1>5, CallWorkflowStep
<1>6. ASSUME NEW r \in Run,
             Suspend(r) \/ End(r) \/ FailUnresumable(r) \/ Decide(r) \/ CancelRun(r)
      PROVE  IInv'
  BY <1>6, SuspendStep, EndStep, FailUnresumableStep, GoesOnStep, CancelRunStep DEF Decide
<1>7. ASSUME NEW r \in Run, NEW q \in Run, Deliver(r, q) PROVE IInv'
  BY <1>7, GoesOnStep DEF Deliver
<1>8. ASSUME NEW r \in Run, ListChildren(r) \/ CancelSuspended(r) \/ ListDescendants(r)
      PROVE  IInv'
  BY <1>8, ListChildrenStep, CancelSuspendedStep, ListDescendantsStep
<1> QED BY <1>1, <1>2, <1>3, <1>4, <1>5, <1>6, <1>7, <1>8 DEF Next

LEMMA Invariance == Spec => []IInv
<1> QED BY InitIInv, NextIInv, PTL DEF Spec

----------------------------------------------------------------------------
\* The theorem.

LEMMA WellRouted == IInv => EventsAreWellRouted
<1> SUFFICES ASSUME IInv, NEW e \in Event,
                    NEW r \in Chosen(e.workflow, e.skipBlockedOnOperator),
                    NEW q \in StackOf[r], Suspended(q), ~IsWaitedOn(q)
             PROVE  IsReconciled(q)
  BY DEF EventsAreWellRouted
<1>1. r \in Run
  BY DEF Chosen, PickDeepest, AwaitingEvent, HoldingLeaves, ActiveRuns, Leaves
<1>2. q \in Run
  BY <1>1, StackBelow, BoundsAssumption DEF IInv, Run
<1> QED BY <1>2 DEF IInv, Owed

\* All that is suspended from the run an event is given up to its root or to a pass is
\* waited on by its caller, unless the reconcile that is to cancel it is not over: for any
\* number of runs, workflows, calls and reconciles going on (findSuspendedRunByInitiator,
\* and cancelAbandonedRuns after each pass).
THEOREM EventsReachAwaitedRuns == Spec => []EventsAreWellRouted
BY Invariance, WellRouted, PTL

============================================================================
