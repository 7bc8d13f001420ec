--------------------------- MODULE EventDispatch ---------------------------
(***************************************************************************)
(* Which run of a conversation takes an inbound event: the choice of       *)
(* findSuspendedRunByInitiator (services/workflow-run.service.ts) and what *)
(* dispatch does with it (services/agentic.service.ts), among runs that    *)
(* call each other, suspend and end, and that are reconciled some time     *)
(* after: an event may come before the runs that nothing waits on any more *)
(* are cancelled.                                                          *)
(*                                                                         *)
(* A claim and the write under it are one step: a stale choice loses its   *)
(* claim (WorkflowRunClaims).  Who does a reconcile, and what it delivers, *)
(* is WorkflowCallStack's subject.                                         *)
(***************************************************************************)
EXTENDS FiniteSets, Naturals

CONSTANTS MaxRuns,       \* bound: runs the conversation may have
          Workflow,      \* workflows they may run
          None,          \* no caller, no requested workflow
          MaxDepth,      \* MAX_CALL_STACK_DEPTH
          MaxLooks       \* bound: reconciles between their two queries at a time

ASSUME BoundsAssumption == MaxRuns \in Nat /\ MaxDepth \in Nat \ {0} /\ MaxLooks \in Nat
ASSUME NoneAssumption == None \notin Workflow \cup (1 .. MaxRuns)

VARIABLES row,           \* workflow_runs of one initiator and thread
          queue,         \* runs some worker is to reconcile
          looks,         \* reconciles that listed the suspended children of a run
          abandoned,     \* suspended runs some worker is to cancel
          cancelled      \* cancelled runs whose children are still to be listed

reconciling == <<queue, looks, abandoned, cancelled>>
vars == <<row, reconciling>>

----------------------------------------------------------------------------
(* Rows *)

\* Runs, in the order they start in.
Run == 1 .. MaxRuns

\* A checkpoint waits on an inbound event, on an admin, and on runs it called.
\* "first": the run has not suspended yet.
Row(status, workflow, parent, first) ==
  [status |-> status, workflow |-> workflow, parent |-> parent, waits |-> {}, calls |-> {},
   first |-> first]

Absent == Row("absent", None, None, FALSE)
NewRun(w, p) == Row("running", w, p, TRUE)
EndedRow(r) == Row("ended", row[r].workflow, row[r].parent, row[r].first)

\* The next run to start, if the bound leaves one.
Fresh == {r \in Run : row[r] = Absent /\ \A q \in 1 .. r - 1 : row[q] # Absent}

Active(r) == row[r].status \in {"running", "suspended"}
ActiveRuns == {r \in Run : Active(r)}
CalledByActive(r) == row[r].parent # None /\ Active(row[r].parent)
Suspended(r) == row[r].status = "suspended"
ChildrenOf(r) == {q \in ActiveRuns : row[q].parent = r}

\* A run and its callers.
CallersOf[r \in Run] == {r} \cup IF row[r].parent = None THEN {} ELSE CallersOf[row[r].parent]

\* Those of them that active runs link it to: what runsById of the conversation has.
StackOf[r \in Run] ==
  {r} \cup IF CalledByActive(r) THEN StackOf[row[r].parent] ELSE {}

Init ==
  /\ row = [r \in Run |-> Absent]
  /\ queue = {} /\ looks = {} /\ abandoned = {} /\ cancelled = {}

----------------------------------------------------------------------------
(* findSuspendedRunByInitiator, for an event that may request workflow w *)

InWorkflowStack(r, w) == \E q \in StackOf[r] : row[q].workflow = w

IsCandidate(r, w) == Suspended(r) /\ (w = None \/ InWorkflowStack(r, w))

AwaitingEvent(w) == {r \in ActiveRuns : IsCandidate(r, w) /\ "event" \in row[r].waits}

\* It can only go on through an admin.
IsBlockedOnOperator(r) == "operator" \in row[r].waits /\ "event" \notin row[r].waits

Leaves == {r \in ActiveRuns : ChildrenOf(r) = {}}

HoldingLeaves(w, skipBlockedOnOperator) ==
  {r \in Leaves : /\ IsCandidate(r, w)
                  /\ ~(skipBlockedOnOperator /\ IsBlockedOnOperator(r))}

\* Of the deepest ones, the code takes that which suspended last: any of them here.
PickDeepest(S) ==
  LET depth == [r \in S |-> Cardinality(StackOf[r])]
  IN {r \in S : \A q \in S : depth[q] <= depth[r]}

Chosen(w, skipBlockedOnOperator) ==
  LET asking == AwaitingEvent(w)
  IN PickDeepest(IF asking # {} THEN asking ELSE HoldingLeaves(w, skipBlockedOnOperator))

----------------------------------------------------------------------------
(* Writes *)

\* A run claimed on its suspension: whoever else read it suspended loses its claim.
Claim(r) ==
  /\ Suspended(r)
  /\ abandoned' = abandoned \ {r}
  /\ looks' = {[l EXCEPT !.children = @ \ {r}] : l \in looks}

\* (The waits of a run in a pass are looked at by nobody: they are left out.)
GoesOn(r) ==
  /\ Claim(r)
  /\ row' = [row EXCEPT ![r].status = "running", ![r].waits = {}, ![r].calls = {}]
  /\ UNCHANGED <<queue, cancelled>>

\* endedFollowUps: the run, and its caller.
EndedFollowUps(r) == {r, row[r].parent} \ {None}

Starts(r, w, p) == row' = [row EXCEPT ![r] = NewRun(w, p)] /\ UNCHANGED reconciling

----------------------------------------------------------------------------
(* dispatch *)

\* A run of the requested workflow, or of some workflow.
StartNewRun(w) == \E r \in Fresh, u \in Workflow : w \in {None, u} /\ Starts(r, u, None)

\* The event resolves a wait of the chosen run.
Resume(r) == "event" \in row[r].waits /\ GoesOn(r)

\* The event has nothing to resolve: the chosen run keeps it off, and is reconciled.
HoldEvent(r) ==
  /\ "event" \notin row[r].waits
  /\ queue' = queue \cup {r}
  /\ UNCHANGED <<row, looks, abandoned, cancelled>>

\* The run can never be resumed, or refuses the result of a run it called: it fails.
FailUnresumable(r) ==
  /\ Claim(r)
  /\ row' = [row EXCEPT ![r] = EndedRow(r)]
  /\ queue' = queue \cup EndedFollowUps(r)
  /\ UNCHANGED cancelled

\* An event of a conversation may request a workflow; a schedule or a webhook does, and
\* passes by what only an admin resumes.
Event == {e \in [workflow : Workflow \cup {None}, skipBlockedOnOperator : BOOLEAN] :
            e.skipBlockedOnOperator => e.workflow # None}

\* A new run starts when none is chosen.  (It also starts once the chosen one failed, and
\* a webhook may ask for that: StartNewRun in Next.)  A refused event changes nothing.
dispatch(e) ==
  LET chosen == Chosen(e.workflow, e.skipBlockedOnOperator) IN
  \/ chosen = {} /\ StartNewRun(e.workflow)
  \/ \E r \in chosen : Resume(r) \/ HoldEvent(r) \/ FailUnresumable(r)

----------------------------------------------------------------------------
(* Passes *)

\* assertCanCallWorkflow: neither a cycle, nor too deep a stack.
CanCall(r, w) ==
  /\ Cardinality(CallersOf[r]) < MaxDepth
  /\ \A q \in CallersOf[r] : row[q].workflow # w

\* callWorkflow, by a pass or by a body that timed out in one: the run it belongs to may
\* be suspended or have ended by then, which nothing checks.
CallWorkflow(r, w) ==
  /\ row[r] # Absent
  /\ CanCall(r, w)
  /\ \E q \in Fresh : Starts(q, w, r)

\* Runs a wait of r can name: their call returned because they suspended.
Called(r) == {q \in Run : row[q] # Absent /\ row[q].parent = r /\ ~row[q].first}

\* A pass suspends, is refused, or is put back; it is then reconciled.
Suspend(r) ==
  /\ row[r].status = "running"
  /\ \E waits \in SUBSET {"event", "operator"}, calls \in SUBSET Called(r) :
       /\ waits # {} \/ calls # {}
       /\ row' = [row EXCEPT ![r].status = "suspended", ![r].waits = waits,
                             ![r].calls = calls, ![r].first = FALSE]
  /\ queue' = queue \cup {r}
  /\ UNCHANGED <<looks, abandoned, cancelled>>

\* A pass finishes or fails.
End(r) ==
  /\ row[r].status = "running"
  /\ row' = [row EXCEPT ![r] = EndedRow(r)]
  /\ queue' = queue \cup EndedFollowUps(r)
  /\ UNCHANGED <<looks, abandoned, cancelled>>

\* An admin decides a wait or cancels the run; the result of an ended run is delivered.
Decide(r) == "operator" \in row[r].waits /\ GoesOn(r)

CancelRun(r) ==
  /\ Claim(r)
  /\ row' = [row EXCEPT ![r] = EndedRow(r)]
  /\ cancelled' = cancelled \cup {r}
  /\ queue' = queue \cup EndedFollowUps(r)

Deliver(r, q) == q \in row[r].calls /\ row[q].status = "ended" /\ GoesOn(r)

----------------------------------------------------------------------------
(* The reconcile of a run: cancelAbandonedRuns and what it calls *)

\* isWaitedOnBy: its caller is in a pass, or suspended on a wait for it.
IsWaitedOn(r) ==
  \/ row[r].parent = None
  \/ /\ CalledByActive(r)
     /\ Suspended(row[r].parent) => r \in row[row[r].parent].calls

SuspendedChildren(r) == {q \in ChildrenOf(r) : Suspended(q)}

\* The children of a run are listed before the run is read.
ListChildren(r) ==
  /\ r \in queue
  /\ Cardinality(looks) < MaxLooks
  /\ queue' = queue \ {r}
  /\ looks' = looks \cup {[run |-> r, children |-> SuspendedChildren(r)]}
  /\ UNCHANGED <<row, abandoned, cancelled>>

\* Mutant: a run is not asked whether its caller still waits on it.
Abandoned_Below(look) == {q \in look.children : ~IsWaitedOn(q)}

\* The run itself if its caller does not wait on it, else those it does not wait on;
\* none as long as it is in a pass.
Abandoned(look) ==
  IF Suspended(look.run) /\ ~IsWaitedOn(look.run)
  THEN {look.run}
  ELSE {q \in look.children : ~IsWaitedOn(q)}

ReadRun(look) ==
  /\ look \in looks
  /\ looks' = looks \ {look}
  /\ abandoned' = abandoned \cup Abandoned(look)
  /\ UNCHANGED <<row, queue, cancelled>>

\* cancelSuspended, then cancelSuspendedDescendants.
CancelSuspended(r) ==
  /\ r \in abandoned
  /\ Claim(r)
  /\ row' = [row EXCEPT ![r] = EndedRow(r)]
  /\ cancelled' = cancelled \cup {r}
  /\ UNCHANGED queue

ListDescendants(r) ==
  /\ r \in cancelled
  /\ cancelled' = cancelled \ {r}
  /\ abandoned' = abandoned \cup SuspendedChildren(r)
  /\ UNCHANGED <<row, queue, looks>>

----------------------------------------------------------------------------
Next ==
  \/ \E e \in Event : dispatch(e)
  \/ \E w \in Workflow \cup {None} : StartNewRun(w)
  \/ \E look \in looks : ReadRun(look)
  \/ \E r \in Run :
       \/ \E w \in Workflow : CallWorkflow(r, w)
       \/ Suspend(r) \/ End(r) \/ FailUnresumable(r) \/ Decide(r) \/ CancelRun(r)
       \/ \E q \in Run : Deliver(r, q)
       \/ ListChildren(r) \/ CancelSuspended(r) \/ ListDescendants(r)

Spec == Init /\ [][Next]_vars

----------------------------------------------------------------------------
(* Properties *)

\* Somebody is about to cancel the run, or to look whether its caller waits on it.
IsReconciled(r) ==
  LET p == row[r].parent IN
  \/ {r, p} \cap (queue \cup abandoned) # {}
  \/ p \in cancelled
  \/ \E l \in looks : l.run = r \/ (l.run = p /\ r \in l.children)

\* An event may go to a run whose result nobody takes, or whose caller's result nobody
\* takes, only while the reconcile that is to cancel it goes on: once that is over, all
\* that is suspended between the run an event is given and its root is waited on, up to a
\* pass.  Else "they would receive the next events of their conversation"
\* (cancelAbandonedRuns), in whatever order passes, events, late calls, cancels and the
\* queries of reconciles come.
EventsAreWellRouted ==
  \A e \in Event : \A r \in Chosen(e.workflow, e.skipBlockedOnOperator) :
    \A q \in StackOf[r] : Suspended(q) /\ ~IsWaitedOn(q) => IsReconciled(q)

\* "runs of a stack this workflow is part of, below or above it, still match": the
\* comment of findSuspendedRunByInitiator, on the workflow an event requests.  A run that
\* asks for the event is a candidate for the workflow of a run above or below it that does
\* not, if all those between are waited on.  (It does not hold: isRunInWorkflowStack walks
\* up from the candidate only.)
StackRunsMatch ==
  \A r, q \in ActiveRuns :
    /\ Suspended(r) /\ "event" \in row[r].waits
    /\ Suspended(q) /\ "event" \notin row[q].waits
    /\ r \in StackOf[q] \/ q \in StackOf[r]
    /\ \A p \in StackOf[q] \cup StackOf[r] : IsWaitedOn(p)
    => IsCandidate(r, row[q].workflow)
============================================================================
